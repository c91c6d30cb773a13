---------------------------- MODULE ClusterClient ----------------------------
(***************************************************************************)
(* The life of a ClusterClient::Impl: connect(), disconnect(), the         *)
(* destructor, the polling thread, the Aeron error handler, the report of  *)
(* a lost connection and the auto-reconnect thread that it may start.      *)
(*                                                                         *)
(* The session manager is reduced to what this class sees of it: whether   *)
(* is_connected() (session), and whether a connect request may still be    *)
(* answered (requested).  Session and SessionConnect model the rest.       *)
(*                                                                         *)
(* Every thread runs the procedures below by program counter; a step is    *)
(* one access to a field that another thread uses.                         *)
(***************************************************************************)
EXTENDS Integers

CONSTANTS
  MaxReconnectAttempts,  \* PerformanceConfig::MAX_RECONNECT_ATTEMPTS (10)
  Committed,             \* a tracked subscription has a commit to resume from
  MaxCalls,              \* bound: calls of the application
  MaxFaults              \* bound: failures of the environment

ASSUME ClientAssumption ==
  /\ MaxReconnectAttempts \in Nat /\ Committed \in BOOLEAN
  /\ MaxCalls \in Nat /\ MaxFaults \in Nat

VARIABLES
  client,          \* the fields of ClusterClient::Impl that threads share (ClientFields)
  pc,              \* per thread, what it does next
  was_connected,   \* per thread, the local of disconnect()
  attempt,         \* the loop counter of the auto-reconnect thread
  breaks,          \* the polling loop ends when its report returns
  allows,          \* the error handler's report may start a reconnection
  callerWants,     \* what follows disconnect() in the application's call
  session,         \* session_manager_->is_connected()
  requested,       \* external: a connect request may still be answered
  terminated,      \* std::terminate: a joinable std::thread was overwritten or
                   \* destroyed, or a thread was joined twice
  raced,           \* history: a race has cost the client its polling thread (Remember)
  calls, faults

localVars == <<was_connected, attempt, breaks, allows, callerWants>>
sessionVars == <<session, requested>>
boundVars == <<calls, faults>>
otherVars == <<localVars, sessionVars, terminated, boundVars>>
stepVars == <<client, pc, otherVars>>
vars == <<stepVars, raced>>

(* aeron_ stands for whether the pointer is set. *)
ClientFields ==
  [connection_state_ : {"DISCONNECTED", "CONNECTING", "CONNECTED", "FAILED"},
   auto_reconnect_enabled_ : BOOLEAN,
   reconnect_in_progress_ : BOOLEAN,
   disconnect_notified_ : BOOLEAN,
   suppress_disconnect_notifications_ : BOOLEAN,
   fatal_error_detected_ : BOOLEAN,
   polling_active_ : BOOLEAN,
   aeron_ : BOOLEAN]

(* app: the thread that calls the client; auto: auto_reconnect_thread_;    *)
(* poller: polling_thread_; driver: Aeron's conductor, which runs the      *)
(* error handler; sender: a publisher or keepalive thread.                 *)
Threads == {"app", "auto", "poller", "driver", "sender"}
Connectors == {"app", "auto"}
Disconnectors == {"app", "poller"}
Reporters == {"poller", "driver", "sender"}

(* Where a thread can be: outside the client; in connect(); in             *)
(* disconnect(), stop_polling() and the destructor; in the polling loop    *)
(* and the report of a loss; in the loop of the auto-reconnect thread.     *)
Pc == {"none", "idle", "done", "destroyed"} \cup
      {"connect", "connecting", "aeron", "start_polling", "set_polling", "spawn_poller",
       "egress", "session", "reset_notified", "reset_progress", "resume", "clear_fatal",
       "connected"} \cup
      {"disconnect", "suppress", "close_session", "stop", "join", "disconnected", "unsuppress", "join_auto"} \cup
      {"poll", "report", "exchange", "end_polling", "lost", "schedule", "spawn_auto"} \cup
      {"loop", "auto_notified", "auto_progress", "give_up"}

TypeOK ==
  /\ client \in ClientFields
  /\ pc \in [Threads -> Pc]
  /\ was_connected \in [Disconnectors -> BOOLEAN]
  /\ attempt \in 0..MaxReconnectAttempts
  /\ breaks \in BOOLEAN /\ allows \in BOOLEAN
  /\ callerWants \in {"close", "reconnect", "destructor", "destroy"}
  /\ session \in BOOLEAN /\ requested \in BOOLEAN
  /\ terminated \in BOOLEAN /\ raced \in BOOLEAN
  /\ calls \in 0..MaxCalls /\ faults \in 0..MaxFaults

Init ==
  /\ \E enabled \in BOOLEAN :
       client = [connection_state_ |-> "DISCONNECTED", auto_reconnect_enabled_ |-> enabled,
                 reconnect_in_progress_ |-> FALSE, disconnect_notified_ |-> FALSE,
                 suppress_disconnect_notifications_ |-> FALSE,
                 fatal_error_detected_ |-> FALSE, polling_active_ |-> FALSE,
                 aeron_ |-> FALSE]
  /\ pc = [t \in Threads |-> IF t \in {"auto", "poller"} THEN "none" ELSE "idle"]
  /\ was_connected = [t \in Disconnectors |-> FALSE]
  /\ attempt = 0 /\ breaks = FALSE /\ allows = FALSE /\ callerWants = "close"
  /\ session = FALSE /\ requested = FALSE
  /\ terminated = FALSE /\ raced = FALSE
  /\ calls = MaxCalls /\ faults = MaxFaults

Goto(t, label) == pc' = [pc EXCEPT ![t] = label]

Fault == faults > 0 /\ faults' = faults - 1

(* No call, report or reconnection is under way. *)
Settled ==
  /\ \A t \in {"app", "driver", "sender"} : pc[t] = "idle"
  /\ pc["auto"] \in {"none", "done"}
  /\ pc["poller"] \in {"none", "poll", "done"}

-----------------------------------------------------------------------------
(* connect(), by the application or by the auto-reconnect thread.          *)

AfterConnect(t, ok) ==
  CASE t = "app" -> "idle"
    [] t = "auto" /\ ok -> "auto_notified"
    [] t = "auto" /\ ~ok -> "stop"

ConnectCheck(t) ==
  /\ pc[t] = "connect"
  /\ Goto(t, IF client.connection_state_ = "CONNECTED" THEN AfterConnect(t, TRUE)
             ELSE "connecting")
  /\ UNCHANGED <<client, otherVars>>

SetConnecting(t) ==
  /\ pc[t] = "connecting"
  /\ client' = [client EXCEPT !.connection_state_ = "CONNECTING"]
  /\ Goto(t, "aeron")
  /\ UNCHANGED otherVars

InitializeAeron(t) ==
  /\ pc[t] = "aeron"
  /\ client' = [client EXCEPT !.aeron_ = TRUE]
  /\ Goto(t, "start_polling")
  /\ UNCHANGED otherVars

(* start_polling tests and sets the flag in two steps.                     *)
StartPolling(t) ==
  /\ pc[t] = "start_polling"
  /\ Goto(t, IF client.polling_active_ THEN "egress" ELSE "set_polling")
  /\ UNCHANGED <<client, otherVars>>

SetPolling(t) ==
  /\ pc[t] = "set_polling"
  /\ client' = [client EXCEPT !.polling_active_ = TRUE]
  /\ Goto(t, "spawn_poller")
  /\ UNCHANGED otherVars

(* Assigning to polling_thread_ calls std::terminate if its thread was not *)
(* joined, and a thread that has ended by itself was not.                  *)
SpawnPoller(t) ==
  /\ pc[t] = "spawn_poller"
  /\ \/ /\ pc["poller"] = "none"
        /\ pc' = [pc EXCEPT ![t] = "egress", !["poller"] = "poll"]
        /\ UNCHANGED terminated
     \/ /\ pc["poller"] # "none"
        /\ terminated' = TRUE
        /\ UNCHANGED pc
  /\ UNCHANGED <<client, localVars, sessionVars, boundVars>>

CreateEgressSubscription(t) ==
  /\ pc[t] = "egress"
  /\ requested' = TRUE
  /\ Goto(t, "session")
  /\ UNCHANGED <<client, localVars, session, terminated, boundVars>>

SessionConnected(t) ==
  /\ pc[t] = "session" /\ session
  /\ Goto(t, "reset_notified")
  /\ UNCHANGED <<client, otherVars>>

ConnectFails(t) ==
  /\ client' = [client EXCEPT !.connection_state_ = "FAILED"]
  /\ Goto(t, AfterConnect(t, FALSE))
  /\ UNCHANGED <<localVars, sessionVars, terminated, calls>>

(* Nobody polls, or there is no answer left: the session timeout expires.  *)
SessionTimesOut(t) ==
  /\ pc[t] = "session" /\ ~session
  /\ ~requested \/ pc["poller"] # "poll"
  /\ ConnectFails(t)
  /\ UNCHANGED faults

(* A step of connect() fails, or the answer comes too late.                *)
ConnectFault(t) ==
  /\ \/ pc[t] \in {"aeron", "egress"}
     \/ pc[t] = "session" /\ ~session
  /\ Fault
  /\ ConnectFails(t)

ResetNotified(t) ==
  /\ pc[t] = "reset_notified"
  /\ client' = [client EXCEPT !.disconnect_notified_ = FALSE]
  /\ Goto(t, "reset_progress")
  /\ UNCHANGED otherVars

ResetProgress(t) ==
  /\ pc[t] = "reset_progress"
  /\ client' = [client EXCEPT !.reconnect_in_progress_ = FALSE]
  /\ Goto(t, "resume")
  /\ UNCHANGED otherVars

(* resume_subscribed_topics sends nothing yet (CommitTracking), but        *)
(* send_commit_offset throws while a driver error is on record.            *)
Resume(t) ==
  /\ pc[t] = "resume"
  /\ \/ client.fatal_error_detected_ /\ Committed /\ ConnectFails(t)
     \/ /\ ~(client.fatal_error_detected_ /\ Committed)
        /\ Goto(t, "clear_fatal")
        /\ UNCHANGED <<client, localVars, sessionVars, terminated, calls>>
  /\ UNCHANGED faults

ClearDriverErrorState(t) ==
  /\ pc[t] = "clear_fatal"
  /\ client' = [client EXCEPT !.fatal_error_detected_ = FALSE]
  /\ Goto(t, "connected")
  /\ UNCHANGED otherVars

SetConnected(t) ==
  /\ pc[t] = "connected"
  /\ client' = [client EXCEPT !.connection_state_ = "CONNECTED"]
  /\ Goto(t, AfterConnect(t, TRUE))
  /\ UNCHANGED otherVars

ConnectStep(t) ==
  \/ ConnectCheck(t) \/ SetConnecting(t) \/ InitializeAeron(t) \/ StartPolling(t)
  \/ SetPolling(t) \/ SpawnPoller(t) \/ CreateEgressSubscription(t) \/ SessionConnected(t)
  \/ SessionTimesOut(t) \/ ResetNotified(t) \/ ResetProgress(t) \/ Resume(t)
  \/ ClearDriverErrorState(t) \/ SetConnected(t)

-----------------------------------------------------------------------------
(* disconnect(), by the application or by its callback on the polling      *)
(* thread, and the parts of it that other threads run as well.             *)

DisconnectBegin(t) ==
  /\ pc[t] = "disconnect"
  /\ was_connected' = [was_connected EXCEPT ![t] = (client.connection_state_ = "CONNECTED")]
  /\ Goto(t, "suppress")
  /\ UNCHANGED <<client, attempt, breaks, allows, callerWants, sessionVars, terminated,
                 boundVars>>

Suppress(t) ==
  /\ pc[t] = "suppress"
  /\ client' = [client EXCEPT !.suppress_disconnect_notifications_ = TRUE]
  /\ Goto(t, "close_session")
  /\ UNCHANGED otherVars

(* session_manager_->disconnect() *)
AfterClose(t) ==
  CASE t \in Disconnectors -> IF was_connected[t] THEN "stop" ELSE "unsuppress"
    [] t = "auto" -> "unsuppress"
    [] t = "driver" -> "report"

(* The publication is reset, so no late answer counts (Session).  In the   *)
(* error handler the offer of the close request may fail and report the    *)
(* loss itself, as one that allows the client to reconnect.                *)
CloseSession(t) ==
  /\ pc[t] = "close_session"
  /\ session' = FALSE /\ requested' = FALSE
  /\ \E refused \in (IF t = "driver" /\ session THEN BOOLEAN ELSE {FALSE}) :
       allows' = IF t = "driver" THEN refused ELSE allows
  /\ Goto(t, AfterClose(t))
  /\ UNCHANGED <<client, was_connected, attempt, breaks, callerWants, terminated, boundVars>>

StopPolling(t) ==
  /\ pc[t] = "stop"
  /\ client' = [client EXCEPT !.polling_active_ = FALSE]
  /\ Goto(t, "join")
  /\ UNCHANGED otherVars

AfterStop(t) ==
  CASE t = "app" -> IF callerWants = "destructor" THEN "disconnect" ELSE "disconnected"
    [] t = "poller" -> "disconnected"
    [] t = "auto" -> "loop"
    [] t = "driver" -> "close_session"

(* Two threads wait in stop_polling() for the end of the same thread.      *)
BothJoin ==
  /\ pc["poller"] # "none"
  /\ \E t, u \in Threads \ {"poller"} : t # u /\ pc[t] = "join" /\ pc[u] = "join"

(* The end of stop_polling(): the polling thread does not join itself.     *)
JoinPoller(t) ==
  /\ pc[t] = "join"
  /\ \/ t = "poller" /\ Goto(t, AfterStop(t))
     \/ /\ t # "poller" /\ pc["poller"] \in {"none", "done"} /\ ~BothJoin
        /\ pc' = [pc EXCEPT ![t] = AfterStop(t), !["poller"] = "none"]
  /\ callerWants' = IF t = "app" /\ callerWants = "destructor" THEN "destroy" ELSE callerWants
  /\ breaks' = FALSE
  /\ UNCHANGED <<client, was_connected, attempt, allows, sessionVars, terminated, boundVars>>

(* A thread is joined by two threads, or joined by one and replaced by the *)
(* other: undefined; the second join of pthreads fails, and the exception  *)
(* ends the process.                                                       *)
JoinedTwice ==
  /\ \/ BothJoin
     \/ \E t, u \in Threads : t # u /\ {pc[t], pc[u]} \subseteq {"spawn_auto", "join_auto"}
  /\ terminated' = TRUE
  /\ UNCHANGED <<client, pc, localVars, sessionVars, boundVars>>

SetDisconnected(t) ==
  /\ pc[t] = "disconnected"
  /\ client' = [client EXCEPT !.connection_state_ = "DISCONNECTED", !.aeron_ = FALSE]
  /\ Goto(t, "unsuppress")
  /\ UNCHANGED otherVars

(* The guard object of disconnect() is destroyed as the call returns; the  *)
(* auto-reconnect thread resets the flag and then aeron_.                  *)
AfterDisconnect(t) ==
  CASE t = "app" /\ callerWants = "close" -> "idle"
    [] t = "app" /\ callerWants = "reconnect" -> "connect"
    [] t = "app" /\ callerWants = "destroy" -> "join_auto"
    [] t = "poller" -> "poll"
    [] t = "auto" -> "connect"

(* Mutant: disconnect() resets the flag only on the path of a connected    *)
(* client.                                                                 *)
Unsuppress_Connected(t) ==
  /\ pc[t] = "unsuppress"
  /\ client' = [client EXCEPT !.suppress_disconnect_notifications_ =
                                t \in Disconnectors /\ ~was_connected[t],
                              !.aeron_ = t # "auto" /\ client.aeron_]
  /\ Goto(t, AfterDisconnect(t))
  /\ was_connected' = [u \in Disconnectors |-> u # t /\ was_connected[u]]
  /\ callerWants' = IF t = "app" THEN "close" ELSE callerWants
  /\ UNCHANGED <<attempt, breaks, allows, sessionVars, terminated, boundVars>>

Unsuppress(t) ==
  /\ pc[t] = "unsuppress"
  /\ client' = [client EXCEPT !.suppress_disconnect_notifications_ = FALSE,
                              !.aeron_ = t # "auto" /\ client.aeron_]
  /\ Goto(t, AfterDisconnect(t))
  /\ was_connected' = [u \in Disconnectors |-> u # t /\ was_connected[u]]
  /\ callerWants' = IF t = "app" THEN "close" ELSE callerWants
  /\ UNCHANGED <<attempt, breaks, allows, sessionVars, terminated, boundVars>>

DisconnectStep(t) ==
  \/ DisconnectBegin(t) \/ Suppress(t) \/ CloseSession(t) \/ StopPolling(t) \/ JoinPoller(t)
  \/ SetDisconnected(t) \/ Unsuppress(t)

(* The end of the destructor: the members are destroyed, and a polling     *)
(* thread that still, or again, is joinable with them.                     *)
Destroyed ==
  /\ pc["app"] = "join_auto" /\ pc["auto"] \in {"none", "done"}
  /\ \/ pc["poller"] = "none" /\ Goto("app", "destroyed") /\ UNCHANGED terminated
     \/ pc["poller"] # "none" /\ terminated' = TRUE /\ UNCHANGED pc
  /\ UNCHANGED <<client, localVars, sessionVars, boundVars>>

-----------------------------------------------------------------------------
(* notify_connection_loss(), by the polling thread, the Aeron error handler*)
(* or a sender, and schedule_auto_reconnect().                             *)

AfterReport(t) == IF t # "poller" THEN "idle" ELSE IF breaks THEN "done" ELSE "poll"

ReportUnlessSuppressed(t) ==
  /\ pc[t] = "report"
  /\ Goto(t, IF client.suppress_disconnect_notifications_ THEN AfterReport(t)
             ELSE "exchange")
  /\ UNCHANGED <<client, otherVars>>

ReportOnce(t) ==
  /\ pc[t] = "exchange"
  /\ Goto(t, IF client.disconnect_notified_ THEN AfterReport(t) ELSE "end_polling")
  /\ client' = [client EXCEPT !.disconnect_notified_ = TRUE]
  /\ UNCHANGED otherVars

EndPolling(t) ==
  /\ pc[t] = "end_polling"
  /\ client' = [client EXCEPT !.polling_active_ = FALSE]
  /\ Goto(t, "lost")
  /\ UNCHANGED otherVars

(* Mutant: the new state is left to the auto-reconnect thread.             *)
SetLost_Unset(t) ==
  /\ pc[t] = "lost"
  /\ client' = [client EXCEPT !.connection_state_ =
                   IF client.auto_reconnect_enabled_ THEN @ ELSE "DISCONNECTED"]
  /\ Goto(t, IF client.auto_reconnect_enabled_ /\ (t = "driver" => allows) THEN "schedule"
             ELSE AfterReport(t))
  /\ allows' = (allows /\ t # "driver")
  /\ UNCHANGED <<was_connected, attempt, breaks, callerWants, sessionVars, terminated, boundVars>>

(* The error handler's own report does not allow the client to reconnect.  *)
SetLost(t) ==
  /\ pc[t] = "lost"
  /\ client' = [client EXCEPT !.connection_state_ = "DISCONNECTED"]
  /\ Goto(t, IF client.auto_reconnect_enabled_ /\ (t = "driver" => allows) THEN "schedule"
             ELSE AfterReport(t))
  /\ allows' = (allows /\ t # "driver")
  /\ UNCHANGED <<was_connected, attempt, breaks, callerWants, sessionVars, terminated, boundVars>>

Schedule(t) ==
  /\ pc[t] = "schedule"
  /\ \/ /\ client.auto_reconnect_enabled_ /\ ~client.reconnect_in_progress_
        /\ client' = [client EXCEPT !.reconnect_in_progress_ = TRUE]
        /\ Goto(t, "spawn_auto")
     \/ /\ ~client.auto_reconnect_enabled_ \/ client.reconnect_in_progress_
        /\ Goto(t, AfterReport(t))
        /\ UNCHANGED client
  /\ UNCHANGED otherVars

(* The previous auto-reconnect thread is joined first. *)
SpawnAuto(t) ==
  /\ pc[t] = "spawn_auto" /\ pc["auto"] \in {"none", "done"}
  /\ pc' = [pc EXCEPT ![t] = AfterReport(t), !["auto"] = "stop"]
  /\ attempt' = 0
  /\ UNCHANGED <<client, was_connected, breaks, allows, callerWants, sessionVars, terminated,
                 boundVars>>

ReportStep(t) ==
  \/ ReportUnlessSuppressed(t) \/ ReportOnce(t) \/ EndPolling(t) \/ SetLost(t)
  \/ Schedule(t) \/ SpawnAuto(t)

-----------------------------------------------------------------------------
(* polling_worker() *)

(* Mutant: the loop does not look at the flag.                             *)
PollEnds_Untold ==
  /\ pc["poller"] = "poll"
  /\ client.connection_state_ = "DISCONNECTED"
  /\ Goto("poller", "done")
  /\ UNCHANGED <<client, otherVars>>

(* The loop ends: it was told to, or finds the state DISCONNECTED in its   *)
(* grace period.                                                           *)
PollEnds ==
  /\ pc["poller"] = "poll"
  /\ ~client.polling_active_ \/ client.connection_state_ = "DISCONNECTED"
  /\ Goto("poller", "done")
  /\ UNCHANGED <<client, otherVars>>

PollReports(ends) ==
  /\ pc["poller"] = "poll"
  /\ Goto("poller", "report")
  /\ breaks' = ends
  /\ UNCHANGED <<client, was_connected, attempt, allows, callerWants, terminated, calls>>

(* After the grace period of 15 seconds the client must be connected; a    *)
(* connect() that takes longer is a fault.                                 *)
PollFindsLoss ==
  /\ client.polling_active_
  /\ ~(client.connection_state_ = "CONNECTED" /\ session)
  /\ IF client.connection_state_ = "CONNECTING" THEN Fault ELSE UNCHANGED faults
  /\ PollReports(TRUE)
  /\ UNCHANGED sessionVars

(* The image is gone, the health check fails, or the delivery stalls: the  *)
(* session manager is not told.                                            *)
PollStalls ==
  /\ client.polling_active_ /\ client.connection_state_ = "CONNECTED"
  /\ Fault
  /\ PollReports(TRUE)
  /\ UNCHANGED sessionVars

(* handle_session_ok and on_session_connection_state_changed(true). *)
DeliverOk ==
  /\ pc["poller"] = "poll" /\ requested
  /\ session' = TRUE /\ requested' = FALSE
  /\ client' = [client EXCEPT !.disconnect_notified_ = FALSE]
  /\ UNCHANGED <<pc, localVars, terminated, boundVars>>

(* The cluster closes the session, or refuses one: on_session_event and    *)
(* on_session_connection_state_changed(false) report the loss.             *)
DeliverLoss ==
  /\ \/ session /\ UNCHANGED requested
     \/ ~session /\ requested /\ requested' = FALSE
  /\ Fault
  /\ session' = FALSE
  /\ PollReports(FALSE)

(* The application's callback calls disconnect() on the polling thread.    *)
CallbackDisconnects ==
  /\ pc["poller"] = "poll" /\ client.connection_state_ = "CONNECTED"
  /\ calls > 0 /\ calls' = calls - 1
  /\ Goto("poller", "disconnect")
  /\ UNCHANGED <<client, localVars, sessionVars, terminated, faults>>

PollStep == PollEnds \/ DeliverOk \/ (PollFindsLoss /\ UNCHANGED faults)

-----------------------------------------------------------------------------
(* handle_aeron_error(), and the callback of a sender's failed offer.      *)

DriverError ==
  /\ pc["driver"] = "idle" /\ ~client.fatal_error_detected_
  /\ client.aeron_
  /\ Fault
  /\ client' = [client EXCEPT !.fatal_error_detected_ = TRUE]
  /\ Goto("driver", "stop")
  /\ UNCHANGED <<localVars, sessionVars, terminated, calls>>

OfferFails ==
  /\ pc["sender"] = "idle" /\ session
  /\ Fault
  /\ session' = FALSE
  /\ Goto("sender", "report")
  /\ UNCHANGED <<client, localVars, requested, terminated, calls>>

-----------------------------------------------------------------------------
(* The auto-reconnect thread, which starts and continues with              *)
(* stop_polling().                                                         *)

(* Mutants: one attempt too many, and one too few.                         *)
AutoLoop_Bound(last) ==
  /\ pc["auto"] = "loop"
  /\ \/ /\ client.auto_reconnect_enabled_ /\ attempt < last
        /\ attempt' = attempt + 1
        /\ client' = [client EXCEPT !.suppress_disconnect_notifications_ = TRUE]
        /\ Goto("auto", "close_session")
     \/ /\ ~client.auto_reconnect_enabled_ \/ attempt >= last
        /\ Goto("auto", "give_up")
        /\ UNCHANGED <<client, attempt>>
  /\ UNCHANGED <<was_connected, breaks, allows, callerWants, sessionVars, terminated, boundVars>>
AutoLoop_OneMore == AutoLoop_Bound(MaxReconnectAttempts + 1)
AutoLoop_OneLess == AutoLoop_Bound(MaxReconnectAttempts - 1)

(* auto_reconnect_enabled_ is read before and after RECONNECT_DELAY; the   *)
(* later value decides.                                                    *)
AutoLoop ==
  /\ pc["auto"] = "loop"
  /\ \/ /\ client.auto_reconnect_enabled_ /\ attempt < MaxReconnectAttempts
        /\ attempt' = attempt + 1
        /\ client' = [client EXCEPT !.suppress_disconnect_notifications_ = TRUE]
        /\ Goto("auto", "close_session")
     \/ /\ ~client.auto_reconnect_enabled_ \/ attempt = MaxReconnectAttempts
        /\ Goto("auto", "give_up")
        /\ UNCHANGED <<client, attempt>>
  /\ UNCHANGED <<was_connected, breaks, allows, callerWants, sessionVars, terminated, boundVars>>

AutoNotified ==
  /\ pc["auto"] = "auto_notified"
  /\ client' = [client EXCEPT !.disconnect_notified_ = FALSE]
  /\ Goto("auto", "auto_progress")
  /\ UNCHANGED otherVars

AutoEnds ==
  /\ pc["auto"] \in {"auto_progress", "give_up"}
  /\ client' = [client EXCEPT !.reconnect_in_progress_ = FALSE]
  /\ Goto("auto", "done")
  /\ attempt' = 0
  /\ UNCHANGED <<was_connected, breaks, allows, callerWants, sessionVars, terminated, boundVars>>

AutoStep == AutoLoop \/ AutoNotified \/ AutoEnds

-----------------------------------------------------------------------------
(* The application's calls: connect(), disconnect(), reconnect_async() and *)
(* the destructor, and set_auto_reconnect().                               *)

Call ==
  /\ pc["app"] = "idle"
  /\ calls > 0 /\ calls' = calls - 1

CallConnect ==
  /\ Call
  /\ Goto("app", "connect")
  /\ UNCHANGED <<client, localVars, sessionVars, terminated, faults>>

CallDisconnect(wants) ==
  /\ Call
  /\ Goto("app", IF wants = "destructor" THEN "stop" ELSE "disconnect")
  /\ callerWants' = wants
  /\ UNCHANGED <<client, was_connected, attempt, breaks, allows, sessionVars, terminated, faults>>

set_auto_reconnect ==
  /\ Call
  /\ client' = [client EXCEPT !.auto_reconnect_enabled_ = ~client.auto_reconnect_enabled_]
  /\ UNCHANGED <<pc, localVars, sessionVars, terminated, faults>>

(* Thread u is in connect(), past the point where it is CONNECTING. *)
Connecting(u) ==
  pc[u] \in {"aeron", "start_polling", "set_polling", "spawn_poller", "egress", "session",
            "reset_notified", "reset_progress", "resume", "clear_fatal", "connected"}

(* Another thread ends the polling loop, or makes the client DISCONNECTED, *)
(* under a connect(), or is about to as the connect() ends: a report,      *)
(* stop_polling() after another connect() has failed, or disconnect().     *)
Overtakes ==
  \E t \in Threads : \E u \in Connectors \ {t} :
    /\ pc[t] \in {"end_polling", "lost", "stop", "disconnected"}
    /\ Connecting(u)
    /\ pc'[t] # pc[t] \/ (pc[u] = "connected" /\ pc'[u] # pc[u])

(* A report of a loss is suppressed, or taken for one that another thread  *)
(* has made already, or starts no reconnection because one is in progress. *)
Swallows ==
  \E t \in Reporters :
    \/ pc[t] = "report" /\ pc'[t] \notin {"report", "exchange"}
    \/ pc[t] = "exchange" /\ pc'[t] \notin {"exchange", "end_polling"}
    \/ pc[t] = "schedule" /\ pc'[t] \notin {"schedule", "spawn_auto"}

(* The auto-reconnect thread stops the polling of a client that another    *)
(* connect() has made CONNECTED since the loss, or takes such a client for *)
(* one that it has reconnected: its own connect() returns at once.         *)
Belated ==
  /\ pc["auto"] \in {"stop", "connect"} /\ pc'["auto"] # pc["auto"]
  /\ client.connection_state_ = "CONNECTED"

(* A polling thread starts that will go on. *)
StartsAfresh ==
  /\ pc["poller"] = "none" /\ pc'["poller"] = "poll"
  /\ client.polling_active_ /\ client.connection_state_ # "DISCONNECTED"

Remember == raced' = (~StartsAfresh /\ (raced \/ Overtakes \/ Swallows \/ Belated))

Running == ~terminated /\ pc["app"] # "destroyed"

ThreadStep(t) ==
  \/ t \in Connectors /\ ConnectStep(t)
  \/ DisconnectStep(t)
  \/ t \in Reporters /\ ReportStep(t)
  \/ t = "poller" /\ PollStep
  \/ t = "auto" /\ AutoStep
  \/ t = "app" /\ Destroyed

(* What nobody promises will happen. *)
Environment ==
  \/ PollFindsLoss /\ Fault
  \/ PollStalls \/ DeliverLoss \/ DriverError \/ OfferFails
  \/ CallbackDisconnects \/ CallConnect \/ set_auto_reconnect
  \/ \E wants \in {"close", "reconnect", "destructor"} : CallDisconnect(wants)

Next ==
  /\ Running
  /\ \/ Environment
     \/ \E t \in Connectors : ConnectFault(t)
     \/ \E t \in Threads : ThreadStep(t)
     \/ JoinedTwice
  /\ Remember

SomeThread == Running /\ (JoinedTwice \/ \E t \in Threads : ThreadStep(t))

(* As long as some thread can go on, one does, and the cluster answers a   *)
(* connect request unless the environment interferes (ConnectFault).       *)
(* Fairness among the threads is not needed: without further calls and     *)
(* faults none of them goes on forever.                                    *)
Fairness == WF_stepVars(SomeThread)

Spec == Init /\ [][Next]_vars
FairSpec == Spec /\ Fairness

-----------------------------------------------------------------------------
(* Where a thread has set suppress_disconnect_notifications_ and has not   *)
(* reset it yet: the scopes of disconnect() and of AutoLoop.           *)
Suppressing(t) ==
  \/ /\ t \in Disconnectors
     /\ pc[t] \in {"close_session", "stop", "join", "disconnected", "unsuppress"}
     /\ t = "app" => callerWants # "destructor"
  \/ t = "auto" /\ pc[t] \in {"close_session", "unsuppress"}

(* Reports of a loss are suppressed only while some thread is inside       *)
(* disconnect() or the cleanup of the auto-reconnect thread: no            *)
(* interleaving of the scopes, which share one flag, leaves it set and so  *)
(* silences every later loss.                                              *)
SuppressionEnds ==
  client.suppress_disconnect_notifications_ => \E t \in Threads : Suppressing(t)

(* When no call, report or reconnection is under way, a client in state    *)
(* CONNECTED has a polling thread that runs and will go on, however losses *)
(* and calls overlap.  The only causes for which it has none (Remember):   *)
(* connect() stored CONNECTED over what a report, a disconnect() or a      *)
(* failed reconnection had stored meanwhile; a report was suppressed or    *)
(* skipped because of another one; or the auto-reconnect thread stopped    *)
(* the polling of a client that the application had connected meanwhile.   *)
ConnectedIsServed ==
  (Settled /\ client.connection_state_ = "CONNECTED")
    => (client.polling_active_ /\ pc["poller"] = "poll") \/ raced

(* The polling thread waits for the auto-reconnect thread to end before it *)
(* starts a new one, and the auto-reconnect thread waits in stop_polling() *)
(* for the polling thread.                                                 *)
JoinCycle == pc["poller"] = "spawn_auto" /\ pc["auto"] = "join"

(* stop_polling() clears the flag and then joins the polling thread; in    *)
(* between the auto-reconnect thread has set the flag again.               *)
PollingRestarts == pc["app"] = "join" /\ client.polling_active_

(* connect(), disconnect(), reconnect_async() and the destructor return,   *)
(* whatever is lost or reported meanwhile: as long as a call is under way  *)
(* some thread can go on, so that the threads that join each other never   *)
(* all wait.  The only two exceptions: the reporting polling thread and    *)
(* the auto-reconnect thread join each other, or a call joins a polling    *)
(* thread that was started after it told polling to stop.                  *)
CallsReturn ==
  (~ENABLED SomeThread)
    => pc["app"] \in {"idle", "destroyed"} \/ terminated \/ JoinCycle \/ PollingRestarts

(* A loss is repaired: once the auto-reconnect thread runs, the client is  *)
(* connected and polled again, whatever else is lost or called meanwhile.  *)
(* The only causes for which it is not: the application turns auto-        *)
(* reconnect off or goes; every attempt fails; a driver error (while it is *)
(* handled, or on record: it is cleared only after the subscriptions are   *)
(* resumed, and resuming from a commit throws because of it); a race of    *)
(* ConnectedIsServed; or the two threads wait for each other.              *)
LossIsRepaired ==
  (pc["auto"] = "loop" /\ client.auto_reconnect_enabled_)
    ~> (\/ client.connection_state_ = "CONNECTED" /\ session /\ pc["poller"] = "poll"
        \/ ~client.auto_reconnect_enabled_ \/ terminated \/ pc["app"] = "destroyed"
        \/ pc["auto"] = "give_up" /\ attempt = MaxReconnectAttempts
        \/ pc["driver"] # "idle" \/ (Committed /\ client.fatal_error_detected_)
        \/ raced \/ JoinCycle)

=============================================================================
