------------------------- MODULE ClusterClientProofs -------------------------
(***************************************************************************)
(* For any number of calls, faults and reconnect attempts: the types of    *)
(* the client's life cycle, and that no interleaving leaves the reports of *)
(* losses suppressed.  What a thread does after a shared procedure depends *)
(* on the thread, so the invariant says which threads can be where.        *)
(***************************************************************************)
EXTENDS ClusterClient, TLAPS

InConnect == {"connect", "connecting", "aeron", "start_polling", "set_polling",
              "spawn_poller", "egress", "session", "reset_notified", "reset_progress",
              "resume", "clear_fatal", "connected"}
InDisconnect == {"disconnect", "suppress", "close_session", "stop", "join", "disconnected", "unsuppress"}
InReport == {"report", "exchange", "end_polling", "lost", "schedule", "spawn_auto"}

(* Where each thread can be. *)
PcInv ==
  /\ pc["app"] \in {"idle", "join_auto", "destroyed"} \cup InConnect \cup InDisconnect
  /\ pc["auto"] \in {"none", "done", "stop", "join", "loop", "close_session",
                     "unsuppress", "auto_notified", "auto_progress", "give_up"}
                    \cup InConnect
  /\ pc["poller"] \in {"none", "poll", "done"} \cup InDisconnect \cup InReport
  /\ pc["driver"] \in {"idle", "stop", "join", "close_session"} \cup InReport
  /\ pc["sender"] \in {"idle"} \cup InReport

(* The destructor is marked as such only until it calls disconnect(). *)
CallerInv == callerWants = "destructor" => pc["app"] \in {"stop", "join"}

(* SuppressionEnds, thread by thread. *)
Scope == {"close_session", "stop", "join", "disconnected", "unsuppress"}
ScopeInv ==
  client.suppress_disconnect_notifications_ =>
    \/ pc["app"] \in Scope /\ callerWants # "destructor"
    \/ pc["poller"] \in Scope
    \/ pc["auto"] \in {"close_session", "unsuppress"}

ClientInv == TypeOK /\ PcInv /\ CallerInv /\ ScopeInv

(* Setting a field other than suppress_disconnect_notifications_ keeps the *)
(* type of the client, and what is suppressed.                             *)
ClientKept ==
  /\ client' \in ClientFields
  /\ client'.suppress_disconnect_notifications_ = client.suppress_disconnect_notifications_

LEMMA FlagSet ==
  ASSUME client \in ClientFields, NEW b \in BOOLEAN,
         \/ client' = [client EXCEPT !.polling_active_ = b]
         \/ client' = [client EXCEPT !.aeron_ = b]
         \/ client' = [client EXCEPT !.disconnect_notified_ = b]
         \/ client' = [client EXCEPT !.reconnect_in_progress_ = b]
         \/ client' = [client EXCEPT !.fatal_error_detected_ = b]
         \/ client' = [client EXCEPT !.auto_reconnect_enabled_ = b]
  PROVE  ClientKept
BY DEF ClientFields, ClientKept

LEMMA StateSet ==
  ASSUME client \in ClientFields, NEW b \in BOOLEAN,
         NEW state \in {"DISCONNECTED", "CONNECTING", "CONNECTED", "FAILED"},
         \/ client' = [client EXCEPT !.connection_state_ = state]
         \/ client' = [client EXCEPT !.connection_state_ = state, !.aeron_ = b]
  PROVE  ClientKept
BY DEF ClientFields, ClientKept

LEMMA SuppressionSet ==
  ASSUME client \in ClientFields, NEW b \in BOOLEAN, NEW a \in BOOLEAN,
         \/ client' = [client EXCEPT !.suppress_disconnect_notifications_ = b]
         \/ client' = [client EXCEPT !.suppress_disconnect_notifications_ = b, !.aeron_ = a]
  PROVE  /\ client' \in ClientFields
         /\ client'.suppress_disconnect_notifications_ = b
BY DEF ClientFields

(* connect() never suppresses a report. *)
LEMMA ConnectLemma ==
  ASSUME ClientInv, raced' \in BOOLEAN, NEW t \in Connectors, ConnectStep(t)
  PROVE  ClientInv'
<1> USE ClientAssumption DEF ClientInv, PcInv, CallerInv, ScopeInv, Scope, Connectors, Goto,
        TypeOK, Threads, Disconnectors, Reporters, Pc, InConnect, InDisconnect, InReport,
        otherVars, localVars, sessionVars, boundVars
<1> client \in ClientFields /\ TRUE \in BOOLEAN /\ FALSE \in BOOLEAN
  OBVIOUS
<1>1. CASE ConnectCheck(t)
  BY <1>1 DEF ConnectCheck, AfterConnect
<1>2. CASE SetConnecting(t)
  <2>1. ClientKept
    BY <1>2, StateSet, Zenon DEF SetConnecting
  <2> QED BY <1>2, <2>1 DEF SetConnecting, ClientKept
<1>3. CASE InitializeAeron(t)
  <2>1. ClientKept
    BY <1>3, FlagSet, Zenon DEF InitializeAeron
  <2> QED BY <1>3, <2>1 DEF InitializeAeron, ClientKept
<1>4. CASE StartPolling(t)
  BY <1>4 DEF StartPolling
<1>5. CASE SetPolling(t)
  <2>1. ClientKept
    BY <1>5, FlagSet, Zenon DEF SetPolling
  <2> QED BY <1>5, <2>1 DEF SetPolling, ClientKept
<1>6. CASE SpawnPoller(t)
  <2>1. terminated' \in BOOLEAN
    BY <1>6, Zenon DEF SpawnPoller
  <2> QED BY <1>6, <2>1 DEF SpawnPoller
<1>7. CASE CreateEgressSubscription(t)
  <2>1. requested' \in BOOLEAN
    BY <1>7, Zenon DEF CreateEgressSubscription
  <2> QED BY <1>7, <2>1 DEF CreateEgressSubscription
<1>8. CASE SessionConnected(t)
  BY <1>8 DEF SessionConnected
<1>9. CASE SessionTimesOut(t)
  <2>1. ClientKept
    BY <1>9, StateSet, Zenon DEF SessionTimesOut, ConnectFails, AfterConnect
  <2> QED BY <1>9, <2>1 DEF SessionTimesOut, ConnectFails, AfterConnect, ClientKept
<1>10. CASE ResetNotified(t)
  <2>1. ClientKept
    BY <1>10, FlagSet, Zenon DEF ResetNotified
  <2> QED BY <1>10, <2>1 DEF ResetNotified, ClientKept
<1>11. CASE ResetProgress(t)
  <2>1. ClientKept
    BY <1>11, FlagSet, Zenon DEF ResetProgress
  <2> QED BY <1>11, <2>1 DEF ResetProgress, ClientKept
<1>12. CASE Resume(t)
  <2>1. ClientKept
    BY <1>12, FlagSet, StateSet, Zenon DEF Resume, ConnectFails, AfterConnect, ClientKept
  <2> QED BY <1>12, <2>1 DEF Resume, ConnectFails, AfterConnect, ClientKept
<1>13. CASE ClearDriverErrorState(t)
  <2>1. ClientKept
    BY <1>13, FlagSet, Zenon DEF ClearDriverErrorState
  <2> QED BY <1>13, <2>1 DEF ClearDriverErrorState, ClientKept
<1>14. CASE SetConnected(t)
  <2>1. ClientKept
    BY <1>14, StateSet, Zenon DEF SetConnected, AfterConnect
  <2> QED BY <1>14, <2>1 DEF SetConnected, AfterConnect, ClientKept
<1> QED BY <1>1, <1>2, <1>3, <1>4, <1>5, <1>6, <1>7, <1>8, <1>9, <1>10, <1>11, <1>12,
           <1>13, <1>14 DEF ConnectStep

(* disconnect() and stop_polling(), in whatever thread: the one that resets  *)
(* the flag ends the suppression of all.                                   *)
LEMMA DisconnectLemma ==
  ASSUME ClientInv, raced' \in BOOLEAN, NEW t \in Threads, DisconnectStep(t)
  PROVE  ClientInv'
<1> USE ClientAssumption DEF ClientInv, PcInv, CallerInv, ScopeInv, Scope, Connectors, Goto,
        TypeOK, Threads, Disconnectors, Reporters, Pc, InConnect, InDisconnect, InReport,
        otherVars, localVars, sessionVars, boundVars
<1> client \in ClientFields /\ TRUE \in BOOLEAN /\ FALSE \in BOOLEAN
  OBVIOUS
<1>1. CASE DisconnectBegin(t)
  <2>1. was_connected' \in [Disconnectors -> BOOLEAN]
    BY <1>1 DEF DisconnectBegin
  <2> QED BY <1>1, <2>1 DEF DisconnectBegin
<1>2. CASE Suppress(t)
  <2>1. client' \in ClientFields
    BY <1>2, SuppressionSet, Zenon DEF Suppress
  <2> QED BY <1>2, <2>1 DEF Suppress
<1>3. CASE CloseSession(t)
  <2>1. session' \in BOOLEAN /\ requested' \in BOOLEAN /\ allows' \in BOOLEAN
    BY <1>3, Zenon DEF CloseSession, AfterClose
  <2> QED BY <1>3, <2>1 DEF CloseSession, AfterClose
<1>4. CASE StopPolling(t)
  <2>1. ClientKept
    BY <1>4, FlagSet, Zenon DEF StopPolling
  <2> QED BY <1>4, <2>1 DEF StopPolling, ClientKept
<1>5. CASE JoinPoller(t)
  <2>1. breaks' \in BOOLEAN
    BY <1>5, Zenon DEF JoinPoller
  <2> QED BY <1>5, <2>1 DEF JoinPoller, AfterStop
<1>6. CASE SetDisconnected(t)
  <2>1. ClientKept
    BY <1>6, StateSet, Zenon DEF SetDisconnected
  <2> QED BY <1>6, <2>1 DEF SetDisconnected, ClientKept
<1>7. CASE Unsuppress(t)
  <2>1. client' \in ClientFields /\ client'.suppress_disconnect_notifications_ = FALSE
    <3>1. (t # "auto" /\ client.aeron_) \in BOOLEAN
      OBVIOUS
    <3> QED BY <1>7, <3>1, SuppressionSet, Zenon DEF Unsuppress
  <2>2. was_connected' \in [Disconnectors -> BOOLEAN]
    BY <1>7, Zenon DEF Unsuppress
  <2> QED BY <1>7, <2>1, <2>2 DEF Unsuppress, AfterDisconnect
<1> QED BY <1>1, <1>2, <1>3, <1>4, <1>5, <1>6, <1>7 DEF DisconnectStep

(* A report only reads the flag. *)
LEMMA ReportLemma ==
  ASSUME ClientInv, raced' \in BOOLEAN, NEW t \in Reporters, ReportStep(t)
  PROVE  ClientInv'
<1> USE ClientAssumption DEF ClientInv, PcInv, CallerInv, ScopeInv, Scope, Connectors, Goto,
        TypeOK, Threads, Disconnectors, Reporters, Pc, InConnect, InDisconnect, InReport,
        otherVars, localVars, sessionVars, boundVars
<1> client \in ClientFields /\ TRUE \in BOOLEAN /\ FALSE \in BOOLEAN
  OBVIOUS
<1>1. CASE ReportUnlessSuppressed(t)
  BY <1>1 DEF ReportUnlessSuppressed, AfterReport
<1>2. CASE ReportOnce(t)
  <2>1. ClientKept
    BY <1>2, FlagSet, Zenon DEF ReportOnce, AfterReport
  <2> QED BY <1>2, <2>1 DEF ReportOnce, AfterReport, ClientKept
<1>3. CASE EndPolling(t)
  <2>1. ClientKept
    BY <1>3, FlagSet, Zenon DEF EndPolling
  <2> QED BY <1>3, <2>1 DEF EndPolling, ClientKept
<1>4. CASE SetLost(t)
  <2>1. ClientKept
    BY <1>4, StateSet, Zenon DEF SetLost, AfterReport
  <2>2. allows' \in BOOLEAN
    BY <1>4, Zenon DEF SetLost
  <2> QED BY <1>4, <2>1, <2>2 DEF SetLost, AfterReport, ClientKept
<1>5. CASE Schedule(t)
  <2>1. ClientKept
    BY <1>5, FlagSet, StateSet, Zenon DEF Schedule, AfterReport, ClientKept
  <2> QED BY <1>5, <2>1 DEF Schedule, AfterReport, ClientKept
<1>6. CASE SpawnAuto(t)
  BY <1>6 DEF SpawnAuto, AfterReport
<1> QED BY <1>1, <1>2, <1>3, <1>4, <1>5, <1>6 DEF ReportStep

(* The auto-reconnect thread suppresses reports only around its cleanup. *)
LEMMA AutoLemma ==
  ASSUME ClientInv, raced' \in BOOLEAN, AutoStep
  PROVE  ClientInv'
<1> USE ClientAssumption DEF ClientInv, PcInv, CallerInv, ScopeInv, Scope, Connectors, Goto,
        TypeOK, Threads, Disconnectors, Reporters, Pc, InConnect, InDisconnect, InReport,
        otherVars, localVars, sessionVars, boundVars
<1> client \in ClientFields /\ TRUE \in BOOLEAN /\ FALSE \in BOOLEAN
  OBVIOUS
<1>1. CASE AutoLoop
  <2>1. client' \in ClientFields
    BY <1>1, SuppressionSet, Zenon DEF AutoLoop
  <2> QED BY <1>1, <2>1 DEF AutoLoop
<1>2. CASE AutoNotified
  <2>1. ClientKept
    BY <1>2, FlagSet, Zenon DEF AutoNotified
  <2> QED BY <1>2, <2>1 DEF AutoNotified, ClientKept
<1>3. CASE AutoEnds
  <2>1. ClientKept
    BY <1>3, FlagSet, Zenon DEF AutoEnds
  <2> QED BY <1>3, <2>1 DEF AutoEnds, ClientKept
<1> QED BY <1>1, <1>2, <1>3 DEF AutoStep

(* The polling thread, and the application's disconnect() on it. *)
LEMMA PollLemma ==
  ASSUME ClientInv, raced' \in BOOLEAN,
         \/ PollEnds \/ DeliverOk \/ PollFindsLoss
         \/ PollStalls \/ DeliverLoss \/ CallbackDisconnects
  PROVE  ClientInv'
<1> USE ClientAssumption DEF ClientInv, PcInv, CallerInv, ScopeInv, Scope, Connectors, Goto,
        TypeOK, Threads, Disconnectors, Reporters, Pc, InConnect, InDisconnect, InReport,
        otherVars, localVars, sessionVars, boundVars
<1> client \in ClientFields /\ TRUE \in BOOLEAN /\ FALSE \in BOOLEAN
  OBVIOUS
<1>1. CASE PollEnds
  BY <1>1 DEF PollEnds
<1>2. CASE DeliverOk
  <2>1. ClientKept
    BY <1>2, FlagSet, Zenon DEF DeliverOk
  <2>2. session' \in BOOLEAN /\ requested' \in BOOLEAN
    BY <1>2, Zenon DEF DeliverOk
  <2> QED BY <1>2, <2>1, <2>2 DEF DeliverOk, ClientKept
<1>3. CASE PollFindsLoss
  <2>1. breaks' \in BOOLEAN
    BY <1>3, Zenon DEF PollFindsLoss, PollReports, Fault
  <2> QED BY <1>3, <2>1 DEF PollFindsLoss, PollReports, Fault
<1>4. CASE PollStalls
  <2>1. breaks' \in BOOLEAN
    BY <1>4, Zenon DEF PollStalls, PollReports, Fault
  <2> QED BY <1>4, <2>1 DEF PollStalls, PollReports, Fault
<1>5. CASE DeliverLoss
  <2>1. breaks' \in BOOLEAN /\ session' \in BOOLEAN /\ requested' \in BOOLEAN
    BY <1>5, Zenon DEF DeliverLoss, PollReports, Fault
  <2> QED BY <1>5, <2>1 DEF DeliverLoss, PollReports, Fault
<1>6. CASE CallbackDisconnects
  BY <1>6 DEF CallbackDisconnects
<1> QED BY <1>1, <1>2, <1>3, <1>4, <1>5, <1>6

(* The calls of the application, the failures, and the end of the process. *)
LEMMA EnvironmentLemma ==
  ASSUME ClientInv, raced' \in BOOLEAN,
         \/ DriverError \/ OfferFails \/ CallConnect \/ set_auto_reconnect
         \/ \E wants \in {"close", "reconnect", "destructor"} : CallDisconnect(wants)
         \/ \E t \in Connectors : ConnectFault(t)
         \/ JoinedTwice \/ Destroyed
  PROVE  ClientInv'
<1> USE ClientAssumption DEF ClientInv, PcInv, CallerInv, ScopeInv, Scope, Connectors, Goto,
        TypeOK, Threads, Disconnectors, Reporters, Pc, InConnect, InDisconnect, InReport,
        otherVars, localVars, sessionVars, boundVars
<1> client \in ClientFields /\ TRUE \in BOOLEAN /\ FALSE \in BOOLEAN
  OBVIOUS
<1>1. CASE DriverError
  <2>1. ClientKept
    BY <1>1, FlagSet, Zenon DEF DriverError, Fault
  <2> QED BY <1>1, <2>1 DEF DriverError, Fault, ClientKept
<1>2. CASE OfferFails
  <2>1. session' \in BOOLEAN
    BY <1>2, Zenon DEF OfferFails, Fault
  <2> QED BY <1>2, <2>1 DEF OfferFails, Fault
<1>3. CASE CallConnect
  BY <1>3 DEF CallConnect, Call
<1>4. CASE set_auto_reconnect
  <2>1. ClientKept
    BY <1>4, FlagSet, Zenon DEF set_auto_reconnect, Call
  <2> QED BY <1>4, <2>1 DEF set_auto_reconnect, Call, ClientKept
<1>5. CASE JoinedTwice
  <2>1. terminated' \in BOOLEAN
    BY <1>5, Zenon DEF JoinedTwice
  <2> QED BY <1>5, <2>1 DEF JoinedTwice
<1>6. CASE Destroyed
  <2>1. terminated' \in BOOLEAN
    BY <1>6, Zenon DEF Destroyed
  <2> QED BY <1>6, <2>1 DEF Destroyed
<1>7. ASSUME NEW wants \in {"close", "reconnect", "destructor"}, CallDisconnect(wants)
      PROVE  ClientInv'
  BY <1>7 DEF CallDisconnect, Call
<1>8. ASSUME NEW t \in Connectors, ConnectFault(t)
      PROVE  ClientInv'
  <2>1. ClientKept
    BY <1>8, StateSet, Zenon DEF ConnectFault, ConnectFails
  <2> QED BY <1>8, <2>1 DEF ConnectFault, ConnectFails, AfterConnect, Fault, ClientKept
<1> QED BY <1>1, <1>2, <1>3, <1>4, <1>5, <1>6, <1>7, <1>8

(* ClientInv is an invariant of every life of a client. *)
THEOREM ClientInvariant == Spec => []ClientInv
<1>1. Init => ClientInv
  <2> SUFFICES ASSUME Init PROVE ClientInv
    OBVIOUS
  <2>1. client \in ClientFields /\ client.suppress_disconnect_notifications_ = FALSE
    <3>1. PICK enabled \in BOOLEAN :
            client = [connection_state_ |-> "DISCONNECTED", auto_reconnect_enabled_ |-> enabled,
                      reconnect_in_progress_ |-> FALSE, disconnect_notified_ |-> FALSE,
                      suppress_disconnect_notifications_ |-> FALSE,
                      fatal_error_detected_ |-> FALSE, polling_active_ |-> FALSE,
                      aeron_ |-> FALSE]
      BY DEF Init
    <3>2. \A f \in BOOLEAN :
            [connection_state_ |-> "DISCONNECTED", auto_reconnect_enabled_ |-> enabled,
             reconnect_in_progress_ |-> f, disconnect_notified_ |-> f,
             suppress_disconnect_notifications_ |-> f, fatal_error_detected_ |-> f,
             polling_active_ |-> f, aeron_ |-> f] \in ClientFields
      BY DEF ClientFields
    <3> QED BY <3>1, <3>2, Zenon
  <2>2. 0 \in 0..MaxReconnectAttempts /\ MaxCalls \in 0..MaxCalls /\ MaxFaults \in 0..MaxFaults
    BY ClientAssumption
  <2>3. was_connected \in [Disconnectors -> BOOLEAN]
    BY Zenon DEF Init
  <2>4. PcInv /\ pc \in [Threads -> Pc]
    BY DEF Init, PcInv, Threads, Pc
  <2>5. callerWants = "close"
    BY DEF Init
  <2>6. CallerInv /\ callerWants \in {"close", "reconnect", "destructor", "destroy"}
    BY <2>5 DEF CallerInv
  <2> QED BY <2>1, <2>2, <2>3, <2>4, <2>6, Zenon DEF Init, ClientInv, TypeOK, ScopeInv
<1>2. ClientInv /\ [Next]_vars => ClientInv'
  <2> SUFFICES ASSUME ClientInv, [Next]_vars PROVE ClientInv'
    OBVIOUS
  <2>0. raced' \in BOOLEAN
    BY Zenon DEF Next, Remember, vars, ClientInv, TypeOK
  <2>1. ASSUME NEW t \in Threads, ThreadStep(t) PROVE ClientInv'
    BY <2>0, <2>1, ConnectLemma, DisconnectLemma, ReportLemma, AutoLemma, PollLemma,
       EnvironmentLemma, Zenon DEF ThreadStep, PollStep
  <2>2. CASE Environment
    BY <2>0, <2>2, PollLemma, EnvironmentLemma, Zenon DEF Environment
  <2>3. CASE JoinedTwice \/ \E t \in Connectors : ConnectFault(t)
    BY <2>0, <2>3, EnvironmentLemma
  <2>4. CASE UNCHANGED vars
    BY <2>4 DEF vars, stepVars, otherVars, localVars, sessionVars, boundVars, ClientInv, TypeOK, PcInv,
       CallerInv, ScopeInv
  <2> QED BY <2>1, <2>2, <2>3, <2>4 DEF Next
<1> QED BY <1>1, <1>2, PTL DEF Spec

(* Type correctness of the client's life cycle, whatever overlaps. *)
THEOREM ClientTypes == Spec => []TypeOK
BY ClientInvariant, PTL DEF ClientInv

(* No interleaving of disconnect(), on whatever thread, with the cleanup   *)
(* of the auto-reconnect thread leaves losses unreported for good.         *)
THEOREM SuppressionIsScoped == Spec => []SuppressionEnds
<1>1. ClientInv => SuppressionEnds
  BY DEF ClientInv, ScopeInv, SuppressionEnds, Suppressing, Scope, Threads, Disconnectors
<1> QED BY <1>1, ClientInvariant, PTL
=============================================================================
