---------------------------- MODULE PollingWorker ----------------------------
(***************************************************************************)
(* The clocks of polling_worker(): the grace period, the health check and  *)
(* the delivery stall guard, with the connection changing under the loop.  *)
(*                                                                         *)
(* ClusterClient models what a report does; here the question is when one  *)
(* is made.  Time points of the code are kept as ages, how long ago they   *)
(* were, in ticks.                                                         *)
(***************************************************************************)
EXTENDS Integers

CONSTANTS
  GracePeriod,         \* connection_grace_period (15 s)
  HealthInterval,      \* health_check_interval (10 s)
  DisconnectTimeout,   \* delivery_stall_disconnect_timeout (15 s); 0 if disabled
  LegacyIdleTimeout,   \* legacy_idle_timeout (60 s)
  Slack,               \* an iteration starts at most this long after the previous one
  MaxAge               \* bound: ages are not told apart from here on

IdleLimit == IF DisconnectTimeout > 0 THEN DisconnectTimeout ELSE LegacyIdleTimeout

ASSUME PollingAssumption ==
  /\ GracePeriod \in Nat \ {0} /\ HealthInterval \in Nat \ {0}
  /\ DisconnectTimeout \in Nat /\ LegacyIdleTimeout \in Nat /\ Slack \in Nat \ {0}
  /\ MaxAge \in Nat /\ MaxAge > GracePeriod + Slack + IdleLimit /\ MaxAge > HealthInterval

VARIABLES
  polling_active_,
  connection_state_,
  session,                 \* session_manager_->is_connected()
  subscribed,              \* egress_subscription_ is there
  image,                   \* and has an image
  traffic,                 \* external: a fragment can be polled
  pc,                      \* where the loop is
  is_in_grace_period,
  connection_start_time,   \* age
  last_health_check,       \* age
  last_activity,           \* age
  iteration,               \* age of now: how long ago the iteration began
  downFor                  \* history: how long the client has not been CONNECTED with
                           \* a session

envVars == <<polling_active_, connection_state_, session, subscribed, image, traffic>>
clockVars == <<connection_start_time, last_health_check, last_activity>>
vars == <<envVars, pc, is_in_grace_period, clockVars, iteration, downFor>>

Age == 0..MaxAge
States == {"DISCONNECTED", "CONNECTING", "CONNECTED", "FAILED"}
(* "reported": the loop was left with a report of the loss, "ended": without. *)
Running == pc \in {"loop", "health", "poll"}

TypeOK ==
  /\ polling_active_ \in BOOLEAN
  /\ connection_state_ \in States
  /\ session \in BOOLEAN /\ traffic \in BOOLEAN
  /\ subscribed \in BOOLEAN /\ image \in BOOLEAN
  /\ pc \in {"loop", "health", "poll", "reported", "ended"}
  /\ is_in_grace_period \in BOOLEAN
  /\ connection_start_time \in Age /\ last_health_check \in Age /\ last_activity \in Age
  /\ iteration \in 0..Slack
  /\ downFor \in Age

(* start_polling() is called by connect(), before there is a session.      *)
Init ==
  /\ polling_active_ = TRUE
  /\ connection_state_ = "CONNECTING"
  /\ session = FALSE /\ subscribed = FALSE /\ image = FALSE /\ traffic = FALSE
  /\ pc = "loop" /\ is_in_grace_period = TRUE
  /\ connection_start_time = 0 /\ last_health_check = 0 /\ last_activity = 0
  /\ iteration = 0 /\ downFor = 0

Up == connection_state_ = "CONNECTED" /\ session
is_connected == Up /\ image

-----------------------------------------------------------------------------
(* polling_worker() *)

(* Mutant: only the state ends the loop.                                   *)
LoopEnds_ByState ==
  /\ pc = "loop" /\ ~polling_active_ /\ connection_state_ = "DISCONNECTED"
  /\ pc' = "ended"
  /\ UNCHANGED <<envVars, is_in_grace_period, clockVars, iteration, downFor>>

(* The while condition.                                                    *)
LoopEnds ==
  /\ pc = "loop" /\ ~polling_active_
  /\ pc' = "ended"
  /\ UNCHANGED <<envVars, is_in_grace_period, clockVars, iteration, downFor>>

(* Mutant: the session is not asked.                                       *)
Fresh_ByState == connection_state_ = "CONNECTED" /\ connection_start_time < GracePeriod

(* "Reset grace period if we just connected": as long as the grace period  *)
(* lasts, every iteration that finds the client connected begins it anew.  *)
Fresh == connection_state_ = "CONNECTED" /\ connection_start_time < GracePeriod /\ session

InGrace == Fresh \/ connection_start_time < GracePeriod

(* Mutant: the grace period is extended by moving its start into the future.*)
CheckConnection_Future ==
  /\ pc = "loop" /\ polling_active_
  /\ iteration' = 0
  /\ is_in_grace_period' = InGrace
  /\ connection_start_time' = IF Fresh THEN 0 - GracePeriod ELSE connection_start_time
  /\ pc' = IF InGrace
           THEN IF connection_state_ = "DISCONNECTED" THEN "ended" ELSE "health"
           ELSE IF is_connected THEN "health" ELSE "reported"
  /\ UNCHANGED <<envVars, last_health_check, last_activity, downFor>>

(* The first part of an iteration, up to the health check.                 *)
CheckConnection ==
  /\ pc = "loop" /\ polling_active_
  /\ iteration' = 0
  /\ is_in_grace_period' = InGrace
  /\ connection_start_time' = IF Fresh THEN 0 ELSE connection_start_time
  /\ pc' = IF InGrace
           THEN IF connection_state_ = "DISCONNECTED" THEN "ended" ELSE "health"
           ELSE IF is_connected THEN "health" ELSE "reported"
  /\ UNCHANGED <<envVars, last_health_check, last_activity, downFor>>

(* perform_connection_health_check(): in the grace period its result is    *)
(* ignored.  That there is no subscription yet is not held against the     *)
(* client; aeron_ is set before the loop begins and reset after it ended.  *)
Healthy == session /\ (subscribed => image)

HealthCheck ==
  /\ pc = "health"
  /\ \/ /\ last_health_check < HealthInterval
        /\ pc' = "poll" /\ UNCHANGED last_health_check
     \/ /\ last_health_check >= HealthInterval /\ (is_in_grace_period \/ Healthy)
        /\ pc' = "poll" /\ last_health_check' = 0
     \/ /\ last_health_check >= HealthInterval /\ ~is_in_grace_period /\ ~Healthy
        /\ pc' = "reported" /\ UNCHANGED last_health_check
  /\ UNCHANGED <<envVars, is_in_grace_period, connection_start_time, last_activity,
                 iteration, downFor>>

(* poll_messages() finds fragments.                                        *)
PollMessages ==
  /\ pc = "poll" /\ image /\ traffic
  /\ traffic' \in BOOLEAN
  /\ last_activity' = 0
  /\ pc' = "loop"
  /\ UNCHANGED <<polling_active_, connection_state_, session, subscribed, image,
                 is_in_grace_period, connection_start_time, last_health_check,
                 iteration, downFor>>

(* It finds none: past the grace period the idle time is checked.          *)
PollNothing ==
  /\ pc = "poll" /\ ~(image /\ traffic)
  /\ pc' = IF ~is_in_grace_period /\ last_activity >= IdleLimit THEN "reported" ELSE "loop"
  /\ UNCHANGED <<envVars, is_in_grace_period, clockVars, iteration, downFor>>

Worker == LoopEnds \/ CheckConnection \/ HealthCheck \/ PollMessages \/ PollNothing

-----------------------------------------------------------------------------
(* The other threads and the cluster, while the loop runs.                 *)

DownAfter(state, connected) == IF state = "CONNECTED" /\ connected THEN 0 ELSE downFor

(* connect() and its retry, disconnect() and the reports of other threads. *)
SetConnectionState(state) ==
  /\ \/ connection_state_ = "CONNECTING" /\ state = "CONNECTED" /\ session
     \/ connection_state_ = "CONNECTING" /\ state = "FAILED"
     \/ connection_state_ = "FAILED" /\ state = "CONNECTING"
     \/ connection_state_ # "DISCONNECTED" /\ state = "DISCONNECTED"
  /\ connection_state_' = state
  /\ downFor' = DownAfter(state, session)
  /\ UNCHANGED <<polling_active_, session, subscribed, image, traffic, pc,
                 is_in_grace_period, clockVars, iteration>>

(* The session is established through the egress subscription. *)
SessionChanges ==
  /\ session \/ subscribed
  /\ session' = ~session
  /\ downFor' = DownAfter(connection_state_, ~session)
  /\ UNCHANGED <<polling_active_, connection_state_, subscribed, image, traffic, pc,
                 is_in_grace_period, clockVars, iteration>>

create_egress_subscription ==
  /\ ~subscribed /\ subscribed' = TRUE
  /\ UNCHANGED <<polling_active_, connection_state_, session, image, traffic, pc,
                 is_in_grace_period, clockVars, iteration, downFor>>

ImageChanges ==
  /\ subscribed /\ image' = ~image
  /\ UNCHANGED <<polling_active_, connection_state_, session, subscribed, traffic, pc,
                 is_in_grace_period, clockVars, iteration, downFor>>

Arrive ==
  /\ traffic' = TRUE
  /\ UNCHANGED <<polling_active_, connection_state_, session, subscribed, image, pc,
                 is_in_grace_period, clockVars, iteration, downFor>>

stop_polling ==
  /\ polling_active_' = FALSE
  /\ UNCHANGED <<connection_state_, session, subscribed, image, traffic, pc,
                 is_in_grace_period, clockVars, iteration, downFor>>

Older(age) == IF age < MaxAge THEN age + 1 ELSE age

(* Time passes in the sleep at the end of an iteration, which stands for   *)
(* the callbacks of the iteration too.                                     *)
Tick ==
  /\ pc = "loop" /\ iteration < Slack
  /\ iteration' = iteration + 1
  /\ connection_start_time' = Older(connection_start_time)
  /\ last_health_check' = Older(last_health_check)
  /\ last_activity' = Older(last_activity)
  /\ downFor' = IF Up THEN 0 ELSE Older(downFor)
  /\ UNCHANGED <<envVars, pc, is_in_grace_period>>

Environment ==
  /\ Running
  /\ \/ \E state \in States : SetConnectionState(state)
     \/ SessionChanges \/ create_egress_subscription \/ ImageChanges
     \/ Arrive \/ stop_polling \/ Tick

Next == Worker \/ Environment

Spec == Init /\ [][Next]_vars
FairSpec == Spec /\ WF_vars(Worker)

-----------------------------------------------------------------------------
(* A loop that goes on has seen the client connected lately: whatever the  *)
(* order of the changes, a client that is not CONNECTED, or whose session  *)
(* is gone, is noticed when the grace period has passed, with one          *)
(* iteration of delay.                                                     *)
LossFoundInTime == Running => downFor < GracePeriod + Slack

(* stop_polling() joins the thread: the loop ends once the flag is cleared.*)
StopIsObeyed == ~polling_active_ ~> ~Running

(* "Delivery stall detection (0 disables the respective guard)": a         *)
(* connected client without traffic is given up when the timeout has       *)
(* passed, even with a grace period and an iteration of delay before it.   *)
StallIsDetected ==
  (Running /\ Up /\ image) => last_activity <= GracePeriod + IdleLimit + Slack
=============================================================================
