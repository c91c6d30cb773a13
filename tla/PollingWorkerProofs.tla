------------------------- MODULE PollingWorkerProofs -------------------------
(***************************************************************************)
(* For every choice of the periods: polling_worker() notices a lost        *)
(* connection in time.  LossFoundInTime counts from the loss, while the    *)
(* loop only knows connection_start_time, so the invariant relates the     *)
(* two, and the age of the loss to the age of the iteration.               *)
(***************************************************************************)
EXTENDS PollingWorker, TLAPS

(* A connected client is not down; the loss is not older than the grace    *)
(* period that is running; and at the last iteration it was younger than   *)
(* a grace period.                                                         *)
UpInv == Up => downFor = 0
StartInv == downFor <= connection_start_time
IterationInv == Running => downFor < GracePeriod + iteration

PollingInv == TypeOK /\ UpInv /\ StartInv /\ IterationInv

(* An older age is an age, and at most one tick older. *)
LEMMA OlderAge ==
  ASSUME NEW age \in Age
  PROVE  /\ Older(age) \in Age
         /\ age <= Older(age) /\ Older(age) <= age + 1
         /\ \A other \in Age : other <= age => Older(other) <= Older(age)
BY PollingAssumption DEF Age, Older

(* A step of the loop keeps the invariant: it goes on only with a loss     *)
(* younger than the grace period.                                          *)
LEMMA WorkerStep ==
  ASSUME PollingInv, Worker
  PROVE  PollingInv'
<1> USE PollingAssumption DEF PollingInv, UpInv, StartInv, IterationInv, Up, Running, Age,
        States, envVars, clockVars
<1>1. CASE LoopEnds
  BY <1>1 DEF LoopEnds, TypeOK
<1>2. CASE CheckConnection
  <2>1. TypeOK'
    BY <1>2 DEF CheckConnection, TypeOK, InGrace, Fresh, is_connected
  <2>2. (UpInv /\ StartInv)'
    BY <1>2 DEF CheckConnection, TypeOK, Fresh
  <2>3. CASE InGrace
    <3>1. downFor < GracePeriod
      BY <2>3 DEF TypeOK, InGrace, Fresh
    <3> QED BY <1>2, <2>1, <2>2, <3>1 DEF CheckConnection, TypeOK
  <2>4. CASE ~InGrace
    BY <1>2, <2>1, <2>2, <2>4 DEF CheckConnection, TypeOK, is_connected
  <2> QED BY <2>3, <2>4
<1>3. CASE HealthCheck
  BY <1>3 DEF HealthCheck, TypeOK
<1>4. CASE PollMessages
  BY <1>4 DEF PollMessages, TypeOK
<1>5. CASE PollNothing
  BY <1>5 DEF PollNothing, TypeOK
<1> QED BY <1>1, <1>2, <1>3, <1>4, <1>5 DEF Worker

(* So does a step of the other threads, of the cluster and of time. *)
LEMMA EnvironmentStep ==
  ASSUME PollingInv, Environment
  PROVE  PollingInv'
<1> USE PollingAssumption DEF PollingInv, UpInv, StartInv, IterationInv, Up, Running, Age,
        States, envVars, clockVars
<1>1. ASSUME NEW state \in States, SetConnectionState(state)
      PROVE  PollingInv'
  BY <1>1 DEF SetConnectionState, DownAfter, TypeOK
<1>2. CASE SessionChanges
  BY <1>2 DEF SessionChanges, DownAfter, TypeOK
<1>3. CASE ImageChanges
  BY <1>3 DEF ImageChanges, TypeOK
<1>4. CASE Arrive
  BY <1>4 DEF Arrive, TypeOK
<1>5. CASE stop_polling
  BY <1>5 DEF stop_polling, TypeOK
<1>6. CASE create_egress_subscription
  BY <1>6 DEF create_egress_subscription, TypeOK
<1>7. CASE Tick
  <2>1. downFor \in Age /\ connection_start_time \in Age
        /\ last_health_check \in Age /\ last_activity \in Age
    BY DEF TypeOK
  <2>2. downFor' <= downFor + 1 /\ downFor' <= connection_start_time' /\ downFor' \in Age
    BY <1>7, <2>1, OlderAge DEF Tick
  <2>3. TypeOK'
    BY <1>7, <2>1, <2>2, OlderAge DEF Tick, TypeOK
  <2>4. UpInv'
    BY <1>7 DEF Tick
  <2> QED BY <1>7, <2>2, <2>3, <2>4 DEF Tick, TypeOK
<1> QED BY <1>1, <1>2, <1>3, <1>4, <1>5, <1>6, <1>7 DEF Environment

(* PollingInv is an invariant of polling_worker() and its environment. *)
THEOREM PollingInvariant == Spec => []PollingInv
<1>1. Init => PollingInv
  <2>1. 0 \in Age /\ 0 \in 0..Slack /\ 0 <= 0 /\ 0 < GracePeriod + 0
    BY PollingAssumption DEF Age
  <2> QED BY <2>1, Zenon DEF Init, PollingInv, TypeOK, UpInv, StartInv, IterationInv, States
<1>2. PollingInv /\ [Next]_vars => PollingInv'
  <2> SUFFICES ASSUME PollingInv, [Next]_vars PROVE PollingInv'
    OBVIOUS
  <2>1. CASE Worker
    BY <2>1, WorkerStep
  <2>2. CASE Environment
    BY <2>2, EnvironmentStep
  <2>3. CASE UNCHANGED vars
    BY <2>3 DEF vars, envVars, clockVars, PollingInv, TypeOK, UpInv, StartInv, IterationInv,
       Up, Running
  <2> QED BY <2>1, <2>2, <2>3 DEF Next
<1> QED BY <1>1, <1>2, PTL DEF Spec

(* Type correctness of the clocks of polling_worker(), for all periods. *)
THEOREM PollingTypes == Spec => []TypeOK
BY PollingInvariant, PTL DEF PollingInv

(* However connect(), the session and the image change under the loop, a   *)
(* loss is noticed within the grace period and one iteration.              *)
THEOREM LossFound == Spec => []LossFoundInTime
<1>1. PollingInv => LossFoundInTime
  BY PollingAssumption DEF PollingInv, LossFoundInTime, IterationInv, TypeOK, Age
<1> QED BY <1>1, PollingInvariant, PTL
=============================================================================
