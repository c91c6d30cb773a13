-------------------------- MODULE SessionSendProofs --------------------------
(***************************************************************************)
(* Proofs about SessionSend, for every number of publishers and keepalive  *)
(* threads, every number of attempts and every bound.                      *)
(***************************************************************************)
EXTENDS SessionSend, SessionLemmas

(* An offer under way has an attempt left, and an answer has its request.  *)
AttemptsInv ==
  /\ \A p \in Publishers : publisher[p].pc \in {"offer", "raw"} => publisher[p].left > 0
  /\ \A k \in Keepers : keeper[k].pc = "offer" => keeper[k].left > 0
  /\ answers <= opens
  /\ connectPc = "open" => opens < MaxConnects

(* What makes LossNotifiedOnce inductive: while connected_ is set, its     *)
(* loss is one that has not been reported yet.                             *)
LossInv ==
  /\ lossCallbacks <= establishments
  /\ connected_ => lossCallbacks < establishments

SenderInv == AttemptsInv /\ LossInv /\ OffersUnderMutex
SendInv == TypeOK /\ SessionInv /\ SenderInv

(* An idle publisher is a publisher. *)
LEMMA IdleType ==
  Idle \in [pc : PublisherPc, left : 0..PublishAttempts]
  BY SendAssumption DEF Idle, PublisherPc

(* An offer that fails keeps the session and the callbacks in step. *)
LEMMA OfferFailureLemma ==
  ASSUME SendInv, NEW code, OfferFailure(code)
  PROVE  /\ SessionInv' /\ LossInv'
         /\ faults' \in 0..MaxFaults /\ lossCallbacks' \in Nat /\ establishments' = establishments
<1> SessionInv /\ TypeOK /\ LossInv
  BY DEF SendInv, SenderInv
<1>1. connected_' \in BOOLEAN
  BY DEF OfferFailure, handle_offer_failure, ConnectedAfter, TypeOK, SessionTypeOK
<1>2. SessionInv'
  BY <1>1, SessionFrame DEF OfferFailure, TypeOK, SessionTypeOK
<1>3. faults' \in 0..MaxFaults
  BY SendAssumption DEF OfferFailure, Fault, TypeOK
<1>4. /\ connected_' => connected_ /\ ~NotifiesLoss(code)
      /\ NotifiesLoss(code) => connected_
  BY DEF OfferFailure, handle_offer_failure, ConnectedAfter, NotifiesLoss
<1>5. CASE NotifiesLoss(code)
  BY <1>2, <1>3, <1>4, <1>5 DEF OfferFailure, TypeOK, LossInv
<1>6. CASE ~NotifiesLoss(code)
  BY <1>2, <1>3, <1>4, <1>6 DEF OfferFailure, TypeOK, LossInv
<1> QED BY <1>5, <1>6

(* The publishers. *)
LEMMA PublishLemma ==
  ASSUME SendInv, NEW p \in Publishers, Publish(p)
  PROVE  SendInv'
<1> SUFFICES SessionInv' /\ TypeOK' /\ SenderInv'
  BY DEF SendInv
<1> SessionInv /\ TypeOK /\ SenderInv
  BY DEF SendInv
<1> /\ NoThread \notin Publishers
    /\ PublishAttempts \in Nat \ {0} /\ KeepaliveAttempts \in Nat \ {0}
    /\ MaxConnects \in Nat /\ MaxDisconnects \in Nat /\ MaxFaults \in Nat
  BY SendAssumption
<1> USE DEF TypeOK, SenderInv, AttemptsInv, LossInv, OffersUnderMutex,
           senderVars, connectVars, historyVars
<1> Idle \in [pc : PublisherPc, left : 0..PublishAttempts]
  BY IdleType
<1>1. CASE PublishBegin(p)
  <2>1. SessionInv'
    BY <1>1, SessionStutter DEF PublishBegin
  <2>2. TypeOK'
    BY <1>1, <2>1 DEF SessionInv, PublishBegin, PublisherPc
  <2>3. SenderInv'
    BY <1>1 DEF PublishBegin, sessionVars, fieldVars
  <2> QED BY <2>1, <2>2, <2>3
<1>2. CASE PublishLock(p)
  <2>1. SessionInv'
    BY <1>2, SessionStutter DEF PublishLock
  <2>2. publisher' \in [Publishers -> [pc : PublisherPc, left : 0..PublishAttempts]]
    BY <1>2 DEF PublishLock, PublisherPc
  <2>3. TypeOK'
    BY <1>2, <2>1, <2>2 DEF SessionInv, PublishLock
  <2>4. SenderInv'
    <3>1. CASE is_connected
      <4>1. publisher[p].pc = "lock" /\ send_mutex_ = NoThread
        BY <1>2 DEF PublishLock
      <4>2. \A q \in Publishers : publisher[q].pc # "offer"
        BY <4>1
      <4> QED BY <1>2, <3>1, <4>2 DEF PublishLock, sessionVars, fieldVars
    <3>2. CASE ~is_connected
      BY <1>2, <3>2 DEF PublishLock, sessionVars, fieldVars, Idle
    <3> QED BY <3>1, <3>2
  <2> QED BY <2>1, <2>3, <2>4
<1>3. CASE RawBegin(p)
  <2>1. SessionInv'
    BY <1>3, SessionStutter DEF RawBegin
  <2>2. TypeOK'
    <3>1. publisher' \in [Publishers -> [pc : PublisherPc, left : 0..PublishAttempts]]
      <4>1. PublishAttempts \in 0..PublishAttempts /\ "raw" \in PublisherPc
        BY DEF PublisherPc
      <4>2. publisher' = [publisher EXCEPT ![p] =
               [publisher[p] EXCEPT !.pc = "raw", !.left = PublishAttempts]]
        BY <1>3 DEF RawBegin
      <4> QED BY <4>1, <4>2
    <3> QED BY <1>3, <2>1, <3>1 DEF SessionInv, RawBegin
  <2>3. SenderInv'
    BY <1>3 DEF RawBegin, sessionVars, fieldVars
  <2> QED BY <2>1, <2>2, <2>3
<1>4. CASE PublishAccepted(p)
  <2>1. SessionInv'
    BY <1>4, SessionStutter DEF PublishAccepted
  <2>2. TypeOK'
    BY <1>4, <2>1 DEF SessionInv, PublishAccepted, PublishReturns
  <2>3. SenderInv'
    BY <1>4 DEF PublishAccepted, PublishReturns, sessionVars, fieldVars, Idle
  <2> QED BY <2>1, <2>2, <2>3
<1>5. ASSUME NEW code \in OfferFailureCode, PublishFails(p, code)
      PROVE  SessionInv' /\ TypeOK' /\ SenderInv'
  <2>1. /\ SessionInv' /\ LossInv'
        /\ faults' \in 0..MaxFaults /\ lossCallbacks' \in Nat /\ establishments' = establishments
    BY <1>5, OfferFailureLemma DEF PublishFails
  <2>2. publisher' \in [Publishers -> [pc : PublisherPc, left : 0..PublishAttempts]]
    BY <1>5 DEF PublishFails, PublishReturns
  <2>3. TypeOK'
    BY <1>5, <2>1, <2>2 DEF SessionInv, PublishFails, PublishReturns
  <2>4. AttemptsInv' /\ OffersUnderMutex'
    BY <1>5 DEF PublishFails, PublishReturns, Idle
  <2> QED BY <2>1, <2>3, <2>4
<1> QED BY <1>1, <1>2, <1>3, <1>4, <1>5 DEF Publish

(* The keepalive threads. *)
LEMMA KeepaliveLemma ==
  ASSUME SendInv, NEW k \in Keepers, Keepalive(k)
  PROVE  SendInv'
<1> SUFFICES SessionInv' /\ TypeOK' /\ SenderInv'
  BY DEF SendInv
<1> SessionInv /\ TypeOK /\ SenderInv
  BY DEF SendInv
<1> /\ NoThread \notin Publishers
    /\ PublishAttempts \in Nat \ {0} /\ KeepaliveAttempts \in Nat \ {0}
    /\ MaxConnects \in Nat /\ MaxDisconnects \in Nat /\ MaxFaults \in Nat
  BY SendAssumption
<1> USE DEF TypeOK, SenderInv, AttemptsInv, LossInv, OffersUnderMutex,
           senderVars, connectVars, historyVars
<1>1. CASE KeepaliveCheck(k)
  <2>1. SessionInv'
    BY <1>1, SessionStutter DEF KeepaliveCheck
  <2>2. TypeOK'
    BY <1>1, <2>1 DEF SessionInv, KeepaliveCheck, KeeperPc
  <2>3. SenderInv'
    BY <1>1 DEF KeepaliveCheck, sessionVars, fieldVars
  <2> QED BY <2>1, <2>2, <2>3
<1>2. CASE KeepaliveAccepted(k)
  <2>1. SessionInv'
    BY <1>2, SessionStutter DEF KeepaliveAccepted
  <2>2. TypeOK'
    BY <1>2, <2>1 DEF SessionInv, KeepaliveAccepted, KeepaliveReturns, KeeperPc
  <2>3. SenderInv'
    BY <1>2 DEF KeepaliveAccepted, KeepaliveReturns, sessionVars, fieldVars
  <2> QED BY <2>1, <2>2, <2>3
<1>3. ASSUME NEW code \in OfferFailureCode, KeepaliveFails(k, code)
      PROVE  SessionInv' /\ TypeOK' /\ SenderInv'
  <2>1. /\ SessionInv' /\ LossInv'
        /\ faults' \in 0..MaxFaults /\ lossCallbacks' \in Nat /\ establishments' = establishments
    BY <1>3, OfferFailureLemma DEF KeepaliveFails
  <2>2. keeper' \in [Keepers -> [pc : KeeperPc, left : 0..KeepaliveAttempts]]
    BY <1>3 DEF KeepaliveFails, KeepaliveReturns, KeeperPc
  <2>3. TypeOK'
    BY <1>3, <2>1, <2>2 DEF SessionInv, KeepaliveFails
  <2>4. AttemptsInv' /\ OffersUnderMutex'
    BY <1>3 DEF KeepaliveFails, KeepaliveReturns
  <2> QED BY <2>1, <2>3, <2>4
<1> QED BY <1>1, <1>2, <1>3 DEF Keepalive

(* The thread in connect(), and an offer through a reset publication. *)
LEMMA ConnectorLemma ==
  ASSUME SendInv,
         OfferOnReset \/ OpenPublication \/ SendConnectRequest \/ ConnectSucceeds \/ ConnectTimesOut
  PROVE  SendInv'
<1> SUFFICES SessionInv' /\ TypeOK' /\ SenderInv'
  BY DEF SendInv
<1> SessionInv /\ TypeOK /\ SenderInv
  BY DEF SendInv
<1> /\ NoThread \notin Publishers
    /\ PublishAttempts \in Nat \ {0} /\ KeepaliveAttempts \in Nat \ {0}
    /\ MaxConnects \in Nat /\ MaxDisconnects \in Nat /\ MaxFaults \in Nat
  BY SendAssumption
<1> USE DEF TypeOK, SenderInv, AttemptsInv, LossInv, OffersUnderMutex,
           senderVars, connectVars, historyVars
<1>1. CASE OfferOnReset
  <2>1. SessionInv'
    BY <1>1, SessionStutter DEF OfferOnReset
  <2>2. TypeOK'
    BY <1>1, <2>1 DEF SessionInv, OfferOnReset
  <2>3. SenderInv'
    BY <1>1 DEF OfferOnReset, sessionVars, fieldVars
  <2> QED BY <2>1, <2>2, <2>3
<1>2. CASE OpenPublication
  <2>1. SessionInv'
    BY <1>2, SessionFrame DEF OpenPublication, SessionTypeOK, fieldVars, Publication
  <2>2. TypeOK'
    BY <1>2, <2>1, Zenon DEF SessionInv, OpenPublication
  <2>3. SenderInv'
    BY <1>2 DEF OpenPublication, fieldVars
  <2> QED BY <2>1, <2>2, <2>3
<1>3. CASE SendConnectRequest
  <2>1. SessionInv'
    BY <1>3, SessionFrame DEF SendConnectRequest, SessionTypeOK, fieldVars, Publication
  <2>2. TypeOK'
    BY <1>3, <2>1 DEF SessionInv, SendConnectRequest
  <2>3. SenderInv'
    BY <1>3 DEF SendConnectRequest, fieldVars
  <2> QED BY <2>1, <2>2, <2>3
<1>4. CASE ConnectSucceeds
  <2>1. SessionInv'
    BY <1>4, SessionStutter DEF ConnectSucceeds
  <2>2. TypeOK'
    BY <1>4, <2>1 DEF SessionInv, ConnectSucceeds, KeeperPc
  <2>3. SenderInv'
    BY <1>4 DEF ConnectSucceeds, sessionVars, fieldVars
  <2> QED BY <2>1, <2>2, <2>3
<1>5. CASE ConnectTimesOut
  <2>1. SessionInv'
    BY <1>5, SessionStutter DEF ConnectTimesOut
  <2>2. TypeOK'
    BY <1>5, <2>1 DEF SessionInv, ConnectTimesOut
  <2>3. SenderInv'
    BY <1>5 DEF ConnectTimesOut, sessionVars, fieldVars
  <2> QED BY <2>1, <2>2, <2>3
<1> QED BY <1>1, <1>2, <1>3, <1>4, <1>5

(* The egress thread. *)
LEMMA EgressThreadLemma ==
  ASSUME SendInv,
         \/ \E t \in 0..MaxTerm : DeliverOk(t)
         \/ \E code \in {"ERROR", "CLOSED"} : DeliverLoss(code)
         \/ Egress
  PROVE  SendInv'
<1> SUFFICES SessionInv' /\ TypeOK' /\ SenderInv'
  BY DEF SendInv
<1> SessionInv /\ TypeOK /\ SenderInv
  BY DEF SendInv
<1> /\ NoThread \notin Publishers
    /\ PublishAttempts \in Nat \ {0} /\ KeepaliveAttempts \in Nat \ {0}
    /\ MaxConnects \in Nat /\ MaxDisconnects \in Nat /\ MaxFaults \in Nat
  BY SendAssumption
<1> USE DEF TypeOK, SenderInv, AttemptsInv, LossInv, OffersUnderMutex,
           senderVars, connectVars, historyVars
<1>1. ASSUME NEW t \in 0..MaxTerm, DeliverOk(t)
      PROVE  SessionInv' /\ TypeOK' /\ SenderInv'
  <2> DEFINE e == [code |-> "OK", sid |-> answers + 1, term |-> t, leader |-> 0]
  <2>1. e \in Event /\ handle_session_event(e)
    BY <1>1, SendAssumption DEF DeliverOk, Event, EventCode
  <2>2. SessionInv'
    BY <2>1, EventLemma
  <2>3. TypeOK'
    BY <1>1, <2>2 DEF SessionInv, DeliverOk
  <2>4. connected_' = connected_
    BY <2>1 DEF handle_session_event, handle_session_ok
  <2>5. SenderInv'
    BY <1>1, <2>4 DEF DeliverOk
  <2> QED BY <2>2, <2>3, <2>5
<1>2. ASSUME NEW code \in {"ERROR", "CLOSED"}, DeliverLoss(code)
      PROVE  SessionInv' /\ TypeOK' /\ SenderInv'
  <2> DEFINE e == [code |-> code, sid |-> answers, term |-> 0, leader |-> 0]
  <2>1. e \in Event /\ handle_session_event(e)
    BY <1>2 DEF DeliverLoss, Event, EventCode
  <2>2. SessionInv'
    BY <2>1, EventLemma
  <2>3. TypeOK'
    BY <1>2, <2>2 DEF SessionInv, DeliverLoss, Fault
  <2>4. connected_' = FALSE
    BY <2>1 DEF handle_session_event, handle_session_error, handle_session_closed
  <2>5. SenderInv'
    BY <1>2, <2>4 DEF DeliverLoss
  <2> QED BY <2>2, <2>3, <2>5
<1>3. CASE Egress
  <2>1. SessionInv'
    BY <1>3, EgressLemma DEF Egress
  <2>2. establishments' \in Nat
    BY <1>3 DEF Egress
  <2>3. TypeOK'
    BY <1>3, <2>1, <2>2 DEF SessionInv, Egress
  <2>4. egressPc # "connected" => connected_' = connected_
    BY <1>3 DEF Egress, EgressStep, OkConnected, OkTerm, OkHeaderTerm, OkHeaderSid,
                OkKeepalive, fieldVars
  <2>5. SenderInv'
    BY <1>3, <2>4 DEF Egress
  <2> QED BY <2>1, <2>3, <2>5
<1> QED BY <1>1, <1>2, <1>3

(* The thread in disconnect(), and the network. *)
LEMMA DisconnectThreadLemma ==
  ASSUME SendInv, Disconnect \/ Disconnecting \/ DisconnectFault \/ Network
  PROVE  SendInv'
<1> SUFFICES SessionInv' /\ TypeOK' /\ SenderInv'
  BY DEF SendInv
<1> SessionInv /\ TypeOK /\ SenderInv
  BY DEF SendInv
<1> /\ NoThread \notin Publishers
    /\ PublishAttempts \in Nat \ {0} /\ KeepaliveAttempts \in Nat \ {0}
    /\ MaxConnects \in Nat /\ MaxDisconnects \in Nat /\ MaxFaults \in Nat
  BY SendAssumption
<1> USE DEF TypeOK, SenderInv, AttemptsInv, LossInv, OffersUnderMutex,
           senderVars, connectVars, historyVars
<1>1. CASE Disconnect
  <2>1. SessionInv'
    BY <1>1, DisconnectBeginLemma DEF Disconnect
  <2>2. disconnects' \in 0..MaxDisconnects
    BY <1>1 DEF Disconnect
  <2>3. TypeOK'
    BY <1>1, <2>1, <2>2, Zenon DEF SessionInv, Disconnect
  <2>4. SenderInv'
    BY <1>1 DEF Disconnect, DisconnectBegin, fieldVars
  <2> QED BY <2>1, <2>3, <2>4
<1>2. CASE Disconnecting
  <2>1. SessionInv'
    BY <1>2, DisconnectLemma DEF Disconnecting
  <2>2. TypeOK'
    BY <1>2, <2>1 DEF SessionInv, Disconnecting
  <2>3. connected_' => connected_
    BY <1>2 DEF Disconnecting, DisconnectStep, CloseRefused, CloseAccepted,
                ResetPublication, ClearConnected, ClearSession, fieldVars
  <2>4. SenderInv'
    BY <1>2, <2>3 DEF Disconnecting
  <2> QED BY <2>1, <2>2, <2>4
<1>3. CASE DisconnectFault
  <2> PICK code \in OfferFailureCode :
        /\ CloseNotAccepted(code)
        /\ lossCallbacks' = IF NotifiesLoss(code) THEN lossCallbacks + 1 ELSE lossCallbacks
    BY <1>3 DEF DisconnectFault
  <2>1. SessionInv'
    BY CloseNotAcceptedLemma
  <2>2. faults' \in 0..MaxFaults /\ lossCallbacks' \in Nat
    BY <1>3 DEF DisconnectFault, Fault
  <2>3. TypeOK'
    BY <1>3, <2>1, <2>2 DEF SessionInv, DisconnectFault
  <2>4. /\ connected_' => connected_ /\ ~NotifiesLoss(code)
        /\ NotifiesLoss(code) => connected_
    BY DEF CloseNotAccepted, handle_offer_failure, ConnectedAfter, NotifiesLoss
  <2>5. AttemptsInv' /\ OffersUnderMutex'
    BY <1>3 DEF DisconnectFault
  <2>6. LossInv'
    <3>1. CASE NotifiesLoss(code)
      BY <1>3, <2>4, <3>1 DEF DisconnectFault
    <3>2. CASE ~NotifiesLoss(code)
      BY <1>3, <2>4, <3>2 DEF DisconnectFault
    <3> QED BY <3>1, <3>2
  <2> QED BY <2>1, <2>3, <2>5, <2>6
<1>4. CASE Network
  <2>1. SessionInv'
    BY <1>4, PublicationLemma DEF Network
  <2>2. TypeOK'
    BY <1>4, <2>1 DEF SessionInv, Network, Fault
  <2>3. SenderInv'
    BY <1>4 DEF Network, PublicationDrops, PublicationReturns, fieldVars
  <2> QED BY <2>1, <2>2, <2>3
<1> QED BY <1>1, <1>2, <1>3, <1>4

(* The initial state satisfies the inductive invariant. *)
LEMMA SendInvInit == Init => SendInv
<1> SUFFICES ASSUME Init PROVE SendInv
  OBVIOUS
<1>1. SessionInv
  BY SessionInitLemma DEF Init
<1>2. /\ opens \in 0..MaxConnects /\ answers \in 0..MaxConnects
      /\ establishments \in Nat /\ lossCallbacks \in Nat
      /\ disconnects \in 0..MaxDisconnects /\ faults \in 0..MaxFaults
      /\ lossCallbacks <= establishments /\ answers <= opens
  BY SendAssumption DEF Init
<1>3. /\ publisher \in [Publishers -> [pc : PublisherPc, left : 0..PublishAttempts]]
      /\ \A p \in Publishers : publisher[p].pc = "idle"
  BY IdleType DEF Init, Idle
<1>4. /\ keeper \in [Keepers -> [pc : KeeperPc, left : 0..KeepaliveAttempts]]
      /\ \A k \in Keepers : keeper[k].pc = "none"
  BY SendAssumption DEF Init, KeeperPc
<1>5. TypeOK
  BY <1>1, <1>2, <1>3, <1>4, Zenon DEF Init, TypeOK, SessionInv
<1>6. ~connected_
  BY DEF Init, SessionInit
<1>7. AttemptsInv
  BY <1>2, <1>3, <1>4 DEF Init, AttemptsInv
<1>8. SenderInv
  BY <1>2, <1>3, <1>6, <1>7 DEF SenderInv, LossInv, OffersUnderMutex
<1> QED BY <1>1, <1>5, <1>8 DEF SendInv

(* Every step preserves it. *)
LEMMA SendInvStep == SendInv /\ [Next]_vars => SendInv'
<1> SUFFICES ASSUME SendInv, [Next]_vars PROVE SendInv'
  OBVIOUS
<1>1. CASE UNCHANGED vars
  <2>1. SessionInv'
    BY <1>1, SessionStutter DEF SendInv, vars
  <2>2. TypeOK'
    BY <1>1, <2>1 DEF SendInv, SessionInv, TypeOK, vars, senderVars, connectVars, historyVars
  <2>3. SenderInv'
    BY <1>1 DEF SendInv, SenderInv, AttemptsInv, LossInv, OffersUnderMutex, vars, senderVars,
                connectVars, historyVars, sessionVars, fieldVars
  <2> QED BY <2>1, <2>2, <2>3 DEF SendInv
<1> QED
  BY <1>1, PublishLemma, KeepaliveLemma, ConnectorLemma, EgressThreadLemma,
     DisconnectThreadLemma DEF Next

(* SendInv holds in every reachable state. *)
THEOREM SendInvariant == Spec => []SendInv
BY SendInvInit, SendInvStep, PTL DEF Spec

(* Every variable of the senders keeps its type: no retry counter runs     *)
(* below zero, and send_mutex_ is held by a publisher or by nobody.        *)
THEOREM SendTypes == Spec => []TypeOK
<1>1. SendInv => TypeOK
  BY DEF SendInv
<1> QED BY <1>1, SendInvariant, PTL

(* A lost connection is reported at most once, however many publishers,    *)
(* keepalive threads and close requests run into it at the same time.      *)
THEOREM LossReportedOnce == Spec => []LossNotifiedOnce
<1>1. SendInv => LossNotifiedOnce
  BY DEF SendInv, SenderInv, LossInv, LossNotifiedOnce
<1> QED BY <1>1, SendInvariant, PTL

(* Business messages are offered one at a time, under send_mutex_, through *)
(* all retries and error paths.                                            *)
THEOREM OffersExclusive == Spec => []OffersUnderMutex
<1>1. SendInv => OffersUnderMutex
  BY DEF SendInv, SenderInv
<1> QED BY <1>1, SendInvariant, PTL
=============================================================================
