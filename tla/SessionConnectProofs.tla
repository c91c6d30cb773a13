------------------------ MODULE SessionConnectProofs ------------------------
(***************************************************************************)
(* Proofs about SessionConnect, for every list of endpoints, every number  *)
(* of retries and every bound.                                             *)
(***************************************************************************)
EXTENDS SessionConnect, SessionLemmas, FiniteSetTheorems

(* What makes TriesBounded and NoResurrection inductive.  Every try either *)
(* adds a member to tried_members for good, or is a redirect whose failure *)
(* takes it out again and uses up an attempt.                              *)
BusyInv == pc \notin {"idle", "attempt", "crashed"} => attempt < MaxRetries
OffersInv == pc = "offer" => offersLeft > 0
TriesInv == tries <= Cardinality(tried_members) + attempt
ClosedInv == closed => pc = "idle" /\ ingress_publication_ = "none"

LoopInv == BusyInv /\ OffersInv /\ TriesInv /\ ClosedInv
ConnectInv == TypeOK /\ SessionInv /\ LoopInv

(* tried_members is finite, and no larger than the list of endpoints. *)
LEMMA TriedFinite ==
  ASSUME NEW S \in SUBSET Indices
  PROVE  IsFiniteSet(S) /\ Cardinality(S) \in Nat /\ Cardinality(S) <= N
<1>1. N \in Nat
  BY ConnectAssumption DEF N
<1>2. IsFiniteSet(Indices) /\ Cardinality(Indices) = N
  BY <1>1, FS_Interval DEF Indices
<1>3. IsFiniteSet(S) /\ Cardinality(S) <= N
  BY <1>2, FS_Subset
<1> QED BY <1>3, FS_CardinalityType

(* An event of the cluster is a SessionEvent. *)
LEMMA SessionEventType ==
  ASSUME TypeOK, NEW code \in EventCode, NEW sid \in Int
  PROVE  SessionEvent(code, sid) \in Event
<1>1. term \in Int /\ leader \in Int
  BY ConnectAssumption DEF TypeOK
<1> QED BY <1>1 DEF SessionEvent, Event


(* The steps of connect() outside try_connect_to_member. *)
LEMMA LoopLemma ==
  ASSUME ConnectInv,
         \/ Connect \/ GiveUp \/ FollowRedirect \/ NoFollowableRedirect
         \/ PendingRedirect \/ NothingPending \/ ScanMember \/ ScanEnds
         \/ Succeed \/ RedirectFailed \/ ScanFailed
  PROVE  ConnectInv'
<1> SUFFICES SessionInv' /\ TypeOK' /\ LoopInv'
  BY DEF ConnectInv
<1> SessionInv /\ TypeOK /\ LoopInv
  BY DEF ConnectInv
<1> MaxRetries \in Nat /\ N \in Nat
  BY ConnectAssumption DEF N
<1> IsFiniteSet(tried_members) /\ Cardinality(tried_members) \in Nat
  BY TriedFinite DEF TypeOK
<1> USE DEF TypeOK, LoopInv, BusyInv, OffersInv, TriesInv, ClosedInv,
           loopVars, callVars, netVars, clusterVars

<1>1. CASE Connect
  <2>1. SessionInv'
    BY <1>1, SessionStutter DEF Connect
  <2>2. /\ attempt' \in 0..MaxRetries /\ tries' \in Nat
        /\ connects' \in 0..MaxConnects
        /\ BusyInv' /\ OffersInv' /\ TriesInv'
    BY <1>1, FS_EmptySet, ConnectAssumption DEF Connect
  <2>3. pc' \in Pc /\ tried_members' \subseteq Indices
    BY <1>1 DEF Connect, Pc
  <2>4. TypeOK' /\ ClosedInv'
    BY <1>1, <2>1, <2>2, <2>3, Zenon DEF SessionInv, Connect
  <2> QED BY <2>1, <2>2, <2>4
<1>2. CASE GiveUp
  <2>1. SessionInv'
    BY <1>2, SessionStutter DEF GiveUp
  <2>2. TypeOK'
    BY <1>2, <2>1 DEF SessionInv, GiveUp, Failure, NoResult, Results, Pc
  <2>3. LoopInv'
    BY <1>2 DEF GiveUp, Failure, NoResult, Results
  <2> QED BY <2>1, <2>2, <2>3
<1>3. CASE FollowRedirect
  <2>1. SessionInv'
    BY <1>3, SessionStutter DEF FollowRedirect
  <2>2. TypeOK'
    <3>1. redirected_to_member_id_ \in Nat /\ tried_members' \subseteq Indices
      BY <1>3 DEF FollowRedirect, Try, Followable, Indices
    <3> QED BY <1>3, <2>1, <3>1 DEF SessionInv, FollowRedirect, Try, Pc
  <2>3. LoopInv'
    <3>1. Cardinality(tried_members') = Cardinality(tried_members) + 1
      BY <1>3, FS_AddElement DEF FollowRedirect, Try, Followable
    <3> QED BY <1>3, <3>1 DEF FollowRedirect, Try
  <2> QED BY <2>1, <2>2, <2>3
<1>4. CASE NoFollowableRedirect
  <2>1. SessionInv'
    BY <1>4, SessionStutter DEF NoFollowableRedirect
  <2>2. TypeOK'
    BY <1>4, <2>1 DEF SessionInv, NoFollowableRedirect, Pc
  <2>3. LoopInv'
    BY <1>4 DEF NoFollowableRedirect
  <2> QED BY <2>1, <2>2, <2>3
<1>5. CASE PendingRedirect
  <2>1. SessionInv'
    BY <1>5, SessionStutter DEF PendingRedirect
  <2>2. TypeOK'
    BY <1>5, <2>1 DEF SessionInv, PendingRedirect, NextAttempt, Pc
  <2>3. LoopInv'
    BY <1>5 DEF PendingRedirect, NextAttempt
  <2> QED BY <2>1, <2>2, <2>3
<1>6. CASE NothingPending
  <2>1. SessionInv'
    BY <1>6, SessionStutter DEF NothingPending
  <2>2. TypeOK'
    BY <1>6, <2>1 DEF SessionInv, NothingPending, Pc
  <2>3. LoopInv'
    BY <1>6 DEF NothingPending
  <2> QED BY <2>1, <2>2, <2>3
<1>7. CASE ScanMember
  <2>1. SessionInv'
    BY <1>7, SessionFrame DEF SessionTypeOK, ScanMember, Try, fieldVars, Publication
  <2>2. TypeOK'
    <3>1. target' \in Nat /\ tried_members' \subseteq Indices
      BY <1>7 DEF ScanMember, Try, Indices
    <3> QED BY <1>7, <2>1, <3>1 DEF SessionInv, ScanMember, Try, Pc
  <2>3. LoopInv'
    <3>1. Cardinality(tried_members') = Cardinality(tried_members) + 1
      BY <1>7, FS_AddElement DEF ScanMember, Try
    <3> QED BY <1>7, <3>1 DEF ScanMember, Try
  <2> QED BY <2>1, <2>2, <2>3
<1>8. CASE ScanEnds
  <2>1. SessionInv'
    BY <1>8, SessionStutter DEF ScanEnds
  <2>2. TypeOK'
    BY <1>8, <2>1 DEF SessionInv, ScanEnds, NextAttempt, Pc
  <2>3. LoopInv'
    BY <1>8 DEF ScanEnds, NextAttempt
  <2> QED BY <2>1, <2>2, <2>3
<1>9. CASE Succeed
  <2>1. SessionInv'
    BY <1>9, SessionFrame DEF SessionTypeOK, Succeed, Results, fieldVars, Publication
  <2>2. TypeOK'
    <3>1. result' \in Results
      BY <1>9 DEF Succeed, Results, SessionInv, SessionTypeOK
    <3> QED BY <1>9, <2>1, <3>1 DEF SessionInv, Succeed, Pc
  <2>3. LoopInv'
    BY <1>9 DEF Succeed, Results
  <2> QED BY <2>1, <2>2, <2>3
<1>10. CASE RedirectFailed
  <2>1. SessionInv'
    BY <1>10, SessionFrame DEF SessionTypeOK, RedirectFailed, NextAttempt, fieldVars, Publication
  <2>2. TypeOK'
    BY <1>10, <2>1 DEF SessionInv, RedirectFailed, NextAttempt, Pc
  <2>3. LoopInv'
    <3>0. tried_members' = tried_members \ {target}
      BY <1>10 DEF RedirectFailed
    <3>1. Cardinality(tried_members \ {target}) =
            IF target \in tried_members THEN Cardinality(tried_members) - 1
                                        ELSE Cardinality(tried_members)
      BY FS_RemoveElement
    <3>2. Cardinality(tried_members') \in Nat
      BY <2>2, TriedFinite
    <3> QED BY <1>10, <3>0, <3>1, <3>2 DEF RedirectFailed, NextAttempt
  <2> QED BY <2>1, <2>2, <2>3
<1>11. CASE ScanFailed
  <2>1. SessionInv'
    BY <1>11, SessionStutter DEF ScanFailed
  <2>2. TypeOK'
    BY <1>11, <2>1 DEF SessionInv, ScanFailed, NextAttempt, Pc
  <2>3. LoopInv'
    BY <1>11 DEF ScanFailed, NextAttempt
  <2> QED BY <2>1, <2>2, <2>3
<1> QED BY <1>1, <1>2, <1>3, <1>4, <1>5, <1>6, <1>7, <1>8, <1>9, <1>10, <1>11

(* The steps of try_connect_to_member. *)
LEMMA TryLemma ==
  ASSUME ConnectInv,
         \/ Unresolved \/ OpenPublication \/ OpenThrows \/ PublicationConnects
         \/ PublicationTimeout \/ OfferAccepted \/ OfferOnReset \/ SetLeader
         \/ AwaitConnected \/ AwaitNotConnected \/ AwaitRedirected \/ AwaitAgain
         \/ AwaitTimeout
  PROVE  ConnectInv'
<1> SUFFICES SessionInv' /\ TypeOK' /\ LoopInv'
  BY DEF ConnectInv
<1> SessionInv /\ TypeOK /\ LoopInv
  BY DEF ConnectInv
<1> ConnectOffers \in Nat \ {0} /\ MaxFaults \in Nat
  BY ConnectAssumption
<1> USE DEF TypeOK, LoopInv, BusyInv, OffersInv, TriesInv, ClosedInv,
           loopVars, callVars, netVars, clusterVars

<1>1. CASE Unresolved
  <2>1. SessionInv'
    BY <1>1, SessionStutter DEF Unresolved
  <2>2. TypeOK'
    BY <1>1, <2>1 DEF SessionInv, Unresolved, Pc
  <2>3. LoopInv'
    BY <1>1 DEF Unresolved
  <2> QED BY <2>1, <2>2, <2>3
<1>2. CASE OpenPublication
  <2>1. SessionInv'
    BY <1>2, SessionFrame DEF SessionTypeOK, OpenPublication, fieldVars, Publication
  <2>2. TypeOK'
    BY <1>2, <2>1 DEF SessionInv, OpenPublication, Pc
  <2>3. LoopInv'
    BY <1>2 DEF OpenPublication
  <2> QED BY <2>1, <2>2, <2>3
<1>3. CASE OpenThrows
  <2>1. SessionInv'
    BY <1>3, SessionFrame DEF SessionTypeOK, OpenThrows, fieldVars, Publication
  <2>2. TypeOK'
    BY <1>3, <2>1 DEF SessionInv, OpenThrows, Fault, Pc
  <2>3. LoopInv'
    BY <1>3 DEF OpenThrows, Fault
  <2> QED BY <2>1, <2>2, <2>3
<1>4. CASE PublicationConnects
  <2>1. SessionInv'
    BY <1>4, SessionFrame DEF SessionTypeOK, PublicationConnects, fieldVars, Publication
  <2>2. TypeOK'
    BY <1>4, <2>1 DEF SessionInv, PublicationConnects, Pc
  <2>3. LoopInv'
    BY <1>4 DEF PublicationConnects
  <2> QED BY <2>1, <2>2, <2>3
<1>5. CASE PublicationTimeout
  <2>1. SessionInv'
    BY <1>5, SessionStutter DEF PublicationTimeout
  <2>2. TypeOK'
    BY <1>5, <2>1 DEF SessionInv, PublicationTimeout, Fault, Pc
  <2>3. LoopInv'
    BY <1>5 DEF PublicationTimeout, Fault
  <2> QED BY <2>1, <2>2, <2>3
<1>6. CASE OfferAccepted
  <2>1. SessionInv'
    BY <1>6, SessionStutter DEF OfferAccepted
  <2>2. TypeOK'
    BY <1>6, <2>1 DEF SessionInv, OfferAccepted, Pc
  <2>3. LoopInv'
    BY <1>6 DEF OfferAccepted
  <2> QED BY <2>1, <2>2, <2>3
<1>7. CASE OfferOnReset
  <2>1. SessionInv'
    BY <1>7, SessionStutter DEF OfferOnReset
  <2>2. TypeOK'
    BY <1>7, <2>1 DEF SessionInv, OfferOnReset, Pc
  <2>3. LoopInv'
    BY <1>7 DEF OfferOnReset
  <2> QED BY <2>1, <2>2, <2>3
<1>8. CASE SetLeader
  <2>1. SessionInv'
    BY <1>8, SessionFrame DEF SessionTypeOK, SetLeader, fieldVars, Publication
  <2>2. TypeOK'
    BY <1>8, <2>1 DEF SessionInv, SetLeader, Pc
  <2>3. LoopInv'
    BY <1>8 DEF SetLeader
  <2> QED BY <2>1, <2>2, <2>3
<1>9. CASE AwaitConnected
  <2>1. SessionInv'
    BY <1>9, SessionStutter DEF AwaitConnected
  <2>2. TypeOK'
    BY <1>9, <2>1 DEF SessionInv, AwaitConnected, Pc
  <2>3. LoopInv'
    BY <1>9 DEF AwaitConnected
  <2> QED BY <2>1, <2>2, <2>3
<1>10. CASE AwaitNotConnected
  <2>1. SessionInv'
    BY <1>10, SessionStutter DEF AwaitNotConnected
  <2>2. TypeOK'
    BY <1>10, <2>1 DEF SessionInv, AwaitNotConnected, Pc
  <2>3. LoopInv'
    BY <1>10 DEF AwaitNotConnected
  <2> QED BY <2>1, <2>2, <2>3
<1>11. CASE AwaitRedirected
  <2>1. SessionInv'
    BY <1>11, SessionStutter DEF AwaitRedirected
  <2>2. TypeOK'
    BY <1>11, <2>1 DEF SessionInv, AwaitRedirected, Pc
  <2>3. LoopInv'
    BY <1>11 DEF AwaitRedirected
  <2> QED BY <2>1, <2>2, <2>3
<1>12. CASE AwaitAgain
  <2>1. SessionInv'
    BY <1>12, SessionStutter DEF AwaitAgain
  <2>2. TypeOK'
    BY <1>12, <2>1 DEF SessionInv, AwaitAgain, Pc
  <2>3. LoopInv'
    BY <1>12 DEF AwaitAgain
  <2> QED BY <2>1, <2>2, <2>3
<1>13. CASE AwaitTimeout
  <2>1. SessionInv'
    BY <1>13, SessionStutter DEF AwaitTimeout
  <2>2. TypeOK'
    BY <1>13, <2>1 DEF SessionInv, AwaitTimeout, Pc
  <2>3. LoopInv'
    BY <1>13 DEF AwaitTimeout
  <2> QED BY <2>1, <2>2, <2>3
<1> QED BY <1>1, <1>2, <1>3, <1>4, <1>5, <1>6, <1>7, <1>8, <1>9, <1>10, <1>11, <1>12, <1>13

(* An offer of the connect request that fails. *)
LEMMA OfferLemma ==
  ASSUME ConnectInv, NEW code \in OfferFailureCode, OfferFails(code),
         faults' \in 0..MaxFaults
  PROVE  ConnectInv'
<1> SUFFICES SessionInv' /\ TypeOK' /\ LoopInv'
  BY DEF ConnectInv
<1> SessionInv /\ TypeOK /\ LoopInv
  BY DEF ConnectInv
<1> ConnectOffers \in Nat \ {0} /\ MaxFaults \in Nat /\ MaxDisconnects \in Nat
  BY ConnectAssumption
<1> USE DEF TypeOK, LoopInv, BusyInv, OffersInv, TriesInv, ClosedInv,
           loopVars, callVars, netVars, clusterVars
<1>1. connected_' \in BOOLEAN
  BY DEF OfferFails, handle_offer_failure, ConnectedAfter,
         SessionTypeOK, is_connection_loss_failure
<1>2. SessionInv'
  BY <1>1, SessionFrame DEF SessionTypeOK, OfferFails
<1>3. offersLeft' \in 0..ConnectOffers /\ OffersInv'
  BY DEF OfferFails
<1>4. TypeOK'
  BY <1>2, <1>3 DEF SessionInv, OfferFails, Pc
<1>5. LoopInv'
  BY <1>3 DEF OfferFails
<1> QED BY <1>2, <1>4, <1>5

(* The egress thread. *)
LEMMA EgressThreadLemma ==
  ASSUME ConnectInv, (\E e \in events : Deliver(e)) \/ Egress
  PROVE  ConnectInv'
<1> SUFFICES SessionInv' /\ TypeOK' /\ LoopInv'
  BY DEF ConnectInv
<1> SessionInv /\ TypeOK /\ LoopInv
  BY DEF ConnectInv
<1> ConnectOffers \in Nat \ {0} /\ MaxFaults \in Nat /\ MaxDisconnects \in Nat
  BY ConnectAssumption
<1> USE DEF TypeOK, LoopInv, BusyInv, OffersInv, TriesInv, ClosedInv,
           loopVars, callVars, netVars, clusterVars
<1>1. CASE \E e \in events : Deliver(e)
  <2> PICK e \in events : Deliver(e)
    BY <1>1
  <2>1. SessionInv'
    BY EventLemma DEF Deliver
  <2>2. TypeOK'
    BY <2>1 DEF SessionInv, Deliver
  <2>3. LoopInv'
    BY DEF Deliver, handle_session_event
  <2> QED BY <2>1, <2>2, <2>3
<1>2. CASE Egress
  <2>1. SessionInv'
    BY <1>2, EgressLemma DEF Egress
  <2>2. TypeOK'
    BY <1>2, <2>1 DEF SessionInv, Egress
  <2>3. ingress_publication_' = ingress_publication_
    BY <1>2 DEF Egress, EgressStep, OkConnected, OkTerm, OkHeaderTerm, OkHeaderSid,
                OkKeepalive
  <2>4. LoopInv'
    BY <1>2, <2>3 DEF Egress
  <2> QED BY <2>1, <2>2, <2>4
<1> QED BY <1>1, <1>2

(* The thread in disconnect(). *)
LEMMA DisconnectThreadLemma ==
  ASSUME ConnectInv, Disconnect \/ Disconnecting \/ DisconnectFault
  PROVE  ConnectInv'
<1> SUFFICES SessionInv' /\ TypeOK' /\ LoopInv'
  BY DEF ConnectInv
<1> SessionInv /\ TypeOK /\ LoopInv
  BY DEF ConnectInv
<1> ConnectOffers \in Nat \ {0} /\ MaxFaults \in Nat /\ MaxDisconnects \in Nat
  BY ConnectAssumption
<1> USE DEF TypeOK, LoopInv, BusyInv, OffersInv, TriesInv, ClosedInv,
           loopVars, callVars, netVars, clusterVars
<1>1. CASE Disconnect
  <2>1. SessionInv'
    BY <1>1, DisconnectBeginLemma DEF Disconnect
  <2>2. disconnects' \in 0..MaxDisconnects
    BY <1>1 DEF Disconnect
  <2>3. TypeOK'
    BY <1>1, <2>1, <2>2 DEF SessionInv, Disconnect
  <2>4. LoopInv'
    BY <1>1 DEF Disconnect, DisconnectBegin
  <2> QED BY <2>1, <2>3, <2>4
<1>2. CASE Disconnecting
  <2>1. SessionInv'
    BY <1>2, DisconnectLemma DEF Disconnecting
  <2>2. TypeOK'
    BY <1>2, <2>1 DEF SessionInv, Disconnecting
  <2>3. /\ ingress_publication_ = "none" => ingress_publication_' = "none"
        /\ disconnectPc = "reset" => ingress_publication_' = "none"
    BY <1>2 DEF Disconnecting, DisconnectStep, CloseRefused, CloseAccepted,
                ResetPublication, ClearConnected, ClearSession
  <2>4. LoopInv'
    BY <1>2, <2>3 DEF Disconnecting
  <2> QED BY <2>1, <2>2, <2>4
<1>3. CASE DisconnectFault
  <2>1. SessionInv'
    BY <1>3, CloseNotAcceptedLemma DEF DisconnectFault
  <2>2. faults' \in 0..MaxFaults
    BY <1>3 DEF DisconnectFault, Fault
  <2>3. TypeOK'
    BY <1>3, <2>1, <2>2 DEF SessionInv, DisconnectFault
  <2>4. LoopInv'
    BY <1>3 DEF DisconnectFault, CloseNotAccepted
  <2> QED BY <2>1, <2>3, <2>4
<1> QED BY <1>1, <1>2, <1>3

(* The cluster and the network. *)
LEMMA EnvironmentLemma ==
  ASSUME ConnectInv, Environment
  PROVE  ConnectInv'
<1> SUFFICES SessionInv' /\ TypeOK' /\ LoopInv'
  BY DEF ConnectInv
<1> SessionInv /\ TypeOK /\ LoopInv
  BY DEF ConnectInv
<1> ConnectOffers \in Nat \ {0} /\ MaxFaults \in Nat /\ MaxDisconnects \in Nat
  BY ConnectAssumption
<1> USE DEF TypeOK, LoopInv, BusyInv, OffersInv, TriesInv, ClosedInv,
           loopVars, callVars, netVars, clusterVars
<1> \A code \in EventCode, sid \in Int : SessionEvent(code, sid) \in Event
  BY SessionEventType
<1>1. ASSUME NEW m \in MemberIds, Answer(m)  PROVE SessionInv' /\ TypeOK' /\ LoopInv'
  <2>1. SessionInv'
    BY <1>1, SessionStutter DEF Answer
  <2>2. events' \subseteq Event /\ nextSession' \in Nat \ {0}
    BY <1>1 DEF Answer, EventCode
  <2>3. TypeOK'
    BY <1>1, <2>1, <2>2 DEF SessionInv, Answer
  <2>4. LoopInv'
    BY <1>1 DEF Answer, sessionVars
  <2> QED BY <2>1, <2>3, <2>4
<1>2. ASSUME NEW code \in {"ERROR", "AUTHENTICATION_REJECTED", "CLOSED"}, Unsolicited(code)
      PROVE  SessionInv' /\ TypeOK' /\ LoopInv'
  <2>1. SessionInv'
    BY <1>2, SessionStutter DEF Unsolicited
  <2>2. events' \subseteq Event
    BY <1>2 DEF Unsolicited, EventCode
  <2>3. TypeOK'
    BY <1>2, <2>1, <2>2 DEF SessionInv, Unsolicited, Fault
  <2>4. LoopInv'
    BY <1>2 DEF Unsolicited, sessionVars
  <2> QED BY <2>1, <2>3, <2>4
<1>3. CASE Lose
  <2>1. SessionInv'
    BY <1>3, SessionStutter DEF Lose
  <2>2. TypeOK'
    BY <1>3, <2>1 DEF SessionInv, Lose, Fault
  <2>3. LoopInv'
    BY <1>3 DEF Lose, sessionVars
  <2> QED BY <2>1, <2>2, <2>3
<1>4. CASE Elect
  <2>1. SessionInv'
    BY <1>4, SessionStutter DEF Elect
  <2>2. TypeOK'
    BY <1>4, <2>1 DEF SessionInv, Elect, Fault
  <2>3. LoopInv'
    BY <1>4 DEF Elect, sessionVars
  <2> QED BY <2>1, <2>2, <2>3
<1>5. CASE Network
  <2>1. SessionInv'
    BY <1>5, PublicationLemma DEF Network
  <2>2. TypeOK'
    BY <1>5, <2>1 DEF SessionInv, Network, Fault
  <2>3. LoopInv'
    BY <1>5 DEF Network, PublicationDrops, PublicationReturns
  <2> QED BY <2>1, <2>2, <2>3
<1> QED BY <1>1, <1>2, <1>3, <1>4, <1>5 DEF Environment

(* The initial states satisfy the inductive invariant. *)
LEMMA ConnectInvInit == Init => ConnectInv
<1> SUFFICES ASSUME Init PROVE ConnectInv
  OBVIOUS
<1>1. SessionInv
  BY SessionInitLemma DEF Init
<1>2. /\ attempt \in 0..MaxRetries /\ tries \in Nat /\ target \in Nat
      /\ offersLeft \in 0..ConnectOffers /\ connects \in 0..MaxConnects
      /\ disconnects \in 0..MaxDisconnects /\ term \in Nat
      /\ nextSession \in Nat \ {0} /\ faults \in 0..MaxFaults
      /\ NoResult \in Results /\ TriesInv
  BY ConnectAssumption, FS_EmptySet DEF Init, TriesInv, NoResult, Results
<1>3. TypeOK
  BY <1>1, <1>2, Zenon DEF Init, TypeOK, SessionInv, Pc
<1>4. LoopInv
  BY <1>2, Zenon DEF Init, LoopInv, BusyInv, OffersInv, ClosedInv
<1> QED BY <1>1, <1>3, <1>4 DEF ConnectInv

(* Every step preserves it. *)
LEMMA ConnectInvStep == ConnectInv /\ [Next]_vars => ConnectInv'
<1> SUFFICES ASSUME ConnectInv, [Next]_vars PROVE ConnectInv'
  OBVIOUS
<1>1. CASE UNCHANGED vars
  <2>1. SessionInv'
    BY <1>1, SessionStutter DEF ConnectInv, vars
  <2>2. TypeOK'
    BY <1>1, <2>1 DEF ConnectInv, SessionInv, TypeOK, vars, loopVars, callVars, netVars, clusterVars
  <2>3. LoopInv'
    BY <1>1 DEF ConnectInv, LoopInv, BusyInv, OffersInv, TriesInv, ClosedInv, vars,
                loopVars, callVars, sessionVars
  <2> QED BY <2>1, <2>2, <2>3 DEF ConnectInv
<1>2. CASE \E code \in OfferFailureCode : OfferFails(code) /\ Fault
  <2>1. faults' \in 0..MaxFaults
    BY <1>2, ConnectAssumption DEF Fault, ConnectInv, TypeOK
  <2> QED BY <1>2, <2>1, OfferLemma
<1>3. CASE OfferNotConnected
  <2>1. faults' \in 0..MaxFaults /\ "NotConnected" \in OfferFailureCode
    BY <1>3 DEF OfferNotConnected, ConnectInv, TypeOK, OfferFailureCode
  <2> QED BY <1>3, <2>1, OfferLemma DEF OfferNotConnected
<1> QED
  BY <1>1, <1>2, <1>3, LoopLemma, TryLemma, EgressThreadLemma, DisconnectThreadLemma,
     EnvironmentLemma
  DEF Next, ConnectStep, ConnectFault

(* ConnectInv holds in every reachable state. *)
THEOREM ConnectInvariant == Spec => []ConnectInv
BY ConnectInvInit, ConnectInvStep, PTL DEF Spec

(* Every variable of the connect() loop, of the session and of the cluster *)
(* keeps its type: in particular the attempt counter stays within          *)
(* max_retries and tried_members holds indices of cluster_endpoints only.  *)
THEOREM ConnectTypes == Spec => []TypeOK
<1>1. ConnectInv => TypeOK
  BY DEF ConnectInv
<1> QED BY <1>1, ConnectInvariant, PTL

(* connect() ends its hopping: it calls try_connect_to_member at most      *)
(* cluster_endpoints.size() + max_retries times, whatever members redirect *)
(* it to, and whatever is lost, delayed or elected meanwhile.              *)
THEOREM ConnectTriesBounded == Spec => []TriesBounded
<1>1. ConnectInv => TriesBounded
  <2> SUFFICES ASSUME ConnectInv PROVE TriesBounded
    OBVIOUS
  <2>1. /\ Cardinality(tried_members) \in Nat /\ Cardinality(tried_members) <= N
        /\ N \in Nat /\ MaxRetries \in Nat
    BY TriedFinite, ConnectAssumption DEF ConnectInv, TypeOK, N
  <2> QED BY <2>1 DEF ConnectInv, TypeOK, LoopInv, TriesInv, TriesBounded
<1> QED BY <1>1, ConnectInvariant, PTL

(* The pre-built header and keepalive carry the session of the fields      *)
(* whenever handle_session_ok is not running, although disconnect() and    *)
(* the egress thread write the fields without a lock.                      *)
THEOREM ConnectBuffersMatch == Spec => []BuffersMatchSession
<1>1. ConnectInv => BuffersMatchSession
  BY DEF ConnectInv, SessionInv, BuffersInv
<1> QED BY <1>1, ConnectInvariant, PTL

(* A client that disconnected stays disconnected until the next connect(), *)
(* whatever events arrive late.                                            *)
THEOREM DisconnectedStays == Spec => []NoResurrection
<1>1. ConnectInv => NoResurrection
  BY DEF ConnectInv, LoopInv, ClosedInv, NoResurrection, is_connected
<1> QED BY <1>1, ConnectInvariant, PTL
-----------------------------------------------------------------------------
(* HealthyConnectSucceeds.  While nothing goes wrong, the leader is asked  *)
(* once, by the scan or after one redirect, and its answer is waited for.  *)

Healthy ==
  faults = MaxFaults /\ disconnects = MaxDisconnects /\ ~late /\ leader \in Indices

(* In try_connect_to_member, before and after the request is sent. *)
Asking == {"resolve", "open", "offer"}
Waiting == {"leader", "await", "await_redirect"}

(* The leader holds a request, or has opened a session for it. *)
LeaderAsked ==
  \/ connected_ \/ egressPc = "connected" \/ leader \in requests
  \/ \E e \in events : e.code = "OK"

(* Nothing but what a healthy cluster sends. *)
CalmInv ==
  /\ disconnectPc = "idle" /\ pc # "crashed" /\ result.status # "failed"
  /\ redirected_to_member_id_ \in {-1, leader}
  /\ \A e \in events : e.code \in {"OK", "REDIRECT"} /\ e.leader = leader
  /\ egressPc \notin {"idle", "connected"} => connected_
  /\ pc = "offer" => ingress_publication_ = "up"

(* Sessions the cluster has opened or will open for a request it holds. *)
Used == nextSession - 1 + (IF leader \in requests THEN 1 ELSE 0)
SessionsInv ==
  /\ Used <= MaxConnects - connects
  /\ \/ pc \in {"attempt", "pending", "scan", "fail"} \cup Asking
     \/ pc \in Waiting /\ target # leader
     => Used < MaxConnects - connects

(* Where the loop of connect() can be. *)
SearchInv ==
  /\ attempt <= 1
  /\ pc \in {"pending", "scan", "fail"} => attempt = 0
  /\ pc = "attempt" /\ attempt = 1 => redirected_to_member_id_ = leader
  /\ pc \in Asking \cup Waiting =>
       IF via = "redirect" THEN target = leader ELSE attempt = 0 /\ target <= leader
  /\ pc = "fail" => via = "scan" /\ target < leader
  /\ pc = "scan" => target <= leader
  /\ pc # "idle" /\ leader \in tried_members =>
       target = leader /\ pc \in Asking \cup Waiting \cup {"succeed"}

(* Who has asked the leader waits for its answer. *)
AskedInv ==
  /\ pc \in Waiting /\ target = leader => LeaderAsked
  /\ LeaderAsked => connected_ \/ (pc \in Waiting /\ target = leader)
  /\ pc = "succeed" => connected_
  /\ pc = "await_redirect" /\ connected_ => target = leader


HealthyState == CalmInv /\ SessionsInv /\ SearchInv /\ AskedInv
HealthyInv == Healthy => HealthyState

(* What the configuration must grant: two attempts, a session for every    *)
(* call, and an endpoint for every member that a redirect may name.        *)
Reachable ==
  /\ MaxRetries >= 2 /\ MaxConnects <= MaxSessions
  /\ \A m \in MemberIds \cap Indices : Resolves(m)

(* A step into a healthy state comes from one, and is no failure.          *)
LEMMA HealthyBefore ==
  ASSUME ConnectInv, Next, Healthy'
  PROVE  /\ Healthy /\ faults' = faults /\ disconnects' = disconnects
         /\ leader' = leader
         /\ ~Fault /\ ~Disconnect
<1> USE DEF Next, Connect, ConnectStep, AwaitTimeout, ConnectFault, Deliver, Egress,
       Disconnecting, DisconnectFault, Environment, OpenThrows, PublicationTimeout,
       Answer, Unsolicited, Lose, Elect, Network, GiveUp, FollowRedirect,
       NoFollowableRedirect, PendingRedirect, NothingPending, ScanMember, ScanEnds,
       Unresolved, OpenPublication, PublicationConnects, OfferAccepted,
       OfferNotConnected, OfferFails, OfferOnReset, SetLeader, AwaitConnected,
       AwaitNotConnected, AwaitRedirected, AwaitAgain, Succeed, RedirectFailed, ScanFailed,
       callVars, clusterVars
<1>1. ~Fault /\ ~Disconnect
  <2>1. /\ MaxFaults \in Nat /\ faults \in 0..MaxFaults
        /\ MaxDisconnects \in Nat /\ disconnects \in 0..MaxDisconnects
        /\ faults' = MaxFaults /\ disconnects' = MaxDisconnects
    BY ConnectAssumption DEF ConnectInv, TypeOK, Healthy
  <2>2. ~Fault
    BY <2>1 DEF Fault
  <2>3. ~Disconnect
    BY <2>1 DEF Disconnect
  <2> QED BY <2>2, <2>3
<1>2. faults' = faults
  BY <1>1 DEF Disconnect
<1>3. disconnects' = disconnects /\ leader' = leader
  BY <1>1
<1>4. ~late
  BY <1>1 DEF Healthy
<1> QED BY <1>1, <1>2, <1>3, <1>4 DEF Healthy

(* The types of a healthy state that every step below uses. *)
HealthyTypes ==
  /\ leader \in Nat /\ leader \in MemberIds /\ leader \in Indices
  /\ nextSession \in Nat \ {0} /\ Used \in Nat
  /\ connects \in 0..MaxConnects /\ MaxConnects \in Nat /\ MaxRetries \in Nat
  /\ attempt \in 0..MaxRetries /\ target \in Nat /\ N \in Nat
  /\ via \in {"redirect", "scan"} /\ pc \in Pc
  /\ redirected_to_member_id_ \in Int /\ connected_ \in BOOLEAN
  /\ egressPc \in EgressPc

(* They follow from ConnectInv. *)
LEMMA HealthyFacts ==
  ASSUME ConnectInv, Healthy
  PROVE  HealthyTypes
  BY ConnectAssumption DEF HealthyTypes, ConnectInv, TypeOK, SessionTypeOK, Healthy, Used,
     Indices, N

(* The steps that leave the cluster and the answers alone. *)
LEMMA AskedUnchanged ==
  ASSUME UNCHANGED <<connected_, egressPc, requests, events, leader, nextSession>>
  PROVE  LeaderAsked' = LeaderAsked /\ Used' = Used
  BY DEF LeaderAsked, Used

(* The steps of connect() outside try_connect_to_member. *)
LEMMA HealthyLoop ==
  ASSUME ConnectInv, Reachable, Healthy, HealthyState, UNCHANGED leader,
         \/ Connect \/ GiveUp \/ FollowRedirect \/ NoFollowableRedirect \/ PendingRedirect \/ NothingPending \/ ScanMember \/ ScanEnds \/ Succeed \/ RedirectFailed \/ ScanFailed
  PROVE  HealthyState'
<1> HealthyTypes
  BY HealthyFacts
<1> USE DEF HealthyTypes, HealthyState, CalmInv, SessionsInv, SearchInv, AskedInv, Asking, Waiting,
           loopVars, callVars, netVars, clusterVars, sessionVars, fieldVars, egressVars,
           disconnectVars
<1>1. CASE Connect
  <2>1. LeaderAsked' = LeaderAsked /\ Used' = Used
    BY <1>1, AskedUnchanged DEF Connect
  <2> QED BY <1>1, <2>1 DEF Connect
<1>2. CASE GiveUp
  <2>1. LeaderAsked' = LeaderAsked /\ Used' = Used
    BY <1>2, AskedUnchanged DEF GiveUp
  <2> QED BY <1>2, <2>1 DEF GiveUp, Reachable
<1>3. CASE FollowRedirect
  <2>1. LeaderAsked' = LeaderAsked /\ Used' = Used
    BY <1>3, AskedUnchanged DEF FollowRedirect
  <2> QED BY <1>3, <2>1 DEF FollowRedirect, Try, Followable, Indices
<1>4. CASE NoFollowableRedirect
  <2>1. LeaderAsked' = LeaderAsked /\ Used' = Used
    BY <1>4, AskedUnchanged DEF NoFollowableRedirect
  <2> QED BY <1>4, <2>1 DEF NoFollowableRedirect, Followable
<1>5. CASE PendingRedirect
  <2>1. LeaderAsked' = LeaderAsked /\ Used' = Used
    BY <1>5, AskedUnchanged DEF PendingRedirect
  <2> QED BY <1>5, <2>1 DEF PendingRedirect, NextAttempt
<1>6. CASE NothingPending
  <2>1. LeaderAsked' = LeaderAsked /\ Used' = Used
    BY <1>6, AskedUnchanged DEF NothingPending
  <2> QED BY <1>6, <2>1 DEF NothingPending
<1>7. CASE ScanMember
  <2>1. LeaderAsked' = LeaderAsked /\ Used' = Used
    BY <1>7, AskedUnchanged DEF ScanMember
  <2> QED BY <1>7, <2>1 DEF ScanMember, Try, Indices
<1>8. CASE ScanEnds
  <2>1. LeaderAsked' = LeaderAsked /\ Used' = Used
    BY <1>8, AskedUnchanged DEF ScanEnds
  <2> QED BY <1>8, <2>1 DEF ScanEnds, NextAttempt
<1>9. CASE Succeed
  <2>1. LeaderAsked' = LeaderAsked /\ Used' = Used
    BY <1>9, AskedUnchanged DEF Succeed
  <2> QED BY <1>9, <2>1 DEF Succeed
<1>10. CASE RedirectFailed
  <2>1. LeaderAsked' = LeaderAsked /\ Used' = Used
    BY <1>10, AskedUnchanged DEF RedirectFailed
  <2> QED BY <1>10, <2>1 DEF RedirectFailed, NextAttempt
<1>11. CASE ScanFailed
  <2>1. LeaderAsked' = LeaderAsked /\ Used' = Used
    BY <1>11, AskedUnchanged DEF ScanFailed
  <2> QED BY <1>11, <2>1 DEF ScanFailed, NextAttempt, RedirectedElsewhere
<1> QED BY <1>1, <1>2, <1>3, <1>4, <1>5, <1>6, <1>7, <1>8, <1>9, <1>10, <1>11

(* The steps of try_connect_to_member that its request does not depend on. *)
LEMMA HealthyTry ==
  ASSUME ConnectInv, Reachable, Healthy, HealthyState, UNCHANGED leader,
         \/ Unresolved \/ OpenPublication \/ PublicationConnects \/ OfferNotConnected \/ OfferOnReset \/ SetLeader \/ AwaitConnected \/ AwaitNotConnected \/ AwaitRedirected \/ AwaitAgain
  PROVE  HealthyState'
<1> HealthyTypes
  BY HealthyFacts
<1> USE DEF HealthyTypes, HealthyState, CalmInv, SessionsInv, SearchInv, AskedInv, Asking, Waiting,
           loopVars, callVars, netVars, clusterVars, sessionVars, fieldVars, egressVars,
           disconnectVars
<1>1. CASE Unresolved
  <2>1. LeaderAsked' = LeaderAsked /\ Used' = Used
    BY <1>1, AskedUnchanged DEF Unresolved
  <2> QED BY <1>1, <2>1 DEF Unresolved, Reachable
<1>2. CASE OpenPublication
  <2>1. LeaderAsked' = LeaderAsked /\ Used' = Used
    BY <1>2, AskedUnchanged DEF OpenPublication
  <2> QED BY <1>2, <2>1 DEF OpenPublication
<1>3. CASE PublicationConnects
  <2>1. LeaderAsked' = LeaderAsked /\ Used' = Used
    BY <1>3, AskedUnchanged DEF PublicationConnects
  <2> QED BY <1>3, <2>1 DEF PublicationConnects
<1>4. CASE OfferNotConnected
  BY <1>4 DEF OfferNotConnected, OfferFails
<1>5. CASE OfferOnReset
  <2>1. LeaderAsked' = LeaderAsked /\ Used' = Used
    BY <1>5, AskedUnchanged DEF OfferOnReset
  <2> QED BY <1>5, <2>1 DEF OfferOnReset
<1>6. CASE SetLeader
  <2>1. LeaderAsked' = LeaderAsked /\ Used' = Used
    BY <1>6, AskedUnchanged DEF SetLeader
  <2> QED BY <1>6, <2>1 DEF SetLeader
<1>7. CASE AwaitConnected
  <2>1. LeaderAsked' = LeaderAsked /\ Used' = Used
    BY <1>7, AskedUnchanged DEF AwaitConnected
  <2> QED BY <1>7, <2>1 DEF AwaitConnected
<1>8. CASE AwaitNotConnected
  <2>1. LeaderAsked' = LeaderAsked /\ Used' = Used
    BY <1>8, AskedUnchanged DEF AwaitNotConnected
  <2> QED BY <1>8, <2>1 DEF AwaitNotConnected
<1>9. CASE AwaitRedirected
  <2>1. LeaderAsked' = LeaderAsked /\ Used' = Used
    BY <1>9, AskedUnchanged DEF AwaitRedirected
  <2> QED BY <1>9, <2>1 DEF AwaitRedirected, RedirectedElsewhere
<1>10. CASE AwaitAgain
  <2>1. LeaderAsked' = LeaderAsked /\ Used' = Used
    BY <1>10, AskedUnchanged DEF AwaitAgain
  <2> QED BY <1>10, <2>1 DEF AwaitAgain, RedirectedElsewhere
<1> QED BY <1>1, <1>2, <1>3, <1>4, <1>5, <1>6, <1>7, <1>8, <1>9, <1>10

(* The request is offered, and its answer waited for, to the end. *)
LEMMA HealthyRequest ==
  ASSUME ConnectInv, Reachable, Healthy, HealthyState, UNCHANGED leader,
         OfferAccepted \/ AwaitTimeout, Healthy'
  PROVE  HealthyState'
<1> HealthyTypes
  BY HealthyFacts
<1> USE DEF HealthyTypes, HealthyState, CalmInv, SessionsInv, SearchInv, AskedInv, Asking, Waiting,
           loopVars, callVars, netVars, clusterVars, sessionVars, fieldVars, egressVars,
           disconnectVars
<1>1. CASE OfferAccepted
  <2>1. CASE target = leader
    <3>1. leader \in requests' /\ nextSession' = nextSession
      BY <1>1, <2>1 DEF OfferAccepted
    <3>2. LeaderAsked' /\ Used' <= Used + 1 /\ Used' \in Nat
      BY <3>1 DEF LeaderAsked, Used
    <3> QED BY <1>1, <2>1, <3>2 DEF OfferAccepted
  <2>2. CASE target # leader
    <3>1. LeaderAsked' = LeaderAsked /\ Used' = Used
      BY <1>1, <2>2 DEF OfferAccepted, LeaderAsked, Used
    <3> QED BY <1>1, <2>2, <3>1 DEF OfferAccepted
  <2> QED BY <2>1, <2>2
<1>2. CASE AwaitTimeout
  <2>1. LeaderAsked' = LeaderAsked /\ Used' = Used
    BY <1>2, AskedUnchanged DEF AwaitTimeout
  <2>2. requests = {} /\ events = {} /\ egressPc = "idle"
    BY <1>2 DEF AwaitTimeout, Healthy
  <2>3. target = leader => connected_
    BY <1>2, <2>2 DEF AwaitTimeout, LeaderAsked
  <2> QED BY <1>2, <2>1, <2>3 DEF AwaitTimeout, RedirectedElsewhere
<1> QED BY <1>1, <1>2

(* The egress thread handles what the leader or a follower answered. *)
LEMMA HealthyEgress ==
  ASSUME ConnectInv, Reachable, Healthy, HealthyState, UNCHANGED leader,
         (\E e \in events : Deliver(e)) \/ Egress
  PROVE  HealthyState'
<1> HealthyTypes
  BY HealthyFacts
<1> USE DEF HealthyTypes, HealthyState, CalmInv, SessionsInv, SearchInv, AskedInv, Asking, Waiting,
           loopVars, callVars, netVars, clusterVars, sessionVars, fieldVars, egressVars,
           disconnectVars
<1>1. CASE \E e \in events : Deliver(e)
  <2> PICK e \in events : Deliver(e)
    BY <1>1
  <2> e.code \in {"OK", "REDIRECT"} /\ e.leader = leader
    OBVIOUS
  <2>1. CASE e.code = "OK"
    <3>1. LeaderAsked /\ LeaderAsked' /\ Used' = Used
      BY <2>1 DEF Deliver, handle_session_event, handle_session_ok, LeaderAsked, Used
    <3> QED BY <2>1, <3>1 DEF Deliver, handle_session_event, handle_session_ok
  <2>2. CASE e.code = "REDIRECT"
    <3>1. LeaderAsked' = LeaderAsked /\ Used' = Used
      BY <2>2 DEF Deliver, handle_session_event, handle_session_redirect, LeaderAsked, Used
    <3> QED BY <2>2, <3>1 DEF Deliver, handle_session_event, handle_session_redirect
  <2> QED BY <2>1, <2>2
<1>2. CASE Egress
  <2>1. /\ connected_' /\ LeaderAsked' /\ Used' = Used /\ LeaderAsked
        /\ UNCHANGED <<disconnectVars, redirected_to_member_id_, ingress_publication_>>
        /\ connected_ \/ egressPc = "connected"
    BY <1>2 DEF Egress, EgressStep, OkConnected, OkTerm, OkHeaderTerm, OkHeaderSid,
                OkKeepalive, LeaderAsked, Used
  <2> QED BY <1>2, <2>1 DEF Egress
<1> QED BY <1>1, <1>2

(* A member answers, or the publication connects again. *)
LEMMA HealthyCluster ==
  ASSUME ConnectInv, Reachable, Healthy, HealthyState, UNCHANGED leader,
         ~Fault, Environment
  PROVE  HealthyState'
<1> HealthyTypes
  BY HealthyFacts
<1> USE DEF HealthyTypes, HealthyState, CalmInv, SessionsInv, SearchInv, AskedInv, Asking, Waiting,
           loopVars, callVars, netVars, clusterVars, sessionVars, fieldVars, egressVars,
           disconnectVars
<1>1. ASSUME NEW m \in MemberIds, Answer(m)  PROVE HealthyState'
  <2>1. CASE m = leader
    <3>1. leader \in requests /\ Used = nextSession
      BY <1>1, <2>1 DEF Answer, Used
    <3>2. nextSession <= MaxSessions
      BY <3>1, ConnectAssumption DEF Reachable
    <3>3. /\ leader \notin requests' /\ nextSession' = nextSession + 1
          /\ events' = events \cup {SessionEvent("OK", nextSession)}
      BY <1>1, <2>1, <3>2, ConnectAssumption DEF Answer
    <3>4. SessionEvent("OK", nextSession).code = "OK"
          /\ SessionEvent("OK", nextSession).leader = leader
      BY DEF SessionEvent
    <3>5. LeaderAsked /\ LeaderAsked' /\ Used' = Used
      BY <3>1, <3>3, <3>4 DEF Used, LeaderAsked
    <3>6. \A e \in events' : e.code \in {"OK", "REDIRECT"} /\ e.leader = leader
      BY <3>3, <3>4
    <3> QED BY <1>1, <3>5, <3>6 DEF Answer
  <2>2. CASE m # leader
    <3>1. /\ LeaderAsked' = LeaderAsked /\ Used' = Used
          /\ \A e \in events' : e.code \in {"OK", "REDIRECT"} /\ e.leader = leader
      BY <1>1, <2>2 DEF Answer, Used, LeaderAsked, SessionEvent
    <3> QED BY <1>1, <3>1 DEF Answer
  <2> QED BY <2>1, <2>2
<1>2. CASE Network
  <2>1. LeaderAsked' = LeaderAsked /\ Used' = Used
    BY <1>2, AskedUnchanged DEF Network, PublicationReturns, PublicationDrops
  <2> QED BY <1>2, <2>1 DEF Network, PublicationReturns
<1> QED BY <1>1, <1>2 DEF Environment, Unsolicited, Lose, Elect

(* The initial states are healthy. *)
LEMMA HealthyInit == Init => HealthyInv
<1> SUFFICES ASSUME Init, Healthy PROVE HealthyState
  BY DEF HealthyInv
<1>1. MaxConnects \in Nat /\ leader \in Nat
  BY ConnectAssumption DEF Init
<1>2. Used = 0 /\ ~LeaderAsked
  BY DEF Init, SessionInit, Used, LeaderAsked
<1> QED BY <1>1, <1>2 DEF Init, SessionInit, HealthyState, CalmInv, SessionsInv, SearchInv,
           AskedInv, Asking, Waiting, NoResult

(* Every step preserves HealthyInv. *)
LEMMA HealthyStep ==
  ASSUME Reachable, ConnectInv, HealthyInv, [Next]_vars
  PROVE  HealthyInv'
<1> SUFFICES ASSUME Healthy' PROVE HealthyState'
  BY DEF HealthyInv
<1>1. CASE UNCHANGED vars
  <2>1. Healthy /\ HealthyState
    BY <1>1 DEF HealthyInv, Healthy, vars, callVars, clusterVars
  <2>2. LeaderAsked' = LeaderAsked /\ Used' = Used
    BY <1>1, AskedUnchanged DEF vars, sessionVars, fieldVars, egressVars, netVars, clusterVars
  <2> QED BY <1>1, <2>1, <2>2 DEF HealthyState, CalmInv, SessionsInv, SearchInv, AskedInv,
             vars, sessionVars, fieldVars, egressVars, disconnectVars, loopVars, callVars,
             netVars, clusterVars
<1>2. CASE Next
  <2>1. /\ Healthy /\ HealthyState /\ UNCHANGED leader /\ ~Fault /\ ~Disconnect
    BY <1>2, HealthyBefore DEF HealthyInv
  <2>2. ~ConnectFault /\ ~DisconnectFault
    BY <2>1 DEF ConnectFault, OpenThrows, PublicationTimeout, DisconnectFault
  <2>3. ~Disconnecting
    BY <2>1 DEF HealthyState, CalmInv, Disconnecting, DisconnectStep, CloseRefused,
       CloseAccepted, ResetPublication, ClearConnected, ClearSession
  <2> QED BY <1>2, <2>1, <2>2, <2>3, HealthyLoop, HealthyTry, HealthyRequest,
             HealthyEgress, HealthyCluster DEF Next, ConnectStep
<1> QED BY <1>1, <1>2

(* While the cluster is healthy, connect() reaches the leader: directly if *)
(* the scan comes to it first, through one redirect otherwise, whatever    *)
(* the order in which answers and stray redirects are handled.  It needs   *)
(* two attempts, a session left for every call of connect(), and an        *)
(* endpoint that resolves for every member whose id is an index.           *)
THEOREM HealthyConnects ==
  ASSUME MaxRetries >= 2, MaxConnects <= MaxSessions,
         \A m \in MemberIds \cap Indices : Resolves(m)
  PROVE  Spec => []HealthyConnectSucceeds
<1>1. Reachable
  BY DEF Reachable
<1>2. ConnectInv /\ HealthyInv /\ [Next]_vars => HealthyInv'
  BY <1>1, HealthyStep
<1>3. HealthyInv => HealthyConnectSucceeds
  BY DEF HealthyInv, Healthy, HealthyState, CalmInv, HealthyConnectSucceeds
<1> QED BY HealthyInit, <1>2, <1>3, ConnectInvariant, PTL DEF Spec
=============================================================================
