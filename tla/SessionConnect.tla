--------------------------- MODULE SessionConnect ---------------------------
(***************************************************************************)
(* SessionManager::Impl::connect() and try_connect_to_member(): the loop   *)
(* that tries cluster members and follows redirects, against a cluster     *)
(* whose answers the egress thread handles concurrently, while another     *)
(* thread may call disconnect().                                           *)
(*                                                                         *)
(* The cluster and the media driver are external; they are modelled by     *)
(* what the client can see of them: an answer to a connect request (OK     *)
(* from the leader, REDIRECT from a follower), unsolicited ERROR and       *)
(* CLOSED events, elections, lost and late answers, publications that drop *)
(* and offers that fail.  Answers of different members are unordered.      *)
(***************************************************************************)
EXTENDS Session, Sequences, FiniteSets

CONSTANTS
  Endpoints,        \* cluster_endpoints: Plain, or the id of an "id=endpoint" entry
  Plain,            \* an entry "host:port", whose member id is its index
  MemberIds,        \* the ids of the members the cluster really has
  MaxRetries,       \* max_retries
  ConnectOffers,    \* offers of one SessionConnectRequest (20)
  FirstTerm,        \* the leadership term in which the model starts
  MaxTerm,          \* bound: the highest leadership term
  MaxSessions,      \* bound: the highest cluster session id
  MaxConnects,      \* bound: calls of connect()
  MaxDisconnects,   \* bound: calls of disconnect()
  MaxFaults         \* bound: failures of the environment

N == Len(Endpoints)          \* config_.cluster_endpoints.size()
Indices == 0..(N - 1)

ASSUME ConnectAssumption ==
  /\ Plain \notin Int
  /\ Endpoints \in Seq({Plain} \cup Int)
  /\ MemberIds \subseteq Nat /\ IsFiniteSet(MemberIds)
  /\ MaxRetries \in Nat /\ ConnectOffers \in Nat \ {0}
  /\ FirstTerm \in Nat /\ MaxTerm \in Nat
  /\ MaxSessions \in Nat /\ MaxConnects \in Nat /\ MaxDisconnects \in Nat
  /\ MaxFaults \in Nat

VARIABLES
  pc,               \* where the thread in connect() is
  attempt,          \* the loop counter of connect()
  tried_members,
  via,              \* which branch of connect() called try_connect_to_member
  target,           \* its argument
  offersLeft,       \* offers left for its SessionConnectRequest
  tries,            \* history: calls of try_connect_to_member in this connect()
  result,           \* what the last connect() returned
  connects,         \* calls of connect() left
  disconnects,      \* calls of disconnect() left
  closed,           \* history: disconnect() has reset the publication while no
                    \* connect() was running, and none was called since
  late,             \* history: a session timeout fired with an answer on its way
  requests,         \* external: members holding an unanswered connect request
  events,           \* external: session events on their way to the client
  leader,           \* external: the member that leads the cluster
  term,             \* external: its leadership term
  nextSession,      \* external: the next cluster session id
  faults            \* failures the environment may still cause

loopVars == <<pc, attempt, tried_members, via, target, offersLeft, tries>>
callVars == <<result, connects, disconnects, closed, late>>
netVars == <<requests, events>>
clusterVars == <<leader, term, nextSession>>
vars == <<sessionVars, loopVars, callVars, netVars, clusterVars, faults>>

NoResult == [status |-> "none", sid |-> -1, term |-> -1, leader |-> -1]
Failure == [NoResult EXCEPT !.status = "failed"]
Results == [status : {"none", "success", "failed"}, sid : Int, term : Int, leader : Int]

Pc == {"idle", "attempt", "pending", "scan", "resolve", "open", "offer", "leader",
       "await", "await_redirect", "succeed", "fail", "crashed"}

TypeOK ==
  /\ SessionTypeOK
  /\ pc \in Pc
  /\ attempt \in 0..MaxRetries
  /\ tried_members \subseteq Indices
  /\ via \in {"redirect", "scan"}
  /\ target \in Nat
  /\ offersLeft \in 0..ConnectOffers
  /\ tries \in Nat
  /\ result \in Results
  /\ connects \in 0..MaxConnects
  /\ disconnects \in 0..MaxDisconnects
  /\ closed \in BOOLEAN /\ late \in BOOLEAN
  /\ requests \subseteq MemberIds
  /\ events \subseteq Event
  /\ leader \in MemberIds
  /\ term \in Nat
  /\ nextSession \in Nat \ {0}
  /\ faults \in 0..MaxFaults

Init ==
  /\ SessionInit
  /\ pc = "idle" /\ attempt = 0 /\ tried_members = {} /\ via = "scan"
  /\ target = 0 /\ offersLeft = 0 /\ tries = 0
  /\ result = NoResult /\ connects = MaxConnects /\ disconnects = MaxDisconnects
  /\ closed = FALSE /\ late = FALSE
  /\ requests = {} /\ events = {}
  /\ leader \in MemberIds /\ term = FirstTerm /\ nextSession = 1
  /\ faults = MaxFaults

Fault == faults > 0 /\ faults' = faults - 1

-----------------------------------------------------------------------------
(* connect() *)

Connect ==
  /\ pc = "idle" /\ connects > 0
  /\ connects' = connects - 1
  /\ pc' = "attempt" /\ attempt' = 0 /\ tried_members' = {} /\ tries' = 0
  /\ closed' = FALSE
  /\ UNCHANGED <<sessionVars, via, target, offersLeft, result, disconnects, late,
                 netVars, clusterVars, faults>>

(* All attempts used up. *)
GiveUp ==
  /\ pc = "attempt" /\ attempt = MaxRetries
  /\ result' = Failure
  /\ pc' = "idle"
  /\ UNCHANGED <<sessionVars, attempt, tried_members, via, target, offersLeft,
                 tries, connects, disconnects, closed, late, netVars, clusterVars,
                 faults>>

(* Mutant of Followable: the last member is out of range. *)
Followable_OffByOne(m) == m \in 0..(N - 2) /\ m \notin tried_members

Followable(m) == m \in Indices /\ m \notin tried_members

Try(m, branch) ==
  /\ tried_members' = tried_members \cup {m}
  /\ target' = m
  /\ via' = branch
  /\ tries' = tries + 1
  /\ pc' = "resolve"

FollowRedirect ==
  /\ pc = "attempt" /\ attempt < MaxRetries
  /\ Followable(redirected_to_member_id_)
  /\ Try(redirected_to_member_id_, "redirect")
  /\ UNCHANGED <<sessionVars, attempt, offersLeft, callVars, netVars, clusterVars, faults>>

(* Mutant of NoFollowableRedirect: one attempt too many. *)
NoFollowableRedirect_OneMore ==
  /\ pc = "attempt" /\ attempt <= MaxRetries
  /\ ~Followable(redirected_to_member_id_)
  /\ pc' = "pending"
  /\ UNCHANGED <<sessionVars, attempt, tried_members, via, target, offersLeft,
                 tries, callVars, netVars, clusterVars, faults>>

NoFollowableRedirect ==
  /\ pc = "attempt" /\ attempt < MaxRetries
  /\ ~Followable(redirected_to_member_id_)
  /\ pc' = "pending"
  /\ UNCHANGED <<sessionVars, attempt, tried_members, via, target, offersLeft,
                 tries, callVars, netVars, clusterVars, faults>>

NextAttempt == attempt' = attempt + 1 /\ pc' = "attempt"

(* Mutant of PendingRedirect: the attempt is not counted. *)
PendingRedirect_Free ==
  /\ pc = "pending" /\ redirected_to_member_id_ >= 0
  /\ pc' = "attempt"
  /\ UNCHANGED <<sessionVars, attempt, tried_members, via, target, offersLeft,
                 tries, callVars, netVars, clusterVars, faults>>

(* A redirect that is pending and was not followable costs the attempt.    *)
PendingRedirect ==
  /\ pc = "pending" /\ redirected_to_member_id_ >= 0
  /\ NextAttempt
  /\ UNCHANGED <<sessionVars, tried_members, via, target, offersLeft, tries,
                 callVars, netVars, clusterVars, faults>>

NothingPending ==
  /\ pc = "pending" /\ redirected_to_member_id_ < 0
  /\ pc' = "scan"
  /\ target' = 0
  /\ UNCHANGED <<sessionVars, attempt, tried_members, via, offersLeft, tries,
                 callVars, netVars, clusterVars, faults>>

(* The next member of the inner loop, which stands at target.              *)
ScanMember ==
  /\ pc = "scan"
  /\ \E m \in Indices \ tried_members :
        /\ m >= target
        /\ \A k \in Indices \ tried_members : k >= target => m <= k
        /\ Try(m, "scan")
  /\ redirected_to_member_id_' = -1
  /\ UNCHANGED <<fieldVars, ingress_publication_, bufferVars, egressVars,
                 disconnectVars, attempt, offersLeft, callVars, netVars,
                 clusterVars, faults>>

ScanEnds ==
  /\ pc = "scan"
  /\ \A m \in Indices \ tried_members : m < target
  /\ NextAttempt
  /\ UNCHANGED <<sessionVars, tried_members, via, target, offersLeft, tries,
                 callVars, netVars, clusterVars, faults>>

-----------------------------------------------------------------------------
(* try_connect_to_member(target) *)

(* resolve_endpoint_for_member: an explicit entry first, then the index.   *)
Resolves(m) ==
  \/ \E i \in 1..N : Endpoints[i] = m
  \/ m \in Indices /\ Endpoints[m + 1] = Plain

Unresolved ==
  /\ pc = "resolve" /\ ~Resolves(target)
  /\ pc' = "fail"
  /\ UNCHANGED <<sessionVars, attempt, tried_members, via, target, offersLeft,
                 tries, callVars, netVars, clusterVars, faults>>

(* The previous publication is closed and reset; the new one is added, but *)
(* is not found, or not connected, yet.                                    *)
OpenPublication ==
  /\ pc = "resolve" /\ Resolves(target)
  /\ ingress_publication_' \in {"none", "down"}
  /\ pc' = "open"
  /\ UNCHANGED <<fieldVars, redirected_to_member_id_, bufferVars, egressVars,
                 disconnectVars, attempt, tried_members, via, target, offersLeft,
                 tries, callVars, netVars, clusterVars, faults>>

(* addExclusivePublication throws. *)
OpenThrows ==
  /\ pc = "resolve" /\ Resolves(target)
  /\ Fault
  /\ ingress_publication_' = "none"
  /\ pc' = "fail"
  /\ UNCHANGED <<fieldVars, redirected_to_member_id_, bufferVars, egressVars,
                 disconnectVars, attempt, tried_members, via, target, offersLeft,
                 tries, callVars, netVars, clusterVars>>

(* The loop looks the publication up again, so it survives a reset by a    *)
(* concurrent disconnect().                                                *)
PublicationConnects ==
  /\ pc = "open"
  /\ ingress_publication_' = "up"
  /\ offersLeft' = ConnectOffers
  /\ pc' = "offer"
  /\ UNCHANGED <<fieldVars, redirected_to_member_id_, bufferVars, egressVars,
                 disconnectVars, attempt, tried_members, via, target, tries,
                 callVars, netVars, clusterVars, faults>>

PublicationTimeout ==
  /\ pc = "open"
  /\ Fault
  /\ pc' = "fail"
  /\ UNCHANGED <<sessionVars, attempt, tried_members, via, target, offersLeft,
                 tries, callVars, netVars, clusterVars>>

OfferAccepted ==
  /\ pc = "offer" /\ ingress_publication_ = "up"
  /\ requests' = IF target \in MemberIds THEN requests \cup {target} ELSE requests
  /\ pc' = "leader"
  /\ UNCHANGED <<sessionVars, attempt, tried_members, via, target, offersLeft,
                 tries, callVars, events, clusterVars, faults>>

OfferFails(code) ==
  /\ pc = "offer" /\ ingress_publication_ # "none"
  /\ handle_offer_failure(code)
  /\ offersLeft' = offersLeft - 1
  /\ pc' = IF offersLeft = 1 THEN "fail" ELSE "offer"
  /\ UNCHANGED <<session_id_, leadership_term_id_, leader_member_id_,
                 redirected_to_member_id_, ingress_publication_, bufferVars,
                 egressVars, disconnectVars, attempt, tried_members, via, target,
                 tries, callVars, netVars, clusterVars>>

OfferNotConnected ==
  /\ ingress_publication_ = "down"
  /\ OfferFails("NotConnected")
  /\ UNCHANGED faults

(* disconnect() has reset ingress_publication_ since it was checked: the   *)
(* null pointer is dereferenced and the process is gone.                   *)
OfferOnReset ==
  /\ pc = "offer" /\ ingress_publication_ = "none"
  /\ pc' = "crashed"
  /\ UNCHANGED <<sessionVars, attempt, tried_members, via, target, offersLeft,
                 tries, callVars, netVars, clusterVars, faults>>

SetLeader ==
  /\ pc = "leader"
  /\ leader_member_id_' = target
  /\ pc' = "await"
  /\ UNCHANGED <<session_id_, connected_, leadership_term_id_,
                 redirected_to_member_id_, ingress_publication_, bufferVars,
                 egressVars, disconnectVars, attempt, tried_members, via, target,
                 offersLeft, tries, callVars, netVars, clusterVars, faults>>

RedirectedElsewhere ==
  redirected_to_member_id_ >= 0 /\ redirected_to_member_id_ # target

AwaitConnected ==
  /\ pc = "await" /\ connected_
  /\ pc' = "succeed"
  /\ UNCHANGED <<sessionVars, attempt, tried_members, via, target, offersLeft,
                 tries, callVars, netVars, clusterVars, faults>>

AwaitNotConnected ==
  /\ pc = "await" /\ ~connected_
  /\ pc' = "await_redirect"
  /\ UNCHANGED <<sessionVars, attempt, tried_members, via, target, offersLeft,
                 tries, callVars, netVars, clusterVars, faults>>

AwaitRedirected ==
  /\ pc = "await_redirect" /\ RedirectedElsewhere
  /\ pc' = "fail"
  /\ UNCHANGED <<sessionVars, attempt, tried_members, via, target, offersLeft,
                 tries, callVars, netVars, clusterVars, faults>>

AwaitAgain ==
  /\ pc = "await_redirect" /\ ~RedirectedElsewhere
  /\ pc' = "await"
  /\ UNCHANGED <<sessionVars, attempt, tried_members, via, target, offersLeft,
                 tries, callVars, netVars, clusterVars, faults>>

(* The session timeout: connected_ is read once more.                      *)
AwaitTimeout ==
  /\ pc = "await_redirect" /\ ~RedirectedElsewhere
  /\ pc' = IF connected_ THEN "succeed" ELSE "fail"
  /\ late' = (late \/ requests # {} \/ events # {} \/ egressPc # "idle")
  /\ UNCHANGED <<sessionVars, attempt, tried_members, via, target, offersLeft,
                 tries, result, connects, disconnects, closed, netVars, clusterVars,
                 faults>>

-----------------------------------------------------------------------------
(* Back in connect(), after try_connect_to_member returned.                *)

Succeed ==
  /\ pc = "succeed"
  /\ redirected_to_member_id_' = IF via = "redirect" THEN -1 ELSE redirected_to_member_id_
  /\ result' = [status |-> "success", sid |-> session_id_,
                term |-> leadership_term_id_, leader |-> leader_member_id_]
  /\ pc' = "idle"
  /\ UNCHANGED <<fieldVars, ingress_publication_, bufferVars, egressVars,
                 disconnectVars, attempt, tried_members, via, target, offersLeft,
                 tries, connects, disconnects, closed, late, netVars, clusterVars,
                 faults>>

(* All three branches after a failed redirect forget the target, so that   *)
(* it may be tried again.                                                  *)
RedirectFailed ==
  /\ pc = "fail" /\ via = "redirect"
  /\ tried_members' = tried_members \ {target}
  /\ redirected_to_member_id_' = IF redirected_to_member_id_ < 0
                                 THEN -1 ELSE redirected_to_member_id_
  /\ NextAttempt
  /\ UNCHANGED <<fieldVars, ingress_publication_, bufferVars, egressVars,
                 disconnectVars, via, target, offersLeft, tries, callVars, netVars,
                 clusterVars, faults>>

(* Mutant of ScanFailed: a member that failed may be scanned again. *)
ScanFailed_Forgets ==
  /\ pc = "fail" /\ via = "scan"
  /\ tried_members' = tried_members \ {target}
  /\ \/ /\ RedirectedElsewhere
        /\ NextAttempt
        /\ UNCHANGED target
     \/ /\ ~RedirectedElsewhere
        /\ pc' = "scan"
        /\ target' = target + 1
        /\ UNCHANGED attempt
  /\ UNCHANGED <<sessionVars, via, offersLeft, tries, callVars, netVars,
                 clusterVars, faults>>

ScanFailed ==
  /\ pc = "fail" /\ via = "scan"
  /\ \/ /\ RedirectedElsewhere
        /\ NextAttempt
        /\ UNCHANGED target
     \/ /\ ~RedirectedElsewhere
        /\ pc' = "scan"
        /\ target' = target + 1
        /\ UNCHANGED attempt
  /\ UNCHANGED <<sessionVars, tried_members, via, offersLeft, tries, callVars,
                 netVars, clusterVars, faults>>

ConnectStep ==
  \/ GiveUp \/ FollowRedirect \/ NoFollowableRedirect \/ PendingRedirect
  \/ NothingPending \/ ScanMember \/ ScanEnds
  \/ Unresolved \/ OpenPublication \/ PublicationConnects
  \/ OfferAccepted \/ OfferNotConnected \/ OfferOnReset \/ SetLeader
  \/ AwaitConnected \/ AwaitNotConnected \/ AwaitRedirected \/ AwaitAgain
  \/ Succeed \/ RedirectFailed \/ ScanFailed

ConnectFault ==
  \/ OpenThrows \/ PublicationTimeout
  \/ \E code \in OfferFailureCode : OfferFails(code) /\ Fault

-----------------------------------------------------------------------------
(* The egress thread and the thread in disconnect().                       *)

Deliver(e) ==
  /\ handle_session_event(e)
  /\ events' = events \ {e}
  /\ UNCHANGED <<loopVars, callVars, requests, clusterVars, faults>>

Egress ==
  /\ EgressStep
  /\ UNCHANGED <<loopVars, callVars, netVars, clusterVars, faults>>

Disconnect ==
  /\ disconnects > 0
  /\ DisconnectBegin
  /\ disconnects' = disconnects - 1
  /\ UNCHANGED <<loopVars, result, connects, closed, late, netVars, clusterVars, faults>>

Disconnecting ==
  /\ DisconnectStep
  /\ closed' = (closed \/ (disconnectPc = "reset" /\ pc = "idle"))
  /\ UNCHANGED <<loopVars, result, connects, disconnects, late, netVars, clusterVars,
                 faults>>

DisconnectFault ==
  /\ \E code \in OfferFailureCode : CloseNotAccepted(code)
  /\ Fault
  /\ UNCHANGED <<loopVars, callVars, netVars, clusterVars>>

-----------------------------------------------------------------------------
(* External: the cluster and the network.                                  *)

SessionEvent(code, sid) ==
  [code |-> code, sid |-> sid, term |-> term, leader |-> leader]

(* The leader opens a session, or refuses one when it has no more; a       *)
(* follower names the leader.                                              *)
Answer(m) ==
  /\ m \in requests
  /\ requests' = requests \ {m}
  /\ \/ /\ m = leader /\ nextSession <= MaxSessions
        /\ events' = events \cup {SessionEvent("OK", nextSession)}
        /\ nextSession' = nextSession + 1
     \/ /\ m = leader /\ nextSession > MaxSessions
        /\ events' = events \cup {SessionEvent("ERROR", -1)}
        /\ UNCHANGED nextSession
     \/ /\ m # leader
        /\ events' = events \cup {SessionEvent("REDIRECT", -1)}
        /\ UNCHANGED nextSession
  /\ UNCHANGED <<sessionVars, loopVars, callVars, leader, term, faults>>

Unsolicited(code) ==
  /\ Fault
  /\ events' = events \cup {SessionEvent(code, nextSession - 1)}
  /\ UNCHANGED <<sessionVars, loopVars, callVars, requests, clusterVars>>

Lose ==
  /\ Fault
  /\ \/ \E m \in requests : requests' = requests \ {m} /\ UNCHANGED events
     \/ \E e \in events : events' = events \ {e} /\ UNCHANGED requests
  /\ UNCHANGED <<sessionVars, loopVars, callVars, clusterVars>>

Elect ==
  /\ Fault
  /\ term < MaxTerm
  /\ term' = term + 1
  /\ leader' \in MemberIds
  /\ UNCHANGED <<sessionVars, loopVars, callVars, netVars, nextSession>>

Network ==
  /\ \/ PublicationDrops /\ Fault
     \/ PublicationReturns /\ pc # "open" /\ UNCHANGED faults
  /\ UNCHANGED <<loopVars, callVars, netVars, clusterVars>>

Environment ==
  \/ \E m \in MemberIds : Answer(m)
  \/ \E code \in {"ERROR", "AUTHENTICATION_REJECTED", "CLOSED"} : Unsolicited(code)
  \/ Lose \/ Elect \/ Network

Next ==
  /\ pc # "crashed"
  /\ \/ Connect \/ ConnectStep \/ AwaitTimeout \/ ConnectFault
     \/ \E e \in events : Deliver(e)
     \/ Egress
     \/ Disconnect \/ Disconnecting \/ DisconnectFault
     \/ Environment

(* Every thread of the client keeps running, and the loop of the session   *)
(* timeout ends: the clock it reads advances.                              *)
Fairness ==
  /\ WF_vars(pc # "crashed" /\ ConnectStep)
  /\ SF_vars(pc # "crashed" /\ AwaitTimeout)
  /\ WF_vars(pc # "crashed" /\ Egress)
  /\ WF_vars(pc # "crashed" /\ Disconnecting)

Spec == Init /\ [][Next]_vars
FairSpec == Spec /\ Fairness

-----------------------------------------------------------------------------
(* One connect() calls try_connect_to_member at most once for every member *)
(* of the scan and once for every attempt that follows a redirect: however *)
(* the members redirect, they cannot keep the client hopping in a circle   *)
(* ("Track which members we've already tried to avoid loops").             *)
TriesBounded == tries <= N + MaxRetries

(* After a disconnect() that does not overlap a connect(), and until the   *)
(* next connect(), no event that is still on its way, or half handled,     *)
(* makes is_connected() true again.                                        *)
NoResurrection == closed => ~is_connected

(* While nothing has gone wrong (no fault, no election, no disconnect(), no *)
(* answer later than the session timeout, a free session), connect() does  *)
(* not give up: it reaches the leader directly or through the redirects,   *)
(* if the leader's id is one that a redirect may name.                     *)
HealthyConnectSucceeds ==
  faults = MaxFaults /\ disconnects = MaxDisconnects /\ ~late /\ leader \in Indices
    => result.status # "failed"

(* Every call of connect() returns, whatever the cluster does, unless a    *)
(* concurrent disconnect() took the publication from under its offer.      *)
ConnectReturns == (pc # "idle") ~> (pc \in {"idle", "crashed"})

=============================================================================
