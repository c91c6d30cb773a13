----------------------------- MODULE SessionSend -----------------------------
(***************************************************************************)
(* The threads that offer messages to the ingress publication of a         *)
(* SessionManager: publishers (send_combined_message, under send_mutex_),  *)
(* senders of raw frames (send_raw_message, without it) and the detached   *)
(* keepalive threads that connect() starts.  They run against the egress   *)
(* thread, a thread in disconnect() and a thread in connect(), of which    *)
(* only what the senders can see is kept: it replaces the publication,     *)
(* waits for connected_ and starts a keepalive thread (SessionConnect      *)
(* models the rest).                                                       *)
(***************************************************************************)
EXTENDS Session, FiniteSets

CONSTANTS
  Publishers,          \* threads that publish
  Keepers,             \* bound: identities of keepalive threads
  NoThread,            \* send_mutex_ is free
  PublishAttempts,     \* max(1, publish_max_retry_attempts)
  KeepaliveAttempts,   \* offers of one send_keepalive (3)
  MaxConnects,         \* bound: sessions that connect() asks for
  MaxDisconnects,      \* bound: calls of disconnect()
  MaxTerm,             \* bound: leadership terms of the OK events
  MaxFaults            \* bound: failures of the environment

ASSUME SendAssumption ==
  /\ NoThread \notin Publishers
  /\ PublishAttempts \in Nat \ {0} /\ KeepaliveAttempts \in Nat \ {0}
  /\ MaxConnects \in Nat /\ MaxDisconnects \in Nat /\ MaxTerm \in Nat
  /\ MaxFaults \in Nat

VARIABLES
  send_mutex_,
  publisher,     \* per publisher: [pc, left]
  keeper,        \* per keepalive thread: [pc, left]
  connectPc,     \* the thread in connect()
  opens,         \* connect requests so far
  answers,       \* OK events so far; the n-th opens cluster session n
  establishments,\* history: how often connected_ was set
  lossCallbacks, \* history: how often handle_connection_loss called back
  disconnects,   \* calls of disconnect() left
  faults,
  crashed        \* an offer dereferenced a publication that was reset

senderVars == <<send_mutex_, publisher, keeper>>
connectVars == <<connectPc, opens, answers>>
historyVars == <<establishments, lossCallbacks>>
vars == <<sessionVars, senderVars, connectVars, historyVars, disconnects, faults, crashed>>

PublisherPc == {"idle", "lock", "offer", "raw"}
KeeperPc == {"none", "check", "offer"}

TypeOK ==
  /\ SessionTypeOK
  /\ send_mutex_ \in Publishers \cup {NoThread}
  /\ publisher \in [Publishers -> [pc : PublisherPc, left : 0..PublishAttempts]]
  /\ keeper \in [Keepers -> [pc : KeeperPc, left : 0..KeepaliveAttempts]]
  /\ connectPc \in {"idle", "open", "await"}
  /\ opens \in 0..MaxConnects
  /\ answers \in 0..MaxConnects
  /\ establishments \in Nat
  /\ lossCallbacks \in Nat
  /\ disconnects \in 0..MaxDisconnects
  /\ faults \in 0..MaxFaults
  /\ crashed \in BOOLEAN

Idle == [pc |-> "idle", left |-> 0]

Init ==
  /\ SessionInit
  /\ send_mutex_ = NoThread
  /\ publisher = [p \in Publishers |-> Idle]
  /\ keeper = [k \in Keepers |-> [pc |-> "none", left |-> 0]]
  /\ connectPc = "idle" /\ opens = 0 /\ answers = 0
  /\ establishments = 0 /\ lossCallbacks = 0
  /\ disconnects = MaxDisconnects
  /\ faults = MaxFaults
  /\ crashed = FALSE

Fault == faults > 0 /\ faults' = faults - 1

(* What an offer that fails with code does to the session: a publication   *)
(* that is down answers NotConnected, any other failure is a fault.        *)
OfferFailure(code) ==
  /\ \/ ingress_publication_ = "down" /\ code = "NotConnected" /\ UNCHANGED faults
     \/ ingress_publication_ = "up" /\ Fault
  /\ handle_offer_failure(code)
  /\ lossCallbacks' = IF NotifiesLoss(code) THEN lossCallbacks + 1 ELSE lossCallbacks
  /\ UNCHANGED <<session_id_, leadership_term_id_, leader_member_id_,
                 redirected_to_member_id_, ingress_publication_, bufferVars,
                 egressVars, disconnectVars, establishments>>

-----------------------------------------------------------------------------
(* publish_message and send_combined_message *)

(* is_connected() before the lock is taken. *)
PublishBegin(p) ==
  /\ publisher[p].pc = "idle" /\ is_connected
  /\ publisher' = [publisher EXCEPT ![p].pc = "lock"]
  /\ UNCHANGED <<sessionVars, send_mutex_, keeper, connectVars, historyVars,
                 disconnects, faults, crashed>>

(* Mutant of PublishLock: one retry too many. *)
PublishLock_OneMore(p) ==
  /\ publisher[p].pc = "lock" /\ send_mutex_ = NoThread /\ is_connected
  /\ send_mutex_' = p
  /\ publisher' = [publisher EXCEPT ![p] = [pc |-> "offer", left |-> PublishAttempts + 1]]
  /\ UNCHANGED <<sessionVars, keeper, connectVars, historyVars, disconnects,
                 faults, crashed>>

(* The lock is taken and is_connected() is checked again.                  *)
PublishLock(p) ==
  /\ publisher[p].pc = "lock" /\ send_mutex_ = NoThread
  /\ \/ /\ is_connected
        /\ send_mutex_' = p
        /\ publisher' = [publisher EXCEPT ![p] = [pc |-> "offer", left |-> PublishAttempts]]
     \/ /\ ~is_connected
        /\ publisher' = [publisher EXCEPT ![p] = Idle]
        /\ UNCHANGED send_mutex_
  /\ UNCHANGED <<sessionVars, keeper, connectVars, historyVars, disconnects,
                 faults, crashed>>

(* Mutant of PublishReturns: the mutex is unlocked by whoever returns. *)
PublishReturns_Unlocks(p) ==
  /\ publisher' = [publisher EXCEPT ![p] = Idle]
  /\ send_mutex_' = NoThread

PublishReturns(p) ==
  /\ publisher' = [publisher EXCEPT ![p] = Idle]
  /\ send_mutex_' = IF send_mutex_ = p THEN NoThread ELSE send_mutex_

(* send_raw_message: the same loop without the lock and the header.        *)
RawBegin(p) ==
  /\ publisher[p].pc = "idle" /\ is_connected
  /\ publisher' = [publisher EXCEPT ![p].pc = "raw", ![p].left = PublishAttempts]
  /\ UNCHANGED <<sessionVars, send_mutex_, keeper, connectVars, historyVars,
                 disconnects, faults, crashed>>

PublishAccepted(p) ==
  /\ publisher[p].pc \in {"offer", "raw"} /\ ingress_publication_ = "up"
  /\ PublishReturns(p)
  /\ UNCHANGED <<sessionVars, keeper, connectVars, historyVars, disconnects,
                 faults, crashed>>

(* Only a transient failure is retried, and not after the last attempt.    *)
PublishFails(p, code) ==
  /\ publisher[p].pc \in {"offer", "raw"}
  /\ OfferFailure(code)
  /\ \/ /\ is_transient_failure(code) /\ publisher[p].left > 1
        /\ publisher' = [publisher EXCEPT ![p].left = @ - 1]
        /\ UNCHANGED send_mutex_
     \/ /\ ~is_transient_failure(code) \/ publisher[p].left = 1
        /\ PublishReturns(p)
  /\ UNCHANGED <<keeper, connectVars, disconnects, crashed>>

-----------------------------------------------------------------------------
(* The keepalive thread: while (is_connected()) { send_keepalive(); sleep } *)

(* Mutant of KeepaliveCheck: the loop only asks for a session id. *)
KeepaliveCheck_SessionId(k) ==
  /\ keeper[k].pc = "check"
  /\ keeper' = [keeper EXCEPT ![k] =
       IF session_id_ > 0 THEN [pc |-> "offer", left |-> KeepaliveAttempts]
                          ELSE [pc |-> "none", left |-> 0]]
  /\ UNCHANGED <<sessionVars, send_mutex_, publisher, connectVars, historyVars,
                 disconnects, faults, crashed>>

KeepaliveCheck(k) ==
  /\ keeper[k].pc = "check"
  /\ keeper' = [keeper EXCEPT ![k] =
       IF is_connected THEN [pc |-> "offer", left |-> KeepaliveAttempts]
                       ELSE [pc |-> "none", left |-> 0]]
  /\ UNCHANGED <<sessionVars, send_mutex_, publisher, connectVars, historyVars,
                 disconnects, faults, crashed>>

KeepaliveReturns(k) == keeper' = [keeper EXCEPT ![k] = [pc |-> "check", left |-> 0]]

KeepaliveAccepted(k) ==
  /\ keeper[k].pc = "offer" /\ ingress_publication_ = "up"
  /\ KeepaliveReturns(k)
  /\ UNCHANGED <<sessionVars, send_mutex_, publisher, connectVars, historyVars,
                 disconnects, faults, crashed>>

KeepaliveFails(k, code) ==
  /\ keeper[k].pc = "offer"
  /\ OfferFailure(code)
  /\ \/ /\ is_transient_failure(code) /\ keeper[k].left > 1
        /\ keeper' = [keeper EXCEPT ![k].left = @ - 1]
     \/ /\ ~is_transient_failure(code) \/ keeper[k].left = 1
        /\ KeepaliveReturns(k)
  /\ UNCHANGED <<send_mutex_, publisher, connectVars, disconnects, crashed>>

-----------------------------------------------------------------------------
(* Any sender that passed is_connected() dereferences ingress_publication_;*)
(* disconnect() may have reset it since: the process dies.                 *)
OfferOnReset ==
  /\ ingress_publication_ = "none"
  /\ \/ \E p \in Publishers : publisher[p].pc \in {"offer", "raw"}
     \/ \E k \in Keepers : keeper[k].pc = "offer"
  /\ crashed' = TRUE
  /\ UNCHANGED <<sessionVars, senderVars, connectVars, historyVars, disconnects, faults>>

-----------------------------------------------------------------------------
(* The thread in connect(): try_connect_to_member resets the publication,  *)
(* waits until the new one is connected, sends the request and waits for   *)
(* connected_.                                                             *)

OpenPublication ==
  /\ connectPc = "idle" /\ opens < MaxConnects
  /\ ingress_publication_' = "none"
  /\ connectPc' = "open"
  /\ UNCHANGED <<fieldVars, redirected_to_member_id_, bufferVars, egressVars,
                 disconnectVars, senderVars, opens, answers, historyVars,
                 disconnects, faults, crashed>>

SendConnectRequest ==
  /\ connectPc = "open"
  /\ ingress_publication_' = "up"
  /\ connectPc' = "await" /\ opens' = opens + 1
  /\ UNCHANGED <<fieldVars, redirected_to_member_id_, bufferVars, egressVars,
                 disconnectVars, senderVars, answers, historyVars,
                 disconnects, faults, crashed>>

(* connect() starts a detached keepalive thread and returns. *)
ConnectSucceeds ==
  /\ connectPc = "await" /\ connected_
  /\ \E k \in Keepers :
        /\ keeper[k].pc = "none"
        /\ keeper' = [keeper EXCEPT ![k] = [pc |-> "check", left |-> 0]]
  /\ connectPc' = "idle"
  /\ UNCHANGED <<sessionVars, send_mutex_, publisher, opens, answers, historyVars,
                 disconnects, faults, crashed>>

ConnectTimesOut ==
  /\ connectPc = "await" /\ ~connected_
  /\ connectPc' = "idle"
  /\ UNCHANGED <<sessionVars, senderVars, opens, answers, historyVars,
                 disconnects, faults, crashed>>

-----------------------------------------------------------------------------
(* The egress thread and the thread in disconnect().                       *)

(* External: the cluster answers a connect request, at any time. *)
DeliverOk(t) ==
  /\ answers < opens
  /\ answers' = answers + 1
  /\ handle_session_event([code |-> "OK", sid |-> answers + 1, term |-> t, leader |-> 0])
  /\ UNCHANGED <<senderVars, connectPc, opens, historyVars, disconnects,
                 faults, crashed>>

(* External: the cluster ends the session. *)
DeliverLoss(code) ==
  /\ Fault
  /\ handle_session_event([code |-> code, sid |-> answers, term |-> 0, leader |-> 0])
  /\ UNCHANGED <<senderVars, connectVars, historyVars, disconnects, crashed>>

Egress ==
  /\ EgressStep
  /\ establishments' = IF egressPc = "connected" THEN establishments + 1 ELSE establishments
  /\ UNCHANGED <<senderVars, connectVars, lossCallbacks, disconnects, faults, crashed>>

Disconnect ==
  /\ disconnects > 0 /\ disconnects' = disconnects - 1
  /\ DisconnectBegin
  /\ UNCHANGED <<senderVars, connectPc, opens, answers, historyVars, faults, crashed>>

Disconnecting ==
  /\ DisconnectStep
  /\ UNCHANGED <<senderVars, connectVars, historyVars, disconnects, faults, crashed>>

DisconnectFault ==
  /\ \E code \in OfferFailureCode :
        /\ CloseNotAccepted(code)
        /\ lossCallbacks' = IF NotifiesLoss(code) THEN lossCallbacks + 1 ELSE lossCallbacks
  /\ Fault
  /\ UNCHANGED <<senderVars, connectVars, establishments, disconnects, crashed>>

Network ==
  /\ \/ PublicationDrops /\ Fault
     \/ PublicationReturns /\ UNCHANGED faults
  /\ UNCHANGED <<senderVars, connectVars, historyVars, disconnects, crashed>>

Publish(p) ==
  \/ PublishBegin(p) \/ PublishLock(p) \/ RawBegin(p) \/ PublishAccepted(p)
  \/ \E code \in OfferFailureCode : PublishFails(p, code)

Keepalive(k) ==
  \/ KeepaliveCheck(k) \/ KeepaliveAccepted(k)
  \/ \E code \in OfferFailureCode : KeepaliveFails(k, code)

Next ==
  /\ ~crashed
  /\ \/ \E p \in Publishers : Publish(p)
     \/ \E k \in Keepers : Keepalive(k)
     \/ OfferOnReset
     \/ OpenPublication \/ SendConnectRequest \/ ConnectSucceeds \/ ConnectTimesOut
     \/ \E t \in 0..MaxTerm : DeliverOk(t)
     \/ \E code \in {"ERROR", "CLOSED"} : DeliverLoss(code)
     \/ Egress
     \/ Disconnect \/ Disconnecting \/ DisconnectFault
     \/ Network

(* The keepalive threads, the egress thread and disconnect() keep running. *)
Fairness ==
  /\ \A k \in Keepers : WF_vars(~crashed /\ Keepalive(k))
  /\ WF_vars(~crashed /\ OfferOnReset)
  /\ WF_vars(~crashed /\ Egress)
  /\ WF_vars(~crashed /\ Disconnecting)

Spec == Init /\ [][Next]_vars
FairSpec == Spec /\ Fairness

-----------------------------------------------------------------------------
(* However many threads find the connection lost at once, one establishment*)
(* of the session is reported lost at most once: handle_connection_loss    *)
(* never calls back more often than connected_ was set.                    *)
LossNotifiedOnce == lossCallbacks <= establishments

(* Two publishers never offer at the same time, and whoever offers a       *)
(* business message holds send_mutex_ through all its retries.             *)
OffersUnderMutex ==
  \A p \in Publishers : publisher[p].pc = "offer" => send_mutex_ = p

(* A keepalive thread ends once its session is gone: if is_connected()     *)
(* stays false, every detached thread eventually leaves its loop.          *)
KeepaliveThreadsEnd ==
  <>[](~is_connected) => <>[](crashed \/ \A k \in Keepers : keeper[k].pc = "none")
=============================================================================
