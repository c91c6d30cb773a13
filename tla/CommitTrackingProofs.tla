------------------------ MODULE CommitTrackingProofs ------------------------
(***************************************************************************)
(* Proofs about CommitTracking, for any topics, identifiers, numbers of    *)
(* messages and size of the table of processed messages.                   *)
(***************************************************************************)
EXTENDS CommitTracking, FiniteSetTheorems, TLAPS

(* The table of processed messages is finite and within its limit. *)
DedupInv == IsFiniteSet(processed_messages_) /\ DedupBounded

(* What makes TablesAgree inductive: the tables agree on every topic but   *)
(* the one a call is working on, and on that one they are as far as the    *)
(* call is.                                                                *)
Agree(t) ==
  /\ t \in subscribed_topics_ <=> t \in DOMAIN subscription_message_identifiers_
  /\ t \in subscribed_topics_ =>
       [topic |-> t, message_identifier |-> Effective(subscription_message_identifiers_[t])]
         \in tracked_subscriptions_

TablesInv ==
  /\ subscribed_topics_ \subseteq Topics
  /\ DOMAIN subscription_message_identifiers_ \subseteq Topics
  /\ \A t \in Topics : (t # call.topic \/ call.pc \in {"idle", "add", "remove", "offset"}) => Agree(t)
  /\ call.pc \in {"store", "track"} => call.topic \in subscribed_topics_
  /\ call.pc = "track" =>
       /\ call.topic \in DOMAIN subscription_message_identifiers_
       /\ subscription_message_identifiers_[call.topic] = call.ident
  /\ call.pc \in {"erase", "untrack"} => call.topic \notin subscribed_topics_
  /\ call.pc = "untrack" => call.topic \notin DOMAIN subscription_message_identifiers_
  /\ call.pc \notin {"idle", "offset"} => call.topic \in Topics

(* What makes CommitNamesHandled and CommitNamesSubscription inductive:    *)
(* what a thread has decided so far about the commit it is about to make   *)
(* is right and stays right, since handled and requested only grow; only   *)
(* handled messages are remembered as processed, and only what was         *)
(* requested is in the tables.                                             *)
MayName(t, i) == i = ClientId \/ <<t, i>> \in requested

CommitOf(c) == c.msg \in handled /\ AttributableTo(c.msg, c.topic) /\ MayName(c.topic, c.ident)

RequestedInv ==
  /\ \A t \in subscribed_topics_ : \E i \in AllIdentifiers : <<t, i>> \in requested
  /\ \A t \in DOMAIN subscription_message_identifiers_ :
        <<t, subscription_message_identifiers_[t]>> \in requested
  /\ call.pc \in {"add", "store"} => <<call.topic, call.ident>> \in requested
  /\ \A t \in Topics, n \in 1..MaxSeq : n < next[t] => <<t, Stream[t][n]>> \in requested
  /\ \A m \in handled : <<m[1], Stream[m[1]][m[2]]>> \in requested

HandlingInv ==
  /\ handling.pc # "idle" => handling.msg \in handled
  /\ handling.pc \in {"ident", "commit", "offset"} => AttributableTo(handling.msg, handling.topic)
  /\ handling.pc \in {"commit", "offset"} => MayName(handling.topic, handling.ident)

CommitsInv ==
  /\ processed_messages_ \subseteq handled
  /\ call.pc = "offset" => CommitOf(call)
  /\ CommitNamesHandled /\ CommitNamesSubscription

HandledInv == RequestedInv /\ HandlingInv /\ CommitsInv

-----------------------------------------------------------------------------
(* What mark_message_processed leaves is within the limit, and holds only  *)
(* what was there and the new message.                                     *)
LEMMA MarkLemma ==
  ASSUME DedupInv, NEW m, NEW S \in mark_message_processed(m)
  PROVE  /\ IsFiniteSet(S) /\ Cardinality(S) <= DedupLimit
         /\ S \subseteq processed_messages_ \cup {m}
<1> DEFINE marked == processed_messages_ \cup {m}
<1>0. DedupLimit \in Nat /\ DedupEvict \in Nat /\ DedupEvict >= 1
  BY CommitAssumption
<1>1. /\ IsFiniteSet(marked)
      /\ Cardinality(marked) \in Nat /\ Cardinality(marked) <= DedupLimit + 1
  <2>1. Cardinality(processed_messages_) \in Nat /\ Cardinality(processed_messages_) <= DedupLimit
    BY FS_CardinalityType DEF DedupInv, DedupBounded
  <2>2. /\ IsFiniteSet(marked)
        /\ \/ Cardinality(marked) = Cardinality(processed_messages_)
           \/ Cardinality(marked) = Cardinality(processed_messages_) + 1
    BY FS_AddElement DEF DedupInv
  <2> QED BY <1>0, <2>1, <2>2
<1>2. CASE Cardinality(marked) > DedupLimit
  <2> HIDE DEF marked
  <2>1. PICK gone \in SUBSET marked : Cardinality(gone) = DedupEvict /\ S = marked \ gone
    BY <1>2 DEF mark_message_processed, kSubset, marked
  <2>2. marked \cap gone = gone
    BY <2>1
  <2>3. IsFiniteSet(S) /\ Cardinality(S) = Cardinality(marked) - DedupEvict
    BY <1>1, <2>1, <2>2, FS_Difference
  <2> QED BY <1>0, <1>1, <2>1, <2>3 DEF marked
<1>3. CASE ~(Cardinality(marked) > DedupLimit)
  BY <1>0, <1>1, <1>3 DEF mark_message_processed
<1> QED BY <1>2, <1>3

-----------------------------------------------------------------------------
(* Everything but marking a message leaves processed_messages_ alone. *)
LEMMA MarksOnlyHandled ==
  ASSUME [Next]_vars
  PROVE  \/ UNCHANGED processed_messages_
         \/ \E m : processed_messages_' \in mark_message_processed(m)
<1> USE DEF clusterVars, tableVars, historyVars
<1> QED
  BY DEF Next, vars, SubscribeSend, UnsubscribeSend, ApplicationStep, add_subscribed_topic,
      StoreIdentifier, track_subscription, remove_subscribed_topic, EraseIdentifier,
      untrack_subscription, Receive, ReceiveAgain, Handled, CallbackThrows, HandlingStep,
      Mark, ExtractTopic, LookUpIdentifier, AutoCommit, SendAutoCommit, SendOffset,
      CommitManually, ResumeFromLastCommit, clear_commits,
      clear_all_commits, ConnectionLost, ConnectBegins, ConnectEnds

(* processed_messages_ stays within its limit. *)
THEOREM ProcessedMessagesBounded == Spec => []DedupBounded
<1>1. Init => DedupInv
  BY FS_EmptySet, CommitAssumption DEF Init, DedupInv, DedupBounded
<1>2. DedupInv /\ [Next]_vars => DedupInv'
  <2> SUFFICES ASSUME DedupInv, [Next]_vars PROVE DedupInv'
    OBVIOUS
  <2>1. CASE UNCHANGED processed_messages_
    BY <2>1 DEF DedupInv, DedupBounded
  <2>2. CASE \E m : processed_messages_' \in mark_message_processed(m)
    BY <2>2, MarkLemma DEF DedupInv, DedupBounded
  <2> QED BY <2>1, <2>2, MarksOnlyHandled
<1>3. DedupInv => DedupBounded
  BY DEF DedupInv
<1> QED BY <1>1, <1>2, <1>3, PTL DEF Spec

-----------------------------------------------------------------------------
(* A step that changes neither the tables nor the call. *)
LEMMA TablesStutter ==
  ASSUME TablesInv, UNCHANGED <<tableVars, call>>
  PROVE  TablesInv'
BY DEF TablesInv, Agree, tableVars

(* The steps of send_subscription_request. *)
LEMMA SubscribeLemma ==
  ASSUME TablesInv,
         \/ \E t \in Topics, i \in Identifiers \cup {Empty} : SubscribeSend(t, i)
         \/ add_subscribed_topic \/ StoreIdentifier \/ track_subscription
  PROVE  TablesInv'
<1>1. ASSUME NEW t \in Topics, NEW i \in Identifiers \cup {Empty}, SubscribeSend(t, i)
      PROVE  TablesInv'
  BY <1>1 DEF SubscribeSend, Call, Idle, TablesInv, Agree, tableVars
<1>2. CASE add_subscribed_topic
  BY <1>2 DEF add_subscribed_topic, TablesInv, Agree
<1>3. CASE StoreIdentifier
  <2> DEFINE smi == subscription_message_identifiers_
  <2>1. /\ DOMAIN smi' = DOMAIN smi \cup {call.topic}
        /\ smi'[call.topic] = call.ident
        /\ \A z \in DOMAIN smi : z # call.topic => smi'[z] = smi[z]
    BY <1>3 DEF StoreIdentifier, Put
  <2>2. /\ call.pc = "store" /\ call'.pc = "track"
        /\ call'.topic = call.topic /\ call'.ident = call.ident
        /\ UNCHANGED <<subscribed_topics_, tracked_subscriptions_>>
    BY <1>3 DEF StoreIdentifier, TablesInv
  <2> QED BY <2>1, <2>2 DEF TablesInv, Agree
<1>4. CASE track_subscription
  BY <1>4 DEF track_subscription, TablesInv, Agree, Idle
<1> QED BY <1>1, <1>2, <1>3, <1>4

(* The steps of send_unsubscription_request. *)
LEMMA UnsubscribeLemma ==
  ASSUME TablesInv,
         \/ \E t \in Topics, i \in Identifiers \cup {Empty} : UnsubscribeSend(t, i)
         \/ remove_subscribed_topic \/ EraseIdentifier \/ untrack_subscription
  PROVE  TablesInv'
<1>1. ASSUME NEW t \in Topics, NEW i \in Identifiers \cup {Empty}, UnsubscribeSend(t, i)
      PROVE  TablesInv'
  BY <1>1 DEF UnsubscribeSend, Call, Idle, TablesInv, Agree, tableVars
<1>2. CASE remove_subscribed_topic
  BY <1>2 DEF remove_subscribed_topic, TablesInv, Agree
<1>3. CASE EraseIdentifier
  <2> DEFINE smi == subscription_message_identifiers_
  <2>1. /\ DOMAIN smi' = DOMAIN smi \ {call.topic}
        /\ \A z \in DOMAIN smi \ {call.topic} : smi'[z] = smi[z]
    BY <1>3 DEF EraseIdentifier, Drop, Restrict
  <2>2. /\ call.pc = "erase" /\ call'.pc = "untrack" /\ call'.topic = call.topic
        /\ UNCHANGED <<subscribed_topics_, tracked_subscriptions_>>
    BY <1>3 DEF EraseIdentifier, TablesInv
  <2> QED BY <2>1, <2>2 DEF TablesInv, Agree
<1>4. CASE untrack_subscription
  BY <1>4 DEF untrack_subscription, TablesInv, Agree, Idle
<1> QED BY <1>1, <1>2, <1>3, <1>4

(* Commits on the application thread. *)
LEMMA CommitCallLemma ==
  ASSUME TablesInv,
         \/ \E m \in Messages : CommitManually(m)
         \/ \E t \in Topics, i \in AllIdentifiers : ResumeFromLastCommit(t, i)
         \/ SendOffset
  PROVE  TablesInv'
BY DEF CommitManually, ResumeFromLastCommit, SendOffset, Call, TablesInv, Agree, Idle, tableVars

(* Messages, commits and connections leave the tables alone. *)
LEMMA TablesStep == TablesInv /\ [Next]_vars => TablesInv'
<1> SUFFICES ASSUME TablesInv, [Next]_vars PROVE TablesInv'
  OBVIOUS
<1>1. CASE UNCHANGED <<tableVars, call>>
  BY <1>1, TablesStutter
<1>2. CASE ~UNCHANGED <<tableVars, call>>
  BY <1>2, SubscribeLemma, UnsubscribeLemma, CommitCallLemma
  DEF Next, vars, ApplicationStep, Receive, ReceiveAgain, HandlingStep, Mark, ExtractTopic,
      LookUpIdentifier, AutoCommit, SendAutoCommit, clear_commits, clear_all_commits,
      ConnectionLost, ConnectBegins, ConnectEnds
<1> QED BY <1>1, <1>2

(* TablesInv holds in every reachable state. *)
THEOREM TablesInvariant == Spec => []TablesInv
<1>1. Init => TablesInv
  BY DEF Init, TablesInv, Agree, Idle, NoEntries
<1> QED BY <1>1, TablesStep, PTL DEF Spec

(* Whatever sequence of subscriptions and unsubscriptions, with whatever   *)
(* identifiers, the three tables agree once the last call has returned.    *)
THEOREM SubscriptionTablesAgree == Spec => []TablesAgree
<1>1. TablesInv => TablesAgree
  BY DEF TablesInv, TablesAgree, Agree
<1> QED BY <1>1, TablesInvariant, PTL

-----------------------------------------------------------------------------
(* Entering something into a map keeps its keys and values in their sets. *)
LEMMA PutLemma ==
  ASSUME NEW f, NEW D, NEW R, DOMAIN f \subseteq D, Range(f) \subseteq R,
         NEW x \in D, NEW y \in R
  PROVE  DOMAIN Put(f, x, y) \subseteq D /\ Range(Put(f, x, y)) \subseteq R
BY DEF Put, Range

(* So does taking something out of it. *)
LEMMA DropLemma ==
  ASSUME NEW f, NEW D, NEW R, DOMAIN f \subseteq D, Range(f) \subseteq R, NEW x
  PROVE  DOMAIN Drop(f, x) \subseteq D /\ Range(Drop(f, x)) \subseteq R
BY DEF Drop, Restrict, Range

(* What is committed under a proper key is recorded, locally and at the    *)
(* cluster, under a proper key.                                            *)
LEMMA CommitTypes ==
  ASSUME TypeOK, NEW t \in CommitTopics, NEW i \in AllIdentifiers, NEW m \in Messages,
         CommitLocally(t, i, m)
  PROVE  DOMAIN commits_' \subseteq Keys /\ Range(commits_') \subseteq Messages
<1>1. commit_key(t, i) \in Keys
  BY DEF commit_key, Keys
<1>2. DOMAIN commits_ \subseteq Keys /\ Range(commits_) \subseteq Messages
  BY DEF TypeOK
<1> QED BY <1>1, <1>2, PutLemma DEF CommitLocally

(* So is what is sent to the cluster. *)
LEMMA OffsetTypes ==
  ASSUME TypeOK, NEW c, c.topic \in CommitTopics, c.ident \in AllIdentifiers,
         c.msg \in Messages, send_commit_offset(c)
  PROVE  /\ DOMAIN server' \subseteq Keys /\ Range(server') \subseteq Messages
         /\ active' \subseteq Keys
<1>1. commit_key(c.topic, c.ident) \in Keys
  BY DEF commit_key, Keys
<1>2. /\ DOMAIN server \subseteq Keys /\ Range(server) \subseteq Messages
      /\ active \subseteq Keys
  BY DEF TypeOK
<1>3. CASE UNCHANGED <<server, active>>
  BY <1>2, <1>3
<1>4. CASE /\ server' = Put(server, commit_key(c.topic, c.ident), c.msg)
           /\ active' = active \cup {commit_key(c.topic, c.ident)}
  BY <1>1, <1>2, <1>4, PutLemma
<1> QED BY <1>3, <1>4 DEF send_commit_offset

(* A thread between two calls. *)
LEMMA IdleType == Idle \in Thread(CallPc) /\ Idle \in Thread(HandlingPc)
BY DEF Idle, Thread, CallPc, HandlingPc, CommitTopics, AllIdentifiers

(* The steps of the application's (un)subscriptions. *)
LEMMA ApplicationTypes ==
  ASSUME TypeOK, TablesInv,
         \/ \E t \in Topics, i \in Identifiers \cup {Empty} :
               SubscribeSend(t, i) \/ UnsubscribeSend(t, i)
         \/ ApplicationStep
  PROVE  TypeOK'
<1> USE DEF tableVars, historyVars, clusterVars
<1>0. /\ call.ident \in AllIdentifiers /\ call \in Thread(CallPc)
      /\ DOMAIN subscription_message_identifiers_ \subseteq Topics
      /\ Range(subscription_message_identifiers_) \subseteq AllIdentifiers
      /\ Idle \in Thread(CallPc)
      /\ \A pc \in CallPc : [call EXCEPT !.pc = pc] \in Thread(CallPc)
  BY IdleType DEF TypeOK, Thread
<1>1. ASSUME NEW t \in Topics, NEW i \in Identifiers \cup {Empty},
             SubscribeSend(t, i) \/ UnsubscribeSend(t, i)
      PROVE  TypeOK'
  <2>1. <<t, i>> \in Topics \X AllIdentifiers /\ <<t, Effective(i)>> \in Keys
    BY DEF Effective, CommitTopics, AllIdentifiers, Keys
  <2>2. \A pc \in CallPc : [Idle EXCEPT !.pc = pc, !.topic = t, !.ident = i] \in Thread(CallPc)
    BY IdleType DEF Thread, CommitTopics, AllIdentifiers
  <2>3. calls' \in 0..MaxCalls
    <3>1. MaxCalls \in Nat /\ calls \in 0..MaxCalls
      BY CommitAssumption DEF TypeOK
    <3>2. calls > 0 /\ calls' = calls - 1
      BY <1>1 DEF SubscribeSend, UnsubscribeSend, Call
    <3> QED BY <3>1, <3>2
  <2>4. call' \in Thread(CallPc)
    BY <1>1, <2>2 DEF SubscribeSend, UnsubscribeSend, CallPc
  <2> QED BY <1>1, <2>1, <2>3, <2>4 DEF SubscribeSend, UnsubscribeSend, TypeOK
<1>2. CASE add_subscribed_topic
  BY <1>0, <1>2 DEF add_subscribed_topic, TypeOK, TablesInv, CallPc
<1>3. CASE StoreIdentifier
  <2>1. call.topic \in Topics
    BY <1>3 DEF StoreIdentifier, TablesInv
  <2>2. /\ DOMAIN subscription_message_identifiers_' \subseteq Topics
        /\ Range(subscription_message_identifiers_') \subseteq AllIdentifiers
    BY <1>0, <1>3, <2>1, PutLemma DEF StoreIdentifier
  <2> QED BY <1>0, <1>3, <2>2 DEF StoreIdentifier, TypeOK, CallPc
<1>4. CASE track_subscription
  <2>1. call.topic \in Topics /\ Effective(call.ident) \in Identifiers \cup {ClientId}
    BY <1>0, <1>4 DEF track_subscription, TablesInv, Effective, AllIdentifiers
  <2> QED BY <1>0, <1>4, <2>1 DEF track_subscription, TypeOK
<1>5. CASE remove_subscribed_topic
  BY <1>0, <1>5 DEF remove_subscribed_topic, TypeOK, CallPc
<1>6. CASE EraseIdentifier
  <2>1. /\ DOMAIN subscription_message_identifiers_' \subseteq Topics
        /\ Range(subscription_message_identifiers_') \subseteq AllIdentifiers
    BY <1>0, <1>6, DropLemma DEF EraseIdentifier
  <2> QED BY <1>0, <1>6, <2>1 DEF EraseIdentifier, TypeOK, CallPc
<1>7. CASE untrack_subscription
  BY <1>0, <1>7 DEF untrack_subscription, TypeOK
<1> QED BY <1>1, <1>2, <1>3, <1>4, <1>5, <1>6, <1>7 DEF ApplicationStep

(* Deliveries, with the callback's exceptions. *)
LEMMA DeliveryTypes ==
  ASSUME TypeOK, NEW t \in Topics,
         Receive(t) \/ \E n \in 1..MaxSeq : ReceiveAgain(t, n)
  PROVE  TypeOK'
<1> USE DEF tableVars, clusterVars
<1>0. MaxSeq \in Nat /\ MaxFaults \in Nat /\ faults \in 0..MaxFaults
  BY CommitAssumption DEF TypeOK
<1>1. ASSUME NEW m \in Messages, Handled(m) \/ CallbackThrows(m)
      PROVE  /\ processed_messages_' \subseteq Messages /\ handled' \subseteq Messages
             /\ handling' \in Thread(HandlingPc)
  <2>1. \A pc \in HandlingPc : [Idle EXCEPT !.pc = pc, !.msg = m] \in Thread(HandlingPc)
    BY IdleType DEF Thread
  <2> QED BY <1>1, <2>1 DEF Handled, CallbackThrows, TypeOK, HandlingPc
<1>2. CASE Receive(t)
  <2>1. next[t] \in 1..MaxSeq /\ next[t] + 1 \in 1..(MaxSeq + 1)
    BY <1>0, <1>2 DEF Receive, TypeOK
  <2>2. next' \in [Topics -> 1..(MaxSeq + 1)]
    BY <1>2, <2>1 DEF Receive, TypeOK
  <2>3. <<t, next[t]>> \in Messages
    BY <2>1 DEF Messages
  <2>4. faults' \in 0..MaxFaults
    BY <1>0, <1>2 DEF Receive, Fault
  <2>5. Handled(<<t, next[t]>>) \/ CallbackThrows(<<t, next[t]>>)
    BY <1>2 DEF Receive
  <2> QED BY <1>1, <1>2, <2>2, <2>3, <2>4, <2>5 DEF Receive, TypeOK
<1>3. ASSUME NEW n \in 1..MaxSeq, ReceiveAgain(t, n) PROVE TypeOK'
  <2>1. <<t, n>> \in Messages
    BY DEF Messages
  <2>2. faults' \in 0..MaxFaults
    BY <1>0, <1>3 DEF ReceiveAgain, Fault
  <2>3. Handled(<<t, n>>) \/ CallbackThrows(<<t, n>>)
    BY <1>3 DEF ReceiveAgain
  <2> QED BY <1>1, <1>3, <2>1, <2>2, <2>3 DEF ReceiveAgain, TypeOK
<1> QED BY <1>2, <1>3

(* What the polling thread does with a message it has received. *)
LEMMA HandlingTypes ==
  ASSUME TypeOK, HandlingStep,
         handling.pc # "idle" => handling.msg \in Messages
  PROVE  TypeOK'
<1> USE DEF tableVars, clusterVars, historyVars
<1>0. /\ handling \in Thread(HandlingPc) /\ Idle \in Thread(HandlingPc)
      /\ handling.topic \in CommitTopics /\ handling.ident \in AllIdentifiers
      /\ \A pc \in HandlingPc : [handling EXCEPT !.pc = pc] \in Thread(HandlingPc)
  BY IdleType DEF TypeOK, Thread
<1>1. CASE Mark
  <2>1. processed_messages_' \subseteq Messages
    BY <1>1 DEF Mark, mark_message_processed, kSubset, TypeOK
  <2> QED BY <1>0, <1>1, <2>1 DEF Mark, TypeOK, HandlingPc
<1>2. CASE ExtractTopic
  <2>1. PICK t \in extract_topic_from_message(handling.msg) :
           handling' = [handling EXCEPT !.pc = "ident", !.topic = t]
    BY <1>2 DEF ExtractTopic
  <2>2. t \in CommitTopics
    BY <1>2 DEF ExtractTopic, extract_topic_from_message, CommitTopics, TypeOK, Messages
  <2>3. handling' \in Thread(HandlingPc)
    BY <1>0, <2>1, <2>2 DEF Thread, HandlingPc
  <2> QED BY <1>2, <2>3 DEF ExtractTopic, TypeOK
<1>3. CASE LookUpIdentifier
  <2>1. StoredIdentifier(handling.topic) \in AllIdentifiers
    BY DEF StoredIdentifier, AllIdentifiers, TypeOK, Range
  <2>2. handling' \in Thread(HandlingPc)
    BY <1>0, <1>3, <2>1 DEF LookUpIdentifier, Thread, HandlingPc
  <2> QED BY <1>3, <2>2 DEF LookUpIdentifier, TypeOK
<1>4. CASE AutoCommit
  <2>1. DOMAIN commits_' \subseteq Keys /\ Range(commits_') \subseteq Messages
    BY <1>0, <1>4, CommitTypes DEF AutoCommit
  <2> QED BY <1>0, <1>4, <2>1 DEF AutoCommit, TypeOK, HandlingPc
<1>5. CASE SendAutoCommit
  <2>1. /\ DOMAIN server' \subseteq Keys /\ Range(server') \subseteq Messages
        /\ active' \subseteq Keys
    BY <1>0, <1>5, OffsetTypes DEF SendAutoCommit
  <2> QED BY <1>0, <1>5, <2>1 DEF SendAutoCommit, TypeOK
<1> QED BY <1>1, <1>2, <1>3, <1>4, <1>5 DEF HandlingStep

(* The rest of the commit interface, and the connection. *)
LEMMA CommitInterfaceTypes ==
  ASSUME TypeOK,
         call.pc = "offset" => call.msg \in Messages,
         \/ \E m \in Messages : CommitManually(m)
         \/ \E t \in Topics, i \in AllIdentifiers : ResumeFromLastCommit(t, i)
         \/ SendOffset
         \/ \E t \in Topics : clear_commits(t)
         \/ clear_all_commits
         \/ ConnectionLost \/ ConnectBegins \/ ConnectEnds
  PROVE  TypeOK'
<1> USE DEF tableVars, historyVars, clusterVars
<1>0. /\ MaxSeq \in Nat /\ MaxFaults \in Nat /\ faults \in 0..MaxFaults
      /\ MaxCalls \in Nat /\ calls \in 0..MaxCalls
  BY CommitAssumption DEF TypeOK
<1>1. ASSUME NEW m \in Messages, CommitManually(m) PROVE TypeOK'
  <2>1. m[1] \in CommitTopics /\ m[2] \in 1..MaxSeq /\ m[1] \in Topics
    BY DEF Messages, CommitTopics
  <2>2. Stream[m[1]][m[2]] \in AllIdentifiers
    BY <2>1, CommitAssumption DEF AllIdentifiers
  <2>3. DOMAIN commits_' \subseteq Keys /\ Range(commits_') \subseteq Messages
    BY <1>1, <2>1, <2>2, CommitTypes DEF CommitManually
  <2>4. call' \in Thread(CallPc) /\ calls' \in 0..MaxCalls
    BY <1>0, <1>1, <2>1, <2>2 DEF CommitManually, Call, Thread, CallPc
  <2> QED BY <1>1, <2>3, <2>4 DEF CommitManually, TypeOK
<1>2. ASSUME NEW t \in Topics, NEW i \in AllIdentifiers, ResumeFromLastCommit(t, i)
      PROVE  TypeOK'
  <2>1. commits_[commit_key(t, i)] \in Messages
    BY <1>2 DEF ResumeFromLastCommit, TypeOK, Range
  <2>2. call' \in Thread(CallPc) /\ calls' \in 0..MaxCalls
    BY <1>0, <1>2, <2>1 DEF ResumeFromLastCommit, Call, Thread, CallPc, CommitTopics
  <2> QED BY <1>2, <2>2 DEF ResumeFromLastCommit, TypeOK
<1>3. CASE SendOffset
  <2>1. call.topic \in CommitTopics /\ call.ident \in AllIdentifiers
    BY DEF TypeOK, Thread
  <2>2. /\ DOMAIN server' \subseteq Keys /\ Range(server') \subseteq Messages
        /\ active' \subseteq Keys
    BY <1>3, <2>1, OffsetTypes DEF SendOffset
  <2> QED BY <1>3, <2>2, IdleType DEF SendOffset, TypeOK
<1>4. ASSUME NEW t \in Topics, clear_commits(t) PROVE TypeOK'
  <2>1. DOMAIN commits_' \subseteq Keys /\ Range(commits_') \subseteq Messages
    BY <1>4, DropLemma DEF clear_commits, TypeOK
  <2> QED BY <1>4, <2>1 DEF clear_commits, TypeOK
<1>5. CASE clear_all_commits
  <2>1. DOMAIN commits_' \subseteq Keys /\ Range(commits_') \subseteq Messages
    BY <1>5 DEF clear_all_commits, NoEntries, Range
  <2> QED BY <1>5, <2>1 DEF clear_all_commits, TypeOK
<1>6. CASE ConnectionLost
  <2>1. faults' \in 0..MaxFaults
    BY <1>0, <1>6 DEF ConnectionLost, Fault
  <2> QED BY <1>6, <2>1 DEF ConnectionLost, TypeOK
<1>7. CASE ConnectBegins
  BY <1>7 DEF ConnectBegins, TypeOK
<1>8. CASE ConnectEnds
  <2>1. active' = active
    BY <1>8 DEF ConnectEnds, resume_subscribed_topics, is_connected
  <2> QED BY <1>8, <2>1 DEF ConnectEnds, TypeOK
<1> QED BY <1>1, <1>2, <1>3, <1>4, <1>5, <1>6, <1>7, <1>8

(* What makes TypeOK inductive: a thread about to commit has a message. *)
MessageInv ==
  /\ handling.pc # "idle" => handling.msg \in Messages
  /\ call.pc = "offset" => call.msg \in Messages

(* The local variables of the two threads, field by field. *)
LEMMA ThreadFields ==
  ASSUME TypeOK
  PROVE  /\ call \in [pc : CallPc, topic : CommitTopics, ident : AllIdentifiers,
                      msg : Messages \cup {NoMessage}]
         /\ handling \in [pc : HandlingPc, topic : CommitTopics, ident : AllIdentifiers,
                          msg : Messages \cup {NoMessage}]
BY DEF TypeOK, Thread

(* An (un)subscription commits nothing. *)
LEMMA CallNotOffset ==
  ASSUME TypeOK,
         ApplicationStep \/ \E t \in Topics, i \in Identifiers \cup {Empty} :
                               SubscribeSend(t, i) \/ UnsubscribeSend(t, i)
  PROVE  /\ call'.pc # "offset"
         /\ UNCHANGED <<handling, processed_messages_, commits_, server>>
<1> USE ThreadFields DEF clusterVars
<1>1. CASE add_subscribed_topic \/ StoreIdentifier \/ track_subscription
  BY <1>1 DEF add_subscribed_topic, StoreIdentifier, track_subscription, Idle
<1>2. CASE remove_subscribed_topic \/ EraseIdentifier \/ untrack_subscription
  BY <1>2 DEF remove_subscribed_topic, EraseIdentifier, untrack_subscription, Idle
<1>3. ASSUME NEW t \in Topics, NEW i \in Identifiers \cup {Empty},
             SubscribeSend(t, i) \/ UnsubscribeSend(t, i)
      PROVE  /\ call'.pc # "offset"
             /\ UNCHANGED <<handling, processed_messages_, commits_, server>>
  BY <1>3 DEF SubscribeSend, UnsubscribeSend, Idle
<1> QED BY <1>1, <1>2, <1>3 DEF ApplicationStep

(* Every step keeps it so. *)
LEMMA MessageStep == TypeOK /\ MessageInv /\ [Next]_vars => MessageInv'
<1> SUFFICES ASSUME TypeOK, MessageInv, [Next]_vars PROVE MessageInv'
  OBVIOUS
<1> USE DEF MessageInv
<1>1. CASE UNCHANGED <<call, handling>>
  BY <1>1
<1>2. ASSUME NEW t \in Topics, NEW n \in 1..MaxSeq, UNCHANGED call,
             Handled(<<t, n>>) \/ CallbackThrows(<<t, n>>)
      PROVE  MessageInv'
  <2>1. <<t, n>> \in Messages
    BY DEF Messages
  <2>2. CASE CallbackThrows(<<t, n>>)
    BY <1>1, <1>2, <2>2 DEF CallbackThrows
  <2>3. CASE Handled(<<t, n>>)
    BY <1>2, <2>1, <2>3 DEF Handled, Idle
  <2> QED BY <1>2, <2>2, <2>3
<1>3. ASSUME NEW t \in Topics, Receive(t) PROVE MessageInv'
  <2>1. next[t] \in 1..MaxSeq
    BY <1>3, CommitAssumption DEF Receive, TypeOK
  <2> QED BY <1>2, <1>3, <2>1 DEF Receive
<1>4. ASSUME NEW t \in Topics, NEW n \in 1..MaxSeq, ReceiveAgain(t, n) PROVE MessageInv'
  BY <1>2, <1>4 DEF ReceiveAgain
<1>5. CASE HandlingStep
  <2>1. handling.pc # "idle" /\ (handling' = Idle \/ handling'.msg = handling.msg)
    BY <1>5, ThreadFields DEF HandlingStep, Mark, ExtractTopic, LookUpIdentifier, AutoCommit,
       SendAutoCommit
  <2>2. UNCHANGED call
    BY <1>5 DEF HandlingStep, Mark, ExtractTopic, LookUpIdentifier, AutoCommit, SendAutoCommit
  <2> QED BY <2>1, <2>2 DEF Idle
<1>6. ASSUME NEW t \in Topics, NEW i \in AllIdentifiers, ResumeFromLastCommit(t, i)
      PROVE  MessageInv'
  BY <1>6 DEF ResumeFromLastCommit, TypeOK, Range
<1>7. ASSUME NEW m \in Messages, CommitManually(m) PROVE MessageInv'
  BY <1>7 DEF CommitManually
<1>8. CASE SendOffset
  BY <1>8 DEF SendOffset, Idle
<1>9. CASE ApplicationStep \/ \E t \in Topics, i \in Identifiers \cup {Empty} :
                                 SubscribeSend(t, i) \/ UnsubscribeSend(t, i)
  <2>1. UNCHANGED handling /\ call'.pc # "offset"
    BY <1>9, CallNotOffset
  <2> QED BY <2>1
<1>10. CASE \/ \E t \in Topics : clear_commits(t)
            \/ clear_all_commits \/ ConnectionLost \/ ConnectBegins \/ ConnectEnds
  BY <1>1, <1>10 DEF clear_commits, clear_all_commits, ConnectionLost, ConnectBegins, ConnectEnds
<1>11. CASE UNCHANGED vars
  BY <1>1, <1>11 DEF vars
<1> QED
  BY <1>3, <1>4, <1>5, <1>6, <1>7, <1>8, <1>9, <1>10, <1>11 DEF Next

(* Every message that is committed, locally or at the cluster, has a       *)
(* sequence number of the stream and a topic and identifier that the       *)
(* application or the configuration gave; a tracked subscription always    *)
(* has an identifier, also where the application gave the empty one.       *)
THEOREM TrackingTypes == Spec => []TypeOK
<1>1. Init => TypeOK
  <2> SUFFICES ASSUME Init PROVE TypeOK
    OBVIOUS
  <2>1. DOMAIN NoEntries = {} /\ Range(NoEntries) = {}
    BY DEF NoEntries, Range
  <2>2. /\ next \in [Topics -> 1..(MaxSeq + 1)]
        /\ faults \in 0..MaxFaults /\ calls \in 0..MaxCalls
    BY CommitAssumption DEF Init
  <2> QED BY <2>1, <2>2, IdleType DEF Init, TypeOK
<1>2. TypeOK /\ MessageInv /\ TablesInv /\ [Next]_vars => TypeOK'
  <2> SUFFICES ASSUME TypeOK, MessageInv, TablesInv, [Next]_vars PROVE TypeOK'
    OBVIOUS
  <2>1. CASE UNCHANGED vars
    BY <2>1 DEF vars, tableVars, historyVars, clusterVars, TypeOK
  <2> QED BY <2>1, ApplicationTypes, DeliveryTypes, HandlingTypes, CommitInterfaceTypes
    DEF Next, MessageInv
<1>3. Init => MessageInv
  BY DEF Init, MessageInv, Idle
<1> QED BY <1>1, <1>2, <1>3, MessageStep, TablesInvariant, PTL DEF Spec

-----------------------------------------------------------------------------
(* Requests, messages and tables: what is stored was requested. *)
LEMMA RequestedStep ==
  ASSUME TypeOK, RequestedInv, [Next]_vars
  PROVE  RequestedInv' /\ requested \subseteq requested' /\ handled \subseteq handled'
<1> USE DEF tableVars, historyVars, clusterVars
<1>1. CASE UNCHANGED <<tableVars, call, requested, handled, next>>
  BY <1>1 DEF RequestedInv
<1>2. ASSUME NEW t \in Topics, NEW i \in Identifiers \cup {Empty},
             SubscribeSend(t, i) \/ UnsubscribeSend(t, i)
      PROVE  RequestedInv' /\ requested \subseteq requested' /\ handled \subseteq handled'
  BY <1>2 DEF SubscribeSend, UnsubscribeSend, Idle, RequestedInv
<1>3. CASE add_subscribed_topic
  <2>1. call.ident \in AllIdentifiers
    BY DEF TypeOK, Thread
  <2> QED BY <1>3, <2>1 DEF add_subscribed_topic, RequestedInv, TypeOK, Thread
<1>4. CASE StoreIdentifier
  <2> DEFINE smi == subscription_message_identifiers_
  <2>1. /\ DOMAIN smi' = DOMAIN smi \cup {call.topic}
        /\ smi'[call.topic] = call.ident
        /\ \A z \in DOMAIN smi : z # call.topic => smi'[z] = smi[z]
    BY <1>4 DEF StoreIdentifier, Put
  <2> QED BY <1>4, <2>1 DEF StoreIdentifier, RequestedInv, TypeOK, Thread
<1>5. CASE EraseIdentifier
  <2> DEFINE smi == subscription_message_identifiers_
  <2>1. /\ DOMAIN smi' = DOMAIN smi \ {call.topic}
        /\ \A z \in DOMAIN smi \ {call.topic} : smi'[z] = smi[z]
    BY <1>5 DEF EraseIdentifier, Drop, Restrict
  <2> QED BY <1>5, <2>1 DEF EraseIdentifier, RequestedInv, TypeOK, Thread
<1>6. CASE track_subscription \/ remove_subscribed_topic \/ untrack_subscription
  <2>1. /\ subscribed_topics_' \subseteq subscribed_topics_ /\ call'.pc \notin {"add", "store"}
        /\ UNCHANGED <<subscription_message_identifiers_, requested, handled, next>>
    BY <1>6, ThreadFields
    DEF track_subscription, remove_subscribed_topic, untrack_subscription, Idle
  <2> QED BY <2>1 DEF RequestedInv
<1>7. ASSUME NEW t \in Topics, NEW n \in 1..MaxSeq, <<t, Stream[t][n]>> \in requested,
             Handled(<<t, n>>) \/ CallbackThrows(<<t, n>>)
      PROVE  /\ handled \subseteq handled'
             /\ \A m \in handled' : <<m[1], Stream[m[1]][m[2]]>> \in requested
  BY <1>7 DEF Handled, CallbackThrows, RequestedInv
<1>8. ASSUME NEW t \in Topics, Receive(t)
      PROVE  RequestedInv' /\ requested \subseteq requested' /\ handled \subseteq handled'
  <2>1. next[t] \in 1..MaxSeq
    BY <1>8, CommitAssumption DEF Receive, TypeOK
  <2>2. /\ handled \subseteq handled'
        /\ \A m \in handled' : <<m[1], Stream[m[1]][m[2]]>> \in requested
    BY <1>7, <1>8, <2>1 DEF Receive
  <2>3. \A u \in Topics, n \in 1..MaxSeq : n < next'[u] => n < next[u] \/ (u = t /\ n = next[t])
    BY <1>8, <2>1, CommitAssumption DEF Receive, TypeOK
  <2> QED BY <1>8, <2>2, <2>3 DEF Receive, RequestedInv
<1>9. ASSUME NEW t \in Topics, NEW n \in 1..MaxSeq, ReceiveAgain(t, n)
      PROVE  RequestedInv' /\ requested \subseteq requested' /\ handled \subseteq handled'
  <2>1. /\ handled \subseteq handled'
        /\ \A m \in handled' : <<m[1], Stream[m[1]][m[2]]>> \in requested
    BY <1>7, <1>9 DEF ReceiveAgain, RequestedInv
  <2> QED BY <1>9, <2>1 DEF ReceiveAgain, RequestedInv
<1>10. CASE \/ \E m \in Messages : CommitManually(m)
            \/ \E t \in Topics, i \in AllIdentifiers : ResumeFromLastCommit(t, i)
            \/ SendOffset
  BY <1>10 DEF CommitManually, ResumeFromLastCommit, SendOffset, Idle, RequestedInv
<1>11. CASE HandlingStep
  BY <1>1, <1>11 DEF HandlingStep, Mark, ExtractTopic, LookUpIdentifier, AutoCommit,
     SendAutoCommit
<1>12. CASE \/ \E t \in Topics : clear_commits(t)
            \/ clear_all_commits \/ ConnectionLost \/ ConnectBegins \/ ConnectEnds
  BY <1>1, <1>12 DEF clear_commits, clear_all_commits, ConnectionLost, ConnectBegins, ConnectEnds
<1>13. CASE UNCHANGED vars
  BY <1>1, <1>13 DEF vars
<1> QED
  BY <1>2, <1>3, <1>4, <1>5, <1>6, <1>8, <1>9, <1>10, <1>11, <1>12, <1>13
  DEF Next, ApplicationStep

(* What the polling thread has decided about the message it handles was    *)
(* right when it decided, and stays right.                                 *)
LEMMA HandlingStaysRight ==
  ASSUME TypeOK, RequestedInv, HandlingInv, CommitsInv, [Next]_vars,
         requested \subseteq requested', handled \subseteq handled'
  PROVE  HandlingInv'
<1>1. CASE UNCHANGED handling
  BY <1>1 DEF HandlingInv, AttributableTo, MayName
<1>2. ASSUME NEW m, Handled(m) \/ CallbackThrows(m)  PROVE HandlingInv'
  BY <1>1, <1>2 DEF Handled, CallbackThrows, HandlingInv, CommitsInv, Idle
<1>3. CASE Mark
  BY <1>3 DEF Mark, HandlingInv, AttributableTo, MayName, TypeOK, Thread, historyVars
<1>4. CASE ExtractTopic
  <2>1. PICK t \in extract_topic_from_message(handling.msg) :
           handling' = [handling EXCEPT !.pc = "ident", !.topic = t]
    BY <1>4 DEF ExtractTopic
  <2>2. AttributableTo(handling.msg, t)
    BY DEF extract_topic_from_message, AttributableTo, RequestedInv
  <2>3. /\ handling'.msg = handling.msg /\ handling'.topic = t /\ handling'.pc = "ident"
        /\ handling.pc = "topic" /\ UNCHANGED <<requested, handled>>
    BY <1>4, <2>1 DEF ExtractTopic, TypeOK, Thread, historyVars
  <2> QED BY <2>2, <2>3 DEF HandlingInv, AttributableTo
<1>5. CASE LookUpIdentifier
  <2>1. MayName(handling.topic, StoredIdentifier(handling.topic))
    BY DEF MayName, StoredIdentifier, RequestedInv
  <2>2. /\ handling'.msg = handling.msg /\ handling'.topic = handling.topic
        /\ handling'.ident = StoredIdentifier(handling.topic) /\ handling'.pc = "commit"
        /\ handling.pc = "ident" /\ UNCHANGED <<requested, handled>>
    BY <1>5 DEF LookUpIdentifier, TypeOK, Thread, historyVars
  <2> QED BY <2>1, <2>2 DEF HandlingInv, AttributableTo, MayName
<1>6. CASE AutoCommit \/ SendAutoCommit
  <2>1. CASE AutoCommit
    <3>1. /\ handling'.msg = handling.msg /\ handling'.topic = handling.topic
          /\ handling'.ident = handling.ident /\ handling.pc = "commit"
          /\ UNCHANGED <<requested, handled>>
      BY <2>1, ThreadFields DEF AutoCommit, historyVars
    <3> QED BY <3>1 DEF HandlingInv, AttributableTo, MayName
  <2>2. CASE SendAutoCommit
    BY <2>2 DEF SendAutoCommit, HandlingInv, Idle
  <2> QED BY <1>6, <2>1, <2>2
<1> QED
  BY <1>1, <1>2, <1>3, <1>4, <1>5, <1>6
  DEF Next, vars, HandlingStep, SubscribeSend, UnsubscribeSend, ApplicationStep,
      add_subscribed_topic, StoreIdentifier, track_subscription, remove_subscribed_topic,
      EraseIdentifier, untrack_subscription, Receive, ReceiveAgain, CommitManually,
      ResumeFromLastCommit, SendOffset, clear_commits, clear_all_commits, ConnectionLost,
      ConnectBegins, ConnectEnds

(* A proper commit can be added to a proper table of commits, locally or   *)
(* at the cluster.                                                         *)
Proper(f) ==
  \A k \in DOMAIN f :
    /\ f[k] \in handled
    /\ AttributableTo(f[k], k[1])
    /\ k[2] = ClientId \/ k \in requested

LEMMA PutProper ==
  ASSUME NEW f, Proper(f), NEW t, NEW i, NEW m, m \in handled, AttributableTo(m, t), MayName(t, i)
  PROVE  Proper(Put(f, commit_key(t, i), m))
BY DEF Proper, Put, commit_key, MayName

(* Every step commits handled messages, under proper keys. *)
LEMMA CommitsStayRight ==
  ASSUME TypeOK, RequestedInv, HandlingInv, CommitsInv, [Next]_vars,
         requested \subseteq requested', handled \subseteq handled'
  PROVE  CommitsInv'
<1> USE DEF tableVars, historyVars, clusterVars
<1>0. /\ Proper(commits_) /\ Proper(server)
      /\ Proper(commits_)' /\ Proper(server)' => CommitNamesHandled' /\ CommitNamesSubscription'
  BY DEF CommitsInv, CommitNamesHandled, CommitNamesSubscription, Proper
<1>1. CASE UNCHANGED <<processed_messages_, call, commits_, server>>
  BY <1>0, <1>1 DEF CommitsInv, CommitOf, AttributableTo, MayName, Proper
<1>2. ASSUME NEW m, UNCHANGED <<call, commits_, server>>, Handled(m) \/ CallbackThrows(m)
      PROVE CommitsInv'
  BY <1>1, <1>2 DEF Handled, CallbackThrows
<1>3. CASE Mark
  <2>1. processed_messages_' \subseteq handled'
    BY <1>3 DEF Mark, mark_message_processed, kSubset, CommitsInv, HandlingInv
  <2> QED BY <1>0, <1>3, <2>1 DEF Mark, CommitsInv, CommitOf, AttributableTo, MayName, Proper
<1>4. CASE AutoCommit
  <2>1. CommitOf(handling)
    BY <1>4 DEF AutoCommit, HandlingInv, CommitOf
  <2>2. Proper(commits_')
    BY <1>0, <1>4, <2>1, PutProper DEF AutoCommit, CommitLocally, CommitOf
  <2> QED BY <1>0, <1>4, <2>2 DEF AutoCommit, CommitsInv, CommitOf, AttributableTo, MayName, Proper
<1>5. CASE SendAutoCommit
  <2>1. CommitOf(handling)
    BY <1>5 DEF SendAutoCommit, HandlingInv, CommitOf
  <2>2. Proper(server')
    BY <1>0, <1>5, <2>1, PutProper DEF SendAutoCommit, send_commit_offset, CommitOf
  <2> QED BY <1>0, <1>5, <2>2
    DEF SendAutoCommit, CommitsInv, CommitOf, AttributableTo, MayName, Proper
<1>6. ASSUME NEW m \in Messages, CommitManually(m)  PROVE CommitsInv'
  <2>1. /\ m \in handled /\ AttributableTo(m, m[1])
        /\ MayName(m[1], Stream[m[1]][m[2]])
    BY <1>6 DEF CommitManually, RequestedInv, AttributableTo, MayName
  <2>2. Proper(commits_')
    BY <1>0, <1>6, <2>1, PutProper DEF CommitManually, CommitLocally
  <2> QED BY <1>0, <1>6, <2>1, <2>2
    DEF CommitManually, CommitsInv, CommitOf, AttributableTo, MayName, Proper
<1>7. ASSUME NEW t \in Topics, NEW i \in AllIdentifiers, ResumeFromLastCommit(t, i)
      PROVE  CommitsInv'
  <2>1. CommitOf([pc |-> "offset", topic |-> t, ident |-> i, msg |-> commits_[commit_key(t, i)]])
    <3> DEFINE k == commit_key(t, i)
    <3>1. k \in DOMAIN commits_ /\ k[1] = t /\ k[2] = i /\ k = <<t, i>>
      BY <1>7 DEF ResumeFromLastCommit, commit_key
    <3>2. commits_[k] \in handled /\ AttributableTo(commits_[k], t) /\ MayName(t, i)
      BY <1>0, <3>1 DEF Proper, MayName
    <3> QED BY <3>2 DEF CommitOf
  <2> QED BY <1>0, <1>7, <2>1
    DEF ResumeFromLastCommit, CommitsInv, CommitOf, AttributableTo, MayName, Proper
<1>8. CASE SendOffset
  <2>1. CommitOf(call)
    BY <1>8 DEF SendOffset, CommitsInv
  <2>2. Proper(server')
    BY <1>0, <1>8, <2>1, PutProper DEF SendOffset, send_commit_offset, CommitOf
  <2> QED BY <1>0, <1>8, <2>2 DEF SendOffset, CommitsInv, AttributableTo, Proper, Idle
<1>9. CASE clear_all_commits \/ \E t \in Topics : clear_commits(t)
  <2>1. DOMAIN commits_' \subseteq DOMAIN commits_ /\ \A k \in DOMAIN commits_' : commits_'[k] = commits_[k]
    BY <1>9 DEF clear_all_commits, clear_commits, Drop, Restrict, NoEntries
  <2>2. UNCHANGED <<processed_messages_, call, server, requested, handled>>
    BY <1>9 DEF clear_all_commits, clear_commits
  <2>3. Proper(commits_)' /\ Proper(server)'
    BY <1>0, <2>1, <2>2 DEF Proper, AttributableTo
  <2> QED BY <1>0, <2>2, <2>3 DEF CommitsInv, CommitOf, AttributableTo, MayName
<1>10. CASE ApplicationStep \/ \E t \in Topics, i \in Identifiers \cup {Empty} :
                                  SubscribeSend(t, i) \/ UnsubscribeSend(t, i)
  <2>1. call'.pc # "offset" /\ UNCHANGED <<processed_messages_, commits_, server>>
    BY <1>10, CallNotOffset
  <2> QED BY <1>0, <2>1 DEF CommitsInv, AttributableTo, Proper
<1>11. CASE \/ UNCHANGED vars \/ ConnectionLost \/ ConnectBegins \/ ConnectEnds
            \/ ExtractTopic \/ LookUpIdentifier
  BY <1>1, <1>11 DEF vars, ConnectionLost, ConnectBegins, ConnectEnds, ExtractTopic,
     LookUpIdentifier
<1>12. ASSUME NEW t \in Topics, Receive(t) \/ \E n \in 1..MaxSeq : ReceiveAgain(t, n)
       PROVE CommitsInv'
  BY <1>2, <1>12 DEF Receive, ReceiveAgain
<1> QED
  BY <1>3, <1>4, <1>5, <1>6, <1>7, <1>8, <1>9, <1>10, <1>11, <1>12 DEF Next, HandlingStep

(* HandledInv holds in every reachable state. *)
THEOREM HandledInvariant == Spec => []HandledInv
<1>1. Init => HandledInv
  BY CommitAssumption DEF Init, HandledInv, RequestedInv, HandlingInv, CommitsInv,
     CommitNamesHandled, CommitNamesSubscription, NoEntries, Idle
<1>2. TypeOK /\ HandledInv /\ [Next]_vars => HandledInv'
  BY RequestedStep, HandlingStaysRight, CommitsStayRight DEF HandledInv
<1> QED BY <1>1, <1>2, TrackingTypes, PTL DEF Spec

(* Only handled messages are committed, locally and at the cluster: one    *)
(* whose callback threw is not acknowledged, whatever is repeated or       *)
(* evicted.  A message that names its topic is committed under it, and one *)
(* that does not only under a topic that was subscribed to, or "default".  *)
THEOREM OnlyHandledCommitted == Spec => []CommitNamesHandled
<1>1. HandledInv => CommitNamesHandled
  BY DEF HandledInv, CommitsInv
<1> QED BY <1>1, HandledInvariant, PTL

(* No commit is made under an identifier that was not subscribed to its    *)
(* topic, unless it is the client id, although the topic and the           *)
(* identifier are looked up under two locks and the tables change between. *)
THEOREM CommitsUnderSubscriptions == Spec => []CommitNamesSubscription
<1>1. HandledInv => CommitNamesSubscription
  BY DEF HandledInv, CommitsInv
<1> QED BY <1>1, HandledInvariant, PTL
=============================================================================
