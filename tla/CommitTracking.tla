--------------------------- MODULE CommitTracking ---------------------------
(***************************************************************************)
(* Subscriptions, deduplication and commits of ClusterClient::Impl, with   *)
(* its CommitManager: send_subscription_request, send_unsubscription_      *)
(* request, handle_incoming_message with its auto-commit, commit_message,  *)
(* resume_from_last_commit, and resume_subscribed_topics as connect()      *)
(* calls it.  One application thread subscribes, unsubscribes and commits  *)
(* while the polling thread handles messages.  A request is sent first and *)
(* recorded in three tables, each under a lock of its own, afterwards; a   *)
(* message is marked, attributed to a topic and an identifier, committed   *)
(* locally and committed at the cluster in steps between which the other   *)
(* thread may run.                                                         *)
(*                                                                         *)
(* The cluster is external: it numbers the messages of a topic 1, 2, ...,  *)
(* sends them in order, may send any of them again, and remembers the last *)
(* commit offset it was sent for a topic and message identifier.  Message  *)
(* n of topic t belongs to the subscription with identifier Stream[t][n].  *)
(***************************************************************************)
EXTENDS Integers, FiniteSets, FiniteSetsExt, Functions

CONSTANTS
  Topics,
  Identifiers,       \* message identifiers that the application uses
  ClientId,          \* config_.client_id, the default message identifier
  Default,           \* the topic "default"
  Unlabelled,        \* messages that name no topic in headers or payload
  Stream,            \* [Topics -> [1..MaxSeq -> Identifiers]]
  DedupLimit,        \* entries that processed_messages_ may hold (1000)
  DedupEvict,        \* entries removed when it holds more (100)
  MayThrow,          \* the application's message callback may throw
  MaxSeq,            \* bound: messages of one topic
  MaxFaults,         \* bound: repeated deliveries, exceptions, connection losses
  MaxCalls           \* bound: calls of the application that send something

Empty == "empty"     \* the empty string as a message identifier
Messages == Topics \X (1..MaxSeq)
NoMessage == <<Default, 0>>

ASSUME CommitAssumption ==
  /\ IsFiniteSet(Topics) /\ Default \notin Topics
  /\ ClientId \notin Identifiers /\ Empty \notin Identifiers \cup {ClientId}
  /\ MaxSeq \in Nat /\ MaxFaults \in Nat /\ MaxCalls \in Nat /\ MayThrow \in BOOLEAN
  /\ Stream \in [Topics -> [1..MaxSeq -> Identifiers]]
  /\ Unlabelled \subseteq Messages
  /\ DedupLimit \in Nat /\ DedupEvict \in 1..(DedupLimit + 1)

VARIABLES
  connection_state_,                  \* of the client
  subscribed_topics_,
  subscription_message_identifiers_,  \* topic -> identifier
  tracked_subscriptions_,             \* set of [topic, message_identifier]
  processed_messages_,
  commits_,                           \* key -> message it commits
  call,          \* the application thread in one of its calls
  handling,      \* the polling thread in handle_incoming_message
  requested,     \* history: <<topic, identifier>> the application subscribed with
  handled,       \* history: messages whose callback succeeded
  active,        \* history: <<topic, identifier>> requested or resumed on this connection
  next,          \* external: per topic, the next message the cluster sends
  server,        \* external: key -> message of the last commit offset received
  faults,
  calls          \* such calls the application may still make

tableVars == <<subscribed_topics_, subscription_message_identifiers_, tracked_subscriptions_>>
historyVars == <<requested, handled, active>>
clusterVars == <<next, server>>
vars == <<connection_state_, tableVars, processed_messages_, commits_, call,
          handling, historyVars, clusterVars, faults, calls>>

AllIdentifiers == Identifiers \cup {ClientId, Empty}
CommitTopics == Topics \cup {Default}
Idle == [pc |-> "idle", topic |-> Default, ident |-> Empty, msg |-> NoMessage]
CallPc == {"idle", "add", "store", "track", "remove", "erase", "untrack", "offset"}
HandlingPc == {"idle", "mark", "topic", "ident", "commit", "offset"}

(* What a thread at one of the places pcs holds in its local variables. *)
Thread(pcs) == [pc : pcs, topic : CommitTopics, ident : AllIdentifiers,
                msg : Messages \cup {NoMessage}]

(* The key of CommitManager: topic + ":" + message_identifier. *)
commit_key(t, i) == <<t, i>>
Keys == CommitTopics \X AllIdentifiers

TypeOK ==
  /\ connection_state_ \in {"DISCONNECTED", "CONNECTING", "CONNECTED"}
  /\ subscribed_topics_ \subseteq Topics
  /\ DOMAIN subscription_message_identifiers_ \subseteq Topics
  /\ Range(subscription_message_identifiers_) \subseteq AllIdentifiers
  /\ tracked_subscriptions_ \subseteq
       [topic : Topics, message_identifier : Identifiers \cup {ClientId}]
  /\ processed_messages_ \subseteq Messages
  /\ DOMAIN commits_ \subseteq Keys /\ Range(commits_) \subseteq Messages
  /\ call \in Thread(CallPc) /\ handling \in Thread(HandlingPc)
  /\ requested \subseteq Topics \X AllIdentifiers
  /\ handled \subseteq Messages
  /\ active \subseteq Keys
  /\ next \in [Topics -> 1..(MaxSeq + 1)]
  /\ DOMAIN server \subseteq Keys /\ Range(server) \subseteq Messages
  /\ faults \in 0..MaxFaults /\ calls \in 0..MaxCalls

NoEntries == [x \in {} |-> 0]

Init ==
  /\ connection_state_ = "CONNECTED"
  /\ subscribed_topics_ = {} /\ subscription_message_identifiers_ = NoEntries
  /\ tracked_subscriptions_ = {} /\ processed_messages_ = {} /\ commits_ = NoEntries
  /\ call = Idle /\ handling = Idle
  /\ requested = {} /\ handled = {} /\ active = {}
  /\ next = [t \in Topics |-> 1] /\ server = NoEntries
  /\ faults = MaxFaults /\ calls = MaxCalls

is_connected == connection_state_ = "CONNECTED"

Fault == faults > 0 /\ faults' = faults - 1

(* The application thread is free and makes one more call. *)
Call == call.pc = "idle" /\ calls > 0 /\ calls' = calls - 1

(* f with f[x] = y, whether or not x was in its domain. *)
Put(f, x, y) == [z \in DOMAIN f \cup {x} |-> IF z = x THEN y ELSE f[z]]

Drop(f, x) == Restrict(f, DOMAIN f \ {x})

(* The identifier that track_subscription records. *)
Effective(i) == IF i = Empty THEN ClientId ELSE i

-----------------------------------------------------------------------------
(* send_subscription_request: ensure_connected_or_throw and publish, then  *)
(* the tables, one lock after the other.                                   *)

SubscribeSend(t, i) ==
  /\ Call /\ is_connected
  /\ call' = [Idle EXCEPT !.pc = "add", !.topic = t, !.ident = i]
  /\ requested' = requested \cup {<<t, i>>}
  /\ active' = active \cup {<<t, Effective(i)>>}
  /\ UNCHANGED <<connection_state_, tableVars, processed_messages_, commits_, handling,
                 handled, clusterVars, faults>>

add_subscribed_topic ==
  /\ call.pc = "add"
  /\ subscribed_topics_' = subscribed_topics_ \cup {call.topic}
  /\ call' = [call EXCEPT !.pc = "store"]
  /\ UNCHANGED <<connection_state_, subscription_message_identifiers_,
                 tracked_subscriptions_, processed_messages_, commits_, handling,
                 historyVars, clusterVars, faults, calls>>

StoreIdentifier ==
  /\ call.pc = "store"
  /\ subscription_message_identifiers_' =
       Put(subscription_message_identifiers_, call.topic, call.ident)
  /\ call' = [call EXCEPT !.pc = "track"]
  /\ UNCHANGED <<connection_state_, subscribed_topics_, tracked_subscriptions_,
                 processed_messages_, commits_, handling, historyVars, clusterVars,
                 faults, calls>>

(* Mutant of track_subscription: an empty identifier is recorded as it is. *)
track_subscription_Raw ==
  /\ call.pc = "track"
  /\ tracked_subscriptions_' = tracked_subscriptions_ \cup
       {[topic |-> call.topic, message_identifier |-> call.ident]}
  /\ call' = Idle
  /\ UNCHANGED <<connection_state_, subscribed_topics_,
                 subscription_message_identifiers_, processed_messages_, commits_, handling,
                 historyVars, clusterVars, faults, calls>>

track_subscription ==
  /\ call.pc = "track"
  /\ tracked_subscriptions_' = tracked_subscriptions_ \cup
       {[topic |-> call.topic, message_identifier |-> Effective(call.ident)]}
  /\ call' = Idle
  /\ UNCHANGED <<connection_state_, subscribed_topics_,
                 subscription_message_identifiers_, processed_messages_, commits_, handling,
                 historyVars, clusterVars, faults, calls>>

-----------------------------------------------------------------------------
(* send_unsubscription_request *)

UnsubscribeSend(t, i) ==
  /\ Call /\ is_connected
  /\ call' = [Idle EXCEPT !.pc = "remove", !.topic = t, !.ident = i]
  /\ UNCHANGED <<connection_state_, tableVars, processed_messages_, commits_, handling,
                 requested, handled, active, clusterVars, faults>>

remove_subscribed_topic ==
  /\ call.pc = "remove"
  /\ subscribed_topics_' = subscribed_topics_ \ {call.topic}
  /\ call' = [call EXCEPT !.pc = "erase"]
  /\ UNCHANGED <<connection_state_, subscription_message_identifiers_,
                 tracked_subscriptions_, processed_messages_, commits_, handling,
                 historyVars, clusterVars, faults, calls>>

(* Mutant of EraseIdentifier: the stored identifier survives. *)
EraseIdentifier_Kept ==
  /\ call.pc = "erase"
  /\ call' = [call EXCEPT !.pc = "untrack"]
  /\ UNCHANGED <<connection_state_, tableVars, processed_messages_, commits_, handling,
                 historyVars, clusterVars, faults, calls>>

EraseIdentifier ==
  /\ call.pc = "erase"
  /\ subscription_message_identifiers_' = Drop(subscription_message_identifiers_, call.topic)
  /\ call' = [call EXCEPT !.pc = "untrack"]
  /\ UNCHANGED <<connection_state_, subscribed_topics_, tracked_subscriptions_,
                 processed_messages_, commits_, handling, historyVars, clusterVars,
                 faults, calls>>

untrack_subscription ==
  /\ call.pc = "untrack"
  /\ tracked_subscriptions_' = {r \in tracked_subscriptions_ :
        ~(r.topic = call.topic /\ (call.ident = Empty \/ r.message_identifier = call.ident))}
  /\ call' = Idle
  /\ UNCHANGED <<connection_state_, subscribed_topics_,
                 subscription_message_identifiers_, processed_messages_, commits_, handling,
                 historyVars, clusterVars, faults, calls>>

ApplicationStep ==
  \/ add_subscribed_topic \/ StoreIdentifier \/ track_subscription
  \/ remove_subscribed_topic \/ EraseIdentifier \/ untrack_subscription

-----------------------------------------------------------------------------
(* handle_incoming_message, on the polling thread. *)

(* The topic a message is attributed to: its own if it names one, else any *)
(* subscribed topic (the first of an unordered set), else "default".       *)
extract_topic_from_message(m) ==
  IF m \notin Unlabelled THEN {m[1]}
  ELSE IF subscribed_topics_ # {} THEN subscribed_topics_ ELSE {Default}

(* Mutant of StoredIdentifier: the first identifier stored for any topic. *)
StoredIdentifier_AnyTopic(t) ==
  IF subscription_message_identifiers_ # NoEntries
  THEN CHOOSE i \in Range(subscription_message_identifiers_) : TRUE
  ELSE ClientId

(* The identifier a message of topic t is committed under. *)
StoredIdentifier(t) ==
  IF t \in DOMAIN subscription_message_identifiers_
  THEN subscription_message_identifiers_[t] ELSE ClientId

(* Mutant of mark_message_processed: it trims one message too late. *)
mark_message_processed_Late(m) ==
  LET marked == processed_messages_ \cup {m}
  IN  IF Cardinality(marked) > DedupLimit + 1
      THEN {marked \ gone : gone \in kSubset(DedupEvict, marked)}
      ELSE {marked}

(* The sets that mark_message_processed may leave: an unordered set is     *)
(* trimmed from wherever its iteration begins.                             *)
mark_message_processed(m) ==
  LET marked == processed_messages_ \cup {m}
  IN  IF Cardinality(marked) > DedupLimit
      THEN {marked \ gone : gone \in kSubset(DedupEvict, marked)}
      ELSE {marked}

(* CommitManager::commit_message for topic t and identifier i. *)
CommitLocally(t, i, m) == commits_' = Put(commits_, commit_key(t, i), m)

(* send_commit_offset of what thread c has committed: nothing is sent when *)
(* the client is not connected, and the session may fail to send it.       *)
send_commit_offset(c) ==
  \/ /\ is_connected
     /\ server' = Put(server, commit_key(c.topic, c.ident), c.msg)
     /\ active' = active \cup {commit_key(c.topic, c.ident)}
  \/ UNCHANGED <<server, active>>

(* The callback succeeds, or is skipped for a message already processed. *)
Handled(m) ==
  \/ /\ m \in processed_messages_
     /\ handling' = [Idle EXCEPT !.pc = "topic", !.msg = m]
     /\ UNCHANGED <<handled, processed_messages_>>
  \/ /\ m \notin processed_messages_
     /\ handling' = [Idle EXCEPT !.pc = "mark", !.msg = m]
     /\ handled' = handled \cup {m}
     /\ UNCHANGED processed_messages_

(* Mutant of CallbackThrows: the message is marked before the callback. *)
CallbackThrows_Marked(m) ==
  /\ MayThrow /\ m \notin processed_messages_
  /\ processed_messages_' \in mark_message_processed(m)
  /\ UNCHANGED <<handled, handling>>

(* The callback throws: the message is neither marked nor committed. *)
CallbackThrows(m) ==
  /\ MayThrow /\ m \notin processed_messages_
  /\ UNCHANGED <<processed_messages_, handled, handling>>

(* The cluster sends the next message of a topic somebody subscribed to,   *)
(* as soon as the request is sent.                                         *)
Receive(t) ==
  /\ handling.pc = "idle" /\ is_connected /\ next[t] <= MaxSeq
  /\ <<t, Stream[t][next[t]]>> \in requested
  /\ next' = [next EXCEPT ![t] = @ + 1]
  /\ \/ Handled(<<t, next[t]>>) /\ UNCHANGED faults
     \/ CallbackThrows(<<t, next[t]>>) /\ Fault
  /\ UNCHANGED <<connection_state_, tableVars, commits_, call, requested,
                 active, server, calls>>

(* The cluster repeats a message: a replay, or a duplicate. *)
ReceiveAgain(t, n) ==
  /\ handling.pc = "idle" /\ is_connected /\ n < next[t]
  /\ Fault
  /\ Handled(<<t, n>>) \/ CallbackThrows(<<t, n>>)
  /\ UNCHANGED <<connection_state_, tableVars, commits_, call, requested, active,
                 clusterVars, calls>>

Mark ==
  /\ handling.pc = "mark"
  /\ processed_messages_' \in mark_message_processed(handling.msg)
  /\ handling' = [handling EXCEPT !.pc = "topic"]
  /\ UNCHANGED <<connection_state_, tableVars, commits_, call, historyVars,
                 clusterVars, faults, calls>>

ExtractTopic ==
  /\ handling.pc = "topic"
  /\ \E t \in extract_topic_from_message(handling.msg) :
        handling' = [handling EXCEPT !.pc = "ident", !.topic = t]
  /\ UNCHANGED <<connection_state_, tableVars, processed_messages_, commits_, call,
                 historyVars, clusterVars, faults, calls>>

LookUpIdentifier ==
  /\ handling.pc = "ident"
  /\ handling' = [handling EXCEPT !.pc = "commit", !.ident = StoredIdentifier(handling.topic)]
  /\ UNCHANGED <<connection_state_, tableVars, processed_messages_, commits_, call,
                 historyVars, clusterVars, faults, calls>>

AutoCommit ==
  /\ handling.pc = "commit"
  /\ CommitLocally(handling.topic, handling.ident, handling.msg)
  /\ handling' = [handling EXCEPT !.pc = "offset"]
  /\ UNCHANGED <<connection_state_, tableVars, processed_messages_, call,
                 historyVars, clusterVars, faults, calls>>

SendAutoCommit ==
  /\ handling.pc = "offset"
  /\ send_commit_offset(handling)
  /\ handling' = Idle
  /\ UNCHANGED <<connection_state_, tableVars, processed_messages_, commits_, call,
                 requested, handled, next, faults, calls>>

HandlingStep == Mark \/ ExtractTopic \/ LookUpIdentifier \/ AutoCommit \/ SendAutoCommit

-----------------------------------------------------------------------------
(* The rest of the commit interface, on the application thread. *)

(* commit_message for a message the application has handled itself, under  *)
(* the topic and the identifier it belongs to.                             *)
CommitManually(m) ==
  /\ Call
  /\ m \in handled \ Unlabelled
  /\ CommitLocally(m[1], Stream[m[1]][m[2]], m)
  /\ call' = [pc |-> "offset", topic |-> m[1], ident |-> Stream[m[1]][m[2]], msg |-> m]
  /\ UNCHANGED <<connection_state_, tableVars, processed_messages_, handling,
                 historyVars, clusterVars, faults>>

(* resume_from_last_commit when there is a commit; without one it is       *)
(* send_subscription_request(t, i, "LATEST"), that is SubscribeSend(t, i). *)
ResumeFromLastCommit(t, i) ==
  /\ Call /\ is_connected
  /\ commit_key(t, i) \in DOMAIN commits_
  /\ call' = [pc |-> "offset", topic |-> t, ident |-> i, msg |-> commits_[commit_key(t, i)]]
  /\ UNCHANGED <<connection_state_, tableVars, processed_messages_, commits_, handling,
                 historyVars, clusterVars, faults>>

SendOffset ==
  /\ call.pc = "offset"
  /\ send_commit_offset(call)
  /\ call' = Idle
  /\ UNCHANGED <<connection_state_, tableVars, processed_messages_, commits_, handling,
                 requested, handled, next, faults, calls>>

(* clear_commits erases the entry whose key is the bare topic.             *)
clear_commits(t) ==
  /\ call.pc = "idle"
  /\ commits_' = Drop(commits_, <<t>>)
  /\ UNCHANGED <<connection_state_, tableVars, processed_messages_, call, handling,
                 historyVars, clusterVars, faults, calls>>

clear_all_commits ==
  /\ call.pc = "idle"
  /\ commits_' = NoEntries
  /\ UNCHANGED <<connection_state_, tableVars, processed_messages_, call, handling,
                 historyVars, clusterVars, faults, calls>>

-----------------------------------------------------------------------------
(* Losing the connection, and connect(): resume_subscribed_topics runs     *)
(* before connection_state_ becomes CONNECTED.                             *)

ConnectionLost ==
  /\ connection_state_ = "CONNECTED"
  /\ Fault
  /\ connection_state_' = "DISCONNECTED"
  /\ active' = {}
  /\ UNCHANGED <<tableVars, processed_messages_, commits_, call, handling, requested,
                 handled, clusterVars, calls>>

ConnectBegins ==
  /\ connection_state_ = "DISCONNECTED"
  /\ connection_state_' = "CONNECTING"
  /\ UNCHANGED <<tableVars, processed_messages_, commits_, call, handling, historyVars,
                 clusterVars, faults, calls>>

(* The subscriptions to resume: the tracked ones, or one per topic.        *)
Resumable ==
  IF tracked_subscriptions_ # {} THEN tracked_subscriptions_
  ELSE {[topic |-> t, message_identifier |-> StoredIdentifier(t)] : t \in subscribed_topics_}

(* A subscription is resumed by its last commit offset or by a new request.*)
(* Both first ask is_connected(), which is still false here: nothing is    *)
(* sent, no table changes, and the exception of the request is caught.     *)
resume_subscribed_topics ==
  active' = active \cup {<<r.topic, r.message_identifier>> :
                           r \in {s \in Resumable : is_connected}}

ConnectEnds ==
  /\ connection_state_ = "CONNECTING"
  /\ resume_subscribed_topics
  /\ connection_state_' = "CONNECTED"
  /\ UNCHANGED <<tableVars, processed_messages_, commits_, call, handling, requested,
                 handled, clusterVars, faults, calls>>

Next ==
  \/ \E t \in Topics, i \in Identifiers \cup {Empty} :
        SubscribeSend(t, i) \/ UnsubscribeSend(t, i)
  \/ ApplicationStep
  \/ \E t \in Topics : Receive(t)
  \/ \E t \in Topics, n \in 1..MaxSeq : ReceiveAgain(t, n)
  \/ HandlingStep
  \/ \E m \in Messages : CommitManually(m)
  \/ \E t \in Topics, i \in AllIdentifiers : ResumeFromLastCommit(t, i)
  \/ SendOffset
  \/ \E t \in Topics : clear_commits(t)
  \/ clear_all_commits
  \/ ConnectionLost \/ ConnectBegins \/ ConnectEnds

Spec == Init /\ [][Next]_vars

-----------------------------------------------------------------------------
(* A commit offset that the cluster holds covers handled messages only:    *)
(* whatever was lost, repeated or evicted in between, replaying from the   *)
(* message after it skips no message the application has not handled       *)
(* ("At-least-once delivery semantics").                                   *)
CommitCoversHandled ==
  \A k \in DOMAIN server : k[1] \in Topics =>
     \A n \in 1..server[k][2] : <<k[1], n>> \in handled

(* A message may be committed under topic t: its own if it names one, else *)
(* one that the application subscribed to, or "default".                   *)
AttributableTo(m, t) ==
  IF m \in Unlabelled
  THEN t = Default \/ \E i \in AllIdentifiers : <<t, i>> \in requested
  ELSE t = m[1]

(* A commit, local or at the cluster, names a message that the application *)
(* has handled, and a message that names its topic is committed under that *)
(* topic: a message whose callback threw is not acknowledged, not even     *)
(* when it is repeated or was evicted meanwhile, and no change of the      *)
(* subscriptions while a message is handled commits it under another       *)
(* topic.  One that names no topic may be committed under any subscribed   *)
(* topic, which is all that extract_topic_from_message promises.           *)
CommitNamesHandled ==
  /\ \A k \in DOMAIN server : server[k] \in handled /\ AttributableTo(server[k], k[1])
  /\ \A k \in DOMAIN commits_ : commits_[k] \in handled /\ AttributableTo(commits_[k], k[1])

(* A commit is made under an identifier that the application subscribed to *)
(* the commit's topic with, or under the client id: whenever the message   *)
(* arrives while subscriptions are entered and erased, and whichever topic *)
(* it is attributed to, it is not committed under the identifier of        *)
(* another topic's subscription.                                           *)
CommitNamesSubscription ==
  \A k \in DOMAIN server \cup DOMAIN commits_ : k[2] = ClientId \/ k \in requested

(* processed_messages_ never holds more than its limit: what               *)
(* mark_message_processed removes outweighs what it adds.                  *)
DedupBounded == Cardinality(processed_messages_) <= DedupLimit

(* When no (un)subscription is under way, a topic is subscribed exactly    *)
(* when it has a stored identifier, and that identifier is one of those    *)
(* tracked for it, which reconnecting resumes.  (The converse fails: an    *)
(* unsubscription forgets the topic and untracks one identifier only.)     *)
TablesAgree ==
  call.pc = "idle" =>
    /\ subscribed_topics_ = DOMAIN subscription_message_identifiers_
    /\ \A t \in subscribed_topics_ :
         [topic |-> t, message_identifier |-> Effective(subscription_message_identifiers_[t])]
           \in tracked_subscriptions_

(* A connected client has requested all its tracked subscriptions on its   *)
(* present connection: one that reconnected has resumed them.              *)
ResumedOnReconnect ==
  (is_connected /\ call.pc = "idle") =>
     \A r \in tracked_subscriptions_ : <<r.topic, r.message_identifier>> \in active

=============================================================================
