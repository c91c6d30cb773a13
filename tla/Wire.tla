-------------------------------- MODULE Wire --------------------------------
(***************************************************************************)
(* The client at its two streams.  On egress, fragments of the cluster's   *)
(* frames are reassembled and parsed (handle_incoming_message, up to the   *)
(* ParseResult).  On ingress, the calls of ClusterClient build frames and  *)
(* offer them; the calls are made while the session is connected.          *)
(***************************************************************************)
EXTENDS FragmentReassembly, Frames, MessageParser

CONSTANTS Content,        \* what each of Messages says, as a record
          Term, Session,  \* the session's leadership term and id
          Topics, Ids, Payloads, Headers, Orders, Offsets
                          \* texts, orders and commits the calls are made with

Acked == INSTANCE Acknowledgment

\* What the calls take: std::strings, of any length.
ASSUME TextsAssumption ==
    /\ \A t \in Topics \cup Ids \cup Payloads \cup Headers : IsText(t)
    /\ \A o \in Orders : IsText(o.json) /\ IsText(o.id)
    /\ \A o \in Offsets : IsText(o.topic) /\ IsText(o.id) /\ IsText(o.identifier)

\* A text that a var-data field of the schema can hold.
Fits(s) == IsText(s) /\ s.len <= 65534

\* The first positive _sequence_number of a payload, outermost first, is n.
CarriesNumber(payload, n) ==
    LET at == IF payload \in DOMAIN Numbers THEN Numbers[payload] ELSE <<>>
        Positive(i) == i \in DOMAIN at /\ i <= 4 /\ at[i] > 0
    IN  \/ n = 0 /\ \A i \in DOMAIN at : ~Positive(i)
        \/ \E i \in DOMAIN at :
              Positive(i) /\ n = at[i] /\ \A j \in 1 .. i - 1 : ~Positive(j)

\* What the cluster can encode: a topic message of either format, an
\* acknowledgement, or a session event with a detail the parser will take.
ASSUME ContentAssumption ==
    \A m \in Messages :
        LET c == Content[m]
        IN  /\ c.kind \in {"topic", "ack", "event"}
            /\ c.kind # "event" => c.enveloped \in BOOLEAN
            /\ c.kind = "topic" =>
                  /\ c.block \in {8, 16}
                  /\ \A i \in 1 .. 5 : Fits(Texts(c)[i])
                  /\ CarriesNumber(c.payload, c.sequence)
            /\ c.kind = "ack" =>
                  /\ c.block \in {8, 32} /\ c.extra \in Nat
                  /\ Fits(c.id) /\ Fits(c.topic) /\ Fits(c.correlation)
                  /\ c.id.of # "glued"    \* the parser's name for bytes of no one text
            /\ c.kind = "event" => IsText(c.detail) /\ c.detail.len <= 10485760

VARIABLES results,        \* the ParseResults of delivered, in order
          sent            \* the last call on ingress: what it was given, the
                          \* frame it built, and what parse_message() makes of it
wireVars == <<vars, results, sent>>

-----------------------------------------------------------------------------
\* The cluster's frames (external: another program encodes them, with the
\* same schema).  A topic message of the old format has a block of 8.  An
\* acknowledgement has a block of 8 by that schema, but the comment in
\* decode_acknowledgment_with_sbe() has seen one of 32: what the further 24
\* bytes are is not known there, and here they are any 4-byte number and zeros.

Topic(m, block) ==
    LET n == HeaderLength + TM!computeLength(Lengths(Texts(m))).length
        f == WrapAndApply(NewBuffer(n), 0, n, block, 1, 1, 1)
        g == PutStrings(SetField(f, TM!timestamp, Now), TM!VarFields, Texts(m))
    IN  Resize(g.buffer, HeaderLength + encodedLength(g))

Ack(m) ==
    LET texts == <<m.id, m.topic, m.correlation>>
        n == HeaderLength + m.block - Acked!SBE_BLOCK_LENGTH
                 + Acked!computeLength(Lengths(texts)).length
        f == SetField(WrapAndApply(NewBuffer(n), 0, n, m.block, 2, 1, 1),
                      Acked!timestamp, Now)
        g == IF m.block = 32 THEN SetField(f, FixedField(8, 4), m.extra) ELSE f
    IN  PutStrings(g, Acked!VarFields, texts).buffer

Event(m) ==
    LET b == ClusterHeader(8 + 32 + 4 + m.detail.len, 32, 2)
        c == Store(Store(Store(b, 8, Number(m.correlation, 8)),
                         16, Number(m.session, 8)),
                   24, Number(m.term, 8))
        d == Store(Store(Store(c, 32, Number(m.leader, 4)),
                         36, Number(m.code, 4)),
                   40, Number(m.detail.len, 4))
    IN  IF m.detail.len = 0 THEN d ELSE Store(d, 44, m.detail)

\* What the cluster puts on the egress stream for a message.
EgressFrame(m) ==
    LET c == Content[m]
        bare == CASE c.kind = "topic" -> Topic(c, c.block)
                  [] c.kind = "ack" -> Ack(c)
                  [] c.kind = "event" -> Event(c)
    IN  IF c.kind # "event" /\ c.enveloped
        THEN Concat(SessionHeader(Term, Session), bare)
        ELSE bare

\* A frame takes as many fragments as its length asks for.
FragmentsOf(m, mtu) == (EgressFrame(m).size + mtu - 1) \div mtu

\* handle_incoming_message(): the parse of what the sink got.  Fragments that
\* make up no frame parse to anything at all or not at all.
Garbage == [Failed EXCEPT !.success = TRUE, !.message_type = Text("garbage", 1)]
Parsed(p) ==
    IF \E m \in Messages : p = Whole(m)
    THEN {parse_message(EgressFrame(CHOOSE m \in Messages : p = Whole(m)))}
    ELSE {Failed, Garbage}

Receive ==
    /\ onFragment
    /\ IF delivered' = delivered THEN results' = results
       ELSE \E r \in Parsed(Last(delivered')) : results' = Append(results, r)
    /\ UNCHANGED sent

\* The rest of the stream: the cluster and Aeron.
Stream ==
    /\ \/ \E m \in Messages : Publish(m)
       \/ \E p \in Places : \/ LoseImage(p[1], p[2])
                            \/ create_egress_subscription(p[1], p[2])
    /\ UNCHANGED <<results, sent>>

-----------------------------------------------------------------------------
\* Ingress.

\* What is sent, and what the parser makes of it.
Offer(call, given, frame) ==
    /\ sent' = [call |-> call, given |-> given, frame |-> frame,
                read |-> IF frame.ok THEN parse_message(frame.bytes) ELSE Failed]
    /\ UNCHANGED <<vars, results>>

\* generate_message_id("msg").
MessageId == Text("msg", 29)

\* SessionManager::publish_message().
Publication(call, topic, type, payload, headers) ==
    LET t == [topic |-> topic, type |-> type, uuid |-> MessageId,
              payload |-> payload, headers |-> headers]
    IN  Offer(call, t, Combined(Term, Session, create_topic_message(t)))

\* publish_message(), to default_topic, which may be anything;
\* publish_message_to_topic() refuses an empty topic.
publish_message(topic, payload, headers) ==
    Publication("message", topic, Text("CUSTOM", 6), payload, headers)
publish_message_to_topic(topic, payload, headers) ==
    topic.len > 0 /\ publish_message(topic, payload, headers)

\* publish_order() and publish_order_to_topic(): an order that does not
\* validate is refused; the headers are JSON made here.
publish_order(order, topic) ==
    /\ order.valid
    /\ Publication("order", topic,
                   IF order.status \in {"UPDATED", "CANCELLED"}
                   THEN Text("UPDATE_ORDER", 12) ELSE Text("CREATE_ORDER", 12),
                   order.json,
                   Text("order_headers", 58 + MessageId.len + order.id.len))
publish_order_to_topic(order, topic) ==
    topic.len > 0 /\ publish_order(order, topic)

\* Mutant: a subscription is published without headers.
send_subscription_request_Bare(topic, type) ==
    Publication("subscription", Text("_subscriptions", 14),
                Text(type, IF type = "SUBSCRIBE" THEN 9 ELSE 11),
                Text("subscription_json", 40 + topic.len), Empty)

\* send_subscription_request() and send_unsubscription_request(), as far as
\* the frame goes.
send_subscription_request(topic, type) ==
    Publication("subscription", Text("_subscriptions", 14),
                Text(type, IF type = "SUBSCRIBE" THEN 9 ELSE 11),
                Text("subscription_json", 40 + topic.len),
                Text("subscription_headers", 41 + MessageId.len))

\* ClusterClient::publish_topic(); offer_ingress() drops the frame.
PublishTopic(topic, payload, headers) ==
    LET t == [topic |-> topic, type |-> Text("CUSTOM", 6), uuid |-> Text("pub", 23),
              payload |-> payload, headers |-> headers]
    IN  Offer("topic", PublishTopicGiven(t), publish_topic(t))

\* SBEEncoder::encode_topic_message(), as tools/message_inspector.cpp uses it.
Encode(topic, payload, headers) ==
    LET t == [topic |-> topic, type |-> Text("CUSTOM", 6), uuid |-> MessageId,
              payload |-> payload, headers |-> headers]
    IN  Offer("encode", t, encode_topic_message(t, 0))

\* send_commit_request(): send_raw_message() adds no session header.
send_commit_request(topic, client) ==
    Offer("commit_request", CommitGiven(topic, client),
          build_commit_message(topic, client))

\* send_commit_offset().
send_commit_offset(offset) ==
    Offer(IF topic_to_id(offset.topic) = 0 THEN "commit" ELSE "lite",
          IF topic_to_id(offset.topic) = 0 THEN CommitOffsetGiven(offset) ELSE offset,
          Combined(Term, Session, build_commit_offset_message(offset)))

\* send_keepalive(), and the close and connect requests.
Keepalive == Offer("keepalive", <<>>, Frame(TRUE, KeepaliveBuffer(Term, Session)))
CloseRequest ==
    Offer("close", <<>>, Frame(TRUE, encode_session_close_request(Term, Session)))
ConnectRequest(channel) ==
    Offer("connect", channel,
          Frame(TRUE, encode_session_connect_request(Now, 102, channel, 1)))

\* One call is enough: its frame does not depend on earlier ones.
Call ==
    /\ sent.call = "none"
    /\ \/ \E t \in Topics, p \in Payloads, h \in Headers :
             \/ publish_message(t, p, h)
             \/ publish_message_to_topic(t, p, h)
             \/ PublishTopic(t, p, h)
             \/ Encode(t, p, h)
       \/ \E o \in Orders, t \in Topics :
             publish_order(o, t) \/ publish_order_to_topic(o, t)
       \/ \E t \in Topics, type \in {"SUBSCRIBE", "UNSUBSCRIBE"} :
             send_subscription_request(t, type)
       \/ \E t \in Topics, c \in Ids : send_commit_request(t, c)
       \/ \E o \in Offsets : send_commit_offset(o)
       \/ Keepalive
       \/ CloseRequest
       \/ \E c \in Ids : ConnectRequest(c)

WireInit == Init /\ results = <<>> /\ sent = [call |-> "none"]
WireNext == Receive \/ Stream \/ Call
WireSpec == WireInit /\ [][WireNext]_wireVars /\ WF_vars(onFragment)

-----------------------------------------------------------------------------
\* Where the scan for text finds the id of an acknowledgement: it needs three
\* characters, no printable byte at either end of it (the high byte of its
\* own length, the low byte of the topic's), and no text in front of it.
LooksLikeText(n) == \E i \in 0 .. 1 : \A j \in i .. i + 2 : IsPrintable(ByteOf(n, j))
Legible(c) ==
    /\ c.id.len >= 3
    /\ ~IsPrintable(ByteOf(c.id.len, 1))
    /\ ~IsPrintable(ByteOf(c.topic.len, 0))
    /\ ~(c.block = 32 /\ LooksLikeText(c.extra))

\* What a receiver reads from message m.
ReadAsSent(r, m) ==
    LET c == Content[m]
    IN  /\ r.success
        /\ c.kind = "topic" =>
              /\ <<r.message_type, r.message_id, r.payload, r.headers>>
                    = <<c.type, c.uuid, c.payload, c.headers>>
              /\ r.sequence_number = c.sequence
        /\ c.kind = "ack" =>
              /\ r.message_type.of = "Acknowledgment"
              /\ r.message_id = c.id <=> Legible(c)
        /\ c.kind = "event" =>
              <<r.correlation_id, r.session_id, r.leadership_term_id,
                r.leader_member_id, r.event_code, r.payload>>
                = <<c.correlation, c.session, c.term, c.leader, c.code, c.detail>>

\* Whatever its envelope, the age of its format, the number of its fragments
\* and the losses before it, the client reads from a topic message or a
\* session event what the cluster wrote: the two-byte and four-byte lengths,
\* the block length of the header and the order of parse_message()'s tests
\* agree.  An acknowledgement is always taken for one, with either block, but
\* its message id is the one sent if and only if Legible says so: otherwise
\* decode_acknowledgment_with_sbe() reports another string as the id.
ParsedAsSent ==
    \A i \in DOMAIN results :
        \A m \in Messages : delivered[i] = Whole(m) => ReadAsSent(results[i], m)

\* The texts of a frame and what was read from it, where it can be read.
SameTexts(r, t) == /\ r.message_type = t.type
                   /\ r.message_id = t.uuid
                   /\ r.payload = t.payload

\* The commit read back from a CommitOffsetLite frame behind its envelope.
ReadLite(b) ==
    LET f == Lite!wrapForDecode(Slice(b, 32), HeaderLength, 12, b.size - 32)
        id == GetString(f, Lite!messageId)
        identifier == GetString(id, Lite!messageIdentifier)
    IN  [ok |-> identifier.ok, sequence |-> GetField(f, Lite!sequence),
         topic |-> GetField(f, Lite!topicId), id |-> id.got,
         identifier |-> identifier.got]

\* A frame that can be read says what the caller said: nothing is taken from
\* a neighbouring field, cut off or left over, except that publish_topic()
\* and the commits keep only the first length % 65536 bytes of a text longer
\* than 65535, and that headers may be missing.
IngressGenuine ==
    /\ sent.call \in {"message", "order", "subscription", "topic", "encode",
                       "commit_request", "commit"} /\ sent.read.success =>
          /\ sent.given.payload.len <= 65535 => SameTexts(sent.read, sent.given)
          /\ sent.given.headers.len <= 65535 =>
                sent.read.headers \in {sent.given.headers, Empty}
    /\ sent.call = "lite" /\ sent.frame.ok =>
          ReadLite(sent.frame.bytes) =
              [ok |-> TRUE, sequence |-> sent.given.sequence,
               topic |-> topic_to_id(sent.given.topic), id |-> sent.given.id,
               identifier |-> sent.given.identifier]

\* Orders, subscriptions and commits reach the cluster readable: the eight
\* bytes create_topic_message() cuts off are never more than the headers
\* these calls make themselves, and commits do not lose any.
RequestsReadable ==
    sent.call \in {"order", "subscription", "commit", "commit_request"}
        /\ sent.frame.ok => sent.read.success

\* The length of a complete frame is what skipping its fields adds up to
\* (decodeLength), not only what writing them did; the keepalive buffer that
\* is updated in place is the one SBEEncoder would make; and no session frame
\* of the client can be taken for one of the cluster's.
FramesExact ==
    LET body == IF sent.call = "topic" THEN sent.frame.bytes
                ELSE Slice(sent.frame.bytes, 32)
        End(f) == [ok |-> f.ok, position |-> f.position]
    IN  /\ sent.call \in {"topic", "commit"} /\ sent.frame.ok =>
              End(TM!skip(TM!wrapForDecode(body, HeaderLength, 16, body.size)))
                  = [ok |-> TRUE, position |-> body.size]
        /\ sent.call = "lite" /\ sent.frame.ok =>
              End(Lite!skip(Lite!wrapForDecode(body, HeaderLength, 12, body.size)))
                  = [ok |-> TRUE, position |-> body.size]
        /\ sent.call = "keepalive" =>
              sent.frame.bytes = encode_session_keep_alive(Term, Session)
        /\ sent.call \in {"keepalive", "close", "connect"} => ~sent.read.success

\* A message published with publish_message() can be read back: the frame
\* ends where the comment on its resize() says, at its encoded length.
PublishedReadable == sent.call = "message" /\ sent.frame.ok => sent.read.success
=============================================================================
