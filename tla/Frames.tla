------------------------------- MODULE Frames -------------------------------
(***************************************************************************)
(* The frames the client builds for the cluster: the session frames of     *)
(* session_manager.cpp and SBEEncoder, the topic messages, and the commits *)
(* of commit_manager.cpp.  A frame is [ok, bytes]: ok is FALSE where the   *)
(* code throws instead of returning a buffer.  A topic message is given as *)
(* a record of its five texts.                                             *)
(***************************************************************************)
EXTENDS MessageHeader

CONSTANT Now       \* what the clock reads: timestamps are not told apart
ASSUME NowAssumption == Now \in Nat \ {0}

TM == INSTANCE TopicMessage
Lite == INSTANCE CommitOffsetLite

Frame(ok, bytes) == [ok |-> ok, bytes |-> IF ok THEN bytes ELSE NewBuffer(0)]

\* The texts of a topic message in the order of its fields, and their lengths.
Texts(t) == <<t.topic, t.type, t.uuid, t.payload, t.headers>>
Lengths(strings) == [i \in DOMAIN strings |-> strings[i].len]

\* write_uint16_le four times: the header of a frame written by hand.
ClusterHeader(size, block, template) ==
    Apply(wrap(NewBuffer(size), 0, size), block, template, 111, 8).buffer

-----------------------------------------------------------------------------
\* Session frames.

\* create_session_message_header_buffer(), then update_session_header().
SessionHeader(term, session) ==
    Store(Store(Store(ClusterHeader(32, 24, 1), 8, Number(term, 8)),
                16, Number(session, 8)),
          24, Number(0, 8))

\* Mutant: the session id and the leadership term change places.
KeepaliveBuffer_Swapped(term, session) ==
    Store(Store(ClusterHeader(24, 16, 5), 16, Number(term, 8)),
          8, Number(session, 8))

\* create_keepalive_buffer(), then update_keepalive_buffer().
KeepaliveBuffer(term, session) ==
    Store(Store(ClusterHeader(24, 16, 5), 8, Number(term, 8)),
          16, Number(session, 8))

encode_session_keep_alive(term, session) ==
    Store(Store(ClusterHeader(8 + 16, 16, 5), 8, Number(term, 8)),
          16, Number(session, 8))

encode_session_close_request(term, session) ==
    Store(Store(ClusterHeader(8 + 16, 16, 4), 8, Number(term, 8)),
          16, Number(session, 8))

\* The response channel is preceded by a four-byte length.
encode_session_connect_request(correlation, stream, channel, protocol) ==
    LET b == ClusterHeader(8 + 16 + 4 + channel.len, 16, 3)
        c == Store(Store(Store(b, 8, Number(correlation, 8)),
                         16, Number(stream, 4)),
                   20, Number(protocol, 4))
        d == Store(c, 24, Number(channel.len, 4))
    IN  IF channel.len = 0 THEN d ELSE Store(d, 28, channel)

-----------------------------------------------------------------------------
\* Topic messages.

\* create_topic_message() of the session manager.  The sequence number is left
\* to the zero-filled buffer.  resize() cuts the buffer to encodedLength(),
\* which does not count the message header.
create_topic_message(t) ==
    LET c == TM!computeLength(Lengths(Texts(t)))
        n == TM!sbeBlockAndHeaderLength + c.length
        f == SetField(TM!wrapAndApplyHeader(NewBuffer(n), 0, n), TM!timestamp, Now)
        g == PutStrings(f, TM!VarFields, Texts(t))
    IN  Frame(c.ok /\ g.ok, Resize(g.buffer, encodedLength(g)))

\* SBEEncoder::encode_topic_message(): a timestamp of 0 asks for the time.
encode_topic_message(t, stamp) ==
    LET c == TM!computeLength(Lengths(Texts(t)))
        n == TM!sbeBlockAndHeaderLength + c.length
        f == SetField(TM!wrapAndApplyHeader(NewBuffer(n), 0, n),
                      TM!timestamp, IF stamp = 0 THEN Now ELSE stamp)
        g == PutStrings(SetField(f, TM!sequenceNumber, 0),
                    TM!VarFields, Texts(t))
    IN  Frame(c.ok /\ g.ok, Resize(g.buffer, encodedLength(g)))

\* The steps publish_topic() and the two commit builders share: a buffer of a
\* size fixed beforehand, a header by hand, a limit eight bytes short of the
\* buffer, raw lengths, and a resize that counts the header.
TopicFrame(t, size) ==
    LET h == Apply(wrap(NewBuffer(size), 0, size), 16, 1, 1, 1)
        f == TM!wrapForEncode(h.buffer, HeaderLength, size - HeaderLength)
        s == SetField(SetField(f, TM!timestamp, Now), TM!sequenceNumber, 0)
        g == PutRaws(s, TM!VarFields, Texts(t))
    IN  Frame(g.ok, Resize(g.buffer, HeaderLength + encodedLength(g)))

\* ClusterClient::publish_topic(): "{}" stands in for empty headers.
DefaultHeaders(s) == IF s.len = 0 THEN Text("{}", 2) ELSE s
PublishTopicGiven(t) == [t EXCEPT !.headers = DefaultHeaders(@)]
publish_topic(t) ==
    LET u == PublishTopicGiven(t)
        texts == Texts(u)
    IN  TopicFrame(u, 8 + 8 + texts[1].len + texts[2].len + texts[3].len
                        + texts[4].len + texts[5].len + 128)

-----------------------------------------------------------------------------
\* Commits.  The JSON texts have the length their punctuation adds up to, with
\* a time of 19 digits and a sequence number of one.

topic_to_id(topic) ==
    CASE topic.of = "order_request_topic" -> 1
      [] topic.of = "order_notification_topic" -> 2
      [] topic.of = "orders" -> 3
      [] topic.of = "order_status_request_topic" -> 4
      [] OTHER -> 0

CommitTexts(type, uuid, payload) ==
    [topic |-> Text("_subscriptions", 14), type |-> type, uuid |-> uuid,
     payload |-> payload, headers |-> Text("{}", 2)]

\* What build_commit_message() puts into its frame, and the frame.
CommitGiven(topic, client) ==
    CommitTexts(Text("COMMIT", 6), Text("commit_uuid", 27 + client.len),
                Text("commit_json", 45 + topic.len + client.len))
build_commit_message(topic, client) ==
    TopicFrame(CommitGiven(topic, client), 8 + 16 + 512)

\* The JSON form of build_commit_offset_message(), for a topic without an id.
CommitOffsetGiven(offset) ==
    CommitTexts(Text("COMMIT_OFFSET", 13),
                Text("commit_offset_uuid", 34 + offset.identifier.len),
                Text("commit_offset_json", 134 + offset.topic.len
                       + offset.id.len + offset.identifier.len))

\* Mutant: the identifier is written before the message id.
build_commit_offset_message_Swapped(offset) ==
    LET texts == <<offset.identifier, offset.id>>
        n == HeaderLength + Lite!computeLength(Lengths(texts)).length
        f == SetField(SetField(Lite!wrapAndApplyHeader(NewBuffer(n), 0, n),
                               Lite!topicId, topic_to_id(offset.topic)),
                      Lite!sequence, offset.sequence)
        g == PutRaws(f, Lite!VarFields, texts)
    IN  IF topic_to_id(offset.topic) # 0
        THEN Frame(g.ok, Resize(g.buffer, HeaderLength + encodedLength(g)))
        ELSE TopicFrame(CommitOffsetGiven(offset), 8 + 16 + 1024)

\* build_commit_offset_message(): CommitOffsetLite for a topic with an id.
build_commit_offset_message(offset) ==
    LET texts == <<offset.id, offset.identifier>>
        c == Lite!computeLength(Lengths(texts))
        n == HeaderLength + c.length
        f == SetField(SetField(Lite!wrapAndApplyHeader(NewBuffer(n), 0, n),
                               Lite!topicId, topic_to_id(offset.topic)),
                      Lite!sequence, offset.sequence)
        g == PutRaws(f, Lite!VarFields, texts)
    IN  IF topic_to_id(offset.topic) # 0
        THEN Frame(c.ok /\ g.ok, Resize(g.buffer, HeaderLength + encodedLength(g)))
        ELSE TopicFrame(CommitOffsetGiven(offset), 8 + 16 + 1024)

\* send_combined_message(): the session header in front of the message.
Combined(term, session, frame) ==
    [frame EXCEPT !.bytes = Concat(SessionHeader(term, session), @)]
=============================================================================
