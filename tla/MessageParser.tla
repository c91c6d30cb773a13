--------------------------- MODULE MessageParser ---------------------------
(***************************************************************************)
(* MessageParser and SBEDecoder of sbe_encoder.cpp: from the bytes of one  *)
(* reassembled message to a ParseResult.  Texts are printable.             *)
(***************************************************************************)
EXTENDS MessageHeader, SequencesExt

CONSTANT Numbers
    \* The JSON of a payload, as far as the parser looks: by payload, the
    \* _sequence_number at the top, in message, in message.message and in
    \* message.message.message (0: none).  Other payloads have none.
ASSUME NumbersAssumption == \A p \in DOMAIN Numbers : Numbers[p] \in Seq(Nat)

TopicMsg == INSTANCE TopicMessage

CLUSTER_SCHEMA_ID == 111
TOPIC_SCHEMA_ID == 1
SESSION_EVENT_TEMPLATE_ID == 2
TOPIC_MESSAGE_TEMPLATE_ID == 1
ACKNOWLEDGMENT_TEMPLATE_ID == 2

\* A default-constructed ParseResult with an error message.
Failed == [success |-> FALSE, message_type |-> Empty, message_id |-> Empty,
           payload |-> Empty, headers |-> Empty, timestamp |-> 0,
           sequence_number |-> 0, correlation_id |-> 0, session_id |-> 0,
           leader_member_id |-> 0, leadership_term_id |-> 0, event_code |-> 0]

\* decode_message_header(): a copy of the first eight bytes, if there are.
Header(b) == Read(wrap(b, 0, b.size))
HasHeader(b) == b.size >= HeaderLength

\* Mutant: an acknowledgement is no topic message.
is_topic_message_Strict(h) ==
    h.template_id = TOPIC_MESSAGE_TEMPLATE_ID
        /\ h.schema_id \in {TOPIC_SCHEMA_ID, CLUSTER_SCHEMA_ID}

\* The predicates of ParseResult on a result that has only its header fields.
is_session_event(h) == /\ h.template_id = SESSION_EVENT_TEMPLATE_ID
                       /\ h.schema_id = CLUSTER_SCHEMA_ID
is_topic_message(h) ==
    \/ h.template_id = TOPIC_MESSAGE_TEMPLATE_ID /\ h.schema_id = TOPIC_SCHEMA_ID
    \/ h.template_id = TOPIC_MESSAGE_TEMPLATE_ID /\ h.schema_id = CLUSTER_SCHEMA_ID
    \/ h.template_id = SESSION_EVENT_TEMPLATE_ID /\ h.schema_id = TOPIC_SCHEMA_ID
is_acknowledgment(h) == /\ h.template_id = ACKNOWLEDGMENT_TEMPLATE_ID
                        /\ h.schema_id = TOPIC_SCHEMA_ID

\* validate_header().
validate_header(h, template, schema) ==
    h.template_id = template /\ h.schema_id = schema

-----------------------------------------------------------------------------
\* extract_variable_string(): a four-byte length and a text at offset from of
\* the last remaining bytes of b.  next is 0 if nothing was extracted.  The
\* length is compared with all that remained, not with what is left behind
\* the offset.
extract_variable_string(b, offset, remaining) ==
    LET base == b.size - remaining
        n == Load(b, base + offset, 4).val
    IN  IF offset + 4 > remaining \/ n > remaining - 4 \/ n > 10485760
        THEN [next |-> 0, text |-> Empty]
        ELSE [next |-> offset + 4 + n,
              text |-> IF n = 0 THEN Empty ELSE Load(b, base + offset + 4, n)]

\* decode_session_event() and parse_session_event().
parse_session_event(b) ==
    LET remaining == b.size - (HeaderLength + 32)
        detail == IF remaining > 0 THEN extract_variable_string(b, 0, remaining).text
                  ELSE Empty
    IN  IF remaining < 0 \/ ~validate_header(Header(b), 2, 111) THEN Failed
        ELSE [Failed EXCEPT
                !.success = TRUE,
                !.message_type = Text("SessionEvent", 12),
                !.correlation_id = Load(b, 8, 8).val,
                !.session_id = Load(b, 16, 8).val,
                !.leadership_term_id = Load(b, 24, 8).val,
                !.leader_member_id = Load(b, 32, 4).val,
                !.event_code = Load(b, 36, 4).val,
                !.payload = detail]

\* decode_acknowledgment() and parse_acknowledgment().
parse_acknowledgment(b) ==
    LET remaining == b.size - (HeaderLength + 8)
        id == extract_variable_string(b, 0, remaining)
        status == extract_variable_string(b, id.next, remaining)
        error == IF status.next < remaining
                 THEN extract_variable_string(b, status.next, remaining).text
                 ELSE Empty
    IN  IF \/ remaining < 0
           \/ ~validate_header(Header(b), 2, 1)
           \/ id.next = 0
           \/ status.next = 0
        THEN Failed
        ELSE [Failed EXCEPT !.success = TRUE,
                            !.message_type = Text("Acknowledgment", 14),
                            !.message_id = id.text,
                            !.payload = status.text,
                            !.headers = error,
                            !.timestamp = Load(b, 8, 8).val]

-----------------------------------------------------------------------------
\* decode_acknowledgment_with_sbe(): it reads no length, it looks for runs of
\* at least three printable bytes from byte 16 on.  A length whose low byte is
\* printable sticks to the run in front of it.

IsPrintable(byte) == byte \in 32 .. 126

\* Byte i of a little-endian number.
ByteOf(n, i) == (n \div 256^i) % 256

\* Where the printable bytes are: every byte of a text is one.
PrintableBytes(b) ==
    {p \in 16 .. b.size - 1 :
        \E o \in DOMAIN b.at :
            /\ o <= p /\ p < o + b.at[o].len
            /\ b.at[o].of = "number" => IsPrintable(ByteOf(b.at[o].val, p - o))}

\* The first and the last byte of each run that is long enough.
Runs(b) ==
    LET printable == PrintableBytes(b)
        first == {p \in printable : p - 1 \notin printable}
        last == {p \in printable : p + 1 \notin printable}
    IN  {r \in first \X last :
            r[1] + 2 <= r[2] /\ \A p \in r[1] .. r[2] : p \in printable}

\* A run of one text is that text; of more than that, another text.
RunText(b, r) ==
    LET n == r[2] - r[1] + 1
    IN  IF r[1] \in DOMAIN b.at /\ b.at[r[1]].of # "number" /\ b.at[r[1]].len = n
        THEN b.at[r[1]] ELSE Text("glued", n)

\* extracted_strings: the first of the runs, or the default, and the others.
FirstRun(runs) == CHOOSE r \in runs : \A q \in runs : r[1] <= q[1]
FirstString(b, runs, default) ==
    IF runs = {} THEN default ELSE RunText(b, FirstRun(runs))
Others(runs) == {r \in runs : \E q \in runs : q[1] < r[1]}

decode_acknowledgment_with_sbe(b) ==
    LET runs == Runs(b)
    IN  IF \/ ~HasHeader(b)
           \/ ~validate_header(Header(b), 2, 1)
           \/ b.size < 8 + 8
        THEN Failed
        ELSE [Failed EXCEPT
                !.success = TRUE,
                !.message_type = Text("Acknowledgment", 14),
                !.timestamp = Load(b, 8, 8).val,
                !.message_id = FirstString(b, runs, Text("ack_timestamp", 23)),
                !.payload = FirstString(b, Others(runs), Text("SUCCESS", 7)),
                !.headers = FirstString(b, Others(Others(runs)), Empty)]

-----------------------------------------------------------------------------
\* decode_topic_message_with_sbe().

\* The first place, outermost first, where _sequence_number is positive.
sequence_number(payload) ==
    LET at == IF payload \in DOMAIN Numbers THEN Numbers[payload] ELSE <<>>
        found == {i \in DOMAIN at : i <= 4 /\ at[i] > 0}
    IN  IF found = {} THEN 0 ELSE at[Min(found)]

\* The block is as long as the header says.  Topic, type, uuid and payload
\* must be readable; headers that are not are taken for empty.
decode_topic_message_with_sbe(b) ==
    LET h == Header(b)
        f == TopicMsg!wrapForDecode(b, HeaderLength, h.block_length, b.size)
        read == GetStrings(f, TopicMsg!VarFields)
    IN  IF \/ ~HasHeader(b)
           \/ ~validate_header(h, TopicMsg!SBE_TEMPLATE_ID, TopicMsg!SBE_SCHEMA_ID)
           \/ ~read[4].ok
        THEN Failed
        ELSE [Failed EXCEPT !.success = TRUE,
                            !.message_type = read[2].got,
                            !.message_id = read[3].got,
                            !.payload = read[4].got,
                            !.timestamp = GetField(f, TopicMsg!timestamp),
                            !.sequence_number = sequence_number(read[4].got),
                            !.headers = IF read[5].ok THEN read[5].got ELSE Empty]

\* parse_topic_message(): a message of the cluster's schema is an envelope.
DecodeDirect(b) ==
    LET h == Header(b)
    IN  CASE h.schema_id = 1 /\ h.template_id = 1 -> decode_topic_message_with_sbe(b)
          [] h.schema_id = 1 /\ h.template_id = 2 -> decode_acknowledgment_with_sbe(b)
          [] OTHER -> Failed
parse_topic_message(b) ==
    LET envelope == HeaderLength + Header(b).block_length
    IN  IF ~HasHeader(b) THEN Failed
        ELSE IF Header(b).schema_id # CLUSTER_SCHEMA_ID THEN DecodeDirect(b)
        ELSE IF b.size < envelope + HeaderLength THEN Failed
        ELSE DecodeDirect(Slice(b, envelope))

\* parse_message().  The last branch is never taken: an acknowledgement's
\* header passes is_topic_message().
parse_message(b) ==
    LET h == Header(b)
    IN  CASE ~HasHeader(b) -> Failed
          [] HasHeader(b) /\ is_session_event(h) -> parse_session_event(b)
          [] HasHeader(b) /\ ~is_session_event(h) /\ is_topic_message(h) ->
                 parse_topic_message(b)
          [] HasHeader(b) /\ ~is_session_event(h) /\ ~is_topic_message(h)
                 /\ is_acknowledgment(h) -> parse_acknowledgment(b)
          [] OTHER -> Failed
=============================================================================
