------------------------------- MODULE MCWire -------------------------------
(* A small instance of Wire: messages of each kind, one of them old, two      *)
(* without an envelope, one that takes three fragments, and acknowledgements  *)
(* whose id the parser finds, finds with a byte of a length behind it, and    *)
(* overlooks for what is in front of it.                                      *)
EXTENDS Wire

Plain == Text("plain", 60)
Large == Text("large", 3000)
MCNumbers == Plain :> <<7, 5, 0, 0>> @@ Large :> <<0, 0, 0, 9>>

Note(block, enveloped, payload, sequence) ==
    [kind |-> "topic", block |-> block, enveloped |-> enveloped,
     topic |-> Text("orders", 6), type |-> Text("ORDER", 5), uuid |-> Text("uuid", 36),
     payload |-> payload, headers |-> Text("headers", 40), sequence |-> sequence]
AckOf(block, extra, topic, enveloped) ==
    [kind |-> "ack", block |-> block, extra |-> extra, enveloped |-> enveloped,
     id |-> Text("id", 29), topic |-> topic, correlation |-> Text("correlation", 12)]

MCContent ==
    [topic |-> Note(16, TRUE, Plain, 7), old |-> Note(8, FALSE, Empty, 0),
     large |-> Note(16, TRUE, Large, 9),
     ack |-> AckOf(32, 7, Text("orders", 6), TRUE),
     glued |-> AckOf(8, 0, Text("long_topic", 296), FALSE),
     hidden |-> AckOf(32, 65 + 256 * 66 + 65536 * 67, Text("orders", 6), TRUE),
     event |-> [kind |-> "event", correlation |-> 3, session |-> 11, term |-> 2,
                leader |-> 1, code |-> 2, detail |-> Text("endpoints", 50)]]
MCMessages == {"topic", "old", "large", "ack", "glued", "hidden", "event"}

\* Aeron's default MTU of 1408 bytes less the header of a data frame.
MCFragments == [topic |-> 1, old |-> 1, large |-> 3, ack |-> 1, glued |-> 1, hidden |-> 1,
                event |-> 1]
ASSUME MCFragmentsAssumption == \A m \in MCMessages : MCFragments[m] = FragmentsOf(m, 1376)

MCTopics == {Text("orders", 6), Empty}
MCIds == {Text("client", 12), Text("long_client", 500)}
MCPayloads == {Empty, Plain, Text("max", 65534), Text("over", 65535), Text("wrap", 65541)}
MCHeaders == {Empty, Text("{}", 2), Text("six", 6), Text("headers", 40), Text("wrap", 65541)}
MCOrders == {[valid |-> v, status |-> s, json |-> Text("order_json", 400), id |-> Text("o1", 2)] :
                 v \in BOOLEAN, s \in {"CREATED", "CANCELLED"}}
MCOffsets == {[topic |-> t, id |-> i, identifier |-> Text("ident", 8), sequence |-> 7] :
                 t \in {Text("orders", 6), Text("other", 5)},
                 i \in {Empty, Text("id", 36), Text("long_id", 1000), Text("over", 65535)}}
=============================================================================
