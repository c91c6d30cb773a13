------------------------- MODULE FragmentReassembly -------------------------
(***************************************************************************)
(* LocalFragmentReassembler of cluster_client.cpp, between the poll of the *)
(* egress subscription and handle_incoming_message().                      *)
(*                                                                         *)
(* The cluster publishes messages on the egress stream; Aeron cuts each    *)
(* into fragments and hands them over one at a time and in order, as long  *)
(* as the image lives.  When the image is lost, Aeron goes on with another *)
(* one that may start anywhere further on, in the middle of a message too; *)
(* nothing tells the reassembler.  Fragment i of message m is <<m, i>>.    *)
(***************************************************************************)
EXTENDS Naturals, Sequences

CONSTANTS Messages,       \* what the cluster may publish
          Fragments,      \* how many fragments each message takes
          MaxPublished,   \* bound on the length of the stream
          MaxLosses       \* bound on the number of images lost

ASSUME FragmentsAssumption == Fragments \in [Messages -> Nat \ {0}]
ASSUME BoundsAssumption == MaxPublished \in Nat /\ MaxLosses \in Nat

VARIABLES published,      \* the egress stream
          message,        \* which message of the stream the next fragment is of,
          fragment,       \* and which fragment of it
          acc_,           \* the reassembler's buffer
          delivered,      \* what sink_ was called with, in order
          losses,         \* images lost so far
          garbled         \* history: deliveries that are no message's fragments

streamVars == <<published, message, fragment>>
vars == <<streamVars, acc_, delivered, losses, garbled>>

\* All fragments of a message, in order, and the first n of them.
Pieces(m, n) == [i \in 1 .. n |-> <<m, i>>]
Whole(m) == Pieces(m, Fragments[m])

Init == /\ published = <<>>
        /\ message = 1
        /\ fragment = 1
        /\ acc_ = <<>>
        /\ delivered = <<>>
        /\ losses = 0
        /\ garbled = 0

\* The cluster publishes a message on the egress stream.
Publish(m) ==
    /\ Len(published) < MaxPublished
    /\ published' = Append(published, m)
    /\ UNCHANGED <<message, fragment, acc_, delivered, losses, garbled>>

\* Mutant: one mask tests both flags, so that a last fragment begins a message.
BEGIN_FLAG_EitherBit == fragment \in {1, Fragments[published[message]]}

\* The message whose fragment is next, and the header flags of that fragment.
Current == published[message]
BEGIN_FLAG == fragment = 1
END_FLAG == fragment = Fragments[Current]

\* Aeron's subscriber position moves behind the fragment.
Advance ==
    /\ message' = IF END_FLAG THEN message + 1 ELSE message
    /\ fragment' = IF END_FLAG THEN 1 ELSE fragment + 1

\* sink_ is called with the pieces p.
Sink(p) == /\ delivered' = Append(delivered, p)
           /\ garbled' = IF p = Whole(Current) THEN garbled ELSE garbled + 1

\* acc_ after the fragment has been appended; a first fragment clears it.
Appended == Append(IF BEGIN_FLAG THEN <<>> ELSE acc_, <<Current, fragment>>)

\* Mutant: the fast path hands the message over and keeps a copy for later.
OnWhole_Twice == /\ BEGIN_FLAG /\ END_FLAG
                 /\ delivered' = delivered \o <<Whole(Current), Whole(Current)>>
                 /\ UNCHANGED <<acc_, garbled>>

\* onFragment(): the only fragment of a message goes straight to the sink and
\* leaves acc_ alone.
OnWhole == /\ BEGIN_FLAG /\ END_FLAG
           /\ Sink(<<<<Current, fragment>>>>)
           /\ UNCHANGED acc_

\* onFragment(): a first or middle fragment is kept.
OnPart == /\ ~END_FLAG
          /\ acc_' = Appended
          /\ UNCHANGED <<delivered, garbled>>

\* Mutants: the buffer is not cleared behind the last fragment; or it is, but
\* nothing is handed over.
OnLast_Keeps == /\ END_FLAG /\ ~BEGIN_FLAG
                /\ Sink(Appended)
                /\ acc_' = Appended
OnLast_Drops == /\ END_FLAG /\ ~BEGIN_FLAG
                /\ acc_' = <<>>
                /\ UNCHANGED <<delivered, garbled>>

\* onFragment(): a last fragment completes whatever has been kept.
OnLast == /\ END_FLAG /\ ~BEGIN_FLAG
          /\ Sink(Appended)
          /\ acc_' = <<>>

onFragment ==
    /\ message <= Len(published)
    /\ OnWhole \/ OnPart \/ OnLast
    /\ Advance
    /\ UNCHANGED <<published, losses>>

\* The places further on in the stream where another image may start.
Further(k, i) ==
    \/ k = message /\ k <= Len(published) /\ i \in fragment .. Fragments[published[k]]
    \/ k \in message + 1 .. Len(published) /\ i \in 1 .. Fragments[published[k]]
    \/ k = Len(published) + 1 /\ k > message /\ i = 1

\* The image is lost and polling goes on with another one.
LoseImage(k, i) ==
    /\ losses < MaxLosses
    /\ Further(k, i)
    /\ message' = k
    /\ fragment' = i
    /\ losses' = losses + 1
    /\ UNCHANGED <<published, acc_, delivered, garbled>>

\* connect() makes another subscription and another reassembler.
create_egress_subscription(k, i) ==
    /\ losses < MaxLosses
    /\ Further(k, i)
    /\ message' = k
    /\ fragment' = i
    /\ acc_' = <<>>
    /\ losses' = losses + 1
    /\ UNCHANGED <<published, delivered, garbled>>

\* Where a stream of at most MaxPublished messages has fragments.
Places == (1 .. MaxPublished + 1) \X
              (1 .. IF Messages = {} THEN 1
                    ELSE CHOOSE n \in {Fragments[m] : m \in Messages} :
                             \A m \in Messages : Fragments[m] <= n)

Next == \/ \E m \in Messages : Publish(m)
        \/ onFragment
        \/ \E p \in Places : LoseImage(p[1], p[2]) \/ create_egress_subscription(p[1], p[2])

Spec == Init /\ [][Next]_vars

\* The polling loop calls poll as long as the client is connected, and poll
\* hands over what has arrived.
FairSpec == Spec /\ WF_vars(onFragment)

-----------------------------------------------------------------------------
\* The fragments that acc_ may hold between two calls: never a last one.
Unfinished == {p \in Messages \X Nat : p[2] < Fragments[p[1]]}

TypeOK == /\ published \in Seq(Messages)
          /\ message \in 1 .. Len(published) + 1
          /\ fragment \in Nat \ {0}
          /\ message <= Len(published) => fragment <= Fragments[Current]
          /\ message > Len(published) => fragment = 1
          /\ acc_ \in Seq(Unfinished)
          /\ delivered \in Seq(Seq(Messages \X Nat))
          /\ losses \in 0 .. MaxLosses
          /\ garbled \in Nat

\* A delivery that is not a published message, put together from fragments of
\* different messages or of the end of one, is the result of a lost image, and
\* no loss causes two of them: one loss ends up in acc_ at most once before a
\* first fragment clears it.
GarbledBounded == garbled <= losses

\* The reassembler implements a channel that delivers whole messages in order
\* and pays for each loss with at most one wrong delivery.
Channel == INSTANCE LossyChannel
             WITH upto <- message - 1, credit <- losses - garbled
ChannelSpec == Channel!Spec

\* The beginning of the k-th message is still to come; it has been delivered.
Ahead(k) == k <= Len(published) /\ (message < k \/ (message = k /\ fragment = 1))
Got(k) == k <= Len(published)
              /\ \E i \in 1 .. Len(delivered) : delivered[i] = Whole(published[k])

\* Losses do no lasting harm: however many there were, and whatever they left
\* in acc_, a message whose beginning is still to come is delivered whole,
\* unless another loss skips it.
DeliveredWhole ==
    \A k \in 1 .. MaxPublished, n \in 0 .. MaxLosses :
        (Ahead(k) /\ losses = n) ~> (losses > n \/ Got(k))
=============================================================================
