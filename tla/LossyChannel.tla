---------------------------- MODULE LossyChannel ----------------------------
(***************************************************************************)
(* What a subscriber may rely on: messages arrive whole and in the order   *)
(* of publication.  A loss may skip messages, and each loss lets at most   *)
(* one thing through that was never published.                             *)
(***************************************************************************)
EXTENDS Naturals, Sequences

CONSTANTS Messages,      \* what is published
          Whole(_)       \* what a subscriber should get for a message

VARIABLES published,     \* everything published so far, in order
          delivered,     \* everything handed to the subscriber, in order
          upto,          \* how many of published are behind the subscriber
          credit         \* losses whose damage has not shown

vars == <<published, delivered, upto, credit>>

Init == /\ published = <<>>
        /\ delivered = <<>>
        /\ upto = 0
        /\ credit = 0

Publish(m) == /\ published' = Append(published, m)
              /\ UNCHANGED <<delivered, upto, credit>>

Deliver == /\ upto < Len(published)
           /\ delivered' = Append(delivered, Whole(published[upto + 1]))
           /\ upto' = upto + 1
           /\ UNCHANGED <<published, credit>>

Lose == /\ upto' \in upto .. Len(published)
        /\ credit' = credit + 1
        /\ UNCHANGED <<published, delivered>>

\* Something else than a message takes the place of one.
Garble == /\ credit > 0
          /\ upto < Len(published)
          /\ Len(delivered') = Len(delivered) + 1
          /\ \A i \in 1 .. Len(delivered) : delivered'[i] = delivered[i]
          /\ upto' = upto + 1
          /\ credit' = credit - 1
          /\ UNCHANGED published

Next == (\E m \in Messages : Publish(m)) \/ Deliver \/ Lose \/ Garble

Spec == Init /\ [][Next]_vars
=============================================================================
