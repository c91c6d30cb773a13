----------------------------- MODULE WireProofs -----------------------------
(***************************************************************************)
(* Proofs about Wire and the reassembler it extends, for every set of      *)
(* messages and of texts, of every length.                                 *)
(*                                                                         *)
(* First FragmentReassembly alone: its types, the bound on wrong           *)
(* deliveries, and that it implements LossyChannel.                        *)
(*                                                                         *)
(* Then the bytes.  Frames are followed through the buffers as cells: a    *)
(* text that is put leaves a length and itself behind (AfterPut, Filled),  *)
(* every call that sends leaves a buffer with its label and its texts in   *)
(* order (Body, Entire, CutTopic), and what is read from such a buffer is  *)
(* what was put (AfterGet, Passed, TopicRead), bare or behind the session  *)
(* header.  The theorems on WireSpec follow from one lemma per call        *)
(* (Proper) and one per kind of message of the cluster (EgressRead).       *)
(***************************************************************************)
EXTENDS Wire, WellFoundedInduction, TLAPS

-----------------------------------------------------------------------------
\* In a message that has been begun, acc_ holds exactly the fragments before
\* the next one, unless a loss has put something else there.
Sound == fragment > 1 => acc_ = Pieces(Current, fragment - 1)

\* A wrong delivery that is still to come counts as one: when acc_ is not
\* sound, a loss is left that no wrong delivery has used up.
Paid == /\ garbled <= losses
        /\ ~Sound => garbled < losses

\* The inductive invariant.
IInv == TypeOK /\ Paid

\* Sequences, for any set of elements.
LEMMA EmptySeq == ASSUME NEW S PROVE <<>> \in Seq(S)
OBVIOUS

LEMMA OneSeq == ASSUME NEW S, NEW e \in S PROVE <<e>> \in Seq(S)
OBVIOUS

LEMMA AppendSeq ==
    ASSUME NEW S, NEW s \in Seq(S), NEW e \in S
    PROVE  /\ Append(s, e) \in Seq(S)
           /\ Len(Append(s, e)) = Len(s) + 1
           /\ \A j \in 1 .. Len(s) : Append(s, e)[j] = s[j]
           /\ Append(s, e)[Len(s) + 1] = e
OBVIOUS

\* The types of pieces and of the sequences of them.
Piece == Messages \X Nat
Assembly == Seq(Piece)

\* What acc_ may hold can be delivered.
LEMMA KeptAssembly == ASSUME NEW s \in Seq(Unfinished) PROVE s \in Assembly
BY DEF Unfinished, Assembly, Piece

\* One more fragment extends the fragments collected so far.
LEMMA PiecesAppend ==
    ASSUME NEW m, NEW n \in Nat
    PROVE  Append(Pieces(m, n), <<m, n + 1>>) = Pieces(m, n + 1)
BY DEF Pieces

\* The first fragment, behind nothing.
LEMMA PiecesOne == ASSUME NEW m PROVE Append(<<>>, <<m, 1>>) = Pieces(m, 1)
BY DEF Pieces

LEMMA InitIInv == Init => IInv
BY FragmentsAssumption, BoundsAssumption DEF Init, IInv, TypeOK, Paid, Sound, Current

\* What a step of onFragment may rely on.
LEMMA AtFragment ==
    ASSUME TypeOK, message <= Len(published)
    PROVE  /\ Current \in Messages
           /\ Fragments[Current] \in Nat \ {0}
           /\ fragment \in 1 .. Fragments[Current]
           /\ message \in 1 .. Len(published)
BY FragmentsAssumption DEF TypeOK, Current

\* onFragment preserves the types.
LEMMA OnFragmentTypes == TypeOK /\ onFragment => TypeOK'
<1> SUFFICES ASSUME TypeOK, onFragment PROVE TypeOK'
    OBVIOUS
<1>1. /\ Current \in Messages
      /\ Fragments[Current] \in Nat \ {0}
      /\ fragment \in 1 .. Fragments[Current]
      /\ message \in 1 .. Len(published)
    BY AtFragment DEF onFragment
<1>2. published' = published /\ losses' = losses
    BY DEF onFragment
<1>0. acc_ \in Seq(Unfinished)
    BY DEF TypeOK
<1>3. acc_ \in Assembly /\ delivered \in Seq(Assembly) /\ garbled \in Nat
    BY <1>0, KeptAssembly DEF TypeOK, Assembly, Piece
<1>4. <<Current, fragment>> \in Piece
    BY <1>1 DEF Piece
<1>5. Appended \in Assembly /\ <<<<Current, fragment>>>> \in Assembly
    BY <1>3, <1>4, EmptySeq, OneSeq, AppendSeq DEF Appended, Assembly
<1>6. acc_' \in Seq(Unfinished) /\ delivered' \in Seq(Assembly) /\ garbled' \in Nat
  <2>1. CASE OnWhole
      BY <2>1, <1>0, <1>3, <1>5, AppendSeq DEF OnWhole, Sink
  <2>2. CASE OnPart
    <3>1. <<Current, fragment>> \in Unfinished
        BY <2>2, <1>1 DEF OnPart, END_FLAG, Unfinished
    <3>2. Appended \in Seq(Unfinished)
        BY <3>1, <1>0, EmptySeq, AppendSeq DEF Appended
    <3> QED BY <2>2, <3>2, <1>3 DEF OnPart
  <2>3. CASE OnLast
    <3>1. acc_' \in Seq(Unfinished)
        BY <2>3, EmptySeq DEF OnLast
    <3> QED BY <2>3, <3>1, <1>3, <1>5, AppendSeq DEF OnLast, Sink
  <2> QED BY <2>1, <2>2, <2>3 DEF onFragment
<1>7. /\ message' \in 1 .. Len(published) + 1
      /\ fragment' \in Nat \ {0}
    BY <1>1 DEF onFragment, Advance, END_FLAG
<1>8. message' <= Len(published) => fragment' <= Fragments[published[message']]
  <2>1. CASE END_FLAG
      <3>1. message' = message + 1 /\ fragment' = 1
          BY <2>1 DEF onFragment, Advance
      <3>2. published \in Seq(Messages)
          BY DEF TypeOK
      <3> QED BY <3>1, <3>2, <1>1, FragmentsAssumption
  <2>2. CASE ~END_FLAG
      BY <2>2, <1>1 DEF onFragment, Advance, END_FLAG, Current
  <2> QED BY <2>1, <2>2
<1>9. message' > Len(published) => fragment' = 1
    BY <1>1 DEF onFragment, Advance, END_FLAG
<1> QED
    BY <1>2, <1>6, <1>7, <1>8, <1>9 DEF TypeOK, Current, Assembly, Piece

\* A move to another image preserves the types.
LEMMA MoveTypes ==
    ASSUME TypeOK, NEW k, NEW i, Further(k, i), losses < MaxLosses,
           message' = k, fragment' = i, losses' = losses + 1,
           acc_' \in {acc_, <<>>},
           UNCHANGED <<published, delivered, garbled>>
    PROVE  TypeOK'
<1>1. /\ k \in 1 .. Len(published) + 1
      /\ i \in Nat \ {0}
      /\ k <= Len(published) => i <= Fragments[published[k]]
      /\ k > Len(published) => i = 1
  <2> DEFINE n == Len(published)
  <2>0. n \in Nat /\ message \in 1 .. n + 1 /\ fragment \in Nat \ {0}
      BY DEF TypeOK
  <2>1. \A j \in 1 .. n : Fragments[published[j]] \in Nat \ {0}
      BY FragmentsAssumption DEF TypeOK
  <2> HIDE DEF n
  <2>2. \/ k = message /\ k <= n /\ i \in fragment .. Fragments[published[k]]
        \/ k \in message + 1 .. n /\ i \in 1 .. Fragments[published[k]]
        \/ k = n + 1 /\ k > message /\ i = 1
      BY DEF Further, n
  <2>3. /\ k \in 1 .. n + 1
        /\ i \in Nat \ {0}
        /\ k <= n => i <= Fragments[published[k]]
        /\ k > n => i = 1
      BY <2>0, <2>1, <2>2
  <2> QED BY <2>3 DEF n
<1>2. acc_' \in Seq(Unfinished)
    BY EmptySeq DEF TypeOK
<1>3. losses' \in 0 .. MaxLosses
    BY BoundsAssumption DEF TypeOK
<1> QED BY <1>1, <1>2, <1>3 DEF TypeOK, Current

LEMMA NextTypes == TypeOK /\ [Next]_vars => TypeOK'
<1> SUFFICES ASSUME TypeOK, [Next]_vars PROVE TypeOK'
    OBVIOUS
<1>1. ASSUME NEW m \in Messages, Publish(m) PROVE TypeOK'
  <2>1. /\ published' \in Seq(Messages)
        /\ Len(published') = Len(published) + 1
        /\ \A j \in 1 .. Len(published) : published'[j] = published[j]
        /\ published'[Len(published) + 1] = m
      BY <1>1 DEF Publish, TypeOK
  <2>2. UNCHANGED <<message, fragment, acc_, delivered, losses, garbled>>
      BY <1>1 DEF Publish
  <2>3. message <= Len(published') => fragment <= Fragments[published'[message]]
      BY <2>1, FragmentsAssumption DEF TypeOK, Current
  <2> QED BY <2>1, <2>2, <2>3 DEF TypeOK, Current
<1>2. CASE onFragment
    BY <1>2, OnFragmentTypes
<1>3. ASSUME NEW p \in Places, LoseImage(p[1], p[2]) PROVE TypeOK'
    BY <1>3, MoveTypes DEF LoseImage
<1>4. ASSUME NEW p \in Places, create_egress_subscription(p[1], p[2]) PROVE TypeOK'
    BY <1>4, MoveTypes DEF create_egress_subscription
<1>5. CASE UNCHANGED vars
    BY <1>5 DEF vars, streamVars, TypeOK, Current
<1> QED
    BY <1>1, <1>2, <1>3, <1>4, <1>5 DEF Next

\* A last or only fragment of a sound acc_ completes its message.
LEMMA SoundAppended ==
    ASSUME TypeOK, message <= Len(published), Sound
    PROVE  Appended = Pieces(Current, fragment)
<1>1. fragment \in Nat \ {0}
    BY DEF TypeOK
<1>2. CASE fragment = 1
  <2>1. Appended = Append(<<>>, <<Current, 1>>)
      BY <1>2 DEF Appended, BEGIN_FLAG
  <2> QED BY <2>1, <1>2, PiecesOne
<1>3. CASE fragment > 1
  <2>1. acc_ = Pieces(Current, fragment - 1)
      BY <1>3 DEF Sound
  <2>2. fragment - 1 \in Nat /\ (fragment - 1) + 1 = fragment
      BY <1>1
  <2>3. Append(Pieces(Current, fragment - 1), <<Current, fragment>>) = Pieces(Current, fragment)
      BY <2>2, PiecesAppend
  <2> QED BY <1>3, <2>1, <2>3 DEF Appended, BEGIN_FLAG
<1> QED BY <1>1, <1>2, <1>3

LEMMA OnFragmentPaid == IInv /\ onFragment => Paid'
<1> SUFFICES ASSUME IInv, onFragment PROVE Paid'
    OBVIOUS
<1>1. /\ Current \in Messages
      /\ Fragments[Current] \in Nat \ {0}
      /\ fragment \in 1 .. Fragments[Current]
      /\ message \in 1 .. Len(published)
    BY AtFragment DEF onFragment, IInv
<1>2. published' = published /\ losses' = losses /\ losses \in Nat /\ garbled \in Nat
    BY DEF onFragment, IInv, TypeOK
<1>3. Sound => Appended = Pieces(Current, fragment)
    BY SoundAppended DEF IInv, onFragment
<1>4. CASE OnWhole
  <2>1. <<<<Current, fragment>>>> = Whole(Current)
      BY <1>4, <1>1 DEF OnWhole, BEGIN_FLAG, END_FLAG, Whole, Pieces
  <2>2. garbled' = garbled /\ fragment' = 1
      BY <1>4, <2>1 DEF OnWhole, Sink, onFragment, Advance
  <2> QED BY <2>2, <1>2 DEF Paid, Sound, IInv
<1>5. CASE OnPart
  <2>1. /\ fragment' = fragment + 1
        /\ message' = message
        /\ acc_' = Appended
        /\ garbled' = garbled
      BY <1>5 DEF OnPart, onFragment, Advance
  <2>2. Sound => Sound'
      BY <2>1, <1>1, <1>2, <1>3 DEF Sound, Current
  <2> QED BY <2>1, <2>2, <1>2 DEF Paid, IInv
<1>6. CASE OnLast
  <2>1. fragment' = 1 /\ fragment = Fragments[Current]
      BY <1>6 DEF OnLast, END_FLAG, onFragment, Advance
  <2>2. Sound => garbled' = garbled
      BY <1>6, <2>1, <1>3 DEF OnLast, Sink, Whole
  <2>3. garbled' \in {garbled, garbled + 1}
      BY <1>6 DEF OnLast, Sink
  <2> QED BY <2>1, <2>2, <2>3, <1>2 DEF Paid, Sound, IInv
<1> QED BY <1>4, <1>5, <1>6 DEF onFragment

\* One step keeps the inductive invariant.
LEMMA NextIInv == IInv /\ [Next]_vars => IInv'
<1> SUFFICES ASSUME IInv, [Next]_vars PROVE IInv'
    OBVIOUS
<1>1. TypeOK'
    BY NextTypes DEF IInv
<1>2. ASSUME NEW m \in Messages, Publish(m) PROVE Paid'
  <2>1. UNCHANGED <<message, fragment, acc_, losses, garbled>>
      BY <1>2 DEF Publish
  <2>2. fragment > 1 => published'[message] = published[message]
      BY <1>2 DEF Publish, IInv, TypeOK
  <2> QED BY <2>1, <2>2 DEF Paid, Sound, Current, IInv
<1>3. ASSUME onFragment PROVE Paid'
    BY <1>3, OnFragmentPaid
<1>4. ASSUME NEW p \in Places,
             LoseImage(p[1], p[2]) \/ create_egress_subscription(p[1], p[2])
      PROVE  Paid'
  <2>1. losses' = losses + 1 /\ garbled' = garbled
      BY <1>4 DEF LoseImage, create_egress_subscription
  <2>2. losses \in Nat /\ garbled \in Nat
      BY BoundsAssumption DEF IInv, TypeOK
  <2> QED BY <2>1, <2>2 DEF Paid, IInv
<1>5. ASSUME UNCHANGED vars PROVE Paid'
    BY <1>5 DEF vars, streamVars, Paid, Sound, Current, IInv
<1>6. Paid'
    BY <1>2, <1>3, <1>4, <1>5 DEF Next
<1> QED BY <1>1, <1>6 DEF IInv

\* The variables of the reassembler keep their types, and the place of the
\* next fragment is always one of the stream.
THEOREM ReassemblyTypes == Spec => []TypeOK
<1>1. Init => TypeOK
    BY InitIInv DEF IInv
<1> QED BY <1>1, NextTypes, PTL DEF Spec

\* However many images are lost, and wherever the stream goes on, there are
\* never more wrong deliveries than losses.
THEOREM WrongDeliveriesBounded == Spec => []GarbledBounded
<1>1. IInv => GarbledBounded
    BY DEF IInv, Paid, GarbledBounded
<1> QED BY <1>1, InitIInv, NextIInv, PTL DEF Spec

-----------------------------------------------------------------------------
\* Refinement.  A step of onFragment that ends a message is Deliver or Garble,
\* any other one a stutter; a lost image is Lose.

LEMMA OnFragmentRefines == IInv /\ IInv' /\ onFragment => [Channel!Next]_Channel!vars
<1> SUFFICES ASSUME IInv, IInv', onFragment PROVE [Channel!Next]_Channel!vars
    OBVIOUS
<1>1. /\ Current \in Messages
      /\ Fragments[Current] \in Nat \ {0}
      /\ fragment \in 1 .. Fragments[Current]
      /\ message \in 1 .. Len(published)
    BY AtFragment DEF onFragment, IInv
<1>2. published' = published /\ losses' = losses /\ losses \in Nat /\ garbled \in Nat
    BY DEF onFragment, IInv, TypeOK
<1>3. ASSUME END_FLAG PROVE (message - 1)' = (message - 1) + 1
    BY <1>3, <1>1 DEF onFragment, Advance
<1>4. (message - 1) + 1 = message /\ message - 1 < Len(published)
    BY <1>1
<1>5. ASSUME NEW p \in Assembly, END_FLAG, Sink(p) PROVE Channel!Next
  <2>1. CASE p = Whole(Current)
    <3>1. delivered' = Append(delivered, Whole(published[(message - 1) + 1]))
        BY <1>5, <2>1, <1>4 DEF Sink, Current
    <3>2. (losses - garbled)' = losses - garbled
        BY <1>5, <2>1, <1>2 DEF Sink
    <3>3. Channel!Deliver
        BY <3>1, <3>2, <1>5, <1>2, <1>3, <1>4 DEF Channel!Deliver
    <3> QED BY <3>3 DEF Channel!Next
  <2>2. CASE p # Whole(Current)
    <3>1. garbled' = garbled + 1 /\ delivered' = Append(delivered, p)
        BY <1>5, <2>2 DEF Sink
    <3>2. garbled + 1 <= losses
        BY <3>1, <1>2 DEF IInv, Paid
    <3>3. losses - garbled > 0 /\ (losses - garbled)' = (losses - garbled) - 1
        BY <3>1, <3>2, <1>2
    <3>4. delivered \in Seq(Assembly)
        BY DEF IInv, TypeOK, Assembly, Piece
    <3>5. /\ Len(delivered') = Len(delivered) + 1
          /\ \A i \in 1 .. Len(delivered) : delivered'[i] = delivered[i]
        BY <3>1, <3>4, <1>5, AppendSeq
    <3>6. Channel!Garble
        BY <3>3, <3>5, <1>5, <1>2, <1>3, <1>4 DEF Channel!Garble
    <3> QED BY <3>6 DEF Channel!Next
  <2> QED BY <2>1, <2>2
<1>6. Appended \in Assembly /\ <<<<Current, fragment>>>> \in Assembly
  <2>1. acc_ \in Assembly
    <3>1. acc_ \in Seq(Unfinished)
        BY DEF IInv, TypeOK
    <3> QED BY <3>1, KeptAssembly
  <2>2. <<Current, fragment>> \in Piece
      BY <1>1 DEF Piece
  <2> QED BY <2>1, <2>2, EmptySeq, OneSeq, AppendSeq DEF Appended, Assembly
<1>7. CASE OnWhole
    BY <1>5, <1>6, <1>7 DEF OnWhole
<1>8. CASE OnPart
  <2>1. message' = message /\ UNCHANGED <<published, delivered, losses, garbled>>
      BY <1>8, <1>2 DEF OnPart, onFragment, Advance
  <2> QED BY <2>1 DEF Channel!vars
<1>9. CASE OnLast
    BY <1>5, <1>6, <1>9 DEF OnLast
<1> QED BY <1>7, <1>8, <1>9 DEF onFragment

LEMMA MoveRefines ==
    ASSUME IInv, IInv', NEW k, NEW i, Further(k, i),
           message' = k, losses' = losses + 1,
           UNCHANGED <<published, delivered, garbled>>
    PROVE  Channel!Lose
<1>1. message \in 1 .. Len(published) + 1 /\ k \in 1 .. Len(published) + 1
      /\ Len(published) \in Nat /\ losses \in Nat /\ garbled \in Nat
    BY DEF IInv, TypeOK
<1>2. k >= message
    BY <1>1 DEF Further
<1>3. (message - 1)' \in message - 1 .. Len(published)
    BY <1>1, <1>2
<1>4. (losses - garbled)' = (losses - garbled) + 1
    BY <1>1
<1> QED BY <1>3, <1>4 DEF Channel!Lose

\* The reassembler implements the channel: messages arrive whole and in order,
\* and each lost image explains at most one thing that was never published.
THEOREM ReassemblyImplementsChannel == Spec => ChannelSpec
<1>1. Init => Channel!Init
    BY DEF Init, Channel!Init
<1>2. ASSUME IInv, IInv', [Next]_vars PROVE [Channel!Next]_Channel!vars
  <2>1. ASSUME NEW m \in Messages, Publish(m) PROVE [Channel!Next]_Channel!vars
    <3>1. Channel!Publish(m)
        BY <2>1 DEF Publish, Channel!Publish
    <3> QED BY <3>1 DEF Channel!Next
  <2>2. CASE onFragment
      BY <1>2, <2>2, OnFragmentRefines
  <2>3. ASSUME NEW p \in Places, LoseImage(p[1], p[2]) PROVE Channel!Lose
      BY <1>2, <2>3, MoveRefines DEF LoseImage
  <2>4. ASSUME NEW p \in Places, create_egress_subscription(p[1], p[2]) PROVE Channel!Lose
      BY <1>2, <2>4, MoveRefines DEF create_egress_subscription
  <2>5. CASE UNCHANGED vars
      BY <2>5 DEF vars, streamVars, Channel!vars
  <2>6. Channel!Lose => [Channel!Next]_Channel!vars
      BY DEF Channel!Next
  <2> QED BY <1>2, <2>1, <2>2, <2>3, <2>4, <2>5, <2>6 DEF Next
<1>3. Spec => []IInv
    BY InitIInv, NextIInv, PTL DEF Spec
<1> QED BY <1>1, <1>2, <1>3, PTL DEF Spec, ChannelSpec, Channel!Spec

-----------------------------------------------------------------------------
\* A text of the model, and a cell that a buffer holds at an offset.
Holds(b, o, c) == o \in DOMAIN b.at /\ b.at[o] = c

\* A prefix of a text is a text of the length asked for.
LEMMA PrefixOfText ==
    ASSUME NEW t, IsText(t), NEW n \in Nat
    PROVE  /\ IsText(Prefix(t, n)) /\ Prefix(t, n).len = n /\ Prefix(t, 0) = Empty
           /\ Prefix(t, n).of # "number"
           /\ n = t.len => Prefix(t, n) = t
BY DEF IsText, Prefix, Text, Empty

\* A store is seen at its offset and changes nothing else.
LEMMA StoreHolds ==
    ASSUME NEW b, NEW o, NEW c
    PROVE  /\ Holds(Store(b, o, c), o, c)
           /\ \A p, d : p # o /\ Holds(b, p, d) => Holds(Store(b, o, c), p, d)
           /\ \A p : p \in DOMAIN Store(b, o, c).at <=> p = o \/ p \in DOMAIN b.at
           /\ Store(b, o, c).size = b.size
BY DEF Store, Holds

\* resize() keeps the cells in front of the new end.
LEMMA ResizeHolds ==
    ASSUME NEW b, NEW n
    PROVE  /\ \A p, d : p < n /\ Holds(b, p, d) => Holds(Resize(b, n), p, d)
           /\ Resize(b, n).size = n
BY DEF Resize, Holds

\* A cell that is read at its own width is read as it was written.
LEMMA LoadHolds ==
    ASSUME NEW b, NEW o, NEW c, NEW w \in Int, Holds(b, o, c), c.of # "number" \/ c.len = w
    PROVE  Load(b, o, w) = c
BY DEF Load, Holds

\* The parts of a number's cell.
LEMMA NumberCell ==
    ASSUME NEW v, NEW w
    PROVE  Number(v, w).val = v /\ Number(v, w).len = w /\ Number(v, w).of = "number"
BY DEF Number

\* The body behind a session header is found again.
LEMMA SliceOfConcat ==
    ASSUME NEW a, NEW b, a.size \in Nat, b.size \in Int,
           \A p \in DOMAIN a.at : p < a.size
    PROVE  /\ \A o \in Nat : \A c : Holds(b, o, c) => Holds(Slice(Concat(a, b), a.size), o, c)
           /\ \A p, c : Holds(a, p, c) => Holds(Concat(a, b), p, c)
           /\ Concat(a, b).size = a.size + b.size
           /\ Slice(Concat(a, b), a.size).size = b.size
<1> DEFINE moved == Shift(b.at, a.size)
           whole == Concat(a, b)
           rest == [p \in {q \in DOMAIN whole.at : q >= a.size} |-> whole.at[p]]
<1>1. /\ DOMAIN moved = {p + a.size : p \in DOMAIN b.at}
      /\ \A p \in DOMAIN moved : moved[p] = b.at[p - a.size]
  BY DEF Shift
<1>2. /\ whole.size = a.size + b.size
      /\ DOMAIN whole.at = DOMAIN a.at \cup DOMAIN moved
      /\ \A p \in DOMAIN whole.at : whole.at[p] = IF p \in DOMAIN a.at THEN a.at[p] ELSE moved[p]
  BY DEF Concat
<1>3. Slice(whole, a.size) = [size |-> whole.size - a.size, at |-> Shift(rest, -a.size)]
  BY DEF Slice
<1>4. ASSUME NEW o \in Nat, NEW c, Holds(b, o, c)
      PROVE  Holds(Slice(whole, a.size), o, c)
  <2>1. o + a.size \in DOMAIN moved /\ moved[o + a.size] = c
    <3>1. o + a.size \in DOMAIN moved
      BY <1>1, <1>4 DEF Holds
    <3>2. (o + a.size) - a.size = o
      OBVIOUS
    <3> QED BY <1>1, <1>4, <3>1, <3>2 DEF Holds
  <2>2. o + a.size \in DOMAIN whole.at /\ whole.at[o + a.size] = c /\ o + a.size >= a.size
    BY <1>2, <2>1
  <2>3. o + a.size \in DOMAIN rest /\ rest[o + a.size] = c
    BY <2>2
  <2>4. (o + a.size) + (-a.size) = o /\ o - (-a.size) = o + a.size
    OBVIOUS
  <2>5. Shift(rest, -a.size) = [p \in {q + (-a.size) : q \in DOMAIN rest} |-> rest[p - (-a.size)]]
    BY DEF Shift
  <2> HIDE DEF rest
  <2>6. o \in DOMAIN Shift(rest, -a.size) /\ Shift(rest, -a.size)[o] = c
    BY <2>3, <2>4, <2>5
  <2> HIDE DEF whole
  <2> QED BY <1>3, <2>6 DEF Holds
<1>5. \A p, c : Holds(a, p, c) => Holds(whole, p, c)
  BY <1>2 DEF Holds
<1> HIDE DEF whole
<1>6. Slice(whole, a.size).size = b.size
  BY <1>2, <1>3
<1> QED BY <1>2, <1>4, <1>5, <1>6 DEF whole

-----------------------------------------------------------------------------
\* A flyweight.
IsFlyweight(f) ==
    /\ f = [buffer |-> f.buffer, limit |-> f.limit, offset |-> f.offset,
            position |-> f.position, ok |-> f.ok, got |-> f.got]
    /\ f.limit \in Int /\ f.offset \in Nat /\ f.position \in Nat /\ f.ok \in BOOLEAN

\* The field that every var-data field of the schema is: a length of two bytes.
VarData == VarDataField(2, 65534)

\* What put() keeps of a text: its length is converted to uint16_t.
Kept(s) == Prefix(s, s.len % UINT16_RANGE)

\* A length and a text, written at an offset.
Written(b, p, s) == Holds(b, p, Number(s.len, 2)) /\ (s.len > 0 => Holds(b, p + 2, s))

\* The range of a uint16_t, without its value: the value is not needed to
\* reason about remainders.
LEMMA RangeType == UINT16_RANGE \in Nat \ {0}
BY DEF UINT16_RANGE

\* The range of a uint16_t.
LEMMA RangeValue == UINT16_RANGE = 65536
BY DEF UINT16_RANGE

\* A remainder is below its divisor, and a smaller number is its own.
LEMMA Remainder ==
    ASSUME NEW k \in Nat \ {0}, NEW n \in Nat
    PROVE  n % k \in Nat /\ n % k < k /\ (n < k => n % k = n)
OBVIOUS

\* What put<Field>(src, length) keeps of a text, and that it keeps all of a
\* short one.
LEMMA KeptText ==
    ASSUME NEW s, IsText(s)
    PROVE  /\ IsText(Kept(s)) /\ Kept(s).len = s.len % UINT16_RANGE
           /\ Kept(s).len \in Nat /\ Kept(s).len < UINT16_RANGE
           /\ s.len < UINT16_RANGE => Kept(s) = s
<1>1. s.len \in Nat
  BY DEF IsText
<1>2. /\ s.len % UINT16_RANGE \in Nat /\ s.len % UINT16_RANGE < UINT16_RANGE
      /\ s.len < UINT16_RANGE => s.len % UINT16_RANGE = s.len
  BY <1>1, RangeType, Remainder, Zenon
<1>4. IsText(Kept(s)) /\ Kept(s).len = s.len % UINT16_RANGE
  BY <1>2, PrefixOfText, Zenon DEF Kept
<1>5. s.len < UINT16_RANGE => Kept(s) = s
  BY <1>1, <1>2, PrefixOfText, Zenon DEF Kept
<1> QED BY <1>2, <1>4, <1>5, Zenon

\* The flyweight g is what f becomes when it is moved to p.
AfterMove(f, p, g) ==
    /\ IsFlyweight(g) /\ g.buffer = f.buffer /\ g.limit = f.limit
    /\ g.offset = f.offset /\ g.got = f.got
    /\ g.ok <=> (f.ok /\ p <= f.limit)
    /\ g.ok => g.position = p

\* sbePosition() moves, or throws and leaves the rest alone.
LEMMA MoveLemma ==
    ASSUME NEW f, IsFlyweight(f), NEW p \in Nat
    PROVE  AfterMove(f, p, sbePosition(f, p))
BY DEF IsFlyweight, sbePosition, AfterMove

\* Only the buffer of a flyweight, or only its ok, is replaced.
WithBuffer(f, b) == [f EXCEPT !.buffer = b]

\* A flyweight over other bytes is otherwise the same.
LEMMA NewBufferLemma ==
    ASSUME NEW f, IsFlyweight(f), NEW b
    PROVE  LET g == WithBuffer(f, b)
           IN  /\ IsFlyweight(g) /\ g.limit = f.limit /\ g.offset = f.offset
               /\ g.ok = f.ok /\ g.position = f.position /\ g.buffer = b
BY DEF IsFlyweight, WithBuffer

\* What lies below an offset is left alone.
Below(a, b, p) == \A o \in Int : \A c : o < p /\ Holds(a, o, c) => Holds(b, o, c)

\* The flyweight g is what f becomes when a text of which k is kept is put.
AfterPut(f, k, g) ==
    /\ IsFlyweight(g) /\ g.limit = f.limit /\ g.offset = f.offset
    /\ g.ok <=> (f.ok /\ f.position + 2 + k.len <= f.limit)
    /\ g.ok => /\ g.position = f.position + 2 + k.len
               /\ Written(g.buffer, f.position, k)
               /\ Below(f.buffer, g.buffer, f.position)
               /\ g.buffer.size = f.buffer.size

\* put<Field>(src, length) writes what it keeps of any text, if there is room.
LEMMA PutRawLemma ==
    ASSUME NEW f, IsFlyweight(f), NEW s, IsText(s)
    PROVE  AfterPut(f, Kept(s), PutRaw(f, VarData, s))
<1> PICK n \in Nat : n = s.len % UINT16_RANGE /\ n = Kept(s).len
  BY KeptText, Zenon
<1> PICK p \in Nat : p = f.position
  BY Zenon DEF IsFlyweight
<1> PICK limit \in Int : limit = f.limit
  BY Zenon DEF IsFlyweight
<1> DEFINE m == sbePosition(f, p + 2)
           h == sbePosition(m, p + 2 + n)
           withLength == Store(f.buffer, p, Number(n, 2))
           withText == Store(withLength, p + 2, Prefix(s, n))
           g == PutRaw(f, VarData, s)
<1> SUFFICES
        /\ IsFlyweight(g) /\ g.limit = f.limit /\ g.offset = f.offset
        /\ g.ok <=> (f.ok /\ p + 2 + n <= limit)
        /\ g.ok => /\ g.position = p + 2 + n
                   /\ Written(g.buffer, p, Kept(s))
                   /\ \A o \in Int : \A c : o < p /\ Holds(f.buffer, o, c) => Holds(g.buffer, o, c)
                   /\ g.buffer.size = f.buffer.size
  BY Zenon DEF AfterPut, Below
<1>1. f.ok \in BOOLEAN
  BY DEF IsFlyweight
<1>2. VarData.headerLength = 2
  BY DEF VarData, VarDataField
<1>3. g = IF ~m.ok THEN m
          ELSE IF n = 0 THEN WithBuffer(m, withLength)
          ELSE IF ~h.ok THEN h
          ELSE WithBuffer(h, withText)
  BY <1>2, Zenon DEF PutRaw, WithBuffer
<1>4. /\ IsFlyweight(m) /\ m.buffer = f.buffer /\ m.limit = limit /\ m.offset = f.offset
      /\ (m.ok <=> f.ok /\ p + 2 <= limit) /\ (m.ok => m.position = p + 2)
  <2>1. AfterMove(f, p + 2, m)
    BY p + 2 \in Nat, MoveLemma, Zenon
  <2> HIDE DEF m
  <2> QED BY <2>1, Zenon DEF AfterMove
<1>5. /\ IsFlyweight(h) /\ h.buffer = f.buffer /\ h.limit = limit /\ h.offset = f.offset
      /\ (h.ok <=> m.ok /\ p + 2 + n <= limit) /\ (h.ok => h.position = p + 2 + n)
  <2>1. p + 2 + n \in Nat
    OBVIOUS
  <2> HIDE DEF m
  <2>2. /\ IsFlyweight(h) /\ h.buffer = m.buffer /\ h.limit = m.limit /\ h.offset = m.offset
        /\ (h.ok <=> m.ok /\ p + 2 + n <= m.limit) /\ (h.ok => h.position = p + 2 + n)
    <3>1. AfterMove(m, p + 2 + n, h)
      BY <2>1, <1>4, MoveLemma, Zenon
    <3> HIDE DEF h
    <3> QED BY <3>1, Zenon DEF AfterMove
  <2> QED BY <1>4, <2>2, Zenon
<1>6. /\ withLength.size = f.buffer.size /\ withText.size = f.buffer.size
      /\ Holds(withLength, p, Number(n, 2))
      /\ Holds(withText, p, Number(n, 2)) /\ Holds(withText, p + 2, Prefix(s, n))
      /\ \A o \in Int : \A c : o < p /\ Holds(f.buffer, o, c)
                               => Holds(withLength, o, c) /\ Holds(withText, o, c)
  BY <1>1, StoreHolds
<1> HIDE DEF m, h, withLength, withText, g
<1>7. CASE ~m.ok
  <2>1. g = m
    BY <1>3, <1>7, Zenon
  <2> QED BY <1>1, <1>4, <1>7, <2>1
<1>8. CASE m.ok /\ n = 0
  <2>1. g = WithBuffer(m, withLength)
    BY <1>3, <1>8, Zenon
  <2>2. /\ IsFlyweight(g) /\ g.limit = m.limit /\ g.offset = m.offset /\ g.ok
        /\ g.position = m.position /\ g.buffer = withLength
    <3>1. IsFlyweight(m) /\ m.ok
      BY <1>4, <1>8, Zenon
    <3> QED BY <3>1, <2>1, NewBufferLemma
  <2>3. Written(g.buffer, p, Kept(s))
    BY <1>1, <1>6, <1>8, <2>2 DEF Written
  <2>4. p + 2 + n = p + 2
    BY <1>8
  <2> HIDE DEF g, m
  <2>5. (g.ok <=> f.ok /\ p + 2 + n <= limit) /\ g.position = p + 2 + n
    BY <1>1, <1>4, <1>8, <2>2, <2>4, Zenon
  <2> QED BY <1>4, <1>6, <2>2, <2>3, <2>5, Zenon
<1>9. CASE m.ok /\ n # 0 /\ ~h.ok
  <2>1. g = h
    BY <1>3, <1>9, Zenon
  <2> QED BY <1>1, <1>4, <1>5, <1>9, <2>1
<1>10. CASE m.ok /\ n # 0 /\ h.ok
  <2>1. g = WithBuffer(h, withText)
    BY <1>3, <1>10, Zenon
  <2>2. /\ IsFlyweight(g) /\ g.limit = h.limit /\ g.offset = h.offset /\ g.ok
        /\ g.position = h.position /\ g.buffer = withText
    <3>1. IsFlyweight(h) /\ h.ok
      BY <1>5, <1>10, Zenon
    <3> QED BY <3>1, <2>1, NewBufferLemma
  <2>3. Written(g.buffer, p, Kept(s))
    BY <1>1, <1>6, <1>10, <2>2 DEF Written, Kept
  <2> QED BY <1>1, <1>4, <1>5, <1>6, <1>10, <2>2, <2>3
<1>11. m.ok \in BOOLEAN /\ h.ok \in BOOLEAN
  BY <1>4, <1>5 DEF IsFlyweight
<1> QED BY <1>7, <1>8, <1>9, <1>10, <1>11

-----------------------------------------------------------------------------
\* A cell, and a length with its text, as far as the buffer has not been cut.
HoldsIn(b, o, c) == o < b.size => Holds(b, o, c)
WrittenIn(b, p, s) ==
    HoldsIn(b, p, Number(s.len, 2)) /\ (s.len > 0 => HoldsIn(b, p + 2, s))


\* A read changes only what was read.
LEMMA NewGotLemma ==
    ASSUME NEW f, IsFlyweight(f), NEW s, NEW g, g = Returned(f, s)
    PROVE  /\ IsFlyweight(g) /\ g.limit = f.limit /\ g.offset = f.offset /\ g.ok = f.ok
           /\ g.position = f.position /\ g.buffer = f.buffer /\ g.got = s
BY DEF IsFlyweight, Returned

\* A flyweight that has thrown stays thrown.
LEMMA StaysThrown ==
    ASSUME NEW f, IsFlyweight(f), NEW p, ~f.ok
    PROVE  LET g == sbePosition(f, p)
           IN  /\ IsFlyweight(g) /\ g.buffer = f.buffer /\ g.limit = f.limit
               /\ g.offset = f.offset /\ ~g.ok
BY DEF IsFlyweight, sbePosition

\* The flyweight g is what f becomes when the move past s is made.
AfterSkip(f, s, g) ==
    /\ IsFlyweight(g) /\ g.limit = f.limit /\ g.offset = f.offset /\ g.buffer = f.buffer
    /\ g.ok <=> (f.ok /\ f.position + 2 + s.len <= f.limit)
    /\ g.ok => g.position = f.position + 2 + s.len

\* The length of a text is read where it was written.
LEMMA LengthRead ==
    ASSUME NEW b, NEW p \in Nat, NEW s, IsText(s), WrittenIn(b, p, s), p < b.size
    PROVE  Load(b, p, 2).val = s.len
<1>1. Holds(b, p, Number(s.len, 2))
  BY Zenon DEF WrittenIn, HoldsIn
<1>2. Number(s.len, 2).len = 2 /\ Number(s.len, 2).val = s.len
  BY NumberCell
<1>3. Load(b, p, 2) = Number(s.len, 2)
  BY <1>1, <1>2, 2 \in Int, LoadHolds, Zenon
<1> QED BY <1>2, <1>3, Zenon

\* The text too.
LEMMA TextRead ==
    ASSUME NEW b, NEW p \in Nat, NEW s, IsText(s), WrittenIn(b, p, s), s.len # 0,
           p + 2 < b.size
    PROVE  Load(b, p + 2, s.len) = s
<1>1. s.len \in Nat /\ s.len \in Int /\ s.len > 0 /\ s.of # "number"
  BY DEF IsText
<1>2. Holds(b, p + 2, s)
  BY <1>1, Zenon DEF WrittenIn, HoldsIn
<1> QED BY <1>1, <1>2, LoadHolds, Zenon

\* There is one text of length 0.
LEMMA EmptyText == ASSUME NEW s, IsText(s), s.len = 0 PROVE s = Empty
BY DEF IsText, Text, Empty

\* Two moves in a row, past the length and past the text.
LEMMA TwoMoves ==
    ASSUME NEW f, IsFlyweight(f), NEW s, IsText(s), f.limit = f.buffer.size,
           f.ok => WrittenIn(f.buffer, f.position, s)
    PROVE  AfterSkip(f, s, sbePosition(sbePosition(f, f.position + 2),
                             f.position + 2 + Load(f.buffer, f.position, 2).val))
<1>1. f.ok \in BOOLEAN /\ f.position \in Nat /\ f.limit \in Int /\ s.len \in Nat
  BY Zenon DEF IsFlyweight, IsText
<1>2. PICK p \in Nat : p = f.position
  BY <1>1, Zenon
<1>3. PICK limit \in Int : limit = f.limit
  BY <1>1, Zenon
<1>4. PICK n \in Nat : n = s.len
  BY <1>1, Zenon
<1>5. PICK m : m = sbePosition(f, p + 2)
  OBVIOUS
<1>6. PICK k : k = Load(f.buffer, p, 2).val
  OBVIOUS
<1>7. PICK h : h = sbePosition(m, p + 2 + k)
  OBVIOUS
<1>8. /\ IsFlyweight(m) /\ m.buffer = f.buffer /\ m.limit = f.limit /\ m.offset = f.offset
      /\ m.ok <=> (f.ok /\ p + 2 <= f.limit)
  <2>1. AfterMove(f, p + 2, m)
    BY <1>5, p + 2 \in Nat, MoveLemma, Zenon
  <2> QED BY <2>1, Zenon DEF AfterMove
<1>9. AfterSkip(f, s, h)
  <2>1. CASE f.ok /\ p + 2 <= limit
    <3>1. p < f.buffer.size
      BY <1>3, <2>1
    <3>2. k = n
      BY <1>2, <1>4, <1>6, <2>1, <3>1, LengthRead, Zenon
    <3>3. p + 2 + n \in Nat /\ h = sbePosition(m, p + 2 + n)
      BY <1>7, <3>2
    <3>4. /\ IsFlyweight(h) /\ h.buffer = m.buffer /\ h.limit = m.limit /\ h.offset = m.offset
          /\ (h.ok <=> m.ok /\ p + 2 + n <= m.limit) /\ (h.ok => h.position = p + 2 + n)
      <4>1. AfterMove(m, p + 2 + n, h)
        BY <1>8, <3>3, MoveLemma, Zenon
      <4> QED BY <4>1, Zenon DEF AfterMove
    <3> QED BY <1>2, <1>3, <1>4, <1>8, <2>1, <3>4, Zenon DEF AfterSkip
  <2>2. CASE ~(f.ok /\ p + 2 <= limit)
    <3>1. ~m.ok
      BY <1>3, <1>8, <2>2, Zenon
    <3>2. /\ IsFlyweight(h) /\ h.buffer = m.buffer /\ h.limit = m.limit /\ h.offset = m.offset
          /\ ~h.ok
      BY <1>7, <1>8, <3>1, StaysThrown, Zenon
    <3>3. ~(f.ok /\ p + 2 + n <= limit)
      BY <1>1, <2>2
    <3> QED BY <1>2, <1>3, <1>4, <1>8, <3>2, <3>3, Zenon DEF AfterSkip
  <2> QED BY <2>1, <2>2, Zenon
<1> QED BY <1>2, <1>5, <1>6, <1>7, <1>9, Zenon

\* skip<Field>() is one move, with the same outcome.
LEMMA SkipLemma ==
    ASSUME NEW f, IsFlyweight(f), NEW s, IsText(s), f.limit = f.buffer.size,
           f.ok => WrittenIn(f.buffer, f.position, s) /\ f.position + 2 <= f.limit
    PROVE  AfterSkip(f, s, Skip(f, VarData))
<1> PICK n \in Nat : n = s.len
  BY Zenon DEF IsText
<1> PICK p \in Nat : p = f.position
  BY Zenon DEF IsFlyweight
<1> PICK limit \in Int : limit = f.limit
  BY Zenon DEF IsFlyweight
<1> DEFINE h == sbePosition(f, p + 2 + Load(f.buffer, p, 2).val)
<1>1. Skip(f, VarData) = h
  <2>1. VarData.headerLength = 2
    BY DEF VarData, VarDataField
  <2> QED BY <2>1, Zenon DEF Skip
<1>2. CASE f.ok
  <2>1. p < f.buffer.size
    BY <1>2
  <2>2. Load(f.buffer, p, 2).val = n
    BY <1>2, <2>1, LengthRead, Zenon
  <2>3. p + 2 + n \in Nat /\ h = sbePosition(f, p + 2 + n)
    BY <2>2
  <2> HIDE DEF h
  <2>4. /\ IsFlyweight(h) /\ h.buffer = f.buffer /\ h.limit = limit /\ h.offset = f.offset
        /\ (h.ok <=> f.ok /\ p + 2 + n <= limit) /\ (h.ok => h.position = p + 2 + n)
    <3>1. AfterMove(f, p + 2 + n, h)
      BY <2>3, MoveLemma, Zenon
    <3> QED BY <3>1, Zenon DEF AfterMove
  <2> QED BY <1>1, <2>4, Zenon DEF AfterSkip
<1>3. CASE ~f.ok
  <2>1. /\ IsFlyweight(h) /\ h.buffer = f.buffer /\ h.limit = limit /\ h.offset = f.offset
        /\ ~h.ok
    BY <1>3, StaysThrown, Zenon
  <2> HIDE DEF h
  <2>2. h.ok \in BOOLEAN
    BY <2>1, Zenon DEF IsFlyweight
  <2>3. h.ok <=> (f.ok /\ p + 2 + n <= limit)
    BY <1>3, <2>1, <2>2, Zenon
  <2> QED BY <1>1, <2>1, <2>3, Zenon DEF AfterSkip
<1>4. f.ok \in BOOLEAN
  BY DEF IsFlyweight
<1> QED BY <1>2, <1>3, Zenon

\* A text is read where it was written, if it lies within the limit.
AfterGet(f, s, g) == AfterSkip(f, s, g) /\ (g.ok => g.got = s)

\* get<Field>AsString() as its two moves.
LEMMA GetUnfold ==
    ASSUME NEW f, NEW field
    PROVE  LET p == f.position
               w == field.headerLength
               k == Load(f.buffer, p, w).val
               h == sbePosition(sbePosition(f, p + w), p + w + k)
           IN  GetString(f, field) =
                  IF ~h.ok THEN h
                  ELSE Returned(h, IF k = 0 THEN Empty ELSE Load(f.buffer, p + w, k))
BY Zenon DEF GetString

\* get<Field>AsString() returns the text at the position, if all of it is there.
LEMMA GetStringLemma ==
    ASSUME NEW f, IsFlyweight(f), NEW s, IsText(s), f.limit = f.buffer.size,
           f.ok => WrittenIn(f.buffer, f.position, s)
    PROVE  AfterGet(f, s, GetString(f, VarData))
<1> PICK m : m = sbePosition(f, f.position + 2)
  OBVIOUS
<1> PICK k : k = Load(f.buffer, f.position, 2).val
  OBVIOUS
<1> PICK h : h = sbePosition(m, f.position + 2 + k)
  OBVIOUS
<1> PICK text : text = IF k = 0 THEN Empty ELSE Load(f.buffer, f.position + 2, k)
  OBVIOUS
<1> PICK g : g = GetString(f, VarData)
  OBVIOUS
<1>1. g = IF ~h.ok THEN h ELSE Returned(h, text)
  <2>1. VarData.headerLength = 2
    BY DEF VarData, VarDataField
  <2> QED BY <2>1, GetUnfold, Zenon
<1>2. AfterSkip(f, s, h)
  BY TwoMoves
<1>3. IsFlyweight(h)
  BY <1>2, Zenon DEF AfterSkip
<1>4. CASE ~h.ok
  BY <1>1, <1>2, <1>4, Zenon DEF AfterGet
<1>5. CASE h.ok
  <2>1. f.ok /\ f.position + 2 + s.len <= f.limit
    BY <1>2, <1>5, Zenon DEF AfterSkip
  <2>2. f.position \in Nat /\ f.limit \in Int /\ s.len \in Nat
    BY DEF IsFlyweight, IsText
  <2>3. f.position < f.buffer.size /\ (s.len # 0 => f.position + 2 < f.buffer.size)
    BY <2>1, <2>2
  <2>4. k = s.len
    BY <2>1, <2>2, <2>3, LengthRead, Zenon
  <2>5. text = s
    <3>1. CASE s.len = 0
      BY <2>4, <3>1, EmptyText, Zenon
    <3>2. CASE s.len # 0
      BY <2>1, <2>2, <2>3, <2>4, <3>2, TextRead, Zenon
    <3> QED BY <3>1, <3>2, Zenon
  <2>6. /\ IsFlyweight(g) /\ g.limit = h.limit /\ g.offset = h.offset /\ g.ok = h.ok
        /\ g.position = h.position /\ g.buffer = h.buffer /\ g.got = s
    <3>1. g = Returned(h, s)
      BY <1>1, <1>5, <2>5, Zenon
    <3> QED BY <1>3, <3>1, NewGotLemma
  <2> QED BY <1>2, <2>6, Zenon DEF AfterGet, AfterSkip
<1> QED BY <1>4, <1>5, Zenon

-----------------------------------------------------------------------------
\* Where the texts ks of a message begin, and where the last one ends.
Layout(at, ks, n) ==
    /\ n \in Nat
    /\ \A i \in 1 .. n : IsText(ks[i])
    /\ \A i \in 1 .. n + 1 : at[i] \in Nat
    /\ \A i \in 1 .. n : at[i + 1] = at[i] + 2 + ks[i].len
    /\ \A i, j \in 1 .. n + 1 : i < j => at[i] + 2 + ks[i].len <= at[j]

\* The flyweight g is what f becomes when the first n texts have been put.
WrittenAll(b, at, ks, n) == \A i \in 1 .. n : Written(b, at[i], ks[i])
Filled(f, at, ks, n, g) ==
    /\ IsFlyweight(g) /\ g.limit = f.limit /\ g.offset = f.offset
    /\ g.ok <=> (f.ok /\ at[n + 1] <= f.limit)
    /\ g.ok => /\ g.position = at[n + 1]
               /\ g.buffer.size = f.buffer.size
               /\ Below(f.buffer, g.buffer, at[1])
               /\ WrittenAll(g.buffer, at, ks, n)

\* No text put.
LEMMA FillNone ==
    ASSUME NEW f, IsFlyweight(f), f.ok => f.position <= f.limit,
           NEW at, NEW ks, at[1] = f.position
    PROVE  Filled(f, at, ks, 0, f)
<1>1. Below(f.buffer, f.buffer, at[1])
  BY Zenon DEF Below
<1>2. WrittenAll(f.buffer, at, ks, 0)
  BY DEF WrittenAll
<1>3. 0 + 1 = 1
  OBVIOUS
<1> QED BY <1>1, <1>2, <1>3, Zenon DEF Filled

\* What has been written stays when more is written behind it.
LEMMA WrittenStays ==
    ASSUME NEW a, NEW b, NEW q \in Nat, Below(a, b, q), NEW p \in Nat, NEW s, s.len \in Nat,
           p + 2 + s.len <= q, Written(a, p, s)
    PROVE  Written(b, p, s)
<1>1. p < q /\ p \in Int /\ p + 2 \in Int /\ (s.len > 0 => p + 2 < q)
  OBVIOUS
<1>2. Holds(b, p, Number(s.len, 2))
  BY <1>1, Zenon DEF Written, Below
<1>3. s.len > 0 => Holds(b, p + 2, s)
  BY <1>1, Zenon DEF Written, Below
<1> QED BY <1>2, <1>3, Zenon DEF Written

\* What two steps keep, both keep.
LEMMA BelowLess ==
    ASSUME NEW a, NEW b, NEW c, NEW p \in Nat, NEW q \in Nat, p <= q, Below(a, b, p), Below(b, c, q)
    PROVE  Below(a, c, p)
<1> SUFFICES ASSUME NEW o \in Int, NEW x, o < p, Holds(a, o, x)
             PROVE  Holds(c, o, x)
  BY Zenon DEF Below
<1>1. o < q
  OBVIOUS
<1> QED BY <1>1, Zenon DEF Below

\* One text more put.
LEMMA FillStep ==
    ASSUME NEW f, NEW at, NEW ks, NEW total, Layout(at, ks, total), NEW n \in Nat, n < total,
           NEW g, Filled(f, at, ks, n, g), NEW h, AfterPut(g, ks[n + 1], h),
           f.limit \in Int
    PROVE  Filled(f, at, ks, n + 1, h)
<1>1. /\ IsFlyweight(h) /\ h.limit = f.limit /\ h.offset = f.offset
      /\ h.ok <=> (g.ok /\ g.position + 2 + ks[n + 1].len <= g.limit)
      /\ h.ok => /\ h.position = g.position + 2 + ks[n + 1].len
                 /\ Written(h.buffer, g.position, ks[n + 1])
                 /\ Below(g.buffer, h.buffer, g.position)
                 /\ h.buffer.size = g.buffer.size
  BY Zenon DEF AfterPut, Filled
<1>2. /\ n + 1 \in 1 .. total /\ n + 1 \in 1 .. total + 1 /\ n + 2 \in 1 .. total + 1
      /\ 1 \in 1 .. total + 1
      /\ (n + 1) + 1 = n + 2 /\ total \in Nat
  BY DEF Layout
<1>3. /\ at[n + 1] \in Nat /\ at[n + 2] \in Nat /\ at[1] \in Nat /\ ks[n + 1].len \in Nat
      /\ at[n + 2] = at[n + 1] + 2 + ks[n + 1].len
  BY <1>2, Zenon DEF Layout, IsText
<1>4. at[1] <= at[n + 1]
  <2>1. CASE n = 0
    BY <2>1, <1>3
  <2>2. CASE n # 0
    <3>1. 1 < n + 1 /\ 1 \in 1 .. total
      BY <2>2, <1>2
    <3>2. at[1] + 2 + ks[1].len <= at[n + 1] /\ ks[1].len \in Nat
      BY <1>2, <3>1, Zenon DEF Layout, IsText
    <3> QED BY <1>3, <3>2
  <2> QED BY <2>1, <2>2, Zenon
<1>5. /\ IsFlyweight(g) /\ g.limit = f.limit /\ g.offset = f.offset
      /\ g.ok <=> (f.ok /\ at[n + 1] <= f.limit)
      /\ g.ok => /\ g.position = at[n + 1]
                 /\ g.buffer.size = f.buffer.size
                 /\ Below(f.buffer, g.buffer, at[1])
                 /\ WrittenAll(g.buffer, at, ks, n)
  BY Zenon DEF Filled
<1>6. h.ok <=> (f.ok /\ at[n + 2] <= f.limit)
  <2>1. CASE g.ok
    BY <1>1, <1>3, <1>5, <2>1
  <2>2. CASE ~g.ok
    BY <1>1, <1>3, <1>5, <2>2
  <2> QED BY <2>1, <2>2, Zenon
<1>7. ASSUME h.ok
      PROVE  /\ h.position = at[n + 2] /\ h.buffer.size = f.buffer.size
             /\ Below(f.buffer, h.buffer, at[1]) /\ WrittenAll(h.buffer, at, ks, n + 1)
  <2>1. g.ok
    BY <1>1, <1>7, Zenon
  <2>2. h.position = at[n + 2] /\ h.buffer.size = f.buffer.size
    BY <1>1, <1>3, <1>5, <1>7, <2>1, Zenon
  <2>3. Below(g.buffer, h.buffer, at[n + 1]) /\ Below(f.buffer, g.buffer, at[1])
    BY <1>1, <1>5, <1>7, <2>1, Zenon
  <2>4. Below(f.buffer, h.buffer, at[1])
    BY <1>3, <1>4, <2>3, BelowLess
  <2>5. ASSUME NEW i \in 1 .. n + 1
        PROVE  Written(h.buffer, at[i], ks[i])
    <3>1. CASE i = n + 1
      BY <1>1, <1>5, <1>7, <2>1, <3>1, Zenon
    <3>2. CASE i # n + 1
      <4>1. i \in 1 .. n /\ i \in 1 .. total /\ i \in 1 .. total + 1 /\ i < n + 1
        BY <3>2, <1>2
      <4>2. Written(g.buffer, at[i], ks[i])
        BY <1>5, <2>1, <4>1, Zenon DEF WrittenAll
      <4>3. at[i] \in Nat /\ ks[i].len \in Nat /\ at[i] + 2 + ks[i].len <= at[n + 1]
        BY <1>2, <4>1, Zenon DEF Layout, IsText
      <4> QED BY <1>3, <2>3, <4>2, <4>3, WrittenStays, Zenon
    <3> QED BY <3>1, <3>2, Zenon
  <2>6. WrittenAll(h.buffer, at, ks, n + 1)
    BY <2>5, Zenon DEF WrittenAll
  <2> QED BY <2>2, <2>4, <2>6, Zenon
<1> QED BY <1>1, <1>2, <1>6, <1>7, Zenon DEF Filled

-----------------------------------------------------------------------------
\* The recursive functions of Flyweight, unfolded for the numbers of fields
\* the messages have.

RawsRun(f, fields, strings, n, after) ==
    /\ after[0] = f
    /\ \A i \in 1 .. n : after[i] = PutRaw(after[i - 1], fields[i], strings[i])
    /\ PutRaws(f, fields, strings) = after[n]

\* The put calls of a message, one after the other.
LEMMA PutRawsSteps ==
    ASSUME NEW f, NEW fields, NEW strings, NEW n \in 0 .. 5, Len(fields) = n
    PROVE  \E after : RawsRun(f, fields, strings, n, after)
<1>1. PICK p1 : p1 = PutRaw(f, fields[1], strings[1])
  OBVIOUS
<1>2. PICK p2 : p2 = PutRaw(p1, fields[2], strings[2])
  OBVIOUS
<1>3. PICK p3 : p3 = PutRaw(p2, fields[3], strings[3])
  OBVIOUS
<1>4. PICK p4 : p4 = PutRaw(p3, fields[4], strings[4])
  OBVIOUS
<1>5. PICK p5 : p5 = PutRaw(p4, fields[5], strings[5])
  OBVIOUS
<1> DEFINE F(a) == [i \in 0 .. Len(fields) |->
                      IF i = 0 THEN f ELSE PutRaw(a[i - 1], fields[i], strings[i])]
           w == [i \in 0 .. n |-> <<f, p1, p2, p3, p4, p5>>[i + 1]]
           c == CHOOSE a : a = F(a)
<1>6. w = F(w)
  <2>1. \A i \in 0 .. n : w[i] = F(w)[i]
    BY <1>1, <1>2, <1>3, <1>4, <1>5
  <2> QED BY <2>1
<1>7. c = F(c)
  <2> HIDE DEF w, F
  <2> QED BY <1>6
<1>8. PutRaws(f, fields, strings) = c[n]
  BY Zenon DEF PutRaws
<1>9. c[0] = f /\ \A i \in 1 .. n : c[i] = PutRaw(c[i - 1], fields[i], strings[i])
  <2> HIDE DEF c
  <2> QED BY <1>7
<1> HIDE DEF c
<1> QED BY <1>8, <1>9, Zenon DEF RawsRun
StringsRun(f, fields, strings, n, after) ==
    /\ after[0] = f
    /\ \A i \in 1 .. n : after[i] = PutString(after[i - 1], fields[i], strings[i])
    /\ PutStrings(f, fields, strings) = after[n]

\* The same with strings.
LEMMA PutStringsSteps ==
    ASSUME NEW f, NEW fields, NEW strings, NEW n \in 0 .. 5, Len(fields) = n
    PROVE  \E after : StringsRun(f, fields, strings, n, after)
<1>1. PICK p1 : p1 = PutString(f, fields[1], strings[1])
  OBVIOUS
<1>2. PICK p2 : p2 = PutString(p1, fields[2], strings[2])
  OBVIOUS
<1>3. PICK p3 : p3 = PutString(p2, fields[3], strings[3])
  OBVIOUS
<1>4. PICK p4 : p4 = PutString(p3, fields[4], strings[4])
  OBVIOUS
<1>5. PICK p5 : p5 = PutString(p4, fields[5], strings[5])
  OBVIOUS
<1> DEFINE F(a) == [i \in 0 .. Len(fields) |->
                      IF i = 0 THEN f ELSE PutString(a[i - 1], fields[i], strings[i])]
           w == [i \in 0 .. n |-> <<f, p1, p2, p3, p4, p5>>[i + 1]]
           c == CHOOSE a : a = F(a)
<1>6. w = F(w)
  <2>1. \A i \in 0 .. n : w[i] = F(w)[i]
    BY <1>1, <1>2, <1>3, <1>4, <1>5
  <2> QED BY <2>1
<1>7. c = F(c)
  <2> HIDE DEF w, F
  <2> QED BY <1>6
<1>8. PutStrings(f, fields, strings) = c[n]
  BY Zenon DEF PutStrings
<1>9. c[0] = f /\ \A i \in 1 .. n : c[i] = PutString(c[i - 1], fields[i], strings[i])
  <2> HIDE DEF c
  <2> QED BY <1>7
<1> HIDE DEF c
<1> QED BY <1>8, <1>9, Zenon DEF StringsRun
GetsRun(f, fields, n, after) ==
    /\ after[0] = f
    /\ \A i \in 1 .. n : after[i] = GetString(after[i - 1], fields[i])
    /\ GetStrings(f, fields) = after

\* The get calls of a message, one after the other.
LEMMA GetStringsSteps ==
    ASSUME NEW f, NEW fields, NEW n \in 0 .. 5, Len(fields) = n
    PROVE  \E after : GetsRun(f, fields, n, after)
<1>1. PICK p1 : p1 = GetString(f, fields[1])
  OBVIOUS
<1>2. PICK p2 : p2 = GetString(p1, fields[2])
  OBVIOUS
<1>3. PICK p3 : p3 = GetString(p2, fields[3])
  OBVIOUS
<1>4. PICK p4 : p4 = GetString(p3, fields[4])
  OBVIOUS
<1>5. PICK p5 : p5 = GetString(p4, fields[5])
  OBVIOUS
<1> DEFINE F(a) == [i \in 0 .. Len(fields) |->
                      IF i = 0 THEN f ELSE GetString(a[i - 1], fields[i])]
           w == [i \in 0 .. n |-> <<f, p1, p2, p3, p4, p5>>[i + 1]]
           c == CHOOSE a : a = F(a)
<1>6. w = F(w)
  <2>1. \A i \in 0 .. n : w[i] = F(w)[i]
    BY <1>1, <1>2, <1>3, <1>4, <1>5
  <2> QED BY <2>1
<1>7. c = F(c)
  <2> HIDE DEF w, F
  <2> QED BY <1>6
<1>8. GetStrings(f, fields) = c
  BY Zenon DEF GetStrings
<1>9. c[0] = f /\ \A i \in 1 .. n : c[i] = GetString(c[i - 1], fields[i])
  <2> HIDE DEF c
  <2> QED BY <1>7
<1> HIDE DEF c
<1> QED BY <1>8, <1>9, Zenon DEF GetsRun
SkipsRun(f, fields, n, after) ==
    /\ after[0] = f
    /\ \A i \in 1 .. n : after[i] = Skip(after[i - 1], fields[i])
    /\ SkipAll(f, fields) = after[n]

\* The skip calls of a message, one after the other.
LEMMA SkipAllSteps ==
    ASSUME NEW f, NEW fields, NEW n \in 0 .. 5, Len(fields) = n
    PROVE  \E after : SkipsRun(f, fields, n, after)
<1>1. PICK p1 : p1 = Skip(f, fields[1])
  OBVIOUS
<1>2. PICK p2 : p2 = Skip(p1, fields[2])
  OBVIOUS
<1>3. PICK p3 : p3 = Skip(p2, fields[3])
  OBVIOUS
<1>4. PICK p4 : p4 = Skip(p3, fields[4])
  OBVIOUS
<1>5. PICK p5 : p5 = Skip(p4, fields[5])
  OBVIOUS
<1> DEFINE F(a) == [i \in 0 .. Len(fields) |->
                      IF i = 0 THEN f ELSE Skip(a[i - 1], fields[i])]
           w == [i \in 0 .. n |-> <<f, p1, p2, p3, p4, p5>>[i + 1]]
           c == CHOOSE a : a = F(a)
<1>6. w = F(w)
  <2>1. \A i \in 0 .. n : w[i] = F(w)[i]
    BY <1>1, <1>2, <1>3, <1>4, <1>5
  <2> QED BY <2>1
<1>7. c = F(c)
  <2> HIDE DEF w, F
  <2> QED BY <1>6
<1>8. SkipAll(f, fields) = c[n]
  BY Zenon DEF SkipAll
<1>9. c[0] = f /\ \A i \in 1 .. n : c[i] = Skip(c[i - 1], fields[i])
  <2> HIDE DEF c
  <2> QED BY <1>7
<1> HIDE DEF c
<1> QED BY <1>8, <1>9, Zenon DEF SkipsRun
Longer(length, field, n) == length + field.headerLength + n
LengthRun(block, fields, lengths, n, after) ==
    /\ after[0] = block
    /\ \A i \in 1 .. n : after[i] = Longer(after[i - 1], fields[i], lengths[i])
    /\ ComputeLength(block, fields, lengths).length = after[n]

\* The sum that computeLength() makes, one field after the other.
LEMMA LengthSteps ==
    ASSUME NEW block, NEW fields, NEW lengths, NEW n \in 0 .. 5, Len(fields) = n
    PROVE  \E after : LengthRun(block, fields, lengths, n, after)
<1>1. PICK p1 : p1 = Longer(block, fields[1], lengths[1])
  OBVIOUS
<1>2. PICK p2 : p2 = Longer(p1, fields[2], lengths[2])
  OBVIOUS
<1>3. PICK p3 : p3 = Longer(p2, fields[3], lengths[3])
  OBVIOUS
<1>4. PICK p4 : p4 = Longer(p3, fields[4], lengths[4])
  OBVIOUS
<1>5. PICK p5 : p5 = Longer(p4, fields[5], lengths[5])
  OBVIOUS
<1> DEFINE F(a) == [i \in 0 .. Len(fields) |->
                      IF i = 0 THEN block ELSE Longer(a[i - 1], fields[i], lengths[i])]
           w == [i \in 0 .. n |-> <<block, p1, p2, p3, p4, p5>>[i + 1]]
           c == CHOOSE a : a = F(a)
<1>6. w = F(w)
  <2>1. \A i \in 0 .. n : w[i] = F(w)[i]
    BY <1>1, <1>2, <1>3, <1>4, <1>5
  <2> QED BY <2>1
<1>7. c = F(c)
  <2> HIDE DEF w, F
  <2> QED BY <1>6
<1>8. ComputeLength(block, fields, lengths).length = c[n]
  BY Zenon DEF ComputeLength, Longer
<1>9. c[0] = block /\ \A i \in 1 .. n : c[i] = Longer(c[i - 1], fields[i], lengths[i])
  <2> HIDE DEF c
  <2> QED BY <1>7
<1> HIDE DEF c
<1> QED BY <1>8, <1>9, Zenon DEF LengthRun
-----------------------------------------------------------------------------
\* Texts put one after the other.
LEMMA FillAll ==
    ASSUME NEW f, IsFlyweight(f), f.ok => f.position <= f.limit,
           NEW at, NEW ks, NEW n \in 0 .. 5, Layout(at, ks, n), at[1] = f.position,
           NEW after, after[0] = f,
           \A i \in 1 .. n : IsFlyweight(after[i - 1]) => AfterPut(after[i - 1], ks[i], after[i])
    PROVE  Filled(f, at, ks, n, after[n])
<1> DEFINE Until(i) == i <= n => Filled(f, at, ks, i, after[i])
<1>1. Until(0)
  BY FillNone, Zenon
<1>2. ASSUME NEW i \in 0 .. 4, Until(i)
      PROVE  Until(i + 1)
  <2>1. SUFFICES ASSUME i + 1 <= n PROVE Filled(f, at, ks, i + 1, after[i + 1])
    OBVIOUS
  <2>2. i \in Nat /\ i < n /\ i <= n /\ i + 1 \in 1 .. n /\ (i + 1) - 1 = i
    BY <2>1
  <2>3. Filled(f, at, ks, i, after[i])
    BY <1>2, <2>2, Zenon
  <2>4. IsFlyweight(after[i])
    BY <2>3, Zenon DEF Filled
  <2>5. AfterPut(after[i], ks[i + 1], after[i + 1])
    BY <2>2, <2>4
  <2>6. f.limit \in Int
    BY DEF IsFlyweight
  <2> QED BY <2>2, <2>3, <2>5, <2>6, FillStep, Zenon
<1>3. /\ 0 \in 0 .. 4 /\ 1 \in 0 .. 4 /\ 2 \in 0 .. 4 /\ 3 \in 0 .. 4 /\ 4 \in 0 .. 4
      /\ 0 + 1 = 1 /\ 1 + 1 = 2 /\ 2 + 1 = 3 /\ 3 + 1 = 4 /\ 4 + 1 = 5
  OBVIOUS
<1> HIDE DEF Until
<1>4. Until(1) /\ Until(2) /\ Until(3) /\ Until(4) /\ Until(5)
  <2>1. Until(1)
    BY <1>1, <1>2, <1>3, Zenon
  <2>2. Until(2)
    BY <2>1, <1>2, <1>3, Zenon
  <2>3. Until(3)
    BY <2>2, <1>2, <1>3, Zenon
  <2>4. Until(4)
    BY <2>3, <1>2, <1>3, Zenon
  <2>5. Until(5)
    BY <2>4, <1>2, <1>3, Zenon
  <2> QED BY <2>1, <2>2, <2>3, <2>4, <2>5, Zenon
<1>5. n = 0 \/ n = 1 \/ n = 2 \/ n = 3 \/ n = 4 \/ n = 5
  OBVIOUS
<1>6. n <= n
  OBVIOUS
<1>7. Until(n)
  BY <1>1, <1>4, <1>5, Zenon
<1> QED BY <1>6, <1>7, Zenon DEF Until

\* put<Field>(src, length), for every field of a message.
LEMMA PutRawsFill ==
    ASSUME NEW f, IsFlyweight(f), f.ok => f.position <= f.limit,
           NEW fields, NEW strings, NEW n \in 0 .. 5, Len(fields) = n,
           \A i \in 1 .. n : fields[i] = VarData /\ IsText(strings[i]),
           NEW at, NEW ks, Layout(at, ks, n), at[1] = f.position,
           \A i \in 1 .. n : ks[i] = Kept(strings[i])
    PROVE  Filled(f, at, ks, n, PutRaws(f, fields, strings))
<1>1. PICK after : RawsRun(f, fields, strings, n, after)
  BY PutRawsSteps, Zenon
<1>2. ASSUME NEW i \in 1 .. n, IsFlyweight(after[i - 1])
      PROVE  AfterPut(after[i - 1], ks[i], after[i])
  <2>1. fields[i] = VarData /\ IsText(strings[i]) /\ ks[i] = Kept(strings[i])
    BY Zenon
  <2>2. after[i] = PutRaw(after[i - 1], VarData, strings[i])
    BY <1>1, <2>1, Zenon DEF RawsRun
  <2>3. AfterPut(after[i - 1], Kept(strings[i]), PutRaw(after[i - 1], VarData, strings[i]))
    BY <1>2, <2>1, PutRawLemma, Zenon
  <2> QED BY <2>1, <2>2, <2>3, Zenon
<1>3. Filled(f, at, ks, n, after[n])
  BY <1>1, <1>2, FillAll, Zenon DEF RawsRun
<1> QED BY <1>1, <1>3, Zenon DEF RawsRun

\* A text that put<Field>(std::string) does not refuse.
Short(s) == s.len <= 65534

\* put<Field>(std::string) does not refuse a short text, and keeps all of it.
LEMMA PutStringShort ==
    ASSUME NEW f, IsFlyweight(f), NEW s, IsText(s), Short(s)
    PROVE  PutString(f, VarData, s) = PutRaw(f, VarData, s) /\ Kept(s) = s
<1>1. s.len <= 65534
  BY DEF Short
<1>2. VarData.maxLength = 65534 /\ s.len \in Nat
  BY DEF VarData, VarDataField, IsText
<1>3. PutString(f, VarData, s) = PutRaw(f, VarData, s)
  BY <1>1, <1>2 DEF PutString
<1>4. s.len < UINT16_RANGE
  BY <1>1, <1>2, RangeValue
<1>5. Kept(s) = s
  BY <1>4, KeptText, Zenon
<1> QED BY <1>3, <1>5, Zenon

\* put<Field>(std::string), for texts that are not refused.
LEMMA PutStringsFill ==
    ASSUME NEW f, IsFlyweight(f), f.ok => f.position <= f.limit,
           NEW fields, NEW ks, NEW n \in 0 .. 5, Len(fields) = n,
           \A i \in 1 .. n : fields[i] = VarData /\ Short(ks[i]),
           NEW at, Layout(at, ks, n), at[1] = f.position
    PROVE  Filled(f, at, ks, n, PutStrings(f, fields, ks))
<1>1. PICK after : StringsRun(f, fields, ks, n, after)
  BY PutStringsSteps, Zenon
<1>2. ASSUME NEW i \in 1 .. n, IsFlyweight(after[i - 1])
      PROVE  AfterPut(after[i - 1], ks[i], after[i])
  <2>1. IsText(ks[i])
    BY Zenon DEF Layout
  <2>2. after[i] = PutRaw(after[i - 1], VarData, ks[i]) /\ Kept(ks[i]) = ks[i]
    <3>1. after[i] = PutString(after[i - 1], VarData, ks[i]) /\ Short(ks[i])
      BY <1>1, Zenon DEF StringsRun
    <3> QED BY <1>2, <2>1, <3>1, PutStringShort
  <2>3. AfterPut(after[i - 1], Kept(ks[i]), PutRaw(after[i - 1], VarData, ks[i]))
    BY <1>2, <2>1, PutRawLemma, Zenon
  <2> QED BY <2>2, <2>3, Zenon
<1>3. Filled(f, at, ks, n, after[n])
  BY <1>1, <1>2, FillAll, Zenon DEF StringsRun
<1> QED BY <1>1, <1>3, Zenon DEF StringsRun

-----------------------------------------------------------------------------
\* The flyweight g is what f becomes when it has moved past the first n texts.
Passed(f, at, n, g) ==
    /\ IsFlyweight(g) /\ g.limit = f.limit /\ g.offset = f.offset /\ g.buffer = f.buffer
    /\ g.ok <=> (f.ok /\ at[n + 1] <= f.limit)
    /\ g.ok => g.position = at[n + 1]

\* No text passed.
LEMMA PassNone ==
    ASSUME NEW f, IsFlyweight(f), f.ok => f.position <= f.limit, NEW at, at[1] = f.position
    PROVE  Passed(f, at, 0, f)
<1>1. 0 + 1 = 1
  OBVIOUS
<1> QED BY <1>1, Zenon DEF Passed

\* One text more passed.
LEMMA PassStep ==
    ASSUME NEW f, f.limit \in Int, NEW at, NEW ks, NEW total, Layout(at, ks, total),
           NEW n \in Nat, n < total,
           NEW g, Passed(f, at, n, g), NEW h, AfterSkip(g, ks[n + 1], h)
    PROVE  Passed(f, at, n + 1, h)
<1>1. /\ IsFlyweight(h) /\ h.limit = f.limit /\ h.offset = f.offset /\ h.buffer = f.buffer
      /\ h.ok <=> (g.ok /\ g.position + 2 + ks[n + 1].len <= g.limit)
      /\ h.ok => h.position = g.position + 2 + ks[n + 1].len
  BY Zenon DEF AfterSkip, Passed
<1>2. /\ n + 1 \in 1 .. total /\ n + 1 \in 1 .. total + 1 /\ n + 2 \in 1 .. total + 1
      /\ (n + 1) + 1 = n + 2
  BY DEF Layout
<1>3. /\ at[n + 1] \in Nat /\ at[n + 2] \in Nat /\ ks[n + 1].len \in Nat
      /\ at[n + 2] = at[n + 1] + 2 + ks[n + 1].len
  BY <1>2, Zenon DEF Layout, IsText
<1>4. /\ g.limit = f.limit /\ (g.ok => g.position = at[n + 1])
      /\ g.ok <=> (f.ok /\ at[n + 1] <= f.limit)
  BY Zenon DEF Passed
<1>5. h.ok <=> (f.ok /\ at[n + 2] <= f.limit)
  <2>1. CASE g.ok
    BY <1>1, <1>3, <1>4, <2>1
  <2>2. CASE ~g.ok
    BY <1>1, <1>3, <1>4, <2>2
  <2> QED BY <2>1, <2>2, Zenon
<1>6. h.ok => h.position = at[n + 2]
  BY <1>1, <1>3, <1>4, Zenon
<1> QED BY <1>1, <1>2, <1>5, <1>6, Zenon DEF Passed

\* Every text of a message, as far as the buffer has not been cut.
WrittenAllIn(b, at, ks, n) == \A i \in 1 .. n : WrittenIn(b, at[i], ks[i])

\* Texts read or skipped one after the other.
LEMMA PassAll ==
    ASSUME NEW f, IsFlyweight(f), f.ok => f.position <= f.limit, f.limit = f.buffer.size,
           NEW at, NEW ks, NEW n \in 0 .. 5, Layout(at, ks, n), at[1] = f.position,
           WrittenAllIn(f.buffer, at, ks, n),
           NEW after, after[0] = f,
           \A i \in 1 .. n :
              LET g == after[i - 1]
              IN  IsFlyweight(g) /\ g.buffer = f.buffer /\ g.limit = g.buffer.size
                     /\ (g.ok => WrittenIn(g.buffer, g.position, ks[i]) /\ g.position = at[i])
                  => AfterSkip(g, ks[i], after[i])
    PROVE  \A i \in 0 .. n : Passed(f, at, i, after[i])
<1> DEFINE Until(i) == i <= n => Passed(f, at, i, after[i])
<1>1. Until(0)
  BY PassNone, Zenon
<1>2. ASSUME NEW i \in 0 .. 4, Until(i)
      PROVE  Until(i + 1)
  <2>1. SUFFICES ASSUME i + 1 <= n PROVE Passed(f, at, i + 1, after[i + 1])
    OBVIOUS
  <2>2. i \in Nat /\ i < n /\ i <= n /\ i + 1 \in 1 .. n /\ (i + 1) - 1 = i
    BY <2>1
  <2>3. Passed(f, at, i, after[i])
    BY <1>2, <2>2, Zenon
  <2>4. /\ IsFlyweight(after[i]) /\ after[i].buffer = f.buffer
        /\ after[i].limit = after[i].buffer.size
        /\ after[i].ok => after[i].position = at[i + 1]
    BY <2>3, Zenon DEF Passed
  <2>5. WrittenIn(f.buffer, at[i + 1], ks[i + 1])
    BY <2>2, Zenon DEF WrittenAllIn
  <2>6. after[i].ok => WrittenIn(after[i].buffer, after[i].position, ks[i + 1])
    BY <2>4, <2>5, Zenon
  <2>7. AfterSkip(after[i], ks[i + 1], after[i + 1])
    BY <2>2, <2>4, <2>6
  <2>8. f.limit \in Int
    BY DEF IsFlyweight
  <2> QED BY <2>2, <2>3, <2>7, <2>8, PassStep, Zenon
<1>3. /\ 0 \in 0 .. 4 /\ 1 \in 0 .. 4 /\ 2 \in 0 .. 4 /\ 3 \in 0 .. 4 /\ 4 \in 0 .. 4
      /\ 0 + 1 = 1 /\ 1 + 1 = 2 /\ 2 + 1 = 3 /\ 3 + 1 = 4 /\ 4 + 1 = 5
  OBVIOUS
<1> HIDE DEF Until
<1>4. Until(1) /\ Until(2) /\ Until(3) /\ Until(4) /\ Until(5)
  <2>1. Until(1)
    BY <1>1, <1>2, <1>3, Zenon
  <2>2. Until(2)
    BY <2>1, <1>2, <1>3, Zenon
  <2>3. Until(3)
    BY <2>2, <1>2, <1>3, Zenon
  <2>4. Until(4)
    BY <2>3, <1>2, <1>3, Zenon
  <2>5. Until(5)
    BY <2>4, <1>2, <1>3, Zenon
  <2> QED BY <2>1, <2>2, <2>3, <2>4, <2>5, Zenon
<1>5. ASSUME NEW i \in 0 .. n PROVE Passed(f, at, i, after[i])
  <2>1. (i = 0 \/ i = 1 \/ i = 2 \/ i = 3 \/ i = 4 \/ i = 5) /\ i <= n
    OBVIOUS
  <2>2. Until(i)
    BY <1>1, <1>4, <2>1, Zenon
  <2> QED BY <2>1, <2>2, Zenon DEF Until
<1> QED BY <1>5, Zenon

\* get<Field>AsString(), for every field of a message.
LEMMA GetStringsRead ==
    ASSUME NEW f, IsFlyweight(f), f.ok => f.position <= f.limit, f.limit = f.buffer.size,
           NEW fields, NEW n \in 0 .. 5, Len(fields) = n, \A i \in 1 .. n : fields[i] = VarData,
           NEW at, NEW ks, Layout(at, ks, n), at[1] = f.position,
           WrittenAllIn(f.buffer, at, ks, n)
    PROVE  \A i \in 1 .. n :
              /\ Passed(f, at, i, GetStrings(f, fields)[i])
              /\ GetStrings(f, fields)[i].ok => GetStrings(f, fields)[i].got = ks[i]
<1>1. PICK after : GetsRun(f, fields, n, after)
  BY GetStringsSteps, Zenon
<1>2. ASSUME NEW i \in 1 .. n, IsFlyweight(after[i - 1]),
             after[i - 1].limit = after[i - 1].buffer.size,
             after[i - 1].ok => WrittenIn(after[i - 1].buffer, after[i - 1].position, ks[i])
      PROVE  AfterGet(after[i - 1], ks[i], after[i])
  <2>1. IsText(ks[i]) /\ after[i] = GetString(after[i - 1], VarData)
    BY <1>1, Zenon DEF Layout, GetsRun
  <2>2. AfterGet(after[i - 1], ks[i], GetString(after[i - 1], VarData))
    BY <1>2, <2>1, GetStringLemma, Zenon
  <2> QED BY <2>1, <2>2, Zenon
<1>3. \A i \in 0 .. n : Passed(f, at, i, after[i])
  <2>1. after[0] = f
    BY <1>1, Zenon DEF GetsRun
  <2>2. \A i \in 1 .. n :
              LET g == after[i - 1]
              IN  IsFlyweight(g) /\ g.buffer = f.buffer /\ g.limit = g.buffer.size
                     /\ (g.ok => WrittenIn(g.buffer, g.position, ks[i]) /\ g.position = at[i])
                  => AfterSkip(g, ks[i], after[i])
    BY <1>2, Zenon DEF AfterGet
  <2> QED BY <2>1, <2>2, PassAll, Zenon
<1>4. ASSUME NEW i \in 1 .. n
      PROVE  Passed(f, at, i, after[i]) /\ (after[i].ok => after[i].got = ks[i])
  <2>1. i \in 0 .. n /\ i - 1 \in 0 .. n /\ (i - 1) + 1 = i
    OBVIOUS
  <2>2. Passed(f, at, i, after[i]) /\ Passed(f, at, i - 1, after[i - 1])
    BY <1>3, <2>1, Zenon
  <2>3. /\ IsFlyweight(after[i - 1]) /\ after[i - 1].limit = after[i - 1].buffer.size
        /\ after[i - 1].buffer = f.buffer
        /\ after[i - 1].ok => after[i - 1].position = at[i]
    BY <2>1, <2>2 DEF Passed
  <2>4. WrittenIn(f.buffer, at[i], ks[i])
    BY Zenon DEF WrittenAllIn
  <2>5. AfterGet(after[i - 1], ks[i], after[i])
    BY <1>2, <2>3, <2>4, Zenon
  <2> QED BY <2>2, <2>5, Zenon DEF AfterGet
<1>5. GetStrings(f, fields) = after
  BY <1>1, Zenon DEF GetsRun
<1> QED BY <1>4, <1>5, Zenon

\* skip(), over a message that has not been cut.
LEMMA SkipAllEnds ==
    ASSUME NEW f, IsFlyweight(f), f.ok, f.limit = f.buffer.size,
           NEW fields, NEW n \in 0 .. 5, Len(fields) = n, \A i \in 1 .. n : fields[i] = VarData,
           NEW at, NEW ks, Layout(at, ks, n), at[1] = f.position,
           WrittenAllIn(f.buffer, at, ks, n), f.position <= f.limit, at[n + 1] <= f.limit
    PROVE  SkipAll(f, fields).ok = TRUE /\ SkipAll(f, fields).position = at[n + 1]
<1>1. PICK after : SkipsRun(f, fields, n, after)
  BY SkipAllSteps, Zenon
<1>2. \A i \in 1 .. n : at[i] + 2 <= f.limit
  <2> TAKE i \in 1 .. n
  <2>1. i < n + 1 /\ i \in 1 .. n + 1 /\ n + 1 \in 1 .. n + 1
    OBVIOUS
  <2>2. at[i] \in Nat /\ at[n + 1] \in Nat /\ ks[i].len \in Nat
        /\ at[i] + 2 + ks[i].len <= at[n + 1]
    BY <2>1, Zenon DEF Layout, IsText
  <2>3. f.limit \in Int
    BY DEF IsFlyweight
  <2> QED BY <2>2, <2>3
<1>3. ASSUME NEW i \in 1 .. n, IsFlyweight(after[i - 1]), after[i - 1].buffer = f.buffer,
             after[i - 1].limit = after[i - 1].buffer.size,
             after[i - 1].ok => /\ WrittenIn(after[i - 1].buffer, after[i - 1].position, ks[i])
                                /\ after[i - 1].position = at[i]
      PROVE  AfterSkip(after[i - 1], ks[i], after[i])
  <2>1. IsText(ks[i]) /\ after[i] = Skip(after[i - 1], VarData)
    BY <1>1, Zenon DEF Layout, SkipsRun
  <2>2. after[i - 1].ok => after[i - 1].position + 2 <= after[i - 1].limit
    BY <1>2, <1>3, Zenon
  <2>3. AfterSkip(after[i - 1], ks[i], Skip(after[i - 1], VarData))
    BY <1>3, <2>1, <2>2, SkipLemma, Zenon
  <2> QED BY <2>1, <2>3, Zenon
<1>4. \A i \in 0 .. n : Passed(f, at, i, after[i])
  <2>1. after[0] = f
    BY <1>1, Zenon DEF SkipsRun
  <2>2. \A i \in 1 .. n :
              LET g == after[i - 1]
              IN  IsFlyweight(g) /\ g.buffer = f.buffer /\ g.limit = g.buffer.size
                     /\ (g.ok => WrittenIn(g.buffer, g.position, ks[i]) /\ g.position = at[i])
                  => AfterSkip(g, ks[i], after[i])
    BY <1>3, Zenon
  <2> QED BY <2>1, <2>2, PassAll, Zenon
<1>5. SkipAll(f, fields) = after[n] /\ n \in 0 .. n
  BY <1>1 DEF SkipsRun
<1>6. Passed(f, at, n, after[n])
  BY <1>4, <1>5, Zenon
<1>7. after[n].ok /\ after[n].ok \in BOOLEAN /\ after[n].position = at[n + 1]
  BY <1>6, Zenon DEF Passed, IsFlyweight
<1> QED BY <1>5, <1>7, Zenon

-----------------------------------------------------------------------------
\* Where the texts of a message begin whose block ends at p.
Starts(p, ks) ==
    LET next(a, i) == a + 2 + ks[i].len
        two == next(p, 1)
        three == next(two, 2)
        four == next(three, 3)
        five == next(four, 4)
    IN  <<p, two, three, four, five, next(five, 5)>>

\* The places that Starts gives are where the texts go.
LEMMA StartsLayout ==
    ASSUME NEW p \in Nat, NEW ks, NEW n \in {2, 3, 5}, \A i \in 1 .. n : IsText(ks[i])
    PROVE  Layout(Starts(p, ks), ks, n) /\ Starts(p, ks)[1] = p
<1>1. \A i \in 1 .. n : ks[i].len \in Nat
  BY DEF IsText
<1>2. PICK a2 : a2 = p + 2 + ks[1].len
  OBVIOUS
<1>3. PICK a3 : a3 = a2 + 2 + ks[2].len
  OBVIOUS
<1>4. PICK a4 : a4 = a3 + 2 + ks[3].len
  OBVIOUS
<1>5. PICK a5 : a5 = a4 + 2 + ks[4].len
  OBVIOUS
<1>6. PICK a6 : a6 = a5 + 2 + ks[5].len
  OBVIOUS
<1>7. PICK at : at = <<p, a2, a3, a4, a5, a6>>
  OBVIOUS
<1>8. Starts(p, ks) = at
  BY <1>2, <1>3, <1>4, <1>5, <1>6, <1>7, Zenon DEF Starts
<1>9. /\ at[1] = p /\ at[2] = a2 /\ at[3] = a3 /\ at[4] = a4 /\ at[5] = a5 /\ at[6] = a6
  BY <1>7
<1>10. ks[1].len \in Nat /\ ks[2].len \in Nat /\ a2 \in Nat /\ a3 \in Nat
  BY <1>1, <1>2, <1>3
<1>11. n >= 3 => ks[3].len \in Nat /\ a4 \in Nat
  BY <1>1, <1>4, <1>10
<1>12. n = 5 => ks[4].len \in Nat /\ ks[5].len \in Nat /\ a5 \in Nat /\ a6 \in Nat
  <2> HAVE n = 5
  <2>1. ks[4].len \in Nat /\ ks[5].len \in Nat /\ a4 \in Nat
    BY <1>1, <1>11
  <2> QED BY <2>1, <1>5, <1>6
<1>13. Layout(at, ks, n)
  <2>1. CASE n = 2
    BY <1>2, <1>3, <1>9, <1>10, <2>1 DEF Layout
  <2>2. CASE n = 3
    BY <1>2, <1>3, <1>4, <1>9, <1>10, <1>11, <2>2 DEF Layout
  <2>3. CASE n = 5
    BY <1>2, <1>3, <1>4, <1>5, <1>6, <1>9, <1>10, <1>11, <1>12, <2>3 DEF Layout
  <2> QED BY <2>1, <2>2, <2>3
<1> QED BY <1>8, <1>9, <1>13

-----------------------------------------------------------------------------
\* Wrapping a buffer, and writing into its block.
Wrapped(f, b, offset, block, limit) ==
    /\ IsFlyweight(f) /\ f.buffer = b /\ f.offset = offset /\ f.position = offset + block
    /\ f.limit = limit /\ (f.ok <=> offset + block <= limit)

\* wrapForEncode() and wrapForDecode() stand behind the block.
LEMMA WrapLemma ==
    ASSUME NEW b, NEW offset \in Nat, NEW block \in Nat, NEW limit \in Int
    PROVE  Wrapped(Wrap(b, offset, block, limit), b, offset, block, limit)
<1>1. PICK f : f = Wrap(b, offset, block, limit)
  OBVIOUS
<1>2. f = [buffer |-> b, limit |-> limit, offset |-> offset, position |-> offset + block,
           ok |-> offset + block <= limit, got |-> Empty]
  BY <1>1, Zenon DEF Wrap, Flyweight
<1>3. (offset + block <= limit) \in BOOLEAN /\ offset + block \in Nat
  OBVIOUS
<1>4. /\ f.buffer = b /\ f.offset = offset /\ f.position = offset + block
      /\ f.limit = limit /\ f.ok = (offset + block <= limit) /\ f.got = Empty
  BY <1>2
<1>5. IsFlyweight(f)
  BY <1>2, <1>3, <1>4 DEF IsFlyweight
<1>6. Wrapped(f, b, offset, block, limit)
  BY <1>3, <1>4, <1>5, Zenon DEF Wrapped
<1> QED BY <1>1, <1>6, Zenon

\* A setter of a fixed field stores a number and moves nothing.
LEMMA SetFieldLemma ==
    ASSUME NEW f, IsFlyweight(f), NEW d, NEW v, f.ok
    PROVE  LET g == SetField(f, d, v)
           IN  /\ IsFlyweight(g) /\ g.offset = f.offset /\ g.position = f.position
               /\ g.limit = f.limit /\ g.ok
               /\ g.buffer = Store(f.buffer, f.offset + d.offset, Number(v, d.width))
<1>1. PICK b : b = Store(f.buffer, f.offset + d.offset, Number(v, d.width))
  OBVIOUS
<1>2. SetField(f, d, v) = WithBuffer(f, b)
  BY <1>1, Zenon DEF SetField, WithBuffer
<1> QED BY <1>1, <1>2, NewBufferLemma

-----------------------------------------------------------------------------
\* The first cells of a frame are a message header; cells lie below p only.
Labelled(b, block, template, schema) ==
    Holds(b, 0, Number(block, 2)) /\ Holds(b, 2, Number(template, 2))
    /\ Holds(b, 4, Number(schema, 2))
Within(b, p) == \A o \in DOMAIN b.at : o \in Nat /\ o < p

\* A store behind the header leaves the header.
LEMMA LabelStays ==
    ASSUME NEW b, NEW block, NEW template, NEW schema, Labelled(b, block, template, schema),
           NEW o \in Nat, o > 4, NEW c
    PROVE  Labelled(Store(b, o, c), block, template, schema) /\ Store(b, o, c).size = b.size
<1>1. o # 0 /\ o # 2 /\ o # 4
  OBVIOUS
<1> QED BY <1>1, StoreHolds, Zenon DEF Labelled

\* A buffer that keeps the first bytes keeps the header.
LEMMA LabelBelow ==
    ASSUME NEW a, NEW b, NEW p \in Nat, p > 4, Below(a, b, p),
           NEW block, NEW template, NEW schema, Labelled(a, block, template, schema)
    PROVE  Labelled(b, block, template, schema)
<1>1. 0 < p /\ 2 < p /\ 4 < p /\ 0 \in Int /\ 2 \in Int /\ 4 \in Int
  OBVIOUS
<1> QED BY <1>1, Zenon DEF Labelled, Below

\* A store within a limit leaves all cells within it.
LEMMA WithinStore ==
    ASSUME NEW b, NEW p, Within(b, p), NEW o \in Nat, o < p, NEW c
    PROVE  Within(Store(b, o, c), p)
BY StoreHolds, Zenon DEF Within

\* The four setters of a header at the front of a new buffer.
LEMMA ApplyLemma ==
    ASSUME NEW f, IsFlyweight(f), f.ok, f.offset = 0, NEW n, f.buffer = NewBuffer(n),
           NEW block, NEW template, NEW schema, NEW ver
    PROVE  LET g == Apply(f, block, template, schema, ver)
           IN  /\ IsFlyweight(g) /\ g.ok /\ g.offset = 0 /\ g.limit = f.limit
               /\ g.position = f.position
               /\ Labelled(g.buffer, block, template, schema) /\ g.buffer.size = n
               /\ Within(g.buffer, 8)
<1>1. /\ blockLength.offset = 0 /\ blockLength.width = 2
      /\ templateId.offset = 2 /\ templateId.width = 2
      /\ schemaId.offset = 4 /\ schemaId.width = 2
      /\ version.offset = 6 /\ version.width = 2
  BY DEF blockLength, templateId, schemaId, version, FixedField
<1>2. PICK f1 : f1 = SetField(f, blockLength, block)
  OBVIOUS
<1>3. PICK f2 : f2 = SetField(f1, templateId, template)
  OBVIOUS
<1>4. PICK f3 : f3 = SetField(f2, schemaId, schema)
  OBVIOUS
<1>5. PICK f4 : f4 = SetField(f3, version, ver)
  OBVIOUS
<1>6. Apply(f, block, template, schema, ver) = f4
  BY <1>2, <1>3, <1>4, <1>5, Zenon DEF Apply
<1>7. 0 + 0 = 0 /\ 0 + 2 = 2 /\ 0 + 4 = 4 /\ 0 + 6 = 6
  OBVIOUS
<1>8. /\ IsFlyweight(f1) /\ f1.ok /\ f1.offset = 0 /\ f1.limit = f.limit /\ f1.position = f.position
      /\ f1.buffer = Store(f.buffer, 0, Number(block, 2))
  BY <1>1, <1>2, <1>7, SetFieldLemma
<1>9. /\ IsFlyweight(f2) /\ f2.ok /\ f2.offset = 0 /\ f2.limit = f.limit /\ f2.position = f.position
      /\ f2.buffer = Store(f1.buffer, 2, Number(template, 2))
  BY <1>1, <1>3, <1>7, <1>8, SetFieldLemma
<1>10. /\ IsFlyweight(f3) /\ f3.ok /\ f3.offset = 0 /\ f3.limit = f.limit
       /\ f3.position = f.position
       /\ f3.buffer = Store(f2.buffer, 4, Number(schema, 2))
  BY <1>1, <1>4, <1>7, <1>9, SetFieldLemma
<1>11. /\ IsFlyweight(f4) /\ f4.ok /\ f4.offset = 0 /\ f4.limit = f.limit
       /\ f4.position = f.position
       /\ f4.buffer = Store(f3.buffer, 6, Number(ver, 2))
  BY <1>1, <1>5, <1>7, <1>10, SetFieldLemma
<1>12. f.buffer.size = n /\ Within(f.buffer, 8)
  BY DEF NewBuffer, Within
<1>13. Within(f4.buffer, 8)
  <2>1. 0 \in Nat /\ 0 < 8 /\ 2 \in Nat /\ 2 < 8 /\ 4 \in Nat /\ 4 < 8 /\ 6 \in Nat /\ 6 < 8
    OBVIOUS
  <2>2. Within(f1.buffer, 8)
    BY <1>8, <1>12, <2>1, WithinStore, Zenon
  <2>3. Within(f2.buffer, 8)
    BY <1>9, <2>1, <2>2, WithinStore, Zenon
  <2>4. Within(f3.buffer, 8)
    BY <1>10, <2>1, <2>3, WithinStore, Zenon
  <2> QED BY <1>11, <2>1, <2>4, WithinStore, Zenon
<1>14. 2 # 0 /\ 4 # 0 /\ 4 # 2 /\ 6 # 0 /\ 6 # 2 /\ 6 # 4
  OBVIOUS
<1>15. Labelled(f4.buffer, block, template, schema) /\ f4.buffer.size = n
  <2>1. Holds(f1.buffer, 0, Number(block, 2)) /\ f1.buffer.size = n
    BY <1>8, <1>12, StoreHolds
  <2>2. /\ Holds(f2.buffer, 0, Number(block, 2)) /\ Holds(f2.buffer, 2, Number(template, 2))
        /\ f2.buffer.size = n
    BY <1>9, <1>14, <2>1, StoreHolds
  <2>3. Labelled(f3.buffer, block, template, schema) /\ f3.buffer.size = n
    BY <1>10, <1>14, <2>2, StoreHolds DEF Labelled
  <2>4. 6 \in Nat /\ 6 > 4
    OBVIOUS
  <2> QED BY <1>11, <2>3, <2>4, LabelStays
<1> QED BY <1>6, <1>11, <1>13, <1>15, Zenon

\* The header written by hand.
LEMMA ClusterHeaderLemma ==
    ASSUME NEW size \in Nat, size >= 8, NEW block, NEW template
    PROVE  LET b == ClusterHeader(size, block, template)
           IN  Labelled(b, block, template, 111) /\ b.size = size /\ Within(b, 8)
<1>1. PICK f : f = wrap(NewBuffer(size), 0, size)
  OBVIOUS
<1>2. HeaderLength = 8 /\ 8 \in Nat /\ 0 \in Nat /\ size \in Int /\ 0 + 8 <= size
  BY DEF HeaderLength
<1>3. f = Wrap(NewBuffer(size), 0, 8, size)
  BY <1>1, <1>2, Zenon DEF wrap
<1>4. Wrapped(f, NewBuffer(size), 0, 8, size)
  BY <1>2, <1>3, WrapLemma, Zenon
<1>5. IsFlyweight(f) /\ f.buffer = NewBuffer(size) /\ f.offset = 0 /\ f.ok
  BY <1>2, <1>4, Zenon DEF Wrapped
<1>6. PICK g : g = Apply(f, block, template, 111, 8)
  OBVIOUS
<1>7. ClusterHeader(size, block, template) = g.buffer
  BY <1>1, <1>6, Zenon DEF ClusterHeader
<1> QED BY <1>5, <1>6, <1>7, ApplyLemma

\* The session header in front of a message.
LEMMA SessionHeaderLemma ==
    ASSUME NEW term, NEW session
    PROVE  LET b == SessionHeader(term, session)
           IN  Labelled(b, 24, 1, 111) /\ b.size = 32 /\ Within(b, 32)
<1>1. PICK b0 : b0 = ClusterHeader(32, 24, 1)
  OBVIOUS
<1>2. PICK b1 : b1 = Store(b0, 8, Number(term, 8))
  OBVIOUS
<1>3. PICK b2 : b2 = Store(b1, 16, Number(session, 8))
  OBVIOUS
<1>4. PICK b3 : b3 = Store(b2, 24, Number(0, 8))
  OBVIOUS
<1>5. SessionHeader(term, session) = b3
  BY <1>1, <1>2, <1>3, <1>4, Zenon DEF SessionHeader
<1>6. /\ 32 \in Nat /\ 32 >= 8 /\ 8 \in Nat /\ 8 > 4 /\ 16 \in Nat /\ 16 > 4 /\ 24 \in Nat /\ 24 > 4
      /\ 8 < 32 /\ 16 < 32 /\ 24 < 32
  OBVIOUS
<1>7. Labelled(b0, 24, 1, 111) /\ b0.size = 32 /\ Within(b0, 8)
  BY <1>1, <1>6, ClusterHeaderLemma
<1>8. Within(b0, 32)
  BY <1>7 DEF Within
<1>9. Labelled(b1, 24, 1, 111) /\ b1.size = 32 /\ Within(b1, 32)
  BY <1>2, <1>6, <1>7, <1>8, LabelStays, WithinStore
<1>10. Labelled(b2, 24, 1, 111) /\ b2.size = 32 /\ Within(b2, 32)
  BY <1>3, <1>6, <1>9, LabelStays, WithinStore
<1>11. Labelled(b3, 24, 1, 111) /\ b3.size = 32 /\ Within(b3, 32)
  BY <1>4, <1>6, <1>10, LabelStays, WithinStore
<1> QED BY <1>5, <1>11, Zenon

\* A header is read where it was written.
LEMMA HeaderRead ==
    ASSUME NEW b, b.size \in Int, NEW block, NEW template, NEW schema,
           Labelled(b, block, template, schema)
    PROVE  /\ Header(b).block_length = block /\ Header(b).template_id = template
           /\ Header(b).schema_id = schema
<1>1. PICK f : f = wrap(b, 0, b.size)
  OBVIOUS
<1>2. f.buffer = b /\ f.offset = 0
  BY <1>1 DEF wrap, Wrap, Flyweight
<1>3. /\ blockLength.offset = 0 /\ blockLength.width = 2
      /\ templateId.offset = 2 /\ templateId.width = 2
      /\ schemaId.offset = 4 /\ schemaId.width = 2
  BY DEF blockLength, templateId, schemaId, FixedField
<1>4. 0 + 0 = 0 /\ 0 + 2 = 2 /\ 0 + 4 = 4 /\ 2 \in Int
  OBVIOUS
<1>5. ASSUME NEW o, NEW v, Holds(b, o, Number(v, 2))
      PROVE  Load(b, o, 2).val = v
  BY <1>4, <1>5, NumberCell, LoadHolds
<1>6. GetField(f, blockLength) = block
  BY <1>2, <1>3, <1>4, <1>5, Zenon DEF GetField, Labelled
<1>7. GetField(f, templateId) = template
  BY <1>2, <1>3, <1>4, <1>5, Zenon DEF GetField, Labelled
<1>8. GetField(f, schemaId) = schema
  BY <1>2, <1>3, <1>4, <1>5, Zenon DEF GetField, Labelled
<1>9. Header(b) = Read(f)
  BY <1>1, Zenon DEF Header
<1>10. /\ Read(f).block_length = GetField(f, blockLength)
       /\ Read(f).template_id = GetField(f, templateId)
       /\ Read(f).schema_id = GetField(f, schemaId)
  BY DEF Read
<1> QED BY <1>6, <1>7, <1>8, <1>9, <1>10, Zenon

-----------------------------------------------------------------------------
\* The classes of include/model/ share the operators of Flyweight; what an
\* instance of one of them means is what Flyweight means.
LEMMA TMNumber == ASSUME NEW v, NEW w PROVE TM!Number(v, w) = Number(v, w)
BY DEF TM!Number, Number

LEMMA TMWrap == ASSUME NEW b, NEW o, NEW k, NEW n PROVE TM!Wrap(b, o, k, n) = Wrap(b, o, k, n)
BY Zenon DEF TM!Wrap, Wrap, TM!Flyweight, Flyweight, TM!Empty, Empty, TM!Text, Text

LEMMA TMStore == ASSUME NEW b, NEW o, NEW c PROVE TM!Store(b, o, c) = Store(b, o, c)
BY DEF TM!Store, Store

LEMMA TMSetField == ASSUME NEW f, NEW d, NEW v PROVE TM!SetField(f, d, v) = SetField(f, d, v)
BY TMNumber, TMStore, Zenon DEF TM!SetField, SetField

LEMMA TMApply ==
    ASSUME NEW f, NEW a, NEW b, NEW c, NEW d
    PROVE  TM!Apply(f, a, b, c, d) = Apply(f, a, b, c, d)
BY TMSetField, Zenon
DEF TM!Apply, Apply, TM!blockLength, TM!templateId, TM!schemaId, TM!version,
    blockLength, templateId, schemaId, version, TM!FixedField, FixedField

LEMMA TMWrapAndApply ==
    ASSUME NEW b, NEW o, NEW n
    PROVE  TM!wrapAndApplyHeader(b, o, n) = WrapAndApply(b, o, n, 16, 1, 1, 1)
BY TMApply, TMWrap, Zenon
DEF TM!wrapAndApplyHeader, TM!WrapAndApply, TM!wrap, TM!HeaderLength, TM!SBE_BLOCK_LENGTH,
    TM!SBE_TEMPLATE_ID, TM!SBE_SCHEMA_ID, TM!SBE_SCHEMA_VERSION, WrapAndApply, wrap, HeaderLength

LEMMA TMComputeLength ==
    ASSUME NEW lengths
    PROVE  TM!computeLength(lengths) = ComputeLength(16, TM!VarFields, lengths)
BY Zenon DEF TM!computeLength, TM!ComputeLength, ComputeLength, TM!SBE_BLOCK_LENGTH

LEMMA TMLoad == ASSUME NEW b, NEW o, NEW w PROVE TM!Load(b, o, w) = Load(b, o, w)
BY Zenon DEF TM!Load, Load, TM!Number, Number

LEMMA TMSkip == ASSUME NEW f PROVE TM!skip(f) = SkipAll(f, TM!VarFields)
<1>1. ASSUME NEW g, NEW d PROVE TM!Skip(g, d) = Skip(g, d)
  BY Zenon, TMLoad DEF TM!Skip, Skip, TM!sbePosition, sbePosition
<1> QED BY <1>1, Zenon DEF TM!skip, TM!SkipAll, SkipAll

\* What the accessors of TopicMessage mean.
LEMMA TMWrapForEncode ==
    ASSUME NEW b, NEW o, NEW n PROVE TM!wrapForEncode(b, o, n) = Wrap(b, o, 16, n)
BY TMWrap, Zenon DEF TM!wrapForEncode, TM!SBE_BLOCK_LENGTH

LEMMA TMWrapForDecode ==
    ASSUME NEW b, NEW o, NEW k, NEW n PROVE TM!wrapForDecode(b, o, k, n) = Wrap(b, o, k, n)
BY TMWrap, Zenon DEF TM!wrapForDecode

LEMMA TMFields ==
    /\ Len(TM!VarFields) = 5 /\ \A i \in 1 .. 5 : TM!VarFields[i] = VarData
    /\ DOMAIN TM!VarFields = 1 .. 5
<1>1. TM!VarFields = <<VarData, VarData, VarData, VarData, VarData>>
  BY DEF TM!VarFields, TM!topic, TM!messageType, TM!uuid, TM!payload, TM!headers, VarData,
      VarDataField, TM!VarDataField
<1> HIDE DEF VarData
<1> QED BY <1>1

\* The same for the parser's instance of TopicMessage.
LEMMA TopicMsgWrap ==
    ASSUME NEW b, NEW o, NEW k, NEW n
    PROVE  TopicMsg!Wrap(b, o, k, n) = Wrap(b, o, k, n)
BY Zenon DEF TopicMsg!Wrap, Wrap, TopicMsg!Flyweight, Flyweight, TopicMsg!Empty, Empty,
    TopicMsg!Text, Text

LEMMA TopicMsgWrapForDecode ==
    ASSUME NEW b, NEW o, NEW k, NEW n PROVE TopicMsg!wrapForDecode(b, o, k, n) = Wrap(b, o, k, n)
BY TopicMsgWrap, Zenon DEF TopicMsg!wrapForDecode

LEMMA TopicMsgFields ==
    /\ Len(TopicMsg!VarFields) = 5 /\ \A i \in 1 .. 5 : TopicMsg!VarFields[i] = VarData
    /\ DOMAIN TopicMsg!VarFields = 1 .. 5
<1>1. TopicMsg!VarFields = <<VarData, VarData, VarData, VarData, VarData>>
  BY DEF TopicMsg!VarFields, TopicMsg!topic, TopicMsg!messageType, TopicMsg!uuid,
      TopicMsg!payload, TopicMsg!headers, VarData, VarDataField, TopicMsg!VarDataField
<1> HIDE DEF VarData
<1> QED BY <1>1

\* The same for CommitOffsetLite.
LEMMA LiteNumber == ASSUME NEW v, NEW w PROVE Lite!Number(v, w) = Number(v, w)
BY DEF Lite!Number, Number

LEMMA LiteWrap == ASSUME NEW b, NEW o, NEW k, NEW n PROVE Lite!Wrap(b, o, k, n) = Wrap(b, o, k, n)
BY Zenon DEF Lite!Wrap, Wrap, Lite!Flyweight, Flyweight, Lite!Empty, Empty, Lite!Text, Text

LEMMA LiteStore == ASSUME NEW b, NEW o, NEW c PROVE Lite!Store(b, o, c) = Store(b, o, c)
BY DEF Lite!Store, Store

LEMMA LiteSetField == ASSUME NEW f, NEW d, NEW v PROVE Lite!SetField(f, d, v) = SetField(f, d, v)
BY LiteNumber, LiteStore, Zenon DEF Lite!SetField, SetField

LEMMA LiteApply ==
    ASSUME NEW f, NEW a, NEW b, NEW c, NEW d
    PROVE  Lite!Apply(f, a, b, c, d) = Apply(f, a, b, c, d)
BY LiteSetField, Zenon
DEF Lite!Apply, Apply, Lite!blockLength, Lite!templateId, Lite!schemaId, Lite!version,
    blockLength, templateId, schemaId, version, Lite!FixedField, FixedField

LEMMA LiteWrapAndApply ==
    ASSUME NEW b, NEW o, NEW n
    PROVE  Lite!wrapAndApplyHeader(b, o, n) = WrapAndApply(b, o, n, 12, 301, 1, 1)
BY LiteApply, LiteWrap, Zenon
DEF Lite!wrapAndApplyHeader, Lite!WrapAndApply, Lite!wrap, Lite!HeaderLength, Lite!SBE_BLOCK_LENGTH,
    Lite!SBE_TEMPLATE_ID, Lite!SBE_SCHEMA_ID, Lite!SBE_SCHEMA_VERSION, WrapAndApply, wrap,
    HeaderLength

LEMMA LiteComputeLength ==
    ASSUME NEW lengths
    PROVE  Lite!computeLength(lengths) = ComputeLength(12, Lite!VarFields, lengths)
BY Zenon DEF Lite!computeLength, Lite!ComputeLength, ComputeLength, Lite!SBE_BLOCK_LENGTH

LEMMA LiteLoad == ASSUME NEW b, NEW o, NEW w PROVE Lite!Load(b, o, w) = Load(b, o, w)
BY Zenon DEF Lite!Load, Load, Lite!Number, Number

LEMMA LiteSkip == ASSUME NEW f PROVE Lite!skip(f) = SkipAll(f, Lite!VarFields)
<1>1. ASSUME NEW g, NEW d PROVE Lite!Skip(g, d) = Skip(g, d)
  BY Zenon, LiteLoad DEF Lite!Skip, Skip, Lite!sbePosition, sbePosition
<1> QED BY <1>1, Zenon DEF Lite!skip, Lite!SkipAll, SkipAll

LEMMA LiteWrapForDecode ==
    ASSUME NEW b, NEW o, NEW k, NEW n PROVE Lite!wrapForDecode(b, o, k, n) = Wrap(b, o, k, n)
BY LiteWrap, Zenon DEF Lite!wrapForDecode

LEMMA LiteFields ==
    /\ Len(Lite!VarFields) = 2 /\ \A i \in 1 .. 2 : Lite!VarFields[i] = VarData
    /\ DOMAIN Lite!VarFields = 1 .. 2
<1>1. Lite!VarFields = <<VarData, VarData>>
  BY DEF Lite!VarFields, Lite!messageId, Lite!messageIdentifier, VarData, VarDataField,
      Lite!VarDataField
<1> HIDE DEF VarData
<1> QED BY <1>1

\* The same for Acknowledgment.
LEMMA AckedComputeLength ==
    ASSUME NEW lengths
    PROVE  Acked!computeLength(lengths) = ComputeLength(8, Acked!VarFields, lengths)
BY Zenon DEF Acked!computeLength, Acked!ComputeLength, ComputeLength, Acked!SBE_BLOCK_LENGTH

LEMMA AckedFields ==
    /\ Len(Acked!VarFields) = 3 /\ \A i \in 1 .. 3 : Acked!VarFields[i] = VarData
    /\ DOMAIN Acked!VarFields = 1 .. 3
<1>1. Acked!VarFields = <<VarData, VarData, VarData>>
  BY DEF Acked!VarFields, Acked!messageId, Acked!topic, Acked!correlationId, VarData,
      VarDataField, Acked!VarDataField
<1> HIDE DEF VarData
<1> QED BY <1>1

\* The offsets and widths of the fixed fields, and the header's length.
LEMMA BlockFields ==
    /\ TM!timestamp.offset = 0 /\ TM!timestamp.width = 8
    /\ TM!sequenceNumber.offset = 8 /\ TM!sequenceNumber.width = 8
    /\ Lite!topicId.offset = 0 /\ Lite!topicId.width = 4
    /\ Lite!sequence.offset = 4 /\ Lite!sequence.width = 8
    /\ Acked!timestamp.offset = 0 /\ Acked!timestamp.width = 8
    /\ TM!sbeBlockAndHeaderLength = 24 /\ HeaderLength = 8
BY DEF TM!timestamp, TM!sequenceNumber, Lite!topicId, Lite!sequence, Acked!timestamp,
       TM!FixedField, Lite!FixedField, Acked!FixedField, TM!sbeBlockAndHeaderLength,
       TM!HeaderLength, TM!SBE_BLOCK_LENGTH, HeaderLength

\* The var-data fields of CommitOffsetLite, by name.
LEMMA LiteGets == Lite!messageId = VarData /\ Lite!messageIdentifier = VarData
BY DEF Lite!messageId, Lite!messageIdentifier, VarData, VarDataField, Lite!VarDataField

-----------------------------------------------------------------------------
\* A flyweight that stands behind the block of a labelled buffer.
Ready(f, block, template, limit, size) ==
    /\ IsFlyweight(f) /\ f.ok /\ f.offset = 8 /\ f.position = 8 + block
    /\ f.limit = limit /\ f.buffer.size = size
    /\ Labelled(f.buffer, block, template, 1)

\* wrapAndApplyHeader() on a new buffer that has room for header and block.
LEMMA WrapAndApplyLemma ==
    ASSUME NEW n \in Nat, NEW block \in Nat, 8 + block <= n, NEW template
    PROVE  Ready(WrapAndApply(NewBuffer(n), 0, n, block, template, 1, 1), block, template, n, n)
<1>1. PICK w : w = wrap(NewBuffer(n), 0, n)
  OBVIOUS
<1>2. HeaderLength = 8 /\ 8 \in Nat /\ 0 \in Nat /\ n \in Int /\ 0 + 8 <= n /\ 0 + 8 = 8
  BY DEF HeaderLength
<1>3. w = Wrap(NewBuffer(n), 0, 8, n)
  BY <1>1, <1>2, Zenon DEF wrap
<1>4. Wrapped(w, NewBuffer(n), 0, 8, n)
  BY <1>2, <1>3, WrapLemma, Zenon
<1>5. IsFlyweight(w) /\ w.buffer = NewBuffer(n) /\ w.offset = 0 /\ w.ok
  BY <1>2, <1>4, Zenon DEF Wrapped
<1>6. PICK h : h = Apply(w, block, template, 1, 1)
  OBVIOUS
<1>7. h.ok /\ Labelled(h.buffer, block, template, 1) /\ h.buffer.size = n
  BY <1>5, <1>6, ApplyLemma
<1>8. PICK f : f = Wrap(h.buffer, 8, block, n)
  OBVIOUS
<1>9. Wrapped(f, h.buffer, 8, block, n)
  BY <1>2, <1>8, WrapLemma, Zenon
<1>10. IsFlyweight(f) /\ f.ok /\ f.buffer = h.buffer /\ f.offset = 8 /\ f.position = 8 + block
       /\ f.limit = n
  BY <1>9, Zenon DEF Wrapped
<1>11. WrapAndApply(NewBuffer(n), 0, n, block, template, 1, 1) = [f EXCEPT !.ok = f.ok /\ h.ok]
  BY <1>1, <1>2, <1>6, <1>8, Zenon DEF WrapAndApply
<1>12. [f EXCEPT !.ok = f.ok /\ h.ok] = f
  <2>1. f.ok = TRUE /\ (f.ok /\ h.ok) = TRUE
    BY <1>7, <1>10, Zenon DEF IsFlyweight
  <2>2. f = [buffer |-> f.buffer, limit |-> f.limit, offset |-> f.offset,
             position |-> f.position, ok |-> f.ok, got |-> f.got]
    BY <1>10, Zenon DEF IsFlyweight
  <2>3. PICK t : t = (f.ok /\ h.ok)
    OBVIOUS
  <2>4. [f EXCEPT !.ok = t] = f
    BY <2>1, <2>2, <2>3
  <2> QED BY <2>3, <2>4, Zenon
<1> QED BY <1>7, <1>10, <1>11, <1>12, Zenon DEF Ready

\* The setter of a field in the block leaves the label alone.
LEMMA ReadySet ==
    ASSUME NEW f, NEW block, NEW template, NEW limit, NEW size,
           Ready(f, block, template, limit, size),
           NEW d, d.offset \in Nat, NEW v
    PROVE  Ready(SetField(f, d, v), block, template, limit, size)
<1>1. PICK g : g = SetField(f, d, v)
  OBVIOUS
<1>2. IsFlyweight(f) /\ f.ok /\ f.offset = 8 /\ Labelled(f.buffer, block, template, 1)
      /\ f.buffer.size = size
  BY Zenon DEF Ready
<1>3. /\ IsFlyweight(g) /\ g.ok /\ g.offset = f.offset /\ g.position = f.position
      /\ g.limit = f.limit
      /\ g.buffer = Store(f.buffer, f.offset + d.offset, Number(v, d.width))
  BY <1>1, <1>2, SetFieldLemma
<1>4. f.offset + d.offset \in Nat /\ f.offset + d.offset > 4
  BY <1>2
<1>5. Labelled(g.buffer, block, template, 1) /\ g.buffer.size = size
  BY <1>2, <1>3, <1>4, LabelStays
<1> QED BY <1>1, <1>3, <1>5, Zenon DEF Ready

\* A frame, or what resize() has left of it: a header and n texts behind a block.
Body(b, block, template, ks, n) ==
    /\ b.size \in Nat /\ b.size >= 8
    /\ Labelled(b, block, template, 1)
    /\ WrittenAllIn(b, Starts(8 + block, ks), ks, n)

\* A text of a buffer that is cut is there or behind the cut.
LEMMA ResizeWritten ==
    ASSUME NEW b, NEW p \in Nat, NEW s, Written(b, p, s), NEW m
    PROVE  WrittenIn(Resize(b, m), p, s)
BY ResizeHolds, Zenon DEF Written, WrittenIn, HoldsIn

\* What is left of a frame of n texts when it is cut to m bytes.
Made(g, m, block, template, ks, n) ==
    /\ Body(Resize(g.buffer, m), block, template, ks, n)
    /\ Resize(g.buffer, m).size = m
    /\ encodedLength(g) = Starts(8 + block, ks)[n + 1] - 8

\* What a message's put calls have made, cut anywhere behind the header.
LEMMA MadeOf ==
    ASSUME NEW f, NEW block \in Nat, NEW template, NEW limit \in Int, NEW size,
           Ready(f, block, template, limit, size),
           NEW ks, NEW n \in {2, 3, 5}, \A i \in 1 .. n : IsText(ks[i]),
           NEW g, Filled(f, Starts(8 + block, ks), ks, n, g)
    PROVE  g.ok => \A m \in Nat : m >= 8 => Made(g, m, block, template, ks, n)
<1> HAVE g.ok
<1>1. PICK at : at = Starts(8 + block, ks)
  OBVIOUS
<1>2. 8 + block \in Nat /\ 8 + block > 4 /\ n \in 0 .. 5
  OBVIOUS
<1>3. Layout(at, ks, n) /\ at[1] = 8 + block
  BY <1>1, <1>2, StartsLayout
<1>4. /\ g.position = at[n + 1] /\ g.offset = 8 /\ g.buffer.size = size
      /\ Below(f.buffer, g.buffer, 8 + block) /\ WrittenAll(g.buffer, at, ks, n)
      /\ Labelled(f.buffer, block, template, 1)
  BY <1>1, <1>3, Zenon DEF Filled, Ready
<1>5. Labelled(g.buffer, block, template, 1)
  BY <1>2, <1>4, LabelBelow
<1>6. encodedLength(g) = at[n + 1] - 8
  BY <1>4, Zenon DEF encodedLength
<1>7. ASSUME NEW m \in Nat, m >= 8
      PROVE  Made(g, m, block, template, ks, n)
  <2>1. PICK b : b = Resize(g.buffer, m)
    OBVIOUS
  <2>2. b.size = m
    BY <2>1, ResizeHolds
  <2>3. Labelled(b, block, template, 1)
    <3>1. 0 < m /\ 2 < m /\ 4 < m
      BY <1>7
    <3> QED BY <1>5, <2>1, <3>1, ResizeHolds, Zenon DEF Labelled
  <2>4. WrittenAllIn(b, at, ks, n)
    <3> SUFFICES ASSUME NEW i \in 1 .. n PROVE WrittenIn(b, at[i], ks[i])
      BY Zenon DEF WrittenAllIn
    <3>1. i \in 1 .. n + 1
      OBVIOUS
    <3>2. at[i] \in Nat
      BY <1>3, <3>1, Zenon DEF Layout
    <3>3. Written(g.buffer, at[i], ks[i])
      BY <1>4, Zenon DEF WrittenAll
    <3> QED BY <2>1, <3>2, <3>3, ResizeWritten, Zenon
  <2> QED BY <1>1, <1>6, <1>7, <2>1, <2>2, <2>3, <2>4, Zenon DEF Body, Made
<1> QED BY <1>7

-----------------------------------------------------------------------------
\* What decode_topic_message_with_sbe() reads from a topic message that ends
\* behind its payload or later.
Decoded(r, ks, whole) ==
    /\ r.message_type = ks[2] /\ r.message_id = ks[3] /\ r.payload = ks[4]
    /\ r.sequence_number = sequence_number(ks[4])
    /\ r.headers = IF whole THEN ks[5] ELSE Empty

\* The result with its fields.
Success(type, id, payload, stamp, number, headers) ==
    [Failed EXCEPT !.success = TRUE, !.message_type = type, !.message_id = id,
                   !.payload = payload, !.timestamp = stamp,
                   !.sequence_number = number, !.headers = headers]

\* The fields of a successful result.
LEMMA SuccessFields ==
    ASSUME NEW type, NEW id, NEW payload, NEW stamp, NEW number, NEW headers
    PROVE  LET r == Success(type, id, payload, stamp, number, headers)
           IN  /\ r.success /\ r.message_type = type /\ r.message_id = id
               /\ r.payload = payload /\ r.sequence_number = number /\ r.headers = headers
BY DEF Success, Failed

\* A default-constructed result is no success.
LEMMA FailedFails == ~Failed.success
BY DEF Failed

\* A topic message is read if it ends behind its payload, and then what is read
\* is what was written; headers that are cut off are taken for empty.
LEMMA DecodeTopic ==
    ASSUME NEW b, NEW block \in Nat, NEW ks, \A i \in 1 .. 5 : IsText(ks[i]),
           Body(b, block, 1, ks, 5)
    PROVE  LET r == decode_topic_message_with_sbe(b)
               at == Starts(8 + block, ks)
           IN  /\ r.success <=> at[5] <= b.size
               /\ r.success => Decoded(r, ks, at[6] <= b.size)
<1>1. PICK at : at = Starts(8 + block, ks)
  OBVIOUS
<1>2. 8 + block \in Nat /\ 5 \in 0 .. 5 /\ 5 \in {2, 3, 5} /\ 8 \in Nat
  OBVIOUS
<1>3. Layout(at, ks, 5) /\ at[1] = 8 + block
  BY <1>1, <1>2, StartsLayout
<1>4. /\ b.size \in Nat /\ b.size >= 8 /\ b.size \in Int /\ Labelled(b, block, 1, 1)
      /\ WrittenAllIn(b, at, ks, 5)
  BY <1>1 DEF Body
<1>5. PICK h : h = Header(b)
  OBVIOUS
<1>6. h.block_length = block /\ h.template_id = 1 /\ h.schema_id = 1
  BY <1>4, <1>5, HeaderRead, Zenon
<1>7. HasHeader(b) /\ HeaderLength = 8
  BY <1>4 DEF HasHeader, HeaderLength
<1>8. PICK f : f = TopicMsg!wrapForDecode(b, HeaderLength, h.block_length, b.size)
  OBVIOUS
<1>9. Wrapped(f, b, 8, block, b.size)
  <2>1. f = Wrap(b, 8, block, b.size)
    BY <1>6, <1>7, <1>8, TopicMsgWrapForDecode, Zenon
  <2> QED BY <1>2, <1>4, <2>1, WrapLemma, Zenon
<1>10. /\ IsFlyweight(f) /\ f.buffer = b /\ f.limit = b.size /\ f.position = 8 + block
       /\ f.ok <=> 8 + block <= b.size
  BY <1>9, Zenon DEF Wrapped
<1>11. PICK read : read = GetStrings(f, TopicMsg!VarFields)
  OBVIOUS
<1>12. \A i \in 1 .. 5 : Passed(f, at, i, read[i]) /\ (read[i].ok => read[i].got = ks[i])
  <2>1. f.ok => f.position <= f.limit
    BY <1>10, Zenon
  <2>2. f.limit = f.buffer.size /\ at[1] = f.position /\ WrittenAllIn(f.buffer, at, ks, 5)
    BY <1>3, <1>4, <1>10, Zenon
  <2>3. /\ Len(TopicMsg!VarFields) = 5 /\ \A i \in 1 .. 5 : TopicMsg!VarFields[i] = VarData
        /\ IsFlyweight(f) /\ Layout(at, ks, 5)
    BY <1>3, <1>10, TopicMsgFields, Zenon
  <2>4. \A i \in 1 .. 5 :
              /\ Passed(f, at, i, GetStrings(f, TopicMsg!VarFields)[i])
              /\ GetStrings(f, TopicMsg!VarFields)[i].ok
                    => GetStrings(f, TopicMsg!VarFields)[i].got = ks[i]
    BY <1>2, <2>1, <2>2, <2>3, GetStringsRead
  <2> QED BY <1>11, <2>4, Zenon
<1>13. /\ \A i \in 1 .. 5 : read[i].ok <=> f.ok /\ at[i + 1] <= b.size
       /\ \A i \in 1 .. 5 : read[i].ok => read[i].got = ks[i]
  BY <1>10, <1>12, Zenon DEF Passed
<1>14. /\ at[1] \in Nat /\ at[2] \in Nat /\ at[3] \in Nat /\ at[4] \in Nat /\ at[5] \in Nat
       /\ at[6] \in Nat
       /\ at[1] <= at[2] /\ at[2] <= at[3] /\ at[3] <= at[4] /\ at[4] <= at[5] /\ at[5] <= at[6]
  <2>1. \A i \in 1 .. 6 : at[i] \in Nat
    BY <1>3 DEF Layout
  <2>2. \A i \in 1 .. 5 : at[i + 1] = at[i] + 2 + ks[i].len /\ ks[i].len \in Nat
    BY <1>3 DEF Layout, IsText
  <2> QED BY <2>1, <2>2
<1>15. /\ f.ok <=> at[1] <= b.size
       /\ read[2].ok <=> f.ok /\ at[3] <= b.size
       /\ read[3].ok <=> f.ok /\ at[4] <= b.size
       /\ read[4].ok <=> f.ok /\ at[5] <= b.size
       /\ read[5].ok <=> f.ok /\ at[6] <= b.size
       /\ (read[2].ok => read[2].got = ks[2]) /\ (read[3].ok => read[3].got = ks[3])
       /\ (read[4].ok => read[4].got = ks[4]) /\ (read[5].ok => read[5].got = ks[5])
  BY <1>3, <1>10, <1>13
<1>16. read[4].ok <=> at[5] <= b.size
  BY <1>4, <1>14, <1>15
<1>17. TopicMsg!SBE_TEMPLATE_ID = 1 /\ TopicMsg!SBE_SCHEMA_ID = 1
  BY DEF TopicMsg!SBE_TEMPLATE_ID, TopicMsg!SBE_SCHEMA_ID
<1>18. validate_header(h, TopicMsg!SBE_TEMPLATE_ID, TopicMsg!SBE_SCHEMA_ID)
  BY <1>6, <1>17, Zenon DEF validate_header
<1>19. PICK r : r = decode_topic_message_with_sbe(b)
  OBVIOUS
<1>20. r = IF ~read[4].ok THEN Failed
           ELSE Success(read[2].got, read[3].got, read[4].got, GetField(f, TopicMsg!timestamp),
                        sequence_number(read[4].got), IF read[5].ok THEN read[5].got ELSE Empty)
  BY <1>5, <1>7, <1>8, <1>11, <1>18, <1>19, Zenon DEF decode_topic_message_with_sbe, Success
<1>21. CASE ~read[4].ok
  BY <1>1, <1>16, <1>19, <1>20, <1>21, FailedFails, Zenon
<1>22. CASE read[4].ok
  <2>1. /\ r.success /\ r.message_type = read[2].got /\ r.message_id = read[3].got
        /\ r.payload = read[4].got /\ r.sequence_number = sequence_number(read[4].got)
        /\ r.headers = IF read[5].ok THEN read[5].got ELSE Empty
    BY <1>20, <1>22, SuccessFields
  <2>2. read[2].ok /\ read[3].ok /\ (read[5].ok <=> at[6] <= b.size)
    BY <1>4, <1>14, <1>15, <1>22
  <2>3. Decoded(r, ks, at[6] <= b.size)
    BY <1>15, <1>22, <2>1, <2>2, Zenon DEF Decoded
  <2> QED BY <1>1, <1>16, <1>19, <1>22, <2>1, <2>3, Zenon
<1> QED BY <1>21, <1>22, Zenon

-----------------------------------------------------------------------------
\* parse_message() finds the message, behind a session header or without one.

\* What is behind a session header is found again.
LEMMA EnvelopeOpened ==
    ASSUME NEW term, NEW session, NEW body, body.size \in Nat
    PROVE  LET b == Concat(SessionHeader(term, session), body)
           IN  /\ Labelled(b, 24, 1, 111) /\ b.size = 32 + body.size
               /\ Slice(b, 32).size = body.size
               /\ \A o \in Nat : \A c : Holds(body, o, c) => Holds(Slice(b, 32), o, c)
<1>1. PICK s : s = SessionHeader(term, session)
  OBVIOUS
<1>2. Labelled(s, 24, 1, 111) /\ s.size = 32 /\ Within(s, 32)
  BY <1>1, SessionHeaderLemma
<1>3. \A p \in DOMAIN s.at : p < s.size
  BY <1>2, Zenon DEF Within
<1>4. s.size \in Nat /\ body.size \in Int
  BY <1>2
<1>5. PICK b : b = Concat(s, body)
  OBVIOUS
<1>6. /\ \A o \in Nat : \A c : Holds(body, o, c) => Holds(Slice(b, 32), o, c)
      /\ \A p, c : Holds(s, p, c) => Holds(b, p, c)
      /\ b.size = 32 + body.size /\ Slice(b, 32).size = body.size
  BY <1>2, <1>3, <1>4, <1>5, SliceOfConcat
<1>7. Labelled(b, 24, 1, 111)
  BY <1>2, <1>6, Zenon DEF Labelled
<1> QED BY <1>1, <1>5, <1>6, <1>7, Zenon

\* The header of a message behind the session header.
LEMMA LabelOpened ==
    ASSUME NEW term, NEW session, NEW body, body.size \in Nat,
           NEW block, NEW template, NEW schema, Labelled(body, block, template, schema)
    PROVE  Labelled(Slice(Concat(SessionHeader(term, session), body), 32), block, template, schema)
<1>1. PICK c : c = Slice(Concat(SessionHeader(term, session), body), 32)
  OBVIOUS
<1>2. \A o \in Nat : \A x : Holds(body, o, x) => Holds(c, o, x)
  BY <1>1, EnvelopeOpened
<1>3. 0 \in Nat /\ 2 \in Nat /\ 4 \in Nat
  OBVIOUS
<1>4. Labelled(c, block, template, schema)
  BY <1>2, <1>3, Zenon DEF Labelled
<1> QED BY <1>1, <1>4, Zenon

\* The texts of a message behind the session header.
LEMMA BodyOpened ==
    ASSUME NEW term, NEW session, NEW body, NEW block \in Nat, NEW template,
           NEW ks, NEW n \in {2, 3, 5}, \A i \in 1 .. n : IsText(ks[i]),
           Body(body, block, template, ks, n)
    PROVE  LET c == Slice(Concat(SessionHeader(term, session), body), 32)
           IN  Body(c, block, template, ks, n) /\ c.size = body.size
<1>1. PICK c : c = Slice(Concat(SessionHeader(term, session), body), 32)
  OBVIOUS
<1>2. /\ body.size \in Nat /\ body.size >= 8 /\ Labelled(body, block, template, 1)
      /\ WrittenAllIn(body, Starts(8 + block, ks), ks, n)
  BY Zenon DEF Body
<1>3. c.size = body.size /\ \A o \in Nat : \A x : Holds(body, o, x) => Holds(c, o, x)
  BY <1>1, <1>2, EnvelopeOpened
<1>4. Labelled(c, block, template, 1)
  BY <1>1, <1>2, LabelOpened, Zenon
<1>5. PICK at : at = Starts(8 + block, ks)
  OBVIOUS
<1>6. 8 + block \in Nat
  OBVIOUS
<1>7. Layout(at, ks, n)
  BY <1>5, <1>6, StartsLayout
<1>8. WrittenAllIn(c, at, ks, n)
  <2> SUFFICES ASSUME NEW i \in 1 .. n PROVE WrittenIn(c, at[i], ks[i])
    BY Zenon DEF WrittenAllIn
  <2>1. i \in 1 .. n + 1
    OBVIOUS
  <2>2. at[i] \in Nat
    BY <1>7, <2>1, Zenon DEF Layout
  <2>3. at[i] + 2 \in Nat
    BY <2>2
  <2>4. WrittenIn(body, at[i], ks[i])
    BY <1>2, <1>5, Zenon DEF WrittenAllIn
  <2> QED BY <1>3, <2>2, <2>3, <2>4, Zenon DEF WrittenIn, HoldsIn
<1> QED BY <1>1, <1>2, <1>3, <1>4, <1>5, <1>8, Zenon DEF Body

\* The tests of parse_message() and parse_topic_message().
Direct(b, template) ==
    IF template = 1 THEN decode_topic_message_with_sbe(b)
    ELSE IF template = 2 THEN decode_acknowledgment_with_sbe(b)
    ELSE Failed

\* parse_topic_message() goes by the template.
LEMMA DecodeDirectOf ==
    ASSUME NEW b, b.size \in Nat, b.size >= 8, NEW block, NEW template,
           Labelled(b, block, template, 1)
    PROVE  DecodeDirect(b) = Direct(b, template)
<1>1. Header(b).template_id = template /\ Header(b).schema_id = 1
  BY HeaderRead
<1>2. PICK t1 : t1 = decode_topic_message_with_sbe(b)
  OBVIOUS
<1>3. PICK t2 : t2 = decode_acknowledgment_with_sbe(b)
  OBVIOUS
<1>4. DecodeDirect(b) = CASE template = 1 -> t1 [] template = 2 -> t2 [] OTHER -> Failed
  BY <1>1, <1>2, <1>3, Zenon DEF DecodeDirect
<1>5. Direct(b, template) = IF template = 1 THEN t1 ELSE IF template = 2 THEN t2 ELSE Failed
  BY <1>2, <1>3, Zenon DEF Direct
<1> QED BY <1>4, <1>5

\* A bare message of the topic schema is decoded as it is.
LEMMA ParseDirect ==
    ASSUME NEW b, b.size \in Nat, b.size >= 8, NEW block, NEW template \in {1, 2},
           Labelled(b, block, template, 1)
    PROVE  parse_message(b) = Direct(b, template)
<1>1. Header(b).template_id = template /\ Header(b).schema_id = 1
  BY HeaderRead
<1>2. HasHeader(b)
  BY DEF HasHeader, HeaderLength
<1>3. ~is_session_event(Header(b)) /\ is_topic_message(Header(b))
  BY <1>1 DEF is_session_event, is_topic_message, SESSION_EVENT_TEMPLATE_ID, CLUSTER_SCHEMA_ID,
              TOPIC_MESSAGE_TEMPLATE_ID, TOPIC_SCHEMA_ID
<1>4. PICK t : t = parse_topic_message(b)
  OBVIOUS
<1>5. parse_message(b) = t
  <2>1. PICK s : s = parse_session_event(b)
    OBVIOUS
  <2>2. PICK a : a = parse_acknowledgment(b)
    OBVIOUS
  <2>3. PICK h : h = Header(b)
    OBVIOUS
  <2>4. parse_message(b) =
          CASE ~HasHeader(b) -> Failed
            [] HasHeader(b) /\ is_session_event(h) -> s
            [] HasHeader(b) /\ ~is_session_event(h) /\ is_topic_message(h) -> t
            [] HasHeader(b) /\ ~is_session_event(h) /\ ~is_topic_message(h)
                   /\ is_acknowledgment(h) -> a
            [] OTHER -> Failed
    BY <1>4, <2>1, <2>2, <2>3, Zenon DEF parse_message
  <2> QED BY <1>2, <1>3, <2>3, <2>4
<1>6. t = DecodeDirect(b)
  <2>1. Header(b).schema_id # CLUSTER_SCHEMA_ID
    BY <1>1 DEF CLUSTER_SCHEMA_ID
  <2> QED BY <1>2, <1>4, <2>1, Zenon DEF parse_topic_message
<1> QED BY <1>5, <1>6, DecodeDirectOf, Zenon

\* A message behind a session header is decoded from behind it.
LEMMA ParseEnveloped ==
    ASSUME NEW term, NEW session, NEW body, body.size \in Nat, body.size >= 8,
           NEW block, NEW template, Labelled(body, block, template, 1)
    PROVE  LET b == Concat(SessionHeader(term, session), body)
           IN  parse_message(b) = Direct(Slice(b, 32), template)
<1>1. PICK b : b = Concat(SessionHeader(term, session), body)
  OBVIOUS
<1>2. Labelled(b, 24, 1, 111) /\ b.size = 32 + body.size /\ Slice(b, 32).size = body.size
  BY <1>1, EnvelopeOpened
<1>3. b.size \in Nat /\ b.size >= 40
  BY <1>2
<1>4. Header(b).block_length = 24 /\ Header(b).template_id = 1 /\ Header(b).schema_id = 111
  BY <1>2, <1>3, HeaderRead
<1>5. HasHeader(b) /\ HeaderLength = 8 /\ CLUSTER_SCHEMA_ID = 111
  BY <1>3 DEF HasHeader, HeaderLength, CLUSTER_SCHEMA_ID
<1>6. ~is_session_event(Header(b)) /\ is_topic_message(Header(b))
  BY <1>4 DEF is_session_event, is_topic_message, SESSION_EVENT_TEMPLATE_ID, CLUSTER_SCHEMA_ID,
              TOPIC_MESSAGE_TEMPLATE_ID, TOPIC_SCHEMA_ID
<1>7. PICK t : t = parse_topic_message(b)
  OBVIOUS
<1>8. parse_message(b) = t
  <2>1. PICK s : s = parse_session_event(b)
    OBVIOUS
  <2>2. PICK a : a = parse_acknowledgment(b)
    OBVIOUS
  <2>3. PICK h : h = Header(b)
    OBVIOUS
  <2>4. parse_message(b) =
          CASE ~HasHeader(b) -> Failed
            [] HasHeader(b) /\ is_session_event(h) -> s
            [] HasHeader(b) /\ ~is_session_event(h) /\ is_topic_message(h) -> t
            [] HasHeader(b) /\ ~is_session_event(h) /\ ~is_topic_message(h)
                   /\ is_acknowledgment(h) -> a
            [] OTHER -> Failed
    BY <1>7, <2>1, <2>2, <2>3, Zenon DEF parse_message
  <2> QED BY <1>5, <1>6, <2>3, <2>4
<1>9. t = DecodeDirect(Slice(b, 32))
  <2>1. PICK e : e = HeaderLength + Header(b).block_length
    OBVIOUS
  <2>2. e = 32 /\ ~(b.size < e + HeaderLength)
    BY <1>3, <1>4, <1>5, <2>1
  <2> QED BY <1>4, <1>5, <1>7, <2>1, <2>2, Zenon DEF parse_topic_message
<1>10. Labelled(Slice(b, 32), block, template, 1)
  BY <1>1, LabelOpened, Zenon
<1>11. DecodeDirect(Slice(b, 32)) = Direct(Slice(b, 32), template)
  BY <1>2, <1>10, DecodeDirectOf, Zenon
<1> QED BY <1>1, <1>8, <1>9, <1>11, Zenon

-----------------------------------------------------------------------------
\* computeLength() is where the last text ends.
LEMMA LengthIs ==
    ASSUME NEW block \in Nat, NEW fields, NEW n \in {2, 3, 5}, Len(fields) = n,
           \A i \in 1 .. n : fields[i] = VarData,
           NEW ks, \A i \in 1 .. n : IsText(ks[i]),
           NEW lengths, \A i \in 1 .. n : lengths[i] = ks[i].len
    PROVE  ComputeLength(block, fields, lengths).length = Starts(8 + block, ks)[n + 1] - 8
<1>1. PICK at : at = Starts(8 + block, ks)
  OBVIOUS
<1>2. 8 + block \in Nat /\ n \in 0 .. 5
  OBVIOUS
<1>3. Layout(at, ks, n) /\ at[1] = 8 + block
  BY <1>1, <1>2, StartsLayout
<1>4. PICK after : LengthRun(block, fields, lengths, n, after)
  BY <1>2, LengthSteps, Zenon
<1>5. VarData.headerLength = 2
  BY DEF VarData, VarDataField
<1>6. \A i \in 1 .. n : ks[i].len \in Nat /\ at[i] \in Nat /\ at[i + 1] = at[i] + 2 + ks[i].len
  BY <1>3 DEF Layout, IsText
<1>7. /\ after[0] = block
      /\ \A i \in 1 .. n : after[i] = after[i - 1] + 2 + ks[i].len
      /\ ComputeLength(block, fields, lengths).length = after[n]
  BY <1>4, <1>5, Zenon DEF LengthRun, Longer
<1>8. after[0] = at[1] - 8
  BY <1>3, <1>7
<1>9. ASSUME NEW i \in 1 .. n, after[i - 1] = at[i] - 8
      PROVE  after[i] = at[i + 1] - 8
  <2>1. after[i] = (at[i] - 8) + 2 + ks[i].len
    BY <1>7, <1>9, Zenon
  <2>2. ks[i].len \in Nat /\ at[i] \in Nat /\ at[i + 1] = at[i] + 2 + ks[i].len
    BY <1>6, Zenon
  <2> QED BY <2>1, <2>2
<1>10. /\ 1 - 1 = 0 /\ 2 - 1 = 1 /\ 3 - 1 = 2 /\ 4 - 1 = 3 /\ 5 - 1 = 4
       /\ 1 + 1 = 2 /\ 2 + 1 = 3 /\ 3 + 1 = 4 /\ 4 + 1 = 5 /\ 5 + 1 = 6
  OBVIOUS
<1>11. after[2] = at[3] - 8
  <2>1. 1 \in 1 .. n /\ 2 \in 1 .. n
    OBVIOUS
  <2>2. after[1] = at[2] - 8
    BY <1>8, <1>9, <1>10, <2>1
  <2> QED BY <1>9, <1>10, <2>1, <2>2
<1>12. n >= 3 => after[3] = at[4] - 8
  <2> HAVE n >= 3
  <2>1. 3 \in 1 .. n
    OBVIOUS
  <2> QED BY <1>9, <1>10, <1>11, <2>1
<1>13. n = 5 => after[5] = at[6] - 8
  <2> HAVE n = 5
  <2>1. 4 \in 1 .. n /\ 5 \in 1 .. n /\ n >= 3
    OBVIOUS
  <2>2. after[4] = at[5] - 8
    BY <1>9, <1>10, <1>12, <2>1
  <2> QED BY <1>9, <1>10, <2>1, <2>2
<1>14. after[n] = at[n + 1] - 8
  BY <1>11, <1>12, <1>13
<1> QED BY <1>1, <1>7, <1>14, Zenon

\* computeLength() throws exactly if a text is too long for its field.
LEMMA LengthsShort ==
    ASSUME NEW block, NEW fields, NEW n \in {2, 3, 5}, DOMAIN fields = 1 .. n,
           \A i \in 1 .. n : fields[i] = VarData,
           NEW ks, NEW lengths, \A i \in 1 .. n : lengths[i] = ks[i].len
    PROVE  ComputeLength(block, fields, lengths).ok <=> \A i \in 1 .. n : Short(ks[i])
<1>1. VarData.maxLength = 65534
  BY DEF VarData, VarDataField
<1>2. ComputeLength(block, fields, lengths).ok <=> \A i \in DOMAIN fields : lengths[i] <= fields[i].maxLength
  BY DEF ComputeLength
<1> QED BY <1>1, <1>2 DEF Short

\* The texts of a topic message, and what put<Field>(src, length) keeps of them.
AreTexts(ks, n) == \A i \in 1 .. n : IsText(ks[i])
KeptOf(ks) == [i \in 1 .. 5 |-> Kept(ks[i])]
EndOf(p, ks, n) == Starts(p, ks)[n + 1]

\* The five texts of a topic message, in order.
LEMMA TextsOf ==
    ASSUME NEW t
    PROVE  /\ DOMAIN Texts(t) = 1 .. 5 /\ Len(Texts(t)) = 5
           /\ Texts(t)[1] = t.topic /\ Texts(t)[2] = t.type /\ Texts(t)[3] = t.uuid
           /\ Texts(t)[4] = t.payload /\ Texts(t)[5] = t.headers
           /\ \A i \in 1 .. 5 : Lengths(Texts(t))[i] = Texts(t)[i].len
BY DEF Texts, Lengths

\* A message is not shorter than its block and its lengths.
LEMMA EndBound ==
    ASSUME NEW p \in Nat, NEW ks, NEW n \in {2, 3, 5}, AreTexts(ks, n)
    PROVE  EndOf(p, ks, n) \in Nat /\ EndOf(p, ks, n) >= p + 4
           /\ (n = 5 => EndOf(p, ks, n) >= p + 10)
<1>1. PICK at : at = Starts(p, ks)
  OBVIOUS
<1>2. Layout(at, ks, n) /\ at[1] = p
  BY <1>1, StartsLayout DEF AreTexts
<1>3. \A i \in 1 .. n : ks[i].len \in Nat /\ at[i] \in Nat /\ at[i + 1] = at[i] + 2 + ks[i].len
  BY <1>2 DEF Layout, IsText
<1>4. at[3] \in Nat /\ at[3] >= p + 4 /\ at[2] \in Nat
  BY <1>2, <1>3
<1>5. n >= 3 => at[4] \in Nat /\ at[4] >= p + 6
  BY <1>3, <1>4
<1>6. n = 5 => at[5] \in Nat /\ at[5] >= p + 8
  BY <1>3, <1>5
<1>7. n = 5 => at[6] \in Nat /\ at[6] >= p + 10
  BY <1>3, <1>6
<1> QED BY <1>1, <1>4, <1>5, <1>7 DEF EndOf

\* The length computed for a topic message.
LEMMA TopicLength ==
    ASSUME NEW t, AreTexts(Texts(t), 5)
    PROVE  /\ TM!computeLength(Lengths(Texts(t))).length = EndOf(24, Texts(t), 5) - 8
           /\ TM!computeLength(Lengths(Texts(t))).ok <=> \A i \in 1 .. 5 : Short(Texts(t)[i])
<1>1. PICK ks : ks = Texts(t)
  OBVIOUS
<1>2. PICK lengths : lengths = Lengths(ks)
  OBVIOUS
<1>3. \A i \in 1 .. 5 : lengths[i] = ks[i].len
  BY <1>1, <1>2, TextsOf
<1>4. \A i \in 1 .. 5 : IsText(ks[i])
  BY <1>1, Zenon DEF AreTexts
<1>5. 16 \in Nat /\ 5 \in {2, 3, 5} /\ 8 + 16 = 24 /\ 5 + 1 = 6
  OBVIOUS
<1>6. /\ Len(TM!VarFields) = 5 /\ DOMAIN TM!VarFields = 1 .. 5
      /\ \A i \in 1 .. 5 : TM!VarFields[i] = VarData
  BY TMFields
<1>7. PICK fields : fields = TM!VarFields
  OBVIOUS
<1>8. ComputeLength(16, fields, lengths).length = Starts(8 + 16, ks)[5 + 1] - 8
  BY <1>3, <1>4, <1>5, <1>6, <1>7, LengthIs
<1>9. ComputeLength(16, fields, lengths).ok <=> \A i \in 1 .. 5 : Short(ks[i])
  BY <1>3, <1>5, <1>6, <1>7, LengthsShort
<1>10. TM!computeLength(lengths) = ComputeLength(16, fields, lengths)
  BY <1>7, TMComputeLength, Zenon
<1> QED BY <1>1, <1>2, <1>5, <1>8, <1>9, <1>10, Zenon DEF EndOf

-----------------------------------------------------------------------------
\* The frames of topic messages.

\* A frame that did not throw has its bytes.
LEMMA FrameParts ==
    ASSUME NEW ok, NEW bytes
    PROVE  Frame(ok, bytes).ok = ok /\ (ok => Frame(ok, bytes).bytes = bytes)
BY DEF Frame

\* Strings put into a topic message, and the frame cut to m bytes.
LEMMA TopicOfStrings ==
    ASSUME NEW f, NEW block \in Nat, NEW limit \in Nat, NEW size, Ready(f, block, 1, limit, size),
           8 + block <= limit,
           NEW ks, AreTexts(ks, 5), \A i \in 1 .. 5 : Short(ks[i])
    PROVE  LET g == PutStrings(f, TM!VarFields, ks)
           IN  /\ Filled(f, Starts(8 + block, ks), ks, 5, g)
               /\ g.ok <=> EndOf(8 + block, ks, 5) <= limit
<1>1. PICK at : at = Starts(8 + block, ks)
  OBVIOUS
<1>2. 8 + block \in Nat /\ 5 \in 0 .. 5 /\ 5 \in {2, 3, 5} /\ 5 + 1 = 6
  OBVIOUS
<1>3. \A i \in 1 .. 5 : IsText(ks[i])
  BY Zenon DEF AreTexts
<1>4. Layout(at, ks, 5) /\ at[1] = 8 + block
  BY <1>1, <1>2, <1>3, StartsLayout
<1>5. /\ IsFlyweight(f) /\ f.ok /\ f.position = 8 + block /\ f.limit = limit
      /\ f.position <= f.limit
  BY Zenon DEF Ready
<1>6. PICK fields : fields = TM!VarFields
  OBVIOUS
<1>7. Len(fields) = 5 /\ \A i \in 1 .. 5 : fields[i] = VarData
  BY <1>6, TMFields
<1>8. Filled(f, at, ks, 5, PutStrings(f, fields, ks))
  BY <1>2, <1>4, <1>5, <1>7, PutStringsFill
<1>9. PICK g : g = PutStrings(f, fields, ks)
  OBVIOUS
<1>10. g.ok <=> at[6] <= limit
  BY <1>2, <1>5, <1>8, <1>9, Zenon DEF Filled
<1> QED BY <1>1, <1>2, <1>6, <1>8, <1>9, <1>10, Zenon DEF EndOf

\* create_topic_message() and encode_topic_message() write all of a message and
\* cut off the last eight bytes.
CutTopic(frame, ks) ==
    frame.ok => /\ Body(frame.bytes, 16, 1, ks, 5)
                /\ frame.bytes.size = EndOf(24, ks, 5) - 8

\* A buffer that is cut to encodedLength() lacks its last eight bytes.
LEMMA CutTopicLemma ==
    ASSUME NEW t, AreTexts(Texts(t), 5), NEW f, NEW n,
           n = TM!sbeBlockAndHeaderLength + TM!computeLength(Lengths(Texts(t))).length,
           n \in Nat => Ready(f, 16, 1, n, n),
           NEW ok, ok = TM!computeLength(Lengths(Texts(t))).ok
    PROVE  LET g == PutStrings(f, TM!VarFields, Texts(t))
           IN  CutTopic(Frame(ok /\ g.ok, Resize(g.buffer, encodedLength(g))), Texts(t))
<1>1. PICK ks : ks = Texts(t)
  OBVIOUS
<1>2. PICK g : g = PutStrings(f, TM!VarFields, ks)
  OBVIOUS
<1>3. PICK b : b = Resize(g.buffer, encodedLength(g))
  OBVIOUS
<1>4. PICK fr : fr = Frame(ok /\ g.ok, b)
  OBVIOUS
<1>5. ASSUME ok /\ g.ok
      PROVE  Body(b, 16, 1, ks, 5) /\ b.size = EndOf(24, ks, 5) - 8
  <2>1. EndOf(24, ks, 5) \in Nat /\ EndOf(24, ks, 5) >= 34
    <3>1. 24 \in Nat /\ 5 \in {2, 3, 5} /\ 24 + 10 = 34
      OBVIOUS
    <3> QED BY <1>1, <3>1, EndBound
  <2>2. /\ TM!computeLength(Lengths(ks)).length = EndOf(24, ks, 5) - 8
        /\ \A i \in 1 .. 5 : Short(ks[i])
    BY <1>1, <1>5, TopicLength
  <2>3. n = 24 + (EndOf(24, ks, 5) - 8)
    BY <1>1, <2>2, BlockFields
  <2>4. n \in Nat /\ n >= 24
    BY <2>1, <2>3
  <2>5. Ready(f, 16, 1, n, n)
    BY <2>4
  <2>6. 8 + 16 = 24 /\ 16 \in Nat /\ 8 + 16 <= n /\ n \in Int
    BY <2>4
  <2>7. Filled(f, Starts(8 + 16, ks), ks, 5, g)
    BY <1>1, <1>2, <2>2, <2>4, <2>5, <2>6, TopicOfStrings
  <2>8. PICK m : m = EndOf(24, ks, 5) - 8
    OBVIOUS
  <2>9. m \in Nat /\ m >= 8 /\ 5 \in {2, 3, 5} /\ 5 + 1 = 6
    BY <2>1, <2>8
  <2>10. \A i \in 1 .. 5 : IsText(ks[i])
    BY <1>1, Zenon DEF AreTexts
  <2>11. /\ Body(Resize(g.buffer, m), 16, 1, ks, 5) /\ Resize(g.buffer, m).size = m
         /\ encodedLength(g) = Starts(8 + 16, ks)[5 + 1] - 8
    <3>1. g.ok => \A x \in Nat : x >= 8 => Made(g, x, 16, 1, ks, 5)
      BY <2>5, <2>6, <2>7, <2>9, <2>10, MadeOf
    <3>2. Made(g, m, 16, 1, ks, 5)
      BY <1>5, <2>9, <3>1, Zenon
    <3> QED BY <3>2, Zenon DEF Made
  <2>12. encodedLength(g) = m
    BY <2>6, <2>8, <2>9, <2>11, Zenon DEF EndOf
  <2> QED BY <1>3, <2>8, <2>11, <2>12, Zenon
<1>6. fr.ok = (ok /\ g.ok) /\ (ok /\ g.ok => fr.bytes = b)
  BY <1>4, FrameParts, Zenon
<1>7. CutTopic(fr, ks)
  BY <1>5, <1>6, Zenon DEF CutTopic
<1> QED BY <1>1, <1>2, <1>3, <1>4, <1>7, Zenon

\* create_topic_message() makes a frame that is cut.
LEMMA CreateTopic ==
    ASSUME NEW t, AreTexts(Texts(t), 5)
    PROVE  CutTopic(create_topic_message(t), Texts(t))
<1>1. PICK c : c = TM!computeLength(Lengths(Texts(t)))
  OBVIOUS
<1>2. PICK n : n = TM!sbeBlockAndHeaderLength + c.length
  OBVIOUS
<1>3. PICK f : f = SetField(TM!wrapAndApplyHeader(NewBuffer(n), 0, n), TM!timestamp, Now)
  OBVIOUS
<1>4. PICK g : g = PutStrings(f, TM!VarFields, Texts(t))
  OBVIOUS
<1>5. create_topic_message(t) = Frame(c.ok /\ g.ok, Resize(g.buffer, encodedLength(g)))
  BY <1>1, <1>2, <1>3, <1>4, Zenon DEF create_topic_message
<1>6. ASSUME n \in Nat
      PROVE  Ready(f, 16, 1, n, n)
  <2>1. 16 \in Nat /\ 24 \in Nat /\ 8 + 16 <= n
    <3>1. c.length = EndOf(24, Texts(t), 5) - 8
      BY <1>1, TopicLength
    <3>2. 24 \in Nat /\ 5 \in {2, 3, 5}
      OBVIOUS
    <3>3. EndOf(24, Texts(t), 5) \in Nat /\ EndOf(24, Texts(t), 5) >= 24 + 4
      BY <3>2, EndBound
    <3>4. n = 24 + (EndOf(24, Texts(t), 5) - 8)
      BY <1>2, <3>1, BlockFields
    <3> QED BY <3>3, <3>4
  <2>2. Ready(WrapAndApply(NewBuffer(n), 0, n, 16, 1, 1, 1), 16, 1, n, n)
    BY <1>6, <2>1, WrapAndApplyLemma, Zenon
  <2>3. TM!timestamp.offset \in Nat
    BY BlockFields
  <2>4. f = SetField(WrapAndApply(NewBuffer(n), 0, n, 16, 1, 1, 1), TM!timestamp, Now)
    BY <1>3, TMWrapAndApply, Zenon
  <2> QED BY <2>2, <2>3, <2>4, ReadySet, Zenon
<1> QED BY <1>1, <1>2, <1>4, <1>5, <1>6, CutTopicLemma

\* encode_topic_message() differs in the timestamp and the sequence number.
LEMMA EncodeTopic ==
    ASSUME NEW t, AreTexts(Texts(t), 5), NEW stamp
    PROVE  CutTopic(encode_topic_message(t, stamp), Texts(t))
<1>1. PICK c : c = TM!computeLength(Lengths(Texts(t)))
  OBVIOUS
<1>2. PICK n : n = TM!sbeBlockAndHeaderLength + c.length
  OBVIOUS
<1>3. PICK x : x = IF stamp = 0 THEN Now ELSE stamp
  OBVIOUS
<1>4. PICK e : e = SetField(TM!wrapAndApplyHeader(NewBuffer(n), 0, n), TM!timestamp, x)
  OBVIOUS
<1>5. PICK f : f = SetField(e, TM!sequenceNumber, 0)
  OBVIOUS
<1>6. PICK g : g = PutStrings(f, TM!VarFields, Texts(t))
  OBVIOUS
<1>7. encode_topic_message(t, stamp) = Frame(c.ok /\ g.ok, Resize(g.buffer, encodedLength(g)))
  BY <1>1, <1>2, <1>3, <1>4, <1>5, <1>6, Zenon DEF encode_topic_message
<1>8. ASSUME n \in Nat
      PROVE  Ready(f, 16, 1, n, n)
  <2>1. 16 \in Nat /\ 24 \in Nat /\ 8 + 16 <= n
    <3>1. c.length = EndOf(24, Texts(t), 5) - 8
      BY <1>1, TopicLength
    <3>2. 24 \in Nat /\ 5 \in {2, 3, 5}
      OBVIOUS
    <3>3. EndOf(24, Texts(t), 5) \in Nat /\ EndOf(24, Texts(t), 5) >= 24 + 4
      BY <3>2, EndBound
    <3>4. n = 24 + (EndOf(24, Texts(t), 5) - 8)
      BY <1>2, <3>1, BlockFields
    <3> QED BY <3>3, <3>4
  <2>2. Ready(WrapAndApply(NewBuffer(n), 0, n, 16, 1, 1, 1), 16, 1, n, n)
    BY <1>8, <2>1, WrapAndApplyLemma, Zenon
  <2>3. TM!timestamp.offset \in Nat /\ TM!sequenceNumber.offset \in Nat
    BY BlockFields
  <2>4. e = SetField(WrapAndApply(NewBuffer(n), 0, n, 16, 1, 1, 1), TM!timestamp, x)
    BY <1>4, TMWrapAndApply, Zenon
  <2>5. Ready(e, 16, 1, n, n)
    BY <2>2, <2>3, <2>4, ReadySet, Zenon
  <2> QED BY <1>5, <2>3, <2>5, ReadySet, Zenon
<1> QED BY <1>1, <1>2, <1>6, <1>7, <1>8, CutTopicLemma

-----------------------------------------------------------------------------
\* Frames that resize() leaves whole.
Entire(b, block, template, ks, n) ==
    Body(b, block, template, ks, n) /\ b.size = EndOf(8 + block, ks, n)

\* A buffer that is cut to the header and encodedLength() is entire.
LEMMA WholeOf ==
    ASSUME NEW f, NEW block \in Nat, NEW template, NEW limit \in Int, NEW size,
           Ready(f, block, template, limit, size),
           NEW ks, NEW n \in {2, 3, 5}, \A i \in 1 .. n : IsText(ks[i]),
           NEW g, Filled(f, Starts(8 + block, ks), ks, n, g)
    PROVE  g.ok => Entire(Resize(g.buffer, HeaderLength + encodedLength(g)), block, template, ks, n)
<1> HAVE g.ok
<1>1. g.ok => \A m \in Nat : m >= 8 => Made(g, m, block, template, ks, n)
  BY MadeOf
<1>2. \A m \in Nat : m >= 8 => Made(g, m, block, template, ks, n)
  BY <1>1, Zenon
<1>3. PICK m : m = EndOf(8 + block, ks, n)
  OBVIOUS
<1>4. m \in Nat /\ m >= 8 + block + 4
  BY <1>3, EndBound DEF AreTexts
<1>5. m >= 8
  BY <1>4
<1>6. Made(g, m, block, template, ks, n)
  BY <1>2, <1>4, <1>5, Zenon
<1>7. /\ Body(Resize(g.buffer, m), block, template, ks, n)
      /\ Resize(g.buffer, m).size = m
      /\ encodedLength(g) = m - 8
  BY <1>3, <1>6, Zenon DEF Made, EndOf
<1>8. HeaderLength + encodedLength(g) = m
  BY <1>4, <1>7 DEF HeaderLength
<1> QED BY <1>3, <1>7, <1>8, Zenon DEF Entire

\* publish_topic() and the commits without an id.
WholeTopic(frame, ks) == frame.ok => Entire(frame.bytes, 16, 1, ks, 5)

\* What is kept of five texts are five texts.
LEMMA KeptTexts ==
    ASSUME NEW ks, AreTexts(ks, 5)
    PROVE  AreTexts(KeptOf(ks), 5) /\ \A i \in 1 .. 5 : KeptOf(ks)[i] = Kept(ks[i])
<1>1. \A i \in 1 .. 5 : KeptOf(ks)[i] = Kept(ks[i])
  BY DEF KeptOf
<1>2. \A i \in 1 .. 5 : IsText(KeptOf(ks)[i])
  <2> SUFFICES ASSUME NEW i \in 1 .. 5 PROVE IsText(KeptOf(ks)[i])
    OBVIOUS
  <2>1. IsText(ks[i])
    BY Zenon DEF AreTexts
  <2>2. IsText(Kept(ks[i]))
    BY <2>1, KeptText, Zenon
  <2> QED BY <1>1, <2>2, Zenon
<1> QED BY <1>1, <1>2, Zenon DEF AreTexts

\* publish_topic() and the commits make an entire frame of what is kept of the
\* texts, or throw: if it does not fit into the buffer without eight bytes.
LEMMA TopicFrameLemma ==
    ASSUME NEW t, AreTexts(Texts(t), 5), NEW size \in Nat, size >= 32
    PROVE  /\ WholeTopic(TopicFrame(t, size), KeptOf(Texts(t)))
           /\ TopicFrame(t, size).ok <=> EndOf(24, KeptOf(Texts(t)), 5) <= size - 8
<1>1. PICK w : w = wrap(NewBuffer(size), 0, size)
  OBVIOUS
<1>2. /\ HeaderLength = 8 /\ 8 \in Nat /\ 0 \in Nat /\ size \in Int /\ 0 + 8 <= size /\ 0 + 8 = 8
      /\ size - 8 \in Int /\ 16 \in Nat /\ 8 + 16 <= size - 8 /\ 8 + 16 = 24
  BY DEF HeaderLength
<1>3. w = Wrap(NewBuffer(size), 0, 8, size)
  BY <1>1, <1>2, Zenon DEF wrap
<1>4. Wrapped(w, NewBuffer(size), 0, 8, size)
  BY <1>2, <1>3, WrapLemma, Zenon
<1>5. IsFlyweight(w) /\ w.buffer = NewBuffer(size) /\ w.offset = 0 /\ w.ok
  BY <1>2, <1>4, Zenon DEF Wrapped
<1>6. PICK h : h = Apply(w, 16, 1, 1, 1)
  OBVIOUS
<1>7. h.ok /\ Labelled(h.buffer, 16, 1, 1) /\ h.buffer.size = size
  BY <1>5, <1>6, ApplyLemma
<1>8. PICK limit : limit = size - 8
  OBVIOUS
<1>9. PICK f : f = Wrap(h.buffer, 8, 16, limit)
  OBVIOUS
<1>10. Wrapped(f, h.buffer, 8, 16, limit)
  BY <1>2, <1>8, <1>9, WrapLemma, Zenon
<1>11. Ready(f, 16, 1, limit, size)
  BY <1>2, <1>7, <1>8, <1>10, Zenon DEF Wrapped, Ready
<1>12. TM!timestamp.offset \in Nat /\ TM!sequenceNumber.offset \in Nat
  BY BlockFields
<1>13. PICK r : r = SetField(f, TM!timestamp, Now)
  OBVIOUS
<1>14. Ready(r, 16, 1, limit, size)
  BY <1>11, <1>12, <1>13, ReadySet, Zenon
<1>15. PICK s : s = SetField(r, TM!sequenceNumber, 0)
  OBVIOUS
<1>16. Ready(s, 16, 1, limit, size)
  BY <1>12, <1>14, <1>15, ReadySet, Zenon
<1>17. PICK g : g = PutRaws(s, TM!VarFields, Texts(t))
  OBVIOUS
<1>18. TopicFrame(t, size) = Frame(g.ok, Resize(g.buffer, HeaderLength + encodedLength(g)))
  <2>1. TM!wrapForEncode(h.buffer, HeaderLength, size - HeaderLength) = f
    BY <1>2, <1>8, <1>9, TMWrapForEncode, Zenon
  <2> QED BY <1>1, <1>6, <1>13, <1>15, <1>17, <2>1, Zenon DEF TopicFrame
<1>19. PICK ks : ks = KeptOf(Texts(t))
  OBVIOUS
<1>20. AreTexts(ks, 5) /\ \A i \in 1 .. 5 : ks[i] = Kept(Texts(t)[i])
  BY <1>19, KeptTexts
<1>21. PICK at : at = Starts(8 + 16, ks)
  OBVIOUS
<1>22. 5 \in 0 .. 5 /\ 5 \in {2, 3, 5} /\ 24 \in Nat /\ 5 + 1 = 6
  OBVIOUS
<1>23. Layout(at, ks, 5) /\ at[1] = 8 + 16
  BY <1>2, <1>20, <1>21, <1>22, StartsLayout DEF AreTexts
<1>24. Filled(s, at, ks, 5, g)
  <2>1. /\ IsFlyweight(s) /\ s.ok /\ s.position = 8 + 16 /\ s.limit = limit
        /\ s.position <= s.limit
    BY <1>2, <1>8, <1>16, Zenon DEF Ready
  <2>2. Len(TM!VarFields) = 5 /\ \A i \in 1 .. 5 : TM!VarFields[i] = VarData /\ IsText(Texts(t)[i])
    BY TMFields, Zenon DEF AreTexts
  <2>3. PICK fields : fields = TM!VarFields
    OBVIOUS
  <2>4. PICK texts : texts = Texts(t)
    OBVIOUS
  <2>5. Filled(s, at, ks, 5, PutRaws(s, fields, texts))
    BY <1>20, <1>22, <1>23, <2>1, <2>2, <2>3, <2>4, PutRawsFill
  <2> QED BY <1>17, <2>3, <2>4, <2>5, Zenon
<1>25. PICK b : b = Resize(g.buffer, HeaderLength + encodedLength(g))
  OBVIOUS
<1>26. g.ok => Entire(b, 16, 1, ks, 5)
  <2>1. \A i \in 1 .. 5 : IsText(ks[i])
    BY <1>20, Zenon DEF AreTexts
  <2>2. limit \in Int /\ Filled(s, Starts(8 + 16, ks), ks, 5, g)
    BY <1>2, <1>8, <1>21, <1>24, Zenon
  <2>3. g.ok => Entire(Resize(g.buffer, HeaderLength + encodedLength(g)), 16, 1, ks, 5)
    BY <1>2, <1>16, <1>22, <2>1, <2>2, WholeOf
  <2> QED BY <1>25, <2>3, Zenon
<1>27. g.ok <=> EndOf(24, ks, 5) <= limit
  BY <1>2, <1>16, <1>21, <1>22, <1>24, Zenon DEF Filled, Ready, EndOf
<1>28. PICK fr : fr = Frame(g.ok, b)
  OBVIOUS
<1>29. fr.ok = g.ok /\ (g.ok => fr.bytes = b)
  BY <1>28, FrameParts, Zenon
<1>30. WholeTopic(fr, ks) /\ (fr.ok <=> EndOf(24, ks, 5) <= limit)
  BY <1>26, <1>27, <1>29, Zenon DEF WholeTopic
<1> QED BY <1>8, <1>18, <1>19, <1>25, <1>28, <1>30, Zenon

\* The cluster's topic messages, with the block of today's format or of the old one.
LEMMA EndShift ==
    ASSUME NEW ks, AreTexts(ks, 5)
    PROVE  EndOf(16, ks, 5) = EndOf(24, ks, 5) - 8
<1>1. \A i \in 1 .. 5 : ks[i].len \in Nat
  BY DEF AreTexts, IsText
<1> QED BY <1>1 DEF EndOf, Starts

\* The cluster's topic message is entire, in the old format and in the new.
LEMMA TopicLemma ==
    ASSUME NEW m, AreTexts(Texts(m), 5), \A i \in 1 .. 5 : Short(Texts(m)[i]),
           NEW block \in {8, 16}
    PROVE  Entire(Topic(m, block), block, 1, Texts(m), 5)
<1>1. PICK ks : ks = Texts(m)
  OBVIOUS
<1>2. PICK n : n = HeaderLength + TM!computeLength(Lengths(ks)).length
  OBVIOUS
<1>3. n = EndOf(24, ks, 5) /\ n \in Nat /\ n >= 34 /\ n \in Int
  <2>1. TM!computeLength(Lengths(ks)).length = EndOf(24, ks, 5) - 8
    BY <1>1, TopicLength
  <2>2. 24 \in Nat /\ 5 \in {2, 3, 5} /\ 24 + 10 = 34
    OBVIOUS
  <2>3. EndOf(24, ks, 5) \in Nat /\ EndOf(24, ks, 5) >= 34
    BY <1>1, <2>2, EndBound
  <2> QED BY <1>2, <2>1, <2>3 DEF HeaderLength
<1>4. block \in Nat /\ 8 + block \in Nat /\ 8 + block <= n /\ 5 \in {2, 3, 5} /\ 5 + 1 = 6
  BY <1>3
<1>5. PICK e : e = WrapAndApply(NewBuffer(n), 0, n, block, 1, 1, 1)
  OBVIOUS
<1>6. Ready(e, block, 1, n, n)
  BY <1>3, <1>4, <1>5, WrapAndApplyLemma, Zenon
<1>7. PICK f : f = SetField(e, TM!timestamp, Now)
  OBVIOUS
<1>8. TM!timestamp.offset \in Nat
  BY BlockFields
<1>9. Ready(f, block, 1, n, n)
  BY <1>6, <1>7, <1>8, ReadySet, Zenon
<1>10. PICK g : g = PutStrings(f, TM!VarFields, ks)
  OBVIOUS
<1>11. AreTexts(ks, 5) /\ (\A i \in 1 .. 5 : Short(ks[i])) /\ \A i \in 1 .. 5 : IsText(ks[i])
  BY <1>1, Zenon DEF AreTexts
<1>12. Filled(f, Starts(8 + block, ks), ks, 5, g) /\ (g.ok <=> EndOf(8 + block, ks, 5) <= n)
  BY <1>3, <1>4, <1>9, <1>10, <1>11, TopicOfStrings
<1>13. EndOf(8 + block, ks, 5) <= n
  BY <1>3, <1>11, EndShift
<1>14. g.ok
  BY <1>12, <1>13, Zenon
<1>15. PICK b : b = Resize(g.buffer, HeaderLength + encodedLength(g))
  OBVIOUS
<1>16. Entire(b, block, 1, ks, 5)
  <2>1. g.ok => Entire(Resize(g.buffer, HeaderLength + encodedLength(g)), block, 1, ks, 5)
    BY <1>3, <1>4, <1>9, <1>11, <1>12, WholeOf
  <2> QED BY <1>14, <1>15, <2>1, Zenon
<1>17. Topic(m, block) = b
  BY <1>1, <1>2, <1>5, <1>7, <1>10, <1>15, Zenon DEF Topic
<1> QED BY <1>1, <1>16, <1>17, Zenon

-----------------------------------------------------------------------------
\* The frame of a commit with a topic id: the fields of the block and two texts.
LiteFrame(frame, id, seq, ks) ==
    frame.ok => /\ Entire(frame.bytes, 12, 301, ks, 2)
                /\ Holds(frame.bytes, 8, Number(id, 4))
                /\ Holds(frame.bytes, 12, Number(seq, 8))

\* A CommitOffsetLite frame is entire, with its topic id and sequence.
LEMMA LiteLemma ==
    ASSUME NEW offset, IsText(offset.id), IsText(offset.identifier), topic_to_id(offset.topic) # 0
    PROVE  LiteFrame(build_commit_offset_message(offset), topic_to_id(offset.topic),
                     offset.sequence, <<offset.id, offset.identifier>>)
<1>1. PICK ks : ks = <<offset.id, offset.identifier>>
  OBVIOUS
<1>2. PICK c : c = Lite!computeLength(Lengths(ks))
  OBVIOUS
<1>3. PICK n : n = HeaderLength + c.length
  OBVIOUS
<1>4. PICK d : d = Lite!wrapAndApplyHeader(NewBuffer(n), 0, n)
  OBVIOUS
<1>5. PICK id : id = topic_to_id(offset.topic)
  OBVIOUS
<1>6. PICK e : e = SetField(d, Lite!topicId, id)
  OBVIOUS
<1>7. PICK f : f = SetField(e, Lite!sequence, offset.sequence)
  OBVIOUS
<1>8. PICK g : g = PutRaws(f, Lite!VarFields, ks)
  OBVIOUS
<1>9. PICK b : b = Resize(g.buffer, HeaderLength + encodedLength(g))
  OBVIOUS
<1>10. PICK fr : fr = Frame(c.ok /\ g.ok, b)
  OBVIOUS
<1>11. build_commit_offset_message(offset) = fr
  BY <1>1, <1>2, <1>3, <1>4, <1>5, <1>6, <1>7, <1>8, <1>9, <1>10,
      Zenon DEF build_commit_offset_message
<1>12. fr.ok = (c.ok /\ g.ok) /\ (c.ok /\ g.ok => fr.bytes = b)
  BY <1>10, FrameParts, Zenon
<1>13. /\ ks[1] = offset.id /\ ks[2] = offset.identifier /\ \A i \in 1 .. 2 : IsText(ks[i])
       /\ \A i \in 1 .. 2 : Lengths(ks)[i] = ks[i].len
  BY <1>1 DEF Lengths
<1>14. 12 \in Nat /\ 2 \in {2, 3, 5} /\ 2 \in 0 .. 5 /\ 8 + 12 = 20 /\ 20 \in Nat /\ 2 + 1 = 3
  OBVIOUS
<1>15. PICK fields : fields = Lite!VarFields
  OBVIOUS
<1>16. Len(fields) = 2 /\ DOMAIN fields = 1 .. 2 /\ \A i \in 1 .. 2 : fields[i] = VarData
  BY <1>15, LiteFields
<1>17. c = ComputeLength(12, fields, Lengths(ks))
  BY <1>2, <1>15, LiteComputeLength, Zenon
<1>18. PICK lengths : lengths = Lengths(ks)
  OBVIOUS
<1>19. c.length = EndOf(20, ks, 2) - 8
  <2>1. ComputeLength(12, fields, lengths).length = Starts(8 + 12, ks)[2 + 1] - 8
    BY <1>13, <1>14, <1>16, <1>18, LengthIs
  <2> QED BY <1>14, <1>17, <1>18, <2>1, Zenon DEF EndOf
<1>20. c.ok <=> \A i \in 1 .. 2 : Short(ks[i])
  <2>1. ComputeLength(12, fields, lengths).ok <=> \A i \in 1 .. 2 : Short(ks[i])
    BY <1>13, <1>14, <1>16, <1>18, LengthsShort
  <2> QED BY <1>17, <1>18, <2>1, Zenon
<1>21. n = EndOf(20, ks, 2) /\ n \in Nat /\ n >= 24 /\ n \in Int /\ 8 + 12 <= n
  <2>1. EndOf(20, ks, 2) \in Nat /\ EndOf(20, ks, 2) >= 20 + 4
    BY <1>13, <1>14, EndBound DEF AreTexts
  <2> QED BY <1>3, <1>19, <2>1 DEF HeaderLength
<1>22. Ready(d, 12, 301, n, n)
  <2>1. Ready(WrapAndApply(NewBuffer(n), 0, n, 12, 301, 1, 1), 12, 301, n, n)
    BY <1>14, <1>21, WrapAndApplyLemma, Zenon
  <2> QED BY <1>4, <2>1, LiteWrapAndApply, Zenon
<1>23. /\ Lite!topicId.offset = 0 /\ Lite!topicId.width = 4 /\ Lite!sequence.offset = 4
       /\ Lite!sequence.width = 8
       /\ Lite!topicId.offset \in Nat /\ Lite!sequence.offset \in Nat
  BY BlockFields
<1>24. Ready(e, 12, 301, n, n)
  <2>1. Lite!topicId.offset \in Nat
    BY <1>23
  <2>2. Ready(SetField(d, Lite!topicId, id), 12, 301, n, n)
    BY <1>22, <2>1, ReadySet, Zenon
  <2> QED BY <1>6, <2>2, Zenon
<1>25. Ready(f, 12, 301, n, n)
  <2>1. Lite!sequence.offset \in Nat
    BY <1>23
  <2>2. Ready(SetField(e, Lite!sequence, offset.sequence), 12, 301, n, n)
    BY <1>24, <2>1, ReadySet, Zenon
  <2> QED BY <1>7, <2>2, Zenon
<1>26. Holds(f.buffer, 8, Number(id, 4)) /\ Holds(f.buffer, 12, Number(offset.sequence, 8))
  <2>1. IsFlyweight(d) /\ d.ok /\ d.offset = 8 /\ IsFlyweight(e) /\ e.ok /\ e.offset = 8
    BY <1>22, <1>24, Zenon DEF Ready
  <2>2. e.buffer = Store(d.buffer, d.offset + Lite!topicId.offset, Number(id, Lite!topicId.width))
    BY <1>6, <2>1, SetFieldLemma
  <2>3. f.buffer = Store(e.buffer, e.offset + Lite!sequence.offset,
                         Number(offset.sequence, Lite!sequence.width))
    BY <1>7, <2>1, SetFieldLemma
  <2>4. 8 + 0 = 8 /\ 8 + 4 = 12 /\ 8 # 12
    OBVIOUS
  <2>5. e.buffer = Store(d.buffer, 8, Number(id, 4))
        /\ f.buffer = Store(e.buffer, 12, Number(offset.sequence, 8))
    <3>1. /\ d.offset + Lite!topicId.offset = 8 /\ Lite!topicId.width = 4
          /\ e.offset + Lite!sequence.offset = 12 /\ Lite!sequence.width = 8
      BY <1>23, <2>1, <2>4, Zenon
    <3> QED BY <2>2, <2>3, <3>1, Zenon
  <2>6. Holds(e.buffer, 8, Number(id, 4))
    BY <2>5, StoreHolds, Zenon
  <2>7. Holds(f.buffer, 12, Number(offset.sequence, 8))
    BY <2>5, StoreHolds, Zenon
  <2>8. \A p, x : p # 12 /\ Holds(e.buffer, p, x) => Holds(f.buffer, p, x)
    <3>1. PICK y : y = Number(offset.sequence, 8)
      OBVIOUS
    <3>2. f.buffer = Store(e.buffer, 12, y)
      BY <2>5, <3>1, Zenon
    <3> QED BY <3>2, StoreHolds
  <2>9. PICK x : x = Number(id, 4)
    OBVIOUS
  <2>10. Holds(f.buffer, 8, x)
    BY <2>4, <2>6, <2>8, <2>9, Zenon
  <2> QED BY <2>7, <2>9, <2>10, Zenon
<1>27. ASSUME c.ok, g.ok
       PROVE  Entire(b, 12, 301, ks, 2) /\ Holds(b, 8, Number(id, 4))
              /\ Holds(b, 12, Number(offset.sequence, 8))
  <2>1. \A i \in 1 .. 2 : Kept(ks[i]) = ks[i]
    <3> SUFFICES ASSUME NEW i \in 1 .. 2 PROVE Kept(ks[i]) = ks[i]
      OBVIOUS
    <3>1. Short(ks[i]) /\ IsText(ks[i])
      BY <1>13, <1>20, <1>27, Zenon
    <3> QED BY <3>1, <1>25, PutStringShort, Zenon DEF Ready
  <2>2. PICK at : at = Starts(8 + 12, ks)
    OBVIOUS
  <2>3. Layout(at, ks, 2) /\ at[1] = 8 + 12
    BY <1>13, <1>14, <2>2, StartsLayout
  <2>4. IsFlyweight(f) /\ f.ok /\ f.position = 8 + 12 /\ f.limit = n /\ f.position <= f.limit
    BY <1>21, <1>25, Zenon DEF Ready
  <2>5. Filled(f, at, ks, 2, g)
    <3>1. \A i \in 1 .. 2 : fields[i] = VarData /\ IsText(ks[i])
      BY <1>13, <1>16, Zenon
    <3>2. \A i \in 1 .. 2 : ks[i] = Kept(ks[i])
      BY <2>1, Zenon
    <3>3. Filled(f, at, ks, 2, PutRaws(f, fields, ks))
      BY <1>14, <1>16, <2>3, <2>4, <3>1, <3>2, PutRawsFill
    <3> QED BY <1>8, <1>15, <3>3, Zenon
  <2>6. Entire(b, 12, 301, ks, 2)
    <3>1. Filled(f, Starts(8 + 12, ks), ks, 2, g)
      BY <2>2, <2>5, Zenon
    <3>2. g.ok => Entire(Resize(g.buffer, HeaderLength + encodedLength(g)), 12, 301, ks, 2)
      <4>1. \A i \in 1 .. 2 : IsText(ks[i])
        BY <1>13, Zenon
      <4>2. 12 \in Nat /\ n \in Int /\ 2 \in {2, 3, 5}
        BY <1>14, <1>21, Zenon
      <4> QED BY <1>25, <3>1, <4>1, <4>2, WholeOf, ZenonT(60)
    <3> QED BY <1>9, <1>27, <3>2, Zenon
  <2>7. Below(f.buffer, g.buffer, 20)
    BY <1>14, <1>27, <2>3, <2>5, Zenon DEF Filled
  <2>8. Holds(g.buffer, 8, Number(id, 4)) /\ Holds(g.buffer, 12, Number(offset.sequence, 8))
    <3>1. 8 \in Int /\ 12 \in Int /\ 8 < 20 /\ 12 < 20
      OBVIOUS
    <3> QED BY <1>26, <2>7, <3>1, Zenon DEF Below
  <2>9. b.size = n
    BY <1>14, <1>21, <2>6, Zenon DEF Entire
  <2>10. PICK k : k = HeaderLength + encodedLength(g)
    OBVIOUS
  <2>11. k = n
    BY <1>9, <2>9, <2>10, ResizeHolds, Zenon
  <2>12. 8 < n /\ 12 < n
    BY <1>21
  <2>13. b = Resize(g.buffer, n)
    BY <1>9, <2>10, <2>11, Zenon
  <2>14. \A p, x : p < n /\ Holds(g.buffer, p, x) => Holds(b, p, x)
    BY <2>13, ResizeHolds, Zenon
  <2> QED BY <2>6, <2>8, <2>12, <2>14, Zenon
<1>28. LiteFrame(fr, id, offset.sequence, ks)
  BY <1>12, <1>27, Zenon DEF LiteFrame
<1> QED BY <1>1, <1>5, <1>11, <1>28, Zenon

\* What parse_message() makes of a topic message of which size bytes are there.
TopicRead(r, size, block, ks) ==
    /\ r.success <=> EndOf(8 + block, ks, 4) <= size
    /\ r.success => Decoded(r, ks, EndOf(8 + block, ks, 5) <= size)

\* A topic message read by decode_topic_message_with_sbe().
LEMMA DirectTopic ==
    ASSUME NEW b, NEW block \in Nat, NEW ks, \A i \in 1 .. 5 : IsText(ks[i]),
           Body(b, block, 1, ks, 5)
    PROVE  TopicRead(Direct(b, 1), b.size, block, ks)
<1>1. PICK r : r = decode_topic_message_with_sbe(b)
  OBVIOUS
<1>2. PICK at : at = Starts(8 + block, ks)
  OBVIOUS
<1>3. (r.success <=> at[5] <= b.size) /\ (r.success => Decoded(r, ks, at[6] <= b.size))
  BY <1>1, <1>2, DecodeTopic
<1>4. at[5] = EndOf(8 + block, ks, 4) /\ at[6] = EndOf(8 + block, ks, 5)
  <2>1. 4 + 1 = 5 /\ 5 + 1 = 6
    OBVIOUS
  <2> QED BY <1>2, <2>1, Zenon DEF EndOf
<1>5. Direct(b, 1) = r
  BY <1>1, Zenon DEF Direct
<1> QED BY <1>3, <1>4, <1>5, Zenon DEF TopicRead

\* A topic message read without a session header in front.
LEMMA BareTopic ==
    ASSUME NEW b, NEW block \in Nat, NEW ks, \A i \in 1 .. 5 : IsText(ks[i]),
           Body(b, block, 1, ks, 5)
    PROVE  TopicRead(parse_message(b), b.size, block, ks)
<1>1. b.size \in Nat /\ b.size >= 8 /\ Labelled(b, block, 1, 1)
  BY Zenon DEF Body
<1>2. 1 \in {1, 2}
  OBVIOUS
<1>3. parse_message(b) = Direct(b, 1)
  BY <1>1, <1>2, ParseDirect, Zenon
<1> QED BY <1>3, DirectTopic, Zenon

\* A topic message read from behind a session header.
LEMMA EnvelopedTopic ==
    ASSUME NEW term, NEW session, NEW body, NEW block \in Nat,
           NEW ks, \A i \in 1 .. 5 : IsText(ks[i]), Body(body, block, 1, ks, 5)
    PROVE  TopicRead(parse_message(Concat(SessionHeader(term, session), body)), body.size, block, ks)
<1>1. body.size \in Nat /\ body.size >= 8 /\ Labelled(body, block, 1, 1)
  BY Zenon DEF Body
<1>2. PICK b : b = Concat(SessionHeader(term, session), body)
  OBVIOUS
<1>3. PICK c : c = Slice(b, 32)
  OBVIOUS
<1>4. parse_message(b) = Direct(c, 1)
  <2>1. parse_message(Concat(SessionHeader(term, session), body))
          = Direct(Slice(Concat(SessionHeader(term, session), body), 32), 1)
    BY <1>1, ParseEnveloped
  <2> QED BY <1>2, <1>3, <2>1, Zenon
<1>5. Body(c, block, 1, ks, 5) /\ c.size = body.size
  <2>1. 5 \in {2, 3, 5}
    OBVIOUS
  <2>2. Body(Slice(Concat(SessionHeader(term, session), body), 32), block, 1, ks, 5)
        /\ Slice(Concat(SessionHeader(term, session), body), 32).size = body.size
    BY <2>1, BodyOpened
  <2> QED BY <1>2, <1>3, <2>2, Zenon
<1>6. TopicRead(Direct(c, 1), c.size, block, ks)
  BY <1>5, DirectTopic, Zenon
<1> QED BY <1>2, <1>4, <1>5, <1>6, Zenon

-----------------------------------------------------------------------------
\* send_combined_message() puts the session header in front of the bytes.
IsFrame(frame) == frame = [ok |-> frame.ok, bytes |-> frame.bytes]

\* send_combined_message() succeeds with its message.
LEMMA CombinedParts ==
    ASSUME NEW term, NEW session, NEW frame, IsFrame(frame)
    PROVE  /\ Combined(term, session, frame).ok = frame.ok
           /\ Combined(term, session, frame).bytes = Concat(SessionHeader(term, session), frame.bytes)
<1>1. PICK h : h = SessionHeader(term, session)
  OBVIOUS
<1>2. PICK x : x = Concat(h, frame.bytes)
  OBVIOUS
<1>3. Combined(term, session, frame) = [frame EXCEPT !.bytes = x]
  BY <1>1, <1>2, Zenon DEF Combined
<1>4. [frame EXCEPT !.bytes = x].ok = frame.ok /\ [frame EXCEPT !.bytes = x].bytes = x
  BY DEF IsFrame
<1> QED BY <1>1, <1>2, <1>3, <1>4, Zenon

\* Frames are frames, however they were made.
LEMMA FrameIs == ASSUME NEW ok, NEW b PROVE IsFrame(Frame(ok, b))
BY DEF IsFrame, Frame

LEMMA CreateIsFrame == ASSUME NEW t PROVE IsFrame(create_topic_message(t))
BY FrameIs, Zenon DEF create_topic_message

LEMMA TopicFrameIsFrame == ASSUME NEW t, NEW size PROVE IsFrame(TopicFrame(t, size))
BY FrameIs, Zenon DEF TopicFrame

LEMMA OffsetIsFrame == ASSUME NEW offset PROVE IsFrame(build_commit_offset_message(offset))
<1>1. \A t, size : IsFrame(TopicFrame(t, size))
  BY TopicFrameIsFrame
<1>2. \A ok, b : IsFrame(Frame(ok, b))
  BY FrameIs
<1> QED BY <1>1, <1>2 DEF build_commit_offset_message

-----------------------------------------------------------------------------
\* The client's session frames are none of the messages the parser knows.
LEMMA ParseOther ==
    ASSUME NEW b, b.size \in Nat, NEW block, NEW template, template \notin {1, 2},
           Labelled(b, block, template, 111)
    PROVE  ~parse_message(b).success
<1>1. Header(b).template_id = template /\ Header(b).schema_id = 111
  BY HeaderRead
<1>2. PICK h : h = Header(b)
  OBVIOUS
<1>3. ~is_session_event(h) /\ ~is_topic_message(h) /\ ~is_acknowledgment(h)
  BY <1>1, <1>2 DEF is_session_event, is_topic_message, is_acknowledgment,
      SESSION_EVENT_TEMPLATE_ID, CLUSTER_SCHEMA_ID,
                    TOPIC_MESSAGE_TEMPLATE_ID, TOPIC_SCHEMA_ID, ACKNOWLEDGMENT_TEMPLATE_ID
<1>4. parse_message(b) = Failed
  <2>1. PICK t : t = parse_topic_message(b)
    OBVIOUS
  <2>2. PICK s : s = parse_session_event(b)
    OBVIOUS
  <2>3. PICK a : a = parse_acknowledgment(b)
    OBVIOUS
  <2>4. parse_message(b) =
          CASE ~HasHeader(b) -> Failed
            [] HasHeader(b) /\ is_session_event(h) -> s
            [] HasHeader(b) /\ ~is_session_event(h) /\ is_topic_message(h) -> t
            [] HasHeader(b) /\ ~is_session_event(h) /\ ~is_topic_message(h)
                   /\ is_acknowledgment(h) -> a
            [] OTHER -> Failed
    BY <1>2, <2>1, <2>2, <2>3, Zenon DEF parse_message
  <2> QED BY <1>3, <2>4
<1> QED BY <1>4, FailedFails, Zenon

\* Two stores behind the header leave the header.
LEMMA TwoStores ==
    ASSUME NEW b, NEW block, NEW template, NEW schema, Labelled(b, block, template, schema),
           NEW o \in Nat, o > 4, NEW c, NEW p \in Nat, p > 4, NEW d
    PROVE  LET s == Store(Store(b, o, c), p, d)
           IN  Labelled(s, block, template, schema) /\ s.size = b.size
<1>1. PICK a : a = Store(b, o, c)
  OBVIOUS
<1>2. Labelled(a, block, template, schema) /\ a.size = b.size
  BY <1>1, LabelStays
<1>3. PICK s : s = Store(a, p, d)
  OBVIOUS
<1>4. Labelled(s, block, template, schema) /\ s.size = a.size
  BY <1>2, <1>3, LabelStays
<1> QED BY <1>1, <1>2, <1>3, <1>4, Zenon

\* A keepalive and a close request are not taken for messages, and the
\* keepalive that is updated in place is the one SBEEncoder makes.
LEMMA SessionFramesFail ==
    ASSUME NEW term, NEW session
    PROVE  /\ ~parse_message(KeepaliveBuffer(term, session)).success
           /\ ~parse_message(encode_session_close_request(term, session)).success
           /\ KeepaliveBuffer(term, session) = encode_session_keep_alive(term, session)
<1>1. 24 \in Nat /\ 24 >= 8 /\ 8 + 16 = 24 /\ 8 \in Nat /\ 8 > 4 /\ 16 \in Nat /\ 16 > 4
      /\ 5 \notin {1, 2} /\ 4 \notin {1, 2}
  OBVIOUS
<1>2. ASSUME NEW template, template \notin {1, 2}
      PROVE  ~parse_message(Store(Store(ClusterHeader(24, 16, template), 8, Number(term, 8)),
                                  16, Number(session, 8))).success
  <2>1. PICK h : h = ClusterHeader(24, 16, template)
    OBVIOUS
  <2>2. Labelled(h, 16, template, 111) /\ h.size = 24
    BY <1>1, <2>1, ClusterHeaderLemma
  <2>3. PICK x : x = Number(term, 8)
    OBVIOUS
  <2>4. PICK y : y = Number(session, 8)
    OBVIOUS
  <2>5. PICK s : s = Store(Store(h, 8, x), 16, y)
    OBVIOUS
  <2>6. Labelled(s, 16, template, 111) /\ s.size = 24
    BY <1>1, <2>2, <2>5, TwoStores
  <2>7. ~parse_message(s).success
    BY <1>1, <1>2, <2>6, ParseOther
  <2> QED BY <2>1, <2>3, <2>4, <2>5, <2>7, Zenon
<1>3. ~parse_message(KeepaliveBuffer(term, session)).success
  BY <1>1, <1>2, Zenon DEF KeepaliveBuffer
<1>4. ~parse_message(encode_session_close_request(term, session)).success
  BY <1>1, <1>2, Zenon DEF encode_session_close_request
<1>5. KeepaliveBuffer(term, session) = encode_session_keep_alive(term, session)
  BY <1>1, Zenon DEF KeepaliveBuffer, encode_session_keep_alive
<1> QED BY <1>3, <1>4, <1>5

\* Nor is a connect request.
LEMMA ConnectFails ==
    ASSUME NEW correlation, NEW stream, NEW channel, channel.len \in Nat, NEW protocol
    PROVE  ~parse_message(encode_session_connect_request(correlation, stream, channel, protocol)).success
<1>1. PICK n : n = 8 + 16 + 4 + channel.len
  OBVIOUS
<1>2. n \in Nat /\ n >= 8
  BY <1>1
<1>3. PICK b : b = ClusterHeader(n, 16, 3)
  OBVIOUS
<1>4. Labelled(b, 16, 3, 111) /\ b.size = n
  BY <1>2, <1>3, ClusterHeaderLemma
<1>5. PICK x, y, z, w : /\ x = Number(correlation, 8) /\ y = Number(stream, 4)
                        /\ z = Number(protocol, 4) /\ w = Number(channel.len, 4)
  OBVIOUS
<1>6. 8 \in Nat /\ 8 > 4 /\ 16 \in Nat /\ 16 > 4 /\ 20 \in Nat /\ 20 > 4 /\ 24 \in Nat /\ 24 > 4
      /\ 28 \in Nat /\ 28 > 4
  OBVIOUS
<1>7. PICK c : c = Store(Store(b, 8, x), 16, y)
  OBVIOUS
<1>8. Labelled(c, 16, 3, 111) /\ c.size = n
  BY <1>4, <1>6, <1>7, TwoStores
<1>9. PICK d : d = Store(Store(c, 20, z), 24, w)
  OBVIOUS
<1>10. Labelled(d, 16, 3, 111) /\ d.size = n
  BY <1>6, <1>8, <1>9, TwoStores
<1>11. PICK e : e = IF channel.len = 0 THEN d ELSE Store(d, 28, channel)
  OBVIOUS
<1>12. Labelled(e, 16, 3, 111) /\ e.size = n
  <2>1. Labelled(Store(d, 28, channel), 16, 3, 111) /\ Store(d, 28, channel).size = n
    BY <1>6, <1>10, LabelStays
  <2> QED BY <1>10, <1>11, <2>1, Zenon
<1>13. ~parse_message(e).success
  <2>1. 3 \notin {1, 2}
    OBVIOUS
  <2> QED BY <1>2, <1>12, <2>1, ParseOther
<1>14. encode_session_connect_request(correlation, stream, channel, protocol) = e
  BY <1>1, <1>3, <1>5, <1>7, <1>9, <1>11, Zenon DEF encode_session_connect_request
<1> QED BY <1>13, <1>14, Zenon

\* A whole frame stays one behind a session header.
LEMMA EntireOpened ==
    ASSUME NEW term, NEW session, NEW body, NEW block \in Nat, NEW template,
           NEW ks, NEW n \in {2, 3, 5}, \A i \in 1 .. n : IsText(ks[i]),
           Entire(body, block, template, ks, n)
    PROVE  Entire(Slice(Concat(SessionHeader(term, session), body), 32), block, template, ks, n)
<1>1. PICK c : c = Slice(Concat(SessionHeader(term, session), body), 32)
  OBVIOUS
<1>2. Body(body, block, template, ks, n) /\ body.size = EndOf(8 + block, ks, n)
  BY Zenon DEF Entire
<1>3. Body(c, block, template, ks, n) /\ c.size = body.size
  BY <1>1, <1>2, BodyOpened
<1> QED BY <1>1, <1>2, <1>3, Zenon DEF Entire

\* A flyweight that a reader wraps around a whole frame.
LEMMA EntireWrapped ==
    ASSUME NEW b, NEW block \in Nat, NEW template,
           NEW ks, NEW n \in {2, 3, 5}, \A i \in 1 .. n : IsText(ks[i]),
           Entire(b, block, template, ks, n)
    PROVE  LET f == Wrap(b, 8, block, b.size)
               at == Starts(8 + block, ks)
           IN  /\ IsFlyweight(f) /\ f.ok /\ f.limit = b.size /\ f.buffer = b /\ f.offset = 8
               /\ f.position = 8 + block /\ f.position <= f.limit
               /\ Layout(at, ks, n) /\ at[1] = f.position /\ at[n + 1] = b.size
               /\ WrittenAllIn(b, at, ks, n)
<1>1. PICK at : at = Starts(8 + block, ks)
  OBVIOUS
<1>2. b.size \in Nat /\ b.size = at[n + 1] /\ WrittenAllIn(b, at, ks, n)
  BY <1>1, Zenon DEF Entire, Body, EndOf
<1>3. Layout(at, ks, n) /\ at[1] = 8 + block
  BY <1>1, StartsLayout
<1>4. at[1] \in Nat /\ at[n + 1] \in Nat /\ at[1] <= at[n + 1]
  <2>1. AreTexts(ks, n) /\ 8 + block \in Nat
    BY DEF AreTexts
  <2>2. EndOf(8 + block, ks, n) \in Nat /\ EndOf(8 + block, ks, n) >= 8 + block + 4
    BY <2>1, EndBound
  <2> QED BY <1>1, <1>3, <2>1, <2>2 DEF EndOf
<1>5. PICK f : f = Wrap(b, 8, block, b.size)
  OBVIOUS
<1>6. Wrapped(f, b, 8, block, b.size)
  <2>1. 8 \in Nat /\ b.size \in Int
    BY <1>2
  <2> QED BY <1>5, <2>1, WrapLemma, Zenon
<1>7. /\ IsFlyweight(f) /\ f.buffer = b /\ f.offset = 8 /\ f.position = 8 + block
      /\ f.limit = b.size /\ (f.ok <=> 8 + block <= b.size)
  BY <1>6, Zenon DEF Wrapped
<1>8. 8 + block <= b.size
  BY <1>2, <1>3, <1>4
<1> QED BY <1>1, <1>2, <1>3, <1>5, <1>7, <1>8, Zenon

\* skip() ends where the frame does.
LEMMA EntireSkipped ==
    ASSUME NEW b, NEW block \in Nat, NEW template,
           NEW ks, NEW n \in {2, 3, 5}, \A i \in 1 .. n : IsText(ks[i]),
           Entire(b, block, template, ks, n),
           NEW fields, Len(fields) = n, \A i \in 1 .. n : fields[i] = VarData
    PROVE  LET s == SkipAll(Wrap(b, 8, block, b.size), fields)
           IN  s.ok = TRUE /\ s.position = b.size
<1>1. PICK f : f = Wrap(b, 8, block, b.size)
  OBVIOUS
<1>2. PICK at : at = Starts(8 + block, ks)
  OBVIOUS
<1>3. /\ IsFlyweight(f) /\ f.ok /\ f.limit = b.size /\ f.buffer = b
      /\ f.position <= f.limit
      /\ Layout(at, ks, n) /\ at[1] = f.position /\ at[n + 1] = b.size
      /\ WrittenAllIn(b, at, ks, n)
  BY <1>1, <1>2, EntireWrapped
<1>4. b.size \in Int /\ f.limit = f.buffer.size /\ WrittenAllIn(f.buffer, at, ks, n)
  BY <1>3 DEF Entire, Body
<1>5. at[n + 1] <= f.limit
  BY <1>3, <1>4
<1>6. n \in 0 .. 5
  OBVIOUS
<1>7. SkipAll(f, fields).ok = TRUE /\ SkipAll(f, fields).position = at[n + 1]
  BY <1>3, <1>4, <1>5, <1>6, SkipAllEnds
<1> QED BY <1>1, <1>3, <1>7, Zenon

-----------------------------------------------------------------------------
\* The commit that ReadLite reads.
LEMMA ReadLiteLemma ==
    ASSUME NEW term, NEW session, NEW body, NEW ident, NEW seq,
           NEW ks, \A i \in 1 .. 2 : IsText(ks[i]),
           Entire(body, 12, 301, ks, 2), Holds(body, 8, Number(ident, 4)), Holds(body, 12,
           Number(seq, 8))
    PROVE  ReadLite(Concat(SessionHeader(term, session), body))
             = [ok |-> TRUE, sequence |-> seq, topic |-> ident, id |-> ks[1], identifier |-> ks[2]]
<1>1. PICK b : b = Concat(SessionHeader(term, session), body)
  OBVIOUS
<1>2. PICK c : c = Slice(b, 32)
  OBVIOUS
<1>3. body.size \in Nat
  BY Zenon DEF Entire, Body
<1>4. 12 \in Nat /\ 2 \in {2, 3, 5} /\ 8 \in Nat /\ 8 + 12 = 20 /\ 2 + 1 = 3 /\ 1 + 1 = 2
  OBVIOUS
<1>5. /\ b.size = 32 + body.size /\ c.size = body.size
      /\ \A o \in Nat : \A x : Holds(body, o, x) => Holds(c, o, x)
  BY <1>1, <1>2, <1>3, EnvelopeOpened
<1>6. b.size - 32 = c.size
  BY <1>3, <1>5
<1>7. Entire(c, 12, 301, ks, 2)
  <2>1. Entire(Slice(Concat(SessionHeader(term, session), body), 32), 12, 301, ks, 2)
    BY <1>4, EntireOpened
  <2> QED BY <1>1, <1>2, <2>1, Zenon
<1>8. Holds(c, 8, Number(ident, 4)) /\ Holds(c, 12, Number(seq, 8))
  BY <1>4, <1>5, Zenon
<1>9. PICK f : f = Wrap(c, 8, 12, c.size)
  OBVIOUS
<1>10. PICK at : at = Starts(8 + 12, ks)
  OBVIOUS
<1>11. /\ IsFlyweight(f) /\ f.ok /\ f.limit = c.size /\ f.buffer = c /\ f.offset = 8
       /\ f.position = 8 + 12 /\ f.position <= f.limit
       /\ Layout(at, ks, 2) /\ at[1] = f.position /\ at[2 + 1] = c.size
       /\ WrittenAllIn(c, at, ks, 2)
  BY <1>4, <1>7, <1>9, <1>10, EntireWrapped
<1>12. /\ WrittenIn(c, at[1], ks[1]) /\ WrittenIn(c, at[2], ks[2])
       /\ at[2] = at[1] + 2 + ks[1].len /\ at[3] = at[2] + 2 + ks[2].len
       /\ at[1] \in Nat /\ at[2] \in Nat /\ at[3] \in Nat /\ IsText(ks[1]) /\ IsText(ks[2])
       /\ ks[1].len \in Nat /\ ks[2].len \in Nat
  <2>1. 1 \in 1 .. 2 /\ 2 \in 1 .. 2 /\ 1 \in 1 .. 2 + 1 /\ 2 \in 1 .. 2 + 1 /\ 3 \in 1 .. 2 + 1
    OBVIOUS
  <2> QED BY <1>4, <1>11, <2>1, Zenon DEF Layout, WrittenAllIn, IsText
<1>13. PICK g : g = GetString(f, VarData)
  OBVIOUS
<1>14. AfterGet(f, ks[1], g)
  BY <1>11, <1>12, <1>13, GetStringLemma
<1>15. IsFlyweight(g) /\ g.ok /\ g.limit = c.size /\ g.buffer = c /\ g.position = at[2]
       /\ g.got = ks[1]
  <2>1. f.position + 2 + ks[1].len <= f.limit
    BY <1>4, <1>11, <1>12
  <2> QED BY <1>11, <1>12, <1>14, <2>1, Zenon DEF AfterGet, AfterSkip
<1>16. PICK h : h = GetString(g, VarData)
  OBVIOUS
<1>17. AfterGet(g, ks[2], h)
  BY <1>12, <1>15, <1>16, GetStringLemma
<1>18. h.ok /\ h.ok \in BOOLEAN /\ h.got = ks[2]
  <2>1. g.position + 2 + ks[2].len <= g.limit
    BY <1>4, <1>11, <1>12, <1>15
  <2> QED BY <1>15, <1>17, <2>1, Zenon DEF AfterGet, AfterSkip, IsFlyweight
<1>19. GetField(f, Lite!sequence) = seq /\ GetField(f, Lite!topicId) = ident
  <2>1. f.offset + Lite!sequence.offset = 12 /\ f.offset + Lite!topicId.offset = 8
        /\ Lite!sequence.width = 8 /\ Lite!topicId.width = 4 /\ 4 \in Int /\ 8 \in Int
    BY <1>11, BlockFields
  <2>2. Load(c, 12, 8) = Number(seq, 8) /\ Load(c, 8, 4) = Number(ident, 4)
    BY <1>8, LoadHolds, NumberCell
  <2>3. GetField(f, Lite!sequence) = Load(c, 12, 8).val
    BY <1>11, <2>1, Zenon DEF GetField
  <2>4. GetField(f, Lite!topicId) = Load(c, 8, 4).val
    BY <1>11, <2>1, Zenon DEF GetField
  <2>5. Number(seq, 8).val = seq /\ Number(ident, 4).val = ident
    BY NumberCell
  <2> QED BY <2>2, <2>3, <2>4, <2>5, Zenon
<1>20. ReadLite(b) = [ok |-> h.ok, sequence |-> GetField(f, Lite!sequence),
                      topic |-> GetField(f, Lite!topicId), id |-> g.got, identifier |-> h.got]
  <2>1. Lite!wrapForDecode(Slice(b, 32), HeaderLength, 12, b.size - 32) = f
    BY <1>2, <1>6, <1>9, LiteWrapForDecode, BlockFields, Zenon
  <2> QED BY <1>13, <1>16, <2>1, LiteGets, Zenon DEF ReadLite
<1>21. h.ok = TRUE
  BY <1>18, Zenon
<1> QED BY <1>1, <1>15, <1>18, <1>19, <1>20, <1>21, Zenon

\* The cells of an acknowledgement whose texts start at offset a, as far as
\* its second length, and no others: a block of 32 has one more number.
AckCells(b, a, extra, id, n) ==
    /\ Holds(b, a, Number(id.len, 2))
    /\ id.len > 0 => Holds(b, a + 2, id)
    /\ Holds(b, a + 2 + id.len, Number(n, 2))
    /\ a = 40 => Holds(b, 16, Number(extra, 4))
    /\ \A o \in DOMAIN b.at :
          /\ o \in Nat /\ b.at[o].len \in Nat
          /\ \/ o + b.at[o].len <= 16
             \/ a = 40 /\ o = 16
             \/ o \in {a, a + 2}
             \/ o >= a + 2 + id.len

\* A message id that the scan can tell from what is around it.
LegibleAt(a, extra, id, n) ==
    /\ id.len >= 3
    /\ ~IsPrintable(ByteOf(id.len, 1))
    /\ ~IsPrintable(ByteOf(n, 0))
    /\ ~(a = 40 /\ LooksLikeText(extra))

\* Membership in PrintableBytes.
LEMMA PrintableIs ==
    ASSUME NEW b, b.size \in Nat, NEW p \in Nat
    PROVE  p \in PrintableBytes(b) <=>
             /\ p >= 16 /\ p < b.size
             /\ \E o \in DOMAIN b.at :
                    /\ o <= p /\ p < o + b.at[o].len
                    /\ b.at[o].of = "number" => IsPrintable(ByteOf(b.at[o].val, p - o))
BY DEF PrintableBytes

\* A byte of one number and of no other cell.
LEMMA NumberByte ==
    ASSUME NEW b, b.size \in Nat, NEW p \in Nat, p >= 16, p < b.size,
           NEW q \in Nat, NEW v, NEW w \in Nat, Holds(b, q, Number(v, w)), q <= p, p < q + w,
           \A o \in DOMAIN b.at : o <= p /\ p < o + b.at[o].len => o = q
    PROVE  p \in PrintableBytes(b) <=> IsPrintable(ByteOf(v, p - q))
<1>1. PICK c : c = Number(v, w)
  OBVIOUS
<1>2. c.len = w /\ c.of = "number" /\ c.val = v
  BY <1>1, NumberCell
<1>3. q \in DOMAIN b.at /\ b.at[q] = c
  BY <1>1, Zenon DEF Holds
<1>4. q <= p /\ p < q + b.at[q].len
  BY <1>2, <1>3
<1>5. (\E o \in DOMAIN b.at :
          /\ o <= p /\ p < o + b.at[o].len
          /\ b.at[o].of = "number" => IsPrintable(ByteOf(b.at[o].val, p - o)))
        <=> IsPrintable(ByteOf(v, p - q))
  BY <1>2, <1>3, <1>4, Zenon
<1> QED BY <1>5, PrintableIs

\* The printable bytes of an acknowledgement around its message id.
LEMMA AckPrintable ==
    ASSUME NEW b, NEW a \in {16, 40}, NEW extra, NEW id, NEW n, AckCells(b, a, extra, id, n),
           IsText(id), id.len >= 3, b.size \in Nat, a + 2 + id.len < b.size
    PROVE  /\ a + 1 \in PrintableBytes(b) <=> IsPrintable(ByteOf(id.len, 1))
           /\ a + 2 + id.len \in PrintableBytes(b) <=> IsPrintable(ByteOf(n, 0))
           /\ \A p \in a + 2 .. a + 1 + id.len : p \in PrintableBytes(b)
           /\ \A p \in PrintableBytes(b) : p \in Nat /\ p >= 16 /\ p < b.size
           /\ a = 40 => \A p \in 20 .. 39 : p \notin PrintableBytes(b)
           /\ a = 40 => \A p \in 16 .. 19 :
                           p \in PrintableBytes(b) <=> IsPrintable(ByteOf(extra, p - 16))
<1>1. id.len \in Nat /\ id.of # "number"
  BY Zenon DEF IsText
<1>2. /\ a \in DOMAIN b.at /\ b.at[a] = Number(id.len, 2)
      /\ a + 2 \in DOMAIN b.at /\ b.at[a + 2] = id
      /\ a + 2 + id.len \in DOMAIN b.at /\ b.at[a + 2 + id.len] = Number(n, 2)
      /\ a = 40 => 16 \in DOMAIN b.at /\ b.at[16] = Number(extra, 4)
      /\ \A o \in DOMAIN b.at :
            /\ o \in Nat /\ b.at[o].len \in Nat
            /\ \/ o + b.at[o].len <= 16
               \/ a = 40 /\ o = 16
               \/ o \in {a, a + 2}
               \/ o >= a + 2 + id.len
  <2>1. id.len > 0
    BY <1>1
  <2> QED BY <2>1, Zenon DEF AckCells, Holds
<1>3. Number(id.len, 2).len = 2 /\ Number(n, 2).len = 2 /\ Number(extra, 4).len = 4
  BY NumberCell
<1>4. a + 1 \in PrintableBytes(b) <=> IsPrintable(ByteOf(id.len, 1))
  <2>1. PICK p : p = a + 1
    OBVIOUS
  <2>2. p \in Nat /\ p >= 16 /\ p < b.size /\ a \in Nat /\ 2 \in Nat /\ a <= p /\ p < a + 2 /\ p - a = 1
    BY <1>1, <2>1
  <2>3. \A o \in DOMAIN b.at : o <= p /\ p < o + b.at[o].len => o = a
    BY <1>1, <1>2, <1>3, <2>1
  <2>4. Holds(b, a, Number(id.len, 2))
    BY <1>2, Zenon DEF Holds
  <2> QED BY <2>1, <2>2, <2>3, <2>4, NumberByte
<1>5. a + 2 + id.len \in PrintableBytes(b) <=> IsPrintable(ByteOf(n, 0))
  <2>1. PICK p : p = a + 2 + id.len
    OBVIOUS
  <2>2. p \in Nat /\ p >= 16 /\ p < b.size /\ 2 \in Nat /\ p <= p /\ p < p + 2 /\ p - p = 0
    BY <1>1, <2>1
  <2>3. \A o \in DOMAIN b.at : o <= p /\ p < o + b.at[o].len => o = p
    BY <1>1, <1>2, <1>3, <2>1
  <2>4. Holds(b, p, Number(n, 2))
    BY <1>2, <2>1, Zenon DEF Holds
  <2> QED BY <2>1, <2>2, <2>3, <2>4, NumberByte
<1>6. ASSUME NEW p \in a + 2 .. a + 1 + id.len
      PROVE  p \in PrintableBytes(b)
  <2>1. p \in Nat /\ p >= 16 /\ p < b.size /\ a + 2 <= p /\ p < a + 2 + id.len
    BY <1>1
  <2>2. /\ a + 2 \in DOMAIN b.at /\ a + 2 <= p /\ p < a + 2 + b.at[a + 2].len
        /\ b.at[a + 2].of # "number"
    BY <1>1, <1>2, <2>1
  <2> QED BY <2>1, <2>2, PrintableIs
<1>7. \A p \in PrintableBytes(b) : p \in Nat /\ p >= 16 /\ p < b.size
  BY DEF PrintableBytes
<1>8. ASSUME a = 40, NEW p \in 20 .. 39
      PROVE  p \notin PrintableBytes(b)
  <2>1. \A o \in DOMAIN b.at : ~(o <= p /\ p < o + b.at[o].len)
    BY <1>1, <1>2, <1>3, <1>8
  <2> QED BY <2>1, PrintableIs
<1>9. ASSUME a = 40, NEW p \in 16 .. 19
      PROVE  p \in PrintableBytes(b) <=> IsPrintable(ByteOf(extra, p - 16))
  <2>1. p \in Nat /\ p >= 16 /\ p < b.size /\ 16 \in Nat /\ 4 \in Nat /\ 16 <= p /\ p < 16 + 4
    BY <1>1, <1>9
  <2>2. \A o \in DOMAIN b.at : o <= p /\ p < o + b.at[o].len => o = 16
    BY <1>1, <1>2, <1>3, <1>9
  <2>3. Holds(b, 16, Number(extra, 4))
    BY <1>2, <1>9, Zenon DEF Holds
  <2> QED BY <2>1, <2>2, <2>3, NumberByte
<1> QED BY <1>4, <1>5, <1>6, <1>7, <1>8, <1>9

-----------------------------------------------------------------------------
\* A set of natural numbers has a least element.
LEMMA Least ==
    ASSUME NEW T, T \subseteq Nat, T # {}
    PROVE  \E x \in T : \A y \in T : x <= y
<1>1. PICK R : R = OpToRel(<, Nat)
  BY Zenon
<1>2. IsWellFoundedOn(R, Nat)
  BY <1>1, NatLessThanWellFounded, Zenon
<1>3. PICK x \in T : \A y \in T : <<y, x>> \notin R
  BY <1>2, WFMin
<1>4. R = {ss \in Nat \X Nat : ss[1] < ss[2]}
  BY <1>1, Zenon DEF OpToRel
<1>5. ASSUME NEW y \in T
      PROVE  x <= y
  <2>1. x \in Nat /\ y \in Nat /\ <<y, x>> \notin R
    BY <1>3
  <2> QED BY <1>4, <2>1
<1> QED BY <1>5

\* The runs of any set of bytes, by what Runs says of them.
IsRun(P, r) ==
    /\ r[1] \in P /\ r[2] \in P /\ r[1] - 1 \notin P /\ r[2] + 1 \notin P
    /\ r[1] + 2 <= r[2] /\ \A p \in r[1] .. r[2] : p \in P

\* Membership in Runs.
LEMMA RunIs ==
    ASSUME NEW b
    PROVE  /\ \A r \in Runs(b) : IsRun(PrintableBytes(b), r)
           /\ \A x, y : IsRun(PrintableBytes(b), <<x, y>>) => <<x, y>> \in Runs(b)
<1>1. PICK P : P = PrintableBytes(b)
  OBVIOUS
<1>2. Runs(b) = {r \in {p \in P : p - 1 \notin P} \X {p \in P : p + 1 \notin P} :
                    r[1] + 2 <= r[2] /\ \A p \in r[1] .. r[2] : p \in P}
  BY <1>1, Zenon DEF Runs
<1>3. \A r \in Runs(b) : IsRun(P, r)
  BY <1>2 DEF IsRun
<1>4. ASSUME NEW x, NEW y, IsRun(P, <<x, y>>)
      PROVE  <<x, y>> \in Runs(b)
  BY <1>2, <1>4 DEF IsRun
<1> QED BY <1>1, <1>3, <1>4, Zenon

\* The first run is one of the runs and none begins before it.
LEMMA FirstRunIs ==
    ASSUME NEW runs, NEW q \in runs, \A r \in runs : r[1] \in Nat
    PROVE  FirstRun(runs) \in runs /\ \A r \in runs : FirstRun(runs)[1] <= r[1]
<1>1. PICK T : T = {r[1] : r \in runs}
  OBVIOUS
<1>2. T \subseteq Nat /\ T # {}
  BY <1>1
<1>3. PICK x \in T : \A y \in T : x <= y
  BY <1>2, Least
<1>4. PICK r \in runs : x = r[1]
  BY <1>1
<1>5. \A p \in runs : r[1] <= p[1]
  BY <1>1, <1>3, <1>4
<1> QED BY <1>5, Zenon DEF FirstRun

\* Three printable bytes in a row lie in a run, which begins where they do
\* unless the byte in front is printable.
LEMMA RunFrom ==
    ASSUME NEW P, NEW size \in Nat, \A p \in P : p \in Nat /\ p < size,
           NEW s \in Nat, s \in P, s + 1 \in P, s + 2 \in P, s - 1 \notin P
    PROVE  \E y : IsRun(P, <<s, y>>)
<1>1. PICK T : T = {p \in Nat : p >= s /\ p \notin P}
  OBVIOUS
<1>2. size \in T /\ T \subseteq Nat
  BY <1>1
<1>3. PICK z \in T : \A p \in T : z <= p
  BY <1>2, Least
<1>4. z \in Nat /\ z >= s /\ z \notin P
  BY <1>1
<1>5. z # s /\ z # s + 1 /\ z # s + 2
  BY <1>4
<1>6. z >= s + 3
  BY <1>4, <1>5
<1>7. \A p \in s .. z - 1 : p \in P
  BY <1>1, <1>3, <1>4
<1>8. z - 1 \in s .. z - 1 /\ z - 1 + 1 = z /\ s + 2 <= z - 1
  BY <1>4, <1>6
<1>9. IsRun(P, <<s, z - 1>>)
  BY <1>4, <1>7, <1>8 DEF IsRun
<1> QED BY <1>9

\* A text of three characters or more at offset a + 2 lies in a run that does
\* not begin behind it.
LEMMA RunAround ==
    ASSUME NEW P, NEW size \in Nat, \A p \in P : p \in Nat /\ p >= 16 /\ p < size,
           NEW a \in {16, 40}, a = 40 => 39 \notin P,
           a + 2 \in P, a + 3 \in P, a + 4 \in P
    PROVE  \E x \in Nat : x <= a + 2 /\ \E y : IsRun(P, <<x, y>>)
<1>x. a + 2 \in Nat /\ a + 1 \in Nat /\ a \in Nat /\ a + 2 <= a + 2 /\ a + 1 <= a + 2 /\ a <= a + 2
  OBVIOUS
<1>0. \A p \in P : p \in Nat /\ p < size
  OBVIOUS
<1>1. a - 1 \notin P
  OBVIOUS
<1>2. CASE a + 1 \notin P
  <2>1. \E y : IsRun(P, <<a + 2, y>>)
    <3>1. PICK s \in Nat : s = a + 2
      OBVIOUS
    <3>2. s \in P /\ s + 1 \in P /\ s + 2 \in P /\ s - 1 \notin P
      BY <1>2, <3>1
    <3>3. \E y : IsRun(P, <<s, y>>)
      BY <1>0, <3>2, RunFrom
    <3> QED BY <3>1, <3>3, Zenon
  <2> QED BY <1>x, <2>1, Zenon
<1>3. CASE a + 1 \in P /\ a \notin P
  <2>1. \E y : IsRun(P, <<a + 1, y>>)
    <3>1. PICK s \in Nat : s = a + 1
      OBVIOUS
    <3>2. s \in P /\ s + 1 \in P /\ s + 2 \in P /\ s - 1 \notin P
      BY <1>3, <3>1
    <3>3. \E y : IsRun(P, <<s, y>>)
      BY <1>0, <3>2, RunFrom
    <3> QED BY <3>1, <3>3, Zenon
  <2> QED BY <1>x, <2>1, Zenon
<1>4. CASE a + 1 \in P /\ a \in P
  <2>1. a \in Nat
    OBVIOUS
  <2>2. \E y : IsRun(P, <<a, y>>)
    <3>1. PICK s \in Nat : s = a
      BY <2>1
    <3>2. s \in P /\ s + 1 \in P /\ s + 2 \in P /\ s - 1 \notin P
      BY <1>1, <1>4, <3>1
    <3>3. \E y : IsRun(P, <<s, y>>)
      BY <1>0, <3>2, RunFrom
    <3> QED BY <3>1, <3>3, Zenon
  <2> QED BY <1>x, <2>2, Zenon
<1> QED BY <1>2, <1>3, <1>4

\* Printable bytes with an id of k characters at a + 2 and no text before it.
Scanned(P, size, a, k) ==
    /\ size \in Nat /\ \A p \in P : p \in Nat /\ p >= 16 /\ p < size
    /\ a = 40 => \A p \in 20 .. 39 : p \notin P
    /\ k \in Nat /\ k >= 3 /\ \A p \in a + 2 .. a + 1 + k : p \in P
    /\ a = 40 => ~\E p \in 16 .. 17 : p \in P /\ p + 1 \in P /\ p + 2 \in P

\* All the runs.
AreRuns(P, runs) ==
    /\ \A q \in runs : IsRun(P, q)
    /\ \A x, y : IsRun(P, <<x, y>>) => <<x, y>> \in runs

\* The first run r holds the id, and is it unless a byte at an end sticks to it.
FoundAt(P, a, k, runs, r) ==
    /\ r \in runs /\ r[1] \in Nat /\ r[2] \in Nat
    /\ r[1] >= a /\ r[1] <= a + 2 /\ r[2] >= a + 1 + k
    /\ r[1] = a + 2 /\ r[2] = a + 1 + k <=> a + 1 \notin P /\ a + 2 + k \notin P

\* What the first run is when there is none in front of the id.
LEMMA FirstRunAtId ==
    ASSUME NEW P, NEW size, NEW a \in {16, 40}, NEW k, Scanned(P, size, a, k),
           NEW runs, AreRuns(P, runs), NEW r, r = FirstRun(runs)
    PROVE  FoundAt(P, a, k, runs, r)
<1>0. /\ size \in Nat /\ \A p \in P : p \in Nat /\ p >= 16 /\ p < size
      /\ a = 40 => \A p \in 20 .. 39 : p \notin P
      /\ k \in Nat /\ k >= 3 /\ \A p \in a + 2 .. a + 1 + k : p \in P
      /\ a = 40 => ~\E p \in 16 .. 17 : p \in P /\ p + 1 \in P /\ p + 2 \in P
  BY Zenon DEF Scanned
<1>r. (\A q \in runs : IsRun(P, q)) /\ \A x, y : IsRun(P, <<x, y>>) => <<x, y>> \in runs
  BY Zenon DEF AreRuns
<1>1. a + 2 \in a + 2 .. a + 1 + k /\ a + 3 \in a + 2 .. a + 1 + k /\ a + 4 \in a + 2 .. a + 1 + k
  BY <1>0
<1>2. PICK x \in Nat : x <= a + 2 /\ \E y : IsRun(P, <<x, y>>)
  <2>1. a + 2 \in P /\ a + 3 \in P /\ a + 4 \in P
    BY <1>0, <1>1
  <2>2. a = 40 => 39 \notin P
    BY <1>0
  <2> QED BY <1>0, <2>1, <2>2, RunAround
<1>y. PICK y : IsRun(P, <<x, y>>)
  BY <1>2
<1>3. <<x, y>> \in runs /\ <<x, y>>[1] = x
  BY <1>r, <1>y
<1>4. ASSUME NEW q \in runs
      PROVE  /\ q[1] \in Nat /\ q[2] \in Nat /\ q[1] >= 16 /\ q[1] + 2 <= q[2]
             /\ q[1] \in P /\ q[1] - 1 \notin P /\ q[2] + 1 \notin P
             /\ \A p \in q[1] .. q[2] : p \in P
  BY <1>0, <1>r, <1>4 DEF IsRun
<1>5. r \in runs /\ r[1] <= x
  <2>1. \A q \in runs : q[1] \in Nat
    BY <1>4
  <2>2. r \in runs /\ \A q \in runs : r[1] <= q[1]
    BY <1>3, <2>1, FirstRunIs, Zenon
  <2> QED BY <1>3, <2>2
<1>6. /\ r[1] \in Nat /\ r[2] \in Nat /\ r[1] >= 16 /\ r[1] + 2 <= r[2]
      /\ r[1] \in P /\ r[2] + 1 \notin P /\ \A p \in r[1] .. r[2] : p \in P
  BY <1>4, <1>5
<1>7. r[1] >= a
  <2>1. CASE a = 40
    <3>1. r[1] + 1 \in r[1] .. r[2] /\ r[1] + 2 \in r[1] .. r[2]
      BY <1>6
    <3>2. r[1] \notin 16 .. 17
      BY <1>0, <1>6, <2>1, <3>1
    <3>3. r[1] \notin 20 .. 39
      BY <1>0, <1>6, <2>1
    <3>4. r[1] # 18 /\ r[1] # 19
      <4>1. r[1] = 18 => 20 \in r[1] .. r[2]
        BY <1>6
      <4>2. r[1] = 19 => 20 \in r[1] .. r[2]
        BY <1>6
      <4>3. 20 \notin P
        BY <1>0, <2>1
      <4> QED BY <1>6, <4>1, <4>2, <4>3
    <3> QED BY <1>6, <2>1, <3>2, <3>3, <3>4
  <2> QED BY <1>6, <2>1
<1>8. r[1] <= a + 2
  BY <1>2, <1>5, <1>6
<1>9. r[2] >= a + 1 + k
  <2> SUFFICES ASSUME r[2] < a + 1 + k PROVE FALSE
    BY <1>0, <1>6
  <2>1. r[2] + 1 \in a + 2 .. a + 1 + k
    BY <1>0, <1>6, <1>7
  <2> QED BY <1>0, <1>6, <2>1
<1>10. ASSUME r[1] = a + 2, r[2] = a + 1 + k
       PROVE  a + 1 \notin P /\ a + 2 + k \notin P
  <2>1. r[1] - 1 = a + 1 /\ r[2] + 1 = a + 2 + k
    BY <1>0, <1>10
  <2> QED BY <1>4, <1>5, <2>1
<1>11. ASSUME a + 1 \notin P, a + 2 + k \notin P
       PROVE  r[1] = a + 2 /\ r[2] = a + 1 + k
  <2>1. a + 1 \notin r[1] .. r[2] /\ a + 2 + k \notin r[1] .. r[2]
    BY <1>6, <1>11
  <2> QED BY <1>0, <1>6, <1>7, <1>8, <1>9, <2>1
<1> QED BY <1>5, <1>6, <1>7, <1>8, <1>9, <1>10, <1>11, Zenon DEF FoundAt

\* The text of a run has its length.
LEMMA RunLength ==
    ASSUME NEW b, NEW r
    PROVE  RunText(b, r).len = r[2] - r[1] + 1
<1>1. PICK n : n = r[2] - r[1] + 1
  OBVIOUS
<1>2. Text("glued", n).len = n
  BY DEF Text
<1> QED BY <1>1, <1>2, Zenon DEF RunText

\* What is found has at least three characters.
LEMMA FoundLength ==
    ASSUME NEW b, \A p \in PrintableBytes(b) : p \in Nat
    PROVE  LET s == FirstString(b, Runs(b), Text("ack_timestamp", 23))
           IN  s.len \in Nat /\ s.len >= 3
<1>1. PICK runs : runs = Runs(b)
  OBVIOUS
<1>2. \A r \in runs : IsRun(PrintableBytes(b), r)
  BY <1>1, RunIs
<1>3. \A r \in runs : r[1] \in Nat /\ r[2] \in Nat /\ r[1] + 2 <= r[2]
  BY <1>2 DEF IsRun
<1>4. CASE runs = {}
  <2>1. FirstString(b, runs, Text("ack_timestamp", 23)) = Text("ack_timestamp", 23)
    BY <1>4, Zenon DEF FirstString
  <2>2. Text("ack_timestamp", 23).len = 23
    BY DEF Text
  <2> QED BY <1>1, <2>1, <2>2
<1>5. CASE runs # {}
  <2>1. PICK r : r = FirstRun(runs)
    OBVIOUS
  <2>2. FirstString(b, runs, Text("ack_timestamp", 23)) = RunText(b, r)
    BY <1>5, <2>1, Zenon DEF FirstString
  <2>3. r \in runs
    BY <1>3, <1>5, <2>1, FirstRunIs
  <2>4. RunText(b, r).len = r[2] - r[1] + 1
    BY RunLength
  <2> QED BY <1>1, <1>3, <2>2, <2>3, <2>4
<1> QED BY <1>4, <1>5

\* Text in the further number of a block of 32 is taken for the id.
LEMMA AckHidden ==
    ASSUME NEW b, NEW extra, NEW id, NEW n, AckCells(b, 40, extra, id, n),
           IsText(id), id.len >= 3, b.size \in Nat, 42 + id.len < b.size, LooksLikeText(extra),
           id.of # "glued", NEW default
    PROVE  FirstString(b, Runs(b), default) # id
<1>1. PICK P : P = PrintableBytes(b)
  OBVIOUS
<1>2. PICK runs : runs = Runs(b)
  OBVIOUS
<1>3. id.len \in Nat
  BY Zenon DEF IsText
<1>4. /\ \A p \in P : p \in Nat /\ p >= 16 /\ p < b.size
      /\ \A p \in 16 .. 19 : p \in P <=> IsPrintable(ByteOf(extra, p - 16))
  <2>1. 40 \in {16, 40} /\ 40 + 2 + id.len < b.size
    BY <1>3
  <2> QED BY <1>1, <2>1, AckPrintable
<1>5. PICK i \in 0 .. 1 : \A j \in i .. i + 2 : IsPrintable(ByteOf(extra, j))
  BY Zenon DEF LooksLikeText
<1>6. \A j \in i .. i + 2 : 16 + j \in P
  <2> SUFFICES ASSUME NEW j \in i .. i + 2 PROVE 16 + j \in P
    OBVIOUS
  <2>1. PICK p : p = 16 + j
    OBVIOUS
  <2>2. p \in 16 .. 19 /\ p - 16 = j
    BY <2>1
  <2> QED BY <1>4, <1>5, <2>1, <2>2
<1>7. PICK x \in {16, 17} : \E y : IsRun(P, <<x, y>>)
  <2>1. 16 + i \in P /\ 16 + i + 1 \in P /\ 16 + i + 2 \in P
    <3>1. i \in i .. i + 2 /\ i + 1 \in i .. i + 2 /\ i + 2 \in i .. i + 2
          /\ 16 + (i + 1) = 16 + i + 1 /\ 16 + (i + 2) = 16 + i + 2
      OBVIOUS
    <3> QED BY <1>6, <3>1
  <2>2. 15 \notin P
    BY <1>4
  <2>3. CASE 16 \in P /\ 17 \in P /\ 18 \in P
    <3>1. PICK s \in Nat : s = 16
      OBVIOUS
    <3>2. s \in P /\ s + 1 \in P /\ s + 2 \in P /\ s - 1 \notin P
      BY <2>2, <2>3, <3>1
    <3>3. \A p \in P : p \in Nat /\ p < b.size
      BY <1>4
    <3> QED BY <3>1, <3>2, <3>3, RunFrom
  <2>4. CASE ~(16 \in P /\ 17 \in P /\ 18 \in P)
    <3>1. i = 1
      BY <2>1, <2>4
    <3>2. 17 \in P /\ 18 \in P /\ 19 \in P /\ 16 \notin P
      BY <2>1, <2>4, <3>1
    <3>3. PICK s \in Nat : s = 17
      OBVIOUS
    <3>4. s \in P /\ s + 1 \in P /\ s + 2 \in P /\ s - 1 \notin P
      BY <3>2, <3>3
    <3>5. \A p \in P : p \in Nat /\ p < b.size
      BY <1>4
    <3> QED BY <3>3, <3>4, <3>5, RunFrom
  <2> QED BY <2>3, <2>4
<1>y. PICK y : IsRun(P, <<x, y>>)
  BY <1>7
<1>8. (\A q \in runs : IsRun(P, q)) /\ <<x, y>> \in runs /\ <<x, y>>[1] = x
  BY <1>1, <1>2, <1>y, RunIs
<1>9. PICK r : r = FirstRun(runs)
  OBVIOUS
<1>10. \A q \in runs : q[1] \in Nat /\ q[1] >= 16
  BY <1>4, <1>8 DEF IsRun
<1>11. r \in runs /\ r[1] <= x
  <2>1. r \in runs /\ \A q \in runs : r[1] <= q[1]
    BY <1>8, <1>9, <1>10, FirstRunIs
  <2> QED BY <1>8, <2>1
<1>12. r[1] = 16 \/ r[1] = 17
  BY <1>10, <1>11
<1>13. ~(r[1] \in DOMAIN b.at /\ b.at[r[1]].of # "number")
  <2>1. Number(extra, 4).of = "number"
    BY NumberCell
  <2>2. b.at[16] = Number(extra, 4)
    BY Zenon DEF AckCells, Holds
  <2>3. 17 \notin DOMAIN b.at
    <3> SUFFICES ASSUME 17 \in DOMAIN b.at PROVE FALSE
      OBVIOUS
    <3>1. \/ 17 + b.at[17].len <= 16
          \/ 17 \in {40, 40 + 2}
          \/ 17 >= 40 + 2 + id.len
      BY DEF AckCells
    <3>2. b.at[17].len \in Nat
      BY Zenon DEF AckCells
    <3> QED BY <1>3, <3>1, <3>2
  <2> QED BY <1>12, <2>1, <2>2, <2>3
<1>14. RunText(b, r) = Text("glued", r[2] - r[1] + 1)
  BY <1>13, Zenon DEF RunText
<1>15. RunText(b, r).of # id.of
  <2>1. r[1] \in Nat /\ r[2] \in Nat /\ r[1] + 2 <= r[2]
    BY <1>4, <1>8, <1>11 DEF IsRun
  <2>2. r[2] - r[1] + 1 # 0
    BY <2>1
  <2>3. Text("glued", r[2] - r[1] + 1).of = "glued"
    BY <2>2 DEF Text
  <2> QED BY <1>14, <2>3, Zenon
<1>16. FirstString(b, runs, default) = RunText(b, r)
  BY <1>8, <1>9, Zenon DEF FirstString
<1> QED BY <1>2, <1>15, <1>16

\* The first run is the message id if and only if it is legible.
LEMMA AckRead ==
    ASSUME NEW b, NEW a \in {16, 40}, NEW extra, NEW id, NEW n, AckCells(b, a, extra, id, n),
           IsText(id), id.of # "glued", b.size \in Nat, a + 2 + id.len < b.size
    PROVE  FirstString(b, Runs(b), Text("ack_timestamp", 23)) = id <=> LegibleAt(a, extra, id, n)
<1>1. PICK P : P = PrintableBytes(b)
  OBVIOUS
<1>2. PICK k : k = id.len
  OBVIOUS
<1>3. k \in Nat /\ id.of # "number"
  BY <1>2, Zenon DEF IsText
<1>4. PICK runs : runs = Runs(b)
  OBVIOUS
<1>5. PICK s : s = FirstString(b, runs, Text("ack_timestamp", 23))
  OBVIOUS
<1>6. CASE k < 3
  <2>1. \A p \in PrintableBytes(b) : p \in Nat
    BY DEF PrintableBytes
  <2>2. s.len \in Nat /\ s.len >= 3
    BY <1>4, <1>5, <2>1, FoundLength
  <2>3. s # id
    BY <1>2, <1>3, <1>6, <2>2
  <2>4. ~LegibleAt(a, extra, id, n)
    BY <1>2, <1>3, <1>6 DEF LegibleAt
  <2> QED BY <1>4, <1>5, <2>3, <2>4, Zenon
<1>7. CASE k >= 3 /\ a = 40 /\ LooksLikeText(extra)
  <2>1. 42 + id.len < b.size
    BY <1>2, <1>3, <1>7
  <2>2. s # id
    BY <1>2, <1>4, <1>5, <1>7, <2>1, AckHidden
  <2>3. ~LegibleAt(a, extra, id, n)
    BY <1>7, Zenon DEF LegibleAt
  <2> QED BY <1>4, <1>5, <2>2, <2>3, Zenon
<1>8. CASE k >= 3 /\ ~(a = 40 /\ LooksLikeText(extra))
  <2>1. /\ a + 1 \in P <=> IsPrintable(ByteOf(k, 1))
        /\ a + 2 + k \in P <=> IsPrintable(ByteOf(n, 0))
        /\ \A p \in a + 2 .. a + 1 + k : p \in P
        /\ \A p \in P : p \in Nat /\ p >= 16 /\ p < b.size
        /\ a = 40 => \A p \in 20 .. 39 : p \notin P
        /\ a = 40 => \A p \in 16 .. 19 : p \in P <=> IsPrintable(ByteOf(extra, p - 16))
    BY <1>1, <1>2, <1>8, AckPrintable
  <2>2. LegibleAt(a, extra, id, n) <=> a + 1 \notin P /\ a + 2 + k \notin P
    BY <1>2, <1>8, <2>1, Zenon DEF LegibleAt
  <2>3. ASSUME a = 40, NEW p \in 16 .. 17, p \in P, p + 1 \in P, p + 2 \in P
        PROVE  FALSE
    <3>1. PICK i \in 0 .. 1 : p = 16 + i
      BY <2>3
    <3>2. ASSUME NEW j \in i .. i + 2
          PROVE  IsPrintable(ByteOf(extra, j))
      <4>1. PICK q : q = 16 + j
        OBVIOUS
      <4>2. q \in 16 .. 19 /\ q - 16 = j /\ (q = p \/ q = p + 1 \/ q = p + 2)
        BY <3>1, <4>1
      <4> QED BY <2>1, <2>3, <4>2
    <3> QED BY <1>8, <2>3, <3>2, Zenon DEF LooksLikeText
  <2>4. PICK r : r = FirstRun(runs)
    OBVIOUS
  <2>5. (\A q \in runs : IsRun(P, q)) /\ \A x, y : IsRun(P, <<x, y>>) => <<x, y>> \in runs
    BY <1>1, <1>4, RunIs
  <2>6. /\ r \in runs /\ r[1] \in Nat /\ r[2] \in Nat
        /\ r[1] >= a /\ r[1] <= a + 2 /\ r[2] >= a + 1 + k
        /\ r[1] = a + 2 /\ r[2] = a + 1 + k <=> a + 1 \notin P /\ a + 2 + k \notin P
    <3>1. a = 40 => ~\E p \in 16 .. 17 : p \in P /\ p + 1 \in P /\ p + 2 \in P
      BY <2>3
    <3>2. k \in Nat /\ k >= 3
      BY <1>3, <1>8
    <3>3. Scanned(P, b.size, a, k)
      BY <2>1, <3>1, <3>2, Zenon DEF Scanned
    <3>4. AreRuns(P, runs)
      BY <2>5, Zenon DEF AreRuns
    <3>5. FoundAt(P, a, k, runs, r)
      BY <2>4, <3>3, <3>4, FirstRunAtId, Zenon
    <3> QED BY <3>5, Zenon DEF FoundAt
  <2>7. s = RunText(b, r)
    BY <1>5, <2>4, <2>6, Zenon DEF FirstString
  <2>8. ASSUME s = id
        PROVE  r[1] = a + 2 /\ r[2] = a + 1 + k
    <3>1. r[2] - r[1] + 1 = k
      BY <1>2, <2>7, <2>8, RunLength
    <3> QED BY <1>3, <2>6, <3>1
  <2>9. ASSUME r[1] = a + 2, r[2] = a + 1 + k
        PROVE  s = id
    <3>1. r[2] - r[1] + 1 = k
      BY <1>3, <2>9
    <3>2. a + 2 \in DOMAIN b.at /\ b.at[a + 2] = id
      <4>1. id.len > 0
        BY <1>2, <1>3, <1>8
      <4> QED BY <4>1, Zenon DEF AckCells, Holds
    <3>3. RunText(b, r) = id
      BY <1>2, <1>3, <2>9, <3>1, <3>2, Zenon DEF RunText
    <3> QED BY <2>7, <3>3, Zenon
  <2> QED BY <1>4, <1>5, <2>2, <2>6, <2>8, <2>9, Zenon
<1> QED BY <1>3, <1>6, <1>7, <1>8

\* Which cells a buffer has: the ones of a, and at most two new ones.
Adds(a, b, p) ==
    \A o \in DOMAIN b.at : \/ Holds(a, o, b.at[o])
                           \/ (o = p \/ o = p + 2) /\ b.at[o].len \in Nat

\* All cells end at offset p or before it.
EndsBy(b, p) == \A o \in DOMAIN b.at : o \in Nat /\ b.at[o].len \in Nat /\ o + b.at[o].len <= p

\* A store that ends in time leaves all cells ending in time.
LEMMA EndsStore ==
    ASSUME NEW b, NEW p, EndsBy(b, p), NEW o \in Nat, NEW c, c.len \in Nat, o + c.len <= p
    PROVE  EndsBy(Store(b, o, c), p)
<1>1. PICK s : s = Store(b, o, c)
  OBVIOUS
<1>2. \A q \in DOMAIN s.at : (q = o /\ s.at[q] = c) \/ (q \in DOMAIN b.at /\ s.at[q] = b.at[q])
  BY <1>1 DEF Store
<1>3. EndsBy(s, p)
  BY <1>2 DEF EndsBy
<1> QED BY <1>1, <1>3, Zenon

\* So does a setter of a fixed field.
LEMMA EndsField ==
    ASSUME NEW f, IsFlyweight(f), f.ok, NEW d, NEW v, NEW p \in Nat, EndsBy(f.buffer, p),
           f.offset + d.offset \in Nat, d.width \in Nat, f.offset + d.offset + d.width <= p
    PROVE  EndsBy(SetField(f, d, v).buffer, p)
<1>1. PICK o : o = f.offset + d.offset
  OBVIOUS
<1>2. PICK c : c = Number(v, d.width)
  OBVIOUS
<1>3. c.len = d.width
  BY <1>2, NumberCell
<1>4. SetField(f, d, v).buffer = Store(f.buffer, o, c)
  BY <1>1, <1>2, SetFieldLemma
<1>5. o \in Nat /\ c.len \in Nat /\ o + c.len <= p
  BY <1>1, <1>3
<1> QED BY <1>4, <1>5, EndsStore, Zenon

\* So do the four setters of the header.
LEMMA ApplyEnds ==
    ASSUME NEW f, IsFlyweight(f), f.ok, f.offset = 0, NEW n, f.buffer = NewBuffer(n),
           NEW block, NEW template, NEW schema, NEW ver
    PROVE  EndsBy(Apply(f, block, template, schema, ver).buffer, 16)
<1>1. /\ blockLength.offset = 0 /\ blockLength.width = 2
      /\ templateId.offset = 2 /\ templateId.width = 2
      /\ schemaId.offset = 4 /\ schemaId.width = 2
      /\ version.offset = 6 /\ version.width = 2
  BY DEF blockLength, templateId, schemaId, version, FixedField
<1>2. PICK f1 : f1 = SetField(f, blockLength, block)
  OBVIOUS
<1>3. PICK f2 : f2 = SetField(f1, templateId, template)
  OBVIOUS
<1>4. PICK f3 : f3 = SetField(f2, schemaId, schema)
  OBVIOUS
<1>5. PICK f4 : f4 = SetField(f3, version, ver)
  OBVIOUS
<1>6. Apply(f, block, template, schema, ver) = f4
  BY <1>2, <1>3, <1>4, <1>5, Zenon DEF Apply
<1>7. EndsBy(f.buffer, 16) /\ 16 \in Nat
  BY DEF NewBuffer, EndsBy
<1>8. IsFlyweight(f1) /\ f1.ok /\ f1.offset = 0
  BY <1>2, SetFieldLemma
<1>9. IsFlyweight(f2) /\ f2.ok /\ f2.offset = 0
  BY <1>3, <1>8, SetFieldLemma
<1>10. IsFlyweight(f3) /\ f3.ok /\ f3.offset = 0
  BY <1>4, <1>9, SetFieldLemma
<1>11. EndsBy(f1.buffer, 16)
  <2>1. f.offset + blockLength.offset \in Nat /\ blockLength.width \in Nat
        /\ f.offset + blockLength.offset + blockLength.width <= 16
    BY <1>1
  <2> QED BY <1>2, <1>7, <2>1, EndsField, Zenon
<1>12. EndsBy(f2.buffer, 16)
  <2>1. f1.offset + templateId.offset \in Nat /\ templateId.width \in Nat
        /\ f1.offset + templateId.offset + templateId.width <= 16
    BY <1>1, <1>8
  <2> QED BY <1>3, <1>7, <1>8, <1>11, <2>1, EndsField, Zenon
<1>13. EndsBy(f3.buffer, 16)
  <2>1. f2.offset + schemaId.offset \in Nat /\ schemaId.width \in Nat
        /\ f2.offset + schemaId.offset + schemaId.width <= 16
    BY <1>1, <1>9
  <2> QED BY <1>4, <1>7, <1>9, <1>12, <2>1, EndsField, Zenon
<1>14. EndsBy(f4.buffer, 16)
  <2>1. f3.offset + version.offset \in Nat /\ version.width \in Nat
        /\ f3.offset + version.offset + version.width <= 16
    BY <1>1, <1>10
  <2> QED BY <1>5, <1>7, <1>10, <1>13, <2>1, EndsField, Zenon
<1> QED BY <1>6, <1>14, Zenon

\* wrapAndApplyHeader() writes nothing behind the header.
LEMMA WrapAndApplyEnds ==
    ASSUME NEW n \in Nat, NEW block \in Nat, 8 + block <= n, NEW template
    PROVE  EndsBy(WrapAndApply(NewBuffer(n), 0, n, block, template, 1, 1).buffer, 16)
<1>1. PICK w : w = wrap(NewBuffer(n), 0, n)
  OBVIOUS
<1>2. HeaderLength = 8 /\ 8 \in Nat /\ 0 \in Nat /\ n \in Int /\ 0 + 8 <= n
  BY DEF HeaderLength
<1>3. w = Wrap(NewBuffer(n), 0, 8, n)
  BY <1>1, <1>2, Zenon DEF wrap
<1>4. Wrapped(w, NewBuffer(n), 0, 8, n)
  BY <1>2, <1>3, WrapLemma, Zenon
<1>5. IsFlyweight(w) /\ w.buffer = NewBuffer(n) /\ w.offset = 0 /\ w.ok
  BY <1>2, <1>4, Zenon DEF Wrapped
<1>6. PICK h : h = Apply(w, block, template, 1, 1)
  OBVIOUS
<1>7. EndsBy(h.buffer, 16)
  BY <1>5, <1>6, ApplyEnds, Zenon
<1>8. PICK f : f = Wrap(h.buffer, 0 + HeaderLength, block, n)
  OBVIOUS
<1>9. PICK x : x = (f.ok /\ h.ok)
  OBVIOUS
<1>10. WrapAndApply(NewBuffer(n), 0, n, block, template, 1, 1) = [f EXCEPT !.ok = x]
  BY <1>1, <1>6, <1>8, <1>9, Zenon DEF WrapAndApply
<1>11. [f EXCEPT !.ok = x].buffer = h.buffer
  BY <1>8 DEF Wrap, Flyweight
<1> QED BY <1>7, <1>10, <1>11, Zenon

-----------------------------------------------------------------------------
\* put() writes a length and a text and nothing else.
LEMMA StoreAdds ==
    ASSUME NEW b, NEW p, NEW c
    PROVE  \A o \in DOMAIN Store(b, p, c).at :
              \/ o = p /\ Store(b, p, c).at[o] = c
              \/ Holds(b, o, Store(b, p, c).at[o])
BY DEF Store, Holds

\* The two stores of a put add cells from its position on.
LEMMA StoresAdd ==
    ASSUME NEW b, NEW p \in Nat, NEW c, NEW d, c.len \in Nat, d.len \in Nat
    PROVE  Adds(b, b, p) /\ Adds(b, Store(b, p, c), p)
           /\ Adds(b, Store(Store(b, p, c), p + 2, d), p)
<1>1. PICK s : s = Store(b, p, c)
  OBVIOUS
<1>2. \A o \in DOMAIN s.at : (o = p /\ s.at[o] = c) \/ Holds(b, o, s.at[o])
  BY <1>1, StoreAdds
<1>3. PICK t : t = Store(s, p + 2, d)
  OBVIOUS
<1>4. \A o \in DOMAIN t.at : (o = p + 2 /\ t.at[o] = d) \/ Holds(s, o, t.at[o])
  BY <1>3, StoreAdds
<1>5. Adds(b, b, p) /\ Adds(b, s, p)
  BY <1>2, Zenon DEF Adds, Holds
<1>6. Adds(b, t, p)
  BY <1>2, <1>4, Zenon DEF Adds, Holds
<1> QED BY <1>1, <1>3, <1>5, <1>6, Zenon

\* put<Field>() adds cells from its position on, whether it throws or not.
LEMMA PutRawAdds ==
    ASSUME NEW f, IsFlyweight(f), NEW s, IsText(s)
    PROVE  Adds(f.buffer, PutRaw(f, VarData, s).buffer, f.position)
<1>1. PICK n : n = s.len % UINT16_RANGE
  OBVIOUS
<1>2. n \in Nat
  <2>1. Kept(s).len = s.len % UINT16_RANGE /\ Kept(s).len \in Nat
    BY KeptText, Zenon
  <2> QED BY <1>1, <2>1, Zenon
<1>3. PICK p : p = f.position
  OBVIOUS
<1>4. p \in Nat /\ p + 2 \in Nat /\ p + 2 + n \in Nat
  BY <1>2, <1>3 DEF IsFlyweight
<1>5. PICK m : m = sbePosition(f, p + 2)
  OBVIOUS
<1>6. PICK h : h = sbePosition(m, p + 2 + n)
  OBVIOUS
<1>7. IsFlyweight(m) /\ m.buffer = f.buffer
  BY <1>4, <1>5, MoveLemma, Zenon DEF AfterMove
<1>8. IsFlyweight(h) /\ h.buffer = f.buffer
  <2>1. AfterMove(m, p + 2 + n, h)
    BY <1>4, <1>6, <1>7, MoveLemma, Zenon
  <2> QED BY <1>7, <2>1, Zenon DEF AfterMove
<1>9. PICK c : c = Number(n, 2)
  OBVIOUS
<1>10. PICK d : d = Prefix(s, n)
  OBVIOUS
<1>11. PICK withLength : withLength = Store(f.buffer, p, c)
  OBVIOUS
<1>12. PICK withText : withText = Store(withLength, p + 2, d)
  OBVIOUS
<1>13. PICK g : g = PutRaw(f, VarData, s)
  OBVIOUS
<1>14. g = IF ~m.ok THEN m
           ELSE IF n = 0 THEN WithBuffer(m, withLength)
           ELSE IF ~h.ok THEN h
           ELSE WithBuffer(h, withText)
  <2>1. VarData.headerLength = 2
    BY DEF VarData, VarDataField
  <2> QED BY <1>1, <1>3, <1>5, <1>6, <1>9, <1>10, <1>11, <1>12, <1>13, <2>1, Zenon DEF PutRaw,
      WithBuffer
<1>15. WithBuffer(m, withLength).buffer = withLength /\ WithBuffer(h, withText).buffer = withText
  BY <1>7, <1>8, NewBufferLemma
<1>16. g.buffer = f.buffer \/ g.buffer = withLength \/ g.buffer = withText
  BY <1>7, <1>8, <1>14, <1>15, Zenon
<1>17. Adds(f.buffer, f.buffer, p) /\ Adds(f.buffer, withLength, p) /\ Adds(f.buffer, withText, p)
  <2>1. c.len \in Nat
    BY <1>9, NumberCell
  <2>2. d.len \in Nat
    BY <1>2, <1>10, PrefixOfText
  <2> QED BY <1>4, <1>11, <1>12, <2>1, <2>2, StoresAdd
<1> QED BY <1>3, <1>13, <1>16, <1>17, Zenon

\* One text put by a call of put<Field>(std::string).
LEMMA PutShort ==
    ASSUME NEW f, IsFlyweight(f), NEW s, IsText(s), Short(s)
    PROVE  LET g == PutString(f, VarData, s)
           IN  AfterPut(f, s, g) /\ Adds(f.buffer, g.buffer, f.position)
<1>1. PutString(f, VarData, s) = PutRaw(f, VarData, s) /\ Kept(s) = s
  BY PutStringShort, Zenon
<1>2. AfterPut(f, Kept(s), PutRaw(f, VarData, s))
  BY PutRawLemma, Zenon
<1>3. Adds(f.buffer, PutRaw(f, VarData, s).buffer, f.position)
  BY PutRawAdds, Zenon
<1> QED BY <1>1, <1>2, <1>3, Zenon

\* The cells of an acknowledgement before its texts are put.
FrontCells(b, a, extra) ==
    /\ a = 40 => Holds(b, 16, Number(extra, 4))
    /\ \A o \in DOMAIN b.at :
          /\ o \in Nat /\ b.at[o].len \in Nat
          /\ o + b.at[o].len <= 16 \/ (a = 40 /\ o = 16)

\* A step of put() far enough behind keeps a cell.
LEMMA StillHolds ==
    ASSUME NEW f, NEW s, NEW g, AfterPut(f, s, g), g.ok, NEW o \in Nat, o < f.position, NEW c,
           Holds(f.buffer, o, c)
    PROVE  Holds(g.buffer, o, c)
<1>1. Below(f.buffer, g.buffer, f.position)
  BY Zenon DEF AfterPut
<1>2. o \in Int
  OBVIOUS
<1> QED BY <1>1, <1>2, Zenon DEF Below

\* The three texts of an acknowledgement, and no cell that is not theirs.
LEMMA ThreePuts ==
    ASSUME NEW f, IsFlyweight(f), f.ok, NEW a \in {16, 40}, f.position = a, NEW extra,
           FrontCells(f.buffer, a, extra),
           NEW ks, \A i \in 1 .. 3 : IsText(ks[i]) /\ Short(ks[i]),
           NEW g1, g1 = PutString(f, VarData, ks[1]),
           NEW g2, g2 = PutString(g1, VarData, ks[2]),
           NEW g3, g3 = PutString(g2, VarData, ks[3]),
           a + 6 + ks[1].len + ks[2].len + ks[3].len <= f.limit
    PROVE  AckCells(g3.buffer, a, extra, ks[1], ks[2].len) /\ g3.buffer.size = f.buffer.size
<1>1. /\ IsText(ks[1]) /\ Short(ks[1]) /\ IsText(ks[2]) /\ Short(ks[2]) /\ IsText(ks[3])
      /\ Short(ks[3])
      /\ ks[1].len \in Nat /\ ks[2].len \in Nat /\ ks[3].len \in Nat
  <2>1. 1 \in 1 .. 3 /\ 2 \in 1 .. 3 /\ 3 \in 1 .. 3
    OBVIOUS
  <2> QED BY <2>1, Zenon DEF IsText
<1>2. PICK p : p = a + 2 + ks[1].len
  OBVIOUS
<1>3. PICK q : q = p + 2 + ks[2].len
  OBVIOUS
<1>4. /\ f.limit \in Int /\ a \in Nat /\ p \in Nat /\ q \in Nat /\ p >= a + 2 /\ q >= p + 2
      /\ p <= f.limit /\ q <= f.limit /\ q + 2 + ks[3].len <= f.limit
  BY <1>1, <1>2, <1>3 DEF IsFlyweight
<1>5. AfterPut(f, ks[1], g1) /\ Adds(f.buffer, g1.buffer, a)
  BY <1>1, PutShort
<1>6. /\ IsFlyweight(g1) /\ g1.ok /\ g1.position = p /\ g1.limit = f.limit
      /\ Written(g1.buffer, a, ks[1]) /\ g1.buffer.size = f.buffer.size
  BY <1>2, <1>4, <1>5, Zenon DEF AfterPut
<1>7. AfterPut(g1, ks[2], g2) /\ Adds(g1.buffer, g2.buffer, p)
  BY <1>1, <1>6, PutShort
<1>8. /\ IsFlyweight(g2) /\ g2.ok /\ g2.position = q /\ g2.limit = f.limit
      /\ Written(g2.buffer, p, ks[2]) /\ g2.buffer.size = f.buffer.size
  BY <1>3, <1>4, <1>6, <1>7, Zenon DEF AfterPut
<1>9. AfterPut(g2, ks[3], g3) /\ Adds(g2.buffer, g3.buffer, q)
  BY <1>1, <1>8, PutShort
<1>10. g3.ok /\ g3.buffer.size = f.buffer.size
  BY <1>4, <1>8, <1>9, Zenon DEF AfterPut
<1>11. PICK t : t = a + 2
  OBVIOUS
<1>12. /\ t \in Nat /\ a < p /\ a < q /\ t < q /\ p < q /\ 16 \in Nat
       /\ a = 40 => 16 < a /\ 16 < p /\ 16 < q
  BY <1>4, <1>11
<1>13. Holds(g1.buffer, a, Number(ks[1].len, 2)) /\ (ks[1].len > 0 => Holds(g1.buffer, t, ks[1]))
  BY <1>6, <1>11, Zenon DEF Written
<1>14. Holds(g2.buffer, p, Number(ks[2].len, 2))
  BY <1>8, Zenon DEF Written
<1>15. Holds(g3.buffer, p, Number(ks[2].len, 2))
  <2>1. PICK c : c = Number(ks[2].len, 2)
    OBVIOUS
  <2>2. Holds(g2.buffer, p, c) /\ p \in Nat /\ p < g2.position
    BY <1>4, <1>8, <1>12, <1>14, <2>1, Zenon
  <2>3. Holds(g3.buffer, p, c)
    BY <1>9, <1>10, <2>2, StillHolds
  <2> QED BY <2>1, <2>3, Zenon
<1>16. Holds(g3.buffer, a, Number(ks[1].len, 2))
  <2>1. Holds(g2.buffer, a, Number(ks[1].len, 2))
    BY <1>4, <1>6, <1>7, <1>8, <1>12, <1>13, StillHolds
  <2> QED BY <1>4, <1>8, <1>9, <1>10, <1>12, <2>1, StillHolds
<1>17. ks[1].len > 0 => Holds(g3.buffer, t, ks[1])
  <2> HAVE ks[1].len > 0
  <2>1. t < p /\ Holds(g1.buffer, t, ks[1])
    BY <1>1, <1>2, <1>11, <1>13
  <2>2. Holds(g2.buffer, t, ks[1])
    BY <1>6, <1>7, <1>8, <1>12, <2>1, StillHolds
  <2> QED BY <1>8, <1>9, <1>10, <1>12, <2>2, StillHolds
<1>18. a = 40 => Holds(g3.buffer, 16, Number(extra, 4))
  <2> HAVE a = 40
  <2>1. PICK c : c = Number(extra, 4)
    OBVIOUS
  <2>2. Holds(f.buffer, 16, c) /\ 16 < f.position
    BY <1>12, <2>1, Zenon DEF FrontCells
  <2>3. Holds(g1.buffer, 16, c)
    BY <1>5, <1>6, <1>12, <2>2, StillHolds
  <2>4. Holds(g2.buffer, 16, c)
    BY <1>6, <1>7, <1>8, <1>12, <2>3, StillHolds
  <2>5. Holds(g3.buffer, 16, c)
    BY <1>8, <1>9, <1>10, <1>12, <2>4, StillHolds
  <2> QED BY <2>1, <2>5, Zenon
<1>19. ASSUME NEW o \in DOMAIN g3.buffer.at
       PROVE  /\ o \in Nat /\ g3.buffer.at[o].len \in Nat
              /\ \/ o + g3.buffer.at[o].len <= 16
                 \/ a = 40 /\ o = 16
                 \/ o \in {a, t}
                 \/ o >= p
  <2>1. PICK c : c = g3.buffer.at[o]
    OBVIOUS
  <2>2. Holds(g2.buffer, o, c) \/ ((o = q \/ o = q + 2) /\ c.len \in Nat)
    BY <1>9, <1>19, <2>1, Zenon DEF Adds
  <2>3. Holds(g2.buffer, o, c) => Holds(g1.buffer, o, c) \/ ((o = p \/ o = p + 2) /\ c.len \in Nat)
    BY <1>7, Zenon DEF Adds, Holds
  <2>4. Holds(g1.buffer, o, c) => Holds(f.buffer, o, c) \/ ((o = a \/ o = t) /\ c.len \in Nat)
    BY <1>5, <1>11, Zenon DEF Adds, Holds
  <2>5. Holds(f.buffer, o, c) => o \in Nat /\ c.len \in Nat /\ (o + c.len <= 16 \/ (a = 40 /\ o = 16))
    BY Zenon DEF FrontCells, Holds
  <2>6. o = q \/ o = q + 2 \/ o = p \/ o = p + 2 => o \in Nat /\ o >= p
    BY <1>4
  <2>7. o = a \/ o = t => o \in Nat
    BY <1>4, <1>12
  <2> QED BY <2>1, <2>2, <2>3, <2>4, <2>5, <2>6, <2>7
<1> QED BY <1>2, <1>10, <1>11, <1>15, <1>16, <1>17, <1>18, <1>19, Zenon DEF AckCells

\* The cluster's acknowledgement, with a block of 8 or of 32.
AckBody(b, block, extra, ks) ==
    /\ b.size \in Nat /\ b.size = 14 + block + ks[1].len + ks[2].len + ks[3].len
    /\ Labelled(b, block, 2, 1)
    /\ AckCells(b, 8 + block, extra, ks[1], ks[2].len)

\* The block of an acknowledgement before the texts are put.
LEMMA AckFront ==
    ASSUME NEW block \in {8, 32}, NEW extra, NEW n \in Nat, 8 + block <= n,
           NEW f, f = SetField(WrapAndApply(NewBuffer(n), 0, n, block, 2, 1, 1),
                               Acked!timestamp, Now),
           NEW g, g = IF block = 32 THEN SetField(f, FixedField(8, 4), extra) ELSE f
    PROVE  Ready(g, block, 2, n, n) /\ FrontCells(g.buffer, 8 + block, extra)
<1>1. PICK e : e = WrapAndApply(NewBuffer(n), 0, n, block, 2, 1, 1)
  OBVIOUS
<1>2. block \in Nat
  OBVIOUS
<1>3. Ready(e, block, 2, n, n) /\ EndsBy(e.buffer, 16)
  <2>1. Ready(WrapAndApply(NewBuffer(n), 0, n, block, 2, 1, 1), block, 2, n, n)
    BY <1>2, WrapAndApplyLemma, Zenon
  <2>2. EndsBy(WrapAndApply(NewBuffer(n), 0, n, block, 2, 1, 1).buffer, 16)
    BY <1>2, WrapAndApplyEnds, Zenon
  <2> QED BY <1>1, <2>1, <2>2, Zenon
<1>4. Acked!timestamp.offset = 0 /\ Acked!timestamp.width = 8 /\ Acked!timestamp.offset \in Nat
      /\ Acked!timestamp.width \in Nat /\ 16 \in Nat
  BY BlockFields
<1>5. Ready(f, block, 2, n, n)
  BY <1>1, <1>3, <1>4, ReadySet, Zenon
<1>6. EndsBy(f.buffer, 16)
  <2>1. IsFlyweight(e) /\ e.ok /\ e.offset = 8
    BY <1>3, Zenon DEF Ready
  <2>2. e.offset + Acked!timestamp.offset \in Nat
        /\ e.offset + Acked!timestamp.offset + Acked!timestamp.width <= 16
    BY <1>4, <2>1
  <2> QED BY <1>1, <1>3, <1>4, <2>1, <2>2, EndsField, Zenon
<1>7. CASE block = 8
  <2>1. g = f /\ 8 + block # 40
    BY <1>7
  <2>2. FrontCells(g.buffer, 8 + block, extra)
    BY <1>6, <2>1, Zenon DEF FrontCells, EndsBy
  <2> QED BY <1>5, <2>1, <2>2, Zenon
<1>8. CASE block = 32
  <2>1. PICK d : d = FixedField(8, 4)
    OBVIOUS
  <2>2. d.offset = 8 /\ d.width = 4 /\ d.offset \in Nat /\ d.width \in Nat
    BY <2>1 DEF FixedField
  <2>3. g = SetField(f, d, extra)
    BY <1>8, <2>1
  <2>4. Ready(g, block, 2, n, n)
    BY <1>5, <2>2, <2>3, ReadySet, Zenon
  <2>5. IsFlyweight(f) /\ f.ok /\ f.offset = 8
    BY <1>5, Zenon DEF Ready
  <2>6. g.buffer = Store(f.buffer, 16, Number(extra, 4))
    <3>1. SetField(f, d, extra).buffer = Store(f.buffer, f.offset + d.offset, Number(extra, d.width))
      BY <2>5, SetFieldLemma
    <3>2. f.offset + d.offset = 16
      BY <2>2, <2>5
    <3> QED BY <2>2, <2>3, <3>1, <3>2, Zenon
  <2>7. PICK c : c = Number(extra, 4)
    OBVIOUS
  <2>8. c.len \in Nat
    BY <2>7, NumberCell
  <2>9. \A o \in DOMAIN g.buffer.at : (o = 16 /\ g.buffer.at[o] = c) \/ Holds(f.buffer, o, g.buffer.at[o])
    BY <2>6, <2>7, StoreAdds
  <2>10. Holds(g.buffer, 16, c)
    BY <2>6, <2>7, StoreHolds
  <2>11. \A o, x : Holds(f.buffer, o, x) => o \in Nat /\ x.len \in Nat /\ o + x.len <= 16
    BY <1>6, Zenon DEF EndsBy, Holds
  <2>12. 8 + block = 40
    BY <1>8
  <2>13. \A o \in DOMAIN g.buffer.at :
            /\ o \in Nat /\ g.buffer.at[o].len \in Nat
            /\ o + g.buffer.at[o].len <= 16 \/ o = 16
    <3> SUFFICES ASSUME NEW o \in DOMAIN g.buffer.at
                 PROVE  /\ o \in Nat /\ g.buffer.at[o].len \in Nat
                        /\ o + g.buffer.at[o].len <= 16 \/ o = 16
      OBVIOUS
    <3>1. CASE o = 16 /\ g.buffer.at[o] = c
      BY <2>8, <3>1
    <3>2. CASE Holds(f.buffer, o, g.buffer.at[o])
      BY <2>11, <3>2, Zenon
    <3> QED BY <2>9, <3>1, <3>2, Zenon
  <2>14. FrontCells(g.buffer, 8 + block, extra)
    BY <2>7, <2>10, <2>12, <2>13, Zenon DEF FrontCells
  <2> QED BY <2>4, <2>14
<1> QED BY <1>7, <1>8

\* The cluster's acknowledgement has the cells AckBody says.
LEMMA AckLemma ==
    ASSUME NEW m, NEW ks, ks = <<m.id, m.topic, m.correlation>>, m.block \in {8, 32},
           \A i \in 1 .. 3 : IsText(ks[i]) /\ Short(ks[i])
    PROVE  AckBody(Ack(m), m.block, m.extra, ks)
<1>1. PICK fields : fields = Acked!VarFields
  OBVIOUS
<1>2. PICK lengths : lengths = Lengths(ks)
  OBVIOUS
<1>3. PICK c : c = Acked!computeLength(lengths)
  OBVIOUS
<1>4. PICK block, extra : block = m.block /\ extra = m.extra
  OBVIOUS
<1>a. block \in {8, 32}
  BY <1>4
<1>5. PICK n : n = HeaderLength + block - Acked!SBE_BLOCK_LENGTH + c.length
  OBVIOUS
<1>6. PICK e : e = SetField(WrapAndApply(NewBuffer(n), 0, n, block, 2, 1, 1), Acked!timestamp, Now)
  OBVIOUS
<1>7. PICK f : f = IF block = 32 THEN SetField(e, FixedField(8, 4), extra) ELSE e
  OBVIOUS
<1>8. PICK g : g = PutStrings(f, fields, ks)
  OBVIOUS
<1>9. Ack(m) = g.buffer
  BY <1>1, <1>2, <1>3, <1>4, <1>5, <1>6, <1>7, <1>8, Zenon DEF Ack
<1>10. Len(fields) = 3 /\ \A i \in 1 .. 3 : fields[i] = VarData
  BY <1>1, AckedFields
<1>11. \A i \in 1 .. 3 : lengths[i] = ks[i].len
  BY <1>2 DEF Lengths
<1>12. 8 \in Nat /\ 3 \in {2, 3, 5} /\ 3 \in 0 .. 5 /\ 8 + 8 = 16 /\ 16 \in Nat /\ 3 + 1 = 4
  OBVIOUS
<1>13. \A i \in 1 .. 3 : IsText(ks[i])
  OBVIOUS
<1>14. PICK l1, l2, l3 : l1 = ks[1].len /\ l2 = ks[2].len /\ l3 = ks[3].len
  OBVIOUS
<1>15. l1 \in Nat /\ l2 \in Nat /\ l3 \in Nat
  <2>1. 1 \in 1 .. 3 /\ 2 \in 1 .. 3 /\ 3 \in 1 .. 3
    OBVIOUS
  <2> QED BY <1>13, <1>14, <2>1, Zenon DEF IsText
<1>16. c.length = 14 + l1 + l2 + l3
  <2>1. ComputeLength(8, fields, lengths).length = Starts(8 + 8, ks)[3 + 1] - 8
    BY <1>10, <1>11, <1>12, <1>13, LengthIs
  <2>2. c = ComputeLength(8, fields, lengths)
    BY <1>1, <1>3, AckedComputeLength, Zenon
  <2>3. c.length = Starts(16, ks)[4] - 8
    BY <1>12, <2>1, <2>2, Zenon
  <2>4. Starts(16, ks)[4] = 22 + l1 + l2 + l3
    BY <1>14, <1>15 DEF Starts
  <2> QED BY <1>15, <2>3, <2>4
<1>17. PICK a \in {16, 40} : a = 8 + block
  BY <1>a
<1>18. PICK at : at = Starts(a, ks)
  OBVIOUS
<1>19. Layout(at, ks, 3) /\ at[1] = a
  BY <1>12, <1>13, <1>18, StartsLayout
<1>20. at[4] = a + 6 + l1 + l2 + l3
  BY <1>14, <1>15, <1>18 DEF Starts
<1>21. n = 14 + block + l1 + l2 + l3 /\ n \in Nat /\ 8 + block <= n /\ n = a + 6 + l1 + l2 + l3
  BY <1>a, <1>5, <1>15, <1>16, <1>17 DEF HeaderLength, Acked!SBE_BLOCK_LENGTH
<1>22. Ready(f, block, 2, n, n) /\ FrontCells(f.buffer, a, extra)
  BY <1>a, <1>6, <1>7, <1>17, <1>21, AckFront
<1>23. /\ IsFlyweight(f) /\ f.ok /\ f.position = a /\ f.limit = n /\ f.buffer.size = n
       /\ Labelled(f.buffer, block, 2, 1)
  BY <1>17, <1>22, Zenon DEF Ready
<1>24. f.position <= f.limit
  BY <1>17, <1>21, <1>23
<1>25. Filled(f, at, ks, 3, g)
  <2>1. \A i \in 1 .. 3 : fields[i] = VarData /\ Short(ks[i])
    BY <1>10
  <2> QED BY <1>8, <1>10, <1>12, <1>19, <1>23, <1>24, <2>1, PutStringsFill
<1>26. g.ok
  <2>1. at[4] <= f.limit
    BY <1>20, <1>21, <1>23
  <2> QED BY <1>12, <1>23, <1>25, <2>1, Zenon DEF Filled
<1>27. Labelled(g.buffer, block, 2, 1)
  <2>1. Below(f.buffer, g.buffer, a)
    BY <1>19, <1>25, <1>26, Zenon DEF Filled
  <2>2. a > 4 /\ a \in Nat
    OBVIOUS
  <2> QED BY <1>23, <2>1, <2>2, LabelBelow
<1>28. AckCells(g.buffer, a, extra, ks[1], ks[2].len) /\ g.buffer.size = n
  <2>1. PICK after : StringsRun(f, fields, ks, 3, after)
    BY <1>10, <1>12, PutStringsSteps, Zenon
  <2>2. 1 \in 1 .. 3 /\ 2 \in 1 .. 3 /\ 3 \in 1 .. 3 /\ 1 - 1 = 0 /\ 2 - 1 = 1 /\ 3 - 1 = 2
    OBVIOUS
  <2>3. /\ after[1] = PutString(f, VarData, ks[1])
        /\ after[2] = PutString(after[1], VarData, ks[2])
        /\ after[3] = PutString(after[2], VarData, ks[3])
        /\ g = after[3]
    BY <1>8, <1>10, <2>1, <2>2, Zenon DEF StringsRun
  <2>4. a + 6 + ks[1].len + ks[2].len + ks[3].len <= f.limit
    BY <1>14, <1>15, <1>21, <1>23
  <2>5. PICK g1 : g1 = after[1]
    OBVIOUS
  <2>6. PICK g2 : g2 = after[2]
    OBVIOUS
  <2>7. AckCells(g.buffer, a, extra, ks[1], ks[2].len) /\ g.buffer.size = f.buffer.size
    <3>1. /\ g1 = PutString(f, VarData, ks[1])
          /\ g2 = PutString(g1, VarData, ks[2])
          /\ g = PutString(g2, VarData, ks[3])
      BY <2>3, <2>5, <2>6, Zenon
    <3> QED BY <1>22, <1>23, <2>4, <3>1, ThreePuts
  <2> QED BY <1>23, <2>7, Zenon
<1>29. AckBody(g.buffer, block, extra, ks)
  BY <1>14, <1>17, <1>21, <1>27, <1>28, Zenon DEF AckBody
<1> QED BY <1>4, <1>9, <1>29, Zenon

-----------------------------------------------------------------------------
\* Behind a session header there are the same cells and no others.
LEMMA OnlyBody ==
    ASSUME NEW a, NEW b, a.size \in Nat, \A p \in DOMAIN a.at : p \in Nat /\ p < a.size,
           \A o \in DOMAIN b.at : o \in Nat
    PROVE  LET c == Slice(Concat(a, b), a.size)
           IN  \A o \in DOMAIN c.at : Holds(b, o, c.at[o])
<1>1. PICK moved : moved = Shift(b.at, a.size)
  OBVIOUS
<1>2. /\ DOMAIN moved = {p + a.size : p \in DOMAIN b.at}
      /\ \A p \in DOMAIN moved : moved[p] = b.at[p - a.size]
  BY <1>1 DEF Shift
<1>3. PICK whole : whole = Concat(a, b)
  OBVIOUS
<1>4. /\ DOMAIN whole.at = DOMAIN a.at \cup DOMAIN moved
      /\ \A p \in DOMAIN whole.at : whole.at[p] = IF p \in DOMAIN a.at THEN a.at[p] ELSE moved[p]
  BY <1>1, <1>3 DEF Concat
<1>5. PICK rest : rest = [p \in {q \in DOMAIN whole.at : q >= a.size} |-> whole.at[p]]
  OBVIOUS
<1>6. /\ \A p \in DOMAIN rest : p \in DOMAIN moved /\ rest[p] = moved[p]
  BY <1>4, <1>5
<1>7. PICK c : c = Slice(whole, a.size)
  OBVIOUS
<1>8. c.at = Shift(rest, -a.size)
  BY <1>5, <1>7 DEF Slice
<1>9. c.at = [o \in {p + (-a.size) : p \in DOMAIN rest} |-> rest[o - (-a.size)]]
  BY <1>8 DEF Shift
<1>10. ASSUME NEW o \in DOMAIN c.at
       PROVE  Holds(b, o, c.at[o])
  <2>1. PICK p \in DOMAIN rest : o = p + (-a.size)
    BY <1>9, <1>10
  <2>2. p \in DOMAIN moved /\ rest[p] = moved[p]
    BY <1>6
  <2>3. PICK q \in DOMAIN b.at : p = q + a.size
    BY <1>2, <2>2
  <2>4. q \in Nat /\ o = q /\ o - (-a.size) = p /\ p - a.size = q
    BY <2>1, <2>3
  <2>5. c.at[o] = rest[p]
    BY <1>9, <1>10, <2>4
  <2> QED BY <1>2, <2>2, <2>4, <2>5 DEF Holds
<1> QED BY <1>3, <1>7, <1>10, Zenon

\* And so has one behind a session header.
LEMMA AckOpened ==
    ASSUME NEW term, NEW session, NEW body, NEW block \in {8, 32}, NEW extra, NEW ks,
           AckBody(body, block, extra, ks), \A i \in 1 .. 3 : IsText(ks[i])
    PROVE  AckBody(Slice(Concat(SessionHeader(term, session), body), 32), block, extra, ks)
<1>1. PICK s : s = SessionHeader(term, session)
  OBVIOUS
<1>2. s.size = 32 /\ Within(s, 32)
  BY <1>1, SessionHeaderLemma
<1>3. PICK c : c = Slice(Concat(s, body), 32)
  OBVIOUS
<1>4. PICK a, k, n : a = 8 + block /\ k = ks[1] /\ n = ks[2].len
  OBVIOUS
<1>5. body.size \in Nat /\ Labelled(body, block, 2, 1) /\ AckCells(body, a, extra, k, n)
  BY <1>4, Zenon DEF AckBody
<1>6. /\ c.size = body.size
      /\ \A o \in Nat : \A x : Holds(body, o, x) => Holds(c, o, x)
  BY <1>1, <1>3, <1>5, EnvelopeOpened
<1>7. Labelled(c, block, 2, 1)
  BY <1>1, <1>3, <1>5, LabelOpened, Zenon
<1>8. \A o \in DOMAIN body.at : o \in Nat
  BY <1>5, Zenon DEF AckCells
<1>9. \A o \in DOMAIN c.at : Holds(body, o, c.at[o])
  <2>1. s.size \in Nat /\ \A p \in DOMAIN s.at : p \in Nat /\ p < s.size
    BY <1>2 DEF Within
  <2>2. c = Slice(Concat(s, body), s.size)
    BY <1>2, <1>3, Zenon
  <2> QED BY <1>8, <2>1, <2>2, OnlyBody
<1>10. a + 2 + k.len \in Nat /\ a \in Nat /\ a + 2 \in Nat /\ 16 \in Nat
  <2>1. 1 \in 1 .. 3
    OBVIOUS
  <2>2. k.len \in Nat
    BY <1>4, <2>1, Zenon DEF IsText
  <2> QED BY <1>4, <2>2
<1>11. AckCells(c, a, extra, k, n)
  <2>1. /\ Holds(c, a, Number(k.len, 2))
        /\ k.len > 0 => Holds(c, a + 2, k)
        /\ Holds(c, a + 2 + k.len, Number(n, 2))
        /\ a = 40 => Holds(c, 16, Number(extra, 4))
    BY <1>5, <1>6, <1>10, Zenon DEF AckCells
  <2>2. ASSUME NEW o \in DOMAIN c.at
        PROVE  /\ o \in Nat /\ c.at[o].len \in Nat
               /\ \/ o + c.at[o].len <= 16
                  \/ a = 40 /\ o = 16
                  \/ o \in {a, a + 2}
                  \/ o >= a + 2 + k.len
    <3>1. o \in DOMAIN body.at /\ body.at[o] = c.at[o]
      BY <1>9, <2>2, Zenon DEF Holds
    <3> QED BY <1>5, <3>1, Zenon DEF AckCells
  <2> QED BY <2>1, <2>2, Zenon DEF AckCells
<1>12. AckBody(c, block, extra, ks)
  <2>1. body.size = 14 + block + ks[1].len + ks[2].len + ks[3].len
    BY Zenon DEF AckBody
  <2> QED BY <1>4, <1>5, <1>6, <1>7, <1>11, <2>1, Zenon DEF AckBody
<1> QED BY <1>1, <1>3, <1>12, Zenon

\* What is read from an acknowledgement.
AckResult(r, block, extra, ks) ==
    /\ r.success /\ r.message_type.of = "Acknowledgment"
    /\ r.message_id = ks[1] <=> LegibleAt(8 + block, extra, ks[1], ks[2].len)

Receipt(id, payload, stamp, headers) ==
    [Failed EXCEPT !.success = TRUE, !.message_type = Text("Acknowledgment", 14),
                   !.timestamp = stamp, !.message_id = id,
                   !.payload = payload, !.headers = headers]

\* The fields of the result of an acknowledgement.
LEMMA ReceiptFields ==
    ASSUME NEW id, NEW payload, NEW stamp, NEW headers
    PROVE  LET r == Receipt(id, payload, stamp, headers)
           IN  r.success /\ r.message_type.of = "Acknowledgment" /\ r.message_id = id
BY DEF Receipt, Failed, Text

\* decode_acknowledgment_with_sbe() succeeds on the cluster's acknowledgement
\* and finds the id if and only if it is legible.
LEMMA AckDecoded ==
    ASSUME NEW b, NEW block \in {8, 32}, NEW extra, NEW ks, AckBody(b, block, extra, ks),
           \A i \in 1 .. 3 : IsText(ks[i]), ks[1].of # "glued"
    PROVE  AckResult(decode_acknowledgment_with_sbe(b), block, extra, ks)
<1>1. 1 \in 1 .. 3 /\ 2 \in 1 .. 3 /\ 3 \in 1 .. 3
  OBVIOUS
<1>2. ks[1].len \in Nat /\ ks[2].len \in Nat /\ ks[3].len \in Nat /\ IsText(ks[1])
  BY <1>1, Zenon DEF IsText
<1>3. PICK a \in {16, 40} : a = 8 + block
  OBVIOUS
<1>4. /\ b.size \in Nat /\ b.size = 14 + block + ks[1].len + ks[2].len + ks[3].len
      /\ Labelled(b, block, 2, 1) /\ AckCells(b, a, extra, ks[1], ks[2].len)
  BY <1>3, Zenon DEF AckBody
<1>5. HasHeader(b) /\ ~(b.size < 8 + 8) /\ a + 2 + ks[1].len < b.size
  BY <1>2, <1>3, <1>4 DEF HasHeader, HeaderLength
<1>6. validate_header(Header(b), 2, 1)
  <2>1. Header(b).template_id = 2 /\ Header(b).schema_id = 1
    BY <1>4, HeaderRead
  <2> QED BY <2>1, Zenon DEF validate_header
<1>7. PICK id, payload, stamp, headers :
         /\ id = FirstString(b, Runs(b), Text("ack_timestamp", 23))
         /\ decode_acknowledgment_with_sbe(b) = Receipt(id, payload, stamp, headers)
  <2>1. decode_acknowledgment_with_sbe(b)
          = Receipt(FirstString(b, Runs(b), Text("ack_timestamp", 23)),
                    FirstString(b, Others(Runs(b)), Text("SUCCESS", 7)),
                    Load(b, 8, 8).val,
                    FirstString(b, Others(Others(Runs(b))), Empty))
    BY <1>5, <1>6, Zenon DEF decode_acknowledgment_with_sbe, Receipt
  <2> QED BY <2>1, Zenon
<1>8. id = ks[1] <=> LegibleAt(a, extra, ks[1], ks[2].len)
  BY <1>2, <1>4, <1>5, <1>7, AckRead
<1>9. PICK r : r = Receipt(id, payload, stamp, headers)
  OBVIOUS
<1>10. r.success /\ r.message_type.of = "Acknowledgment" /\ r.message_id = id
  BY <1>9, ReceiptFields
<1> QED BY <1>3, <1>7, <1>8, <1>9, <1>10, Zenon DEF AckResult

\* parse_message() reads an acknowledgement that way, bare or enveloped.
LEMMA AckParsed ==
    ASSUME NEW b, NEW block \in {8, 32}, NEW extra, NEW ks, AckBody(b, block, extra, ks),
           \A i \in 1 .. 3 : IsText(ks[i]), ks[1].of # "glued"
    PROVE  /\ AckResult(parse_message(b), block, extra, ks)
           /\ \A term, session :
                 AckResult(parse_message(Concat(SessionHeader(term, session), b)), block, extra, ks)
<1>1. b.size \in Nat /\ b.size >= 8 /\ Labelled(b, block, 2, 1)
  <2>1. 1 \in 1 .. 3 /\ 2 \in 1 .. 3 /\ 3 \in 1 .. 3
    OBVIOUS
  <2>2. ks[1].len \in Nat /\ ks[2].len \in Nat /\ ks[3].len \in Nat
    BY <2>1, Zenon DEF IsText
  <2>3. b.size \in Nat /\ b.size = 14 + block + ks[1].len + ks[2].len + ks[3].len
        /\ Labelled(b, block, 2, 1)
    BY Zenon DEF AckBody
  <2>4. b.size >= 8
    BY <2>2, <2>3
  <2> QED BY <2>3, <2>4, Zenon
<1>2. \A c : Direct(c, 2) = decode_acknowledgment_with_sbe(c)
  BY DEF Direct
<1>3. AckResult(parse_message(b), block, extra, ks)
  <2>1. 2 \in {1, 2}
    OBVIOUS
  <2>2. parse_message(b) = Direct(b, 2)
    BY <1>1, <2>1, ParseDirect, Zenon
  <2> QED BY <1>2, <2>2, AckDecoded, Zenon
<1>4. ASSUME NEW term, NEW session
      PROVE  AckResult(parse_message(Concat(SessionHeader(term, session), b)), block, extra, ks)
  <2>1. PICK c : c = Slice(Concat(SessionHeader(term, session), b), 32)
    OBVIOUS
  <2>2. parse_message(Concat(SessionHeader(term, session), b)) = Direct(c, 2)
    BY <1>1, <2>1, ParseEnveloped
  <2>3. AckBody(c, block, extra, ks)
    BY <2>1, AckOpened, Zenon
  <2>4. AckResult(decode_acknowledgment_with_sbe(c), block, extra, ks)
    BY <2>3, AckDecoded, Zenon
  <2> QED BY <1>2, <2>2, <2>4, Zenon
<1> QED BY <1>3, <1>4

-----------------------------------------------------------------------------
\* The sequence number that the parser finds is the one the payload carries.
LEMMA NumberFound ==
    ASSUME NEW payload, NEW n, CarriesNumber(payload, n)
    PROVE  sequence_number(payload) = n
<1>1. PICK at : at = IF payload \in DOMAIN Numbers THEN Numbers[payload] ELSE <<>>
  OBVIOUS
<1>2. at \in Seq(Nat)
  BY <1>1, NumbersAssumption
<1>3. PICK found : found = {i \in DOMAIN at : i <= 4 /\ at[i] > 0}
  OBVIOUS
<1>4. sequence_number(payload) = IF found = {} THEN 0 ELSE at[Min(found)]
  BY <1>1, <1>3, Zenon DEF sequence_number
<1>5. \A i \in found : i \in Nat /\ i >= 1
  BY <1>2, <1>3
<1>6. \/ n = 0 /\ found = {}
      \/ \E i \in found : n = at[i] /\ \A j \in 1 .. i - 1 : j \notin found
  BY <1>1, <1>3 DEF CarriesNumber
<1>7. ASSUME NEW i \in found, n = at[i], \A j \in 1 .. i - 1 : j \notin found
      PROVE  Min(found) = i
  <2>1. \A j \in found : i <= j
    BY <1>5, <1>7
  <2>2. PICK k : k = Min(found)
    OBVIOUS
  <2>3. k \in found /\ \A j \in found : k <= j
    BY <1>7, <2>1, <2>2, Zenon DEF Min
  <2> QED BY <1>5, <1>7, <2>1, <2>2, <2>3
<1> QED BY <1>4, <1>6, <1>7

\* The cells of a session event.
EventCells(b, m) ==
    /\ b.size \in Nat /\ b.size = 44 + m.detail.len /\ Labelled(b, 32, 2, 111)
    /\ Holds(b, 8, Number(m.correlation, 8)) /\ Holds(b, 16, Number(m.session, 8))
    /\ Holds(b, 24, Number(m.term, 8)) /\ Holds(b, 32, Number(m.leader, 4))
    /\ Holds(b, 36, Number(m.code, 4)) /\ Holds(b, 40, Number(m.detail.len, 4))
    /\ m.detail.len # 0 => Holds(b, 44, m.detail)

\* The cluster's session event has the cells EventCells says.
LEMMA EventLemma ==
    ASSUME NEW m, IsText(m.detail)
    PROVE  EventCells(Event(m), m)
<1>1. PICK x1, x2, x3, x4, x5, x6 :
         /\ x1 = Number(m.correlation, 8) /\ x2 = Number(m.session, 8) /\ x3 = Number(m.term, 8)
         /\ x4 = Number(m.leader, 4) /\ x5 = Number(m.code, 4) /\ x6 = Number(m.detail.len, 4)
  OBVIOUS
<1>2. m.detail.len \in Nat
  BY Zenon DEF IsText
<1>3. PICK n : n = 8 + 32 + 4 + m.detail.len
  OBVIOUS
<1>4. n \in Nat /\ n >= 8 /\ n = 44 + m.detail.len
  BY <1>2, <1>3
<1>5. PICK b : b = ClusterHeader(n, 32, 2)
  OBVIOUS
<1>6. Labelled(b, 32, 2, 111) /\ b.size = n
  BY <1>4, <1>5, ClusterHeaderLemma
<1>7. 8 \in Nat /\ 8 > 4 /\ 16 \in Nat /\ 16 > 4 /\ 24 \in Nat /\ 24 > 4 /\ 32 \in Nat /\ 32 > 4
      /\ 36 \in Nat /\ 36 > 4 /\ 40 \in Nat /\ 40 > 4 /\ 44 \in Nat /\ 44 > 4
  OBVIOUS
<1>8. PICK c1 : c1 = Store(b, 8, x1)
  OBVIOUS
<1>9. PICK c2 : c2 = Store(c1, 16, x2)
  OBVIOUS
<1>10. PICK c3 : c3 = Store(c2, 24, x3)
  OBVIOUS
<1>11. PICK c4 : c4 = Store(c3, 32, x4)
  OBVIOUS
<1>12. PICK c5 : c5 = Store(c4, 36, x5)
  OBVIOUS
<1>13. PICK c6 : c6 = Store(c5, 40, x6)
  OBVIOUS
<1>14. PICK c7 : c7 = Store(c6, 44, m.detail)
  OBVIOUS
<1>15. Event(m) = IF m.detail.len = 0 THEN c6 ELSE c7
  BY <1>1, <1>3, <1>5, <1>8, <1>9, <1>10, <1>11, <1>12, <1>13, <1>14, Zenon DEF Event
<1>16. Labelled(c1, 32, 2, 111) /\ c1.size = n /\ Holds(c1, 8, x1)
  BY <1>6, <1>7, <1>8, LabelStays, StoreHolds
<1>17. Labelled(c2, 32, 2, 111) /\ c2.size = n /\ Holds(c2, 8, x1) /\ Holds(c2, 16, x2)
  BY <1>7, <1>9, <1>16, LabelStays, StoreHolds
<1>18. Labelled(c3, 32, 2, 111) /\ c3.size = n /\ Holds(c3, 8, x1) /\ Holds(c3, 16, x2)
       /\ Holds(c3, 24, x3)
  BY <1>7, <1>10, <1>17, LabelStays, StoreHolds
<1>19. Labelled(c4, 32, 2, 111) /\ c4.size = n /\ Holds(c4, 8, x1) /\ Holds(c4, 16, x2)
       /\ Holds(c4, 24, x3) /\ Holds(c4, 32, x4)
  BY <1>7, <1>11, <1>18, LabelStays, StoreHolds
<1>20. Labelled(c5, 32, 2, 111) /\ c5.size = n /\ Holds(c5, 8, x1) /\ Holds(c5, 16, x2)
       /\ Holds(c5, 24, x3) /\ Holds(c5, 32, x4) /\ Holds(c5, 36, x5)
  BY <1>7, <1>12, <1>19, LabelStays, StoreHolds
<1>21. Labelled(c6, 32, 2, 111) /\ c6.size = n /\ Holds(c6, 8, x1) /\ Holds(c6, 16, x2)
       /\ Holds(c6, 24, x3) /\ Holds(c6, 32, x4) /\ Holds(c6, 36, x5) /\ Holds(c6, 40, x6)
  BY <1>7, <1>13, <1>20, LabelStays, StoreHolds
<1>22. Labelled(c7, 32, 2, 111) /\ c7.size = n /\ Holds(c7, 8, x1) /\ Holds(c7, 16, x2)
       /\ Holds(c7, 24, x3) /\ Holds(c7, 32, x4) /\ Holds(c7, 36, x5) /\ Holds(c7, 40, x6)
       /\ Holds(c7, 44, m.detail)
  BY <1>7, <1>14, <1>21, LabelStays, StoreHolds
<1>23. m.detail.len = 0 => EventCells(c6, m)
  BY <1>1, <1>4, <1>21, Zenon DEF EventCells
<1>24. EventCells(c7, m)
  BY <1>1, <1>4, <1>22, Zenon DEF EventCells
<1> QED BY <1>15, <1>23, <1>24, Zenon

\* The longest detail that extract_variable_string() takes.
Detail(s) == s.len <= 10485760

\* extract_variable_string() returns the detail at the end of an event.
LEMMA DetailExtracted ==
    ASSUME NEW b, NEW s, IsText(s), Detail(s), b.size = 44 + s.len,
           Holds(b, 40, Number(s.len, 4)), s.len # 0 => Holds(b, 44, s)
    PROVE  extract_variable_string(b, 0, b.size - (8 + 32)).text = s
<1>1. s.len \in Nat /\ s.of # "number"
  BY Zenon DEF IsText
<1>2. PICK remaining : remaining = b.size - (8 + 32)
  OBVIOUS
<1>3. PICK base : base = b.size - remaining
  OBVIOUS
<1>4. remaining = 4 + s.len /\ base = 40 /\ base + 0 = 40 /\ base + 0 + 4 = 44 /\ 4 \in Int
  BY <1>1, <1>2, <1>3
<1>5. PICK n : n = Load(b, base + 0, 4).val
  OBVIOUS
<1>6. n = s.len
  <2>1. Number(s.len, 4).len = 4 /\ Number(s.len, 4).val = s.len
    BY NumberCell
  <2>2. Load(b, 40, 4) = Number(s.len, 4)
    <3>1. PICK c : c = Number(s.len, 4)
      OBVIOUS
    <3>2. Holds(b, 40, c) /\ c.len = 4
      BY <2>1, <3>1, Zenon
    <3>3. Load(b, 40, 4) = c
      BY <1>4, <3>2, LoadHolds
    <3> QED BY <3>1, <3>3, Zenon
  <2> QED BY <1>4, <1>5, <2>1, <2>2, Zenon
<1>7. extract_variable_string(b, 0, remaining) =
        IF 0 + 4 > remaining \/ n > remaining - 4 \/ n > 10485760
        THEN [next |-> 0, text |-> Empty]
        ELSE [next |-> 0 + 4 + n, text |-> IF n = 0 THEN Empty ELSE Load(b, base + 0 + 4, n)]
  BY <1>3, <1>5 DEF extract_variable_string
<1>8. ~(0 + 4 > remaining \/ n > remaining - 4 \/ n > 10485760)
  BY <1>1, <1>4, <1>6 DEF Detail
<1>9. extract_variable_string(b, 0, remaining).text = IF n = 0 THEN Empty ELSE Load(b, 44, n)
  BY <1>4, <1>7, <1>8
<1>10. n = 0 => s = Empty
  BY <1>6, EmptyText, Zenon
<1>11. n # 0 => Load(b, 44, n) = s
  <2>1. s.len \in Int
    BY <1>1
  <2> QED BY <1>1, <1>6, <2>1, LoadHolds, Zenon
<1> QED BY <1>2, <1>9, <1>10, <1>11, Zenon

\* The result of a session event with its fields.
Notice(correlation, session, term, leader, code, detail) ==
    [Failed EXCEPT !.success = TRUE, !.message_type = Text("SessionEvent", 12),
                   !.correlation_id = correlation, !.session_id = session,
                   !.leadership_term_id = term, !.leader_member_id = leader,
                   !.event_code = code, !.payload = detail]
Noticed(r, m) ==
    /\ r.success
    /\ <<r.correlation_id, r.session_id, r.leadership_term_id, r.leader_member_id,
         r.event_code, r.payload>>
         = <<m.correlation, m.session, m.term, m.leader, m.code, m.detail>>

\* The fields of the result of a session event.
LEMMA NoticeFields ==
    ASSUME NEW m
    PROVE  Noticed(Notice(m.correlation, m.session, m.term, m.leader, m.code, m.detail), m)
BY DEF Notice, Noticed, Failed

\* parse_message() reads every field of a session event.
LEMMA EventParsed ==
    ASSUME NEW b, NEW m, EventCells(b, m), IsText(m.detail), Detail(m.detail)
    PROVE  Noticed(parse_message(b), m)
<1>1. m.detail.len \in Nat
  BY Zenon DEF IsText
<1>2. /\ b.size \in Nat /\ b.size = 44 + m.detail.len /\ Labelled(b, 32, 2, 111)
      /\ Holds(b, 8, Number(m.correlation, 8)) /\ Holds(b, 16, Number(m.session, 8))
      /\ Holds(b, 24, Number(m.term, 8)) /\ Holds(b, 32, Number(m.leader, 4))
      /\ Holds(b, 36, Number(m.code, 4)) /\ Holds(b, 40, Number(m.detail.len, 4))
      /\ m.detail.len # 0 => Holds(b, 44, m.detail)
  BY Zenon DEF EventCells
<1>3. Header(b).template_id = 2 /\ Header(b).schema_id = 111
  BY <1>2, HeaderRead
<1>4. HasHeader(b) /\ HeaderLength = 8
  BY <1>1, <1>2 DEF HasHeader, HeaderLength
<1>5. is_session_event(Header(b))
  BY <1>3, Zenon DEF is_session_event, SESSION_EVENT_TEMPLATE_ID, CLUSTER_SCHEMA_ID
<1>6. parse_message(b) = parse_session_event(b)
  <2>1. PICK s : s = parse_session_event(b)
    OBVIOUS
  <2>2. PICK t : t = parse_topic_message(b)
    OBVIOUS
  <2>3. PICK a : a = parse_acknowledgment(b)
    OBVIOUS
  <2>4. PICK h : h = Header(b)
    OBVIOUS
  <2>5. parse_message(b) =
          CASE ~HasHeader(b) -> Failed
            [] HasHeader(b) /\ is_session_event(h) -> s
            [] HasHeader(b) /\ ~is_session_event(h) /\ is_topic_message(h) -> t
            [] HasHeader(b) /\ ~is_session_event(h) /\ ~is_topic_message(h)
                   /\ is_acknowledgment(h) -> a
            [] OTHER -> Failed
    BY <2>1, <2>2, <2>3, <2>4, Zenon DEF parse_message
  <2> QED BY <1>4, <1>5, <2>1, <2>4, <2>5
<1>7. PICK remaining : remaining = b.size - (HeaderLength + 32)
  OBVIOUS
<1>8. remaining > 0 /\ ~(remaining < 0)
  BY <1>1, <1>2, <1>4, <1>7
<1>9. validate_header(Header(b), 2, 111)
  BY <1>3, Zenon DEF validate_header
<1>10. extract_variable_string(b, 0, remaining).text = m.detail
  BY <1>2, <1>4, <1>7, DetailExtracted
<1>11. parse_session_event(b)
         = Notice(Load(b, 8, 8).val, Load(b, 16, 8).val, Load(b, 24, 8).val, Load(b, 32, 4).val,
                  Load(b, 36, 4).val, m.detail)
  BY <1>7, <1>8, <1>9, <1>10, Zenon DEF parse_session_event, Notice
<1>12. \A o, v : \A w \in Int : Holds(b, o, Number(v, w)) => Load(b, o, w).val = v
  <2> SUFFICES ASSUME NEW o, NEW v, NEW w \in Int, Holds(b, o, Number(v, w))
               PROVE  Load(b, o, w).val = v
    OBVIOUS
  <2>1. Number(v, w).len = w /\ Number(v, w).val = v
    BY NumberCell, Zenon
  <2>2. Load(b, o, w) = Number(v, w)
    BY <2>1, LoadHolds, Zenon
  <2> QED BY <2>1, <2>2, Zenon
<1>13. 8 \in Int /\ 4 \in Int
  OBVIOUS
<1>14. /\ Load(b, 8, 8).val = m.correlation /\ Load(b, 16, 8).val = m.session
       /\ Load(b, 24, 8).val = m.term /\ Load(b, 32, 4).val = m.leader
       /\ Load(b, 36, 4).val = m.code
  BY <1>2, <1>12, <1>13
<1>15. parse_message(b)
         = Notice(m.correlation, m.session, m.term, m.leader, m.code, m.detail)
  BY <1>6, <1>11, <1>14, Zenon
<1> QED BY <1>15, NoticeFields, Zenon

\* A text that fits its field is not refused.
LEMMA FitsShort == ASSUME NEW s, Fits(s) PROVE IsText(s) /\ Short(s)
BY DEF Fits, Short

\* What is assumed of the content of a message, by its kind.
TopicContent(c) ==
    /\ c.block \in {8, 16} /\ \A i \in 1 .. 5 : Fits(Texts(c)[i])
    /\ CarriesNumber(c.payload, c.sequence)
AckContent(c) ==
    /\ c.block \in {8, 32} /\ c.id.of # "glued"
    /\ Fits(c.id) /\ Fits(c.topic) /\ Fits(c.correlation)
EventContent(c) == IsText(c.detail) /\ Detail(c.detail)

\* ContentAssumption, by kind.
LEMMA ContentOf ==
    ASSUME NEW m \in Messages, NEW c, c = Content[m]
    PROVE  /\ c.kind \in {"topic", "ack", "event"}
           /\ c.kind # "event" => c.enveloped \in BOOLEAN
           /\ c.kind = "topic" => TopicContent(c)
           /\ c.kind = "ack" => AckContent(c)
           /\ c.kind = "event" => EventContent(c)
BY ContentAssumption DEF TopicContent, AckContent, EventContent, Detail

\* What a topic message is read as.
TopicReadAs(r, c) ==
    /\ r.success
    /\ <<r.message_type, r.message_id, r.payload, r.headers>>
          = <<c.type, c.uuid, c.payload, c.headers>>
    /\ r.sequence_number = c.sequence

\* The headers end behind the payload.
LEMMA EndGrows ==
    ASSUME NEW p \in Nat, NEW ks, AreTexts(ks, 5)
    PROVE  EndOf(p, ks, 4) <= EndOf(p, ks, 5)
<1>1. PICK at : at = Starts(p, ks)
  OBVIOUS
<1>2. 5 \in {2, 3, 5} /\ \A i \in 1 .. 5 : IsText(ks[i])
  BY DEF AreTexts
<1>3. Layout(at, ks, 5)
  BY <1>1, <1>2, StartsLayout
<1>4. at[5] \in Nat /\ at[6] = at[5] + 2 + ks[5].len /\ IsText(ks[5])
  BY <1>3 DEF Layout
<1>5. ks[5].len \in Nat
  BY <1>4, Zenon DEF IsText
<1>6. EndOf(p, ks, 4) = at[5] /\ EndOf(p, ks, 5) = at[6]
  <2>1. 4 + 1 = 5 /\ 5 + 1 = 6
    OBVIOUS
  <2> QED BY <1>1, <2>1, Zenon DEF EndOf
<1> QED BY <1>4, <1>5, <1>6

\* An entire topic message is read with its headers.
LEMMA WholeRead ==
    ASSUME NEW r, NEW size, NEW block \in {8, 16}, NEW ks, AreTexts(ks, 5),
           size = EndOf(8 + block, ks, 5), TopicRead(r, size, block, ks)
    PROVE  r.success /\ Decoded(r, ks, TRUE)
<1>1. 8 + block \in Nat
  OBVIOUS
<1>2. PICK p : p = 8 + block
  OBVIOUS
<1>3. EndOf(p, ks, 4) <= EndOf(p, ks, 5)
  BY <1>1, <1>2, EndGrows
<1>4. EndOf(p, ks, 5) <= EndOf(p, ks, 5)
  <2>1. 5 \in {2, 3, 5}
    OBVIOUS
  <2>2. EndOf(p, ks, 5) \in Nat
    BY <1>1, <1>2, <2>1, EndBound
  <2> QED BY <2>2
<1>5. /\ r.success <=> EndOf(p, ks, 4) <= size
      /\ r.success => Decoded(r, ks, EndOf(p, ks, 5) <= size)
  BY <1>2, Zenon DEF TopicRead
<1>6. r.success
  BY <1>2, <1>3, <1>5, Zenon
<1>7. Decoded(r, ks, EndOf(p, ks, 5) <= size)
  BY <1>5, <1>6, Zenon
<1>8. EndOf(p, ks, 5) <= size
  BY <1>2, <1>4, Zenon
<1>9. Decoded(r, ks, TRUE)
  BY <1>7, <1>8, Zenon DEF Decoded
<1> QED BY <1>6, <1>9

\* The cluster's topic message is read as it was sent, bare or enveloped.
LEMMA TopicParsed ==
    ASSUME NEW c, TopicContent(c)
    PROVE  /\ TopicReadAs(parse_message(Topic(c, c.block)), c)
           /\ \A term, session :
                 TopicReadAs(parse_message(Concat(SessionHeader(term, session), Topic(c, c.block))), c)
<1>1. PICK ks : ks = Texts(c)
  OBVIOUS
<1>2. PICK block : block = c.block
  OBVIOUS
<1>3. block \in {8, 16} /\ CarriesNumber(c.payload, c.sequence) /\ \A i \in 1 .. 5 : Fits(ks[i])
  BY <1>1, <1>2, Zenon DEF TopicContent
<1>4. \A i \in 1 .. 5 : IsText(ks[i]) /\ Short(ks[i])
  BY <1>3, FitsShort, Zenon
<1>5. AreTexts(ks, 5) /\ \A i \in 1 .. 5 : IsText(ks[i])
  BY <1>4, Zenon DEF AreTexts
<1>6. PICK b : b = Topic(c, block)
  OBVIOUS
<1>7. Body(b, block, 1, ks, 5) /\ b.size = EndOf(8 + block, ks, 5)
  <2>1. Entire(Topic(c, block), block, 1, Texts(c), 5)
    BY <1>1, <1>3, <1>4, <1>5, TopicLemma
  <2> QED BY <1>1, <1>6, <2>1, Zenon DEF Entire
<1>8. block \in Nat
  BY <1>3
<1>9. ASSUME NEW r, TopicRead(r, b.size, block, ks)
      PROVE  TopicReadAs(r, c)
  <2>1. r.success /\ Decoded(r, ks, TRUE)
    BY <1>3, <1>5, <1>7, <1>9, WholeRead
  <2>2. ks[2] = c.type /\ ks[3] = c.uuid /\ ks[4] = c.payload /\ ks[5] = c.headers
    BY <1>1, TextsOf, Zenon
  <2>3. sequence_number(c.payload) = c.sequence
    BY <1>3, NumberFound, Zenon
  <2>4. /\ r.message_type = c.type /\ r.message_id = c.uuid /\ r.payload = c.payload
        /\ r.headers = c.headers /\ r.sequence_number = c.sequence
    BY <2>1, <2>2, <2>3, Zenon DEF Decoded
  <2> QED BY <2>1, <2>4, Zenon DEF TopicReadAs
<1>10. TopicReadAs(parse_message(b), c)
  BY <1>5, <1>7, <1>8, <1>9, BareTopic, Zenon
<1>11. ASSUME NEW term, NEW session
       PROVE  TopicReadAs(parse_message(Concat(SessionHeader(term, session), b)), c)
  BY <1>5, <1>7, <1>8, <1>9, EnvelopedTopic, Zenon
<1> QED BY <1>2, <1>6, <1>10, <1>11, Zenon

AckReadAs(r, c) ==
    /\ r.success /\ r.message_type.of = "Acknowledgment"
    /\ r.message_id = c.id <=> Legible(c)

\* The cluster's acknowledgement is read as ReadAsSent says, bare or enveloped.
LEMMA AckAsSent ==
    ASSUME NEW c, AckContent(c)
    PROVE  /\ AckReadAs(parse_message(Ack(c)), c)
           /\ \A term, session :
                 AckReadAs(parse_message(Concat(SessionHeader(term, session), Ack(c))), c)
<1>1. PICK ks : ks = <<c.id, c.topic, c.correlation>>
  OBVIOUS
<1>2. ks[1] = c.id /\ ks[2] = c.topic /\ ks[3] = c.correlation
  BY <1>1
<1>3. /\ IsText(c.id) /\ Short(c.id) /\ IsText(c.topic) /\ Short(c.topic)
      /\ IsText(c.correlation) /\ Short(c.correlation)
  BY FitsShort, Zenon DEF AckContent
<1>4. \A i \in 1 .. 3 : IsText(ks[i]) /\ Short(ks[i])
  <2>1. \A i \in 1 .. 3 : i = 1 \/ i = 2 \/ i = 3
    OBVIOUS
  <2> QED BY <1>2, <1>3, <2>1, Zenon
<1>5. PICK b, block, extra : b = Ack(c) /\ block = c.block /\ extra = c.extra
  OBVIOUS
<1>6. block \in {8, 32} /\ ks[1].of # "glued"
  BY <1>2, <1>5, Zenon DEF AckContent
<1>7. AckBody(b, block, extra, ks)
  BY <1>1, <1>4, <1>5, <1>6, AckLemma, Zenon
<1>8. \A i \in 1 .. 3 : IsText(ks[i])
  BY <1>4, Zenon
<1>9. LegibleAt(8 + block, extra, ks[1], ks[2].len) <=> Legible(c)
  <2>1. 8 + block = 40 <=> c.block = 32
    BY <1>5, <1>6
  <2> QED BY <1>2, <1>5, <2>1, Zenon DEF LegibleAt, Legible
<1>10. ASSUME NEW r, AckResult(r, block, extra, ks)
       PROVE  AckReadAs(r, c)
  BY <1>2, <1>9, <1>10, Zenon DEF AckResult, AckReadAs
<1> QED BY <1>5, <1>6, <1>7, <1>8, <1>10, AckParsed, Zenon

\* Every message of the cluster is read as it was sent.
LEMMA EgressRead ==
    ASSUME NEW m \in Messages
    PROVE  ReadAsSent(parse_message(EgressFrame(m)), m)
<1>1. PICK c : c = Content[m]
  OBVIOUS
<1>2. /\ c.kind \in {"topic", "ack", "event"}
      /\ c.kind # "event" => c.enveloped \in BOOLEAN
      /\ c.kind = "topic" => TopicContent(c)
      /\ c.kind = "ack" => AckContent(c)
      /\ c.kind = "event" => EventContent(c)
  BY <1>1, ContentOf
<1>3. PICK x, y, z : x = Topic(c, c.block) /\ y = Ack(c) /\ z = Event(c)
  OBVIOUS
<1>4. PICK h : h = SessionHeader(Term, Session)
  OBVIOUS
<1>5. PICK bare : bare = CASE c.kind = "topic" -> x
                           [] c.kind = "ack" -> y
                           [] c.kind = "event" -> z
  OBVIOUS
<1>6. EgressFrame(m) = IF c.kind # "event" /\ c.enveloped THEN Concat(h, bare) ELSE bare
  BY <1>1, <1>3, <1>4, <1>5 DEF EgressFrame
<1>7. PICK r : r = parse_message(EgressFrame(m))
  OBVIOUS
<1>8. ReadAsSent(r, m) <=>
        /\ r.success
        /\ c.kind = "topic" =>
              /\ <<r.message_type, r.message_id, r.payload, r.headers>>
                    = <<c.type, c.uuid, c.payload, c.headers>>
              /\ r.sequence_number = c.sequence
        /\ c.kind = "ack" =>
              /\ r.message_type.of = "Acknowledgment"
              /\ r.message_id = c.id <=> Legible(c)
        /\ c.kind = "event" =>
              <<r.correlation_id, r.session_id, r.leadership_term_id,
                r.leader_member_id, r.event_code, r.payload>>
                = <<c.correlation, c.session, c.term, c.leader, c.code, c.detail>>
  BY <1>1 DEF ReadAsSent
<1>9. CASE c.kind = "topic"
  <2>1. TopicReadAs(parse_message(x), c) /\ TopicReadAs(parse_message(Concat(h, x)), c)
    BY <1>2, <1>3, <1>4, <1>9, TopicParsed, Zenon
  <2>2. bare = x
    BY <1>5, <1>9
  <2>3. TopicReadAs(r, c)
    BY <1>6, <1>7, <2>1, <2>2, Zenon
  <2> QED BY <1>7, <1>8, <1>9, <2>3 DEF TopicReadAs
<1>10. CASE c.kind = "ack"
  <2>1. AckReadAs(parse_message(y), c) /\ AckReadAs(parse_message(Concat(h, y)), c)
    BY <1>2, <1>3, <1>4, <1>10, AckAsSent, Zenon
  <2>2. bare = y
    BY <1>5, <1>10
  <2>3. AckReadAs(r, c)
    BY <1>6, <1>7, <2>1, <2>2, Zenon
  <2> QED BY <1>7, <1>8, <1>10, <2>3 DEF AckReadAs
<1>11. CASE c.kind = "event"
  <2>1. IsText(c.detail) /\ Detail(c.detail)
    BY <1>2, <1>11, Zenon DEF EventContent
  <2>2. Noticed(parse_message(z), c)
    BY <1>3, <2>1, EventLemma, EventParsed, Zenon
  <2>3. EgressFrame(m) = z
    BY <1>5, <1>6, <1>11
  <2>4. Noticed(r, c)
    BY <1>7, <2>2, <2>3, Zenon
  <2> QED BY <1>7, <1>8, <1>11, <2>4 DEF Noticed
<1> QED BY <1>2, <1>9, <1>10, <1>11

\* A length that a uint16_t can tell.
Bounded(n) == n <= 65535

\* All of a text that a uint16_t can tell the length of is kept.
LEMMA BoundedKept == ASSUME NEW s, IsText(s), Bounded(s.len) PROVE Kept(s) = s
<1>1. s.len \in Nat
  BY Zenon DEF IsText
<1>2. s.len < UINT16_RANGE
  BY <1>1 DEF Bounded, UINT16_RANGE
<1> QED BY <1>2, KeptText

\* A name and a length make a text.
LEMMA TextIs ==
    ASSUME NEW name, name # "number", NEW n \in Nat
    PROVE  IsText(Text(name, n)) /\ Text(name, n).len = n
BY DEF IsText, Text

\* What is read from a frame, next to what the call was given.
AsGiven(r, t) ==
    /\ Bounded(t.payload.len) => SameTexts(r, t)
    /\ Bounded(t.headers.len) => r.headers \in {t.headers, Empty}

\* From a frame that create_topic_message() has cut.
LEMMA CutRead ==
    ASSUME NEW t, AreTexts(Texts(t), 5), NEW r, NEW size, size = EndOf(24, Texts(t), 5) - 8,
           TopicRead(r, size, 16, Texts(t))
    PROVE  /\ r.success => AsGiven(r, t)
           /\ t.headers.len >= 6 => r.success
<1>1. PICK ks : ks = Texts(t)
  OBVIOUS
<1>2. ks[2] = t.type /\ ks[3] = t.uuid /\ ks[4] = t.payload /\ ks[5] = t.headers
  BY <1>1, TextsOf, Zenon
<1>3. 8 + 16 = 24 /\ 24 \in Nat /\ 5 \in {2, 3, 5} /\ 4 + 1 = 5 /\ 5 + 1 = 6 /\ 5 \in 1 .. 5
  OBVIOUS
<1>4. /\ r.success <=> EndOf(24, ks, 4) <= size
      /\ r.success => Decoded(r, ks, EndOf(24, ks, 5) <= size)
  BY <1>1, <1>3, Zenon DEF TopicRead
<1>5. ASSUME r.success PROVE AsGiven(r, t)
  <2>1. PICK whole : Decoded(r, ks, whole)
    BY <1>4, <1>5, Zenon
  <2>2. /\ r.message_type = t.type /\ r.message_id = t.uuid /\ r.payload = t.payload
        /\ r.headers = IF whole THEN t.headers ELSE Empty
    BY <1>2, <2>1, Zenon DEF Decoded
  <2>3. SameTexts(r, t) /\ r.headers \in {t.headers, Empty}
    BY <2>2, Zenon DEF SameTexts
  <2> QED BY <2>3, Zenon DEF AsGiven
<1>6. ASSUME t.headers.len >= 6 PROVE r.success
  <2>1. PICK at : at = Starts(24, ks)
    OBVIOUS
  <2>2. \A i \in 1 .. 5 : IsText(ks[i])
    BY <1>1, Zenon DEF AreTexts
  <2>3. Layout(at, ks, 5)
    BY <1>3, <2>1, <2>2, StartsLayout
  <2>4. at[5] \in Nat /\ at[6] = at[5] + 2 + ks[5].len
    BY <2>3 DEF Layout
  <2>5. ks[5].len \in Nat
    BY <1>3, <2>2, Zenon DEF IsText
  <2>6. EndOf(24, ks, 4) = at[5] /\ EndOf(24, ks, 5) = at[6]
    BY <1>3, <2>1, Zenon DEF EndOf
  <2>7. size = at[6] - 8
    BY <1>1, <2>6, Zenon
  <2>8. at[5] <= size
    BY <1>2, <1>6, <2>4, <2>5, <2>7
  <2> QED BY <1>4, <2>6, <2>8, Zenon
<1> QED BY <1>5, <1>6

\* From a frame that publish_topic() or a commit has made: it is whole.
LEMMA KeptRead ==
    ASSUME NEW t, AreTexts(Texts(t), 5), NEW r, NEW size, size = EndOf(24, KeptOf(Texts(t)), 5),
           TopicRead(r, size, 16, KeptOf(Texts(t))),
           Bounded(t.type.len), Bounded(t.payload.len) => Bounded(t.uuid.len)
    PROVE  r.success /\ AsGiven(r, t)
<1>1. PICK ks : ks = KeptOf(Texts(t))
  OBVIOUS
<1>2. PICK ts : ts = Texts(t)
  OBVIOUS
<1>3. ts[2] = t.type /\ ts[3] = t.uuid /\ ts[4] = t.payload /\ ts[5] = t.headers
  BY <1>2, TextsOf, Zenon
<1>4. AreTexts(ks, 5) /\ \A i \in 1 .. 5 : ks[i] = Kept(ts[i])
  BY <1>1, <1>2, KeptTexts, Zenon
<1>5. 2 \in 1 .. 5 /\ 3 \in 1 .. 5 /\ 4 \in 1 .. 5 /\ 5 \in 1 .. 5 /\ 8 + 16 = 24 /\ 16 \in {8, 16}
  OBVIOUS
<1>6. ks[2] = Kept(t.type) /\ ks[3] = Kept(t.uuid) /\ ks[4] = Kept(t.payload)
      /\ ks[5] = Kept(t.headers)
  BY <1>3, <1>4, <1>5, Zenon
<1>7. IsText(t.type) /\ IsText(t.uuid) /\ IsText(t.payload) /\ IsText(t.headers)
  BY <1>2, <1>3, <1>5, Zenon DEF AreTexts
<1>8. r.success /\ Decoded(r, ks, TRUE)
  BY <1>1, <1>4, <1>5, WholeRead
<1>9. /\ r.message_type = Kept(t.type) /\ r.message_id = Kept(t.uuid) /\ r.payload = Kept(t.payload)
      /\ r.headers = Kept(t.headers)
  BY <1>6, <1>8, Zenon DEF Decoded
<1>10. ASSUME Bounded(t.payload.len) PROVE SameTexts(r, t)
  <2>1. Kept(t.type) = t.type /\ Kept(t.uuid) = t.uuid /\ Kept(t.payload) = t.payload
    BY <1>7, <1>10, BoundedKept, Zenon
  <2> QED BY <1>9, <2>1, Zenon DEF SameTexts
<1>11. ASSUME Bounded(t.headers.len) PROVE r.headers \in {t.headers, Empty}
  <2>1. Kept(t.headers) = t.headers
    BY <1>7, <1>11, BoundedKept, Zenon
  <2> QED BY <1>9, <2>1, Zenon
<1> QED BY <1>8, <1>10, <1>11, Zenon DEF AsGiven

-----------------------------------------------------------------------------
\* The three properties of a call s.
Genuine(s) ==
    /\ s.call \in {"message", "order", "subscription", "topic", "encode",
                   "commit_request", "commit"} /\ s.read.success => AsGiven(s.read, s.given)
    /\ s.call = "lite" /\ s.frame.ok =>
          ReadLite(s.frame.bytes) =
              [ok |-> TRUE, sequence |-> s.given.sequence,
               topic |-> topic_to_id(s.given.topic), id |-> s.given.id,
               identifier |-> s.given.identifier]
Readable(s) ==
    s.call \in {"order", "subscription", "commit", "commit_request"} /\ s.frame.ok => s.read.success
End(f) == [ok |-> f.ok, position |-> f.position]
SkipsToEnd(body) ==
    End(TM!skip(TM!wrapForDecode(body, HeaderLength, 16, body.size)))
        = [ok |-> TRUE, position |-> body.size]
LiteSkipsToEnd(body) ==
    End(Lite!skip(Lite!wrapForDecode(body, HeaderLength, 12, body.size)))
        = [ok |-> TRUE, position |-> body.size]
Exact(s) ==
    /\ s.call = "topic" /\ s.frame.ok => SkipsToEnd(s.frame.bytes)
    /\ s.call = "commit" /\ s.frame.ok => SkipsToEnd(Slice(s.frame.bytes, 32))
    /\ s.call = "lite" /\ s.frame.ok => LiteSkipsToEnd(Slice(s.frame.bytes, 32))
    /\ s.call = "keepalive" => s.frame.bytes = encode_session_keep_alive(Term, Session)
    /\ s.call \in {"keepalive", "close", "connect"} => ~s.read.success
Proper(s) == Genuine(s) /\ Readable(s) /\ Exact(s)

Offered(call, given, frame) ==
    [call |-> call, given |-> given, frame |-> frame,
     read |-> IF frame.ok THEN parse_message(frame.bytes) ELSE Failed]

\* The parts of what a call leaves in sent.
LEMMA OfferedIs ==
    ASSUME NEW call, NEW given, NEW frame
    PROVE  LET s == Offered(call, given, frame)
           IN  /\ s.call = call /\ s.given = given /\ s.frame = frame
               /\ s.read = IF frame.ok THEN parse_message(frame.bytes) ELSE Failed
<1>1. PICK r : r = IF frame.ok THEN parse_message(frame.bytes) ELSE Failed
  OBVIOUS
<1>2. Offered(call, given, frame) = [call |-> call, given |-> given, frame |-> frame, read |-> r]
  BY <1>1, Zenon DEF Offered
<1> QED BY <1>1, <1>2

\* What the properties ask of a call that sends a topic message.
LEMMA TopicCall ==
    ASSUME NEW s, s.call \in {"message", "order", "subscription", "topic", "encode",
                              "commit_request", "commit"},
           s.read.success => AsGiven(s.read, s.given),
           s.call \notin {"message", "encode", "topic"} /\ s.frame.ok => s.read.success,
           s.call = "topic" /\ s.frame.ok => SkipsToEnd(s.frame.bytes),
           s.call = "commit" /\ s.frame.ok => SkipsToEnd(Slice(s.frame.bytes, 32))
    PROVE  Proper(s)
<1>1. Genuine(s)
  <2>1. s.call # "lite"
    OBVIOUS
  <2> QED BY <2>1, Zenon DEF Genuine
<1>2. Readable(s)
  BY DEF Readable
<1>3. Exact(s)
  <2>1. s.call \notin {"lite", "keepalive", "close", "connect"}
    OBVIOUS
  <2> QED BY <2>1 DEF Exact
<1> QED BY <1>1, <1>2, <1>3 DEF Proper

\* Skipping the fields of a whole frame.
LEMMA TopicSkips ==
    ASSUME NEW b, NEW ks, AreTexts(ks, 5), Entire(b, 16, 1, ks, 5)
    PROVE  SkipsToEnd(b)
<1>1. 16 \in Nat /\ 5 \in {2, 3, 5} /\ \A i \in 1 .. 5 : IsText(ks[i])
  BY DEF AreTexts
<1>2. Len(TM!VarFields) = 5 /\ \A i \in 1 .. 5 : TM!VarFields[i] = VarData
  BY TMFields
<1>3. PICK fields : fields = TM!VarFields
  OBVIOUS
<1>4. PICK s : s = SkipAll(Wrap(b, 8, 16, b.size), fields)
  OBVIOUS
<1>5. s.ok = TRUE /\ s.position = b.size
  BY <1>1, <1>2, <1>3, <1>4, EntireSkipped
<1>6. TM!skip(TM!wrapForDecode(b, HeaderLength, 16, b.size)) = s
  <2>1. HeaderLength = 8
    BY DEF HeaderLength
  <2> QED BY <1>3, <1>4, <2>1, TMSkip, TMWrapForDecode, Zenon
<1>7. SkipsToEnd(b) <=> End(s) = [ok |-> TRUE, position |-> b.size]
  BY <1>6, Zenon DEF SkipsToEnd
<1> QED BY <1>5, <1>7, Zenon DEF End

\* The same for CommitOffsetLite.
LEMMA LiteSkips ==
    ASSUME NEW b, NEW ks, \A i \in 1 .. 2 : IsText(ks[i]), Entire(b, 12, 301, ks, 2)
    PROVE  LiteSkipsToEnd(b)
<1>1. 12 \in Nat /\ 2 \in {2, 3, 5}
  OBVIOUS
<1>2. Len(Lite!VarFields) = 2 /\ \A i \in 1 .. 2 : Lite!VarFields[i] = VarData
  BY LiteFields
<1>3. PICK fields : fields = Lite!VarFields
  OBVIOUS
<1>4. PICK s : s = SkipAll(Wrap(b, 8, 12, b.size), fields)
  OBVIOUS
<1>5. s.ok = TRUE /\ s.position = b.size
  BY <1>1, <1>2, <1>3, <1>4, EntireSkipped
<1>6. Lite!skip(Lite!wrapForDecode(b, HeaderLength, 12, b.size)) = s
  <2>1. HeaderLength = 8
    BY DEF HeaderLength
  <2> QED BY <1>3, <1>4, <2>1, LiteSkip, LiteWrapForDecode, Zenon
<1>7. LiteSkipsToEnd(b) <=> End(s) = [ok |-> TRUE, position |-> b.size]
  BY <1>6, Zenon DEF LiteSkipsToEnd
<1> QED BY <1>5, <1>7, Zenon DEF End

\* publish_message(), publish_order() and the subscription requests.
LEMMA PublicationProper ==
    ASSUME NEW t, AreTexts(Texts(t), 5), NEW call \in {"message", "order", "subscription"},
           call # "message" => t.headers.len >= 6
    PROVE  Proper(Offered(call, t, Combined(Term, Session, create_topic_message(t))))
<1>1. PICK body : body = create_topic_message(t)
  OBVIOUS
<1>2. PICK frame : frame = Combined(Term, Session, body)
  OBVIOUS
<1>3. PICK s : s = Offered(call, t, frame)
  OBVIOUS
<1>4. /\ s.call = call /\ s.given = t /\ s.frame = frame
      /\ s.read = IF frame.ok THEN parse_message(frame.bytes) ELSE Failed
  BY <1>3, OfferedIs
<1>5. IsFrame(body) /\ CutTopic(body, Texts(t))
  BY <1>1, CreateIsFrame, CreateTopic, Zenon
<1>6. frame.ok = body.ok /\ frame.bytes = Concat(SessionHeader(Term, Session), body.bytes)
  BY <1>2, <1>5, CombinedParts
<1>7. ASSUME frame.ok
      PROVE  /\ s.read.success => AsGiven(s.read, t)
             /\ t.headers.len >= 6 => s.read.success
  <2>1. Body(body.bytes, 16, 1, Texts(t), 5) /\ body.bytes.size = EndOf(24, Texts(t), 5) - 8
    BY <1>5, <1>6, <1>7, Zenon DEF CutTopic
  <2>2. 16 \in Nat /\ \A i \in 1 .. 5 : IsText(Texts(t)[i])
    BY DEF AreTexts
  <2>3. TopicRead(parse_message(Concat(SessionHeader(Term, Session), body.bytes)), body.bytes.size,
                  16, Texts(t))
    BY <2>1, <2>2, EnvelopedTopic, Zenon
  <2>4. TopicRead(s.read, body.bytes.size, 16, Texts(t))
    BY <1>4, <1>6, <1>7, <2>3, Zenon
  <2> QED BY <2>1, <2>4, CutRead, Zenon
<1>8. ~frame.ok => ~s.read.success
  BY <1>4, FailedFails, Zenon
<1>9. s.call \in {"message", "order", "subscription"}
  BY <1>4, Zenon
<1>10. s.call # "message" /\ s.frame.ok => s.read.success
  BY <1>4, <1>7, Zenon
<1>11. s.read.success => AsGiven(s.read, s.given)
  BY <1>4, <1>7, <1>8, Zenon
<1>12. Proper(s)
  <2>1. /\ s.call \in {"message", "order", "subscription", "topic", "encode", "commit_request", "commit"}
        /\ s.call # "topic" /\ s.call # "commit"
    BY <1>9
  <2> QED BY <1>10, <1>11, <2>1, TopicCall
<1> QED BY <1>1, <1>2, <1>3, <1>12, Zenon

\* SBEEncoder::encode_topic_message().
LEMMA EncodeProper ==
    ASSUME NEW t, AreTexts(Texts(t), 5), NEW stamp
    PROVE  Proper(Offered("encode", t, encode_topic_message(t, stamp)))
<1>1. PICK frame : frame = encode_topic_message(t, stamp)
  OBVIOUS
<1>2. PICK s : s = Offered("encode", t, frame)
  OBVIOUS
<1>3. /\ s.call = "encode" /\ s.given = t /\ s.frame = frame
      /\ s.read = IF frame.ok THEN parse_message(frame.bytes) ELSE Failed
  BY <1>2, OfferedIs
<1>4. CutTopic(frame, Texts(t))
  BY <1>1, EncodeTopic, Zenon
<1>5. ASSUME frame.ok
      PROVE  s.read.success => AsGiven(s.read, t)
  <2>1. Body(frame.bytes, 16, 1, Texts(t), 5) /\ frame.bytes.size = EndOf(24, Texts(t), 5) - 8
    BY <1>4, <1>5, Zenon DEF CutTopic
  <2>2. 16 \in Nat /\ \A i \in 1 .. 5 : IsText(Texts(t)[i])
    BY DEF AreTexts
  <2>3. TopicRead(parse_message(frame.bytes), frame.bytes.size, 16, Texts(t))
    BY <2>1, <2>2, BareTopic, Zenon
  <2>4. TopicRead(s.read, frame.bytes.size, 16, Texts(t))
    BY <1>3, <1>5, <2>3, Zenon
  <2> QED BY <2>1, <2>4, CutRead, Zenon
<1>6. s.read.success => AsGiven(s.read, s.given)
  BY <1>3, <1>5, FailedFails, Zenon
<1>7. Proper(s)
  BY <1>3, <1>6, TopicCall
<1> QED BY <1>1, <1>2, <1>7, Zenon

\* The texts of a frame that publish_topic() or a commit makes.
Framable(t) ==
    /\ AreTexts(Texts(t), 5)
    /\ Bounded(t.type.len) /\ (Bounded(t.payload.len) => Bounded(t.uuid.len))

\* publish_topic() and send_commit_request(): no envelope.
LEMMA BareProper ==
    ASSUME NEW t, Framable(t), NEW size \in Nat, size >= 32,
           NEW call \in {"topic", "commit_request"}
    PROVE  Proper(Offered(call, t, TopicFrame(t, size)))
<1>1. PICK frame : frame = TopicFrame(t, size)
  OBVIOUS
<1>2. PICK s : s = Offered(call, t, frame)
  OBVIOUS
<1>3. /\ s.call = call /\ s.given = t /\ s.frame = frame
      /\ s.read = IF frame.ok THEN parse_message(frame.bytes) ELSE Failed
  BY <1>2, OfferedIs
<1>4. /\ AreTexts(Texts(t), 5)
      /\ Bounded(t.type.len) /\ (Bounded(t.payload.len) => Bounded(t.uuid.len))
  BY Zenon DEF Framable
<1>5. PICK ks : ks = KeptOf(Texts(t))
  OBVIOUS
<1>6. WholeTopic(frame, ks) /\ AreTexts(ks, 5)
  BY <1>1, <1>4, <1>5, TopicFrameLemma, KeptTexts
<1>7. ASSUME frame.ok
      PROVE  s.read.success /\ AsGiven(s.read, t) /\ SkipsToEnd(frame.bytes)
  <2>1. Entire(frame.bytes, 16, 1, ks, 5)
    BY <1>6, <1>7, Zenon DEF WholeTopic
  <2>2. Body(frame.bytes, 16, 1, ks, 5) /\ frame.bytes.size = EndOf(24, ks, 5)
    <3>1. 8 + 16 = 24
      OBVIOUS
    <3> QED BY <2>1, <3>1, Zenon DEF Entire
  <2>3. 16 \in Nat /\ \A i \in 1 .. 5 : IsText(ks[i])
    BY <1>6 DEF AreTexts
  <2>4. TopicRead(parse_message(frame.bytes), frame.bytes.size, 16, ks)
    BY <2>2, <2>3, BareTopic, Zenon
  <2>5. TopicRead(s.read, frame.bytes.size, 16, ks)
    BY <1>3, <1>7, <2>4, Zenon
  <2>6. s.read.success /\ AsGiven(s.read, t)
    BY <1>4, <1>5, <2>2, <2>5, KeptRead, Zenon
  <2> QED BY <1>6, <2>1, <2>6, TopicSkips, Zenon
<1>8. s.read.success => AsGiven(s.read, s.given)
  BY <1>3, <1>7, FailedFails, Zenon
<1>9. s.frame.ok => s.read.success /\ SkipsToEnd(s.frame.bytes)
  BY <1>3, <1>7, Zenon
<1>10. Proper(s)
  <2>1. /\ s.call \in {"message", "order", "subscription", "topic", "encode", "commit_request", "commit"}
        /\ s.call # "commit"
    BY <1>3
  <2> QED BY <1>8, <1>9, <2>1, TopicCall
<1> QED BY <1>1, <1>2, <1>10, Zenon

\* The JSON form of send_commit_offset(), behind the session header.
LEMMA CommitProper ==
    ASSUME NEW t, Framable(t), NEW size \in Nat, size >= 32
    PROVE  Proper(Offered("commit", t, Combined(Term, Session, TopicFrame(t, size))))
<1>1. PICK body : body = TopicFrame(t, size)
  OBVIOUS
<1>2. PICK frame : frame = Combined(Term, Session, body)
  OBVIOUS
<1>3. PICK s : s = Offered("commit", t, frame)
  OBVIOUS
<1>4. /\ s.call = "commit" /\ s.given = t /\ s.frame = frame
      /\ s.read = IF frame.ok THEN parse_message(frame.bytes) ELSE Failed
  BY <1>3, OfferedIs
<1>5. /\ AreTexts(Texts(t), 5)
      /\ Bounded(t.type.len) /\ (Bounded(t.payload.len) => Bounded(t.uuid.len))
  BY Zenon DEF Framable
<1>6. PICK ks : ks = KeptOf(Texts(t))
  OBVIOUS
<1>7. WholeTopic(body, ks) /\ AreTexts(ks, 5)
  BY <1>1, <1>5, <1>6, TopicFrameLemma, KeptTexts
<1>8. frame.ok = body.ok /\ frame.bytes = Concat(SessionHeader(Term, Session), body.bytes)
  BY <1>1, <1>2, TopicFrameIsFrame, CombinedParts
<1>9. ASSUME frame.ok
      PROVE  s.read.success /\ AsGiven(s.read, t) /\ SkipsToEnd(Slice(frame.bytes, 32))
  <2>1. Entire(body.bytes, 16, 1, ks, 5)
    BY <1>7, <1>8, <1>9, Zenon DEF WholeTopic
  <2>2. Body(body.bytes, 16, 1, ks, 5) /\ body.bytes.size = EndOf(24, ks, 5)
    <3>1. 8 + 16 = 24
      OBVIOUS
    <3> QED BY <2>1, <3>1, Zenon DEF Entire
  <2>3. 16 \in Nat /\ 5 \in {2, 3, 5} /\ \A i \in 1 .. 5 : IsText(ks[i])
    BY <1>7 DEF AreTexts
  <2>4. TopicRead(parse_message(Concat(SessionHeader(Term, Session), body.bytes)), body.bytes.size, 16, ks)
    BY <2>2, <2>3, EnvelopedTopic, Zenon
  <2>5. TopicRead(s.read, body.bytes.size, 16, ks)
    BY <1>4, <1>8, <1>9, <2>4, Zenon
  <2>6. s.read.success /\ AsGiven(s.read, t)
    BY <1>5, <1>6, <2>2, <2>5, KeptRead, Zenon
  <2>7. Entire(Slice(Concat(SessionHeader(Term, Session), body.bytes), 32), 16, 1, ks, 5)
    BY <2>1, <2>3, EntireOpened, Zenon
  <2> QED BY <1>7, <1>8, <2>6, <2>7, TopicSkips, Zenon
<1>10. s.read.success => AsGiven(s.read, s.given)
  BY <1>4, <1>9, FailedFails, Zenon
<1>11. s.frame.ok => s.read.success /\ SkipsToEnd(Slice(s.frame.bytes, 32))
  BY <1>4, <1>9, Zenon
<1>12. Proper(s)
  BY <1>4, <1>10, <1>11, TopicCall
<1> QED BY <1>1, <1>2, <1>3, <1>12, Zenon

\* CommitOffsetLite, behind the session header.
LEMMA LiteProper ==
    ASSUME NEW offset, IsText(offset.id), IsText(offset.identifier), topic_to_id(offset.topic) # 0
    PROVE  Proper(Offered("lite", offset, Combined(Term, Session, build_commit_offset_message(offset))))
<1>1. PICK body : body = build_commit_offset_message(offset)
  OBVIOUS
<1>2. PICK frame : frame = Combined(Term, Session, body)
  OBVIOUS
<1>3. PICK s : s = Offered("lite", offset, frame)
  OBVIOUS
<1>4. s.call = "lite" /\ s.given = offset /\ s.frame = frame
  BY <1>3, OfferedIs
<1>5. PICK ks : ks = <<offset.id, offset.identifier>>
  OBVIOUS
<1>6. ks[1] = offset.id /\ ks[2] = offset.identifier
  BY <1>5
<1>7. \A i \in 1 .. 2 : IsText(ks[i])
  <2>1. \A i \in 1 .. 2 : i = 1 \/ i = 2
    OBVIOUS
  <2> QED BY <1>6, <2>1, Zenon
<1>8. LiteFrame(body, topic_to_id(offset.topic), offset.sequence, ks)
  BY <1>1, <1>5, LiteLemma, Zenon
<1>9. frame.ok = body.ok /\ frame.bytes = Concat(SessionHeader(Term, Session), body.bytes)
  BY <1>1, <1>2, OffsetIsFrame, CombinedParts
<1>10. ASSUME frame.ok
       PROVE  /\ ReadLite(frame.bytes) =
                   [ok |-> TRUE, sequence |-> offset.sequence, topic |-> topic_to_id(offset.topic),
                    id |-> offset.id, identifier |-> offset.identifier]
              /\ LiteSkipsToEnd(Slice(frame.bytes, 32))
  <2>1. /\ Entire(body.bytes, 12, 301, ks, 2)
        /\ Holds(body.bytes, 8, Number(topic_to_id(offset.topic), 4))
        /\ Holds(body.bytes, 12, Number(offset.sequence, 8))
    BY <1>8, <1>9, <1>10, Zenon DEF LiteFrame
  <2>2. ReadLite(Concat(SessionHeader(Term, Session), body.bytes)) =
          [ok |-> TRUE, sequence |-> offset.sequence, topic |-> topic_to_id(offset.topic),
           id |-> ks[1], identifier |-> ks[2]]
    <3>1. PICK ident, seq, b : ident = topic_to_id(offset.topic) /\ seq = offset.sequence
          /\ b = body.bytes
      OBVIOUS
    <3>2. Entire(b, 12, 301, ks, 2) /\ Holds(b, 8, Number(ident, 4)) /\ Holds(b, 12, Number(seq, 8))
      BY <2>1, <3>1, Zenon
    <3>3. ReadLite(Concat(SessionHeader(Term, Session), b)) =
            [ok |-> TRUE, sequence |-> seq, topic |-> ident, id |-> ks[1], identifier |-> ks[2]]
      BY <1>7, <3>2, ReadLiteLemma
    <3> QED BY <3>1, <3>3, Zenon
  <2>3. 12 \in Nat /\ 2 \in {2, 3, 5}
    OBVIOUS
  <2>4. Entire(Slice(Concat(SessionHeader(Term, Session), body.bytes), 32), 12, 301, ks, 2)
    BY <1>7, <2>1, <2>3, EntireOpened, Zenon
  <2>5. LiteSkipsToEnd(Slice(Concat(SessionHeader(Term, Session), body.bytes), 32))
    BY <1>7, <2>4, LiteSkips, Zenon
  <2> QED BY <1>6, <1>9, <2>2, <2>5, Zenon
<1>11. Genuine(s)
  <2>1. "lite" \notin {"message", "order", "subscription", "topic", "encode", "commit_request", "commit"}
    OBVIOUS
  <2> QED BY <1>4, <1>10, <2>1, Zenon DEF Genuine
<1>12. Readable(s)
  BY <1>4 DEF Readable
<1>13. Exact(s)
  <2>1. s.frame.ok => LiteSkipsToEnd(Slice(s.frame.bytes, 32))
    BY <1>4, <1>10, Zenon
  <2> QED BY <1>4, <2>1 DEF Exact
<1> QED BY <1>1, <1>2, <1>3, <1>11, <1>12, <1>13, Zenon DEF Proper

\* The session frames.
LEMMA SessionCall ==
    ASSUME NEW s, s.call \in {"keepalive", "close", "connect"}, ~s.read.success,
           s.call = "keepalive" => s.frame.bytes = encode_session_keep_alive(Term, Session)
    PROVE  Proper(s)
<1>1. Genuine(s)
  BY DEF Genuine
<1>2. Readable(s)
  BY DEF Readable
<1>3. Exact(s)
  BY DEF Exact
<1> QED BY <1>1, <1>2, <1>3 DEF Proper

\* Keepalive, close and connect requests have the properties.
LEMMA SessionProper ==
    ASSUME NEW call \in {"keepalive", "close", "connect"}, NEW given, NEW b,
           ~parse_message(b).success,
           call = "keepalive" => b = encode_session_keep_alive(Term, Session)
    PROVE  Proper(Offered(call, given, Frame(TRUE, b)))
<1>1. PICK frame : frame = Frame(TRUE, b)
  OBVIOUS
<1>2. PICK s : s = Offered(call, given, frame)
  OBVIOUS
<1>3. frame.ok = TRUE /\ frame.bytes = b
  BY <1>1, FrameParts
<1>4. /\ s.call = call /\ s.frame = frame
      /\ s.read = IF frame.ok THEN parse_message(frame.bytes) ELSE Failed
  BY <1>2, OfferedIs
<1>5. ~s.read.success
  BY <1>3, <1>4, Zenon
<1>6. s.call \in {"keepalive", "close", "connect"}
      /\ (s.call = "keepalive" => s.frame.bytes = encode_session_keep_alive(Term, Session))
  BY <1>3, <1>4, Zenon
<1>7. Proper(s)
  BY <1>5, <1>6, SessionCall
<1> QED BY <1>1, <1>2, <1>7, Zenon

\* Five texts.
LEMMA TextsAre ==
    ASSUME NEW t, IsText(t.topic), IsText(t.type), IsText(t.uuid), IsText(t.payload),
           IsText(t.headers)
    PROVE  AreTexts(Texts(t), 5)
<1>1. PICK ks : ks = Texts(t)
  OBVIOUS
<1>2. ks[1] = t.topic /\ ks[2] = t.type /\ ks[3] = t.uuid /\ ks[4] = t.payload /\ ks[5] = t.headers
  BY <1>1, TextsOf, Zenon
<1>3. \A i \in 1 .. 5 : i = 1 \/ i = 2 \/ i = 3 \/ i = 4 \/ i = 5
  OBVIOUS
<1> QED BY <1>1, <1>2, <1>3, Zenon DEF AreTexts

\* The texts a call gives to its frame.
Said(topic, type, uuid, payload, headers) ==
    [topic |-> topic, type |-> type, uuid |-> uuid, payload |-> payload, headers |-> headers]

\* The parts of what a call says.
LEMMA SaidIs ==
    ASSUME NEW topic, NEW type, NEW uuid, NEW payload, NEW headers
    PROVE  LET t == Said(topic, type, uuid, payload, headers)
           IN  /\ t.topic = topic /\ t.type = type /\ t.uuid = uuid /\ t.payload = payload
               /\ t.headers = headers
BY DEF Said

\* They are texts.
LEMMA SaidTexts ==
    ASSUME NEW topic, NEW type, NEW uuid, NEW payload, NEW headers,
           IsText(topic), IsText(type), IsText(uuid), IsText(payload), IsText(headers)
    PROVE  AreTexts(Texts(Said(topic, type, uuid, payload, headers)), 5)
<1>1. PICK t : t = Said(topic, type, uuid, payload, headers)
  OBVIOUS
<1>2. /\ t.topic = topic /\ t.type = type /\ t.uuid = uuid /\ t.payload = payload
      /\ t.headers = headers
  BY <1>1, SaidIs
<1> QED BY <1>1, <1>2, TextsAre, Zenon

\* A generated message id is a text of 29 bytes.
LEMMA IdIs == IsText(MessageId) /\ MessageId.len = 29
BY TextIs DEF MessageId

\* An offer leaves its call in sent.
LEMMA OfferIs ==
    ASSUME NEW call, NEW given, NEW frame, Offer(call, given, frame)
    PROVE  sent' = Offered(call, given, frame)
BY Zenon DEF Offer, Offered

\* A call of SessionManager::publish_message() has the properties.
LEMMA PublicationIs ==
    ASSUME NEW call \in {"message", "order", "subscription"},
           NEW topic, NEW type, NEW payload, NEW headers,
           IsText(topic), IsText(type), IsText(payload), IsText(headers),
           call # "message" => headers.len >= 6,
           Publication(call, topic, type, payload, headers)
    PROVE  Proper(sent')
<1>1. PICK t : t = Said(topic, type, MessageId, payload, headers)
  OBVIOUS
<1>2. AreTexts(Texts(t), 5)
  BY <1>1, SaidTexts, IdIs, Zenon
<1>3. t.headers = headers
  BY <1>1, SaidIs
<1>4. Offer(call, t, Combined(Term, Session, create_topic_message(t)))
  BY <1>1, Zenon DEF Publication, Said
<1>5. sent' = Offered(call, t, Combined(Term, Session, create_topic_message(t)))
  BY <1>4, OfferIs, Zenon
<1>6. call # "message" => t.headers.len >= 6
  BY <1>3, Zenon
<1>7. Proper(Offered(call, t, Combined(Term, Session, create_topic_message(t))))
  BY <1>2, <1>6, PublicationProper, Zenon
<1> QED BY <1>5, <1>7, Zenon

\* publish_message() and publish_message_to_topic().
LEMMA MessageCall ==
    ASSUME NEW topic, NEW payload, NEW headers, IsText(topic), IsText(payload), IsText(headers),
           publish_message(topic, payload, headers) \/ publish_message_to_topic(topic, payload, headers)
    PROVE  Proper(sent')
<1>1. publish_message(topic, payload, headers)
  BY Zenon DEF publish_message_to_topic
<1>2. PICK type : type = Text("CUSTOM", 6)
  OBVIOUS
<1>3. Publication("message", topic, type, payload, headers)
  BY <1>1, <1>2, Zenon DEF publish_message
<1>4. IsText(type)
  BY <1>2, TextIs
<1>5. "message" \in {"message", "order", "subscription"}
  OBVIOUS
<1> QED BY <1>3, <1>4, <1>5, PublicationIs, Zenon

\* publish_order() and publish_order_to_topic(): the headers they make are longer
\* than what is cut off.
LEMMA OrderCall ==
    ASSUME NEW order, NEW topic, IsText(topic), IsText(order.json), IsText(order.id),
           publish_order(order, topic) \/ publish_order_to_topic(order, topic)
    PROVE  Proper(sent')
<1>1. publish_order(order, topic)
  BY Zenon DEF publish_order_to_topic
<1>2. PICK type : type = IF order.status \in {"UPDATED", "CANCELLED"}
                         THEN Text("UPDATE_ORDER", 12) ELSE Text("CREATE_ORDER", 12)
  OBVIOUS
<1>3. PICK headers : headers = Text("order_headers", 58 + MessageId.len + order.id.len)
  OBVIOUS
<1>4. Publication("order", topic, type, order.json, headers)
  BY <1>1, <1>2, <1>3, Zenon DEF publish_order
<1>5. IsText(type)
  <2>1. IsText(Text("UPDATE_ORDER", 12)) /\ IsText(Text("CREATE_ORDER", 12))
    BY TextIs
  <2> QED BY <1>2, <2>1, Zenon
<1>6. PICK n : n = 58 + MessageId.len + order.id.len
  OBVIOUS
<1>7. order.id.len \in Nat
  BY Zenon DEF IsText
<1>8. n \in Nat /\ n >= 6
  BY <1>6, <1>7, IdIs
<1>9. IsText(headers) /\ headers.len >= 6
  BY <1>3, <1>6, <1>8, TextIs
<1>10. "order" \in {"message", "order", "subscription"}
  OBVIOUS
<1> QED BY <1>4, <1>5, <1>9, <1>10, PublicationIs, Zenon

\* The subscription requests: so are theirs.
LEMMA SubscriptionCall ==
    ASSUME NEW topic, IsText(topic), NEW kind \in {"SUBSCRIBE", "UNSUBSCRIBE"},
           send_subscription_request(topic, kind)
    PROVE  Proper(sent')
<1>1. PICK to, type, payload, headers :
         /\ to = Text("_subscriptions", 14)
         /\ type = Text(kind, IF kind = "SUBSCRIBE" THEN 9 ELSE 11)
         /\ payload = Text("subscription_json", 40 + topic.len)
         /\ headers = Text("subscription_headers", 41 + MessageId.len)
  OBVIOUS
<1>2. Publication("subscription", to, type, payload, headers)
  BY <1>1, Zenon DEF send_subscription_request
<1>3. IsText(to)
  BY <1>1, TextIs
<1>4. IsText(type)
  <2>1. PICK n : n = IF kind = "SUBSCRIBE" THEN 9 ELSE 11
    OBVIOUS
  <2>2. n \in Nat /\ kind # "number"
    BY <2>1
  <2> QED BY <1>1, <2>1, <2>2, TextIs, Zenon
<1>5. IsText(payload)
  <2>1. topic.len \in Nat
    BY Zenon DEF IsText
  <2>2. 40 + topic.len \in Nat
    BY <2>1
  <2> QED BY <1>1, <2>2, TextIs
<1>6. IsText(headers) /\ headers.len >= 6
  <2>1. 41 + MessageId.len = 70
    BY IdIs
  <2>2. headers = Text("subscription_headers", 70)
    BY <1>1, <2>1, Zenon
  <2> QED BY <2>2, TextIs
<1>7. "subscription" \in {"message", "order", "subscription"}
  OBVIOUS
<1> QED BY <1>2, <1>3, <1>4, <1>5, <1>6, <1>7, PublicationIs, Zenon

\* encode_topic_message().
LEMMA EncodeCall ==
    ASSUME NEW topic, NEW payload, NEW headers, IsText(topic), IsText(payload), IsText(headers),
           Encode(topic, payload, headers)
    PROVE  Proper(sent')
<1>1. PICK type : type = Text("CUSTOM", 6)
  OBVIOUS
<1>2. IsText(type)
  BY <1>1, TextIs
<1>3. PICK t : t = Said(topic, type, MessageId, payload, headers)
  OBVIOUS
<1>4. AreTexts(Texts(t), 5)
  BY <1>2, <1>3, SaidTexts, IdIs, Zenon
<1>5. Offer("encode", t, encode_topic_message(t, 0))
  BY <1>1, <1>3, Zenon DEF Encode, Said
<1>6. sent' = Offered("encode", t, encode_topic_message(t, 0))
  BY <1>5, OfferIs, Zenon
<1> QED BY <1>4, <1>6, EncodeProper, Zenon

-----------------------------------------------------------------------------
\* What a call says can be framed, if its type is short and its uuid no longer
\* than its payload.
LEMMA SaidFramable ==
    ASSUME NEW topic, NEW type, NEW uuid, NEW payload, NEW headers,
           IsText(topic), IsText(type), IsText(uuid), IsText(payload), IsText(headers),
           Bounded(type.len), Bounded(payload.len) => Bounded(uuid.len)
    PROVE  Framable(Said(topic, type, uuid, payload, headers))
<1>1. PICK t : t = Said(topic, type, uuid, payload, headers)
  OBVIOUS
<1>2. t.type = type /\ t.uuid = uuid /\ t.payload = payload
  BY <1>1, SaidIs
<1>3. AreTexts(Texts(t), 5)
  BY <1>1, SaidTexts, Zenon
<1> QED BY <1>1, <1>2, <1>3, Zenon DEF Framable

\* publish_topic().
LEMMA TopicCallProper ==
    ASSUME NEW topic, NEW payload, NEW headers, IsText(topic), IsText(payload), IsText(headers),
           PublishTopic(topic, payload, headers)
    PROVE  Proper(sent')
<1>1. PICK type, uuid, kept :
         type = Text("CUSTOM", 6) /\ uuid = Text("pub", 23) /\ kept = DefaultHeaders(headers)
  OBVIOUS
<1>2. IsText(type) /\ IsText(uuid) /\ type.len = 6 /\ uuid.len = 23
  BY <1>1, TextIs
<1>3. Bounded(type.len) /\ Bounded(uuid.len)
  BY <1>2 DEF Bounded
<1>4. IsText(kept)
  <2>1. IsText(Text("{}", 2))
    BY TextIs
  <2> QED BY <1>1, <2>1, Zenon DEF DefaultHeaders
<1>5. PICK t : t = Said(topic, type, uuid, payload, headers)
  OBVIOUS
<1>6. PICK u : u = Said(topic, type, uuid, payload, kept)
  OBVIOUS
<1>7. PublishTopicGiven(t) = u
  BY <1>1, <1>5, <1>6 DEF PublishTopicGiven, Said
<1>8. Framable(u)
  BY <1>2, <1>3, <1>4, <1>6, SaidFramable, Zenon
<1>9. PICK ks : ks = Texts(u)
  OBVIOUS
<1>10. PICK size : size = 8 + 8 + ks[1].len + ks[2].len + ks[3].len + ks[4].len + ks[5].len + 128
  OBVIOUS
<1>11. size \in Nat /\ size >= 32
  <2>1. \A i \in 1 .. 5 : ks[i].len \in Nat
    BY <1>8, <1>9, Zenon DEF Framable, AreTexts, IsText
  <2> QED BY <1>10, <2>1
<1>12. publish_topic(t) = TopicFrame(u, size)
  BY <1>7, <1>9, <1>10, Zenon DEF publish_topic
<1>13. Offer("topic", u, TopicFrame(u, size))
  <2>1. Offer("topic", PublishTopicGiven(t), publish_topic(t))
    BY <1>1, <1>5, Zenon DEF PublishTopic, Said
  <2> QED BY <1>7, <1>12, <2>1, Zenon
<1>14. sent' = Offered("topic", u, TopicFrame(u, size))
  BY <1>13, OfferIs, Zenon
<1>15. "topic" \in {"topic", "commit_request"}
  OBVIOUS
<1> QED BY <1>8, <1>11, <1>14, <1>15, BareProper, Zenon

\* The texts of the two commits.
LEMMA CommitFramable ==
    ASSUME NEW type, NEW uuid, NEW payload, IsText(type), IsText(uuid), IsText(payload),
           Bounded(type.len), uuid.len <= payload.len
    PROVE  Framable(CommitTexts(type, uuid, payload))
<1>1. PICK topic, headers : topic = Text("_subscriptions", 14) /\ headers = Text("{}", 2)
  OBVIOUS
<1>2. IsText(topic) /\ IsText(headers)
  BY <1>1, TextIs
<1>3. CommitTexts(type, uuid, payload) = Said(topic, type, uuid, payload, headers)
  BY <1>1, Zenon DEF CommitTexts, Said
<1>4. Bounded(payload.len) => Bounded(uuid.len)
  <2>1. uuid.len \in Nat /\ payload.len \in Nat
    BY Zenon DEF IsText
  <2> QED BY <2>1 DEF Bounded
<1> QED BY <1>2, <1>3, <1>4, SaidFramable, Zenon

\* send_commit_request().
LEMMA CommitRequestCall ==
    ASSUME NEW topic, NEW client, IsText(topic), IsText(client), send_commit_request(topic, client)
    PROVE  Proper(sent')
<1>1. topic.len \in Nat /\ client.len \in Nat
  BY Zenon DEF IsText
<1>2. PICK type, uuid, payload :
         /\ type = Text("COMMIT", 6) /\ uuid = Text("commit_uuid", 27 + client.len)
         /\ payload = Text("commit_json", 45 + topic.len + client.len)
  OBVIOUS
<1>3. IsText(type) /\ type.len = 6
  BY <1>2, TextIs
<1>4. Bounded(type.len)
  BY <1>3 DEF Bounded
<1>5. IsText(uuid) /\ uuid.len = 27 + client.len
  <2>1. 27 + client.len \in Nat
    BY <1>1
  <2> QED BY <1>2, <2>1, TextIs
<1>6. IsText(payload) /\ payload.len = 45 + topic.len + client.len
  <2>1. 45 + topic.len + client.len \in Nat
    BY <1>1
  <2> QED BY <1>2, <2>1, TextIs
<1>7. uuid.len <= payload.len
  BY <1>1, <1>5, <1>6
<1>8. PICK t : t = CommitTexts(type, uuid, payload)
  OBVIOUS
<1>9. Framable(t)
  BY <1>3, <1>4, <1>5, <1>6, <1>7, <1>8, CommitFramable, Zenon
<1>10. CommitGiven(topic, client) = t
  BY <1>2, <1>8, Zenon DEF CommitGiven
<1>11. PICK size : size = 8 + 16 + 512
  OBVIOUS
<1>12. size \in Nat /\ size >= 32
  BY <1>11
<1>13. Offer("commit_request", t, TopicFrame(t, size))
  BY <1>10, <1>11, Zenon DEF send_commit_request, build_commit_message
<1>14. sent' = Offered("commit_request", t, TopicFrame(t, size))
  BY <1>13, OfferIs, Zenon
<1>15. "commit_request" \in {"topic", "commit_request"}
  OBVIOUS
<1> QED BY <1>9, <1>12, <1>14, <1>15, BareProper, Zenon

\* send_commit_offset(), in both its forms.
LEMMA CommitOffsetCall ==
    ASSUME NEW offset, IsText(offset.topic), IsText(offset.id), IsText(offset.identifier),
           send_commit_offset(offset)
    PROVE  Proper(sent')
<1>1. CASE topic_to_id(offset.topic) # 0
  <2>1. Offer("lite", offset, Combined(Term, Session, build_commit_offset_message(offset)))
    BY <1>1, Zenon DEF send_commit_offset
  <2>2. sent' = Offered("lite", offset, Combined(Term, Session, build_commit_offset_message(offset)))
    BY <2>1, OfferIs, Zenon
  <2> QED BY <1>1, <2>2, LiteProper, Zenon
<1>2. CASE topic_to_id(offset.topic) = 0
  <2>1. offset.topic.len \in Nat /\ offset.id.len \in Nat /\ offset.identifier.len \in Nat
    BY Zenon DEF IsText
  <2>2. PICK a, b, c : a = offset.topic.len /\ b = offset.id.len /\ c = offset.identifier.len
    OBVIOUS
  <2>3. PICK n, k : n = 34 + c /\ k = 134 + a + b + c
    OBVIOUS
  <2>4. n \in Nat /\ k \in Nat /\ n <= k
    BY <2>1, <2>2, <2>3
  <2>5. PICK type, uuid, payload :
           /\ type = Text("COMMIT_OFFSET", 13) /\ uuid = Text("commit_offset_uuid", n)
           /\ payload = Text("commit_offset_json", k)
    OBVIOUS
  <2>6. IsText(type) /\ type.len = 13 /\ IsText(uuid) /\ uuid.len = n /\ IsText(payload)
        /\ payload.len = k
    BY <2>4, <2>5, TextIs
  <2>7. Bounded(type.len)
    BY <2>6 DEF Bounded
  <2>8. PICK t : t = CommitTexts(type, uuid, payload)
    OBVIOUS
  <2>9. Framable(t)
    BY <2>4, <2>6, <2>7, <2>8, CommitFramable, Zenon
  <2>10. CommitOffsetGiven(offset) = t
    BY <2>2, <2>3, <2>5, <2>8, Zenon DEF CommitOffsetGiven
  <2>11. PICK size : size = 8 + 16 + 1024
    OBVIOUS
  <2>12. size \in Nat /\ size >= 32
    BY <2>11
  <2>13. build_commit_offset_message(offset) = TopicFrame(t, size)
    BY <1>2, <2>10, <2>11 DEF build_commit_offset_message
  <2>14. Offer("commit", t, Combined(Term, Session, TopicFrame(t, size)))
    BY <1>2, <2>10, <2>13, Zenon DEF send_commit_offset
  <2>15. sent' = Offered("commit", t, Combined(Term, Session, TopicFrame(t, size)))
    BY <2>14, OfferIs, Zenon
  <2> QED BY <2>9, <2>12, <2>15, CommitProper, Zenon
<1> QED BY <1>1, <1>2

\* The session frames.
LEMMA SessionCalls ==
    ASSUME Keepalive \/ CloseRequest \/ \E c \in Ids : ConnectRequest(c)
    PROVE  Proper(sent')
<1>1. "keepalive" \in {"keepalive", "close", "connect"}
      /\ "close" \in {"keepalive", "close", "connect"}
      /\ "connect" \in {"keepalive", "close", "connect"} /\ "close" # "keepalive"
      /\ "connect" # "keepalive"
  OBVIOUS
<1>2. CASE Keepalive
  <2>1. PICK b : b = KeepaliveBuffer(Term, Session)
    OBVIOUS
  <2>2. ~parse_message(b).success /\ b = encode_session_keep_alive(Term, Session)
    BY <2>1, SessionFramesFail, Zenon
  <2>3. sent' = Offered("keepalive", <<>>, Frame(TRUE, b))
    BY <1>2, <2>1, OfferIs, Zenon DEF Keepalive
  <2> QED BY <1>1, <2>2, <2>3, SessionProper, Zenon
<1>3. CASE CloseRequest
  <2>1. PICK b : b = encode_session_close_request(Term, Session)
    OBVIOUS
  <2>2. ~parse_message(b).success
    BY <2>1, SessionFramesFail, Zenon
  <2>3. sent' = Offered("close", <<>>, Frame(TRUE, b))
    BY <1>3, <2>1, OfferIs, Zenon DEF CloseRequest
  <2> QED BY <1>1, <2>2, <2>3, SessionProper, Zenon
<1>4. CASE \E c \in Ids : ConnectRequest(c)
  <2>1. PICK c \in Ids : ConnectRequest(c)
    BY <1>4
  <2>2. c.len \in Nat
    BY TextsAssumption DEF IsText
  <2>3. PICK b : b = encode_session_connect_request(Now, 102, c, 1)
    OBVIOUS
  <2>4. ~parse_message(b).success
    BY <2>2, <2>3, ConnectFails, Zenon
  <2>5. sent' = Offered("connect", c, Frame(TRUE, b))
    BY <2>1, <2>3, OfferIs, Zenon DEF ConnectRequest
  <2> QED BY <1>1, <2>4, <2>5, SessionProper, Zenon
<1> QED BY <1>2, <1>3, <1>4

\* Every call of the client leaves a frame with the three properties.
LEMMA CallProper == Call => Proper(sent')
<1> SUFFICES ASSUME Call PROVE Proper(sent')
  OBVIOUS
<1>1. \A t : t \in Topics \/ t \in Ids \/ t \in Payloads \/ t \in Headers => IsText(t)
  BY TextsAssumption
<1>2. /\ \A o \in Orders : IsText(o.json) /\ IsText(o.id)
      /\ \A o \in Offsets : IsText(o.topic) /\ IsText(o.id) /\ IsText(o.identifier)
  BY TextsAssumption, Zenon
<1>3. CASE \E t \in Topics, p \in Payloads, h \in Headers :
              \/ publish_message(t, p, h) \/ publish_message_to_topic(t, p, h)
              \/ PublishTopic(t, p, h) \/ Encode(t, p, h)
  BY <1>1, <1>3, MessageCall, TopicCallProper, EncodeCall, Zenon
<1>4. CASE \E o \in Orders, t \in Topics : publish_order(o, t) \/ publish_order_to_topic(o, t)
  BY <1>1, <1>2, <1>4, OrderCall, Zenon
<1>5. CASE \E t \in Topics, type \in {"SUBSCRIBE", "UNSUBSCRIBE"} : send_subscription_request(t, type)
  BY <1>1, <1>5, SubscriptionCall, Zenon
<1>6. CASE \E t \in Topics, c \in Ids : send_commit_request(t, c)
  BY <1>1, <1>6, CommitRequestCall, Zenon
<1>7. CASE \E o \in Offsets : send_commit_offset(o)
  BY <1>2, <1>7, CommitOffsetCall, Zenon
<1>8. CASE Keepalive \/ CloseRequest \/ \E c \in Ids : ConnectRequest(c)
  BY <1>8, SessionCalls, Zenon
<1> QED BY <1>3, <1>4, <1>5, <1>6, <1>7, <1>8, Zenon DEF Call

\* A call touches neither the egress stream nor its results.
LEMMA CallLeaves == Call => UNCHANGED <<vars, results>>
<1>1. ASSUME NEW call, NEW given, NEW frame, Offer(call, given, frame)
      PROVE  UNCHANGED <<vars, results>>
  BY <1>1, Zenon DEF Offer
<1>2. ASSUME NEW call, NEW topic, NEW type, NEW payload, NEW headers,
             Publication(call, topic, type, payload, headers)
      PROVE  UNCHANGED <<vars, results>>
  BY <1>1, <1>2, Zenon DEF Publication
<1>3. ASSUME NEW t, NEW p, NEW h,
             \/ publish_message(t, p, h) \/ publish_message_to_topic(t, p, h)
             \/ PublishTopic(t, p, h) \/ Encode(t, p, h)
      PROVE  UNCHANGED <<vars, results>>
  BY <1>1, <1>2, <1>3, Zenon
    DEF publish_message, publish_message_to_topic, PublishTopic, Encode
<1>4. ASSUME NEW o, NEW t,
             \/ publish_order(o, t) \/ publish_order_to_topic(o, t)
             \/ send_subscription_request(t, o) \/ send_commit_request(t, o)
             \/ send_commit_offset(o)
      PROVE  UNCHANGED <<vars, results>>
  BY <1>1, <1>2, <1>4, Zenon
    DEF publish_order, publish_order_to_topic, send_subscription_request, send_commit_request,
        send_commit_offset
<1>5. ASSUME NEW c, Keepalive \/ CloseRequest \/ ConnectRequest(c)
      PROVE  UNCHANGED <<vars, results>>
  BY <1>1, <1>5, Zenon DEF Keepalive, CloseRequest, ConnectRequest
<1> QED BY <1>3, <1>4, <1>5, Zenon DEF Call

\* For the reassembler, a step of Wire is a step of its own or none.
LEMMA WireRefines == [WireNext]_wireVars => [Next]_vars
<1>1. Receive => Next
  BY Zenon DEF Receive, Next
<1>2. Stream => Next
  BY Zenon DEF Stream, Next
<1>3. Call => UNCHANGED vars
  BY CallLeaves, Zenon
<1>4. UNCHANGED wireVars => UNCHANGED vars
  BY Zenon DEF wireVars
<1> QED BY <1>1, <1>2, <1>3, <1>4, Zenon DEF WireNext

-----------------------------------------------------------------------------
\* Ingress: the inductive invariant is Proper(sent).
LEMMA NoneProper == Proper([call |-> "none"])
BY DEF Proper, Genuine, Readable, Exact

\* The properties of a call hold of sent from the start.
LEMMA ProperInductive ==
    /\ WireInit => Proper(sent)
    /\ Proper(sent) /\ [WireNext]_wireVars => Proper(sent)'
<1>1. WireInit => Proper(sent)
  BY NoneProper, Zenon DEF WireInit
<1>2. ASSUME Proper(sent), [WireNext]_wireVars
      PROVE  Proper(sent')
  <2>1. CASE UNCHANGED sent
    BY <1>2, <2>1, Zenon
  <2>2. CASE Call
    BY <2>2, CallProper, Zenon
  <2> QED BY <1>2, <2>1, <2>2, Zenon DEF WireNext, Receive, Stream, wireVars
<1>3. Proper(sent)' <=> Proper(sent')
  OBVIOUS
<1> QED BY <1>1, <1>2, <1>3

\* The first of them is IngressGenuine.
LEMMA ProperGenuine == Proper(sent) => IngressGenuine
BY DEF Proper, Genuine, AsGiven, Bounded, IngressGenuine

\* The second is RequestsReadable.
LEMMA ProperReadable == Proper(sent) => RequestsReadable
BY DEF Proper, Readable, RequestsReadable

\* The third is FramesExact.
LEMMA ProperExact == Proper(sent) => FramesExact
<1> SUFFICES ASSUME Exact(sent) PROVE FramesExact
  BY Zenon DEF Proper
<1>1. PICK body : body = IF sent.call = "topic" THEN sent.frame.bytes ELSE Slice(sent.frame.bytes, 32)
  OBVIOUS
<1>2. sent.call \in {"topic", "commit"} /\ sent.frame.ok => SkipsToEnd(body)
  BY <1>1 DEF Exact
<1>3. sent.call = "lite" /\ sent.frame.ok => LiteSkipsToEnd(body)
  BY <1>1 DEF Exact
<1>4. /\ sent.call = "keepalive" => sent.frame.bytes = encode_session_keep_alive(Term, Session)
      /\ sent.call \in {"keepalive", "close", "connect"} => ~sent.read.success
  BY DEF Exact
<1> QED BY <1>1, <1>2, <1>3, <1>4, Zenon DEF FramesExact, SkipsToEnd, LiteSkipsToEnd, End

\* Whatever texts the calls are made with, of whatever length, a frame of the
\* client that can be read says what the caller said: no var-data length is
\* mistaken for another, and nothing spills into a neighbouring field.
THEOREM IngressIsGenuine == WireSpec => []IngressGenuine
BY ProperInductive, ProperGenuine, PTL DEF WireSpec

\* Orders, subscriptions and commits are always readable for the cluster, although
\* create_topic_message() cuts off their last eight bytes: the headers these calls
\* make themselves are long enough, for every order and every topic.
THEOREM RequestsAreReadable == WireSpec => []RequestsReadable
BY ProperInductive, ProperReadable, PTL DEF WireSpec

\* The complete frames of publish_topic() and of the commits end exactly where
\* skipping their fields ends, the keepalive updated in place is SBEEncoder's, and
\* no session frame can be taken for a message of the cluster.
THEOREM FramesAreExact == WireSpec => []FramesExact
BY ProperInductive, ProperExact, PTL DEF WireSpec

-----------------------------------------------------------------------------
\* Egress: every result is one that its delivery can be parsed to.
Outcomes == {parse_message(EgressFrame(m)) : m \in Messages} \cup {Failed, Garbage}
ResultsInv ==
    /\ results \in Seq(Outcomes)
    /\ Len(results) = Len(delivered)
    /\ \A i \in 1 .. Len(delivered) : results[i] \in Parsed(delivered[i])
WireIInv == TypeOK /\ ResultsInv

\* Fragments tell of which message they are.
LEMMA WholeInjective ==
    ASSUME NEW m \in Messages, NEW n \in Messages, Whole(m) = Whole(n)
    PROVE  m = n
<1>1. Fragments[m] \in Nat \ {0} /\ Fragments[n] \in Nat \ {0}
  BY FragmentsAssumption
<1>2. Whole(m)[1] = <<m, 1>> /\ Whole(n)[1] = <<n, 1>>
  BY <1>1 DEF Whole, Pieces
<1> QED BY <1>2

\* A whole message has one result.
LEMMA ParsedWhole ==
    ASSUME NEW m \in Messages
    PROVE  Parsed(Whole(m)) = {parse_message(EgressFrame(m))}
<1>1. PICK p : p = Whole(m)
  OBVIOUS
<1>2. PICK n : n = CHOOSE k \in Messages : p = Whole(k)
  OBVIOUS
<1>3. n \in Messages /\ p = Whole(n)
  BY <1>1, <1>2, Zenon
<1>4. n = m
  BY <1>1, <1>3, WholeInjective, Zenon
<1>5. Parsed(p) = {parse_message(EgressFrame(n))}
  BY <1>1, <1>2, Zenon DEF Parsed
<1> QED BY <1>1, <1>4, <1>5, Zenon

\* Results are outcomes.
LEMMA ParsedOutcomes == ASSUME NEW p PROVE Parsed(p) \subseteq Outcomes
<1>1. CASE \E m \in Messages : p = Whole(m)
  <2>1. PICK m \in Messages : p = Whole(m)
    BY <1>1
  <2>2. Parsed(p) = {parse_message(EgressFrame(m))}
    BY <2>1, ParsedWhole, Zenon
  <2> QED BY <2>2, Zenon DEF Outcomes
<1>2. CASE ~\E m \in Messages : p = Whole(m)
  <2>1. Parsed(p) = {Failed, Garbage}
    BY <1>2, Zenon DEF Parsed
  <2> QED BY <2>1, Zenon DEF Outcomes
<1> QED BY <1>1, <1>2

\* What the sink is called with, if it is.
LEMMA ReceiveDelivers ==
    ASSUME TypeOK, onFragment
    PROVE  delivered' = delivered \/ \E p \in Assembly : delivered' = Append(delivered, p)
<1>1. /\ Current \in Messages
      /\ Fragments[Current] \in Nat \ {0}
      /\ fragment \in 1 .. Fragments[Current]
      /\ message \in 1 .. Len(published)
  BY AtFragment DEF onFragment
<1>2. acc_ \in Assembly
  BY KeptAssembly DEF TypeOK
<1>3. <<Current, fragment>> \in Piece
  BY <1>1 DEF Piece
<1>4. Appended \in Assembly /\ <<<<Current, fragment>>>> \in Assembly
  BY <1>2, <1>3, EmptySeq, OneSeq, AppendSeq DEF Appended, Assembly
<1> QED BY <1>4, Zenon DEF onFragment, OnWhole, OnPart, OnLast, Sink

\* The results are parallel to the deliveries from the start.
LEMMA WireIInvInductive ==
    /\ WireInit => WireIInv
    /\ WireIInv /\ [WireNext]_wireVars => WireIInv'
<1>1. WireInit => WireIInv
  <2> SUFFICES ASSUME WireInit PROVE WireIInv
    OBVIOUS
  <2>1. TypeOK
    BY InitIInv DEF WireInit, IInv
  <2>2. delivered = <<>> /\ results = <<>>
    BY DEF WireInit, Init
  <2> QED BY <2>1, <2>2, EmptySeq DEF WireIInv, ResultsInv
<1>2. ASSUME WireIInv, [WireNext]_wireVars
      PROVE  WireIInv'
  <2>1. TypeOK /\ ResultsInv
    BY <1>2 DEF WireIInv
  <2>2. TypeOK'
    BY <1>2, <2>1, WireRefines, NextTypes
  <2>3. CASE UNCHANGED <<delivered, results>>
    BY <2>1, <2>2, <2>3 DEF WireIInv, ResultsInv, Parsed
  <2>4. CASE Receive /\ delivered' # delivered
    <3>1. PICK p \in Assembly : delivered' = Append(delivered, p)
      BY <2>1, <2>4, ReceiveDelivers DEF Receive
    <3>2. delivered \in Seq(Assembly)
      BY <2>1 DEF TypeOK, Assembly, Piece
    <3>3. /\ delivered' \in Seq(Assembly) /\ Len(delivered') = Len(delivered) + 1
          /\ Len(delivered) \in Nat
          /\ \A j \in 1 .. Len(delivered) : delivered'[j] = delivered[j]
          /\ delivered'[Len(delivered) + 1] = p
      BY <3>1, <3>2, AppendSeq
    <3>4. Last(delivered') = p
      BY <3>3 DEF Last
    <3>5. PICK r \in Parsed(p) : results' = Append(results, r)
      BY <2>4, <3>4, Zenon DEF Receive
    <3>6. r \in Outcomes /\ results \in Seq(Outcomes)
      BY <2>1, <3>5, ParsedOutcomes, Zenon DEF ResultsInv
    <3>7. /\ results' \in Seq(Outcomes) /\ Len(results') = Len(results) + 1
          /\ \A j \in 1 .. Len(results) : results'[j] = results[j]
          /\ results'[Len(results) + 1] = r
      BY <3>5, <3>6, AppendSeq
    <3>8. Len(results) = Len(delivered)
          /\ \A i \in 1 .. Len(delivered) : results[i] \in Parsed(delivered[i])
      BY <2>1, Zenon DEF ResultsInv
    <3>9. ASSUME NEW i \in 1 .. Len(delivered')
          PROVE  results'[i] \in Parsed(delivered'[i])
      <4>1. CASE i = Len(delivered) + 1
        BY <3>3, <3>5, <3>7, <3>8, <4>1, Zenon
      <4>2. CASE i \in 1 .. Len(delivered)
        BY <3>3, <3>7, <3>8, <4>2, Zenon
      <4> QED BY <3>3, <3>9, <4>1, <4>2
    <3>10. ResultsInv'
      BY <3>3, <3>7, <3>8, <3>9 DEF ResultsInv, Parsed
    <3> QED BY <2>2, <3>10 DEF WireIInv
  <2>5. CASE Receive /\ delivered' = delivered
    BY <2>3, <2>5, Zenon DEF Receive
  <2>6. CASE Stream
    <3>1. UNCHANGED <<delivered, results>>
      BY <2>6, Zenon DEF Stream, Publish, LoseImage, create_egress_subscription
    <3> QED BY <2>3, <3>1
  <2>7. CASE Call
    <3>1. UNCHANGED <<delivered, results>>
      BY <2>7, CallLeaves, Zenon DEF vars
    <3> QED BY <2>3, <3>1
  <2>8. CASE UNCHANGED wireVars
    <3>1. UNCHANGED <<delivered, results>>
      BY <2>8, Zenon DEF wireVars, vars
    <3> QED BY <2>3, <3>1
  <2> QED BY <1>2, <2>4, <2>5, <2>6, <2>7, <2>8, Zenon DEF WireNext
<1> QED BY <1>1, <1>2

\* A result of a whole message is what the cluster wrote.
LEMMA ResultsAsSent == WireIInv => ParsedAsSent
<1> SUFFICES ASSUME WireIInv, NEW i \in DOMAIN results, NEW m \in Messages, delivered[i] = Whole(m)
             PROVE  ReadAsSent(results[i], m)
  BY Zenon DEF ParsedAsSent
<1>1. i \in 1 .. Len(delivered)
  BY DEF WireIInv, ResultsInv
<1>2. results[i] \in Parsed(Whole(m))
  BY <1>1, Zenon DEF WireIInv, ResultsInv
<1>3. results[i] = parse_message(EgressFrame(m))
  BY <1>2, ParsedWhole
<1> QED BY <1>3, EgressRead, Zenon

\* Whatever the cluster sends, in however many fragments, with an envelope or
\* without, in the old format or the new, and whichever images are lost: a message
\* that is delivered whole is parsed to what the cluster wrote.
THEOREM EgressIsParsedAsSent == WireSpec => []ParsedAsSent
BY WireIInvInductive, ResultsAsSent, PTL DEF WireSpec
=============================================================================
