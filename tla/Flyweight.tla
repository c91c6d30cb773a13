----------------------------- MODULE Flyweight -----------------------------
(***************************************************************************)
(* What the generated SBE classes of include/model/ have in common: a      *)
(* flyweight over a byte buffer, with a position that moves past each      *)
(* variable-length field as it is written or read, and a bounds check on   *)
(* every move (sbeCheckPosition).  The classes repeat this code once per   *)
(* class and once per field; the lines the map gives are the first copy.   *)
(*                                                                         *)
(* A buffer is a size and the cells written into it, by offset; a byte     *)
(* nobody wrote is 0.  A cell is a little-endian number of some width or a *)
(* text, which is a name and a length in bytes: the text itself does not   *)
(* matter, its length does, and is the real one.                           *)
(***************************************************************************)
EXTENDS Integers, Sequences

\* The bytes of a number of the given width.
Number(v, width) == [of |-> "number", len |-> width, val |-> v]

\* The first n bytes of a text; every text of length 0 is the same one.
Text(name, n) == [of |-> IF n = 0 THEN "" ELSE name, len |-> n, val |-> 0]
Empty == Text("", 0)
Prefix(s, n) == Text(s.of, n)
IsText(s) == s = Text(s.of, s.len) /\ s.len \in Nat /\ s.of # "number"

\* std::vector<uint8_t>: made zero-filled, cut by resize(), joined by insert().
NewBuffer(n) == [size |-> n, at |-> <<>>]
Store(b, offset, cell) ==
    [size |-> b.size,
     at   |-> [o \in DOMAIN b.at \cup {offset} |-> IF o = offset THEN cell ELSE b.at[o]]]

\* What is read at an offset.  A read that is wider than the number written
\* there takes in what follows it: another number, or the first characters of
\* a text, which make it larger than any length can be.
Load(b, offset, width) ==
    LET cell == IF offset \in DOMAIN b.at THEN b.at[offset] ELSE Number(0, width)
        behind == offset + cell.len
        high == IF behind \notin DOMAIN b.at THEN 0
                ELSE IF b.at[behind].of = "number" THEN b.at[behind].val
                ELSE 256 * 32 + 32
    IN  IF cell.of = "number" /\ cell.len < width
        THEN Number(cell.val + 256^cell.len * high, width)
        ELSE cell
Resize(b, n) ==
    [size |-> n, at |-> [o \in {p \in DOMAIN b.at : p < n} |-> b.at[o]]]
Shift(at, n) == [o \in {p + n : p \in DOMAIN at} |-> at[o - n]]
Concat(a, b) ==
    LET moved == Shift(b.at, a.size)
    IN  [size |-> a.size + b.size,
         at   |-> [o \in DOMAIN a.at \cup DOMAIN moved |->
                      IF o \in DOMAIN a.at THEN a.at[o] ELSE moved[o]]]
Slice(b, from) ==
    [size |-> b.size - from,
     at   |-> Shift([o \in {p \in DOMAIN b.at : p >= from} |-> b.at[o]], -from)]

-----------------------------------------------------------------------------
\* The state of a flyweight: m_buffer, m_bufferLength, m_offset, m_position;
\* ok is FALSE once a call has thrown, and stays FALSE: the callers keep no
\* flyweight that threw.  got is what the last read returned.
Flyweight(buffer, offset, position, bufferLength) ==
    [buffer |-> buffer, limit |-> bufferLength, offset |-> offset,
     position |-> position, ok |-> position <= bufferLength, got |-> Empty]

\* wrapForEncode and wrapForDecode: the position starts behind the block.
Wrap(buffer, offset, actingBlockLength, bufferLength) ==
    Flyweight(buffer, offset, offset + actingBlockLength, bufferLength)

\* sbePosition(position), the checked move.
sbePosition(f, position) ==
    IF f.ok /\ position <= f.limit
    THEN [f EXCEPT !.position = position]
    ELSE [f EXCEPT !.ok = FALSE]

\* encodedLength(): counted from the block, so without the message header.
encodedLength(f) == f.position - f.offset

\* What a generated accessor block says of its field.  A fixed field has an
\* offset in the block and a width; a var-data field has the width of its
\* length prefix and the longest text it takes.
FixedField(offset, width) == [offset |-> offset, width |-> width]
VarDataField(headerLength, maxLength) ==
    [headerLength |-> headerLength, maxLength |-> maxLength]

\* The setter and the getter of a fixed field; neither is checked, the block
\* was when it was wrapped.
SetField(f, field, v) ==
    IF f.ok
    THEN [f EXCEPT !.buffer =
             Store(@, f.offset + field.offset, Number(v, field.width))]
    ELSE f
GetField(f, field) == Load(f.buffer, f.offset + field.offset, field.width).val

\* The number of values of a uint16_t.
UINT16_RANGE == 65536

\* put<Field>(src, length): the caller's length is converted to uint16_t, so
\* only the prefix of a longer text is written.
PutRaw(f, field, s) ==
    LET n == s.len % UINT16_RANGE
        p == f.position
        g == sbePosition(f, p + field.headerLength)
        h == sbePosition(g, p + field.headerLength + n)
        withLength == Store(f.buffer, p, Number(n, field.headerLength))
    IN  IF ~g.ok THEN g
        ELSE IF n = 0 THEN [g EXCEPT !.buffer = withLength]
        ELSE IF ~h.ok THEN h
        ELSE [h EXCEPT !.buffer =
                 Store(withLength, p + field.headerLength, Prefix(s, n))]

\* put<Field>(std::string): refuses a text that its length prefix cannot tell.
PutString(f, field, s) ==
    IF s.len > field.maxLength THEN [f EXCEPT !.ok = FALSE]
    ELSE PutRaw(f, field, s)

\* A read has returned s.
Returned(f, s) == [f EXCEPT !.got = s]

\* get<Field>AsString(): the length, then the text, each after a checked move.
GetString(f, field) ==
    LET p == f.position
        g == sbePosition(f, p + field.headerLength)
        n == Load(f.buffer, p, field.headerLength).val
        h == sbePosition(g, p + field.headerLength + n)
    IN  IF ~h.ok THEN h
        ELSE Returned(h, IF n = 0 THEN Empty
                         ELSE Load(f.buffer, p + field.headerLength, n))

\* skip<Field>(): one move past the length and the text.
Skip(f, field) ==
    sbePosition(f, f.position + field.headerLength
                       + Load(f.buffer, f.position, field.headerLength).val)

\* skip(): past every var-data field, which is how decodeLength() counts.
SkipAll(f, fields) ==
    LET past[i \in 0 .. Len(fields)] ==
          IF i = 0 THEN f ELSE Skip(past[i - 1], fields[i])
    IN  past[Len(fields)]

\* The get calls of one message, in the order of its fields: the flyweight
\* after each of them.
GetStrings(f, fields) ==
    LET after[i \in 0 .. Len(fields)] ==
          IF i = 0 THEN f ELSE GetString(after[i - 1], fields[i])
    IN  after

\* The put calls of one message, in the order of its fields: with strings, and
\* with a pointer and a length each.
PutStrings(f, fields, strings) ==
    LET after[i \in 0 .. Len(fields)] ==
          IF i = 0 THEN f ELSE PutString(after[i - 1], fields[i], strings[i])
    IN  after[Len(fields)]

PutRaws(f, fields, strings) ==
    LET after[i \in 0 .. Len(fields)] ==
          IF i = 0 THEN f ELSE PutRaw(after[i - 1], fields[i], strings[i])
    IN  after[Len(fields)]

\* computeLength(...): block and var-data fields; the result has ok FALSE
\* where the code throws.
ComputeLength(blockLength, fields, lengths) ==
    [ok |-> \A i \in DOMAIN fields : lengths[i] <= fields[i].maxLength,
     length |-> LET total[i \in 0 .. Len(fields)] ==
                      IF i = 0 THEN blockLength
                      ELSE total[i - 1] + fields[i].headerLength + lengths[i]
                IN  total[Len(fields)]]
=============================================================================
