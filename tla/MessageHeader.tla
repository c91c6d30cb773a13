--------------------------- MODULE MessageHeader ---------------------------
(***************************************************************************)
(* include/model/MessageHeader.h: the 8 bytes in front of every SBE        *)
(* message.  It has no variable-length part; its position is its offset.   *)
(***************************************************************************)
EXTENDS Flyweight

HeaderLength == 8

blockLength == FixedField(0, 2)
templateId  == FixedField(2, 2)
schemaId    == FixedField(4, 2)
version     == FixedField(6, 2)

\* wrap(): the 8 bytes must lie within the buffer.
wrap(buffer, offset, bufferLength) ==
    Wrap(buffer, offset, HeaderLength, bufferLength)

\* The four setters in a row, as every caller that writes a header uses them.
Apply(f, block, template, schema, ver) ==
    LET g == SetField(SetField(f, blockLength, block), templateId, template)
    IN  SetField(SetField(g, schemaId, schema), version, ver)

\* The four getters.
Read(f) == [block_length |-> GetField(f, blockLength),
            template_id  |-> GetField(f, templateId),
            schema_id    |-> GetField(f, schemaId),
            version      |-> GetField(f, version)]

\* wrapAndApplyHeader() of the message classes: write the header, then stand
\* behind it as wrapForEncode() does.
WrapAndApply(buffer, offset, bufferLength, block, template, schema, ver) ==
    LET h == Apply(wrap(buffer, offset, bufferLength), block, template, schema, ver)
        f == Wrap(h.buffer, offset + HeaderLength, block, bufferLength)
    IN  [f EXCEPT !.ok = @ /\ h.ok]
=============================================================================
