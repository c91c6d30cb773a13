-------------------------- MODULE CommitOffsetLite --------------------------
(* include/model/CommitOffsetLite.h: the short form of a commit. *)
EXTENDS MessageHeader

SBE_BLOCK_LENGTH == 12
SBE_TEMPLATE_ID == 301
SBE_SCHEMA_ID == 1
SBE_SCHEMA_VERSION == 1

topicId  == FixedField(0, 4)
sequence == FixedField(4, 8)
messageId         == VarDataField(2, 65534)
messageIdentifier == VarDataField(2, 65534)

VarFields == <<messageId, messageIdentifier>>

wrapAndApplyHeader(buffer, offset, bufferLength) ==
    WrapAndApply(buffer, offset, bufferLength, SBE_BLOCK_LENGTH,
                 SBE_TEMPLATE_ID, SBE_SCHEMA_ID, SBE_SCHEMA_VERSION)

wrapForDecode(buffer, offset, actingBlockLength, bufferLength) ==
    Wrap(buffer, offset, actingBlockLength, bufferLength)

computeLength(lengths) == ComputeLength(SBE_BLOCK_LENGTH, VarFields, lengths)

\* skip(), for decodeLength().
skip(f) == SkipAll(f, VarFields)
=============================================================================
