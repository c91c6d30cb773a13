---------------------------- MODULE TopicMessage ----------------------------
(* include/model/TopicMessage.h: a message published on a topic. *)
EXTENDS MessageHeader

SBE_BLOCK_LENGTH == 16
SBE_TEMPLATE_ID == 1
SBE_SCHEMA_ID == 1
SBE_SCHEMA_VERSION == 1
sbeBlockAndHeaderLength == HeaderLength + SBE_BLOCK_LENGTH

timestamp      == FixedField(0, 8)
sequenceNumber == FixedField(8, 8)
topic       == VarDataField(2, 65534)
messageType == VarDataField(2, 65534)
uuid        == VarDataField(2, 65534)
payload     == VarDataField(2, 65534)
headers     == VarDataField(2, 65534)

\* The var-data fields, in the only order they can be written or read in.
VarFields == <<topic, messageType, uuid, payload, headers>>

wrapForEncode(buffer, offset, bufferLength) ==
    Wrap(buffer, offset, SBE_BLOCK_LENGTH, bufferLength)

wrapAndApplyHeader(buffer, offset, bufferLength) ==
    WrapAndApply(buffer, offset, bufferLength, SBE_BLOCK_LENGTH,
                 SBE_TEMPLATE_ID, SBE_SCHEMA_ID, SBE_SCHEMA_VERSION)

wrapForDecode(buffer, offset, actingBlockLength, bufferLength) ==
    Wrap(buffer, offset, actingBlockLength, bufferLength)

computeLength(lengths) == ComputeLength(SBE_BLOCK_LENGTH, VarFields, lengths)

\* skip(), for decodeLength().
skip(f) == SkipAll(f, VarFields)
=============================================================================
