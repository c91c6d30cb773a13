--------------------------- MODULE Acknowledgment ---------------------------
(* include/model/Acknowledgment.h: the cluster's answer to a message. *)
EXTENDS MessageHeader

SBE_BLOCK_LENGTH == 8

timestamp == FixedField(0, 8)
messageId     == VarDataField(2, 65534)
topic         == VarDataField(2, 65534)
correlationId == VarDataField(2, 65534)

VarFields == <<messageId, topic, correlationId>>

computeLength(lengths) == ComputeLength(SBE_BLOCK_LENGTH, VarFields, lengths)
=============================================================================
