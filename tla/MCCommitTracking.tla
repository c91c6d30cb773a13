-------------------------- MODULE MCCommitTracking --------------------------
(* CommitTracking for TLC: which message belongs to which identifier, and  *)
(* which messages name no topic.                                           *)
EXTENDS CommitTracking

(* Every message belongs to identifier i1. *)
OneStream == [t \in Topics |-> [n \in 1..MaxSeq |-> "i1"]]

None == {}
FirstOfT1 == {<<"t1", 1>>}
=============================================================================
