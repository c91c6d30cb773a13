-------------------------- MODULE MCSessionConnect --------------------------
(* SessionConnect for TLC: the list of endpoints the run uses, with an     *)
(* index that no entry resolves and a member id beyond the last index.     *)
EXTENDS SessionConnect

Sparse == <<Plain, 2, 3>>   \* ["hostA:9002", "2=hostC:9002", "3=hostD:9002"]
=============================================================================
