----------------------------- MODULE MCMemoryScan -----------------------------
(* Instances of MemoryScan: one used-memory value is enough, since the     *)
(* points are told apart by their graph and run.                           *)
EXTENDS MemoryScan
====
