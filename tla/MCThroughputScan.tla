--------------------------- MODULE MCThroughputScan ---------------------------
(* Instances of ThroughputScan: two sizes, so that a size change happens,  *)
(* and sizes whose bit count is or is not a multiple of a megabit.         *)
EXTENDS ThroughputScan

\* 1 bundle of 125000 or 250000 bytes: 1 or 2 Mbit, exact in integers
MCExactSizes == {125000, 250000}
====
