--------------------------- MODULE MCLogReconciler ---------------------------
(***************************************************************************)
(* Every log of up to five lines over two bundle counts and two messages: *)
(* enough for a run superseded before its transfer, a mismatched transfer, *)
(* a transfer with nothing pending, and repeated messages.                 *)
(***************************************************************************)
EXTENDS LogReconciler

CONSTANTS m1, m2

MCCounts == {1, 2}
MCMessages == {m1, m2}
=============================================================================
