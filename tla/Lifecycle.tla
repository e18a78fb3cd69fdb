----------------------------- MODULE Lifecycle -----------------------------
(***************************************************************************)
(* What the ATTS test runner promises (spec.md 4.1), with no hosts, no     *)
(* commands and no exceptions in it: the cases of a run are taken in list  *)
(* order; each is active (prepare and run), then cleaned up, then given a  *)
(* verdict that is FAILED exactly when its failure flag is set; an error   *)
(* while active may set the flag on the way to cleanup; a cleanup that     *)
(* fails ends the whole run; the report is produced once every case has a  *)
(* verdict.  A finished run may be followed by a fresh one.                *)
(***************************************************************************)
EXTENDS Naturals

CONSTANT NTests

ASSUME NTests \in Nat

VARIABLES
  cur,       \* the case in progress; NTests + 1 once every case is done
  cleaning,  \* the case in progress is being cleaned up
  flagged,   \* flagged[t]: case t has been marked failed
  verdict,   \* verdict[t]: "none", "FAILED" or "SUCCESSFUL"
  outcome    \* "running", "reported" or "aborted"

avars == <<cur, cleaning, flagged, verdict, outcome>>

Cases == 1 .. NTests

Init ==
  /\ cur = 1
  /\ cleaning = FALSE
  /\ flagged = [t \in Cases |-> FALSE]
  /\ verdict = [t \in Cases |-> "none"]
  /\ outcome = "running"

Active == outcome = "running" /\ cur \in Cases

\* The case marks itself failed while it runs.
Flag ==
  /\ Active /\ ~cleaning
  /\ flagged' = [flagged EXCEPT ![cur] = TRUE]
  /\ UNCHANGED <<cur, cleaning, verdict, outcome>>

\* The case's work ends, normally or by an error that may flag it.
BeginCleanup ==
  /\ Active /\ ~cleaning
  /\ cleaning' = TRUE
  /\ \E f \in {flagged[cur], TRUE} : flagged' = [flagged EXCEPT ![cur] = f]
  /\ UNCHANGED <<cur, verdict, outcome>>

Finish ==
  /\ Active /\ cleaning
  /\ verdict' = [verdict EXCEPT ![cur] =
                   IF flagged[cur] THEN "FAILED" ELSE "SUCCESSFUL"]
  /\ cur' = cur + 1
  /\ cleaning' = FALSE
  /\ UNCHANGED <<flagged, outcome>>

Abort ==
  /\ Active /\ cleaning
  /\ outcome' = "aborted"
  /\ UNCHANGED <<cur, cleaning, flagged, verdict>>

Report ==
  /\ outcome = "running" /\ cur = NTests + 1
  /\ outcome' = "reported"
  /\ UNCHANGED <<cur, cleaning, flagged, verdict>>

Restart ==
  /\ outcome # "running"
  /\ Init'

Next == Flag \/ BeginCleanup \/ Finish \/ Abort \/ Report \/ Restart

Spec == Init /\ [][Next]_avars

=============================================================================
