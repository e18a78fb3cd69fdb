----------------------------- MODULE GraphStore -----------------------------
(***************************************************************************)
(* What the report promises about its persisted graph data (spec.md 3, 6   *)
(* "Persisted graph data", 8.7), with no test cases, runner or renderer in *)
(* it.  A process adds points to the series of its graphs; when it         *)
(* publishes its report, the file of a persistent graph gets the process's *)
(* points appended, and that of any other graph is replaced by them.  A    *)
(* process publishes at most once, and points it added but did not        *)
(* publish are gone when the next process starts.                         *)
(***************************************************************************)
EXTENDS Sequences

CONSTANTS
  Files,       \* one series file per graph
  Persistent,  \* the files of persistent graphs
  Points       \* the points a process may add

ASSUME Persistent \subseteq Files

VARIABLES
  added,      \* added[f]: the points this process added to graph f
  dat,        \* dat[f]: the rows of the series file f
  published   \* this process has published its report

gvars == <<added, dat, published>>

Empty == [f \in Files |-> <<>>]

Init == added = Empty /\ dat = Empty /\ published = FALSE

Add(f, p) ==
  /\ ~published
  /\ added' = [added EXCEPT ![f] = Append(@, p)]
  /\ UNCHANGED <<dat, published>>

\* Persistent graphs append, non-persistent graphs overwrite.
Publish ==
  /\ ~published
  /\ dat' = [f \in Files |-> IF f \in Persistent THEN dat[f] \o added[f]
                                                 ELSE added[f]]
  /\ published' = TRUE
  /\ UNCHANGED added

\* A new process: nothing added yet; the files stay.
NewProcess ==
  /\ added' = Empty /\ published' = FALSE
  /\ UNCHANGED dat

Next == (\E f \in Files, p \in Points : Add(f, p)) \/ Publish \/ NewProcess

Spec == Init /\ [][Next]_gvars

=============================================================================
