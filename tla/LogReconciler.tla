---------------------------- MODULE LogReconciler ----------------------------
(***************************************************************************)
(* SummaryReport of testcases/poettner.py on one throughput log: the       *)
(* check_test pass pairing "produced" with "transferred" lines, the        *)
(* check_warnings and check_errors tally passes, and the lines run()       *)
(* prints from their results.  A log line is abstracted to what the        *)
(* regular expressions extract from it: the bundle count of a produced or  *)
(* transferred line, the message of a WARNING or ERROR line; any other     *)
(* line matches none of them.  The log is any file of at most MaxLines     *)
(* such lines.                                                             *)
(***************************************************************************)
EXTENDS Naturals, Sequences, SequencesExt, FiniteSets

CONSTANTS
  Counts,     \* bundle counts written in the log
  Messages,   \* warning and error messages written in the log
  MaxLines    \* bound on the length of the log

ASSUME Counts \subseteq Nat /\ Counts # {}
ASSUME MaxLines \in Nat

Lines ==
  [kind : {"produced", "transferred"}, n : Counts]
    \cup [kind : {"warning", "error"}, m : Messages]
    \cup {[kind |-> "other"]}

VARIABLES
  log,        \* the log file, line by line
  pass,       \* "test", "warn", "err" (scanning), "done"
  i,          \* next line of the current pass
  state,      \* check_test: 1 while a produced line awaits its transfer
  p_res,      \* check_test: bundle count of the pending produced line
  run_start,  \* check_test: produced lines seen
  run_stop,   \* check_test: transfers whose count matched
  wd,         \* check_warnings: message -> occurrences
  errs,       \* check_errors: message -> occurrences
  out         \* lines printed into the report, in order

vars == <<log, pass, i, state, p_res, run_start, run_stop, wd, errs, out>>

Init ==
  /\ log \in BoundedSeq(Lines, MaxLines)
  /\ pass = "test" /\ i = 1
  /\ state = 0 /\ p_res = 0 /\ run_start = 0 /\ run_stop = 0
  /\ wd = [m \in {} |-> 0] /\ errs = [m \in {} |-> 0]
  /\ out = <<>>

\* Mutant: the first occurrence is counted twice.
TallyFromOne(d, key) ==
  IF key \in DOMAIN d
  THEN [d EXCEPT ![key] = @ + 1]
  ELSE [k \in DOMAIN d \cup {key} |-> IF k = key THEN 2 ELSE d[k]]

\* dict[key] = old + 1, with old = 0 on KeyError
Tally(d, key) ==
  IF key \in DOMAIN d
  THEN [d EXCEPT ![key] = @ + 1]
  ELSE [k \in DOMAIN d \cup {key} |-> IF k = key THEN 1 ELSE d[k]]

\* Mutant: the transfer regex is tried whatever the state.
TransferMatchesAnyState(l) == l.kind = "transferred"

\* state == 1 and t.match(data) succeeds
TransferMatches(l) == state = 1 /\ l.kind = "transferred"

\* Mutant: state stays 1 after a transfer line.
StateAfterTransferKept(l) == state

StateAfterTransfer(l) == IF TransferMatches(l) THEN 0 ELSE state

\* One line of the loop of check_test: first the transfer check while a
\* produced line is pending, then the produced check on the same line.
CheckTestLine ==
  /\ pass = "test" /\ i <= Len(log)
  /\ LET l == log[i]
         matchedT == TransferMatches(l)
         afterT == StateAfterTransfer(l)
         onT == IF matchedT /\ l.n # p_res
                THEN <<[line |-> "only", got |-> l.n, of |-> p_res]>>
                ELSE <<>>
         onP == IF l.kind = "produced" /\ afterT = 1
                THEN <<[line |-> "failed", of |-> p_res]>>
                ELSE <<>>
     IN /\ run_stop' = IF matchedT /\ l.n = p_res THEN run_stop + 1 ELSE run_stop
        /\ out' = out \o onT \o onP
        /\ IF l.kind = "produced"
           THEN /\ state' = 1 /\ p_res' = l.n /\ run_start' = run_start + 1
           ELSE /\ state' = afterT /\ UNCHANGED <<p_res, run_start>>
  /\ i' = i + 1
  /\ UNCHANGED <<log, pass, wd, errs>>

\* Reportable.printReport: each line is appended to the case's text.
PrintReport(text, lines) == text \o lines

\* check_test returns (run_stop, run_start); run() prints "x of y runs".
EndCheckTest ==
  /\ pass = "test" /\ i > Len(log)
  /\ out' = PrintReport(out, <<[line |-> "runs", success |-> run_stop, of |-> run_start]>>)
  /\ pass' = "warn" /\ i' = 1
  /\ UNCHANGED <<log, state, p_res, run_start, run_stop, wd, errs>>

CheckWarningsLine ==
  /\ pass = "warn" /\ i <= Len(log)
  /\ wd' = IF log[i].kind = "warning" THEN Tally(wd, log[i].m) ELSE wd
  /\ i' = i + 1
  /\ UNCHANGED <<log, pass, state, p_res, run_start, run_stop, errs, out>>

\* Printed (message, count) lines of a tally, in the dictionary's order.
TallyLines(label, d) ==
  LET keys == SetToSeq(DOMAIN d)
  IN [j \in 1 .. Len(keys) |-> [line |-> label, m |-> keys[j], count |-> d[keys[j]]]]

\* check_warnings returns; run() prints one WARNING line per message.
EndCheckWarnings ==
  /\ pass = "warn" /\ i > Len(log)
  /\ out' = PrintReport(out, TallyLines("WARNING", wd))
  /\ pass' = "err" /\ i' = 1
  /\ UNCHANGED <<log, state, p_res, run_start, run_stop, wd, errs>>

CheckErrorsLine ==
  /\ pass = "err" /\ i <= Len(log)
  /\ errs' = IF log[i].kind = "error" THEN Tally(errs, log[i].m) ELSE errs
  /\ i' = i + 1
  /\ UNCHANGED <<log, pass, state, p_res, run_start, run_stop, wd, out>>

\* check_errors returns; run() prints the ERROR lines from `warns`.
EndCheckErrors ==
  /\ pass = "err" /\ i > Len(log)
  /\ out' = PrintReport(out, TallyLines("ERROR", wd))
  /\ pass' = "done"
  /\ UNCHANGED <<log, i, state, p_res, run_start, run_stop, wd, errs>>

Next ==
  \/ CheckTestLine \/ EndCheckTest
  \/ CheckWarningsLine \/ EndCheckWarnings
  \/ CheckErrorsLine \/ EndCheckErrors

Spec == Init /\ [][Next]_vars /\ WF_vars(Next)

(***************************************************************************)
(* Properties.  The reference definitions say, of the whole log at once,   *)
(* what spec.md 4.3 asks of the line-by-line scan.                         *)
(***************************************************************************)
TypeOK ==
  /\ log \in Seq(Lines)
  /\ pass \in {"test", "warn", "err", "done"}
  /\ i \in 1 .. Len(log) + 1
  /\ state \in {0, 1}
  /\ run_stop <= run_start /\ run_start <= Len(log)
  /\ \A m \in DOMAIN wd \cup DOMAIN errs : m \in Messages
  /\ \A j \in DOMAIN out : out[j].line \in {"only", "failed", "runs", "WARNING", "ERROR"}

IsP(a) == log[a].kind = "produced"
IsT(a) == log[a].kind = "transferred"
\* no produced and no transferred line strictly between lines a and b
Quiet(a, b) == \A k \in a + 1 .. b - 1 : ~IsP(k) /\ ~IsT(k)
\* the transferred line that answers the produced line a
Answer(a) == {b \in a + 1 .. Len(log) : IsT(b) /\ Quiet(a, b)}

ProducedRefs == {a \in DOMAIN log : IsP(a)}
MatchedRefs ==
  {a \in ProducedRefs : \E b \in Answer(a) : log[b].n = log[a].n}
MismatchedRefs ==
  {a \in ProducedRefs : \E b \in Answer(a) : log[b].n # log[a].n}
\* produced lines followed by another one before any transfer
SupersededRefs ==
  {a \in ProducedRefs : \E b \in a + 1 .. Len(log) : IsP(b) /\ Quiet(a, b)}

Printed(kind) == Cardinality({j \in DOMAIN out : out[j].line = kind})

\* Pairing (spec.md 4.3, 8.3): once check_test has read the whole log, it
\* counts every produced line as a run, counts as successful exactly the
\* runs whose first following transfer line, before any new produced
\* line, has the same bundle count, and prints one "failed" line per run
\* superseded by the next produced line and one "only" line per mismatch.
PairingMatchesSpec ==
  pass # "test" =>
    /\ run_start = Cardinality(ProducedRefs)
    /\ run_stop = Cardinality(MatchedRefs)
    /\ Printed("failed") = Cardinality(SupersededRefs)
    /\ Printed("only") = Cardinality(MismatchedRefs)

Occurrences(kind, m) ==
  Cardinality({a \in DOMAIN log : log[a].kind = kind /\ log[a].m = m})

\* Tallies (spec.md 8.4): each message that occurs k > 0 times in WARNING
\* (ERROR) lines has tally k, and no other message has a tally.
TalliesExact ==
  pass = "done" =>
    \A m \in Messages :
      /\ (m \in DOMAIN wd <=> Occurrences("warning", m) > 0)
      /\ (m \in DOMAIN wd => wd[m] = Occurrences("warning", m))
      /\ (m \in DOMAIN errs <=> Occurrences("error", m) > 0)
      /\ (m \in DOMAIN errs => errs[m] = Occurrences("error", m))

\* The report lists every error message with its count (spec.md 4.3): the
\* ERROR lines run() prints are exactly the tally check_errors returned.
ErrorsReported ==
  pass = "done" =>
    {<<out[j].m, out[j].count>> : j \in {j \in DOMAIN out : out[j].line = "ERROR"}}
      = {<<m, errs[m]>> : m \in DOMAIN errs}

=============================================================================
