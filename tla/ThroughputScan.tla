---------------------------- MODULE ThroughputScan ----------------------------
(***************************************************************************)
(* ThroughputReport.run of testcases/poettner.py: the scan of the          *)
(* throughput logs of every test run for ": Transferred " marker lines and *)
(* the " bundles of " detail line after each, and the graphs it builds     *)
(* with Reportable.defineGraph and addGraphableData (report/base.py).      *)
(*                                                                         *)
(* The logs of all the runs are scanned in turn; here they are one input   *)
(* sequence in which a "newlog" line stands for the start of the next log  *)
(* file.  A detail line is abstracted to the three numbers split_string_   *)
(* data extracts from it (bundles, size, duration), or to "malformed" when *)
(* int() or float() or the indexing fails on it.  Lines that are neither   *)
(* marker nor detail change nothing and are left out.                      *)
(***************************************************************************)
EXTENDS Integers, Sequences, SequencesExt, FiniteSets

CONSTANTS
  Bundles,    \* bundle counts in detail lines
  Sizes,      \* bundle sizes in bytes
  Durations,  \* durations in seconds
  MaxLines    \* bound on the length of the input

ASSUME Bundles \subseteq Nat /\ Sizes \subseteq Nat /\ Durations \subseteq Nat
ASSUME MaxLines \in Nat

Details == [kind : {"detail"}, b : Bundles, s : Sizes, d : Durations]
Lines == Details \cup {[kind |-> "marker"], [kind |-> "malformed"], [kind |-> "newlog"]}

\* The data point (run_count, (bundles * size * 8 / 1000000) / duration):
\* Python 2 divides the integers first; the throughput is kept exactly, as
\* that quotient over the duration.
Point(x, l) == [x |-> x, num |-> (l.b * l.s * 8) \div 1000000, den |-> l.d]

VARIABLES
  input,          \* the lines of all logs, in scanning order
  i,              \* next line
  readmem,        \* -1, or 0 after a marker until a detail is parsed
  previous_size,  \* size of the last parsed detail of this log
  graphmax,       \* identifier of the last graph defined
  run_count,      \* x-value of the last point
  graphs,         \* Reportable.graphs: [id, size, pts] in definition order
  status          \* "scanning", "done", or "raised" (uncaught exception)

vars == <<input, i, readmem, previous_size, graphmax, run_count, graphs, status>>

Init ==
  /\ input \in BoundedSeq(Lines, MaxLines)
  /\ i = 1 /\ readmem = -1 /\ previous_size = 0
  /\ graphmax = 0 /\ run_count = 0 /\ graphs = <<>>
  /\ status = "scanning"

\* addGraphableData: a point goes to every graph with that identifier, and
\* nowhere if there is none.
AddGraphableData(gs, id, p) ==
  [k \in DOMAIN gs |-> IF gs[k].id = id
                       THEN [gs[k] EXCEPT !.pts = Append(@, p)] ELSE gs[k]]

Scanning == status = "scanning" /\ i <= Len(input)

\* Mutant: previous_size is initialised once, before the loop over logs.
NextLogKeepsSize ==
  /\ Scanning /\ input[i].kind = "newlog"
  /\ readmem' = -1 /\ i' = i + 1
  /\ UNCHANGED <<input, previous_size, graphmax, run_count, graphs, status>>

\* for l in m.getThroughputLogs(): previous_size = 0, readmem = -1
NextLog ==
  /\ Scanning /\ input[i].kind = "newlog"
  /\ previous_size' = 0 /\ readmem' = -1 /\ i' = i + 1
  /\ UNCHANGED <<input, graphmax, run_count, graphs, status>>

\* Mutant: readmem counts the markers.
MarkerCounted == readmem' = readmem + 1

MarkerSeen == readmem' = 0

Marker ==
  /\ Scanning /\ input[i].kind = "marker"
  /\ MarkerSeen /\ i' = i + 1
  /\ UNCHANGED <<input, previous_size, graphmax, run_count, graphs, status>>

\* A detail or malformed line before any marker, or another detail line
\* after the awaited one was parsed: nothing matches.
Ignored ==
  /\ Scanning /\ input[i].kind \in {"detail", "malformed"} /\ readmem = -1
  /\ i' = i + 1
  /\ UNCHANGED <<input, readmem, previous_size, graphmax, run_count, graphs, status>>

\* IndexError or ValueError: caught, the scan waits for the next one.
Malformed ==
  /\ Scanning /\ input[i].kind = "malformed" /\ readmem = 0
  /\ i' = i + 1
  /\ UNCHANGED <<input, readmem, previous_size, graphmax, run_count, graphs, status>>

\* Division by a zero duration: ZeroDivisionError leaves run().
ZeroDuration ==
  /\ Scanning /\ input[i].kind = "detail" /\ readmem = 0 /\ input[i].d = 0
  /\ status' = "raised"
  /\ UNCHANGED <<input, i, readmem, previous_size, graphmax, run_count, graphs>>

\* A size change opens a new graph and restarts the run count.
NewSeries(l) == l.s # previous_size

Record ==
  /\ Scanning /\ input[i].kind = "detail" /\ readmem = 0 /\ input[i].d # 0
  /\ LET l == input[i]
         new == NewSeries(l)
         id == IF new THEN graphmax + 1 ELSE graphmax
         x == IF new THEN 1 ELSE run_count + 1
         defined == IF new THEN Append(graphs, [id |-> id, size |-> l.s, pts |-> <<>>])
                    ELSE graphs
     IN /\ previous_size' = IF new THEN l.s ELSE previous_size
        /\ graphmax' = id /\ run_count' = x
        /\ graphs' = AddGraphableData(defined, id, Point(x, l))
  /\ readmem' = -1 /\ i' = i + 1
  /\ UNCHANGED <<input, status>>

Finish ==
  /\ status = "scanning" /\ i > Len(input)
  /\ status' = "done"
  /\ UNCHANGED <<input, i, readmem, previous_size, graphmax, run_count, graphs>>

Next ==
  \/ NextLog \/ Marker \/ Ignored \/ Malformed \/ ZeroDuration \/ Record
  \/ Finish

Spec == Init /\ [][Next]_vars /\ WF_vars(Next)

(***************************************************************************)
(* Properties.  The reference definitions say, of the whole input at once, *)
(* which detail lines are records and how spec.md 4.4 groups them.         *)
(***************************************************************************)
TypeOK ==
  /\ input \in Seq(Lines)
  /\ i \in 1 .. Len(input) + 1
  /\ readmem \in {-1, 0}
  /\ previous_size \in Sizes \cup {0}
  /\ graphmax \in 0 .. Len(input) /\ run_count \in 0 .. Len(input)
  /\ \A k \in DOMAIN graphs : graphs[k].id \in 1 .. graphmax
  /\ status \in {"scanning", "done", "raised"}

IsKind(k, kind) == input[k].kind = kind
\* no line of kind between a and b, both excluded
NoneBetween(a, b, kind) == \A q \in a + 1 .. b - 1 : ~IsKind(q, kind)

\* A record: a detail line after a marker of the same log, with no detail
\* line between them.
IsRecord(k) ==
  /\ IsKind(k, "detail")
  /\ \E j \in 1 .. k - 1 : IsKind(j, "marker") /\ NoneBetween(j, k, "newlog")
                           /\ NoneBetween(j, k, "detail")
Records == {k \in DOMAIN input : IsRecord(k)}
SameLog(a, b) == NoneBetween(a, b, "newlog")
\* a record that starts a series: the first of its log, or of another size
\* than the record before it
StartsSeries(k) ==
  \A r \in Records : r < k /\ SameLog(r, k) /\ (\A q \in Records : q > r => q >= k)
                     => input[r].s # input[k].s
Starts == SetToSortSeq({k \in Records : StartsSeries(k)}, <)
\* the records of the series that k starts
SeriesOf(k) ==
  {r \in Records : r >= k /\ SameLog(k, r)
                   /\ \A q \in Records : k <= q /\ q <= r => input[q].s = input[k].s}

\* Series grouping (spec.md 4.4, 8.5): once every log is scanned, there is
\* one graph per maximal run of same-size records of a log, in order, and
\* its x-values are 1, 2, ... up to the length of that run.
SeriesGrouping ==
  status = "done" =>
    /\ Len(graphs) = Len(Starts)
    /\ \A n \in DOMAIN graphs :
         /\ graphs[n].size = input[Starts[n]].s
         /\ [j \in DOMAIN graphs[n].pts |-> graphs[n].pts[j].x]
              = [j \in 1 .. Cardinality(SeriesOf(Starts[n])) |-> j]

\* The scan skips what it cannot use and never aborts (spec.md 4.4): run()
\* returns whatever the durations in the logs are.
ScanCompletes == status # "raised"

=============================================================================
