------------------------------ MODULE MemoryScan ------------------------------
(***************************************************************************)
(* MemoryReport.run of testcases/poettner.py: for each throughput log it   *)
(* defines a sender and a receiver memory graph, then reads the output of  *)
(* `free` recorded after each "Recording free memory" line and adds the    *)
(* used memory of its "Mem:" line to the graph of the side that recorded   *)
(* it, at the current run number.                                          *)
(*                                                                         *)
(* The logs are one input sequence, each log introduced by a "newlog"      *)
(* line.  A line is abstracted to what the scan looks at: a recording      *)
(* line of the sender or the receiver; a "Mem:" line with its used         *)
(* memory; a "Swap:" line; a line with a fourth field that is neither;     *)
(* and a "short" line, on which the indexing of sdata fails (a blank line, *)
(* or a Mem: line cut short).                                              *)
(***************************************************************************)
EXTENDS Integers, Sequences, SequencesExt, FiniteSets

CONSTANTS
  Used,       \* used-memory values in Mem: lines
  MaxLines    \* bound on the lines after the first "newlog"

ASSUME Used \subseteq Nat /\ MaxLines \in Nat

Lines ==
  {[kind |-> k] : k \in {"sender", "receiver", "swap", "other", "short", "newlog"}}
    \cup [kind : {"mem"}, v : Used]

VARIABLES
  input,               \* the lines of all logs, in scanning order
  i,                   \* next line
  readmem,             \* -1, or Mem:/Swap: lines read since the recording
  sender_or_receiver,  \* -1 after a sender recording, 0 otherwise
  run_count,           \* sender recordings so far in this log
  graphmax,            \* identifier of this log's receiver graph
  graphs,              \* Reportable.graphs: [id, side, pts] in order
  status               \* "scanning", "done", or "raised"

vars == <<input, i, readmem, sender_or_receiver, run_count, graphmax, graphs, status>>

Init ==
  /\ \/ input = <<>>
     \/ input \in {<<[kind |-> "newlog"]>> \o s : s \in BoundedSeq(Lines, MaxLines)}
  /\ i = 1 /\ readmem = -1 /\ sender_or_receiver = 0 /\ run_count = 0
  /\ graphmax = 0 /\ graphs = <<>>
  /\ status = "scanning"

\* Reportable.addGraphableData (report/base.py)
AddGraphableData(gs, id, p) ==
  [k \in DOMAIN gs |-> IF gs[k].id = id
                       THEN [gs[k] EXCEPT !.pts = Append(@, p)] ELSE gs[k]]

Scanning == status = "scanning" /\ i <= Len(input)
Line == input[i]

\* A new log: the per-log variables, and the two graphs of the log.
NextLog ==
  /\ Scanning /\ Line.kind = "newlog"
  /\ readmem' = -1 /\ sender_or_receiver' = 0 /\ run_count' = 0
  /\ graphmax' = graphmax + 2
  /\ graphs' = graphs \o <<[id |-> graphmax + 1, side |-> "sender", pts |-> <<>>],
                           [id |-> graphmax + 2, side |-> "receiver", pts |-> <<>>]>>
  /\ i' = i + 1
  /\ UNCHANGED <<input, status>>

\* Mutant: the else branch is missing, a receiver keeps the sender's side.
RecordingKeepsSide ==
  IF Line.kind = "sender" THEN sender_or_receiver' = -1
  ELSE sender_or_receiver' = sender_or_receiver

RecordingSide ==
  sender_or_receiver' = IF Line.kind = "sender" THEN -1 ELSE 0

\* "Recording free memory", with "SENDER: " or without
Recording ==
  /\ Scanning /\ Line.kind \in {"sender", "receiver"}
  /\ readmem' = 0
  /\ RecordingSide
  /\ run_count' = IF Line.kind = "sender" THEN run_count + 1 ELSE run_count
  /\ i' = i + 1
  /\ UNCHANGED <<input, graphmax, graphs, status>>

\* Outside a recording nothing else is looked at.
Skipped ==
  /\ Scanning /\ Line.kind \in {"mem", "swap", "other", "short"} /\ readmem = -1
  /\ i' = i + 1
  /\ UNCHANGED <<input, readmem, sender_or_receiver, run_count, graphmax, graphs, status>>

\* sdata[3] of a line with fewer than four fields: IndexError leaves run().
ShortLine ==
  /\ Scanning /\ Line.kind = "short" /\ readmem # -1
  /\ status' = "raised"
  /\ UNCHANGED <<input, i, readmem, sender_or_receiver, run_count, graphmax, graphs>>

\* Mutant: readmem is not cleared after the second line.
AfterReadNoReset(read) == read

\* if readmem == 2: readmem = -1
AfterRead(read) == IF read = 2 THEN -1 ELSE read

\* A Mem: or Swap: line counts; the Mem: line adds (run_count, used / 1000)
\* to graph graphmax + sender_or_receiver; after two the recording is over.
FreeLine ==
  /\ Scanning /\ Line.kind \in {"mem", "swap", "other"} /\ readmem # -1
  /\ LET read == IF Line.kind \in {"mem", "swap"} THEN readmem + 1 ELSE readmem
     IN readmem' = AfterRead(read)
  /\ graphs' = IF Line.kind = "mem"
               THEN AddGraphableData(graphs, graphmax + sender_or_receiver,
                                     [x |-> run_count, num |-> Line.v, den |-> 1000])
               ELSE graphs
  /\ i' = i + 1
  /\ UNCHANGED <<input, sender_or_receiver, run_count, graphmax, status>>

Finish ==
  /\ status = "scanning" /\ i > Len(input)
  /\ status' = "done"
  /\ UNCHANGED <<input, i, readmem, sender_or_receiver, run_count, graphmax, graphs>>

Next ==
  \/ NextLog \/ Recording \/ Skipped \/ ShortLine \/ FreeLine \/ Finish

Spec == Init /\ [][Next]_vars /\ WF_vars(Next)

(***************************************************************************)
(* Properties.  The reference definitions say, of the whole input at once, *)
(* which Mem: line belongs to which recording and run.                     *)
(***************************************************************************)
TypeOK ==
  /\ input \in Seq(Lines)
  /\ i \in 1 .. Len(input) + 1
  /\ readmem \in {-1, 0, 1}
  /\ sender_or_receiver \in {-1, 0}
  /\ run_count \in 0 .. Len(input)
  /\ graphs \in Seq([id : Nat, side : {"sender", "receiver"},
                     pts : Seq([x : Nat, num : Used, den : {1000}])])
  /\ status \in {"scanning", "done", "raised"}

Kind(k) == input[k].kind
LogOf(k) == Cardinality({q \in 1 .. k : Kind(q) = "newlog"})
NLogs == LogOf(Len(input))
\* r is the recording whose `free` output line k belongs to
RecordingOf(r, k) ==
  /\ r < k /\ Kind(r) \in {"sender", "receiver"} /\ LogOf(r) = LogOf(k)
  /\ \A q \in r + 1 .. k - 1 : Kind(q) \notin {"sender", "receiver"}
\* the Mem: line k is read: fewer than two Mem:/Swap: lines before it
ReadMem(r, k) ==
  /\ Kind(k) = "mem" /\ RecordingOf(r, k)
  /\ Cardinality({q \in r + 1 .. k - 1 : Kind(q) \in {"mem", "swap"}}) < 2
\* the run of recording r: sender recordings of its log up to r
RunOf(r) == Cardinality({q \in 1 .. r : Kind(q) = "sender" /\ LogOf(q) = LogOf(r)})
Expected(n, side) ==
  LET ks == SetToSortSeq({k \in DOMAIN input :
                           \E r \in DOMAIN input : ReadMem(r, k) /\ Kind(r) = side
                                                  /\ LogOf(k) = n}, <)
      run(k) == RunOf(CHOOSE r \in DOMAIN input : ReadMem(r, k))
  IN [j \in DOMAIN ks |-> [x |-> run(ks[j]), num |-> input[ks[j]].v, den |-> 1000]]

\* Memory attribution: once every log is scanned, log n has a sender and a
\* receiver graph, and each holds, in order, the used memory of every Mem:
\* line read in a recording of that side (one that comes before the
\* recording's second Mem: or Swap: line), at the number of sender
\* recordings of the log up to that recording.
MemoryAttributed ==
  status = "done" =>
    /\ Len(graphs) = 2 * NLogs
    /\ \A n \in 1 .. NLogs :
         /\ graphs[2 * n - 1].side = "sender" /\ graphs[2 * n].side = "receiver"
         /\ graphs[2 * n - 1].pts = Expected(n, "sender")
         /\ graphs[2 * n].pts = Expected(n, "receiver")

\* MemoryReport reads every log to its end whatever the `free` output
\* looks like, as ThroughputReport does by catching IndexError and
\* ValueError.
ScanCompletes == status # "raised"

=============================================================================
