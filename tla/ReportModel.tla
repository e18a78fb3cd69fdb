----------------------------- MODULE ReportModel -----------------------------
(***************************************************************************)
(* The graphs of the report (report/base.py) over successive harness       *)
(* processes: the test cases define their graphs when they are            *)
(* constructed, add data points while they run, and HTMLReport.gen         *)
(* (report/html.py) saves every graph of every case to the file            *)
(* <name>-<identifier>.dat, appending for a persistent graph and           *)
(* overwriting otherwise.  The .dat files outlive the process.             *)
(*                                                                         *)
(* The cases that add data are FakeTestSuccessful and the file transfers   *)
(* (BaseFileTransfer); a point is abstracted to <<process, case, step>>,   *)
(* which tells every point of every run apart.  Whether a file transfer    *)
(* raises in run or in cleanup is decided by the hosts (module Harness);   *)
(* here it is a free choice.                                               *)
(***************************************************************************)
EXTENDS Naturals, Sequences, SequencesExt, FiniteSets

CONSTANTS
  Cases,     \* the test list: "FakeTestSuccessful" or "FileTransfer"
  NFiles,    \* BaseFileTransfer.files: payloads per transfer case
  MaxRuns    \* bound on harness processes

ASSUME Cases \in Seq({"FakeTestSuccessful", "FileTransfer"})
ASSUME NFiles \in Nat \ {0} /\ MaxRuns \in Nat \ {0}

CaseIds == DOMAIN Cases
GraphIds == {1, 2}
\* <name>-<identifier>: case names are distinct
DatFiles == CaseIds \X GraphIds

\* ReportGraph.__init__: a graph with its identifier and no data yet
ReportGraph(id, persistent) == [id |-> id, persistent |-> persistent, pts |-> <<>>]

\* Reportable.defineGraph appends a new graph to the case's graphs.
DefineGraph(gs, id, persistent) == Append(gs, ReportGraph(id, persistent))

\* The graphs the constructor defines: 1 non-persistent, 2 persistent.
DefinedGraphs == DefineGraph(DefineGraph(<<>>, 1, FALSE), 2, TRUE)

\* The identifiers run() adds a point to, in order.  A transfer adds one
\* point per file to graph 1 and, at the end, the daily average to graph 2;
\* FakeTestSuccessful four points to graph 1, then three to graph 2.
FakeRun == <<1, 1, 1, 1, 2, 2, 2>>
TransferRun == [k \in 1 .. NFiles |-> 1] \o <<2>>
RunProgram(c) == IF Cases[c] = "FileTransfer" THEN TransferRun ELSE FakeRun

VARIABLES
  runs,      \* harness processes so far
  cur,       \* the case of default.py's loop
  phase,     \* "run" or "cleanup"
  pc,        \* next point of the case's run()
  status,    \* "running", "reported" or "aborted"
  graphs,    \* graphs[c]: Reportable.graphs of case c
  dat,       \* dat[<<c, id>>]: the rows of the file <name>-<id>.dat
  hist,      \* hist[r][<<c, id>>]: points added in process r (history)
  fsize,     \* BaseFileTransfer.run: 0 while unbound, else the file it is of
  dailyresult \* BaseFileTransfer.run: the matched files, in order

vars == <<runs, cur, phase, pc, status, graphs, dat, hist,
          fsize, dailyresult>>

NoPoints == [f \in DatFiles |-> <<>>]

\* Mutant: the constructor defines graph 1 as the persistent one.
FreshSwapped(c, ph, p, st, gs) ==
  /\ c = 1 /\ ph = "run" /\ p = 1 /\ st = "running"
  /\ gs = [k \in CaseIds |-> [j \in 1 .. 2 |-> [DefinedGraphs[j] EXCEPT
                                   !.persistent = ~@]]]

\* A new process: the test list is constructed, the loop starts.
Fresh(c, ph, p, st, gs) ==
  /\ c = 1 /\ ph = "run" /\ p = 1 /\ st = "running"
  /\ gs = [k \in CaseIds |-> DefinedGraphs]

Init ==
  /\ Fresh(cur, phase, pc, status, graphs) /\ runs = 1
  /\ dat = NoPoints
  /\ hist = [r \in 1 .. MaxRuns |-> NoPoints]
  /\ fsize = 0 /\ dailyresult = <<>>

\* Reportable.addGraphableData: to every graph with that identifier.
AddGraphableData(gs, id, p) ==
  [k \in DOMAIN gs |-> IF gs[k].id = id
                       THEN [gs[k] EXCEPT !.pts = Append(@, p)] ELSE gs[k]]

Running == status = "running" /\ cur \in CaseIds
Transferring == Running /\ phase = "run" /\ Cases[cur] = "FileTransfer"

\* run() adds the point of its step pc to graph id.
AddPoint(id) ==
  LET p == <<runs, cur, pc>>
  IN /\ graphs' = [graphs EXCEPT ![cur] = AddGraphableData(@, id, p)]
     /\ hist' = [hist EXCEPT ![runs][<<cur, id>>] = Append(@, p)]
     /\ pc' = pc + 1

\* FakeTestSuccessful.run: its seven addGraphableData calls.
AddData ==
  /\ Running /\ phase = "run" /\ Cases[cur] = "FakeTestSuccessful"
  /\ pc <= Len(FakeRun) /\ AddPoint(FakeRun[pc])
  /\ UNCHANGED <<runs, cur, phase, status, dat, fsize, dailyresult>>

\* The hashes of file pc match: fsize is bound to its size, the point
\* (fsize, tput) goes to graph 1 and tput to dailyresult.
Matched ==
  /\ Transferring /\ pc <= NFiles /\ AddPoint(TransferRun[pc])
  /\ fsize' = pc /\ dailyresult' = Append(dailyresult, pc)
  /\ UNCHANGED <<runs, cur, phase, status, dat>>

\* Mutant: fsize is initialised before the loop, so a mismatch before any
\* match adds a point instead of raising.
MismatchedSizeBound ==
  /\ Transferring /\ pc <= NFiles /\ AddPoint(TransferRun[pc])
  /\ UNCHANGED <<runs, cur, phase, status, dat, fsize, dailyresult>>

\* The hashes differ: the point (fsize, 0) reuses the fsize of the last
\* matched file; before any match fsize is unbound, and the NameError is
\* caught by default.py, which moves on to cleanup.
Mismatched ==
  /\ Transferring /\ pc <= NFiles
  /\ \/ fsize # 0 /\ AddPoint(TransferRun[pc]) /\ UNCHANGED phase
     \/ fsize = 0 /\ phase' = "cleanup" /\ UNCHANGED <<pc, graphs, hist>>
  /\ UNCHANGED <<runs, cur, status, dat, fsize, dailyresult>>

\* The sum of dailyresult over its length: the point (timestamp, average)
\* of graph 2.  With dailyresult empty the division raises, a raise that
\* EndRun stands for; DailyAverageDefined shows it is not reached.
DailyResult ==
  /\ Transferring /\ pc = NFiles + 1 /\ dailyresult # <<>>
  /\ AddPoint(TransferRun[pc])
  /\ UNCHANGED <<runs, cur, phase, status, dat, fsize, dailyresult>>

\* run() returns, or a transfer raises before its next point; either way
\* cleanup follows.
EndRun ==
  /\ Running /\ phase = "run"
  /\ \/ pc > Len(RunProgram(cur))
     \/ Cases[cur] = "FileTransfer"
  /\ phase' = "cleanup"
  /\ UNCHANGED <<runs, cur, pc, status, graphs, dat, hist, fsize,
                 dailyresult>>

Cleanup ==
  /\ Running /\ phase = "cleanup"
  /\ cur' = cur + 1 /\ phase' = "run" /\ pc' = 1
  /\ fsize' = 0 /\ dailyresult' = <<>>
  /\ UNCHANGED <<runs, status, graphs, dat, hist>>

\* A transfer's cleanup raises: the loop and the process end, no report.
CleanupRaises ==
  /\ Running /\ phase = "cleanup" /\ Cases[cur] = "FileTransfer"
  /\ status' = "aborted"
  /\ UNCHANGED <<runs, cur, phase, pc, graphs, dat, hist, fsize,
                 dailyresult>>

\* Mutant: a persistent graph overwrites its file too.
SaveOverwriting(g, rows) == g.pts

\* ReportGraph.save: open(filename, 'a' if persistent else 'w'), one row
\* per point.
Save(g, rows) == IF g.persistent THEN rows \o g.pts ELSE g.pts

\* HTMLReport.gen: for every report, writeDetailedReport plots every graph,
\* and the plot saves its series first.
Gen ==
  /\ status = "running" /\ cur = Len(Cases) + 1
  /\ dat' = [f \in DatFiles |->
               LET g == CHOOSE g \in ToSet(graphs[f[1]]) : g.id = f[2]
               IN Save(g, dat[f])]
  /\ status' = "reported"
  /\ UNCHANGED <<runs, cur, phase, pc, graphs, hist, fsize, dailyresult>>

\* The harness is started again after a process ended.
Restart ==
  /\ status # "running" /\ runs < MaxRuns
  /\ Fresh(cur', phase', pc', status', graphs')
  /\ runs' = runs + 1 /\ fsize' = 0 /\ dailyresult' = <<>>
  /\ UNCHANGED <<dat, hist>>

\* The steps of one process; a new process is the operator's decision.
ProcessStep ==
  \/ AddData \/ Matched \/ Mismatched \/ DailyResult \/ EndRun
  \/ Cleanup \/ CleanupRaises \/ Gen

Next == ProcessStep \/ Restart

Spec == Init /\ [][Next]_vars /\ WF_vars(ProcessStep)

(***************************************************************************)
(* Properties.                                                             *)
(***************************************************************************)
Points == (1 .. MaxRuns) \X CaseIds \X Nat

TypeOK ==
  /\ runs \in 1 .. MaxRuns
  /\ cur \in 1 .. Len(Cases) + 1
  /\ phase \in {"run", "cleanup"}
  /\ status \in {"running", "reported", "aborted"}
  /\ \A c \in CaseIds : \A k \in DOMAIN graphs[c] :
       graphs[c][k].id = DefinedGraphs[k].id
       /\ graphs[c][k].persistent = DefinedGraphs[k].persistent
  /\ dat \in [DatFiles -> Seq(Points)]
  /\ fsize \in 0 .. NFiles /\ dailyresult \in Seq(1 .. NFiles)

\* The report model implements GraphStore, the contract of spec.md 6 for
\* the persisted graph data: the points a process adds are those of hist,
\* HTMLReport.gen publishes them, appending to the .dat file of a persistent
\* graph and overwriting any other, and the points of a process aborted in
\* cleanup are never published.
StoredPoints == (1 .. MaxRuns) \X CaseIds \X (1 .. Len(FakeRun) + NFiles + 1)
Store == INSTANCE GraphStore WITH
           Files <- DatFiles,
           Persistent <- {f \in DatFiles : DefinedGraphs[f[2]].persistent},
           Points <- StoredPoints,
           added <- hist[runs], published <- (status = "reported")
GraphStoreRefined == Store!Spec

\* The daily average of a transfer (filetransfer.py:98) never divides by
\* zero: when run() reaches it, some file of this run has matched.  Only
\* the NameError of a mismatch before the first match (line 86) keeps a
\* run in which no file matched from getting there.
DailyAverageDefined ==
  Transferring /\ pc = NFiles + 1 => dailyresult # <<>>

=============================================================================
