------------------------------ MODULE Harness ------------------------------
(***************************************************************************)
(* The ATTS runner (default.py) driving the test cases of testcases/       *)
(* against remote hosts (utils/data.py Host) over SSH sessions.            *)
(*                                                                         *)
(* A test case's prepare, run and cleanup are straight-line code over the  *)
(* Base.py helpers; each is modelled as the sequence of remote and local   *)
(* operations it performs (Program), and the runner executes it one        *)
(* operation per step.  An operation either completes, with its effect on  *)
(* the host (files in /tmp, the ibrdtn UCI configuration, the session), or *)
(* raises; a raise in prepare or run is caught by the runner and sends the *)
(* case to cleanup, a raise in cleanup escapes the loop and ends the run.  *)
(*                                                                         *)
(* The receiver of a file transfer runs in a DelayedExecution thread,      *)
(* concurrently with the runner.  The remote hosts outlive the harness     *)
(* process: a Restart starts a fresh run against the hosts as they were    *)
(* left.                                                                   *)
(***************************************************************************)
EXTENDS Naturals, Sequences, SequencesExt, FiniteSets

CONSTANTS
  Tests,              \* the test-case classes run, in order
  Hosts,              \* data.getHosts(): the enabled hosts, in order
  Payloads,           \* BaseFileTransfer.files, as remote file names
  NonZeroExitRaises,  \* ssh execute raises on a non-zero exit status
  FaultKinds,         \* faults the environment may inject
  MaxFaults,          \* bound on injected faults over a behaviour
  MaxRuns,            \* bound on runs of the harness process
  InitResidue         \* <<host, file>> left in /tmp before the first run

\* "PoettnerReport" is any BasicPoettnerReport: SummaryReport, MemoryReport
\* or ThroughputReport.
TestKinds == {"SimplePing", "SimpleFileTransfer", "WiredFileTransfer",
              "EpidemicFileTransfer", "VPNFileTransfer", "UpdateSoftware",
              "ConnectionTest", "FakeTestFailed", "FakeTestSuccessful",
              "PoettnerReport"}

ASSUME Tests \in Seq(TestKinds)
ASSUME Len(Hosts) >= 2
ASSUME NonZeroExitRaises \in BOOLEAN
ASSUME FaultKinds \subseteq {"connect", "lost", "command", "timeout"}
ASSUME MaxFaults \in Nat /\ MaxRuns \in Nat \ {0}

VARIABLES
  runState,   \* "running", "done" (report generated) or "aborted"
  cur,        \* index in Tests of the case in the loop of default.py
  phase,      \* "prepare", "run" or "cleanup"
  pc,         \* next operation of the phase's program
  fail,       \* fail[t]: Reportable.fail of case t
  verdict,    \* verdict[t]: the line printed after cleanup
  session,    \* session[h]: state of Host.ssh
  openCount,  \* openCount[h]: SSH connections to h still open
  files,      \* files[h]: harness files present in /tmp on h
  config,     \* config[h]: the ibrdtn UCI configuration in force on h
  savedCfg,   \* savedCfg[h]: content of /tmp/saved-ibrdtn.config on h
  ok,         \* BaseFileTransfer.run: a transfer matched (fsize is bound)
  sent,       \* payloads dtnsend has sent in the current case
  fresh,      \* payloads a receiver of the current case has written
  receivers,  \* DelayedExecution threads not yet finished
  bad,        \* bad[t]: case t hit an error or a failed check (history)
  faults,     \* faults injected so far
  runs        \* harness runs so far

runnerVars == <<runState, cur, phase, pc, fail, verdict, bad>>
hostVars == <<session, openCount, files, config, savedCfg>>
localVars == <<ok, sent, fresh, receivers>>
vars == <<runnerVars, hostVars, localVars, faults, runs>>

Cases == 1 .. Len(Tests)
HostSet == ToSet(Hosts)
HarnessFiles == {"wait", "testcfg", "saved", "echo", "syslog", "update"}
                  \cup ToSet(Payloads)
ThisCase == <<runs, cur>>

(***************************************************************************)
(* Programs.  Op(k, h, f) is one operation of kind k on host h and file f. *)
(***************************************************************************)
Op(k, h, f) == [k |-> k, h |-> h, f |-> f]
ForHosts(hs, k, f) == [i \in 1 .. Len(hs) |-> Op(k, hs[i], f)]
Pair == <<Hosts[1], Hosts[2]>>

ActivateHosts(hs) == ForHosts(hs, "activate", "-")
\* Mutant: the loop stops one host short.
DeactivateHostsButLast(hs) == ForHosts(SubSeq(hs, 1, Len(hs) - 1), "deactivate", "-")

DeactivateHosts(hs) == ForHosts(hs, "deactivate", "-")
PutHosts(hs, f) == ForHosts(hs, "put", f)
RemoveHosts(hs, f) == ForHosts(hs, "rm", f)
\* executeHosts: one shell command on every host; k is what the command does
\* to f on the host (export, import, append, a restart or a script run).
ExecuteHosts(hs, k, f) == ForHosts(hs, k, f)
SaveUCI(hs) == ExecuteHosts(hs, "export", "saved")
\* Mutant: the saved configuration is deleted without being imported.
RestoreUCIWithoutImport(hs) == RemoveHosts(hs, "saved")

RestoreUCI(hs) == ExecuteHosts(hs, "import", "saved") \o RemoveHosts(hs, "saved")
\* Mutant: the log is deleted before it is fetched.
CollectSyslogRemoveFirst(hs) ==
  ExecuteHosts(hs, "append", "syslog") \o RemoveHosts(hs, "syslog")
    \o ForHosts(hs, "get", "syslog")

CollectSyslog(hs) ==
  ExecuteHosts(hs, "append", "syslog") \o ForHosts(hs, "get", "syslog")
    \o RemoveHosts(hs, "syslog")
\* cat /tmp/test-ibrdtn.config | uci import ibrdtn, on every host
ImportTestConfig(hs) == ExecuteHosts(hs, "import", "testcfg")
\* ibrdtn restart, then /bin/sh /tmp/waitfor-dtndaemon.sh
RestartDaemon(hs) == ExecuteHosts(hs, "cmd", "-") \o ExecuteHosts(hs, "sh", "wait")

SimplePingPrepare ==
  ActivateHosts(Pair) \o PutHosts(Pair, "wait") \o SaveUCI(Pair)
    \o PutHosts(Pair, "testcfg") \o ImportTestConfig(Pair) \o RestartDaemon(Pair)

\* getFileContent: fetch f from h into data/tmp and read it locally
GetFileContent(h, f) == <<Op("get", h, f)>>

\* dtnping ... > /tmp/echo-output.log, then getFileContent
SimplePingRun == <<Op("write", Hosts[1], "echo")>> \o GetFileContent(Hosts[1], "echo")

SimplePingCleanup ==
  <<Op("rm", Hosts[1], "echo")>> \o RemoveHosts(Pair, "testcfg")
    \o RemoveHosts(Pair, "wait") \o RestoreUCI(Pair) \o RestartDaemon(Pair)
    \o CollectSyslog(Pair) \o DeactivateHosts(Pair)

BaseFileTransferPrepare ==
  ActivateHosts(Pair) \o PutHosts(Pair, "wait")
    \o [i \in 1 .. Len(Payloads) |-> Op("put", Hosts[1], Payloads[i])]
    \o SaveUCI(Pair)

\* SimpleFileTransfer.prepare: its UCI file is put as /tmp/test-ibrdtn.config.
FileTransferPrepare ==
  BaseFileTransferPrepare \o PutHosts(Pair, "testcfg") \o ImportTestConfig(Pair)
    \o RestartDaemon(Pair)

\* One iteration of the loop of BaseFileTransfer.run: start the receiver
\* thread on hosts[1], dtnsend on hosts[0], join, fetch, compare hashes.
TransferOne(p) ==
  <<Op("spawn", Hosts[2], p), Op("send", Hosts[1], p), Op("join", Hosts[2], p),
    Op("get", Hosts[2], p), Op("compare", Hosts[2], p)>>

FileTransferRun == FlattenSeq([i \in 1 .. Len(Payloads) |-> TransferOne(Payloads[i])])

BaseFileTransferCleanup ==
  FlattenSeq([i \in 1 .. Len(Payloads) |-> RemoveHosts(Pair, Payloads[i])])
    \o RemoveHosts(Pair, "wait") \o RestoreUCI(Pair) \o RestartDaemon(Pair)
    \o CollectSyslog(Pair) \o DeactivateHosts(Pair)

\* SimpleFileTransfer.cleanup: its test configuration, then the base cleanup.
FileTransferCleanup == RemoveHosts(Pair, "testcfg") \o BaseFileTransferCleanup

\* WiredFileTransfer, EpidemicFileTransfer and VPNFileTransfer put another
\* UCI file (ibrdtn-config-wired, -dynamic, -vpn) under the same remote
\* name; their prepare and cleanup are SimpleFileTransfer's step for step.
WiredFileTransferPrepare == FileTransferPrepare
WiredFileTransferCleanup == FileTransferCleanup
EpidemicFileTransferPrepare == FileTransferPrepare
EpidemicFileTransferCleanup == FileTransferCleanup
VPNFileTransferPrepare == FileTransferPrepare
VPNFileTransferCleanup == FileTransferCleanup

\* BasicPoettnerReport.prepare: os.listdir of the data directory, then a
\* ManifestFile for each run directory.  All of it is local.
PoettnerPrepare == <<Op("listdir", "-", "-"), Op("manifest", "-", "-")>>

\* UpdateSoftware.update on every host, in run, with no cleanup
UpdateSoftwareRun ==
  FlattenSeq([i \in 1 .. Len(Hosts) |->
    <<Op("activate", Hosts[i], "-"), Op("put", Hosts[i], "update"),
      Op("sh", Hosts[i], "update"), Op("rm", Hosts[i], "update"),
      Op("deactivate", Hosts[i], "-")>>])

\* ConnectionTest.ping: a local ping of every host's address
ConnectionTestRun == ForHosts(Hosts, "ping", "-")

FakeTestFailedRun == <<Op("setfail", "-", "-")>>

\* The program of each class's phase; a phase the class does not override is
\* BaseTestcase's empty method, the empty program.
Program(kind, ph) ==
  CASE kind = "SimplePing" ->
         [prepare |-> SimplePingPrepare, run |-> SimplePingRun,
          cleanup |-> SimplePingCleanup][ph]
    [] kind = "SimpleFileTransfer" ->
         [prepare |-> FileTransferPrepare, run |-> FileTransferRun,
          cleanup |-> FileTransferCleanup][ph]
    [] kind = "WiredFileTransfer" ->
         [prepare |-> WiredFileTransferPrepare, run |-> FileTransferRun,
          cleanup |-> WiredFileTransferCleanup][ph]
    [] kind = "EpidemicFileTransfer" ->
         [prepare |-> EpidemicFileTransferPrepare, run |-> FileTransferRun,
          cleanup |-> EpidemicFileTransferCleanup][ph]
    [] kind = "VPNFileTransfer" ->
         [prepare |-> VPNFileTransferPrepare, run |-> FileTransferRun,
          cleanup |-> VPNFileTransferCleanup][ph]
    [] kind = "UpdateSoftware" ->
         IF ph = "run" THEN UpdateSoftwareRun ELSE <<>>
    [] kind = "ConnectionTest" ->
         IF ph = "run" THEN ConnectionTestRun ELSE <<>>
    [] kind = "FakeTestFailed" ->
         IF ph = "run" THEN FakeTestFailedRun ELSE <<>>
    [] kind = "FakeTestSuccessful" -> <<>>
    [] kind = "PoettnerReport" ->
         [prepare |-> PoettnerPrepare, run |-> <<Op("scan", "-", "-")>>,
          cleanup |-> <<>>][ph]

Prog == Program(Tests[cur], phase)

(***************************************************************************)
(* How an operation ends, for the runner.                                 *)
(***************************************************************************)
Proceed ==
  /\ pc' = pc + 1
  /\ UNCHANGED <<runState, phase, fail, bad>>

\* self.fail = True inside the case
Flag ==
  /\ pc' = pc + 1
  /\ fail' = [fail EXCEPT ![cur] = TRUE]
  /\ bad' = [bad EXCEPT ![cur] = TRUE]
  /\ UNCHANGED <<runState, phase>>

\* Mutant: the try/except also wraps cleanup, which then starts over.
RaiseCaughtInCleanup ==
  /\ fail' = [fail EXCEPT ![cur] = TRUE]
  /\ bad' = [bad EXCEPT ![cur] = TRUE]
  /\ phase' = "cleanup"
  /\ pc' = 1
  /\ UNCHANGED runState

\* An exception: caught in prepare or run, escaping from cleanup.
Raise ==
  IF phase = "cleanup"
  THEN /\ runState' = "aborted"
       /\ UNCHANGED <<phase, pc, fail, bad>>
  ELSE /\ fail' = [fail EXCEPT ![cur] = TRUE]
       /\ bad' = [bad EXCEPT ![cur] = TRUE]
       /\ phase' = "cleanup"
       /\ pc' = 1
       /\ UNCHANGED runState

CanFault(kind) == kind \in FaultKinds /\ faults < MaxFaults
UseFault == faults' = faults + 1

(***************************************************************************)
(* Operations.                                                             *)
(***************************************************************************)
TransferKinds == {"put", "get"}

\* The command exits non-zero because the file it reads or removes is absent.
ExitNonZero(o) == o.k \in {"rm", "sh", "import", "send"} /\ o.f \notin files[o.h]

\* A failed command or transfer: transfers raise; commands raise only if
\* the session reports exit statuses as errors.
Failed(o) == IF o.k \in TransferKinds \/ NonZeroExitRaises THEN Raise ELSE Proceed

\* The effect of a completed operation on the host.
Perform(o) ==
  /\ files' = [files EXCEPT ![o.h] =
                 CASE o.k \in {"put", "write", "append", "export"} -> @ \cup {o.f}
                   [] o.k = "rm" -> @ \ {o.f}
                   [] OTHER -> @]
  /\ config' = IF o.k = "import"
               THEN [config EXCEPT ![o.h] =
                       IF o.f = "saved" THEN savedCfg[o.h] ELSE "test"]
               ELSE config
  /\ savedCfg' = IF o.k = "export"
                 THEN [savedCfg EXCEPT ![o.h] = config[o.h]] ELSE savedCfg
  /\ sent' = IF o.k = "send" THEN sent \cup {o.f} ELSE sent

RemoteKinds == {"deactivate", "put", "get", "rm", "sh", "send", "import",
                "export", "write", "append", "cmd"}

\* Host.ssh is unbound until the host was once activated (AttributeError);
\* an SSH client that is not connected refuses every command.
Unusable(o) ==
  /\ o.k \in RemoteKinds
  /\ \/ session[o.h] = "none"
     \/ o.k # "deactivate" /\ session[o.h] # "open"

\* Host.put, get, execute, remove through a connected Host.ssh.
Remote(o) ==
  \/ /\ CanFault("lost")
     /\ session' = [session EXCEPT ![o.h] = "lost"]
     /\ openCount' = [openCount EXCEPT ![o.h] = @ - 1]
     /\ UseFault /\ Raise
     /\ UNCHANGED <<files, config, savedCfg, localVars>>
  \/ /\ CanFault("command")
     /\ UseFault /\ Failed(o)
     /\ UNCHANGED <<hostVars, localVars>>
  \/ /\ o.k = "get" /\ o.f \notin files[o.h]
     /\ Raise
     /\ UNCHANGED <<hostVars, localVars, faults>>
  \/ /\ ExitNonZero(o)
     /\ Failed(o)
     /\ UNCHANGED <<hostVars, localVars, faults>>
  \/ /\ ~ExitNonZero(o) /\ ~(o.k = "get" /\ o.f \notin files[o.h])
     /\ Perform(o) /\ Proceed
     /\ UNCHANGED <<session, openCount, ok, fresh, receivers, faults>>

\* Host.activate: a new SSH client is bound to Host.ssh, then connected.
Activate(o) ==
  /\ \/ /\ session' = [session EXCEPT ![o.h] = "open"]
        /\ openCount' = [openCount EXCEPT ![o.h] = @ + 1]
        /\ Proceed
        /\ UNCHANGED faults
     \/ /\ CanFault("connect")
        /\ session' = [session EXCEPT ![o.h] = "unconnected"]
        /\ UseFault /\ Raise
        /\ UNCHANGED openCount
  /\ UNCHANGED <<files, config, savedCfg, localVars>>

\* Host.deactivate: close the bound client, connected or not.
Deactivate(o) ==
  /\ session' = [session EXCEPT ![o.h] = "closed"]
  /\ openCount' = [openCount EXCEPT ![o.h] =
                     IF session[o.h] = "open" THEN @ - 1 ELSE @]
  /\ Proceed
  /\ UNCHANGED <<files, config, savedCfg, localVars, faults>>

\* receiver = DelayedExecution(hosts[1], dtnrecv ...); receiver.start()
Spawn(o) ==
  /\ receivers' = receivers \cup {[h |-> o.h, f |-> o.f, case |-> ThisCase]}
  /\ Proceed
  /\ UNCHANGED <<hostVars, ok, sent, fresh, faults>>

\* receiver.join()
Join(o) ==
  /\ ~\E r \in receivers : r.case = ThisCase /\ r.f = o.f
  /\ Proceed
  /\ UNCHANGED <<hostVars, localVars, faults>>

\* The hashes differ: the data point uses fsize, which is bound only once
\* an earlier file of this run() has matched (NameError otherwise).
Mismatch == IF ok THEN Flag ELSE Raise

\* md5 of the sent and the fetched payload, and the branch taken on it.
Compare(o) ==
  /\ \E match \in BOOLEAN :
       \/ /\ match
          /\ ok' = TRUE
          /\ pc' = pc + 1
          /\ bad' = [bad EXCEPT ![cur] = @ \/ o.f \notin fresh]
          /\ UNCHANGED <<runState, phase, fail>>
       \/ /\ ~match
          /\ Mismatch
          /\ UNCHANGED ok
  /\ UNCHANGED <<hostVars, sent, fresh, receivers, faults>>

\* ConnectionTest.ping: no reply, or transmitted # received, fails the case
Ping(o) ==
  /\ \/ Proceed
     \/ Flag
  /\ UNCHANGED <<hostVars, localVars, faults>>

\* os.listdir raises OSError on a missing data directory, open raises
\* IOError on a missing MANIFEST; a MANIFEST of fewer than eight lines is
\* read as far as it goes (the IndexError is caught).
ReadData(o) ==
  /\ \/ Proceed
     \/ Raise
  /\ UNCHANGED <<hostVars, localVars, faults>>

\* The report's run() returns, or raises out of its scan of the logs: the
\* uncaught ZeroDivisionError and IndexError of ThroughputScan and
\* MemoryScan, or an IOError of a log file.
Scan(o) ==
  /\ \/ Proceed
     \/ Raise
  /\ UNCHANGED <<hostVars, localVars, faults>>

ExecOp ==
  /\ runState = "running" /\ cur \in Cases
  /\ pc <= Len(Prog)
  /\ LET o == Prog[pc] IN
       CASE Unusable(o) -> Raise /\ UNCHANGED <<hostVars, localVars, faults>>
         [] o.k = "activate" -> Activate(o)
         [] o.k = "deactivate" -> Deactivate(o)
         [] o.k = "spawn" -> Spawn(o)
         [] o.k = "join" -> Join(o)
         [] o.k = "compare" -> Compare(o)
         [] o.k = "ping" -> Ping(o)
         [] o.k = "setfail" -> Flag /\ UNCHANGED <<hostVars, localVars, faults>>
         [] o.k \in {"listdir", "manifest"} -> ReadData(o)
         [] o.k = "scan" -> Scan(o)
         [] OTHER -> Remote(o)
  /\ UNCHANGED <<cur, verdict, runs>>

(***************************************************************************)
(* The receiver thread: dtnrecv --timeout 300 on hosts[1].  It writes the  *)
(* payload once dtnsend of this case has sent it; it gives up when the     *)
(* runner will not send it any more, or, as a fault, by timing out on a    *)
(* bundle that was sent.  An exception in the thread is lost.              *)
(***************************************************************************)
Deliverable(r) ==
  session[r.h] = "open" /\ r.f \in sent /\ r.case = ThisCase

SendPending(r) ==
  /\ r.case = ThisCase /\ runState = "running" /\ phase = "run"
  /\ pc <= Len(Prog)
  /\ Prog[pc] = Op("send", Hosts[1], r.f)

\* Mutant: dtnrecv without --timeout.
GivesUpNever(r) == FALSE

\* dtnrecv --timeout 300 expires when no bundle is coming.
GivesUp(r) == ~Deliverable(r) /\ ~SendPending(r)

Receiver(r) ==
  /\ receivers' = receivers \ {r}
  /\ \/ /\ Deliverable(r)
        /\ files' = [files EXCEPT ![r.h] = @ \cup {r.f}]
        /\ fresh' = fresh \cup {r.f}
        /\ UNCHANGED faults
     \/ /\ GivesUp(r)
        /\ UNCHANGED <<files, fresh, faults>>
     \/ /\ Deliverable(r) /\ CanFault("timeout")
        /\ UseFault
        /\ UNCHANGED <<files, fresh>>
  /\ UNCHANGED <<runnerVars, session, openCount, config, savedCfg, ok, sent, runs>>

(***************************************************************************)
(* The loop of default.py.                                                 *)
(***************************************************************************)
PhaseDone == runState = "running" /\ cur \in Cases /\ pc > Len(Prog)

BeginRun ==
  /\ PhaseDone /\ phase = "prepare"
  /\ phase' = "run" /\ pc' = 1
  /\ UNCHANGED <<runState, cur, fail, verdict, bad, hostVars, localVars, faults, runs>>

BeginCleanup ==
  /\ PhaseDone /\ phase = "run"
  /\ phase' = "cleanup" /\ pc' = 1
  /\ UNCHANGED <<runState, cur, fail, verdict, bad, hostVars, localVars, faults, runs>>

\* cleanup returned: print the verdict, go on with the next case
Finish ==
  /\ PhaseDone /\ phase = "cleanup"
  /\ verdict' = [verdict EXCEPT ![cur] = IF fail[cur] THEN "FAILED" ELSE "SUCCESSFUL"]
  /\ cur' = cur + 1 /\ phase' = "prepare" /\ pc' = 1
  /\ ok' = FALSE /\ sent' = {} /\ fresh' = {}
  /\ UNCHANGED <<runState, fail, bad, hostVars, receivers, faults, runs>>

\* HTMLReport(reportdir, tests).gen()
GenerateReport ==
  /\ runState = "running" /\ cur = Len(Tests) + 1
  /\ runState' = "done"
  /\ UNCHANGED <<cur, phase, pc, fail, verdict, bad, hostVars, localVars, faults, runs>>

\* The variables of a fresh harness process, as x = Fresh(x) for each x.
FreshProcess(rs, c, ph, p, fl, vd, bd, se, oc, k, st, fr) ==
  /\ rs = "running" /\ c = 1 /\ ph = "prepare" /\ p = 1
  /\ fl = [t \in Cases |-> FALSE]
  /\ vd = [t \in Cases |-> "none"]
  /\ bd = [t \in Cases |-> FALSE]
  /\ se = [h \in HostSet |-> "none"]
  /\ oc = [h \in HostSet |-> 0]
  /\ k = FALSE /\ st = {} /\ fr = {}

RunnerInit ==
  FreshProcess(runState, cur, phase, pc, fail, verdict, bad, session, openCount,
               ok, sent, fresh)

Init ==
  /\ RunnerInit
  /\ files = [h \in HostSet |-> {f \in HarnessFiles : <<h, f>> \in InitResidue}]
  /\ config = [h \in HostSet |-> "orig"]
  /\ savedCfg = [h \in HostSet |-> "orig"]
  /\ receivers = {}
  /\ faults = 0
  /\ runs = 1

\* The harness is started again once the last run has ended (the process
\* exits after its threads; its connections close with it).  The hosts keep
\* their /tmp and their configuration.
Restart ==
  /\ runState # "running" /\ runs < MaxRuns /\ receivers = {}
  /\ FreshProcess(runState', cur', phase', pc', fail', verdict', bad', session',
                  openCount', ok', sent', fresh')
  /\ runs' = runs + 1
  /\ UNCHANGED <<files, config, savedCfg, receivers, faults>>

RunnerStep == ExecOp \/ BeginRun \/ BeginCleanup \/ Finish \/ GenerateReport

Next ==
  \/ RunnerStep
  \/ \E r \in receivers : Receiver(r)
  \/ Restart

\* One runner thread and the receiver threads, each scheduled fairly; dtnrecv
\* ends by its --timeout at the latest.
Fairness ==
  /\ WF_vars(RunnerStep)
  /\ WF_vars(\E r \in receivers : Receiver(r))

Spec == Init /\ [][Next]_vars /\ Fairness

(***************************************************************************)
(* Properties.                                                             *)
(***************************************************************************)

\* The runner of default.py implements the lifecycle of spec.md 4.1: the
\* try/except/finally around prepare and run makes every case that ran
\* pass through cleanup exactly once before its verdict, and the verdict
\* is the case's fail flag.
Abs == INSTANCE Lifecycle WITH
         NTests <- Len(Tests), cleaning <- (phase = "cleanup"),
         flagged <- fail,
         outcome <- IF runState = "done" THEN "reported" ELSE runState
LifecycleRefined == Abs!Spec

\* No false pass: a case printed SUCCESSFUL hit no exception in prepare or
\* run, no failed check (ping, hash), and compared no payload that its own
\* receiver did not write (a stale file left in /tmp by earlier work).
NoFalsePass ==
  \A t \in Cases : verdict[t] = "SUCCESSFUL" => ~bad[t]

\* Every run of the harness ends: it generates the report or a cleanup
\* error escapes the loop; the runner never waits forever on a receiver.
Terminates == runState = "running" ~> runState \in {"done", "aborted"}

\* Between two cases (and after the last) nothing a case put on a host is
\* left: no harness file in /tmp and the original ibrdtn configuration.
Between == runState = "running" /\ phase = "prepare" /\ pc = 1 /\ receivers = {}

HostsRestored ==
  Between => \A h \in HostSet : config[h] = "orig" /\ files[h] = {}

\* Between two cases every SSH connection a case opened is closed again.
SessionsReleased == Between => \A h \in HostSet : openCount[h] = 0

\* A cleanup raises, and so ends the run without a report, only when the
\* environment injected a fault.
CleanupCompletes == runState = "aborted" => faults > 0

=============================================================================
