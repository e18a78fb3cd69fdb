# TLA+ models of ATTS, the IBR-DTN automated test system

ATTS (`src/atts/src`) is a Python 2 harness. It runs a list of test cases
against OpenWRT hosts over SSH and writes an HTML report. This directory holds
TLA+ models of its control: the runner, the hosts and their sessions, the test
cases' remote programs, the receiver thread of the file transfers, and the
log reconciler, the memory and throughput scans of the Poettner reports, and
the report graphs and their `.dat` files. It also holds the TLC configurations
that check them.

## The system

| Part | Source | State and operations |
|---|---|---|
| Runner | `default.py` | Loops over the cases: `prepare`, `run` inside try/except (an exception sets `t.fail`), then `cleanup` in `finally` with no handler of its own, then the verdict line. At the end it calls `HTMLReport.gen()`. |
| Case helpers | `testcases/Base.py` | Loops over `self.hosts`: activate, deactivate, put, remove, execute. Also `saveUCI`, `restoreUCI` (`uci export` / `uci import` via `/tmp/saved-ibrdtn.config`) and `collectSyslog` (logread, get, rm). |
| Hosts | `utils/data.py` | `Host.ssh` is bound by `activate` and closed by `deactivate`. `getHosts()` is a global cache, so every case shares the same Host objects. `DelayedExecution` runs one command in a thread. |
| SSH | `utils/ssh` (not in `src`) | spec.md 6 says `execute` raises on a non-zero exit. |
| Test cases | `dtnping.py`, `filetransfer.py`, `base0.py`, `faketest.py` | Straight-line remote programs. A file transfer starts a receiver thread (`dtnrecv --timeout 300`) on hosts[1], runs `dtnsend` on hosts[0], joins, fetches and compares md5 hashes. |
| Poettner reports | `testcases/poettner.py` | Test cases that read a data directory of earlier runs (`prepare`: one `ManifestFile` per run) and scan its log files offline. `SummaryReport` pairs produced and transferred lines and tallies warnings and errors. Memory and throughput reports build graphs. |
| Report model | `report/base.py` | `Reportable` holds text, files and graphs. `ReportGraph.save` appends for persistent graphs and overwrites otherwise. |
| HTML | `report/html.py` | Renders pages and gnuplot images. |

The parts interact in two places:
- The runner and the receiver threads share the hosts: their sessions and the files in `/tmp`.
- Harness processes follow each other against the same hosts. Whatever one run leaves in `/tmp` or in the UCI configuration, the next run starts from.

## Modules

| Module | Models | Composed with |
|---|---|---|
| `Lifecycle` | The abstract promise of spec.md 4.1. Cases are taken in order; each is active, then cleaned up, then given a verdict that is FAILED iff it was flagged; a failed cleanup aborts the run; the report comes after the last verdict. | Instanced by `Harness` |
| `Harness` | The runner, helpers, test cases, hosts and receiver threads. | Refines `Lifecycle` |
| `MCHarness` | Model values and test lists for TLC. | |
| `LogReconciler` | `SummaryReport.check_test`, `check_warnings`, `check_errors` and the lines `run()` prints. | |
| `MCLogReconciler` | Counts and messages for TLC. | |
| `ThroughputScan` | `ThroughputReport.run`: the marker/detail scan over all throughput logs, the graphs it defines and the points it adds. | |
| `MCThroughputScan` | Bundle sizes for TLC. | |
| `MemoryScan` | `MemoryReport.run`: recordings of free memory, sender and receiver graphs per log. | |
| `MCMemoryScan` | Instance for TLC. | |
| `ReportModel` | `Reportable` graphs (`report/base.py`), the graph calls of `FakeTestSuccessful` and the file transfers, `HTMLReport.gen` saving them, over successive harness processes. | Refines `GraphStore` |
| `GraphStore` | The abstract contract of spec.md 6 for the persisted graph data. A process adds points and publishes once: persistent files get the points appended, others are overwritten. Unpublished points are gone with the process. | Instanced by `ReportModel` |
| `MCReportModel` | A test list with one case of each kind. | |

### Harness: how it corresponds to the code

Each phase of a case is a **program**: the sequence of operations the Python
method performs, built from the `Base.py` helpers. For example,
`SimplePingCleanup` is `SimplePing.cleanup`, line by line. `ExecOp` executes
the operation at `pc`, so control is kept exactly.

The data is abstracted:
- A file on a host is a name in `files[h]`.
- The UCI configuration is `"orig"` or `"test"`, and the saved copy is `savedCfg[h]`.
- A hash comparison is a nondeterministic outcome. When the payload the receiver fetched was not written by this case's receiver, `bad` records that.

Each operation ends in one of three ways:
- `Proceed`.
- `Flag`: `self.fail = True` inside a case.
- `Raise`: caught in prepare or run, where it sets `fail` and moves to cleanup; escaping in cleanup, where it aborts the whole run, as `default.py:58` lets it.

The module follows the host code closely:
- `Activate` and `Deactivate` follow `Host.activate` and `Host.deactivate`.
- `Unusable` is the AttributeError of an unbound `Host.ssh`, or a command through a client that is not connected.
- `Remote` covers `put`, `get`, `execute` and `remove`.

The ssh contract is a constant, `NonZeroExitRaises`. It is marked spec_modelled in the map because `utils/ssh` is not in the repository:
- `TRUE` is spec.md 6: a non-zero exit raises.
- `FALSE` means exit statuses are ignored, which is what the cleanups need in order to work.

The environment injects faults up to `MaxFaults`:
- `connect`: a connect failure.
- `lost`: the session dies.
- `command`: a remote command fails.
- `timeout`: the receiver times out although the bundle was sent.

`Receiver(r)` is one `DelayedExecution` thread. It has three outcomes:
- It writes the payload once `dtnsend` has sent it.
- It gives up (`GivesUp`, the `--timeout`) when the runner is no longer about to send.
- It times out as a fault.

`Restart` starts a new harness process. Runner and session state are reset. `files`, `config` and `savedCfg` on the hosts are kept.

The file transfers are `SimpleFileTransfer`'s prepare and cleanup wrapped
around those of `BaseFileTransfer` (`FileTransferPrepare`,
`BaseFileTransferPrepare`, and the cleanups). `WiredFileTransfer`,
`EpidemicFileTransfer` and `VPNFileTransfer` are case kinds of their own
with their own prepare and cleanup definitions. Those match
`SimpleFileTransfer`'s step for step, except that another UCI file is put
under the same remote name, and all share `BaseFileTransfer.run`. The
checked test list runs the four transfers one after the other, so a case
starts on hosts that another transfer has just used.

`ExecuteHosts` is `executeHosts`. Its argument says what the shell command
does on each host: export, import, append, a daemon restart, or a script
run. `GetFileContent` is the `get` that `getFileContent` does before
reading the copy locally.

`PoettnerReport` stands for `SummaryReport`, `MemoryReport` and
`ThroughputReport`. Their prepare has two local reads: `os.listdir` of the
data directory, then a `ManifestFile` per run directory (`ReadData`). Either
read may raise. Their run is one `Scan`, which returns or raises. The scans'
uncaught exceptions are what `ThroughputScan` and `MemoryScan` find; in the
Harness such a raise fails the report case and the loop goes on.

### LogReconciler

A log line is abstracted to what the regular expressions extract from it:
- produced or transferred, with its bundle count;
- WARNING or ERROR, with its message;
- other.

`Init` takes any log of at most `MaxLines` lines. `CheckTestLine` is one loop
iteration of `check_test`: the transfer check while state is 1, then the
produced check on the same line. `Tally` is the try/KeyError increment. The
`End*` actions are the printing in `run()`, with the bug at line 107 kept.
The properties compare the scan's results with reference definitions that
say declaratively what the answer should be (`ProducedRefs`, `MatchedRefs`,
`SupersededRefs`, `Occurrences`).

### ThroughputScan and MemoryScan

Both scans read the logs of all runs in turn. Here the logs are one input
sequence, and a `newlog` line marks the start of the next log file. That is
where `NextLog` performs the per-log resets of the code (`previous_size = 0`,
`readmem = -1`; for memory, `graphmax + 2` and the two `defineGraph` calls).
A line is abstracted to what the scan extracts from it:
- a throughput detail line to `(bundles, size, duration)`, or to `malformed`
  when `int()`, `float()` or the indexing fails;
- a memory line to `Mem:` with its value, `Swap:`, another line, or a line
  with fewer than four fields.

A point keeps the code's arithmetic. The throughput is `num / den`, where
`num = bundles*size*8 \div 1000000` is Python 2's integer quotient and `den`
is the duration. `ZeroDuration` and `ShortLine` are the uncaught exceptions:
the scan ends with status `raised`.

The properties compare the finished scan with reference definitions that say,
over the whole input, which lines are records (`IsRecord`, `RecordingOf`),
which record starts a series (`StartsSeries`), and which run a recording
belongs to (`RunOf`).

### ReportModel

A point is `<<process, case, step>>`, so every point of every run is
distinct. Each case's graphs are built the way its constructor builds them:
two `DefineGraph` calls of a fresh `ReportGraph`, the first not persistent
and the second persistent. The programs `FakeRun` and `TransferRun` are the sequences of graph
identifiers `run()` adds to. A file transfer may raise before any of its
points, and its cleanup may raise, which aborts the process (`default.py:58`)
before `gen`. `Gen` saves every graph: it appends for a persistent graph and
overwrites otherwise. `dat` outlives the process, and `Restart` starts a
fresh one.

A transfer's `run()` has its own actions. `Matched` binds `fsize` and
appends to `dailyresult`. `Mismatched` adds a point with the `fsize` of the
last matched file, or raises NameError while `fsize` is unbound.
`DailyResult` adds the average to graph 2. `hist` is a
history variable that records what each process added.

The refinement mapping to `GraphStore` takes `added` to the points of the
current process (`hist[runs]`), `published` to `status = "reported"`, and
`dat` to `dat`. `Gen` is `Publish`. A point added by `run()` is `Add`.
`Restart` is `NewProcess`. Every other step, an abort included, leaves the
abstract state unchanged.

## Runs

| Run | Checks | Result |
|---|---|---|
| `harness_faults` | `LifecycleRefined`, `Terminates`, over all ten case kinds (the four file transfers in a row) with one fault of any kind and two harness processes. | Pass: 361,118 states, about 35 s. |
| `harness_clean` | `HostsRestored`, `SessionsReleased`, `CleanupCompletes`, with no faults and two runs of the same ten cases. | Pass: 13,252 states. |
| `harness_exitstatus` | `CleanupCompletes` under spec.md's ssh contract. | Violation: `restartDaemon` in cleanup runs the wait script the cleanup just removed (`dtnping.py:61,67,80`; `filetransfer.py:112,118`). |
| `harness_leak` | `SessionsReleased`. | Violation: `UpdateSoftware.update` (`base0.py:27-33`) leaves a session open when a step fails, because the case has no cleanup. |
| `harness_stale` | `NoFalsePass`. | Violation: a payload left on hosts[1] by an aborted earlier run is fetched after a receiver timeout and matches, giving SUCCESSFUL. |
| `log_pairing` | `TypeOK`, `PairingMatchesSpec`, `TalliesExact`, over every log of up to 5 lines. | Pass: 1.24M states. |
| `log_errors` | `ErrorsReported`. | Violation: `poettner.py:107` prints the warning tally as errors. |
| `throughput_grouping` | `TypeOK`, `SeriesGrouping`, over every input of up to 7 lines with two sizes and durations 0 and 1. | Pass: 7.65M states, about a minute. |
| `throughput_zeroduration` | `ScanCompletes`. | Violation: a duration of 0 raises ZeroDivisionError at `poettner.py:257`, which is not caught; later logs are not scanned. |
| `memory_attribution` | `TypeOK`, `MemoryAttributed`, over every input of up to 6 lines. | Pass: 1.11M states. |
| `memory_shortline` | `ScanCompletes`. | Violation: a short line inside a recording raises IndexError at `poettner.py:215`. |
| `report_persist` | `TypeOK`, `DailyAverageDefined`, `GraphStoreRefined`, over three processes that report or abort. | Pass: 2,555 states. The daily average at `filetransfer.py:98` is never reached with an empty `dailyresult`: a run in which no file matched has already raised NameError at line 86. Binding `fsize` before the loop would turn that into a ZeroDivisionError. |

The fault-free exit-status behaviour is a genuine fork: the cleanups only
work if `execute` ignores exit statuses, and spec.md says it does not. The
passing harness runs therefore use `NonZeroExitRaises = FALSE`, and
`harness_exitstatus` shows what the documented contract does.

`NoFalsePass` is checked only in `harness_stale`. A false pass needs two
faults: a lost session that aborts a cleanup, then a receiver timeout in
the next process. With the one fault of `harness_faults`, that property
could only fail if a flagged check failed to set `fail`. The Harness has
no type invariant in any run. Its state is typed by construction, and no
plausible bug in the code would put a variable outside its type.

### Bounds

- **Hosts.** Two hosts: every test case uses `hosts[0]` and `hosts[1]`. A partial failure of the host loops needs a second host.
- **Payloads.** Two payloads. The `fsize` branch at `filetransfer.py:86` only differs from the first-file case after one file has matched.
- **Faults.** One fault reaches each failure point of every program. `harness_stale` needs two: a lost session, then a timeout.
- **Runs.** Two runs are the least that show state carried from one harness process to the next.
- **Scan inputs.** Seven throughput lines hold two logs, each with two records of different sizes. Six memory lines hold a sender and a receiver recording, each with `Mem:` and `Swap:` lines, or two logs.
- **Processes.** Three processes, so that a persistent file accumulates across a process that aborted.
- **Log length.** Logs of 5 lines include spec.md 8.3's `P1 T1 P2 P3 T2` example, and every ordering of supersession, mismatch and a trailing pending line.

### Fairness

- **Runner.** `WF` on the runner step: the runner is one thread that always continues.
- **Receivers.** `WF` on the receiver threads: each is scheduled by the OS and ends at the latest by `dtnrecv --timeout 300`.
- **Restart.** No fairness: a new harness process is an operator's decision.

The log reconciler and the scans are single-threaded loops under `WF`. The report model has `WF` on the steps of a process, and none on `Restart`.

## Not modelled

- Two divergences of `ThroughputReport.run` are recorded as hazards and not kept as runs:
  - `bundles*size*8/1000000` truncates in Python 2 (`poettner.py:257`), so 62,500-byte bundles plot 0 Mbit/s;
  - a first record of size 0 equals the initial `previous_size` (`poettner.py:241,259`), so it opens no graph. `throughput_grouping` keeps sizes non-zero.
- `ManifestFile` (`poettner.py`): reads four fixed lines and swallows IndexError. No property tells its results apart.
- `report/html.py`: `gen` is modelled by the graph saving it does (`ReportModel.Gen`), as one step for all graphs. An IOError partway through `gen`, which would leave some `.dat` files saved and others not, is not modelled. The HTML text, the file layout and the gnuplot calls are output only.
- `Reportable.printReport` outside `SummaryReport` (modelled in `LogReconciler` as `PrintReport`), and `addReportFile`: text and file lists only.
- `defineGraph` with an identifier already defined appends a second graph, and `addGraphableData` feeds both. No caller defines an identifier twice, so this is not reachable.
- The values of the `fsize` and `dailyresult` points of `BaseFileTransfer.run` (kbytes, seconds): a point is abstracted to its identity, and `fsize` to the file it belongs to. The integer division `getsize/1000` at `filetransfer.py:78` is therefore not checked.
- `HTMLReport.writeFiles` and `writeFile`: the pages of report files. A page is named after the file's basename, so equally named config files of two Poettner run directories share one page (`html.py:103`, `poettner.py:96`).
- `ReportGraph.plot` beyond its `save`: it writes a gnuplot script and runs gnuplot, which is output only.
- The option and config-file parsing in `default.py` and `Host.__init__`: it happens once at start-up and nothing reads its result.
- `md5`: a pure hash, abstracted to match or mismatch.
- `utils/ssh`: not in the repository. It is represented by its spec.md contract.
- The test list (`testcases/__init__`): not in `src`. It is the constant `Tests`.
