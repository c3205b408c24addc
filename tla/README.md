# TEECAM in TLA+

TLA+ specifications, model-checking instances and proofs for the COTE3-Mon /
TEECAM prototype: a container writes to secure storage through a gateway, a
monitor scores the gateway's telemetry, and alerts are submitted to an OP-TEE
Trusted Application that answers with chained HMAC receipts.

## The system

| Component | Source | State it keeps | Operations | Interacts with |
|---|---|---|---|---|
| Gateway | `src/gateway/gateway.c`, `src/common/protocol.c` | stop flag and signal disposition, the backend's objects, request metrics, the telemetry file, the summary file | `main`, `serve`, `dispatch`, `record_metric`, `log_event`, `write_summary`, `stop_handler` | clients over a Unix stream socket, a backend by function pointers, the harness by signals and files |
| Request clients | `src/client/client.c`, `src/client/workload.c` | a connection and a request | connect, send, receive; malformed workload | gateway |
| Storage backends | `src/gateway/backend_*.c` | mock: a linked list; OP-TEE: the TA's storage | put, get, delete, create, destroy | gateway, secure-storage TA (outside the repository) |
| Audit TA | `optee/audit_ta/ta/entry.c` | one persistent object: key, sequence, model, head | register, append, get_head, verify | audit-client, OP-TEE secure storage |
| Audit client | `optee/audit_ta/host/audit_client.c` | none | one command per process | Audit TA, monitor (standard output) |
| Software audit store | `cote3mon/audit_store.py` | the same state in memory and in a file | register_model, append, verify_receipt, verify_chain | monitor |
| Offline monitor | `cote3mon/monitor.py` | the alerts file | monitor_batch, verify_chain | audit back ends, detector |
| Online monitor | `scripts/guest-online-monitor.py` | events per window, processed windows, alerts | ingest, score_ready, main loop | telemetry file, audit-client |
| Feature aggregation | `cote3mon/features.py` | none | `read_jsonl`, `aggregate_events`, `percentile` | monitors, training scripts |
| Threshold and forest, evaluation | `threshold.py`, `iforest_runtime.py`, `training.py`, `evaluation.py` | model files | splits, fit, export, score, metrics, resampling | training scripts, the guest |
| Python gateway and protocol | `mock_gateway.py`, `protocol.py`, `workload.py`, `experiment.py` | objects and telemetry of a run, a server thread, a socket path | start, stop, serve, call, `run_mock_experiment` | each other, through a Unix socket and time limits |
| Harness | `scripts/run-qemu-experiments.py`, `run-qemu-performance.py`, `resource.py` | a directory of evidence: configuration snapshot, files and result of each run | main, execute_run, reuse | gateway, container, sampler thread, online monitor: processes, signals, files |
| Analysis scripts | `scripts/stage3-*.py`, `stage4-*.py`, `stage5-*.py`, `qemu-model-parity.py` | a directory of models, vectors, reports, summaries | train, verify in the guest, finalise, analyse, ablate, compare | one another, only through that directory |
| Command line, sessions, build, images | `cli.py`, `scripts/*.sh`, `Makefile`, `container/` | none | sequential | everything |

What is hard in it, and what makes each part correct:

* **Audit TA.** `TA_FLAGS` asks for no single instance, so the commands of two
  sessions interleave between their storage calls, and the machine may stop
  between any two. Correct means: receipts are links of one chain, a receipt
  in somebody's hands is never lost from it, no two receipts are for one place,
  verification accepts exactly what was given out.
* **Gateway.** One thread, but clients that write in pieces, die in the middle
  or before the answer, a signal at any instruction, a handler that is reset by
  the first signal, and files (telemetry, summary) that must agree whatever
  fails. Correct means: clients see one map; what was executed, answered,
  logged and counted is the same; connections end; the process stops.
* **Monitors.** An alert is first appended to the chain and later written to a
  file; events arrive late; a crash comes in between.
* **Software audit store.** Memory changes before the file does.
* **Python gateway.** A server thread per run, time limits that end before the
  work does on both sides. Correct means: a call whose time is up is one call
  still, a run that is harvested is whole, and no run writes into another.
* **Harness.** Five processes and a thread for each run, any of which may fail
  or not end; interruption and power loss while files are written; results of
  earlier starts that are used again. Correct means: a result is of the evidence
  beside it, a collection is of one configuration, no process of a run
  disturbs the next.
* **Analysis scripts.** They know of each other only what is in the files they
  find, may be started again on other data and stop between two files. Correct
  means: what a summary names together belongs together, the model it names is
  the one the guest verified, and the numbers are what the events say.

`PROJECT.json` lists each hazard with its line and the properties that would
catch it going wrong.

## Modules

| Module | Role |
|---|---|
| `AuditLog` | abstract: an append-only log bound to one model, with acknowledgements |
| `AuditChain` | pure: links, receipts, the state and what each command makes of it |
| `AuditTA` | the Audit TA and its client processes; implements `AuditLog` |
| `AuditTAMC`, `AuditTAProofs` | instances and theorems |
| `KVStore` | abstract: a shared map on which each call takes effect at most once |
| `Gateway` | the gateway process, its clients and signals; implements `KVStore` |
| `GatewayMC`, `GatewayProofs` | instances and theorems |
| `AuditRecords` | pure: the records of a chain, and edited lists of them |
| `Monitor` | the offline monitor, the alerts file and `verify_chain` |
| `MonitorMC`, `MonitorProofs` | instances and theorems |
| `AuditStore` | the software audit store and its file; implements `AuditLog` |
| `AuditStoreMC`, `AuditStoreProofs` | instances and theorems |
| `OnlineMonitor` | the online monitor, the writers of its inputs and the clock |
| `OnlineMonitorMC` | instances |
| `OnlineMonitorProofs` | theorems for all delays |
| `MockGateway` | `run_mock_experiment`: the main thread and a server thread per run; implements `KVStore` |
| `MockGatewayMC`, `MockGatewayProofs` | instances and theorems |
| `Harness` | both harnesses, the processes they start and the directory they fill |
| `HarnessMC`, `HarnessProofs` | instances and theorems |
| `Features` | pure: events to windows to rows |
| `Detector` | pure: splits, the two detectors, evaluation |
| `Analysis` | pure: what each script requires and computes, tabulated for each collection |
| `Evidence` | the scripts as processes on one directory of files |
| `EvidenceMC`, `EvidenceProofs` | instances and theorems |

`Evidence` extends `Analysis`, which extends `Detector`, which extends
`Features`. `Gateway` and `MockGateway` implement one `KVStore`, the second with
a map to each run.
`AuditTA`, `Monitor` and `AuditStore` share `AuditChain`: one definition of what
a receipt is, extended by each.

Definitions whose comment begins with "Slip" are not part of a specification.
Each is a plausible mistake in the definition that follows it; replacing that
definition by the slip makes a run report the violation named in
`PROJECT.json`, so every checked property is known to be sensitive to the code.

### AuditTA

`object` is the persistent object; `pc`, `cmd`, `state`, `receipt`, `result`
are, for each session, the position in the command and its locals. A command is
`Invoke`, `Load` (`TEE_OpenPersistentObject` and the read), possibly `Create`
(the `save_state` inside `load_state`), one of `RegisterModel`, `AppendAlert`,
`GetHead`, `VerifyReceipt`, for the first two `Save`, and `Reply`. `Fail` is an
error of any storage or MAC call, `LoseReply` the death of the client process,
`Crash` a restart of the machine. `receipts` is a history variable: what the
client processes have printed.

The HMAC is ideal. A head is the sequence of all links chained to obtain it,
so it is injective in the key and in every field of the message, and two
different histories never have one head.

Storage calls are atomic: `TEE_CreatePersistentObject` with initial data and
the overwrite flag either replaces the object or leaves it as it was. This is
OP-TEE's secure storage, which the repository uses and does not contain. A
rollback of the storage itself (the README excludes RPMB-level resistance), a
corrupt object and the wrap of the sequence number at 2^64 are not modelled.

`SafeUse` is the use for which the TA is correct: at most one session appends
(`OneWriter`), and no second session is open while the object does not exist
yet (`FirstUseRace` is false). The monitor's own use is of this kind; nothing in
the TA enforces it, and the two violation runs show what happens without either
half.

### Gateway

`pc` follows `main` and `serve`; each `read`, the dispatch, the write of the
response, `record_metric`, `log_event` and `close` are steps of their own, and
`Terminate` may come between any two. A connection is one run of a client.
A request is two or three chunks (header, key, value), written one at a time;
`Die` is a client that closes early, as the malformed workload does, or is
killed. The Makefile selects `-std=c11` with `_POSIX_C_SOURCE`, for which
`signal` has its System V meaning: `Terminate` installs the default action, and
`accept` is interrupted, not restarted. Writing to a client that is gone
raises SIGPIPE, which nobody handles: `SendResponse` then is `Killed`.

`store` is the content of the backend as a map, empty or not at the start, for
the objects of OP-TEE persist; an operation of the backend may
also fail and leave it unchanged. `executed` (the result of each request given
to the backend) and `unseen` (the first signal came between the test of
`stopping` and `accept`) are history variables.

Left out: latencies, percentiles, fingerprints, the run identifiers of an
event, request identifiers (the client does not compare them), a write of the
response that is cut in two by the death of the client (the same as its death
before the write), and Linux's allowance of one connection above the backlog.

### Monitor

A batch is `StartBatch`, `RegisterModel`, `OpenAlerts` (which truncates the
file), then for each alert `RaiseAlert`, `AppendAlert` and `WriteRecord`, and
`Finish`. `audit` is the state of the Audit TA, `alerts` what is in the file,
`buffer` what Python has not written yet, `Flush` the moment it does. Any
command of `audit-client` may fail before or after the TA has acted
(`Unanswered`), and a batch may end anywhere: `GiveUp` after an exception, with
the file closed and therefore flushed, `Kill` with the buffer lost. Batches
follow each other on one chain. At the same time a verifier runs
`verify_chain` on what the file holds or on an edited list of records
(`EditedLists`: one dropped, repeated, exchanged or changed, forged heads
included), one receipt to a command, the head of the TA last, while the chain
may grow.

The monitor is the only session that appends, so a command is one step here:
that is what `ImplementsLog` of `AuditTA` shows. A client left running by a
killed monitor has ended before the next batch. A last line that was cut off
does not count as a line. `require_current_head=False`, which nothing passes,
is left out.

### AuditStore

`file` is the content at `self.path`, `temporary` that of the `.tmp` name,
`state` the object of each process. A change is made to the object first
(`RegisterModel`, `AppendAlert`) and saved by `Truncate`, `Write` and `Replace`;
`Return` gives the receipt out. `Exit` is the end of the process anywhere; an
exception while saving is of this kind, for no caller in the repository goes on
with the object. (One that did would find the call that failed taking effect
with the next one that saves, since the object keeps the change.) Only one
process writes, and it creates the file alone: two writers share the temporary
file and are not modelled.

### OnlineMonitor

`now` is the clock; `requests` holds the stamps of all requests, `written` how
many have reached the file, `readRequests` how many of those the monitor has
read, and `samples`, `sampled` and `readSamples` the same of the resource file.
As in the code, a sample names no `event_type`, which the monitor takes for a
request: it may begin the warm-up, it is kept like a request, and a window in
which there is nothing else is scored (`Counted`). A row of a window with
requests is not mixed with its samples, because `aggregate_events` makes a row
for each run, the monitor takes the first, and the samples are of run
`"unknown"`, which sorts behind every run identifier of the harness.
A round is `ReadRequest`s to the end of the file, `ReadSample`s, `ReadClock`,
which decides what windows are ready, the scoring of each in turn, and `Pause`
or, after the third quiet round with the done file there, `ScoreRest`. `rows` is
a history variable: what each window was scored with. Time passes in any step,
bounded only between the stamp of a request or sample and its line
(`WriteDelay`) and between the end of the request file and the clock
(`ReadDelay`); after the container has stopped the gateway may handle requests
for `Drain` more.

`RowsExact` and `EveryRequestScored` are about the requests after the warm-up,
and leave open which of two lines has begun it (`Beginnings`): the first request,
or the first sample, if that one can have been read earlier. In either case all
rows are of one beginning.

Left out: steps of the clock, lines read in part (each is one flush), the
registration of the model and batches (see Monitor), latencies.

### MockGateway

`main` follows `run_mock_experiment` through one run after the other: start the
server and wait for it, `run_workload` call by call, `stop`, harvest. `thread`
is the server thread of each run, which may still be there when the next run
has begun, for `stop` waits five seconds and no longer (`Join`). `call` is each
call as it was sent, `answer` what its client has of it, `failing` and `gaveUp`
how the client's time limit struck: while it connects, before the request is
read, or after the server has acted on it (`TimesOut`). A thread that answers
a client who has gone gets an error (`Reply`), writes its line all the same
(`Emit`), and goes on.

Left out: the parsing of messages (a request that does not parse is one that is
rejected), sizes, fingerprints, the random choice among the operations a
scenario allows, which is any choice, and pauses.

### Harness

`kind` says which of the two programs owns the directory: the second imports
the first and differs in what it compares, when it counts and what else it
starts. `pc` follows `main` and `execute_run`. `snapshot` and `files` are on the
disk and survive `PowerOff`; everything in `procs` does not. Writing a file is
two steps, so that `PowerOff` leaves it `Torn`. The processes of a run (gateway,
container, sampler, monitor) take their own steps, and no fairness is asked of
them: each wait of the harness may end because its time is up.

`Interrupt` is KeyboardInterrupt, at every step of a start. Between the runs it
ends the start (`InterruptBetween`); inside `try` it leads to `finally`
(`InterruptRun`), and the same signal may have ended the gateway and the monitor.
In `finally`, or after the gateway was started and before `try`, it ends the
start without the rest of the clean-up (`InterruptCleanUp`): what then runs moves
to `left`, where gateways go on serving and end when they like, with a summary
under the name they were given, and containers send to whichever gateway
listens. The harness ignores whether `runc delete` succeeds: a container may be
`"kept"` after a clean-up, until its run is made again. The sampler thread
is joined for five seconds; one harness then fails the run, the other goes on, so
that its thread may live into the next run, and ends with the program.

So `NothingLeftRunning` says: what is left of a run was left by an interrupted
clean-up, and then by a start that makes no further run, or is a container
that was not deleted. `ResultMatchesEvidence` grants one thing to a gateway left
by an interrupted clean-up: its summary may replace that of a later run
(`foreign`), from which its telemetry cannot come, because the run removes the
file first. It also grants that files a result counts are missing: `Unlink`
removes the result last, so a start that is cut short there leaves a result that
outlives them, and `result_is_reusable`, which does not ask for the telemetry
file, may take it up.

The gateway is the one of `Gateway`, seen from outside: it binds, takes one
request at a time, writes a line to each, and a first signal ends it after the
request in hand, with its summary. A gateway that is left when it has just been
born is taken to have opened its files; that the exit of an old one removes the
socket of a new one is a container that cannot send. The commands of runc are
taken to return: the harness calls them without a time limit. Left out:
container bundles, command lines, latencies, and the files a monitor left behind
goes on to write.

A run that ends without one resource sample is written as PASS by
`run-qemu-experiments.py` (227-246) but never found reusable again (125-126), so
a start that resumes refuses the directory; the model has this step (`Refuse`).

### Features, Detector, Analysis

An event is known by its place in the list of all events, so that rows are of
sets of places: those outside the warm-up (`Kept`), those of a bucket
(`BucketOf`), those of its requests by time (`ByTime`).

Events, rows and models are records of integers: times in ticks, a ratio as the
pair of its terms, a threshold in hundredths, a metric in thousandths. What a
seeded generator gives (`Permutation`, `Draws`) is a constant, the same for each
script, since every script passes the seed of the configuration. scikit-learn
is outside the repository: `Forest` grows one tree that splits on each feature
that varies, which is enough for models to differ with their data and features,
for scores to follow paths, and for the exported score (leaf depth, sample
count) to be compared with the library's (edge by edge). `Analysis` applies the
same definitions to every collection in `Collections`, once, in tables.

`stage5-statistical-comparison.py` divides by the runs of an attack and takes the
ends of a list of resamplings; on a collection where either is empty it stops
with an exception before it writes (`Comparable`).

Left out: sums of sizes and latencies, rates, and the confidence intervals of the
performance means, all of which are one more mean over the same rows.

### Evidence

`disk` holds each file as [state, of, names]: which collection it was computed
from, and the files, as they were then, whose digests it contains. `host` and
`guest` are the script at work on either side, with the step it is at and what
it has read. `Write` takes a script from one file to the next, `Refuse` ends it
where a `require` fails, `Interrupt` ends it anywhere and may leave the next file
cut off; in the guest a write may be cut off too. A script may start whenever
what it loads can be read. `qemu-model-parity.py` reads the model twice
(`HashModel`, `LoadModel`), and the model may change in between.

The report of the guest has the digest taken by `HashModel` and does not say which
model was run; the model keeps that under `"loaded"`, so that
`FinalNamesVerifiedModel` is about the model that was run and not about digests
the finalising script has just compared. The digests of the summaries are of the files on
the disk when they are written: in stage 3 the guest may have written its report anew
since the script read it. Stage 4 finalises a copy (`stage4-finalize-evidence.sh`).

Assumed: a collection that was replaced does not come back, nor a model
(`ReplacedAssumption`; otherwise the guest could hash the old, run the new and
report the old one, back on the disk by then); one script runs on
each side at a time; digests are equal exactly if the
models are. The session scripts send a command to the guest at any time
(`Visit`). The shell pipelines run the scripts once in a fixed order, and those
of stages 4 and 5 refuse a directory that is there: their order is one of those
the run explores.

Known and not stated as a property: after an interrupted repetition of the
training, `stage3-finalize.py` accepts metrics and a split of another
collection than the model, because it compares only the model's digest
(`SummaryVouches` says what would tell); `stage4-complete.py` does not compare
the metrics with the digest in the final summary; `auprc` depends on the order
of windows with equal scores, which differs between `stage5-feature-ablation.py`
and `stage5-statistical-comparison.py`; an ablation that refuses its input
leaves its directory behind and cannot be started again on it.

## Runs

| Run | Shows |
|---|---|
| `audit_one_writer` | a writer and a reader from an empty storage on, crashes, failures, lost replies: types, chain, exact verification, refinement of `AuditLog` |
| `audit_two_writers` | violation of `NoFork`: two writers get receipts for the same place |
| `audit_first_use_race` | violation of `ReceiptsStayGenuine`: a reader recreates the object with a new key |
| `gateway` | two connections, a signal, all failures: accounting, summary, complete requests, refinement of `KVStore`; connections end, a seen stop request stops the gateway |
| `gateway_lost_wakeup` | violation of `SigtermStops`: the signal before `accept` |
| `monitor_batches` | batches that end anywhere, a concurrent verifier and edited lists: the file follows the chain, nothing is missing from it, verdicts are exact |
| `store_reader` | a writer that may die in a save and an earlier reader: the file is complete and holds every receipt, verdicts are true, refinement of `AuditLog` |
| `online_in_time` | gateway, sampler and monitor in time, with samples as the harness writes them: rows are exact, every request after the warm-up is scored, a PASS reports every alert |
| `online_samples` | violation of `SamplesAreNotRequests`: untyped samples are scored as requests |
| `mock_gateway` | two runs one after the other, calls that time out anywhere: one line to a call, a harvested run is complete, refinement of `KVStore`, the experiment ends |
| `harness_restarts` | both harnesses, two starts, interruption and power loss anywhere, in the clean-up too: results match their evidence, collections are of one configuration and duration, finished runs are kept, what is left running is of a start that goes no further or not deleted by runc, every start ends |
| `evidence` | the scripts of stages 3, 4 and 5 with the guest, interrupted and repeated on six collections and two measurements: one verified model, a summary that vouches, an ablation of one model, exact features, sound metrics |

Bounds, and why they are enough. *Audit:* `MaxSequence = 2` lets no append
start once the stored sequence number is 2, so chains have two links, and
three where an append had been started before: enough for a link with a
predecessor and one with a successor. Two models are needed for
the conflict, two alerts and two keys for a receipt to be wrong in one field.
Two sessions are the fewest that race; a third only repeats one of them.
*Gateway:* two connections are the fewest of which one waits while the other is
served; what a third would have stored is among the arbitrary initial contents
of the store. `FirstCapacity = 1` (1024 in the code) makes
the array grow on the first and the second request. `MaxSignals = 1`; the
second signal, which finds the handler reset, is left to the theorems, which
are for any number. `Backlog` (32 in the code) is 1, so that it fills. *Monitor:* `MaxSequence = 3` gives lists with a first, a middle and
a last record, over two or three batches. *AuditStore:* two entries and two
processes, as for the TA. *OnlineMonitor:* in units of a window's half, so that
a window, the slack and the pause are two, each delay one, the drain two: the
delays just fit (`InTime`), and with three requests one may be of the warm-up,
one read in time and one late. The clock stops at 7, after a whole run of the
loop with its three quiet rounds. *MockGateway:* two runs are the fewest of
which one can disturb the other; five calls contain a call that
times out, one that follows it and one that is still under way at the end. *Harness:* a run without and one with telemetry
and monitor, two durations, so that a start can ask for something else than the
one before, and two starts: one that is cut short and one that resumes, starts
over or asks another question, with what the first has left. There is one
configuration file: for others there is the theorem `Complete`. *Evidence:*
fifteen runs, five of each scenario, the fewest a
stratified split takes; six collections: one, one that differs from it in one
run and gives the same model, one without fingerprints, one with a failed run,
one with a run without samples, one with a run that ends in its warm-up; one
interruption. In stages 3 and 4 three and four scripts are started on
the host and two and one in the guest; in stage 5 four and three: enough to train,
verify, train again and finalise, and in stage 5 to go from the ablation to
its final check. Every script reaches its last file.

Deadlock is checked for the Audit TA, the monitor and the store, which can
always be called again, and not for the others, which stop or are not started
again after the bound.

Fairness (`LiveSpec`). `GatewayProgress`: the process is scheduled whenever it
can run; `AcceptFails` is not part of it, for `accept` need never fail.
`ClientProgress(c)`: each client writes the rest of its request and reads the
answer unless it dies. The second is an assumption about the clients of the
repository, not about the gateway, which sets no time limit on reading: one
client that neither writes nor closes stops everybody.
`MockGateway` and `Harness` ask only that the main thread, or the harness, is
scheduled (`WF` on `MainStep`, `Step`): their waits have time limits, so that
nothing is assumed of server threads, containers, gateways or monitors.

## What is proved

TLAPS checks the theorems for every value of the constants, under the
assumptions stated with the constants (`WritersAssumption`,
`BacklogAssumption`, ...), which TLC evaluates for its instances.

*AuditTA.* `TypeCorrect` needs no restriction on use. The others assume
`SafeUse`. Their inductive invariant `IInv` says that the stored head is a
chain of links numbered from one, all with the stored key and, once there is a
link, with the stored model; that every receipt in somebody's hands is a prefix
of it; and that the copy of the state a command works on is the stored one
(writer) or a prefix of it with the same key (reader). The last part is what
`ReceiptsOnChain` alone lacks: without it a `Save` could put back an old chain.
`ReceiptsStayOnChain`, `ChainDoesNotFork`, `ReceiptsRemainGenuine` and
`VerificationIsExact` follow from `IInv`, and `Refinement` maps each `Save` of an
append to `Accept`, of a registration to `Register`, each `Reply` with a new
receipt to `Acknowledge` and all else to stuttering.

*Gateway.* `ShapeInv` is `TypeOK` with two facts about where connections are:
nobody is queued twice or while being served (`QueueInv`), and what was read of
the current request is well formed, complete from dispatch on (`RequestInv`).
`TypeCorrect` and `OnlyCompleteRequests` follow. `CountInv` adds that the
metrics are ahead of the telemetry by exactly the request between
`record_metric` and `log_event`, from which `SummaryIsExact` follows.
`AccountInv` adds that nobody in the queue has been executed, that between
dispatch and log the response is the result of the request being served, and
that everybody else who was executed is accounted for: `EveryEffectIsAccounted`.
`RelayInv` adds that the response is blank until dispatch and that what was
sent is what was executed; with it `Refinement` maps `Connect` to `Make`,
`Dispatch` to `TakeEffect` or `Refuse`, `Receive` to `Tell`, all else to
stuttering.

*Monitor.* `IInv` is `TypeOK` with three parts: the chain is well formed
(`ChainInv`); the lines of the file and of the buffer are consecutive entries of
it, and the batch lacks at most the alert it has in hand (`FileInv`); and what
the verifier has accepted so far is a prefix of the chain (`VerifyInv`).
`FileAlwaysFollowsChain`, `NothingIsMissing` and `VerdictIsExact` follow, for
every list a verifier may be given.

*OnlineMonitor.* `TypeCorrect` and `ReportExact` hold whatever the delays are.
`RowsCorrect` and `NothingIsMissed` assume `InTime`, and nothing of the samples. Their
invariant `IInv` carries the argument about time: a request is written within
`WriteDelay`, and none is handled `Drain` after the done file (`ClockInv`); so
what is unread when the request file has been read to its end is at most
`WriteDelay` old (`DelayInv`), and a window that is over by `Slack` at the clock
that follows is over before anything unread (`SettledInv`). Each quiet round has
taken a pause (`QuietInv`), so by the forced round the gateway has drained and
nothing is unread (`FinalInv`). With what is kept being what was read
(`IngestInv`), a row gets all the requests of its window, no request enters the
window later (`RowsExact`), and a window with requests that was taken has its
row (`RowsInv`). `RowsExact` alone says nothing of a line that is still on its
way.

`ChainFollowsWindows` has an invariant of its own on top, `OrderInv`: of the
windows with requests, those taken, those ready and those to come follow each
other. Without `SettledInv` a late request could open a window before one that
was taken.

*AuditStore.* The theorems assume `OneWriter`, as the model of two processes
does. `IInv` says that the file, once there, is a numbered chain of one key and
one model that holds every receipt returned (`FileInv`); that a process which
saves is exactly one call ahead of the file and is the writer, one that creates
the file is alone, the temporary file is the writer's state when it is renamed,
and what another process has loaded is a chain the file continues
(`ProcessInv`). `TypeCorrect` needs all of it: the file is complete because
what is renamed was written. `VerificationExact` compares the heads from the
last one, which must be the chain's, back to the first, each step by
the injectivity of the MAC (`HeadsAgree`, an induction by `LeastNumber`). `Refinement` maps
the rename of an append to `Accept`, of a registration to `Register`, of the
first file to stuttering, and `Return` with a receipt to `Acknowledge`.

*Harness.* The theorems are for any matrix of runs (`N`, `Silent`, `Monitored`
under `RunsAssumption`), any number of starts and requests, and both programs.
What `ResultMatchesEvidence` alone lacks is why files stay as they were counted:
`QuietInv`, `GatewayInv` and `EndedInv` say which processes there are at each
step of a run, that the gateway has a line for each request it has served, and
that in the performance harness it has ended before anything is counted;
`RemovalInv` and `RunInv` that the files of an earlier attempt go before the
result, which goes last, and that a new result comes last;
`LeftInv` that a gateway left behind writes at most to the telemetry file of a
run that is not under way, alone, and in the performance harness of no run with a
result; `CountInv` that what was counted is in the files; `CollectionInv` and
`SnapshotInv` that the runs behind the one under way answer the question of this
start and the snapshot on the disk is of it. `MatchesEvidence`, `Complete`,
`NothingLeft` and `ResumeKeeps` follow. An interruption and the loss of
power may come at any step, in `finally` and before `try` too, so each part is proved for
`Torn` files and with processes left.

*MockGateway.* The theorems are for any number of runs and calls, any backlog
and any scenarios. A thread that outlives its run shares the telemetry file with
the next one, so the invariant is about all threads at once. `RunInv` says which
threads there can be where the main thread is; `ServeInv` which call each
serves, which wait, and that they wait in the order they were made; `OrderInv`
that the lines are in that order and ahead of those; `KnownInv`, `ServedInv` and
`LinesTell` that a call the gateway has begun is in its hands or has its line,
and that the line tells what the client was told. `OneLine` follows.
`AnsweredInv` and `JoinedInv` add that the main thread leaves a call that is not
malformed only with an answer, and a run only with its thread gone or given up
on, `ByRun` that lines of later runs come later: `Complete`. For `Refinement`,
`AnswerInv` adds that an open call has not been read; it maps, for
each run, `Connect` to `Make`, `Apply` to `TakeEffect`, `Receive` to `Tell` and
all else to stuttering. A call that times out is one that is never told, and may
still take effect.

*Evidence.* The theorems are for any collections, measurements, configurations
and feature sets, and any number of starts, visits and interruptions. Of the pure
modules those about the scripts use only that a verdict is a function of the
collection, and that two models have one digest if they are equal; `NamesAssumption` says that the
feature sets have files of their own. `Final` needs four parts: models on the disk only get later
(`ModelInv`); while a guest script is under way the model it has hashed is not
later than the one it has loaded, and that is not later than the one on the
disk (`GuestSees`, `Verifying`); so a report whose digest is of the model that is there now is
of a guest that loaded it too (`IsReport`, `Exported`), since one replaced does
not come back; and no script rewrites the model while one that has read it
finalises (`FinalInv`). `Vouches` needs that the
collections only get later, that a training writes the features first and the
summary last, and has all it has measured from its own collection (`TrainInv`):
so nothing measured is of a later collection than the features, nor of an
earlier one than the summary (`VouchInv`), and between a summary and the features
it names there is no room. `OneModel` needs that a model, once whole, is never
written again (`AblateInv`): the directory is there as long as anything is in
it, and the one ablation that found none has yet to write what is missing. Then
whatever names a model names the one on the disk (`NamedInv`), and so does what
a script has read and not yet written, on either side (`HostRead`,
`GuestRead`). `OnlyAccepted` and `OnlyAcceptedAblation` say which collections
the features, the metrics, the results and the comparison can be of.

`RowsComplete` (`FeaturesAccountForRequests`) is about what `AggregateEvents`
computes, for any lists of events (`CollectionsAssumption`: what the files hold
are events with times and sizes in Nat) and any `Window` and `Warmup`
(`LengthsAssumption`). The rows are those of the buckets in their order, which is
a list of each bucket once: to have fewer buckets before it is to have another
rank, so the ranks are a bijection (`Ranks`). The requests of a row are the
places of its bucket by time, as many as the places (`ByTimeIs`, `Failed`); the
operations partition them, so that their sum is the number of requests
(`ClassSizes`). The first request of a run is a minimum that exists
(`LeastNumber`), which makes the code's test of the warm-up the one of the
property (`FirstIs`, `KeptIs`). Two windows that share a time are one
(`OneWindow`), so a request has one row. The sums of the library are recursive
functions over sets; that such a function exists for every finite set is shown
by taking the least size of a set for which it does not (`SumExists`).

`SoundMetrics` (`MetricsAreSound`) is about what `Evaluate`, `FitPercentile`,
`Forest` and `Compared` compute, for any collections, feature sets and draws.
It assumes that shuffling the runs of a collection loses none
(`PermutationAssumption`), and that the baseline has a feature
(`BaselineAssumption`). A list that is chosen from another is given by the
places of its elements (`AtIs`), so that a tally is the number of places
(`TallyAt`, `TallyUnion`). With the cuts of each scenario, which leave no run out
(`ThirdsAre`, `CutIs`), the parts hold every benign window once (`SplitIs`,
`PartsAddUp`); the scenarios and the four classes of `Classify` partition the
windows tested (`ScenariosAddUp`, `Tallies`). The threshold of either detector is
the 99th percentile of the validation scores: an interpolation that lies between
two neighbours of the sorted scores (`SortedIs`, `PlaceIs`, `Between`,
`PercentileIs`), so that no more than the rest is above it (`Calibration`). For
that the scores have to be integers: `DeviationIs` for the percentile detector,
and `ForestScore` for the exported forest, whose path is a recursion on a rank
that `RecursionExists` builds by taking the least number at which it does not
exist. `FitCalibrated` and `ForestCalibrated` give `EvaluationIs`. The comparison
reads the windows again from the table of all rows; `ComparedRowsAre` says that
these are the windows the ablation tested, in an order of their own, and a
tally does not depend on the order (`TallySame`); the runs of one scenario are
counted by subtraction (`DifferenceAdds`), which gives `ComparisonIs`. On the
disk there are then only metrics of a stage that has them (`StageInv`), of a
collection whose split was found sound and whose model scores as the library
does (`OnlyAccepted`), and comparisons of a collection they can be made on
(`ComparedInv`).

Every invariant, every action property and every refinement the runs check is
proved. Only model-checked, and why: the liveness properties
(`EveryConnectionEnds`, `StopsWhenSeen`, `ExperimentEnds`, `EveryStartEnds`),
which rest on fairness; and the four violations.

## Findings

* Two concurrent appends fork the chain (`entry.c:147`, `audit_two_writers`).
* Two concurrent first commands replace the key (`entry.c:48`,
  `audit_first_use_race`).
* A SIGTERM just before `accept` is slept on (`gateway.c:266`,
  `gateway_lost_wakeup`); the integration test sends it once and waits.
* The samples of the performance runs carry no event type and are taken for
  failed requests (`run-qemu-performance.py:68`, `online_samples`).

## Plan

Done: all the modules above, and theorems for every component with a state:
`AuditTA`, `Gateway`, `Monitor`, `AuditStore`, `OnlineMonitor`, `Harness`,
`MockGateway` and `Evidence`.

Left, in this order:

1. The mock backend's linked list as an implementation of the map of `KVStore`.
2. The digest of the metrics that `stage4-complete.py` takes, as a property of
   scripts that are started out of order.

## Not modelled

* Sums of sizes and latencies, rates, confidence intervals and plots: real
  arithmetic without control.
* The parsing of the text protocol and of command lines, container bundles.
* Build, image and session scripts: sequential, and all their effects are
  outside the repository.
* The kernel, the container runtime, scikit-learn, OP-TEE and its secure
  storage: outside the repository, modelled only by what the code uses of them.
