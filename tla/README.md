# Verification of qpu-resource

This directory holds TLA+ models of qpu-resource, the integration of quantum
backends (through QRMI) into the Open Cluster Scheduler (OCS), with the TLC
runs that check them and the TLAPS proofs about them. Three specifications
cover the system: the queue hooks (`QueueHooks`), the load sensor
(`LoadSensor`) and the configuration of the cluster (`ClusterSetup`). Paths
below are relative to the repository root.

## 1. The system

| Part | State it keeps | Operations | Hard behaviour | Correct when |
|---|---|---|---|---|
| **Prolog** (`src/cmd/qrmi-ocs-prolog-go`, `src/cmd/qrmi-ocs-prolog`) | its token in memory; `environment` and `qrmi_ocs_acquired.tsv` in the job's spool directory; a session at the backend | ask qmaster for the request, check that the host offers it, load `qrmi_config.json`, acquire, export, record | a failure or a kill between any two calls; the reply of an acquisition lost; a full disk; C allocations | a running QPU job has a session that its environment and its metadata name; no failure path forgets a session; the exit code blames who is at fault |
| **Epilog** (`src/cmd/qrmi-ocs-epilog-go`, `src/cmd/qrmi-ocs-epilog`) | the token read from the metadata; `usage`; `qrmi_failed_releases/` on the host | read, release, remove or keep the file, publish accounting | a release that fails with or without effect; torn or unreadable files; the same job failing twice | what cannot be released is kept, permanently; accounting tells the truth; the epilog never blocks the job |
| **Shared hook code** (`src/internal/qrmiocs`) | the files above | `JobEnv.Set`, `WriteAtomic`, `ReadStrictSingle`, `PreserveFailedRelease`, `ExitCode` | a flush error that sticks; rename and link semantics | no reader sees a partial record |
| **QRMI wrapper** (`src/internal/qrmi`) | a C handle | `Acquire`, `Release`, `IsAccessible`, ... | calls that take effect and fail | outcomes are reported as errors |
| **Launcher** (`src/cmd/qrmi-ocs-launch`, `sanitize.go`) | none | validate the environment and the hook binary, exec | a refused epilog leaves a session behind | a hook runs with trusted values or not at all |
| **Load sensor** (`src/cmd/qrmi-ocs-load-sensor`, `src/internal/availability`) | provider configuration | answer each line of execd with a report | late, malformed or missing answers | fail closed: never ready without evidence |
| **Adapter** (`src/cmd/gridware-adapter`) | the cluster configuration in qmaster | show-modify-write sequences of qconf calls | partial failure, reruns, two administrators | a rerun completes the work, no other entry is lost |

OCS starts the prolog through the launcher; its exit code decides whether the
job runs (0), goes back to the queue (99), goes into error state (100) or goes
back with the queue instance put into error state (anything else). The job
reads the environment file. After the job, and possibly after a failed prolog,
OCS starts the epilog, which has no memory of the prolog: the metadata file is
all that connects them. Then OCS deletes the job's spool directory. A
rescheduled job has the same name and may meet what an earlier run left in the
recovery directory of the host. Each hook exists as a C program and as a Go
port, meant to be interchangeable.

The hazards this creates are listed with their source lines in `PROJECT.json`.

## 2. Modules

| Module | Models |
|---|---|
| `HookState` | constants, the state shared by the hooks, the elementary steps of a hook process, what the backend does with a release |
| `PrologGo` | `runWithConfig` of the Go prolog, one action per call that reaches outside the process |
| `PrologC` | `main` of the C prolog, likewise |
| `EpilogGo`, `EpilogC` | the two epilogs |
| `QueueHooks` | composes the hooks with OCS (dispatch, exit codes, spool removal, reschedules, kills); the specification and all properties |
| `SessionLease` | the abstract specification: sessions, who holds their tokens, which jobs have a record put aside |
| `MCQueueHooks` | request sets and symmetry for TLC |
| `LoadSensor` | the load sensor, its availability providers, execd at the other end of its pipes, Warden; the specification and its properties |
| `ReadinessView` | the abstract specification: what the scheduler is told about the backend, and what the backend really offered |
| `MCLoadSensor` | configurations and Warden answers for TLC |
| `Launcher` | the decisions of `qrmi-ocs-launch` and of the hooks' own environment reset, as operators |
| `ClusterSetup` | the adapter's commands, run by several administrators on one qmaster; uses `Launcher` to say what the configured hooks make of a job |
| `MCClusterSetup` | clusters and commands for TLC |
| `QueueHooksProofs` | theorems about `QueueHooks`: types, the frame of each step, kept records |
| `GoRecordProofs`, `AccountingProofs` (extends it) | the Go prolog's record; what accounting says and releases do |
| `SessionProofs`, `LeaseProofs` (extends it) | where sessions are; the refinement of `SessionLease` |
| `ExitCodeProofs` | whom the exit codes blame |
| `LoadSensorProofs` | theorems about `LoadSensor`, with the refinement of `ReadinessView` |
| `ClusterSetupProofs` | theorems about `ClusterSetup` |

`PrologImpl` and `EpilogImpl` choose the installed binaries, so that the C
pair, the Go pair and both mixed installations are instances of one
specification. In each module a definition introduced as a *faulty variant* is a plausible bug of the definition below it; it is used by no
specification, only to show that the properties notice the bug.

### State and code

The hooks:

* `phase`, `host`, `attempts`, `outcome`, `qerr`: OCS, external to this
  repository; modelled from what the hooks rely on (`qrmiocs/sanitize.go`,
  lines 240-248, and the README's section on exit codes).
* `pc`, `tok`, `code`, `failed`, `total`, `envBroken`: the memory of the one
  hook process of a job. `pc` names the next call. `envBroken` is the error a
  `bufio.Writer` keeps: after one failed `JobEnv.Set` every later one fails.
  `total` is the C epilog's record counter.
* `spool`: `qrmi_ocs_acquired.tsv`: absent, empty, a part of a record
  (`TornFile`), or the record of a token.
* `envStatus`, `envTok`: `qrmi_prolog_status` and the token in the job
  environment. `usage`: the `usage` file; a partly written one counts as none.
* `kept[h][j]`: `qrmi_failed_releases/<job>.<task>.tsv` on host `h`.
* `sessions`: the tokens whose session is open at the backend. QRMI never
  issues a token twice, so the token of a job's n-th dispatch is `<<job, n>>`.

The load sensor (`cmd/qrmi-ocs-load-sensor/main.go`, `internal/availability`):

* `proc` is the place of the sensor: reading its configuration (`Run`), in the
  scanner (`Scan`, `Leave`), in the provider (`AskFailed`, `AskStatic`,
  `ReadStateFile`, `AskWarden`, `ReceiveAnswer`, `RequestFails`), or in one of
  the writes of `writeReport` (`WriteReady`, `WriteSlots`, `WriteEnd`).
  `status` is what the provider returned, `request` the HTTP request of the
  cycle, `frame` what has been written of the report.
* `loaded` is the configuration file as `run` found it; `file` is that file
  now, and an edit reaches the sensor only at its next start. `LoadConfig`,
  `ApplyDefaults`, `protocolFields` and `StartupFails` are the code's
  normalisation of it.
* `polls`, `closing` and `out` are the two pipes; `load` and `owed` are execd's
  side, external, modelled from the protocol the sensor implements: it may poll
  before the last poll is answered, send `quit`, close the pipe or vanish.
* `window` is no state of the program: it collects every slot count that was
  truly on offer since the cycle began, which is what a report may repeat.

The cluster configuration (`cmd/gridware-adapter/main.go`):

* `db` is qmaster: objects (complex entries, hosts, host configurations, the
  global configuration, the queue), each a map of attributes, written only as
  a whole. `Tasks` is the sequence of changes that a command's options ask for,
  in the order of the code; a task is a `Show`, then nothing, an `Add` or a
  `Modify` of the copy that was shown, each a step of its own.
* `runs[a]` is the adapter process of an administrator: the task it is at, the
  copy it holds, and the spool roots it has collected (`ShowGlobalRoot`,
  `ShowHostRoots`). `HooksAdmitEveryHost` hands those roots to `Launcher`.
* `foreign`, `raced` and `fresh` are no state of the program: what an operator
  last wrote to an unrelated attribute, which objects were edited while a run
  held a copy of them, and whether the hooks in the queue come from a run begun
  after the last change of a spool directory.

### Abstractions

A request is what the hooks tell apart (`Request`): the parsing of qstat and
qconf output is represented by its outcome. Every call returns one of the
answers that the faults of the instance (`Faults`) allow: a fault may occur at
any such call, any number of times. A malformed slot count stands for every
value that is no positive integer, a float overflow included. A kill falls
between two calls; a kill inside a call is the kill before or after it, except
in `WriteAtomic`, which is one step because its rename makes it one for every
reader (a temporary file that a kill leaves behind is not represented; nobody
opens it), and in the C prolog's metadata write, whose three outcomes are all
explored. The launcher and the hook's own
check of its environment are the fault `start` (exit 1 or 100). The epilogs'
best-effort copy of the accounting into the job environment is left out. A
token with a tab or a newline, which `WriteAtomic` rejects and QRMI does not
issue, is left out.

After a failed prolog OCS may or may not run the epilog: both are explored.
OCS always empties the job's spool directory in the end (`Reap`, external),
also after a host went down: the hooks rely on it, and what an earlier run
leaves to a later one is in the recovery directory only. `KeptFor`, behind
`SessionsAccounted`, counts any kept record of the job. That is as much as the
code promises, since the file has the name of the job, and the difference
matters in one case, which `kept_collision` shows.

The load sensor: names in the configuration are absent, unusable in the
protocol, or usable; a state file holds `1` or anything else (`0` and every
error end as not ready). An answer of Warden is its status class, the form of
its body, `accessible` and the slot count, which may be negative. The deadline
of a cycle, a failed connection and an invalid URL are one action
(`RequestFails`), possible whenever a request is under way, an answer that has
just arrived included. Execd sees a frame once it is whole: what a sensor
that dies has written of a frame has no `end` line. The joining of the URL is
left out.

The launcher and the adapter: a directory is a value, and `Below`, `Plain` and
`SgeCell` say what the code's patterns tell apart about it. Port numbers, `TZ`
and `HOME`, flag parsing, `--dry-run` (which writes nothing) and the spelling
of the hook command are left out. A complex entry is of the right shape or not,
and a textual attribute is what the adapter writes or `"old"` (`Text`).
The configurations of the hosts are read in one step. The hooks in the queue
are represented by the spool roots on their command line. A command stays the
same when it is repeated; what two commands with different options do to one
attribute is the later one's value, so the instances give the administrators
the same or complementary options.

## 3. What is checked

Properties are defined and explained at the end of `QueueHooks`, `LoadSensor`
and `ClusterSetup`.

| Run | Instance | Shows |
|---|---|---|
| `go_all_faults` | 1 job, 2 hosts, 3 dispatches, all requests, all faults | under every fault including kills: `RunningIsRecorded`, `SuccessAfterRecord`, `RecordsAreWhole`, `ReportedReleaseHappened`, `TotalCountsRecords`, `KeptIsPermanent` |
| `go_release_faults` | 2 jobs, 1 host, 2 dispatches; qmaster, backend, release, host, read | `SessionsAccounted`, `FailureLeavesRecord`, `EpilogReleasesOpenSession`, and the refinement `ImplementsLease` |
| `mixed_disk_faults` | Go prolog with C epilog; 2 jobs, 1 host, 2 dispatches; backend, disk | a full disk alone orphans no session, and the two implementations agree on the metadata: `SessionsAccounted`, `ImplementsLease` |
| `go_temporary_faults` | 1 job, 2 hosts, 3 dispatches, every backend request; qmaster, backend, release; fairness | `QueueErrorMeansHostFault`, `JobErrorMeansBadRequest`, `SessionsSettle`, `DispatchedJobsComeBack` |
| `c_working_disk` | 1 job, 2 hosts, 2 dispatches, all requests; every fault but `disk` | the C hooks with failed allocations, unreadable files and kills: `SuccessMeansRecord`, `EpilogReleasesOpenSession`, `ReportedReleaseHappened`, `KeptIsPermanent` |
| `c_release_faults` | 2 jobs, 1 host, 2 dispatches; qmaster, backend, release, host | the C hooks on a working disk: `SessionsAccounted`, `RunningIsRecorded`, `FailureLeavesRecord`, `JobErrorMeansBadRequest`, `ImplementsLease` |
| `load_sensor` | 5 configurations, 6 answers, 2 starts; fairness | the sensor fails closed: `ReportsAreWhole`, `OneReportPerPoll`, the refinement `ReadinessIsBacked`, and `LossReachesScheduler`: a backend that is lost is reported as lost in the end, though Warden never answers again |
| `cluster_setup` | 2 administrators, 2 hosts, 2 clusters, 3 pairs of commands, 1 failing call, 1 edit; fairness | interleaved and failing runs: `SetupIsComplete`, `HooksComeAfterResources`, `ForeignSettingsKept`, `HooksAdmitEveryHost`, `RunAgainRenewsHooks`, `EveryCommandSucceeds` |

Four runs show where the code does not do what a document or comment says;
each is a finding in `PROJECT.json` with the text quoted:

| Run | Shows |
|---|---|
| `go_bad_slots` | a bad slot count puts a healthy queue instance into error state |
| `kept_collision` | the second failed release of a job on a host is not kept |
| `c_lost_metadata` | a full disk loses the record of a running job unnoticed |
| `cluster_spool_roots` | when `ShowGlobalConfiguration` fails, the adapter installs hooks that refuse the jobs of every host without a spool directory of its own, and reports success |

More disagreements are in the model. TLC finds each of them when a
configuration is changed as the second column says:

| Violated | With | Because |
|---|---|---|
| `QueueErrorMeansHostFault` | C prolog, faults `{"qmaster"}`, good slot counts | `export_scheduler_slots` (`qrmi-ocs-prolog/main.c:325`) turns the temporary failure of a second qstat into a host error; README of the repository, 254-255: "`1` (queue error) only for host or configuration problems" |
| `SessionsAccounted` | C prolog, faults `{"memory"}` | the token of an acquisition is forgotten when the allocation of its record fails (`qrmi-ocs-prolog/main.c:1064`); comment at 780: "so partially acquired tokens are not leaked" |
| `RunningIsRecorded` | C prolog, faults `{"memory"}` | an allocation that fails while the request is read is taken for a job without a request (`qrmi-ocs-prolog/main.c:481`); README, 251-252: "`0` when the job is set up or requests no QPU" |
| `TotalCountsRecords` | C prolog with Go epilog, faults `{"kill"}` | the Go epilog accounts a record for an empty metadata file (`qrmi-ocs-epilog-go/main.go:240`); README, 409: "number of non-empty metadata records seen" |
| `LossReachesScheduler` | `StuckFiles = TRUE`, a static configuration with a state file | `os.ReadFile` (`availability/static.go:19`) knows no deadline: a file system that hangs stops the sensor and the last report stays in force; `load_sensor.md`, 75: "timeouts fail closed" |
| `HooksAdmitEveryHost` | a spool directory outside `Plain`, or `SgeCell = "dots"` | `CleanEnv` (`sanitize.go:178`) refuses names that the launcher and the adapter accept, for every job |

And one that is only noted: with `--prolog NONE` and no `--launcher`, the
launcher's default path is taken from the prolog's directory
(`gridware-adapter/main.go:640`), is relative, and the command fails although
the epilog's path is good.

**Bounds.** `MaxAttempts` is the only bound on behaviours (dispatches per job).
Two dispatches let a job meet what its earlier run left behind, on the same
host or another; a third adds a run after a collision. One job suffices for
properties of one job, since hooks of different jobs share only the sessions
and the recovery directory, which both are indexed by job; the runs with two
jobs check that this is so. The proofs below have no bound. The runs that show
a disagreement have the smallest instance in which it happens, with the one
fault that it needs.

In `load_sensor` a poll can wait while one is served and a frame waits to be
read (`MaxPolls = MaxReports = 1`), so that a report can be three changes of
the backend old; two starts are a stop in any of the three ways at any step,
and a restart with an edited configuration. The sensor's loop keeps nothing
from one cycle to the next, so longer queues repeat these cases. In
`cluster_setup` two administrators, one failing call at any place (with or
without effect) and one edit at any moment; commands are repeated without
bound. A second fault hits a rerun that meets what any first one left.

**Lost updates.** The adapter's Show and Modify are not atomic. An edit made in
between is lost (`raced` excludes it from `ForeignSettingsKept`, and from
`HooksAdmitEveryHost` for a lost spool directory), and so is the other
administrator's change of the same object; `SetupIsComplete` shows that the
latter is repaired in the end when both run the same command, since the one who
overwrote the other's change makes that change too, later in its own run.
Likewise the spool roots are read some calls before the hooks are written, so
that hooks can be older than a host's spool directory. `RunAgainRenewsHooks` is
the repository's remedy, to run the command again: it holds although the queue
has hooks already and a run from before the change may still write its own.

**Fairness.** `FairSpec` asks that a hook which can take a step does (it is a
sequential program whose calls return), that OCS acts on the exit of a hook and
removes the spool directory, and that a job ends. Dispatch is not fair, nor is
the clearing of a queue's error state, nor any particular answer of a call: a
release may fail forever. For the sensor, each of its steps ends, those that
wait for Warden by the cycle's deadline, and the read of the state file when
its file system answers (`~StuckFiles`); execd restarts a sensor that has
ended, polls it and reads its reports; Warden owes no answer. For the adapter, a command that was started
ends, and an administrator repeats one that failed; failing calls are bounded
by `MaxFaults`.

**Survivable faults.** `SessionsAccounted`, `SessionsSettle` and
`ImplementsLease` are not promised under every fault, and `Survivable` says
when: a killed hook, a lost reply to an acquisition and a refused epilog lose
sessions by the design of the hooks; a broken disk together with a failing
release leaves nowhere to keep the token; the C prolog does not notice a full
disk and the C hooks do not recover from a failed allocation; the C epilog
gives up on a file it cannot open. The instances of the runs that check these
properties are survivable.

`EpilogReleasesOpenSession` is checked without disk faults: when the last write
of the Go prolog (the status) fails, the prolog releases the token and leaves
the metadata in place, so that an epilog run after it releases once more.

## 4. What is proved

About the hooks, for arbitrary sets of jobs, hosts and requests, any number of dispatches,
and, unless said otherwise, any set of faults and either implementation of each
hook. The only assumption is `HookAssumption` (the constants are what their
names say), which TLC evaluates on every run.

* `TypeCorrect`: `Spec => []TypeOK`. `TypeOK` is not inductive: `kept[host[j]]`
  is meaningful only while the job is on a host, and a record read from a file
  is a token only if the file holds one. `Shape` adds that a dispatched job has
  a host and a positive number of attempts (`Dispatched`), which tokens a hook
  can hold at which step (`Holding`, `HookMemory`) and that a file in the spool
  is of the current run (`SpoolOwn`).
* `KeptForever`: `Spec => KeptIsPermanent`. By `Untouched` and the `Others`
  lemmas a step of one job leaves the records of every other job alone.
* `GoRunningIsRecorded`, `GoSuccessAfterRecord`, `GoRecordsAreWhole`: with the
  Go prolog and under every fault. `GoInv` strengthens them to what the Go
  prolog has achieved at each of its steps (`Achieved`: what is open, written
  and exported when it stands there), which carries the facts from the step
  that establishes them to the running job.
* `NoSessionOrphaned`: under `Survivable`, `Spec => []SessionsAccounted`.
  `SessionInv` says for each job where its current session can be
  (`Located`: in the hook, in the file, or kept), that nothing is left open
  when the spool directory is removed (`TidyJob`), and that the sessions of
  its earlier runs are all kept (`EarlierSafe`).

About the load sensor, for arbitrary sets of configurations and answers, any
slot counts, queues of any length and any number of starts, from
`SensorAssumption`:

* `SensorTypeCorrect`, `PollsAnswered` (`Spec => []OneReportPerPoll`) and
  `FramesWhole` (`Spec => []ReportsAreWhole`).
* `SensorFailsClosed`: `Spec => ReadinessIsBacked`, that `LoadSensor`
  implements `ReadinessView`. The invariant `SensorInv` follows a report from
  the provider to the pipe: `EvidenceInv` says where the evidence for readiness
  is at each step (in `window`, in an answer that was an offer when it was
  given, in `status`), `FrameInv` which lines of the report are written, and
  `QueueInv` that polls and reports balance, without which a restart could mix
  the reports of two configurations. Each action then maps to one step of the
  view (`Scan` to `TakePoll`, `WriteEnd` to `Publish`, `ReadReport` to
  `Deliver`, `Start` to `Lose`, changes of the surroundings and `Run` to
  `Change`) or to a stutter.

About the accounting of the epilogs, from `AccountInv`, whose parts hold each
under the faults and hooks named in `AccountJob`:

* `ReleaseReportedTruly` (Go prolog, or no disk faults): `ReportedReleaseHappened`.
  The property is about the published file only; `Reported` adds that on the
  way there the token in hand is that of the job's current run, and that the
  session is closed from a successful `Release` on. It needs whole records: a
  torn one of the C prolog names another token, and the backend may accept it.
* `FailureIsOnRecord` (no disk faults): `FailureLeavesRecord`. `FailureKept`
  adds that an epilog which has something to release has a file to keep.
* `NoDoubleRelease` (no disk faults): `EpilogReleasesOpenSession`. `Releasable`
  says that a record names an open session from the prolog's write until the
  epilog's release, because no prolog releases after it has written a whole
  record. With disk faults this is false, see section 3.
* `TotalIsRight`: `TotalCountsRecords`, for the C epilog after either prolog
  while it can read its file (no `read` or `memory` faults), and for the Go
  epilog after the Go prolog under every fault. `Counted` follows the tally from
  the file that is read to the file that a failure leaves behind, whether it
  could be moved or not. Both hypotheses are needed: a C epilog that cannot read
  its file counts none, and the Go epilog after the C prolog is a disagreement
  of section 3. TLC checks the property for the Go hooks (`go_all_faults`); the
  empty and torn files of the C prolog are this theorem's.
* `AnnouncedTruly` (no disk faults, either prolog): `SuccessMeansRecord`. For the
  C prolog, which announces success first, `Announced` adds where it can
  stand from then on, and that only the write leads to exit code 0.

About the exit codes, from `CodeInv` (which codes a hook can hold at all, and
that OCS makes of them only what the code says):

* `OnlyBadRequestsCondemned`: `JobErrorMeansBadRequest`, for the Go prolog under
  every fault, for the C prolog without `memory` faults.
* `OnlyHostFaultsStopQueues`: `QueueErrorMeansHostFault`, when no request has a
  malformed slot count and, for the C prolog, without `qmaster` faults. The two
  hypotheses are the disagreements of section 3, `go_bad_slots` and
  `export_scheduler_slots`: without them it is false.

About the refinement:

* `LeaseImplemented`: under `Survivable`, `Spec => ImplementsLease`, that
  `QueueHooks` implements `SessionLease`. Every step of a hook is described by
  what it does to sessions, tokens and kept files (`Moves`: it opens, closes,
  drops, parks or rests), and each form maps to a step of the lease or to a
  stutter (`MoveIsLeaseStep`). Besides `SessionInv` this needs `FreshInv`: no
  session belongs to a dispatch that has not acquired yet, so that an
  acquisition is always of a new session.

About the cluster configuration, for any number of administrators and hosts,
host lists and options of any length and value, any bounds on failing calls
and edits, from `SetupAssumption` (evaluated by TLC: options are options, every
cluster gives each object a map of known attributes, has a queue and has a
global spool directory):

* `SetupTypes`: `Spec => []TypeOK`. `Shape` makes it inductive: a run that is to
  write holds a copy of an object that exists, and the global configuration
  keeps its spool directory.
* `OperatorKept`: `Spec => []ForeignSettingsKept`. `ForeignInv` extends the
  property to the copies that runs hold, unless `raced` says that one is stale.
* `HooksStartEverywhere`: `Spec => []HooksAdmitEveryHost` if the global
  configuration can be read (otherwise `cluster_spool_roots` violates it) and
  directories and cell have names that `CleanEnv` accepts
  (section 3 again). `SpoolInv`,
  `RootsInv` and `HooksInv` follow the spool directory of a host from its
  configuration through the copies and the collected roots to the queue.
* `RunAgainSuffices`: `Spec => []RunAgainRenewsHooks`, under the same
  hypotheses. `RerunInv` extends it to unfinished runs: the hooks in the queue
  are newer than the last change once every run that installs some was begun
  after it and has its hooks task behind.
* `HooksComeLast`: `Spec => []HooksComeAfterResources`, in a cluster that starts
  without hooks. The heart is `LastInv`. A task is `Lasting` if it sets the same
  value in every command and every slots task on its object comes after it in
  the command; then once a run has it behind, it holds for good, since whoever
  writes the object back from a copy without it either is that same task or
  has a copy taken later. The order in which `ensureResourceDefault` makes its
  changes is what makes tasks lasting (`Anchors`).
* `SuccessIsComplete`: `Spec => []SetupIsComplete`, if the commands that
  configure resources name the same hosts, slots, capacity and sensor (`Alike`;
  the commands of `cluster_setup` do). Two different capacities for one host
  cannot both be configured, so some such hypothesis is needed. A slots task is
  not lasting: a run that is behind can clear or overwrite what a run that is
  ahead has done. `SlotInv` says that it is right again once every run that has
  the task is past it, and `InstalledInv` that hooks stay installed.

The proofs about `ClusterSetup` go through the forms of its steps (`StepForm`:
begin, skip, collect, copy, ask, add, overwrite, give up), so that each
invariant is checked against eight effects and not against every disjunct.

Every invariant that a run checks is so proved, under the hypotheses above, as
are the action property `KeptIsPermanent` and both refinements. Only
model-checked are the liveness properties `SessionsSettle`,
`DispatchedJobsComeBack`, `LossReachesScheduler` and `EveryCommandSucceeds`:
reasoning about fairness and ENABLED is beyond this prover. A property that section 3
shows violated somewhere is a theorem only under hypotheses that exclude that
instance, and `FailureKeepsItsRecord` is none.

## 5. What is not modelled, and the plan

Not modelled, for good: log formatting, cgo marshalling, the demo and
installation scripts, flag parsing and usage texts, the joining of URLs. The
parsers (`ParseGrantedBackend`, `parseGrantedSlots`, `RustLogFromDebug`,
`fieldValue`, `resourceFromList`) are functions of one string without state or
failure of their own; they enter the model by their outcomes, and their
character-level behaviour is better served by the repository's unit tests.

The plan this project was built along is carried out. The hypotheses of the theorems are meant to be the
boundaries at which the properties fail: dropping `"disk" \notin Faults`, the
choice of a hook, `GlobalShowFails = FALSE`, or the condition on slot counts
gives a counterexample in TLC (for `FailureIsOnRecord`, a disk fault together
with a failing release, or any disk fault after the C prolog). `Alike` is not such a boundary: it rules
out administrators with disjoint hosts too, whose commands do not conflict
everywhere.
