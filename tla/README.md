# A verification project for the A-share agent system

TLA+ models of the parts of this repository where processes meet: the research
committee's task bus and synthesis, the run lease, the cron dispatcher, the
agent DAG with its job runner, the signal ledger, the monitor registry and the
candidate state machine. TLC checks them on small instances; TLAPS proves the
safety properties for every value of the constants, some under named hypotheses
(section 4). Paths below are
relative to the repository's root.

## 1. The system

The repository runs a calendar of analysis jobs over a shared state directory
(`$A_STOCK_STATE_HOME`). There is no server: every component is a short-lived
process that reads and rewrites JSON files. What makes it hard is what falls
between two file operations of one process: other processes, crashes, leases
that expire, answers that come late.

| Component | Code | State | Operations | Must be right |
|---|---|---|---|---|
| Research bus | `skills/common/research_bus.py` | queue file, board file per role, budget file per day | enqueue, claim, submit, fail, update | a claim fences its role; accepted findings stay; budget and subject limits |
| Research synthesis | `skills/common/research_synthesis.py` | snapshot of one task, reports, proposals | synthesize one task / all ready tasks; escalate | one verdict, from a complete board; bounded escalation |
| Expert hosts | `scripts/expert_runner.py`, `skills/common/research_consumer.py`, `agent_runtime_adapter.py` | the turn they are in | next, pack, submit, abstain, fail, synthesize | a finding is bound to what its author read |
| Evidence pack | `skills/common/evidence_pack.py`, `agent_evidence.py` | content-addressed packs | build, load | the task's pack is that of its round |
| Run lease | `skills/common/run_lease.py` | a directory with `holder.json` | claim, take over, release | no two runs of a job at a time; no lease for ever |
| Cron dispatcher | `scripts/cron_dispatch.py` | `dispatch_state.json` | claim a job for a minute, launch | at most once a minute, no job forgotten |
| Job runner | `scripts/hermes_job_runner.py` | artifact per run | gate, lease, run, artifact | an artifact for every outcome |
| Agent DAG | `scripts/run_agent_dag.py`, `skills/common/runtime_context.py` | stage artifacts | order, reuse, launch, wait, retry, stop early | success means a fresh target; a tolerated failure does not stop it; it ends |
| Signal ledger | `skills/common/signal_ledger.py`, `signal_ledger_archive.py` | ledger, mirror, archive files, a cache per process | append, read, restore, sync, archive | recorded once, in order, not lost |
| Monitor registry | `skills/common/monitor_registry.py`, `event_projection.py` | registry file, checkpoint, over the ledger | activate, cancel, sweep, replay | registry = what the events say; nothing automatic clears a tombstone |
| Candidate state machine | `skills/common/candidate_fsm.py` and its callers | transition log per day | look, read, judge, append | the enforced review gate holds; the watch pool empties |
| State store | `skills/common/state_store.py` | lock files, backups | lock, atomic write | read-modify-write is atomic (assumed, section 6) |
| Everything else | paper trading, exit rules, providers, delivery, retention, scoring | positions, caches, logs | mostly pure or I/O | section 6 |

How they interact: launchd wakes the dispatcher, which launches job runners and
DAG processes; a DAG process starts runners for what its target needs; a runner
takes the run lease, runs the business script and leaves an artifact. Business
scripts append events to the signal ledger, change the monitor registry over
it, ask the candidate state machine for moves, and after the close enqueue
research tasks. Hosts (Hermes or OpenClaw sessions) claim roles from the bus,
read a frozen pack, run a model turn and submit; the host whose submission
completes the board calls the synthesis, which writes a verdict or reopens the
task for another round. The verdict is what the state machine's gate looks up.
All of them share files, never memory.

Which behaviours are hard is listed line by line under `hazards` in
`PROJECT.json`. The short form: late and repeated calls after a lease was
reclaimed; crashes between the writes of one operation (board then queue,
budget then queue, proposal then queue, claim then launch, mkdir then
`holder.json`, ledger then mirror, event then registry then checkpoint, archive
then ledger then mirror); a synthesis, a sweep, a gate or a DAG that works on
what it read earlier; a lease that is released before the artifact is written;
caches that outlive the file they describe.

## 2. Modules

| Module | Models | Used by |
|---|---|---|
| `ResearchBus` | the bus against *every* caller: any worker presents any claim id ever issued at any time | `ResearchBus_proofs`, `MCResearchBus`, `ResearchCommittee` |
| `ResearchVerdict` | `decide_verdict` and its rules, as operators | `MCResearchVerdict`, `ResearchCommittee` and `MCCandidateFsm` (INSTANCE) |
| `ResearchCommittee` | the callers the bus really has: hosts and the synthesis | `ResearchCommittee_proofs`, `MCResearchCommittee` |
| `RunLease` | `claim()` of the run lease, one action per file-system call | `CronDispatch_proofs`, `MCRunLease` |
| `CronDispatch` | the dispatcher's loop and state file | `CronDispatch_proofs`, `MCCronDispatch` |
| `AgentDag` | DAG processes, the runners they start, artifacts, the dependency gate | `AgentDag_proofs`, `MCAgentDag` |
| `DagOrder` | `execution_order`: the order a DAG walks, which `AgentDag` takes as a constant | `MCAgentDag` |
| `EventLog` | what the ledger promises, without files, caches and processes | `SignalLedger` (INSTANCE) |
| `SignalLedger` | ledger, mirror, archive and per-process caches | `SignalLedger_proofs`, `MCSignalLedger` |
| `Places` | the elements of a sequence at given places, in order | `EventLog`, `SignalLedger` |
| `MonitorRegistry` | the registry as a projection of the ledger | `MonitorRegistry_proofs`, `MCMonitorRegistry` |
| `CandidateFsm` | the state machine, its callers, the review gate, the passing of days | `CandidateFsm_proofs`, `MCCandidateFsm` |

Operators marked *Mutant* in a module are faulty variants of the definition
after them. No specification uses them: they exist so that each property can be
shown to fail when the code has the fault they stand for (`mutants` in
`PROJECT.json` pairs them with runs).

Abstract specifications and refinements: `SignalLedger` implements `EventLog`
(`ImplementsEventLog`, with a refinement mapping from files to the log a reader
gets), and `ResearchCommittee` implements `ResearchBus` (`ImplementsBus`: a
synthesis of many steps, by hosts that crash and race, acts on the queue like
the bus's one-step `Resolve`).

### ResearchBus

`task` is the queue file: per task its status, expert plan, role states, round
and whether it was charged. `board` is the directory of finding files, `budget`
the budget file of each day, `issued` counts the claim ids drawn for a role (the
code draws uuids; the model numbers them and binds them to their worker).

| Action | Code |
|---|---|
| `Enqueue` | `enqueue_task`: known id, active subject, cooldown unless forced |
| `Claim`, `ClaimIdle` | `claim_next_work`: expire stale claims of all open tasks, then serve the first task by priority that has a claimable role and budget; nothing to serve still writes what expired |
| `ClaimDies` | a crash after `reserve_budget` wrote its file |
| `Submit` | `_submit_finding_mutation`: fence, board file, role done, ready when all are |
| `PublishDies` | a crash between board file and queue file |
| `Fail` | `_fail_role_mutation` |
| `Resolve` | what the synthesis writes back, when it overlaps nothing |

A bus operation is one `mutate_json` call under the queue's file lock and hence
one step; files other than the queue are written before it and get a crash
action each. Which leases are past the TTL is a choice (`late`), so no clock is
needed and every expiry order is covered. Left out: the ledger and turn logs
(append only, read by nothing here) and `record_usage`.

### ResearchVerdict

A board is a function from roles to findings reduced to stance, confidence in
tenths, whether the manifest is execution eligible, and the peers an adjudicator
cites: what the rules read. The rules keep the code's order. `AdjudicateAt` is the
adjudicator's own minimum confidence, which the code lets fall back on
`conflict_confidence`. Two details are merged into others: the adjudicator's `enabled`
switch into `MaxRounds > 0` (the configuration switches both on), and an
empty `adjudication_points` into citing no peer.

### ResearchCommittee

EXTENDS the bus. `worker` is each host's turn
(`claimed -> working -> validated -> idle`, or `reduce` when its submission
completed the board), `packRef` the task's `evidence_pack_ref`, `synth` the
synthesis that holds the task's `synthesis.commit` lock with the record it read
and the decision it took, `requests` the operator's `synthesize` calls,
`verdicts` every verdict ever written, `proposal` the pending proposals.

| Actions | Code |
|---|---|
| `Take`, `TakeNothing` | `cmd_next`, `consume_once` |
| `EnsurePack` | `_ensure_pack` of both hosts: build for the snapshot's round, overwrite the reference |
| `Validate` | `validate_finding` and `_validate_bound_evidence`, outside the queue's lock |
| `SubmitAccepted`, `SubmitFenced`, `SubmitAgain` | `submit_finding` and its three outcomes |
| `GiveUp` | `fail_role` by hand, after a failed turn, or after a rejected submission |
| `RequestManual`, `RequestSweep` | `cmd_synthesize` with and without `--task` |
| `SynthBegin`, `SynthReopen`, `SynthCommit`, `SynthRefused` | `_synthesize_task_locked`: read and decide; then `_maybe_escalate` or `_commit_synthesis` |
| `HostDies`, `TakeDies`, `SubmitDies`, `SynthDies`, `FactsMove` | what the surroundings do |

`Env` switches what the surroundings do in an instance: `crash`, `stall` (a
lease passes its TTL under a working host), `retry` (the answer of a submission
is lost), `sweep`, `manual`, `slow` (manifests pass their maximum age), `torn`
(a process dies between two writes). The switches matter because the code is
*not* correct under all of them together; section 5 says which combination
breaks what.

### RunLease

`dir` is the lease directory with its holder and age, `pc` where each run is in
`claim()`, `tries` the loop's iteration, `held` for how long a run has had the
directory. `MakeDir`, `StatDir`, `TakeAway`, `WriteHolder`, `ReadHolder`,
`Empty` and `RemoveDir` are the `mkdir`, `stat`, `rename`, `open`, `open` and the two
halves of `rmtree`. Time is `TimePasses`; a live run is never inside for longer than `MaxHold`, as
`run_isolated` kills the business process at its timeout and the runner passes
twice that as the TTL.

### CronDispatch

`state` is the state file, `disp` the dispatcher, `tried` counts launches per job
and minute. Parsing of cron expressions is abstracted to `DueAt`. `launchd` does not start a dispatcher while one
runs (`AUTOPILOT.md`), so there is one dispatcher; it may still be woken twice in
a minute. `faults` remembers what went wrong, so that the properties can say which
fault excuses what. `Persist` is `os.replace` or its logged failure, `Pruned` keeps the
newest `MaxEntries` entries with ties open.

### AgentDag

`artifacts` is the youngest artifact of each job in the batch
(`load_latest_artifact`), `lease` the holder of each job's lease, `dag` the DAG
processes: target, place in the walk order, attempt, the run they started or
wait for. A process fires for one of its `Fired` jobs and walks `Order[target]`. `Order` is a constant of which `AgentDag` assumes only
that the target comes last, every job after what it requires, and that every other job
is required by a later one; `DagOrder`
translates `execution_order`, and `MCAgentDag` assumes that its order is the one
computed there; TLC evaluates both assumptions.

| Actions | Code |
|---|---|
| `Reuse`, `ShortCircuit`, `Launch` | `execute_dag`'s look at each job: an upstream that succeeded, that failed, or something to run; a scheduled target always runs |
| `Gate`, `Refuse` | `evaluate_dependencies` with the age limit (a choice), the `blocked` artifact with exit code 75 |
| `Claim`, `Work`, `Report`, `ReportLost` | lease or exit code 76; business process and release; artifact or its loss in the crash net |
| `Hear`, `GiveUp` | `_wait_for_run_artifact`: the youngest artifact is the holder's, or the deadline passes |
| `Retry`, `Conclude` | attempts, the status the job gets, `consumers_tolerating` |
| `Die`, `Expire` | a killed process leaves its lease to the TTL |

The lease appears by its promise; `RunLease` models its file-system calls. A consumer that
tolerates an upstream is looked for among those that require it; the code also counts optional ones,
which makes it stop less often. Run
ids are reused once nobody mentions them, which keeps the state space finite.
`renewed` is a history flag: a successful artifact was written while the process was at this job.

### SignalLedger and EventLog

`ledger` and `mirror` are sequences of events (`id`, the fact, `seq`), `archived`
the set in the archive files, `torn` the files that end in half a line, `cache`
the append index of each process for both files; its flag `fresh` stands for the
remembered fingerprint (inode, size, mtime) still being the file's. `append_events` holds the
ledger's lock, so `AppendNew` is one step: restore if the file is missing, drop known ids, number,
append, mirror. `AppendNothing`, `AppendConflict`, `AppendUnmirrored`,
`AppendDies`, `SyncDies` are its other ends. `Archive` and `ArchiveDies` are the archive run with
its verification; `SyncBackup` is the operator's
recovery; `LedgerLost` deletes the file. `_restore_ledger_unlocked` swallows an `OSError` or a
`TimeoutError`: with `RestoreFails` the file is not only missing but `stuck`, readers then find
nothing, and an append starts a new ledger at 1 beside the mirror (`Write`), until
`RestoreWorks`. Faults are counted by `MaxFaults`. Event ids hold a uuid and are offered once;
that of a migration is fixed, and `Offers` lets it come again where no monitor event is found.

`EventLog` knows a `log`, the ids `kept` outside it, and what is `retired`:
`Record` appends new ids under growing numbers, `Lose` takes what was not kept,
`Retire` takes what a later event restates and keeps the newest number. `Restart` is what is left
of it when a lost file could not be restored: the log begins again at 1. From then on
(`restarted`) an id is still in the log once only, but numbers may come twice, and what was kept may come
back by a later loss and restore, under other numbers. Both
modules filter sequences with `Picked` of `Places` where the code has a list
comprehension: it says which places stay, and can be reasoned about, which the
recursive `SelectSeq` cannot.

### MonitorRegistry

`log` is the monitor events of the ledger, `registry` and `checkpoint` the two
files written after each event, `verified` each process's `_VERIFIED_DATASET`,
`turn` what it is doing. `Activate`, `CancelManually`, `ClosePosition` (the sale of a stock) and
`SweepCancel` append the event (inside the registry's mutation) and note its cause, `Project` writes the registry,
`Advance` the checkpoint; `Die` ends a process anywhere in between. `SweepRead`
loads the list that `gc_expired`, `reconcile_automatic`,
`deactivate_automatic` and `sync_positions` then work through; `LoadRead` and `LoadApply` are `load_registry`,
which replays without the transaction lock. `env` is one of `Envs`, chosen
initially, and says which surroundings the behaviour has. `Recovered` leaves out the
migration of a registry written before there were events
(`monitor_registry.py:247-262`), which happens once per installation.

### CandidateFsm

One stock through the days. `state` and `age` are its last accepted transition,
`slot` the time of day, `today` the research task of the day, `open` the task the
committee is at, `job` the callers: discovery, open confirmation, checkpoint,
sweep, operator. A call is `Look` (the caller's own look), `Read`
(`current_state`), `Judge` (`_guard` with `ReviewGate`) and `Append`, with
everybody else in between. `Dispatch` enqueues the day's task, `Deliver` gives it a verdict.
The set of deliverable verdicts in `MCCandidateFsm` is not assumed: an ASSUME
compares it with `DecideVerdict` over all small boards.

## 3. Runs

Every run is exhaustive on its instance; cfg files are named `MC<Module>_<cfg>.cfg`.

| Run | Instance | Distinct states | Shows |
|---|---|---|---|
| `bus_all` | 3 tasks on one subject (two of one day), 2 roles, 2 attempts, cap 5 against costs 2, 4, 3 | 131,413 | the fence (`LatestClaimOnly`, `BoardMatchesQueue`, `AcceptedIsKept`, `ClosedStaysClosed`), `PendingHasAttempts`, `ReadyMeansReported`, `OneActivePerSubject`, `BudgetHolds` |
| `verdict_panels` | every board of 3 roles, with and without an adjudicator; confidences just below, at and above the thresholds | 48,735 | `ProposalIsEarned`, `DisagreementSurfaces`, `OppositionNeverPromotes`, `AdjudicatorFailsClosed` |
| `committee_debate` | dispute, round 1, adjudicator; crashes, torn writes, facts move once | 205,898 | `ProposalMatchesVerdict`, `RoundSpecificPack`, `EscalationMovesForward`, `CommitteeTypeOK`; `ImplementsBus` |
| `committee_plain` | no escalation; crashes, stalls, lost answers, sweeps, manual calls, ageing | 91,245 | `OneVerdict`, `FailureIsNotEvidence`, `SnapshotCurrent`, `VerdictNeedsAllRoles`, `VerdictReflectsBoard`; `OnlyDeathDeserts`, `ClosedOrDeserted` |
| `lease_survivor` | 2 runs, one may die; TTL = longest hold | 4,342 | `MutualExclusion`, `LeaseIsMine`, `LeaseFreed` |
| `cron_minutes` | 4 jobs, 3 minutes, 2 entries; deaths, failed launches, a damaged or unwritable file | 779,156 | `OncePerMinute`, `ServedMinuteIsComplete` |
| `dag_morning` | 2 DAG processes over snapshot, finalize, confirm; one may be killed | 315,737 | `TargetIsRerun`, `ShortCircuitIsSound`, `EveryDagEnds` |
| `ledger` | 2 processes, 3 batches over 3 events of a monitor and a tail-close event with two facts; 3 faults | 44,066 | `ImplementsEventLog`, `CacheIsCoherent`, `GapsAreExplained`, `MirrorKnownIsComplete` |
| `registry_calm` | 2 monitors, 2 processes, 4 events; long-lived with sweeps, or short-lived with 2 deaths | 189,771 | `RegistryRecoverable`, `AutomationKeepsTombstones` |
| `fsm_days` | 4 scheduled callers and an operator; advisory and enforced gate; stale after 2 days, stalled after 1 | 389,541 | `ConfirmedIsReviewed`, `WatchEnds` |
| `two_verdicts`, `lease_takeover` | | | violations, section 5 |

Bounds, and why they suffice for what they show. *Two hosts, two experts, two
processes*: every conflict the code knows is between an old and a new holder, a
host and a synthesis, or a writer and another writer's file. *One worker on the bus*: a claim id is
fenced by its number, and one worker presents all of them. *Two attempts*: one
reclaim, and one expiry on the last attempt
(the configured value). *One escalation round*: `MaxRounds = 1` exercises both
branches of `_maybe_escalate` (next round, and adjudicator in the last one); the
configuration has 2, and the theorems hold for every value. *Three
minutes, two entries*: the state file is full after the first minute, so that it
forgets in the others. *Three numbers, three faults* in the ledger: a loss, a failed
restore and a death or a failed mirror, in any order, with an event before, between and after;
the theorems cover any number. *Four events* in the
registry: activate, cancel, a sweep's cancellation and one more; the theorems cover any number. *Two stale
days*: the age reaches, passes and is reset below the limit. *Three runs*: the
take-over counterexample needs one dead and two live runs; without a death
`LiveRunsExclude` covers any number, and `TwoRunsExclude` any deaths among two. `MaxFacts`, `MaxDead`, `MaxDeaths`,
`MaxFaults`, `MaxTries`, `MaxLog`, `MaxSeq`, `LastMinute` bound the surroundings
and nothing else.

Symmetry is used in three runs: hosts in `committee_debate`, processes in
`ledger`, monitors and processes in `registry_calm`. Each time the values are
model values (of hosts of one kind), no definition tells them apart, and the
runs check invariants and action properties only; no run with a liveness
property uses symmetry. `CHECK_DEADLOCK FALSE` stands where a system may
really stop: when all tasks are closed, all processes dead or finished, a bound
is reached or the last minute is over. `fsm_days` and `verdict_panels` never stop.

Fairness. `FairSpec` of the committee assumes
weak fairness of each host's own steps (they are straight-line programs), of
asking for work with every lapsed lease counted as late (hosts are scheduled
repeatedly, time passes, and `claim_next_work` compares ages), and of a synthesis
under way. What the operator does, `synthesize` with or without a task, is never fair: no schedule in
the repository runs it. A host that dies between its submission and its synthesis therefore
leaves a ready board that nothing picks up. `OnlyDeathDeserts` says that nothing
but such a death brings this about, and `ClosedOrDeserted` that every task is in the end closed, or so
deserted; that every task is closed does not hold (section 5). `LeaseFairSpec`
assumes that live runs go on, that runs keep being started and that time
passes; a run that is dead is not fair. `FairSpec` of the DAG assumes that a
process that is not killed takes its next step, its runner's or its own: the runner kills the
business process at its timeout and every wait has a deadline. `FairSpec` of the
state machine assumes that a caller finishes its call (weak fairness of `Move`),
that the time of day goes on (of `Later`), and strong fairness of `NextDay` and of the sweep's
look: both are interrupted again and again by an operator who types commands or
by a day on which the sweep is not run, but not for ever (the sweep is scheduled daily). The sweep fires only in
its slot, so weak fairness would say nothing about it.

## 4. Proofs

Eight modules hold theorems; `theorems` in `PROJECT.json` lists the results.

**`ResearchBus_proofs`**, for every set of tasks, workers and contents, every
expert plan, priority and cost function, cap, cooldown, number of attempts and
rounds (under `BusAssumption` only):

- `BusInvariant`: `BusSpec => []BusInv`. `BusInv` is the type invariant together with
  `Sound` for each known task: for each role, claimed means the claim is
  the last one issued, done means the recorded submission is the last one issued
  and the board file carries it, pending means attempts are left and (in an open
  task) no role has failed; ready means all done. None of the properties is inductive
  alone: `BoardMatchesQueue` survives `PublishDies` only because a done
  role no longer passes the fence, and `PendingHasAttempts` survives a failed
  attempt only because attempts and expiry use the same comparison. There is one lemma per
  operation on a record (`ExpiredSound`, `PublishedSound`, ...), one per action, and
  `OneTaskChanges` for the frame.
- from it `BusTypeCorrect`, `FenceIsSafe`, `BoardIsTrue`, `NoRoleStranded`,
  `ReadyIsComplete`, and the action properties `AcceptanceIsFinal`,
  `ClosedIsFinal`.
- `SubjectsAreExclusive`: active tasks have different subjects; only `Enqueue`
  makes a task active, `Resolve` reopens only an active one.
- `BudgetIsSafe`, with the invariant `BudgetInv` that ties the reserved sum to
  the charged entries.

**`ResearchCommittee_proofs`** builds on it, under `Orderly`: the surroundings may
crash, stall, move the facts, let manifests age and tear writes, but contain no
sweep, no manual synthesis and no repeated submission (and hosts submit contents the bus knows).
`CommInvariant` proves `CommInv`, which spells out the protocol that replaces a
lock around the synthesis:

- `Reducers`: a host about to synthesise a task finds it ready, and is the only one;
- `Quiet` (on steps): a bus call other than the resolution leaves a ready task and its board
  alone, because nobody passes the fence of a task whose roles are all done;
- `Decided`: hence the snapshot and decision of a synthesis under way are those
  the queue and board imply now;
- `Closings`: no verdict before a task is closed, exactly one afterwards;
  `LastRounds`: the adjudicator is in the plan in the last round only.

From it `CommitteeTypeCorrect`, `SnapshotsStayCurrent`, `DecidedOnce`,
`VerdictsAwaitAllRoles`, `VerdictsReflectBoards`, `FailuresAreNotEvidence`,
`EscalationIsBounded`, `ReadyBoardsAreReduced` (`OnlyDeathDeserts`), and the refinement `CommitteeIsBus`: every step of hosts
and synthesis is a step of `BusSpec` or a stutter, so the bus's theorems hold of
the committee. `Orderly` is needed: `two_verdicts` shows what a sweep does, and
with escalation a repeated submission that is answered "all roles done" after the task
was reopened makes its host synthesise the old round's board. The run
`committee_plain` checks several of the same properties without `Orderly` but without
escalation, so the two complement each other. `committee_debate` checks
`ImplementsBus` against a bus with fewer contents (`HeldContents`: bound to a pack of
the round it was read in) than the theorem's, which is a stricter claim.

Two more theorems need one switch off, as the counterexamples of section 5 show.
`ProposalsMatchVerdicts` (no `slow`): a synthesis that died after it wrote a proposal
is repeated, and the second decides what the first did, because the board of a ready
task stands still and its manifests keep their age (`Proposals`).
`PacksAreOfTheirRound` (no `stall`): a host whose lease is kept holds a claim that
the fence honours, so its task is not reopened under it; and where it finds no pack,
the task is in its first round (`HoldsOK`).

**`ResearchVerdict_proofs`**, for every family of panels with a risk red team and every
number of rounds: `ProposalsAreEarned` (from `VetoAt <= 7`, `AdvanceAt >= 6`,
`AdjudicateAt >= 6`: a proposal needs eligible opinions, no veto from 0.7 and a supporter from 0.6), `DisagreementsSurface`
(from `ConflictAt <= 6`), `AdjudicationsFailClosed` (from `VetoAt >= 7`, `AdjudicateAt >= 6`: an
adjudicator that settles nothing leaves the board disputed and opposed, however its peers
agree, if no review and no veto goes before) and `OppositionDoesNotPromote` (any thresholds).
The lemmas follow the order of the rules. The shipped thresholds satisfy all of these.

**`CronDispatch_proofs`** has two parts. About the dispatcher, for every schedule: `DispatchTypeCorrect`;
`ServedMinutesAreComplete`, from `ServeInv` (a claim in the file, or about to be
written, stands for a launch that was made or is the next step), however small the
state file; `LaunchedOncePerMinute`, from `OnceInv` (what was launched for the minute in service
is in the file) under `RoomForAMinute`: the file has room for the jobs of one minute.
About the run lease, for every number of runs and every TTL: `LeaseTypeCorrect`, and, assuming
`MaxDead = 0` (nobody dies) and `MaxHold <= Ttl`, `LiveRunsExclude` (`MutualExclusion`) and
`LiveRunsKeepTheirLease` (`LeaseIsMine`). The invariant `LeaseInv` says that the one run inside made
the directory, and that the directory is no older than the run has been inside.
Hence nobody ever finds it stale. After a death the survivors may: among three runs
`lease_takeover` breaks mutual exclusion. Among two it holds whoever dies, and the
survivor keeps what it took over: `TwoRunsExclude`, from `MaxHold <= Ttl` and
`SurvivorInv` (`LeaseInv` until somebody dies, `LeaseIsMine` throughout).

**`SignalLedger_proofs`**, for any number of processes, any events, batches, cutoffs
and faults: `LedgerCorrect`, that is `LedgerInv`, and from it `IndexesAreCoherent`,
`GapsHaveReasons`, `KnownMirrorIsComplete` and the refinement `LedgerIsAnEventLog`. The heart of `LedgerInv` is
`LinesInv`, which holds until the log restarts. `Standing` is the ledger, or the mirror that would replace it;
neither it nor the mirror has an id or a number twice, the two never disagree about
either, and what the mirror has beyond the ledger is archived and no newer. Hence a
new line under a number above the ledger's last clashes with neither file, a
restored mirror is a log that was mirrored, and what an archive run takes from
both files is the same. An append that could not restore the ledger breaks all of this: numbers come
again, and the mirror holds what the ledger does not. What remains, and is proved for that
case too, is `FilesInv` (no id twice in either file), coherent caches,
explained gaps, and the weaker steps `EventLog` allows a log that has restarted. Cache coherence is part of the invariant, because an append reads the
known ids and the last number from the cache: `CacheIsCoherent` is what makes
`LinesInv` inductive, and the other way round. There is one lemma for what a writer may do to the
files (`Writes`), one for what stays (`Stays`), one for each action, and a section on
`Picked`: what is picked twice, at the end, or from an appended sequence.

**`MonitorRegistry_proofs`**, for any number of monitors, processes, events and
deaths, under `Gentle` (nobody outlives a process that died in its mutation,
loads during one, or cancels or restores by hand during a sweep): `RegistryIsRecoverable`, from `RegInv`, which says how far
registry and checkpoint lag behind the ledger at each step of a mutation, and a
lemma on what one more event does to a replay; and `TombstonesOutliveAutomation`: only an event the operator
forced, or the sale of the stock, takes a tombstone away (`AutomationKeepsTombstones`). Each part of `Gentle`
is needed; section 5 names the counterexamples.

**`CandidateFsm_proofs`**, for any set of verdicts, limits and gate modes:
`GateInvariant` and from it `ConfirmationsAreReviewed`. What makes three unlocked
steps safe is not the caller but the task: a day's verdict, once delivered, is
not replaced that day, and no caller is carried over midnight.

**`AgentDag_proofs`**, for any number of processes, jobs, attempts and deaths, any
requirements, walk orders and outcomes (under `DagAssumption`, `OrderAssumption`):
`TargetsAreRerun` and `EarlyStopsAreSound`. A DAG knows of another's run only the youngest artifact and the
id that held the lease, and the lease is released before the artifact is written.
`DagInv` says why that is enough for the target: a run under way has an id of its
own and no artifact yet (`Fits`, `Apart`), it is not the run some process found
when it came to the job (`Earlier`), and a lease is always held by a run that has
not written (`Holds`); so a holder's success, when it is heard, or another artifact
than the one found, when the own exit code is 0, was written after the process came. New ids
exist because finitely many are mentioned (`NewRunIsNew`). There is one lemma for a step
that writes nothing (`MoveKeeps`), one for a write (`WriteKeeps`), and one per action.

`EarlyStopsAreSound` (`ShortCircuitIsSound`) has two halves. A DAG gives up by the status it gave
the job itself, where the gates look at the artifact; `ToldInv` says how far the two can be apart
(76 only from a duplicate run, 75 and 78 only with `blocked`), and the hypothesis
`ToleranceIsPlain`, which the manifest satisfies, that the difference decides nothing: nobody
accepts a blocked upstream, and who accepts a failure accepts `failed`. Then no consumer
accepts what the job left behind, and `TargetIsDoomed` carries `blocked` along the order:
of the jobs that cannot pass, the last one in the order has no later consumer and so is the target.
`MCAgentDag_timeoutonly` shows that the hypothesis is needed.

Only model-checked: all liveness (`ClosedOrDeserted`, `LeaseFreed`, `EveryDagEnds`,
`WatchEnds`), which is out of the prover's reach, and `ExecutionOrder` of `DagOrder`, which is
defined by recursion. Every other property of the passing runs is the property of a theorem.

## 5. Where the code and its documents disagree

Two runs expect a violation; `findings` in `PROJECT.json` quotes the sentences they contradict.

1. `two_verdicts`. `synthesize_ready_tasks` reads the list of ready
   tasks once. If another synthesis reopens one of them meanwhile, the sweep
   finds the old round's board files complete (`_finding_readiness_error` asks for
   files, not for role states) and resolves the task while its roles are being
   worked on. The late submissions still pass the fence (the synthesis
   leaves the claims alone), and `_publish_finding` moves the *done* task back to
   ready; it is resolved a second time, perhaps differently.
2. `lease_takeover`. Two runs that both saw a dead run's lease as stale rename
   one after the other; the second takes away the first one's fresh lease.

More counterexamples are kept as configurations to run by hand
(`tlc -config <cfg> <module>`); each violates the property it names:

| Configuration | Violates | What happens |
|---|---|---|
| `MCResearchCommittee_factsmove` | `EvidenceAsRead` | two hosts freeze packs while the facts move; `cmd_submit` binds the first one's finding to the pack the task refers to by then. `README.md:185` says a finding is bound to its evidence hashes |
| `MCResearchCommittee_deserted` | `TaskEventuallyResolved` | the host whose submission completed the board dies before its synthesis; nothing but an operator's sweep takes the ready task up again, and its subject stays taken. `research_bus.py:6-7` says the board is reduced once every planned role has reported |
| `MCResearchCommittee_stalepack` | `RoundSpecificPack` | `_ensure_pack` writes the reference without checking claim or round; a stalled host puts a round-0 pack under a task in round 1 (`README.md:187`: round-specific evidence packs) |
| `MCMonitorRegistry_tombstone` | `TombstoneStays` | a monitor is cancelled by hand, then the stock is sold: `close_position` (`portfolio_manager.py:1209-1216`) cancels with `manual=False` without looking at the entry, and the tombstone is gone, with one process after the other. `data-persistence.md:53` of `stock-triage` says it remains until explicitly restored |
| `MCMonitorRegistry_race` | `AutomationKeepsTombstones` | a sweep cancels what it listed earlier with `manual=False` and so clears the tombstone the operator has set meanwhile |
| `MCMonitorRegistry_outlive` | `RegistryRecoverable` | a process that has verified the registry commits after another died between event and registry; its checkpoint passes over the lost event |
| `MCMonitorRegistry_load` | `RegistryRecoverable` | `load_registry` replays without the transaction lock and puts an old entry over a newer one |
| `MCSignalLedger_restart` | `MirrorIsFoundAgain` | the ledger is lost and its restore fails (`signal_ledger.py:451-452` swallows it): the next append starts a new ledger at 1, and what the mirror still has is not in it. `data-persistence.md:59-60` presents the mirror as the ledger's backup |
| `MCSignalLedger_mirrorgap` | `EveryAppendRepairsMirror` | after a failed mirror write the process still recognises the mirror and never makes the full pass the docstring of `_mirror_appended_unlocked` suggests |
| `MCAgentDag_respawn` | `NoRespawn` | a process that had found nothing launches an upstream that another run reports failed before it has claimed (`tests/test_agent_dag.py:283` tests one process) |
| `MCAgentDag_timeoutonly` | `ShortCircuitIsSound` | a consumer accepts `timeout` but not `failed`; a process that ran the upstream itself records exit code 124 as `failed` and stops, though the consumer's gate would have passed |
| `MCCandidateFsm_gate` | `RejectedIsNotConfirmed` | the gate looks up the task of the same day, but the verdict arrives in the evening: in advisory mode a stock rejected last night is confirmed in the morning |

The passing runs therefore leave out, and the properties depend on:
`sweep` and `manual` where there is escalation; `stall` where
`RoundSpecificPack` is checked; `slow` where `ProposalMatchesVerdict` is;
`torn` together with `manual`; in the registry long-lived processes together
with deaths, and operators or loads in the middle of a sweep or mutation; in the
DAG a consumer that accepts `timeout` alone; in the state machine a caller
that is still at work at midnight.

## 6. Not modelled, and the plan

Most of the repository's 119,000 lines compute: scores, indicators, parsers of
market data and reports, each a sequential function of its input. They have few
steps, no shared state worth the name and large numeric domains, so that a
model would repeat the code and a check would say little; they are left to the
repository's tests. The models cover the code where the order of events
matters, a small share of the lines. In particular:

- *State store*: file locks and `os.replace` are the operating system's; the
  models take a locked mutation as one step and add a crash action for each file
  written in it.
- *Paper trading, portfolio, exit rules*: bookkeeping and rules over prices, one
  process at a time.
- *Providers, HTTP client, delivery*: external I/O with caches and retries local to a process.
- *Strategy registry and validation program*: a promotion pipeline, run by hand.
- *Retention, traces, audits, lifecycle reports*: read-only or append-only.
- Contents of findings, reports and packs; the release-quality gate of the DAG;
  previous-day dependencies; delivery and adaptive back-off of the runner.

Code outside the repository (launchd, the file system) appears as the behaviour
the code relies on. `components` in `PROJECT.json` gives the reason for each part.

Plan, in order:

1. `ResearchBus`, `ResearchVerdict`, `ResearchCommittee`, `RunLease`,
   `CronDispatch` with their runs; proofs about the bus and the lease. *Done.*
2. `AgentDag` with the runner and the dependency gate. *Done.*
3. `SignalLedger` with its abstract `EventLog`; `MonitorRegistry` over it; `CandidateFsm`. *Done.*
4. Proofs about dispatcher, verdict rules, registry, state machine, committee (with its
   refinement of the bus), DAG and signal ledger (with its refinement of the event
   log). *Done.*
5. Open: the paper-trading order life cycle; the circuit breaker of
   `provider_health`.
