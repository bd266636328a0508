# Specification of the assessment run of appsec-advisor

appsec-advisor builds threat models of repositories with the help of model calls. Its *controller*
(`scripts/orchestrator/orchestration_controller.py`) runs an assessment as a sequence of jobs: it
decides what to ask, pays for each call from a limited account, keeps every accepted answer with a
receipt, survives interruption, and publishes a report into an output directory that later runs
find again. The specifications in this directory model that control: the money, the directory over
several sessions with crashes between any two writes, the threads that save the run's state while
others spend, the lock that several processes read and remove, the dialogue of one job, the registry
that hook processes share about running agents, and the jobs of the on-demand analysis. What the
calls say and what the report looks like is data here.

Source paths below are relative to `src/`.

## 1. The system and its parts

| Component | Code | State | Operations |
|---|---|---|---|
| Assessment budget | `scripts/runtime/multi_repo_discovery.py` (`DiscoveryBudget`), `scripts/runtime/assessment_jobs.py` (`AssessmentBudget`) | calls, spent, calls in flight, unknown cost, retries, planned jobs, observed costs | admit, reserve, run, settle, retry, give up, plan, accept |
| Assessment jobs | `scripts/runtime/assessment_jobs.py` (`AssessmentJobs`) | artifacts and receipts under `jobs/` and `cache/` | `exchange`: reuse, adopt, discard, buy, accept, replace |
| Assessment state | `scripts/runtime/assessment_state.py` | `.assessment-state.json`, `.appsec-lock`, `.assessment-work/`, deliverables, checkpoint lock, heartbeat | start, resume, replace, rebuild, checkpoint, stop, complete, release |
| Controller | `scripts/orchestrator/orchestration_controller.py` | the session, the component pool, the publication | analyze components, retry deferred reviews, report, publish, `assess-stop` |
| Exchange loop | `scripts/runtime/assessment_host.py` | rounds of one job: reads, corrections, answers | `run_exchange` |
| Run lock | `scripts/runtime/acquire_lock.py`, `live_run_holder.py`, `terminate_run.py` | `.appsec-lock` | acquire, heartbeat, classify, take over, release |
| Agent lifecycle | `scripts/runtime/agent_lifecycle.py`, `agent_logger.py`, `scripts/orchestrator/wait_agent_calls.py` | registry of agent calls, shared by hook processes | register, stop, hand back, acknowledge, bind, record usage, settle jobs |
| STRIDE dispatch | `scripts/orchestrator/stride_dispatch_waves.py`, `dispatch_window.py`, `build_stride_dispatch_manifest.py`, `scripts/runtime/stride_attempt_writer.py` | wave claims, attempts, outputs | plan a wave, claim, retry, collect |
| Legacy import | `scripts/runtime/legacy_import.py` | import receipt | copy a finished report |
| Analyst controller | `scripts/orchestrator/analyst_controller.py`, `scripts/runtime/analyst_state.py`, `analyst_host.py` | a job per feature request | admit, analyze, answer, cancel |
| Watchdogs and cleanup | `scripts/runtime/budget_watchdog.py`, `check_state.py`, `runtime_cleanup.py`, `completion_relay.py` | none of their own | observe, warn, remove |
| Baseline installation | `scripts/baseline/` | installed files | install, update, remove, sync |
| Scope capture | `scripts/runtime/multi_repo_scope.py`, `remote_repositories.py` | captured repositories and their digests | capture, verify |
| Merging and triage | `scripts/model/merge_threats.py`, `scripts/shared/_finding_state.py` | none | merge, match, classify |
| Stages, prompts, contexts | `scripts/orchestrator/assessment_*.py` | workspace documents | build requests, check answers |
| Analyzers, renderers, exporters, validators | `scripts/analyzers`, `scripts/renderers`, `scripts/validators`, ... | none | documents to documents |

How they interact:

- The controller opens one *session* (`AssessmentState.hold`), which keeps a guard on the output
  directory until the process ends, refreshes `.appsec-lock` from a heartbeat thread, and saves its
  accounting with `checkpoint()`. Workers, heartbeat and main thread share the state record.
- Pool threads analyze components side by side. Each calls `AssessmentJobs.exchange` for a STRIDE
  job per batch and an optional evidence review. `exchange` looks for a receipt of this run, then
  for one of an earlier run under `cache/`, and otherwise enters `budget.job` and runs the exchange
  loop, whose calls go through `DiscoveryBudget.invoke`.
- All threads share one budget. A call reserves its ceiling under the budget's lock, runs without
  it and settles under it. The lists behind the retry limits are shared without a lock.
- `assess-stop`, another process, reads the state and the lock, writes `.assessment-stop`, and
  signals the controller.
- The next start finds whatever the last session left: it resumes, reuses, replaces, or refuses.
- Runs that use the command line of `acquire_lock.py` share `.appsec-lock` with the controller;
  `terminate_run.py` and `check_state.py --clean` remove it by name and without the guard.
- In a session run, each hook of the host is a process of its own. All of them read and write one
  registry of agent calls under its file lock, one update at a time; a handler may need several.
- An analysis on demand owns a private job directory through a `flock`; answering, cancelling and
  the maintenance each invocation begins with are other processes on the same directory.

Hard here: threads that spend from one account, a checkpoint reading fields that others change,
locks taken under other locks, crashes between two writes that belong together, sequences of
stops, resumes, updates and edits over several sessions, and a second process that acts on what it
read before. `PROJECT.json` lists the hazards at their lines with the properties that cover them.

What makes each part correct:

- *Budget*: no interleaving spends more than the limit; required work never loses its allowance to
  optional work; a waiting call is woken; a failed component ends the run and not the process.
- *Jobs and state*: a resumable directory accounts for every paid call; receipts and artifacts
  match; accepted work is bought once; a report rests on answers to its own requests; user files
  survive; a directory never becomes unusable without a reason.
- *Checkpoint*: what is on disk at any moment covers what was issued; the final record is the last;
  no thread waits forever; a released lock stays released.
- *Run lock*: two runs work in one directory only for a named reason; the lock names the session at
  work; a dead run's lock expires.
- *Exchange*: one limit holds for every kind of call, and a rejection reaches the model or the user.
- *Agent lifecycle*: a call that is over does not come back, none is left for nobody to close,
  children are charged to their own calls, usage is counted once.
- *Analyst jobs*: one outcome per job, every exit records one, a cancellation stops further calls,
  and an abandoned job is closed and loses its captured source.
- *STRIDE dispatch* (not modelled): every planned component ends analyzed or reported as failed.

## 2. Modules

| Module | Models |
|---|---|
| `AssessmentBudget` | admission, settlement, retries and job outcomes on the shared account |
| `CostLedger` | abstract: what the account promises to its callers |
| `AssessmentBudgetLedger` | the refinement of `CostLedger` by `AssessmentBudget` |
| `AssessmentBudgetProofs` | theorems about the two |
| `AssessmentRun` | the output directory over several sessions |
| `AssessmentRunProofs` | theorems about its receipts, accounting and reports |
| `AssessmentRunFilesProofs` | theorems about its files, imports and starts |
| `AssessmentCheckpoint` | the threads of one session while they save its accounting |
| `AssessmentCheckpointProofs` | theorems about saved accounting |
| `RunLock` | `.appsec-lock` between processes: sessions, command-line runs, removers |
| `RunLockProofs` | theorems about it |
| `Exchange` | the dialogue of one job with the model |
| `ExchangeProofs` | theorems about it |
| `AgentCalls` | abstract: what the registry promises to those who wait for a call |
| `AgentLifecycle` | the registry of agent calls and the hook handlers that share it; refines `AgentCalls` |
| `AgentLifecycleProofs` | theorems about the registry and the refinement |
| `AnalystJobs` | one job directory of the on-demand analysis and the processes that share it |
| `AnalystJobsProofs` | theorems about it |
| `MCAssessmentBudget`, `MCAssessmentRun`, `MCRunLock`, `MCExchange`, `MCAgentLifecycle`, `MCAnalystJobs` | small instances for TLC |

### AssessmentBudget

One worker per pool thread. `pc` follows a worker through `exchange` and `invoke`:

```
idle -> ready -> reused ------------------------------> (Accept)
              -> admit -> call -> answered -> admit     (NextExchange)
                                           -> (Accept)  idle / ready
                               -> failed -> record -> again -> admit
                                         -> raised -> (Conclude) idle
```

- `TakeComponent`, `TakeDeferred`, `TakeReport` are the pool, the loop over deferred reviews after
  it and the report job; a component's STRIDE job count replaces its provisional plan when a thread
  takes it, as in `plan_required`. After its STRIDE jobs a component has no evidence review, one or
  several (`AfterStride`, `AfterReview`, up to `MaxReviews`); each one that found no budget is deferred
  by itself (`Deferring`) and is a task of its own afterwards.
- `ReuseReceipt` charges a receipt of an earlier run and accepts one of this run without a charge: the
  account a resume restores contains it.
- `RefuseCall`, `RefuseForTime`, `ReserveCall` are the admission loop of `_invoke_once`, one
  critical section; its `wait(1)` is the disabled worker.
- `Answer`, `FailCall`, `LoseCost` end a call. The deduction on every failure kind follows the
  code: a timeout and a stop keep the reservation, a free failure returns it, a paid one is charged
  what it reported, which may be nothing; an implausible report leaves it charged and closes the
  account. `RejectAnswer` is every way in which `run_exchange` gives up after a reply, the plain errors
  included that fail even an optional job.
- `DecideRetry` and `RecordRetry` are two steps because the code reads and appends to the shared
  list without the lock.
- `Reserve`, `Available`, `CallLimit`, `Estimate` are the functions of the same names in
  `AssessmentBudget`.

Abstracted: amounts are small integers (cents) in place of floats; time is one deadline that may
pass at any moment (`Expire`), a time reserve that may refuse any admission, and calls that end in
some order; the number of calls of a job is bounded by `MaxExchanges`.

`CostLedger` knows clients that open, close or forfeit reservations. It says what the callers of
the account may rely on: a call is paid from a reservation made before it starts and settled once,
a reservation below the full allowance is the only open one, and nothing opens after an unknown
cost. A reservation is open in the mapping (`Reservation`) exactly while its worker's call runs.

### AssessmentRun

One session at a time in one directory; the guard file makes sessions exclusive, so concurrency is
left to the other modules. Every write that a crash could separate from the next is a step:
moving an artifact and its receipt into the cache (`UncacheArtifact` ... `MoveReceipt`), unlinking the state,
removing deliverables one by one, adopting a cached job (charge, save, artifact, receipt), buying
one (reserve, save, call, artifact, receipt, save), publishing file by file, completing, saving the
end, removing the stop request, releasing the lock. `Heartbeat` is a checkpoint between any two.

- `AcceptsResume`, `AcceptsEmpty`, `AcceptsUnfinished`, `AcceptsReplacing` are the conditions under
  which `_open` and `_discard_unfinished_run` admit a start. They read what the last session left.
- A version number stands for the sources' and the plugin's fingerprints. A job's request is
  `[job, sources, plugin]`; the plugin counts only for jobs in `Instructed`, whose prompts come from
  the plugin. An artifact is the number of the answer it holds, and `bought` says for which request
  each answer was bought, which is what the digests in a receipt record.
- `World` is what happens outside: a crash, a stale lock, `assess-stop` with its check and its write
  apart, a user's edit, changed sources, a plugin update, a passed deadline, and a user who clears a
  directory that admits no start.

`PublishFile` moves each staged file once. Nothing is compared afterwards: `Complete` records the files as
they are by then, so that a file which an import or a user wrote since its move is recorded as it is.
`PublishFails` stands for a move that fails and for the removal of files of earlier names after it.
Users write at any time, also while a session or an import runs (`EditFile`). `Checked` says of a file
that a removal or an import has looked at it and will still act on it by name; `raced` are the files
written in that window.

Abstracted: a job costs one call; removing a directory tree is one step; what users write is one value,
so that a file edited twice is not told from one edited once; the deliverables' earlier names
(`_LEGACY_PUBLISHED`) are not files of the model; `complete()`, which reads the files one after
another, is one step; the refusal of a resume whose money or calls are used up, the report about omitted
components and the carried-over changelog are left out; a checkpoint writes state and lock together
(`AssessmentCheckpoint` splits it).

`ImportBegins`, `InstallFile`, `InstallReceipt` and `ImportEndsEarly` are `import_legacy`. It takes no
guard, so it runs beside a session: the check of the destination is one step with the staging, the
files follow one by one, the receipt comes last. Replacing an imported run removes that receipt first
and then its files, one step each (`doomed`).

### AssessmentCheckpoint

Workers, heartbeat and main thread, from the first checkpoint to the end of `hold()`. `checkpoint()`
is seven steps: take its lock and check ownership, read `calls`, read `spent`, read `failed`, which reads
whether a cost is unknown (`ReadUnsettled`) and then whether a call runs (`ReadFailed`), write the
state, write the output lock. A cost that gets lost between the two reads is saved as known. A thread that calls it keeps its other locks: a worker inside the
budget's critical section (`PollStop`), a worker under the jobs' lock (`Guarded`). `ReleaseLock` and
`DropHold` are not under the checkpoint's lock, and the heartbeat is not joined, as in the code.
A crash needs no action here: an invariant over `disk` and `issued` speaks of the crash that
happens now.

### RunLock

`lock` is the file: whose it is, how many heartbeats old, whether it was ever refreshed and whether it
states its own `stale_after`. A controller session goes `out`, `open`, `work`, `closing`, `ended`; it holds the
guard until it exits, and a thread inside a checkpoint (`writer`) checks the lock's owner in one step
and writes in another. A command-line run acquires and beats under the guard. Its heartbeat command
looks whether there is a lock, reads the run id and writes, in three steps (`DoHeartbeat`, `ReadRunId`,
`Refresh`); a remover takes no guard, so the lock may be gone in between, and what is then written names
no run. A remover checks in one
step (`TerminatorChecks`, `CleanerChecks`) and unlinks in another. `Thresholds`, `NeverBeat`, `Fresh` are
`_classify_lock`; without a threshold of the holder's own, each reader looks up the one of the phase in
the checkpoint file at that moment, so it is a choice between `ShortPhase` and `LongPhase`. A process id read in another namespace may look alive or dead, so liveness is a choice
wherever the code asks for it. Time is counted in heartbeats of a controller (`Tick`); a process that
is awake is on time, and any process may fall asleep at any point for as long as it likes. `lost`
records how a run at work lost the lock. The guard file is exclusive by `flock` and is not modelled
further.

### Exchange

`pc` follows `run_exchange`: `turn` (limits, stop, time, packet), `asked` (the call), `answered`
(the reply), `reading` (its requests one by one), `rejected`, `asking`, `corrected` (the call that
corrects citations only) and `feedback`. `number`, `extra`, `corrections` and `rounds` are the code's
counters; `seen` and `served` are what the packets carry. What the model answers, whether a packet fits
and whether a result passes its checks are choices.

### AgentLifecycle and AgentCalls

A child is named by the call that launched it, and `call[c].bound` is the child the registry believes
`c` to run. `Dispatch` is the hook before a call, `Start`, `Handback`, `StopArrives`/`StopSettles`,
`ReturnAcknowledges` ... `ReturnDecides`, `FindCharged`/`Tally` and `Backfill` are the other handlers, split
where the code gives up the registry's lock and takes it again; `Clear` is the cleanup of a session, and
`FinishJob` what `finish_jobs` does to a job's calls. The host may run a child, end it, resume it, repeat a
stop or drop it. A lookup that fails to decide between calls (`Charged`, `Owner`) does so as in the
code, by elimination. `TerminalPlaces`, `Oldest` and `Without` are eviction from a full registry, `Bury` the
record an event leaves for a call the registry does not hold.

`StopArrives` chooses how the child ended and what its transcript says apart (`UsageSeen`, without a
transcript if `TranscriptMissing`); a counter that `observe_tool_uses` raises survives until
`StopSettles` when the stop has to settle the call. `Handback` reads the turns and notes the handback
under two locks: a turn charged in between is the choice `limit`. Events of every kind go on after
`Clear`, which any Stop that does not own the run lock makes; it happens once in a behaviour (`ended`).

`AgentCalls` is what `wait_agent_calls.py` may rely on: a call is absent, live, quiet, over or closed,
and moves forward only, but for a quiet child that wakes. Its record may go (`gone`: evicted, or removed
by `Clear`); it never runs again, although a late stop may leave a record that it is closed. A waiter
that asks by job (`jobs_settled`) takes a call without a record for unsettled; that such a job is waited
for in vain is a consequence of eviction and not excluded by a property.

Abstracted: quiet periods and retention are choices; messages, logs and policy denials are data; the
locks a stop takes between binding the child and recording its usage are one step.

### AnalystJobs

A process enters by `MakeRoot` (an analysis), `Mark` (a cancellation), `OpenLock` for an answer or for
maintenance. Opening the lock file and locking it are two steps, as in `_lock`; whatever happens between
them is the next process's. `RunOwns`, `AnswerOwns`, `CancelOwns` and `MaintainOwns` are what each does with
the lock. `Capture`, `Prepared`, `Analyze`, `Check`, `Invoke`, `CallEnds`, `UseReply` and `Ask` are the analysis, `Record` and
`Write` the end of a job: the state first, then up to four files. `Interrupt` is an error or a signal
anywhere inside `_guarded`, also inside the handling of an earlier one; `Kill` is the end of a process
outside of it, or for good. A signal that arrives after the analysis returned with a question and before
`_guarded` is left closes the job and keeps the captured source (`aborting` is then "keeps"), until the
next process cleans up.

Abstracted: contents of requests, questions, answers and results; the host process; admission before a
job exists; the feature file's saved answers. Hours and days pass as single events (`AnswerHoursPass`,
`ResultDaysPass`). One directory: jobs do not share files, and maintenance visits them one by one. An error in another job
ends that pass before it reaches this one; the next pass is the one modelled, which is what the fairness of
maintenance assumes. A job that waits for answers always has its `request.json` (it is written before any
question, and only a removal takes it away), so the branch of `_answer_window_open` for its absence cannot
be taken.

## 3. Runs

| Run | Instance | Result |
|---|---|---|
| `budget_safety` | 2 workers, 2 components, full allowance 2, limit 6, 5 calls, overrun 1, 1 retry of each kind, up to 2 reviews per component, symmetry | holds, about 1.8 million states |
| `budget_liveness` | the same with limit 5, 4 calls, fresh and resumed accounts, 1 review, fair threads, no symmetry | holds, about 320 000 states |
| `budget_paid_retries` | as `budget_safety` | `PaidRetriesPerRun` violated |
| `run_safety` | 2 jobs, 2 files, 3 sessions, 3 answers, 2 outside events | holds, about 3.7 million states |
| `run_liveness` | 2 sessions, output outside the checkout, fair session and clock | holds |
| `run_stuck` | as `run_safety` | `StartableAfterRun` violated |
| `checkpoint_safety` | 2 workers, heartbeat, main thread, 2 calls | holds, about 300 000 states |
| `checkpoint_release` | 1 call | `LockReleased` violated |
| `lock_safety` | 2 sessions, 1 command-line run, 1 terminator, 1 cleaner; thresholds 1, 2, 3 | holds, about 220 000 states |
| `exchange_limits` | 6 exchanges and 2 corrections as in the source, 3 reads | holds, about 118 000 states |
| `lifecycle_safety` | 2 calls, 2 jobs, 1 tool hook, a registry of 1 or 2 places, 1 turn, transcripts present, symmetry | holds, about 790 000 states |
| `analyst_jobs` | 2 processes at a time, 2 calls, 1 question round, 2 user commands, 1 kill | holds, about 830 000 states |

What they show:

- **budget_safety.** `SpendWithinLimit`: what the run buys stays within the limit plus one overrun
  per thread, and calls in flight have their overrun counted already. `ReportFunded`: until the
  report starts, a full allowance and two calls are left for it. `PaidRetriesNearLimit`: the
  unlocked retry check costs at most one extra retry per further thread. `ImplementsLedger`: every
  step is one of `CostLedger`'s. The first two leave out what was carried over; that an admission
  counts it is the guard of `Open` in the ledger, which a model that ignores it violates.
- **budget_liveness.** `WaitingEnds`: a thread that waits for funds is admitted or refused.
  `RunEnds`: the pool always joins, with the report or halted.
- **run_safety.** `PairsIntact`: no order of moves pairs a receipt with another answer's artifact.
  `AccountingCovers`: accounting a resume trusts covers every call and receipt, and is too high by
  at most one interrupted adoption per crash. `RepeatsPerCrash`: an accepted answer is bought again
  only after a crash, at most once per crash. `ReportCurrent`: the files a run
  records as its own rest on answers to the requests of the sources and plugin it names, all of them on
  the same ones; files that an import or a user wrote between publication and recording are recorded
  as they are, and nothing of an earlier run is. `StuckForAReason`: the only ways into a directory
  that refuses every start are a kill, an orphaned stop request, a user's file, files published by
  a run that did not complete, or an import that stopped half way or met a session. `UserFilesKept`:
  a user's file is erased only by publication, by the user, when it was written between a check and
  the removal or import that acts on it (`raced`), or when a completing run had recorded it as its own. `ImportWhole`: an import's receipt vouches for all of its
  files, also while they are removed.
- **run_liveness.** `DirectoryFreed`: a held or freshly locked directory becomes free again.
- **checkpoint_safety.** `CallsCovered`: the state on disk counts every started call and reused
  receipt. `SpendNearlyCovered`: recorded cost misses at most the overruns of calls that settled
  during one save. `EndRecorded`: a late heartbeat cannot put an older record over the final one.
  `SessionEnds`: the three locks and the polling under them never block the session.
- **lock_safety.** `Exclusion`: two runs work at once only if one was silent past its threshold, a
  remover unlinked a lock newer than the one it looked at, or a late checkpoint wrote over it; a
  lock somebody vouches for is never taken. `HolderNamed`: while a session works, the lock names no
  other run, but for an earlier session's late checkpoint. `DeadLockExpires`: a dead run's lock stops
  blocking, unless a superseded run keeps refreshing it.
- **exchange_limits.** `CallsBounded`: reads, corrections and anchor corrections together call the model
  at most `MAX_EXCHANGES` times, and the job reports no fewer calls than it made. `RejectionReturned`: a
  rejection is sent back or is the reason of the failure, unless an anchor correction used its turn.
  `ServedBounded`: no mixture of reads and rejections serves more than `MAX_READS` windows.
- **lifecycle_safety.** `NoLeak`: acknowledgement and stop never leave a call for each other.
  `BindingsExplained`: no two calls share a child; a call has another call's child only after that call was
  closed or got a wrong child itself; and every chain of such wrong bindings began with a closed call.
  `LateChargesBounded`: only tool uses already under way charge a finished child.
  `UsageCountedOnce`: repeated and late stops, answers, backfill and cleanup count usage once.
  `KeepsPromise`: every step is one of `AgentCalls`, evictions and the cleanup of the session included.
- **analyst_jobs.** `OutcomeStands`: every result a job shows, in its directory or in the output, is the
  outcome its state records. `EveryExitCloses`: without an owner a job is open, or keeps source, only at
  a question checkpoint, unless its owner was killed or interrupted twice, or by a signal right after that checkpoint. `CancelHeeded`: after a
  cancellation at most one more call begins. `JobsClose`: an abandoned job is closed and its source
  removed, as long as its lock file has its name.

### Bounds

Two workers are the smallest pool in which admissions race, a partial reservation meets a full one
and the retry check races. The limit of 6 with allowances of 2 leaves room for two full calls and
one partial one beside the report's allowance, so waiting, partial ceilings, refused optional work
and deferral all occur; one batch and one retry of each kind reach every branch of the retry code, and
two reviews let a component defer one, both or none.
Two jobs, one required and one optional, one of them depending on the plugin, make every mix of
kept and discarded receipts; three sessions let the third find what a start interrupted in the
second left of the first; two outside events pair a crash or a passed deadline with an update, an
edit or a stop. Two calls over two workers let one settle while the other starts; `MaxCalls = 3` was
checked once as well.

Two sessions are needed for a late checkpoint of one to meet the lock of the other, the command-line run
for takeover without the controller's guard, and one remover of each kind for each check. Thresholds of
1, 2 and 3 heartbeats keep the order of the code's (own, never refreshed, phase) and keep them apart.
Two agent calls are the smallest number in which elimination can bind the wrong one; with a third the
displaced child may displace another, which was checked once (3 calls of one job in a registry of 1 or 2
places, without tool uses: 1.06 million states) and is proved for any number. A registry of one
place makes every second launch evict or refuse. A usage of 2 did not finish in the time of a run; missing transcripts (`TranscriptMissing = TRUE`) were
checked once (1.5 million states), and both are covered by the proofs. Two
processes suffice for the analysis to meet a cancellation, an answer or maintenance, and processes
begin again without bound; three processes were checked once for safety (2.8 million states). One
question round and two calls make a resumed pass that calls once more; two user commands pair an answer
with a cancellation. Every action of every module occurs in a passing run.

### Fairness

- `AssessmentBudget`: weak fairness per worker. A host stops a call at its time limit, a waiting
  thread polls each second, a retry delay is finite, and none of these depends on another thread.
- `AssessmentRun`: weak fairness of the session's own steps (one thread that runs until it ends) and
  of the clock that makes a lock stale. Nothing is assumed of users, of `assess-stop`, of crashes, or
  of anyone starting a session.
- `AssessmentCheckpoint`: strong fairness per thread, because a thread may find a lock taken again
  and again. Python's locks give no order, but every holder releases after a bounded number of steps
  and spends most of its time elsewhere: the heartbeat sleeps between saves, the workers call.
  Beginning another job is not fair.
- `RunLock`: strong fairness of time and of a write under way, because both are disabled while a
  process sleeps; a process may still sleep again and again. Nothing else is assumed: no session has
  to end and no remover to act.
- `AnalystJobs`: weak fairness of every process once it has begun (calls have limits), of the end of the
  answer window, and of maintenance, because the repository is analyzed again and again; this is
  the only thing that closes an abandoned job. Users owe nothing; interruptions are not assumed.

### Disagreements with the documentation

1. `multi_repo_discovery.py:152-154` promises that paid failures are repeated at most
   `MAX_PAID_RETRIES` times per run. Two threads can pass the check together
   (`budget_paid_retries`); the excess is at most one per further thread (`PaidRetriesNearLimit`,
   proved).
2. `docs/headless-mode.md:303`: after an interrupted run, resume or start anew. A deadline that
   passes between publication and `complete()` leaves a directory that admits neither
   (`run_stuck`).
3. `orchestration_controller.py:4539-4540`: the run ends with its lock released. A heartbeat inside
   a checkpoint writes the lock again after the release (`checkpoint_release`).

### Observations

Behaviours the models contain and no property forbids; a maintainer may want to know them.

- *State.* `docs/headless-mode.md:175` says a new run reuses every unchanged step of an unfinished run. A
  crash between moving an artifact and its receipt loses that step; `RepeatsPerCrash` bounds it.
- *Import.* A killed import leaves files without a receipt, and every later start is refused until a user
  clears the directory. Removing an imported run unlinks the receipt first, with the same effect.
- *Files.* The docstring at `assessment_state.py:447-451` says that a rebuild never erases a user's file.
  That holds for what was written before the check of the file: the removal is by name and follows later
  (464-469), as does the rename of an import (`legacy_import.py:190-192`). A deliverable that a user or
  an import writes after its move and before `complete()` is recorded as the run's own, and a later
  rebuild removes it as such.
- *Lock.* The heartbeat thread is not joined: a late checkpoint may overwrite the lock, and the state, of
  the next session. `_do_heartbeat` does not look at the owner and drops `stale_after`, which is
  why `DeadLockExpires` exempts runs that still beat; when a remover unlinks the lock while it runs, it
  writes one without a run id, or one that names the run whose lock was removed. `skill_watchdog.py`, the caller of that command line
  in the documentation, is absent at this commit.
- *Exchange.* An attempt at an anchor correction counts as an exchange even when no call is made; the stop is
  not looked at after that call; a rejection whose anchor correction uses the last exchange
  ends as an exceeded limit without its reason. Reads of admitted files outside the job are counted
  as seen without a limit, so that the number offered in the packet may become negative.
- *Lifecycle.* A tool use that looked before its call was closed opens the retired counter again. The stop
  of one of several unbound calls of the same type is dropped when it comes before the
  acknowledgement; a late stop of a closed, unbound child may bind another running call. When two
  calls claim one child, the return of the second decides nothing. A child that was bound to
  another call leaves its own call to the next child: once one call was closed too early, the calls
  launched after it may each get the child of the one before.
- *Analyst.* A cancellation answered with "the running analysis stops at its next check" may still end
  in a question checkpoint or a complete result, because the checkpoint does not look at the marker.
  A waiting job with a marker is cancelled only when it is answered, or closes when the window ends.
  A job killed before its first state is closed by nobody: maintenance only removes its temporaries.
  A job killed between state and result is closed and has no result. Maintenance may lock
  a new job between its lock file and its lock, which ends that analysis with an uncaught error. A
  killed removal may leave a directory without lock file for ever. A second interruption while an
  answer is being recorded leaves a waiting job without its source.

## 4. Proofs

`AssessmentBudgetProofs` proves, for every number of workers, components, batches, calls and every
amount, from the assumptions on the constants alone:

| Theorem | States |
|---|---|
| `TypeCorrect` | `Spec => []TypeOK` |
| `SpendBound` | `Spec => []SpendWithinLimit` |
| `ReportAllowance` | `Spec => []ReportFunded` |
| `PaidRetryBound` | `Spec => []PaidRetriesNearLimit` |
| `BudgetRefinesLedger` | `Spec => ImplementsLedger` |

The inductive invariant `IInv` joins the properties with what they need:

- `InflightCounts`, the counter is the number of running calls. The spending bound adds
  `Overrun * inflight`; a settlement lowers the counter and raises the charge by at most one overrun,
  so their sum never grows. An admission raises the sum by its ceiling and one overrun, and is
  covered because the ceiling is at most what the account has left and at most
  `Cardinality(Workers)` calls run.
- `HeldReservations`, a running call holds between `MinCallUsd` and `CallUsd`. A settlement without
  it could lower the charge arbitrarily, and in the ledger a reservation of zero would not be open.
- `ReportCold`, the report's role has no observed cost while it is planned, so its reserve is one
  full allowance; this is why `ReportFunded` speaks of `CallUsd`.
- `RetriesAccounted`, recorded paid retries plus threads between decision and record stay within the
  limit plus one per further thread. The bound itself is not inductive: it says nothing of the
  threads that have decided.
- `TaskHeld` and finiteness of `required`, for the report's thread and the reserves' sizes.

Steps that leave an account alone are handled once (`QuietSteps`, `QuietKeeps`); one lemma per
conjunct then treats the steps that disturb it, and `InductiveStep` joins them. The refinement proof
maps `ReserveCall` to `Open`, `Answer` and `FailCall` to `Close`, `LoseCost` to `Forfeit`,
`ReuseReceipt` to `Carry` and every other step to a stutter, under `IInv`.

`AssessmentCheckpointProofs` proves, for any number of component threads and any amounts:

| Theorem | States |
|---|---|
| `TypeCorrect` | `Spec => []TypeOK` |
| `SavedCallsCover` | `Spec => []CallsCovered` |
| `SavedSpendCovers` | `Spec => []SpendNearlyCovered` |
| `FinalRecordStays` | `Spec => []EndRecorded` |

Its inductive invariant follows a call from its charge to the disk:

- `Pending` are the threads whose call (or reused receipt) is charged and not yet issued, `Saved` those
  of them whose checkpoint has saved. `Charged` says `issued + |Pending| <= calls`, and `DiskCounts`
  says `issued + |Saved| <= disk.calls`, which implies `CallsCovered`.
- A checkpoint reads `calls` long before it writes, and other threads issue calls meanwhile.
  `ReadCounts` says that what it read still covers the issued calls, the saved ones and its own:
  issuing moves a thread out of `Saved` and leaves the sum, and only a save enlarges `Saved`, which
  no other thread can do while this one owns the checkpoint lock (`OneInside`).
- `Returns` ties the place where a checkpoint continues to its thread, so that only workers bring a
  call.
- `RunningCounted` joins the count of running calls with `Ceiling * inflight <= spent`, without which a
  settlement could take the charge below zero and `TypeOK` would not be inductive.
- `CostCharged` adds up what is or will be in the receipts (`Worth`, per worker) and the open reservations,
  and says that all of it is charged. A sum over workers is the number of its units (`Units`, `Total`), because
  a recursive sum cannot be reasoned about here; `OneAmount` says how one worker's amount changes it.
- `ReadCosts`: after a checkpoint read `spent`, a call can only settle if its reservation was saved before, so each
  worker adds at most one overrun until the checkpoint ends; when it finds no call running, what it read falls short by
  those overruns only. `DiskCosts`: while a state on disk says that all costs are known no call is `Open`, so that
  no further cost joins the receipts before the next save.
- `PoolJoined`, `FinalReads` and `FinalSaved` are for the end: the main thread leaves the pool only when
  every worker is idle, so the budget rests, every checkpoint whose reading began after that reads the
  final accounting, and one that read before it has saved before the final checkpoint got the lock.

`AssessmentRunProofs` and `AssessmentRunFilesProofs` prove, for any number of jobs, files, sessions, answers,
crashes and other events:

| Theorem | States |
|---|---|
| `TypeCorrect` | `Spec => []TypeOK` |
| `ReceiptsFit` | `Spec => []PairsIntact` |
| `ResumeAccounted` | `Spec => []AccountingCovers` |
| `CrashCost` | `Spec => []RepeatsPerCrash` |
| `ReportRests` | `Spec => []ReportCurrent` |
| `ImportsWhole` | `Spec => []ImportWhole` |
| `UserFilesStay` | `Spec => UserFilesKept` |
| `StuckOnlyFor` | `Spec => []StuckForAReason` |

`ReportRests` and `UserFilesStay` say as much as the two properties do: files of other origin may be recorded, and
a user's file written inside one of the windows may go.

They assume of the constants that optional and instructed jobs are jobs (`JobsAssumption`) and that file names and
the markers of a file's origin are values of their own (`FilesAssumption`, `MarkersAssumption`). The inductive
invariant has a part for each question, over a common one about the places of a session:

- `AtPlaces`: what a session holds at each of its places (`Stages`, `Versions`), the pair of the job in hand
  (`InHand`), what is already removed (`Emptied`) and moved (`Moved`). Every write that a crash can separate from
  the next is a place, so this is where the order of the writes enters.
- `Answers`: a receipt is in one place, under the job its answer was bought for, and the answer in hand answers
  the request of the job in hand; with `InHand` this makes `PairsIntact` inductive.
- `Reports`: the results a session has gathered rest on answers to its requests (`ResultsRest`). While files are
  published, each one already moved holds these results or what an import or a user wrote (`Moving`); hence the
  files a run records as its own do (`Current`), in the session (`RecordRests`) and in the state.
- `Accounts`: `owed + Ahead <= mem.calls <= owed + crashes + Ahead`, where `Ahead` is a call charged and not yet
  delivered, and what is about to be delivered is saved (`Saved`). The property itself speaks of the disk only and
  says nothing of the session that will write it next.
- `Repeats`: `repeated + |Lost| <= crashes`, where `Lost` are the jobs whose accepted answer to the request of the
  current sources and plugin is nowhere. A repeat takes a job out of `Lost`, and only a crash puts one in; that a
  new version loses nothing needs `KeptEarlier`, no answer was bought for a later one.
- `FilesInv`: an import from its staging to its receipt (`ImportRuns`), what a session that clears or replaces a run
  found and removes (`Clearing`, `Removing`), and what a directory without state (`Stateless`) or with a complete
  one (`CompleteRuns`) holds as long as nothing was killed. A user's file that is about to be removed was written
  after its check (`raced`) or is one that a completing run recorded (`Adopted`), which gives `UserFilesStay`. `StuckForAReason` then follows: without one of its
  reasons the directory is one that some start accepts.

`AgentLifecycleProofs` proves, for any number of calls, jobs and hook processes and any size of the registry:

| Theorem | States |
|---|---|
| `TypeCorrect` | `Spec => []TypeOK` |
| `OutcomeHandedOver` | `Spec => []NoLeak` |
| `ChildrenKeepToCalls` | `Spec => []BindingsExplained` |
| `LateChargesFew` | `Spec => []LateChargesBounded` |
| `UsageOnce` | `Spec => []UsageCountedOnce` |
| `PromiseKept` | `Spec => KeepsPromise` |

- `BindingsExplained` is inductive with the types and `Unlaunched`. Stated for two calls only (no two open calls have
  each other's child, and a call has another's only after that was closed) it failed: the induction could not
  exclude that a displaced child displaces the next, and TLC found that with three calls. It now says of every
  set of open calls that their children are not merely exchanged among them.
- `Unlaunched`: a call that was never launched left no trace, so that a launch, which may register a call that is
  registered already, begins without leftovers.
- `LateFound`: late charges and tool uses about to charge are together no more than the hooks, and nothing is late
  while a call is not over.
- `UsageLogged`: log and record of a call agree while it is open or bound; `UsageCountedOnce` alone says nothing of the
  record the next report is compared with.
- The refinement maps each step to a step of `AgentCalls` or a stutter. `LaunchedSettles` shows that no step takes a
  launched call backwards, a call whose record went included, `LaunchIsDispatch` that only `Dispatch` launches, one call at a time; a step may close
  several calls, as `AgentCalls` allows.

`RunLockProofs` proves, for any number of sessions, command-line runs and removers, and any thresholds
with the order of the code's (`ThresholdsAssumption`):

| Theorem | States |
|---|---|
| `TypeCorrect` | `Spec => []TypeOK` |
| `LockExcludes` | `Spec => []Exclusion` |
| `LockNamesHolder` | `Spec => []HolderNamed` |

- `HasLock` says that a run at work which has not lost the lock is named by it; two such runs are then
  one. `Exclusion` alone is not inductive: it does not say whom the lock names.
- `NotTaken`, that no live lock is taken, needs `StillFree`: between finding the directory free and
  writing its lock a session holds the guard (`OneGuard`), so that no command writes the lock, and time
  only makes a silent lock older; what remains is an earlier session's late checkpoint. It also needs
  `SeenClear`: a remover that passed its check saw no live lock.
- `HolderNamed` is inductive with `OneGuard`: a heartbeat command holds the guard until it has written, so that no
  session works meanwhile. `TypeOK` allows a lock without a run id, which only a heartbeat writes.

`ExchangeProofs` proves, for any limits on exchanges, reads and corrections:

| Theorem | States |
|---|---|
| `TypeCorrect` | `Spec => []TypeOK` |
| `CallBound` | `Spec => []CallsBounded` |
| `RejectionsReturned` | `Spec => []RejectionReturned` |
| `ServedBound` | `Spec => []ServedBounded` |

- `Room` says at each place how much of the limit is left: a turn in progress is within it, and a rejection
  is admitted only with one exchange to spare. `Owing` follows a rejection from there to the call that
  carries its reason; together they give `RejectionReturned`.
- `Noted`: every served window is noted as seen, so that the check of a read against what was seen also
  bounds what was served.

`AnalystJobsProofs` proves, for any number of processes, calls, question rounds, user commands and kills:

| Theorem | States |
|---|---|
| `TypeCorrect` | `Spec => []TypeOK` |
| `OneOutcome` | `Spec => []OutcomeStands` |
| `ExitsClose` | `Spec => []EveryExitCloses` |
| `CancelBound` | `Spec => []CancelHeeded` |

- `OneOwner`: the lock is held exactly by the process that is at a place where it works on the job, so that
  one process at a time changes the state. `Lifetime` adds that one process creates a job and that nothing is left
  of a removed one.
- `Stages` ties the state of the job to the place of its owner: a process about to write files has recorded
  the state they show (`OutcomeStands`), and none is about to end a job that is closed.
- `Late`: a call begun in spite of the marker leaves no process between check and call (`CancelHeeded`).
- `Kept`: whoever is about to leave an open job has what a question checkpoint keeps, or was interrupted
  twice (`EveryExitCloses`).

TLC checked all these invariants on the runs' instances before they were proved.

Every invariant and every safety action property that a run checks is proved. Only model-checked: liveness
(`WaitingEnds`, `RunEnds`, `DirectoryFreed`, `SessionEnds`, `DeadLockExpires`, `JobsClose`), which depends on fairness
and is out of this prover's reach. The three violations are counterexamples, which need no proof.

## 5. Not modelled

- *STRIDE dispatch* (`stride_dispatch_waves.py` and its neighbours): reached by no entry point of this
  commit but its own command line and its tests. What it does to the registry is `FinishJob`; its wave
  plan, which one caller rewrites claim by claim, is left out.
- *Watchdogs and cleanup*: the thresholds at which `budget_watchdog.py` warns, `runtime_cleanup.py` and
  `completion_relay.py`. Their effects on shared state (counters, the lock) are in `AgentLifecycle` and
  `RunLock`.
- *Agent lifecycle*: `record_lossy_turns`, which annotates a record nobody decides on, and what the
  handlers write to logs and traces.
- *Analyst controller*: admission, contexts, the saved answers of a feature file, the host process.
- *Baseline installation*, *scope capture*, *merging and triage*, *stages*, *analyzers, renderers,
  exporters, validators*: sequential transformations of files and documents, which unit tests reach.
  Their outcomes appear here as versions, accepted answers and failures. They are most of the
  code's lines and little of its control.

## 6. Plan

Done: `AssessmentBudget` with `CostLedger`, `AssessmentRun`, `AssessmentCheckpoint`, `RunLock`, `Exchange`,
`AgentLifecycle` with `AgentCalls`, `AnalystJobs`, and the proofs named in section 4. Next:

1. An abstract specification of a resumable directory (what a start may rely on after any stop) with `AssessmentRun`
   as its implementation, and one of a job's life with `AnalystJobs`; the invariants their refinement needs are
   proved.
2. Lemmas of progress that the liveness properties rest on and that are safety: who holds the lock another
   thread waits for, and that it can move.
