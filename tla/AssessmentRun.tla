---------------------------- MODULE AssessmentRun ----------------------------
(***************************************************************************)
(* The output directory of controller assessments over several sessions:   *)
(* AssessmentState (scripts/runtime/assessment_state.py), the receipts of  *)
(* AssessmentJobs.exchange (scripts/runtime/assessment_jobs.py), and the   *)
(* publication and stop request of                                         *)
(* scripts/orchestrator/orchestration_controller.py.                       *)
(*                                                                         *)
(* One session runs at a time: it holds the guard of the directory until   *)
(* its process ends.  Its writes to the directory are separate steps, and  *)
(* a crash may fall between any two of them.  Between sessions the user,   *)
(* the sources and the plugin may change what the next one finds.          *)
(***************************************************************************)
EXTENDS Naturals, Sequences, FiniteSets

CONSTANTS
    Jobs,        \* number of jobs, run in order
    Optional,    \* jobs with a deterministic replacement (on_failure)
    Instructed,  \* jobs whose request changes with the plugin
    Files,       \* deliverables
    User,        \* content a user put into a file
    Legacy,      \* content of the report in the checkout's docs/security
    None,        \* no file, no state, no result
    Gap,         \* an optional job's replacement
    Placements,  \* values of in_checkout to consider
    MaxStarts,   \* bound: sessions started
    MaxCalls,    \* bound: answers bought
    MaxEvents    \* bound: crashes, edits, updates, stops, expiries, imports

ASSUME JobsAssumption ==
    /\ Jobs \in Nat \ {0} /\ Optional \subseteq 1..Jobs /\ Instructed \subseteq 1..Jobs
ASSUME PlacementsAssumption == Placements \subseteq BOOLEAN
ASSUME RunBounds == MaxStarts \in Nat /\ MaxCalls \in Nat /\ MaxEvents \in Nat

VARIABLES
    \* The directory.
    state,       \* .assessment-state.json
    work,        \* .assessment-work exists
    jobs, cache, \* artifacts and receipts under jobs/ and cache/
    files,       \* deliverables in the output directory
    stop,        \* the run .assessment-stop names, 0 if absent
    lock,        \* the run .appsec-lock names, 0 if absent
    fresh,       \* its heartbeat is recent
    imported,    \* .assessment-import.json: a docs/security report was imported
    staging,     \* .assessment-import-staging exists
    inCheckout,  \* the output lies in the assessed checkout (docs/security)
    \* The session.
    pc,          \* where the session is, "idle" if none runs
    replace,     \* --rebuild
    pending,     \* what it still has to unlink, or later to publish
    mem,         \* its state record, accounting included
    inflight,    \* a call runs, its cost is unknown
    job,         \* the current job
    answer,      \* the accepted answer not yet written
    results,     \* what the session accepted for each job
    cancelled,   \* the session was asked to stop
    \* The world.
    sources, plugin, \* versions of the selected sources and of the plugin
    expired,     \* the run's deadline passed
    stopper,     \* an assess-stop between its check and its write
    importing,   \* the files an import still has to install, None if there is none
    bought,      \* history: the request each answer was bought for
    kept,        \* history: requests accepted and never deliberately dropped
    repeated,    \* history: calls for a request in kept
    owed,        \* history: calls the run must account for
    raced,       \* history: files a user wrote after the check on which a removal or import acts
    crashes,     \* history
    starts, events \* bounded counters

store     == <<work, jobs, cache, files>>
locks     == <<stop, lock, fresh, inCheckout>>
session   == <<replace, pending, mem, inflight, job, answer, results, cancelled>>
imports   == <<imported, staging, importing>>
world     == <<sources, plugin, expired, stopper, imports>>
history   == <<bought, kept, repeated, owed, raced>>
bounds    == <<starts, events, crashes>>
vars      == <<state, store, locks, pc, session, world, history, bounds>>

AllJobs  == 1..Jobs
Nothing  == [j \in AllJobs |-> [artifact |-> 0, receipt |-> 0]]
NoResults == [j \in AllJobs |-> None]
Statuses == {"running", "complete", "interrupted", "failed"}

Results == [AllJobs -> {None, Gap} \cup (1..MaxCalls)]
Contents == Results \cup {User, Legacy}
Pairs   == [artifact : 0..MaxCalls, receipt : 0..MaxCalls]
Requests == [job : AllJobs, sources : Nat, plugin : Nat]
Records == [id : 1..MaxStarts, status : Statuses, calls : Nat, unavailable : BOOLEAN,
            sources : Nat, plugin : Nat, deliverables : [Files -> Contents] \cup {None}]
Preparing == {"clear", "move", "uncacheArtifact", "uncacheReceipt", "moveArtifact",
              "moveReceipt", "unlinkState", "removeWork", "removeFiles", "mkdir", "lock"}
Holding   == {"first", "run", "discard", "reserved", "calling", "writeArtifact", "writeReceipt", "accept",
              "charged", "adoptArtifact", "adoptReceipt", "publish", "wrap", "ending"}

ASSUME FilesAssumption == Files \cap {"state", "work", "stop", "import", "staging"} = {}
ASSUME MarkersAssumption ==
    /\ User # None /\ Legacy # None /\ User # Legacy
    /\ \A marker \in {None, User, Legacy} : marker \notin Results
    /\ None \notin Records /\ None \notin [Files -> Contents]
    /\ \A S \in SUBSET Files : S # None

TypeOK ==
    /\ state \in Records \cup {None} /\ work \in BOOLEAN
    /\ jobs \in [AllJobs -> Pairs] /\ cache \in [AllJobs -> Pairs]
    /\ files \in [Files -> Contents \cup {None}]
    /\ stop \in 0..MaxStarts /\ lock \in 0..MaxStarts /\ fresh \in BOOLEAN
    /\ inCheckout \in BOOLEAN
    /\ pc \in Preparing \cup Holding \cup {"idle", "release", "unlock"}
    /\ replace \in BOOLEAN /\ mem \in Records \cup {None} /\ inflight \in BOOLEAN
    /\ job \in 1..(Jobs + 1) /\ answer \in 0..MaxCalls /\ results \in Results
    /\ cancelled \in BOOLEAN
    /\ sources \in Nat /\ plugin \in Nat /\ expired \in BOOLEAN
    /\ stopper \in 0..MaxStarts
    /\ imported \in BOOLEAN /\ staging \in BOOLEAN
    /\ importing \in {None} \cup SUBSET Files
    /\ pending \subseteq Files \cup {"import"}
    /\ bought \in Seq(Requests) /\ Len(bought) <= MaxCalls /\ kept \subseteq Requests
    /\ repeated \in Nat /\ owed \in Nat /\ raced \subseteq Files
    /\ starts \in 0..MaxStarts /\ events \in 0..MaxEvents /\ crashes \in 0..events

NoSession ==
    /\ replace = FALSE /\ pending = {} /\ mem = None /\ inflight = FALSE /\ job = 1
    /\ answer = 0 /\ results = NoResults /\ cancelled = FALSE

Init ==
    /\ state = None /\ work = FALSE /\ jobs = Nothing /\ cache = Nothing
    /\ files = [f \in Files |-> None]
    /\ stop = 0 /\ lock = 0 /\ fresh = FALSE /\ inCheckout \in Placements
    /\ pc = "idle" /\ NoSession
    /\ sources = 0 /\ plugin = 0 /\ expired = FALSE /\ stopper = 0
    /\ imported = FALSE /\ staging = FALSE /\ importing = None
    /\ bought = <<>> /\ kept = {} /\ repeated = 0 /\ owed = 0 /\ raced = {}
    /\ starts = 0 /\ events = 0 /\ crashes = 0
-----------------------------------------------------------------------------
(***************************************************************************)
(* Which starts the directory admits (_open, _discard_unfinished_run)      *)
(***************************************************************************)

Receipts == {j \in AllJobs : jobs[j].receipt # 0}

\* --resume: same identity, settled accounting that covers every receipt, time
\* left, and recorded deliverables as they were recorded.
AcceptsResume ==
    /\ ~fresh
    /\ state # None
    /\ state.sources = sources /\ state.plugin = plugin
    /\ ~state.unavailable
    /\ ~expired
    /\ work
    /\ Cardinality(Receipts) <= state.calls
    /\ \A j \in Receipts : bought[jobs[j].receipt].sources = state.sources
    /\ state.deliverables # None => files = state.deliverables

Present == {f \in Files : files[f] # None}
Recorded == IF state # None /\ state.deliverables # None THEN Files ELSE {}
\* Mutant of Unchanged: a recorded file counts as the run's own, edited or not.
AnyRecorded == IF state = None THEN Files ELSE Recorded

\* The earlier run's own files; without a state, those the import recorded.
Unchanged == IF state = None THEN {f \in Files : files[f] = Legacy}
             ELSE {f \in Recorded : files[f] = state.deliverables[f]}

Own == {"state", "work"}
Leftovers ==
    LET found == Present \cup (IF state # None THEN {"state"} ELSE {})
                         \cup (IF work THEN {"work"} ELSE {})
                         \cup (IF stop # 0 THEN {"stop"} ELSE {})
                         \cup (IF imported THEN {"import"} ELSE {})
                         \cup (IF staging THEN {"staging"} ELSE {})
    IN  IF inCheckout THEN found \cap (Own \cup Recorded) ELSE found

AcceptsEmpty == ~fresh /\ Leftovers = {}

\* An unfinished run's jobs become the new run's cache.
AcceptsUnfinished ==
    /\ ~fresh
    /\ state # None /\ state.status # "complete"
    /\ Leftovers \subseteq Own

\* A completed or imported run, or with --rebuild any run, is removed if it owns
\* every file.
Owned == Leftovers \cap (Own \cup {"import"} \cup Unchanged)
AcceptsReplacing(rebuild) ==
    /\ ~fresh /\ ~AcceptsUnfinished
    /\ IF state = None THEN imported ELSE rebuild \/ state.status = "complete"
    /\ inCheckout \/ Leftovers = Owned

\* --migrate-legacy imports into a directory without assessment, run or import
\* (destination_holds_assessment), never into docs/security itself.
AcceptsImport ==
    /\ ~inCheckout
    /\ state = None /\ ~imported /\ Present = {}

Startable ==
    \/ AcceptsImport /\ Leftovers \subseteq {"staging"}
    \/ AcceptsResume \/ AcceptsEmpty \/ AcceptsUnfinished
    \/ \E rebuild \in BOOLEAN : AcceptsReplacing(rebuild)
-----------------------------------------------------------------------------
(***************************************************************************)
(* Starting a session                                                      *)
(***************************************************************************)

Goto(from, to) == pc = from /\ pc' = to

StartResume ==
    /\ Goto("idle", "lock") /\ starts < MaxStarts
    /\ AcceptsResume
    /\ mem' = [state EXCEPT !.status = IF @ = "complete" THEN @ ELSE "running"]
    /\ starts' = starts + 1
    /\ UNCHANGED <<state, store, locks, replace, pending, inflight, job, answer, results, cancelled,
                   world, history, events, crashes>>

\* Without --resume, or with it after a plugin change alone, the earlier run is
\* cleared, replaced, or the start refused, which changes nothing.
StartFresh ==
    /\ pc = "idle" /\ starts < MaxStarts
    /\ \E rebuild \in BOOLEAN :
        /\ replace' = rebuild
        /\ \/ AcceptsEmpty /\ pc' = "mkdir"
           \/ AcceptsUnfinished /\ pc' = "clear"
           \/ AcceptsReplacing(rebuild) /\ pc' = "removeWork"
        /\ pending' = IF AcceptsReplacing(rebuild) THEN Owned \ Own ELSE {}
        /\ raced' = raced \ pending'
    /\ starts' = starts + 1
    /\ UNCHANGED <<state, store, locks, mem, inflight, job, answer, results, cancelled,
                   world, bought, kept, repeated, owed, events, crashes>>

\* --rebuild drops the accepted jobs, a new run keeps them for its cache.
ClearWork ==
    /\ pc = "clear"
    /\ IF replace
       THEN /\ jobs' = Nothing /\ cache' = Nothing /\ kept' = {}
            /\ pc' = "unlinkState"
       ELSE UNCHANGED <<jobs, cache, kept>> /\ pc' = "move"
    /\ UNCHANGED <<state, work, files, locks, session, world, bought, repeated, owed, raced,
                   bounds>>

\* Mutant of MovePair: the earlier run's accepted jobs are not moved.
MoveNothing ==
    /\ pc = "move"
    /\ jobs' = Nothing /\ pc' = "unlinkState"
    /\ UNCHANGED <<state, work, cache, files, locks, session, world, history, bounds>>

\* Mutant of MovePair: the loop does not get past an incomplete pair.
MoveCompletePair ==
    /\ pc = "move"
    /\ \/ /\ job > Jobs
          /\ jobs' = Nothing /\ job' = 1 /\ pc' = "unlinkState"
       \/ /\ job <= Jobs /\ UNCHANGED <<jobs, job>>
          /\ jobs[job].artifact # 0 /\ jobs[job].receipt # 0
          /\ pc' = "uncacheArtifact"
    /\ UNCHANGED <<state, work, cache, files, locks, replace, pending, mem, inflight, answer, results,
                   cancelled, world, history, bounds>>

\* _move_jobs_to_cache: an accepted pair replaces the cached one in four steps.
MovePair ==
    /\ pc = "move"
    /\ \/ /\ job > Jobs
          /\ jobs' = Nothing /\ job' = 1 /\ pc' = "unlinkState"
       \/ /\ job <= Jobs /\ UNCHANGED jobs
          /\ IF jobs[job].artifact # 0 /\ jobs[job].receipt # 0
             THEN pc' = "uncacheArtifact" /\ UNCHANGED job
             ELSE job' = job + 1 /\ UNCHANGED pc
    /\ UNCHANGED <<state, work, cache, files, locks, replace, pending, mem, inflight, answer, results,
                   cancelled, world, history, bounds>>

UncacheArtifact ==
    /\ Goto("uncacheArtifact", "uncacheReceipt")
    /\ cache' = [cache EXCEPT ![job].artifact = 0]
    /\ UNCHANGED <<state, work, jobs, files, locks, session, world, history, bounds>>

UncacheReceipt ==
    /\ Goto("uncacheReceipt", "moveArtifact")
    /\ cache' = [cache EXCEPT ![job].receipt = 0]
    /\ UNCHANGED <<state, work, jobs, files, locks, session, world, history, bounds>>

MoveArtifact ==
    /\ Goto("moveArtifact", "moveReceipt")
    /\ cache' = [cache EXCEPT ![job].artifact = jobs[job].artifact]
    /\ jobs' = [jobs EXCEPT ![job].artifact = 0]
    /\ UNCHANGED <<state, work, files, locks, session, world, history, bounds>>

MoveReceipt ==
    /\ Goto("moveReceipt", "move")
    /\ cache' = [cache EXCEPT ![job].receipt = jobs[job].receipt]
    /\ jobs' = [jobs EXCEPT ![job].receipt = 0]
    /\ job' = job + 1
    /\ UNCHANGED <<state, work, files, locks, replace, pending, mem, inflight, answer, results,
                   cancelled, world, history, bounds>>

UnlinkState ==
    /\ Goto("unlinkState", "mkdir")
    /\ state' = None
    /\ UNCHANGED <<store, locks, session, world, history, bounds>>

\* _remove_earlier_run: the work directory, the import receipt, each unchanged
\* deliverable, the state.
RemoveWork ==
    /\ Goto("removeWork", "removeFiles")
    /\ work' = FALSE /\ jobs' = Nothing /\ cache' = Nothing
    /\ kept' = {}
    /\ UNCHANGED <<state, files, locks, session, world, bought, repeated, owed, raced, bounds>>

RemoveFiles ==
    /\ pc = "removeFiles"
    /\ \/ /\ "import" \in pending
          /\ imported' = FALSE /\ pending' = pending \ {"import"}
          /\ UNCHANGED <<state, files, pc>>
       \/ /\ "import" \notin pending
          /\ \E f \in pending : files' = [files EXCEPT ![f] = None] /\ pending' = pending \ {f}
          /\ UNCHANGED <<state, imported, pc>>
       \/ /\ pending = {}
          /\ state' = None /\ pc' = "mkdir"
          /\ UNCHANGED <<files, imported, pending>>
    /\ UNCHANGED <<work, jobs, cache, locks, replace, mem, inflight, job, answer, results,
                   cancelled, sources, plugin, expired, stopper, staging, importing, history,
                   bounds>>

\* A new run: its own accounting and deadline.
MakeWork ==
    /\ Goto("mkdir", "lock")
    /\ work' = TRUE
    /\ mem' = [id |-> starts, status |-> "running", calls |-> 0, unavailable |-> FALSE,
               sources |-> sources, plugin |-> plugin, deliverables |-> None]
    /\ expired' = FALSE /\ owed' = 0
    /\ UNCHANGED <<state, jobs, cache, files, locks, replace, pending, inflight, job, answer,
                   results, cancelled, sources, plugin, stopper, imports, bought, kept, repeated,
                   raced, bounds>>

TakeLock ==
    /\ Goto("lock", "first")
    /\ lock' = mem.id /\ fresh' = TRUE
    /\ UNCHANGED <<state, store, stop, inCheckout, session, world, history, bounds>>

\* checkpoint(): the accounting and status as they are now; a request to stop
\* this run is noticed.
Checkpoint(record) ==
    /\ state' = [record EXCEPT !.unavailable = inflight]
    /\ cancelled' = (cancelled \/ stop = mem.id)

FirstCheckpoint ==
    /\ Goto("first", "run")
    /\ Checkpoint(mem)
    /\ UNCHANGED <<store, locks, replace, pending, mem, inflight, job, answer, results, world, history,
                   bounds>>

\* The heartbeat thread checkpoints on its own clock.
Heartbeat ==
    /\ pc \in Holding
    /\ Checkpoint(mem)
    /\ UNCHANGED <<store, locks, pc, replace, pending, mem, inflight, job, answer, results, world,
                   history, bounds>>
-----------------------------------------------------------------------------
(***************************************************************************)
(* One job (AssessmentJobs.exchange)                                       *)
(***************************************************************************)

Request(j) == [job |-> j, sources |-> mem.sources,
               plugin |-> IF j \in Instructed THEN mem.plugin ELSE 0]

End(from, status) ==
    /\ Goto(from, "ending")
    /\ mem' = [mem EXCEPT !.status = status]

AtJob == pc = "run" /\ job <= Jobs /\ ~cancelled /\ ~expired

\* An exhausted deadline interrupts the run after a report of what is left out,
\* which fails on changed sources or a stop.
Exhausted == IF cancelled \/ sources # mem.sources THEN "failed" ELSE "interrupted"

StopAtJob ==
    /\ job <= Jobs
    /\ \/ cancelled /\ End("run", "interrupted")
       \/ ~cancelled /\ expired /\ End("run", Exhausted)
    /\ UNCHANGED <<state, store, locks, replace, pending, inflight, job, answer, results, cancelled,
                   world, history, bounds>>

Take(result) == results' = [results EXCEPT ![job] = result] /\ job' = job + 1

\* An accepted job of this run is used again; one that no longer fits its
\* receipt stops the run.
ReuseReceipt ==
    /\ AtJob /\ jobs[job].receipt # 0
    /\ \/ /\ bought[jobs[job].receipt] = Request(job) /\ jobs[job].artifact = jobs[job].receipt
          /\ Take(jobs[job].artifact)
          /\ UNCHANGED <<pc, mem>>
       \/ /\ bought[jobs[job].receipt] # Request(job) \/ jobs[job].artifact # jobs[job].receipt
          /\ End("run", "failed")
          /\ UNCHANGED <<results, job>>
    /\ UNCHANGED <<state, store, locks, replace, pending, inflight, answer, cancelled, world, history,
                   bounds>>

Cached == jobs[job].receipt = 0 /\ cache[job].receipt # 0

\* Mutant of Fits: a cached job is used whatever was asked.
FitsAnyRequest == cache[job].artifact # 0

Fits ==
    /\ bought[cache[job].receipt] = Request(job)
    /\ cache[job].artifact # 0

\* A cached job that no longer fits is dropped, its receipt first, and redone.
DiscardReceipt ==
    /\ AtJob /\ Cached /\ ~Fits
    /\ pc' = "discard"
    /\ cache' = [cache EXCEPT ![job].receipt = 0]
    /\ UNCHANGED <<state, work, jobs, files, locks, session, world, history, bounds>>

DiscardArtifact ==
    /\ Goto("discard", "run")
    /\ cache' = [cache EXCEPT ![job].artifact = 0]
    /\ UNCHANGED <<state, work, jobs, files, locks, session, world, history, bounds>>

\* Mutant of ChargeCached: a reused job's calls are given back.
CreditCached ==
    /\ AtJob /\ Cached /\ Fits
    /\ IF cache[job].artifact = cache[job].receipt
       THEN pc' = "charged" /\ mem' = [mem EXCEPT !.calls = @ - 1]
       ELSE End("run", "failed")
    /\ UNCHANGED <<state, store, locks, replace, pending, inflight, job, answer, results, cancelled,
                   world, history, bounds>>

\* A cached job is charged to this run before it moves, the receipt last.
ChargeCached ==
    /\ AtJob /\ Cached /\ Fits
    /\ IF cache[job].artifact = cache[job].receipt
       THEN pc' = "charged" /\ mem' = [mem EXCEPT !.calls = @ + 1]
       ELSE End("run", "failed")
    /\ UNCHANGED <<state, store, locks, replace, pending, inflight, job, answer, results, cancelled,
                   world, history, bounds>>

SaveCharge ==
    /\ Goto("charged", "adoptArtifact")
    /\ Checkpoint(mem)
    /\ UNCHANGED <<store, locks, replace, pending, mem, inflight, job, answer, results, world, history,
                   bounds>>

AdoptArtifact ==
    /\ Goto("adoptArtifact", "adoptReceipt")
    /\ jobs' = [jobs EXCEPT ![job].artifact = cache[job].artifact]
    /\ cache' = [cache EXCEPT ![job].artifact = 0]
    /\ UNCHANGED <<state, work, files, locks, session, world, history, bounds>>

AdoptReceipt ==
    /\ Goto("adoptReceipt", "run")
    /\ jobs' = [jobs EXCEPT ![job].receipt = cache[job].receipt]
    /\ cache' = [cache EXCEPT ![job].receipt = 0]
    /\ owed' = owed + 1
    /\ Take(jobs[job].artifact)
    /\ UNCHANGED <<state, work, files, locks, replace, pending, mem, inflight, answer, cancelled,
                   world, bought, kept, repeated, raced, bounds>>

\* Mutant of ReserveCall: a missing artifact, not a missing receipt, means that
\* the job is to be done.
ReserveWithoutArtifact ==
    /\ AtJob /\ jobs[job].artifact = 0 /\ cache[job].receipt = 0
    /\ pc' = "reserved"
    /\ mem' = [mem EXCEPT !.calls = @ + 1]
    /\ inflight' = TRUE
    /\ UNCHANGED <<state, store, locks, replace, pending, job, answer, results, cancelled, world,
                   history, bounds>>

\* A call is reserved, and the reservation saved, before the host starts.
ReserveCall ==
    /\ AtJob /\ jobs[job].receipt = 0 /\ cache[job].receipt = 0
    /\ pc' = "reserved"
    /\ mem' = [mem EXCEPT !.calls = @ + 1]
    /\ inflight' = TRUE
    /\ UNCHANGED <<state, store, locks, replace, pending, job, answer, results, cancelled, world,
                   history, bounds>>

\* Mutant of StartCall: the host starts before the reservation is saved.
StartUnsaved ==
    /\ Goto("reserved", "calling")
    /\ owed' = owed + 1
    /\ repeated' = repeated + (IF Request(job) \in kept THEN 1 ELSE 0)
    /\ kept' = kept \ {Request(job)}
    /\ UNCHANGED <<state, store, locks, session, world, bought, raced, bounds>>

StartCall ==
    /\ Goto("reserved", "calling")
    /\ Checkpoint(mem)
    /\ owed' = owed + 1
    /\ repeated' = repeated + (IF Request(job) \in kept THEN 1 ELSE 0)
    /\ kept' = kept \ {Request(job)}
    /\ UNCHANGED <<store, locks, replace, pending, mem, inflight, job, answer, results, world,
                   bought, raced, bounds>>

Answer ==
    /\ Goto("calling", "writeArtifact")
    /\ Len(bought) < MaxCalls
    /\ bought' = Append(bought, Request(job))
    /\ answer' = Len(bought) + 1
    /\ inflight' = FALSE
    /\ UNCHANGED <<state, store, locks, replace, pending, mem, job, results, cancelled, world, kept,
                   repeated, owed, raced, bounds>>

\* A failed call with a settled cost: an optional job gets its replacement,
\* which leaves no receipt.
FailCall ==
    /\ pc = "calling"
    /\ inflight' = FALSE
    /\ IF job \in Optional /\ ~cancelled
       THEN Take(Gap) /\ pc' = "run" /\ UNCHANGED mem
       ELSE /\ \E status \in {"interrupted", "failed"} : End("calling", status)
            /\ UNCHANGED <<results, job>>
    /\ UNCHANGED <<state, store, locks, replace, pending, answer, cancelled, world, history, bounds>>

\* The call's cost stays unknown: the accounting is unavailable from here on.
LoseCost ==
    /\ End("calling", "failed")
    /\ UNCHANGED <<state, store, locks, replace, pending, inflight, job, answer, results, cancelled,
                   world, history, bounds>>

WriteArtifact ==
    /\ Goto("writeArtifact", "writeReceipt")
    /\ jobs' = [jobs EXCEPT ![job].artifact = answer]
    /\ UNCHANGED <<state, work, cache, files, locks, session, world, history, bounds>>

WriteReceipt ==
    /\ Goto("writeReceipt", "accept")
    /\ jobs' = [jobs EXCEPT ![job].receipt = answer]
    /\ kept' = kept \cup {Request(job)}
    /\ UNCHANGED <<state, work, cache, files, locks, session, world, bought, repeated, owed, raced,
                   bounds>>

AcceptJob ==
    /\ Goto("accept", "run")
    /\ Checkpoint(mem)
    /\ Take(answer) /\ answer' = 0
    /\ UNCHANGED <<store, locks, replace, pending, mem, inflight, world, history, bounds>>
-----------------------------------------------------------------------------
(***************************************************************************)
(* Publication and the end of a session                                    *)
(***************************************************************************)

\* The report is staged from the results, then each file moved once.
Stage ==
    /\ pc = "run" /\ job > Jobs
    /\ IF sources = mem.sources
       THEN pc' = "publish" /\ pending' = Files /\ UNCHANGED mem
       ELSE End("run", "failed") /\ UNCHANGED pending
    /\ UNCHANGED <<state, store, locks, replace, inflight, job, answer, results, cancelled,
                   world, history, bounds>>

PublishFile ==
    /\ pc = "publish"
    /\ \E f \in pending :
        files' = [files EXCEPT ![f] = results] /\ pending' = pending \ {f}
    /\ UNCHANGED <<state, work, jobs, cache, locks, pc, replace, mem, inflight, job, answer,
                   results, cancelled, world, history, bounds>>

\* A file cannot be moved, or one of an earlier name not removed afterwards: the
\* ones before it stay published.
PublishFails ==
    /\ End("publish", "failed")
    /\ UNCHANGED <<state, store, locks, replace, pending, inflight, job, answer, results, cancelled,
                   world, history, bounds>>

Published == pc = "publish" /\ pending = {}

\* Mutant of Complete: the deliverables are not recorded.
CompleteUnrecorded ==
    /\ Published /\ ~expired /\ sources = mem.sources
    /\ pc' = "wrap"
    /\ mem' = [mem EXCEPT !.status = "complete"]
    /\ Checkpoint(mem')
    /\ UNCHANGED <<store, locks, replace, pending, inflight, job, answer, results, world, history, bounds>>

\* complete(): the deadline and the sources are checked once more, and the files
\* recorded as they are by now.
Complete ==
    /\ Published /\ ~expired /\ sources = mem.sources
    /\ pc' = "wrap"
    /\ mem' = [mem EXCEPT !.status = "complete", !.deliverables = files]
    /\ Checkpoint(mem')
    /\ UNCHANGED <<store, locks, replace, pending, inflight, job, answer, results, world, history, bounds>>

CompletionRefused ==
    /\ Published
    /\ \/ expired /\ End("publish", Exhausted)
       \/ ~expired /\ sources # mem.sources /\ End("publish", "failed")
    /\ UNCHANGED <<state, store, locks, replace, pending, inflight, job, answer, results, cancelled,
                   world, history, bounds>>

\* What follows completion may still fail, and then demotes the run.
Wrap ==
    /\ \/ Goto("wrap", "release") /\ UNCHANGED mem
       \/ \E status \in {"interrupted", "failed"} : End("wrap", status)
    /\ UNCHANGED <<state, store, locks, replace, pending, inflight, job, answer, results, cancelled,
                   world, history, bounds>>

SaveEnd ==
    /\ Goto("ending", "release")
    /\ Checkpoint(mem)
    /\ UNCHANGED <<store, locks, replace, pending, mem, inflight, job, answer, results, world, history,
                   bounds>>

RemoveStop ==
    /\ Goto("release", "unlock")
    /\ stop' = IF stop = mem.id THEN 0 ELSE stop
    /\ UNCHANGED <<state, store, lock, fresh, inCheckout, session, world, history, bounds>>

DropSession ==
    /\ replace' = FALSE /\ pending' = {} /\ mem' = None /\ inflight' = FALSE /\ job' = 1
    /\ answer' = 0 /\ results' = NoResults /\ cancelled' = FALSE

ReleaseLock ==
    /\ Goto("unlock", "idle")
    /\ lock' = 0 /\ fresh' = FALSE
    /\ DropSession
    /\ UNCHANGED <<state, store, stop, inCheckout, world, history, bounds>>
-----------------------------------------------------------------------------
(***************************************************************************)
(* The world around a session                                              *)
(***************************************************************************)

Event == events < MaxEvents /\ events' = events + 1

\* The process is killed or the machine stops.
Crash ==
    /\ pc # "idle" /\ pc' = "idle"
    /\ Event /\ crashes' = crashes + 1
    /\ DropSession
    /\ UNCHANGED <<state, store, locks, world, history, starts>>

\* A lock nobody refreshes no longer blocks the directory.
LockGoesStale ==
    /\ pc = "idle" /\ fresh
    /\ fresh' = FALSE
    /\ UNCHANGED <<state, store, stop, lock, inCheckout, pc, session, world, history, bounds>>

\* assess-stop checks the run, then writes its request and signals it.
AskStop ==
    /\ Event
    /\ stopper = 0
    /\ state # None /\ state.status = "running" /\ fresh /\ lock = state.id
    /\ stopper' = lock
    /\ UNCHANGED <<state, store, locks, pc, session, sources, plugin, expired, imports, history,
                   starts, crashes>>

WriteStop ==
    /\ stopper # 0
    /\ stop' = stopper /\ stopper' = 0
    /\ \/ UNCHANGED cancelled
       \/ pc \in Holding /\ mem.id = stopper /\ cancelled' = TRUE
    /\ UNCHANGED <<state, store, lock, fresh, inCheckout, pc, replace, pending, mem, inflight, job,
                   answer, results, sources, plugin, expired, imports, history, bounds>>

\* import_legacy, which takes no guard: a session may run.  The check and the
\* staging are one step; an earlier import's staging is replaced.
ImportBegins ==
    /\ Event
    /\ importing = None /\ AcceptsImport
    /\ staging' = TRUE /\ importing' = Files /\ raced' = {}
    /\ UNCHANGED <<state, store, locks, pc, session, imported, sources, plugin, expired, stopper,
                   bought, kept, repeated, owed, starts, crashes>>

InstallFile ==
    /\ importing \notin {None, {}}
    /\ \E f \in importing :
        files' = [files EXCEPT ![f] = Legacy] /\ importing' = importing \ {f}
    /\ UNCHANGED <<state, work, jobs, cache, locks, pc, session, imported, staging, sources, plugin,
                   expired, stopper, history, bounds>>

\* Mutant of InstallReceipt: the receipt does not wait for the last file.
InstallReceiptEarly ==
    /\ importing # None
    /\ imported' = TRUE /\ staging' = FALSE /\ importing' = None
    /\ UNCHANGED <<state, store, locks, pc, session, sources, plugin, expired, stopper, history,
                   bounds>>

\* The receipt is installed last, and the staging directory removed, unless the
\* import is killed in between.
InstallReceipt ==
    /\ importing = {}
    /\ imported' = TRUE /\ importing' = None
    /\ \/ staging' = FALSE /\ UNCHANGED events
       \/ Event /\ UNCHANGED staging
    /\ UNCHANGED <<state, store, locks, pc, session, sources, plugin, expired, stopper, history,
                   starts, crashes>>

\* A failing import removes its staging, a killed one does not; the files it
\* has installed stay.
ImportEndsEarly ==
    /\ Event
    /\ importing # None /\ importing' = None
    /\ staging' \in BOOLEAN
    /\ UNCHANGED <<state, store, locks, pc, session, imported, sources, plugin, expired, stopper,
                   history, starts, crashes>>

\* A removal or an import has checked the file and still acts on it by name.
Checked(f) ==
    \/ pc \in {"removeWork", "removeFiles"} /\ f \in pending
    \/ importing # None /\ f \in importing

\* A user writes or edits a deliverable at any time.
EditFile ==
    /\ Event
    /\ \E f \in Files :
        /\ files[f] # User /\ files' = [files EXCEPT ![f] = User]
        /\ raced' = IF Checked(f) THEN raced \cup {f} ELSE raced \ {f}
    /\ UNCHANGED <<state, work, jobs, cache, locks, pc, session, world, bought, kept, repeated, owed,
                   starts, crashes>>

Change ==
    /\ Event
    /\ \/ sources' = sources + 1 /\ UNCHANGED <<plugin, expired>>
       \/ plugin' = plugin + 1 /\ UNCHANGED <<sources, expired>>
       \/ ~expired /\ expired' = TRUE /\ UNCHANGED <<sources, plugin>>
    /\ UNCHANGED <<state, store, locks, pc, session, stopper, imports, history, starts, crashes>>

\* Where no start is admitted, the user is told to empty the directory.
EmptyDirectory ==
    /\ pc = "idle" /\ ~fresh /\ ~Startable /\ importing = None
    /\ state' = None /\ work' = FALSE /\ jobs' = Nothing /\ cache' = Nothing
    /\ files' = [f \in Files |-> None] /\ stop' = 0 /\ lock' = 0
    /\ imported' = FALSE /\ staging' = FALSE
    /\ kept' = {}
    /\ UNCHANGED <<fresh, inCheckout, pc, session, sources, plugin, expired, stopper, importing,
                   bought, repeated, owed, raced, bounds>>

Prepare ==
    \/ ClearWork \/ MovePair \/ UncacheArtifact \/ UncacheReceipt \/ MoveArtifact
    \/ MoveReceipt \/ UnlinkState \/ RemoveWork \/ RemoveFiles \/ MakeWork \/ TakeLock

Work ==
    \/ FirstCheckpoint \/ StopAtJob \/ ReuseReceipt \/ DiscardReceipt \/ DiscardArtifact
    \/ ChargeCached \/ SaveCharge \/ AdoptArtifact \/ AdoptReceipt \/ ReserveCall \/ StartCall \/ Answer
    \/ FailCall \/ LoseCost \/ WriteArtifact \/ WriteReceipt \/ AcceptJob

Finish ==
    \/ Stage \/ PublishFile \/ PublishFails \/ Complete \/ CompletionRefused \/ Wrap \/ SaveEnd
    \/ RemoveStop \/ ReleaseLock

World ==
    \/ Crash \/ LockGoesStale \/ AskStop \/ WriteStop \/ EditFile \/ Change
    \/ EmptyDirectory \/ ImportBegins \/ InstallFile \/ InstallReceipt \/ ImportEndsEarly

\* Nobody has to start a run.
AtRest == pc = "idle" /\ UNCHANGED vars

Next == StartResume \/ StartFresh \/ Prepare \/ Work \/ Finish \/ Heartbeat \/ World \/ AtRest

Spec == Init /\ [][Next]_vars

\* The session's thread keeps running, every model call has a time limit, and
\* a heartbeat ages.
FairSpec == Spec /\ WF_vars(Prepare \/ Work \/ Finish) /\ WF_vars(LockGoesStale)
-----------------------------------------------------------------------------
(***************************************************************************)
(* Properties                                                              *)
(***************************************************************************)

\* A receipt never meets an artifact it did not accept, whatever was moved,
\* replaced or cut short: a resumed run is never stopped for tampering it did
\* itself.
PairsIntact ==
    \A j \in AllJobs, place \in {jobs, cache} :
        place[j].receipt # 0 => place[j].artifact \in {0, place[j].receipt}

\* Accounting a resume may trust covers every call the run issued or adopted
\* and every receipt, and exceeds them by at most the adoption under way and
\* one interrupted adoption per crash.
AccountingCovers ==
    state # None /\ ~state.unavailable =>
        /\ Cardinality(Receipts) <= state.calls
        /\ owed <= state.calls
        /\ state.calls <= owed + crashes
              + (IF pc \in {"charged", "adoptArtifact", "adoptReceipt"} THEN 1 ELSE 0)

\* Without a crash no accepted request is bought twice, through any sequence of
\* stops, resumes, new runs, edits and updates; a crash costs at most one.
RepeatsPerCrash == repeated <= crashes

\* The results were accepted for the requests of the sources and plugin that a
\* record names, or are the replacement of an optional job.
RestsOn(content, record) ==
    /\ content \in Results
    /\ \A j \in AllJobs :
        \/ content[j] = Gap /\ j \in Optional
        \/ /\ content[j] \in 1..Len(bought)
           /\ bought[content[j]] =
                [job |-> j, sources |-> record.sources,
                 plugin |-> IF j \in Instructed THEN record.plugin ELSE 0]

\* The files a run recorded as its own, which neither an import nor a user wrote.
OwnFiles(record) == {f \in Files : record.deliverables[f] \notin {User, Legacy}}

\* A file that a run records as its own rests on the answers to its own requests,
\* and all of them on the same ones, unless an import or a user wrote it between
\* its publication and its recording: nothing of an earlier run is ever recorded.
ReportCurrent ==
    state # None /\ state.deliverables # None =>
        \A f \in OwnFiles(state) :
            /\ RestsOn(state.deliverables[f], state)
            /\ \A g \in OwnFiles(state) : state.deliverables[f] = state.deliverables[g]

\* What a user wrote is overwritten by publication or removed by the user.  A
\* start, a rebuild, an import or a cleanup erases it only if it was written
\* after that check of the file on which they act, or if a completing run had
\* recorded it as its own.
UserFilesKept ==
    [][\A f \in Files : files[f] = User /\ files'[f] # User =>
           \/ pc = "publish" /\ f \in pending
           \/ pc = "idle" /\ ~Startable /\ importing = None
           \/ f \in raced
           \/ state # None /\ state.deliverables # None /\ state.deliverables[f] = User]_files

\* The receipt of an import vouches for a whole report: "an interrupted import
\* leaves no receipt" (legacy_import.py), and neither does an interrupted removal.
ImportWhole ==
    imported => \A f \in Files : files[f] # None /\ (state = None => files[f] \in {Legacy, User})

\* A directory refuses every start only for one of five reasons: a process was
\* killed, a stop request outlived its run, a user wrote into the directory, an
\* unfinished run had already published files it does not record, or an import
\* stopped half way or ran into a directory a session was about to use.
StuckForAReason ==
    (pc = "idle" /\ ~fresh /\ ~Startable /\ importing = None) =>
        \/ crashes > 0
        \/ stop # 0
        \/ \E f \in Files : files[f] = User
        \/ state # None /\ state.status # "complete" /\ Present # {}
        \/ staging
        \/ \E f \in Files : files[f] = Legacy /\ (~imported \/ state # None)

\* "After an interrupted run, ... continue with --resume or start a new run"
\* (docs/headless-mode.md): if no process was killed, no user wrote into the
\* directory and nothing was imported, some start is admitted.
StartableAfterRun ==
    (/\ pc = "idle" /\ ~fresh /\ crashes = 0 /\ stop = 0
     /\ ~staging /\ \A f \in Files : files[f] \notin {User, Legacy})
        => Startable

\* Every session lets go of the directory: it ends and releases its lock, or
\* it was killed and its lock goes stale.
DirectoryFreed == (pc # "idle" \/ fresh) ~> (pc = "idle" /\ ~fresh)
=============================================================================
