----------------------------- MODULE AnalystJobs -----------------------------
(***************************************************************************)
(* One job of the on-demand threat analysis: its private directory, the    *)
(* flock on it (scripts/runtime/analyst_state.py) and the invocations that *)
(* share them (scripts/orchestrator/analyst_controller.py): the analysis,  *)
(* answers to its questions, a cancellation, and the maintenance every     *)
(* other invocation of the repository begins with.                         *)
(*                                                                         *)
(* The lock makes owners exclusive; the hazards are what happens without   *)
(* it: the cancel marker, opening the lock file before locking it, and     *)
(* processes that are interrupted or killed between two writes.            *)
(***************************************************************************)
EXTENDS Naturals

CONSTANTS
    Procs,      \* invocations that may run at the same time
    None,
    MaxCalls,   \* host_calls
    MaxRounds,  \* question_rounds
    MaxUser,    \* bound on answers and cancellations
    MaxKills    \* bound on killed processes

ASSUME ProcsAssumption == None \notin Procs
ASSUME BoundsAssumption ==
    MaxCalls \in Nat /\ MaxRounds \in Nat /\ MaxUser \in Nat /\ MaxKills \in Nat

VARIABLES
    dir,      \* the job root
    lockfile, \* its lock file has a name
    holder,   \* who has locked that file, named or not
    rec,      \* state.json
    marker,   \* the cancel marker
    view,     \* captured source and other temporaries
    shown,    \* outcome in result.json, result.md and the two published files
    calls, rounds,  \* counters in state.json
    window,   \* answer_hours have not passed since the question checkpoint
    aged,     \* result_days have passed since the end
    at, role, final, aborting, done,  \* where a process is and what it is to do
    users, kills,   \* bounded by MaxUser, MaxKills
    torn,     \* history: an owner ended without cleaning up and nobody has since
    botched,  \* history: an interrupted owner could not record its end
    lateCalls \* history: model calls begun after the marker was set

job   == <<dir, lockfile, rec, marker, view, shown, calls, rounds>>
time  == <<window, aged>>
local == <<role, final, aborting, done>>
bound == <<users, kills>>
past  == <<torn, botched, lateCalls>>
vars  == <<job, holder, time, at, local, bound, past>>

Terminal == {"complete", "incomplete", "failed", "cancelled"}
Open == {"prepared", "analyzing", "awaiting"}
Written == 1..4

\* Inside _guarded: an error or a signal is turned into an outcome.
Guarded == {"prepare", "captured", "begin", "loop", "checked", "calling", "reply", "answers",
            "leave", "record", "writing"}

TypeOK ==
    /\ dir \in {"unborn", "there", "gone"} /\ lockfile \in BOOLEAN
    /\ holder \in Procs \cup {None}
    /\ rec \in Open \cup Terminal \cup {"none"}
    /\ marker \in BOOLEAN /\ view \in BOOLEAN
    /\ shown \in [Written -> Terminal \cup {"none"}]
    /\ calls \in 0..MaxCalls /\ rounds \in 0..MaxRounds
    /\ window \in BOOLEAN /\ aged \in BOOLEAN
    /\ at \in [Procs -> Guarded \cup {"out", "made", "marked", "opened", "cleanup", "discard"}]
    /\ role \in [Procs -> {"none", "run", "answer", "cancel", "maintain"}]
    /\ final \in [Procs -> Terminal \cup {"none"}]
    /\ aborting \in [Procs -> {"no", "yes", "keeps"}] /\ done \in [Procs -> 0..4]
    /\ users \in 0..MaxUser /\ kills \in 0..MaxKills
    /\ torn \in BOOLEAN /\ botched \in BOOLEAN /\ lateCalls \in 0..MaxCalls

Init ==
    /\ dir = "unborn" /\ lockfile = FALSE /\ holder = None /\ rec = "none"
    /\ marker = FALSE /\ view = FALSE /\ shown = [n \in Written |-> "none"]
    /\ calls = 0 /\ rounds = 0 /\ window = FALSE /\ aged = FALSE
    /\ at = [p \in Procs |-> "out"] /\ role = [p \in Procs |-> "none"]
    /\ final = [p \in Procs |-> "none"]
    /\ aborting = [p \in Procs |-> "no"] /\ done = [p \in Procs |-> 0]
    /\ users = 0 /\ kills = 0
    /\ torn = FALSE /\ botched = FALSE /\ lateCalls = 0

Go(p, place) == at' = [at EXCEPT ![p] = place]
Step(p, from, to) == at[p] = from /\ Go(p, to)

\* The process ends, and with it its lock.
Exit(p) ==
    /\ Go(p, "out")
    /\ role' = [role EXCEPT ![p] = "none"] /\ final' = [final EXCEPT ![p] = "none"]
    /\ aborting' = [aborting EXCEPT ![p] = "no"] /\ done' = [done EXCEPT ![p] = 0]
    /\ holder' = IF holder = p THEN None ELSE holder

\* finish() is entered; a result that does not validate is withheld as failed.
Finish(p, outcome) ==
    /\ Go(p, "record")
    /\ \E end \in {outcome, "failed"} : final' = [final EXCEPT ![p] = end]
    /\ UNCHANGED <<role, aborting, done>>
-----------------------------------------------------------------------------
(***************************************************************************)
(* Who owns the job                                                        *)
(***************************************************************************)

\* create_job: the directory, the lock file and the lock, one after another.
MakeRoot(p) ==
    /\ dir = "unborn" /\ Step(p, "out", "made")
    /\ dir' = "there" /\ role' = [role EXCEPT ![p] = "run"]
    /\ UNCHANGED <<lockfile, holder, rec, marker, view, shown, calls, rounds, time, final, aborting,
                   done, bound, past>>

MakeLock(p) ==
    /\ Step(p, "made", "opened")
    /\ lockfile' = TRUE
    /\ UNCHANGED <<dir, holder, rec, marker, view, shown, calls, rounds, time, local, bound, past>>

\* cancel() sets the marker first, locked or not.
Mark(p) ==
    /\ dir = "there" /\ users < MaxUser /\ Step(p, "out", "marked")
    /\ users' = users + 1
    /\ role' = [role EXCEPT ![p] = "cancel"] /\ marker' = TRUE
    /\ UNCHANGED <<dir, lockfile, holder, rec, view, shown, calls, rounds, time, final, aborting, done,
                   kills, past>>

OpenLock(p, as) ==
    /\ dir = "there" /\ lockfile
    /\ \/ as = "cancel" /\ Step(p, "marked", "opened") /\ UNCHANGED users
       \/ as = "answer" /\ Step(p, "out", "opened") /\ users < MaxUser /\ users' = users + 1
       \/ as = "maintain" /\ Step(p, "out", "opened") /\ UNCHANGED users
    /\ role' = [role EXCEPT ![p] = as]
    /\ UNCHANGED <<job, holder, time, final, aborting, done, kills, past>>

\* The lock file has no name yet or any more.
OpenFails(p) ==
    /\ at[p] = "marked" /\ (dir # "there" \/ ~lockfile)
    /\ Exit(p)
    /\ UNCHANGED <<job, time, bound, past>>

\* Another process is faster; for the analysis itself that is its end.
LockFails(p) ==
    /\ at[p] = "opened" /\ holder # None
    /\ Exit(p)
    /\ UNCHANGED <<job, time, bound, past>>

Own(p) == at[p] = "opened" /\ holder = None /\ holder' = p

\* A job that was cancelled meanwhile cannot be written to.
RunOwns(p) ==
    /\ role[p] = "run" /\ at[p] = "opened" /\ holder = None
    /\ \/ dir = "there" /\ Own(p) /\ Go(p, "prepare") /\ UNCHANGED local
       \/ dir = "gone" /\ Exit(p)
    /\ UNCHANGED <<job, time, bound, past>>

\* answer() goes on with a job that waits for answers, if the model policy
\* still admits it.
AnswerOwns(p) ==
    /\ role[p] = "answer" /\ at[p] = "opened" /\ holder = None
    /\ \/ Exit(p)
       \/ rec = "awaiting" /\ Own(p) /\ Go(p, "answers") /\ UNCHANGED local
    /\ UNCHANGED <<job, time, bound, past>>

\* cancel() closes what is open, and removes a job that has no state.
CancelOwns(p) ==
    /\ role[p] = "cancel" /\ at[p] = "opened" /\ holder = None
    /\ \/ rec \in Terminal /\ Exit(p)
       \/ rec \in Open /\ Own(p) /\ Finish(p, "cancelled")
       \/ rec = "none" /\ dir = "there" /\ Own(p) /\ Go(p, "discard") /\ UNCHANGED local
       \/ dir = "gone" /\ Exit(p)
    /\ UNCHANGED <<job, time, bound, past>>

\* Mutant of MaintainOwns: a job that waits for answers is left alone.
MaintainSparesWaiting(p) ==
    /\ role[p] = "maintain" /\ at[p] = "opened" /\ holder = None
    /\ \/ (rec = "awaiting" \/ dir = "gone") /\ Exit(p) /\ UNCHANGED <<rec, aged>>
       \/ /\ rec \in Open /\ rec # "awaiting"
          /\ rec' = "cancelled" /\ aged' = FALSE /\ Own(p) /\ Go(p, "cleanup") /\ UNCHANGED local
       \/ rec \in Terminal /\ aged /\ Own(p) /\ Go(p, "discard") /\ UNCHANGED <<rec, aged, local>>
       \/ /\ dir = "there" /\ rec \notin Open /\ ~(rec \in Terminal /\ aged)
          /\ Own(p) /\ Go(p, "cleanup") /\ UNCHANGED <<rec, aged, local>>
    /\ UNCHANGED <<dir, lockfile, marker, view, shown, calls, rounds, window, bound, past>>

\* recover_stale: a job without an owner is closed, kept for its answers, or
\* removed when its result is old.
MaintainOwns(p) ==
    /\ role[p] = "maintain" /\ at[p] = "opened" /\ holder = None
    /\ \/ ((rec = "awaiting" /\ window) \/ dir = "gone") /\ Exit(p) /\ UNCHANGED <<rec, aged>>
       \/ /\ rec \in Open /\ ~(rec = "awaiting" /\ window)
          /\ rec' = IF rec = "awaiting" THEN "incomplete" ELSE "cancelled"
          /\ aged' = FALSE /\ Own(p) /\ Go(p, "cleanup") /\ UNCHANGED local
       \/ rec \in Terminal /\ aged /\ Own(p) /\ Go(p, "discard") /\ UNCHANGED <<rec, aged, local>>
       \/ /\ dir = "there" /\ rec \notin Open /\ ~(rec \in Terminal /\ aged)
          /\ Own(p) /\ Go(p, "cleanup") /\ UNCHANGED <<rec, aged, local>>
    /\ UNCHANGED <<dir, lockfile, marker, view, shown, calls, rounds, window, bound, past>>
-----------------------------------------------------------------------------
(***************************************************************************)
(* The analysis (_prepare, _analyze, the body of answer)                   *)
(***************************************************************************)

Capture(p) ==
    /\ Step(p, "prepare", "captured")
    /\ view' = TRUE
    /\ UNCHANGED <<dir, lockfile, rec, marker, shown, calls, rounds, holder, time, local, bound, past>>

\* ensure_started, reached after the capture; finish() calls it as well.
Prepared(p) ==
    /\ \/ Step(p, "captured", "begin")
       \/ at[p] = "record" /\ rec = "none" /\ UNCHANGED at
    /\ rec' = "prepared"
    /\ UNCHANGED <<dir, lockfile, marker, view, shown, calls, rounds, holder, time, local, bound, past>>

\* A source that cannot be captured, an input that is missing, an empty scope.
EndsEarly(p) ==
    /\ \/ at[p] \in {"prepare", "captured"} /\ \E end \in {"failed", "incomplete"} : Finish(p, end)
       \/ at[p] = "begin" /\ \E end \in {"incomplete", "complete"} : Finish(p, end)
    /\ UNCHANGED <<job, holder, time, bound, past>>

\* The first pass, or the pass with accepted answers.
Analyze(p) ==
    /\ \/ Step(p, "begin", "loop") /\ UNCHANGED rounds
       \/ Step(p, "answers", "loop") /\ rounds' = rounds + 1
    /\ rec' = "analyzing"
    /\ UNCHANGED <<dir, lockfile, marker, view, shown, calls, holder, time, local, bound, past>>

\* Answers that do not fit the questions leave the job waiting.
RejectAnswers(p) ==
    /\ Step(p, "answers", "leave")
    /\ UNCHANGED <<job, holder, time, local, bound, past>>

\* Mutant of Check: the marker is left to the running call.
CheckLimitsOnly(p) ==
    /\ at[p] = "loop"
    /\ \/ Finish(p, "incomplete") /\ UNCHANGED calls
       \/ calls < MaxCalls /\ calls' = calls + 1 /\ Go(p, "checked") /\ UNCHANGED local
    /\ UNCHANGED <<dir, lockfile, rec, marker, view, shown, rounds, holder, time, bound, past>>

\* Mutant of Check: the calls of the job are not counted against the limit.
CheckOffByOne(p) ==
    /\ at[p] = "loop"
    /\ \/ marker /\ Finish(p, "cancelled") /\ UNCHANGED calls
       \/ ~marker /\ Finish(p, "incomplete") /\ UNCHANGED calls
       \/ ~marker /\ calls <= MaxCalls /\ calls' = calls + 1 /\ Go(p, "checked") /\ UNCHANGED local
    /\ UNCHANGED <<dir, lockfile, rec, marker, view, shown, rounds, holder, time, bound, past>>

\* The head of the loop: cancelled, out of time or calls, or one more call.
Check(p) ==
    /\ at[p] = "loop"
    /\ \/ marker /\ Finish(p, "cancelled") /\ UNCHANGED calls
       \/ ~marker /\ Finish(p, "incomplete") /\ UNCHANGED calls
       \/ ~marker /\ calls < MaxCalls /\ calls' = calls + 1 /\ Go(p, "checked") /\ UNCHANGED local
    /\ UNCHANGED <<dir, lockfile, rec, marker, view, shown, rounds, holder, time, bound, past>>

Invoke(p) ==
    /\ Step(p, "checked", "calling")
    /\ lateCalls' = IF marker THEN lateCalls + 1 ELSE lateCalls
    /\ UNCHANGED <<job, holder, time, local, bound, torn, botched>>

\* The host polls the marker and the clock, fails, or replies.
CallEnds(p) ==
    /\ at[p] = "calling"
    /\ \/ Finish(p, IF marker THEN "cancelled" ELSE "incomplete")
       \/ Finish(p, "failed")
       \/ \E next \in {"loop", "reply"} : Go(p, next) /\ UNCHANGED local
    /\ UNCHANGED <<job, holder, time, bound, past>>

\* Evidence is read for one more call, or is not to be had; a reply that does
\* not validate ends the job; nothing is left to ask.
UseReply(p) ==
    /\ at[p] = "reply"
    /\ \/ Go(p, "loop") /\ UNCHANGED local
       \/ \E end \in {"failed", "incomplete", "complete"} : Finish(p, end)
    /\ UNCHANGED <<job, holder, time, bound, past>>

\* The question checkpoint, whatever the marker says.
Ask(p) ==
    /\ Step(p, "reply", "leave") /\ rounds < MaxRounds
    /\ rec' = "awaiting" /\ window' = TRUE
    /\ UNCHANGED <<dir, lockfile, marker, view, shown, calls, rounds, holder, aged, local, bound, past>>

Leave(p) ==
    /\ at[p] = "leave" /\ Exit(p)
    /\ UNCHANGED <<job, time, bound, past>>
-----------------------------------------------------------------------------
(***************************************************************************)
(* The end of a job (finish, abort, _guarded, discard_job)                 *)
(***************************************************************************)

\* Mutant of Record: the result is written before the state.
RecordLater(p) ==
    /\ rec \in Open /\ Step(p, "record", "writing")
    /\ shown' = [shown EXCEPT ![1] = final[p]] /\ aged' = FALSE
    /\ UNCHANGED <<dir, lockfile, rec, marker, view, calls, rounds, window, holder, local, bound, past>>

Record(p) ==
    /\ rec \in Open /\ Step(p, "record", "writing")
    /\ rec' = final[p] /\ aged' = FALSE
    /\ UNCHANGED <<dir, lockfile, marker, view, shown, calls, rounds, window, holder, local, bound, past>>

\* result.json and result.md, and if the output directory is still usable the
\* same two there.
Write(p) ==
    /\ at[p] = "writing"
    /\ \/ /\ done[p] < 4
          /\ done' = [done EXCEPT ![p] = @ + 1]
          /\ shown' = [shown EXCEPT ![done[p] + 1] = final[p]] /\ UNCHANGED at
       \/ done[p] \in {2, 4} /\ Go(p, "cleanup") /\ UNCHANGED <<done, shown>>
    /\ UNCHANGED <<dir, lockfile, rec, marker, view, calls, rounds, holder, time, role, final, aborting,
                   bound, past>>

\* Mutant of Interrupt: an interrupted job is cleaned up and not recorded.
InterruptForgets(p) ==
    /\ at[p] \in Guarded
    /\ Go(p, "cleanup") /\ UNCHANGED <<local, botched>>
    /\ UNCHANGED <<job, holder, time, bound, torn, lateCalls>>

\* An error or a signal.  abort() keeps a recorded end and records one
\* otherwise, unless it is interrupted itself.  A signal after the question
\* checkpoint may find keep_view set: the view then stays.
Interrupt(p) ==
    /\ at[p] \in Guarded
    /\ \/ rec \in Terminal /\ Go(p, "cleanup") /\ UNCHANGED <<local, botched>>
       \/ /\ rec \notin Terminal /\ aborting[p] = "no"
          /\ Go(p, "record")
          /\ \E how \in {"yes", "keeps"} :
                /\ how = "keeps" => at[p] = "leave"
                /\ aborting' = [aborting EXCEPT ![p] = how]
          /\ \E end \in {"cancelled", "failed"} : final' = [final EXCEPT ![p] = end]
          /\ UNCHANGED <<role, done, botched>>
       \/ /\ rec \notin Terminal /\ aborting[p] # "no"
          /\ Go(p, "cleanup") /\ botched' = TRUE /\ UNCHANGED local
    /\ UNCHANGED <<job, holder, time, bound, torn, lateCalls>>

\* cleanup_temporaries unless the view is kept, then the lock is released.
Cleanup(p) ==
    LET kept == aborting[p] = "keeps" IN
    /\ at[p] = "cleanup" /\ Exit(p)
    /\ view' = (view /\ kept) /\ torn' = kept
    /\ UNCHANGED <<dir, lockfile, rec, marker, shown, calls, rounds, time, bound, botched, lateCalls>>

\* The tree is removed in no particular order.
DiscardSome(p) ==
    /\ at[p] = "discard" /\ UNCHANGED at
    /\ \/ lockfile' = FALSE /\ UNCHANGED <<rec, view>>
       \/ rec' = "none" /\ UNCHANGED <<lockfile, view>>
       \/ view' = FALSE /\ UNCHANGED <<lockfile, rec>>
    /\ UNCHANGED <<dir, marker, shown, calls, rounds, holder, time, local, bound, past>>

DiscardRest(p) ==
    /\ at[p] = "discard" /\ Exit(p)
    /\ dir' = "gone" /\ lockfile' = FALSE /\ rec' = "none" /\ marker' = FALSE /\ view' = FALSE
    /\ shown' = [shown EXCEPT ![1] = "none", ![2] = "none"]
    /\ UNCHANGED <<calls, rounds, time, bound, past>>

\* Killed, or interrupted where _guarded does not reach: maintenance, discarding.
Kill(p) ==
    /\ at[p] # "out" /\ kills < MaxKills
    /\ kills' = kills + 1
    /\ Exit(p)
    /\ torn' = (torn \/ holder = p)
    /\ UNCHANGED <<job, time, users, botched, lateCalls>>
-----------------------------------------------------------------------------
AnswerHoursPass ==
    /\ rec = "awaiting" /\ window /\ window' = FALSE
    /\ UNCHANGED <<job, holder, aged, at, local, bound, past>>

ResultDaysPass ==
    /\ rec \in Terminal /\ ~aged /\ aged' = TRUE
    /\ UNCHANGED <<job, holder, window, at, local, bound, past>>

\* What a process does once it has begun.
Proceed(p) ==
    \/ MakeLock(p) \/ OpenLock(p, "cancel") \/ OpenFails(p) \/ LockFails(p)
    \/ RunOwns(p) \/ AnswerOwns(p) \/ CancelOwns(p) \/ MaintainOwns(p)
    \/ Capture(p) \/ Prepared(p) \/ EndsEarly(p) \/ Analyze(p) \/ RejectAnswers(p)
    \/ Check(p) \/ Invoke(p) \/ CallEnds(p) \/ UseReply(p) \/ Ask(p) \/ Leave(p)
    \/ Record(p) \/ Write(p) \/ Cleanup(p) \/ DiscardRest(p)

Next ==
    \/ \E p \in Procs :
        \/ MakeRoot(p) \/ Mark(p) \/ OpenLock(p, "answer") \/ OpenLock(p, "maintain")
        \/ Proceed(p) \/ DiscardSome(p) \/ Interrupt(p) \/ Kill(p)
    \/ AnswerHoursPass \/ ResultDaysPass

Spec == Init /\ [][Next]_vars

\* A process runs until it ends, hours pass, and the repository is analyzed
\* again and again, which is what closes an abandoned job.
FairSpec ==
    /\ Spec /\ WF_vars(AnswerHoursPass)
    /\ \A p \in Procs : WF_vars(Proceed(p))
    /\ WF_vars(\E p \in Procs : OpenLock(p, "maintain"))
-----------------------------------------------------------------------------
(***************************************************************************)
(* Properties                                                              *)
(***************************************************************************)

\* Whatever a job shows, in its directory or in the output, is the outcome its
\* state records, however its owners are killed, interrupted or cancelled;
\* nobody gives a closed job another outcome.
OutcomeStands ==
    \A n \in Written : shown[n] # "none" =>
        /\ rec \in {shown[n], "none"}
        /\ \A k \in Written : shown[k] \in {shown[n], "none"}

\* "Every job that started ends in a terminal state or a question checkpoint,
\* also on an unexpected error or a termination signal": a job is left open,
\* or keeps captured source, without an owner only at a question checkpoint,
\* which keeps it, unless its owner was killed or interrupted twice, or a
\* maintenance was interrupted, or a signal came right after the checkpoint, which
\* closes the job and leaves the source to the next maintenance.
EveryExitCloses ==
    holder = None /\ dir = "there" =>
        /\ rec \in {"prepared", "analyzing"} => torn \/ botched
        /\ view => rec = "awaiting" \/ torn
        /\ rec = "awaiting" => view \/ botched

\* After a cancellation at most the one call whose check had passed is begun,
\* though the job may be answered and resumed afterwards.
CancelHeeded == lateCalls <= 1

\* An abandoned job is closed and its captured source removed, in the end, if
\* its lock file can still be opened.
JobsClose ==
    (rec \in Open \/ view) ~> ((rec \notin Open /\ ~view) \/ ~lockfile)
=============================================================================
