------------------------- MODULE AssessmentCheckpoint -------------------------
(***************************************************************************)
(* How one session saves its accounting while its threads spend: the       *)
(* component workers (AssessmentJobs.exchange, _invoke_once, _settle), the *)
(* heartbeat thread and the main thread (AssessmentState.hold), which all  *)
(* call AssessmentState.checkpoint.                                        *)
(*                                                                         *)
(* Three locks: the budget's around admission and settlement, the jobs'    *)
(* around a worker's checkpoint, and the checkpoint's own.  A checkpoint   *)
(* reads the budget field by field without the budget's lock, and neither  *)
(* receipts nor the release of the output lock are under any lock.  What   *)
(* a crash leaves is what the state file and the receipts say at that      *)
(* moment, so an invariant about them speaks of a crash at any step.       *)
(***************************************************************************)
EXTENDS Naturals, FiniteSets

CONSTANTS
    Workers,    \* threads of the component pool
    Beat, Main, \* the heartbeat thread, the main thread
    None,       \* nobody holds the lock
    Ceiling,    \* a call's reservation
    Overrun,    \* how far a reported cost may exceed its reservation
    CachedUsd,  \* cost of a reused receipt
    MaxCalls    \* max_calls

ASSUME ThreadsAssumption ==
    /\ IsFiniteSet(Workers)
    /\ Beat \notin Workers /\ Main \notin Workers /\ Beat # Main
    /\ None \notin Workers \cup {Beat, Main}
ASSUME AmountsAssumption ==
    Ceiling \in Nat /\ Overrun \in Nat /\ CachedUsd \in Nat /\ MaxCalls \in Nat

VARIABLES
    calls, spent, inflight, unsettled,   \* the budget
    budgetLock, jobsLock, checkpointLock,
    accounting, status,  \* the state record shared by the threads
    disk,                \* .assessment-state.json
    receipts,            \* calls and cost of all accepted receipts
    issued,              \* history: hosts started and receipts reused
    lock,                \* .appsec-lock exists
    beating,             \* the heartbeat is told to end
    held,                \* _held
    pc,                  \* where each thread is
    back,                \* where a thread continues after its checkpoint
    read,                \* what its checkpoint read so far
    own                  \* calls and cost of a worker's current job

budget  == <<calls, spent, inflight, unsettled>>
locks   == <<budgetLock, jobsLock, checkpointLock>>
record  == <<accounting, status, disk>>
files   == <<receipts, issued, lock>>
threads == <<pc, back, read, own>>
vars    == <<budget, locks, record, files, beating, held, threads>>

Threads == Workers \cup {Beat, Main}
Free    == [calls |-> 0, usd |-> 0]
Empty   == [calls |-> 0, usd |-> 0, unavailable |-> FALSE]
Steps   == {"idle", "admit", "admitted", "checked", "factory", "start", "call", "answered",
            "receipt", "charged", "adopt", "wait", "run", "stop", "release",
            "drop", "ended", "own", "calls", "spent", "unsettled", "failed", "save",
            "refresh"}

Amounts == [calls : Nat, usd : Nat]
TypeOK ==
    /\ calls \in Nat /\ spent \in Nat /\ inflight \in 0..Cardinality(Workers)
    /\ unsettled \in BOOLEAN
    /\ budgetLock \in Workers \cup {None} /\ jobsLock \in Workers \cup {None}
    /\ checkpointLock \in Threads \cup {None}
    /\ accounting \in [calls : Nat, usd : Nat, unavailable : BOOLEAN]
    /\ status \in {"running", "ended"}
    /\ disk \in [calls : Nat, usd : Nat, unavailable : BOOLEAN, status : {"running", "ended"}]
    /\ receipts \in Amounts /\ issued \in Nat
    /\ lock \in BOOLEAN /\ beating \in BOOLEAN /\ held \in BOOLEAN
    /\ pc \in [Threads -> Steps] /\ back \in [Threads -> Steps]
    /\ read \in [Threads -> [calls : Nat, usd : Nat, unavailable : BOOLEAN]]
    /\ own \in [Workers -> Amounts]

\* hold() after its first checkpoint.
Init ==
    /\ calls = 0 /\ spent = 0 /\ inflight = 0 /\ unsettled = FALSE
    /\ budgetLock = None /\ jobsLock = None /\ checkpointLock = None
    /\ accounting = Empty /\ status = "running"
    /\ disk = [calls |-> 0, usd |-> 0, unavailable |-> FALSE, status |-> "running"]
    /\ receipts = Free /\ issued = 0
    /\ lock = TRUE /\ beating = FALSE /\ held = TRUE
    /\ pc = [t \in Threads |-> CASE t = Beat -> "wait" [] t = Main -> "run" [] OTHER -> "idle"]
    /\ back = [t \in Threads |-> "idle"]
    /\ read = [t \in Threads |-> Empty]
    /\ own = [w \in Workers |-> Free]

Failed == unsettled \/ inflight > 0

Move(t, from, to) == pc[t] = from /\ pc' = [pc EXCEPT ![t] = to]

\* A thread at `from` calls checkpoint() and continues at `to`.
CallCheckpoint(t, from, to) == Move(t, from, "own") /\ back' = [back EXCEPT ![t] = to]
-----------------------------------------------------------------------------
(***************************************************************************)
(* checkpoint()                                                            *)
(***************************************************************************)

\* Mutant of Acquire: checkpoints are not serialized.
AcquireAlways(t) ==
    /\ held /\ lock
    /\ Move(t, "own", "calls")
    /\ checkpointLock' = t
    /\ UNCHANGED <<budget, budgetLock, jobsLock, record, files, beating, held, back, read, own>>

\* The output lock is checked once, at the start.
Acquire(t) ==
    /\ held /\ lock
    /\ Move(t, "own", "calls")
    /\ checkpointLock = None /\ checkpointLock' = t
    /\ UNCHANGED <<budget, budgetLock, jobsLock, record, files, beating, held, back, read, own>>

ReadCalls(t) ==
    /\ Move(t, "calls", "spent")
    /\ read' = [read EXCEPT ![t].calls = calls]
    /\ UNCHANGED <<budget, locks, record, files, beating, held, back, own>>

ReadSpent(t) ==
    /\ Move(t, "spent", "unsettled")
    /\ read' = [read EXCEPT ![t].usd = spent]
    /\ UNCHANGED <<budget, locks, record, files, beating, held, back, own>>

\* `failed` is two reads: whether a settled call lost its cost, and whether one
\* is running.  A call may settle, or lose its cost, between them; _settle takes
\* the running count down first, which a reader cannot tell from a settlement
\* after its read of `unsettled`.
ReadUnsettled(t) ==
    /\ Move(t, "unsettled", "failed")
    /\ read' = [read EXCEPT ![t].unavailable = unsettled]
    /\ UNCHANGED <<budget, locks, record, files, beating, held, back, own>>

\* Mutant of ReadFailed: it waits for the budget's lock.
ReadFailedLocked(t) ==
    /\ budgetLock \in {None, t}
    /\ Move(t, "failed", "save")
    /\ accounting' = [read[t] EXCEPT !.unavailable = @ \/ inflight > 0]
    /\ UNCHANGED <<budget, locks, status, disk, files, beating, held, back, read, own>>

ReadFailed(t) ==
    /\ Move(t, "failed", "save")
    /\ accounting' = [read[t] EXCEPT !.unavailable = @ \/ inflight > 0]
    /\ UNCHANGED <<budget, locks, status, disk, files, beating, held, back, read, own>>

Save(t) ==
    /\ Move(t, "save", "refresh")
    /\ disk' = [calls |-> accounting.calls, usd |-> accounting.usd,
                unavailable |-> accounting.unavailable, status |-> status]
    /\ UNCHANGED <<budget, locks, accounting, status, files, beating, held, back, read, own>>

\* The output lock is written anew, whether it is still there or not.
Refresh(t) ==
    /\ Move(t, "refresh", back[t])
    /\ lock' = TRUE
    /\ checkpointLock' = None
    /\ jobsLock' = IF jobsLock = t THEN None ELSE jobsLock
    /\ back' = [back EXCEPT ![t] = "idle"] /\ read' = [read EXCEPT ![t] = Empty]
    /\ UNCHANGED <<budget, budgetLock, record, receipts, issued, beating, held, own>>

Checkpointing(t) ==
    \/ ReadCalls(t) \/ ReadSpent(t) \/ ReadUnsettled(t) \/ ReadFailed(t)
    \/ Save(t) \/ Refresh(t)
-----------------------------------------------------------------------------
(***************************************************************************)
(* A worker                                                                *)
(***************************************************************************)

\* A lost cost or an exhausted budget ends the jobs.
Begin(w) ==
    /\ Move(w, "idle", "admit")
    /\ pc[Main] = "run" /\ calls < MaxCalls /\ ~unsettled
    /\ UNCHANGED <<budget, locks, record, files, beating, held, back, read, own>>

Admit(w) ==
    /\ Move(w, "admit", "admitted")
    /\ budgetLock = None /\ budgetLock' = w
    /\ UNCHANGED <<budget, jobsLock, checkpointLock, record, files, beating, held, back, read,
                   own>>

\* should_stop() under the budget's lock saves when the last save is 10 s old.
PollStop(w) ==
    /\ \/ CallCheckpoint(w, "admitted", "checked")
       \/ Move(w, "admitted", "checked") /\ UNCHANGED back
    /\ UNCHANGED <<budget, locks, record, files, beating, held, read, own>>

DropJob(w, from) == Move(w, from, "idle") /\ own' = [own EXCEPT ![w] = Free]

\* Mutant of Reserve: the running call is not counted.
ReserveUncounted(w) ==
    /\ IF ~unsettled /\ calls < MaxCalls
       THEN /\ Move(w, "checked", "factory")
            /\ calls' = calls + 1 /\ spent' = spent + Ceiling /\ UNCHANGED own
       ELSE DropJob(w, "checked") /\ UNCHANGED <<calls, spent>>
    /\ budgetLock' = None
    /\ UNCHANGED <<inflight, unsettled, jobsLock, checkpointLock, record, files, beating, held,
                   back, read>>

\* The call is reserved, or refused: the budget is exhausted or unavailable.
Reserve(w) ==
    /\ IF ~unsettled /\ calls < MaxCalls
       THEN /\ Move(w, "checked", "factory")
            /\ calls' = calls + 1 /\ spent' = spent + Ceiling /\ inflight' = inflight + 1
            /\ UNCHANGED own
       ELSE DropJob(w, "checked") /\ UNCHANGED <<calls, spent, inflight>>
    /\ budgetLock' = None
    /\ UNCHANGED <<unsettled, jobsLock, checkpointLock, record, files, beating, held, back,
                   read>>

\* A worker's own checkpoints go through the jobs' lock.
Guarded(w, from, to) ==
    /\ CallCheckpoint(w, from, to)
    /\ jobsLock = None /\ jobsLock' = w

\* Mutant of SaveReservation: the factory does not save the reservation.
SkipReservation(w) ==
    /\ Move(w, "factory", "start")
    /\ UNCHANGED <<budget, locks, record, files, beating, held, back, read, own>>

\* The factory saves the reservation before it builds the host.
SaveReservation(w) ==
    /\ Guarded(w, "factory", "start")
    /\ UNCHANGED <<budget, budgetLock, checkpointLock, record, files, beating, held, read, own>>

StartHost(w) ==
    /\ Move(w, "start", "call")
    /\ issued' = issued + 1
    /\ UNCHANGED <<budget, locks, record, receipts, lock, beating, held, back, read, own>>

\* Mutant of Settle: the reservation is returned, the cost not charged.
ReturnReservation(w) ==
    /\ Move(w, "call", "answered")
    /\ budgetLock = None
    /\ \E cost \in 0..(Ceiling + Overrun) :
        /\ spent' = spent - Ceiling
        /\ own' = [own EXCEPT ![w] = [calls |-> @.calls + 1, usd |-> @.usd + cost]]
    /\ inflight' = inflight - 1
    /\ UNCHANGED <<calls, unsettled, locks, record, files, beating, held, back, read>>

Settle(w) ==
    /\ Move(w, "call", "answered")
    /\ budgetLock = None
    /\ \E cost \in 0..(Ceiling + Overrun) :
        /\ spent' = spent + cost - Ceiling
        /\ own' = [own EXCEPT ![w] = [calls |-> @.calls + 1, usd |-> @.usd + cost]]
    /\ inflight' = inflight - 1
    /\ UNCHANGED <<calls, unsettled, locks, record, files, beating, held, back, read>>

LoseCost(w) ==
    /\ DropJob(w, "call")
    /\ budgetLock = None
    /\ unsettled' = TRUE /\ inflight' = inflight - 1
    /\ UNCHANGED <<calls, spent, locks, record, files, beating, held, back, read>>

\* The job needs a further call, or ends without an acceptable result.
AskAgain(w) ==
    /\ \/ Move(w, "answered", "admit") /\ UNCHANGED own
       \/ DropJob(w, "answered")
    /\ UNCHANGED <<budget, locks, record, files, beating, held, back, read>>

WriteReceipt(w) ==
    /\ Move(w, "answered", "receipt")
    /\ receipts' = [calls |-> receipts.calls + own[w].calls, usd |-> receipts.usd + own[w].usd]
    /\ own' = [own EXCEPT ![w] = Free]
    /\ UNCHANGED <<budget, locks, record, issued, lock, beating, held, back, read>>

SaveReceipt(w) ==
    /\ Guarded(w, "receipt", "idle")
    /\ UNCHANGED <<budget, budgetLock, checkpointLock, record, files, beating, held, read, own>>

\* A cached receipt is charged, saved, and only then joins this run's.
ChargeCached(w) ==
    /\ Move(w, "admit", "charged")
    /\ own[w] = Free
    /\ budgetLock = None
    /\ calls' = calls + 1 /\ spent' = spent + CachedUsd
    /\ UNCHANGED <<inflight, unsettled, locks, record, files, beating, held, back, read, own>>

SaveCharge(w) ==
    /\ Guarded(w, "charged", "adopt")
    /\ UNCHANGED <<budget, budgetLock, checkpointLock, record, files, beating, held, read, own>>

Adopt(w) ==
    /\ Move(w, "adopt", "idle")
    /\ receipts' = [calls |-> receipts.calls + 1, usd |-> receipts.usd + CachedUsd]
    /\ issued' = issued + 1
    /\ UNCHANGED <<budget, locks, record, lock, beating, held, back, read, own>>
-----------------------------------------------------------------------------
(***************************************************************************)
(* The heartbeat and the main thread                                       *)
(***************************************************************************)

BeatOrEnd ==
    /\ \/ beating /\ Move(Beat, "wait", "ended") /\ UNCHANGED back
       \/ ~beating /\ CallCheckpoint(Beat, "wait", "wait")
    /\ UNCHANGED <<budget, locks, record, files, beating, held, read, own>>

\* A heartbeat that no longer owns the output lock ends silently.
LostLock ==
    /\ Move(Beat, "own", "ended")
    /\ checkpointLock = None
    /\ ~held \/ ~lock
    /\ UNCHANGED <<budget, locks, record, files, beating, held, back, read, own>>

\* The pool is joined; the run's status is final and saved.
EndRun ==
    /\ \A w \in Workers : pc[w] = "idle"
    /\ CallCheckpoint(Main, "run", "stop")
    /\ status' = "ended"
    /\ UNCHANGED <<budget, locks, accounting, disk, files, beating, held, read, own>>

StopBeating ==
    /\ Move(Main, "stop", "release")
    /\ beating' = TRUE
    /\ UNCHANGED <<budget, locks, record, files, held, back, read, own>>

ReleaseLock ==
    /\ Move(Main, "release", "drop")
    /\ lock' = FALSE
    /\ UNCHANGED <<budget, locks, record, receipts, issued, beating, held, back, read, own>>

DropHold ==
    /\ Move(Main, "drop", "ended")
    /\ held' = FALSE
    /\ UNCHANGED <<budget, locks, record, files, beating, back, read, own>>

WorkerStep(w) ==
    \/ Admit(w) \/ PollStop(w) \/ Reserve(w) \/ SaveReservation(w) \/ StartHost(w)
    \/ Settle(w) \/ LoseCost(w) \/ AskAgain(w) \/ WriteReceipt(w) \/ SaveReceipt(w)
    \/ ChargeCached(w) \/ SaveCharge(w) \/ Adopt(w)

Step(t) ==
    \/ Acquire(t) \/ Checkpointing(t)
    \/ t \in Workers /\ WorkerStep(t)
    \/ t = Beat /\ (BeatOrEnd \/ LostLock)
    \/ t = Main /\ (EndRun \/ StopBeating \/ ReleaseLock \/ DropHold)

Terminating == pc[Main] = "ended" /\ pc[Beat] = "ended" /\ UNCHANGED vars

Next == (\E t \in Threads : Step(t)) \/ (\E w \in Workers : Begin(w)) \/ Terminating

Spec == Init /\ [][Next]_vars

\* Every thread keeps running, a model call has a time limit, and a lock that is
\* free again and again is taken in the end: the heartbeat sleeps between its
\* saves, the workers call between theirs.
FairSpec == Spec /\ \A t \in Threads : SF_vars(Step(t))
-----------------------------------------------------------------------------
(***************************************************************************)
(* Properties                                                              *)
(***************************************************************************)

\* Whenever the process dies, the saved state counts every call whose host was
\* started and every receipt the run reused.
CallsCovered == issued <= disk.calls

\* The saved cost falls below the receipts' only by costs above their
\* reservations of calls that settled during a single save, one per worker.
SpendNearlyCovered ==
    ~disk.unavailable => receipts.usd <= disk.usd + Overrun * Cardinality(Workers)

\* A session that ended left its final status and exact accounting, whatever
\* save of another thread was still under way.
EndRecorded ==
    pc[Main] \in {"stop", "release", "drop", "ended"} =>
        disk = [calls |-> calls, usd |-> spent, unavailable |-> Failed, status |-> "ended"]

\* "the run ends interrupted with its lock released"
\* (orchestration_controller.py, _stop_on_terminate).
LockReleased == pc[Main] = "ended" => ~lock

\* Every session ends, and its heartbeat with it: no lock is held forever.
SessionEnds == <>(pc[Main] = "ended" /\ pc[Beat] = "ended")
=============================================================================
