------------------------------- MODULE RunLock -------------------------------
(***************************************************************************)
(* Who owns an output directory: .appsec-lock and its guard                *)
(* (scripts/runtime/acquire_lock.py), the controller sessions that hold    *)
(* both (hold and checkpoint of scripts/runtime/assessment_state.py), runs *)
(* that use the command line of acquire_lock.py, and the two commands that *)
(* remove a lock without taking the guard: terminate_run.py and            *)
(* check_state.py --clean.                                                 *)
(*                                                                         *)
(* Time passes in heartbeats of a controller.  A heartbeat whose process   *)
(* is awake is on time; a process may sleep (a suspended machine, a        *)
(* stopped process) for any time at any point.                             *)
(***************************************************************************)
EXTENDS Naturals

CONSTANTS
    Controllers,  \* run ids of controller assessments; a resume keeps its id
    Skills,       \* run ids of runs that use the command line
    Terminators,  \* terminate_run processes
    Cleaners,     \* check_state --clean processes
    None,
    OwnStale,     \* STALE_AFTER_SECONDS, in heartbeats
    Grace,        \* NEVER_HEARTBEATED_GRACE_SECONDS, in heartbeats
    ShortPhase,   \* the least and the greatest threshold of a phase, in
    LongPhase     \* heartbeats

ASSUME RunsAssumption ==
    /\ Controllers \cap Skills = {} /\ None \notin {"no", "checked"}
    /\ {None, "idle", "clear", "no", "checked"} \cap (Controllers \cup Skills) = {}
ASSUME SweepersAssumption == Terminators \cap Cleaners = {}
ASSUME ThresholdsAssumption ==
    /\ OwnStale \in Nat \ {0} /\ Grace \in Nat \ {0}
    /\ ShortPhase \in Nat /\ LongPhase \in Nat
    /\ OwnStale <= Grace /\ OwnStale <= ShortPhase /\ ShortPhase <= LongPhase

VARIABLES
    lock,    \* .appsec-lock
    ctl,     \* where a controller session is
    writer,  \* which of its threads is inside a checkpoint
    beats,   \* its heartbeat thread runs
    skill,   \* where a command-line run is
    beat,    \* its heartbeat command: "no", "checked", or the run id it has read
    asleep,  \* runs whose process does not get to run
    sweep,   \* a remover that has passed its check, and what it saw
    lost     \* history: how a run at work lost the lock

vars == <<lock, ctl, writer, beats, skill, beat, asleep, sweep, lost>>

Runs     == Controllers \cup Skills
Sweepers == Terminators \cup Cleaners
Cap      == (IF LongPhase > Grace THEN LongPhase ELSE Grace) + 1

\* beaten: the heartbeat differs from the acquisition stamp, or there is none;
\* stated: the holder wrote its own stale_after, as only controllers do.  A lock
\* without a run id is left by a heartbeat.
Locks == {l \in [run : Runs \cup {None}, age : 0..Cap, beaten : BOOLEAN, stated : BOOLEAN] :
             (l.stated => l.run \in Controllers) /\ (l.run = None => l.beaten)}

ASSUME NoLockAssumption == None \notin Locks

TypeOK ==
    /\ lock \in Locks \cup {None}
    /\ ctl \in [Controllers -> {"out", "open", "work", "closing", "ended"}]
    /\ writer \in [Controllers -> {"none", "main", "beat"}]
    /\ beats \in [Controllers -> BOOLEAN]
    /\ skill \in [Skills -> {"out", "in", "beating", "over"}]
    /\ beat \in [Skills -> {"no", "checked", None} \cup Runs]
    /\ asleep \subseteq Runs
    /\ sweep \in [Sweepers -> {"idle", "clear"} \cup Runs]
    /\ lost \in [Runs -> {"no", "silent", "swept", "overwritten", "taken"}]

Init ==
    /\ lock = None
    /\ ctl = [c \in Controllers |-> "out"] /\ writer = [c \in Controllers |-> "none"]
    /\ beats = [c \in Controllers |-> FALSE]
    /\ skill = [k \in Skills |-> "out"] /\ beat = [k \in Skills |-> "no"]
    /\ asleep = {} /\ sweep = [w \in Sweepers |-> "idle"] /\ lost = [r \in Runs |-> "no"]

Named(r) == lock # None /\ lock.run = r
AtWork(r) == \/ r \in Controllers /\ ctl[r] = "work"
             \/ r \in Skills /\ skill[r] \in {"in", "beating"}
Awake(r) == r \notin asleep

\* serialization_guard: a controller holds it from before it opens the run
\* until after it released the lock, a command while it runs.
GuardFree ==
    /\ \A c \in Controllers : ctl[c] \notin {"open", "work", "closing"}
    /\ \A k \in Skills : beat[k] = "no"
-----------------------------------------------------------------------------
(***************************************************************************)
(* What a lock is worth (_classify_lock)                                   *)
(***************************************************************************)

\* Without a threshold of the holder's own, every reader looks up the one of the
\* phase that the checkpoint file names at that moment.
Thresholds(l) == IF l.stated THEN {OwnStale} ELSE ShortPhase..LongPhase
NeverBeat(l) == ~l.beaten /\ l.age > Grace

\* A process id read in another namespace may look alive or dead.
Fresh(l, threshold, alive) == l.age <= threshold /\ (alive \/ ~NeverBeat(l))

\* Some reader finds that nobody vouches for the lock any more; every reader does.
Silent(l) == (\E t \in Thresholds(l) : l.age > t) \/ NeverBeat(l)
Expired(l) == (\A t \in Thresholds(l) : l.age > t) \/ NeverBeat(l)

\* A reader may find the lock free, or another run's.
Free == lock # None => \E t \in Thresholds(lock), alive \in BOOLEAN : ~Fresh(lock, t, alive)
Held == lock # None /\ \E t \in Thresholds(lock), alive \in BOOLEAN : Fresh(lock, t, alive)

\* The lock passes to a run, or to nobody, and a run at work loses it.
Pass(new, cause) ==
    /\ lock' = new
    /\ lost' = [r \in Runs |->
          IF new # None /\ new.run = r THEN "no"
          ELSE IF Named(r) /\ AtWork(r) THEN IF Silent(lock) THEN "silent" ELSE cause
          ELSE lost[r]]

Fate(r) == lost' = [lost EXCEPT ![r] = "no"]
-----------------------------------------------------------------------------
(***************************************************************************)
(* A controller session                                                    *)
(***************************************************************************)

\* Mutant of Open: a session starts whatever the lock says.
OpenAnyway(c) ==
    /\ ctl[c] = "out" /\ GuardFree
    /\ ctl' = [ctl EXCEPT ![c] = "open"]
    /\ UNCHANGED <<lock, writer, beats, skill, beat, asleep, sweep, lost>>

\* _open refuses a lock that is fresh, its own run's too.
Open(c) ==
    /\ ctl[c] = "out" /\ GuardFree
    /\ Free
    /\ ctl' = [ctl EXCEPT ![c] = "open"]
    /\ UNCHANGED <<lock, writer, beats, skill, beat, asleep, sweep, lost>>

OpenFails(c) ==
    /\ ctl[c] = "open" /\ Awake(c)
    /\ ctl' = [ctl EXCEPT ![c] = "out"]
    /\ UNCHANGED <<lock, writer, beats, skill, beat, asleep, sweep, lost>>

Hold(c) ==
    /\ ctl[c] = "open" /\ Awake(c)
    /\ ctl' = [ctl EXCEPT ![c] = "work"]
    /\ beats' = [beats EXCEPT ![c] = TRUE]
    /\ Pass([run |-> c, age |-> 0, beaten |-> FALSE, stated |-> TRUE], "taken")
    /\ UNCHANGED <<writer, skill, beat, asleep, sweep>>

\* Mutant of CheckLock: the heartbeat thread goes on after the session.
CheckLockUnheld(c) ==
    /\ ctl[c] # "out" /\ Awake(c) /\ writer[c] = "none"
    /\ Named(c)
    /\ \E thread \in {"main", "beat"} :
        /\ thread = "main" => ctl[c] = "work"
        /\ thread = "beat" => beats[c]
        /\ writer' = [writer EXCEPT ![c] = thread]
    /\ UNCHANGED <<lock, ctl, beats, skill, beat, asleep, sweep, lost>>

\* A checkpoint of either thread first checks that the lock names the run.
CheckLock(c) ==
    /\ ctl[c] = "work" /\ Awake(c) /\ writer[c] = "none"
    /\ Named(c)
    /\ \E thread \in {"main", "beat"} :
        /\ thread = "beat" => beats[c]
        /\ writer' = [writer EXCEPT ![c] = thread]
    /\ UNCHANGED <<lock, ctl, beats, skill, beat, asleep, sweep, lost>>

\* It then writes the state and the lock, whoever holds the lock by now and
\* whether or not the session still runs: nobody joins the heartbeat thread.
WriteLock(c) ==
    /\ writer[c] # "none" /\ Awake(c)
    /\ writer' = [writer EXCEPT ![c] = "none"]
    /\ Pass([run |-> c, age |-> 0, beaten |-> TRUE, stated |-> TRUE], "overwritten")
    /\ UNCHANGED <<ctl, beats, skill, beat, asleep, sweep>>

\* The heartbeat thread ends on any error, a lost lock being one.
BeatEnds(c) ==
    /\ beats[c] /\ Awake(c) /\ writer[c] # "beat"
    /\ beats' = [beats EXCEPT ![c] = FALSE]
    /\ UNCHANGED <<lock, ctl, writer, skill, beat, asleep, sweep, lost>>

\* A lost lock, too, ends the session; release_lock leaves a lock that is
\* fresh and another run's.
Release(c) ==
    /\ ctl[c] = "work" /\ Awake(c) /\ writer[c] # "main"
    /\ ctl' = [ctl EXCEPT ![c] = "closing"]
    /\ \/ Held /\ ~Named(c) /\ UNCHANGED lock
       \/ (Named(c) \/ Free) /\ lock' = None
    /\ lost' = [r \in Runs |->
          IF r = c THEN "no"
          ELSE IF Named(r) /\ AtWork(r) /\ lock' = None
               THEN IF Silent(lock) THEN "silent" ELSE "taken"
          ELSE lost[r]]
    /\ UNCHANGED <<writer, beats, skill, beat, asleep, sweep>>

LeaveGuard(c) ==
    /\ ctl[c] = "closing" /\ Awake(c)
    /\ ctl' = [ctl EXCEPT ![c] = "ended"]
    /\ UNCHANGED <<lock, writer, beats, skill, beat, asleep, sweep, lost>>

\* The process ends: after the session, or killed at any point.
Exit(c) ==
    /\ ctl[c] # "out"
    /\ ctl' = [ctl EXCEPT ![c] = "out"]
    /\ writer' = [writer EXCEPT ![c] = "none"] /\ beats' = [beats EXCEPT ![c] = FALSE]
    /\ asleep' = asleep \ {c} /\ Fate(c)
    /\ UNCHANGED <<lock, skill, beat, sweep>>
-----------------------------------------------------------------------------
(***************************************************************************)
(* A run that uses the command line, and the two removers                  *)
(***************************************************************************)

\* Mutant of Acquire: every run states the threshold of a controller.
AcquireStating(k) ==
    /\ skill[k] # "over" /\ Awake(k) /\ GuardFree
    /\ Named(k) \/ Free
    /\ Pass([run |-> k, age |-> 0, beaten |-> FALSE, stated |-> TRUE], "taken")
    /\ skill' = [skill EXCEPT ![k] = IF @ = "out" THEN "in" ELSE @]
    /\ UNCHANGED <<ctl, writer, beats, beat, asleep, sweep>>

\* Mutant of Acquire: the command does not take the guard.
AcquireUnguarded(k) ==
    /\ skill[k] # "over" /\ Awake(k)
    /\ Named(k) \/ Free
    /\ Pass([run |-> k, age |-> 0, beaten |-> FALSE, stated |-> FALSE], "taken")
    /\ skill' = [skill EXCEPT ![k] = IF @ = "out" THEN "in" ELSE @]
    /\ UNCHANGED <<ctl, writer, beats, beat, asleep, sweep>>

\* The first acquisition, or an agent of the same run acquiring once more.
Acquire(k) ==
    /\ skill[k] # "over" /\ Awake(k) /\ GuardFree
    /\ Named(k) \/ Free
    /\ Pass([run |-> k, age |-> 0, beaten |-> FALSE, stated |-> FALSE], "taken")
    /\ skill' = [skill EXCEPT ![k] = IF @ = "out" THEN "in" ELSE @]
    /\ UNCHANGED <<ctl, writer, beats, beat, asleep, sweep>>

\* _do_heartbeat goes on when it finds a lock, whosever it is.
DoHeartbeat(k) ==
    /\ skill[k] \in {"in", "beating"} /\ Awake(k) /\ GuardFree
    /\ skill' = [skill EXCEPT ![k] = "beating"]
    /\ beat' = [beat EXCEPT ![k] = IF lock = None THEN "no" ELSE "checked"]
    /\ UNCHANGED <<lock, ctl, writer, beats, asleep, sweep, lost>>

\* It then reads the run id, if the lock is still there.
ReadRunId(k) ==
    /\ beat[k] = "checked" /\ Awake(k)
    /\ beat' = [beat EXCEPT ![k] = IF lock = None THEN None ELSE lock.run]
    /\ UNCHANGED <<lock, ctl, writer, beats, skill, asleep, sweep, lost>>

\* And writes the lock anew, without stale_after, whatever is there by now.
Refresh(k) ==
    /\ beat[k] \notin {"no", "checked"} /\ Awake(k)
    /\ beat' = [beat EXCEPT ![k] = "no"]
    /\ Pass([run |-> beat[k], age |-> 0, beaten |-> TRUE, stated |-> FALSE], "overwritten")
    /\ UNCHANGED <<ctl, writer, beats, skill, asleep, sweep>>

\* The heartbeat command in flight is killed too, or outlives the run.
SkillEnds(k) ==
    /\ skill[k] \in {"in", "beating"}
    /\ skill' = [skill EXCEPT ![k] = "over"]
    /\ beat' \in {beat, [beat EXCEPT ![k] = "no"]}
    /\ asleep' = asleep \ {k} /\ Fate(k)
    /\ UNCHANGED <<lock, ctl, writer, beats, sweep>>

Saw == IF lock # None /\ ~Silent(lock) /\ AtWork(lock.run) THEN lock.run ELSE "clear"

\* Mutant of TerminatorChecks: the owner of the lock is not asked for.
TerminatorTrusts(w) ==
    /\ sweep[w] = "idle" /\ lock # None
    /\ sweep' = [sweep EXCEPT ![w] = Saw]
    /\ UNCHANGED <<lock, ctl, writer, beats, skill, beat, asleep, lost>>

\* terminate_run acts for a run that ended or was refused; release_lock spares
\* a lock that is fresh and another run's.
TerminatorChecks(w) ==
    /\ sweep[w] = "idle" /\ lock # None
    /\ \E k \in Skills :
        /\ skill[k] \in {"out", "over"}
        /\ Named(k) \/ Free
    /\ sweep' = [sweep EXCEPT ![w] = Saw]
    /\ UNCHANGED <<lock, ctl, writer, beats, skill, beat, asleep, lost>>

\* check_state --clean spares a young heartbeat, and also acts without a lock.
CleanerChecks(w) ==
    /\ sweep[w] = "idle"
    /\ lock # None => \E t \in Thresholds(lock) : lock.age > t
    /\ sweep' = [sweep EXCEPT ![w] = Saw]
    /\ UNCHANGED <<lock, ctl, writer, beats, skill, beat, asleep, lost>>

\* Either then unlinks the lock by name.
Unlink(w) ==
    /\ sweep[w] # "idle"
    /\ sweep' = [sweep EXCEPT ![w] = "idle"]
    /\ Pass(None, IF lock # None /\ sweep[w] = lock.run THEN "taken" ELSE "swept")
    /\ UNCHANGED <<ctl, writer, beats, skill, beat, asleep>>
-----------------------------------------------------------------------------
FallAsleep(r) ==
    /\ \/ AtWork(r)
       \/ r \in Controllers /\ ctl[r] = "ended" /\ writer[r] # "none"
       \/ r \in Skills /\ beat[r] # "no"
    /\ Awake(r)
    /\ asleep' = asleep \cup {r}
    /\ UNCHANGED <<lock, ctl, writer, beats, skill, beat, sweep, lost>>

Wake(r) ==
    /\ ~Awake(r)
    /\ asleep' = asleep \ {r}
    /\ UNCHANGED <<lock, ctl, writer, beats, skill, beat, sweep, lost>>

\* A process that is awake beats, or finishes what it writes, in time.
Due(r) ==
    /\ Awake(r)
    /\ IF r \in Controllers
       THEN writer[r] # "none" \/ (ctl[r] = "work" /\ beats[r] /\ Named(r) /\ lock.age > 0)
       ELSE beat[r] # "no" \/ (skill[r] = "beating" /\ Named(r) /\ lock.age > 0 /\ GuardFree)

Tick ==
    /\ lock # None /\ lock.age < Cap
    /\ \A r \in Runs : ~Due(r)
    /\ lock' = [lock EXCEPT !.age = @ + 1]
    /\ UNCHANGED <<ctl, writer, beats, skill, beat, asleep, sweep, lost>>

Session(c) ==
    \/ Open(c) \/ OpenFails(c) \/ Hold(c) \/ CheckLock(c) \/ WriteLock(c) \/ BeatEnds(c)
    \/ Release(c) \/ LeaveGuard(c) \/ Exit(c)
Command(k) == Acquire(k) \/ DoHeartbeat(k) \/ ReadRunId(k) \/ Refresh(k) \/ SkillEnds(k)

Next ==
    \/ Tick
    \/ \E c \in Controllers : Session(c)
    \/ \E k \in Skills : Command(k)
    \/ \E w \in Terminators : TerminatorChecks(w)
    \/ \E w \in Cleaners : CleanerChecks(w)
    \/ \E w \in Sweepers : Unlink(w)
    \/ \E r \in Runs : FallAsleep(r) \/ Wake(r)

Spec == Init /\ [][Next]_vars

\* However often processes sleep and wake, time passes, and a thread inside a
\* checkpoint or a heartbeat command finishes it if its process keeps waking.
FairSpec ==
    /\ Spec /\ SF_vars(Tick)
    /\ \A c \in Controllers : SF_vars(WriteLock(c))
    /\ \A k \in Skills : SF_vars(ReadRunId(k) \/ Refresh(k))
-----------------------------------------------------------------------------
(***************************************************************************)
(* Properties                                                              *)
(***************************************************************************)

\* Two runs are at work in one directory only if one of them was silent past
\* its threshold, a remover whose check had seen no live lock unlinked the new
\* one, or a checkpoint in flight wrote over it; a lock somebody vouches for is
\* never taken, and a remover never removes the live lock it saw.
Exclusion ==
    /\ \A r \in Runs : lost[r] # "taken"
    /\ \A r, q \in Runs : r # q /\ AtWork(r) /\ AtWork(q) =>
           lost[r] # "no" \/ lost[q] # "no"

\* While a controller session works the lock names no other run, asleep, its
\* heartbeat thread gone or its lock unlinked as it may be, but for an earlier
\* session's last checkpoint that was late.
HolderNamed ==
    \A c \in Controllers : ctl[c] = "work" /\ lock # None /\ lock.run # c =>
        lock.run \in Controllers /\ lock.beaten

\* A dead run's lock stops blocking the directory, unless a run that lost the
\* directory keeps refreshing it.
DeadLockExpires ==
    (lock # None /\ ~AtWork(lock.run)) ~>
        \/ lock = None \/ AtWork(lock.run) \/ Expired(lock)
        \/ \E k \in Skills : skill[k] = "beating"
=============================================================================
