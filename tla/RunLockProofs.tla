--------------------------- MODULE RunLockProofs ---------------------------
(***************************************************************************)
(* Proofs about the lock of an output directory, for any number of         *)
(* controllers, command-line runs and removers, and any thresholds.        *)
(***************************************************************************)
EXTENDS RunLock, TLAPS

\* The guard is held by one controller, or by heartbeat commands.
Guarding(c) == ctl[c] \in {"open", "work", "closing"}
OneGuard ==
    /\ \A c, d \in Controllers : Guarding(c) /\ Guarding(d) => c = d
    /\ \A c \in Controllers, k \in Skills : Guarding(c) => beat[k] = "no"

\* A controller that has found the directory free still finds it so when it
\* writes its lock, but for an earlier session's late checkpoint.
StillFree ==
    \A c \in Controllers : ctl[c] = "open" /\ lock # None =>
        lock.run \in Controllers \/ Silent(lock)

\* A remover acts only when it has seen no live lock.
SeenClear == \A w \in Sweepers : sweep[w] \in {"idle", "clear"}

\* A run at work that has not lost the lock is named by it.
HasLock == \A r \in Runs : AtWork(r) /\ lost[r] = "no" => Named(r)

NotTaken == \A r \in Runs : lost[r] # "taken"

IInv == TypeOK /\ OneGuard /\ StillFree /\ SeenClear /\ HasLock /\ NotTaken /\ HolderNamed
-----------------------------------------------------------------------------
\* Whoever may find the lock free finds one nobody vouches for (_classify_lock).
LEMMA FreeIsSilent == ASSUME TypeOK, lock # None, Free PROVE Silent(lock)
<1>1. PICK t \in Thresholds(lock), alive \in BOOLEAN : ~Fresh(lock, t, alive)
  BY DEF Free
<1>2. lock.age \in Nat /\ t \in Nat
  BY ThresholdsAssumption DEF TypeOK, Locks, Thresholds, Cap
<1>3. CASE lock.age > t
  BY <1>1, <1>3 DEF Silent
<1>4. CASE NeverBeat(lock)
  BY <1>4 DEF Silent
<1> QED BY <1>1, <1>2, <1>3, <1>4 DEF Fresh

\* The locks the operations write are locks.
LEMMA NewLock ==
    ASSUME NEW r \in Runs \cup {None}, NEW b \in BOOLEAN, NEW s \in BOOLEAN,
           s => r \in Controllers, r = None => b
    PROVE  LET l == [run |-> r, age |-> 0, beaten |-> b, stated |-> s]
           IN  l \in Locks /\ l # None /\ l.run = r
<1> USE ThresholdsAssumption, NoLockAssumption DEF Locks, Cap
<1>1. 0 \in 0..Cap
  OBVIOUS
<1> QED BY <1>1

LEMMA ControllerLock ==
    ASSUME NEW c \in Controllers, NEW b \in BOOLEAN
    PROVE  LET l == [run |-> c, age |-> 0, beaten |-> b, stated |-> TRUE]
           IN  l \in Locks /\ l # None /\ l.run = c
<1>1. c \in Runs /\ c # None
  BY RunsAssumption DEF Runs
<1> QED BY <1>1, NewLock

LEMMA SkillLock ==
    ASSUME NEW k \in Skills
    PROVE  LET l == [run |-> k, age |-> 0, beaten |-> FALSE, stated |-> FALSE]
           IN  l \in Locks /\ l # None /\ l.run = k
<1>1. k \in Runs /\ k # None
  BY RunsAssumption DEF Runs
<1> QED BY <1>1, NewLock

LEMMA BeatenLock ==
    ASSUME NEW r \in Runs \cup {None}
    PROVE  LET l == [run |-> r, age |-> 0, beaten |-> TRUE, stated |-> FALSE]
           IN  l \in Locks /\ l # None /\ l.run = r
  BY NewLock

LEMMA OlderLock ==
    ASSUME TypeOK, lock # None, lock.age < Cap
    PROVE  LET l == [lock EXCEPT !.age = @ + 1]
           IN  l \in Locks /\ l # None /\ l.run = lock.run
<1>1. Cap \in Nat
  BY ThresholdsAssumption DEF Cap
<1>2. lock.age + 1 \in 0..Cap
  BY <1>1 DEF TypeOK, Locks
<1> QED BY <1>2, NoLockAssumption DEF TypeOK, Locks

\* Every step keeps the types; the clock stops at the age beyond all thresholds.
LEMMA TypeStep ==
    ASSUME TypeOK, Next
    PROVE  TypeOK'
<1> USE ThresholdsAssumption DEF TypeOK, Runs, Sweepers, Locks, Cap
<1>1. CASE Tick
  BY <1>1 DEF Tick
<1>2. ASSUME NEW c \in Controllers, Open(c) PROVE TypeOK'
  BY <1>2 DEF Open, GuardFree
<1>3. ASSUME NEW c \in Controllers, OpenFails(c) PROVE TypeOK'
  BY <1>3 DEF OpenFails
<1>4. ASSUME NEW c \in Controllers, Hold(c) PROVE TypeOK'
  BY <1>4, ControllerLock DEF Hold, Pass
<1>5. ASSUME NEW c \in Controllers, CheckLock(c) PROVE TypeOK'
  BY <1>5 DEF CheckLock
<1>6. ASSUME NEW c \in Controllers, WriteLock(c) PROVE TypeOK'
  BY <1>6, ControllerLock DEF WriteLock, Pass
<1>7. ASSUME NEW c \in Controllers, BeatEnds(c) PROVE TypeOK'
  BY <1>7 DEF BeatEnds
<1>8. ASSUME NEW c \in Controllers, Release(c) PROVE TypeOK'
  BY <1>8 DEF Release
<1>9. ASSUME NEW c \in Controllers, LeaveGuard(c) PROVE TypeOK'
  BY <1>9 DEF LeaveGuard
<1>10. ASSUME NEW c \in Controllers, Exit(c) PROVE TypeOK'
  BY <1>10 DEF Exit, Fate
<1>11. ASSUME NEW k \in Skills, Acquire(k) PROVE TypeOK'
  BY <1>11, SkillLock DEF Acquire, Pass
<1>12. ASSUME NEW k \in Skills, DoHeartbeat(k) PROVE TypeOK'
  BY <1>12 DEF DoHeartbeat
<1>19. ASSUME NEW k \in Skills, ReadRunId(k) PROVE TypeOK'
  BY <1>19 DEF ReadRunId
<1>20. ASSUME NEW k \in Skills, Refresh(k) PROVE TypeOK'
  BY <1>20, BeatenLock DEF Refresh, Pass
<1>13. ASSUME NEW k \in Skills, SkillEnds(k) PROVE TypeOK'
  BY <1>13 DEF SkillEnds, Fate
<1>14. ASSUME NEW w \in Terminators, TerminatorChecks(w) PROVE TypeOK'
  BY <1>14 DEF TerminatorChecks, Saw, AtWork
<1>15. ASSUME NEW w \in Cleaners, CleanerChecks(w) PROVE TypeOK'
  BY <1>15 DEF CleanerChecks, Saw, AtWork
<1>16. ASSUME NEW w \in Sweepers, Unlink(w) PROVE TypeOK'
  BY <1>16 DEF Unlink, Pass
<1>17. ASSUME NEW r \in Runs, FallAsleep(r) PROVE TypeOK'
  BY <1>17 DEF FallAsleep
<1>18. ASSUME NEW r \in Runs, Wake(r) PROVE TypeOK'
  BY <1>18 DEF Wake
<1> QED BY <1>1, <1>2, <1>3, <1>4, <1>5, <1>6, <1>7, <1>8, <1>9, <1>10, <1>11, <1>12, <1>13,
       <1>14, <1>15, <1>16, <1>17, <1>18, <1>19, <1>20 DEF Next, Session, Command

\* A controller takes the guard only when no other one has it.
LEMMA GuardStep ==
    ASSUME TypeOK, OneGuard, Next
    PROVE  OneGuard'
<1>1. \/ UNCHANGED <<ctl, beat>>
      \/ \E k \in Skills : DoHeartbeat(k) \/ ReadRunId(k) \/ Refresh(k) \/ SkillEnds(k)
      \/ \E c \in Controllers : Open(c)
      \/ \E c \in Controllers : OpenFails(c)
      \/ \E c \in Controllers : Hold(c)
      \/ \E c \in Controllers : Release(c)
      \/ \E c \in Controllers : LeaveGuard(c)
      \/ \E c \in Controllers : Exit(c)
  BY DEF Next, Session, Command, Tick, CheckLock, WriteLock, BeatEnds, Acquire,
         TerminatorChecks, CleanerChecks, Unlink, FallAsleep, Wake
<1> USE DEF TypeOK, OneGuard, Guarding, GuardFree
<1>2. CASE UNCHANGED <<ctl, beat>>
  BY <1>2
<1>9. ASSUME NEW k \in Skills, DoHeartbeat(k) PROVE OneGuard'
  BY <1>9 DEF DoHeartbeat
<1>10. ASSUME NEW k \in Skills, ReadRunId(k) PROVE OneGuard'
  BY <1>10 DEF ReadRunId
<1>11. ASSUME NEW k \in Skills, Refresh(k) PROVE OneGuard'
  BY <1>11 DEF Refresh
<1>12. ASSUME NEW k \in Skills, SkillEnds(k) PROVE OneGuard'
  BY <1>12 DEF SkillEnds
<1>3. ASSUME NEW c \in Controllers, Open(c) PROVE OneGuard'
  BY <1>3 DEF Open, GuardFree
<1>4. ASSUME NEW c \in Controllers, OpenFails(c) PROVE OneGuard'
  BY <1>4 DEF OpenFails
<1>5. ASSUME NEW c \in Controllers, Hold(c) PROVE OneGuard'
  BY <1>5 DEF Hold, Pass
<1>6. ASSUME NEW c \in Controllers, Release(c) PROVE OneGuard'
  BY <1>6 DEF Release
<1>7. ASSUME NEW c \in Controllers, LeaveGuard(c) PROVE OneGuard'
  BY <1>7 DEF LeaveGuard
<1>8. ASSUME NEW c \in Controllers, Exit(c) PROVE OneGuard'
  BY <1>8 DEF Exit, Fate
<1> QED BY <1>1, <1>2, <1>3, <1>4, <1>5, <1>6, <1>7, <1>8, <1>9, <1>10, <1>11, <1>12

\* While a controller has the guard no command writes the lock, and time only
\* makes a silent lock older.
LEMMA StillStep ==
    ASSUME TypeOK, OneGuard, StillFree, Next
    PROVE  StillFree'
<1>1. \/ UNCHANGED <<ctl, lock>>
      \/ Tick
      \/ \E c \in Controllers : Open(c)
      \/ \E c \in Controllers : OpenFails(c)
      \/ \E c \in Controllers : Hold(c)
      \/ \E c \in Controllers : WriteLock(c)
      \/ \E c \in Controllers : Release(c)
      \/ \E c \in Controllers : LeaveGuard(c)
      \/ \E c \in Controllers : Exit(c)
      \/ \E k \in Skills : Acquire(k)
      \/ \E k \in Skills : Refresh(k)
      \/ \E w \in Sweepers : Unlink(w)
  BY DEF Next, Session, Command, CheckLock, BeatEnds, DoHeartbeat, ReadRunId, SkillEnds,
         TerminatorChecks, CleanerChecks, FallAsleep, Wake
<1> USE ThresholdsAssumption, FreeIsSilent, NoLockAssumption DEF TypeOK, OneGuard, Guarding,
    StillFree, Locks, Runs, Silent, Thresholds, NeverBeat, Cap
<1>2. CASE UNCHANGED <<ctl, lock>>
  BY <1>2
<1>3. CASE Tick
  BY <1>3 DEF Tick
<1>4. ASSUME NEW c \in Controllers, Open(c) PROVE StillFree'
  BY <1>4 DEF Open, GuardFree
<1>5. ASSUME NEW c \in Controllers, OpenFails(c) PROVE StillFree'
  BY <1>5 DEF OpenFails
<1>6. ASSUME NEW c \in Controllers, Hold(c) PROVE StillFree'
  BY <1>6 DEF Hold, Pass
<1>7. ASSUME NEW c \in Controllers, WriteLock(c) PROVE StillFree'
  BY <1>7 DEF WriteLock, Pass
<1>8. ASSUME NEW c \in Controllers, Release(c) PROVE StillFree'
  BY <1>8 DEF Release
<1>9. ASSUME NEW c \in Controllers, LeaveGuard(c) PROVE StillFree'
  BY <1>9 DEF LeaveGuard
<1>10. ASSUME NEW c \in Controllers, Exit(c) PROVE StillFree'
  BY <1>10 DEF Exit, Fate
<1>11. ASSUME NEW k \in Skills, Acquire(k) PROVE StillFree'
  BY <1>11 DEF Acquire, Pass, GuardFree
<1>12. ASSUME NEW k \in Skills, Refresh(k) PROVE StillFree'
  BY <1>12 DEF Refresh
<1>13. ASSUME NEW w \in Sweepers, Unlink(w) PROVE StillFree'
  BY <1>13 DEF Unlink, Pass
<1> QED BY <1>1, <1>2, <1>3, <1>4, <1>5, <1>6, <1>7, <1>8, <1>9, <1>10, <1>11, <1>12, <1>13

\* Both removers pass over a lock somebody vouches for, whoever asks.
LEMMA SeenStep ==
    ASSUME TypeOK, SeenClear, Next
    PROVE  SeenClear'
<1>1. \/ UNCHANGED sweep
      \/ \E w \in Terminators : TerminatorChecks(w)
      \/ \E w \in Cleaners : CleanerChecks(w)
      \/ \E w \in Sweepers : Unlink(w)
  BY DEF Next, Session, Command, Tick, Open, OpenFails, Hold, CheckLock, WriteLock, BeatEnds,
         Release, LeaveGuard, Exit, Acquire, DoHeartbeat, ReadRunId, Refresh, SkillEnds, FallAsleep,
         Wake
<1> USE FreeIsSilent DEF TypeOK, SeenClear, Sweepers
<1>2. CASE UNCHANGED sweep
  BY <1>2
<1>3. ASSUME NEW w \in Terminators, TerminatorChecks(w) PROVE SeenClear'
  <2>1. PICK k \in Skills : skill[k] \in {"out", "over"} /\ (Named(k) \/ Free)
    BY <1>3 DEF TerminatorChecks
  <2>2. ~AtWork(k)
    BY <2>1, RunsAssumption DEF AtWork
  <2>3. lock # None /\ AtWork(lock.run) => Silent(lock)
    BY <2>1, <2>2, FreeIsSilent DEF Named
  <2> QED BY <1>3, <2>3 DEF TerminatorChecks, Saw
<1>4. ASSUME NEW w \in Cleaners, CleanerChecks(w) PROVE SeenClear'
  BY <1>4 DEF CleanerChecks, Saw, Silent
<1>5. ASSUME NEW w \in Sweepers, Unlink(w) PROVE SeenClear'
  BY <1>5 DEF Unlink, Pass
<1> QED BY <1>1, <1>2, <1>3, <1>4, <1>5

\* Whoever writes or removes the lock is recorded with the run that loses it.
LEMMA HasStep ==
    ASSUME TypeOK, HasLock, Next
    PROVE  HasLock'
<1>1. \/ UNCHANGED <<lock, ctl, skill, lost>>
      \/ Tick
      \/ \E c \in Controllers : Open(c)
      \/ \E c \in Controllers : OpenFails(c)
      \/ \E c \in Controllers : Hold(c)
      \/ \E c \in Controllers : WriteLock(c)
      \/ \E c \in Controllers : Release(c)
      \/ \E c \in Controllers : LeaveGuard(c)
      \/ \E c \in Controllers : Exit(c)
      \/ \E k \in Skills : Acquire(k)
      \/ \E k \in Skills : DoHeartbeat(k)
      \/ \E k \in Skills : Refresh(k)
      \/ \E k \in Skills : SkillEnds(k)
      \/ \E w \in Sweepers : Unlink(w)
  BY DEF Next, Session, Command, CheckLock, BeatEnds, ReadRunId, TerminatorChecks, CleanerChecks,
         FallAsleep, Wake
<1> USE RunsAssumption, NoLockAssumption DEF TypeOK, HasLock, Runs, Named, AtWork, Locks
<1>2. CASE UNCHANGED <<lock, ctl, skill, lost>>
  BY <1>2
<1>3. CASE Tick
  BY <1>3, OlderLock DEF Tick
<1>4. ASSUME NEW c \in Controllers, Open(c) PROVE HasLock'
  BY <1>4 DEF Open, GuardFree
<1>5. ASSUME NEW c \in Controllers, OpenFails(c) PROVE HasLock'
  BY <1>5 DEF OpenFails
<1>6. ASSUME NEW c \in Controllers, Hold(c) PROVE HasLock'
  BY <1>6, ControllerLock DEF Hold, Pass
<1>7. ASSUME NEW c \in Controllers, WriteLock(c) PROVE HasLock'
  BY <1>7 DEF WriteLock, Pass
<1>8. ASSUME NEW c \in Controllers, Release(c) PROVE HasLock'
  BY <1>8 DEF Release
<1>9. ASSUME NEW c \in Controllers, LeaveGuard(c) PROVE HasLock'
  BY <1>9 DEF LeaveGuard
<1>10. ASSUME NEW c \in Controllers, Exit(c) PROVE HasLock'
  BY <1>10 DEF Exit, Fate
<1>11. ASSUME NEW k \in Skills, Acquire(k) PROVE HasLock'
  BY <1>11, SkillLock DEF Acquire, Pass
<1>12. ASSUME NEW k \in Skills, DoHeartbeat(k) PROVE HasLock'
  BY <1>12 DEF DoHeartbeat
<1>15. ASSUME NEW k \in Skills, Refresh(k) PROVE HasLock'
  <2>1. beat[k] \in Runs \cup {None}
    BY <1>15 DEF Refresh
  <2> QED BY <1>15, <2>1, BeatenLock DEF Refresh, Pass
<1>13. ASSUME NEW k \in Skills, SkillEnds(k) PROVE HasLock'
  BY <1>13 DEF SkillEnds, Fate
<1>14. ASSUME NEW w \in Sweepers, Unlink(w) PROVE HasLock'
  BY <1>14 DEF Unlink, Pass
<1> QED BY <1>1, <1>2, <1>3, <1>4, <1>5, <1>6, <1>7, <1>8, <1>9, <1>10, <1>11, <1>12, <1>13, <1>14, <1>15

\* A live lock is neither replaced nor removed.
LEMMA TakenStep ==
    ASSUME TypeOK, OneGuard, StillFree, SeenClear, NotTaken, Next
    PROVE  NotTaken'
<1>1. \/ UNCHANGED lost
      \/ \E c \in Controllers : Hold(c)
      \/ \E c \in Controllers : WriteLock(c)
      \/ \E c \in Controllers : Release(c)
      \/ \E c \in Controllers : Exit(c)
      \/ \E k \in Skills : Acquire(k)
      \/ \E k \in Skills : Refresh(k)
      \/ \E k \in Skills : SkillEnds(k)
      \/ \E w \in Sweepers : Unlink(w)
  BY DEF Next, Session, Command, Tick, Open, OpenFails, CheckLock, BeatEnds, LeaveGuard,
         DoHeartbeat, ReadRunId, TerminatorChecks, CleanerChecks, FallAsleep, Wake
<1> USE RunsAssumption, FreeIsSilent, NoLockAssumption DEF TypeOK, OneGuard, Guarding, StillFree,
    SeenClear, NotTaken, Sweepers, Runs, Named, AtWork, Locks
<1>2. CASE UNCHANGED lost
  BY <1>2
<1>3. ASSUME NEW c \in Controllers, Hold(c) PROVE NotTaken'
  BY <1>3 DEF Hold, Pass
<1>4. ASSUME NEW c \in Controllers, WriteLock(c) PROVE NotTaken'
  BY <1>4 DEF WriteLock, Pass
<1>5. ASSUME NEW c \in Controllers, Release(c) PROVE NotTaken'
  BY <1>5 DEF Release
<1>6. ASSUME NEW c \in Controllers, Exit(c) PROVE NotTaken'
  BY <1>6 DEF Exit, Fate
<1>7. ASSUME NEW k \in Skills, Acquire(k) PROVE NotTaken'
  <2>1. CASE Named(k)
    BY <1>7, <2>1, SkillLock DEF Acquire, Pass
  <2>2. CASE Free
    BY <1>7, <2>2, FreeIsSilent DEF Acquire, Pass
  <2> QED BY <1>7, <2>1, <2>2 DEF Acquire
<1>8. ASSUME NEW k \in Skills, SkillEnds(k) PROVE NotTaken'
  BY <1>8 DEF SkillEnds, Fate
<1>9. ASSUME NEW w \in Sweepers, Unlink(w) PROVE NotTaken'
  BY <1>9 DEF Unlink, Pass
<1>10. ASSUME NEW k \in Skills, Refresh(k) PROVE NotTaken'
  BY <1>10 DEF Refresh, Pass
<1> QED BY <1>1, <1>2, <1>3, <1>4, <1>5, <1>6, <1>7, <1>8, <1>9, <1>10

\* While a controller works, only controllers write the lock, and any other one is
\* finishing a checkpoint.
LEMMA HolderStep ==
    ASSUME TypeOK, OneGuard, HolderNamed, Next
    PROVE  HolderNamed'
<1>1. \/ UNCHANGED <<lock, ctl>>
      \/ Tick
      \/ \E c \in Controllers : Open(c)
      \/ \E c \in Controllers : OpenFails(c)
      \/ \E c \in Controllers : Hold(c)
      \/ \E c \in Controllers : WriteLock(c)
      \/ \E c \in Controllers : Release(c)
      \/ \E c \in Controllers : LeaveGuard(c)
      \/ \E c \in Controllers : Exit(c)
      \/ \E k \in Skills : Acquire(k)
      \/ \E k \in Skills : Refresh(k)
      \/ \E w \in Sweepers : Unlink(w)
  BY DEF Next, Session, Command, CheckLock, BeatEnds, DoHeartbeat, ReadRunId, SkillEnds,
         TerminatorChecks, CleanerChecks, FallAsleep, Wake
<1> USE NoLockAssumption DEF TypeOK, OneGuard, Guarding, HolderNamed, Locks, Runs
<1>2. CASE UNCHANGED <<lock, ctl>>
  BY <1>2
<1>3. CASE Tick
  BY <1>3 DEF Tick
<1>4. ASSUME NEW c \in Controllers, Open(c) PROVE HolderNamed'
  BY <1>4 DEF Open, GuardFree
<1>5. ASSUME NEW c \in Controllers, OpenFails(c) PROVE HolderNamed'
  BY <1>5 DEF OpenFails
<1>6. ASSUME NEW c \in Controllers, Hold(c) PROVE HolderNamed'
  BY <1>6 DEF Hold, Pass
<1>7. ASSUME NEW c \in Controllers, WriteLock(c) PROVE HolderNamed'
  BY <1>7 DEF WriteLock, Pass
<1>8. ASSUME NEW c \in Controllers, Release(c) PROVE HolderNamed'
  BY <1>8 DEF Release
<1>9. ASSUME NEW c \in Controllers, LeaveGuard(c) PROVE HolderNamed'
  BY <1>9 DEF LeaveGuard
<1>10. ASSUME NEW c \in Controllers, Exit(c) PROVE HolderNamed'
  BY <1>10 DEF Exit, Fate
<1>11. ASSUME NEW k \in Skills, Acquire(k) PROVE HolderNamed'
  BY <1>11 DEF Acquire, Pass, GuardFree
<1>12. ASSUME NEW k \in Skills, Refresh(k) PROVE HolderNamed'
  BY <1>12 DEF Refresh
<1>13. ASSUME NEW w \in Sweepers, Unlink(w) PROVE HolderNamed'
  BY <1>13 DEF Unlink, Pass
<1> QED BY <1>1, <1>2, <1>3, <1>4, <1>5, <1>6, <1>7, <1>8, <1>9, <1>10, <1>11, <1>12, <1>13

LEMMA InitInv == Init => IInv
<1> SUFFICES ASSUME Init PROVE IInv
  OBVIOUS
<1> USE DEF Init, Runs, Sweepers
<1>1. TypeOK
  BY DEF TypeOK, Locks
<1>2. OneGuard /\ StillFree /\ SeenClear
  BY DEF OneGuard, Guarding, StillFree, SeenClear
<1>3. HasLock /\ NotTaken /\ HolderNamed
  BY DEF HasLock, AtWork, NotTaken, HolderNamed
<1> QED BY <1>1, <1>2, <1>3 DEF IInv

LEMMA StutterKeeps == ASSUME IInv, UNCHANGED vars PROVE IInv'
<1> USE DEF vars
<1>1. TypeOK'
  BY DEF IInv, TypeOK
<1>2. OneGuard' /\ StillFree' /\ SeenClear'
  BY DEF IInv, OneGuard, Guarding, StillFree, SeenClear, Silent, Thresholds, NeverBeat
<1>3. HasLock' /\ NotTaken' /\ HolderNamed'
  BY DEF IInv, HasLock, AtWork, Named, NotTaken, HolderNamed
<1> QED BY <1>1, <1>2, <1>3 DEF IInv

LEMMA InductiveStep == IInv /\ [Next]_vars => IInv'
<1> SUFFICES ASSUME IInv, [Next]_vars PROVE IInv'
  OBVIOUS
<1>1. CASE Next
  BY <1>1, TypeStep, GuardStep, StillStep, SeenStep, HasStep, TakenStep, HolderStep DEF IInv
<1>2. CASE UNCHANGED vars
  BY <1>2, StutterKeeps
<1> QED BY <1>1, <1>2

\* The strengthened invariant holds in every reachable state.
THEOREM Invariance == Spec => []IInv
<1>1. IInv /\ [Next]_vars => IInv'
  BY InductiveStep
<1> QED BY InitInv, <1>1, PTL DEF Spec

\* Every variable keeps its type, and the clock of a lock its range
\* (acquire_lock.py, hold of assessment_state.py).
THEOREM TypeCorrect == Spec => []TypeOK
<1>1. IInv => TypeOK
  BY DEF IInv
<1> QED BY <1>1, Invariance, PTL

\* A live lock is never taken or unlinked, and two runs are at work only if one
\* of them lost the lock in a recorded way (acquire, release_lock, do_clean).
THEOREM LockExcludes == Spec => []Exclusion
<1>1. IInv => Exclusion
  <2> SUFFICES ASSUME IInv PROVE Exclusion
    OBVIOUS
  <2>1. \A r \in Runs : lost[r] # "taken"
    BY DEF IInv, NotTaken
  <2>2. ASSUME NEW r \in Runs, NEW q \in Runs, r # q, AtWork(r), AtWork(q),
               lost[r] = "no", lost[q] = "no"
        PROVE  FALSE
    BY <2>2 DEF IInv, HasLock, Named
  <2> QED BY <2>1, <2>2 DEF Exclusion
<1> QED BY <1>1, Invariance, PTL

\* While a controller session works, the lock names no other run but that of an
\* earlier session whose last checkpoint was late (checkpoint, the guard of hold).
THEOREM LockNamesHolder == Spec => []HolderNamed
<1>1. IInv => HolderNamed
  BY DEF IInv
<1> QED BY <1>1, Invariance, PTL
=============================================================================
