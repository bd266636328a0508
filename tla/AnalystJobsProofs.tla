------------------------- MODULE AnalystJobsProofs -------------------------
(***************************************************************************)
(* Proofs about the jobs of the on-demand analysis, for any number of      *)
(* processes, calls, question rounds, user commands and kills.             *)
(***************************************************************************)
EXTENDS AnalystJobs, TLAPS

\* Places at which a process has the lock.
Holding == Guarded \cup {"cleanup", "discard"}

Clear == \A n \in Written : shown[n] = "none"

\* The lock is held exactly while its holder works on the job.
OneOwner == \A p \in Procs : at[p] \in Holding <=> holder = p

\* One process creates the job, before anything else happens to it, and
\* nothing is left of a job that was removed.
Lifetime ==
    /\ \A p, q \in Procs : role[p] = "run" /\ role[q] = "run" => p = q
    /\ \A p \in Procs : at[p] = "out" => role[p] = "none"
    /\ dir = "unborn" =>
          rec = "none" /\ ~view /\ Clear /\ lateCalls = 0 /\ \A p \in Procs : at[p] = "out"
    /\ dir = "gone" => rec = "none" /\ holder = None

\* What the state may be at each place of its owner.
Stages ==
    /\ rec = "awaiting" => rounds < MaxRounds
    /\ \A p \in Procs :
        /\ at[p] \in {"made", "prepare", "captured"} => role[p] = "run"
        /\ role[p] = "run" /\ at[p] \in {"made", "opened", "prepare", "captured"} =>
               rec = "none" /\ Clear
        /\ at[p] \in {"begin", "loop", "checked", "calling", "reply"} =>
               rec \in {"prepared", "analyzing"}
        /\ at[p] = "checked" => calls > 0
        /\ at[p] \in {"answers", "leave"} => rec = "awaiting"
        /\ at[p] = "record" =>
               /\ final[p] \in Terminal
               /\ rec \in Open \/ (rec = "none" /\ role[p] = "run" /\ Clear)
        /\ at[p] = "writing" => rec \in Terminal /\ final[p] = rec
        /\ at[p] = "discard" => rec \in Terminal \cup {"none"}

\* A call that was begun in spite of the marker leaves no other one to begin.
Late ==
    \/ lateCalls = 0
    \/ /\ lateCalls = 1 /\ (marker \/ dir = "gone")
       /\ \A p \in Procs : at[p] # "checked"

\* Whoever is about to leave an open job has what a question checkpoint keeps.
Kept ==
    /\ rec = "awaiting" => view \/ botched
    /\ \A p \in Procs :
        /\ at[p] \in {"captured", "begin", "loop", "checked", "calling", "reply"} => view \/ botched
        /\ at[p] = "cleanup" => rec \notin Open \/ botched
    /\ EveryExitCloses

IInv == TypeOK /\ OneOwner /\ Lifetime /\ Stages /\ OutcomeStands /\ Late /\ Kept

\* What a process can do.
Acts(p) ==
    \/ \E as \in {"cancel", "answer", "maintain"} : OpenLock(p, as)
    \/ MakeRoot(p) \/ MakeLock(p) \/ Mark(p) \/ OpenFails(p) \/ LockFails(p)
    \/ RunOwns(p) \/ AnswerOwns(p) \/ CancelOwns(p) \/ MaintainOwns(p)
    \/ Capture(p) \/ Prepared(p) \/ EndsEarly(p) \/ Analyze(p) \/ RejectAnswers(p)
    \/ Check(p) \/ Invoke(p) \/ CallEnds(p) \/ UseReply(p) \/ Ask(p) \/ Leave(p)
    \/ Record(p) \/ Write(p) \/ Interrupt(p) \/ Cleanup(p)
    \/ DiscardSome(p) \/ DiscardRest(p) \/ Kill(p)
-----------------------------------------------------------------------------
\* Every process keeps to the types; the bounds on calls and rounds are what the
\* checks before a call and before a question leave room for.
LEMMA TypeStep ==
    ASSUME NEW p \in Procs, TypeOK, OneOwner, Stages, Late, Acts(p)
    PROVE  TypeOK'
<1> USE ProcsAssumption, BoundsAssumption DEF TypeOK, OneOwner, Holding, Guarded, Stages, Late,
    Open, Terminal, Written, job, time, local, bound, past
<1>1. CASE MakeRoot(p)
  BY <1>1 DEF MakeRoot, Step, Go
<1>2. CASE MakeLock(p)
  BY <1>2 DEF MakeLock, Step, Go
<1>3. CASE Mark(p)
  BY <1>3 DEF Mark, Step, Go
<1>4. ASSUME NEW as \in {"cancel", "answer", "maintain"}, OpenLock(p, as) PROVE TypeOK'
  <2> USE <1>4 DEF OpenLock, Step, Go
  <2>1. CASE as = "cancel"
    BY <2>1
  <2>2. CASE as = "answer"
    BY <2>2
  <2>3. CASE as = "maintain"
    BY <2>3
  <2> QED BY <2>1, <2>2, <2>3
<1>5. CASE OpenFails(p)
  BY <1>5 DEF OpenFails, Exit, Go
<1>6. CASE LockFails(p)
  BY <1>6 DEF LockFails, Exit, Go
<1>7. CASE RunOwns(p)
  <2>1. /\ dir' \in {"unborn", "there", "gone"} /\ holder' \in Procs \cup {None}
        /\ rec' \in Open \cup Terminal \cup {"none"}
    BY <1>7 DEF RunOwns, Own, Exit, Go
  <2>2. /\ shown' \in [Written -> Terminal \cup {"none"}]
        /\ calls' \in 0..MaxCalls /\ rounds' \in 0..MaxRounds
    BY <1>7 DEF RunOwns, Own, Exit, Go
  <2>3. /\ at' \in [Procs -> Guarded \cup {"out", "made", "marked", "opened", "cleanup", "discard"}]
        /\ role' \in [Procs -> {"none", "run", "answer", "cancel", "maintain"}]
    BY <1>7 DEF RunOwns, Own, Exit, Go
  <2>4. /\ final' \in [Procs -> Terminal \cup {"none"}]
        /\ done' \in [Procs -> 0..4]
    BY <1>7 DEF RunOwns, Own, Exit, Go
  <2>5. aborting' \in [Procs -> {"no", "yes", "keeps"}]
    BY <1>7 DEF RunOwns, Own, Exit, Go
  <2>6. /\ users' \in 0..MaxUser /\ kills' \in 0..MaxKills /\ lateCalls' \in 0..MaxCalls
    BY <1>7 DEF RunOwns, Own, Exit, Go
  <2>7. /\ window' \in BOOLEAN /\ aged' \in BOOLEAN /\ torn' \in BOOLEAN /\ botched' \in BOOLEAN
        /\ lockfile' \in BOOLEAN /\ marker' \in BOOLEAN /\ view' \in BOOLEAN
    BY <1>7 DEF RunOwns, Own, Exit, Go
  <2> QED BY <2>1, <2>2, <2>3, <2>4, <2>5, <2>6, <2>7
<1>8. CASE AnswerOwns(p)
  <2>1. /\ dir' \in {"unborn", "there", "gone"} /\ holder' \in Procs \cup {None}
        /\ rec' \in Open \cup Terminal \cup {"none"}
    BY <1>8 DEF AnswerOwns, Own, Exit, Go
  <2>2. /\ shown' \in [Written -> Terminal \cup {"none"}]
        /\ calls' \in 0..MaxCalls /\ rounds' \in 0..MaxRounds
    BY <1>8 DEF AnswerOwns, Own, Exit, Go
  <2>3. /\ at' \in [Procs -> Guarded \cup {"out", "made", "marked", "opened", "cleanup", "discard"}]
        /\ role' \in [Procs -> {"none", "run", "answer", "cancel", "maintain"}]
    BY <1>8 DEF AnswerOwns, Own, Exit, Go
  <2>4. /\ final' \in [Procs -> Terminal \cup {"none"}]
        /\ done' \in [Procs -> 0..4]
    BY <1>8 DEF AnswerOwns, Own, Exit, Go
  <2>5. aborting' \in [Procs -> {"no", "yes", "keeps"}]
    BY <1>8 DEF AnswerOwns, Own, Exit, Go
  <2>6. /\ users' \in 0..MaxUser /\ kills' \in 0..MaxKills /\ lateCalls' \in 0..MaxCalls
    BY <1>8 DEF AnswerOwns, Own, Exit, Go
  <2>7. /\ window' \in BOOLEAN /\ aged' \in BOOLEAN /\ torn' \in BOOLEAN /\ botched' \in BOOLEAN
        /\ lockfile' \in BOOLEAN /\ marker' \in BOOLEAN /\ view' \in BOOLEAN
    BY <1>8 DEF AnswerOwns, Own, Exit, Go
  <2> QED BY <2>1, <2>2, <2>3, <2>4, <2>5, <2>6, <2>7
<1>9. CASE CancelOwns(p)
  <2>1. /\ dir' \in {"unborn", "there", "gone"} /\ holder' \in Procs \cup {None}
        /\ rec' \in Open \cup Terminal \cup {"none"}
    BY <1>9 DEF CancelOwns, Own, Exit, Go, Finish
  <2>2. /\ shown' \in [Written -> Terminal \cup {"none"}]
        /\ calls' \in 0..MaxCalls /\ rounds' \in 0..MaxRounds
    BY <1>9 DEF CancelOwns, Own, Exit, Go, Finish
  <2>3. /\ at' \in [Procs -> Guarded \cup {"out", "made", "marked", "opened", "cleanup", "discard"}]
        /\ role' \in [Procs -> {"none", "run", "answer", "cancel", "maintain"}]
    BY <1>9 DEF CancelOwns, Own, Exit, Go, Finish
  <2>4. /\ final' \in [Procs -> Terminal \cup {"none"}]
        /\ done' \in [Procs -> 0..4]
    BY <1>9 DEF CancelOwns, Own, Exit, Go, Finish
  <2>5. aborting' \in [Procs -> {"no", "yes", "keeps"}]
    BY <1>9 DEF CancelOwns, Own, Exit, Go, Finish
  <2>6. /\ users' \in 0..MaxUser /\ kills' \in 0..MaxKills /\ lateCalls' \in 0..MaxCalls
    BY <1>9 DEF CancelOwns, Own, Exit, Go, Finish
  <2>7. /\ window' \in BOOLEAN /\ aged' \in BOOLEAN /\ torn' \in BOOLEAN /\ botched' \in BOOLEAN
        /\ lockfile' \in BOOLEAN /\ marker' \in BOOLEAN /\ view' \in BOOLEAN
    BY <1>9 DEF CancelOwns, Own, Exit, Go, Finish
  <2> QED BY <2>1, <2>2, <2>3, <2>4, <2>5, <2>6, <2>7
<1>10. CASE MaintainOwns(p)
  <2>1. /\ dir' \in {"unborn", "there", "gone"} /\ holder' \in Procs \cup {None}
        /\ rec' \in Open \cup Terminal \cup {"none"}
    BY <1>10 DEF MaintainOwns, Own, Exit, Go
  <2>2. /\ shown' \in [Written -> Terminal \cup {"none"}]
        /\ calls' \in 0..MaxCalls /\ rounds' \in 0..MaxRounds
    BY <1>10 DEF MaintainOwns, Own, Exit, Go
  <2>3. /\ at' \in [Procs -> Guarded \cup {"out", "made", "marked", "opened", "cleanup", "discard"}]
        /\ role' \in [Procs -> {"none", "run", "answer", "cancel", "maintain"}]
    BY <1>10 DEF MaintainOwns, Own, Exit, Go
  <2>4. /\ final' \in [Procs -> Terminal \cup {"none"}]
        /\ done' \in [Procs -> 0..4]
    BY <1>10 DEF MaintainOwns, Own, Exit, Go
  <2>5. aborting' \in [Procs -> {"no", "yes", "keeps"}]
    BY <1>10 DEF MaintainOwns, Own, Exit, Go
  <2>6. /\ users' \in 0..MaxUser /\ kills' \in 0..MaxKills /\ lateCalls' \in 0..MaxCalls
    BY <1>10 DEF MaintainOwns, Own, Exit, Go
  <2>7. /\ window' \in BOOLEAN /\ aged' \in BOOLEAN /\ torn' \in BOOLEAN /\ botched' \in BOOLEAN
        /\ lockfile' \in BOOLEAN /\ marker' \in BOOLEAN /\ view' \in BOOLEAN
    BY <1>10 DEF MaintainOwns, Own, Exit, Go
  <2> QED BY <2>1, <2>2, <2>3, <2>4, <2>5, <2>6, <2>7
<1>11. CASE Capture(p)
  BY <1>11 DEF Capture, Step, Go
<1>12. CASE Prepared(p)
  BY <1>12 DEF Prepared, Step, Go
<1>13. CASE EndsEarly(p)
  BY <1>13 DEF EndsEarly, Finish, Go
<1>14. CASE Analyze(p)
  BY <1>14 DEF Analyze, Step, Go
<1>15. CASE RejectAnswers(p)
  BY <1>15 DEF RejectAnswers, Step, Go
<1>16. CASE Check(p)
  BY <1>16 DEF Check, Finish, Go
<1>17. CASE Invoke(p)
  BY <1>17 DEF Invoke, Step, Go
<1>18. CASE CallEnds(p)
  BY <1>18 DEF CallEnds, Finish, Go
<1>19. CASE UseReply(p)
  BY <1>19 DEF UseReply, Finish, Go
<1>20. CASE Ask(p)
  BY <1>20 DEF Ask, Step, Go
<1>21. CASE Leave(p)
  BY <1>21 DEF Leave, Exit, Go
<1>22. CASE Record(p)
  BY <1>22 DEF Record, Step, Go
<1>23. CASE Write(p)
  BY <1>23 DEF Write, Go
<1>24. CASE Interrupt(p)
  <2>1. /\ dir' \in {"unborn", "there", "gone"} /\ holder' \in Procs \cup {None}
        /\ rec' \in Open \cup Terminal \cup {"none"}
    BY <1>24 DEF Interrupt, Go
  <2>2. /\ shown' \in [Written -> Terminal \cup {"none"}]
        /\ calls' \in 0..MaxCalls /\ rounds' \in 0..MaxRounds
    BY <1>24 DEF Interrupt, Go
  <2>3. /\ at' \in [Procs -> Guarded \cup {"out", "made", "marked", "opened", "cleanup", "discard"}]
        /\ role' \in [Procs -> {"none", "run", "answer", "cancel", "maintain"}]
    BY <1>24 DEF Interrupt, Go
  <2>4. /\ final' \in [Procs -> Terminal \cup {"none"}]
        /\ done' \in [Procs -> 0..4]
    BY <1>24 DEF Interrupt, Go
  <2>5. aborting' \in [Procs -> {"no", "yes", "keeps"}]
    BY <1>24 DEF Interrupt, Go
  <2>6. /\ users' \in 0..MaxUser /\ kills' \in 0..MaxKills /\ lateCalls' \in 0..MaxCalls
    BY <1>24 DEF Interrupt, Go
  <2>7. /\ window' \in BOOLEAN /\ aged' \in BOOLEAN /\ torn' \in BOOLEAN /\ botched' \in BOOLEAN
        /\ lockfile' \in BOOLEAN /\ marker' \in BOOLEAN /\ view' \in BOOLEAN
    BY <1>24 DEF Interrupt, Go
  <2> QED BY <2>1, <2>2, <2>3, <2>4, <2>5, <2>6, <2>7
<1>25. CASE Cleanup(p)
  <2>1. /\ dir' \in {"unborn", "there", "gone"} /\ holder' \in Procs \cup {None}
        /\ rec' \in Open \cup Terminal \cup {"none"}
    BY <1>25 DEF Cleanup, Exit, Go
  <2>2. /\ shown' \in [Written -> Terminal \cup {"none"}]
        /\ calls' \in 0..MaxCalls /\ rounds' \in 0..MaxRounds
    BY <1>25 DEF Cleanup, Exit, Go
  <2>3. /\ at' \in [Procs -> Guarded \cup {"out", "made", "marked", "opened", "cleanup", "discard"}]
        /\ role' \in [Procs -> {"none", "run", "answer", "cancel", "maintain"}]
    BY <1>25 DEF Cleanup, Exit, Go
  <2>4. /\ final' \in [Procs -> Terminal \cup {"none"}]
        /\ done' \in [Procs -> 0..4]
    BY <1>25 DEF Cleanup, Exit, Go
  <2>5. aborting' \in [Procs -> {"no", "yes", "keeps"}]
    BY <1>25 DEF Cleanup, Exit, Go
  <2>6. /\ users' \in 0..MaxUser /\ kills' \in 0..MaxKills /\ lateCalls' \in 0..MaxCalls
    BY <1>25 DEF Cleanup, Exit, Go
  <2>7. /\ window' \in BOOLEAN /\ aged' \in BOOLEAN /\ torn' \in BOOLEAN /\ botched' \in BOOLEAN
        /\ lockfile' \in BOOLEAN /\ marker' \in BOOLEAN /\ view' \in BOOLEAN
    BY <1>25 DEF Cleanup, Exit, Go
  <2> QED BY <2>1, <2>2, <2>3, <2>4, <2>5, <2>6, <2>7
<1>26. CASE DiscardSome(p)
  <2>1. /\ dir' \in {"unborn", "there", "gone"} /\ holder' \in Procs \cup {None}
        /\ rec' \in Open \cup Terminal \cup {"none"}
    BY <1>26 DEF DiscardSome
  <2>2. /\ shown' \in [Written -> Terminal \cup {"none"}]
        /\ calls' \in 0..MaxCalls /\ rounds' \in 0..MaxRounds
    BY <1>26 DEF DiscardSome
  <2>3. /\ at' \in [Procs -> Guarded \cup {"out", "made", "marked", "opened", "cleanup", "discard"}]
        /\ role' \in [Procs -> {"none", "run", "answer", "cancel", "maintain"}]
    BY <1>26 DEF DiscardSome
  <2>4. /\ final' \in [Procs -> Terminal \cup {"none"}]
        /\ done' \in [Procs -> 0..4]
    BY <1>26 DEF DiscardSome
  <2>5. aborting' \in [Procs -> {"no", "yes", "keeps"}]
    BY <1>26 DEF DiscardSome
  <2>6. /\ users' \in 0..MaxUser /\ kills' \in 0..MaxKills /\ lateCalls' \in 0..MaxCalls
    BY <1>26 DEF DiscardSome
  <2>7. /\ window' \in BOOLEAN /\ aged' \in BOOLEAN /\ torn' \in BOOLEAN /\ botched' \in BOOLEAN
        /\ lockfile' \in BOOLEAN /\ marker' \in BOOLEAN /\ view' \in BOOLEAN
    BY <1>26 DEF DiscardSome
  <2> QED BY <2>1, <2>2, <2>3, <2>4, <2>5, <2>6, <2>7
<1>27. CASE DiscardRest(p)
  <2>1. /\ dir' \in {"unborn", "there", "gone"} /\ holder' \in Procs \cup {None}
        /\ rec' \in Open \cup Terminal \cup {"none"}
    BY <1>27 DEF DiscardRest, Exit, Go
  <2>2. /\ shown' \in [Written -> Terminal \cup {"none"}]
        /\ calls' \in 0..MaxCalls /\ rounds' \in 0..MaxRounds
    BY <1>27 DEF DiscardRest, Exit, Go
  <2>3. /\ at' \in [Procs -> Guarded \cup {"out", "made", "marked", "opened", "cleanup", "discard"}]
        /\ role' \in [Procs -> {"none", "run", "answer", "cancel", "maintain"}]
    BY <1>27 DEF DiscardRest, Exit, Go
  <2>4. /\ final' \in [Procs -> Terminal \cup {"none"}]
        /\ done' \in [Procs -> 0..4]
    BY <1>27 DEF DiscardRest, Exit, Go
  <2>5. aborting' \in [Procs -> {"no", "yes", "keeps"}]
    BY <1>27 DEF DiscardRest, Exit, Go
  <2>6. /\ users' \in 0..MaxUser /\ kills' \in 0..MaxKills /\ lateCalls' \in 0..MaxCalls
    BY <1>27 DEF DiscardRest, Exit, Go
  <2>7. /\ window' \in BOOLEAN /\ aged' \in BOOLEAN /\ torn' \in BOOLEAN /\ botched' \in BOOLEAN
        /\ lockfile' \in BOOLEAN /\ marker' \in BOOLEAN /\ view' \in BOOLEAN
    BY <1>27 DEF DiscardRest, Exit, Go
  <2> QED BY <2>1, <2>2, <2>3, <2>4, <2>5, <2>6, <2>7
<1>28. CASE Kill(p)
  BY <1>28 DEF Kill, Exit, Go
<1> QED BY <1>1, <1>2, <1>3, <1>4, <1>5, <1>6, <1>7, <1>8, <1>9, <1>10, <1>11, <1>12, <1>13,
       <1>14, <1>15, <1>16, <1>17, <1>18, <1>19, <1>20, <1>21, <1>22, <1>23, <1>24, <1>25, <1>26,
       <1>27, <1>28 DEF Acts

\* A process that does not hold the lock takes it only when nobody does, and
\* gives it up only when it ends.
LEMMA OwnerStep ==
    ASSUME NEW p \in Procs, TypeOK, OneOwner, Stages, Acts(p)
    PROVE  OneOwner'
<1> USE ProcsAssumption, BoundsAssumption DEF TypeOK, OneOwner, Holding, Guarded, job, time,
    local, bound, past
<1>1. CASE MakeRoot(p)
  BY <1>1 DEF MakeRoot, Step, Go
<1>2. CASE MakeLock(p)
  BY <1>2 DEF MakeLock, Step, Go
<1>3. CASE Mark(p)
  BY <1>3 DEF Mark, Step, Go
<1>4. ASSUME NEW as \in {"cancel", "answer", "maintain"}, OpenLock(p, as) PROVE OneOwner'
  <2> USE <1>4 DEF OpenLock, Step, Go
  <2>1. CASE as = "cancel"
    BY <2>1
  <2>2. CASE as = "answer"
    BY <2>2
  <2>3. CASE as = "maintain"
    BY <2>3
  <2> QED BY <2>1, <2>2, <2>3
<1>5. CASE OpenFails(p)
  BY <1>5 DEF OpenFails, Exit, Go
<1>6. CASE LockFails(p)
  BY <1>6 DEF LockFails, Exit, Go
<1>7. CASE RunOwns(p)
  BY <1>7 DEF RunOwns, Own, Exit, Go
<1>8. CASE AnswerOwns(p)
  BY <1>8 DEF AnswerOwns, Own, Exit, Go
<1>9. CASE CancelOwns(p)
  BY <1>9 DEF CancelOwns, Own, Exit, Go, Finish
<1>10. CASE MaintainOwns(p)
  BY <1>10 DEF MaintainOwns, Own, Exit, Go
<1>11. CASE Capture(p)
  BY <1>11 DEF Capture, Step, Go
<1>12. CASE Prepared(p)
  BY <1>12 DEF Prepared, Step, Go
<1>13. CASE EndsEarly(p)
  BY <1>13 DEF EndsEarly, Finish, Go
<1>14. CASE Analyze(p)
  BY <1>14 DEF Analyze, Step, Go
<1>15. CASE RejectAnswers(p)
  BY <1>15 DEF RejectAnswers, Step, Go
<1>16. CASE Check(p)
  BY <1>16 DEF Check, Finish, Go
<1>17. CASE Invoke(p)
  BY <1>17 DEF Invoke, Step, Go
<1>18. CASE CallEnds(p)
  BY <1>18 DEF CallEnds, Finish, Go
<1>19. CASE UseReply(p)
  BY <1>19 DEF UseReply, Finish, Go
<1>20. CASE Ask(p)
  BY <1>20 DEF Ask, Step, Go
<1>21. CASE Leave(p)
  BY <1>21 DEF Leave, Exit, Go
<1>22. CASE Record(p)
  BY <1>22 DEF Record, Step, Go
<1>23. CASE Write(p)
  BY <1>23 DEF Write, Go
<1>24. CASE Interrupt(p)
  BY <1>24 DEF Interrupt, Go
<1>25. CASE Cleanup(p)
  BY <1>25 DEF Cleanup, Exit, Go
<1>26. CASE DiscardSome(p)
  BY <1>26 DEF DiscardSome
<1>27. CASE DiscardRest(p)
  BY <1>27 DEF DiscardRest, Exit, Go
<1>28. CASE Kill(p)
  BY <1>28 DEF Kill, Exit, Go
<1> QED BY <1>1, <1>2, <1>3, <1>4, <1>5, <1>6, <1>7, <1>8, <1>9, <1>10, <1>11, <1>12, <1>13,
       <1>14, <1>15, <1>16, <1>17, <1>18, <1>19, <1>20, <1>21, <1>22, <1>23, <1>24, <1>25, <1>26,
       <1>27, <1>28 DEF Acts

\* Creation comes first and once, and a removed job is not owned again.
LEMMA LifetimeStep ==
    ASSUME NEW p \in Procs, TypeOK, OneOwner, Lifetime, Stages, Acts(p)
    PROVE  Lifetime'
<1> USE ProcsAssumption, BoundsAssumption DEF TypeOK, OneOwner, Lifetime, Stages, Clear, Holding,
    Guarded, Open, Terminal, job, time, local, bound, past
<1>1. CASE MakeRoot(p)
  BY <1>1 DEF MakeRoot, Step, Go
<1>2. CASE MakeLock(p)
  BY <1>2 DEF MakeLock, Step, Go
<1>3. CASE Mark(p)
  BY <1>3 DEF Mark, Step, Go
<1>4. ASSUME NEW as \in {"cancel", "answer", "maintain"}, OpenLock(p, as) PROVE Lifetime'
  <2> USE <1>4 DEF OpenLock, Step, Go
  <2>1. CASE as = "cancel"
    BY <2>1
  <2>2. CASE as = "answer"
    BY <2>2
  <2>3. CASE as = "maintain"
    BY <2>3
  <2> QED BY <2>1, <2>2, <2>3
<1>5. CASE OpenFails(p)
  BY <1>5 DEF OpenFails, Exit, Go
<1>6. CASE LockFails(p)
  BY <1>6 DEF LockFails, Exit, Go
<1>7. CASE RunOwns(p)
  BY <1>7 DEF RunOwns, Own, Exit, Go
<1>8. CASE AnswerOwns(p)
  BY <1>8 DEF AnswerOwns, Own, Exit, Go
<1>9. CASE CancelOwns(p)
  BY <1>9 DEF CancelOwns, Own, Exit, Go, Finish
<1>10. CASE MaintainOwns(p)
  BY <1>10 DEF MaintainOwns, Own, Exit, Go
<1>11. CASE Capture(p)
  BY <1>11 DEF Capture, Step, Go
<1>12. CASE Prepared(p)
  BY <1>12 DEF Prepared, Step, Go
<1>13. CASE EndsEarly(p)
  BY <1>13 DEF EndsEarly, Finish, Go
<1>14. CASE Analyze(p)
  BY <1>14 DEF Analyze, Step, Go
<1>15. CASE RejectAnswers(p)
  BY <1>15 DEF RejectAnswers, Step, Go
<1>16. CASE Check(p)
  BY <1>16 DEF Check, Finish, Go
<1>17. CASE Invoke(p)
  BY <1>17 DEF Invoke, Step, Go
<1>18. CASE CallEnds(p)
  BY <1>18 DEF CallEnds, Finish, Go
<1>19. CASE UseReply(p)
  BY <1>19 DEF UseReply, Finish, Go
<1>20. CASE Ask(p)
  BY <1>20 DEF Ask, Step, Go
<1>21. CASE Leave(p)
  BY <1>21 DEF Leave, Exit, Go
<1>22. CASE Record(p)
  BY <1>22 DEF Record, Step, Go
<1>23. CASE Write(p)
  BY <1>23 DEF Write, Go
<1>24. CASE Interrupt(p)
  BY <1>24 DEF Interrupt, Go
<1>25. CASE Cleanup(p)
  BY <1>25 DEF Cleanup, Exit, Go
<1>26. CASE DiscardSome(p)
  BY <1>26 DEF DiscardSome
<1>27. CASE DiscardRest(p)
  BY <1>27 DEF DiscardRest, Exit, Go
<1>28. CASE Kill(p)
  BY <1>28 DEF Kill, Exit, Go
<1> QED BY <1>1, <1>2, <1>3, <1>4, <1>5, <1>6, <1>7, <1>8, <1>9, <1>10, <1>11, <1>12, <1>13,
       <1>14, <1>15, <1>16, <1>17, <1>18, <1>19, <1>20, <1>21, <1>22, <1>23, <1>24, <1>25, <1>26,
       <1>27, <1>28 DEF Acts

\* Only the owner moves the state, so what it has seen of it stays true.
LEMMA StagesStep ==
    ASSUME NEW p \in Procs, TypeOK, OneOwner, Lifetime, Stages, OutcomeStands, Acts(p)
    PROVE  Stages'
<1> USE ProcsAssumption, BoundsAssumption DEF TypeOK, OneOwner, Lifetime, Stages, OutcomeStands,
    Clear, Holding, Guarded, Open, Terminal, Written, job, time, local, bound, past
<1>1. CASE MakeRoot(p)
  BY <1>1 DEF MakeRoot, Step, Go
<1>2. CASE MakeLock(p)
  BY <1>2 DEF MakeLock, Step, Go
<1>3. CASE Mark(p)
  BY <1>3 DEF Mark, Step, Go
<1>4. ASSUME NEW as \in {"cancel", "answer", "maintain"}, OpenLock(p, as) PROVE Stages'
  <2> USE <1>4 DEF OpenLock, Step, Go
  <2>1. CASE as = "cancel"
    BY <2>1
  <2>2. CASE as = "answer"
    BY <2>2
  <2>3. CASE as = "maintain"
    BY <2>3
  <2> QED BY <2>1, <2>2, <2>3
<1>5. CASE OpenFails(p)
  BY <1>5 DEF OpenFails, Exit, Go
<1>6. CASE LockFails(p)
  BY <1>6 DEF LockFails, Exit, Go
<1>7. CASE RunOwns(p)
  BY <1>7 DEF RunOwns, Own, Exit, Go
<1>8. CASE AnswerOwns(p)
  BY <1>8 DEF AnswerOwns, Own, Exit, Go
<1>9. CASE CancelOwns(p)
  BY <1>9 DEF CancelOwns, Own, Exit, Go, Finish
<1>10. CASE MaintainOwns(p)
  BY <1>10 DEF MaintainOwns, Own, Exit, Go
<1>11. CASE Capture(p)
  BY <1>11 DEF Capture, Step, Go
<1>12. CASE Prepared(p)
  BY <1>12 DEF Prepared, Step, Go
<1>13. CASE EndsEarly(p)
  BY <1>13 DEF EndsEarly, Finish, Go
<1>14. CASE Analyze(p)
  BY <1>14 DEF Analyze, Step, Go
<1>15. CASE RejectAnswers(p)
  BY <1>15 DEF RejectAnswers, Step, Go
<1>16. CASE Check(p)
  BY <1>16 DEF Check, Finish, Go
<1>17. CASE Invoke(p)
  BY <1>17 DEF Invoke, Step, Go
<1>18. CASE CallEnds(p)
  BY <1>18 DEF CallEnds, Finish, Go
<1>19. CASE UseReply(p)
  BY <1>19 DEF UseReply, Finish, Go
<1>20. CASE Ask(p)
  BY <1>20 DEF Ask, Step, Go
<1>21. CASE Leave(p)
  BY <1>21 DEF Leave, Exit, Go
<1>22. CASE Record(p)
  BY <1>22 DEF Record, Step, Go
<1>23. CASE Write(p)
  BY <1>23 DEF Write, Go
<1>24. CASE Interrupt(p)
  BY <1>24 DEF Interrupt, Go
<1>25. CASE Cleanup(p)
  BY <1>25 DEF Cleanup, Exit, Go
<1>26. CASE DiscardSome(p)
  BY <1>26 DEF DiscardSome
<1>27. CASE DiscardRest(p)
  BY <1>27 DEF DiscardRest, Exit, Go
<1>28. CASE Kill(p)
  BY <1>28 DEF Kill, Exit, Go
<1> QED BY <1>1, <1>2, <1>3, <1>4, <1>5, <1>6, <1>7, <1>8, <1>9, <1>10, <1>11, <1>12, <1>13,
       <1>14, <1>15, <1>16, <1>17, <1>18, <1>19, <1>20, <1>21, <1>22, <1>23, <1>24, <1>25, <1>26,
       <1>27, <1>28 DEF Acts

\* Files are written only by the owner that recorded the outcome, and a job that
\* is open has none yet.
LEMMA OutcomeStep ==
    ASSUME NEW p \in Procs, TypeOK, OneOwner, Lifetime, Stages, OutcomeStands, Acts(p)
    PROVE  OutcomeStands'
<1>1. \/ UNCHANGED <<rec, shown>>
      \/ MaintainOwns(p) \/ Prepared(p) \/ Analyze(p) \/ Ask(p) \/ Record(p)
      \/ Write(p) \/ DiscardSome(p) \/ DiscardRest(p)
  BY DEF Acts, MakeRoot, MakeLock, Mark, OpenLock, OpenFails, LockFails, RunOwns, AnswerOwns,
         CancelOwns, Capture, EndsEarly, RejectAnswers, Check, Invoke, CallEnds, UseReply, Leave,
         Interrupt, Cleanup, Kill, job
<1>2. CASE UNCHANGED <<rec, shown>>
  BY <1>2 DEF OutcomeStands
<1> USE ProcsAssumption, BoundsAssumption DEF TypeOK, OneOwner, Lifetime, Stages, OutcomeStands,
    Clear, Holding, Guarded, Open, Terminal, Written, job, time, local, bound, past
<1>3. CASE MaintainOwns(p)
  BY <1>3 DEF MaintainOwns, Own, Exit, Go
<1>4. CASE Prepared(p)
  BY <1>4 DEF Prepared, Step, Go
<1>5. CASE Analyze(p)
  BY <1>5 DEF Analyze, Step, Go
<1>6. CASE Ask(p)
  BY <1>6 DEF Ask, Step, Go
<1>7. CASE Record(p)
  BY <1>7 DEF Record, Step, Go
<1>8. CASE Write(p)
  BY <1>8 DEF Write, Go
<1>9. CASE DiscardSome(p)
  BY <1>9 DEF DiscardSome
<1>10. CASE DiscardRest(p)
  BY <1>10 DEF DiscardRest, Exit, Go
<1> QED BY <1>1, <1>2, <1>3, <1>4, <1>5, <1>6, <1>7, <1>8, <1>9, <1>10

\* A call begins past the marker only after a check before it.
LEMMA LateStep ==
    ASSUME NEW p \in Procs, TypeOK, OneOwner, Lifetime, Stages, Late, Acts(p)
    PROVE  Late'
<1> USE ProcsAssumption, BoundsAssumption DEF TypeOK, OneOwner, Lifetime, Stages, Late, Holding,
    Guarded, Open, Terminal, job, time, local, bound, past
<1>1. CASE MakeRoot(p)
  BY <1>1 DEF MakeRoot, Step, Go
<1>2. CASE MakeLock(p)
  BY <1>2 DEF MakeLock, Step, Go
<1>3. CASE Mark(p)
  BY <1>3 DEF Mark, Step, Go
<1>4. ASSUME NEW as \in {"cancel", "answer", "maintain"}, OpenLock(p, as) PROVE Late'
  <2> USE <1>4 DEF OpenLock, Step, Go
  <2>1. CASE as = "cancel"
    BY <2>1
  <2>2. CASE as = "answer"
    BY <2>2
  <2>3. CASE as = "maintain"
    BY <2>3
  <2> QED BY <2>1, <2>2, <2>3
<1>5. CASE OpenFails(p)
  BY <1>5 DEF OpenFails, Exit, Go
<1>6. CASE LockFails(p)
  BY <1>6 DEF LockFails, Exit, Go
<1>7. CASE RunOwns(p)
  BY <1>7 DEF RunOwns, Own, Exit, Go
<1>8. CASE AnswerOwns(p)
  BY <1>8 DEF AnswerOwns, Own, Exit, Go
<1>9. CASE CancelOwns(p)
  BY <1>9 DEF CancelOwns, Own, Exit, Go, Finish
<1>10. CASE MaintainOwns(p)
  BY <1>10 DEF MaintainOwns, Own, Exit, Go
<1>11. CASE Capture(p)
  BY <1>11 DEF Capture, Step, Go
<1>12. CASE Prepared(p)
  BY <1>12 DEF Prepared, Step, Go
<1>13. CASE EndsEarly(p)
  BY <1>13 DEF EndsEarly, Finish, Go
<1>14. CASE Analyze(p)
  BY <1>14 DEF Analyze, Step, Go
<1>15. CASE RejectAnswers(p)
  BY <1>15 DEF RejectAnswers, Step, Go
<1>16. CASE Check(p)
  BY <1>16 DEF Check, Finish, Go
<1>17. CASE Invoke(p)
  BY <1>17 DEF Invoke, Step, Go
<1>18. CASE CallEnds(p)
  BY <1>18 DEF CallEnds, Finish, Go
<1>19. CASE UseReply(p)
  BY <1>19 DEF UseReply, Finish, Go
<1>20. CASE Ask(p)
  BY <1>20 DEF Ask, Step, Go
<1>21. CASE Leave(p)
  BY <1>21 DEF Leave, Exit, Go
<1>22. CASE Record(p)
  BY <1>22 DEF Record, Step, Go
<1>23. CASE Write(p)
  BY <1>23 DEF Write, Go
<1>24. CASE Interrupt(p)
  BY <1>24 DEF Interrupt, Go
<1>25. CASE Cleanup(p)
  BY <1>25 DEF Cleanup, Exit, Go
<1>26. CASE DiscardSome(p)
  BY <1>26 DEF DiscardSome
<1>27. CASE DiscardRest(p)
  BY <1>27 DEF DiscardRest, Exit, Go
<1>28. CASE Kill(p)
  BY <1>28 DEF Kill, Exit, Go
<1> QED BY <1>1, <1>2, <1>3, <1>4, <1>5, <1>6, <1>7, <1>8, <1>9, <1>10, <1>11, <1>12, <1>13,
       <1>14, <1>15, <1>16, <1>17, <1>18, <1>19, <1>20, <1>21, <1>22, <1>23, <1>24, <1>25, <1>26,
       <1>27, <1>28 DEF Acts

\* An owner leaves an open job only with a checkpoint it keeps, unless it is
\* killed or interrupted twice.
LEMMA KeptStep ==
    ASSUME NEW p \in Procs, TypeOK, OneOwner, Lifetime, Stages, Kept, Acts(p)
    PROVE  Kept'
<1> USE ProcsAssumption, BoundsAssumption DEF TypeOK, OneOwner, Lifetime, Stages, Kept,
    EveryExitCloses, Holding, Guarded, Open, Terminal, job, time, local, bound, past
<1>1. CASE MakeRoot(p)
  BY <1>1 DEF MakeRoot, Step, Go
<1>2. CASE MakeLock(p)
  BY <1>2 DEF MakeLock, Step, Go
<1>3. CASE Mark(p)
  BY <1>3 DEF Mark, Step, Go
<1>4. ASSUME NEW as \in {"cancel", "answer", "maintain"}, OpenLock(p, as) PROVE Kept'
  <2> USE <1>4 DEF OpenLock, Step, Go
  <2>1. CASE as = "cancel"
    BY <2>1
  <2>2. CASE as = "answer"
    BY <2>2
  <2>3. CASE as = "maintain"
    BY <2>3
  <2> QED BY <2>1, <2>2, <2>3
<1>5. CASE OpenFails(p)
  BY <1>5 DEF OpenFails, Exit, Go
<1>6. CASE LockFails(p)
  BY <1>6 DEF LockFails, Exit, Go
<1>7. CASE RunOwns(p)
  BY <1>7 DEF RunOwns, Own, Exit, Go
<1>8. CASE AnswerOwns(p)
  BY <1>8 DEF AnswerOwns, Own, Exit, Go
<1>9. CASE CancelOwns(p)
  BY <1>9 DEF CancelOwns, Own, Exit, Go, Finish
<1>10. CASE MaintainOwns(p)
  BY <1>10 DEF MaintainOwns, Own, Exit, Go
<1>11. CASE Capture(p)
  BY <1>11 DEF Capture, Step, Go
<1>12. CASE Prepared(p)
  BY <1>12 DEF Prepared, Step, Go
<1>13. CASE EndsEarly(p)
  BY <1>13 DEF EndsEarly, Finish, Go
<1>14. CASE Analyze(p)
  BY <1>14 DEF Analyze, Step, Go
<1>15. CASE RejectAnswers(p)
  BY <1>15 DEF RejectAnswers, Step, Go
<1>16. CASE Check(p)
  BY <1>16 DEF Check, Finish, Go
<1>17. CASE Invoke(p)
  BY <1>17 DEF Invoke, Step, Go
<1>18. CASE CallEnds(p)
  BY <1>18 DEF CallEnds, Finish, Go
<1>19. CASE UseReply(p)
  BY <1>19 DEF UseReply, Finish, Go
<1>20. CASE Ask(p)
  BY <1>20 DEF Ask, Step, Go
<1>21. CASE Leave(p)
  BY <1>21 DEF Leave, Exit, Go
<1>22. CASE Record(p)
  BY <1>22 DEF Record, Step, Go
<1>23. CASE Write(p)
  BY <1>23 DEF Write, Go
<1>24. CASE Interrupt(p)
  BY <1>24 DEF Interrupt, Go
<1>25. CASE Cleanup(p)
  BY <1>25 DEF Cleanup, Exit, Go
<1>26. CASE DiscardSome(p)
  BY <1>26 DEF DiscardSome
<1>27. CASE DiscardRest(p)
  BY <1>27 DEF DiscardRest, Exit, Go
<1>28. CASE Kill(p)
  BY <1>28 DEF Kill, Exit, Go
<1> QED BY <1>1, <1>2, <1>3, <1>4, <1>5, <1>6, <1>7, <1>8, <1>9, <1>10, <1>11, <1>12, <1>13,
       <1>14, <1>15, <1>16, <1>17, <1>18, <1>19, <1>20, <1>21, <1>22, <1>23, <1>24, <1>25, <1>26,
       <1>27, <1>28 DEF Acts

-----------------------------------------------------------------------------
\* The strengthened invariant holds before the job exists.
LEMMA InitInv == Init => IInv
<1> SUFFICES ASSUME Init PROVE IInv
  OBVIOUS
<1> USE ProcsAssumption, BoundsAssumption DEF Init
<1>1. TypeOK
  <2>1. /\ at \in [Procs -> Guarded \cup {"out", "made", "marked", "opened", "cleanup", "discard"}]
        /\ role \in [Procs -> {"none", "run", "answer", "cancel", "maintain"}]
    BY DEF Guarded
  <2>2. /\ final \in [Procs -> Terminal \cup {"none"}] /\ done \in [Procs -> 0..4]
        /\ shown \in [Written -> Terminal \cup {"none"}]
    BY DEF Terminal
  <2>3. aborting \in [Procs -> {"no", "yes", "keeps"}]
    BY Zenon
  <2>4. /\ users \in 0..MaxUser /\ kills \in 0..MaxKills /\ lateCalls \in 0..MaxCalls
        /\ calls \in 0..MaxCalls /\ rounds \in 0..MaxRounds
    OBVIOUS
  <2>5. /\ dir \in {"unborn", "there", "gone"} /\ holder \in Procs \cup {None}
        /\ rec \in Open \cup Terminal \cup {"none"}
    OBVIOUS
  <2>6. /\ lockfile \in BOOLEAN /\ marker \in BOOLEAN /\ view \in BOOLEAN
        /\ window \in BOOLEAN /\ aged \in BOOLEAN /\ torn \in BOOLEAN /\ botched \in BOOLEAN
    BY Zenon
  <2> QED BY <2>1, <2>2, <2>3, <2>4, <2>5, <2>6 DEF TypeOK
<1>2. OneOwner /\ Lifetime
  BY DEF OneOwner, Lifetime, Clear, Holding, Guarded
<1>3. Stages /\ Late
  BY DEF Stages, Late
<1>4. OutcomeStands /\ Kept
  BY DEF OutcomeStands, Kept, EveryExitCloses, Written
<1> QED BY <1>1, <1>2, <1>3, <1>4 DEF IInv

\* The clocks, and a stutter, change nothing the invariant speaks of but the two
\* flags of time.
LEMMA ClockKeeps ==
    IInv /\ (AnswerHoursPass \/ ResultDaysPass \/ UNCHANGED vars) => IInv'
<1> SUFFICES ASSUME IInv, AnswerHoursPass \/ ResultDaysPass \/ UNCHANGED vars PROVE IInv'
  OBVIOUS
<1>1. /\ UNCHANGED <<job, holder, at, local, bound, past>>
      /\ window' \in BOOLEAN /\ aged' \in BOOLEAN
  BY DEF IInv, TypeOK, AnswerHoursPass, ResultDaysPass, vars, time
<1> USE <1>1 DEF IInv, job, local, bound, past
<1>2. TypeOK'
  BY DEF TypeOK
<1>3. OneOwner' /\ Lifetime' /\ Stages'
  BY DEF OneOwner, Lifetime, Stages, Clear
<1>4. OutcomeStands' /\ Late' /\ Kept'
  BY DEF OutcomeStands, Late, Kept, EveryExitCloses
<1> QED BY <1>2, <1>3, <1>4

\* Every step, and a stutter, keeps the strengthened invariant.
LEMMA InductiveStep == IInv /\ [Next]_vars => IInv'
<1> SUFFICES ASSUME IInv, [Next]_vars PROVE IInv'
  OBVIOUS
<1>1. ASSUME NEW p \in Procs, Acts(p) PROVE IInv'
  <2>1. TypeOK' /\ OneOwner'
    BY <1>1, TypeStep, OwnerStep DEF IInv
  <2>2. Lifetime' /\ Stages'
    BY <1>1, LifetimeStep, StagesStep DEF IInv
  <2>3. OutcomeStands' /\ Late' /\ Kept'
    BY <1>1, OutcomeStep, LateStep, KeptStep DEF IInv
  <2> QED BY <2>1, <2>2, <2>3 DEF IInv
<1>2. CASE AnswerHoursPass \/ ResultDaysPass \/ UNCHANGED vars
  BY <1>2, ClockKeeps
<1>3. ASSUME Next PROVE (\E p \in Procs : Acts(p)) \/ AnswerHoursPass \/ ResultDaysPass
  BY <1>3 DEF Next, Proceed, Acts
<1> QED BY <1>1, <1>2, <1>3

\* The strengthened invariant holds in every reachable state.
THEOREM Invariance == Spec => []IInv
BY InitInv, InductiveStep, PTL DEF Spec

\* Every variable keeps its type: no job makes more calls or asks more rounds of
\* questions than its limits, however often it is resumed (_analyze, answer).
THEOREM TypeCorrect == Spec => []TypeOK
<1>1. IInv => TypeOK
  BY DEF IInv
<1> QED BY <1>1, Invariance, PTL

\* Whatever a job shows is the outcome its state records, for any number of
\* owners, cancellations and kills (_Run.finish, transition, recover_stale).
THEOREM OneOutcome == Spec => []OutcomeStands
<1>1. IInv => OutcomeStands
  BY DEF IInv
<1> QED BY <1>1, Invariance, PTL

\* Every exit an owner controls leaves a closed job or a question checkpoint
\* (_guarded, _Run.abort, recover_stale).
THEOREM ExitsClose == Spec => []EveryExitCloses
<1>1. IInv => EveryExitCloses
  BY DEF IInv, Kept
<1> QED BY <1>1, Invariance, PTL

\* A cancellation is followed by at most one more call of the model, whatever
\* the number of passes (the head of the loop of _analyze, request_cancel).
THEOREM CancelBound == Spec => []CancelHeeded
<1>1. IInv => CancelHeeded
  BY DEF IInv, Late, CancelHeeded
<1> QED BY <1>1, Invariance, PTL
=============================================================================
