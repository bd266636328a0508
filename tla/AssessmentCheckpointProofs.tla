---------------------- MODULE AssessmentCheckpointProofs ----------------------
(***************************************************************************)
(* Proofs about the saved accounting of a session, for any number of       *)
(* component threads and any amounts.                                      *)
(***************************************************************************)
EXTENDS AssessmentCheckpoint, FiniteSetTheorems, TLAPS

Inside == {"calls", "spent", "unsettled", "failed", "save", "refresh"}
Saving == Inside \cup {"own"}

\* A call, or a reused receipt, that is charged and not yet issued.
Pending == {w \in Workers : \/ pc[w] \in {"factory", "start", "charged", "adopt"}
                            \/ back[w] \in {"start", "adopt"}}

\* The pending ones the saved state already counts.
Saved == {w \in Workers : \/ pc[w] \in {"start", "adopt"}
                          \/ pc[w] = "refresh" /\ back[w] \in {"start", "adopt"}}

\* What the checkpoint of a thread is to cover besides the saved ones.
Bringing(t) == IF back[t] \in {"start", "adopt"} THEN {t} ELSE {}

\* Calls whose cost is open.
Running == {w \in Workers : pc[w] \in {"factory", "start", "call"} \/ back[w] = "start"}

\* Only the owner of the checkpoint lock is inside a checkpoint.
OneInside == \A t \in Threads : pc[t] \in Inside => checkpointLock = t

\* Where a thread continues is set during its checkpoint.
Returns ==
    \A t \in Threads :
        /\ pc[t] \in Saving =>
             back[t] \in (IF t = Beat THEN {"wait"} ELSE IF t = Main THEN {"stop"}
                          ELSE {"checked", "start", "idle", "adopt"})
        /\ back[t] \in {"start", "adopt"} => t \in Workers /\ pc[t] \in Saving

RunningCounted == inflight = Cardinality(Running) /\ Ceiling * inflight <= spent

\* Every charge is issued or pending.
Charged == issued + Cardinality(Pending) <= calls

\* The state on disk, and what a checkpoint is about to write, count every
\* issued call and every pending one whose thread has been told it is saved.
DiskCounts == issued + Cardinality(Saved) <= disk.calls
ReadCounts ==
    \A t \in Threads :
        /\ pc[t] \in {"spent", "unsettled", "failed"} =>
              issued + Cardinality(Saved \cup Bringing(t)) <= read[t].calls
        /\ pc[t] = "save" =>
              issued + Cardinality(Saved \cup Bringing(t)) <= accounting.calls

\* The main thread leaves "run" only when the pool has joined.
PoolJoined ==
    /\ pc[Main] \in {"run", "own", "stop", "release", "drop", "ended"} \cup Inside
    /\ (pc[Main] = "run") <=> (status = "running")
    /\ pc[Main] # "run" => \A w \in Workers : pc[w] = "idle"

\* From the final checkpoint on, every checkpoint reads the final accounting.
Final == pc[Main] \in Inside \cup {"stop", "release", "drop", "ended"}
FinalReads ==
    Final => \A t \in Threads :
        /\ pc[t] \in {"spent", "unsettled", "failed"} => read[t].calls = calls
        /\ pc[t] \in {"unsettled", "failed"} => read[t].usd = spent
        /\ pc[t] = "failed" => read[t].unavailable = unsettled
        /\ pc[t] = "save" =>
              accounting = [calls |-> calls, usd |-> spent, unavailable |-> Failed]
FinalSaved ==
    pc[Main] = "refresh" =>
        disk = [calls |-> calls, usd |-> spent, unavailable |-> Failed, status |-> "ended"]

\* Amounts of the workers are added by counting their units.
Units(f) == {p \in Workers \X Nat : p[2] < f[p[1]]}
Total(f) == Cardinality(Units(f))

\* What each worker adds to the receipts yet to come: the cost of its job so
\* far, and the reused receipt of those in S.
Worth(S) == [w \in Workers |-> own[w].usd + (IF w \in S THEN CachedUsd ELSE 0)]

\* Workers with a charged receipt to adopt; those of them it is saved for; the
\* one a checkpoint saves it for.
Adopting   == {w \in Workers : pc[w] \in {"charged", "adopt"} \/ back[w] = "adopt"}
Adoptable  == {w \in Workers : pc[w] = "adopt" \/ (pc[w] = "refresh" /\ back[w] = "adopt")}
Reusing(t) == IF back[t] = "adopt" THEN {t} ELSE {}

\* Calls that may settle without another save.
Open == {w \in Workers : pc[w] \in {"start", "call"} \/ (pc[w] = "refresh" /\ back[w] = "start")}

\* What is or will be in the receipts is charged.
CostCharged == receipts.usd + Total(Worth(Adopting)) + Ceiling * inflight <= spent

\* A state that says all costs are known leaves no call open, and misses no more
\* than what is allowed of the receipts that may follow without another save.
DiskCosts ==
    ~disk.unavailable =>
        /\ Open = {}
        /\ receipts.usd + Total(Worth(Adoptable)) <= disk.usd + Overrun * Cardinality(Workers)

\* What a checkpoint of u is to cover of the costs.
Due(u) == receipts.usd + Total(Worth(Adoptable \cup Reusing(u)))

\* What a checkpoint read misses at most the overruns of the calls that settled
\* since, and has the reservations of those still open; what it is about to
\* write, if it says that all costs are known, has no open call.
ReadCost(u) ==
    /\ pc[u] \in {"unsettled", "failed"} =>
          Due(u) + Ceiling * Cardinality(Open)
            <= read[u].usd + Overrun * Cardinality(Workers \ Open)
    /\ pc[u] = "save" /\ ~accounting.unavailable =>
          /\ Open = {} /\ back[u] # "start"
          /\ Due(u) <= accounting.usd + Overrun * Cardinality(Workers)
ReadCosts == \A u \in Threads : ReadCost(u)

IInv ==
    /\ TypeOK
    /\ OneInside
    /\ Returns
    /\ RunningCounted
    /\ Charged
    /\ DiskCounts
    /\ ReadCounts
    /\ PoolJoined
    /\ FinalReads
    /\ FinalSaved
    /\ EndRecorded
    /\ CostCharged
    /\ DiskCosts
    /\ ReadCosts

\* A step of one thread; beginning a job is a worker's step without fairness.
Moves(t) == Step(t) \/ (t \in Workers /\ Begin(t))
-----------------------------------------------------------------------------
(***************************************************************************)
(* Lemmas on sets of workers and on amounts                                *)
(***************************************************************************)

\* A set of workers is finite and at most all of them.
LEMMA WorkerSets ==
    ASSUME NEW S \in SUBSET Workers
    PROVE  /\ IsFiniteSet(S)
           /\ Cardinality(S) \in Nat
           /\ Cardinality(S) <= Cardinality(Workers)
           /\ Cardinality(Workers) \in Nat
<1>1. IsFiniteSet(S) /\ Cardinality(S) <= Cardinality(Workers)
  BY ThreadsAssumption, FS_Subset
<1> QED BY <1>1, ThreadsAssumption, FS_CardinalityType

\* A subset of a set of workers is no larger.
LEMMA SmallerSet ==
    ASSUME NEW S \in SUBSET Workers, NEW R \in SUBSET S
    PROVE  Cardinality(R) <= Cardinality(S)
BY WorkerSets, FS_Subset

\* A worker that enters a set of workers makes it larger by one.
LEMMA WorkerEnters ==
    ASSUME NEW S \in SUBSET Workers, NEW w \in Workers, w \notin S
    PROVE  Cardinality(S \cup {w}) = Cardinality(S) + 1
BY WorkerSets, FS_AddElement

\* A worker that leaves a set of workers makes it smaller by one.
LEMMA WorkerLeaves ==
    ASSUME NEW S \in SUBSET Workers, NEW w \in S
    PROVE  Cardinality(S \ {w}) = Cardinality(S) - 1
BY WorkerSets, FS_RemoveElement

\* One reservation more or less.
LEMMA CeilingPerCall ==
    ASSUME NEW n \in Int
    PROVE  /\ Ceiling * (n + 1) = Ceiling * n + Ceiling
           /\ Ceiling * (n - 1) = Ceiling * n - Ceiling
           /\ n \in Nat => Ceiling * n \in Nat
BY AmountsAssumption
-----------------------------------------------------------------------------
(***************************************************************************)
(* Sums of amounts                                                         *)
(***************************************************************************)

Slice(w, n) == {w} \X (0..(n - 1))

\* A worker's units are as many as its amount.
LEMMA SliceSize ==
    ASSUME NEW w, NEW n \in Nat
    PROVE  IsFiniteSet(Slice(w, n)) /\ Cardinality(Slice(w, n)) = n
<1>1. IsFiniteSet({w}) /\ Cardinality({w}) = 1
  BY FS_Singleton
<1>2. IsFiniteSet(0..(n - 1)) /\ Cardinality(0..(n - 1)) = n
  BY FS_Interval
<1>3. /\ IsFiniteSet({w} \X (0..(n - 1)))
      /\ Cardinality({w} \X (0..(n - 1))) = Cardinality({w}) * Cardinality(0..(n - 1))
  BY <1>1, <1>2, FS_Product
<1> QED BY <1>1, <1>2, <1>3 DEF Slice

\* There are finitely many units.
LEMMA UnitsFinite ==
    ASSUME NEW f \in [Workers -> Nat]
    PROVE  IsFiniteSet(Units(f)) /\ Total(f) \in Nat
<1> DEFINE g == [w \in Workers |-> Slice(w, f[w])]
           T == {g[w] : w \in Workers}
<1>1. g \in Surjection(Workers, T)
  BY DEF Surjection
<1>2. IsFiniteSet(T)
  BY <1>1, ThreadsAssumption, FS_Surjection
<1>3. \A S \in T : IsFiniteSet(S)
  BY SliceSize
<1>4. IsFiniteSet(UNION T)
  <2> HIDE DEF T
  <2> QED BY <1>2, <1>3, FS_UNION
<1>5. Units(f) \in SUBSET (UNION T)
  <2> SUFFICES ASSUME NEW p \in Units(f) PROVE p \in UNION T
    OBVIOUS
  <2>1. p[1] \in Workers /\ p[2] \in Nat /\ p[2] < f[p[1]] /\ p = <<p[1], p[2]>>
    BY DEF Units
  <2>2. p \in Slice(p[1], f[p[1]])
    BY <2>1 DEF Slice
  <2> QED BY <2>1, <2>2
<1>6. IsFiniteSet(Units(f))
  BY <1>4, <1>5, FS_Subset
<1> QED BY <1>6, FS_CardinalityType DEF Total

\* When one worker's amount changes, the total changes by as much.
LEMMA OneAmount ==
    ASSUME NEW f \in [Workers -> Nat], NEW g \in [Workers -> Nat], NEW t \in Workers,
           \A w \in Workers \ {t} : g[w] = f[w]
    PROVE  Total(g) = Total(f) + g[t] - f[t]
<1> DEFINE Others == {p \in Units(f) : p[1] # t}
<1>1. ASSUME NEW h \in [Workers -> Nat], \A w \in Workers \ {t} : h[w] = f[w]
      PROVE  Total(h) = Cardinality(Others) + h[t]
  <2>1. Units(h) = Others \cup Slice(t, h[t])
    <3>1. ASSUME NEW p \in Units(h) PROVE p \in Others \cup Slice(t, h[t])
      <4>1. p \in Workers \X Nat /\ p = <<p[1], p[2]>> /\ p[2] < h[p[1]]
        BY <3>1 DEF Units
      <4>2. CASE p[1] = t
        BY <4>1, <4>2 DEF Slice
      <4>3. CASE p[1] # t
        BY <1>1, <4>1, <4>3 DEF Units
      <4> QED BY <4>2, <4>3
    <3>2. ASSUME NEW p \in Others PROVE p \in Units(h)
      BY <1>1, <3>2 DEF Units
    <3>3. ASSUME NEW p \in Slice(t, h[t]) PROVE p \in Units(h)
      <4>1. p = <<p[1], p[2]>> /\ p[1] = t /\ p[2] \in 0..(h[t] - 1)
        BY <3>3 DEF Slice
      <4>2. p[2] \in Nat /\ p[2] < h[t]
        BY <4>1
      <4> QED BY <4>1, <4>2 DEF Units
    <3> QED BY <3>1, <3>2, <3>3
  <2>2. Others \cap Slice(t, h[t]) = {}
    BY DEF Slice
  <2>3. IsFiniteSet(Others)
    BY UnitsFinite, FS_Subset
  <2>4. IsFiniteSet(Slice(t, h[t])) /\ Cardinality(Slice(t, h[t])) = h[t]
    BY SliceSize
  <2>5. Cardinality(Others) \in Nat
    BY <2>3, FS_CardinalityType
  <2> HIDE DEF Others
  <2>6. Cardinality(Others \cap Slice(t, h[t])) = 0
    BY <2>2, FS_EmptySet
  <2>7. Cardinality(Others \cup Slice(t, h[t]))
          = Cardinality(Others) + Cardinality(Slice(t, h[t]))
              - Cardinality(Others \cap Slice(t, h[t]))
    BY <2>3, <2>4, FS_Union
  <2> QED BY <2>1, <2>4, <2>5, <2>6, <2>7 DEF Total
<1>2. Total(f) = Cardinality(Others) + f[t]
  BY <1>1
<1>3. Total(g) = Cardinality(Others) + g[t]
  BY <1>1
<1>4. Cardinality(Others) \in Nat
  BY UnitsFinite, FS_Subset, FS_CardinalityType
<1> HIDE DEF Others
<1> QED BY <1>2, <1>3, <1>4

\* Nothing adds up to nothing.
LEMMA NoAmount ==
    ASSUME NEW f \in [Workers -> Nat], \A w \in Workers : f[w] = 0
    PROVE  Total(f) = 0
<1>1. Units(f) = {}
  BY DEF Units
<1> QED BY <1>1, FS_EmptySet DEF Total
-----------------------------------------------------------------------------
(***************************************************************************)
(* What one step does to the program counters and to the sets over them    *)
(***************************************************************************)

\* No thread moves another one.
LEMMA OthersStay ==
    ASSUME TypeOK, NEW t \in Threads, Moves(t), NEW u \in Threads, u # t
    PROVE  pc'[u] = pc[u] /\ back'[u] = back[u] /\ read'[u] = read[u]
<1> USE DEF TypeOK, Move, CallCheckpoint, Guarded, DropJob
<1>1. CASE Acquire(t) \/ Checkpointing(t)
  BY <1>1 DEF Acquire, Checkpointing, ReadCalls, ReadSpent, ReadUnsettled, ReadFailed, Save, Refresh
<1>2. CASE t \in Workers /\ (Begin(t) \/ WorkerStep(t))
  BY <1>2 DEF Begin, WorkerStep, Admit, PollStop, Reserve, SaveReservation, StartHost, Settle,
              LoseCost, AskAgain, WriteReceipt, SaveReceipt, ChargeCached, SaveCharge, Adopt
<1>3. CASE t = Beat /\ (BeatOrEnd \/ LostLock)
  BY <1>3 DEF BeatOrEnd, LostLock
<1>4. CASE t = Main /\ (EndRun \/ StopBeating \/ ReleaseLock \/ DropHold)
  BY <1>4 DEF EndRun, StopBeating, ReleaseLock, DropHold
<1> QED BY <1>1, <1>2, <1>3, <1>4 DEF Moves, Step

\* The steps after which the same calls are pending, saved and running.
QuietStep(t) ==
    \/ Acquire(t) \/ ReadCalls(t) \/ ReadSpent(t) \/ ReadUnsettled(t) \/ ReadFailed(t) \/ Refresh(t)
    \/ /\ t \in Workers
       /\ \/ Begin(t) \/ Admit(t) \/ PollStop(t) \/ SaveReservation(t) \/ AskAgain(t)
          \/ WriteReceipt(t) \/ SaveReceipt(t) \/ SaveCharge(t)
    \/ t = Beat /\ (BeatOrEnd \/ LostLock)
    \/ t = Main /\ (EndRun \/ StopBeating \/ ReleaseLock \/ DropHold)

\* What a thread's own counters say of its membership.
SameMembership(t) ==
    /\ (pc'[t] \in {"factory", "start", "charged", "adopt"} \/ back'[t] \in {"start", "adopt"})
         <=> (pc[t] \in {"factory", "start", "charged", "adopt"} \/ back[t] \in {"start", "adopt"})
    /\ (pc'[t] \in {"start", "adopt"} \/ (pc'[t] = "refresh" /\ back'[t] \in {"start", "adopt"}))
         <=> (pc[t] \in {"start", "adopt"} \/ (pc[t] = "refresh" /\ back[t] \in {"start", "adopt"}))
    /\ (pc'[t] \in {"factory", "start", "call"} \/ back'[t] = "start")
         <=> (pc[t] \in {"factory", "start", "call"} \/ back[t] = "start")

\* A quiet step leaves its own worker pending, saved and running as it was.
LEMMA QuietMembership ==
    ASSUME TypeOK, Returns, NEW t \in Workers, QuietStep(t)
    PROVE  SameMembership(t)
<1> USE DEF TypeOK, Threads, Returns, Saving, Inside, SameMembership, Move, CallCheckpoint,
            Guarded, DropJob
<1>1. CASE Acquire(t) \/ ReadCalls(t) \/ ReadSpent(t) \/ ReadUnsettled(t) \/ ReadFailed(t)
  BY <1>1, ThreadsAssumption DEF Acquire, ReadCalls, ReadSpent, ReadUnsettled, ReadFailed
<1>2. CASE Refresh(t)
  BY <1>2, ThreadsAssumption DEF Refresh
<1>3. CASE Begin(t) \/ Admit(t) \/ PollStop(t) \/ SaveReservation(t)
  BY <1>3, ThreadsAssumption DEF Begin, Admit, PollStop, SaveReservation
<1>4. CASE AskAgain(t) \/ WriteReceipt(t) \/ SaveReceipt(t) \/ SaveCharge(t)
  BY <1>4, ThreadsAssumption DEF AskAgain, WriteReceipt, SaveReceipt, SaveCharge
<1> QED BY <1>1, <1>2, <1>3, <1>4, ThreadsAssumption DEF QuietStep

\* A quiet step keeps the sets and the counts they are compared with.
LEMMA QuietKeeps ==
    ASSUME TypeOK, Returns, NEW t \in Threads, QuietStep(t)
    PROVE  /\ Pending' = Pending /\ Saved' = Saved /\ Running' = Running
           /\ UNCHANGED <<budget, issued, disk>>
<1>1. \A u \in Threads : u # t => pc'[u] = pc[u] /\ back'[u] = back[u]
  BY OthersStay DEF QuietStep, Moves, Step, Checkpointing, WorkerStep
<1>2. \A w \in Workers : SameMembership(w)
  BY <1>1, QuietMembership DEF SameMembership, Threads
<1>3. Pending' = Pending /\ Saved' = Saved /\ Running' = Running
  BY <1>2 DEF SameMembership, Pending, Saved, Running
<1>4. UNCHANGED <<budget, issued, disk>>
  BY DEF QuietStep, Acquire, ReadCalls, ReadSpent, ReadUnsettled, ReadFailed, Refresh, Begin, Admit, PollStop,
         SaveReservation, AskAgain, WriteReceipt, SaveReceipt, SaveCharge, BeatOrEnd, LostLock,
         EndRun, StopBeating, ReleaseLock, DropHold, files, record
<1> QED BY <1>3, <1>4

\* The six other steps move their worker into and out of the sets.
LEMMA SetsOfSave ==
    ASSUME TypeOK, Returns, NEW t \in Threads, Save(t)
    PROVE  /\ Pending' = Pending /\ Saved' = Saved \cup Bringing(t) /\ Running' = Running
           /\ UNCHANGED <<budget, issued>> /\ disk'.calls = accounting.calls
<1>1. back' = back /\ pc[t] = "save" /\ pc' = [pc EXCEPT ![t] = "refresh"]
  BY DEF Save, Move
<1>2. Pending' = Pending /\ Running' = Running
  BY <1>1 DEF Pending, Running, TypeOK, Threads
<1>3. Saved' = Saved \cup Bringing(t)
  BY <1>1 DEF Saved, Bringing, Returns, TypeOK, Threads
<1> QED BY <1>2, <1>3 DEF Save, files

\* A reservation makes its worker pending and running, not yet saved, or is
\* refused and changes nothing.
LEMMA SetsOfReserve ==
    ASSUME TypeOK, Returns, NEW w \in Workers, Reserve(w)
    PROVE  /\ Saved' = Saved
           /\ \/ Pending' = Pending /\ Running' = Running /\ UNCHANGED budget
              \/ /\ w \notin Pending /\ Pending' = Pending \cup {w}
                 /\ w \notin Running /\ Running' = Running \cup {w}
                 /\ calls' = calls + 1 /\ spent' = spent + Ceiling /\ inflight' = inflight + 1
           /\ UNCHANGED <<issued, disk>>
<1> USE DEF Reserve, Move, DropJob, Returns, Saving, Inside, TypeOK, Threads
<1>1. /\ back' = back /\ back[w] \notin {"start", "adopt"} /\ pc[w] = "checked"
      /\ \/ pc' = [pc EXCEPT ![w] = "idle"] /\ UNCHANGED budget
         \/ /\ pc' = [pc EXCEPT ![w] = "factory"]
            /\ calls' = calls + 1 /\ spent' = spent + Ceiling /\ inflight' = inflight + 1
  BY DEF budget
<1>2. Saved' = Saved
  BY <1>1 DEF Saved
<1>3. CASE pc' = [pc EXCEPT ![w] = "idle"] /\ UNCHANGED budget
  BY <1>1, <1>2, <1>3 DEF Pending, Running, files, record
<1>4. CASE /\ pc' = [pc EXCEPT ![w] = "factory"]
           /\ calls' = calls + 1 /\ spent' = spent + Ceiling /\ inflight' = inflight + 1
  BY <1>1, <1>2, <1>4 DEF Pending, Running, files, record
<1> QED BY <1>1, <1>3, <1>4

\* Starting a host or using a receipt issues one call that was pending and saved.
LEMMA SetsOfIssue ==
    ASSUME TypeOK, Returns, NEW w \in Workers, StartHost(w) \/ Adopt(w)
    PROVE  /\ w \in Pending /\ Pending' = Pending \ {w}
           /\ w \in Saved /\ Saved' = Saved \ {w}
           /\ Running' = Running
           /\ issued' = issued + 1 /\ UNCHANGED <<budget, disk>>
<1> USE DEF StartHost, Adopt, Move, Returns, Saving, Inside, TypeOK, Threads
<1>1. /\ back' = back /\ back[w] \notin {"start", "adopt"}
      /\ \/ pc[w] = "start" /\ pc' = [pc EXCEPT ![w] = "call"]
         \/ pc[w] = "adopt" /\ pc' = [pc EXCEPT ![w] = "idle"]
  OBVIOUS
<1>2. w \in Pending /\ Pending' = Pending \ {w}
  BY <1>1 DEF Pending
<1>3. w \in Saved /\ Saved' = Saved \ {w}
  BY <1>1 DEF Saved
<1>4. Running' = Running
  BY <1>1 DEF Running
<1> QED BY <1>2, <1>3, <1>4 DEF record

\* A settlement closes one running call; the other sets stay.
LEMMA SetsOfSettle ==
    ASSUME TypeOK, Returns, NEW w \in Workers, Settle(w) \/ LoseCost(w)
    PROVE  /\ Pending' = Pending /\ Saved' = Saved
           /\ w \in Running /\ Running' = Running \ {w}
           /\ inflight' = inflight - 1 /\ UNCHANGED <<calls, issued, disk>>
           /\ \/ spent' = spent
              \/ \E cost \in 0..(Ceiling + Overrun) : spent' = spent + cost - Ceiling
<1> USE DEF Settle, LoseCost, Move, DropJob, Returns, Saving, Inside, TypeOK, Threads
<1>1. /\ back' = back /\ back[w] \notin {"start", "adopt"} /\ pc[w] = "call"
      /\ \/ pc' = [pc EXCEPT ![w] = "answered"]
         \/ pc' = [pc EXCEPT ![w] = "idle"]
  OBVIOUS
<1>2. Pending' = Pending /\ Saved' = Saved
  BY <1>1 DEF Pending, Saved
<1>3. w \in Running /\ Running' = Running \ {w}
  BY <1>1 DEF Running
<1> QED BY <1>2, <1>3 DEF files, record

\* Charging a reused receipt makes its worker pending, not yet saved.
LEMMA SetsOfCharge ==
    ASSUME TypeOK, Returns, NEW w \in Workers, ChargeCached(w)
    PROVE  /\ w \notin Pending /\ Pending' = Pending \cup {w}
           /\ Saved' = Saved /\ Running' = Running
           /\ calls' = calls + 1 /\ spent' = spent + CachedUsd
           /\ UNCHANGED <<inflight, issued, disk>>
<1> USE DEF ChargeCached, Move, Returns, Saving, Inside, TypeOK, Threads
<1>1. /\ back' = back /\ back[w] \notin {"start", "adopt"} /\ pc[w] = "admit"
      /\ pc' = [pc EXCEPT ![w] = "charged"]
  OBVIOUS
<1>2. w \notin Pending /\ Pending' = Pending \cup {w}
  BY <1>1 DEF Pending
<1>3. Saved' = Saved /\ Running' = Running
  BY <1>1 DEF Saved, Running
<1> QED BY <1>2, <1>3 DEF files, record

\* Every step of a thread is quiet or one of the six.
LEMMA StepKinds ==
    ASSUME NEW t \in Threads, Moves(t)
    PROVE  \/ QuietStep(t) \/ Save(t)
           \/ t \in Workers /\ (Reserve(t) \/ StartHost(t) \/ Adopt(t) \/ Settle(t)
                                \/ LoseCost(t) \/ ChargeCached(t))
BY DEF Moves, Step, Checkpointing, WorkerStep, QuietStep

\* A thread leaves the jobs of the others alone, and what they have open.
LEMMA OthersCost ==
    ASSUME TypeOK, NEW t \in Threads, Moves(t), NEW w \in Workers, w # t
    PROVE  /\ own'[w] = own[w]
           /\ w \in Adopting' <=> w \in Adopting
           /\ w \in Adoptable' <=> w \in Adoptable
           /\ w \in Open' <=> w \in Open
<1>1. pc'[w] = pc[w] /\ back'[w] = back[w]
  BY OthersStay DEF Threads
<1>2. own'[w] = own[w]
  BY DEF Moves, Step, Checkpointing, Acquire, ReadCalls, ReadSpent, ReadUnsettled, ReadFailed, Save, Refresh,
         Begin, WorkerStep, Admit, PollStop, Reserve, SaveReservation, StartHost, Settle,
         LoseCost, AskAgain, WriteReceipt, SaveReceipt, ChargeCached, SaveCharge, Adopt,
         BeatOrEnd, LostLock, EndRun, StopBeating, ReleaseLock, DropHold, DropJob, TypeOK
<1> QED BY <1>1, <1>2 DEF Adopting, Adoptable, Open

\* A step that leaves its worker's place among these sets as it was.
SamePlace(w) ==
    /\ w \in Adopting' <=> w \in Adopting
    /\ w \in Adoptable' <=> w \in Adoptable
    /\ w \in Open' <=> w \in Open

\* A job goes on unchanged, or ends: its cost is dropped or joins the receipts.
JobStays(w) == own'[w] = own[w] /\ receipts'.usd = receipts.usd
JobEnds(w) ==
    /\ own'[w].usd = 0
    /\ receipts'.usd \in {receipts.usd, receipts.usd + own[w].usd}

\* A quiet step opens and closes nothing; it may end the worker's job.
LEMMA QuietCost ==
    ASSUME TypeOK, Returns, NEW w \in Workers, QuietStep(w)
    PROVE  SamePlace(w) /\ (JobStays(w) \/ JobEnds(w)) /\ UNCHANGED <<spent, inflight, unsettled>>
<1> USE DEF TypeOK, Threads, Returns, Saving, Inside, Move, CallCheckpoint, Guarded, DropJob,
            Free, Amounts, budget, files, SamePlace, JobStays, JobEnds, Adopting, Adoptable, Open
<1>1. CASE Acquire(w) \/ ReadCalls(w) \/ ReadSpent(w) \/ ReadUnsettled(w) \/ ReadFailed(w)
  BY <1>1, ThreadsAssumption DEF Acquire, ReadCalls, ReadSpent, ReadUnsettled, ReadFailed
<1>2. CASE Refresh(w)
  BY <1>2, ThreadsAssumption DEF Refresh
<1>3. CASE Begin(w) \/ Admit(w) \/ PollStop(w) \/ SaveReservation(w)
  BY <1>3, ThreadsAssumption DEF Begin, Admit, PollStop, SaveReservation
<1>4. CASE AskAgain(w) \/ SaveReceipt(w) \/ SaveCharge(w)
  BY <1>4, ThreadsAssumption DEF AskAgain, SaveReceipt, SaveCharge
<1>5. CASE WriteReceipt(w)
  BY <1>5, ThreadsAssumption DEF WriteReceipt
<1> QED BY <1>1, <1>2, <1>3, <1>4, <1>5, ThreadsAssumption DEF QuietStep

\* A reservation, and the start of a host, change no cost; a refused
\* reservation ends the job.
LEMMA CallCost ==
    ASSUME TypeOK, Returns, NEW w \in Workers, Reserve(w) \/ StartHost(w)
    PROVE  SamePlace(w) /\ (JobStays(w) \/ JobEnds(w))
<1> USE DEF TypeOK, Threads, Returns, Saving, Inside, Move, DropJob, Free, Amounts, files,
            SamePlace, JobStays, JobEnds, Adopting, Adoptable, Open
<1>1. CASE Reserve(w)
  BY <1>1 DEF Reserve
<1>2. CASE StartHost(w)
  BY <1>2 DEF StartHost
<1> QED BY <1>1, <1>2

\* A settled call's cost joins its job's; a call that lost its cost ends the job.
LEMMA SettleCost ==
    ASSUME TypeOK, Returns, NEW w \in Workers, Settle(w) \/ LoseCost(w)
    PROVE  /\ w \in Open /\ w \notin Open' /\ inflight' = inflight - 1
           /\ w \in Adopting' <=> w \in Adopting
           /\ w \in Adoptable' <=> w \in Adoptable
           /\ receipts'.usd = receipts.usd
           /\ \/ own'[w].usd = 0 /\ spent' = spent
              \/ \E cost \in 0..(Ceiling + Overrun) :
                    own'[w].usd = own[w].usd + cost /\ spent' = spent + cost - Ceiling
<1> USE DEF TypeOK, Threads, Returns, Saving, Inside, Move, DropJob, Free, Amounts, files,
            Adopting, Adoptable, Open
<1>1. CASE Settle(w)
  BY <1>1, AmountsAssumption DEF Settle
<1>2. CASE LoseCost(w)
  BY <1>2 DEF LoseCost
<1> QED BY <1>1, <1>2

\* Charging a cached receipt and adopting it.
LEMMA ReuseCost ==
    ASSUME TypeOK, Returns, NEW w \in Workers
    PROVE  /\ ChargeCached(w) =>
                /\ JobStays(w) /\ w \notin Adopting /\ w \in Adopting'
                /\ w \in Adoptable' <=> w \in Adoptable
                /\ w \in Open' <=> w \in Open
                /\ spent' = spent + CachedUsd /\ inflight' = inflight
           /\ Adopt(w) =>
                /\ own'[w] = own[w] /\ receipts'.usd = receipts.usd + CachedUsd
                /\ w \in Adopting /\ w \notin Adopting'
                /\ w \in Adoptable /\ w \notin Adoptable'
                /\ w \in Open' <=> w \in Open
                /\ spent' = spent /\ inflight' = inflight
<1> USE DEF TypeOK, Threads, Returns, Saving, Inside, Move, JobStays, Amounts, files, budget,
            Adopting, Adoptable, Open
<1>1. ChargeCached(w) =>
        /\ JobStays(w) /\ w \notin Adopting /\ w \in Adopting'
        /\ w \in Adoptable' <=> w \in Adoptable
        /\ w \in Open' <=> w \in Open
        /\ spent' = spent + CachedUsd /\ inflight' = inflight
  BY DEF ChargeCached
<1>2. Adopt(w) =>
        /\ own'[w] = own[w] /\ receipts'.usd = receipts.usd + CachedUsd
        /\ w \in Adopting /\ w \notin Adopting'
        /\ w \in Adoptable /\ w \notin Adoptable'
        /\ w \in Open' <=> w \in Open
        /\ spent' = spent /\ inflight' = inflight
  BY DEF Adopt
<1> QED BY <1>1, <1>2

\* A save makes a charged receipt adoptable and a reserved call free to start.
LEMMA SaveCost ==
    ASSUME TypeOK, Returns, NEW t \in Threads, Save(t)
    PROVE  /\ Adopting' = Adopting
           /\ Adoptable' = Adoptable \cup Reusing(t)
           /\ Open' = Open \cup (IF back[t] = "start" THEN {t} ELSE {})
           /\ UNCHANGED <<own, receipts, spent, inflight, unsettled>>
<1>1. back' = back /\ pc[t] = "save" /\ pc' = [pc EXCEPT ![t] = "refresh"]
  BY DEF Save, Move
<1>2. Adopting' = Adopting
  BY <1>1 DEF Adopting, TypeOK, Threads
<1>3. Adoptable' = Adoptable \cup Reusing(t)
  BY <1>1 DEF Adoptable, Reusing, Returns, TypeOK, Threads
<1>4. Open' = Open \cup (IF back[t] = "start" THEN {t} ELSE {})
  BY <1>1 DEF Open, Returns, TypeOK, Threads
<1> QED BY <1>2, <1>3, <1>4 DEF Save, budget, files

\* The heartbeat and the main thread change no cost.
LEMMA NoCost ==
    ASSUME TypeOK, NEW t \in Threads, t \notin Workers, Moves(t)
    PROVE  /\ own' = own /\ receipts' = receipts
           /\ UNCHANGED <<spent, inflight>>
           /\ Adopting' = Adopting /\ Adoptable' = Adoptable /\ Open' = Open
<1>1. UNCHANGED <<own, receipts, spent, inflight>>
  BY DEF Moves, Step, Checkpointing, Acquire, ReadCalls, ReadSpent, ReadUnsettled, ReadFailed, Save, Refresh,
         BeatOrEnd, LostLock, EndRun, StopBeating, ReleaseLock, DropHold, budget, files
<1>2. Adopting' = Adopting /\ Adoptable' = Adoptable /\ Open' = Open
  BY OthersCost DEF Adopting, Adoptable, Open
<1> QED BY <1>1, <1>2
-----------------------------------------------------------------------------
(***************************************************************************)
(* Control: the checkpoint lock, where threads continue, the pool's end    *)
(***************************************************************************)

\* Every step leaves at most the lock owner inside a checkpoint.
LEMMA OneInsideStep ==
    ASSUME TypeOK, OneInside, Returns, NEW t \in Threads, Moves(t)
    PROVE  OneInside'
<1> USE DEF TypeOK, OneInside, Returns, Inside, Saving, Move, CallCheckpoint, Guarded, DropJob, Threads
<1>1. \A u \in Threads : u # t => pc'[u] = pc[u]
  BY OthersStay
<1>2. CASE Acquire(t)
  BY <1>1, <1>2, ThreadsAssumption DEF Acquire
<1>3. CASE ReadCalls(t) \/ ReadSpent(t) \/ ReadUnsettled(t) \/ ReadFailed(t) \/ Save(t)
  BY <1>1, <1>3 DEF ReadCalls, ReadSpent, ReadUnsettled, ReadFailed, Save, locks
<1>4. CASE Refresh(t)
  BY <1>1, <1>4, ThreadsAssumption DEF Refresh
<1>5. CASE t \in Workers /\ (Begin(t) \/ WorkerStep(t))
  <2>1. checkpointLock' = checkpointLock /\ pc'[t] \notin Inside
    BY <1>5 DEF Begin, WorkerStep, Admit, PollStop, Reserve, SaveReservation, StartHost, Settle,
          LoseCost, AskAgain, WriteReceipt, SaveReceipt, ChargeCached, SaveCharge, Adopt, locks
  <2> QED BY <1>1, <2>1
<1>6. CASE t = Beat /\ (BeatOrEnd \/ LostLock)
  BY <1>1, <1>6 DEF BeatOrEnd, LostLock, locks
<1>7. CASE t = Main /\ (EndRun \/ StopBeating \/ ReleaseLock \/ DropHold)
  BY <1>1, <1>7 DEF EndRun, StopBeating, ReleaseLock, DropHold, locks
<1> QED BY <1>2, <1>3, <1>4, <1>5, <1>6, <1>7 DEF Moves, Step, Checkpointing

\* Every step leaves each thread in a checkpoint a place to return to.
LEMMA ReturnsStep ==
    ASSUME TypeOK, Returns, NEW t \in Threads, Moves(t)
    PROVE  Returns'
<1> USE DEF TypeOK, Returns, Inside, Saving, Move, CallCheckpoint, Guarded, DropJob, Threads
<1>1. \A u \in Threads : u # t => pc'[u] = pc[u] /\ back'[u] = back[u]
  BY OthersStay
<1>2. CASE Acquire(t) \/ ReadCalls(t) \/ ReadSpent(t) \/ ReadUnsettled(t) \/ ReadFailed(t) \/ Save(t)
  BY <1>1, <1>2 DEF Acquire, ReadCalls, ReadSpent, ReadUnsettled, ReadFailed, Save
<1>3. CASE Refresh(t)
  BY <1>1, <1>3, ThreadsAssumption DEF Refresh
<1>4. CASE t \in Workers /\ (Begin(t) \/ WorkerStep(t))
  BY <1>1, <1>4, ThreadsAssumption
     DEF Begin, WorkerStep, Admit, PollStop, Reserve, SaveReservation, StartHost, Settle,
         LoseCost, AskAgain, WriteReceipt, SaveReceipt, ChargeCached, SaveCharge, Adopt
<1>5. CASE t = Beat /\ (BeatOrEnd \/ LostLock)
  BY <1>1, <1>5, ThreadsAssumption DEF BeatOrEnd, LostLock
<1>6. CASE t = Main /\ (EndRun \/ StopBeating \/ ReleaseLock \/ DropHold)
  BY <1>1, <1>6, ThreadsAssumption DEF EndRun, StopBeating, ReleaseLock, DropHold
<1> QED BY <1>2, <1>3, <1>4, <1>5, <1>6 DEF Moves, Step, Checkpointing

\* Once the main thread left "run" no worker has a step.
LEMMA PoolJoinedStep ==
    ASSUME TypeOK, Returns, PoolJoined, NEW t \in Threads, Moves(t)
    PROVE  PoolJoined'
<1> USE DEF TypeOK, Returns, PoolJoined, Inside, Saving, Move, CallCheckpoint, Guarded, DropJob,
            Threads
<1>1. \A u \in Threads : u # t => pc'[u] = pc[u]
  BY OthersStay
<1>2. CASE t = Main
  <2>1. CASE Acquire(t) \/ ReadCalls(t) \/ ReadSpent(t) \/ ReadUnsettled(t) \/ ReadFailed(t) \/ Save(t)
    BY <1>1, <1>2, <2>1, ThreadsAssumption
       DEF Acquire, ReadCalls, ReadSpent, ReadUnsettled, ReadFailed, Save, record
  <2>2. CASE Refresh(t)
    BY <1>1, <1>2, <2>2, ThreadsAssumption DEF Refresh, record
  <2>3. CASE EndRun \/ StopBeating \/ ReleaseLock \/ DropHold
    BY <1>1, <1>2, <2>3, ThreadsAssumption DEF EndRun, StopBeating, ReleaseLock, DropHold, record
  <2> QED BY <1>2, <2>1, <2>2, <2>3, ThreadsAssumption DEF Moves, Step, Checkpointing
<1>3. CASE t = Beat
  <2>1. status' = status
    BY <1>3, ThreadsAssumption
       DEF Moves, Step, Checkpointing, Acquire, ReadCalls, ReadSpent, ReadUnsettled, ReadFailed, Save, Refresh,
           BeatOrEnd, LostLock, record
  <2> QED BY <1>1, <1>3, <2>1, ThreadsAssumption
<1>4. CASE t \in Workers
  <2>1. pc[Main] = "run"
    BY <1>4, ThreadsAssumption
       DEF Moves, Step, Checkpointing, Acquire, ReadCalls, ReadSpent, ReadUnsettled, ReadFailed, Save, Refresh,
           Begin, WorkerStep, Admit, PollStop, Reserve, SaveReservation, StartHost, Settle,
           LoseCost, AskAgain, WriteReceipt, SaveReceipt, ChargeCached, SaveCharge, Adopt
  <2>2. status' = status
    BY <1>4, ThreadsAssumption
       DEF Moves, Step, Checkpointing, Acquire, ReadCalls, ReadSpent, ReadUnsettled, ReadFailed, Save, Refresh,
           Begin, WorkerStep, Admit, PollStop, Reserve, SaveReservation, StartHost, Settle,
           LoseCost, AskAgain, WriteReceipt, SaveReceipt, ChargeCached, SaveCharge, Adopt, record
  <2> QED BY <1>1, <1>4, <2>1, <2>2, ThreadsAssumption
<1> QED BY <1>2, <1>3, <1>4
-----------------------------------------------------------------------------
(***************************************************************************)
(* Counting: running calls, pending and saved ones                         *)
(***************************************************************************)

\* Every step keeps the counter equal to the running calls and their
\* reservations within the charge.
LEMMA RunningStep ==
    ASSUME TypeOK, Returns, RunningCounted, NEW t \in Threads, Moves(t)
    PROVE  RunningCounted' /\ inflight' \in 0..Cardinality(Workers) /\ spent' \in Nat
<1> Running \in SUBSET Workers /\ Running' \in SUBSET Workers
  BY DEF Running
<1>1. inflight \in Nat /\ Ceiling * inflight \in Nat /\ spent \in Nat
  BY CeilingPerCall, WorkerSets DEF TypeOK
<1>2. /\ Ceiling * (inflight + 1) = Ceiling * inflight + Ceiling
      /\ Ceiling * (inflight - 1) = Ceiling * inflight - Ceiling
  BY <1>1, CeilingPerCall
<1>3. SUFFICES /\ inflight' = Cardinality(Running') /\ Ceiling * inflight' <= spent'
               /\ spent' \in Int
  <2>1. inflight' \in 0..Cardinality(Workers) /\ inflight' \in Nat
    BY <1>3, WorkerSets
  <2>2. Ceiling * inflight' \in Nat
    BY <2>1, CeilingPerCall
  <2> QED BY <1>3, <2>1, <2>2 DEF RunningCounted
<1>4. CASE QuietStep(t) \/ Save(t)
  BY <1>1, <1>4, QuietKeeps, SetsOfSave DEF RunningCounted, budget
<1>5. CASE t \in Workers /\ Reserve(t)
  <2>1. CASE Running' = Running /\ UNCHANGED budget
    BY <1>1, <2>1 DEF RunningCounted, budget
  <2>2. CASE /\ t \notin Running /\ Running' = Running \cup {t}
             /\ spent' = spent + Ceiling /\ inflight' = inflight + 1
    BY <1>1, <1>2, <1>5, <2>2, WorkerEnters, AmountsAssumption DEF RunningCounted
  <2> QED BY <1>5, <2>1, <2>2, SetsOfReserve
<1>6. CASE t \in Workers /\ (StartHost(t) \/ Adopt(t))
  BY <1>1, <1>6, SetsOfIssue DEF RunningCounted, budget
<1>7. CASE t \in Workers /\ (Settle(t) \/ LoseCost(t))
  <2>1. inflight' = Cardinality(Running')
    BY <1>7, SetsOfSettle, WorkerLeaves DEF RunningCounted
  <2>2. spent' \in Int /\ spent' >= spent - Ceiling
    BY <1>1, <1>7, SetsOfSettle, AmountsAssumption
  <2>3. inflight' = inflight - 1
    BY <1>7, SetsOfSettle
  <2> QED BY <1>1, <1>2, <2>1, <2>2, <2>3, AmountsAssumption DEF RunningCounted
<1>8. CASE t \in Workers /\ ChargeCached(t)
  BY <1>1, <1>8, SetsOfCharge, AmountsAssumption DEF RunningCounted
<1> QED BY <1>4, <1>5, <1>6, <1>7, <1>8, StepKinds

\* Every step keeps the issued and pending calls charged.
LEMMA ChargedStep ==
    ASSUME TypeOK, Returns, Charged, NEW t \in Threads, Moves(t)
    PROVE  Charged'
<1> USE DEF Charged
<1> Pending \in SUBSET Workers
  BY DEF Pending
<1>1. calls \in Nat /\ issued \in Nat /\ Cardinality(Pending) \in Nat
  BY WorkerSets DEF TypeOK
<1>2. CASE QuietStep(t) \/ Save(t)
  BY <1>2, QuietKeeps, SetsOfSave DEF budget
<1>3. CASE t \in Workers /\ (Reserve(t) \/ ChargeCached(t))
  <2>1. CASE Pending' = Pending /\ UNCHANGED budget
    BY <1>3, <2>1, SetsOfReserve, SetsOfCharge DEF budget
  <2>2. CASE t \notin Pending /\ Pending' = Pending \cup {t} /\ calls' = calls + 1
    BY <1>1, <1>3, <2>2, WorkerEnters, SetsOfReserve, SetsOfCharge
  <2> QED BY <1>3, <2>1, <2>2, SetsOfReserve, SetsOfCharge
<1>4. CASE t \in Workers /\ (StartHost(t) \/ Adopt(t))
  BY <1>1, <1>4, SetsOfIssue, WorkerLeaves DEF budget
<1>5. CASE t \in Workers /\ (Settle(t) \/ LoseCost(t))
  BY <1>5, SetsOfSettle
<1> QED BY <1>2, <1>3, <1>4, <1>5, StepKinds

\* Issuing a saved call moves it from the saved to the issued ones; only a save
\* makes another one saved.
LEMMA SavedTotal ==
    ASSUME TypeOK, Returns, NEW t \in Threads, Moves(t), ~Save(t),
           NEW B \in SUBSET Workers, t \notin B
    PROVE  issued' + Cardinality(Saved' \cup B) = issued + Cardinality(Saved \cup B)
<1>1. Saved \cup B \in SUBSET Workers
  BY DEF Saved
<1>2. issued \in Nat /\ Cardinality(Saved \cup B) \in Nat
  BY <1>1, WorkerSets DEF TypeOK
<1>3. CASE t \in Workers /\ (StartHost(t) \/ Adopt(t))
  <2>1. issued' = issued + 1 /\ t \in Saved /\ Saved' \cup B = (Saved \cup B) \ {t}
    BY <1>3, SetsOfIssue
  <2>2. t \in Saved \cup B
    BY <2>1
  <2>3. Cardinality((Saved \cup B) \ {t}) = Cardinality(Saved \cup B) - 1
    BY <1>1, <2>2, WorkerLeaves
  <2>4. Cardinality(Saved' \cup B) = Cardinality(Saved \cup B) - 1
    BY <2>1, <2>3
  <2> QED BY <1>2, <2>1, <2>4
<1>4. CASE ~(t \in Workers /\ (StartHost(t) \/ Adopt(t)))
  <2>1. Saved' = Saved /\ issued' = issued
    BY <1>4, StepKinds, QuietKeeps, SetsOfReserve, SetsOfSettle, SetsOfCharge
  <2> QED BY <2>1
<1> QED BY <1>3, <1>4

\* What a thread brings is its own pending call.
LEMMA BringingOwn ==
    ASSUME Returns, NEW t \in Threads
    PROVE  Bringing(t) \in SUBSET Workers /\ Bringing(t) \subseteq Pending
           /\ Saved \subseteq Pending
BY DEF Bringing, Returns, Saved, Pending

\* Every step keeps the issued and saved calls counted on disk: a save writes
\* what its thread read, and no other step enlarges their sum.
LEMMA DiskStep ==
    ASSUME TypeOK, Returns, ReadCounts, DiskCounts, NEW t \in Threads, Moves(t)
    PROVE  DiskCounts'
<1>1. CASE Save(t)
  <2>1. issued + Cardinality(Saved \cup Bringing(t)) <= accounting.calls
    BY <1>1 DEF Save, Move, ReadCounts
  <2> QED BY <1>1, <2>1, SetsOfSave DEF DiskCounts
<1>2. CASE ~Save(t)
  <2>1. issued' + Cardinality(Saved' \cup {}) = issued + Cardinality(Saved \cup {})
    BY <1>2, SavedTotal
  <2>2. disk' = disk
    BY <1>2, StepKinds, QuietKeeps, SetsOfReserve, SetsOfIssue, SetsOfSettle, SetsOfCharge
  <2>3. Saved \cup {} = Saved /\ Saved' \cup {} = Saved'
    OBVIOUS
  <2> QED BY <2>1, <2>2, <2>3 DEF DiskCounts
<1> QED BY <1>1, <1>2

\* Only the three readings lead to where a checkpoint reads on or writes.
LEMMA NotReading ==
    ASSUME TypeOK, Returns, NEW t \in Threads, Moves(t),
           ~(ReadCalls(t) \/ ReadSpent(t) \/ ReadUnsettled(t) \/ ReadFailed(t))
    PROVE  pc'[t] \notin {"spent", "unsettled", "failed", "save"}
<1> USE DEF TypeOK, Returns, Saving, Inside, Move, CallCheckpoint, Guarded, DropJob
<1>1. CASE Acquire(t) \/ Save(t) \/ Refresh(t)
  BY <1>1 DEF Acquire, Save, Refresh
<1>2. CASE t \in Workers /\ (Begin(t) \/ WorkerStep(t))
  BY <1>2
     DEF Begin, WorkerStep, Admit, PollStop, Reserve, SaveReservation, StartHost, Settle,
         LoseCost, AskAgain, WriteReceipt, SaveReceipt, ChargeCached, SaveCharge, Adopt
<1>3. CASE t = Beat /\ (BeatOrEnd \/ LostLock)
  BY <1>3 DEF BeatOrEnd, LostLock
<1>4. CASE t = Main /\ (EndRun \/ StopBeating \/ ReleaseLock \/ DropHold)
  BY <1>4 DEF EndRun, StopBeating, ReleaseLock, DropHold
<1> QED BY <1>1, <1>2, <1>3, <1>4 DEF Moves, Step, Checkpointing

\* A step inside a checkpoint is its own thread's: it reads what is charged, or
\* hands on what it read.
LEMMA OwnReadStep ==
    ASSUME TypeOK, Returns, Charged, ReadCounts, NEW t \in Threads, Moves(t)
    PROVE  /\ pc'[t] \in {"spent", "unsettled", "failed"} =>
                 issued' + Cardinality(Saved' \cup Bringing(t)') <= read'[t].calls
           /\ pc'[t] = "save" =>
                 issued' + Cardinality(Saved' \cup Bringing(t)') <= accounting'.calls
<1>1. CASE ReadCalls(t)
  <2>1. /\ Saved' = Saved /\ issued' = issued /\ Bringing(t)' = Bringing(t)
        /\ read'[t].calls = calls /\ pc'[t] = "spent"
    BY <1>1, QuietKeeps DEF QuietStep, ReadCalls, Move, Bringing, TypeOK
  <2>2. Cardinality(Saved \cup Bringing(t)) <= Cardinality(Pending)
    BY BringingOwn, SmallerSet DEF Pending
  <2>3. Saved \cup Bringing(t) \in SUBSET Workers /\ Pending \in SUBSET Workers
    BY BringingOwn DEF Pending, Saved
  <2>4. issued + Cardinality(Saved \cup Bringing(t)) <= calls
    BY <2>2, <2>3, WorkerSets DEF Charged, TypeOK
  <2> QED BY <2>1, <2>4
<1>2. CASE ReadSpent(t)
  <2>1. /\ Saved' = Saved /\ issued' = issued /\ Bringing(t)' = Bringing(t)
        /\ read'[t].calls = read[t].calls /\ pc[t] = "spent" /\ pc'[t] = "unsettled"
    BY <1>2, QuietKeeps DEF QuietStep, ReadSpent, Move, Bringing, TypeOK
  <2> QED BY <2>1 DEF ReadCounts
<1>5. CASE ReadUnsettled(t)
  <2>1. /\ Saved' = Saved /\ issued' = issued /\ Bringing(t)' = Bringing(t)
        /\ read'[t].calls = read[t].calls /\ pc[t] = "unsettled" /\ pc'[t] = "failed"
    BY <1>5, QuietKeeps DEF QuietStep, ReadUnsettled, Move, Bringing, TypeOK
  <2> QED BY <2>1 DEF ReadCounts
<1>3. CASE ReadFailed(t)
  <2>1. /\ Saved' = Saved /\ issued' = issued /\ Bringing(t)' = Bringing(t)
        /\ accounting'.calls = read[t].calls /\ pc[t] = "failed" /\ pc'[t] = "save"
    BY <1>3, QuietKeeps DEF QuietStep, ReadFailed, Move, Bringing, TypeOK
  <2> QED BY <2>1 DEF ReadCounts
<1>4. CASE ~(ReadCalls(t) \/ ReadSpent(t) \/ ReadUnsettled(t) \/ ReadFailed(t))
  <2>1. pc'[t] \notin {"spent", "unsettled", "failed", "save"}
    BY <1>4, NotReading
  <2> QED BY <2>1
<1> QED BY <1>1, <1>2, <1>3, <1>4, <1>5

\* Every step keeps what a checkpoint is about to write large enough, also when
\* another thread issues a call meanwhile.
LEMMA ReadStep ==
    ASSUME TypeOK, OneInside, Returns, Charged, ReadCounts, NEW t \in Threads, Moves(t)
    PROVE  ReadCounts'
<1>1. SUFFICES ASSUME NEW u \in Threads, u # t, pc'[u] \in {"spent", "unsettled", "failed", "save"}
               PROVE  /\ issued' + Cardinality(Saved' \cup Bringing(u)')
                           = issued + Cardinality(Saved \cup Bringing(u))
                      /\ pc'[u] = pc[u] /\ read'[u] = read[u] /\ accounting' = accounting
  BY <1>1, OwnReadStep DEF ReadCounts
<1>2. pc'[u] = pc[u] /\ back'[u] = back[u] /\ read'[u] = read[u]
  BY <1>1, OthersStay
<1>3. pc[t] \notin Inside
  BY <1>1, <1>2 DEF OneInside, Inside
<1>4. ~Save(t) /\ ~ReadFailed(t)
  BY <1>3 DEF Save, ReadFailed, Move, Inside
<1>5. Bringing(u)' = Bringing(u) /\ Bringing(u) \in SUBSET Workers /\ t \notin Bringing(u)
  BY <1>1, <1>2, BringingOwn DEF Bringing
<1>6. issued' + Cardinality(Saved' \cup Bringing(u)) = issued + Cardinality(Saved \cup Bringing(u))
  BY <1>4, <1>5, SavedTotal
<1>7. accounting' = accounting
  BY <1>4 DEF Moves, Step, Checkpointing, Acquire, ReadCalls, ReadSpent, ReadUnsettled, Refresh, Begin, WorkerStep,
       Admit, PollStop, Reserve, SaveReservation, StartHost, Settle, LoseCost, AskAgain,
       WriteReceipt, SaveReceipt, ChargeCached, SaveCharge, Adopt, BeatOrEnd, LostLock, EndRun,
       StopBeating, ReleaseLock, DropHold, record
<1> QED BY <1>2, <1>5, <1>6, <1>7
-----------------------------------------------------------------------------
(***************************************************************************)
(* The final record                                                        *)
(***************************************************************************)

\* After the pool joined only the heartbeat and the main thread move, and the
\* budget stands still.
LEMMA BudgetRests ==
    ASSUME TypeOK, PoolJoined, pc[Main] # "run", NEW t \in Threads, Moves(t)
    PROVE  t \in {Beat, Main} /\ UNCHANGED <<budget, status>> /\ Failed' = Failed
<1>1. t \notin Workers
  <2> SUFFICES ASSUME t \in Workers PROVE FALSE
    OBVIOUS
  <2>1. pc[t] = "idle" /\ t # Beat /\ t # Main
    BY ThreadsAssumption DEF PoolJoined
  <2> QED BY <2>1
        DEF Moves, Step, Checkpointing, Acquire, ReadCalls, ReadSpent, ReadUnsettled, ReadFailed, Save, Refresh,
            Begin, WorkerStep, Admit, PollStop, Reserve, SaveReservation, StartHost, Settle,
            LoseCost, AskAgain, WriteReceipt, SaveReceipt, ChargeCached, SaveCharge, Adopt,
            Move, CallCheckpoint, Guarded, DropJob
<1>2. UNCHANGED <<budget, status>>
  BY <1>1
     DEF Moves, Step, Checkpointing, Acquire, ReadCalls, ReadSpent, ReadUnsettled, ReadFailed, Save, Refresh,
         BeatOrEnd, LostLock, EndRun, StopBeating, ReleaseLock, DropHold, record, Move,
         CallCheckpoint
<1>3. Failed' = Failed
  BY <1>2 DEF budget, Failed
<1> QED BY <1>1, <1>2, <1>3 DEF Threads

\* Where the main thread can come from.
LEMMA MainComesFrom ==
    ASSUME TypeOK, Returns, NEW t \in Threads, Moves(t)
    PROVE  /\ Final' => Final \/ (t = Main /\ Acquire(Main))
           /\ Final => pc[Main] # "run"
           /\ pc'[Main] = "refresh" =>
                 \/ pc[Main] = "refresh" /\ t # Main
                 \/ t = Main /\ Save(Main)
           /\ pc'[Main] \in {"stop", "release", "drop", "ended"} =>
                 \/ pc[Main] \in {"stop", "release", "drop", "ended"}
                 \/ t = Main /\ Refresh(Main) /\ pc[Main] = "refresh"
<1>1. Final => pc[Main] # "run"
  BY DEF Final, Inside
<1>2. CASE t # Main
  BY <1>1, <1>2, OthersStay DEF Final, Threads
<1>3. CASE t = Main
  <2> USE DEF TypeOK, Returns, Saving, Inside, Final, Move, CallCheckpoint, Threads
  <2>1. CASE Acquire(Main)
    BY <1>1, <1>3, <2>1 DEF Acquire
  <2>2. CASE ReadCalls(Main) \/ ReadSpent(Main) \/ ReadUnsettled(Main) \/ ReadFailed(Main)
    BY <1>1, <1>3, <2>2 DEF ReadCalls, ReadSpent, ReadUnsettled, ReadFailed
  <2>3. CASE Save(Main)
    BY <1>1, <1>3, <2>3 DEF Save
  <2>4. CASE Refresh(Main)
    BY <1>1, <1>3, <2>4, ThreadsAssumption DEF Refresh
  <2>5. CASE EndRun \/ StopBeating \/ ReleaseLock \/ DropHold
    BY <1>1, <1>3, <2>5 DEF EndRun, StopBeating, ReleaseLock, DropHold
  <2> QED BY <1>3, <2>1, <2>2, <2>3, <2>4, <2>5, ThreadsAssumption DEF Moves, Step, Checkpointing
<1> QED BY <1>2, <1>3

\* A thread outside a checkpoint leaves what is read and saved alone.
LEMMA OutsideKeeps ==
    ASSUME NEW t \in Threads, Moves(t), pc[t] \notin Inside
    PROVE  accounting' = accounting /\ disk' = disk
BY DEF Moves, Step, Checkpointing, Acquire, ReadCalls, ReadSpent, ReadUnsettled, ReadFailed, Save, Refresh, Begin,
       WorkerStep, Admit, PollStop, Reserve, SaveReservation, StartHost, Settle, LoseCost, AskAgain,
       WriteReceipt, SaveReceipt, ChargeCached, SaveCharge, Adopt, BeatOrEnd, LostLock, EndRun,
       StopBeating, ReleaseLock, DropHold, record, Move, Inside

Recorded == [calls |-> calls, usd |-> spent, unavailable |-> Failed]

\* Once the final checkpoint began, every step leaves only the final accounting
\* to be written.
LEMMA FinalReadsStep ==
    ASSUME TypeOK, OneInside, Returns, PoolJoined, FinalReads, NEW t \in Threads, Moves(t)
    PROVE  FinalReads'
<1> SUFFICES ASSUME Final', NEW u \in Threads
             PROVE  /\ pc'[u] \in {"spent", "unsettled", "failed"} => read'[u].calls = calls'
                    /\ pc'[u] \in {"unsettled", "failed"} => read'[u].usd = spent'
                    /\ pc'[u] = "failed" => read'[u].unavailable = unsettled'
                    /\ pc'[u] = "save" => accounting' = Recorded'
  BY DEF FinalReads, Recorded
<1>1. CASE t = Main /\ Acquire(Main)
  <2>1. checkpointLock = None /\ pc' = [pc EXCEPT ![Main] = "calls"]
    BY <1>1 DEF Acquire, Move
  <2>2. pc[u] \notin Inside
    BY <2>1, ThreadsAssumption DEF OneInside, Threads
  <2> QED BY <2>1, <2>2 DEF Inside, TypeOK, Threads
<1>2. CASE Final
  <2>1. t \in {Beat, Main} /\ UNCHANGED budget /\ Failed' = Failed
    BY <1>2, MainComesFrom, BudgetRests
  <2>2. calls' = calls /\ spent' = spent /\ unsettled' = unsettled /\ Recorded' = Recorded
    BY <2>1 DEF budget, Recorded
  <2>3. CASE u = t
    <3>1. CASE ReadCalls(t)
      BY <2>2, <2>3, <3>1 DEF ReadCalls, Move, TypeOK
    <3>2. CASE ReadSpent(t)
      BY <1>2, <2>2, <2>3, <3>2 DEF ReadSpent, Move, TypeOK, FinalReads
    <3>5. CASE ReadUnsettled(t)
      BY <1>2, <2>2, <2>3, <3>5 DEF ReadUnsettled, Move, TypeOK, FinalReads
    <3>3. CASE ReadFailed(t)
      <4>1. /\ read[t].calls = calls /\ read[t].usd = spent /\ read[t].unavailable = unsettled
            /\ read[t] \in [calls : Nat, usd : Nat, unavailable : BOOLEAN]
        BY <1>2, <3>3 DEF ReadFailed, Move, TypeOK, FinalReads
      <4>2. [read[t] EXCEPT !.unavailable = @ \/ inflight > 0] = Recorded
        BY <4>1 DEF Recorded, Failed
      <4> QED BY <2>2, <2>3, <3>3, <4>2 DEF ReadFailed, Move, TypeOK
    <3>4. CASE ~(ReadCalls(t) \/ ReadSpent(t) \/ ReadUnsettled(t) \/ ReadFailed(t))
      <4> USE DEF TypeOK, Returns, Saving, Inside, Move, CallCheckpoint
      <4>1. CASE Acquire(t) \/ Save(t) \/ Refresh(t)
        BY <2>3, <4>1, <2>1, ThreadsAssumption DEF Acquire, Save, Refresh
      <4>2. CASE t = Beat /\ (BeatOrEnd \/ LostLock)
        BY <2>3, <4>2 DEF BeatOrEnd, LostLock
      <4>3. CASE t = Main /\ (EndRun \/ StopBeating \/ ReleaseLock \/ DropHold)
        BY <2>3, <4>3 DEF EndRun, StopBeating, ReleaseLock, DropHold
      <4> QED BY <2>1, <3>4, <4>1, <4>2, <4>3, ThreadsAssumption
            DEF Moves, Step, Checkpointing
    <3> QED BY <3>1, <3>2, <3>3, <3>4, <3>5
  <2>4. CASE u # t
    <3>1. pc'[u] = pc[u] /\ read'[u] = read[u]
      BY <2>4, OthersStay
    <3>2. CASE pc[u] = "save"
      <4>1. pc[t] \notin Inside
        BY <2>4, <3>2 DEF OneInside, Inside
      <4> QED BY <1>2, <2>2, <3>1, <3>2, <4>1, OutsideKeeps DEF FinalReads, Recorded
    <3>3. CASE pc[u] # "save"
      BY <1>2, <2>2, <3>1, <3>3 DEF FinalReads
    <3> QED BY <3>2, <3>3
  <2> QED BY <2>3, <2>4
<1> QED BY <1>1, <1>2, MainComesFrom

Ended == [calls |-> calls, usd |-> spent, unavailable |-> Failed, status |-> "ended"]

\* A save after the pool joined, by whichever thread, writes the final record.
LEMMA FinalWrite ==
    ASSUME TypeOK, PoolJoined, FinalReads, Final, NEW t \in Threads, Save(t)
    PROVE  disk' = Ended
<1>1. pc[t] = "save" /\ pc[Main] # "run"
  BY DEF Save, Move, Final, Inside
<1>2. accounting = Recorded /\ status = "ended"
  BY <1>1 DEF FinalReads, Recorded, PoolJoined, TypeOK
<1> QED BY <1>2 DEF Save, Recorded, Ended

\* Once the final checkpoint saved, every step leaves the final record on disk.
LEMMA FinalSavedStep ==
    ASSUME TypeOK, OneInside, Returns, PoolJoined, FinalReads, FinalSaved, EndRecorded,
           NEW t \in Threads, Moves(t)
    PROVE  FinalSaved' /\ EndRecorded'
<1>1. CASE ~Final
  <2>1. ~Save(Main) /\ ~Refresh(Main)
    BY <1>1 DEF Save, Refresh, Move, Final, Inside
  <2>2. pc'[Main] \notin {"refresh", "stop", "release", "drop", "ended"}
    BY <1>1, <2>1, MainComesFrom DEF Final, Inside
  <2> QED BY <2>2 DEF FinalSaved, EndRecorded
<1>2. CASE Final
  <2>1. UNCHANGED budget /\ Failed' = Failed
    BY <1>2, MainComesFrom, BudgetRests
  <2>2. Ended' = Ended
    BY <2>1 DEF budget, Ended
  <2>3. SUFFICES pc'[Main] \in {"refresh", "stop", "release", "drop", "ended"} => disk' = Ended
    BY <2>2, <2>3 DEF FinalSaved, EndRecorded, Ended
  <2>4. CASE Save(t)
    BY <1>2, <2>4, FinalWrite
  <2>5. CASE ~Save(t)
    <3>1. disk' = disk
      BY <2>5, StepKinds, QuietKeeps, SetsOfReserve, SetsOfIssue, SetsOfSettle, SetsOfCharge
    <3>2. pc'[Main] \in {"refresh", "stop", "release", "drop", "ended"} =>
              pc[Main] \in {"refresh", "stop", "release", "drop", "ended"}
      BY <2>5, MainComesFrom
    <3> QED BY <3>1, <3>2 DEF FinalSaved, EndRecorded, Ended
  <2> QED BY <2>4, <2>5
<1> QED BY <1>1, <1>2
-----------------------------------------------------------------------------
(***************************************************************************)
(* Costs: what is charged, read and saved of them                          *)
(***************************************************************************)

\* A worker's worth is an amount.
LEMMA WorthType ==
    ASSUME TypeOK, NEW S
    PROVE  Worth(S) \in [Workers -> Nat] /\ Total(Worth(S)) \in Nat
<1>1. \A w \in Workers : own[w].usd \in Nat
  BY DEF TypeOK, Amounts
<1>2. Worth(S) \in [Workers -> Nat]
  BY <1>1, AmountsAssumption DEF Worth
<1> QED BY <1>2, UnitsFinite

\* More overruns, more reservations.
LEMMA Multiples ==
    ASSUME NEW m \in Nat, NEW n \in Nat, m <= n
    PROVE  /\ Overrun * m \in Nat /\ Overrun * n \in Nat /\ Overrun * m <= Overrun * n
           /\ Ceiling * m \in Nat /\ Ceiling * n \in Nat /\ Ceiling * m <= Ceiling * n
           /\ Overrun * (m + 1) = Overrun * m + Overrun
           /\ Ceiling * (m + 1) = Ceiling * m + Ceiling
BY AmountsAssumption, SMTT(30)

\* Every step keeps the charge above the receipts there are or will be.
LEMMA CostChargedStep ==
    ASSUME TypeOK, TypeOK', Returns, CostCharged, NEW t \in Threads, Moves(t)
    PROVE  CostCharged'
<1> DEFINE f == Worth(Adopting)
           g == Worth(Adopting)'
<1>1. /\ f \in [Workers -> Nat] /\ Total(f) \in Nat
      /\ g \in [Workers -> Nat] /\ Total(g) \in Nat
  <2>1. f \in [Workers -> Nat] /\ Total(f) \in Nat
    BY WorthType
  <2>2. g = [w \in Workers |-> own'[w].usd + (IF w \in Adopting' THEN CachedUsd ELSE 0)]
    BY DEF Worth
  <2>3. \A w \in Workers : own'[w].usd \in Nat
    BY DEF TypeOK, Amounts
  <2>4. g \in [Workers -> Nat]
    BY <2>2, <2>3, AmountsAssumption
  <2> HIDE DEF f, g
  <2> QED BY <2>1, <2>4, UnitsFinite
<1>2. Total(g) = Total(Worth(Adopting))'
  BY DEF Total, Units
<1>3. /\ receipts.usd \in Nat /\ receipts'.usd \in Nat /\ spent \in Nat /\ spent' \in Nat
      /\ inflight \in Nat /\ inflight' \in Nat
      /\ Ceiling * inflight \in Nat /\ Ceiling * inflight' \in Nat
  BY WorkerSets, CeilingPerCall DEF TypeOK, Amounts
<1>4. /\ Ceiling * (inflight + 1) = Ceiling * inflight + Ceiling
      /\ Ceiling * (inflight - 1) = Ceiling * inflight - Ceiling
  BY <1>3, CeilingPerCall
<1>5. CASE t \notin Workers \/ Save(t)
  <2>1. Adopting' = Adopting /\ UNCHANGED <<own, receipts, spent, inflight>>
    BY <1>5, NoCost, SaveCost
  <2>2. Worth(Adopting)' = Worth(Adopting)
    BY <2>1 DEF Worth
  <2> QED BY <2>1, <2>2 DEF CostCharged, Total, Units
<1>6. CASE t \in Workers /\ ~Save(t)
  <2> USE <1>6
  <2>1. /\ f[t] = own[t].usd + (IF t \in Adopting THEN CachedUsd ELSE 0)
        /\ g[t] = own'[t].usd + (IF t \in Adopting' THEN CachedUsd ELSE 0)
        /\ own[t].usd \in Nat /\ own'[t].usd \in Nat
    BY DEF Worth, TypeOK, Amounts
  <2>2. \A w \in Workers \ {t} : g[w] = f[w]
    BY OthersCost DEF Worth
  <2> HIDE DEF f, g
  <2>3. Total(g) = Total(f) + g[t] - f[t]
    BY <1>1, <2>2, OneAmount
  <2>4. receipts.usd + Total(f) + Ceiling * inflight <= spent
    BY DEF CostCharged, f
  <2>5. SUFFICES receipts'.usd + Total(g) + Ceiling * inflight' <= spent'
    BY <1>2, <2>5 DEF CostCharged
  <2>51. ASSUME SamePlace(t), JobStays(t) \/ JobEnds(t)
        PROVE  receipts'.usd + Total(g) <= receipts.usd + Total(f)
    <3>1. g[t] - own'[t].usd = f[t] - own[t].usd
      BY <2>1, <2>51, AmountsAssumption DEF SamePlace
    <3>2. f[t] \in Nat /\ g[t] \in Nat
      BY <1>1
    <3>3. CASE JobStays(t)
      <4>1. own'[t].usd = own[t].usd /\ receipts'.usd = receipts.usd
        BY <3>3 DEF JobStays
      <4> QED BY <1>1, <1>3, <2>1, <2>3, <3>1, <3>2, <4>1
    <3>4. CASE JobEnds(t)
      <4>1. own'[t].usd = 0 /\ receipts'.usd <= receipts.usd + own[t].usd
        BY <1>3, <2>1, <3>4 DEF JobEnds
      <4> QED BY <1>1, <1>3, <2>1, <2>3, <3>1, <3>2, <4>1
    <3> QED BY <2>51, <3>3, <3>4
  <2>6. CASE QuietStep(t) \/ StartHost(t)
    <3>1. SamePlace(t) /\ (JobStays(t) \/ JobEnds(t)) /\ spent' = spent /\ inflight' = inflight
      BY <2>6, QuietCost, CallCost DEF StartHost, budget
    <3>2. receipts'.usd + Total(g) <= receipts.usd + Total(f)
      BY <2>51, <3>1
    <3> QED BY <1>1, <1>3, <2>4, <3>1, <3>2
  <2>7. CASE Reserve(t)
    <3>1. SamePlace(t) /\ (JobStays(t) \/ JobEnds(t))
      BY <2>7, CallCost
    <3>2. \/ spent' = spent /\ inflight' = inflight
          \/ spent' = spent + Ceiling /\ inflight' = inflight + 1
      BY <2>7 DEF Reserve
    <3>3. receipts'.usd + Total(g) <= receipts.usd + Total(f)
      BY <2>51, <3>1
    <3>4. Ceiling * inflight' - Ceiling * inflight = spent' - spent
      <4>1. CASE spent' = spent /\ inflight' = inflight
        BY <1>3, <4>1
      <4>2. CASE spent' = spent + Ceiling /\ inflight' = inflight + 1
        BY <1>3, <1>4, <4>2, AmountsAssumption
      <4> QED BY <3>2, <4>1, <4>2
    <3> QED BY <1>1, <1>3, <2>4, <3>3, <3>4
  <2>8. CASE Settle(t) \/ LoseCost(t)
    <3>1. Ceiling * inflight' = Ceiling * inflight - Ceiling
      BY <1>4, <2>8, SettleCost
    <3> QED BY <1>1, <1>3, <2>1, <2>3, <2>4, <2>8, <3>1, SettleCost, AmountsAssumption
  <2>9. CASE ChargeCached(t) \/ Adopt(t)
    BY <1>1, <1>3, <2>1, <2>3, <2>4, <2>9, ReuseCost, AmountsAssumption DEF JobStays
  <2> QED BY <2>6, <2>7, <2>8, <2>9, StepKinds
<1> QED BY <1>5, <1>6

\* A step that is no save lets the receipts there may be without another save
\* grow only by a call that settles, which is then no longer open.
LEMMA DueMoves ==
    ASSUME TypeOK, TypeOK', Returns, NEW t \in Threads, Moves(t), ~Save(t),
           NEW B \in SUBSET Workers, t \notin B
    PROVE  LET due == receipts.usd + Total(Worth(Adoptable \cup B))
           IN  \/ Open' = Open /\ due' <= due
               \/ t \in Open /\ Open' = Open \ {t} /\ due' <= due + Ceiling + Overrun
<1> DEFINE f == Worth(Adoptable \cup B)
           g == Worth(Adoptable \cup B)'
<1>1. /\ f \in [Workers -> Nat] /\ Total(f) \in Nat
      /\ g \in [Workers -> Nat] /\ Total(g) \in Nat
  <2>1. f \in [Workers -> Nat] /\ Total(f) \in Nat
    BY WorthType
  <2>2. g = [w \in Workers |-> own'[w].usd + (IF w \in Adoptable' \cup B THEN CachedUsd ELSE 0)]
    BY DEF Worth
  <2>3. \A w \in Workers : own'[w].usd \in Nat
    BY DEF TypeOK, Amounts
  <2> HIDE DEF f, g
  <2>4. g \in [Workers -> Nat]
    BY <2>2, <2>3, AmountsAssumption
  <2> QED BY <2>1, <2>4, UnitsFinite
<1>2. Total(g) = Total(Worth(Adoptable \cup B))'
  BY DEF Total, Units
<1>3. receipts.usd \in Nat /\ receipts'.usd \in Nat
  BY DEF TypeOK, Amounts
<1>4. SUFFICES \/ Open' = Open /\ receipts'.usd + Total(g) <= receipts.usd + Total(f)
               \/ /\ t \in Open /\ Open' = Open \ {t}
                  /\ receipts'.usd + Total(g) <= receipts.usd + Total(f) + Ceiling + Overrun
  BY <1>2, <1>4
<1>5. CASE t \notin Workers
  <2>1. Adoptable' = Adoptable /\ Open' = Open /\ UNCHANGED <<own, receipts>>
    BY <1>5, NoCost
  <2>2. g = f
    BY <2>1 DEF Worth
  <2> HIDE DEF f, g
  <2> QED BY <1>1, <1>3, <2>1, <2>2
<1>6. CASE t \in Workers
  <2> USE <1>6
  <2>1. /\ f[t] = own[t].usd + (IF t \in Adoptable THEN CachedUsd ELSE 0)
        /\ g[t] = own'[t].usd + (IF t \in Adoptable' THEN CachedUsd ELSE 0)
        /\ own[t].usd \in Nat /\ own'[t].usd \in Nat
    BY DEF Worth, TypeOK, Amounts
  <2>2. \A w \in Workers \ {t} : g[w] = f[w]
    BY OthersCost DEF Worth
  <2> HIDE DEF f, g
  <2>3. Total(g) = Total(f) + g[t] - f[t]
    BY <1>1, <2>2, OneAmount
  <2>4. \A w \in Workers \ {t} : w \in Open' <=> w \in Open
    BY OthersCost
  <2>5. Open \subseteq Workers /\ Open' \subseteq Workers
    BY DEF Open
  <2>6. ASSUME t \in Adoptable' <=> t \in Adoptable
        PROVE  g[t] - own'[t].usd = f[t] - own[t].usd
    BY <2>1, <2>6, AmountsAssumption
  <2>7. f[t] \in Nat /\ g[t] \in Nat
    BY <1>1
  <2>8. CASE QuietStep(t) \/ StartHost(t) \/ Reserve(t)
    <3>1. SamePlace(t) /\ (JobStays(t) \/ JobEnds(t))
      BY <2>8, QuietCost, CallCost
    <3>2. Open' = Open
      BY <2>4, <2>5, <3>1 DEF SamePlace
    <3>3. g[t] - own'[t].usd = f[t] - own[t].usd
      BY <2>6, <3>1 DEF SamePlace
    <3>4. CASE JobStays(t)
      <4>1. own'[t].usd = own[t].usd /\ receipts'.usd = receipts.usd
        BY <3>4 DEF JobStays
      <4> QED BY <1>1, <1>3, <2>1, <2>3, <2>7, <3>2, <3>3, <4>1
    <3>5. CASE JobEnds(t)
      <4>1. own'[t].usd = 0 /\ receipts'.usd <= receipts.usd + own[t].usd
        BY <1>3, <2>1, <3>5 DEF JobEnds
      <4> QED BY <1>1, <1>3, <2>1, <2>3, <2>7, <3>2, <3>3, <4>1
    <3> QED BY <3>1, <3>4, <3>5
  <2>9. CASE Settle(t) \/ LoseCost(t)
    <3>1. t \in Open /\ Open' = Open \ {t}
      BY <2>4, <2>5, <2>9, SettleCost
    <3>2. g[t] - own'[t].usd = f[t] - own[t].usd
      BY <2>6, <2>9, SettleCost
    <3>3. receipts'.usd = receipts.usd /\ own'[t].usd <= own[t].usd + Ceiling + Overrun
      BY <2>1, <2>9, SettleCost, AmountsAssumption
    <3> QED BY <1>1, <1>3, <2>1, <2>3, <2>7, <3>1, <3>2, <3>3, AmountsAssumption
  <2>10. CASE ChargeCached(t)
    <3>1. /\ JobStays(t)
          /\ t \in Adoptable' <=> t \in Adoptable
          /\ t \in Open' <=> t \in Open
      BY <2>10, ReuseCost
    <3>2. Open' = Open
      BY <2>4, <2>5, <3>1
    <3>3. g[t] - own'[t].usd = f[t] - own[t].usd
      BY <2>6, <3>1
    <3>4. own'[t].usd = own[t].usd /\ receipts'.usd = receipts.usd
      BY <3>1 DEF JobStays
    <3> QED BY <1>1, <1>3, <2>1, <2>3, <2>7, <3>2, <3>3, <3>4
  <2>11. CASE Adopt(t)
    <3>1. /\ own'[t].usd = own[t].usd /\ receipts'.usd = receipts.usd + CachedUsd
          /\ t \in Adoptable /\ t \notin Adoptable'
      BY <2>11, ReuseCost
    <3>2. Open' = Open
      BY <2>4, <2>5, <2>11, ReuseCost
    <3> QED BY <1>1, <1>3, <2>1, <2>3, <3>1, <3>2, AmountsAssumption
  <2> QED BY <2>8, <2>9, <2>10, <2>11, StepKinds
<1> QED BY <1>5, <1>6

\* What a thread reuses is its own pending receipt.
LEMMA ReusingOwn ==
    ASSUME Returns, NEW t \in Threads
    PROVE  /\ Reusing(t) \in SUBSET Workers /\ Adoptable \cup Reusing(t) \subseteq Adopting
           /\ Open \subseteq Running
BY DEF Reusing, Returns, Adoptable, Adopting, Open, Running

\* The fewer receipts to adopt, the less is due.
LEMMA DueSmaller ==
    ASSUME TypeOK, NEW S, NEW R, S \subseteq R
    PROVE  Total(Worth(S)) <= Total(Worth(R))
<1>1. Worth(S) \in [Workers -> Nat] /\ Worth(R) \in [Workers -> Nat]
  BY WorthType
<1>2. \A w \in Workers : Worth(S)[w] <= Worth(R)[w]
  BY AmountsAssumption DEF Worth, TypeOK, Amounts
<1>3. Units(Worth(S)) \in SUBSET Units(Worth(R))
  BY <1>1, <1>2 DEF Units
<1> QED BY <1>1, <1>3, UnitsFinite, FS_Subset DEF Total

\* What is due is an amount, before a step and after it.
DueAmount ==
    /\ \A u \in Threads : Due(u) \in Nat
    /\ receipts.usd + Total(Worth(Adoptable)) \in Nat

LEMMA DueType == TypeOK => DueAmount
BY WorthType DEF DueAmount, Due, TypeOK, Amounts

LEMMA DuePrimed == TypeOK' => DueAmount'
BY DueType, PTL

\* What is due at a checkpoint of u moves as what is due of the same workers.
LEMMA DueOfReader ==
    ASSUME TypeOK, TypeOK', Returns, NEW t \in Threads, Moves(t), ~Save(t),
           NEW u \in Threads, u # t
    PROVE  \/ Open' = Open /\ Due(u)' <= Due(u)
           \/ t \in Open /\ Open' = Open \ {t} /\ Due(u)' <= Due(u) + Ceiling + Overrun
<1>1. back'[u] = back[u]
  BY OthersStay
<1>2. Reusing(u) \in SUBSET Workers /\ t \notin Reusing(u)
  BY ReusingOwn DEF Reusing
<1>3. PICK B \in SUBSET Workers : B = Reusing(u)
  BY <1>2
<1>4. B = Reusing(u)'
  BY <1>1, <1>3 DEF Reusing
<1>5. Worth(Adoptable \cup B) = Worth(Adoptable \cup Reusing(u))
  BY <1>3
<1>6. Worth(Adoptable \cup B)' = Worth(Adoptable \cup Reusing(u))'
  BY <1>4 DEF Worth
<1>7. /\ Total(Worth(Adoptable \cup B)) = Total(Worth(Adoptable \cup Reusing(u)))
      /\ Total(Worth(Adoptable \cup B))' = Total(Worth(Adoptable \cup Reusing(u)))'
  BY <1>5, <1>6 DEF Total, Units
<1>8. LET due == receipts.usd + Total(Worth(Adoptable \cup B))
      IN  \/ Open' = Open /\ due' <= due
          \/ t \in Open /\ Open' = Open \ {t} /\ due' <= due + Ceiling + Overrun
  BY <1>2, <1>3, DueMoves
<1> QED BY <1>7, <1>8 DEF Due

\* What a checkpoint reads of the cost covers what is due, and what it writes
\* when no cost is open does.
LEMMA OwnCostStep ==
    ASSUME TypeOK, Returns, RunningCounted, CostCharged, ReadCosts,
           NEW t \in Threads, ReadSpent(t) \/ ReadUnsettled(t) \/ ReadFailed(t)
    PROVE  ReadCost(t)'
<1>1. Moves(t) /\ ~Save(t) /\ QuietStep(t)
  BY DEF Moves, Step, Checkpointing, ReadSpent, ReadUnsettled, ReadFailed, Save, Move, QuietStep, TypeOK
<1>2. Adoptable' = Adoptable /\ Open' = Open /\ Reusing(t)' = Reusing(t)
  <2>1. \A w \in Workers : (w \in Adoptable' <=> w \in Adoptable) /\ (w \in Open' <=> w \in Open)
    BY <1>1, OthersCost, QuietCost, NoCost DEF SamePlace
  <2>2. back' = back
    BY DEF ReadSpent, ReadUnsettled, ReadFailed
  <2> QED BY <2>1, <2>2 DEF Adoptable, Open, Reusing
<1>3. receipts' = receipts /\ own' = own /\ spent' = spent
  BY DEF ReadSpent, ReadUnsettled, ReadFailed, files, budget
<1>4. Due(t)' = Due(t)
  <2>1. Worth(Adoptable \cup Reusing(t))' = Worth(Adoptable \cup Reusing(t))
    BY <1>2, <1>3 DEF Worth
  <2> QED BY <1>3, <2>1 DEF Due, Total, Units
<1>5. /\ Open \in SUBSET Workers /\ Running \in SUBSET Workers /\ Open \in SUBSET Running
      /\ Adoptable \cup Reusing(t) \subseteq Adopting
  BY ReusingOwn DEF Open, Running
<1>6. /\ Cardinality(Open) \in Nat /\ Cardinality(Open) <= inflight /\ inflight \in Nat
      /\ Cardinality(Workers \ Open) \in Nat
  BY <1>5, WorkerSets, SmallerSet DEF RunningCounted
<1>7. /\ Ceiling * Cardinality(Open) <= Ceiling * inflight
      /\ Ceiling * Cardinality(Open) \in Nat /\ Ceiling * inflight \in Nat
      /\ Overrun * Cardinality(Workers \ Open) \in Nat
  BY <1>6, Multiples
<1>8. receipts.usd \in Nat /\ spent \in Nat /\ read[t].usd \in Nat
  BY DEF TypeOK, Amounts
<1>9. /\ Total(Worth(Adoptable \cup Reusing(t))) \in Nat /\ Total(Worth(Adopting)) \in Nat
      /\ Total(Worth(Adoptable \cup Reusing(t))) <= Total(Worth(Adopting))
  BY <1>5, WorthType, DueSmaller
<1>10. CASE ReadSpent(t)
  <2>1. pc'[t] = "unsettled" /\ read'[t].usd = spent
    BY <1>10 DEF ReadSpent, Move, TypeOK
  <2>2. Due(t) + Ceiling * Cardinality(Open) <= spent
    BY <1>7, <1>8, <1>9 DEF CostCharged, Due
  <2>3. Due(t) \in Nat
    BY DueType DEF DueAmount
  <2>4. Due(t)' + Ceiling * Cardinality(Open')
          <= read'[t].usd + Overrun * Cardinality(Workers \ Open')
    BY <1>2, <1>4, <1>7, <1>8, <2>1, <2>2, <2>3
  <2> QED BY <2>1, <2>4 DEF ReadCost
<1>11. CASE ReadFailed(t)
  <2>1. /\ pc[t] = "failed" /\ pc'[t] = "save" /\ back' = back
        /\ accounting' = [read[t] EXCEPT !.unavailable = @ \/ inflight > 0]
    BY <1>11 DEF ReadFailed, Move, TypeOK
  <2>2. accounting'.usd = read[t].usd /\ (inflight > 0 => accounting'.unavailable)
    BY <2>1 DEF TypeOK
  <2>3. SUFFICES ASSUME ~(inflight > 0)
                 PROVE  /\ Open = {} /\ back[t] # "start"
                        /\ Due(t) <= read[t].usd + Overrun * Cardinality(Workers)
    BY <1>2, <1>4, <2>1, <2>2, <2>3 DEF ReadCost
  <2>4. Running = {}
    <3>1. inflight = 0
      BY <1>6, <2>3
    <3>2. Cardinality(Running) = 0 /\ IsFiniteSet(Running)
      BY <1>5, <3>1, WorkerSets DEF RunningCounted
    <3> QED BY <3>2, FS_EmptySet
  <2>5. Open = {} /\ Workers \ Open = Workers
    BY <1>5, <2>4
  <2>6. back[t] # "start"
    BY <2>4 DEF Running, Returns
  <2>7. Due(t) + Ceiling * Cardinality(Open) <= read[t].usd + Overrun * Cardinality(Workers \ Open)
    BY <2>1 DEF ReadCosts, ReadCost
  <2>8. Due(t) <= read[t].usd + Overrun * Cardinality(Workers \ Open)
    BY <1>7, <1>8, <2>7, DueType DEF DueAmount
  <2> QED BY <2>5, <2>6, <2>8
<1>12. CASE ReadUnsettled(t)
  <2>1. /\ pc[t] = "unsettled" /\ pc'[t] = "failed"
        /\ read'[t].usd = read[t].usd
    BY <1>12 DEF ReadUnsettled, Move, TypeOK
  <2>2. Due(t) + Ceiling * Cardinality(Open) <= read[t].usd + Overrun * Cardinality(Workers \ Open)
    BY <2>1 DEF ReadCosts, ReadCost
  <2> QED BY <1>2, <1>4, <2>1, <2>2 DEF ReadCost
<1> QED BY <1>10, <1>11, <1>12

\* A settled call frees one reservation and adds one overrun at most.
LEMMA SettledBetween ==
    ASSUME NEW t \in Workers, NEW S \in SUBSET Workers, t \in S
    PROVE  /\ Ceiling * Cardinality(S \ {t}) = Ceiling * Cardinality(S) - Ceiling
           /\ Overrun * Cardinality(Workers \ (S \ {t}))
                = Overrun * Cardinality(Workers \ S) + Overrun
           /\ Ceiling * Cardinality(S) \in Nat /\ Overrun * Cardinality(Workers \ S) \in Nat
<1>1. Cardinality(S) \in Nat /\ Cardinality(S \ {t}) = Cardinality(S) - 1
  BY WorkerSets, WorkerLeaves
<1>2. /\ Workers \ S \in SUBSET Workers /\ Cardinality(Workers \ S) \in Nat
      /\ Workers \ (S \ {t}) = (Workers \ S) \cup {t} /\ t \notin Workers \ S
  BY WorkerSets
<1>3. Cardinality((Workers \ S) \cup {t}) = Cardinality(Workers \ S) + 1
  BY <1>2, WorkerEnters
<1>4. Ceiling * (Cardinality(S) - 1) = Ceiling * Cardinality(S) - Ceiling
  BY <1>1, CeilingPerCall
<1>5. Overrun * (Cardinality(Workers \ S) + 1) = Overrun * Cardinality(Workers \ S) + Overrun
  BY <1>2, Multiples
<1>6. Ceiling * Cardinality(S) \in Nat /\ Overrun * Cardinality(Workers \ S) \in Nat
  BY <1>1, <1>2, Multiples
<1> QED BY <1>1, <1>2, <1>3, <1>4, <1>5, <1>6

\* Every step keeps what a checkpoint is about to write near the costs due, also
\* when other calls settle meanwhile.
LEMMA ReadCostsStep ==
    ASSUME TypeOK, TypeOK', OneInside, Returns, RunningCounted, CostCharged, ReadCosts,
           NEW t \in Threads, Moves(t)
    PROVE  ReadCosts'
<1> SUFFICES ASSUME NEW u \in Threads PROVE ReadCost(u)'
  BY DEF ReadCosts
<1>1. CASE u = t
  <2>1. CASE ReadSpent(t) \/ ReadUnsettled(t) \/ ReadFailed(t)
    BY <1>1, <2>1, OwnCostStep
  <2>2. CASE ~(ReadSpent(t) \/ ReadUnsettled(t) \/ ReadFailed(t))
    <3>1. pc'[u] \notin {"unsettled", "failed", "save"}
      <4>1. ReadCalls(t) => pc'[t] = "spent"
        BY DEF ReadCalls, Move, TypeOK
      <4> QED BY <1>1, <2>2, <4>1, NotReading
    <3> QED BY <3>1 DEF ReadCost
  <2> QED BY <2>1, <2>2
<1>2. CASE u # t /\ pc'[u] \in {"unsettled", "failed", "save"}
  <2>1. pc'[u] = pc[u] /\ back'[u] = back[u] /\ read'[u] = read[u]
    BY <1>2, OthersStay
  <2>2. pc[t] \notin Inside /\ ~Save(t)
    BY <1>2, <2>1 DEF OneInside, Inside, Save, Move
  <2>3. accounting' = accounting
    BY <2>2, OutsideKeeps
  <2>4. \/ Open' = Open /\ Due(u)' <= Due(u)
        \/ t \in Open /\ Open' = Open \ {t} /\ Due(u)' <= Due(u) + Ceiling + Overrun
    BY <1>2, <2>2, DueOfReader
  <2>5. Due(u) \in Nat /\ Due(u)' \in Nat /\ read[u].usd \in Nat /\ accounting.usd \in Nat
    BY DueType, DuePrimed DEF DueAmount, TypeOK
  <2>6. /\ Open \in SUBSET Workers /\ Cardinality(Open) \in Nat
        /\ Cardinality(Workers \ Open) \in Nat /\ Cardinality(Workers) \in Nat
        /\ Ceiling * Cardinality(Open) \in Nat /\ Overrun * Cardinality(Workers \ Open) \in Nat
        /\ Overrun * Cardinality(Workers) \in Nat
    <3>1. Open \in SUBSET Workers /\ Workers \ Open \in SUBSET Workers
      BY DEF Open
    <3>2. /\ Cardinality(Open) \in Nat /\ Cardinality(Workers \ Open) \in Nat
          /\ Cardinality(Workers) \in Nat
      BY <3>1, WorkerSets
    <3> QED BY <3>1, <3>2, Multiples
  <2>7. CASE pc[u] \in {"unsettled", "failed"}
    <3>1. Due(u) + Ceiling * Cardinality(Open)
            <= read[u].usd + Overrun * Cardinality(Workers \ Open)
      BY <2>7 DEF ReadCosts, ReadCost
    <3>2. CASE Open' = Open /\ Due(u)' <= Due(u)
      <4>1. Due(u)' + Ceiling * Cardinality(Open')
              <= read[u].usd + Overrun * Cardinality(Workers \ Open')
        BY <2>5, <2>6, <3>1, <3>2
      <4> QED BY <2>1, <2>7, <4>1 DEF ReadCost
    <3>3. CASE t \in Open /\ Open' = Open \ {t} /\ Due(u)' <= Due(u) + Ceiling + Overrun
      <4>1. /\ Ceiling * Cardinality(Open') = Ceiling * Cardinality(Open) - Ceiling
            /\ Overrun * Cardinality(Workers \ Open')
                 = Overrun * Cardinality(Workers \ Open) + Overrun
        BY <2>6, <3>3, SettledBetween
      <4>2. Due(u)' + Ceiling * Cardinality(Open')
              <= read[u].usd + Overrun * Cardinality(Workers \ Open')
        BY <2>5, <2>6, <3>1, <3>3, <4>1, AmountsAssumption
      <4> QED BY <2>1, <2>7, <4>2 DEF ReadCost
    <3> QED BY <2>4, <3>2, <3>3
  <2>8. CASE pc[u] = "save"
    <3> SUFFICES ASSUME ~accounting.unavailable
                 PROVE  /\ Open' = {} /\ back'[u] # "start"
                        /\ Due(u)' <= accounting'.usd + Overrun * Cardinality(Workers)
      BY <2>1, <2>3, <2>8 DEF ReadCost
    <3>1. /\ Open = {} /\ back[u] # "start"
          /\ Due(u) <= accounting.usd + Overrun * Cardinality(Workers)
      BY <2>8 DEF ReadCosts, ReadCost
    <3>2. Open' = Open /\ Due(u)' <= Due(u)
      BY <2>4, <3>1
    <3> QED BY <2>1, <2>3, <2>5, <2>6, <3>1, <3>2
  <2> QED BY <1>2, <2>1, <2>7, <2>8
<1>3. CASE u # t /\ pc'[u] \notin {"unsettled", "failed", "save"}
  BY <1>3 DEF ReadCost
<1> QED BY <1>1, <1>2, <1>3

\* Every step keeps a state without open costs near the costs due: a save writes
\* what its thread read, and no other step closes the gap it leaves.
LEMMA DiskCostsStep ==
    ASSUME TypeOK, TypeOK', Returns, ReadCosts, DiskCosts, NEW t \in Threads, Moves(t)
    PROVE  DiskCosts'
<1>1. CASE Save(t)
  <2>1. /\ pc[t] = "save" /\ disk'.usd = accounting.usd
        /\ disk'.unavailable = accounting.unavailable
    BY <1>1 DEF Save, Move
  <2>2. /\ Adoptable' = Adoptable \cup Reusing(t)
        /\ Open' = Open \cup (IF back[t] = "start" THEN {t} ELSE {})
        /\ own' = own /\ receipts' = receipts
    BY <1>1, SaveCost
  <2>3. Worth(Adoptable)' = Worth(Adoptable \cup Reusing(t))
    BY <2>2 DEF Worth
  <2>4. Total(Worth(Adoptable))' = Total(Worth(Adoptable \cup Reusing(t)))
    BY <2>3 DEF Total, Units
  <2>5. ~accounting.unavailable =>
          /\ Open = {} /\ back[t] # "start"
          /\ receipts.usd + Total(Worth(Adoptable \cup Reusing(t)))
               <= accounting.usd + Overrun * Cardinality(Workers)
    BY <2>1 DEF ReadCosts, ReadCost, Due
  <2> QED BY <2>1, <2>2, <2>4, <2>5 DEF DiskCosts
<1>2. CASE ~Save(t)
  <2> DEFINE due == receipts.usd + Total(Worth(Adoptable \cup {}))
  <2>1. disk' = disk
    BY <1>2, StepKinds, QuietKeeps, SetsOfReserve, SetsOfIssue, SetsOfSettle, SetsOfCharge
  <2>2. \/ Open' = Open /\ due' <= due
        \/ t \in Open /\ Open' = Open \ {t} /\ due' <= due + Ceiling + Overrun
    BY <1>2, DueMoves
  <2>3. Worth(Adoptable \cup {}) = Worth(Adoptable) /\ Worth(Adoptable \cup {})' = Worth(Adoptable)'
    BY DEF Worth
  <2>4. /\ due = receipts.usd + Total(Worth(Adoptable))
        /\ due' = (receipts.usd + Total(Worth(Adoptable)))'
    BY <2>3 DEF Total, Units
  <2> HIDE DEF due
  <2>5. due \in Nat /\ due' \in Nat /\ disk.usd \in Nat /\ Overrun * Cardinality(Workers) \in Nat
    <3>1. Cardinality(Workers) \in Nat
      BY ThreadsAssumption, FS_CardinalityType
    <3>2. due' \in Nat
      BY <2>4, DuePrimed DEF DueAmount
    <3>3. Overrun * Cardinality(Workers) \in Nat
      BY <3>1, Multiples
    <3>4. due \in Nat /\ disk.usd \in Nat
      BY <2>4, DueType DEF DueAmount, TypeOK
    <3> QED BY <3>2, <3>3, <3>4
  <2> QED BY <2>1, <2>2, <2>4, <2>5 DEF DiskCosts
<1> QED BY <1>1, <1>2
-----------------------------------------------------------------------------
(***************************************************************************)
(* Type correctness                                                        *)
(***************************************************************************)

\* What a checkpoint reads.
Reading == [calls : Nat, usd : Nat, unavailable : BOOLEAN]

\* Every step keeps the types, given the running calls are counted.
LEMMA TypeStep ==
    ASSUME TypeOK, Returns, RunningCounted, NEW t \in Threads, Moves(t)
    PROVE  TypeOK'
<1> USE DEF TypeOK, Move, CallCheckpoint, Guarded, DropJob, Threads, Steps, Amounts
<1>0. inflight' \in 0..Cardinality(Workers) /\ spent' \in Nat
  BY RunningStep
<1>1. CASE Acquire(t)
  BY <1>1 DEF Acquire, budget, record, files
<1>2. CASE ReadCalls(t) \/ ReadSpent(t) \/ ReadUnsettled(t)
  <2>1. /\ [read[t] EXCEPT !.calls = calls] \in Reading
        /\ [read[t] EXCEPT !.usd = spent] \in Reading
        /\ [read[t] EXCEPT !.unavailable = unsettled] \in Reading
    BY DEF Reading
  <2>2. read' \in [Threads -> Reading]
    BY <1>2, <2>1 DEF ReadCalls, ReadSpent, ReadUnsettled, Reading
  <2>3. UNCHANGED <<budget, locks, record, files, beating, held, back, own>>
    BY <1>2 DEF ReadCalls, ReadSpent, ReadUnsettled
  <2>4. pc' \in [Threads -> Steps]
    BY <1>2 DEF ReadCalls, ReadSpent, ReadUnsettled
  <2> QED BY <2>2, <2>3, <2>4 DEF Reading, budget, locks, record, files
<1>3. CASE ReadFailed(t)
  <2>1. [read[t] EXCEPT !.unavailable = @ \/ inflight > 0] \in Reading
    BY DEF Reading
  <2>2. accounting' \in Reading
    BY <1>3, <2>1 DEF ReadFailed
  <2>3. UNCHANGED <<budget, locks, status, disk, files, beating, held, back, read, own>>
    BY <1>3 DEF ReadFailed
  <2>4. pc' \in [Threads -> Steps]
    BY <1>3 DEF ReadFailed
  <2> QED BY <2>2, <2>3, <2>4 DEF Reading, budget, locks, files
<1>4. CASE Save(t)
  BY <1>4 DEF Save, budget, locks, files
<1>5. CASE Refresh(t)
  BY <1>5 DEF Refresh, Empty, budget, record
<1>6. CASE t \in Workers /\ (Begin(t) \/ Admit(t) \/ PollStop(t) \/ SaveReservation(t))
  BY <1>6 DEF Begin, Admit, PollStop, SaveReservation, budget, locks, record, files
<1>7. CASE t \in Workers /\ Reserve(t)
  <2>1. /\ pc' \in [Threads -> Steps] /\ own' \in [Workers -> Amounts] /\ calls' \in Nat
        /\ UNCHANGED <<unsettled, jobsLock, checkpointLock, record, files, beating, held, back,
                       read>>
        /\ budgetLock' = None
    <3>1. CASE ~unsettled /\ calls < MaxCalls
      BY <1>7, <3>1 DEF Reserve
    <3>2. CASE ~(~unsettled /\ calls < MaxCalls)
      <4>1. pc' = [pc EXCEPT ![t] = "idle"] /\ own' = [own EXCEPT ![t] = Free] /\ calls' = calls
        BY <1>7, <3>2 DEF Reserve
      <4> QED BY <1>7, <4>1 DEF Reserve, Free
    <3> QED BY <3>1, <3>2
  <2> QED BY <1>0, <2>1 DEF record, files
<1>8. CASE t \in Workers /\ (StartHost(t) \/ Adopt(t))
  BY <1>8, AmountsAssumption DEF StartHost, Adopt, budget, locks, record
<1>9. CASE t \in Workers /\ Settle(t)
  BY <1>0, <1>9, AmountsAssumption DEF Settle, locks, record, files
<1>10. CASE t \in Workers /\ LoseCost(t)
  BY <1>0, <1>10 DEF LoseCost, Free, locks, record, files
<1>11. CASE t \in Workers /\ (AskAgain(t) \/ SaveReceipt(t) \/ SaveCharge(t))
  BY <1>11 DEF AskAgain, SaveReceipt, SaveCharge, Free, budget, locks, record, files
<1>12. CASE t \in Workers /\ WriteReceipt(t)
  BY <1>12 DEF WriteReceipt, Free, budget, locks, record
<1>13. CASE t \in Workers /\ ChargeCached(t)
  BY <1>0, <1>13 DEF ChargeCached, locks, record, files
<1>14. CASE t = Beat /\ (BeatOrEnd \/ LostLock)
  BY <1>14 DEF BeatOrEnd, LostLock, budget, locks, record, files
<1>15. CASE t = Main /\ (EndRun \/ StopBeating \/ ReleaseLock \/ DropHold)
  <2>1. CASE EndRun
    BY <1>15, <2>1 DEF EndRun, budget, locks, record, files
  <2>2. CASE StopBeating
    BY <1>15, <2>2 DEF StopBeating, budget, locks, record, files
  <2>3. CASE ReleaseLock
    <3>1. lock' \in BOOLEAN
      BY <2>3, Zenon DEF ReleaseLock
    <3> QED BY <1>15, <2>3, <3>1 DEF ReleaseLock, budget, locks, record
  <2>4. CASE DropHold
    <3>1. held' \in BOOLEAN
      BY <2>4, Zenon DEF DropHold
    <3> QED BY <1>15, <2>4, <3>1 DEF DropHold, budget, locks, record, files
  <2> QED BY <1>15, <2>1, <2>2, <2>3, <2>4
<1> QED
  BY <1>1, <1>2, <1>3, <1>4, <1>5, <1>6, <1>7, <1>8, <1>9, <1>10, <1>11, <1>12, <1>13, <1>14, <1>15
     DEF Moves, Step, Checkpointing, WorkerStep
-----------------------------------------------------------------------------
(***************************************************************************)
(* The invariant holds of every behaviour                                  *)
(***************************************************************************)

\* The strengthened invariant holds at the start of a session.
LEMMA InitInv == Init => IInv
<1> SUFFICES ASSUME Init PROVE IInv
  OBVIOUS
<1> USE DEF Init
<1>1. \A t \in Threads : pc[t] \in {"wait", "run", "idle"} /\ back[t] = "idle"
  OBVIOUS
<1>2. pc[Main] = "run"
  BY ThreadsAssumption DEF Threads
<1>3. Pending = {} /\ Saved = {} /\ Running = {}
  BY <1>1 DEF Pending, Saved, Running, Threads
<1>4. Cardinality({}) = 0 /\ Cardinality(Workers) \in Nat
  BY FS_EmptySet, ThreadsAssumption, FS_CardinalityType
<1>5. TypeOK
  <2>1. pc \in [Threads -> Steps] /\ back \in [Threads -> Steps]
    BY <1>1 DEF Steps
  <2>2. /\ read \in [Threads -> [calls : Nat, usd : Nat, unavailable : BOOLEAN]]
        /\ own \in [Workers -> Amounts] /\ receipts \in Amounts
        /\ accounting \in [calls : Nat, usd : Nat, unavailable : BOOLEAN]
        /\ disk \in [calls : Nat, usd : Nat, unavailable : BOOLEAN, status : {"running", "ended"}]
    BY DEF Empty, Free, Amounts
  <2>3. calls \in Nat /\ spent \in Nat /\ issued \in Nat /\ inflight \in 0..Cardinality(Workers)
    BY <1>4
  <2>4. /\ unsettled \in BOOLEAN /\ lock \in BOOLEAN /\ beating \in BOOLEAN /\ held \in BOOLEAN
        /\ budgetLock \in Workers \cup {None} /\ jobsLock \in Workers \cup {None}
        /\ checkpointLock \in Threads \cup {None} /\ status \in {"running", "ended"}
    BY Zenon
  <2> QED BY <2>1, <2>2, <2>3, <2>4 DEF TypeOK
<1>6. OneInside /\ Returns
  BY <1>1, ThreadsAssumption DEF OneInside, Returns, Inside, Saving
<1>7. RunningCounted /\ Charged /\ DiskCounts
  BY <1>3, <1>4, AmountsAssumption DEF RunningCounted, Charged, DiskCounts
<1>8. ReadCounts
  BY <1>1 DEF ReadCounts
<1>9. PoolJoined
  BY <1>2 DEF PoolJoined
<1>10. FinalReads /\ FinalSaved /\ EndRecorded
  BY <1>2 DEF FinalReads, FinalSaved, EndRecorded, Final, Inside
<1>11. CostCharged /\ DiskCosts /\ ReadCosts
  <2>1. \A S : Worth(S) \in [Workers -> Nat]
    BY <1>5, WorthType
  <2>2. Adopting = {} /\ Adoptable = {} /\ Open = {}
    BY <1>1 DEF Adopting, Adoptable, Open, Threads
  <2>3. \A w \in Workers : Worth({})[w] = 0
    BY DEF Worth, Free
  <2>4. Total(Worth({})) = 0
    BY <2>1, <2>3, NoAmount
  <2>5. receipts.usd = 0 /\ inflight = 0 /\ spent = 0 /\ disk.usd = 0
    BY DEF Free
  <2>6. Ceiling * 0 = 0 /\ Overrun * Cardinality(Workers) \in Nat
    BY <1>4, Multiples, AmountsAssumption
  <2>7. CostCharged /\ DiskCosts
    BY <2>2, <2>4, <2>5, <2>6 DEF CostCharged, DiskCosts
  <2>8. ReadCosts
    BY <1>1 DEF ReadCosts, ReadCost
  <2> QED BY <2>7, <2>8
<1> QED BY <1>5, <1>6, <1>7, <1>8, <1>9, <1>10, <1>11 DEF IInv

\* A step that changes no variable keeps the strengthened invariant.
LEMMA StutterKeeps == IInv /\ UNCHANGED vars => IInv'
<1> SUFFICES ASSUME IInv, UNCHANGED vars PROVE IInv'
  OBVIOUS
<1> USE DEF vars, budget, locks, record, files, threads
<1>1. TypeOK'
  BY DEF IInv, TypeOK
<1>2. Pending' = Pending /\ Saved' = Saved /\ Running' = Running /\ Failed' = Failed
  BY DEF Pending, Saved, Running, Failed
<1>3. \A t \in Threads : Bringing(t)' = Bringing(t)
  BY DEF Bringing
<1>4. OneInside' /\ Returns' /\ PoolJoined'
  BY DEF IInv, OneInside, Returns, PoolJoined
<1>5. RunningCounted' /\ Charged' /\ DiskCounts'
  BY <1>2 DEF IInv, RunningCounted, Charged, DiskCounts
<1>6. ReadCounts'
  BY <1>2, <1>3 DEF IInv, ReadCounts
<1>7. FinalReads' /\ FinalSaved' /\ EndRecorded'
  BY <1>2 DEF IInv, FinalReads, FinalSaved, EndRecorded, Final
<1>8. /\ Open' = Open /\ Total(Worth(Adopting))' = Total(Worth(Adopting))
      /\ Total(Worth(Adoptable))' = Total(Worth(Adoptable))
      /\ \A u \in Threads : Due(u)' = Due(u)
  BY DEF Open, Adopting, Adoptable, Due, Reusing, Worth, Total, Units
<1>9. CostCharged' /\ DiskCosts' /\ ReadCosts'
  BY <1>8 DEF IInv, CostCharged, DiskCosts, ReadCosts, ReadCost
<1> QED BY <1>1, <1>4, <1>5, <1>6, <1>7, <1>9 DEF IInv

\* Every step, and a stutter, keeps the strengthened invariant.
LEMMA InductiveStep == IInv /\ [Next]_vars => IInv'
<1> SUFFICES ASSUME IInv, [Next]_vars PROVE IInv'
  OBVIOUS
<1>1. ASSUME NEW t \in Threads, Moves(t) PROVE IInv'
  <2>1. TypeOK' /\ RunningCounted'
    BY <1>1, TypeStep, RunningStep DEF IInv
  <2>2. OneInside' /\ Returns' /\ PoolJoined'
    BY <1>1, OneInsideStep, ReturnsStep, PoolJoinedStep DEF IInv
  <2>3. Charged' /\ DiskCounts' /\ ReadCounts'
    BY <1>1, ChargedStep, DiskStep, ReadStep DEF IInv
  <2>4. FinalReads' /\ FinalSaved' /\ EndRecorded'
    BY <1>1, FinalReadsStep, FinalSavedStep DEF IInv
  <2>5. CostCharged' /\ ReadCosts' /\ DiskCosts'
    BY <1>1, <2>1, CostChargedStep, ReadCostsStep, DiskCostsStep DEF IInv
  <2> QED BY <2>1, <2>2, <2>3, <2>4, <2>5 DEF IInv
<1>2. CASE UNCHANGED vars
  BY <1>2, StutterKeeps
<1> QED BY <1>1, <1>2 DEF Next, Moves, Terminating, Threads

\* The strengthened invariant holds in every reachable state.
THEOREM Invariance == Spec => []IInv
BY InitInv, InductiveStep, PTL DEF Spec

\* Every variable keeps its type; in particular no call is settled twice and no
\* reservation returned that was not charged.
THEOREM TypeCorrect == Spec => []TypeOK
<1>1. IInv => TypeOK
  BY DEF IInv
<1> QED BY <1>1, Invariance, PTL

\* Whenever the process dies, .assessment-state.json counts every call whose host
\* was started and every receipt the run adopted (AssessmentState.checkpoint,
\* the factory and the adoption of AssessmentJobs.exchange).
THEOREM SavedCallsCover == Spec => []CallsCovered
<1>1. IInv => CallsCovered
  <2> SUFFICES ASSUME IInv PROVE CallsCovered
    OBVIOUS
  <2>1. Saved \in SUBSET Workers
    BY DEF Saved
  <2>2. Cardinality(Saved) \in Nat /\ issued \in Nat /\ disk.calls \in Nat
    BY <2>1, WorkerSets DEF IInv, TypeOK
  <2> QED BY <2>2 DEF IInv, DiskCounts, CallsCovered
<1> QED BY <1>1, Invariance, PTL

\* A saved state that says all costs are known falls below the receipts only by
\* what calls cost above their reservations that settled while one save was
\* under way, one call per worker (AssessmentState.checkpoint reads the budget
\* field by field while DiscoveryBudget._settle changes it).
THEOREM SavedSpendCovers == Spec => []SpendNearlyCovered
<1>1. IInv => SpendNearlyCovered
  <2> SUFFICES ASSUME IInv PROVE SpendNearlyCovered
    OBVIOUS
  <2>1. Total(Worth(Adoptable)) \in Nat /\ receipts.usd \in Nat /\ disk.usd \in Nat
    BY WorthType DEF IInv, TypeOK, Amounts
  <2>2. Overrun * Cardinality(Workers) \in Nat
    BY ThreadsAssumption, FS_CardinalityType, Multiples
  <2> QED BY <2>1, <2>2 DEF IInv, DiskCosts, SpendNearlyCovered
<1> QED BY <1>1, Invariance, PTL

\* No heartbeat that outlives the run replaces the final record by an older one
\* (AssessmentState.hold).
THEOREM FinalRecordStays == Spec => []EndRecorded
<1>1. IInv => EndRecorded
  BY DEF IInv
<1> QED BY <1>1, Invariance, PTL
=============================================================================
