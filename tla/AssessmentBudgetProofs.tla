----------------------- MODULE AssessmentBudgetProofs -----------------------
(***************************************************************************)
(* Proofs about the budget of an assessment run, for any number of         *)
(* threads, components, calls and any limits.                              *)
(***************************************************************************)
EXTENDS AssessmentBudgetLedger, FiniteSetTheorems, TLAPS

\* Workers that decided to repeat a paid failure and have not recorded it.
Deciding == {w \in Workers : pc[w] = "record" /\ failure[w] \in {"timeout", "paid"}}

\* A running call holds a reservation between the smallest and the full one.
HeldReservations == \A w \in Workers : pc[w] = "call" => ceiling[w] \in MinCallUsd..CallUsd

\* An idle worker holds no task.
TaskHeld == \A w \in Workers : pc[w] = "idle" => task[w] = None

\* The in-flight count is the number of running calls.
InflightCounts == inflight = Cardinality(InCall)

\* The report's role is cold until the report is accepted.
ReportCold == reportPlanned = 1 => observed["secarch_renderer"] = 0

\* Every paid retry is recorded or about to be.
RetriesAccounted ==
    paidRetries + Cardinality(Deciding) <= MaxPaidRetries + Cardinality(Workers) - 1

IInv ==
    /\ TypeOK
    /\ IsFiniteSet(required)
    /\ InflightCounts
    /\ HeldReservations
    /\ TaskHeld
    /\ ReportCold
    /\ RetriesAccounted
    /\ SpendWithinLimit
    /\ ReportFunded
-----------------------------------------------------------------------------
(***************************************************************************)
(* Lemmas on sets of workers and on what a call may take                   *)
(***************************************************************************)

\* A set of workers is finite and at most all of them.
LEMMA WorkerSets ==
    ASSUME NEW S \in SUBSET Workers
    PROVE  /\ IsFiniteSet(S)
           /\ Cardinality(S) \in Nat
           /\ Cardinality(S) <= Cardinality(Workers)
           /\ Cardinality(Workers) \in Nat
           /\ Cardinality(Workers) >= 1
<1>1. IsFiniteSet(Workers) /\ Workers # {}
  BY WorkersAssumption
<1>2. IsFiniteSet(S) /\ Cardinality(S) <= Cardinality(Workers)
  BY <1>1, FS_Subset
<1>3. Cardinality(S) \in Nat /\ Cardinality(Workers) \in Nat
  BY <1>1, <1>2, FS_CardinalityType
<1>4. Cardinality(Workers) # 0
  BY <1>1, FS_EmptySet
<1> QED BY <1>2, <1>3, <1>4

\* A worker that enters or leaves a set of workers changes its size by one.
LEMMA WorkerEnters ==
    ASSUME NEW S \in SUBSET Workers, NEW w \in Workers, w \notin S
    PROVE  Cardinality(S \cup {w}) = Cardinality(S) + 1
BY WorkerSets, FS_AddElement

\* A worker that leaves a set of workers makes it smaller by one.
LEMMA WorkerLeaves ==
    ASSUME NEW S \in SUBSET Workers, NEW w \in S
    PROVE  Cardinality(S \ {w}) = Cardinality(S) - 1
BY WorkerSets, FS_RemoveElement

\* The slack of one more open reservation is that of its overrun.
LEMMA SlackPerCall ==
    ASSUME NEW n \in Int
    PROVE  /\ Overrun * (n + 1) = Overrun * n + Overrun
           /\ Overrun * (n - 1) = Overrun * n - Overrun
BY AmountsAssumption

\* More open reservations have no less slack.
LEMMA SlackMonotone ==
    ASSUME NEW m \in Nat, NEW n \in Nat, m <= n
    PROVE  /\ Overrun * m \in Nat
           /\ Overrun * n \in Nat
           /\ Overrun * m <= Overrun * n
<1>1. PICK k \in Nat : n = m + k
  <2>1. n - m \in Nat /\ n = m + (n - m)
    OBVIOUS
  <2> QED BY <2>1
<1>2. Overrun * n = Overrun * m + Overrun * k
  BY <1>1, AmountsAssumption
<1>3. Overrun * k \in Nat /\ Overrun * m \in Nat
  BY <1>1, AmountsAssumption
<1> QED BY <1>2, <1>3

\* What is held back for other work is never negative, and at least a full
\* allowance, and two calls, while the report is planned and not this job.
LEMMA ReserveBounds ==
    ASSUME TypeOK, IsFiniteSet(required), NEW w \in Workers
    PROVE  /\ Reserve(w) \in Nat
           /\ CallLimit(w) \in Int
           /\ CallLimit(w) <= MaxCalls
           /\ (reportPlanned = 1 /\ ReportCold /\ task[w] # Report) =>
                 /\ Reserve(w) >= CallUsd
                 /\ CallLimit(w) <= MaxCalls - 2
<1>1. Cardinality(required) \in Nat
  BY FS_CardinalityType
<1>2. \A r \in Roles : Estimate(r) \in Nat
  BY AmountsAssumption DEF TypeOK, Estimate, Larger
<1>3. \A m, n \in Nat : m * n \in Nat
  OBVIOUS
<1>4. Cardinality(required) * Estimate("stride_analyzer") \in Nat
  BY <1>1, <1>2, <1>3 DEF Roles
<1>5. reportPlanned * Estimate("secarch_renderer") \in Nat
  BY <1>2, <1>3 DEF Roles, TypeOK
<1>6. Reserve(w) \in Nat
  BY <1>4, <1>5 DEF Reserve
<1>7. CallLimit(w) \in Int /\ CallLimit(w) <= MaxCalls
  BY <1>1, BoundsAssumption DEF CallLimit, TypeOK
<1>8. ASSUME reportPlanned = 1, ReportCold, task[w] # Report
      PROVE  Reserve(w) >= CallUsd /\ CallLimit(w) <= MaxCalls - 2
  <2>1. reportPlanned * Estimate("secarch_renderer") = CallUsd
    BY <1>8, <1>2, AmountsAssumption DEF ReportCold, Estimate, Roles
  <2>2. Reserve(w) >= CallUsd
    BY <1>8, <2>1, <1>4, AmountsAssumption DEF Reserve, IsReport
  <2>3. CallLimit(w) <= MaxCalls - 2
    BY <1>8, <1>1, BoundsAssumption DEF CallLimit, IsReport
  <2> QED BY <2>2, <2>3
<1> QED BY <1>6, <1>7, <1>8

\* A reservation fits what is left after the reserve, and the allowance.
LEMMA CeilingFits ==
    ASSUME TypeOK, IsFiniteSet(required), NEW w \in Workers, MayReserve(w)
    PROVE  /\ CeilingOf(w) \in MinCallUsd..CallUsd
           /\ spent + CeilingOf(w) + Reserve(w) <= MaxUsd
           /\ calls < CallLimit(w)
           /\ CeilingOf(w) < CallUsd => inflight = 0
<1>1. Reserve(w) \in Nat
  BY ReserveBounds
<1>2. Available(w) \in Int
  BY <1>1, AmountsAssumption DEF Available, TypeOK
<1>3. CeilingOf(w) <= CallUsd /\ CeilingOf(w) <= Available(w) /\ CeilingOf(w) \in Int
  BY <1>2, AmountsAssumption DEF CeilingOf, Smaller
<1>4. CeilingOf(w) >= MinCallUsd /\ calls < CallLimit(w) /\ ~MustWait(w)
  BY DEF MayReserve
<1>5. Available(w) = MaxUsd - spent - Reserve(w)
  BY <1>3, <1>4, AmountsAssumption DEF Available
<1>6. CeilingOf(w) < CallUsd => inflight = 0
  BY <1>2, <1>4, AmountsAssumption DEF CeilingOf, Smaller, MustWait, TypeOK
<1> QED BY <1>1, <1>3, <1>4, <1>5, <1>6, AmountsAssumption DEF TypeOK
-----------------------------------------------------------------------------
(***************************************************************************)
(* Steps that leave the account and the retry bookkeeping alone            *)
(***************************************************************************)

QuietStep(w) ==
    \/ TakeComponent(w) \/ TakeDeferred(w) \/ TakeReport(w)
    \/ RefuseJob(w) \/ BeginJob(w) \/ RefuseCall(w) \/ RefuseForTime(w)
    \/ GiveUp(w) \/ Repeat(w) \/ NextExchange(w) \/ RejectAnswer(w)
    \/ Accept(w) \/ Conclude(w)

Quiet(w) ==
    /\ UNCHANGED <<account, paidRetries>>
    /\ pc' = [pc EXCEPT ![w] = pc'[w]]
    /\ pc[w] \notin {"call", "record"} /\ pc'[w] \notin {"call", "record"}
    /\ \A v \in Workers \ {w} : ceiling'[v] = ceiling[v] /\ failure'[v] = failure[v]

\* The steps that neither reserve, settle nor record a retry leave the accounts alone.
LEMMA QuietSteps ==
    ASSUME TypeOK, NEW w \in Workers, QuietStep(w)
    PROVE  Quiet(w)
<1>1. CASE TakeComponent(w)
  BY <1>1 DEF TakeComponent, Quiet, Move, TypeOK, account
<1>2. CASE TakeDeferred(w)
  BY <1>2 DEF TakeDeferred, Quiet, Move, TypeOK, account
<1>3. CASE TakeReport(w)
  BY <1>3 DEF TakeReport, Quiet, Move, TypeOK, account
<1>4. CASE RefuseJob(w)
  BY <1>4 DEF RefuseJob, Quiet, Move, TypeOK, account
<1>5. CASE BeginJob(w)
  BY <1>5 DEF BeginJob, Quiet, Move, TypeOK, account
<1>6. CASE RefuseCall(w)
  BY <1>6 DEF RefuseCall, Raise, Quiet, Move, TypeOK, account
<1>7. CASE RefuseForTime(w)
  BY <1>7 DEF RefuseForTime, Raise, Quiet, Move, TypeOK, account
<1>8. CASE GiveUp(w)
  BY <1>8 DEF GiveUp, Raise, Quiet, Move, TypeOK, account
<1>9. CASE Repeat(w)
  BY <1>9 DEF Repeat, Raise, Quiet, Move, TypeOK, account
<1>10. CASE NextExchange(w)
  BY <1>10 DEF NextExchange, Quiet, Move, TypeOK, account
<1>11. CASE RejectAnswer(w)
  BY <1>11 DEF RejectAnswer, Raise, Quiet, Move, TypeOK, account
<1>12. CASE Accept(w)
  BY <1>12 DEF Accept, AfterStride, AfterReview, LeaveTask, NextJob, DropLocals, Quiet, TypeOK, account
<1>13. CASE Conclude(w)
  BY <1>13 DEF Conclude, AfterReview, LeaveTask, NextJob, DropLocals, Quiet, TypeOK, account
<1> QED
  BY <1>1, <1>2, <1>3, <1>4, <1>5, <1>6, <1>7, <1>8, <1>9, <1>10, <1>11, <1>12, <1>13
     DEF QuietStep

\* A quiet step changes neither who is in a call, nor a running call's
\* reservation, nor who is about to record a paid retry.
LEMMA QuietKeeps ==
    ASSUME TypeOK, NEW w \in Workers, Quiet(w)
    PROVE  /\ InCall' = InCall /\ Deciding' = Deciding
           /\ Reservation' = Reservation
           /\ HeldReservations => HeldReservations'
<1>1. \A v \in Workers : pc'[v] = IF v = w THEN pc'[w] ELSE pc[v]
  BY DEF Quiet, TypeOK
<1>2. InCall' = InCall
  BY <1>1 DEF Quiet, InCall
<1>3. Deciding' = Deciding
  BY <1>1 DEF Quiet, Deciding
<1>4. Reservation' = Reservation
  BY <1>1 DEF Quiet, Reservation
<1>5. HeldReservations => HeldReservations'
  BY <1>1 DEF Quiet, HeldReservations
<1> QED BY <1>2, <1>3, <1>4, <1>5
-----------------------------------------------------------------------------
(***************************************************************************)
(* The number of running calls                                             *)
(***************************************************************************)

\* Every step keeps the counter equal to the number of threads in a call, so
\* it is a natural number no larger than the number of threads.
LEMMA InflightStep ==
    ASSUME TypeOK, InflightCounts, NEW w \in Workers, Step(w)
    PROVE  InflightCounts' /\ inflight' \in Nat /\ inflight' <= Cardinality(Workers)
<1> InCall \in SUBSET Workers /\ InCall' \in SUBSET Workers
  BY DEF InCall
<1>1. SUFFICES InflightCounts'
  BY <1>1, WorkerSets DEF InflightCounts
<1>2. CASE QuietStep(w)
  BY <1>2, QuietSteps, QuietKeeps DEF InflightCounts, Quiet, account
<1>3. CASE ReuseReceipt(w)
  <2>1. InCall' = InCall
    BY <1>3 DEF ReuseReceipt, Move, InCall, TypeOK
  <2> QED BY <1>3, <2>1 DEF ReuseReceipt, InflightCounts
<1>4. CASE DecideRetry(w) \/ RecordRetry(w)
  <2>1. InCall' = InCall
    BY <1>4 DEF DecideRetry, RecordRetry, Move, InCall, TypeOK
  <2> QED BY <1>4, <2>1 DEF DecideRetry, RecordRetry, InflightCounts, account
<1>5. CASE ReserveCall(w)
  <2>1. InCall' = InCall \cup {w} /\ w \notin InCall
    BY <1>5 DEF ReserveCall, Move, InCall, TypeOK
  <2> QED BY <1>5, <2>1, WorkerEnters DEF ReserveCall, InflightCounts
<1>6. CASE Answer(w) \/ FailCall(w) \/ LoseCost(w)
  <2>1. InCall' = InCall \ {w} /\ w \in InCall
    BY <1>6 DEF Answer, FailCall, LoseCost, Move, InCall, TypeOK
  <2>2. inflight' = inflight - 1
    BY <1>6 DEF Answer, FailCall, LoseCost, Settle
  <2> QED BY <2>1, <2>2, WorkerLeaves DEF InflightCounts
<1> QED
  BY <1>2, <1>3, <1>4, <1>5, <1>6 DEF Step, QuietStep
-----------------------------------------------------------------------------
(***************************************************************************)
(* Type correctness                                                        *)
(***************************************************************************)

\* The variables start in their types.
LEMMA InitType == Init => TypeOK
<1> SUFFICES ASSUME Init PROVE TypeOK
  OBVIOUS
<1>1. carried \in Nat \X Nat /\ calls \in Nat /\ spent \in Nat
  BY CarriedAssumption DEF Init
<1>2. required \subseteq Components \X (1..MaxBatches)
  BY BoundsAssumption DEF Init
<1>3. /\ observed \in [Roles -> Nat] /\ phase \in [Components -> Phases]
      /\ reviews \in [Components -> Nat] /\ deferred \in [Components -> Nat]
  BY DEF Init, Phases
<1>4. failure \in [Workers -> Failures] /\ pc \in [Workers -> Steps]
  BY DEF Init, Failures, Steps
<1>5. /\ task \in [Workers -> Components \cup {Report, None}]
      /\ ceiling \in [Workers -> Nat] /\ jobUsd \in [Workers -> Nat]
      /\ exchanges \in [Workers -> Nat]
      /\ timeouts \in [Workers -> Nat] /\ failures \in [Workers -> Nat]
  BY DEF Init
<1>6. inflight \in Nat /\ spent \in Int /\ paidRetries \in Nat /\ reportPlanned \in {0, 1}
  BY <1>1 DEF Init
<1>7. unsettled \in BOOLEAN /\ halt \in BOOLEAN /\ stop \in BOOLEAN /\ expired \in BOOLEAN
  BY Zenon DEF Init
<1>8. resumed \in BOOLEAN
  BY DEF Init
<1> QED BY <1>1, <1>2, <1>3, <1>4, <1>5, <1>6, <1>7, <1>8 DEF TypeOK

\* Every step keeps the types, given an exact counter and a finite plan.
LEMMA TypeStep ==
    ASSUME TypeOK, InflightCounts, IsFiniteSet(required), NEW w \in Workers, Step(w)
    PROVE  TypeOK'
<1> USE DEF TypeOK, Move, Steps, Roles
<1>0. inflight' \in Nat
  BY InflightStep
<1>1. CASE TakeComponent(w)
  <2>1. required' \subseteq Components \X (1..MaxBatches)
    BY <1>1, BoundsAssumption DEF TakeComponent
  <2> QED BY <1>1, <2>1 DEF TakeComponent, Phases, account, control
<1>2. CASE TakeDeferred(w)
  BY <1>2 DEF TakeDeferred, Phases, account, control
<1>3. CASE TakeReport(w)
  BY <1>3 DEF TakeReport, plan, account, control
<1>4. CASE RefuseJob(w)
  BY <1>4 DEF RefuseJob, Phases, IsReport, account
<1>5. CASE ReuseReceipt(w)
  <2>1. PICK cost \in CachedCosts :
          /\ \/ /\ calls' = calls + cost[1]
                /\ spent' = spent + cost[2]
                /\ carried' = <<carried[1] + cost[1], carried[2] + cost[2]>>
             \/ UNCHANGED <<calls, spent, carried>>
          /\ jobUsd' = [jobUsd EXCEPT ![w] = cost[2]]
    BY <1>5 DEF ReuseReceipt
  <2>2. cost[1] \in Nat /\ cost[2] \in Nat
    BY CarriedAssumption
  <2> QED BY <1>5, <2>1, <2>2 DEF ReuseReceipt, plan, control
<1>6. CASE BeginJob(w)
  BY <1>6 DEF BeginJob, plan, account, control
<1>7. CASE RefuseCall(w) \/ RefuseForTime(w)
  BY <1>7 DEF RefuseCall, RefuseForTime, Raise, Failures, plan, account, control
<1>8. CASE ReserveCall(w)
  <2>1. CeilingOf(w) \in Nat
    BY <1>8, CeilingFits, AmountsAssumption DEF ReserveCall
  <2> QED BY <1>8, <2>1, <1>0 DEF ReserveCall, plan, control
<1>9. CASE Answer(w)
  BY <1>9, <1>0, AmountsAssumption DEF Answer, Settle, plan, control
<1>10. CASE FailCall(w)
  BY <1>10, <1>0, AmountsAssumption DEF FailCall, Settle, Failures, TransportFailures, plan, control
<1>11. CASE LoseCost(w)
  BY <1>11, <1>0 DEF LoseCost, Failures, plan, control
<1>12. CASE DecideRetry(w)
  BY <1>12 DEF DecideRetry, plan, account, control
<1>13. CASE GiveUp(w)
  BY <1>13 DEF GiveUp, Raise, Failures, plan, account, control
<1>14. CASE RecordRetry(w)
  BY <1>14 DEF RecordRetry, plan, account, control
<1>15. CASE Repeat(w)
  BY <1>15 DEF Repeat, Raise, Failures, plan, account, control
<1>16. CASE NextExchange(w)
  BY <1>16 DEF NextExchange, Failures, plan, account, control
<1>17. CASE RejectAnswer(w)
  BY <1>17 DEF RejectAnswer, Raise, Failures, plan, account, control
<1>18. CASE Accept(w)
  <2>1. observed' \in [Roles -> Nat] /\ required' \subseteq Components \X (1..MaxBatches)
    BY <1>18 DEF Accept, Larger, Role
  <2>2. /\ task' \in [Workers -> Components \cup {Report, None}] /\ pc' \in [Workers -> Steps]
        /\ phase' \in [Components -> Phases] /\ reviews' \in [Components -> Nat]
        /\ reportPlanned' \in {0, 1}
    <3>1. CASE IsStride(w) /\ AfterStride(w) /\ UNCHANGED reportPlanned
      BY <3>1 DEF AfterStride, LeaveTask, NextJob, IsStride, Phases
    <3>2. CASE IsStride(w) /\ NextJob(w) /\ UNCHANGED <<phase, reviews, reportPlanned>>
      BY <3>2 DEF NextJob
    <3>3. CASE Optional(w) /\ AfterReview(w) /\ UNCHANGED reportPlanned
      BY <3>3 DEF AfterReview, LeaveTask, NextJob, Optional, Phases
    <3>4. CASE IsReport(w) /\ reportPlanned' = 0 /\ LeaveTask(w) /\ UNCHANGED <<phase, reviews>>
      BY <3>4 DEF LeaveTask
    <3> QED BY <1>18, <3>1, <3>2, <3>3, <3>4 DEF Accept
  <2>3. /\ UNCHANGED <<calls, spent, inflight, carried, paidRetries, deferred>>
        /\ UNCHANGED <<unsettled, halt, stop, expired, resumed>>
    BY <1>18 DEF Accept, account, control
  <2>4. DropLocals(w)
    BY <1>18 DEF Accept
  <2>5. /\ ceiling' \in [Workers -> Nat] /\ jobUsd' \in [Workers -> Nat]
        /\ exchanges' \in [Workers -> Nat] /\ timeouts' \in [Workers -> Nat]
        /\ failures' \in [Workers -> Nat] /\ failure' \in [Workers -> Failures]
    BY <2>4 DEF DropLocals, Failures
  <2> QED BY <2>1, <2>2, <2>3, <2>5
<1>19. CASE Conclude(w)
  <2>1. /\ task' \in [Workers -> Components \cup {Report, None}] /\ pc' \in [Workers -> Steps]
        /\ phase' \in [Components -> Phases] /\ reviews' \in [Components -> Nat]
    BY <1>19 DEF Conclude, AfterReview, LeaveTask, NextJob, Replaceable, Optional, IsReport, IsStride, Phases
  <2>2. deferred' \in [Components -> Nat]
    BY <1>19 DEF Conclude, Deferring
  <2>6. halt' \in BOOLEAN
    BY <1>19, Zenon DEF Conclude
  <2>3. /\ UNCHANGED <<calls, spent, inflight, carried, paidRetries, required, reportPlanned>>
        /\ UNCHANGED <<observed, unsettled, stop, expired, resumed>>
    BY <1>19 DEF Conclude, account
  <2>4. DropLocals(w)
    BY <1>19 DEF Conclude
  <2>5. /\ ceiling' \in [Workers -> Nat] /\ jobUsd' \in [Workers -> Nat]
        /\ exchanges' \in [Workers -> Nat] /\ timeouts' \in [Workers -> Nat]
        /\ failures' \in [Workers -> Nat] /\ failure' \in [Workers -> Failures]
    BY <2>4 DEF DropLocals, Failures
  <2> QED BY <2>1, <2>2, <2>3, <2>5, <2>6
<1> QED
  BY <1>1, <1>2, <1>3, <1>4, <1>5, <1>6, <1>7, <1>8, <1>9, <1>10, <1>11, <1>12, <1>13,
     <1>14, <1>15, <1>16, <1>17, <1>18, <1>19 DEF Step
-----------------------------------------------------------------------------
(***************************************************************************)
(* The parts of the invariant                                              *)
(***************************************************************************)

\* The strengthened invariant holds at the start of a run.
LEMMA InitInv == Init => IInv
<1> SUFFICES ASSUME Init PROVE IInv
  OBVIOUS
<1>1. TypeOK
  BY InitType
<1>2. IsFiniteSet(required)
  <2>1. IsFiniteSet({1}) /\ IsFiniteSet(Components)
    BY FS_Singleton, NamesAssumption
  <2> QED BY <2>1, FS_Product DEF Init
<1>3. InCall = {} /\ Deciding = {}
  BY DEF Init, InCall, Deciding
<1>4. Cardinality(InCall) = 0 /\ Cardinality(Deciding) = 0
  BY <1>3, FS_EmptySet
<1>5. Cardinality(Workers) \in Nat /\ Cardinality(Workers) >= 1
  BY WorkerSets
<1>6. Overrun * Cardinality(Workers) \in Nat /\ Overrun * inflight = 0
  BY <1>5, SlackMonotone, AmountsAssumption DEF Init
<1>7. calls - carried[1] = 0 /\ spent - carried[2] = 0
  BY <1>1 DEF Init, TypeOK
<1>8. InflightCounts /\ HeldReservations /\ TaskHeld /\ ReportCold
  BY <1>4 DEF Init, InflightCounts, HeldReservations, TaskHeld, ReportCold, Roles
<1>9. RetriesAccounted
  BY <1>4, <1>5, BoundsAssumption DEF Init, RetriesAccounted
<1>10. SpendWithinLimit /\ ReportFunded
  BY <1>6, <1>7, AmountsAssumption, BoundsAssumption
     DEF SpendWithinLimit, ReportFunded, OwnUsd, OwnCalls, Larger
<1> QED BY <1>1, <1>2, <1>8, <1>9, <1>10 DEF IInv

\* The plan stays finite: a component's batches are counted, accepted jobs leave.
LEMMA RequiredStep ==
    ASSUME TypeOK, IsFiniteSet(required), NEW w \in Workers, Step(w)
    PROVE  IsFiniteSet(required')
<1>1. CASE TakeComponent(w)
  <2>1. PICK c \in Components, n \in 1..MaxBatches :
          required' = (required \ {<<c, 1>>}) \cup ({c} \X (1..n))
    BY <1>1 DEF TakeComponent
  <2>2. IsFiniteSet({c})
    BY FS_Singleton
  <2>3. IsFiniteSet(1..n)
    BY FS_Interval, BoundsAssumption
  <2>4. IsFiniteSet({c} \X (1..n))
    BY <2>2, <2>3, FS_Product
  <2>5. IsFiniteSet(required \ {<<c, 1>>})
    BY FS_RemoveElement
  <2> QED BY <2>1, <2>4, <2>5, FS_Union
<1>2. CASE Accept(w)
  <2>1. required' \in SUBSET required
    BY <1>2 DEF Accept
  <2> QED BY <2>1, FS_Subset
<1>3. CASE ~TakeComponent(w) /\ ~Accept(w)
  <2>1. required' = required
    BY <1>3 DEF Step, TakeDeferred, TakeReport, RefuseJob, ReuseReceipt, BeginJob, RefuseCall,
       RefuseForTime, ReserveCall, Answer, FailCall, LoseCost, DecideRetry, GiveUp, RecordRetry,
       Repeat, NextExchange, RejectAnswer, Conclude, plan
  <2> QED BY <2>1
<1> QED BY <1>1, <1>2, <1>3

\* Every step leaves each running call a reservation within the call limits.
LEMMA HeldStep ==
    ASSUME TypeOK, IsFiniteSet(required), HeldReservations, NEW w \in Workers, Step(w)
    PROVE  HeldReservations'
<1>1. CASE QuietStep(w)
  BY <1>1, QuietSteps, QuietKeeps
<1>2. CASE ReserveCall(w)
  <2>1. CeilingOf(w) \in MinCallUsd..CallUsd
    BY <1>2, CeilingFits DEF ReserveCall
  <2> QED BY <1>2, <2>1 DEF ReserveCall, Move, HeldReservations, TypeOK
<1>3. CASE ReuseReceipt(w) \/ DecideRetry(w) \/ RecordRetry(w)
  BY <1>3 DEF ReuseReceipt, DecideRetry, RecordRetry, Move, HeldReservations, TypeOK
<1>4. CASE Answer(w) \/ FailCall(w) \/ LoseCost(w)
  BY <1>4 DEF Answer, FailCall, LoseCost, Move, HeldReservations, TypeOK
<1> QED BY <1>1, <1>2, <1>3, <1>4 DEF Step, QuietStep

\* Only accepting the report measures its role, and takes it off the plan;
\* and a report that was begun never counts as unstarted again.
LEMMA ReportStep ==
    ASSUME TypeOK, TaskHeld, ReportCold, NEW w \in Workers, Step(w)
    PROVE  /\ TaskHeld' /\ ReportCold'
           /\ ReportUnstarted' => ReportUnstarted
<1> USE NamesAssumption DEF TypeOK, Move, Steps
<1>1. CASE TakeComponent(w) \/ TakeDeferred(w) \/ TakeReport(w)
  BY <1>1 DEF TakeComponent, TakeDeferred, TakeReport, TaskHeld, ReportCold,
     ReportUnstarted, account, plan, control
<1>2. CASE RefuseJob(w)
  BY <1>2 DEF RefuseJob, TaskHeld, ReportCold, ReportUnstarted
<1>3. CASE Conclude(w)
  BY <1>3 DEF Conclude, AfterReview, LeaveTask, NextJob, Replaceable, Optional, TaskHeld, ReportCold,
     ReportUnstarted
<1>4. CASE Accept(w)
  <2>1. TaskHeld'
    BY <1>4 DEF Accept, AfterStride, AfterReview, LeaveTask, NextJob, TaskHeld
  <2>2. ReportCold'
    BY <1>4 DEF Accept, ReportCold, Role, IsReport, IsStride, Optional, Roles
  <2>3. UNCHANGED halt /\ \A v \in Workers \ {w} : task'[v] = task[v]
    BY <1>4 DEF Accept, AfterStride, AfterReview, LeaveTask, NextJob, control
  <2>4. (reportPlanned' = 0 /\ IsReport(w)) \/ (reportPlanned' = reportPlanned /\ ~IsReport(w))
    BY <1>4 DEF Accept, IsReport, IsStride, Optional
  <2>5. ReportUnstarted' => ReportUnstarted
    BY <2>3, <2>4 DEF ReportUnstarted, IsReport
  <2> QED BY <2>1, <2>2, <2>5
<1>5. CASE BeginJob(w) \/ ReuseReceipt(w) \/ ReserveCall(w) \/ Answer(w) \/ FailCall(w)
           \/ LoseCost(w) \/ DecideRetry(w) \/ RecordRetry(w) \/ NextExchange(w)
  BY <1>5 DEF BeginJob, ReuseReceipt, ReserveCall, Answer, FailCall, LoseCost, DecideRetry,
     RecordRetry, NextExchange, TaskHeld, ReportCold, ReportUnstarted, plan, control
<1>6. CASE RefuseCall(w) \/ RefuseForTime(w) \/ GiveUp(w) \/ Repeat(w) \/ RejectAnswer(w)
  BY <1>6 DEF RefuseCall, RefuseForTime, GiveUp, Repeat, RejectAnswer, Raise, TaskHeld,
     ReportCold, ReportUnstarted, plan, control
<1> QED BY <1>1, <1>2, <1>3, <1>4, <1>5, <1>6 DEF Step

\* Every step keeps the recorded and decided paid retries within the limit plus
\* one per further thread.
LEMMA RetryStep ==
    ASSUME TypeOK, RetriesAccounted, NEW w \in Workers, Step(w)
    PROVE  RetriesAccounted'
<1> USE BoundsAssumption DEF RetriesAccounted
<1>0. /\ Deciding \in SUBSET Workers /\ Deciding' \in SUBSET Workers
      /\ Cardinality(Deciding) \in Nat /\ Cardinality(Deciding') \in Nat
      /\ Cardinality(Deciding') <= Cardinality(Workers)
      /\ Cardinality(Workers) \in Nat
  <2>1. Deciding \in SUBSET Workers /\ Deciding' \in SUBSET Workers
    BY DEF Deciding
  <2> QED BY <2>1, WorkerSets
<1>1. CASE QuietStep(w)
  BY <1>1, QuietSteps, QuietKeeps DEF Quiet
<1>2. CASE ReuseReceipt(w) \/ ReserveCall(w)
  <2>1. Deciding' = Deciding
    BY <1>2 DEF ReuseReceipt, ReserveCall, Move, Deciding, TypeOK
  <2> QED BY <1>2, <2>1 DEF ReuseReceipt, ReserveCall
<1>3. CASE Answer(w) \/ FailCall(w) \/ LoseCost(w)
  <2>1. Deciding' = Deciding
    BY <1>3 DEF Answer, FailCall, LoseCost, Move, Deciding, TypeOK
  <2> QED BY <1>3, <2>1 DEF Answer, FailCall, LoseCost
<1>4. CASE DecideRetry(w)
  <2>1. paidRetries' = paidRetries /\ failure' = failure
    BY <1>4 DEF DecideRetry
  <2>2. CASE failure[w] \in {"timeout", "paid"}
    <3>1. paidRetries < MaxPaidRetries
      BY <1>4, <2>2 DEF DecideRetry, MayRetry
    <3> QED BY <1>0, <2>1, <3>1 DEF TypeOK
  <2>3. CASE failure[w] \notin {"timeout", "paid"}
    <3>1. Deciding' = Deciding
      BY <1>4, <2>1, <2>3 DEF DecideRetry, Move, Deciding, TypeOK
    <3> QED BY <2>1, <3>1
  <2> QED BY <2>2, <2>3
<1>5. CASE RecordRetry(w)
  <2>1. CASE failure[w] \in {"timeout", "paid"}
    <3>1. Deciding' = Deciding \ {w} /\ w \in Deciding
      BY <1>5, <2>1 DEF RecordRetry, Move, Deciding, TypeOK
    <3>2. Cardinality(Deciding') = Cardinality(Deciding) - 1
      BY <1>0, <3>1, WorkerLeaves
    <3> QED BY <1>0, <1>5, <2>1, <3>2 DEF RecordRetry, TypeOK
  <2>2. CASE failure[w] \notin {"timeout", "paid"}
    <3>1. Deciding' = Deciding
      BY <1>5, <2>2 DEF RecordRetry, Move, Deciding, TypeOK
    <3> QED BY <1>5, <2>2, <3>1 DEF RecordRetry, TypeOK
  <2> QED BY <2>1, <2>2
<1> QED BY <1>1, <1>2, <1>3, <1>4, <1>5 DEF Step, QuietStep
-----------------------------------------------------------------------------
(***************************************************************************)
(* Money                                                                   *)
(***************************************************************************)

\* Every step but an admission leaves the potential OwnUsd + Overrun*inflight
\* no larger: a settlement gives back the overrun its call could still have.
LEMMA PotentialStep ==
    ASSUME TypeOK, InflightCounts, NEW w \in Workers, Step(w), ~ReserveCall(w)
    PROVE  /\ OwnUsd' + Overrun * inflight' <= OwnUsd + Overrun * inflight
           /\ OwnCalls' = OwnCalls
<1> USE DEF OwnUsd, OwnCalls
<1>0. /\ Overrun * inflight \in Nat /\ Overrun * inflight' \in Nat
      /\ Overrun * (inflight - 1) = Overrun * inflight - Overrun
  <2>1. inflight \in Nat /\ inflight' \in Nat
    BY InflightStep DEF TypeOK
  <2> QED BY <2>1, SlackMonotone, SlackPerCall
<1>1. CASE QuietStep(w) \/ DecideRetry(w) \/ RecordRetry(w)
  <2>1. UNCHANGED account
    BY <1>1, QuietSteps DEF Quiet, DecideRetry, RecordRetry
  <2> QED BY <1>0, <2>1 DEF account, TypeOK
<1>2. CASE ReuseReceipt(w)
  <2>1. PICK cost \in CachedCosts :
          \/ /\ calls' = calls + cost[1]
             /\ spent' = spent + cost[2]
             /\ carried' = <<carried[1] + cost[1], carried[2] + cost[2]>>
          \/ UNCHANGED <<calls, spent, carried>>
    BY <1>2 DEF ReuseReceipt
  <2>2. cost[1] \in Nat /\ cost[2] \in Nat
    BY CarriedAssumption
  <2>3. inflight' = inflight
    BY <1>2 DEF ReuseReceipt
  <2> QED BY <1>0, <2>1, <2>2, <2>3 DEF TypeOK
<1>3. CASE Answer(w) \/ FailCall(w)
  <2>1. PICK cost \in 0..(ceiling[w] + Overrun) : Settle(w, cost)
    BY <1>3, AmountsAssumption DEF Answer, FailCall, TypeOK
  <2>2. carried' = carried /\ calls' = calls
    BY <1>3 DEF Answer, FailCall
  <2>3. spent' <= spent + Overrun /\ spent' \in Int
    BY <2>1, AmountsAssumption DEF Settle, TypeOK
  <2>4. inflight' = inflight - 1
    BY <2>1 DEF Settle
  <2> QED BY <1>0, <2>2, <2>3, <2>4, AmountsAssumption DEF TypeOK
<1>4. CASE LoseCost(w)
  <2>1. spent' = spent /\ carried' = carried /\ calls' = calls /\ inflight' = inflight - 1
    BY <1>4 DEF LoseCost
  <2> QED BY <1>0, <2>1, AmountsAssumption DEF TypeOK
<1> QED BY <1>1, <1>2, <1>3, <1>4 DEF Step, QuietStep

\* What an admission leaves: the limit less what is held back for others.
LEMMA AdmissionStep ==
    ASSUME TypeOK, IsFiniteSet(required), InflightCounts, NEW w \in Workers, ReserveCall(w)
    PROVE  /\ OwnUsd' + Overrun * inflight'
                 <= MaxUsd - Reserve(w) + Overrun * Cardinality(Workers)
           /\ OwnCalls' <= CallLimit(w)
           /\ OwnUsd' \in Int /\ OwnCalls' \in Int
           /\ Overrun * inflight' \in Nat /\ Overrun * Cardinality(Workers) \in Nat
<1>1. inflight' \in Nat /\ inflight' <= Cardinality(Workers)
  BY InflightStep DEF Step
<1>2. Cardinality(Workers) \in Nat
  BY WorkerSets
<1>3. /\ Overrun * inflight' \in Nat /\ Overrun * Cardinality(Workers) \in Nat
      /\ Overrun * inflight' <= Overrun * Cardinality(Workers)
  BY <1>1, <1>2, SlackMonotone
<1>4. /\ CeilingOf(w) \in Int /\ Reserve(w) \in Nat /\ CallLimit(w) \in Int
      /\ spent + CeilingOf(w) + Reserve(w) <= MaxUsd
      /\ calls < CallLimit(w)
  BY CeilingFits, ReserveBounds, AmountsAssumption DEF ReserveCall
<1>5. spent' = spent + CeilingOf(w) /\ calls' = calls + 1 /\ carried' = carried
  BY DEF ReserveCall
<1> QED BY <1>3, <1>4, <1>5, AmountsAssumption DEF TypeOK, OwnUsd, OwnCalls

\* Every step keeps the cost with its possible overruns within the limit.
LEMMA SpendStep ==
    ASSUME TypeOK, IsFiniteSet(required), InflightCounts, SpendWithinLimit,
           NEW w \in Workers, Step(w)
    PROVE  SpendWithinLimit'
<1>1. CASE ReserveCall(w)
  <2>1. Reserve(w) \in Nat
    BY ReserveBounds
  <2> QED BY <1>1, <2>1, AdmissionStep, AmountsAssumption DEF SpendWithinLimit
<1>2. CASE ~ReserveCall(w)
  <2>1. /\ Overrun * inflight \in Nat /\ Overrun * inflight' \in Nat
        /\ Overrun * Cardinality(Workers) \in Nat
    BY InflightStep, WorkerSets, SlackMonotone DEF TypeOK
  <2>2. TypeOK'
    BY TypeStep
  <2> QED BY <1>2, <2>1, <2>2, PotentialStep, AmountsAssumption
        DEF SpendWithinLimit, OwnUsd, TypeOK
<1> QED BY <1>1, <1>2

\* Every step leaves the unstarted report its allowance and its two calls.
LEMMA FundedStep ==
    ASSUME TypeOK, IsFiniteSet(required), InflightCounts, TaskHeld, ReportCold, ReportFunded,
           NEW w \in Workers, Step(w)
    PROVE  ReportFunded'
<1> SUFFICES ASSUME ReportUnstarted'
             PROVE  /\ OwnUsd' + Overrun * inflight'
                          <= MaxUsd - CallUsd + Overrun * Cardinality(Workers)
                    /\ OwnCalls' <= Larger(0, MaxCalls - 2)
  BY DEF ReportFunded
<1>1. ReportUnstarted
  BY ReportStep
<1>2. CASE ReserveCall(w)
  <2>1. reportPlanned = 1 /\ task[w] # Report
    BY <1>1 DEF ReportUnstarted
  <2>2. /\ Reserve(w) \in Nat /\ Reserve(w) >= CallUsd
        /\ CallLimit(w) \in Int /\ CallLimit(w) <= MaxCalls - 2
    BY <2>1, ReserveBounds
  <2> QED BY <1>2, <2>2, AdmissionStep, AmountsAssumption, BoundsAssumption DEF Larger
<1>3. CASE ~ReserveCall(w)
  <2>1. /\ OwnUsd + Overrun * inflight <= MaxUsd - CallUsd + Overrun * Cardinality(Workers)
        /\ OwnCalls <= Larger(0, MaxCalls - 2)
    BY <1>1 DEF ReportFunded
  <2>2. /\ Overrun * inflight \in Nat /\ Overrun * inflight' \in Nat
        /\ Overrun * Cardinality(Workers) \in Nat
    BY InflightStep, WorkerSets, SlackMonotone DEF TypeOK
  <2>3. TypeOK'
    BY TypeStep
  <2>4. OwnUsd \in Int /\ OwnUsd' \in Int
    BY <2>3 DEF OwnUsd, TypeOK
  <2> QED BY <1>3, <2>1, <2>2, <2>4, PotentialStep, AmountsAssumption
<1> QED BY <1>2, <1>3
-----------------------------------------------------------------------------
(***************************************************************************)
(* The invariant holds of every behaviour                                  *)
(***************************************************************************)

\* A stop request, the deadline, the end of the run and a stuttering step
\* change nothing the invariant is about.
LEMMA ControlStep ==
    ASSUME IInv, RequestStop \/ Expire \/ UNCHANGED vars
    PROVE  IInv' /\ UNCHANGED <<account, pc, ceiling>>
<1> USE DEF RequestStop, Expire, vars, account, plan, worker, control
<1>1. /\ UNCHANGED <<account, paidRetries, plan, worker, halt>>
      /\ stop' \in BOOLEAN /\ expired' \in BOOLEAN /\ resumed' \in BOOLEAN
  BY DEF IInv, TypeOK
<1>2. TypeOK'
  BY <1>1 DEF IInv, TypeOK
<1>3. IsFiniteSet(required')
  BY <1>1 DEF IInv
<1>4. InCall' = InCall /\ Deciding' = Deciding
  BY <1>1 DEF InCall, Deciding
<1>5. InflightCounts' /\ RetriesAccounted'
  BY <1>1, <1>4 DEF IInv, InflightCounts, RetriesAccounted
<1>6. HeldReservations' /\ TaskHeld' /\ ReportCold'
  BY <1>1 DEF IInv, HeldReservations, TaskHeld, ReportCold
<1>7. SpendWithinLimit' /\ ReportFunded'
  BY <1>1 DEF IInv, SpendWithinLimit, ReportFunded, ReportUnstarted, OwnUsd, OwnCalls
<1> QED BY <1>1, <1>2, <1>3, <1>5, <1>6, <1>7 DEF IInv

\* Every step, and a stutter, keeps the strengthened invariant.
LEMMA InductiveStep == IInv /\ [Next]_vars => IInv'
<1> SUFFICES ASSUME IInv, [Next]_vars PROVE IInv'
  OBVIOUS
<1>1. ASSUME NEW w \in Workers, Step(w) PROVE IInv'
  <2>1. TypeOK'
    BY <1>1, TypeStep DEF IInv
  <2>2. IsFiniteSet(required')
    BY <1>1, RequiredStep DEF IInv
  <2>3. InflightCounts'
    BY <1>1, InflightStep DEF IInv
  <2>4. HeldReservations'
    BY <1>1, HeldStep DEF IInv
  <2>5. TaskHeld' /\ ReportCold'
    BY <1>1, ReportStep DEF IInv
  <2>6. RetriesAccounted'
    BY <1>1, RetryStep DEF IInv
  <2>7. SpendWithinLimit' /\ ReportFunded'
    BY <1>1, SpendStep, FundedStep DEF IInv
  <2> QED BY <2>1, <2>2, <2>3, <2>4, <2>5, <2>6, <2>7 DEF IInv
<1>2. CASE RequestStop \/ Expire \/ UNCHANGED vars
  BY <1>2, ControlStep
<1> QED BY <1>1, <1>2 DEF Next, Terminating

\* The strengthened invariant holds in every reachable state.
THEOREM Invariance == Spec => []IInv
BY InitInv, InductiveStep, PTL DEF Spec

\* Every variable keeps its type; in particular the count of running calls
\* never goes below zero, whatever calls are refused, fail or lose their cost.
THEOREM TypeCorrect == Spec => []TypeOK
<1>1. IInv => TypeOK
  BY DEF IInv
<1> QED BY <1>1, Invariance, PTL

\* Concurrent admissions never spend beyond max_usd but by reported costs
\* above their reservations, at most one per thread (DiscoveryBudget).
THEOREM SpendBound == Spec => []SpendWithinLimit
<1>1. IInv => SpendWithinLimit
  BY DEF IInv
<1> QED BY <1>1, Invariance, PTL

\* The report's allowance and calls survive every interleaving of the work
\* before it (AssessmentBudget._reserve and call_limit).
THEOREM ReportAllowance == Spec => []ReportFunded
<1>1. IInv => ReportFunded
  BY DEF IInv
<1> QED BY <1>1, Invariance, PTL

\* The unlocked check of the paid-retry limit is off by less than the number
\* of threads (DiscoveryBudget.invoke).
THEOREM PaidRetryBound == Spec => []PaidRetriesNearLimit
<1>1. IInv => PaidRetriesNearLimit
  <2> SUFFICES ASSUME IInv PROVE PaidRetriesNearLimit
    OBVIOUS
  <2>1. Deciding \in SUBSET Workers
    BY DEF Deciding
  <2>2. Cardinality(Deciding) \in Nat /\ Cardinality(Workers) \in Nat
    BY <2>1, WorkerSets
  <2> QED BY <2>2, BoundsAssumption
        DEF IInv, TypeOK, RetriesAccounted, PaidRetriesNearLimit
<1> QED BY <1>1, Invariance, PTL
-----------------------------------------------------------------------------
(***************************************************************************)
(* The budget implements the ledger                                        *)
(***************************************************************************)

\* A run starts as a ledger without reservations.
LEMMA LedgerInit == Init => Ledger!Start
<1> SUFFICES ASSUME Init PROVE Ledger!Start
  OBVIOUS
<1>1. TypeOK
  BY InitType
<1>2. Reservation = [w \in Workers |-> 0]
  BY DEF Init, Reservation
<1>3. spent \in Nat /\ calls \in Nat
  BY CarriedAssumption DEF Init
<1>4. unsettled = FALSE
  BY DEF Init
<1> QED BY <1>2, <1>3, <1>4 DEF Ledger!Start

\* An admission opens the worker's reservation.
LEMMA ReserveOpens ==
    ASSUME IInv, NEW w \in Workers, ReserveCall(w)
    PROVE  \E usd \in MinCallUsd..CallUsd : Ledger!Open(w, usd)
<1> USE DEF IInv
<1>1. /\ CeilingOf(w) \in MinCallUsd..CallUsd /\ Reserve(w) \in Nat
      /\ spent + CeilingOf(w) + Reserve(w) <= MaxUsd
      /\ calls < CallLimit(w) /\ CallLimit(w) \in Int /\ CallLimit(w) <= MaxCalls
      /\ CeilingOf(w) < CallUsd => inflight = 0
  BY CeilingFits, ReserveBounds DEF ReserveCall
<1>2. Reservation[w] = 0 /\ ~unsettled
  BY DEF ReserveCall, MayReserve, Move, Reservation
<1>3. Reservation' = [Reservation EXCEPT ![w] = CeilingOf(w)]
  BY DEF ReserveCall, Move, Reservation, TypeOK
<1>4. inflight = 0 => \A d \in Workers : Reservation[d] = 0
  <2>1. IsFiniteSet(InCall)
    BY WorkerSets DEF InCall
  <2>2. inflight = 0 => InCall = {}
    BY <2>1, FS_EmptySet DEF InflightCounts
  <2> QED BY <2>2 DEF InCall, Reservation
<1>5. calls < MaxCalls /\ spent + CeilingOf(w) <= MaxUsd
  BY <1>1, AmountsAssumption, BoundsAssumption DEF TypeOK
<1>6. spent' = spent + CeilingOf(w) /\ calls' = calls + 1 /\ unsettled' = unsettled
  BY DEF ReserveCall
<1>7. Ledger!Open(w, CeilingOf(w))
  BY <1>1, <1>2, <1>3, <1>4, <1>5, <1>6 DEF Ledger!Open
<1> QED BY <1>1, <1>7

\* A settlement closes it, an unknown cost forfeits it.
LEMMA SettleCloses ==
    ASSUME IInv, NEW w \in Workers, Answer(w) \/ FailCall(w)
    PROVE  \E usd \in 0..(CallUsd + Overrun) : Ledger!Close(w, usd)
<1> USE DEF IInv
<1>1. pc[w] = "call" /\ ceiling[w] \in MinCallUsd..CallUsd
  BY DEF Answer, FailCall, Move, HeldReservations
<1>2. PICK cost \in 0..(ceiling[w] + Overrun) : Settle(w, cost)
  BY AmountsAssumption DEF Answer, FailCall, TypeOK
<1>3. Reservation[w] = ceiling[w] /\ Reservation[w] > 0
  BY <1>1, AmountsAssumption DEF Reservation
<1>4. Reservation' = [Reservation EXCEPT ![w] = 0]
  BY DEF Answer, FailCall, Move, Reservation, TypeOK
<1>5. spent' = spent - Reservation[w] + cost
  BY <1>2, <1>3, AmountsAssumption DEF Settle, TypeOK
<1>6. calls' = calls /\ unsettled' = unsettled
  BY DEF Answer, FailCall
<1>7. Ledger!Close(w, cost)
  BY <1>2, <1>3, <1>4, <1>5, <1>6 DEF Ledger!Close
<1>8. cost \in 0..(CallUsd + Overrun)
  BY <1>1, <1>2, AmountsAssumption
<1> QED BY <1>7, <1>8

\* A call whose cost stays unknown keeps its reservation as its charge.
LEMMA LostCostForfeits ==
    ASSUME IInv, NEW w \in Workers, LoseCost(w)
    PROVE  Ledger!Forfeit(w)
<1>1. Reservation[w] > 0
  BY AmountsAssumption DEF IInv, LoseCost, Move, HeldReservations, Reservation
<1>2. Reservation' = [Reservation EXCEPT ![w] = 0]
  BY DEF IInv, LoseCost, Move, Reservation, TypeOK
<1> QED BY <1>1, <1>2 DEF LoseCost, Ledger!Forfeit

\* Every step of the budget is a step of the ledger or leaves it unchanged.
LEMMA LedgerSteps == IInv /\ [Next]_vars => [Ledger!LedgerNext]_Ledger!ledger
<1> SUFFICES ASSUME IInv, [Next]_vars
             PROVE  Ledger!LedgerNext \/ UNCHANGED Ledger!ledger
  OBVIOUS
<1> USE DEF Ledger!LedgerNext, Ledger!ledger
<1>1. ASSUME NEW w \in Workers, Step(w)
      PROVE  Ledger!LedgerNext \/ UNCHANGED Ledger!ledger
  <2>1. CASE ReserveCall(w)
    BY <2>1, ReserveOpens
  <2>2. CASE Answer(w) \/ FailCall(w)
    BY <2>2, SettleCloses
  <2>3. CASE LoseCost(w)
    BY <2>3, LostCostForfeits
  <2>4. CASE ReuseReceipt(w)
    <3>1. Reservation' = Reservation
      BY <2>4 DEF IInv, TypeOK, ReuseReceipt, Move, Reservation
    <3>2. CASE UNCHANGED <<calls, spent>>
      BY <2>4, <3>1, <3>2 DEF ReuseReceipt
    <3>3. CASE ~UNCHANGED <<calls, spent>>
      <4>1. Ledger!Carry
        BY <2>4, <3>1, <3>3 DEF ReuseReceipt, Ledger!Carry
      <4> QED BY <4>1
    <3> QED BY <3>2, <3>3
  <2>5. CASE DecideRetry(w) \/ RecordRetry(w)
    <3>1. Reservation' = Reservation
      BY <2>5 DEF IInv, TypeOK, DecideRetry, RecordRetry, Move, Reservation
    <3> QED BY <2>5, <3>1 DEF DecideRetry, RecordRetry, account
  <2>6. CASE QuietStep(w)
    <3>1. Quiet(w) /\ Reservation' = Reservation
      BY <2>6, QuietSteps, QuietKeeps DEF IInv
    <3> QED BY <3>1 DEF Quiet, account
  <2> QED BY <1>1, <2>1, <2>2, <2>3, <2>4, <2>5, <2>6 DEF Step, QuietStep
<1>2. CASE RequestStop \/ Expire \/ UNCHANGED vars
  <2>1. UNCHANGED <<account, pc, ceiling>>
    BY <1>2, ControlStep
  <2> QED BY <2>1 DEF account, Reservation
<1> QED BY <1>1, <1>2 DEF Next, Terminating

\* Every behaviour of the budget is one of the ledger: a call is paid from a
\* reservation within the limits and settled once, a short reservation is the
\* only open one, and nothing is reserved after an unknown cost.
THEOREM BudgetRefinesLedger == Spec => ImplementsLedger
BY Invariance, LedgerInit, LedgerSteps, PTL DEF Spec, ImplementsLedger, Ledger!LedgerSpec
=============================================================================
