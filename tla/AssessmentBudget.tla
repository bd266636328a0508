-------------------------- MODULE AssessmentBudget --------------------------
(***************************************************************************)
(* Admission, settlement and retry of the model calls of one assessment    *)
(* run: DiscoveryBudget (scripts/runtime/multi_repo_discovery.py), its     *)
(* subclass AssessmentBudget and the job loop of AssessmentJobs.exchange   *)
(* (scripts/runtime/assessment_jobs.py), driven by the component pool of   *)
(* scripts/orchestrator/orchestration_controller.py.                       *)
(*                                                                         *)
(* Several workers share one account.  A call is admitted under the        *)
(* budget's lock, which reserves its ceiling; it runs without the lock and *)
(* settles under it.  The retry bookkeeping runs without the lock.         *)
(* Amounts are in cents.  Exchanges of a job, retries and batches are      *)
(* bounded by the source's own constants.                                  *)
(***************************************************************************)
EXTENDS Integers, FiniteSets

CONSTANTS
    Workers,            \* threads of the component pool
    Components,         \* components of the assessed system
    Report,             \* the report job, stage2:security-architecture
    None,               \* no task
    MaxUsd,             \* max_usd: the run's cost limit
    CallUsd,            \* call_usd: a call's allowance
    MinCallUsd,         \* MIN_CALL_USD
    MaxCalls,           \* max_calls
    Overrun,            \* how far a reported cost may exceed its reservation
    MaxBatches,         \* bound: STRIDE jobs of one component
    MaxReviews,         \* bound: evidence reviews of one component
    MaxExchanges,       \* MAX_EXCHANGES: model calls one job may need
    MaxTimeoutRetries,  \* MAX_TIMEOUT_RETRIES
    MaxFailureRetries,  \* Len(TRANSIENT_RETRY_DELAYS)
    MaxPaidRetries,     \* MAX_PAID_RETRIES
    Restored,           \* <<calls, usd>> pairs a resumed run may start from
    CachedCosts         \* <<calls, usd>> pairs a reused receipt may carry

ASSUME WorkersAssumption == IsFiniteSet(Workers) /\ Workers # {}
ASSUME NamesAssumption ==
    /\ IsFiniteSet(Components)
    /\ Report \notin Components /\ None \notin Components /\ Report # None
ASSUME AmountsAssumption ==
    /\ MinCallUsd \in Nat \ {0} /\ CallUsd \in Nat /\ MaxUsd \in Nat
    /\ MinCallUsd <= CallUsd /\ CallUsd <= MaxUsd
    /\ Overrun \in Nat
ASSUME BoundsAssumption ==
    /\ MaxCalls \in Nat \ {0} /\ MaxBatches \in Nat \ {0} /\ MaxReviews \in Nat
    /\ MaxExchanges \in Nat \ {0}
    /\ MaxTimeoutRetries \in Nat /\ MaxFailureRetries \in Nat
    /\ MaxPaidRetries \in Nat \ {0}
ASSUME CarriedAssumption ==
    /\ Restored \subseteq Nat \X Nat
    /\ CachedCosts \subseteq Nat \X Nat

VARIABLES
    calls, spent,       \* the account: admitted calls, charged plus reserved cents
    inflight,           \* _inflight: calls whose cost is not settled
    unsettled,          \* a finished call left its cost unknown
    carried,            \* history: calls and cents restored or reused, not newly spent
    paidRetries,        \* rows of `retries` with "paid"
    required,           \* STRIDE rows of `required`, one <<component, n>> per job
    reportPlanned,      \* required[REPORT_JOB]: 1 until the report is accepted
    observed,           \* largest accepted cost per role
    phase,              \* progress of each component through the pool
    reviews,            \* reviews of a component decided before its current one
    deferred,           \* reviews of a component the STRIDE reserve blocked
    task,               \* the component, or the report, a worker is busy with
    pc,                 \* where in exchange / invoke each worker is
    ceiling,            \* the reservation of a worker's latest call
    jobUsd,             \* reported cost of the job's calls so far
    exchanges,          \* model calls of the job answered so far
    timeouts, failures, \* retry counters of the current call
    failure,            \* how the latest call failed
    halt,               \* the pool's halt event: a component failed
    stop,               \* the run was asked to stop
    expired,            \* the aggregate deadline passed
    resumed             \* the session continues a run that bought calls before

account == <<calls, spent, inflight, unsettled, carried>>
plan    == <<required, reportPlanned, observed, phase, reviews, deferred>>
worker  == <<task, pc, ceiling, jobUsd, exchanges, timeouts, failures, failure>>
control == <<halt, stop, expired, resumed>>
vars    == <<account, paidRetries, plan, worker, control>>

Roles  == {"stride_analyzer", "evidence_verifier", "secarch_renderer"}
Phases == {"queued", "stride", "review", "done", "failed"}
Steps  == {"idle", "ready", "admit", "call", "answered", "reused",
           "failed", "record", "again", "raised"}
TransportFailures == {"free", "paid", "limit", "host"}
Failures == TransportFailures \cup
            {"none", "timeout", "operator", "cancelled", "unknown", "budget",
             "answer", "error"}

Larger(a, b)  == IF a >= b THEN a ELSE b
Smaller(a, b) == IF a <= b THEN a ELSE b

TypeOK ==
    /\ calls \in Nat /\ spent \in Int /\ inflight \in Nat
    /\ unsettled \in BOOLEAN
    /\ carried \in Nat \X Nat
    /\ paidRetries \in Nat
    /\ required \subseteq Components \X (1..MaxBatches)
    /\ reportPlanned \in {0, 1}
    /\ observed \in [Roles -> Nat]
    /\ phase \in [Components -> Phases]
    /\ reviews \in [Components -> Nat] /\ deferred \in [Components -> Nat]
    /\ task \in [Workers -> Components \cup {Report, None}]
    /\ pc \in [Workers -> Steps]
    /\ ceiling \in [Workers -> Nat]
    /\ jobUsd \in [Workers -> Nat]
    /\ exchanges \in [Workers -> Nat]
    /\ timeouts \in [Workers -> Nat] /\ failures \in [Workers -> Nat]
    /\ failure \in [Workers -> Failures]
    /\ halt \in BOOLEAN /\ stop \in BOOLEAN /\ expired \in BOOLEAN /\ resumed \in BOOLEAN

\* A fresh run starts an empty account, a resumed one the account it left;
\* every component keeps one STRIDE job allowance until its batches are known.
Init ==
    /\ carried \in Restored
    /\ calls = carried[1] /\ spent = carried[2]
    /\ inflight = 0 /\ unsettled = FALSE
    /\ paidRetries = 0
    /\ required = Components \X {1}
    /\ reportPlanned = 1
    /\ observed = [r \in Roles |-> 0]
    /\ phase = [c \in Components |-> "queued"]
    /\ reviews = [c \in Components |-> 0]
    /\ deferred = [c \in Components |-> 0]
    /\ task = [w \in Workers |-> None]
    /\ pc = [w \in Workers |-> "idle"]
    /\ ceiling = [w \in Workers |-> 0]
    /\ jobUsd = [w \in Workers |-> 0]
    /\ exchanges = [w \in Workers |-> 0]
    /\ timeouts = [w \in Workers |-> 0] /\ failures = [w \in Workers |-> 0]
    /\ failure = [w \in Workers |-> "none"]
    /\ halt = FALSE /\ stop = FALSE /\ expired = FALSE
    /\ resumed = (carried[1] > 0)
-----------------------------------------------------------------------------
(***************************************************************************)
(* What a worker may spend                                                 *)
(***************************************************************************)

IsReport(w) == task[w] = Report
IsStride(w) == task[w] \in Components /\ phase[task[w]] = "stride"
\* Evidence review passes on_failure; STRIDE and the report do not.
Optional(w) == task[w] \in Components /\ phase[task[w]] # "stride"

Role(w) == IF IsReport(w) THEN "secarch_renderer"
           ELSE IF IsStride(w) THEN "stride_analyzer" ELSE "evidence_verifier"

\* A cold role keeps a full call allowance, a measured one twice its maximum.
Estimate(role) ==
    IF observed[role] = 0 THEN CallUsd ELSE Larger(MinCallUsd, 2 * observed[role])

\* Mutant of Reserve: only optional work protects the report.
ReserveForOptional(w) ==
    IF Optional(w) THEN reportPlanned * Estimate("secarch_renderer")
                        + Cardinality(required) * Estimate("stride_analyzer")
    ELSE 0

\* Every job but the report protects the report; an optional job also
\* protects every outstanding STRIDE job.
Reserve(w) ==
    (IF IsReport(w) THEN 0 ELSE reportPlanned * Estimate("secarch_renderer"))
    + (IF Optional(w) THEN Cardinality(required) * Estimate("stride_analyzer") ELSE 0)

\* Mutant of Available: the cost of reused receipts does not count.
AvailableToOwn(w) ==
    LET unreserved == MaxUsd - (spent - carried[2]) - Reserve(w) IN
    IF Optional(w) /\ unreserved < Estimate(Role(w)) THEN 0 ELSE unreserved

Available(w) ==
    LET unreserved == MaxUsd - spent - Reserve(w) IN
    IF Optional(w) /\ unreserved < Estimate(Role(w)) THEN 0 ELSE unreserved

CallLimit(w) ==
    MaxCalls - 2 * ((IF IsReport(w) THEN 0 ELSE reportPlanned)
                    + (IF Optional(w) THEN Cardinality(required) ELSE 0))

\* Mutant of CeilingOf: every call gets its full allowance.
FullCeiling(w) == CallUsd

CeilingOf(w) == Smaller(CallUsd, Available(w))
-----------------------------------------------------------------------------
(***************************************************************************)
(* Beginning and ending a job                                              *)
(***************************************************************************)

Move(w, from, to) == pc[w] = from /\ pc' = [pc EXCEPT ![w] = to]

\* The locals of a job are gone when it ends.
DropLocals(w) ==
    /\ ceiling' = [ceiling EXCEPT ![w] = 0]
    /\ jobUsd' = [jobUsd EXCEPT ![w] = 0]
    /\ exchanges' = [exchanges EXCEPT ![w] = 0]
    /\ timeouts' = [timeouts EXCEPT ![w] = 0]
    /\ failures' = [failures EXCEPT ![w] = 0]
    /\ failure' = [failure EXCEPT ![w] = "none"]

\* A pool thread takes a component and learns its number of STRIDE jobs.
TakeComponent(w) ==
    /\ Move(w, "idle", "ready")
    /\ ~halt
    /\ \E c \in Components, n \in 1..MaxBatches :
        /\ phase[c] = "queued"
        /\ phase' = [phase EXCEPT ![c] = "stride"]
        /\ required' = (required \ {<<c, 1>>}) \cup ({c} \X (1..n))
        /\ task' = [task EXCEPT ![w] = c]
    /\ UNCHANGED <<account, paidRetries, reportPlanned, observed, reviews, deferred,
                   ceiling, jobUsd, exchanges, timeouts, failures, failure, control>>

\* Reviews the STRIDE reserve blocked are retried once the pool has drained.
TakeDeferred(w) ==
    /\ Move(w, "idle", "ready")
    /\ ~halt
    /\ \A c \in Components : phase[c] = "done"
    /\ \E c \in Components :
        /\ deferred[c] > 0
        /\ deferred' = [deferred EXCEPT ![c] = @ - 1]
        /\ task' = [task EXCEPT ![w] = c]
    /\ UNCHANGED <<account, paidRetries, required, reportPlanned, observed, phase, reviews,
                   ceiling, jobUsd, exchanges, timeouts, failures, failure, control>>

\* The report is written after every component, by one thread.
TakeReport(w) ==
    /\ Move(w, "idle", "ready")
    /\ ~halt
    /\ reportPlanned = 1
    /\ \A c \in Components : phase[c] = "done" /\ deferred[c] = 0
    /\ \A v \in Workers : task[v] = None
    /\ task' = [task EXCEPT ![w] = Report]
    /\ UNCHANGED <<account, paidRetries, plan, ceiling, jobUsd, exchanges,
                   timeouts, failures, failure, control>>

\* exchange() refuses a new job after a failure, a stop or the deadline; not
\* even an optional job is replaced then.
RefuseJob(w) ==
    /\ Move(w, "ready", "idle")
    /\ halt \/ stop \/ expired
    /\ halt' = TRUE
    /\ phase' = IF IsReport(w) THEN phase ELSE [phase EXCEPT ![task[w]] = "failed"]
    /\ task' = [task EXCEPT ![w] = None]
    /\ UNCHANGED <<account, paidRetries, required, reportPlanned, observed, reviews,
                   deferred, ceiling, jobUsd, exchanges, timeouts, failures, failure,
                   stop, expired, resumed>>

\* A receipt of an earlier run is charged to this account, whatever is left;
\* one of this run was charged when its call was made, and the account a resume
\* restores covers it.
ReuseReceipt(w) ==
    /\ Move(w, "ready", "reused")
    /\ ~(halt \/ stop \/ expired)
    /\ \E cost \in CachedCosts :
        /\ \/ /\ calls' = calls + cost[1]
              /\ spent' = spent + cost[2]
              /\ carried' = <<carried[1] + cost[1], carried[2] + cost[2]>>
           \/ /\ resumed /\ cost[1] <= carried[1] /\ cost[2] <= carried[2]
              /\ UNCHANGED <<calls, spent, carried>>
        /\ jobUsd' = [jobUsd EXCEPT ![w] = cost[2]]
    /\ UNCHANGED <<inflight, unsettled, paidRetries, plan, task, ceiling,
                   exchanges, timeouts, failures, failure, control>>

BeginJob(w) ==
    /\ Move(w, "ready", "admit")
    /\ ~(halt \/ stop \/ expired)
    /\ UNCHANGED <<account, paidRetries, plan, task, ceiling, jobUsd, exchanges,
                   timeouts, failures, failure, control>>

\* The thread has no further job of its component, or of its deferred review.
LeaveTask(w) ==
    /\ task' = [task EXCEPT ![w] = None]
    /\ pc' = [pc EXCEPT ![w] = "idle"]

NextJob(w) == pc' = [pc EXCEPT ![w] = "ready"] /\ UNCHANGED task

\* A component has no evidence review, one or several, after its STRIDE jobs.
AfterStride(w) ==
    /\ \/ /\ MaxReviews > 0
          /\ phase' = [phase EXCEPT ![task[w]] = "review"]
          /\ NextJob(w)
       \/ /\ phase' = [phase EXCEPT ![task[w]] = "done"]
          /\ LeaveTask(w)
    /\ UNCHANGED reviews

\* A review was decided: its component's next one follows, if it has one.  A
\* retried review is a task of its own.
AfterReview(w) ==
    \/ /\ phase[task[w]] = "review"
       /\ \/ /\ reviews[task[w]] + 1 < MaxReviews
             /\ reviews' = [reviews EXCEPT ![task[w]] = @ + 1]
             /\ NextJob(w)
             /\ UNCHANGED phase
          \/ /\ phase' = [phase EXCEPT ![task[w]] = "done"]
             /\ LeaveTask(w)
             /\ UNCHANGED reviews
    \/ /\ phase[task[w]] # "review"
       /\ LeaveTask(w)
       /\ UNCHANGED <<phase, reviews>>

\* An accepted job teaches its role's cost and leaves the plan.
Accept(w) ==
    /\ pc[w] \in {"answered", "reused"}
    /\ observed' = [observed EXCEPT ![Role(w)] = Larger(@, jobUsd[w])]
    /\ \/ /\ IsStride(w)
          /\ \E n \in 1..MaxBatches :
              /\ <<task[w], n>> \in required
              /\ \A m \in 1..(n - 1) : <<task[w], m>> \notin required
              /\ required' = required \ {<<task[w], n>>}
              /\ \/ /\ <<task[w], n + 1>> \in required
                    /\ NextJob(w)
                    /\ UNCHANGED <<phase, reviews>>
                 \/ <<task[w], n + 1>> \notin required /\ AfterStride(w)
          /\ UNCHANGED reportPlanned
       \/ /\ Optional(w)
          /\ AfterReview(w)
          /\ UNCHANGED <<required, reportPlanned>>
       \/ /\ IsReport(w)
          /\ reportPlanned' = 0
          /\ LeaveTask(w)
          /\ UNCHANGED <<required, phase, reviews>>
    /\ DropLocals(w)
    /\ UNCHANGED <<account, paidRetries, deferred, control>>

\* Which failures an optional job's deterministic replacement may cover.
Replaceable(w) ==
    /\ Optional(w) /\ ~stop
    /\ \/ failure[w] \in {"answer", "timeout"}
       \/ failure[w] \in TransportFailures \cup {"budget"} /\ ~unsettled

\* The reviews a job's failure leaves to the end: in the pool, a review that
\* found no budget.
Deferring(w) ==
    deferred' = [c \in Components |-> deferred[c] +
        (IF c = task[w] /\ phase[c] = "review" /\ failure[w] = "budget" THEN 1 ELSE 0)]

\* Mutant of Conclude: a failed component does not halt the pool.
ConcludeWithoutHalt(w) ==
    /\ pc[w] = "raised"
    /\ \/ Replaceable(w) /\ Deferring(w) /\ AfterReview(w)
       \/ /\ ~Replaceable(w) /\ LeaveTask(w)
          /\ phase' = IF IsReport(w) THEN phase ELSE [phase EXCEPT ![task[w]] = "failed"]
          /\ UNCHANGED <<reviews, deferred>>
    /\ DropLocals(w)
    /\ UNCHANGED <<account, paidRetries, required, reportPlanned, observed, control>>

\* A job that failed is replaced or deferred, or it fails its component and
\* halts the pool.
Conclude(w) ==
    /\ pc[w] = "raised"
    /\ \/ /\ Replaceable(w)
          /\ Deferring(w)
          /\ AfterReview(w)
          /\ UNCHANGED halt
       \/ /\ ~Replaceable(w)
          /\ LeaveTask(w)
          /\ phase' = IF IsReport(w) THEN phase ELSE [phase EXCEPT ![task[w]] = "failed"]
          /\ halt' = TRUE
          /\ UNCHANGED <<reviews, deferred>>
    /\ DropLocals(w)
    /\ UNCHANGED <<account, paidRetries, required, reportPlanned, observed, stop, expired,
                   resumed>>
-----------------------------------------------------------------------------
(***************************************************************************)
(* Admission (_invoke_once, under the lock)                                *)
(***************************************************************************)

Raise(w, from, kind) ==
    /\ Move(w, from, "raised")
    /\ failure' = [failure EXCEPT ![w] = kind]

\* Mutants of MustWait: start with whatever is left, or wait with nothing
\* running.
WaitIfBroke(w) == Available(w) < MinCallUsd /\ inflight > 0
WaitForFunds(w) == Available(w) < CallUsd

MustWait(w) == Available(w) < CallUsd /\ inflight > 0

\* Mutant of RefuseCall: a refused call, too, gives its slot back.
RefuseAndRelease(w) ==
    /\ stop \/ unsettled \/ calls >= CallLimit(w)
    /\ Raise(w, "admit", "budget")
    /\ inflight' = inflight - 1
    /\ UNCHANGED <<calls, spent, unsettled, carried, paidRetries, plan, task, ceiling,
                   jobUsd, exchanges, timeouts, failures, control>>

\* The checks of the admission loop, in their order.
RefuseCall(w) ==
    /\ \/ stop /\ Raise(w, "admit", "cancelled")
       \/ ~stop /\ unsettled /\ Raise(w, "admit", "error")
       \/ /\ ~stop /\ ~unsettled
          /\ \/ calls >= CallLimit(w)
             \/ calls < CallLimit(w) /\ MustWait(w) /\ expired
             \/ calls < CallLimit(w) /\ ~MustWait(w) /\ CeilingOf(w) < MinCallUsd
          /\ Raise(w, "admit", "budget")
    /\ UNCHANGED <<account, paidRetries, plan, task, ceiling, jobUsd, exchanges,
                   timeouts, failures, control>>

MayReserve(w) ==
    /\ ~stop /\ ~unsettled
    /\ calls < CallLimit(w)
    /\ ~MustWait(w)
    /\ CeilingOf(w) >= MinCallUsd

\* call_seconds: the time left is reserved for required work.  How much time
\* that is depends on measured durations; any admission may meet it.
RefuseForTime(w) ==
    /\ MayReserve(w)
    /\ Raise(w, "admit", "budget")
    /\ UNCHANGED <<account, paidRetries, plan, task, ceiling, jobUsd, exchanges,
                   timeouts, failures, control>>

ReserveCall(w) ==
    /\ Move(w, "admit", "call")
    /\ MayReserve(w) /\ ~expired
    /\ ceiling' = [ceiling EXCEPT ![w] = CeilingOf(w)]
    /\ calls' = calls + 1
    /\ spent' = spent + CeilingOf(w)
    /\ inflight' = inflight + 1
    /\ UNCHANGED <<unsettled, carried, paidRetries, plan, task, jobUsd, exchanges,
                   timeouts, failures, failure, control>>
-----------------------------------------------------------------------------
(***************************************************************************)
(* Settlement and retries (invoke)                                         *)
(***************************************************************************)

\* _settle: the reported cost replaces the reservation.
Settle(w, cost) ==
    /\ inflight' = inflight - 1
    /\ spent' = spent + (cost - ceiling[w])

Answer(w) ==
    /\ Move(w, "call", "answered")
    /\ \E cost \in 0..(ceiling[w] + Overrun) :
        /\ Settle(w, cost)
        /\ jobUsd' = [jobUsd EXCEPT ![w] = @ + cost]
    /\ exchanges' = [exchanges EXCEPT ![w] = @ + 1]
    /\ UNCHANGED <<calls, unsettled, carried, paidRetries, plan, task, ceiling,
                   timeouts, failures, failure, control>>

\* A failed call is charged what it reported, which may be nothing, or its
\* reservation when the host was stopped or reported no cost.  A transient
\* failure is "paid" when it cost something.
FailCall(w) ==
    /\ Move(w, "call", "failed")
    /\ \/ /\ \/ failure' = [failure EXCEPT ![w] = "timeout"]
             \/ stop /\ failure' = [failure EXCEPT ![w] = "cancelled"]
          /\ Settle(w, ceiling[w])
       \/ \E kind \in TransportFailures \cup {"operator"}, cost \in 0..(ceiling[w] + Overrun) :
          /\ kind = "free" => cost = 0
          /\ kind = "paid" => cost > 0
          /\ failure' = [failure EXCEPT ![w] = kind]
          /\ Settle(w, cost)
    /\ UNCHANGED <<calls, unsettled, carried, paidRetries, plan, task, ceiling,
                   jobUsd, exchanges, timeouts, failures, control>>

\* An implausible cost report: the reservation stays and no call may follow.
LoseCost(w) ==
    /\ Move(w, "call", "failed")
    /\ failure' = [failure EXCEPT ![w] = "unknown"]
    /\ inflight' = inflight - 1
    /\ unsettled' = TRUE
    /\ UNCHANGED <<calls, spent, carried, paidRetries, plan, task, ceiling,
                   jobUsd, exchanges, timeouts, failures, control>>

\* Mutant of MayRetry: the run's limit on paid retries is forgotten.
MayRetryPerCall(w) ==
    \/ failure[w] = "timeout" /\ timeouts[w] < MaxTimeoutRetries
    \/ /\ failure[w] \in {"free", "paid"} /\ ~unsettled
       /\ failures[w] < MaxFailureRetries
       /\ failure[w] = "paid" => failures[w] = 0

\* The retry decision reads the shared list without the lock.
MayRetry(w) ==
    \/ /\ failure[w] = "timeout"
       /\ timeouts[w] < MaxTimeoutRetries
       /\ paidRetries < MaxPaidRetries
    \/ /\ failure[w] \in {"free", "paid"}
       /\ ~unsettled
       /\ failures[w] < MaxFailureRetries
       /\ failure[w] = "paid" => failures[w] = 0 /\ paidRetries < MaxPaidRetries

DecideRetry(w) ==
    /\ MayRetry(w)
    /\ failure[w] = "timeout" \/ ~expired
    /\ Move(w, "failed", "record")
    /\ IF failure[w] = "timeout"
       THEN timeouts' = [timeouts EXCEPT ![w] = @ + 1] /\ UNCHANGED failures
       ELSE failures' = [failures EXCEPT ![w] = @ + 1] /\ UNCHANGED timeouts
    /\ UNCHANGED <<account, paidRetries, plan, task, ceiling, jobUsd, exchanges,
                   failure, control>>

\* The call's failure ends the job: it may not be repeated, or the delay would
\* pass the deadline; a passed deadline is an exhausted budget of its own.
GiveUp(w) ==
    /\ pc[w] = "failed"
    /\ LET starved == failure[w] = "limit"
                      /\ (ceiling[w] < CallUsd \/ MaxUsd - spent < MinCallUsd)
       IN  \/ ~MayRetry(w) /\ Raise(w, "failed", IF starved THEN "budget" ELSE failure[w])
           \/ /\ MayRetry(w) /\ failure[w] \in {"free", "paid"}
              /\ Raise(w, "failed", IF expired THEN "budget" ELSE failure[w])
    /\ UNCHANGED <<account, paidRetries, plan, task, ceiling, jobUsd, exchanges,
                   timeouts, failures, control>>

\* The row is appended after the decision, still without the lock.
RecordRetry(w) ==
    /\ Move(w, "record", "again")
    /\ paidRetries' = paidRetries + (IF failure[w] \in {"timeout", "paid"} THEN 1 ELSE 0)
    /\ UNCHANGED <<account, plan, task, ceiling, jobUsd, exchanges, timeouts,
                   failures, failure, control>>

\* After the delay the call is admitted again, unless the run was asked to
\* stop meanwhile or the caller's time is used up.
Repeat(w) ==
    /\ \/ Move(w, "again", "admit") /\ UNCHANGED failure
       \/ Raise(w, "again", "timeout")
       \/ stop /\ Raise(w, "again", "cancelled")
    /\ UNCHANGED <<account, paidRetries, plan, task, ceiling, jobUsd, exchanges,
                   timeouts, failures, control>>

\* run_exchange asks for sources or a correction with a further call.
NextExchange(w) ==
    /\ Move(w, "answered", "admit")
    /\ exchanges[w] < MaxExchanges
    /\ ceiling' = [ceiling EXCEPT ![w] = 0]
    /\ timeouts' = [timeouts EXCEPT ![w] = 0]
    /\ failures' = [failures EXCEPT ![w] = 0]
    /\ failure' = [failure EXCEPT ![w] = "none"]
    /\ UNCHANGED <<account, paidRetries, plan, task, jobUsd, exchanges, control>>

\* run_exchange fails after a reply: the model gave no acceptable result within
\* its exchanges, the job's own time is used up, the reply breaks the host's
\* contract, or the run was asked to stop.
RejectAnswer(w) ==
    /\ \/ \E kind \in {"answer", "timeout", "error"} : Raise(w, "answered", kind)
       \/ stop /\ Raise(w, "answered", "cancelled")
    /\ UNCHANGED <<account, paidRetries, plan, task, ceiling, jobUsd, exchanges,
                   timeouts, failures, control>>
-----------------------------------------------------------------------------
RequestStop == ~stop /\ stop' = TRUE
               /\ UNCHANGED <<account, paidRetries, plan, worker, halt, expired, resumed>>

Expire == ~expired /\ expired' = TRUE
          /\ UNCHANGED <<account, paidRetries, plan, worker, halt, stop, resumed>>

Step(w) ==
    \/ TakeComponent(w) \/ TakeDeferred(w) \/ TakeReport(w)
    \/ RefuseJob(w) \/ ReuseReceipt(w) \/ BeginJob(w)
    \/ RefuseCall(w) \/ RefuseForTime(w) \/ ReserveCall(w)
    \/ Answer(w) \/ FailCall(w) \/ LoseCost(w)
    \/ DecideRetry(w) \/ GiveUp(w) \/ RecordRetry(w) \/ Repeat(w)
    \/ NextExchange(w) \/ RejectAnswer(w) \/ Accept(w) \/ Conclude(w)

\* The pool has joined: the run failed, or its report was accepted.
RunOver == (\A w \in Workers : pc[w] = "idle") /\ (halt \/ reportPlanned = 0)

Terminating == RunOver /\ UNCHANGED vars

Next == (\E w \in Workers : Step(w)) \/ RequestStop \/ Expire \/ Terminating

Spec == Init /\ [][Next]_vars

\* Every thread keeps running: the host stops a call at its time limit, a
\* waiting thread polls each second, and a retry's delay is finite.
Fairness == \A w \in Workers : WF_vars(Step(w))
FairSpec == Spec /\ Fairness
-----------------------------------------------------------------------------
(***************************************************************************)
(* Properties                                                              *)
(***************************************************************************)

\* What this session itself bought, without restored or reused amounts.
OwnCalls == calls - carried[1]
OwnUsd   == spent - carried[2]

InCall == {w \in Workers : pc[w] = "call"}

\* Concurrent calls never buy more than the cost limit: only a reported cost
\* above its reservation exceeds it, at most once per thread, because nothing
\* is admitted on an overdrawn account.
SpendWithinLimit ==
    OwnUsd + Overrun * inflight <= MaxUsd + Overrun * Cardinality(Workers)

\* The run can still reach its report, which no worker has begun.
ReportUnstarted == ~halt /\ reportPlanned = 1 /\ \A w \in Workers : task[w] # Report

\* Until the report starts, no combination of concurrent STRIDE, review and
\* retry calls takes the allowance and the two calls kept for it; only
\* reported costs above their reservations eat into the money.
ReportFunded ==
    ReportUnstarted =>
        /\ OwnUsd + Overrun * inflight <= MaxUsd - CallUsd + Overrun * Cardinality(Workers)
        /\ OwnCalls <= Larger(0, MaxCalls - 2)

\* The decision to repeat a paid failure and its row are not atomic, so the
\* run's paid retries exceed their limit by at most one per further thread.
PaidRetriesNearLimit == paidRetries <= MaxPaidRetries + Cardinality(Workers) - 1

\* The comment on MAX_PAID_RETRIES: a failed call that cost money is repeated
\* "at most this often per run".
PaidRetriesPerRun == paidRetries <= MaxPaidRetries

\* A thread that waits for another call to settle is admitted or refused.
WaitingEnds == \A w \in Workers : pc[w] = "admit" ~> pc[w] # "admit"

\* Every run ends: with its report, or with every thread stopped.
RunEnds == <>RunOver
=============================================================================
