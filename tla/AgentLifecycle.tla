--------------------------- MODULE AgentLifecycle ---------------------------
(***************************************************************************)
(* The registry of agent calls of one session (agent_lifecycle.py), the    *)
(* turn counters beside it (budget_watchdog.py) and the hook processes     *)
(* that share both (agent_logger.py).                                      *)
(*                                                                         *)
(* The host decides which events a call gets, when, and how often: a stop  *)
(* may overtake the answer to the launch, and either may never come.  The  *)
(* child of call c is named c as well.                                     *)
(*                                                                         *)
(* The operations of both files run under file locks, a handler is several *)
(* of them, and handlers of different events run side by side.  A handler  *)
(* is split where it acts on what it read under an earlier lock: before    *)
(* settling a call, before recording the usage of an answer, and between   *)
(* finding whom a tool use is charged to and charging it.                  *)
(***************************************************************************)
EXTENDS Naturals, Sequences, FiniteSets

CONSTANTS
    Calls,      \* Agent tool uses of the session (tool_use_id), and their children
    Jobs,       \* dispatched jobs
    Hooks,      \* PostToolUse processes that may run at the same time
    MaxCalls,   \* size of the registry
    MaxTurns,   \* turns a child is allowed
    TranscriptMissing,  \* a stop may come without the transcript of its child
    MaxUsage,   \* bound on the usage a child reports; a resumed child adds to it
    None

ASSUME LifecycleConstants ==
    /\ MaxCalls \in Nat \ {0}
    /\ MaxTurns \in Nat \ {0}
    /\ MaxUsage \in Nat \ {0}
    /\ IsFiniteSet(Calls)
    /\ IsFiniteSet(Hooks)
    /\ None \notin Calls \cup Jobs

VARIABLES
    registry,   \* the ids in agent-lifecycle.json, oldest first
    call,       \* their records
    turns,      \* counters of the budget watchdog; 0 also stands for none
    child,      \* what the child of a call really does
    spent,      \* usage in a child's transcript
    stop,       \* the call a SubagentStop handler still has to settle
    ret,        \* PostToolUse(Agent) handler of a call
    hook,       \* the call a PostToolUse handler is about to charge
    room,       \* records the registry has room for beside those of other sessions
    ended,      \* the state of the session has been removed
    logged,     \* usage written to the event log for a call
    late        \* turns charged to a call whose child had stopped for good

vars == <<registry, call, turns, child, spent, stop, ret, hook, room, ended, logged, late>>
host == <<child, spent, room>>
handlers == <<stop, ret, hook>>

Terminal == {"done", "failed"}
NoCall == [state |-> "absent", job |-> None, background |-> FALSE, acked |-> FALSE,
           stopped |-> FALSE, handback |-> "no", quiet |-> FALSE,
           bound |-> None, usage |-> 0]

\* Of a closed record only the child and its usage are read again here.
Closed(row, outcome) ==
    [NoCall EXCEPT !.state = outcome, !.bound = row.bound, !.usage = row.usage]

\* Bound: counting stops at the limit.
MoreTurns(n) == IF n = MaxTurns THEN n ELSE n + 1

Registered(c) == call[c].state # "absent"
Running(c) == call[c].state = "running"

\* The child takes no further turns (child_has_stopped).
ChildHasStopped(c) ==
    \/ call[c].stopped
    \/ call[c].handback = "limit"
    \/ /\ call[c].handback = "yes"
       /\ call[c].quiet

Live(c) == Running(c) /\ ~ChildHasStopped(c)

\* Not waited for any more: a quiet child may still wake, this one may not.
Over(c) == ~Running(c) \/ call[c].stopped

\* The calls bound to a child (call_by_runtime_agent_id).
BoundTo(x) == {c \in Calls : call[c].bound = x}

Unbound == {c \in Calls : Running(c) /\ call[c].bound = None}

\* Mutant of Owner: a child nobody knows gets any call that is bound to none.
AnyUnbound(x) == IF BoundTo(x) # {} THEN BoundTo(x) ELSE Unbound

\* bind_runtime_agent_start: the call the child is bound to already, else the
\* only running call that is bound to no child.
Owner(x) ==
    IF BoundTo(x) # {} THEN BoundTo(x)
    ELSE IF Cardinality(Unbound) = 1 THEN Unbound ELSE {}

\* Mutant of Charged: a finished child is still charged while its call is open.
ChargedWhileOpen == {c \in Calls : Running(c) /\ \A d \in Calls : Running(d) => d = c}

\* unique_running_call
Charged == {c \in Calls : Live(c) /\ \A d \in Calls : Live(d) => d = c}

\* _record_usage_for_call logs the total first, then what it has grown by.
Recorded(row, total) == IF total > row.usage THEN total ELSE row.usage

\* Mutant of Increment: a repeated stop logs the whole total again.
WholeTotal(row, total) == total

Increment(row, total) == Recorded(row, total) - row.usage

\* Mutant of Bury: a full registry is written too.
BuryAlways(c) ==
    /\ registry' = Append(registry, c)
    /\ call' = [call EXCEPT ![c] = [NoCall EXCEPT !.state = "failed"]]

\* An event for an id the registry does not hold leaves a failed record
\* behind; a full registry is not written.
Bury(c) ==
    IF Len(registry) < room
    THEN /\ registry' = Append(registry, c)
         /\ call' = [call EXCEPT ![c] = [NoCall EXCEPT !.state = "failed"]]
    ELSE UNCHANGED <<registry, call>>

\* finish_call and fail_call
Terminate(c, outcome) ==
    IF Registered(c)
    THEN /\ call' = [call EXCEPT ![c] = IF Running(c) THEN Closed(@, outcome) ELSE @]
         /\ UNCHANGED registry
    ELSE Bury(c)

-----------------------------------------------------------------------------
\* PreToolUse of an Agent call.

\* Foreground calls of the session that a new one for the same job replaces.
Superseded(j, background) ==
    {d \in Calls : Running(d) /\ ~background /\ ~call[d].background /\ call[d].job = j}

\* The oldest terminal record leaves a full registry.
TerminalPlaces(rows) == {i \in 1..Len(registry) : rows[registry[i]].state \in Terminal}
Oldest(P) == CHOOSE i \in P : \A k \in P : i <= k
Without(i) == [k \in 1..(Len(registry) - 1) |-> registry[IF k < i THEN k ELSE k + 1]]

\* register_call, then close_call for the replaced calls; open_call adds a
\* counter of zero.  A full registry without a terminal record makes the host
\* deny the call.
Dispatch(c) == \E j \in Jobs, background \in BOOLEAN :
    LET replaced == Superseded(j, background)
        rows == [d \in Calls |-> IF d \in replaced THEN Closed(call[d], "failed") ELSE call[d]]
        places == TerminalPlaces(rows)
        row == [NoCall EXCEPT !.state = "running", !.job = j, !.background = background]
    IN  /\ child[c] = "none"
        /\ \/ /\ Len(registry) < room
              /\ registry' = Append(registry, c)
              /\ call' = [rows EXCEPT ![c] = row]
              /\ child' = [child EXCEPT ![c] = "launched"]
           \/ /\ Len(registry) >= room
              /\ places # {}
              /\ registry' = Append(Without(Oldest(places)), c)
              /\ call' = [rows EXCEPT ![registry[Oldest(places)]] = NoCall, ![c] = row]
              /\ child' = [child EXCEPT ![c] = "launched"]
           \/ /\ Len(registry) >= room
              /\ places = {}
              /\ child' = [child EXCEPT ![c] = "denied"]
              /\ UNCHANGED <<registry, call>>
        /\ turns' = IF child'[c] = "denied" THEN turns
                    ELSE [d \in Calls |-> IF d \in replaced THEN 0 ELSE turns[d]]
        /\ UNCHANGED <<spent, room, handlers, ended, logged, late>>

-----------------------------------------------------------------------------
\* The child, as the host runs it.

\* The child starts, with a SubagentStart event or without one.
Start(x) == \E announced \in BOOLEAN :
    /\ child[x] = "launched"
    /\ child' = [child EXCEPT ![x] = "working"]
    /\ call' = [c \in Calls |-> IF announced /\ c \in Owner(x)
                                THEN [call[c] EXCEPT !.bound = x] ELSE call[c]]
    /\ UNCHANGED <<registry, turns, spent, room, handlers, ended, logged, late>>

EndTurn(x) ==
    /\ child[x] = "working"
    /\ child' = [child EXCEPT ![x] = "ended"]
    /\ spent' = [spent EXCEPT ![x] = IF @ < MaxUsage THEN @ + 1 ELSE @]
    /\ UNCHANGED <<registry, call, turns, room, handlers, ended, logged, late>>

\* The parent, told that a child has ended, sends it another message.
Resume(x) ==
    /\ child[x] = "ended"
    /\ stop[x] = None
    /\ \A c \in BoundTo(x) : Over(c)
    /\ child' = [child EXCEPT ![x] = "working"]
    /\ UNCHANGED <<registry, call, turns, spent, room, handlers, ended, logged, late>>

\* HANDBACK_QUIET_SECONDS pass without a tool use of a handed-back child.
Hush(c) ==
    /\ Running(c)
    /\ call[c].handback = "yes"
    /\ ~call[c].quiet
    /\ call' = [call EXCEPT ![c].quiet = TRUE]
    /\ UNCHANGED <<registry, turns, host, handlers, ended, logged, late>>

\* note_child_activity: a tool use restarts that period.
Wake(x) ==
    /\ child[x] = "working"
    /\ \E c \in BoundTo(x) : Running(c) /\ call[c].quiet
    /\ call' = [c \in Calls |-> IF c \in BoundTo(x) THEN [call[c] EXCEPT !.quiet = FALSE]
                                ELSE call[c]]
    /\ UNCHANGED <<registry, turns, host, handlers, ended, logged, late>>

\* Mutant of Handback: a repeated handback replaces the first.
HandbackAgain(x) == \E c \in BoundTo(x) \cup Charged, limit \in BOOLEAN :
    /\ limit => turns[c] = MaxTurns
    /\ child[x] = "working"
    /\ Running(c)
    /\ call' = [call EXCEPT ![c].handback = IF limit THEN "limit" ELSE "yes"]
    /\ turns' = IF limit THEN [turns EXCEPT ![c] = 0] ELSE turns
    /\ UNCHANGED <<registry, host, handlers, ended, logged, late>>

\* note_child_handback, the first one, with whether the turns counted so far
\* reach the limit; then the counter is retired.  The turns are read under a lock
\* of their own, so one charged in between may reach the limit unseen.  A host
\* that does not name the child leaves the call a tool use would be charged to.
Handback(x) == \E c \in BoundTo(x) \cup Charged, limit \in BOOLEAN :
    /\ limit => turns[c] = MaxTurns
    /\ child[x] = "working"
    /\ Running(c)
    /\ call[c].handback = "no"
    /\ call' = [call EXCEPT ![c].handback = IF limit THEN "limit" ELSE "yes"]
    /\ turns' = IF limit THEN [turns EXCEPT ![c] = 0] ELSE turns
    /\ UNCHANGED <<registry, host, handlers, ended, logged, late>>

-----------------------------------------------------------------------------
\* SubagentStop (handle_stop).  It may come again, also for a resumed child.

\* The usage in the child's transcript, which the host may not have written.
UsageSeen(x) == IF TranscriptMissing THEN {0, spent[x]} ELSE {spent[x]}

\* Bind the child, find its call and record the usage of its transcript, if there
\* is any.  The stop reason, if the transcript has one, ends the call; otherwise the
\* stop is recorded (note_child_stop), and the call is left to its return unless
\* that has acknowledged the launch already.  The counter is retired at the end of
\* the handler, after the settlement if it has to make one; the tool uses of the
\* transcript may have raised it before (observe_tool_uses).
StopArrives(x) ==
    \E c \in Owner(x), outcome \in Terminal \cup {None}, seen \in UsageSeen(x) :
    LET total == Recorded(call[c], seen)
        row == [call[c] EXCEPT !.bound = x, !.usage = total]
        settle == Running(c) /\ outcome = None /\ call[c].acked
    IN  /\ child[x] = "ended"
        /\ stop[x] = None
        /\ call' = [call EXCEPT ![c] = IF ~Running(c) THEN row
                                       ELSE IF outcome = None THEN [row EXCEPT !.stopped = TRUE]
                                       ELSE Closed(row, outcome)]
        /\ logged' = [logged EXCEPT ![c] = @ + Increment(call[c], seen)]
        /\ \E n \in IF settle THEN turns[c]..MaxTurns ELSE {0} :
              turns' = [turns EXCEPT ![c] = n]
        /\ stop' = [stop EXCEPT ![x] = IF settle THEN c ELSE None]
        /\ UNCHANGED <<registry, host, ret, hook, ended, late>>

StopSettles(x) ==
    LET c == stop[x] IN
    /\ c # None
    /\ Terminate(c, "done")
    /\ turns' = [turns EXCEPT ![c] = 0]
    /\ stop' = [stop EXCEPT ![x] = None]
    /\ UNCHANGED <<host, ret, hook, ended, logged, late>>

-----------------------------------------------------------------------------
\* PostToolUse of an Agent call (handle_post_tool_use): an acknowledged launch,
\* the answer of an ended child, or an error.

\* bind_runtime_agent_id raises for a child bound to another call and for a call
\* bound to another child; the return then decides nothing.
Clash(c, named) ==
    /\ named
    /\ Running(c)
    /\ BoundTo(c) \ {c} # {} \/ call[c].bound \notin {None, c}
Named(c, named) == [call[c] EXCEPT !.bound = IF named THEN c ELSE @]

\* Mutant of ReturnAcknowledges: a stop recorded before is not looked at.
AcknowledgesOnly(c) == \E named \in BOOLEAN :
    /\ child[c] \in {"working", "ended"}
    /\ ret[c] = "idle"
    /\ ~Clash(c, named)
    /\ IF Registered(c)
       THEN /\ call' = [call EXCEPT ![c] =
                          IF Running(c)
                          THEN [Named(c, named) EXCEPT !.background = TRUE, !.acked = TRUE]
                          ELSE @]
            /\ UNCHANGED registry
       ELSE Bury(c)
    /\ UNCHANGED <<turns, host, handlers, ended, logged, late>>

\* acknowledge_background_call: the call stays open, or is settled if its stop
\* has been recorded.
ReturnAcknowledges(c) == \E named \in BOOLEAN :
    /\ child[c] \in {"working", "ended"}
    /\ ret[c] = "idle"
    /\ ~Clash(c, named)
    /\ IF Registered(c)
       THEN /\ call' = [call EXCEPT ![c] =
                          IF Running(c)
                          THEN [Named(c, named) EXCEPT !.background = TRUE, !.acked = TRUE]
                          ELSE @]
            /\ UNCHANGED registry
       ELSE Bury(c)
    /\ ret' = [ret EXCEPT ![c] = IF Running(c) /\ call[c].stopped THEN "settle" ELSE "idle"]
    /\ UNCHANGED <<turns, host, stop, hook, ended, logged, late>>

ReturnSettles(c) ==
    /\ ret[c] = "settle"
    /\ Terminate(c, "done")
    /\ ret' = [ret EXCEPT ![c] = "idle"]
    /\ UNCHANGED <<turns, host, stop, hook, ended, logged, late>>

\* _call_has_usage: no usage is known yet, so the answer's will be recorded.
ReturnLooks(c) ==
    /\ child[c] = "ended"
    /\ ret[c] = "idle"
    /\ ~call[c].background
    /\ call[c].usage = 0
    /\ ret' = [ret EXCEPT ![c] = "usage"]
    /\ UNCHANGED <<registry, call, turns, host, stop, hook, ended, logged, late>>

\* finish_call for an answer, fail_call for an error; then the counter goes.
ReturnDecides(c) == \E named, answer \in BOOLEAN :
    LET seen == IF ret[c] = "usage" THEN spent[c] ELSE 0
        total == Recorded(call[c], seen)
        row == [Named(c, named) EXCEPT !.usage = total]
    IN  /\ child[c] \in {"launched", "working", "ended"}
        /\ \/ ret[c] = "usage" /\ answer
           \/ ret[c] = "idle" /\ ~answer
           \/ /\ ret[c] = "idle" /\ answer
              /\ child[c] = "ended" /\ ~call[c].background /\ call[c].usage # 0
        /\ IF Registered(c)
           THEN /\ call' = [call EXCEPT ![c] =
                     IF Running(c) /\ ~Clash(c, named)
                     THEN Closed(row, IF answer THEN "done" ELSE "failed")
                     ELSE [@ EXCEPT !.usage = total]]
                /\ logged' = [logged EXCEPT ![c] = @ + Increment(call[c], seen)]
                /\ UNCHANGED registry
           ELSE Bury(c) /\ UNCHANGED logged
        /\ turns' = [turns EXCEPT ![c] = 0]
        /\ ret' = [ret EXCEPT ![c] = "idle"]
        /\ UNCHANGED <<host, stop, hook, ended, late>>

-----------------------------------------------------------------------------
\* PostToolUse of any other tool of the session, the parent's or a child's.

\* Whom the tool use is charged to (unique_running_call, is_current_claim).
FindCharged(h) == \E c \in Charged :
    /\ hook[h] = None
    /\ hook' = [hook EXCEPT ![h] = c]
    /\ UNCHANGED <<registry, call, turns, host, stop, ret, ended, logged, late>>

\* tally_and_check: charge a turn, on a new counter if it was retired.
Tally(h) ==
    LET c == hook[h] IN
    /\ c # None
    /\ turns' = [turns EXCEPT ![c] = MoreTurns(@)]
    /\ late' = IF Over(c) THEN [late EXCEPT ![c] = @ + 1] ELSE late
    /\ hook' = [hook EXCEPT ![h] = None]
    /\ UNCHANGED <<registry, call, host, stop, ret, ended, logged>>

\* The child of a call that was closed for it may never send a stop; a Bash use
\* records what its transcript holds (_backfill_closed_call_usage).
Backfill(c) ==
    LET total == IF call[c].bound = None THEN 0 ELSE spent[call[c].bound] IN
    /\ call[c].state \in Terminal
    /\ call[c].usage = 0
    /\ total > 0
    /\ call' = [call EXCEPT ![c].usage = total]
    /\ logged' = [logged EXCEPT ![c] = @ + Increment(call[c], total)]
    /\ UNCHANGED <<registry, turns, host, handlers, ended, late>>

-----------------------------------------------------------------------------
\* The controller and the end of the session.

\* _close_agent_jobs: finish_jobs closes what still runs for a job, and the
\* counters of the closed calls are retired.
FinishJob(j) == \E outcome \in Terminal :
    LET closing == {c \in Calls : Running(c) /\ call[c].job = j} IN
    /\ closing # {}
    /\ call' = [c \in Calls |-> IF c \in closing THEN Closed(call[c], outcome) ELSE call[c]]
    /\ turns' = [c \in Calls |-> IF c \in closing THEN 0 ELSE turns[c]]
    /\ UNCHANGED <<registry, host, handlers, ended, logged, late>>

\* clear_terminal_active_tool_calls: record the usage of bound children whose
\* transcript is there, close what still runs (fail_all_running), a delivered
\* handback as done; retire the counters of the failed calls and remove the
\* directory with the registry.  A Stop that finds the run lock not its own gets
\* here, so events may go on.
\* Bound: once.
Clear == \E read \in SUBSET {c \in Calls : Running(c) /\ call[c].bound # None} :
    LET delivered(c) == call[c].handback # "no" /\ ChildHasStopped(c) IN
    /\ ~ended
    /\ registry # <<>>
    /\ ended' = TRUE
    /\ logged' = [c \in Calls |-> IF c \in read THEN logged[c] + Increment(call[c], spent[call[c].bound])
                                  ELSE logged[c]]
    /\ turns' = [c \in Calls |-> IF Running(c) /\ ~delivered(c) THEN 0 ELSE turns[c]]
    /\ registry' = <<>>
    /\ call' = [c \in Calls |-> NoCall]
    /\ UNCHANGED <<host, handlers, late>>

-----------------------------------------------------------------------------
Init ==
    /\ registry = <<>>
    /\ call = [c \in Calls |-> NoCall]
    /\ turns = [c \in Calls |-> 0]
    /\ child = [c \in Calls |-> "none"]
    /\ spent = [c \in Calls |-> 0]
    /\ stop = [c \in Calls |-> None]
    /\ ret = [c \in Calls |-> "idle"]
    /\ hook = [h \in Hooks |-> None]
    /\ room \in 1..MaxCalls
    /\ ended = FALSE
    /\ logged = [c \in Calls |-> 0]
    /\ late = [c \in Calls |-> 0]

Child(x) == Start(x) \/ EndTurn(x) \/ Resume(x) \/ Hush(x) \/ Wake(x) \/ Handback(x)
Stop(x) == StopArrives(x) \/ StopSettles(x)
Return(c) ==
    \/ ReturnAcknowledges(c) \/ ReturnSettles(c)
    \/ ReturnLooks(c) \/ ReturnDecides(c)
Tool(h) == FindCharged(h) \/ Tally(h)

Next ==
    \/ \E c \in Calls : Dispatch(c) \/ Child(c) \/ Stop(c) \/ Return(c) \/ Backfill(c)
    \/ \E h \in Hooks : Tool(h)
    \/ \E j \in Jobs : FinishJob(j)
    \/ Clear

Spec == Init /\ [][Next]_vars

-----------------------------------------------------------------------------
(***************************************************************************)
(* Properties                                                              *)
(***************************************************************************)

\* Every variable has its type, and the registry lists the calls it has a
\* record of, each once.
TypeOK ==
    /\ registry \in Seq(Calls)
    /\ Len(registry) <= room
    /\ \A c \in Calls : Registered(c) <=> \E i \in 1..Len(registry) : registry[i] = c
    /\ \A i, k \in 1..Len(registry) : registry[i] = registry[k] => i = k
    /\ call \in [Calls -> [state : Terminal \cup {"absent", "running"}, job : Jobs \cup {None},
                           background : BOOLEAN, acked : BOOLEAN, stopped : BOOLEAN,
                           handback : {"no", "yes", "limit"}, quiet : BOOLEAN,
                           bound : Calls \cup {None}, usage : 0..MaxUsage]]
    /\ turns \in [Calls -> 0..MaxTurns]
    /\ child \in [Calls -> {"none", "denied", "launched", "working", "ended"}]
    /\ spent \in [Calls -> 0..MaxUsage]
    /\ stop \in [Calls -> Calls \cup {None}]
    /\ ret \in [Calls -> {"idle", "usage", "settle"}]
    /\ hook \in [Hooks -> Calls \cup {None}]
    /\ room \in 1..MaxCalls
    /\ ended \in BOOLEAN
    /\ logged \in [Calls -> Nat]
    /\ late \in [Calls -> Nat]

\* The handover of an outcome works in either order (agent_lifecycle.py:16-24):
\* a call whose launch was acknowledged and whose stop was recorded is closed,
\* or one of the two handlers is about to close it.
NoLeak ==
    \A c \in Calls : Running(c) /\ call[c].acked /\ call[c].stopped
        => ret[c] = "settle" \/ \E x \in Calls : stop[x] = c

\* Children keep to their calls (bind_runtime_agent_start): two calls never
\* share a child; a call gets another call's child only after that call was
\* closed before anything bound its own, or got a wrong child itself; and open
\* calls never have each other's children, so the first wrong child of such a
\* chain was a closed call's.
BindingsExplained ==
    /\ \A c, d \in Calls : call[d].bound = c =>
        /\ \A e \in Calls : call[e].bound = c => e = d
        /\ c # d => ~Running(c) \/ call[c].bound \notin {c, None}
    /\ \A S \in (SUBSET Calls) \ {{}} :
        \E c \in S : ~Running(c) \/ call[c].bound \notin S \ {c}

\* is_current_claim keeps the parent's turns off a finished child: only tool
\* uses that looked before the stop was recorded still charge it, each once.
LateChargesBounded ==
    \A c \in Calls : late[c] <= Cardinality(Hooks)

\* Usage is counted once however often a stop repeats, whichever of stop,
\* return and cleanup reports it: what the log holds for a call is never more
\* than what its child used.
UsageCountedOnce ==
    \A c \in Calls : call[c].bound = c => logged[c] <= spent[c]

-----------------------------------------------------------------------------
\* What a waiter sees of a call (still_waiting, jobs_settled).
Phase == [c \in Calls |->
    IF child[c] \in {"none", "denied"} THEN "absent"
    ELSE IF ~Registered(c) THEN "gone"
    ELSE IF ~Running(c) THEN "closed"
    ELSE IF call[c].stopped \/ call[c].handback = "limit" THEN "over"
    ELSE IF ChildHasStopped(c) THEN "quiet"
    ELSE "live"]

Waited == INSTANCE AgentCalls WITH phase <- Phase

\* The registry keeps its promise to those who wait for a call, whatever the
\* order and number of the events: supersession, eviction, tombstones, late
\* stops and late answers never bring a finished call back (child_has_stopped,
\* acknowledge_background_call, _terminal_transition).
KeepsPromise == Waited!Spec
=============================================================================
