------------------------ MODULE AgentLifecycleProofs ------------------------
(***************************************************************************)
(* What the registry of agent calls guarantees for any number of calls,    *)
(* jobs and hook processes, and any order of their events.                 *)
(*                                                                         *)
(* The inductive invariant adds to the properties what ties the registry   *)
(* to what lies outside it: a call that was not launched has left no trace *)
(* (Unlaunched), a late charge was on its way when its call ended          *)
(* (LateFound), and log and record agree on a call's usage (UsageLogged).  *)
(***************************************************************************)
EXTENDS AgentLifecycle, FiniteSetTheorems, WellFoundedInduction, TLAPS

\* A call that was never launched has left no trace.
Unlaunched ==
    \A c \in Calls : child[c] \in {"none", "denied"} =>
        /\ call[c] = NoCall
        /\ ret[c] = "idle"
        /\ logged[c] = 0
        /\ late[c] = 0
        /\ \A x \in Calls : stop[x] # c /\ call[x].bound # c
        /\ \A h \in Hooks : hook[h] # c

\* The tool uses that are about to charge a call.
Pending(c) == {h \in Hooks : hook[h] = c}

\* A tool use that charges a call late found it before it was over.
LateFound ==
    \A c \in Calls :
        /\ late[c] + Cardinality(Pending(c)) <= Cardinality(Hooks)
        /\ ~Over(c) => late[c] = 0

\* The log and the record of a call agree on its usage while the call is open
\* or knows its child, and unless that is another call's child the call's own
\* has used as much.
UsageLogged ==
    \A c \in Calls : Running(c) \/ call[c].bound # None =>
        /\ logged[c] = call[c].usage
        /\ call[c].bound \in {None, c} => call[c].usage <= spent[c]

Rows == [state : Terminal \cup {"absent", "running"}, job : Jobs \cup {None},
         background : BOOLEAN, acked : BOOLEAN, stopped : BOOLEAN,
         handback : {"no", "yes", "limit"}, quiet : BOOLEAN,
         bound : Calls \cup {None}, usage : 0..MaxUsage]

\* The records of the calls, and what else of the state has no other rule.
Records == call \in [Calls -> Rows]

Rest ==
    /\ turns \in [Calls -> 0..MaxTurns]
    /\ child \in [Calls -> {"none", "denied", "launched", "working", "ended"}]
    /\ spent \in [Calls -> 0..MaxUsage]
    /\ stop \in [Calls -> Calls \cup {None}]
    /\ ret \in [Calls -> {"idle", "usage", "settle"}]
    /\ hook \in [Hooks -> Calls \cup {None}]
    /\ room \in 1..MaxCalls
    /\ ended \in BOOLEAN
    /\ logged \in [Calls -> Nat]
    /\ late \in [Calls -> Nat]

\* The registry lists the calls it has a record of, each once.
Listed ==
    /\ registry \in Seq(Calls)
    /\ Len(registry) <= room
    /\ \A c \in Calls : Registered(c) <=> \E i \in 1..Len(registry) : registry[i] = c
    /\ \A i, k \in 1..Len(registry) : registry[i] = registry[k] => i = k

Types == Records /\ Rest /\ Listed

\* Types is the type invariant, in parts.
LEMMA TypesAre == TypeOK <=> Types
BY DEF TypeOK, Types, Records, Rest, Listed, Rows

-----------------------------------------------------------------------------
\* Records

\* Closing a record keeps it one.
LEMMA ClosedRow ==
    ASSUME NEW row \in Rows, NEW outcome \in Terminal
    PROVE  /\ Closed(row, outcome) \in Rows
           /\ Closed(row, outcome).state = outcome
           /\ Closed(row, outcome).bound = row.bound
           /\ Closed(row, outcome).usage = row.usage
BY LifecycleConstants DEF LifecycleConstants, Closed, NoCall, Rows, Terminal

\* The record of no call, and of one that failed unseen.
LEMMA NoRow ==
    /\ NoCall \in Rows
    /\ NoCall.state = "absent" /\ NoCall.bound = None /\ NoCall.usage = 0
    /\ [NoCall EXCEPT !.state = "failed"] \in Rows
    /\ [NoCall EXCEPT !.state = "failed"].state = "failed"
    /\ [NoCall EXCEPT !.state = "failed"].bound = None
<1>1. NoCall \in Rows
      BY LifecycleConstants DEF LifecycleConstants, NoCall, Rows, Terminal
<1>2. \A row \in Rows : [row EXCEPT !.state = "failed"] \in Rows
      BY DEF Rows, Terminal
<1>. QED BY <1>1, <1>2 DEF NoCall

\* Updating one field of a record leaves the others.
LEMMA RowFields ==
    ASSUME NEW row \in Rows, NEW v
    PROVE  /\ [row EXCEPT !.quiet = v].state = row.state
           /\ [row EXCEPT !.quiet = v].acked = row.acked
           /\ [row EXCEPT !.quiet = v].stopped = row.stopped
           /\ [row EXCEPT !.quiet = v].handback = row.handback
           /\ [row EXCEPT !.quiet = v].bound = row.bound
           /\ [row EXCEPT !.quiet = v].usage = row.usage
           /\ [row EXCEPT !.bound = v].state = row.state
           /\ [row EXCEPT !.bound = v].acked = row.acked
           /\ [row EXCEPT !.bound = v].stopped = row.stopped
           /\ [row EXCEPT !.bound = v].handback = row.handback
           /\ [row EXCEPT !.bound = v].usage = row.usage
           /\ [row EXCEPT !.handback = v].state = row.state
           /\ [row EXCEPT !.handback = v].acked = row.acked
           /\ [row EXCEPT !.handback = v].stopped = row.stopped
           /\ [row EXCEPT !.handback = v].bound = row.bound
           /\ [row EXCEPT !.handback = v].usage = row.usage
           /\ [row EXCEPT !.usage = v].state = row.state
           /\ [row EXCEPT !.usage = v].acked = row.acked
           /\ [row EXCEPT !.usage = v].stopped = row.stopped
           /\ [row EXCEPT !.usage = v].handback = row.handback
           /\ [row EXCEPT !.usage = v].bound = row.bound
           /\ [row EXCEPT !.bound = v].bound = v
           /\ [row EXCEPT !.usage = v].usage = v
           /\ [row EXCEPT !.handback = v].handback = v
BY DEF Rows

\* Usage is recorded only if it has grown.
LEMMA RecordedGrows ==
    ASSUME NEW row \in Rows, NEW total \in 0..MaxUsage
    PROVE  /\ Recorded(row, total) \in 0..MaxUsage
           /\ Increment(row, total) \in Nat
           /\ row.usage \in 0..MaxUsage
           /\ Recorded(row, total) = row.usage + Increment(row, total)
           /\ Recorded(row, total) <= row.usage \/ Recorded(row, total) <= total
BY LifecycleConstants DEF LifecycleConstants, Recorded, Increment, Rows

\* The records keep their form.
LEMMA RecordsKept == ASSUME Types, [Next]_vars PROVE Records'
<1>. USE DEF Records
<1>t. /\ call \in [Calls -> Rows]
      /\ Rest
      BY DEF Types
<1>b. ASSUME NEW c \in Calls, Bury(c) PROVE Records'
      BY <1>b, <1>t, NoRow DEF Bury
<1>c. ASSUME NEW c \in Calls, NEW outcome \in Terminal, Terminate(c, outcome) PROVE Records'
      BY <1>b, <1>c, <1>t, ClosedRow DEF Terminate
<1>n. ASSUME NEW c \in Calls, NEW named \in BOOLEAN PROVE Named(c, named) \in Rows
      BY <1>n, <1>t DEF Named, Rows
<1>1. ASSUME NEW c \in Calls, Dispatch(c) PROVE Records'
  <2>1. PICK j \in Jobs, background \in BOOLEAN : Dispatch(c)!(j, background)
        BY <1>1 DEF Dispatch
  <2>. DEFINE replaced == Superseded(j, background)
              rows == [d \in Calls |-> IF d \in replaced THEN Closed(call[d], "failed")
                                                          ELSE call[d]]
              row == [NoCall EXCEPT !.state = "running", !.job = j,
                                    !.background = background]
  <2>2. rows \in [Calls -> Rows]
        BY <1>t, ClosedRow DEF Terminal
  <2>3. row \in Rows
        BY NoRow DEF Rows
  <2>. HIDE DEF rows, row
  <2>4. \/ call' = [rows EXCEPT ![c] = row]
        \/ \E d : call' = [rows EXCEPT ![d] = NoCall, ![c] = row]
        \/ call' = call
        BY <2>1 DEF rows, row
  <2>. QED BY <2>2, <2>3, <2>4, <1>t, NoRow
<1>2. ASSUME NEW x \in Calls, Start(x) PROVE Records'
  <2>1. \A c \in Calls : [call[c] EXCEPT !.bound = x] \in Rows
        BY <1>t DEF Rows
  <2>. QED BY <1>2, <1>t, <2>1 DEF Start
<1>3. ASSUME NEW x \in Calls, EndTurn(x) \/ Resume(x) PROVE Records'
      BY <1>3, <1>t DEF EndTurn, Resume
<1>4. ASSUME NEW c \in Calls, Hush(c) PROVE Records'
      BY <1>4, <1>t DEF Hush, Rows
<1>5. ASSUME NEW x \in Calls, Wake(x) PROVE Records'
  <2>1. \A c \in Calls : [call[c] EXCEPT !.quiet = FALSE] \in Rows
        BY <1>t DEF Rows
  <2>. QED BY <1>5, <1>t, <2>1 DEF Wake
<1>6. ASSUME NEW x \in Calls, Handback(x) PROVE Records'
      BY <1>6, <1>t DEF Handback, Rows, BoundTo, Charged
<1>7. ASSUME NEW x \in Calls, StopArrives(x) PROVE Records'
  <2>1. PICK c \in Owner(x), outcome \in Terminal \cup {None}, seen \in UsageSeen(x) :
            StopArrives(x)!(c, outcome, seen)
        BY <1>7 DEF StopArrives
  <2>. DEFINE row == [call[c] EXCEPT !.bound = x, !.usage = Recorded(call[c], seen)]
  <2>2. c \in Calls
        BY DEF Owner, BoundTo, Unbound
  <2>3. seen \in 0..MaxUsage
        BY <1>t, LifecycleConstants DEF Rest, UsageSeen, LifecycleConstants
  <2>4. Recorded(call[c], seen) \in 0..MaxUsage
        BY <2>2, <2>3, <1>t, RecordedGrows
  <2>5. row \in Rows
        BY <2>2, <2>4, <1>t DEF Rows
  <2>6. [row EXCEPT !.stopped = TRUE] \in Rows
        BY <2>5 DEF Rows
  <2>7. outcome # None => Closed(row, outcome) \in Rows
        BY <2>5, ClosedRow
  <2>. HIDE DEF row
  <2>8. call' = [call EXCEPT ![c] = IF ~Running(c) THEN row
                                    ELSE IF outcome = None THEN [row EXCEPT !.stopped = TRUE]
                                    ELSE Closed(row, outcome)]
        BY <2>1 DEF row
  <2>. QED BY <2>2, <2>5, <2>6, <2>7, <2>8, <1>t
<1>8. ASSUME NEW x \in Calls, StopSettles(x) PROVE Records'
      BY <1>8, <1>t, <1>c DEF StopSettles, Terminal, Rest
<1>9. ASSUME NEW c \in Calls, ReturnAcknowledges(c) PROVE Records'
  <2>1. \A named \in BOOLEAN :
            [Named(c, named) EXCEPT !.background = TRUE, !.acked = TRUE] \in Rows
    <3>1. \A row \in Rows : [row EXCEPT !.background = TRUE, !.acked = TRUE] \in Rows
          BY DEF Rows
    <3>. QED BY <3>1, <1>n
  <2>. QED BY <1>9, <1>t, <1>b, <2>1 DEF ReturnAcknowledges
<1>10. ASSUME NEW c \in Calls, ReturnSettles(c) PROVE Records'
      BY <1>10, <1>t, <1>c DEF ReturnSettles, Terminal
<1>11. ASSUME NEW c \in Calls, ReturnLooks(c) PROVE Records'
      BY <1>11, <1>t DEF ReturnLooks
<1>12. ASSUME NEW c \in Calls, ReturnDecides(c) PROVE Records'
  <2>1. PICK named \in BOOLEAN, answer \in BOOLEAN : ReturnDecides(c)!(named, answer)
        BY <1>12 DEF ReturnDecides
  <2>. DEFINE seen == IF ret[c] = "usage" THEN spent[c] ELSE 0
              total == Recorded(call[c], seen)
              row == [Named(c, named) EXCEPT !.usage = total]
  <2>2. total \in 0..MaxUsage
        BY <1>t, LifecycleConstants, RecordedGrows DEF Rest, LifecycleConstants
  <2>3. row \in Rows /\ [call[c] EXCEPT !.usage = total] \in Rows
    <3>1. \A r \in Rows : [r EXCEPT !.usage = total] \in Rows
          BY <2>2 DEF Rows
    <3>. QED BY <3>1, <1>n, <1>t
  <2>4. \A outcome \in Terminal : Closed(row, outcome) \in Rows
        BY <2>3, ClosedRow
  <2>. HIDE DEF row, total
  <2>5. \/ Bury(c)
        \/ call' = [call EXCEPT ![c] =
                       IF Running(c) /\ ~Clash(c, named)
                       THEN Closed(row, IF answer THEN "done" ELSE "failed")
                       ELSE [@ EXCEPT !.usage = total]]
        BY <2>1 DEF row, total
  <2>. QED BY <2>3, <2>4, <2>5, <1>b, <1>t DEF Terminal
<1>13. ASSUME NEW h \in Hooks, Tool(h) PROVE Records'
      BY <1>13, <1>t DEF Tool, FindCharged, Tally
<1>14. ASSUME NEW c \in Calls, Backfill(c) PROVE Records'
  <2>. DEFINE total == IF call[c].bound = None THEN 0 ELSE spent[call[c].bound]
  <2>1. total \in 0..MaxUsage
        BY <1>t, LifecycleConstants DEF Rest, Rows, LifecycleConstants
  <2>2. [call[c] EXCEPT !.usage = total] \in Rows
        BY <2>1, <1>t DEF Rows
  <2>. HIDE DEF total
  <2>3. call' = [call EXCEPT ![c].usage = total]
        BY <1>14 DEF Backfill, total
  <2>. QED BY <2>2, <2>3, <1>t
<1>15. ASSUME NEW j \in Jobs, FinishJob(j) PROVE Records'
      BY <1>15, <1>t, ClosedRow DEF FinishJob
<1>16. ASSUME Clear PROVE Records'
      BY <1>16, NoRow DEF Clear
<1>17. ASSUME UNCHANGED vars PROVE Records'
      BY <1>17, <1>t DEF vars
<1>. QED
    BY <1>1, <1>2, <1>3, <1>4, <1>5, <1>6, <1>7, <1>8, <1>9, <1>10, <1>11, <1>12, <1>13,
       <1>14, <1>15, <1>16, <1>17 DEF Next, Child, Stop, Return

\* So do the other variables.
LEMMA RestKept == ASSUME Types, [Next]_vars PROVE Rest'
<1>. USE DEF Rest
<1>t. Records /\ Rest
      BY DEF Types
<1>z. 0 \in 0..MaxTurns /\ 0 \in Nat
      BY LifecycleConstants DEF LifecycleConstants
<1>u. ASSUME NEW c \in Calls, NEW total \in 0..MaxUsage
      PROVE  Increment(call[c], total) \in Nat
      BY <1>t, RecordedGrows DEF Records
<1>s. \A x \in Calls : spent[x] \in 0..MaxUsage /\ 0 \in 0..MaxUsage
      BY <1>t, LifecycleConstants DEF LifecycleConstants
<1>1. ASSUME NEW c \in Calls, Dispatch(c) PROVE Rest'
  <2>1. /\ \/ child' = [child EXCEPT ![c] = "launched"]
           \/ child' = [child EXCEPT ![c] = "denied"]
        /\ \/ turns' = turns
           \/ \E D : turns' = [d \in Calls |-> IF d \in D THEN 0 ELSE turns[d]]
        /\ UNCHANGED <<spent, room, handlers, ended, logged, late>>
        BY <1>1 DEF Dispatch
  <2>. QED BY <2>1, <1>t, <1>z DEF handlers
<1>2. ASSUME NEW x \in Calls, Start(x) PROVE Rest'
      BY <1>2, <1>t DEF Start, handlers
<1>3. ASSUME NEW x \in Calls, EndTurn(x) \/ Resume(x) PROVE Rest'
  <2>1. \A n \in 0..MaxUsage : (IF n < MaxUsage THEN n + 1 ELSE n) \in 0..MaxUsage
        BY LifecycleConstants DEF LifecycleConstants
  <2>2. /\ \/ child' = [child EXCEPT ![x] = "ended"]
           \/ child' = [child EXCEPT ![x] = "working"]
        /\ \/ \E n \in 0..MaxUsage : spent' = [spent EXCEPT ![x] = n]
           \/ spent' = spent
        /\ UNCHANGED <<registry, call, turns, room, handlers, ended, logged, late>>
        BY <1>3, <1>t, <2>1 DEF EndTurn, Resume
  <2>. QED BY <2>1, <2>2, <1>t DEF handlers
<1>4. ASSUME NEW x \in Calls, Hush(x) \/ Wake(x) PROVE Rest'
      BY <1>4, <1>t DEF Hush, Wake, host, handlers
<1>6. ASSUME NEW x \in Calls, Handback(x) PROVE Rest'
      BY <1>6, <1>t, <1>z DEF Handback, host, handlers
<1>7. ASSUME NEW x \in Calls, StopArrives(x) PROVE Rest'
  <2>1. PICK c \in Owner(x), outcome \in Terminal \cup {None}, seen \in UsageSeen(x) :
            StopArrives(x)!(c, outcome, seen)
        BY <1>7 DEF StopArrives
  <2>2. c \in Calls
        BY DEF Owner, BoundTo, Unbound
  <2>3. Increment(call[c], seen) \in Nat
        BY <2>2, <1>s, <1>u, <1>t, LifecycleConstants DEF Rest, UsageSeen, LifecycleConstants
  <2>4. /\ logged' = [logged EXCEPT ![c] = @ + Increment(call[c], seen)]
        /\ \E n \in turns[c]..MaxTurns \cup {0} : turns' = [turns EXCEPT ![c] = n]
        /\ \/ stop' = [stop EXCEPT ![x] = c]
           \/ stop' = [stop EXCEPT ![x] = None]
        /\ UNCHANGED <<host, ret, hook, ended, late>>
        BY <2>1
  <2>. QED BY <2>2, <2>3, <2>4, <1>t, <1>z DEF host
<1>8. ASSUME NEW x \in Calls, StopSettles(x) PROVE Rest'
      BY <1>8, <1>t, <1>z DEF StopSettles, host
<1>9. ASSUME NEW c \in Calls, ReturnAcknowledges(c) \/ ReturnSettles(c) \/ ReturnLooks(c)
      PROVE  Rest'
      BY <1>9, <1>t DEF ReturnAcknowledges, ReturnSettles, ReturnLooks, host
<1>12. ASSUME NEW c \in Calls, ReturnDecides(c) PROVE Rest'
  <2>. DEFINE seen == IF ret[c] = "usage" THEN spent[c] ELSE 0
  <2>1. Increment(call[c], seen) \in Nat
        BY <1>s, <1>u
  <2>2. /\ \/ logged' = [logged EXCEPT ![c] = @ + Increment(call[c], seen)]
           \/ logged' = logged
        /\ turns' = [turns EXCEPT ![c] = 0]
        /\ ret' = [ret EXCEPT ![c] = "idle"]
        /\ UNCHANGED <<host, stop, hook, ended, late>>
        BY <1>12 DEF ReturnDecides
  <2>. QED BY <2>1, <2>2, <1>t, <1>z DEF host
<1>13. ASSUME NEW h \in Hooks, Tool(h) PROVE Rest'
  <2>1. \A n \in 0..MaxTurns : MoreTurns(n) \in 0..MaxTurns
        BY LifecycleConstants DEF MoreTurns, LifecycleConstants
  <2>. QED BY <1>13, <1>t, <2>1, LifecycleConstants
           DEF Tool, FindCharged, Tally, host, Charged, LifecycleConstants
<1>14. ASSUME NEW c \in Calls, Backfill(c) PROVE Rest'
  <2>. DEFINE total == IF call[c].bound = None THEN 0 ELSE spent[call[c].bound]
  <2>1. total \in 0..MaxUsage
        BY <1>t, <1>s DEF Records, Rows
  <2>2. Increment(call[c], total) \in Nat
        BY <2>1, <1>u
  <2>3. /\ logged' = [logged EXCEPT ![c] = @ + Increment(call[c], total)]
        /\ UNCHANGED <<registry, turns, host, handlers, ended, late>>
        BY <1>14 DEF Backfill
  <2>. QED BY <2>2, <2>3, <1>t DEF host, handlers
<1>15. ASSUME NEW j \in Jobs, FinishJob(j) PROVE Rest'
      BY <1>15, <1>t, <1>z DEF FinishJob, host, handlers
<1>16. ASSUME Clear PROVE Rest'
  <2>1. PICK read \in SUBSET {c \in Calls : Running(c) /\ call[c].bound # None} :
            Clear!(read)
        BY <1>16 DEF Clear
  <2>2. \A c \in read : c \in Calls /\ Increment(call[c], spent[call[c].bound]) \in Nat
        BY <1>t, <1>s, <1>u DEF Records, Rows
  <2>3. logged' \in [Calls -> Nat]
        BY <2>1, <2>2, <1>t
  <2>. QED BY <2>1, <2>3, <1>t, <1>z DEF host, handlers
<1>17. ASSUME UNCHANGED vars PROVE Rest'
      BY <1>17, <1>t DEF vars
<1>. QED
    BY <1>1, <1>2, <1>3, <1>4, <1>6, <1>7, <1>8, <1>9, <1>12, <1>13, <1>14, <1>15, <1>16,
       <1>17 DEF Next, Child, Stop, Return

-----------------------------------------------------------------------------
\* The registry as a sequence

\* The sequence s lists the calls of R, each once.
Lists(s, R) ==
    /\ s \in Seq(Calls)
    /\ R \subseteq Calls
    /\ \A c \in Calls : c \in R <=> \E i \in 1..Len(s) : s[i] = c
    /\ \A i, k \in 1..Len(s) : s[i] = s[k] => i = k

InRegistry == {c \in Calls : Registered(c)}

\* Listed, in these terms.
LEMMA ListedAs == Listed <=> Lists(registry, InRegistry) /\ Len(registry) <= room
BY DEF Listed, Lists, InRegistry

\* A new call is added at the end.
LEMMA AppendLists ==
    ASSUME NEW s, NEW R, Lists(s, R), NEW c \in Calls, c \notin R
    PROVE  Lists(Append(s, c), R \cup {c}) /\ Len(Append(s, c)) = Len(s) + 1
<1>. DEFINE t == Append(s, c)
<1>1. /\ t \in Seq(Calls) /\ Len(t) = Len(s) + 1 /\ Len(s) \in Nat
      /\ \A i \in 1..Len(s) : t[i] = s[i] /\ i \in 1..Len(t) /\ i # Len(t)
      /\ t[Len(t)] = c /\ Len(t) \in 1..Len(t)
      /\ \A i \in 1..Len(t) : i = Len(t) \/ i \in 1..Len(s)
      BY DEF Lists
<1>. HIDE DEF t
<1>2. \A d \in Calls : d \in R \cup {c} <=> \E i \in 1..Len(t) : t[i] = d
      BY <1>1 DEF Lists
<1>3. ASSUME NEW i \in 1..Len(t), NEW k \in 1..Len(t), t[i] = t[k] PROVE i = k
  <2>1. \A m \in 1..Len(s) : s[m] # c
        BY DEF Lists
  <2>. QED BY <1>1, <1>3, <2>1 DEF Lists
<1>. QED BY <1>1, <1>2, <1>3 DEF Lists, t

\* An evicted call leaves the others in their order.
LEMMA WithoutLists ==
    ASSUME NEW R, Lists(registry, R), NEW i \in 1..Len(registry)
    PROVE  Lists(Without(i), R \ {registry[i]}) /\ Len(Without(i)) = Len(registry) - 1
<1>. DEFINE n == Len(registry)
            t == Without(i)
<1>0. registry \in Seq(Calls) /\ n \in Nat /\ n # 0
      BY DEF Lists
<1>1. /\ t \in Seq(Calls) /\ Len(t) = n - 1
      /\ \A k \in 1..(n - 1) : t[k] = registry[IF k < i THEN k ELSE k + 1]
  <2>1. \A k \in 1..(n - 1) : (IF k < i THEN k ELSE k + 1) \in 1..n
        BY <1>0
  <2>2. t = [k \in 1..(n - 1) |-> registry[IF k < i THEN k ELSE k + 1]]
        BY DEF Without
  <2>. QED BY <1>0, <2>1, <2>2
<1>. HIDE DEF t, n
<1>2. ASSUME NEW k \in 1..(n - 1)
      PROVE  /\ k < i => t[k] = registry[k] /\ k \in 1..n /\ k # i
             /\ ~(k < i) => t[k] = registry[k + 1] /\ k + 1 \in 1..n /\ k + 1 # i
      BY <1>0, <1>1
<1>3. ASSUME NEW d \in Calls PROVE d \in R \ {registry[i]} <=> \E k \in 1..Len(t) : t[k] = d
  <2>1. ASSUME d \in R, d # registry[i] PROVE \E k \in 1..Len(t) : t[k] = d
    <3>1. PICK m \in 1..n : registry[m] = d
          BY <2>1 DEF Lists, n
    <3>2. CASE m < i
          BY <3>1, <3>2, <1>0, <1>1 DEF n
    <3>3. CASE m > i
      <4>1. m - 1 \in 1..(n - 1) /\ ~(m - 1 < i) /\ (m - 1) + 1 = m
            BY <3>3, <1>0 DEF n
      <4>. QED BY <4>1, <3>1, <1>1, <1>2
    <3>. QED BY <2>1, <3>1, <3>2, <3>3, <1>0 DEF n
  <2>2. ASSUME NEW k \in 1..Len(t), t[k] = d PROVE d \in R /\ d # registry[i]
    <3>1. PICK m \in 1..n : t[k] = registry[m] /\ m # i
          BY <1>1, <1>2
    <3>. QED BY <2>2, <3>1 DEF Lists, n
  <2>. QED BY <2>1, <2>2
<1>4. ASSUME NEW k \in 1..Len(t), NEW m \in 1..Len(t), t[k] = t[m] PROVE k = m
  <2>. DEFINE at(q) == IF q < i THEN q ELSE q + 1
  <2>1. /\ at(k) \in 1..n /\ at(m) \in 1..n
        /\ registry[at(k)] = registry[at(m)]
        BY <1>1, <1>2, <1>4
  <2>2. at(k) = at(m)
        BY <2>1 DEF Lists, n
  <2>. QED BY <2>2, <1>0, <1>1
<1>. QED BY <1>1, <1>3, <1>4 DEF Lists, n, t

\* Which of the terminal records goes, if there is one.
LEMMA OldestPlace ==
    ASSUME NEW P \in SUBSET Nat, P # {}
    PROVE  Oldest(P) \in P
<1>. DEFINE Less == OpToRel(<, Nat)
<1>1. IsWellFoundedOn(Less, Nat)
      BY NatLessThanWellFounded
<1>2. \E i \in P : \A k \in P : <<k, i>> \notin Less
      BY <1>1, WFMin
<1>3. PICK i \in P : \A k \in P : <<k, i>> \notin Less
      BY <1>2
<1>4. \A k \in P : <<k, i>> \in Less <=> k < i
      BY DEF OpToRel
<1>5. \A k \in P : ~(k < i)
      BY <1>3, <1>4
<1>6. \A k \in P : i <= k
      BY <1>5
<1>. QED BY <1>6 DEF Oldest

\* The registry keeps listing exactly the calls that have a record.
LEMMA ListedKept == ASSUME Types, Unlaunched, [Next]_vars PROVE Listed'
<1>t. Records /\ Rest /\ Listed
      BY DEF Types
<1>. USE DEF Registered
<1>s. ASSUME registry' = registry, room' = room, InRegistry' = InRegistry PROVE Listed'
      BY <1>s, <1>t DEF Listed, InRegistry
<1>b. ASSUME NEW c \in Calls, ~Registered(c), Bury(c), room' = room PROVE Listed'
  <2>1. CASE Len(registry) < room
    <3>1. InRegistry' = InRegistry \cup {c} /\ c \notin InRegistry
          BY <1>b, <2>1, <1>t DEF Bury, InRegistry, NoCall, Records, Rows
    <3>2. registry' = Append(registry, c) /\ Lists(registry, InRegistry)
          BY <1>b, <2>1, <1>t, ListedAs DEF Bury
    <3>3. Lists(registry', InRegistry') /\ Len(registry') = Len(registry) + 1
          BY <3>1, <3>2, AppendLists
    <3>4. Len(registry') <= room'
          BY <1>b, <2>1, <3>3, <1>t DEF Rest, Listed
    <3>. QED BY <3>3, <3>4 DEF Lists, Listed, InRegistry
  <2>2. CASE ~(Len(registry) < room)
        BY <1>b, <2>2, <1>s, <1>t DEF Bury, InRegistry
  <2>. QED BY <2>1, <2>2
<1>r. ASSUME NEW c \in Calls, NEW row, call' = [call EXCEPT ![c] = row],
             row.state # "absent" <=> Registered(c)
      PROVE  InRegistry' = InRegistry
      BY <1>r, <1>t DEF InRegistry, Records
<1>k. ASSUME NEW outcome \in Terminal, NEW row
      PROVE  Closed(row, outcome).state # "absent"
      BY DEF Closed, NoCall, Terminal
<1>1. ASSUME NEW c \in Calls, Dispatch(c) PROVE Listed'
  <2>1. PICK j \in Jobs, background \in BOOLEAN : Dispatch(c)!(j, background)
        BY <1>1 DEF Dispatch
  <2>. DEFINE replaced == Superseded(j, background)
              rows == [d \in Calls |-> IF d \in replaced THEN Closed(call[d], "failed")
                                                          ELSE call[d]]
              row == [NoCall EXCEPT !.state = "running", !.job = j,
                                    !.background = background]
              places == TerminalPlaces(rows)
  <2>2. /\ rows \in [Calls -> Rows]
        /\ \A d \in Calls : rows[d].state # "absent" <=> Registered(d)
        BY <1>t, <1>k, ClosedRow DEF Terminal, Superseded, Running, Records
  <2>3. row \in Rows /\ row.state # "absent"
        BY NoRow DEF Rows, NoCall
  <2>4. c \notin InRegistry
        BY <2>1 DEF Unlaunched, InRegistry, NoCall
  <2>5. places \subseteq 1..Len(registry) /\ places \in SUBSET Nat
        BY DEF TerminalPlaces
  <2>. HIDE DEF rows, row, places
  <2>6. room' = room
        BY <2>1
  <2>7. CASE registry' = Append(registry, c) /\ Len(registry) < room
                /\ call' = [rows EXCEPT ![c] = row]
    <3>1. InRegistry' = InRegistry \cup {c}
          BY <2>2, <2>3, <2>7 DEF InRegistry
    <3>2. Lists(registry', InRegistry') /\ Len(registry') = Len(registry) + 1
          BY <2>4, <2>7, <3>1, <1>t, ListedAs, AppendLists
    <3>3. Len(registry') <= room'
          BY <2>6, <2>7, <3>2, <1>t DEF Rest, Listed
    <3>. QED BY <3>2, <3>3 DEF Lists, Listed, InRegistry
  <2>8. CASE /\ Len(registry) >= room /\ places # {}
             /\ registry' = Append(Without(Oldest(places)), c)
             /\ call' = [rows EXCEPT ![registry[Oldest(places)]] = NoCall, ![c] = row]
    <3>. DEFINE i == Oldest(places)
                d == registry[i]
    <3>1. i \in 1..Len(registry)
          BY <2>5, <2>8, OldestPlace
    <3>. HIDE DEF i
    <3>2. d \in Calls /\ d \in InRegistry
          BY <3>1, <1>t DEF Listed, InRegistry
    <3>. HIDE DEF d
    <3>3. call' = [rows EXCEPT ![d] = NoCall, ![c] = row]
          BY <2>8 DEF i, d
    <3>4. InRegistry' = (InRegistry \ {d}) \cup {c}
      <4>1. \A e \in Calls : call'[e] = IF e = c THEN row ELSE IF e = d THEN NoCall ELSE rows[e]
            BY <3>2, <3>3, <2>2
      <4>. QED BY <4>1, <3>2, <2>2, <2>3, <2>4, NoRow DEF InRegistry
    <3>5. /\ Lists(Without(i), InRegistry \ {d})
          /\ Len(Without(i)) = Len(registry) - 1
          BY <3>1, <1>t, ListedAs, WithoutLists DEF d
    <3>6. Lists(registry', InRegistry') /\ Len(registry') = Len(registry) - 1 + 1
          BY <2>4, <2>8, <3>4, <3>5, AppendLists DEF i
    <3>7. Len(registry') <= room'
          BY <2>6, <3>6, <1>t DEF Rest, Listed
    <3>. QED BY <3>6, <3>7 DEF Lists, Listed, InRegistry
  <2>9. CASE UNCHANGED <<registry, call>>
        BY <2>6, <2>9, <1>s DEF InRegistry
  <2>. QED BY <2>1, <2>7, <2>8, <2>9 DEF rows, row, places
<1>2. ASSUME NEW x \in Calls, Start(x) PROVE Listed'
  <2>1. InRegistry' = InRegistry
        BY <1>2, <1>t DEF Start, InRegistry, Records, Rows
  <2>. QED BY <2>1, <1>2, <1>s DEF Start
<1>3. ASSUME NEW x \in Calls, EndTurn(x) \/ Resume(x) \/ ReturnLooks(x) PROVE Listed'
      BY <1>3, <1>s DEF EndTurn, Resume, ReturnLooks, InRegistry, host
<1>4. ASSUME NEW x \in Calls, Hush(x) PROVE Listed'
  <2>1. InRegistry' = InRegistry
        BY <1>4, <1>t DEF Hush, InRegistry, Records, Rows, Running
  <2>. QED BY <2>1, <1>4, <1>s DEF Hush, host
<1>5. ASSUME NEW x \in Calls, Wake(x) PROVE Listed'
  <2>1. InRegistry' = InRegistry
        BY <1>5, <1>t DEF Wake, InRegistry, Records, Rows
  <2>. QED BY <2>1, <1>5, <1>s DEF Wake, host
<1>6. ASSUME NEW x \in Calls, Handback(x) PROVE Listed'
  <2>1. InRegistry' = InRegistry
        BY <1>6, <1>t DEF Handback, InRegistry, Records, Rows, Running
  <2>. QED BY <2>1, <1>6, <1>s DEF Handback, host
<1>7. ASSUME NEW x \in Calls, StopArrives(x) PROVE Listed'
  <2>1. PICK c \in Owner(x), outcome \in Terminal \cup {None}, seen \in UsageSeen(x) :
            StopArrives(x)!(c, outcome, seen)
        BY <1>7 DEF StopArrives
  <2>. DEFINE row == [call[c] EXCEPT !.bound = x,
                        !.usage = Recorded(call[c], seen)]
  <2>2. c \in Calls
        BY DEF Owner, BoundTo, Unbound
  <2>3. /\ row.state = call[c].state
        /\ [row EXCEPT !.stopped = TRUE].state = call[c].state
        BY <2>2, <1>t DEF Records, Rows
  <2>. HIDE DEF row
  <2>4. call' = [call EXCEPT ![c] = IF ~Running(c) THEN row
                                    ELSE IF outcome = None THEN [row EXCEPT !.stopped = TRUE]
                                    ELSE Closed(row, outcome)]
        BY <2>1 DEF row
  <2>5. InRegistry' = InRegistry
        BY <2>2, <2>3, <2>4, <1>r, <1>k DEF Running
  <2>. QED BY <2>1, <2>5, <1>s DEF host
<1>8. ASSUME NEW c \in Calls, NEW outcome \in Terminal, Terminate(c, outcome), room' = room
      PROVE Listed'
  <2>1. CASE Registered(c)
    <3>1. InRegistry' = InRegistry
          BY <1>8, <2>1, <1>r, <1>k DEF Terminate, Running
    <3>. QED BY <1>8, <2>1, <3>1, <1>s DEF Terminate
  <2>2. CASE ~Registered(c)
        BY <1>8, <2>2, <1>b DEF Terminate
  <2>. QED BY <2>1, <2>2
<1>9. ASSUME NEW c \in Calls, ReturnAcknowledges(c) PROVE Listed'
  <2>1. PICK named \in BOOLEAN : ReturnAcknowledges(c)!(named)
        BY <1>9 DEF ReturnAcknowledges
  <2>2. CASE Registered(c)
    <3>1. [Named(c, named) EXCEPT !.background = TRUE, !.acked = TRUE].state = call[c].state
          BY <1>t DEF Named, Records, Rows
    <3>2. InRegistry' = InRegistry
          BY <2>1, <2>2, <3>1, <1>r
    <3>. QED BY <2>1, <2>2, <3>2, <1>s DEF host
  <2>3. CASE ~Registered(c)
        BY <2>1, <2>3, <1>b DEF host
  <2>. QED BY <2>2, <2>3
<1>10. ASSUME NEW x \in Calls, StopSettles(x) PROVE Listed'
      BY <1>10, <1>8, <1>t DEF StopSettles, host, Rest, Terminal
<1>11. ASSUME NEW c \in Calls, ReturnSettles(c) PROVE Listed'
      BY <1>11, <1>8 DEF ReturnSettles, host, Terminal
<1>12. ASSUME NEW c \in Calls, ReturnDecides(c) PROVE Listed'
  <2>1. PICK named \in BOOLEAN, answer \in BOOLEAN : ReturnDecides(c)!(named, answer)
        BY <1>12 DEF ReturnDecides
  <2>2. CASE Registered(c)
    <3>. DEFINE total == Recorded(call[c], IF ret[c] = "usage" THEN spent[c] ELSE 0)
                row == [Named(c, named) EXCEPT !.usage = total]
                outcome == IF answer THEN "done" ELSE "failed"
    <3>1. [call[c] EXCEPT !.usage = total].state = call[c].state
          BY <1>t DEF Records, Rows
    <3>. HIDE DEF row, total
    <3>2. call' = [call EXCEPT ![c] = IF Running(c) /\ ~Clash(c, named) THEN Closed(row, outcome)
                                      ELSE [call[c] EXCEPT !.usage = total]]
          BY <2>1, <2>2 DEF row, total
    <3>3. InRegistry' = InRegistry
          BY <2>2, <3>1, <3>2, <1>r, <1>k DEF Terminal
    <3>. QED BY <2>1, <2>2, <3>3, <1>s DEF host
  <2>3. CASE ~Registered(c)
        BY <2>1, <2>3, <1>b DEF host
  <2>. QED BY <2>2, <2>3
<1>13. ASSUME NEW h \in Hooks, Tool(h) PROVE Listed'
      BY <1>13, <1>s DEF Tool, FindCharged, Tally, host, InRegistry
<1>14. ASSUME NEW c \in Calls, Backfill(c) PROVE Listed'
  <2>1. InRegistry' = InRegistry
        BY <1>14, <1>t DEF Backfill, InRegistry, Records, Rows, Terminal
  <2>. QED BY <2>1, <1>14, <1>s DEF Backfill, host
<1>15. ASSUME NEW j \in Jobs, FinishJob(j) PROVE Listed'
  <2>1. InRegistry' = InRegistry
        BY <1>15, <1>t, <1>k DEF FinishJob, InRegistry, Records, Running
  <2>. QED BY <2>1, <1>15, <1>s DEF FinishJob, host
<1>16. ASSUME Clear PROVE Listed'
      BY <1>16, <1>t DEF Clear, Listed, host, Rest, NoCall
<1>17. ASSUME UNCHANGED vars PROVE Listed'
      BY <1>17, <1>s DEF vars, InRegistry
<1>. QED
    BY <1>1, <1>2, <1>3, <1>4, <1>5, <1>6, <1>7, <1>9, <1>10, <1>11, <1>12, <1>13, <1>14,
       <1>15, <1>16, <1>17 DEF Next, Child, Stop, Return

-----------------------------------------------------------------------------
\* What lies outside the registry

\* A record of a call that was never launched comes from nowhere.
LEMMA UnlaunchedKept == ASSUME Types, Unlaunched, [Next]_vars PROVE Unlaunched'
<1>t. Records /\ Rest
      BY DEF Types
<1>n. None \notin Calls
      BY LifecycleConstants DEF LifecycleConstants
<1>. USE DEF Registered
<1>q. SUFFICES ASSUME NEW d \in Calls, child'[d] \in {"none", "denied"}
               PROVE  /\ call'[d] = NoCall
                      /\ ret'[d] = "idle"
                      /\ logged'[d] = 0
                      /\ late'[d] = 0
                      /\ \A x \in Calls : stop'[x] # d /\ call'[x].bound # d
                      /\ \A h \in Hooks : hook'[h] # d
      BY DEF Unlaunched
<1>. DEFINE Absent == /\ call'[d] = NoCall
                      /\ \A x \in Calls : call'[x].bound # d
            Idle == /\ ret'[d] = "idle"
                    /\ logged'[d] = 0
                    /\ late'[d] = 0
                    /\ \A x \in Calls : stop'[x] # d
                    /\ \A h \in Hooks : hook'[h] # d
<1>o. child[d] \in {"none", "denied"} =>
          /\ call[d] = NoCall /\ ~Registered(d) /\ ~Running(d) /\ call[d].bound = None
          /\ ret[d] = "idle" /\ logged[d] = 0 /\ late[d] = 0
          /\ \A x \in Calls : stop[x] # d /\ call[x].bound # d
          /\ \A h \in Hooks : hook[h] # d
  <2>1. NoCall.state = "absent" /\ NoCall.bound = None
        BY NoRow
  <2>. QED BY <2>1 DEF Unlaunched, Running
<1>k. ASSUME NEW row, NEW outcome
      PROVE  Closed(row, outcome).bound = row.bound
      BY DEF Closed, NoCall
<1>b. ASSUME NEW c \in Calls, c # d, child[d] \in {"none", "denied"}, Bury(c)
      PROVE  Absent
      BY <1>b, <1>o, <1>t, <1>n, NoRow DEF Bury, Records
<1>c. ASSUME NEW c \in Calls, c # d, child[d] \in {"none", "denied"},
             NEW outcome \in Terminal, Terminate(c, outcome)
      PROVE  Absent
      BY <1>c, <1>b, <1>o, <1>t, <1>k DEF Terminate, Records
<1>1. ASSUME NEW c \in Calls, Dispatch(c) PROVE Absent /\ Idle
  <2>1. PICK j \in Jobs, background \in BOOLEAN : Dispatch(c)!(j, background)
        BY <1>1 DEF Dispatch
  <2>2. child[d] \in {"none", "denied"}
        BY <1>q, <2>1, <1>t DEF Rest
  <2>. DEFINE replaced == Superseded(j, background)
              rows == [e \in Calls |-> IF e \in replaced THEN Closed(call[e], "failed")
                                                          ELSE call[e]]
              row == [NoCall EXCEPT !.state = "running", !.job = j,
                                    !.background = background]
  <2>3. /\ DOMAIN rows = Calls /\ rows = [e \in Calls |-> rows[e]]
        /\ rows[d] = NoCall
        /\ \A e \in Calls : rows[e].bound = call[e].bound
        BY <2>2, <1>o, <1>k DEF Superseded
  <2>4. row.bound = None
        BY DEF NoCall
  <2>. HIDE DEF rows, row
  <2>5. \/ /\ \/ call' = [rows EXCEPT ![c] = row]
              \/ \E e : call' = [rows EXCEPT ![e] = NoCall, ![c] = row]
           /\ child' = [child EXCEPT ![c] = "launched"]
        \/ call' = call
        BY <2>1 DEF rows, row
  <2>6. Absent
    <3>1. CASE call' = call
          BY <3>1, <2>2, <1>o
    <3>2. CASE call' # call
      <4>1. c # d
            BY <1>q, <2>5, <3>2, <1>t DEF Rest
      <4>. QED BY <4>1, <3>2, <2>2, <2>3, <2>4, <2>5, <1>o, <1>n, NoRow
    <3>. QED BY <3>1, <3>2
  <2>. QED BY <2>1, <2>2, <2>6, <1>o DEF handlers
<1>2. ASSUME NEW x \in Calls, Start(x) PROVE Absent /\ Idle
  <2>1. child[d] \in {"none", "denied"} /\ d # x
        BY <1>q, <1>2, <1>t DEF Start, Rest
  <2>2. \A e \in Calls : /\ [call[e] EXCEPT !.bound = x].bound = x
                         /\ e \in Owner(x) => e # d
        BY <2>1, <1>o, <1>t, <1>n DEF Records, Rows, Owner, BoundTo, Unbound
  <2>3. \A e \in Calls : call'[e] = call[e] \/ (call'[e].bound = x /\ e # d)
        BY <1>2, <2>2 DEF Start
  <2>. QED BY <1>2, <2>1, <2>3, <1>o DEF Start, handlers
<1>3. ASSUME NEW x \in Calls, EndTurn(x) \/ Resume(x) PROVE Absent /\ Idle
      BY <1>q, <1>3, <1>t, <1>o DEF EndTurn, Resume, handlers, Rest
<1>4. ASSUME NEW x \in Calls, Hush(x) \/ Wake(x) \/ Handback(x) PROVE Absent /\ Idle
  <2>1. child[d] \in {"none", "denied"}
        BY <1>q, <1>4 DEF Hush, Wake, Handback, host
  <2>2. \A e \in Calls : /\ [call[e] EXCEPT !.quiet = TRUE].bound = call[e].bound
                         /\ [call[e] EXCEPT !.quiet = FALSE].bound = call[e].bound
                         /\ [call[e] EXCEPT !.handback = "yes"].bound = call[e].bound
                         /\ [call[e] EXCEPT !.handback = "limit"].bound = call[e].bound
        BY <1>t DEF Records, Rows
  <2>3. \A e \in Calls : \/ call'[e] = call[e]
                         \/ call'[e].bound = call[e].bound /\ e # d
    <3>1. CASE Hush(x)
          BY <3>1, <2>1, <2>2, <1>o, <1>t DEF Hush, Records
    <3>2. CASE Wake(x)
          BY <3>2, <2>1, <2>2, <1>o, <1>n DEF Wake, BoundTo
    <3>3. CASE Handback(x)
          BY <3>3, <2>1, <2>2, <1>o, <1>t DEF Handback, BoundTo, Charged, Records
    <3>. QED BY <1>4, <3>1, <3>2, <3>3
  <2>. QED BY <1>4, <2>1, <2>3, <1>o DEF Hush, Wake, Handback, host, handlers
<1>7. ASSUME NEW x \in Calls, StopArrives(x) PROVE Absent /\ Idle
  <2>1. PICK c \in Owner(x), outcome \in Terminal \cup {None}, seen \in UsageSeen(x) :
            StopArrives(x)!(c, outcome, seen)
        BY <1>7 DEF StopArrives
  <2>2. child[d] \in {"none", "denied"} /\ child[x] = "ended" /\ x # d
        BY <1>q, <2>1 DEF host
  <2>3. c \in Calls /\ c # d
        BY <1>o, <2>2, <1>n DEF Owner, BoundTo, Unbound
  <2>4. Idle
        BY <2>1, <2>2, <2>3, <1>o, <1>t, <1>n DEF Rest
  <2>. DEFINE row == [call[c] EXCEPT !.bound = x,
                        !.usage = Recorded(call[c], seen)]
  <2>5. row.bound = x /\ [row EXCEPT !.stopped = TRUE].bound = x
        BY <2>3, <1>t DEF Records, Rows
  <2>. HIDE DEF row
  <2>6. call' = [call EXCEPT ![c] = IF ~Running(c) THEN row
                                    ELSE IF outcome = None THEN [row EXCEPT !.stopped = TRUE]
                                    ELSE Closed(row, outcome)]
        BY <2>1 DEF row
  <2>7. call'[c].bound = x /\ \A e \in Calls : e # c => call'[e] = call[e]
        BY <2>3, <2>5, <2>6, <1>k, <1>t DEF Records
  <2>. QED BY <2>2, <2>3, <2>4, <2>7, <1>o
<1>8. ASSUME NEW x \in Calls, StopSettles(x) PROVE Absent /\ Idle
  <2>1. child[d] \in {"none", "denied"} /\ stop[x] \in Calls
        BY <1>q, <1>8, <1>t DEF StopSettles, host, Rest
  <2>. QED BY <2>1, <1>8, <1>c, <1>o, <1>t, <1>n DEF StopSettles, host, Terminal, Rest
<1>9. ASSUME NEW c \in Calls, ReturnAcknowledges(c) PROVE Absent /\ Idle
  <2>1. PICK named \in BOOLEAN : ReturnAcknowledges(c)!(named)
        BY <1>9 DEF ReturnAcknowledges
  <2>2. child[d] \in {"none", "denied"} /\ c # d
        BY <1>q, <2>1 DEF host
  <2>3. [Named(c, named) EXCEPT !.background = TRUE, !.acked = TRUE].bound \in {call[c].bound, c}
        BY <1>t DEF Named, Records, Rows
  <2>4. Absent
        BY <2>1, <2>2, <2>3, <1>b, <1>o, <1>t DEF Records
  <2>. QED BY <2>1, <2>2, <2>4, <1>o, <1>t DEF host, Rest
<1>10. ASSUME NEW c \in Calls, ReturnSettles(c) PROVE Absent /\ Idle
  <2>1. child[d] \in {"none", "denied"} /\ c # d
        BY <1>q, <1>10, <1>o DEF ReturnSettles, host
  <2>. QED BY <2>1, <1>10, <1>c, <1>o, <1>t DEF ReturnSettles, host, Terminal, Rest
<1>11. ASSUME NEW c \in Calls, ReturnLooks(c) PROVE Absent /\ Idle
      BY <1>q, <1>11, <1>o, <1>t DEF ReturnLooks, host, Rest
<1>12. ASSUME NEW c \in Calls, ReturnDecides(c) PROVE Absent /\ Idle
  <2>1. PICK named \in BOOLEAN, answer \in BOOLEAN : ReturnDecides(c)!(named, answer)
        BY <1>12 DEF ReturnDecides
  <2>2. child[d] \in {"none", "denied"} /\ c # d
        BY <1>q, <2>1 DEF host
  <2>. DEFINE total == Recorded(call[c], IF ret[c] = "usage" THEN spent[c] ELSE 0)
              row == [Named(c, named) EXCEPT !.usage = total]
              same == [call[c] EXCEPT !.usage = total]
              outcome == IF answer THEN "done" ELSE "failed"
  <2>3. row.bound \in {call[c].bound, c} /\ same.bound = call[c].bound
        BY <1>t DEF Named, Records, Rows
  <2>. HIDE DEF row, same
  <2>4. \/ Bury(c)
        \/ call' = [call EXCEPT ![c] = IF Running(c) /\ ~Clash(c, named)
                                       THEN Closed(row, outcome) ELSE same]
        BY <2>1 DEF row, same
  <2>5. Absent
        BY <2>2, <2>3, <2>4, <1>b, <1>o, <1>t, <1>k DEF Records
  <2>6. \/ logged' = logged
        \/ \E n : logged' = [logged EXCEPT ![c] = n]
        BY <2>1
  <2>. QED BY <2>1, <2>2, <2>5, <2>6, <1>o, <1>t DEF host, Rest
<1>13. ASSUME NEW h \in Hooks, Tool(h) PROVE Absent /\ Idle
  <2>1. child[d] \in {"none", "denied"}
        BY <1>q, <1>13 DEF Tool, FindCharged, Tally, host
  <2>. QED BY <2>1, <1>13, <1>o, <1>t, <1>n
           DEF Tool, FindCharged, Tally, host, Charged, Live, Rest
<1>14. ASSUME NEW c \in Calls, Backfill(c) PROVE Absent /\ Idle
  <2>1. child[d] \in {"none", "denied"} /\ c # d
        BY <1>q, <1>14, <1>o DEF Backfill, host, Terminal
  <2>2. \E n : logged' = [logged EXCEPT ![c] = n]
        BY <1>14 DEF Backfill
  <2>. QED BY <2>1, <2>2, <1>14, <1>o, <1>t DEF Backfill, host, handlers, Rest, Records, Rows
<1>15. ASSUME NEW j \in Jobs, FinishJob(j) PROVE Absent /\ Idle
  <2>1. child[d] \in {"none", "denied"}
        BY <1>q, <1>15 DEF FinishJob, host
  <2>. QED BY <2>1, <1>15, <1>o, <1>t, <1>k DEF FinishJob, host, handlers
<1>16. ASSUME Clear PROVE Absent /\ Idle
  <2>1. PICK read \in SUBSET {c \in Calls : Running(c) /\ call[c].bound # None} :
            Clear!(read)
        BY <1>16 DEF Clear
  <2>2. child[d] \in {"none", "denied"}
        BY <1>q, <2>1 DEF host
  <2>. QED BY <2>1, <2>2, <1>o, <1>n, NoRow DEF host, handlers
<1>17. ASSUME UNCHANGED vars PROVE Absent /\ Idle
      BY <1>q, <1>17, <1>o DEF vars
<1>. QED
    BY <1>1, <1>2, <1>3, <1>4, <1>7, <1>8, <1>9, <1>10, <1>11, <1>12, <1>13, <1>14,
       <1>15, <1>16, <1>17 DEF Next, Child, Stop, Return

\* What a step may not undo: a call that is closed, whose child's stop was
\* recorded or which handed back at the turn limit.
Settled(c) ==
    Running(c)' =>
        /\ Running(c)
        /\ call[c].stopped => call'[c].stopped
        /\ call[c].handback = "limit" => call'[c].handback = "limit"

\* No step takes a launched call back.
LEMMA LaunchedSettles ==
    ASSUME Types, Unlaunched, [Next]_vars, NEW d \in Calls, child[d] \notin {"none", "denied"}
    PROVE  child'[d] \notin {"none", "denied"} /\ Settled(d)
<1>t. Records /\ Rest
      BY DEF Types
<1>. USE DEF Running
<1>. DEFINE Kept == child'[d] \notin {"none", "denied"} /\ Settled(d)
<1>k. ASSUME NEW row, NEW outcome \in Terminal
      PROVE  Closed(row, outcome).state # "running"
      BY DEF Closed, NoCall, Terminal
<1>e. NoCall.state # "running" /\ [NoCall EXCEPT !.state = "failed"].state # "running"
      BY NoRow
<1>b. ASSUME NEW c \in Calls, Bury(c) PROVE Settled(d)
      BY <1>b, <1>t, <1>e DEF Bury, Settled, Records
<1>c. ASSUME NEW c \in Calls, NEW outcome \in Terminal, Terminate(c, outcome)
      PROVE  Settled(d)
  <2>1. CASE Registered(c)
        BY <1>c, <2>1, <1>t, <1>k DEF Terminate, Settled, Records
  <2>2. CASE ~Registered(c)
        BY <1>c, <2>2, <1>b DEF Terminate
  <2>. QED BY <2>1, <2>2
<1>1. ASSUME NEW c \in Calls, Dispatch(c) PROVE Kept
  <2>1. PICK j \in Jobs, background \in BOOLEAN : Dispatch(c)!(j, background)
        BY <1>1 DEF Dispatch
  <2>2. c # d /\ child'[d] = child[d]
        BY <2>1, <1>t DEF Rest
  <2>. DEFINE replaced == Superseded(j, background)
              rows == [e \in Calls |-> IF e \in replaced THEN Closed(call[e], "failed")
                                                          ELSE call[e]]
              row == [NoCall EXCEPT !.state = "running", !.job = j,
                                    !.background = background]
  <2>3. /\ rows = [e \in Calls |-> rows[e]]
        /\ rows[d].state = "running" => rows[d] = call[d]
        BY <1>k DEF Terminal
  <2>. HIDE DEF rows, row
  <2>5. \/ call' = [rows EXCEPT ![c] = row]
        \/ \E e : call' = [rows EXCEPT ![e] = NoCall, ![c] = row]
        \/ call' = call
        BY <2>1 DEF rows, row
  <2>6. call'[d] \in {NoCall, rows[d], call[d]}
        BY <2>2, <2>3, <2>5
  <2>. QED BY <2>2, <2>3, <2>6, <1>e DEF Settled
<1>2. ASSUME NEW x \in Calls, Start(x) PROVE Kept
  <2>1. call'[d] = call[d] \/ call'[d] = [call[d] EXCEPT !.bound = x]
        BY <1>2 DEF Start
  <2>. QED BY <2>1, <1>2, <1>t, RowFields DEF Start, Records, Rest, Settled
<1>3. ASSUME NEW x \in Calls, EndTurn(x) \/ Resume(x) PROVE Kept
      BY <1>3, <1>t DEF EndTurn, Resume, Rest, Settled
<1>4. ASSUME NEW x \in Calls, Hush(x) PROVE Kept
  <2>1. call'[d] = call[d] \/ call'[d] = [call[d] EXCEPT !.quiet = TRUE]
        BY <1>4, <1>t DEF Hush, Records
  <2>. QED BY <2>1, <1>4, <1>t, RowFields DEF Hush, host, Records, Settled
<1>5. ASSUME NEW x \in Calls, Wake(x) PROVE Kept
  <2>1. call'[d] = call[d] \/ call'[d] = [call[d] EXCEPT !.quiet = FALSE]
        BY <1>5 DEF Wake
  <2>. QED BY <2>1, <1>5, <1>t, RowFields DEF Wake, host, Records, Settled
<1>6. ASSUME NEW x \in Calls, Handback(x) PROVE Kept
  <2>1. PICK c \in BoundTo(x) \cup Charged, limit \in BOOLEAN : Handback(x)!(c, limit)
        BY <1>6 DEF Handback
  <2>2. \/ call'[d] = call[d]
        \/ call[d].handback = "no" /\ \E v : call'[d] = [call[d] EXCEPT !.handback = v]
        BY <2>1, <1>t DEF Records
  <2>. QED BY <2>1, <2>2, <1>t, RowFields DEF host, Records, Settled
<1>7. ASSUME NEW x \in Calls, StopArrives(x) PROVE Kept
  <2>1. PICK c \in Owner(x), outcome \in Terminal \cup {None}, seen \in UsageSeen(x) :
            StopArrives(x)!(c, outcome, seen)
        BY <1>7 DEF StopArrives
  <2>. DEFINE row == [call[c] EXCEPT !.bound = x,
                        !.usage = Recorded(call[c], seen)]
              stopped == [row EXCEPT !.stopped = TRUE]
  <2>2. c \in Calls
        BY DEF Owner, BoundTo, Unbound
  <2>3. /\ row.state = call[c].state /\ row.handback = call[c].handback
        /\ row.stopped = call[c].stopped
        /\ stopped.state = call[c].state /\ stopped.handback = call[c].handback
        /\ stopped.stopped
        BY <2>2, <1>t DEF Records, Rows
  <2>. HIDE DEF row, stopped
  <2>4. call' = [call EXCEPT ![c] = IF ~Running(c) THEN row
                                    ELSE IF outcome = None THEN stopped
                                    ELSE Closed(row, outcome)]
        BY <2>1 DEF row, stopped
  <2>5. \/ call'[d] = call[d]
        \/ d = c /\ call'[d] \in {row, stopped}
        \/ call'[d].state # "running"
        BY <2>2, <2>4, <1>k, <1>t DEF Records
  <2>. QED BY <2>1, <2>3, <2>5 DEF host, Settled
<1>8. ASSUME NEW x \in Calls, StopSettles(x) PROVE Kept
      BY <1>8, <1>c, <1>t DEF StopSettles, host, Terminal, Rest
<1>9. ASSUME NEW c \in Calls, ReturnAcknowledges(c) PROVE Kept
  <2>1. PICK named \in BOOLEAN : ReturnAcknowledges(c)!(named)
        BY <1>9 DEF ReturnAcknowledges
  <2>. DEFINE row == [Named(c, named) EXCEPT !.background = TRUE, !.acked = TRUE]
  <2>2. /\ row.state = call[c].state /\ row.handback = call[c].handback
        /\ row.stopped = call[c].stopped
        BY <1>t DEF Named, Records, Rows
  <2>. HIDE DEF row
  <2>3. \/ Bury(c)
        \/ call' = [call EXCEPT ![c] = IF Running(c) THEN row ELSE @]
        BY <2>1 DEF row
  <2>4. CASE call' = [call EXCEPT ![c] = IF Running(c) THEN row ELSE @]
    <3>1. child' = child
          BY <2>1 DEF host
    <3>. QED BY <2>2, <2>4, <3>1, <1>t DEF Settled, Records
  <2>. QED BY <2>1, <2>3, <2>4, <1>b DEF host
<1>10. ASSUME NEW c \in Calls, ReturnSettles(c) PROVE Kept
      BY <1>10, <1>c DEF ReturnSettles, host, Terminal
<1>11. ASSUME NEW c \in Calls, ReturnLooks(c) PROVE Kept
      BY <1>11 DEF ReturnLooks, host, Settled
<1>12. ASSUME NEW c \in Calls, ReturnDecides(c) PROVE Kept
  <2>1. PICK named \in BOOLEAN, answer \in BOOLEAN : ReturnDecides(c)!(named, answer)
        BY <1>12 DEF ReturnDecides
  <2>. DEFINE total == Recorded(call[c], IF ret[c] = "usage" THEN spent[c] ELSE 0)
              row == [Named(c, named) EXCEPT !.usage = total]
              same == [call[c] EXCEPT !.usage = total]
              outcome == IF answer THEN "done" ELSE "failed"
  <2>2. /\ same.state = call[c].state /\ same.handback = call[c].handback
        /\ same.stopped = call[c].stopped
        BY <1>t DEF Records, Rows
  <2>. HIDE DEF row, same
  <2>3. \/ Bury(c)
        \/ call' = [call EXCEPT ![c] = IF Running(c) /\ ~Clash(c, named)
                                       THEN Closed(row, outcome) ELSE same]
        BY <2>1 DEF row, same
  <2>4. CASE call' = [call EXCEPT ![c] = IF Running(c) /\ ~Clash(c, named)
                                         THEN Closed(row, outcome) ELSE same]
    <3>1. child' = child
          BY <2>1 DEF host
    <3>. QED BY <2>2, <2>4, <3>1, <1>k, <1>t DEF Settled, Records, Terminal
  <2>. QED BY <2>1, <2>3, <2>4, <1>b DEF host
<1>13. ASSUME NEW h \in Hooks, Tool(h) PROVE Kept
  <2>1. child' = child /\ call' = call
        BY <1>13 DEF Tool, FindCharged, Tally, host
  <2>. QED BY <2>1 DEF Settled
<1>14. ASSUME NEW c \in Calls, Backfill(c) PROVE Kept
  <2>1. call'[d] = call[d] \/ \E v : call'[d] = [call[d] EXCEPT !.usage = v]
        BY <1>14, <1>t DEF Backfill, Records
  <2>. QED BY <2>1, <1>14, <1>t, RowFields DEF Backfill, host, Settled, Records
<1>15. ASSUME NEW j \in Jobs, FinishJob(j) PROVE Kept
  <2>1. call'[d] = call[d] \/ call'[d].state # "running"
        BY <1>15, <1>k DEF FinishJob
  <2>. QED BY <2>1, <1>15 DEF FinishJob, host, Settled
<1>16. ASSUME Clear PROVE Kept
      BY <1>16, <1>e DEF Clear, host, Settled
<1>17. ASSUME UNCHANGED vars PROVE Kept
      BY <1>17 DEF vars, Settled
<1>. QED
    BY <1>1, <1>2, <1>3, <1>4, <1>5, <1>6, <1>7, <1>8, <1>9, <1>10, <1>11, <1>12, <1>13,
       <1>14, <1>15, <1>16, <1>17 DEF Next, Child, Stop, Return

\* A tool use that charges an ended child looked before the end.
LEMMA LateFoundKept ==
    ASSUME Types, Unlaunched, LateFound, [Next]_vars PROVE LateFound'
<1>t. Records /\ Rest
      BY DEF Types
<1>h. /\ IsFiniteSet(Hooks) /\ Cardinality(Hooks) \in Nat
      /\ \A P \in SUBSET Hooks : IsFiniteSet(P) /\ Cardinality(P) \in 0..Cardinality(Hooks)
      BY LifecycleConstants, FS_CardinalityType, FS_Subset DEF LifecycleConstants
<1>q. SUFFICES ASSUME NEW c \in Calls
               PROVE  /\ late'[c] + Cardinality(Pending(c)') <= Cardinality(Hooks)
                      /\ ~Over(c)' => late'[c] = 0
      BY DEF LateFound
<1>p. Pending(c) \in SUBSET Hooks /\ Pending(c)' \in SUBSET Hooks
      BY DEF Pending
<1>o. Over(c) /\ child[c] \notin {"none", "denied"} => Over(c)'
      BY LaunchedSettles DEF Over, Settled
<1>l. ~Over(c)' => late[c] = 0
      BY <1>o DEF LateFound, Unlaunched
<1>1. CASE hook' = hook /\ late' = late
      BY <1>1, <1>l DEF LateFound, Pending
<1>2. ASSUME NEW h \in Hooks, FindCharged(h)
      PROVE  /\ late'[c] + Cardinality(Pending(c)') <= Cardinality(Hooks)
             /\ ~Over(c)' => late'[c] = 0
  <2>1. PICK d \in Charged : /\ hook[h] = None
                             /\ hook' = [hook EXCEPT ![h] = d]
                             /\ late' = late
        BY <1>2 DEF FindCharged
  <2>2. CASE d = c
    <3>1. ~Over(c)
          BY <2>2 DEF Charged, Live, Over, ChildHasStopped
    <3>2. late[c] = 0
          BY <3>1 DEF LateFound
    <3>. QED BY <2>1, <3>2, <1>h, <1>p
  <2>3. CASE d # c
    <3>1. Pending(c)' = Pending(c)
          BY <2>1, <2>3, <1>t, LifecycleConstants DEF Pending, Rest, LifecycleConstants
    <3>. QED BY <2>1, <3>1, <1>l DEF LateFound
  <2>. QED BY <2>2, <2>3
<1>3. ASSUME NEW h \in Hooks, Tally(h)
      PROVE  /\ late'[c] + Cardinality(Pending(c)') <= Cardinality(Hooks)
             /\ ~Over(c)' => late'[c] = 0
  <2>1. CASE hook[h] = c
    <3>1. /\ h \in Pending(c) /\ Pending(c)' = Pending(c) \ {h}
          BY <1>3, <2>1, <1>t, LifecycleConstants
          DEF Tally, Pending, Rest, LifecycleConstants
    <3>2. Cardinality(Pending(c)') = Cardinality(Pending(c)) - 1
          BY <3>1, <1>h, <1>p, FS_RemoveElement
    <3>3. Over(c)' = Over(c)
          BY <1>3 DEF Tally, Over, Running
    <3>4. late'[c] = IF Over(c) THEN late[c] + 1 ELSE late[c]
          BY <1>3, <2>1, <1>t DEF Tally, Rest
    <3>. QED BY <3>2, <3>3, <3>4, <1>t, <1>h, <1>p DEF LateFound, Rest
  <2>2. CASE hook[h] # c
    <3>1. Pending(c)' = Pending(c)
          BY <1>3, <2>2, <1>t, LifecycleConstants DEF Tally, Pending, Rest, LifecycleConstants
    <3>2. late'[c] = late[c]
          BY <1>3, <2>2, <1>t DEF Tally, Rest
    <3>. QED BY <3>1, <3>2, <1>l DEF LateFound
  <2>. QED BY <2>1, <2>2
<1>4. CASE \E h \in Hooks : Tool(h)
      BY <1>2, <1>3, <1>4 DEF Tool
<1>5. CASE ~ \E h \in Hooks : Tool(h)
  <2>. DEFINE Same == hook' = hook /\ late' = late
  <2>1. ASSUME NEW x \in Calls, Dispatch(x) PROVE Same
        BY <2>1 DEF Dispatch, handlers
  <2>2. ASSUME NEW x \in Calls, Child(x) PROVE Same
        BY <2>2 DEF Child, Start, EndTurn, Resume, Hush, Wake, Handback, handlers
  <2>3. ASSUME NEW x \in Calls, Stop(x) PROVE Same
        BY <2>3 DEF Stop, StopArrives, StopSettles
  <2>4. ASSUME NEW x \in Calls, Return(x) PROVE Same
        BY <2>4 DEF Return, ReturnAcknowledges, ReturnSettles, ReturnLooks, ReturnDecides
  <2>5. ASSUME NEW x \in Calls, Backfill(x) PROVE Same
        BY <2>5 DEF Backfill, handlers
  <2>6. ASSUME NEW j \in Jobs, FinishJob(j) PROVE Same
        BY <2>6 DEF FinishJob, handlers
  <2>7. (Clear \/ UNCHANGED vars) => Same
        BY DEF Clear, handlers, vars
  <2>8. Same
        BY <1>5, <2>1, <2>2, <2>3, <2>4, <2>5, <2>6, <2>7 DEF Next
  <2>. QED BY <2>8, <1>1
<1>. QED BY <1>4, <1>5

\* Late charges are bounded by the tool uses under way.
LEMMA LateFoundBounds == ASSUME Types, LateFound PROVE LateChargesBounded
<1>1. /\ \A c \in Calls : late[c] \in Nat /\ Pending(c) \in SUBSET Hooks
      /\ \A P \in SUBSET Hooks : Cardinality(P) \in Nat
      /\ Cardinality(Hooks) \in Nat
      BY LifecycleConstants, FS_CardinalityType, FS_Subset
      DEF LifecycleConstants, Types, Rest, Pending
<1>. QED BY <1>1 DEF LateFound, LateChargesBounded

-----------------------------------------------------------------------------
\* The handover between the two closers

\* Acknowledgement and stop do not wait for each other.
LEMMA NoLeakKept == ASSUME Types, NoLeak, [Next]_vars PROVE NoLeak'
<1>t. Records /\ Rest
      BY DEF Types
<1>n. None \notin Calls
      BY LifecycleConstants DEF LifecycleConstants
<1>. USE DEF Running
<1>q. SUFFICES ASSUME NEW d \in Calls, Running(d)', call'[d].acked, call'[d].stopped
               PROVE  ret'[d] = "settle" \/ \E x \in Calls : stop'[x] = d
      BY DEF NoLeak
<1>. DEFINE Handed == ret'[d] = "settle" \/ \E x \in Calls : stop'[x] = d
            Alike == call'[d] = call[d] \/ (/\ call'[d].state = call[d].state
                                            /\ call'[d].acked = call[d].acked
                                            /\ call'[d].stopped = call[d].stopped)
<1>k. ASSUME NEW row, NEW outcome \in Terminal
      PROVE  Closed(row, outcome).state # "running"
      BY DEF Closed, NoCall, Terminal
<1>e. /\ NoCall.state # "running" /\ [NoCall EXCEPT !.state = "failed"].state # "running"
      BY NoRow
<1>a. Alike => ret[d] = "settle" \/ \E x \in Calls : stop[x] = d
      BY <1>q DEF NoLeak
<1>s. Alike /\ stop' = stop /\ ret' = ret => Handed
      BY <1>a
<1>b. ASSUME NEW c \in Calls, Bury(c) PROVE call'[d] = call[d]
      BY <1>b, <1>q, <1>t, <1>e DEF Bury, Records
<1>c. ASSUME NEW c \in Calls, NEW outcome \in Terminal, Terminate(c, outcome)
      PROVE  call'[d] = call[d] /\ (Registered(c) => c # d \/ ~Running(d))
  <2>1. CASE Registered(c)
        BY <1>c, <2>1, <1>q, <1>t, <1>k DEF Terminate, Records
  <2>2. CASE ~Registered(c)
        BY <1>c, <2>2, <1>b DEF Terminate
  <2>. QED BY <2>1, <2>2
<1>1. ASSUME NEW c \in Calls, Dispatch(c) PROVE Handed
  <2>1. PICK j \in Jobs, background \in BOOLEAN : Dispatch(c)!(j, background)
        BY <1>1 DEF Dispatch
  <2>. DEFINE replaced == Superseded(j, background)
              rows == [e \in Calls |-> IF e \in replaced THEN Closed(call[e], "failed")
                                                          ELSE call[e]]
              row == [NoCall EXCEPT !.state = "running", !.job = j,
                                    !.background = background]
  <2>3. /\ rows = [e \in Calls |-> rows[e]]
        /\ rows[d].state = "running" => rows[d] = call[d]
        /\ ~row.stopped
        BY <1>k DEF Terminal, NoCall
  <2>. HIDE DEF rows, row
  <2>5. \/ call' = [rows EXCEPT ![c] = row]
        \/ \E e : call' = [rows EXCEPT ![e] = NoCall, ![c] = row]
        \/ call' = call
        BY <2>1 DEF rows, row
  <2>6. call'[d] \in {NoCall, rows[d], call[d], row}
        BY <2>3, <2>5
  <2>. QED BY <1>q, <2>1, <2>3, <2>6, <1>e, <1>s DEF handlers
<1>2. ASSUME NEW x \in Calls, Start(x) PROVE Handed
  <2>1. call'[d] = call[d] \/ call'[d] = [call[d] EXCEPT !.bound = x]
        BY <1>2 DEF Start
  <2>. QED BY <2>1, <1>2, <1>t, <1>s, RowFields DEF Start, Records, handlers
<1>3. ASSUME NEW x \in Calls, EndTurn(x) \/ Resume(x) PROVE Handed
      BY <1>3, <1>s DEF EndTurn, Resume, handlers
<1>4. ASSUME NEW x \in Calls, Hush(x) PROVE Handed
  <2>1. call'[d] = call[d] \/ call'[d] = [call[d] EXCEPT !.quiet = TRUE]
        BY <1>4, <1>t DEF Hush, Records
  <2>. QED BY <2>1, <1>4, <1>t, <1>s, RowFields DEF Hush, handlers, Records
<1>5. ASSUME NEW x \in Calls, Wake(x) PROVE Handed
  <2>1. call'[d] = call[d] \/ call'[d] = [call[d] EXCEPT !.quiet = FALSE]
        BY <1>5 DEF Wake
  <2>. QED BY <2>1, <1>5, <1>t, <1>s, RowFields DEF Wake, handlers, Records
<1>6. ASSUME NEW x \in Calls, Handback(x) PROVE Handed
  <2>1. PICK c \in BoundTo(x) \cup Charged, limit \in BOOLEAN : Handback(x)!(c, limit)
        BY <1>6 DEF Handback
  <2>2. call'[d] = call[d] \/ \E v : call'[d] = [call[d] EXCEPT !.handback = v]
        BY <2>1, <1>t DEF Records
  <2>. QED BY <2>1, <2>2, <1>t, <1>s, RowFields DEF handlers, Records
<1>7. ASSUME NEW x \in Calls, StopArrives(x) PROVE Handed
  <2>1. PICK c \in Owner(x), outcome \in Terminal \cup {None}, seen \in UsageSeen(x) :
            StopArrives(x)!(c, outcome, seen)
        BY <1>7 DEF StopArrives
  <2>. DEFINE row == [call[c] EXCEPT !.bound = x,
                        !.usage = Recorded(call[c], seen)]
              stopped == [row EXCEPT !.stopped = TRUE]
  <2>2. c \in Calls
        BY DEF Owner, BoundTo, Unbound
  <2>3. /\ row.state = call[c].state
        /\ stopped.acked = call[c].acked
        BY <2>2, <1>t DEF Records, Rows
  <2>. HIDE DEF row, stopped
  <2>4. call' = [call EXCEPT ![c] = IF ~Running(c) THEN row
                                    ELSE IF outcome = None THEN stopped
                                    ELSE Closed(row, outcome)]
        BY <2>1 DEF row, stopped
  <2>5. CASE c = d
    <3>1. Running(c) /\ outcome = None /\ call[c].acked
          BY <1>q, <2>2, <2>3, <2>4, <2>5, <1>k, <1>t DEF Records
    <3>. QED BY <2>1, <2>5, <3>1, <1>t DEF Rest
  <2>6. CASE c # d
    <3>1. ret[d] = "settle" \/ \E y \in Calls : stop[y] = d
          BY <2>2, <2>4, <2>6, <1>a, <1>t DEF Records
    <3>2. /\ ret' = ret /\ stop[x] = None
          /\ \A y \in Calls : y # x => stop'[y] = stop[y]
          BY <2>1, <1>t DEF Rest
    <3>. QED BY <3>1, <3>2, <1>n
  <2>. QED BY <2>5, <2>6
<1>8. ASSUME NEW x \in Calls, StopSettles(x) PROVE Handed
  <2>1. stop[x] \in Calls /\ Terminate(stop[x], "done")
        BY <1>8, <1>t DEF StopSettles, Rest
  <2>2. call'[d] = call[d] /\ (Registered(stop[x]) => stop[x] # d)
        BY <2>1, <1>c, <1>q DEF Terminal
  <2>3. stop[x] # d
        BY <2>2, <1>q DEF Registered
  <2>4. \A y \in Calls : y # x => stop'[y] = stop[y]
        BY <1>8, <1>t DEF StopSettles, Rest
  <2>. QED BY <2>2, <2>3, <2>4, <1>8, <1>a DEF StopSettles
<1>9. ASSUME NEW c \in Calls, ReturnAcknowledges(c) PROVE Handed
  <2>1. PICK named \in BOOLEAN : ReturnAcknowledges(c)!(named)
        BY <1>9 DEF ReturnAcknowledges
  <2>. DEFINE row == [Named(c, named) EXCEPT !.background = TRUE, !.acked = TRUE]
  <2>2. row.state = call[c].state /\ row.stopped = call[c].stopped
        BY <1>t DEF Named, Records, Rows
  <2>. HIDE DEF row
  <2>3. \/ Bury(c)
        \/ call' = [call EXCEPT ![c] = IF Running(c) THEN row ELSE @]
        BY <2>1 DEF row
  <2>4. CASE c = d
    <3>1. Running(c) /\ call[c].stopped
      <4>1. CASE Bury(c)
            BY <4>1, <1>b, <1>q, <2>4
      <4>2. CASE call' = [call EXCEPT ![c] = IF Running(c) THEN row ELSE @]
            BY <4>2, <2>2, <2>4, <1>q, <1>t DEF Records
      <4>. QED BY <2>3, <4>1, <4>2
    <3>. QED BY <2>1, <2>4, <3>1, <1>t DEF Rest
  <2>5. CASE c # d
    <3>1. call'[d] = call[d]
          BY <2>3, <2>5, <1>b, <1>t DEF Records
    <3>. QED BY <2>1, <2>5, <3>1, <1>a, <1>t DEF Rest
  <2>. QED BY <2>4, <2>5
<1>10. ASSUME NEW c \in Calls, ReturnSettles(c) PROVE Handed
  <2>1. Terminate(c, "done") /\ ret' = [ret EXCEPT ![c] = "idle"] /\ stop' = stop
        BY <1>10 DEF ReturnSettles
  <2>2. call'[d] = call[d] /\ (Registered(c) => c # d)
        BY <2>1, <1>c, <1>q DEF Terminal
  <2>3. c # d
        BY <2>2, <1>q DEF Registered
  <2>. QED BY <2>1, <2>2, <2>3, <1>a, <1>t DEF Rest
<1>11. ASSUME NEW c \in Calls, ReturnLooks(c) PROVE Handed
      BY <1>11, <1>a, <1>t DEF ReturnLooks, Rest
<1>12. ASSUME NEW c \in Calls, ReturnDecides(c) PROVE Handed
  <2>1. PICK named \in BOOLEAN, answer \in BOOLEAN : ReturnDecides(c)!(named, answer)
        BY <1>12 DEF ReturnDecides
  <2>. DEFINE total == Recorded(call[c], IF ret[c] = "usage" THEN spent[c] ELSE 0)
              row == [Named(c, named) EXCEPT !.usage = total]
              same == [call[c] EXCEPT !.usage = total]
              outcome == IF answer THEN "done" ELSE "failed"
  <2>2. /\ same.state = call[c].state /\ same.acked = call[c].acked
        /\ same.stopped = call[c].stopped
        BY <1>t DEF Records, Rows
  <2>. HIDE DEF row, same
  <2>3. \/ Bury(c)
        \/ call' = [call EXCEPT ![c] = IF Running(c) /\ ~Clash(c, named)
                                       THEN Closed(row, outcome) ELSE same]
        BY <2>1 DEF row, same
  <2>4. Alike
    <3>1. CASE Bury(c)
          BY <3>1, <1>b
    <3>2. CASE call' = [call EXCEPT ![c] = IF Running(c) /\ ~Clash(c, named)
                                           THEN Closed(row, outcome) ELSE same]
      <4>1. Closed(row, outcome).state # "running"
            BY <1>k DEF Terminal
      <4>2. call'[d] = call[d] \/ (d = c /\ call'[d] \in {same, Closed(row, outcome)})
            BY <3>2, <1>t DEF Records
      <4>. QED BY <4>1, <4>2, <2>2, <1>q
    <3>. QED BY <2>3, <3>1, <3>2
  <2>5. ret[c] # "settle" /\ ret' = [ret EXCEPT ![c] = "idle"] /\ stop' = stop
        BY <2>1
  <2>. QED BY <2>4, <2>5, <1>a, <1>t DEF Rest
<1>13. ASSUME NEW h \in Hooks, Tool(h) PROVE Handed
  <2>1. stop' = stop /\ ret' = ret /\ call' = call
        BY <1>13 DEF Tool, FindCharged, Tally
  <2>. QED BY <2>1, <1>s
<1>14. ASSUME NEW c \in Calls, Backfill(c) PROVE Handed
  <2>1. call'[d] = call[d] \/ \E v : call'[d] = [call[d] EXCEPT !.usage = v]
        BY <1>14, <1>t DEF Backfill, Records
  <2>. QED BY <2>1, <1>14, <1>t, <1>s, RowFields DEF Backfill, handlers, Records
<1>15. ASSUME NEW j \in Jobs, FinishJob(j) PROVE Handed
  <2>1. call'[d] = call[d]
        BY <1>q, <1>15, <1>k DEF FinishJob
  <2>. QED BY <2>1, <1>15, <1>s DEF FinishJob, handlers
<1>16. ASSUME Clear PROVE Handed
      BY <1>q, <1>16, <1>e DEF Clear
<1>17. ASSUME UNCHANGED vars PROVE Handed
      BY <1>17, <1>s DEF vars
<1>. QED
    BY <1>1, <1>2, <1>3, <1>4, <1>5, <1>6, <1>7, <1>8, <1>9, <1>10, <1>11, <1>12, <1>13,
       <1>14, <1>15, <1>16, <1>17 DEF Next, Child, Stop, Return

-----------------------------------------------------------------------------
\* Usage

\* What the log holds for a call and what its record says grow together.
LEMMA UsageLoggedKept ==
    ASSUME Types, Unlaunched, UsageLogged, [Next]_vars PROVE UsageLogged'
<1>t. Records /\ Rest
      BY DEF Types
<1>n. None \notin Calls
      BY LifecycleConstants DEF LifecycleConstants
<1>. USE DEF Running
<1>q. SUFFICES ASSUME NEW d \in Calls, Running(d)' \/ call'[d].bound # None
               PROVE  /\ logged'[d] = call'[d].usage
                      /\ call'[d].bound \in {None, d} => call'[d].usage <= spent'[d]
      BY DEF UsageLogged
<1>. DEFINE Counted == /\ logged'[d] = call'[d].usage
                       /\ call'[d].bound \in {None, d} => call'[d].usage <= spent'[d]
            Open == call[d].state = "running" \/ call[d].bound # None
            Alike == /\ Open
                     /\ call'[d].usage = call[d].usage
                     /\ call'[d].bound \in {None, d} => call[d].bound \in {None, d}
<1>y. /\ call[d] \in Rows /\ call[d].usage \in 0..MaxUsage /\ spent[d] \in 0..MaxUsage
      /\ logged[d] \in Nat /\ MaxUsage \in Nat /\ 0 \in 0..MaxUsage
      BY <1>t, LifecycleConstants DEF LifecycleConstants, Records, Rest, Rows
<1>o. Open => /\ logged[d] = call[d].usage
              /\ call[d].bound \in {None, d} => call[d].usage <= spent[d]
      BY DEF UsageLogged
<1>s. Alike /\ logged'[d] = logged[d] /\ spent'[d] >= spent[d] /\ spent'[d] \in Nat => Counted
      BY <1>o, <1>y
<1>g. ASSUME NEW seen \in 0..MaxUsage, Open,
             logged'[d] = logged[d] + Increment(call[d], seen),
             call'[d].usage = Recorded(call[d], seen),
             spent' = spent,
             call'[d].bound \in {None, d} => call[d].bound \in {None, d} /\ seen <= spent[d]
      PROVE  Counted
      BY <1>g, <1>o, <1>y, RecordedGrows
<1>k. ASSUME NEW row, NEW outcome \in Terminal
      PROVE  /\ Closed(row, outcome).state # "running"
             /\ Closed(row, outcome).bound = row.bound
             /\ Closed(row, outcome).usage = row.usage
      BY DEF Closed, NoCall, Terminal
<1>e. /\ NoCall.state # "running" /\ NoCall.bound = None
      /\ [NoCall EXCEPT !.state = "failed"].state # "running"
      /\ [NoCall EXCEPT !.state = "failed"].bound = None
      BY NoRow DEF NoCall
<1>b. ASSUME NEW c \in Calls, Bury(c) PROVE call'[d] = call[d]
      BY <1>b, <1>q, <1>t, <1>e DEF Bury, Records
<1>c. ASSUME NEW c \in Calls, NEW outcome \in Terminal, Terminate(c, outcome)
      PROVE  Alike
  <2>1. CASE Registered(c)
        BY <1>c, <2>1, <1>q, <1>t, <1>k DEF Terminate, Records
  <2>2. CASE ~Registered(c)
        BY <1>c, <2>2, <1>b, <1>q DEF Terminate
  <2>. QED BY <2>1, <2>2
<1>1. ASSUME NEW c \in Calls, Dispatch(c) PROVE Counted
  <2>1. PICK j \in Jobs, background \in BOOLEAN : Dispatch(c)!(j, background)
        BY <1>1 DEF Dispatch
  <2>. DEFINE replaced == Superseded(j, background)
              rows == [e \in Calls |-> IF e \in replaced THEN Closed(call[e], "failed")
                                                          ELSE call[e]]
              row == [NoCall EXCEPT !.state = "running", !.job = j,
                                    !.background = background]
  <2>2. /\ rows = [e \in Calls |-> rows[e]]
        /\ rows[d].usage = call[d].usage /\ rows[d].bound = call[d].bound
        /\ rows[d].state = "running" => call[d].state = "running"
        /\ row.usage = 0
        BY <1>k DEF Terminal, NoCall
  <2>. HIDE DEF rows, row
  <2>3. \/ call' = [rows EXCEPT ![c] = row]
        \/ \E e : call' = [rows EXCEPT ![e] = NoCall, ![c] = row]
        \/ call' = call
        BY <2>1 DEF rows, row
  <2>4. UNCHANGED <<spent, logged>> /\ child[c] = "none"
        BY <2>1
  <2>5. CASE d = c /\ call'[d] = row
        BY <2>2, <2>4, <2>5, <1>y DEF Unlaunched
  <2>6. CASE call'[d] \in {NoCall, rows[d], call[d]}
        BY <2>2, <2>4, <2>6, <1>e, <1>q, <1>s, <1>y
  <2>. QED BY <2>2, <2>3, <2>5, <2>6
<1>2. ASSUME NEW x \in Calls, Start(x) PROVE Counted
  <2>1. \/ call'[d] = call[d]
        \/ d \in Owner(x) /\ call'[d] = [call[d] EXCEPT !.bound = x]
        BY <1>2 DEF Start
  <2>2. d \in Owner(x) => call[d].bound = x \/ (call[d].bound = None /\ Running(d))
        BY DEF Owner, BoundTo, Unbound
  <2>3. Alike
    <3>1. CASE call'[d] = call[d]
          BY <3>1, <1>q
    <3>2. CASE d \in Owner(x) /\ call'[d] = [call[d] EXCEPT !.bound = x]
      <4>1. call'[d].bound = x /\ call'[d].usage = call[d].usage
            BY <3>2, <1>y, RowFields
      <4>. QED BY <3>2, <4>1, <2>2, <1>n
    <3>. QED BY <2>1, <3>1, <3>2
  <2>. QED BY <2>3, <1>2, <1>s, <1>y DEF Start
<1>3. ASSUME NEW x \in Calls, EndTurn(x) \/ Resume(x) PROVE Counted
  <2>1. call' = call /\ logged' = logged
        BY <1>3 DEF EndTurn, Resume
  <2>2. spent'[d] >= spent[d] /\ spent'[d] \in Nat
        BY <1>3, <1>y, <1>t DEF EndTurn, Resume, Rest
  <2>. QED BY <2>1, <2>2, <1>q, <1>s
<1>4. ASSUME NEW x \in Calls, Hush(x) PROVE Counted
  <2>1. call'[d] = call[d] \/ call'[d] = [call[d] EXCEPT !.quiet = TRUE]
        BY <1>4, <1>t DEF Hush, Records
  <2>. QED BY <2>1, <1>4, <1>q, <1>s, <1>y, RowFields DEF Hush, host
<1>5. ASSUME NEW x \in Calls, Wake(x) PROVE Counted
  <2>1. call'[d] = call[d] \/ call'[d] = [call[d] EXCEPT !.quiet = FALSE]
        BY <1>5 DEF Wake
  <2>. QED BY <2>1, <1>5, <1>q, <1>s, <1>y, RowFields DEF Wake, host
<1>6. ASSUME NEW x \in Calls, Handback(x) PROVE Counted
  <2>1. PICK c \in BoundTo(x) \cup Charged, limit \in BOOLEAN : Handback(x)!(c, limit)
        BY <1>6 DEF Handback
  <2>2. call'[d] = call[d] \/ \E v : call'[d] = [call[d] EXCEPT !.handback = v]
        BY <2>1, <1>t DEF Records
  <2>. QED BY <2>1, <2>2, <1>q, <1>s, <1>y, RowFields DEF host
<1>7. ASSUME NEW x \in Calls, StopArrives(x) PROVE Counted
  <2>1. PICK c \in Owner(x), outcome \in Terminal \cup {None}, seen \in UsageSeen(x) :
            StopArrives(x)!(c, outcome, seen)
        BY <1>7 DEF StopArrives
  <2>. DEFINE row == [call[c] EXCEPT !.bound = x, !.usage = Recorded(call[c], seen)]
              stopped == [row EXCEPT !.stopped = TRUE]
  <2>2. /\ c \in Calls
        /\ call[c].bound = x \/ (call[c].bound = None /\ Running(c))
        BY DEF Owner, BoundTo, Unbound
  <2>3. /\ row.bound = x /\ row.usage = Recorded(call[c], seen)
        /\ stopped.bound = x /\ stopped.usage = Recorded(call[c], seen)
        BY <2>2, <1>t DEF Records, Rows
  <2>4. seen \in 0..MaxUsage /\ seen <= spent[x]
        BY <1>t, <1>y DEF Rest, UsageSeen
  <2>. HIDE DEF row, stopped
  <2>5. /\ call' = [call EXCEPT ![c] = IF ~Running(c) THEN row
                                       ELSE IF outcome = None THEN stopped
                                       ELSE Closed(row, outcome)]
        /\ logged' = [logged EXCEPT ![c] = @ + Increment(call[c], seen)]
        /\ spent' = spent
        BY <2>1 DEF row, stopped, host
  <2>6. CASE c = d
    <3>1. call'[d].bound = x /\ call'[d].usage = Recorded(call[d], seen)
          BY <2>2, <2>3, <2>5, <2>6, <1>k, <1>t DEF Records
    <3>2. logged'[d] = logged[d] + Increment(call[d], seen)
          BY <2>5, <2>6, <1>t DEF Rest
    <3>. QED BY <2>2, <2>4, <2>5, <2>6, <3>1, <3>2, <1>g, <1>n
  <2>7. CASE c # d
        BY <2>5, <2>7, <1>q, <1>s, <1>y, <1>t DEF Records, Rest
  <2>. QED BY <2>6, <2>7
<1>8. ASSUME NEW x \in Calls, StopSettles(x) PROVE Counted
      BY <1>8, <1>c, <1>s, <1>y, <1>t DEF StopSettles, host, Terminal, Rest
<1>9. ASSUME NEW c \in Calls, ReturnAcknowledges(c) PROVE Counted
  <2>1. PICK named \in BOOLEAN : ReturnAcknowledges(c)!(named)
        BY <1>9 DEF ReturnAcknowledges
  <2>. DEFINE row == [Named(c, named) EXCEPT !.background = TRUE, !.acked = TRUE]
  <2>2. row.usage = call[c].usage /\ (row.bound = call[c].bound \/ (named /\ row.bound = c))
        BY <1>t DEF Named, Records, Rows
  <2>. HIDE DEF row
  <2>3. \/ Bury(c)
        \/ call' = [call EXCEPT ![c] = IF Running(c) THEN row ELSE @]
        BY <2>1 DEF row
  <2>4. Alike
    <3>1. CASE Bury(c)
          BY <3>1, <1>b, <1>q
    <3>2. CASE call' = [call EXCEPT ![c] = IF Running(c) THEN row ELSE @]
      <4>1. call'[d] = call[d] \/ (d = c /\ Running(c) /\ call'[d] = row)
            BY <3>2, <1>t DEF Records
      <4>. QED BY <4>1, <2>1, <2>2, <1>q DEF Clash
    <3>. QED BY <2>3, <3>1, <3>2
  <2>. QED BY <2>1, <2>4, <1>s, <1>y DEF host
<1>10. ASSUME NEW c \in Calls, ReturnSettles(c) PROVE Counted
      BY <1>10, <1>c, <1>s, <1>y DEF ReturnSettles, host, Terminal
<1>11. ASSUME NEW c \in Calls, ReturnLooks(c) PROVE Counted
      BY <1>11, <1>q, <1>s, <1>y DEF ReturnLooks, host
<1>12. ASSUME NEW c \in Calls, ReturnDecides(c) PROVE Counted
  <2>1. PICK named \in BOOLEAN, answer \in BOOLEAN : ReturnDecides(c)!(named, answer)
        BY <1>12 DEF ReturnDecides
  <2>. DEFINE seen == IF ret[c] = "usage" THEN spent[c] ELSE 0
              total == Recorded(call[c], seen)
              row == [Named(c, named) EXCEPT !.usage = total]
              same == [call[c] EXCEPT !.usage = total]
              outcome == IF answer THEN "done" ELSE "failed"
  <2>2. /\ same.usage = total /\ same.bound = call[c].bound /\ same.state = call[c].state
        /\ row.usage = total /\ (row.bound = call[c].bound \/ (named /\ row.bound = c))
        BY <1>t DEF Named, Records, Rows
  <2>3. seen \in 0..MaxUsage /\ seen <= spent[c]
        BY <1>t, <1>y DEF Rest
  <2>. HIDE DEF row, same, seen
  <2>4. spent' = spent
        BY <2>1 DEF host
  <2>5. CASE Bury(c) /\ logged' = logged
        BY <2>4, <2>5, <1>b, <1>q, <1>s, <1>y
  <2>6. CASE /\ call' = [call EXCEPT ![c] = IF Running(c) /\ ~Clash(c, named)
                                            THEN Closed(row, outcome) ELSE same]
             /\ logged' = [logged EXCEPT ![c] = @ + Increment(call[c], seen)]
    <3>1. CASE c # d
          BY <2>4, <2>6, <3>1, <1>q, <1>s, <1>y, <1>t DEF Records, Rest
    <3>2. CASE c = d
      <4>1. \/ call'[c] = same
            \/ Running(c) /\ ~Clash(c, named) /\ call'[c] = Closed(row, outcome)
            BY <2>6, <1>t DEF Records
      <4>2. /\ Open
            /\ call'[d].usage = total
            /\ call'[d].bound \in {None, d} => call[d].bound \in {None, d}
            BY <4>1, <3>2, <2>2, <1>k, <1>q DEF Clash, Terminal
      <4>3. logged'[d] = logged[d] + Increment(call[d], seen)
            BY <2>6, <3>2, <1>t DEF Rest
      <4>. QED BY <4>2, <4>3, <3>2, <2>3, <2>4, <1>g
    <3>. QED BY <3>1, <3>2
  <2>. QED BY <2>1, <2>5, <2>6 DEF row, same, seen
<1>13. ASSUME NEW h \in Hooks, Tool(h) PROVE Counted
  <2>1. spent' = spent /\ logged' = logged /\ call' = call
        BY <1>13 DEF Tool, FindCharged, Tally, host
  <2>. QED BY <2>1, <1>q, <1>s, <1>y
<1>14. ASSUME NEW c \in Calls, Backfill(c) PROVE Counted
  <2>. DEFINE total == IF call[c].bound = None THEN 0 ELSE spent[call[c].bound]
  <2>1. /\ total \in 0..MaxUsage /\ total > 0 /\ call[c].usage = 0
        /\ call[c].bound = c => total = spent[c]
        /\ call[c].bound # None
        BY <1>14, <1>t, <1>y, <1>n DEF Backfill, Records, Rows, Rest
  <2>2. /\ [call[c] EXCEPT !.usage = total].usage = total
        /\ [call[c] EXCEPT !.usage = total].bound = call[c].bound
        BY <1>t, RowFields DEF Records
  <2>3. Recorded(call[c], total) = total
        BY <2>1 DEF Recorded
  <2>. HIDE DEF total
  <2>4. /\ call' = [call EXCEPT ![c] = [call[c] EXCEPT !.usage = total]]
        /\ logged' = [logged EXCEPT ![c] = @ + Increment(call[c], total)]
        /\ spent' = spent
        BY <1>14, <1>t DEF Backfill, total, host, Records
  <2>5. CASE c = d
    <3>1. logged'[d] = logged[d] + Increment(call[d], total)
          BY <2>4, <2>5, <1>t DEF Rest
    <3>2. call'[d].usage = Recorded(call[d], total) /\ call'[d].bound = call[d].bound
          BY <2>2, <2>3, <2>4, <2>5, <1>t DEF Records
    <3>. QED BY <2>1, <2>4, <2>5, <3>1, <3>2, <1>g, <1>y
  <2>6. CASE c # d
        BY <2>4, <2>6, <1>q, <1>s, <1>y, <1>t DEF Records, Rest
  <2>. QED BY <2>5, <2>6
<1>15. ASSUME NEW j \in Jobs, FinishJob(j) PROVE Counted
  <2>1. call'[d] = call[d] \/ \E outcome \in Terminal : call'[d] = Closed(call[d], outcome)
        BY <1>15 DEF FinishJob
  <2>2. Alike
        BY <2>1, <1>k, <1>q
  <2>. QED BY <2>2, <1>15, <1>s, <1>y DEF FinishJob, host
<1>16. ASSUME Clear PROVE Counted
      BY <1>q, <1>16, <1>e DEF Clear
<1>17. ASSUME UNCHANGED vars PROVE Counted
      BY <1>17, <1>q, <1>s, <1>y DEF vars
<1>. QED
    BY <1>1, <1>2, <1>3, <1>4, <1>5, <1>6, <1>7, <1>8, <1>9, <1>10, <1>11, <1>12, <1>13,
       <1>14, <1>15, <1>16, <1>17 DEF Next, Child, Stop, Return

\* What is logged for a call that has its own child was used by that child.
LEMMA UsageLoggedBounds == ASSUME Types, UsageLogged PROVE UsageCountedOnce
BY LifecycleConstants DEF UsageLogged, UsageCountedOnce, LifecycleConstants

-----------------------------------------------------------------------------
\* Bindings

\* The record of e keeps its child, or loses it and is not one that a child was
\* taken for.
KeepsChild(e) ==
    \/ /\ call'[e].bound = call[e].bound
       /\ Running(e)' => Running(e)
    \/ /\ call'[e].bound = None
       /\ Running(e)' => \A d \in Calls : call[d].bound # e

\* Steps that bind nothing keep the bindings explained.
LEMMA NothingBound ==
    ASSUME Types, BindingsExplained, \A e \in Calls : KeepsChild(e)
    PROVE  BindingsExplained'
<1>n. None \notin Calls
      BY LifecycleConstants DEF LifecycleConstants
<1>1. \A c, d \in Calls : call'[d].bound = c => call[d].bound = c
      BY <1>n DEF KeepsChild
<1>2. ASSUME NEW c \in Calls, NEW d \in Calls, call'[d].bound = c
      PROVE  /\ \A e \in Calls : call'[e].bound = c => e = d
             /\ c # d => ~Running(c)' \/ call'[c].bound \notin {c, None}
      BY <1>1, <1>2 DEF BindingsExplained, KeepsChild
<1>3. ASSUME NEW S \in (SUBSET Calls) \ {{}}
      PROVE  \E c \in S : ~Running(c)' \/ call'[c].bound \notin S \ {c}
      BY <1>3, <1>n DEF BindingsExplained, KeepsChild
<1>. QED BY <1>2, <1>3 DEF BindingsExplained

\* So do those that give an open call without a child the child x, if no call
\* has x yet, and the call of x is this one, closed, or has another's child.
LEMMA OneBound ==
    ASSUME Types, BindingsExplained, NEW o \in Calls, NEW x \in Calls,
           Running(o), call[o].bound = None, BoundTo(x) = {},
           x = o \/ ~Running(x) \/ call[x].bound # None,
           call'[o].bound = x,
           \A e \in Calls : e # o => /\ call'[e].bound = call[e].bound
                                     /\ Running(e)' => Running(e)
    PROVE  BindingsExplained'
<1>n. None \notin Calls
      BY LifecycleConstants DEF LifecycleConstants
<1>0. \A d \in Calls : call[d].bound # x /\ call[d].bound # o
      BY <1>n DEF BoundTo, BindingsExplained
<1>1. ASSUME NEW c \in Calls, NEW d \in Calls, call'[d].bound = c
      PROVE  /\ \A e \in Calls : call'[e].bound = c => e = d
             /\ c # d => ~Running(c)' \/ call'[c].bound \notin {c, None}
      BY <1>0, <1>1 DEF BindingsExplained
<1>2. ASSUME NEW S \in (SUBSET Calls) \ {{}},
             \A c \in S : Running(c)' /\ call'[c].bound \in S \ {c}
      PROVE  FALSE
  <2>1. CASE o \notin S
        BY <1>2, <2>1 DEF BindingsExplained
  <2>2. CASE o \in S
    <3>1. /\ x \in S \ {o}
          /\ \A c \in S \ {o} : Running(c) /\ call[c].bound \in (S \ {o}) \ {c}
          BY <1>0, <1>2, <2>2
    <3>2. S \ {o} \in (SUBSET Calls) \ {{}}
          BY <3>1
    <3>. QED BY <3>1, <3>2 DEF BindingsExplained
  <2>. QED BY <2>1, <2>2
<1>. QED BY <1>1, <1>2 DEF BindingsExplained

\* Children keep to their calls.
LEMMA BindingsKept ==
    ASSUME Types, Unlaunched, BindingsExplained, [Next]_vars PROVE BindingsExplained'
<1>t. Records /\ Rest
      BY DEF Types
<1>n. None \notin Calls
      BY LifecycleConstants DEF LifecycleConstants
<1>. DEFINE Same(e) == call'[e].bound = call[e].bound /\ (Running(e)' => Running(e))
            Goal == BindingsExplained'
<1>s. (\A e \in Calls : KeepsChild(e)) => Goal
      BY NothingBound
<1>a. (\A e \in Calls : Same(e)) => Goal
      BY <1>s DEF KeepsChild
<1>w. ASSUME NEW x \in Calls, NEW o \in Owner(x), call'[o].bound = x,
             \A e \in Calls : e # o => Same(e), Running(o)' => Running(o)
      PROVE  Goal
  <2>1. CASE BoundTo(x) # {}
        BY <1>w, <1>a, <2>1 DEF Owner, BoundTo
  <2>2. CASE BoundTo(x) = {}
    <3>1. Cardinality(Unbound) = 1 /\ o \in Unbound
          BY <2>2 DEF Owner
    <3>2. \A u \in Unbound : u = o
      <4>1. PICK u : Unbound = {u}
            BY <3>1, FS_Singleton, LifecycleConstants, FS_Subset
            DEF LifecycleConstants, Unbound
      <4>. QED BY <3>1, <4>1
    <3>. QED BY <1>w, <2>2, <3>1, <3>2, OneBound DEF Unbound
  <2>. QED BY <2>1, <2>2
<1>v. ASSUME NEW c \in Calls, NEW named \in BOOLEAN, Running(c), ~Clash(c, named),
             call'[c].bound = Named(c, named).bound, \A e \in Calls : e # c => Same(e)
      PROVE  Goal
  <2>1. Named(c, named).bound = IF named THEN c ELSE call[c].bound
        BY <1>t DEF Named, Records, Rows
  <2>2. CASE call'[c].bound = call[c].bound
        BY <1>v, <1>a, <2>2
  <2>3. CASE call'[c].bound # call[c].bound
    <3>1. named /\ call'[c].bound = c /\ call[c].bound = None /\ BoundTo(c) = {}
          BY <1>v, <2>1, <2>3, <1>n DEF Clash, BoundTo
    <3>. QED BY <1>v, <3>1, OneBound
  <2>. QED BY <2>2, <2>3
<1>k. ASSUME NEW row, NEW outcome \in Terminal
      PROVE  /\ Closed(row, outcome).state # "running"
             /\ Closed(row, outcome).bound = row.bound
      BY DEF Closed, NoCall, Terminal
<1>e. /\ NoCall.state # "running" /\ NoCall.bound = None
      /\ [NoCall EXCEPT !.state = "failed"].state # "running"
      /\ [NoCall EXCEPT !.state = "failed"].bound = None
      BY NoRow DEF NoCall
<1>f. ASSUME NEW e \in Calls,
             \/ call'[e] = call[e]
             \/ call'[e] = [call[e] EXCEPT !.quiet = TRUE]
             \/ call'[e] = [call[e] EXCEPT !.quiet = FALSE]
             \/ \E v : call'[e] = [call[e] EXCEPT !.handback = v]
             \/ \E v : call'[e] = [call[e] EXCEPT !.usage = v]
      PROVE  Same(e)
  <2>1. call'[e].bound = call[e].bound /\ call'[e].state = call[e].state
    <3>1. ASSUME NEW v, call'[e] = [call[e] EXCEPT !.handback = v]
          PROVE  call'[e].bound = call[e].bound /\ call'[e].state = call[e].state
          BY <3>1, <1>t, RowFields DEF Records
    <3>2. ASSUME NEW v, call'[e] = [call[e] EXCEPT !.usage = v]
          PROVE  call'[e].bound = call[e].bound /\ call'[e].state = call[e].state
          BY <3>2, <1>t, RowFields DEF Records
    <3>3. ASSUME NEW v, call'[e] = [call[e] EXCEPT !.quiet = v]
          PROVE  call'[e].bound = call[e].bound /\ call'[e].state = call[e].state
          BY <3>3, <1>t, RowFields DEF Records
    <3>. QED BY <1>f, <3>1, <3>2, <3>3
  <2>. QED BY <2>1 DEF Running
<1>b. ASSUME NEW c \in Calls, Bury(c) PROVE Goal
  <2>1. \A d \in Calls : call'[d] = call[d] \/ call'[d] = [NoCall EXCEPT !.state = "failed"]
        BY <1>b, <1>t DEF Bury, Records
  <2>. QED BY <2>1, <1>s, <1>e DEF KeepsChild, Running
<1>c. ASSUME NEW c \in Calls, NEW outcome \in Terminal, Terminate(c, outcome)
      PROVE  Goal
  <2>1. CASE Registered(c)
    <3>1. \A d \in Calls : call'[d] = call[d] \/ call'[d] = Closed(call[d], outcome)
          BY <1>c, <2>1, <1>t DEF Terminate, Records
    <3>. QED BY <3>1, <1>a, <1>k DEF Running
  <2>2. CASE ~Registered(c)
        BY <1>c, <2>2, <1>b DEF Terminate
  <2>. QED BY <2>1, <2>2
<1>1. ASSUME NEW c \in Calls, Dispatch(c) PROVE Goal
  <2>1. PICK j \in Jobs, background \in BOOLEAN : Dispatch(c)!(j, background)
        BY <1>1 DEF Dispatch
  <2>. DEFINE replaced == Superseded(j, background)
              rows == [e \in Calls |-> IF e \in replaced THEN Closed(call[e], "failed")
                                                          ELSE call[e]]
              row == [NoCall EXCEPT !.state = "running", !.job = j,
                                    !.background = background]
  <2>2. /\ rows = [e \in Calls |-> rows[e]]
        /\ \A e \in Calls : rows[e] = call[e] \/ rows[e] = Closed(call[e], "failed")
        /\ row.bound = None
        BY DEF NoCall
  <2>. HIDE DEF rows, row
  <2>3. \/ call' = [rows EXCEPT ![c] = row]
        \/ \E e : call' = [rows EXCEPT ![e] = NoCall, ![c] = row]
        \/ call' = call
        BY <2>1 DEF rows, row
  <2>4. \A d \in Calls : call[d].bound # c
        BY <2>1 DEF Unlaunched
  <2>5. ASSUME NEW d \in Calls PROVE KeepsChild(d)
    <3>1. CASE d = c /\ call'[d] = row
          BY <2>2, <2>4, <3>1 DEF KeepsChild
    <3>2. CASE call'[d] \in {NoCall, rows[d], call[d]}
          BY <2>2, <3>2, <1>k, <1>e DEF KeepsChild, Running, Terminal
    <3>. QED BY <2>2, <2>3, <3>1, <3>2
  <2>. QED BY <2>5, <1>s
<1>2. ASSUME NEW x \in Calls, Start(x) PROVE Goal
  <2>1. \A e \in Calls : call'[e] = call[e] => Same(e)
        BY DEF Running
  <2>2. \A e \in Calls : /\ [call[e] EXCEPT !.bound = x].bound = x
                         /\ [call[e] EXCEPT !.bound = x].state = call[e].state
        BY <1>t, RowFields DEF Records
  <2>3. CASE call' = call
        BY <2>1, <2>3, <1>a
  <2>4. CASE call' # call
    <3>1. PICK o \in Owner(x) : call'[o] # call[o]
          BY <1>2, <2>4, <1>t DEF Start, Records
    <3>2. \A e \in Owner(x) : e = o \/ call[e].bound = x
      <4>1. CASE BoundTo(x) # {}
            BY <4>1 DEF Owner, BoundTo
      <4>2. CASE BoundTo(x) = {}
        <5>1. PICK u : Unbound = {u}
              BY <3>1, <4>2, FS_Singleton, LifecycleConstants, FS_Subset
              DEF LifecycleConstants, Unbound, Owner
        <5>. QED BY <4>2, <5>1 DEF Owner
      <4>. QED BY <4>1, <4>2
    <3>3. o \in Calls
          BY DEF Owner, BoundTo, Unbound
    <3>4. \A e \in Calls : \/ call'[e] = call[e]
                           \/ e \in Owner(x) /\ call'[e] = [call[e] EXCEPT !.bound = x]
          BY <1>2 DEF Start
    <3>5. call'[o].bound = x /\ (Running(o)' => Running(o))
          BY <2>2, <3>1, <3>3, <3>4 DEF Running
    <3>6. \A e \in Calls : e # o => Same(e)
          BY <2>2, <3>2, <3>4 DEF Running
    <3>. QED BY <3>5, <3>6, <1>w
  <2>. QED BY <2>3, <2>4
<1>3. ASSUME NEW x \in Calls, EndTurn(x) \/ Resume(x) \/ ReturnLooks(x) PROVE Goal
  <2>1. call' = call
        BY <1>3 DEF EndTurn, Resume, ReturnLooks
  <2>. QED BY <2>1, <1>a DEF Running
<1>4. ASSUME NEW x \in Calls, Hush(x) PROVE Goal
  <2>1. \A d \in Calls : call'[d] = call[d] \/ call'[d] = [call[d] EXCEPT !.quiet = TRUE]
        BY <1>4, <1>t DEF Hush, Records
  <2>2. \A d \in Calls : Same(d)
        BY <2>1, <1>f
  <2>. QED BY <2>2, <1>a
<1>5. ASSUME NEW x \in Calls, Wake(x) PROVE Goal
  <2>1. \A d \in Calls : call'[d] = call[d] \/ call'[d] = [call[d] EXCEPT !.quiet = FALSE]
        BY <1>5 DEF Wake
  <2>2. \A d \in Calls : Same(d)
        BY <2>1, <1>f
  <2>. QED BY <2>2, <1>a
<1>6. ASSUME NEW x \in Calls, Handback(x) PROVE Goal
  <2>1. PICK c \in BoundTo(x) \cup Charged, limit \in BOOLEAN : Handback(x)!(c, limit)
        BY <1>6 DEF Handback
  <2>2. \A d \in Calls : \/ call'[d] = call[d]
                         \/ \E v : call'[d] = [call[d] EXCEPT !.handback = v]
        BY <2>1, <1>t DEF Records
  <2>3. \A d \in Calls : Same(d)
        BY <2>2, <1>f
  <2>. QED BY <2>3, <1>a
<1>7. ASSUME NEW x \in Calls, StopArrives(x) PROVE Goal
  <2>1. PICK c \in Owner(x), outcome \in Terminal \cup {None}, seen \in UsageSeen(x) :
            StopArrives(x)!(c, outcome, seen)
        BY <1>7 DEF StopArrives
  <2>. DEFINE row == [call[c] EXCEPT !.bound = x,
                        !.usage = Recorded(call[c], seen)]
              stopped == [row EXCEPT !.stopped = TRUE]
  <2>2. c \in Calls
        BY DEF Owner, BoundTo, Unbound
  <2>3. row.bound = x /\ stopped.bound = x /\ row.state = call[c].state
        BY <2>2, <1>t DEF Records, Rows
  <2>. HIDE DEF row, stopped
  <2>4. call' = [call EXCEPT ![c] = IF ~Running(c) THEN row
                                    ELSE IF outcome = None THEN stopped
                                    ELSE Closed(row, outcome)]
        BY <2>1 DEF row, stopped
  <2>5. call'[c].bound = x /\ (Running(c)' => Running(c))
        BY <2>2, <2>3, <2>4, <1>k, <1>t DEF Records, Running
  <2>6. \A e \in Calls : e # c => Same(e)
        BY <2>4, <1>t DEF Records, Running
  <2>. QED BY <2>5, <2>6, <1>w
<1>8. ASSUME NEW x \in Calls, StopSettles(x) PROVE Goal
      BY <1>8, <1>c, <1>t DEF StopSettles, Terminal, Rest
<1>9. ASSUME NEW c \in Calls, ReturnAcknowledges(c) PROVE Goal
  <2>1. PICK named \in BOOLEAN : ReturnAcknowledges(c)!(named)
        BY <1>9 DEF ReturnAcknowledges
  <2>. DEFINE row == [Named(c, named) EXCEPT !.background = TRUE, !.acked = TRUE]
  <2>2. row.bound = Named(c, named).bound
        BY <1>t DEF Named, Records, Rows
  <2>. HIDE DEF row
  <2>3. CASE call' = [call EXCEPT ![c] = IF Running(c) THEN row ELSE @]
    <3>1. \A e \in Calls : e # c => Same(e)
          BY <2>3, <1>t DEF Records, Running
    <3>2. CASE Running(c)
          BY <2>1, <2>2, <2>3, <3>1, <3>2, <1>v, <1>t DEF Records
    <3>3. CASE ~Running(c)
          BY <2>3, <3>1, <3>3, <1>a, <1>t DEF Records, Running
    <3>. QED BY <3>2, <3>3
  <2>. QED BY <2>1, <2>3, <1>b DEF row
<1>10. ASSUME NEW c \in Calls, ReturnSettles(c) PROVE Goal
      BY <1>10, <1>c DEF ReturnSettles, Terminal
<1>12. ASSUME NEW c \in Calls, ReturnDecides(c) PROVE Goal
  <2>1. PICK named \in BOOLEAN, answer \in BOOLEAN : ReturnDecides(c)!(named, answer)
        BY <1>12 DEF ReturnDecides
  <2>. DEFINE total == Recorded(call[c], IF ret[c] = "usage" THEN spent[c] ELSE 0)
              row == [Named(c, named) EXCEPT !.usage = total]
              same == [call[c] EXCEPT !.usage = total]
              outcome == IF answer THEN "done" ELSE "failed"
  <2>2. /\ same.bound = call[c].bound /\ same.state = call[c].state
        /\ row.bound = Named(c, named).bound
        BY <1>t DEF Named, Records, Rows
  <2>. HIDE DEF row, same
  <2>3. CASE call' = [call EXCEPT ![c] = IF Running(c) /\ ~Clash(c, named)
                                         THEN Closed(row, outcome) ELSE same]
    <3>1. \A e \in Calls : e # c => Same(e)
          BY <2>3, <1>t DEF Records, Running
    <3>2. CASE Running(c) /\ ~Clash(c, named)
      <4>1. call'[c].bound = Named(c, named).bound
            BY <2>2, <2>3, <3>2, <1>k, <1>t DEF Records, Terminal
      <4>. QED BY <3>1, <3>2, <4>1, <1>v
    <3>3. CASE ~(Running(c) /\ ~Clash(c, named))
      <4>1. Same(c)
            BY <2>2, <2>3, <3>3, <1>t DEF Records, Running
      <4>. QED BY <3>1, <4>1, <1>a
    <3>. QED BY <3>2, <3>3
  <2>. QED BY <2>1, <2>3, <1>b DEF row, same
<1>13. ASSUME NEW h \in Hooks, Tool(h) PROVE Goal
  <2>1. call' = call
        BY <1>13 DEF Tool, FindCharged, Tally
  <2>. QED BY <2>1, <1>a DEF Running
<1>14. ASSUME NEW c \in Calls, Backfill(c) PROVE Goal
  <2>1. \A d \in Calls : \/ call'[d] = call[d]
                         \/ \E v : call'[d] = [call[d] EXCEPT !.usage = v]
        BY <1>14, <1>t DEF Backfill, Records
  <2>2. \A d \in Calls : Same(d)
        BY <2>1, <1>f
  <2>. QED BY <2>2, <1>a
<1>15. ASSUME NEW j \in Jobs, FinishJob(j) PROVE Goal
  <2>1. \A d \in Calls : \/ call'[d] = call[d]
                         \/ \E outcome \in Terminal : call'[d] = Closed(call[d], outcome)
        BY <1>15 DEF FinishJob
  <2>. QED BY <2>1, <1>k, <1>a DEF Running
<1>16. ASSUME Clear PROVE Goal
      BY <1>16, <1>e, <1>s DEF Clear, KeepsChild, Running
<1>17. ASSUME UNCHANGED vars PROVE Goal
      BY <1>17, <1>a DEF vars, Running
<1>. QED
    BY <1>1, <1>2, <1>3, <1>4, <1>5, <1>6, <1>7, <1>8, <1>9, <1>10, <1>12, <1>13,
       <1>14, <1>15, <1>16, <1>17 DEF Next, Child, Stop, Return

-----------------------------------------------------------------------------
(***************************************************************************)
(* The theorems                                                            *)
(***************************************************************************)

\* The inductive invariant.
IInv ==
    /\ TypeOK
    /\ Unlaunched
    /\ LateFound
    /\ UsageLogged
    /\ NoLeak
    /\ BindingsExplained

\* Nothing is registered, charged or logged at first.
LEMMA InitInv == Init => IInv
<1>. SUFFICES ASSUME Init PROVE IInv
     OBVIOUS
<1>. USE DEF Init
<1>n. /\ None \notin Calls \cup Jobs /\ 0 \in 0..MaxTurns /\ 0 \in 0..MaxUsage
      /\ \A r \in 1..MaxCalls : 0 <= r
      BY LifecycleConstants DEF LifecycleConstants
<1>1. TypeOK
  <2>1. Records
        BY NoRow DEF Records
  <2>2. Rest
        BY <1>n DEF Rest
  <2>3. Listed
    <3>1. registry \in Seq(Calls) /\ Len(registry) = 0
          OBVIOUS
    <3>2. \A c \in Calls : ~Registered(c)
          BY NoRow DEF Registered
    <3>. QED BY <1>n, <3>1, <3>2 DEF Listed
  <2>. QED BY <2>1, <2>2, <2>3, TypesAre DEF Types
<1>2. Unlaunched
      BY <1>n, NoRow DEF Unlaunched
<1>3. LateFound
  <2>1. \A c \in Calls : Pending(c) = {}
        BY <1>n DEF Pending
  <2>2. Cardinality({}) = 0 /\ Cardinality(Hooks) \in Nat
        BY LifecycleConstants, FS_EmptySet, FS_CardinalityType DEF LifecycleConstants
  <2>3. ASSUME NEW c \in Calls PROVE late[c] = 0 /\ Cardinality(Pending(c)) = 0
    <3>1. Cardinality(Pending(c)) = 0
          BY <2>1, <2>2
    <3>. QED BY <3>1
  <2>. HIDE DEF Init
  <2>. QED BY <2>2, <2>3 DEF LateFound
<1>4. \A c \in Calls : ~Running(c) /\ call[c].bound = None
      BY NoRow DEF Running
<1>. HIDE DEF Init
<1>5. UsageLogged /\ NoLeak
      BY <1>4 DEF UsageLogged, NoLeak
<1>6. BindingsExplained
  <2>1. \A c, d \in Calls : call[d].bound # c
        BY <1>4, <1>n
  <2>2. \A S \in (SUBSET Calls) \ {{}} : \E c \in S : ~Running(c)
        BY <1>4
  <2>. QED BY <2>1, <2>2 DEF BindingsExplained
<1>. QED BY <1>1, <1>2, <1>3, <1>5, <1>6 DEF IInv

\* Every step keeps each part of the invariant.
LEMMA NextInv == IInv /\ [Next]_vars => IInv'
<1>. SUFFICES ASSUME IInv, [Next]_vars PROVE IInv'
     OBVIOUS
<1>. Types
     BY TypesAre DEF IInv
<1>1. TypeOK'
  <2>1. Types'
        BY RecordsKept, RestKept, ListedKept DEF IInv, Types
  <2>2. Types' => TypeOK'
        BY TypesAre, PTL
  <2>. QED BY <2>1, <2>2
<1>2. Unlaunched'
      BY UnlaunchedKept DEF IInv
<1>3. LateFound'
      BY LateFoundKept DEF IInv
<1>4. UsageLogged'
      BY UsageLoggedKept DEF IInv
<1>5. NoLeak'
      BY NoLeakKept DEF IInv
<1>6. BindingsExplained'
      BY BindingsKept DEF IInv
<1>. QED BY <1>1, <1>2, <1>3, <1>4, <1>5, <1>6 DEF IInv

\* The invariant holds throughout: the registry lists the calls it has a record
\* of and nothing else, whatever is evicted, superseded or buried.
THEOREM Invariance == Spec => []IInv
<1>1. Init => IInv
      BY InitInv
<1>2. IInv /\ [Next]_vars => IInv'
      BY NextInv
<1>. QED BY <1>1, <1>2, PTL DEF Spec

\* TypeOK, for any number of calls, jobs and hooks (agent_lifecycle.py).
THEOREM TypeCorrect == Spec => []TypeOK
<1>1. IInv => TypeOK
      BY DEF IInv
<1>. QED BY <1>1, Invariance, PTL

\* NoLeak: the two handlers that may close a call hand its outcome over in
\* either order (note_child_stop, acknowledge_background_call).
THEOREM OutcomeHandedOver == Spec => []NoLeak
<1>1. IInv => NoLeak
      BY DEF IInv
<1>. QED BY <1>1, Invariance, PTL

\* BindingsExplained: children keep to their calls (bind_runtime_agent_start).
THEOREM ChildrenKeepToCalls == Spec => []BindingsExplained
<1>1. IInv => BindingsExplained
      BY DEF IInv
<1>. QED BY <1>1, Invariance, PTL

\* LateChargesBounded: a finished child is charged only by tool uses that
\* looked before its stop (is_current_claim, tally_and_check).
THEOREM LateChargesFew == Spec => []LateChargesBounded
<1>1. IInv => LateChargesBounded
      BY LateFoundBounds, TypesAre DEF IInv
<1>. QED BY <1>1, Invariance, PTL

\* UsageCountedOnce: stop, answer, backfill and cleanup together log no usage
\* twice (_record_usage_for_call).
THEOREM UsageOnce == Spec => []UsageCountedOnce
<1>1. IInv => UsageCountedOnce
      BY UsageLoggedBounds, TypesAre DEF IInv
<1>. QED BY <1>1, Invariance, PTL

-----------------------------------------------------------------------------
\* The promise to those who wait

\* Only its dispatch launches a call, and then it is live.
LEMMA LaunchIsDispatch ==
    ASSUME Types, [Next]_vars, NEW d \in Calls,
           child[d] \in {"none", "denied"}, child'[d] \notin {"none", "denied"}
    PROVE  /\ \A c \in Calls : c # d => child'[c] = child[c]
           /\ Running(d)' /\ ~call'[d].stopped /\ call'[d].handback = "no"
<1>t. Records /\ Rest
      BY DEF Types
<1>1. Dispatch(d)
  <2>1. ASSUME NEW x \in Calls, Dispatch(x) PROVE x = d
        BY <2>1, <1>t DEF Dispatch, Rest
  <2>2. ASSUME NEW x \in Calls, Child(x) PROVE FALSE
        BY <2>2, <1>t DEF Child, Start, EndTurn, Resume, Hush, Wake, Handback, host, Rest
  <2>3. ASSUME NEW x \in Calls, Stop(x) \/ Return(x) \/ Backfill(x) PROVE child' = child
    <3>1. Stop(x) => child' = child
          BY DEF Stop, StopArrives, StopSettles, host
    <3>2. Return(x) => child' = child
          BY DEF Return, ReturnAcknowledges, ReturnSettles, ReturnLooks, ReturnDecides, host
    <3>3. Backfill(x) => child' = child
          BY DEF Backfill, host
    <3>. QED BY <2>3, <3>1, <3>2, <3>3
  <2>4. ASSUME NEW h \in Hooks, Tool(h) PROVE child' = child
        BY <2>4 DEF Tool, FindCharged, Tally, host
  <2>5. ASSUME NEW j \in Jobs, FinishJob(j) PROVE child' = child
        BY <2>5 DEF FinishJob, host
  <2>6. Clear \/ UNCHANGED vars => child' = child
        BY DEF Clear, host, vars
  <2>. QED BY <2>1, <2>2, <2>3, <2>4, <2>5, <2>6 DEF Next
<1>2. PICK j \in Jobs, background \in BOOLEAN : Dispatch(d)!(j, background)
      BY <1>1 DEF Dispatch
<1>. DEFINE replaced == Superseded(j, background)
            rows == [e \in Calls |-> IF e \in replaced THEN Closed(call[e], "failed")
                                                        ELSE call[e]]
            row == [NoCall EXCEPT !.state = "running", !.job = j, !.background = background]
<1>3. row.state = "running" /\ ~row.stopped /\ row.handback = "no"
      BY DEF NoCall
<1>4. rows = [e \in Calls |-> rows[e]]
      OBVIOUS
<1>. HIDE DEF rows, row
<1>5. /\ \/ child' = [child EXCEPT ![d] = "launched"]
         \/ child' = [child EXCEPT ![d] = "denied"]
      /\ \/ call' = [rows EXCEPT ![d] = row]
         \/ \E e : call' = [rows EXCEPT ![e] = NoCall, ![d] = row]
         \/ child' = [child EXCEPT ![d] = "denied"]
      BY <1>2 DEF rows, row
<1>6. call'[d] = row
      BY <1>4, <1>5, <1>t DEF Rest
<1>. QED BY <1>3, <1>5, <1>6, <1>t DEF Running, Rest

\* What a step does to what waiters see is a step of AgentCalls.
LEMMA PhaseStep ==
    ASSUME Types, Unlaunched, [Next]_vars
    PROVE  [Waited!Next]_Phase
<1>1. ASSUME NEW c \in Calls, child[c] \notin {"none", "denied"}, Phase'[c] # Phase[c]
      PROVE  <<Phase[c], Phase'[c]>> \in Waited!Edges /\ Phase[c] # "absent"
  <2>1. child'[c] \notin {"none", "denied"} /\ Settled(c)
        BY <1>1, LaunchedSettles
  <2>2. /\ Phase[c] = IF ~Registered(c) THEN "gone"
                      ELSE IF ~Running(c) THEN "closed"
                      ELSE IF call[c].stopped \/ call[c].handback = "limit" THEN "over"
                      ELSE IF ChildHasStopped(c) THEN "quiet" ELSE "live"
        /\ Phase'[c] = IF ~Registered(c)' THEN "gone"
                       ELSE IF ~Running(c)' THEN "closed"
                       ELSE IF call'[c].stopped \/ call'[c].handback = "limit" THEN "over"
                       ELSE IF ChildHasStopped(c)' THEN "quiet" ELSE "live"
        BY <1>1, <2>1 DEF Phase
  <2>. QED BY <1>1, <2>1, <2>2 DEF Settled, Registered, Running, Waited!Edges
<1>2. ASSUME NEW c \in Calls, child[c] \in {"none", "denied"}, Phase'[c] # Phase[c]
      PROVE  /\ <<Phase[c], Phase'[c]>> \in Waited!Edges
             /\ child'[c] \notin {"none", "denied"}
  <2>1. Phase[c] = "absent" /\ child'[c] \notin {"none", "denied"}
        BY <1>2 DEF Phase
  <2>2. Running(c)' /\ ~call'[c].stopped /\ call'[c].handback = "no"
        BY <1>2, <2>1, LaunchIsDispatch
  <2>3. Phase'[c] = "live"
        BY <2>1, <2>2 DEF Phase, ChildHasStopped, Registered, Running
  <2>. QED BY <2>1, <2>3 DEF Waited!Edges
<1>3. ASSUME NEW c \in Calls, NEW d \in Calls, Phase'[c] # Phase[c], Phase'[d] # Phase[d],
             Phase[c] = "absent", Phase[d] = "absent"
      PROVE  c = d
  <2>1. child[c] \in {"none", "denied"} /\ child[d] \in {"none", "denied"}
        BY <1>1, <1>3
  <2>2. child'[c] \notin {"none", "denied"} /\ child'[d] \notin {"none", "denied"}
        BY <1>2, <1>3, <2>1
  <2>. QED BY <2>1, <2>2, LaunchIsDispatch
<1>. QED BY <1>1, <1>2, <1>3 DEF Waited!Next

\* The registry implements its abstract specification: no order of events
\* brings a finished call back to those who wait for it.
THEOREM PromiseKept == Spec => KeepsPromise
<1>1. Init => Waited!Init
      BY DEF Init, Waited!Init, Phase
<1>2. IInv /\ [Next]_vars => [Waited!Next]_Phase
      BY PhaseStep, TypesAre DEF IInv
<1>. QED BY <1>1, <1>2, Invariance, PTL DEF Spec, KeepsPromise, Waited!Spec
=============================================================================
