--------------------------- MODULE ExchangeProofs ---------------------------
(***************************************************************************)
(* Proofs about the dialogue of one job, for any limits on exchanges,      *)
(* reads and corrections.                                                  *)
(***************************************************************************)
EXTENDS Exchange, TLAPS

\* Between its limits' checks an exchange has room for what it has begun: a
\* turn in progress is within the limit, a rejection leaves one more.
Room ==
    /\ invoked <= number + extra
    /\ pc = "turn" => invoked < number + extra
    /\ rounds <= number
    /\ pc \notin {"reading", "over"} => rounds < number
    /\ pc \notin {"turn", "over"} => number + extra <= MaxExchanges
    /\ pc = "rejected" => number + extra < MaxExchanges
    /\ pc # "over" => outcome = "none" /\ corrections <= MaxCorrections
    /\ outcome = "result" => number + extra <= MaxExchanges

\* Where a rejection can be whose reason is still to be sent, unless an anchor
\* correction has used up its turn.
Owing ==
    owed /\ ~anchored =>
        \/ pc = "rejected"
        \/ pc = "feedback" /\ number + extra < MaxExchanges
        \/ pc = "turn" /\ number + extra <= MaxExchanges
        \/ pc = "over" /\ outcome # "limit"

\* Every served window is noted as seen, and there are no more than the limit.
Noted == served <= seen /\ ServedBounded

IInv == TypeOK /\ CallsBounded /\ Room /\ Owing /\ Noted
-----------------------------------------------------------------------------
\* Counters move one at a time and only below their limits.
LEMMA TypeStep ==
    ASSUME TypeOK, Room, Dialogue \/ AskStop \/ Expire
    PROVE  TypeOK'
<1> USE LimitsAssumption DEF TypeOK, Outcomes, Room, counters, reads, env
<1>1. CASE Turn
  <2>1. /\ number' \in 1..(MaxExchanges + 1) /\ extra' \in 0..MaxExchanges
        /\ corrections' \in 0..(MaxCorrections + 1) /\ rounds' \in 0..MaxExchanges
        /\ seen' \in Nat /\ left' \in 0..MaxReads /\ served' \in Nat
    BY <1>1 DEF Turn, Exhausted, Finish, CountCall
  <2>2. /\ pc' \in {"turn", "asked", "answered", "reading", "rejected", "asking", "corrected",
                   "feedback", "over"}
        /\ outcome' \in Outcomes
    BY <1>1 DEF Turn, Exhausted, Finish, CountCall
  <2>3. invoked' \in 0..(MaxExchanges + 1)
    BY <1>1 DEF Turn, Exhausted, Finish, CountCall
  <2>4. preload' \in BOOLEAN /\ stop' \in BOOLEAN /\ expired' \in BOOLEAN
    BY <1>1 DEF Turn, Exhausted, Finish, CountCall
  <2>5. owed' \in BOOLEAN
    BY <1>1 DEF Turn, Exhausted, Finish, CountCall
  <2>6. anchored' \in BOOLEAN
    BY <1>1 DEF Turn, Exhausted, Finish, CountCall
  <2> QED BY <2>1, <2>2, <2>3, <2>4, <2>5, <2>6
<1>2. CASE InvokeRaises
  BY <1>2 DEF InvokeRaises, Finish
<1>3. CASE Reply
  BY <1>3 DEF Reply, Finish
<1>4. CASE Breach
  BY <1>4 DEF Breach, Finish
<1>5. CASE MixedEnvelope
  BY <1>5 DEF MixedEnvelope, Finish, NextTurn
<1>6. CASE Accept
  BY <1>6 DEF Accept, Finish
<1>7. CASE Reject
  <2>1. /\ number' \in 1..(MaxExchanges + 1) /\ extra' \in 0..MaxExchanges
        /\ corrections' \in 0..(MaxCorrections + 1) /\ rounds' \in 0..MaxExchanges
        /\ seen' \in Nat /\ left' \in 0..MaxReads /\ served' \in Nat
    BY <1>7 DEF Reject, Finish, NoTurnLeft
  <2>2. /\ pc' \in {"turn", "asked", "answered", "reading", "rejected", "asking", "corrected",
                   "feedback", "over"}
        /\ outcome' \in Outcomes
    BY <1>7 DEF Reject, Finish, NoTurnLeft
  <2>3. invoked' \in 0..(MaxExchanges + 1)
    BY <1>7 DEF Reject, Finish, NoTurnLeft
  <2>4. preload' \in BOOLEAN /\ stop' \in BOOLEAN /\ expired' \in BOOLEAN
    BY <1>7 DEF Reject, Finish, NoTurnLeft
  <2>5. owed' \in BOOLEAN
    BY <1>7 DEF Reject, Finish, NoTurnLeft
  <2>6. anchored' \in BOOLEAN
    BY <1>7 DEF Reject, Finish, NoTurnLeft
  <2> QED BY <2>1, <2>2, <2>3, <2>4, <2>5, <2>6
<1>8. CASE CorrectAnchors
  BY <1>8 DEF CorrectAnchors, CountCall
<1>9. CASE AnchorsAnswered
  BY <1>9 DEF AnchorsAnswered
<1>10. CASE RejectedAsAWhole
  BY <1>10 DEF RejectedAsAWhole
<1>11. CASE Feedback
  BY <1>11 DEF Feedback, NextTurn
<1>12. CASE Read
  BY <1>12 DEF Read, NextTurn
<1>13. CASE ReadOne
  BY <1>13 DEF ReadOne
<1>14. CASE ReadsDone
  BY <1>14 DEF ReadsDone, NextTurn
<1>15. CASE ReadOutside
  BY <1>15 DEF ReadOutside, Finish
<1>16. CASE AskStop
  BY <1>16 DEF AskStop
<1>17. CASE Expire
  BY <1>17 DEF Expire
<1> QED BY <1>1, <1>2, <1>3, <1>4, <1>5, <1>6, <1>7, <1>8, <1>9, <1>10, <1>11, <1>12, <1>13,
       <1>14, <1>15, <1>16, <1>17 DEF Dialogue

\* A call is counted only where a turn, or a rejection, has left room for it.
LEMMA CallsStep ==
    ASSUME TypeOK, CallsBounded, Room, Dialogue \/ AskStop \/ Expire
    PROVE  CallsBounded'
<1> USE LimitsAssumption DEF TypeOK, CallsBounded, Room, counters, reads, env
<1>1. CASE Turn
  BY <1>1 DEF Turn, Exhausted, Finish, CountCall
<1>2. CASE InvokeRaises
  BY <1>2 DEF InvokeRaises, Finish
<1>3. CASE Reply
  BY <1>3 DEF Reply, Finish
<1>4. CASE Breach
  BY <1>4 DEF Breach, Finish
<1>5. CASE MixedEnvelope
  BY <1>5 DEF MixedEnvelope, Finish, NextTurn
<1>6. CASE Accept
  BY <1>6 DEF Accept, Finish
<1>7. CASE Reject
  BY <1>7 DEF Reject, Finish, NoTurnLeft
<1>8. CASE CorrectAnchors
  BY <1>8 DEF CorrectAnchors, CountCall
<1>9. CASE AnchorsAnswered
  BY <1>9 DEF AnchorsAnswered
<1>10. CASE RejectedAsAWhole
  BY <1>10 DEF RejectedAsAWhole
<1>11. CASE Feedback
  BY <1>11 DEF Feedback, NextTurn
<1>12. CASE Read
  BY <1>12 DEF Read, NextTurn
<1>13. CASE ReadOne
  BY <1>13 DEF ReadOne
<1>14. CASE ReadsDone
  BY <1>14 DEF ReadsDone, NextTurn
<1>15. CASE ReadOutside
  BY <1>15 DEF ReadOutside, Finish
<1>16. CASE AskStop
  BY <1>16 DEF AskStop
<1>17. CASE Expire
  BY <1>17 DEF Expire
<1> QED BY <1>1, <1>2, <1>3, <1>4, <1>5, <1>6, <1>7, <1>8, <1>9, <1>10, <1>11, <1>12, <1>13,
       <1>14, <1>15, <1>16, <1>17 DEF Dialogue

\* A turn begins only within the limit, and a rejection goes on only below it.
LEMMA RoomStep ==
    ASSUME TypeOK, CallsBounded, Room, Dialogue \/ AskStop \/ Expire
    PROVE  Room'
<1> USE LimitsAssumption DEF TypeOK, CallsBounded, Room, counters, reads, env
<1>1. CASE Turn
  <2>1. /\ invoked' <= number' + extra'
        /\ pc' = "turn" => invoked' < number' + extra'
    BY <1>1 DEF Turn, Exhausted, Finish, CountCall
  <2>2. /\ rounds' <= number'
        /\ pc' \notin {"reading", "over"} => rounds' < number'
    BY <1>1 DEF Turn, Exhausted, Finish, CountCall
  <2>3. /\ pc' \notin {"turn", "over"} => number' + extra' <= MaxExchanges
        /\ pc' = "rejected" => number' + extra' < MaxExchanges
    BY <1>1 DEF Turn, Exhausted, Finish, CountCall
  <2>4. /\ pc' # "over" => outcome' = "none" /\ corrections' <= MaxCorrections
        /\ outcome' = "result" => number' + extra' <= MaxExchanges
    BY <1>1 DEF Turn, Exhausted, Finish, CountCall
  <2> QED BY <2>1, <2>2, <2>3, <2>4
<1>2. CASE InvokeRaises
  BY <1>2 DEF InvokeRaises, Finish
<1>3. CASE Reply
  BY <1>3 DEF Reply, Finish
<1>4. CASE Breach
  BY <1>4 DEF Breach, Finish
<1>5. CASE MixedEnvelope
  BY <1>5 DEF MixedEnvelope, Finish, NextTurn
<1>6. CASE Accept
  BY <1>6 DEF Accept, Finish
<1>7. CASE Reject
  BY <1>7 DEF Reject, Finish, NoTurnLeft
<1>8. CASE CorrectAnchors
  BY <1>8 DEF CorrectAnchors, CountCall
<1>9. CASE AnchorsAnswered
  BY <1>9 DEF AnchorsAnswered
<1>10. CASE RejectedAsAWhole
  BY <1>10 DEF RejectedAsAWhole
<1>11. CASE Feedback
  BY <1>11 DEF Feedback, NextTurn
<1>12. CASE Read
  BY <1>12 DEF Read, NextTurn
<1>13. CASE ReadOne
  BY <1>13 DEF ReadOne
<1>14. CASE ReadsDone
  BY <1>14 DEF ReadsDone, NextTurn
<1>15. CASE ReadOutside
  BY <1>15 DEF ReadOutside, Finish
<1>16. CASE AskStop
  BY <1>16 DEF AskStop
<1>17. CASE Expire
  BY <1>17 DEF Expire
<1> QED BY <1>1, <1>2, <1>3, <1>4, <1>5, <1>6, <1>7, <1>8, <1>9, <1>10, <1>11, <1>12, <1>13,
       <1>14, <1>15, <1>16, <1>17 DEF Dialogue

\* A rejection that is to be returned keeps the turn it was promised.
LEMMA OwingStep ==
    ASSUME TypeOK, Room, Owing, Dialogue \/ AskStop \/ Expire
    PROVE  Owing'
<1> USE LimitsAssumption DEF TypeOK, Room, Owing, counters, reads, env
<1>1. CASE Turn
  <2>1. owed /\ ~anchored => ~Exhausted
    BY <1>1 DEF Turn, Exhausted
  <2>2. CASE Exhausted
    BY <1>1, <2>1, <2>2 DEF Turn, Finish
  <2>3. CASE ~Exhausted
    <3>1. outcome' # "limit" /\ (owed' => pc' = "over")
      BY <1>1, <2>3 DEF Turn, Finish
    <3> QED BY <3>1
  <2> QED BY <2>2, <2>3
<1>2. CASE InvokeRaises
  BY <1>2 DEF InvokeRaises, Finish
<1>3. CASE Reply
  BY <1>3 DEF Reply, Finish
<1>4. CASE Breach
  BY <1>4 DEF Breach, Finish
<1>5. CASE MixedEnvelope
  BY <1>5 DEF MixedEnvelope, Finish, NextTurn
<1>6. CASE Accept
  BY <1>6 DEF Accept, Finish
<1>7. CASE Reject
  BY <1>7 DEF Reject, Finish, NoTurnLeft
<1>8. CASE CorrectAnchors
  BY <1>8 DEF CorrectAnchors, CountCall
<1>9. CASE AnchorsAnswered
  BY <1>9 DEF AnchorsAnswered
<1>10. CASE RejectedAsAWhole
  BY <1>10 DEF RejectedAsAWhole
<1>11. CASE Feedback
  BY <1>11 DEF Feedback, NextTurn
<1>12. CASE Read
  BY <1>12 DEF Read, NextTurn
<1>13. CASE ReadOne
  BY <1>13 DEF ReadOne
<1>14. CASE ReadsDone
  BY <1>14 DEF ReadsDone, NextTurn
<1>15. CASE ReadOutside
  BY <1>15 DEF ReadOutside, Finish
<1>16. CASE AskStop
  BY <1>16 DEF AskStop
<1>17. CASE Expire
  BY <1>17 DEF Expire
<1> QED BY <1>1, <1>2, <1>3, <1>4, <1>5, <1>6, <1>7, <1>8, <1>9, <1>10, <1>11, <1>12, <1>13,
       <1>14, <1>15, <1>16, <1>17 DEF Dialogue

\* Windows are served only while fewer than the limit are noted.
LEMMA NotedStep ==
    ASSUME TypeOK, Room, Noted, Dialogue \/ AskStop \/ Expire
    PROVE  Noted'
<1> USE LimitsAssumption DEF TypeOK, Room, Noted, ServedBounded, counters, reads, env
<1>1. CASE Turn
  BY <1>1 DEF Turn, Exhausted, Finish, CountCall
<1>2. CASE InvokeRaises
  BY <1>2 DEF InvokeRaises, Finish
<1>3. CASE Reply
  BY <1>3 DEF Reply, Finish
<1>4. CASE Breach
  BY <1>4 DEF Breach, Finish
<1>5. CASE MixedEnvelope
  BY <1>5 DEF MixedEnvelope, Finish, NextTurn
<1>6. CASE Accept
  BY <1>6 DEF Accept, Finish
<1>7. CASE Reject
  BY <1>7 DEF Reject, Finish, NoTurnLeft
<1>8. CASE CorrectAnchors
  BY <1>8 DEF CorrectAnchors, CountCall
<1>9. CASE AnchorsAnswered
  BY <1>9 DEF AnchorsAnswered
<1>10. CASE RejectedAsAWhole
  BY <1>10 DEF RejectedAsAWhole
<1>11. CASE Feedback
  BY <1>11 DEF Feedback, NextTurn
<1>12. CASE Read
  BY <1>12 DEF Read, NextTurn
<1>13. CASE ReadOne
  BY <1>13 DEF ReadOne
<1>14. CASE ReadsDone
  BY <1>14 DEF ReadsDone, NextTurn
<1>15. CASE ReadOutside
  BY <1>15 DEF ReadOutside, Finish
<1>16. CASE AskStop
  BY <1>16 DEF AskStop
<1>17. CASE Expire
  BY <1>17 DEF Expire
<1> QED BY <1>1, <1>2, <1>3, <1>4, <1>5, <1>6, <1>7, <1>8, <1>9, <1>10, <1>11, <1>12, <1>13,
       <1>14, <1>15, <1>16, <1>17 DEF Dialogue

-----------------------------------------------------------------------------
\* The strengthened invariant holds when the exchange begins.
LEMMA InitInv == Init => IInv
<1> SUFFICES ASSUME Init PROVE IInv
  OBVIOUS
<1> USE LimitsAssumption DEF Init
<1>1. TypeOK
  <2>1. /\ number \in 1..(MaxExchanges + 1) /\ extra \in 0..MaxExchanges
        /\ corrections \in 0..(MaxCorrections + 1) /\ rounds \in 0..MaxExchanges
        /\ seen \in Nat /\ left \in 0..MaxReads /\ served \in Nat
    OBVIOUS
  <2>2. /\ pc \in {"turn", "asked", "answered", "reading", "rejected", "asking", "corrected",
                   "feedback", "over"}
        /\ outcome \in Outcomes
    BY DEF Outcomes
  <2>3. invoked \in 0..(MaxExchanges + 1)
    OBVIOUS
  <2>4. preload \in BOOLEAN /\ stop \in BOOLEAN /\ expired \in BOOLEAN
    BY Zenon
  <2>5. owed \in BOOLEAN
    BY Zenon
  <2>6. anchored \in BOOLEAN
    BY Zenon
  <2> QED BY <2>1, <2>2, <2>3, <2>4, <2>5, <2>6 DEF TypeOK
<1>2. CallsBounded /\ Room
  BY DEF CallsBounded, Room
<1>3. Owing /\ Noted
  BY DEF Owing, Noted, ServedBounded
<1> QED BY <1>1, <1>2, <1>3 DEF IInv

\* A step that changes no variable keeps it.
LEMMA StutterKeeps == IInv /\ UNCHANGED vars => IInv'
BY DEF IInv, TypeOK, CallsBounded, Room, Owing, Noted, ServedBounded, vars, counters, reads, env

\* Every step, and a stutter, keeps the strengthened invariant.
LEMMA InductiveStep == IInv /\ [Next]_vars => IInv'
<1> SUFFICES ASSUME IInv, [Next]_vars PROVE IInv'
  OBVIOUS
<1>1. CASE Dialogue \/ AskStop \/ Expire
  <2>1. TypeOK' /\ CallsBounded' /\ Room'
    BY <1>1, TypeStep, CallsStep, RoomStep DEF IInv
  <2>2. Owing' /\ Noted'
    BY <1>1, OwingStep, NotedStep DEF IInv
  <2> QED BY <2>1, <2>2 DEF IInv
<1>2. CASE UNCHANGED vars
  BY <1>2, StutterKeeps
<1> QED BY <1>1, <1>2 DEF Next

\* The strengthened invariant holds in every reachable state.
THEOREM Invariance == Spec => []IInv
BY InitInv, InductiveStep, PTL DEF Spec

\* Every variable keeps its type: corrections, rounds and turns stay within one
\* of their limits (run_exchange).
THEOREM TypeCorrect == Spec => []TypeOK
<1>1. IInv => TypeOK
  BY DEF IInv
<1> QED BY <1>1, Invariance, PTL

\* Reads, corrections and anchor corrections together never call the model more
\* often than the limit, for any limit (run_exchange, _correct_anchors).
THEOREM CallBound == Spec => []CallsBounded
<1>1. IInv => CallsBounded
  BY DEF IInv
<1> QED BY <1>1, Invariance, PTL

\* No rejection is dropped for want of a turn, unless an anchor correction used
\* that turn (rejected() of run_exchange).
THEOREM RejectionsReturned == Spec => []RejectionReturned
<1>1. IInv => RejectionReturned
  <2> SUFFICES ASSUME IInv, outcome = "limit", owed, ~anchored PROVE FALSE
    BY DEF RejectionReturned
  <2> QED BY DEF IInv, Owing, Room
<1> QED BY <1>1, Invariance, PTL

\* No mixture of reads and rejections serves more windows than the limit, for
\* any limits (_serve_anchors, the read loop of run_exchange).
THEOREM ServedBound == Spec => []ServedBounded
<1>1. IInv => ServedBounded
  BY DEF IInv, Noted
<1> QED BY <1>1, Invariance, PTL
=============================================================================
