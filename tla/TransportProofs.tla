-------------------------- MODULE TransportProofs --------------------------
(***************************************************************************)
(* Transport keeps its promises for every number of calls, every           *)
(* configured number of attempts and every set of statuses.                *)
(***************************************************************************)
EXTENDS Transport, TLAPS

(***************************************************************************)
(* The inductive invariant.                                                *)
(***************************************************************************)

\* Requests carry indices the loop has already reached, and the index of an
\* attempt that has not been sent is on no request.
SentInOrder ==
    /\ \A r \in requests \cup applied : r.attempt <= attempt[r.call] /\ pc[r.call] # "idle"
    /\ \A c \in Calls : pc[c] \in {"ready", "sleeping"} => Current(c) \notin requests \cup applied

\* A request is carried out at most once, and one still on the wire is either
\* the one the client waits for or one it gave up on.
Outstanding ==
    /\ requests \cap applied = {}
    /\ \A r \in requests :
          r \in abandoned \/ (pc[r.call] = "inflight" /\ r = Current(r.call))

\* What the client may conclude from the answer it holds.
AnswerIsTrue ==
    \A c \in Calls : answer[c] # NoAnswer =>
        /\ pc[c] = "inflight"
        /\ Current(c) \notin requests
        /\ Successful(answer[c].status) => Current(c) \in applied
        /\ ~Successful(answer[c].status) /\ answer[c].status < 500 => Current(c) \notin applied

ProgramOrder == \A c, d \in Calls : d < c /\ pc[c] # "idle" => pc[d] = "done"

ResultWhenDone == \A c \in Calls : result[c].kind # "none" => pc[c] = "done"

\* Whose write the server holds, once the answer of a later call is known.
NewestUnlessAbandoned(c) == value >= c \/ \E r \in abandoned : r.call = value

HeldValue ==
    \A c \in Calls :
        \/ answer[c] # NoAnswer /\ Successful(answer[c].status)
        \/ result[c].kind = "ok"
        => NewestUnlessAbandoned(c)

IInv ==
    /\ TypeOK
    /\ SentInOrder
    /\ Outstanding
    /\ AnswerIsTrue
    /\ ProgramOrder
    /\ ResultWhenDone
    /\ OkMeansApplied
    /\ RefusalIsConclusive
    /\ HeldValue

-----------------------------------------------------------------------------
(***************************************************************************)
(* Lemmas about the operators.                                             *)
(***************************************************************************)

\* New never leaves the loop without an attempt to make.
LEMMA AttemptsPositive == Attempts \in Nat \ {0}
BY ConfigAttemptsAssumption DEF Attempts, DefaultAttempts

\* The answer that stands for "none yet" is not one a server gives.
LEMMA NoAnswerIsNoAnswer == NoAnswer \notin Answer
BY StatusesAssumption DEF NoAnswer, Answer

LEMMA CurrentType ==
    ASSUME TypeOK, NEW c \in Calls
    PROVE  Current(c) \in Request
BY DEF TypeOK, Current, Request

LEMMA OutcomeTypes == {NoResult, Ok, OtherError, ContextError} \subseteq Result
BY DEF NoResult, Ok, OtherError, ContextError, Result

\* Do classifies an answer as a success only if the status says so, and the
\* status of an APIError is the one the server gave.
LEMMA JudgeFacts ==
    ASSUME NEW c \in Calls, NEW a \in Answer
    PROVE  /\ Judge(c, a) \in Result
           /\ Judge(c, a).kind \in {"ok", "api", "other"}
           /\ Judge(c, a).kind = "ok" => Successful(a.status)
           /\ Judge(c, a).kind = "api" => ~Successful(a.status) /\ Judge(c, a).status = a.status
<1>1. CASE ~Successful(a.status)
  <2>1. Judge(c, a) = ApiError(a.status)
    BY <1>1 DEF Judge
  <2>. QED  BY <1>1, <2>1 DEF ApiError, Result, Answer
<1>2. CASE Successful(a.status) /\ (c \notin Decoding \/ a.status = 204 \/ a.readable)
  <2>1. Judge(c, a) = Ok
    BY <1>2 DEF Judge
  <2>. QED  BY <1>2, <2>1, OutcomeTypes DEF Ok
<1>3. CASE Successful(a.status) /\ ~(c \notin Decoding \/ a.status = 204 \/ a.readable)
  <2>1. Judge(c, a) = OtherError
    BY <1>3 DEF Judge
  <2>. QED  BY <1>3, <2>1, OutcomeTypes DEF OtherError
<1>. QED  BY <1>1, <1>2, <1>3

-----------------------------------------------------------------------------
(***************************************************************************)
(* Type correctness.                                                       *)
(***************************************************************************)

LEMMA AttemptEndsTypes ==
    ASSUME TypeOK, NEW c \in Calls, NEW r \in Result, AttemptEnds(c, r)
    PROVE  /\ pc' \in [Calls -> {"idle", "ready", "inflight", "sleeping", "done"}]
           /\ attempt' \in [Calls -> Tries]
           /\ answer' \in [Calls -> Answer \cup {NoAnswer}]
           /\ result' \in [Calls -> Result]
<1>1. CASE Final(r) \/ ctxDone[c] \/ Exhausted(c)
  BY <1>1 DEF AttemptEnds, Return, TypeOK
<1>2. CASE ~(Final(r) \/ ctxDone[c] \/ Exhausted(c))
  <2>1. attempt[c] + 1 \in Tries
    BY <1>2, AttemptsPositive DEF Exhausted, TypeOK, Tries
  <2>. QED  BY <1>2, <2>1 DEF AttemptEnds, TypeOK
<1>. QED  BY <1>1, <1>2

LEMMA TypeStep == TypeOK /\ [Next]_vars => TypeOK'
<1>. SUFFICES ASSUME TypeOK, [Next]_vars
              PROVE  TypeOK'
  OBVIOUS
<1>1. ASSUME NEW c \in Calls, Begin(c)
      PROVE  TypeOK'
  BY <1>1, AttemptsPositive, OutcomeTypes DEF Begin, Return, TypeOK
<1>2. ASSUME NEW c \in Calls, Send(c)
      PROVE  TypeOK'
  BY <1>2, CurrentType DEF Send, TypeOK
<1>3. ASSUME NEW c \in Calls, FailBeforeSend(c)
      PROVE  TypeOK'
  BY <1>3, AttemptEndsTypes, OutcomeTypes DEF FailBeforeSend, TypeOK
<1>4. ASSUME NEW c \in Calls, GiveUp(c)
      PROVE  TypeOK'
  BY <1>4, AttemptEndsTypes, OutcomeTypes, CurrentType DEF GiveUp, TypeOK
<1>5. ASSUME NEW c \in Calls, Receive(c)
      PROVE  TypeOK'
  <2>1. answer[c] \in Answer
    BY <1>5 DEF Receive, TypeOK
  <2>. QED  BY <1>5, <2>1, AttemptEndsTypes, JudgeFacts DEF Receive, TypeOK
<1>6. ASSUME NEW c \in Calls, Wake(c)
      PROVE  TypeOK'
  BY <1>6 DEF Wake, TypeOK
<1>7. ASSUME NEW c \in Calls, SleepCancelled(c)
      PROVE  TypeOK'
  BY <1>7, OutcomeTypes DEF SleepCancelled, Return, TypeOK
<1>8. ASSUME NEW c \in Calls, Cancel(c)
      PROVE  TypeOK'
  BY <1>8 DEF Cancel, TypeOK
<1>9. ASSUME NEW r \in requests, Lose(r)
      PROVE  TypeOK'
  BY <1>9 DEF Lose, TypeOK
<1>10. ASSUME NEW r \in requests, NEW a \in Answer, NEW e \in BOOLEAN, Handle(r, a, e)
       PROVE  TypeOK'
  <2>1. r.call \in Calls /\ r \in Request
    BY DEF TypeOK, Request
  <2>. QED  BY <1>10, <2>1 DEF Handle, TypeOK
<1>11. CASE UNCHANGED vars
  BY <1>11 DEF vars, TypeOK
<1>. QED
  BY <1>1, <1>2, <1>3, <1>4, <1>5, <1>6, <1>7, <1>8, <1>9, <1>10, <1>11
  DEF Next, ClientStep, ServerStep

\* Every value the loop and the server store is of its kind; in particular the
\* loop variable stays below the number of attempts.
THEOREM TypeCorrect == Spec => []TypeOK
<1>1. Init => TypeOK
  BY AttemptsPositive, OutcomeTypes DEF Init, TypeOK, Tries
<1>. QED  BY <1>1, TypeStep, PTL DEF Spec

-----------------------------------------------------------------------------
(***************************************************************************)
(* The invariant is inductive.                                             *)
(***************************************************************************)

\* What every way an attempt can end leaves of the bookkeeping.
LEMMA AttemptEndsFacts ==
    ASSUME TypeOK, NEW c \in Calls, NEW r, AttemptEnds(c, r)
    PROVE  /\ \A d \in Calls : d # c => /\ pc'[d] = pc[d]
                                        /\ attempt'[d] = attempt[d]
                                        /\ answer'[d] = answer[d]
                                        /\ result'[d] = result[d]
           /\ answer'[c] = NoAnswer
           /\ \/ /\ pc'[c] = "done"
                 /\ result'[c] = r
                 /\ attempt'[c] = attempt[c]
              \/ /\ pc'[c] = "sleeping"
                 /\ result'[c] = result[c]
                 /\ attempt'[c] = attempt[c] + 1
                 /\ attempt[c] \in Nat
                 /\ ~Final(r)
BY DEF AttemptEnds, Return, TypeOK, Tries

LEMMA InitIInv == Init => IInv
BY AttemptsPositive, OutcomeTypes
DEF Init, IInv, TypeOK, Tries, SentInOrder, Outstanding, AnswerIsTrue, ProgramOrder,
    ResultWhenDone, OkMeansApplied, RefusalIsConclusive, HeldValue, NoResult

LEMMA BeginKeepsIInv == ASSUME IInv, TypeOK', NEW c \in Calls, Begin(c) PROVE IInv'
<1>1. /\ pc[c] = "idle"
      /\ pc' = [pc EXCEPT ![c] = "ready"]
      /\ \A d \in Calls : d < c => pc[d] = "done"
      /\ UNCHANGED <<attempt, ctxDone, answer, result, requests, applied, abandoned, value>>
  BY AttemptsPositive DEF Begin
<1>. USE DEF IInv, TypeOK
<1>2. SentInOrder'
  BY <1>1 DEF SentInOrder, Current, Request
<1>3. Outstanding'
  BY <1>1 DEF Outstanding, Current, Request
<1>4. AnswerIsTrue'
  BY <1>1 DEF AnswerIsTrue, Current
<1>5. ProgramOrder'
  BY <1>1 DEF ProgramOrder
<1>6. ResultWhenDone' /\ OkMeansApplied' /\ RefusalIsConclusive' /\ HeldValue'
  BY <1>1 DEF ResultWhenDone, OkMeansApplied, RefusalIsConclusive, HeldValue, Current,
              NewestUnlessAbandoned
<1>. QED  BY <1>2, <1>3, <1>4, <1>5, <1>6

LEMMA SendKeepsIInv == ASSUME IInv, TypeOK', NEW c \in Calls, Send(c) PROVE IInv'
<1>. USE DEF IInv, TypeOK
<1>1. SentInOrder'
  BY DEF Send, SentInOrder, Current, Request, Tries
<1>2. Outstanding'
  BY DEF Send, Outstanding, SentInOrder, Current, Request
<1>3. AnswerIsTrue'
  BY DEF Send, AnswerIsTrue, Current
<1>4. ProgramOrder'
  BY DEF Send, ProgramOrder
<1>5. ResultWhenDone' /\ OkMeansApplied' /\ RefusalIsConclusive' /\ HeldValue'
  BY DEF Send, ResultWhenDone, OkMeansApplied, RefusalIsConclusive, HeldValue, Current,
         NewestUnlessAbandoned
<1>. QED  BY <1>1, <1>2, <1>3, <1>4, <1>5

\* Common to the three ways an attempt ends: FailBeforeSend, GiveUp, Receive.
LEMMA AttemptEndsKeepsIInv ==
    ASSUME IInv, TypeOK', NEW c \in Calls, pc[c] \in {"ready", "inflight"},
           NEW r \in Result, AttemptEnds(c, r),
           r.kind # "none",
           r.kind = "ok" => Current(c) \in applied /\ NewestUnlessAbandoned(c),
           r.kind = "api" /\ ~Retryable(r.status) => Current(c) \notin requests \cup applied,
           pc[c] = "inflight" => answer[c] # NoAnswer \/ Current(c) \in abandoned',
           abandoned \subseteq abandoned',
           UNCHANGED <<requests, applied, value>>
    PROVE  IInv'
<1>. USE DEF IInv, TypeOK
<1>1. SentInOrder'
  BY AttemptEndsFacts DEF SentInOrder, Current, Request, Tries
<1>2. Outstanding'
  BY AttemptEndsFacts DEF Outstanding, SentInOrder, AnswerIsTrue, Current, Request
<1>3. AnswerIsTrue'
  BY AttemptEndsFacts DEF AnswerIsTrue, Current
<1>4. ProgramOrder'
  BY AttemptEndsFacts DEF ProgramOrder
<1>5. ResultWhenDone'
  BY AttemptEndsFacts DEF ResultWhenDone
<1>6. OkMeansApplied'
  BY AttemptEndsFacts DEF OkMeansApplied, ResultWhenDone, Current
<1>7. RefusalIsConclusive'
  BY AttemptEndsFacts DEF RefusalIsConclusive, ResultWhenDone, SentInOrder, Current, Request, Tries
<1>8. HeldValue'
  BY AttemptEndsFacts DEF HeldValue, ResultWhenDone, NewestUnlessAbandoned
<1>. QED  BY <1>1, <1>2, <1>3, <1>4, <1>5, <1>6, <1>7, <1>8

LEMMA FailBeforeSendKeepsIInv ==
    ASSUME IInv, TypeOK', NEW c \in Calls, FailBeforeSend(c)
    PROVE  IInv'
BY AttemptEndsKeepsIInv, OutcomeTypes DEF FailBeforeSend, OtherError

LEMMA GiveUpKeepsIInv == ASSUME IInv, TypeOK', NEW c \in Calls, GiveUp(c) PROVE IInv'
BY AttemptEndsKeepsIInv, OutcomeTypes DEF GiveUp, OtherError

LEMMA ReceiveKeepsIInv == ASSUME IInv, TypeOK', NEW c \in Calls, Receive(c) PROVE IInv'
<1>. DEFINE r == Judge(c, answer[c])
<1>1. /\ answer[c] \in Answer
      /\ answer[c].status \in 200 .. 599
      /\ pc[c] = "inflight"
      /\ answer[c] # NoAnswer
  BY StatusesAssumption DEF Receive, IInv, TypeOK, Answer
<1>2. /\ r \in Result
      /\ r.kind \in {"ok", "api", "other"}
      /\ r.kind = "ok" => Successful(answer[c].status)
      /\ r.kind = "api" => ~Successful(answer[c].status) /\ r.status = answer[c].status
  BY <1>1, JudgeFacts
<1>3. r.kind = "ok" => Current(c) \in applied /\ NewestUnlessAbandoned(c)
  BY <1>1, <1>2 DEF IInv, AnswerIsTrue, HeldValue
<1>4. r.kind = "api" /\ ~Retryable(r.status) => Current(c) \notin requests \cup applied
  BY <1>1, <1>2 DEF IInv, AnswerIsTrue, Retryable
<1>. QED  BY <1>1, <1>2, <1>3, <1>4, AttemptEndsKeepsIInv DEF Receive

LEMMA WakeKeepsIInv == ASSUME IInv, TypeOK', NEW c \in Calls, Wake(c) PROVE IInv'
BY DEF Wake, IInv, TypeOK, SentInOrder, Outstanding, AnswerIsTrue, ProgramOrder, ResultWhenDone,
       OkMeansApplied, RefusalIsConclusive, HeldValue, NewestUnlessAbandoned, Current, Request

LEMMA SleepCancelledKeepsIInv ==
    ASSUME IInv, TypeOK', NEW c \in Calls, SleepCancelled(c)
    PROVE  IInv'
BY DEF SleepCancelled, Return, ContextError, IInv, TypeOK, SentInOrder, Outstanding,
       AnswerIsTrue, ProgramOrder, ResultWhenDone, OkMeansApplied, RefusalIsConclusive,
       HeldValue, NewestUnlessAbandoned, Current, Request

LEMMA CancelKeepsIInv == ASSUME IInv, TypeOK', NEW c \in Calls, Cancel(c) PROVE IInv'
BY DEF Cancel, IInv, TypeOK, SentInOrder, Outstanding, AnswerIsTrue, ProgramOrder,
       ResultWhenDone, OkMeansApplied, RefusalIsConclusive, HeldValue,
       NewestUnlessAbandoned, Current, Request

LEMMA LoseKeepsIInv == ASSUME IInv, TypeOK', NEW r \in requests, Lose(r) PROVE IInv'
BY DEF Lose, IInv, TypeOK, SentInOrder, Outstanding, AnswerIsTrue, ProgramOrder,
       ResultWhenDone, OkMeansApplied, RefusalIsConclusive, HeldValue,
       NewestUnlessAbandoned, Current, Request

LEMMA HandleKeepsIInv ==
    ASSUME IInv, TypeOK', NEW r \in requests, NEW a \in Answer,
           NEW e \in BOOLEAN, Truthful(a.status, e), Handle(r, a, e)
    PROVE  IInv'
<1>. USE DEF IInv
<1>1. /\ r \in Request
      /\ r.call \in Calls
      /\ r \notin applied
      /\ Successful(a.status) => e
      /\ ~Successful(a.status) /\ a.status < 500 => ~e
  BY DEF TypeOK, Request, Outstanding, Truthful
<1>2. /\ requests' = requests \ {r}
      /\ applied' = IF e THEN applied \cup {r} ELSE applied
      /\ value' = IF e THEN r.call ELSE value
      /\ answer' = IF pc[r.call] = "inflight" /\ r = Current(r.call)
                   THEN [answer EXCEPT ![r.call] = a] ELSE answer
      /\ UNCHANGED <<pc, attempt, ctxDone, result, abandoned>>
  BY DEF Handle
<1>3. SentInOrder'
  BY <1>1, <1>2 DEF SentInOrder, Current
<1>4. Outstanding'
  BY <1>1, <1>2 DEF Outstanding, Current
<1>5. AnswerIsTrue'
  BY <1>1, <1>2 DEF AnswerIsTrue, Outstanding, TypeOK, Current
<1>6. ProgramOrder' /\ ResultWhenDone' /\ OkMeansApplied' /\ RefusalIsConclusive'
  BY <1>1, <1>2 DEF ProgramOrder, ResultWhenDone, OkMeansApplied, RefusalIsConclusive, Current
<1>7. HeldValue'
  <2>. SUFFICES ASSUME NEW c \in Calls,
                       \/ answer'[c] # NoAnswer /\ Successful(answer'[c].status)
                       \/ result'[c].kind = "ok"
                PROVE  NewestUnlessAbandoned(c)'
    BY DEF HeldValue
  <2>1. CASE ~e
    BY <1>1, <1>2, <2>1 DEF HeldValue, NewestUnlessAbandoned, TypeOK
  <2>2. CASE e /\ r \in abandoned
    BY <1>2, <2>2 DEF NewestUnlessAbandoned
  <2>3. CASE e /\ r \notin abandoned
    <3>1. pc[r.call] = "inflight" /\ r = Current(r.call)
      BY <2>3 DEF Outstanding
    <3>2. CASE c = r.call
      BY <1>1, <1>2, <2>3, <3>2 DEF NewestUnlessAbandoned, Calls
    <3>3. CASE c # r.call
      <4>1. pc[c] # "idle"
        BY <1>2, <3>3 DEF AnswerIsTrue, ResultWhenDone, TypeOK
      <4>2. ~(r.call < c)
        BY <1>1, <3>1, <4>1 DEF ProgramOrder
      <4>. QED  BY <1>1, <1>2, <2>3, <4>2 DEF NewestUnlessAbandoned, Calls
    <3>. QED  BY <3>2, <3>3
  <2>. QED  BY <1>1, <2>1, <2>2, <2>3
<1>. QED  BY <1>3, <1>4, <1>5, <1>6, <1>7

LEMMA IInvStep == IInv /\ [Next]_vars => IInv'
<1>. SUFFICES ASSUME IInv, [Next]_vars
              PROVE  IInv'
  OBVIOUS
<1>1. TypeOK'
  BY TypeStep DEF IInv
<1>2. CASE \E c \in Calls : Begin(c) \/ ClientStep(c) \/ Cancel(c)
  BY <1>1, <1>2, BeginKeepsIInv, SendKeepsIInv, FailBeforeSendKeepsIInv, GiveUpKeepsIInv,
     ReceiveKeepsIInv, WakeKeepsIInv, SleepCancelledKeepsIInv, CancelKeepsIInv
  DEF ClientStep
<1>3. CASE \E r \in requests : ServerStep(r)
  BY <1>1, <1>3, LoseKeepsIInv, HandleKeepsIInv DEF ServerStep
<1>4. CASE UNCHANGED vars
  BY <1>1, <1>4 DEF vars, IInv, TypeOK, SentInOrder, Outstanding, AnswerIsTrue, ProgramOrder,
     ResultWhenDone, OkMeansApplied, RefusalIsConclusive, HeldValue, NewestUnlessAbandoned,
     Current, Request
<1>. QED  BY <1>2, <1>3, <1>4 DEF Next

LEMMA Inductive == Spec => []IInv
BY InitIInv, IInvStep, PTL DEF Spec

-----------------------------------------------------------------------------
(***************************************************************************)
(* The properties.                                                         *)
(***************************************************************************)

\* A nil error is never returned for an attempt the server did not carry out.
THEOREM NoFalseSuccess == Spec => []OkMeansApplied
<1>1. IInv => OkMeansApplied
  BY DEF IInv
<1>. QED  BY <1>1, Inductive, PTL

\* A refusal of the first attempt means that nothing was changed, for good.
THEOREM FirstRefusalConclusive == Spec => []RefusalIsConclusive
<1>1. IInv => RefusalIsConclusive
  BY DEF IInv
<1>. QED  BY <1>1, Inductive, PTL

\* An older write survives a newer acknowledged one only through an attempt
\* that timed out.
THEOREM StaleWriteSource == Spec => []StaleWriteNeedsAbandonedAttempt
<1>1. IInv => StaleWriteNeedsAbandonedAttempt
  BY DEF IInv, HeldValue, NewestUnlessAbandoned, StaleWriteNeedsAbandonedAttempt
<1>. QED  BY <1>1, Inductive, PTL

\* A cancelled call does not start another wait.
THEOREM CancelPrompt == Spec => CancelIsPrompt
<1>1. TypeOK /\ [Next]_vars =>
        [\A c \in Calls : ctxDone[c] /\ pc[c] # "sleeping" => pc'[c] # "sleeping"]_vars
  <2>. SUFFICES ASSUME TypeOK, Next, NEW c \in Calls, ctxDone[c], pc[c] # "sleeping"
                PROVE  pc'[c] # "sleeping"
    OBVIOUS
  <2>1. CASE \E d \in Calls : Begin(d) \/ ClientStep(d) \/ Cancel(d)
    BY <2>1 DEF TypeOK, Begin, ClientStep, Send, FailBeforeSend, GiveUp, Receive, Wake,
                SleepCancelled, Cancel, AttemptEnds, Return
  <2>2. CASE \E r \in requests : ServerStep(r)
    BY <2>2 DEF ServerStep, Lose, Handle
  <2>. QED  BY <2>1, <2>2 DEF Next
<1>. QED  BY <1>1, TypeCorrect, PTL DEF Spec, CancelIsPrompt

-----------------------------------------------------------------------------
(***************************************************************************)
(* The retry loop implements the contract of ApiCall.                      *)
(***************************************************************************)

\* A call that ends is, abstractly, one that returns; an attempt that does not
\* end it changes nothing the caller can see.
LEMMA AttemptEndsRefines ==
    ASSUME TypeOK, NEW c \in Calls, pc[c] \in {"ready", "inflight"}, result[c].kind = "none",
           NEW r \in Result, AttemptEnds(c, r), r.kind # "none",
           r.kind = "ok" => Current(c) \in applied, UNCHANGED applied
    PROVE  [Promise!Next]_(Promise!vars)
<1>. \A d \in Calls \ {c} : Phase(d)' = Phase(d) /\ Outcome(d)' = Outcome(d)
  BY AttemptEndsFacts DEF Phase, Outcome
<1>. \A d \in Calls : Effects(d)' = Effects(d)
  BY DEF Effects
<1>. Phase(c) = "open" /\ Outcome(c) = "none"
  BY DEF Phase, Outcome
<1>1. CASE pc'[c] = "sleeping"
  <2>1. Phase(c)' = Phase(c) /\ Outcome(c)' = Outcome(c)
    BY <1>1, AttemptEndsFacts DEF Phase, Outcome
  <2>. QED  BY <2>1 DEF Promise!vars
<1>2. CASE pc'[c] = "done" /\ r.kind = "ok"
  <2>1. Phase(c)' = "returned" /\ Outcome(c)' = "ok"
    BY <1>2, AttemptEndsFacts DEF Phase, Outcome
  <2>2. Effects(c) # {}
    <3>1. attempt[c] \in Tries
      BY DEF TypeOK
    <3>. QED  BY <1>2, <3>1 DEF Effects, Current
  <2>3. Promise!ReturnOk(c)
    BY <2>1, <2>2 DEF Promise!ReturnOk
  <2>. QED  BY <2>3 DEF Promise!Next
<1>3. CASE pc'[c] = "done" /\ r.kind # "ok"
  <2>1. Phase(c)' = "returned" /\ Outcome(c)' = "error"
    BY <1>3, AttemptEndsFacts DEF Phase, Outcome
  <2>2. Promise!ReturnError(c)
    BY <2>1 DEF Promise!ReturnError
  <2>. QED  BY <2>2 DEF Promise!Next
<1>. QED  BY <1>1, <1>2, <1>3, AttemptEndsFacts

LEMMA StepRefines == IInv /\ TypeOK' /\ [Next]_vars => [Promise!Next]_(Promise!vars)
<1>. SUFFICES ASSUME IInv, TypeOK', [Next]_vars
              PROVE  [Promise!Next]_(Promise!vars)
  OBVIOUS
<1>. TypeOK /\ ResultWhenDone
  BY DEF IInv
<1>1. ASSUME NEW c \in Calls, Begin(c)
      PROVE  [Promise!Next]_(Promise!vars)
  <2>1. /\ pc[c] = "idle"
        /\ pc' = [pc EXCEPT ![c] = "ready"]
        /\ UNCHANGED <<result, applied>>
    BY <1>1, AttemptsPositive DEF Begin
  <2>2. \A d \in Calls : /\ d # c => Phase(d)' = Phase(d)
                         /\ Effects(d)' = Effects(d)
                         /\ Outcome(d)' = Outcome(d)
    BY <2>1 DEF Phase, Effects, Outcome, TypeOK
  <2>3. Phase(c) = "idle" /\ Phase(c)' = "open"
    BY <2>1 DEF Phase, TypeOK
  <2>4. Promise!Invoke(c)
    BY <2>2, <2>3 DEF Promise!Invoke
  <2>. QED  BY <2>4 DEF Promise!Next
<1>2. ASSUME NEW c \in Calls, Send(c) \/ Wake(c) \/ Cancel(c)
      PROVE  [Promise!Next]_(Promise!vars)
  <2>1. \A d \in Calls : Phase(d)' = Phase(d) /\ Effects(d)' = Effects(d) /\ Outcome(d)' = Outcome(d)
    BY <1>2 DEF Send, Wake, Cancel, Phase, Effects, Outcome, TypeOK
  <2>. QED  BY <2>1 DEF Promise!vars
<1>3. ASSUME NEW c \in Calls, FailBeforeSend(c) \/ GiveUp(c)
      PROVE  [Promise!Next]_(Promise!vars)
  <2>1. pc[c] \in {"ready", "inflight"} /\ AttemptEnds(c, OtherError) /\ UNCHANGED applied
    BY <1>3 DEF FailBeforeSend, GiveUp
  <2>2. result[c].kind = "none"
    BY <2>1 DEF ResultWhenDone
  <2>. QED  BY <2>1, <2>2, AttemptEndsRefines, OutcomeTypes DEF OtherError
<1>4. ASSUME NEW c \in Calls, Receive(c)
      PROVE  [Promise!Next]_(Promise!vars)
  <2>. DEFINE r == Judge(c, answer[c])
  <2>1. /\ pc[c] = "inflight"
        /\ answer[c] \in Answer
        /\ answer[c] # NoAnswer
        /\ AttemptEnds(c, r)
        /\ UNCHANGED applied
    BY <1>4 DEF Receive, TypeOK
  <2>2. result[c].kind = "none"
    BY <2>1 DEF ResultWhenDone
  <2>3. /\ r \in Result
        /\ r.kind # "none"
        /\ r.kind = "ok" => Current(c) \in applied
    BY <2>1, JudgeFacts DEF IInv, AnswerIsTrue
  <2>. QED  BY <2>1, <2>2, <2>3, AttemptEndsRefines
<1>5. ASSUME NEW c \in Calls, SleepCancelled(c)
      PROVE  [Promise!Next]_(Promise!vars)
  <2>1. /\ pc[c] = "sleeping"
        /\ pc' = [pc EXCEPT ![c] = "done"]
        /\ result' = [result EXCEPT ![c] = ContextError]
        /\ UNCHANGED applied
    BY <1>5 DEF SleepCancelled, Return
  <2>2. \A d \in Calls : /\ d # c => Phase(d)' = Phase(d) /\ Outcome(d)' = Outcome(d)
                         /\ Effects(d)' = Effects(d)
    BY <2>1 DEF Phase, Effects, Outcome, TypeOK
  <2>3. /\ Phase(c) = "open" /\ Phase(c)' = "returned"
        /\ Outcome(c) = "none" /\ Outcome(c)' = "error"
    BY <2>1 DEF Phase, Outcome, ContextError, ResultWhenDone, TypeOK
  <2>4. Promise!ReturnError(c)
    BY <2>2, <2>3 DEF Promise!ReturnError
  <2>. QED  BY <2>4 DEF Promise!Next
<1>6. ASSUME NEW r \in requests, ServerStep(r)
      PROVE  [Promise!Next]_(Promise!vars)
  <2>1. /\ r \in Request
        /\ r.call \in Calls /\ r.attempt \in Tries
        /\ r = [call |-> r.call, attempt |-> r.attempt]
        /\ UNCHANGED <<pc, result>>
        /\ applied' = applied \/ applied' = applied \cup {r}
    BY <1>6 DEF ServerStep, Lose, Handle, TypeOK, Request
  <2>2. \A d \in Calls : Phase(d)' = Phase(d) /\ Outcome(d)' = Outcome(d)
    BY <2>1 DEF Phase, Outcome
  <2>3. CASE applied' = applied
    <3>1. \A d \in Calls : Effects(d)' = Effects(d)
      BY <2>3 DEF Effects
    <3>. QED  BY <2>2, <3>1 DEF Promise!vars
  <2>4. CASE applied' = applied \cup {r} /\ r \notin applied
    <3>1. \A d \in Calls : d # r.call => Effects(d)' = Effects(d)
      BY <2>1, <2>4 DEF Effects
    <3>2. Effects(r.call)' = Effects(r.call) \cup {r.attempt}
      BY <2>1, <2>4 DEF Effects
    <3>3. r.attempt \in Tries \ Effects(r.call)
      BY <2>1, <2>4 DEF Effects
    <3>4. Phase(r.call) # "idle"
      BY <2>1 DEF Phase, IInv, SentInOrder, TypeOK
    <3>5. Promise!Effect(r.call)
      BY <2>1, <2>2, <3>1, <3>2, <3>3, <3>4 DEF Promise!Effect, Promise!Tries, Tries
    <3>. QED  BY <2>1, <3>5 DEF Promise!Next
  <2>5. CASE applied' = applied \cup {r} /\ r \in applied
    BY <2>3, <2>5
  <2>. QED  BY <2>1, <2>3, <2>4, <2>5
<1>7. CASE UNCHANGED vars
  <2>1. \A d \in Calls : Phase(d)' = Phase(d) /\ Effects(d)' = Effects(d) /\ Outcome(d)' = Outcome(d)
    BY <1>7 DEF vars, Phase, Effects, Outcome
  <2>. QED  BY <2>1 DEF Promise!vars
<1>. QED
  BY <1>1, <1>2, <1>3, <1>4, <1>5, <1>6, <1>7 DEF Next, ClientStep

\* Do keeps the contract: no more effects than attempts, none without having
\* been issued, and no success without an effect.
THEOREM KeepsContract == Spec => Contract
<1>1. Init => Promise!Init
  BY DEF Init, Promise!Init, Phase, Effects, Outcome, NoResult
<1>. QED  BY <1>1, StepRefines, Inductive, TypeCorrect, PTL DEF Spec, Contract, Promise!Spec
=============================================================================
