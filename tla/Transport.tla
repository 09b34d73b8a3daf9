----------------------------- MODULE Transport -----------------------------
(***************************************************************************)
(* internal/api/transport: Client.Do, the retry loop every request of the  *)
(* provider goes through, with the network and the server it talks to.     *)
(*                                                                         *)
(* The calls are those one resource makes over its life, in program order: *)
(* a call starts when the ones before it have returned.  The network may   *)
(* lose a request or deliver it after the client gave up on it; the server *)
(* may carry a request out and have its answer lost or unreadable.         *)
(***************************************************************************)
EXTENDS Integers

CONSTANTS
    NCalls,         \* how many calls the resource makes
    ConfigAttempts, \* Config.Attempts, which the schema does not bound
    Statuses,       \* the HTTP statuses the server may answer with
    Decoding        \* the calls that pass a non-nil out, and so decode a body

Calls == 1 .. NCalls

ASSUME NCallsAssumption == NCalls \in Nat
ASSUME ConfigAttemptsAssumption == ConfigAttempts \in Int
ASSUME StatusesAssumption == Statuses \subseteq 200 .. 599
ASSUME DecodingAssumption == Decoding \subseteq Calls

VARIABLES
    pc,         \* pc[c]: where Do is for call c
    attempt,    \* attempt[c]: the loop variable of Do
    ctxDone,    \* ctxDone[c]: the context of the call has been cancelled
    answer,     \* answer[c]: the response that reached the client, if any
    result,     \* result[c]: what Do returned
    requests,   \* requests on the wire or held by the server
    applied,    \* requests the server carried out
    abandoned,  \* history: requests sent and given up on without an answer
    value       \* what the server holds: the last call carried out, 0 if none

clientVars == <<pc, attempt, ctxDone, answer, result>>
serverVars == <<requests, applied, value>>
vars == <<pc, attempt, ctxDone, answer, result, requests, applied, abandoned, value>>

\* Seeded fault: the default is not applied.
AttemptsAsConfigured == IF ConfigAttempts <= 0 THEN 0 ELSE ConfigAttempts

\* New: attempts per call, the first one included.
DefaultAttempts == 5
Attempts == IF ConfigAttempts <= 0 THEN DefaultAttempts ELSE ConfigAttempts

Tries == 0 .. Attempts - 1
Request == [call : Calls, attempt : Tries]
Answer == [status : Statuses, readable : BOOLEAN]

\* Distinguished answer: nothing has come back yet.
NoAnswer == [status |-> 0, readable |-> FALSE]

\* Do returns nil, a typed *APIError, another error, or the context's error.
Result == [kind : {"none", "ok", "api", "other", "context"}, status : Statuses \cup {0}]
NoResult == [kind |-> "none", status |-> 0]
Ok == [kind |-> "ok", status |-> 0]
ApiError(status) == [kind |-> "api", status |-> status]
OtherError == [kind |-> "other", status |-> 0]
ContextError == [kind |-> "context", status |-> 0]

TypeOK ==
    /\ pc \in [Calls -> {"idle", "ready", "inflight", "sleeping", "done"}]
    /\ attempt \in [Calls -> Tries]
    /\ ctxDone \in [Calls -> BOOLEAN]
    /\ answer \in [Calls -> Answer \cup {NoAnswer}]
    /\ result \in [Calls -> Result]
    /\ requests \subseteq Request
    /\ applied \subseteq Request
    /\ abandoned \subseteq Request
    /\ value \in Calls \cup {0}

Init ==
    /\ pc = [c \in Calls |-> "idle"]
    /\ attempt = [c \in Calls |-> 0]
    /\ ctxDone = [c \in Calls |-> FALSE]
    /\ answer = [c \in Calls |-> NoAnswer]
    /\ result = [c \in Calls |-> NoResult]
    /\ requests = {}
    /\ applied = {}
    /\ abandoned = {}
    /\ value = 0

-----------------------------------------------------------------------------
(***************************************************************************)
(* The client.                                                             *)
(***************************************************************************)

Current(c) == [call |-> c, attempt |-> attempt[c]]

\* Seeded fault: a server error is final as well.
RetryableRateLimitOnly(status) == status = 429

\* APIError.Retryable
Retryable(status) == status >= 500 \/ status = 429

Successful(status) == status >= 200 /\ status < 300

\* Seeded fault: whatever can be read is a success.
JudgeByBody(c, a) ==
    IF c \notin Decoding \/ a.readable THEN Ok ELSE OtherError

\* The tail of Client.attempt: the status first, then the body if one is wanted.
Judge(c, a) ==
    CASE ~Successful(a.status) -> ApiError(a.status)
      [] Successful(a.status) /\ (c \notin Decoding \/ a.status = 204 \/ a.readable) -> Ok
      [] OTHER -> OtherError

\* An answer that ends the call: success, or an APIError that is not retryable.
Final(r) == r.kind = "ok" \/ (r.kind = "api" /\ ~Retryable(r.status))

\* Seeded fault: off by one.
ExhaustedLate(c) == attempt[c] >= Attempts

\* The loop's last attempt has been made.
Exhausted(c) == attempt[c] + 1 >= Attempts

Return(c, r) ==
    /\ pc' = [pc EXCEPT ![c] = "done"]
    /\ result' = [result EXCEPT ![c] = r]
    /\ UNCHANGED attempt

\* Seeded fault: the context is not looked at after an attempt.
AttemptEndsUncancelled(c, r) ==
    /\ answer' = [answer EXCEPT ![c] = NoAnswer]
    /\ IF Final(r) \/ Exhausted(c)
       THEN Return(c, r)
       ELSE /\ pc' = [pc EXCEPT ![c] = "sleeping"]
            /\ attempt' = [attempt EXCEPT ![c] = @ + 1]
            /\ UNCHANGED result

\* Seeded fault: the loop variable is not incremented.
AttemptEndsInPlace(c, r) ==
    /\ answer' = [answer EXCEPT ![c] = NoAnswer]
    /\ IF Final(r) \/ ctxDone[c] \/ Exhausted(c)
       THEN Return(c, r)
       ELSE /\ pc' = [pc EXCEPT ![c] = "sleeping"]
            /\ UNCHANGED <<attempt, result>>

\* What Do makes of the error, or the nil, one attempt returned.
AttemptEnds(c, r) ==
    /\ answer' = [answer EXCEPT ![c] = NoAnswer]
    /\ IF Final(r) \/ ctxDone[c] \/ Exhausted(c)
       THEN Return(c, r)
       ELSE /\ pc' = [pc EXCEPT ![c] = "sleeping"]
            /\ attempt' = [attempt EXCEPT ![c] = @ + 1]
            /\ UNCHANGED result

\* Seeded fault: a call does not wait for the ones before it.
BeginConcurrently(c) ==
    /\ pc[c] = "idle"
    /\ pc' = [pc EXCEPT ![c] = "ready"]
    /\ UNCHANGED <<attempt, ctxDone, answer, result, requests, applied, abandoned, value>>

\* The resource calls Do; its earlier calls have returned.
Begin(c) ==
    /\ pc[c] = "idle"
    /\ \A d \in Calls : d < c => pc[d] = "done"
    /\ IF 0 < Attempts
       THEN pc' = [pc EXCEPT ![c] = "ready"] /\ UNCHANGED <<attempt, result>>
       ELSE Return(c, Ok)    \* the loop body never runs and lastErr is nil
    /\ UNCHANGED <<ctxDone, answer, requests, applied, abandoned, value>>

Send(c) ==
    /\ pc[c] = "ready"
    /\ ~ctxDone[c]
    /\ pc' = [pc EXCEPT ![c] = "inflight"]
    /\ requests' = requests \cup {Current(c)}
    /\ UNCHANGED <<attempt, ctxDone, answer, result, applied, abandoned, value>>

\* The request cannot be built or the connection cannot be opened, or the
\* context was cancelled first: the attempt fails with nothing sent.
FailBeforeSend(c) ==
    /\ pc[c] = "ready"
    /\ AttemptEnds(c, OtherError)
    /\ UNCHANGED <<ctxDone, requests, applied, abandoned, value>>

\* The per-attempt timeout, a broken connection or a cancelled context ends
\* the attempt with no answer; the request may still be at the server.
GiveUp(c) ==
    /\ pc[c] = "inflight"
    /\ AttemptEnds(c, OtherError)
    /\ abandoned' = abandoned \cup {Current(c)}
    /\ UNCHANGED <<ctxDone, requests, applied, value>>

Receive(c) ==
    /\ pc[c] = "inflight"
    /\ answer[c] # NoAnswer
    /\ AttemptEnds(c, Judge(c, answer[c]))
    /\ UNCHANGED <<ctxDone, requests, applied, abandoned, value>>

\* sleepBackoff: the timer fires.  Both channels of the select may be ready.
Wake(c) ==
    /\ pc[c] = "sleeping"
    /\ pc' = [pc EXCEPT ![c] = "ready"]
    /\ UNCHANGED <<attempt, ctxDone, answer, result, requests, applied, abandoned, value>>

\* sleepBackoff: the context is done.
SleepCancelled(c) ==
    /\ pc[c] = "sleeping"
    /\ ctxDone[c]
    /\ Return(c, ContextError)
    /\ UNCHANGED <<ctxDone, answer, requests, applied, abandoned, value>>

ClientStep(c) ==
    Send(c) \/ FailBeforeSend(c) \/ GiveUp(c) \/ Receive(c) \/ Wake(c) \/ SleepCancelled(c)

-----------------------------------------------------------------------------
(***************************************************************************)
(* The environment: Terraform cancelling the operation, the network, and   *)
(* the server, none of which is code of the repository.                    *)
(***************************************************************************)

Cancel(c) ==
    /\ pc[c] \in {"ready", "inflight", "sleeping"}
    /\ ctxDone' = [ctxDone EXCEPT ![c] = TRUE]
    /\ UNCHANGED <<pc, attempt, answer, result, requests, applied, abandoned, value>>

Lose(r) ==
    /\ requests' = requests \ {r}
    /\ UNCHANGED <<pc, attempt, ctxDone, answer, result, applied, abandoned, value>>

\* A success is answered once the change is made and a refusal makes none.
\* A server error says nothing: a front end may answer 502 for a request the
\* server behind it carries out.
Truthful(status, effective) ==
    /\ Successful(status) => effective
    /\ ~Successful(status) /\ status < 500 => ~effective

\* The answer of the server reaches the client only while it waits for it.
Handle(r, a, effective) ==
    /\ requests' = requests \ {r}
    /\ applied' = IF effective THEN applied \cup {r} ELSE applied
    /\ value' = IF effective THEN r.call ELSE value
    /\ answer' = IF pc[r.call] = "inflight" /\ r = Current(r.call)
                 THEN [answer EXCEPT ![r.call] = a] ELSE answer
    /\ UNCHANGED <<pc, attempt, ctxDone, result, abandoned>>

ServerStep(r) ==
    \/ Lose(r)
    \/ \E a \in Answer, effective \in BOOLEAN :
          Truthful(a.status, effective) /\ Handle(r, a, effective)

Next ==
    \/ \E c \in Calls : Begin(c) \/ ClientStep(c) \/ Cancel(c)
    \/ \E r \in requests : ServerStep(r)

\* The timers of the client always fire, so a call that is under way always
\* has a step to take; neither the server nor the network owes anything.
Fairness == \A c \in Calls : WF_vars(ClientStep(c))

Spec == Init /\ [][Next]_vars
FairSpec == Spec /\ Fairness

-----------------------------------------------------------------------------
(***************************************************************************)
(* Properties.                                                             *)
(***************************************************************************)

\* A nil error means that the attempt the call ended with was carried out: a
\* refusal or a lost request never comes back as success, whatever number of
\* attempts was configured.
OkMeansApplied == \A c \in Calls : result[c].kind = "ok" => Current(c) \in applied

\* An answer that is not worth retrying is conclusive when it answers the
\* first attempt: the call changed nothing and never will.  (After a retry it
\* is not: an earlier attempt may have been the one that took effect.)
RefusalIsConclusive ==
    \A c \in Calls :
        /\ result[c].kind = "api"
        /\ ~Retryable(result[c].status)
        /\ attempt[c] = 0
        => \A r \in requests \cup applied : r.call # c

\* A call that succeeded is overwritten by an earlier one only through an
\* attempt the client gave up on without an answer.
StaleWriteNeedsAbandonedAttempt ==
    \A c \in Calls :
        result[c].kind = "ok" =>
            \/ value >= c
            \/ \E r \in abandoned : r.call = value

\* Once the context is done the call never goes back to waiting for a retry.
CancelIsPrompt ==
    [][\A c \in Calls :
          ctxDone[c] /\ pc[c] # "sleeping" => pc'[c] # "sleeping"]_vars

\* Whatever the server and the network do, a call that was begun returns.
EveryCallReturns == \A c \in Calls : pc[c] = "ready" ~> pc[c] = "done"

\* The client keeps the promise its callers rely on.
Phase(c) == CASE pc[c] = "idle" -> "idle" [] pc[c] = "done" -> "returned" [] OTHER -> "open"
Effects(c) == {a \in Tries : [call |-> c, attempt |-> a] \in applied}
Outcome(c) == CASE result[c].kind = "none" -> "none" [] result[c].kind = "ok" -> "ok" [] OTHER -> "error"

Promise == INSTANCE ApiCall WITH
    phase <- [c \in Calls |-> Phase(c)],
    effects <- [c \in Calls |-> Effects(c)],
    outcome <- [c \in Calls |-> Outcome(c)]

Contract == Promise!Spec
=============================================================================
