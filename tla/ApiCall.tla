------------------------------ MODULE ApiCall ------------------------------
(***************************************************************************)
(* What one call of the API client promises its caller, whatever the       *)
(* network and the server do: the contract every resource of the provider  *)
(* is written against.                                                     *)
(*                                                                         *)
(* A call takes effect on the server between zero and Attempts times, and  *)
(* may still take effect after it returned.  A call that returns without   *)
(* an error took effect at least once; nothing else follows from its       *)
(* result.  Module Transport is shown to implement this one.               *)
(***************************************************************************)
EXTENDS Naturals

CONSTANTS
    Calls,      \* the calls issued
    Attempts    \* the attempts of one call, the first one included

VARIABLES
    phase,      \* phase[c]: has the call been issued, has it returned
    effects,    \* effects[c]: which of its attempts took effect
    outcome     \* outcome[c]: what the caller was told

vars == <<phase, effects, outcome>>

\* The index of an attempt, counted from zero as the retry loop does.
Tries == 0 .. Attempts - 1

Init ==
    /\ phase = [c \in Calls |-> "idle"]
    /\ effects = [c \in Calls |-> {}]
    /\ outcome = [c \in Calls |-> "none"]

Invoke(c) ==
    /\ phase[c] = "idle"
    /\ phase' = [phase EXCEPT ![c] = "open"]
    /\ UNCHANGED <<effects, outcome>>

\* The server carries the call out once more.
Effect(c) ==
    /\ phase[c] # "idle"
    /\ \E a \in Tries \ effects[c] :
          effects' = [effects EXCEPT ![c] = @ \cup {a}]
    /\ UNCHANGED <<phase, outcome>>

ReturnOk(c) ==
    /\ phase[c] = "open"
    /\ effects[c] # {}
    /\ phase' = [phase EXCEPT ![c] = "returned"]
    /\ outcome' = [outcome EXCEPT ![c] = "ok"]
    /\ UNCHANGED effects

ReturnError(c) ==
    /\ phase[c] = "open"
    /\ phase' = [phase EXCEPT ![c] = "returned"]
    /\ outcome' = [outcome EXCEPT ![c] = "error"]
    /\ UNCHANGED effects

Next == \E c \in Calls : Invoke(c) \/ Effect(c) \/ ReturnOk(c) \/ ReturnError(c)

Spec == Init /\ [][Next]_vars
=============================================================================
