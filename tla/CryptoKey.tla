----------------------------- MODULE CryptoKey -----------------------------
(***************************************************************************)
(* powerdns_zone_cryptokey: the resources that hold the DNSSEC keys of one *)
(* zone, under Terraform runs that refresh every resource, plan it, and    *)
(* then apply the plans in any order.                                      *)
(*                                                                         *)
(* An API call is one step of its resource.  What the step may do is what  *)
(* ApiCall promises of a call: it may fail with or without having taken    *)
(* effect, take effect once more because it was retried, or take effect    *)
(* after it was given up on.  Each of those costs one of MaxFaults.        *)
(*                                                                         *)
(* `active` stands for the pair active and published, which every          *)
(* operation treats alike; algorithm and bits only ever force replacement, *)
(* as the key type does, and are left out.                                 *)
(***************************************************************************)
EXTENDS Integers, FiniteSets

CONSTANTS
    Resources,  \* the powerdns_zone_cryptokey blocks of the zone
    Types,      \* the key types a configuration may ask for
    MaxFaults,  \* bound: faulty API calls
    MaxEdits    \* bound: changes made outside the provider

ASSUME TypesAssumption == Types \subseteq {"ksk", "zsk", "csk"}
ASSUME BoundsAssumption == MaxFaults \in Nat /\ MaxEdits \in Nat

VARIABLES
    config,     \* config[r]: the block of r, or Absent
    state,      \* state[r]: what Terraform remembers of r, or None
    plan,       \* plan[r]: what the current run is to do for r
    step,       \* step[r]: the next API call of r in the current run
    target,     \* target[r]: the key the call under way is about
    zone,       \* the zone exists
    keys,       \* the keys the zone holds, by id
    nextId,     \* the id the server gives the next key
    late,       \* requests given up on that the server may still carry out
    faults,     \* faulty calls so far
    edits       \* outside changes so far

serverVars == <<zone, keys, nextId, late>>
vars == <<config, state, plan, step, target, zone, keys, nextId, late, faults, edits>>

Flags == {"ksk", "zsk"}
Key == [flags : Flags, active : BOOLEAN]
Block == [type : Types, active : BOOLEAN]
Absent == [type |-> "none", active |-> FALSE]
Entry == [id : Nat \ {0}, type : Types \cup Flags \cup {"csk"}, active : BOOLEAN, ds : BOOLEAN]
None == [id |-> 0, type |-> "none", active |-> FALSE, ds |-> FALSE]
Steps == {"rest", "refresh", "create", "update", "delete", "replace", "confirm"}

\* The values a plan fixes and the server is told of or is to read back.
Values == [type : Types \cup Flags \cup {"csk", "none"}, active : BOOLEAN]
NoValues == [type |-> "none", active |-> FALSE]

Late ==
    [op : {"create"}, key : Key]
    \cup [op : {"update"}, id : Nat, active : BOOLEAN]
    \cup [op : {"delete"}, id : Nat]

TypeOK ==
    /\ config \in [Resources -> Block \cup {Absent}]
    /\ state \in [Resources -> Entry \cup {None}]
    /\ plan \in [Resources -> Values]
    /\ step \in [Resources -> Steps]
    /\ target \in [Resources -> Nat]
    /\ zone \in BOOLEAN
    /\ nextId \in Nat \ {0}
    /\ DOMAIN keys \subseteq 1 .. nextId - 1
    /\ \A k \in DOMAIN keys : keys[k] \in Key
    /\ \A q \in late : q \in Late
    /\ faults \in 0 .. MaxFaults
    /\ edits \in 0 .. MaxEdits

\* A configuration that has not been applied yet, and a zone with no keys.
Init ==
    /\ config \in [Resources -> Block \cup {Absent}]
    /\ state = [r \in Resources |-> None]
    /\ plan = [r \in Resources |-> NoValues]
    /\ step = [r \in Resources |-> "rest"]
    /\ target = [r \in Resources |-> 0]
    /\ zone = TRUE
    /\ keys = [k \in {} |-> Absent]
    /\ nextId = 1
    /\ late = {}
    /\ faults = 0
    /\ edits = 0

-----------------------------------------------------------------------------
(***************************************************************************)
(* The server: what it stores and what it derives.                         *)
(***************************************************************************)

\* The flags a key is created with.
FlagsOf(type) == IF type = "zsk" THEN "zsk" ELSE "ksk"

\* The type read back: a key that is alone in its zone is a csk.
KeyType(k) == IF DOMAIN keys = {k} THEN "csk" ELSE keys[k].flags

\* A zone-signing key has no delegation signer beside a key-signing key.
HasDS(k) == keys[k].flags = "zsk" => \A j \in DOMAIN keys : keys[j].flags = "zsk"

Added(ids, key) == [k \in DOMAIN keys \cup ids |-> IF k \in ids THEN key ELSE keys[k]]
Removed(ids) == [k \in DOMAIN keys \ ids |-> keys[k]]
Changed(id, active) ==
    [k \in DOMAIN keys |-> IF k = id THEN [keys[k] EXCEPT !.active = active] ELSE keys[k]]

\* POST, carried out n times; a zone that is gone makes it a refusal.
ServeCreate(n, key) ==
    /\ keys' = IF zone THEN Added(nextId .. nextId + n - 1, key) ELSE keys
    /\ nextId' = IF zone THEN nextId + n ELSE nextId
    /\ UNCHANGED zone

ServeUpdate(id, active) == keys' = Changed(id, active) /\ UNCHANGED <<zone, nextId>>
ServeDelete(id) == keys' = Removed({id}) /\ UNCHANGED <<zone, nextId>>

Fault == faults < MaxFaults /\ faults' = faults + 1
NoFault == UNCHANGED faults

-----------------------------------------------------------------------------
(***************************************************************************)
(* Planning.                                                               *)
(***************************************************************************)

\* Seeded fault: the types are compared literally.
DNSSECKeyTypeLiteral(configured, actual) == configured = actual

\* normalise.DNSSECKeyType
DNSSECKeyType(configured, actual) ==
    configured = actual \/ configured = "csk" \/ actual = "csk"

\* Seeded fault: the modifier keeps the state whatever it says.
PlannedTypeKept(c, s) == s.type

\* The plan modifiers of key_type: what is planned, and whether r is replaced.
PlannedType(c, s) == IF DNSSECKeyType(c.type, s.type) THEN s.type ELSE c.type
RequiresReplace(c, s) == PlannedType(c, s) # s.type

\* Seeded fault: a replacement that creates and never destroys.
ActionCreateOnly(c, s) ==
    CASE c = Absent /\ s = None -> "rest"
      [] c = Absent /\ s # None -> "delete"
      [] c # Absent /\ s = None -> "create"
      [] OTHER -> IF RequiresReplace(c, s) THEN "create"
                  ELSE IF c.active # s.active THEN "update" ELSE "rest"

\* What the run does next for a block c whose refreshed entry is s.
Action(c, s) ==
    CASE c = Absent /\ s = None -> "rest"
      [] c = Absent /\ s # None -> "delete"
      [] c # Absent /\ s = None -> "create"
      [] OTHER -> IF RequiresReplace(c, s) THEN "replace"
                  ELSE IF c.active # s.active THEN "update" ELSE "rest"

\* What Create or Update is given.
Planned(c, s) ==
    IF Action(c, s) \in {"rest", "delete"} THEN NoValues
    ELSE [type |-> IF s = None THEN c.type ELSE PlannedType(c, s),
          active |-> c.active]

Resting == \A r \in Resources : step[r] = "rest"
Applying == \A r \in Resources : step[r] # "refresh"

StartRun ==
    /\ Resting
    /\ step' = [r \in Resources |-> "refresh"]
    /\ UNCHANGED <<config, state, plan, target, serverVars, faults, edits>>

-----------------------------------------------------------------------------
(***************************************************************************)
(* The operations of the resource.                                         *)
(***************************************************************************)

\* readInto after a read takes every attribute from the collection.
Observed(k) == [id |-> k, type |-> KeyType(k), active |-> keys[k].active, ds |-> HasDS(k)]

\* Seeded fault: the key id is not carried over to the new state.
WrittenWithoutId(r, k) == [Observed(k) EXCEPT !.id = 0]

\* Seeded fault: the newest key of the collection is taken for the one written.
WrittenNewest(r, k) ==
    LET newest == CHOOSE n \in DOMAIN keys : \A m \in DOMAIN keys : m <= n
    IN  [Observed(newest) EXCEPT !.type = plan[r].type, !.active = plan[r].active]

\* readInto after a write keeps what was planned for type and active.
Written(r, k) ==
    [id |-> k, type |-> plan[r].type, active |-> plan[r].active, ds |-> HasDS(k)]

\* What Read leaves in the state: an error of the list call, whatever it is,
\* takes the marker that removes the resource.
Refreshed(r, listed) ==
    IF listed /\ state[r].id \in DOMAIN keys THEN Observed(state[r].id) ELSE None

Read(r) ==
    /\ step[r] = "refresh"
    /\ \E listed \in BOOLEAN :
          LET s == IF state[r] = None THEN None ELSE Refreshed(r, listed)
          IN  /\ IF listed THEN NoFault ELSE Fault /\ state[r] # None
              /\ state' = [state EXCEPT ![r] = s]
              /\ step' = [step EXCEPT ![r] = Action(config[r], s)]
              /\ plan' = [plan EXCEPT ![r] = Planned(config[r], s)]
    /\ UNCHANGED <<config, target, serverVars, edits>>

\* The call of r was answered: go on to the read that follows it.
Proceed(r, k) ==
    /\ step' = [step EXCEPT ![r] = "confirm"]
    /\ target' = [target EXCEPT ![r] = k]
    /\ UNCHANGED <<state, plan>>

\* The run is done with r.
Finish(r) ==
    /\ step' = [step EXCEPT ![r] = "rest"]
    /\ target' = [target EXCEPT ![r] = 0]
    /\ plan' = [plan EXCEPT ![r] = NoValues]

\* Seeded fault: any error is taken to mean that the key is gone.
FailForgets(r) == Finish(r) /\ state' = [state EXCEPT ![r] = None]

\* The operation of r ended with an error: Terraform keeps the state it had.
Fail(r) == Finish(r) /\ UNCHANGED state

\* A success of a call, at once or after attempts that were given up on; one of
\* those may be under way still.
Answered(request) ==
    \/ NoFault /\ UNCHANGED late
    \/ Fault /\ late' = late \cup {request}

\* An error of a call: it took no effect, took effect, or will do so later.
Lost(request, Serve) ==
    /\ Fault
    /\ \/ UNCHANGED serverVars
       \/ Serve /\ UNCHANGED late
       \/ late' = late \cup {request} /\ UNCHANGED <<zone, keys, nextId>>

\* The key POST asks for.
NewKey(r) == [flags |-> FlagsOf(plan[r].type), active |-> plan[r].active]

\* Create, up to the answer of POST.  A retried POST makes a second key, at once
\* or later.
Create(r) ==
    LET request == [op |-> "create", key |-> NewKey(r)] IN
    /\ step[r] = "create"
    /\ Applying
    /\ \/ /\ zone
          /\ \E n \in {1, 2} :
                /\ IF n = 1 THEN Answered(request) ELSE Fault /\ UNCHANGED late
                /\ ServeCreate(n, NewKey(r))
                /\ Proceed(r, nextId + n - 1)
       \/ ~zone /\ Fail(r) /\ NoFault /\ UNCHANGED serverVars
       \/ Fail(r) /\ Lost(request, ServeCreate(1, NewKey(r)))
    /\ UNCHANGED <<config, edits>>

\* Update, up to the answer of PUT.
Update(r) ==
    LET id == state[r].id
        active == plan[r].active
        request == [op |-> "update", id |-> id, active |-> active]
    IN
    /\ step[r] = "update"
    /\ Applying
    /\ \/ id \in DOMAIN keys /\ ServeUpdate(id, active) /\ Proceed(r, id) /\ Answered(request)
       \/ id \notin DOMAIN keys /\ Fail(r) /\ NoFault /\ UNCHANGED serverVars
       \/ Fail(r) /\ Lost(request, ServeUpdate(id, active))
    /\ UNCHANGED <<config, edits>>

\* The tail of Create and Update: the list call and State.Set.
Confirm(r) ==
    /\ step[r] = "confirm"
    /\ \/ /\ target[r] \in DOMAIN keys
          /\ state' = [state EXCEPT ![r] = Written(r, target[r])]
          /\ Finish(r)
          /\ NoFault
       \/ target[r] \notin DOMAIN keys /\ Fail(r) /\ NoFault
       \/ Fail(r) /\ Fault
    /\ UNCHANGED <<config, serverVars, edits>>

\* Delete, on its own or as the first half of a replacement.  A key that is
\* not there any more (404) counts as deleted.
Delete(r) ==
    LET id == state[r].id
        request == [op |-> "delete", id |-> id]
    IN
    /\ step[r] \in {"delete", "replace"}
    /\ Applying
    /\ \/ /\ ServeDelete(id)
          /\ state' = [state EXCEPT ![r] = None]
          /\ IF step[r] = "replace"
             THEN step' = [step EXCEPT ![r] = "create"] /\ UNCHANGED <<plan, target>>
             ELSE Finish(r)
          /\ Answered(request)
       \/ Fail(r) /\ Lost(request, ServeDelete(id))
    /\ UNCHANGED <<config, edits>>

\* ImportState and the Read that Terraform makes of what it imported.  A key
\* is imported under one address only.
Import(r) ==
    /\ Resting
    /\ config[r] # Absent /\ state[r] = None
    /\ edits < MaxEdits /\ edits' = edits + 1
    /\ \E k \in DOMAIN keys \ {state[s].id : s \in Resources} :
          state' = [state EXCEPT ![r] = Observed(k)]
    /\ UNCHANGED <<config, plan, step, target, serverVars, faults>>

-----------------------------------------------------------------------------
(***************************************************************************)
(* The environment.                                                        *)
(***************************************************************************)

\* The operator edits the configuration between two runs.
Edit(r) ==
    /\ Resting
    /\ edits < MaxEdits /\ edits' = edits + 1
    /\ \E c \in Block \cup {Absent} : c # config[r] /\ config' = [config EXCEPT ![r] = c]
    /\ UNCHANGED <<state, plan, step, target, serverVars, faults>>

\* Somebody else deletes a key, or the zone with all its keys.
Drop ==
    /\ edits < MaxEdits /\ edits' = edits + 1
    /\ \/ \E k \in DOMAIN keys : keys' = Removed({k}) /\ UNCHANGED zone
       \/ zone /\ zone' = FALSE /\ keys' = Removed(DOMAIN keys)
    /\ UNCHANGED <<config, state, plan, step, target, nextId, late, faults>>

\* The server carries out a request its client has given up on.
Deliver(q) ==
    /\ CASE q.op = "create" -> ServeCreate(1, q.key)
         [] q.op = "update" -> ServeUpdate(q.id, q.active)
         [] q.op = "delete" -> ServeDelete(q.id)
    /\ late' = late \ {q}
    /\ UNCHANGED <<config, state, plan, step, target, faults, edits>>

Operate(r) == Read(r) \/ Create(r) \/ Update(r) \/ Delete(r) \/ Confirm(r)

Next ==
    \/ StartRun
    \/ \E r \in Resources : Operate(r) \/ Import(r) \/ Edit(r)
    \/ Drop
    \/ \E q \in late : Deliver(q)

\* Every call returns, and the configuration is applied again and again.
Fairness ==
    /\ WF_vars(StartRun)
    /\ \A r \in Resources : WF_vars(Operate(r))

Spec == Init /\ [][Next]_vars
FairSpec == Spec /\ Fairness

-----------------------------------------------------------------------------
(***************************************************************************)
(* Properties.                                                             *)
(***************************************************************************)

Owned == {state[r].id : r \in Resources} \ {0}

\* Two resources never manage the same key: one of them would deactivate or
\* destroy a key that the other reports as its own.
SeparateKeys ==
    \A r, s \in Resources : r # s /\ state[r] # None => state[r].id # state[s].id

\* A fault leaks at most one key: between runs, the keys no resource manages
\* are no more than the calls that went wrong.
LeakBounded == Resting => Cardinality(DOMAIN keys \ Owned) <= faults

\* A resource that its block still describes.
Wanted(r, k) == config[r] # Absent /\ (config[r].type = "csk" \/ FlagsOf(config[r].type) = keys[k].flags)

\* A key is destroyed by the provider only when its block was removed or asks
\* for another type; above all, a second key does not destroy the first by
\* renaming it.
SigningKeySurvives ==
    [][edits' = edits =>
          \A k \in DOMAIN keys \ DOMAIN keys' :
              \/ [op |-> "delete", id |-> k] \in late
              \/ \E r \in Resources : state[r].id = k /\ ~Wanted(r, k)]_vars

\* An apply forgets a key only when the key is gone from the server.
ApplyForgetsOnlyGone ==
    [][\A r \in Resources :
          step[r] # "refresh" /\ state[r] # None /\ state'[r] = None
          => state[r].id \notin DOMAIN keys']_vars

\* What a run is to reach.
Converged ==
    \A r \in Resources :
        IF config[r] = Absent THEN state[r] = None
        ELSE /\ state[r].id \in DOMAIN keys
             /\ keys[state[r].id].active = config[r].active
             /\ DNSSECKeyType(config[r].type, KeyType(state[r].id))

\* No plan of the current run has anything to do.
Idle == \A r \in Resources : step[r] \in {"rest", "refresh"}

\* Once edits and faults stop, applying again reaches the configuration, and
\* from then on every plan is empty, whatever the faults left behind.
Converges == <>[](zone => Converged /\ Idle)

-----------------------------------------------------------------------------
(***************************************************************************)
(* What the comments of the code claim.                                    *)
(***************************************************************************)

\* readInto: only a key or a zone that is not there any more is dropped from
\* the state; "a real failure" is not.
StateKeptUnlessGone ==
    [][\A r \in Resources :
          step[r] = "refresh" /\ state[r] # None /\ state'[r] = None
          => state[r].id \notin DOMAIN keys]_vars
=============================================================================
