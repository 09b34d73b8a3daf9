--------------------------- MODULE CryptoKeyProofs ---------------------------
(***************************************************************************)
(* The keys of a zone are never mixed up, forgotten, destroyed or leaked,  *)
(* for every set of resources and types and every bound on faults and      *)
(* edits.                                                                  *)
(***************************************************************************)
EXTENDS CryptoKey, FiniteSetTheorems, TLAPS

(***************************************************************************)
(* The inductive invariant.                                                *)
(***************************************************************************)

\* What the next call of a resource is made from.  The type of a key that is
\* to be replaced was read in this run, and its flags never change.
StepOf(r) ==
    /\ step[r] \in {"create", "update", "replace", "confirm"} => plan[r].type # "none"
    /\ step[r] = "create" => state[r] = None
    /\ step[r] \in {"update", "delete", "replace"} => state[r] # None
    /\ step[r] = "delete" => config[r] = Absent
    /\ step[r] = "replace" /\ state[r].id \in DOMAIN keys =>
          config[r].type # "csk" /\ FlagsOf(config[r].type) # keys[state[r].id].flags
    /\ step[r] = "confirm" =>
          target[r] \in 1 .. nextId - 1 /\ (state[r] = None \/ state[r].id = target[r])

StepInv == \A r \in Resources : StepOf(r)

\* The keys a resource manages or is about to: the one it knows, and the one
\* it has just made or changed.
Held(r) ==
    {k \in Nat : \/ state[r] # None /\ k = state[r].id
                 \/ step[r] = "confirm" /\ k = target[r]}

HeldInv ==
    /\ \A r \in Resources : Held(r) \subseteq 1 .. nextId - 1
    /\ \A r, s \in Resources : r # s => Held(r) \cap Held(s) = {}

IInv == TypeOK /\ StepInv /\ HeldInv

-----------------------------------------------------------------------------
(***************************************************************************)
(* The server.                                                             *)
(***************************************************************************)

\* What the server may do in a step: ids grow, and the keys that stay keep
\* their flags.
Served ==
    /\ zone' \in BOOLEAN
    /\ nextId' \in Nat \ {0} /\ nextId <= nextId'
    /\ DOMAIN keys' \subseteq 1 .. nextId' - 1
    /\ \A k \in DOMAIN keys' :
          /\ keys'[k] \in Key
          /\ k < nextId => k \in DOMAIN keys /\ keys'[k].flags = keys[k].flags

LEMMA UnchangedIsServed == ASSUME TypeOK, UNCHANGED <<zone, keys, nextId>> PROVE Served
<1>1. \A k \in DOMAIN keys : k \in 1 .. nextId - 1 /\ keys[k] \in Key
  BY DEF TypeOK
<1>. QED  BY <1>1 DEF TypeOK, Served

LEMMA CreateIsServed ==
    ASSUME TypeOK, NEW n \in {1, 2}, NEW key \in Key, ServeCreate(n, key)
    PROVE  /\ Served /\ zone' = zone
           /\ zone => DOMAIN keys' = DOMAIN keys \cup (nextId .. nextId + n - 1) /\ nextId' = nextId + n
           /\ ~ zone => keys' = keys /\ nextId' = nextId
<1>1. /\ nextId \in Nat \ {0} /\ DOMAIN keys \subseteq 1 .. nextId - 1
      /\ \A k \in DOMAIN keys : keys[k] \in Key
  BY DEF TypeOK
<1>2. CASE ~ zone
  BY <1>2, UnchangedIsServed DEF ServeCreate
<1>3. CASE zone
  <2>. DEFINE ids == nextId .. nextId + n - 1
  <2>1. keys' = Added(ids, key) /\ nextId' = nextId + n /\ zone' = zone
    BY <1>3 DEF ServeCreate
  <2>2. /\ DOMAIN keys' = DOMAIN keys \cup ids
        /\ \A k \in DOMAIN keys' : keys'[k] = IF k \in ids THEN key ELSE keys[k]
    BY <2>1 DEF Added
  <2>3. \A k \in ids : k \in nextId .. nextId' - 1
    BY <2>1, <1>1
  <2>4. \A k \in DOMAIN keys' : k < nextId => k \in DOMAIN keys /\ k \notin ids
    BY <2>2, <1>1
  <2>5. DOMAIN keys' \subseteq 1 .. nextId' - 1
    BY <1>1, <2>1, <2>2, <2>3
  <2>6. zone' \in BOOLEAN
    BY <2>1 DEF TypeOK
  <2>. HIDE DEF ids
  <2>7. \A k \in DOMAIN keys' : keys'[k] \in Key
    BY <1>1, <2>2
  <2>8. Served
    BY <1>1, <2>1, <2>2, <2>4, <2>5, <2>6, <2>7 DEF Served
  <2>. QED  BY <1>3, <2>1, <2>2, <2>8 DEF ids
<1>. QED  BY <1>2, <1>3

LEMMA UpdateIsServed ==
    ASSUME TypeOK, NEW id, NEW active \in BOOLEAN, ServeUpdate(id, active)
    PROVE  Served /\ DOMAIN keys' = DOMAIN keys
<1>1. /\ nextId \in Nat \ {0} /\ DOMAIN keys \subseteq 1 .. nextId - 1 /\ zone \in BOOLEAN
      /\ \A k \in DOMAIN keys : keys[k] \in Key
  BY DEF TypeOK
<1>2. keys' = Changed(id, active) /\ zone' = zone /\ nextId' = nextId
  BY DEF ServeUpdate
<1>3. /\ DOMAIN keys' = DOMAIN keys
      /\ \A k \in DOMAIN keys :
            keys'[k] = IF k = id THEN [keys[k] EXCEPT !.active = active] ELSE keys[k]
  BY <1>2 DEF Changed
<1>4. \A k \in DOMAIN keys : keys'[k] \in Key /\ keys'[k].flags = keys[k].flags
  BY <1>1, <1>3 DEF Key
<1>. QED  BY <1>1, <1>2, <1>3, <1>4 DEF Served

\* Some keys go, by a DELETE or with the zone.
LEMMA RemovedIsServed ==
    ASSUME TypeOK, NEW ids, keys' = Removed(ids), nextId' = nextId, zone' \in BOOLEAN
    PROVE  Served /\ DOMAIN keys' = DOMAIN keys \ ids
<1>1. /\ nextId \in Nat \ {0} /\ DOMAIN keys \subseteq 1 .. nextId - 1
      /\ \A k \in DOMAIN keys : keys[k] \in Key
  BY DEF TypeOK
<1>2. DOMAIN keys' = DOMAIN keys \ ids /\ \A k \in DOMAIN keys' : keys'[k] = keys[k]
  BY DEF Removed
<1>. QED  BY <1>1, <1>2 DEF Served

LEMMA DeleteIsServed ==
    ASSUME TypeOK, NEW id, ServeDelete(id)
    PROVE  Served /\ DOMAIN keys' = DOMAIN keys \ {id}
<1>1. zone \in BOOLEAN
  BY DEF TypeOK
<1>. QED  BY <1>1, RemovedIsServed DEF ServeDelete

-----------------------------------------------------------------------------
(***************************************************************************)
(* The values handlers make.                                               *)
(***************************************************************************)

LEMMA NoneIsNothing == None \notin Entry /\ None.id = 0 /\ Absent.type = "none"
BY DEF None, Entry, Absent

LEMMA TypesAre ==
    /\ "none" \notin Types /\ Types \subseteq {"ksk", "zsk", "csk"}
    /\ \A t : FlagsOf(t) \in Flags
    /\ \A t \in Types : t # "csk" => FlagsOf(t) = t
BY TypesAssumption DEF FlagsOf, Flags

\* What is observed of a key, or written about it, is an entry of its id.
LEMMA ObservedIs ==
    ASSUME TypeOK, NEW k \in DOMAIN keys
    PROVE  /\ Observed(k) \in Entry /\ Observed(k).id = k
           /\ k \in Nat \ {0} /\ k < nextId
           /\ Observed(k).type \in {"csk", keys[k].flags}
<1>1. k \in 1 .. nextId - 1 /\ keys[k] \in Key /\ nextId \in Nat
  BY DEF TypeOK
<1>2. keys[k].flags \in Flags /\ keys[k].active \in BOOLEAN
  BY <1>1 DEF Key
<1>3. KeyType(k) \in {"csk", keys[k].flags}
  BY DEF KeyType
<1>4. HasDS(k) \in BOOLEAN
  BY DEF HasDS
<1>. QED  BY <1>1, <1>2, <1>3, <1>4 DEF Observed, Entry

LEMMA WrittenIs ==
    ASSUME TypeOK, NEW r \in Resources, plan[r].type # "none", NEW k \in Nat \ {0}
    PROVE  Written(r, k) \in Entry /\ Written(r, k).id = k
<1>1. plan[r] \in Values
  BY DEF TypeOK
<1>2. plan[r].type \in Types \cup Flags \cup {"csk"} /\ plan[r].active \in BOOLEAN
  BY <1>1 DEF Values
<1>3. HasDS(k) \in BOOLEAN
  BY DEF HasDS
<1>. QED  BY <1>2, <1>3 DEF Written, Entry

LEMMA NewKeyIsKey == ASSUME TypeOK, NEW r \in Resources PROVE NewKey(r) \in Key
<1>1. plan[r].active \in BOOLEAN
  BY DEF TypeOK, Values
<1>. QED  BY <1>1, TypesAre DEF NewKey, Key

\* A plan has the values its call needs, and a replacement is for a type that
\* is neither csk nor the one that was read.
LEMMA ActionIs ==
    ASSUME NEW c \in Block \cup {Absent}, NEW s \in Entry \cup {None}
    PROVE  /\ Action(c, s) \in Steps \ {"refresh", "confirm"}
           /\ Planned(c, s) \in Values
           /\ Action(c, s) \in {"create", "update", "replace"} => Planned(c, s).type # "none"
           /\ Action(c, s) = "create" => s = None
           /\ Action(c, s) \in {"update", "delete", "replace"} => s # None
           /\ Action(c, s) = "delete" => c = Absent
           /\ Action(c, s) = "replace" =>
                 c.type \in Types \ {"csk"} /\ s.type # "csk" /\ c.type # s.type
<1>1. NoValues \in Values
  BY DEF NoValues, Values
<1>2. c # Absent => c.type \in Types /\ c.active \in BOOLEAN /\ c.type # "none"
  BY TypesAre DEF Block
<1>3. s # None => s.type \in Types \cup Flags \cup {"csk"} /\ s.type # "none"
  BY TypesAre DEF Entry, Flags
<1>4. CASE c = Absent /\ s = None
  <2>1. Action(c, s) = "rest"
    BY <1>4 DEF Action
  <2>. QED  BY <1>1, <2>1 DEF Planned, Steps
<1>5. CASE c = Absent /\ s # None
  <2>1. Action(c, s) = "delete"
    BY <1>5 DEF Action
  <2>. QED  BY <1>1, <1>5, <2>1 DEF Planned, Steps
<1>6. CASE c # Absent /\ s = None
  <2>1. Action(c, s) = "create"
    BY <1>6 DEF Action
  <2>. QED  BY <1>2, <1>6, <2>1 DEF Planned, Steps, Values
<1>7. CASE c # Absent /\ s # None
  <2>1. Action(c, s) = IF RequiresReplace(c, s) THEN "replace"
                       ELSE IF c.active # s.active THEN "update" ELSE "rest"
    BY <1>7 DEF Action
  <2>2. PlannedType(c, s) \in {c.type, s.type}
    BY DEF PlannedType
  <2>3. Planned(c, s) = IF Action(c, s) \in {"rest", "delete"} THEN NoValues
                        ELSE [type |-> PlannedType(c, s), active |-> c.active]
    BY <1>7 DEF Planned
  <2>4. Planned(c, s) \in Values
    BY <1>1, <1>2, <1>3, <1>7, <2>2, <2>3 DEF Values
  <2>5. RequiresReplace(c, s) => s.type # "csk" /\ c.type # "csk" /\ c.type # s.type
    BY DEF RequiresReplace, PlannedType, DNSSECKeyType
  <2>. QED  BY <1>2, <1>3, <1>7, <2>1, <2>2, <2>3, <2>4, <2>5 DEF Steps
<1>. QED  BY <1>4, <1>5, <1>6, <1>7

-----------------------------------------------------------------------------
(***************************************************************************)
(* What keeps the invariant.                                               *)
(***************************************************************************)

Kept(s) == state'[s] = state[s] /\ plan'[s] = plan[s] /\ step'[s] = step[s] /\ target'[s] = target[s]

ResourcesTyped ==
    /\ state' \in [Resources -> Entry \cup {None}] /\ plan' \in [Resources -> Values]
    /\ step' \in [Resources -> Steps] /\ target' \in [Resources -> Nat]

RestTyped ==
    /\ \A q \in late' : q \in Late
    /\ faults' \in 0 .. MaxFaults /\ edits' \in 0 .. MaxEdits

\* The server may do anything under a resource that does nothing.
LEMMA KeptStepOf ==
    ASSUME IInv, Served, UNCHANGED config, NEW s \in Resources, Kept(s)
    PROVE  StepOf(s)' /\ Held(s)' = Held(s)
<1>1. nextId \in Nat \ {0} /\ nextId' \in Nat \ {0} /\ nextId <= nextId'
  BY DEF Served, IInv, TypeOK
<1>2. state[s] # None => state[s].id \in 1 .. nextId - 1
  <2>1. state[s] \in Entry \cup {None}
    BY DEF IInv, TypeOK
  <2>2. state[s] # None => state[s].id \in Nat
    BY <2>1 DEF Entry
  <2>3. state[s] # None => state[s].id \in Held(s)
    BY <2>2 DEF Held
  <2>. QED  BY <2>3 DEF IInv, HeldInv
<1>3. state[s] # None /\ state[s].id \in DOMAIN keys' =>
         state[s].id \in DOMAIN keys /\ keys'[state[s].id].flags = keys[state[s].id].flags
  BY <1>1, <1>2 DEF Served
<1>4. StepOf(s)
  BY DEF IInv, StepInv
<1>5. Held(s)' = Held(s)
  BY DEF Held, Kept
<1>6. step[s] = "confirm" => target[s] \in 1 .. nextId' - 1
  BY <1>1, <1>4 DEF StepOf
<1>. QED  BY <1>3, <1>4, <1>5, <1>6 DEF StepOf, Kept

\* A step of r keeps the invariant when it leaves r in order and gives r no
\* key but a new one.
LEMMA ResourceKeeps ==
    ASSUME IInv, Served, ResourcesTyped, RestTyped, UNCHANGED config,
           NEW r \in Resources, \A s \in Resources \ {r} : Kept(s),
           StepOf(r)',
           \A k \in Held(r)' : k \in Held(r) \/ k \in nextId .. nextId' - 1
    PROVE  IInv'
<1>1. nextId \in Nat \ {0} /\ nextId' \in Nat \ {0} /\ nextId <= nextId'
  BY DEF Served, IInv, TypeOK
<1>2. TypeOK'
  BY DEF IInv, TypeOK, Served, ResourcesTyped, RestTyped
<1>3. \A s \in Resources \ {r} : StepOf(s)' /\ Held(s)' = Held(s)
  BY KeptStepOf
<1>4. StepInv'
  BY <1>3 DEF StepInv
<1>5. \A s \in Resources : Held(s)' \subseteq 1 .. nextId' - 1
  BY <1>1, <1>3 DEF IInv, HeldInv
<1>6. \A s \in Resources : \A k \in Held(s) : k < nextId
  BY <1>1 DEF IInv, HeldInv
<1>7. \A s \in Resources \ {r} : Held(s)' \cap Held(r)' = {}
  <2>. SUFFICES ASSUME NEW s \in Resources \ {r}, NEW k, k \in Held(s)', k \in Held(r)' PROVE FALSE
    OBVIOUS
  <2>1. k \in Held(s) /\ k < nextId /\ k \in Nat
    BY <1>3, <1>6 DEF IInv, HeldInv, Held
  <2>2. \A j \in nextId .. nextId' - 1 : ~ (j < nextId)
    BY <1>1
  <2>. QED  BY <2>1, <2>2 DEF IInv, HeldInv
<1>8. \A s, t \in Resources : s # t => Held(s)' \cap Held(t)' = {}
  BY <1>3, <1>7 DEF IInv, HeldInv
<1>. QED  BY <1>2, <1>4, <1>5, <1>8 DEF IInv, HeldInv

\* The environment and the server move, the resources do not.
LEMMA ServerKeeps ==
    ASSUME IInv, Served, RestTyped, UNCHANGED <<config, state, plan, step, target>>
    PROVE  IInv'
<1>1. TypeOK'
  BY DEF IInv, TypeOK, Served, RestTyped
<1>2. \A s \in Resources : StepOf(s)' /\ Held(s)' = Held(s)
  BY KeptStepOf DEF Kept
<1>3. nextId \in Nat \ {0} /\ nextId' \in Nat \ {0} /\ nextId <= nextId'
  BY DEF Served, IInv, TypeOK
<1>. QED  BY <1>1, <1>2, <1>3 DEF IInv, HeldInv, StepInv

\* A step of r that is given as one new value for each of its variables.
LEMMA AssignKeeps ==
    ASSUME IInv, Served, RestTyped, UNCHANGED config, NEW r \in Resources,
           NEW e \in Entry \cup {None}, NEW p \in Values, NEW a \in Steps, NEW k \in Nat,
           state' = [state EXCEPT ![r] = e], plan' = [plan EXCEPT ![r] = p],
           step' = [step EXCEPT ![r] = a], target' = [target EXCEPT ![r] = k],
           StepOf(r)',
           \A j \in Held(r)' : j \in Held(r) \/ j \in nextId .. nextId' - 1
    PROVE  IInv'
<1>1. /\ state \in [Resources -> Entry \cup {None}] /\ plan \in [Resources -> Values]
      /\ step \in [Resources -> Steps] /\ target \in [Resources -> Nat]
  BY DEF IInv, TypeOK
<1>2. ResourcesTyped
  BY <1>1 DEF ResourcesTyped
<1>3. \A s \in Resources \ {r} : Kept(s)
  BY <1>1 DEF Kept
<1>. QED  BY <1>2, <1>3, ResourceKeeps

\* An operation that ends lets go of the key it was about.
LEMMA FinishKeeps ==
    ASSUME IInv, Served, RestTyped, UNCHANGED config, NEW r \in Resources, Finish(r),
           NEW e \in Entry \cup {None}, state' = [state EXCEPT ![r] = e],
           e # None => e.id \in Held(r)
    PROVE  IInv'
<1>1. /\ step' = [step EXCEPT ![r] = "rest"] /\ target' = [target EXCEPT ![r] = 0]
      /\ plan' = [plan EXCEPT ![r] = NoValues]
  BY DEF Finish
<1>2. step'[r] = "rest" /\ state'[r] = e
  BY <1>1 DEF IInv, TypeOK
<1>3. NoValues \in Values /\ "rest" \in Steps /\ 0 \in Nat
  BY DEF NoValues, Values, Steps
<1>4. StepOf(r)'
  BY <1>2 DEF StepOf
<1>5. \A j \in Held(r)' : j \in Held(r)
  BY <1>2 DEF Held
<1>. QED  BY <1>1, <1>3, <1>4, <1>5, AssignKeeps

LEMMA FailKeeps ==
    ASSUME IInv, Served, RestTyped, UNCHANGED config, NEW r \in Resources, Fail(r)
    PROVE  IInv'
<1>1. state \in [Resources -> Entry \cup {None}]
  BY DEF IInv, TypeOK
<1>2. state' = [state EXCEPT ![r] = state[r]]
  BY <1>1 DEF Fail
<1>3. state[r] # None => state[r].id \in Nat
  BY <1>1 DEF Entry
<1>4. state[r] # None => state[r].id \in Held(r)
  BY <1>3 DEF Held
<1>. QED  BY <1>1, <1>2, <1>4, FinishKeeps DEF Fail

\* A call of r that was answered for the key k goes on to the read of it.
LEMMA ProceedKeeps ==
    ASSUME IInv, Served, RestTyped, UNCHANGED config, NEW r \in Resources, NEW k, Proceed(r, k),
           plan[r].type # "none", k \in 1 .. nextId' - 1,
           state[r] = None \/ state[r].id = k,
           k \in Held(r) \/ k \in nextId .. nextId' - 1
    PROVE  IInv'
<1>1. /\ state \in [Resources -> Entry \cup {None}] /\ plan \in [Resources -> Values]
      /\ step \in [Resources -> Steps] /\ target \in [Resources -> Nat]
      /\ nextId' \in Nat
  BY DEF IInv, TypeOK, Served
<1>2. /\ step' = [step EXCEPT ![r] = "confirm"] /\ target' = [target EXCEPT ![r] = k]
      /\ state' = state /\ plan' = plan
  BY DEF Proceed
<1>3. step'[r] = "confirm" /\ target'[r] = k
  BY <1>1, <1>2
<1>4. StepOf(r)'
  BY <1>2, <1>3 DEF StepOf
<1>5. \A j \in Held(r)' : j \in Held(r) \/ j = k
  BY <1>2, <1>3 DEF Held
<1>6. state' = [state EXCEPT ![r] = state[r]] /\ plan' = [plan EXCEPT ![r] = plan[r]]
  BY <1>1, <1>2
<1>7. k \in Nat /\ "confirm" \in Steps
  BY <1>1 DEF Steps
<1>. QED  BY <1>1, <1>2, <1>4, <1>5, <1>6, <1>7, AssignKeeps

\* What a faulty call does to the server is what the request would have done,
\* now or later, or nothing.
LEMMA LostIsServed ==
    ASSUME IInv, NEW request \in Late,
           \/ UNCHANGED serverVars
           \/ Served /\ UNCHANGED late
           \/ late' = late \cup {request} /\ UNCHANGED <<zone, keys, nextId>>
    PROVE  Served /\ \A q \in late' : q \in Late
<1>1. TypeOK /\ \A q \in late : q \in Late
  BY DEF IInv, TypeOK
<1>2. CASE UNCHANGED <<zone, keys, nextId>> /\ late' \in {late, late \cup {request}}
  BY <1>1, <1>2, UnchangedIsServed
<1>3. CASE Served /\ UNCHANGED late
  BY <1>1, <1>3
<1>. QED  BY <1>2, <1>3 DEF serverVars

LEMMA CountsAre ==
    ASSUME TypeOK, Fault \/ NoFault, edits' = edits
    PROVE  faults' \in 0 .. MaxFaults /\ edits' \in 0 .. MaxEdits
BY BoundsAssumption DEF TypeOK, Fault, NoFault

\* A call that succeeded may have left an attempt under way, at the price of a
\* fault.
LEMMA AnsweredIs ==
    ASSUME TypeOK, NEW request \in Late, Answered(request)
    PROVE  /\ Fault \/ NoFault
           /\ \A q \in late' : q \in Late
BY DEF TypeOK, Answered

-----------------------------------------------------------------------------
(***************************************************************************)
(* Every step keeps the invariant.                                         *)
(***************************************************************************)

LEMMA InitEstablishes == Init => IInv
<1>. SUFFICES ASSUME Init PROVE IInv
  OBVIOUS
<1>1. NoValues \in Values
  BY DEF NoValues, Values
<1>2. TypeOK
  BY <1>1, BoundsAssumption DEF Init, TypeOK, Steps
<1>3. \A r \in Resources : Held(r) = {} /\ StepOf(r)
  BY DEF Init, Held, StepOf
<1>. QED  BY <1>2, <1>3 DEF IInv, StepInv, HeldInv

LEMMA StutterKeeps == IInv /\ UNCHANGED vars => IInv'
<1>. SUFFICES ASSUME IInv, UNCHANGED vars PROVE IInv'
  OBVIOUS
<1>1. TypeOK /\ UNCHANGED <<zone, keys, nextId, late, faults, edits, config, state, plan, step, target>>
  BY DEF IInv, vars, serverVars
<1>2. Served
  BY <1>1, UnchangedIsServed
<1>3. RestTyped
  BY <1>1 DEF TypeOK, RestTyped
<1>. QED  BY <1>1, <1>2, <1>3, ServerKeeps

LEMMA StartRunKeeps == IInv /\ StartRun => IInv'
<1>. SUFFICES ASSUME IInv, StartRun PROVE IInv'
  OBVIOUS
<1>1. TypeOK /\ UNCHANGED <<config, state, plan, target, zone, keys, nextId, late, faults, edits>>
      /\ step' = [r \in Resources |-> "refresh"]
  BY DEF IInv, StartRun, serverVars
<1>2. TypeOK'
  BY <1>1 DEF TypeOK, Steps
<1>3. \A r \in Resources : step'[r] = "refresh"
  BY <1>1
<1>4. \A r \in Resources : StepOf(r)'
  BY <1>3 DEF StepOf
<1>5. \A r \in Resources : Held(r)' \subseteq Held(r)
  BY <1>1, <1>3 DEF Held
<1>6. HeldInv'
  BY <1>1, <1>5 DEF IInv, HeldInv
<1>. QED  BY <1>2, <1>4, <1>6 DEF IInv, StepInv

LEMMA ReadKeeps == ASSUME NEW r \in Resources PROVE IInv /\ Read(r) => IInv'
<1>. SUFFICES ASSUME IInv, Read(r) PROVE IInv'
  OBVIOUS
<1>1. TypeOK /\ UNCHANGED <<config, target, zone, keys, nextId, late, edits>> /\ step[r] = "refresh"
  BY DEF IInv, Read, serverVars
<1>2. PICK listed \in BOOLEAN :
         LET s == IF state[r] = None THEN None ELSE Refreshed(r, listed)
         IN  /\ IF listed THEN NoFault ELSE Fault /\ state[r] # None
             /\ state' = [state EXCEPT ![r] = s]
             /\ step' = [step EXCEPT ![r] = Action(config[r], s)]
             /\ plan' = [plan EXCEPT ![r] = Planned(config[r], s)]
  BY DEF Read
<1>. DEFINE c == config[r]
            s == IF state[r] = None THEN None ELSE Refreshed(r, listed)
            a == Action(c, s)
            p == Planned(c, s)
<1>3. /\ state' = [state EXCEPT ![r] = s] /\ step' = [step EXCEPT ![r] = a]
      /\ plan' = [plan EXCEPT ![r] = p]
  BY <1>2
<1>4. /\ c \in Block \cup {Absent} /\ state[r] \in Entry \cup {None}
      /\ state \in [Resources -> Entry \cup {None}] /\ plan \in [Resources -> Values]
      /\ step \in [Resources -> Steps] /\ target \in [Resources -> Nat]
  BY <1>1 DEF TypeOK
<1>5. s = None \/ (state[r] # None /\ state[r].id \in DOMAIN keys /\ s = Observed(state[r].id))
  BY DEF Refreshed
<1>6. s # None => /\ s \in Entry /\ s.id = state[r].id /\ s.id \in DOMAIN keys /\ state[r] # None
                  /\ s.type \in {"csk", keys[s.id].flags}
  BY <1>1, <1>5, ObservedIs
<1>. HIDE DEF s
<1>7. s \in Entry \cup {None}
  BY <1>6
<1>8. /\ a \in Steps \ {"refresh", "confirm"} /\ p \in Values
      /\ a \in {"create", "update", "replace"} => p.type # "none"
      /\ a = "create" => s = None
      /\ a \in {"update", "delete", "replace"} => s # None
      /\ a = "delete" => c = Absent
      /\ a = "replace" => c.type \in Types \ {"csk"} /\ s.type # "csk" /\ c.type # s.type
  BY <1>4, <1>7, ActionIs
<1>. HIDE DEF a, p
<1>9. step'[r] = a /\ state'[r] = s /\ plan'[r] = p /\ config'[r] = c /\ keys' = keys
  BY <1>1, <1>3, <1>4
<1>10. a = "replace" => c.type # "csk" /\ FlagsOf(c.type) # keys[s.id].flags
  BY <1>6, <1>8, TypesAre
<1>11. StepOf(r)'
  BY <1>8, <1>9, <1>10 DEF StepOf
<1>12. \A j \in Held(r)' : j \in Held(r)
  BY <1>6, <1>8, <1>9 DEF Held
<1>13. target' = [target EXCEPT ![r] = target[r]] /\ target[r] \in Nat
  BY <1>1, <1>4
<1>14. Served
  BY <1>1, UnchangedIsServed
<1>15. RestTyped
  BY <1>1, <1>2, CountsAre DEF RestTyped, TypeOK
<1>. QED  BY <1>1, <1>3, <1>7, <1>8, <1>11, <1>12, <1>13, <1>14, <1>15, AssignKeeps

LEMMA CreateKeeps == ASSUME NEW r \in Resources PROVE IInv /\ Create(r) => IInv'
<1>. SUFFICES ASSUME IInv, Create(r) PROVE IInv'
  OBVIOUS
<1>. DEFINE key == NewKey(r)
            request == [op |-> "create", key |-> key]
<1>1. TypeOK /\ UNCHANGED <<config, edits>> /\ step[r] = "create"
  BY DEF IInv, Create
<1>2. plan[r].type # "none" /\ state[r] = None /\ nextId \in Nat \ {0}
      /\ \A q \in late : q \in Late
  BY <1>1 DEF IInv, StepInv, StepOf, TypeOK
<1>3. key \in Key /\ request \in Late
  BY <1>1, NewKeyIsKey DEF Late
<1>. HIDE DEF key
<1>4. \/ /\ zone
         /\ \E n \in {1, 2} : /\ IF n = 1 THEN Answered(request) ELSE Fault /\ UNCHANGED late
                              /\ ServeCreate(n, key) /\ Proceed(r, nextId + n - 1)
      \/ ~ zone /\ Fail(r) /\ NoFault /\ UNCHANGED serverVars
      \/ Fail(r) /\ Lost(request, ServeCreate(1, key))
  BY DEF Create, key
<1>a. Answered(request) => (Fault \/ NoFault) /\ \A q \in late' : q \in Late
  BY <1>1, <1>3, AnsweredIs
<1>5. RestTyped <=> \A q \in late' : q \in Late
  BY <1>1, <1>4, <1>a, CountsAre DEF RestTyped, Lost
<1>6. ASSUME zone, NEW n \in {1, 2}, ServeCreate(n, key), Proceed(r, nextId + n - 1),
             Answered(request) \/ UNCHANGED late
      PROVE  IInv'
  <2>1. Served /\ nextId' = nextId + n
    BY <1>1, <1>3, <1>6, CreateIsServed
  <2>2. nextId + n - 1 \in 1 .. nextId' - 1 /\ nextId + n - 1 \in nextId .. nextId' - 1
    BY <1>2, <2>1
  <2>3. RestTyped
    BY <1>2, <1>5, <1>6, <1>a
  <2>. QED  BY <1>1, <1>2, <1>6, <2>1, <2>2, <2>3, ProceedKeeps
<1>7. CASE Fail(r) /\ UNCHANGED serverVars
  <2>1. Served /\ RestTyped
    BY <1>1, <1>2, <1>5, <1>7, UnchangedIsServed DEF serverVars
  <2>. QED  BY <1>1, <1>7, <2>1, FailKeeps
<1>8. CASE Fail(r) /\ Lost(request, ServeCreate(1, key))
  <2>1. ServeCreate(1, key) => Served
    BY <1>1, <1>3, CreateIsServed
  <2>2. Served /\ \A q \in late' : q \in Late
    BY <1>3, <1>8, <2>1, LostIsServed DEF Lost
  <2>. QED  BY <1>1, <1>5, <1>8, <2>2, FailKeeps
<1>. QED  BY <1>4, <1>6, <1>7, <1>8

LEMMA UpdateKeeps == ASSUME NEW r \in Resources PROVE IInv /\ Update(r) => IInv'
<1>. SUFFICES ASSUME IInv, Update(r) PROVE IInv'
  OBVIOUS
<1>. DEFINE id == state[r].id
            active == plan[r].active
            request == [op |-> "update", id |-> id, active |-> active]
<1>1. TypeOK /\ UNCHANGED <<config, edits>> /\ step[r] = "update"
  BY DEF IInv, Update
<1>2. /\ plan[r].type # "none" /\ state[r] # None /\ nextId \in Nat \ {0}
      /\ \A q \in late : q \in Late
      /\ state[r] \in Entry /\ active \in BOOLEAN /\ DOMAIN keys \subseteq 1 .. nextId - 1
  BY <1>1 DEF IInv, StepInv, StepOf, TypeOK, Values
<1>3. id \in Nat /\ request \in Late
  BY <1>2 DEF Late, Entry
<1>4. id \in Held(r)
  BY <1>2, <1>3 DEF Held
<1>5. \/ /\ id \in DOMAIN keys /\ ServeUpdate(id, active) /\ Proceed(r, id)
         /\ Answered(request)
      \/ id \notin DOMAIN keys /\ Fail(r) /\ NoFault /\ UNCHANGED serverVars
      \/ Fail(r) /\ Lost(request, ServeUpdate(id, active))
  BY DEF Update
<1>. HIDE DEF active
<1>a. Answered(request) => (Fault \/ NoFault) /\ \A q \in late' : q \in Late
  BY <1>1, <1>3, AnsweredIs
<1>6. RestTyped <=> \A q \in late' : q \in Late
  BY <1>1, <1>5, <1>a, CountsAre DEF RestTyped, Lost
<1>7. ServeUpdate(id, active) => Served
  BY <1>1, <1>2, UpdateIsServed
<1>8. CASE id \in DOMAIN keys /\ ServeUpdate(id, active) /\ Proceed(r, id) /\ Answered(request)
  <2>1. nextId' = nextId
    BY <1>8 DEF ServeUpdate
  <2>2. RestTyped
    BY <1>6, <1>8, <1>a
  <2>3. id \in 1 .. nextId' - 1
    BY <1>2, <1>8, <2>1
  <2>. QED  BY <1>1, <1>2, <1>4, <1>7, <1>8, <2>2, <2>3, ProceedKeeps
<1>9. CASE Fail(r) /\ UNCHANGED serverVars
  <2>1. Served /\ RestTyped
    BY <1>1, <1>2, <1>6, <1>9, UnchangedIsServed DEF serverVars
  <2>. QED  BY <1>1, <1>9, <2>1, FailKeeps
<1>10. CASE Fail(r) /\ Lost(request, ServeUpdate(id, active))
  <2>1. Served /\ \A q \in late' : q \in Late
    BY <1>3, <1>7, <1>10, LostIsServed DEF Lost
  <2>. QED  BY <1>1, <1>6, <1>10, <2>1, FailKeeps
<1>. QED  BY <1>5, <1>8, <1>9, <1>10

LEMMA ConfirmKeeps == ASSUME NEW r \in Resources PROVE IInv /\ Confirm(r) => IInv'
<1>. SUFFICES ASSUME IInv, Confirm(r) PROVE IInv'
  OBVIOUS
<1>1. TypeOK /\ UNCHANGED <<config, zone, keys, nextId, late, edits>> /\ step[r] = "confirm"
  BY DEF IInv, Confirm, serverVars
<1>2. plan[r].type # "none" /\ target[r] \in Nat \ {0}
  BY <1>1 DEF IInv, StepInv, StepOf, TypeOK
<1>3. Served
  BY <1>1, UnchangedIsServed
<1>4. RestTyped
  BY <1>1, CountsAre DEF Confirm, RestTyped, TypeOK
<1>5. CASE state' = [state EXCEPT ![r] = Written(r, target[r])] /\ Finish(r)
  <2>1. Written(r, target[r]) \in Entry /\ Written(r, target[r]).id = target[r]
    BY <1>1, <1>2, WrittenIs
  <2>2. target[r] \in Held(r)
    BY <1>1, <1>2 DEF Held
  <2>. QED  BY <1>1, <1>3, <1>4, <1>5, <2>1, <2>2, FinishKeeps
<1>6. CASE Fail(r)
  BY <1>1, <1>3, <1>4, <1>6, FailKeeps
<1>. QED  BY <1>5, <1>6 DEF Confirm

LEMMA DeleteKeeps == ASSUME NEW r \in Resources PROVE IInv /\ Delete(r) => IInv'
<1>. SUFFICES ASSUME IInv, Delete(r) PROVE IInv'
  OBVIOUS
<1>. DEFINE id == state[r].id
            request == [op |-> "delete", id |-> id]
<1>1. TypeOK /\ UNCHANGED <<config, edits>> /\ step[r] \in {"delete", "replace"}
  BY DEF IInv, Delete
<1>2. /\ state[r] # None
      /\ step[r] = "replace" => plan[r].type # "none"
      /\ state[r] \in Entry /\ \A q \in late : q \in Late
      /\ state \in [Resources -> Entry \cup {None}] /\ plan \in [Resources -> Values]
      /\ step \in [Resources -> Steps] /\ target \in [Resources -> Nat]
  BY <1>1 DEF IInv, StepInv, StepOf, TypeOK
<1>3. request \in Late
  BY <1>2 DEF Late, Entry
<1>4. \/ /\ ServeDelete(id) /\ state' = [state EXCEPT ![r] = None]
         /\ IF step[r] = "replace"
            THEN step' = [step EXCEPT ![r] = "create"] /\ UNCHANGED <<plan, target>>
            ELSE Finish(r)
         /\ Answered(request)
      \/ Fail(r) /\ Lost(request, ServeDelete(id))
  BY DEF Delete
<1>a. Answered(request) => (Fault \/ NoFault) /\ \A q \in late' : q \in Late
  BY <1>1, <1>3, AnsweredIs
<1>5. RestTyped <=> \A q \in late' : q \in Late
  BY <1>1, <1>4, <1>a, CountsAre DEF RestTyped, Lost
<1>6. ServeDelete(id) => Served
  BY <1>1, DeleteIsServed
<1>7. CASE /\ ServeDelete(id) /\ state' = [state EXCEPT ![r] = None] /\ Answered(request)
           /\ step' = [step EXCEPT ![r] = "create"] /\ UNCHANGED <<plan, target>> /\ step[r] = "replace"
  <2>1. step'[r] = "create" /\ state'[r] = None /\ plan'[r] = plan[r]
    BY <1>2, <1>7
  <2>2. StepOf(r)'
    BY <1>2, <1>7, <2>1 DEF StepOf
  <2>3. \A j \in Held(r)' : j \in Held(r)
    BY <2>1 DEF Held
  <2>4. plan' = [plan EXCEPT ![r] = plan[r]] /\ target' = [target EXCEPT ![r] = target[r]]
    BY <1>2, <1>7
  <2>5. RestTyped
    BY <1>5, <1>7, <1>a
  <2>. QED  BY <1>1, <1>2, <1>6, <1>7, <2>2, <2>3, <2>4, <2>5, AssignKeeps DEF Steps
<1>8. CASE ServeDelete(id) /\ state' = [state EXCEPT ![r] = None] /\ Answered(request) /\ Finish(r)
  <2>1. RestTyped
    BY <1>5, <1>8, <1>a
  <2>. QED  BY <1>1, <1>6, <1>8, <2>1, FinishKeeps
<1>9. CASE Fail(r) /\ Lost(request, ServeDelete(id))
  <2>1. Served /\ \A q \in late' : q \in Late
    BY <1>3, <1>6, <1>9, LostIsServed DEF Lost
  <2>. QED  BY <1>1, <1>5, <1>9, <2>1, FailKeeps
<1>. QED  BY <1>4, <1>7, <1>8, <1>9

LEMMA ImportKeeps == ASSUME NEW r \in Resources PROVE IInv /\ Import(r) => IInv'
<1>. SUFFICES ASSUME IInv, Import(r) PROVE IInv'
  OBVIOUS
<1>1. /\ TypeOK /\ UNCHANGED <<config, plan, step, target, zone, keys, nextId, late, faults>>
      /\ edits < MaxEdits /\ edits' = edits + 1 /\ \A s \in Resources : step[s] = "rest"
  BY DEF IInv, Import, serverVars, Resting
<1>2. PICK k \in DOMAIN keys \ {state[s].id : s \in Resources} :
         state' = [state EXCEPT ![r] = Observed(k)]
  BY DEF Import
<1>3. Observed(k) \in Entry /\ Observed(k).id = k /\ k \in Nat \ {0} /\ k < nextId
  BY <1>1, <1>2, ObservedIs
<1>4. TypeOK'
  BY <1>1, <1>2, <1>3, BoundsAssumption DEF TypeOK
<1>5. StepInv'
  BY <1>1 DEF StepInv, StepOf
<1>6. state \in [Resources -> Entry \cup {None}] /\ nextId \in Nat
  BY <1>1 DEF TypeOK
<1>7. \A s \in Resources \ {r} : Held(s)' = Held(s)
  BY <1>1, <1>2, <1>6 DEF Held
<1>8. state'[r] = Observed(k)
  BY <1>2, <1>6
<1>9. Held(r)' \subseteq {k}
  BY <1>1, <1>3, <1>8 DEF Held
<1>10. \A s \in Resources : k \notin Held(s)
  BY <1>1, <1>2 DEF Held
<1>11. HeldInv'
  BY <1>1, <1>3, <1>6, <1>7, <1>9, <1>10 DEF IInv, HeldInv
<1>. QED  BY <1>4, <1>5, <1>11 DEF IInv

LEMMA EditKeeps == ASSUME NEW r \in Resources PROVE IInv /\ Edit(r) => IInv'
<1>. SUFFICES ASSUME IInv, Edit(r) PROVE IInv'
  OBVIOUS
<1>1. /\ TypeOK /\ UNCHANGED <<state, plan, step, target, zone, keys, nextId, late, faults>>
      /\ edits < MaxEdits /\ edits' = edits + 1 /\ \A s \in Resources : step[s] = "rest"
  BY DEF IInv, Edit, serverVars, Resting
<1>2. PICK c \in Block \cup {Absent} : config' = [config EXCEPT ![r] = c]
  BY DEF Edit
<1>3. TypeOK'
  BY <1>1, <1>2, BoundsAssumption DEF TypeOK
<1>4. StepInv'
  BY <1>1 DEF StepInv, StepOf
<1>5. HeldInv'
  BY <1>1 DEF IInv, HeldInv, Held
<1>. QED  BY <1>3, <1>4, <1>5 DEF IInv

LEMMA DropKeeps == IInv /\ Drop => IInv'
<1>. SUFFICES ASSUME IInv, Drop PROVE IInv'
  OBVIOUS
<1>1. /\ TypeOK /\ UNCHANGED <<config, state, plan, step, target, nextId, late, faults>>
      /\ edits < MaxEdits /\ edits' = edits + 1
  BY DEF IInv, Drop
<1>2. RestTyped
  BY <1>1, BoundsAssumption DEF RestTyped, TypeOK
<1>3. zone' \in BOOLEAN /\ \E ids : keys' = Removed(ids)
  BY <1>1 DEF Drop, TypeOK
<1>4. Served
  BY <1>1, <1>3, RemovedIsServed
<1>. QED  BY <1>1, <1>2, <1>4, ServerKeeps

\* What is delivered is one of the three requests.
LEMMA DeliverIs ==
    ASSUME TypeOK, NEW q \in late, Deliver(q)
    PROVE  \/ q.op = "create" /\ q.key \in Key /\ ServeCreate(1, q.key)
           \/ q.op = "update" /\ q.active \in BOOLEAN /\ ServeUpdate(q.id, q.active)
           \/ q.op = "delete" /\ q = [op |-> "delete", id |-> q.id] /\ ServeDelete(q.id)
<1>1. q \in Late
  BY DEF TypeOK
<1>2. CASE q \in [op : {"create"}, key : Key]
  <2>1. q.op = "create" /\ q.key \in Key
    BY <1>2
  <2>2. ServeCreate(1, q.key)
    BY <2>1 DEF Deliver
  <2>. QED  BY <2>1, <2>2
<1>3. CASE q \in [op : {"update"}, id : Nat, active : BOOLEAN]
  <2>1. q.op = "update" /\ q.active \in BOOLEAN
    BY <1>3
  <2>2. ServeUpdate(q.id, q.active)
    BY <2>1 DEF Deliver
  <2>. QED  BY <2>1, <2>2
<1>4. CASE q \in [op : {"delete"}, id : Nat]
  <2>1. q.op = "delete" /\ q = [op |-> "delete", id |-> q.id]
    BY <1>4
  <2>2. ServeDelete(q.id)
    BY <2>1 DEF Deliver
  <2>. QED  BY <2>1, <2>2
<1>. QED  BY <1>1, <1>2, <1>3, <1>4 DEF Late

LEMMA DeliverKeeps == ASSUME NEW q \in late PROVE IInv /\ Deliver(q) => IInv'
<1>. SUFFICES ASSUME IInv, Deliver(q) PROVE IInv'
  OBVIOUS
<1>1. TypeOK /\ UNCHANGED <<config, state, plan, step, target, faults, edits>> /\ late' = late \ {q}
  BY DEF IInv, Deliver
<1>2. RestTyped
  BY <1>1 DEF RestTyped, TypeOK
<1>3. Served
  BY <1>1, DeliverIs, CreateIsServed, UpdateIsServed, DeleteIsServed
<1>. QED  BY <1>1, <1>2, <1>3, ServerKeeps

LEMMA NextKeeps == IInv /\ [Next]_vars => IInv'
BY StutterKeeps, StartRunKeeps, ReadKeeps, CreateKeeps, UpdateKeeps, ConfirmKeeps, DeleteKeeps,
   ImportKeeps, EditKeeps, DropKeeps, DeliverKeeps DEF Next, Operate

LEMMA Invariance == Spec => []IInv
BY InitEstablishes, NextKeeps, PTL DEF Spec

-----------------------------------------------------------------------------
(***************************************************************************)
(* The theorems.                                                           *)
(***************************************************************************)

\* The values the operations leave are the ones they are declared to be.
THEOREM TypeCorrect == Spec => []TypeOK
<1>1. IInv => TypeOK
  BY DEF IInv
<1>. QED  BY <1>1, Invariance, PTL

\* Two resources never manage the same key, whatever fails or is retried: the
\* key a resource takes over is the one its own POST was answered with.
THEOREM KeysStaySeparate == Spec => []SeparateKeys
<1>1. IInv => SeparateKeys
  <2>. SUFFICES ASSUME IInv, NEW r \in Resources, NEW s \in Resources, r # s,
                       state[r] # None, state[r].id = state[s].id
                PROVE  FALSE
    BY DEF SeparateKeys
  <2>1. state[r] \in Entry /\ state[s] \in Entry \cup {None}
    BY DEF IInv, TypeOK
  <2>2. state[r].id \in Nat \ {0} /\ state[s] # None
    BY <2>1, NoneIsNothing DEF Entry
  <2>3. state[r].id \in Held(r) /\ state[r].id \in Held(s)
    BY <2>2 DEF Held
  <2>. QED  BY <2>3 DEF IInv, HeldInv
<1>. QED  BY <1>1, Invariance, PTL

\* A resource is forgotten by a read of it, or by a delete that was answered.
LEMMA ForgottenBy ==
    ASSUME IInv, [Next]_vars, NEW r \in Resources, state[r] # None, state'[r] = None
    PROVE  Read(r) \/ ServeDelete(state[r].id)
<1>1. TypeOK /\ state \in [Resources -> Entry \cup {None}]
  BY DEF IInv, TypeOK
<1>2. state' # state
  OBVIOUS
<1>3. PICK s \in Resources : Operate(s) \/ Import(s)
  BY <1>2 DEF Next, vars, StartRun, Edit, Drop, Deliver
<1>4. CASE Read(s)
  <2>1. s = r
    BY <1>1, <1>4 DEF Read
  <2>. QED  BY <1>4, <2>1
<1>5. CASE Create(s) \/ Update(s)
  BY <1>2, <1>5 DEF Create, Update, Proceed, Fail
<1>6. CASE Confirm(s)
  <2>1. plan[s].type # "none" /\ target[s] \in Nat \ {0}
    BY <1>1, <1>6 DEF Confirm, IInv, StepInv, StepOf, TypeOK
  <2>2. Written(s, target[s]) \in Entry
    BY <1>1, <2>1, WrittenIs
  <2>3. state' = [state EXCEPT ![s] = Written(s, target[s])]
    BY <1>2, <1>6 DEF Confirm, Fail
  <2>4. state'[r] \in {state[r], Written(s, target[s])}
    BY <1>1, <2>3
  <2>. QED  BY <2>2, <2>4, NoneIsNothing
<1>7. CASE Delete(s)
  <2>1. state' = [state EXCEPT ![s] = None] /\ ServeDelete(state[s].id)
    BY <1>2, <1>7 DEF Delete, Fail
  <2>2. s = r
    BY <1>1, <2>1
  <2>. QED  BY <2>1, <2>2
<1>8. CASE Import(s)
  <2>1. PICK k \in DOMAIN keys : state' = [state EXCEPT ![s] = Observed(k)]
    BY <1>8 DEF Import
  <2>2. Observed(k) \in Entry
    BY <1>1, ObservedIs
  <2>3. state'[r] \in {state[r], Observed(k)}
    BY <1>1, <2>1
  <2>. QED  BY <2>2, <2>3, NoneIsNothing
<1>. QED  BY <1>3, <1>4, <1>5, <1>6, <1>7, <1>8 DEF Operate

\* A key leaves the server by a delete under way, by one given up on, or by
\* other hands.
LEMMA DestroyedBy ==
    ASSUME IInv, [Next]_vars, edits' = edits, NEW k \in DOMAIN keys \ DOMAIN keys'
    PROVE  \/ [op |-> "delete", id |-> k] \in late
           \/ \E r \in Resources : step[r] \in {"delete", "replace"} /\ state[r].id = k
<1>1. TypeOK /\ edits \in Nat
  BY BoundsAssumption DEF IInv, TypeOK
<1>2. keys' # keys /\ edits' # edits + 1
  BY <1>1
<1>3. \/ \E r \in Resources : Create(r) \/ Update(r) \/ Delete(r)
      \/ \E q \in late : Deliver(q)
  BY <1>2 DEF Next, Operate, vars, serverVars, StartRun, Read, Confirm, Import, Edit, Drop
<1>4. ASSUME NEW r \in Resources, Create(r) PROVE FALSE
  <2>1. NewKey(r) \in Key
    BY <1>1, NewKeyIsKey
  <2>2. \E n \in {1, 2} : ServeCreate(n, NewKey(r))
    BY <1>2, <1>4 DEF Create, Lost, serverVars
  <2>3. DOMAIN keys \subseteq DOMAIN keys'
    BY <1>1, <2>1, <2>2, CreateIsServed DEF TypeOK
  <2>. QED  BY <2>3
<1>5. ASSUME NEW r \in Resources, Update(r) PROVE FALSE
  <2>1. plan[r].active \in BOOLEAN
    BY <1>1 DEF TypeOK, Values
  <2>2. ServeUpdate(state[r].id, plan[r].active)
    BY <1>2, <1>5 DEF Update, Lost, serverVars
  <2>. QED  BY <1>1, <2>1, <2>2, UpdateIsServed
<1>6. ASSUME NEW r \in Resources, Delete(r)
      PROVE  step[r] \in {"delete", "replace"} /\ state[r].id = k
  <2>1. ServeDelete(state[r].id)
    BY <1>2, <1>6 DEF Delete, Lost, serverVars
  <2>2. DOMAIN keys' = DOMAIN keys \ {state[r].id}
    BY <1>1, <2>1, DeleteIsServed
  <2>. QED  BY <1>6, <2>2 DEF Delete
<1>7. ASSUME NEW q \in late, Deliver(q) PROVE [op |-> "delete", id |-> k] \in late
  <2>1. CASE q.op = "create" /\ q.key \in Key /\ ServeCreate(1, q.key)
    <3>1. DOMAIN keys \subseteq DOMAIN keys'
      BY <1>1, <2>1, CreateIsServed DEF TypeOK
    <3>. QED  BY <3>1
  <2>2. CASE q.op = "update" /\ q.active \in BOOLEAN /\ ServeUpdate(q.id, q.active)
    BY <1>1, <2>2, UpdateIsServed
  <2>3. CASE q = [op |-> "delete", id |-> q.id] /\ ServeDelete(q.id)
    <3>1. DOMAIN keys' = DOMAIN keys \ {q.id}
      BY <1>1, <2>3, DeleteIsServed
    <3>2. k = q.id
      BY <3>1
    <3>. QED  BY <2>3, <3>2
  <2>. QED  BY <1>1, <1>7, <2>1, <2>2, <2>3, DeliverIs
<1>. QED  BY <1>3, <1>4, <1>5, <1>6, <1>7

\* A key an apply forgets is gone from the server: an error of a delete, or of
\* the read after a write, never drops a key that may still sign the zone.
THEOREM ForgottenIsGone == Spec => ApplyForgetsOnlyGone
<1>. DEFINE A == \A r \in Resources :
                    step[r] # "refresh" /\ state[r] # None /\ state'[r] = None
                    => state[r].id \notin DOMAIN keys'
<1>1. IInv /\ [Next]_vars => A
  <2>. SUFFICES ASSUME IInv, [Next]_vars, NEW r \in Resources,
                       step[r] # "refresh", state[r] # None, state'[r] = None
                PROVE  state[r].id \notin DOMAIN keys'
    OBVIOUS
  <2>1. ServeDelete(state[r].id)
    BY ForgottenBy DEF Read
  <2>. QED  BY <2>1, DeleteIsServed DEF IInv
<1>2. IInv /\ [Next]_vars => [A]_vars
  BY <1>1
<1>. QED  BY <1>2, Invariance, PTL DEF Spec, ApplyForgetsOnlyGone

\* The provider destroys a key only when its block was removed or asks for
\* another type, or when it carries out a delete that was asked for earlier.
THEOREM KeysSurvive == Spec => SigningKeySurvives
<1>. DEFINE A == edits' = edits =>
                    \A k \in DOMAIN keys \ DOMAIN keys' :
                       \/ [op |-> "delete", id |-> k] \in late
                       \/ \E r \in Resources : state[r].id = k /\ ~ Wanted(r, k)
<1>1. IInv /\ [Next]_vars => A
  <2>. SUFFICES ASSUME IInv, [Next]_vars, edits' = edits, NEW k \in DOMAIN keys \ DOMAIN keys',
                       NEW r \in Resources, step[r] \in {"delete", "replace"}, state[r].id = k
                PROVE  ~ Wanted(r, k)
    BY DestroyedBy
  <2>. QED  BY DEF IInv, StepInv, StepOf, Wanted
<1>2. IInv /\ [Next]_vars => [A]_vars
  BY <1>1
<1>. QED  BY <1>2, Invariance, PTL DEF Spec, SigningKeySurvives

-----------------------------------------------------------------------------
(***************************************************************************)
(* What leaks.  Every fault may cost one key: one that no resource holds,  *)
(* or one that a request given up on is still to make.                     *)
(***************************************************************************)

Loose == {k \in DOMAIN keys : \A r \in Resources : k \notin Held(r)}
Pending == {q \in late : q.op = "create"}

LeakInv == IsFiniteSet(Pending) /\ Cardinality(Loose) + Cardinality(Pending) <= faults

LEMMA NoMore ==
    ASSUME NEW S, NEW T, IsFiniteSet(S), T \subseteq S
    PROVE  /\ IsFiniteSet(T) /\ Cardinality(T) <= Cardinality(S)
           /\ Cardinality(T) \in Nat /\ Cardinality(S) \in Nat
BY FS_Subset, FS_CardinalityType

LEMMA OneMore ==
    ASSUME NEW S, NEW T, NEW x, IsFiniteSet(S), T \subseteq S \cup {x}
    PROVE  /\ IsFiniteSet(T) /\ Cardinality(T) <= Cardinality(S) + 1
           /\ Cardinality(T) \in Nat /\ Cardinality(S) \in Nat
<1>1. /\ IsFiniteSet(S \cup {x}) /\ Cardinality(S) \in Nat
      /\ Cardinality(S \cup {x}) \in {Cardinality(S), Cardinality(S) + 1}
  BY FS_AddElement, FS_CardinalityType
<1>2. /\ IsFiniteSet(T) /\ Cardinality(T) <= Cardinality(S \cup {x})
      /\ Cardinality(T) \in Nat
  BY <1>1, NoMore
<1>. QED  BY <1>1, <1>2

LEMMA LooseIsFinite == IInv => IsFiniteSet(Loose)
<1>. SUFFICES ASSUME IInv PROVE IsFiniteSet(Loose)
  OBVIOUS
<1>1. nextId - 1 \in Int /\ Loose \subseteq 1 .. nextId - 1
  BY DEF IInv, TypeOK, Loose
<1>2. IsFiniteSet(1 .. nextId - 1)
  BY <1>1, FS_Interval
<1>. QED  BY <1>1, <1>2, FS_Subset

\* The three ways in which a step may change what is loose and what is pending.
Nothing == Loose' \subseteq Loose /\ Pending' \subseteq Pending /\ faults' \in {faults, faults + 1}
Leak ==
    /\ faults' = faults + 1
    /\ \/ \E k : Loose' \subseteq Loose \cup {k} /\ Pending' \subseteq Pending
       \/ \E q : Loose' \subseteq Loose /\ Pending' \subseteq Pending \cup {q}
Arrival ==
    /\ faults' = faults
    /\ \E q \in Pending : \E k : Loose' \subseteq Loose \cup {k} /\ Pending' \subseteq Pending \ {q}

LEMMA LeakStep ==
    ASSUME IInv, IInv', LeakInv, Nothing \/ Leak \/ Arrival PROVE LeakInv'
<1>1. IsFiniteSet(Loose) /\ IsFiniteSet(Pending) /\ faults \in Nat
  BY LooseIsFinite, BoundsAssumption DEF LeakInv, IInv, TypeOK
<1>2. CASE Nothing
  <2>1. Cardinality(Loose') <= Cardinality(Loose)
        /\ Cardinality(Loose') \in Nat /\ Cardinality(Loose) \in Nat
    BY <1>1, <1>2, NoMore DEF Nothing
  <2>2. IsFiniteSet(Pending') /\ Cardinality(Pending') <= Cardinality(Pending)
        /\ Cardinality(Pending') \in Nat /\ Cardinality(Pending) \in Nat
    BY <1>1, <1>2, NoMore DEF Nothing
  <2>. QED  BY <1>1, <1>2, <2>1, <2>2 DEF LeakInv, Nothing
<1>3. ASSUME NEW k, faults' = faults + 1, Loose' \subseteq Loose \cup {k}, Pending' \subseteq Pending
      PROVE  LeakInv'
  <2>1. Cardinality(Loose') <= Cardinality(Loose) + 1
        /\ Cardinality(Loose') \in Nat /\ Cardinality(Loose) \in Nat
    BY <1>1, <1>3, OneMore
  <2>2. IsFiniteSet(Pending') /\ Cardinality(Pending') <= Cardinality(Pending)
        /\ Cardinality(Pending') \in Nat /\ Cardinality(Pending) \in Nat
    BY <1>1, <1>3, NoMore
  <2>. QED  BY <1>1, <1>3, <2>1, <2>2 DEF LeakInv
<1>4. ASSUME NEW q, faults' = faults + 1, Loose' \subseteq Loose, Pending' \subseteq Pending \cup {q}
      PROVE  LeakInv'
  <2>1. Cardinality(Loose') <= Cardinality(Loose)
        /\ Cardinality(Loose') \in Nat /\ Cardinality(Loose) \in Nat
    BY <1>1, <1>4, NoMore
  <2>2. IsFiniteSet(Pending') /\ Cardinality(Pending') <= Cardinality(Pending) + 1
        /\ Cardinality(Pending') \in Nat /\ Cardinality(Pending) \in Nat
    BY <1>1, <1>4, OneMore
  <2>. QED  BY <1>1, <1>4, <2>1, <2>2 DEF LeakInv
<1>5. ASSUME NEW q \in Pending, NEW k, faults' = faults,
             Loose' \subseteq Loose \cup {k}, Pending' \subseteq Pending \ {q}
      PROVE  LeakInv'
  <2>1. Cardinality(Loose') <= Cardinality(Loose) + 1
        /\ Cardinality(Loose') \in Nat /\ Cardinality(Loose) \in Nat
    BY <1>1, <1>5, OneMore
  <2>2. IsFiniteSet(Pending \ {q}) /\ Cardinality(Pending \ {q}) = Cardinality(Pending) - 1
        /\ Cardinality(Pending) \in Nat
    BY <1>1, FS_RemoveElement, FS_CardinalityType
  <2>3. IsFiniteSet(Pending') /\ Cardinality(Pending') <= Cardinality(Pending \ {q})
        /\ Cardinality(Pending') \in Nat
    BY <1>5, <2>2, NoMore
  <2>. QED  BY <1>1, <1>5, <2>1, <2>2, <2>3 DEF LeakInv
<1>. QED  BY <1>2, <1>3, <1>4, <1>5 DEF Leak, Arrival, Nothing

\* What is loose after a step of r and was not: a new key, or one r let go of.
LEMMA LooseFrom ==
    ASSUME NEW r \in Resources, \A s \in Resources \ {r} : Kept(s), NEW k \in Loose'
    PROVE  /\ k \in DOMAIN keys' /\ k \notin Held(r)'
           /\ k \in Loose \/ k \notin DOMAIN keys \/ k \in Held(r)
<1>1. \A s \in Resources \ {r} : Held(s)' = Held(s)
  BY DEF Kept, Held
<1>. QED  BY <1>1 DEF Loose

LEMMA OthersAreKept ==
    ASSUME TypeOK, NEW r \in Resources, Fail(r) \/ \E k : Proceed(r, k)
    PROVE  \A s \in Resources \ {r} : Kept(s)
BY DEF TypeOK, Fail, Finish, Proceed, Kept

\* A failed operation on a key the resource goes on knowing.
LEMMA FailHolds ==
    ASSUME TypeOK, NEW r \in Resources, Fail(r), step[r] # "confirm"
    PROVE  Held(r)' = Held(r)
<1>1. step'[r] = "rest" /\ state' = state
  BY DEF TypeOK, Fail, Finish
<1>. QED  BY <1>1 DEF Held

LEMMA ReadLeaks == ASSUME NEW r \in Resources PROVE IInv /\ Read(r) => Nothing \/ Leak
<1>. SUFFICES ASSUME IInv, Read(r) PROVE Nothing \/ Leak
  OBVIOUS
<1>1. TypeOK /\ UNCHANGED <<zone, keys, nextId, late, target>> /\ step[r] = "refresh"
  BY DEF IInv, Read, serverVars
<1>2. PICK listed \in BOOLEAN :
         LET s == IF state[r] = None THEN None ELSE Refreshed(r, listed)
         IN  /\ IF listed THEN NoFault ELSE Fault /\ state[r] # None
             /\ state' = [state EXCEPT ![r] = s]
             /\ step' = [step EXCEPT ![r] = Action(config[r], s)]
             /\ plan' = [plan EXCEPT ![r] = Planned(config[r], s)]
  BY DEF Read
<1>3. \A s \in Resources \ {r} : Kept(s)
  BY <1>1, <1>2 DEF TypeOK, Kept
<1>4. Pending' \subseteq Pending /\ \A k \in Loose' : k \in Loose \/ k = state[r].id
  BY <1>1, <1>3, LooseFrom DEF Pending, Held
<1>5. CASE ~ listed
  <2>1. faults' = faults + 1
    BY <1>2, <1>5 DEF Fault
  <2>2. Loose' \subseteq Loose \cup {state[r].id}
    BY <1>4
  <2>. QED  BY <1>4, <2>1, <2>2 DEF Leak
<1>6. CASE listed
  <2>1. faults' = faults
    BY <1>2, <1>6 DEF NoFault
  <2>2. ASSUME NEW k \in Loose', k \notin Loose PROVE FALSE
    <3>1. k = state[r].id /\ k \in Held(r) /\ k \in DOMAIN keys /\ k \notin Held(r)'
      BY <1>1, <1>3, <1>4, <2>2, LooseFrom
    <3>2. state[r] # None /\ k \in Nat
      BY <1>1, <3>1 DEF Held
    <3>3. state'[r] = Observed(k)
      BY <1>1, <1>2, <1>6, <3>1, <3>2 DEF Refreshed, TypeOK
    <3>4. Observed(k) \in Entry /\ Observed(k).id = k
      BY <1>1, <3>1, ObservedIs
    <3>5. k \in Held(r)'
      BY <3>2, <3>3, <3>4, NoneIsNothing DEF Held
    <3>. QED  BY <3>1, <3>5
  <2>. QED  BY <1>4, <2>1, <2>2 DEF Nothing
<1>. QED  BY <1>5, <1>6

LEMMA CreateLeaks == ASSUME NEW r \in Resources PROVE IInv /\ Create(r) => Nothing \/ Leak
<1>. SUFFICES ASSUME IInv, Create(r) PROVE Nothing \/ Leak
  OBVIOUS
<1>. DEFINE key == NewKey(r)
            request == [op |-> "create", key |-> key]
<1>1. TypeOK /\ step[r] = "create" /\ nextId \in Nat
  BY DEF IInv, Create, TypeOK
<1>2. key \in Key
  BY <1>1, NewKeyIsKey
<1>3. Held(r) = {}
  BY <1>1 DEF IInv, StepInv, StepOf, Held
<1>. HIDE DEF key
<1>4. \/ /\ zone
         /\ \E n \in {1, 2} : /\ IF n = 1 THEN Answered(request) ELSE Fault /\ UNCHANGED late
                              /\ ServeCreate(n, key) /\ Proceed(r, nextId + n - 1)
      \/ Fail(r) /\ NoFault /\ UNCHANGED serverVars
      \/ Fail(r) /\ Lost(request, ServeCreate(1, key))
  BY DEF Create, key
<1>5. \A s \in Resources \ {r} : Kept(s)
  BY <1>1, <1>4, OthersAreKept
<1>6. \A k \in Loose' : k \in DOMAIN keys' /\ k \notin Held(r)' /\ (k \in Loose \/ k \notin DOMAIN keys)
  BY <1>3, <1>5, LooseFrom
<1>7. ASSUME NEW n \in {1, 2}, zone, IF n = 1 THEN Answered(request) ELSE Fault /\ UNCHANGED late,
             ServeCreate(n, key), Proceed(r, nextId + n - 1)
      PROVE  Nothing \/ Leak
  <2>1. DOMAIN keys' = DOMAIN keys \cup (nextId .. nextId + n - 1)
    BY <1>1, <1>2, <1>7, CreateIsServed
  <2>2. step'[r] = "confirm" /\ target'[r] = nextId + n - 1
    BY <1>7 DEF Proceed, IInv, TypeOK
  <2>3. nextId + n - 1 \in Held(r)'
    BY <1>1, <2>2 DEF Held
  <2>4. \A k \in Loose' : k \in Loose \/ k \in nextId .. nextId + n - 2
    BY <1>1, <1>6, <2>1, <2>3
  <2>6. CASE n = 1
    <3>1. Loose' \subseteq Loose
      BY <1>1, <2>4, <2>6
    <3>2. CASE NoFault /\ UNCHANGED late
      BY <3>1, <3>2 DEF Nothing, NoFault, Pending
    <3>3. CASE Fault /\ late' = late \cup {request}
      <4>1. Pending' \subseteq Pending \cup {request}
        BY <3>3 DEF Pending
      <4>. QED  BY <3>1, <3>3, <4>1 DEF Leak, Fault
    <3>. QED  BY <1>7, <2>6, <3>2, <3>3 DEF Answered
  <2>7. CASE n = 2
    <3>1. Loose' \subseteq Loose \cup {nextId}
      BY <1>1, <2>4, <2>7
    <3>2. Pending' \subseteq Pending
      BY <1>7, <2>7 DEF Pending
    <3>. QED  BY <1>7, <2>7, <3>1, <3>2 DEF Leak, Fault
  <2>. QED  BY <2>6, <2>7
<1>8. CASE UNCHANGED serverVars /\ faults' \in {faults, faults + 1}
  BY <1>6, <1>8 DEF Nothing, Pending, serverVars
<1>9. CASE Fault /\ ServeCreate(1, key) /\ UNCHANGED late
  <2>1. DOMAIN keys' \subseteq DOMAIN keys \cup (nextId .. nextId)
    BY <1>1, <1>2, <1>9, CreateIsServed DEF TypeOK
  <2>2. Loose' \subseteq Loose \cup {nextId}
    BY <1>1, <1>6, <2>1
  <2>3. Pending' \subseteq Pending
    BY <1>9 DEF Pending
  <2>. QED  BY <1>9, <2>2, <2>3 DEF Leak, Fault
<1>10. CASE Fault /\ late' = late \cup {request} /\ UNCHANGED <<zone, keys, nextId>>
  <2>1. Loose' \subseteq Loose
    BY <1>6, <1>10
  <2>2. Pending' \subseteq Pending \cup {request}
    BY <1>10 DEF Pending
  <2>. QED  BY <1>10, <2>1, <2>2 DEF Leak, Fault
<1>. QED  BY <1>4, <1>7, <1>8, <1>9, <1>10 DEF Lost, NoFault, Fault

LEMMA UpdateLeaks == ASSUME NEW r \in Resources PROVE IInv /\ Update(r) => Nothing
<1>. SUFFICES ASSUME IInv, Update(r) PROVE Nothing
  OBVIOUS
<1>. DEFINE id == state[r].id
            active == plan[r].active
            request == [op |-> "update", id |-> id, active |-> active]
<1>1. TypeOK /\ step[r] = "update" /\ active \in BOOLEAN
  BY DEF IInv, Update, TypeOK, Values
<1>2. state[r] # None /\ id \in Nat
  BY <1>1 DEF IInv, StepInv, StepOf, TypeOK, Entry
<1>3. Held(r) = {id}
  BY <1>1, <1>2 DEF Held
<1>. HIDE DEF active
<1>4. \/ ServeUpdate(id, active) /\ Proceed(r, id) /\ Answered(request)
      \/ Fail(r) /\ NoFault /\ UNCHANGED serverVars
      \/ Fail(r) /\ Lost(request, ServeUpdate(id, active))
  BY DEF Update, active
<1>5. \A s \in Resources \ {r} : Kept(s)
  BY <1>1, <1>4, OthersAreKept
<1>6. DOMAIN keys' = DOMAIN keys
  BY <1>1, <1>4, UpdateIsServed DEF Lost, serverVars
<1>7. Proceed(r, id) => id \in Held(r)'
  BY <1>1, <1>2 DEF Proceed, Held
<1>8. id \in Held(r)'
  BY <1>1, <1>3, <1>4, <1>7, FailHolds
<1>9. Loose' \subseteq Loose
  BY <1>3, <1>5, <1>6, <1>8, LooseFrom
<1>10. Pending' \subseteq Pending /\ faults' \in {faults, faults + 1}
  BY <1>4 DEF Answered, Lost, NoFault, Fault, Pending, serverVars
<1>. QED  BY <1>9, <1>10 DEF Nothing

LEMMA ConfirmLeaks == ASSUME NEW r \in Resources PROVE IInv /\ Confirm(r) => Nothing \/ Leak
<1>. SUFFICES ASSUME IInv, Confirm(r) PROVE Nothing \/ Leak
  OBVIOUS
<1>1. /\ TypeOK /\ UNCHANGED <<zone, keys, nextId, late>> /\ step[r] = "confirm"
  BY DEF IInv, Confirm, serverVars
<1>2. plan[r].type # "none" /\ target[r] \in Nat \ {0} /\ (state[r] = None \/ state[r].id = target[r])
  BY <1>1 DEF IInv, StepInv, StepOf, TypeOK
<1>3. \A s \in Resources \ {r} : Kept(s)
  BY <1>1 DEF Confirm, Fail, Finish, Kept, TypeOK
<1>4. Held(r) = {target[r]}
  BY <1>1, <1>2 DEF Held
<1>5. Pending' \subseteq Pending /\ Loose' \subseteq Loose \cup {target[r]}
  BY <1>1, <1>3, <1>4, LooseFrom DEF Pending
<1>6. CASE NoFault /\ state' = [state EXCEPT ![r] = Written(r, target[r])]
  <2>1. Written(r, target[r]) \in Entry /\ Written(r, target[r]).id = target[r]
    BY <1>1, <1>2, WrittenIs
  <2>2. state'[r] = Written(r, target[r])
    BY <1>1, <1>6 DEF TypeOK
  <2>3. target[r] \in Held(r)'
    BY <1>2, <2>1, <2>2, NoneIsNothing DEF Held
  <2>4. Loose' \subseteq Loose
    BY <1>5, <2>3, <1>3, LooseFrom
  <2>. QED  BY <1>5, <1>6, <2>4 DEF Nothing, NoFault
<1>7. CASE NoFault /\ target[r] \notin DOMAIN keys
  <2>1. Loose' \subseteq Loose
    BY <1>1, <1>5, <1>7 DEF Loose
  <2>. QED  BY <1>5, <1>7, <2>1 DEF Nothing, NoFault
<1>8. CASE Fault
  BY <1>5, <1>8 DEF Leak, Fault
<1>. QED  BY <1>6, <1>7, <1>8 DEF Confirm

LEMMA DeleteLeaks == ASSUME NEW r \in Resources PROVE IInv /\ Delete(r) => Nothing
<1>. SUFFICES ASSUME IInv, Delete(r) PROVE Nothing
  OBVIOUS
<1>. DEFINE id == state[r].id
            request == [op |-> "delete", id |-> id]
<1>1. TypeOK /\ step[r] \in {"delete", "replace"}
  BY DEF IInv, Delete
<1>2. state[r] # None /\ id \in Nat
  BY <1>1 DEF IInv, StepInv, StepOf, TypeOK, Entry
<1>3. Held(r) = {id}
  BY <1>1, <1>2 DEF Held
<1>4. \/ /\ ServeDelete(id) /\ state' = [state EXCEPT ![r] = None]
         /\ IF step[r] = "replace"
            THEN step' = [step EXCEPT ![r] = "create"] /\ UNCHANGED <<plan, target>>
            ELSE Finish(r)
         /\ Answered(request)
      \/ Fail(r) /\ Lost(request, ServeDelete(id))
  BY DEF Delete
<1>5. \A s \in Resources \ {r} : Kept(s)
  BY <1>1, <1>4 DEF Fail, Finish, Kept, TypeOK
<1>6. ServeDelete(id) => DOMAIN keys' = DOMAIN keys \ {id}
  BY <1>1, DeleteIsServed
<1>7. DOMAIN keys' \subseteq DOMAIN keys /\ (id \notin DOMAIN keys' \/ Fail(r))
  BY <1>4, <1>6 DEF Lost, serverVars
<1>8. Fail(r) => id \in Held(r)'
  BY <1>1, <1>3, FailHolds
<1>9. Loose' \subseteq Loose
  BY <1>3, <1>5, <1>7, <1>8, LooseFrom
<1>10. Pending' \subseteq Pending /\ faults' \in {faults, faults + 1}
  BY <1>4 DEF Answered, Lost, NoFault, Fault, Pending, serverVars
<1>. QED  BY <1>9, <1>10 DEF Nothing

LEMMA ImportLeaks == ASSUME NEW r \in Resources PROVE IInv /\ Import(r) => Nothing
<1>. SUFFICES ASSUME IInv, Import(r) PROVE Nothing
  OBVIOUS
<1>1. /\ TypeOK /\ UNCHANGED <<plan, step, target, keys, late, faults>>
      /\ state[r] = None /\ step[r] = "rest"
  BY DEF IInv, Import, serverVars, Resting
<1>2. \A s \in Resources \ {r} : Kept(s)
  BY <1>1 DEF Import, Kept, TypeOK
<1>3. Held(r) = {}
  BY <1>1 DEF Held
<1>4. Loose' \subseteq Loose
  BY <1>1, <1>2, <1>3, LooseFrom
<1>. QED  BY <1>1, <1>4 DEF Nothing, Pending

\* Steps that move no resource let go of nothing.
LEMMA QuietLeaks ==
    ASSUME UNCHANGED <<state, target, late, faults>>, DOMAIN keys' \subseteq DOMAIN keys,
           \A r \in Resources : step[r] # "confirm" \/ step'[r] = step[r]
    PROVE  Nothing
<1>1. \A r \in Resources : Held(r) \subseteq Held(r)'
  BY DEF Held
<1>2. Loose' \subseteq Loose
  BY <1>1 DEF Loose
<1>. QED  BY <1>2 DEF Nothing, Pending

LEMMA DropLeaks == IInv /\ Drop => Nothing
<1>. SUFFICES ASSUME IInv, Drop PROVE Nothing
  OBVIOUS
<1>1. UNCHANGED <<state, step, target, late, faults>> /\ \E ids : keys' = Removed(ids)
  BY DEF Drop
<1>2. DOMAIN keys' \subseteq DOMAIN keys
  BY <1>1 DEF Removed
<1>. QED  BY <1>1, <1>2, QuietLeaks

LEMMA DeliverLeaks == ASSUME NEW q \in late PROVE IInv /\ Deliver(q) => Nothing \/ Arrival
<1>. SUFFICES ASSUME IInv, Deliver(q) PROVE Nothing \/ Arrival
  OBVIOUS
<1>1. /\ TypeOK /\ UNCHANGED <<state, step, target, faults>> /\ late' = late \ {q} /\ nextId \in Nat
  BY DEF IInv, Deliver, TypeOK
<1>2. \A r \in Resources : Held(r)' = Held(r)
  BY <1>1 DEF Held
<1>3. Pending' \subseteq Pending \ {q}
  BY <1>1 DEF Pending
<1>4. CASE q.op = "create" /\ q.key \in Key /\ ServeCreate(1, q.key)
  <2>1. DOMAIN keys' \subseteq DOMAIN keys \cup (nextId .. nextId)
    BY <1>1, <1>4, CreateIsServed DEF TypeOK
  <2>2. Loose' \subseteq Loose \cup {nextId}
    BY <1>1, <1>2, <2>1 DEF Loose
  <2>3. q \in Pending
    BY <1>4 DEF Pending
  <2>. QED  BY <1>1, <1>3, <2>2, <2>3 DEF Arrival
<1>5. CASE DOMAIN keys' \subseteq DOMAIN keys
  <2>1. Loose' \subseteq Loose
    BY <1>2, <1>5 DEF Loose
  <2>. QED  BY <1>1, <1>3, <2>1 DEF Nothing
<1>. QED  BY <1>1, <1>4, <1>5, DeliverIs, UpdateIsServed, DeleteIsServed

LEMMA NextLeaks == IInv /\ [Next]_vars => Nothing \/ Leak \/ Arrival
<1>. SUFFICES ASSUME IInv, [Next]_vars PROVE Nothing \/ Leak \/ Arrival
  OBVIOUS
<1>1. CASE StartRun \/ UNCHANGED vars
  <2>1. UNCHANGED <<state, target, keys, late, faults>>
    BY <1>1 DEF StartRun, vars, serverVars
  <2>2. \A r \in Resources : step[r] # "confirm" \/ step'[r] = step[r]
    BY <1>1 DEF StartRun, Resting, vars
  <2>. QED  BY <2>1, <2>2, QuietLeaks
<1>2. CASE \E r \in Resources : Edit(r)
  <2>1. UNCHANGED <<state, step, target, keys, late, faults>>
    BY <1>2 DEF Edit, serverVars
  <2>. QED  BY <2>1, QuietLeaks
<1>. QED  BY <1>1, <1>2, ReadLeaks, CreateLeaks, UpdateLeaks, ConfirmLeaks, DeleteLeaks, ImportLeaks,
             DropLeaks, DeliverLeaks DEF Next, Operate

LEMMA InitLeaks == Init => LeakInv
<1>. SUFFICES ASSUME Init PROVE LeakInv
  OBVIOUS
<1>1. Loose = {} /\ Pending = {} /\ faults = 0
  BY DEF Init, Loose, Pending
<1>. QED  BY <1>1, FS_EmptySet DEF LeakInv

\* A fault leaks at most one key, and a request given up on that makes one
\* later was itself a fault: whatever is retried, lost or late, the unmanaged
\* keys of a zone are never more than the calls that went wrong.
THEOREM LeaksAreBounded == Spec => []LeakBounded
<1>1. Spec => []LeakInv
  <2>1. LeakInv /\ [Next]_vars /\ IInv /\ IInv' => LeakInv'
    BY NextLeaks, LeakStep
  <2>. QED  BY <2>1, InitLeaks, Invariance, PTL DEF Spec
<1>2. IInv /\ LeakInv => LeakBounded
  <2>. SUFFICES ASSUME IInv, LeakInv, Resting PROVE Cardinality(DOMAIN keys \ Owned) <= faults
    BY DEF LeakBounded
  <2>1. DOMAIN keys \ Owned \subseteq Loose
    <3>. SUFFICES ASSUME NEW k \in DOMAIN keys \ Owned, NEW r \in Resources, k \in Held(r) PROVE FALSE
      BY DEF Loose
    <3>1. k = state[r].id /\ state[r] # None
      BY DEF Held, Resting
    <3>2. state[r] \in Entry
      BY <3>1 DEF IInv, TypeOK
    <3>. QED  BY <3>1, <3>2 DEF Owned, Entry
  <2>2. IsFiniteSet(Loose) /\ Cardinality(Pending) \in Nat /\ faults \in Nat
    BY LooseIsFinite, FS_CardinalityType, BoundsAssumption DEF LeakInv, IInv, TypeOK
  <2>3. /\ Cardinality(DOMAIN keys \ Owned) <= Cardinality(Loose)
        /\ Cardinality(DOMAIN keys \ Owned) \in Nat /\ Cardinality(Loose) \in Nat
    BY <2>1, <2>2, NoMore
  <2>. QED  BY <2>2, <2>3 DEF LeakInv
<1>. QED  BY <1>1, <1>2, Invariance, PTL
=============================================================================
