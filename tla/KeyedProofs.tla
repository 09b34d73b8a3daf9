---------------------------- MODULE KeyedProofs ----------------------------
(***************************************************************************)
(* Keyed keeps to its own keys, leaves no object behind and reports what   *)
(* is at the server, for every set of resources, kinds, keys and values    *)
(* and every bound.                                                        *)
(***************************************************************************)
EXTENDS Keyed, TLAPS

(***************************************************************************)
(* The inductive invariant.                                                *)
(***************************************************************************)

\* The next call of a resource has what it is made from, and no ACL is ever
\* replaced.
StepInv ==
    \A r \in Resources :
        /\ step[r] \in {"create", "update", "replace"} => config[r] # None
        /\ step[r] \in {"update", "delete", "replace"} => state[r] # None
        /\ step[r] = "replace" => ~ACL

\* No resource owns reserved metadata.
AddressInv == \A r \in Resources : state[r] # None => Addressable(state[r].key)

IInv == TypeOK /\ StepInv /\ AddressInv

-----------------------------------------------------------------------------
(***************************************************************************)
(* Lemmas about the operators.                                             *)
(***************************************************************************)

\* The absence of a block is not a block, nor its key a key.
LEMMA NoneIsNothing ==
    /\ None.key \notin Keys
    /\ None \notin Entry
BY ValuesAssumption DEF None, Entry

\* What a configuration may say is an entry.
LEMMA BlocksAreEntries ==
    ASSUME kind \in Kinds
    PROVE  Blocks \subseteq Entry
<1>1. KeysOf(kind) \subseteq Keys
  BY KeysAssumption DEF KeysOf
<1>2. ValuesOf(kind) \subseteq Values
  BY ValuesAssumption DEF ValuesOf
<1>. QED  BY <1>1, <1>2 DEF Blocks, Entry

\* What a write leaves is a set of values, and none of them the empty
\* spelling; only an empty view leaves nothing.
LEMMA ContentType ==
    ASSUME NEW v \in Values \cup {"empty"}
    PROVE  /\ Content(v) \in SUBSET Values
           /\ kind # "network" => Content(v) # {}
BY ValuesAssumption DEF Content

\* Create and Update never delete, and exactly the ACLs are left alone.
LEMMA CallTypes ==
    ASSUME kind \in Kinds
    PROVE  /\ Calls.create \in Verbs \cup {"nothing"}
           /\ Calls.update \in Verbs \cup {"nothing"}
           /\ Calls.delete = (IF ACL THEN "nothing" ELSE "delete")
           /\ ACL => Schema.replacedBy = {}
<1>1. kind \in AllKinds
  BY KindsAssumption
<1>. USE DEF Calls, Schema, Verbs, ACL
<1>2. CASE kind = "metadata"
  BY <1>2 DEF MetadataCalls
<1>3. CASE kind = "network"
  BY <1>3 DEF NetworkCalls
<1>4. CASE kind = "view_zone"
  BY <1>4 DEF ViewZoneCalls
<1>5. CASE kind = "autoprimary"
  BY <1>5 DEF AutoprimaryCalls
<1>6. CASE kind = "tsigkey"
  BY <1>6 DEF TSIGKeyCalls
<1>7. CASE kind = "recursor_zone"
  BY <1>7 DEF RecursorZoneCalls
<1>8. CASE kind = "recursor_acl"
  BY <1>8 DEF RecursorACLCalls, RecursorACLSchema
<1>9. CASE kind = "dnsdist_acl"
  BY <1>9 DEF DNSDistACLCalls, DNSDistACLSchema
<1>. QED  BY <1>1, <1>2, <1>3, <1>4, <1>5, <1>6, <1>7, <1>8, <1>9 DEF AllKinds

\* A request changes one key, if any, to what it carries.
LEMMA ServeType ==
    ASSUME TypeOK, NEW q, q.key \in Keys => q.content \in SUBSET Values, Serve(q)
    PROVE  /\ server' \in [Keys -> SUBSET Values]
           /\ records' \subseteq Keys
           /\ \A key \in Keys : server'[key] # server[key] =>
                 key = q.key /\ server'[key] = q.content /\ q.verb # "nothing"
BY DEF Serve, TypeOK

LEMMA BoundsAreNat == MaxFaults \in Nat /\ MaxEdits \in Nat /\ MaxOutside \in Nat
BY BoundsAssumption

\* The bounded counters.
LEMMA Counters ==
    ASSUME TypeOK
    PROVE  /\ Fault => faults' \in 0 .. MaxFaults
           /\ edits < MaxEdits /\ edits' = edits + 1 => edits' \in 0 .. MaxEdits
           /\ outside < MaxOutside /\ outside' = outside + 1 =>
                 outside' \in 0 .. MaxOutside /\ outside' # outside
BY BoundsAreNat DEF TypeOK, Fault

\* A place in a view that is gone is a place with nothing in it.
LEMMA GoneIs == ASSUME NEW key \in Keys PROVE Gone(key) <=> server[key] = {}
BY DEF Gone, ViewGone

\* What Read finds under the key of an entry is that entry's key or nothing.
LEMMA FoundType ==
    ASSUME TypeOK, NEW s \in Entry \cup {None}, NEW f \in Found(s)
    PROVE  /\ f \in Entry \cup {None}
           /\ f # None => s # None /\ f.key = s.key
           /\ f = None => s = None \/ server[s.key] = {}
<1>1. CASE s = None
  BY <1>1 DEF Found
<1>2. CASE s # None
  <2>1. s \in Entry /\ s.key \in Keys
    BY <1>2 DEF Entry
  <2>2. server[s.key] \subseteq Values
    BY <2>1 DEF TypeOK
  <2>3. \A v \in server[s.key] : [key |-> s.key, value |-> v] \in Entry
    BY <2>1, <2>2 DEF Entry
  <2>4. CASE server[s.key] = {}
    BY <1>2, <2>1, <2>4, GoneIs DEF Found
  <2>5. CASE server[s.key] # {}
    <3>1. PICK v \in server[s.key] : f = [key |-> s.key, value |-> v]
      BY <1>2, <2>1, <2>5, GoneIs DEF Found, Observed
    <3>. QED  BY <1>2, <2>3, <3>1, NoneIsNothing
  <2>. QED  BY <2>4, <2>5
<1>. QED  BY <1>1, <1>2

\* What is planned after a Read is made from the block and the state.
LEMMA ActionType ==
    ASSUME kind \in Kinds, NEW c \in Entry \cup {None}, NEW s \in Entry \cup {None}
    PROVE  /\ Action(c, s) \in Steps
           /\ Action(c, s) \in {"create", "update", "replace"} => c # None
           /\ Action(c, s) \in {"update", "delete", "replace"} => s # None
           /\ Action(c, s) = "replace" => ~ACL
<1>1. RequiresReplace(c, s) => ~ACL
  BY CallTypes DEF RequiresReplace
<1>2. CASE c = None
  BY <1>2 DEF Action, Steps
<1>3. CASE c # None /\ s = None
  BY <1>3 DEF Action, Steps
<1>4. CASE c # None /\ s # None
  BY <1>1, <1>4 DEF Action, Steps
<1>. QED  BY <1>2, <1>3, <1>4

\* A call that succeeded may have left an attempt under way, at the price of a
\* fault.
LEMMA AnsweredIs ==
    ASSUME TypeOK, NEW q, q.verb # "nothing" => q \in Request, Answered(q)
    PROVE  /\ late' \subseteq Request
           /\ faults' \in 0 .. MaxFaults
           /\ faults' = 0 => faults' = faults /\ late' = late
<1>1. CASE NoFault /\ UNCHANGED late
  BY <1>1 DEF NoFault, TypeOK
<1>2. CASE q.verb # "nothing" /\ Fault /\ late' = late \cup {q}
  <2>1. faults' \in 0 .. MaxFaults /\ faults' # 0
    BY <1>2, BoundsAreNat DEF Fault, TypeOK
  <2>. QED  BY <1>2, <2>1 DEF TypeOK
<1>. QED  BY <1>1, <1>2 DEF Answered

-----------------------------------------------------------------------------
(***************************************************************************)
(* Every step preserves the invariant.                                     *)
(***************************************************************************)

LEMMA InitIInv == ASSUME Init PROVE IInv
<1>1. faults \in 0 .. MaxFaults /\ edits \in 0 .. MaxEdits /\ outside \in 0 .. MaxOutside
  BY BoundsAreNat DEF Init
<1>2. server \in [Keys -> SUBSET Values]
  BY ValuesAssumption DEF Init
<1>3. TypeOK
  BY <1>1, <1>2 DEF Init, TypeOK, Steps
<1>4. StepInv /\ AddressInv
  BY DEF Init, StepInv, AddressInv
<1>. QED  BY <1>3, <1>4 DEF IInv

\* As long as the kind stays, so do the possible blocks; the configuration of
\* a run is fixed.
LEMMA ConfigKept ==
    ASSUME TypeOK, UNCHANGED <<kind, config>>
    PROVE  /\ kind' \in Kinds
           /\ config' \in [Resources -> Blocks' \cup {None}]
           /\ Distinct(config')
           /\ ACL' <=> ACL
BY DEF TypeOK, Blocks, Schema, ACL

LEMMA StartRunStep == ASSUME IInv, StartRun PROVE IInv'
<1>1. TypeOK'
  <2>1. kind' \in Kinds /\ config' \in [Resources -> Blocks' \cup {None}] /\ Distinct(config')
    BY ConfigKept DEF IInv, StartRun
  <2>. QED  BY <2>1 DEF IInv, TypeOK, StartRun, serverVars, bounds, Steps
<1>2. StepInv' /\ AddressInv'
  BY DEF IInv, StepInv, AddressInv, StartRun, TypeOK
<1>. QED  BY <1>1, <1>2 DEF IInv

\* One resource moves on: its state is an entry it may own or none, and its
\* next call is planned from what it has.
LEMMA ResourceStep ==
    ASSUME IInv, NEW r \in Resources, UNCHANGED <<kind, config>>,
           NEW s \in Entry \cup {None}, state' = [state EXCEPT ![r] = s],
           s # None => Addressable(s.key),
           NEW next \in Steps, step' = [step EXCEPT ![r] = next],
           next \in {"create", "update", "replace"} => config[r] # None,
           next \in {"update", "delete", "replace"} => s # None,
           next = "replace" => ~ACL
    PROVE  /\ state' \in [Resources -> Entry \cup {None}]
           /\ step' \in [Resources -> Steps]
           /\ StepInv' /\ AddressInv'
<1>1. state' \in [Resources -> Entry \cup {None}] /\ step' \in [Resources -> Steps]
  BY DEF IInv, TypeOK
<1>2. StepInv'
  BY ConfigKept DEF IInv, TypeOK, StepInv
<1>3. AddressInv'
  BY DEF IInv, TypeOK, AddressInv, Addressable
<1>. QED  BY <1>1, <1>2, <1>3

LEMMA ReadStep == ASSUME IInv, NEW r \in Resources, Read(r) PROVE IInv'
<1>. USE DEF IInv
<1>1. config[r] \in Entry \cup {None} /\ state[r] \in Entry \cup {None} /\ kind \in Kinds
  BY BlocksAreEntries DEF TypeOK
<1>2. UNCHANGED <<kind, config, serverVars, released, edits, outside>>
  BY DEF Read
<1>3. kind' \in Kinds /\ config' \in [Resources -> Blocks' \cup {None}] /\ Distinct(config')
  BY <1>2, ConfigKept
<1>4. ASSUME NEW s \in Found(state[r]), state' = [state EXCEPT ![r] = s],
             step' = [step EXCEPT ![r] = Action(config[r], s)], NoFault
      PROVE  IInv'
  <2>1. s \in Entry \cup {None} /\ (s # None => Addressable(s.key))
    BY <1>1, FoundType DEF AddressInv, Addressable
  <2>2. /\ state' \in [Resources -> Entry \cup {None}] /\ step' \in [Resources -> Steps]
        /\ StepInv' /\ AddressInv'
    BY <1>1, <1>2, <1>4, <2>1, ActionType, ResourceStep
  <2>3. TypeOK'
    BY <1>2, <1>3, <1>4, <2>2 DEF TypeOK, serverVars, NoFault
  <2>. QED  BY <2>2, <2>3
<1>5. CASE step' = [s \in Resources |-> "rest"] /\ Fault /\ UNCHANGED state
  <2>1. TypeOK'
    BY <1>2, <1>3, <1>5, Counters DEF TypeOK, serverVars, Steps
  <2>2. StepInv' /\ AddressInv'
    BY <1>5 DEF StepInv, AddressInv
  <2>. QED  BY <2>1, <2>2
<1>. QED  BY <1>4, <1>5 DEF Read

\* A resource whose call failed is at rest with the state it had.
LEMMA FailStep ==
    ASSUME IInv, NEW r \in Resources, UNCHANGED <<kind, config>>, Fail(r)
    PROVE  /\ state' \in [Resources -> Entry \cup {None}]
           /\ step' \in [Resources -> Steps]
           /\ StepInv' /\ AddressInv'
<1>1. step' \in [Resources -> Steps]
  BY DEF IInv, TypeOK, Fail, Finish, Steps
<1>2. StepInv'
  BY ConfigKept DEF IInv, TypeOK, StepInv, Fail, Finish
<1>. QED  BY <1>1, <1>2 DEF IInv, TypeOK, AddressInv, Fail

\* A call that failed for good leaves everything well formed.
LEMMA LostStep ==
    ASSUME IInv, NEW r \in Resources, UNCHANGED <<kind, config>>,
           NEW q, q.verb # "nothing" => q \in Request, Lost(r, q)
    PROVE  /\ server' \in [Keys -> SUBSET Values]
           /\ records' \subseteq Keys
           /\ late' \subseteq Request
           /\ faults' \in 0 .. MaxFaults
           /\ state' \in [Resources -> Entry \cup {None}]
           /\ step' \in [Resources -> Steps]
           /\ StepInv' /\ AddressInv'
<1>1. q \in Request /\ q.content \in SUBSET Values
  BY DEF Lost, Request
<1>2. server' \in [Keys -> SUBSET Values] /\ records' \subseteq Keys /\ late' \subseteq Request
  <2>1. CASE UNCHANGED <<server, records, late>>
    BY <2>1 DEF IInv, TypeOK
  <2>2. CASE Takes(q) /\ Serve(q) /\ UNCHANGED late
    BY <1>1, <2>2, ServeType DEF IInv, TypeOK
  <2>3. CASE late' = late \cup {q} /\ UNCHANGED <<server, records>>
    BY <1>1, <2>3 DEF IInv, TypeOK
  <2>. QED  BY <2>1, <2>2, <2>3 DEF Lost
<1>3. faults' \in 0 .. MaxFaults
  BY Counters DEF Lost, IInv
<1>. QED  BY <1>2, <1>3, FailStep DEF Lost

LEMMA WriteStep == ASSUME IInv, NEW r \in Resources, Write(r) PROVE IInv'
<1>. DEFINE q == [verb |-> IF step[r] = "create" THEN Calls.create ELSE Calls.update,
                  key |-> config[r].key, content |-> Content(config[r].value)]
<1>. USE DEF IInv
<1>1. step[r] \in {"create", "update"} /\ UNCHANGED <<kind, config, home, released, edits, outside>>
  BY DEF Write
<1>2. config[r] \in Entry
  BY <1>1, BlocksAreEntries DEF TypeOK, StepInv
<1>3. q.key \in Keys /\ q.content \in SUBSET Values
  BY <1>2, ContentType DEF Entry
<1>4. q.verb # "nothing" => q \in Request
  <2>1. q.verb \in Verbs \cup {"nothing"}
    BY CallTypes DEF TypeOK
  <2>. QED  BY <1>3, <2>1 DEF Request
<1>. HIDE DEF q
<1>5. kind' \in Kinds /\ config' \in [Resources -> Blocks' \cup {None}] /\ Distinct(config')
  BY <1>1, ConfigKept
<1>6. CASE /\ Addressable(q.key) /\ Takes(q) /\ Serve(q)
           /\ state' = [state EXCEPT ![r] = config[r]]
           /\ Finish(r) /\ Answered(q)
  <2>0. late' \subseteq Request /\ faults' \in 0 .. MaxFaults
    BY <1>4, <1>6, AnsweredIs
  <2>1. server' \in [Keys -> SUBSET Values] /\ records' \subseteq Keys
    BY <1>3, <1>6, ServeType
  <2>2. /\ state' \in [Resources -> Entry \cup {None}] /\ step' \in [Resources -> Steps]
        /\ StepInv' /\ AddressInv'
    <3>1. q.key = config[r].key
      BY DEF q
    <3>. QED  BY <1>1, <1>2, <1>6, <3>1, ResourceStep DEF Finish, Steps
  <2>3. TypeOK'
    BY <1>1, <1>5, <2>0, <2>1, <2>2 DEF TypeOK
  <2>. QED  BY <2>2, <2>3
<1>7. CASE Fail(r) /\ NoFault /\ UNCHANGED <<server, records, late>>
  <2>1. /\ state' \in [Resources -> Entry \cup {None}] /\ step' \in [Resources -> Steps]
        /\ StepInv' /\ AddressInv'
    BY <1>1, <1>7, FailStep
  <2>2. TypeOK'
    BY <1>1, <1>5, <1>7, <2>1 DEF TypeOK, NoFault
  <2>. QED  BY <2>1, <2>2
<1>8. CASE Lost(r, q)
  <2>1. /\ server' \in [Keys -> SUBSET Values] /\ records' \subseteq Keys
        /\ late' \subseteq Request /\ faults' \in 0 .. MaxFaults
        /\ state' \in [Resources -> Entry \cup {None}] /\ step' \in [Resources -> Steps]
        /\ StepInv' /\ AddressInv'
    BY <1>1, <1>4, <1>8, LostStep
  <2>2. TypeOK'
    BY <1>1, <1>5, <2>1 DEF TypeOK
  <2>. QED  BY <2>1, <2>2
<1>. QED  BY <1>6, <1>7, <1>8 DEF Write, q

LEMMA DeleteStep == ASSUME IInv, NEW r \in Resources, Delete(r) PROVE IInv'
<1>. DEFINE q == [verb |-> Calls.delete, key |-> Doomed(r), content |-> {}]
<1>. USE DEF IInv
<1>1. step[r] \in {"delete", "replace"} /\ UNCHANGED <<kind, config, home, edits, outside>>
  BY DEF Delete
<1>2. state[r] \in Entry /\ state[r].key \in Keys
  BY <1>1 DEF TypeOK, StepInv, Entry
<1>3. q.key \in Keys /\ q.content \in SUBSET Values
  BY <1>2 DEF Doomed
<1>4. q.verb # "nothing" => q \in Request
  BY <1>3, CallTypes DEF TypeOK, Request, Verbs
<1>. HIDE DEF q
<1>5. kind' \in Kinds /\ config' \in [Resources -> Blocks' \cup {None}] /\ Distinct(config')
  BY <1>1, ConfigKept
<1>6. CASE /\ Serve(q)
           /\ state' = [state EXCEPT ![r] = None]
           /\ step' = [step EXCEPT ![r] = IF @ = "replace" THEN "create" ELSE "rest"]
           /\ released' = released \cup {state[r].key}
           /\ Answered(q)
  <2>0. late' \subseteq Request /\ faults' \in 0 .. MaxFaults
    BY <1>4, <1>6, AnsweredIs
  <2>1. server' \in [Keys -> SUBSET Values] /\ records' \subseteq Keys
    BY <1>3, <1>6, ServeType
  <2>2. /\ state' \in [Resources -> Entry \cup {None}] /\ step' \in [Resources -> Steps]
        /\ StepInv' /\ AddressInv'
    <3>. DEFINE next == IF step[r] = "replace" THEN "create" ELSE "rest"
    <3>1. step' = [step EXCEPT ![r] = next]
      BY <1>6 DEF TypeOK
    <3>2. next \in Steps /\ (next = "create" => config[r] # None)
      BY DEF Steps, StepInv
    <3>3. next \notin {"update", "delete", "replace"}
      OBVIOUS
    <3>. HIDE DEF next
    <3>. QED  BY <1>1, <1>6, <3>1, <3>2, <3>3, ResourceStep
  <2>3. TypeOK'
    BY <1>1, <1>2, <1>5, <1>6, <2>0, <2>1, <2>2 DEF TypeOK
  <2>. QED  BY <2>2, <2>3
<1>7. CASE Lost(r, q) /\ UNCHANGED released
  <2>1. /\ server' \in [Keys -> SUBSET Values] /\ records' \subseteq Keys
        /\ late' \subseteq Request /\ faults' \in 0 .. MaxFaults
        /\ state' \in [Resources -> Entry \cup {None}] /\ step' \in [Resources -> Steps]
        /\ StepInv' /\ AddressInv'
    BY <1>1, <1>4, <1>7, LostStep
  <2>2. TypeOK'
    BY <1>1, <1>5, <1>7, <2>1 DEF TypeOK
  <2>. QED  BY <2>1, <2>2
<1>. QED  BY <1>6, <1>7 DEF Delete, q

LEMMA ImportStep == ASSUME IInv, NEW r \in Resources, Import(r) PROVE IInv'
<1>. USE DEF IInv
<1>1. UNCHANGED <<kind, config, step, serverVars, released, faults, outside>>
  BY DEF Import
<1>2. PICK s \in Observed(config[r].key) : state' = [state EXCEPT ![r] = s]
  BY DEF Import
<1>3. config[r] \in Entry /\ Addressable(config[r].key)
  BY BlocksAreEntries DEF Import, TypeOK
<1>4. s \in Entry /\ s.key = config[r].key
  <2>1. config[r].key \in Keys /\ server[config[r].key] \subseteq Values
    BY <1>3 DEF Entry, TypeOK
  <2>2. PICK v \in server[config[r].key] : s = [key |-> config[r].key, value |-> v]
    BY DEF Observed
  <2>. QED  BY <2>1, <2>2 DEF Entry
<1>5. step' = [step EXCEPT ![r] = "rest"]
  BY <1>1 DEF Import, Resting, TypeOK
<1>6. /\ state' \in [Resources -> Entry \cup {None}] /\ step' \in [Resources -> Steps]
      /\ StepInv' /\ AddressInv'
  BY <1>1, <1>2, <1>3, <1>4, <1>5, ResourceStep DEF Steps
<1>7. kind' \in Kinds /\ config' \in [Resources -> Blocks' \cup {None}] /\ Distinct(config')
  BY <1>1, ConfigKept
<1>8. edits' \in 0 .. MaxEdits
  BY Counters DEF Import
<1>9. TypeOK'
  BY <1>1, <1>6, <1>7, <1>8 DEF TypeOK, serverVars
<1>. QED  BY <1>6, <1>9

LEMMA EditStep == ASSUME IInv, Edit PROVE IInv'
<1>. USE DEF IInv
<1>1. UNCHANGED <<kind, state, step, serverVars, released, faults, outside>>
  BY DEF Edit
<1>2. Blocks' = Blocks /\ (ACL' <=> ACL)
  BY <1>1 DEF Blocks, Schema, ACL
<1>3. config' \in [Resources -> Blocks \cup {None}] /\ Distinct(config')
  <2>1. ASSUME NEW r \in Resources, NEW c \in Blocks \cup {None}, config' = [config EXCEPT ![r] = c]
        PROVE  config' \in [Resources -> Blocks \cup {None}]
    BY <2>1 DEF TypeOK
  <2>2. ASSUME NEW r \in Resources, NEW s \in Resources,
               config' = [config EXCEPT ![r] = config[s], ![s] = config[r]]
        PROVE  config' \in [Resources -> Blocks \cup {None}]
    BY <2>2 DEF TypeOK
  <2>. QED  BY <2>1, <2>2 DEF Edit
<1>4. edits' \in 0 .. MaxEdits
  BY Counters DEF Edit
<1>5. TypeOK'
  BY <1>1, <1>2, <1>3, <1>4 DEF TypeOK, serverVars
<1>6. StepInv' /\ AddressInv'
  BY <1>1 DEF Edit, Resting, StepInv, AddressInv, Addressable
<1>. QED  BY <1>5, <1>6

LEMMA OutsideStep == ASSUME IInv, Outside PROVE IInv'
<1>. USE DEF IInv
<1>1. UNCHANGED <<kind, config, state, step, late, released, faults, edits>>
  BY DEF Outside
<1>2. kind' \in Kinds /\ config' \in [Resources -> Blocks' \cup {None}] /\ Distinct(config')
      /\ (ACL' <=> ACL)
  BY <1>1, ConfigKept
<1>3. home' \in BOOLEAN /\ server' \in [Keys -> SUBSET Values] /\ records' \subseteq Keys
  <2>1. \A content \in Contents : content \in SUBSET Values
    BY ValuesAssumption DEF Contents, ValuesOf
  <2>2. ASSUME NEW key \in KeysOf(kind) \ Reserved, NEW content \in Contents \ {{}},
               server' = [server EXCEPT ![key] = content], UNCHANGED <<home, records>>
        PROVE  home' \in BOOLEAN /\ server' \in [Keys -> SUBSET Values] /\ records' \subseteq Keys
    BY <2>1, <2>2 DEF TypeOK
  <2>3. ASSUME NEW key \in KeysOf(kind) \ Reserved, server' = [server EXCEPT ![key] = {}],
               records' = records \ {key}, UNCHANGED home
        PROVE  home' \in BOOLEAN /\ server' \in [Keys -> SUBSET Values] /\ records' \subseteq Keys
    BY <2>3 DEF TypeOK
  <2>4. ASSUME NEW key \in Keys, records' = records \cup {key}, UNCHANGED <<home, server>>
        PROVE  home' \in BOOLEAN /\ server' \in [Keys -> SUBSET Values] /\ records' \subseteq Keys
    BY <2>4 DEF TypeOK
  <2>5. CASE home' = FALSE /\ server' = [key \in Keys |-> {}] /\ UNCHANGED records
    BY <2>5 DEF TypeOK
  <2>. QED  BY <2>2, <2>3, <2>4, <2>5 DEF Outside
<1>4. outside' \in 0 .. MaxOutside
  BY Counters DEF Outside
<1>5. TypeOK'
  BY <1>1, <1>2, <1>3, <1>4 DEF TypeOK
<1>6. StepInv' /\ AddressInv'
  BY <1>1, <1>2 DEF StepInv, AddressInv, Addressable
<1>. QED  BY <1>5, <1>6

LEMMA DeliverStep == ASSUME IInv, NEW q \in late, Deliver(q) PROVE IInv'
<1>. USE DEF IInv
<1>1. UNCHANGED <<kind, config, state, step, home, released, bounds>> /\ late' = late \ {q}
  BY DEF Deliver
<1>2. kind' \in Kinds /\ config' \in [Resources -> Blocks' \cup {None}] /\ Distinct(config')
      /\ (ACL' <=> ACL)
  BY <1>1, ConfigKept
<1>3. q.content \in SUBSET Values
  BY DEF TypeOK, Request
<1>4. server' \in [Keys -> SUBSET Values] /\ records' \subseteq Keys
  BY <1>3, ServeType DEF Deliver, TypeOK
<1>5. TypeOK'
  BY <1>1, <1>2, <1>4 DEF TypeOK, bounds
<1>6. StepInv' /\ AddressInv'
  BY <1>1, <1>2 DEF StepInv, AddressInv, Addressable
<1>. QED  BY <1>5, <1>6

LEMMA StutterStep == ASSUME IInv, UNCHANGED vars PROVE IInv'
<1>1. kind' \in Kinds /\ config' \in [Resources -> Blocks' \cup {None}] /\ Distinct(config')
      /\ (ACL' <=> ACL)
  BY ConfigKept DEF IInv, vars
<1>2. TypeOK'
  BY <1>1 DEF IInv, TypeOK, vars, serverVars, bounds
<1>3. StepInv' /\ AddressInv'
  BY <1>1 DEF IInv, StepInv, AddressInv, Addressable, vars
<1>. QED  BY <1>2, <1>3 DEF IInv

LEMMA NextIInv == ASSUME IInv, [Next]_vars PROVE IInv'
<1>1. CASE StartRun
  BY <1>1, StartRunStep
<1>2. ASSUME NEW r \in Resources, Operate(r) \/ Import(r)
      PROVE  IInv'
  BY <1>2, ReadStep, WriteStep, DeleteStep, ImportStep DEF Operate
<1>3. CASE Edit
  BY <1>3, EditStep
<1>4. CASE Outside
  BY <1>4, OutsideStep
<1>5. ASSUME NEW q \in late, Deliver(q)
      PROVE  IInv'
  BY <1>5, DeliverStep
<1>6. CASE UNCHANGED vars
  BY <1>6, StutterStep
<1>. QED  BY <1>1, <1>2, <1>3, <1>4, <1>5, <1>6 DEF Next

LEMMA Invariance == Spec => []IInv
BY InitIInv, NextIInv, PTL DEF Spec

\* The variables keep their types, for every instance.
THEOREM TypeCorrect == Spec => []TypeOK
<1>1. IInv => TypeOK
  BY DEF IInv
<1>. QED  BY <1>1, Invariance, PTL

-----------------------------------------------------------------------------
(***************************************************************************)
(* A second invariant: what holds besides as long as nobody interferes and *)
(* every call is answered.                                                 *)
(***************************************************************************)

\* A key is created when the state has none, and only an ACL is updated from
\* one server to another.
PlanInv ==
    \A r \in Resources :
        /\ step[r] = "create" => state[r] = None
        /\ step[r] = "update" /\ ~ACL => config[r].key = state[r].key

Calm == home /\ late = {}

\* The server never holds two objects under a key.
Plain ==
    \A key \in Keys : server[key] = {} \/ \E v \in ValuesOf(kind) : server[key] = {v}

\* Whatever can be updated has a call that does it.
Worth == \A r \in Resources : step[r] = "update" => Calls.update # "nothing"

Owned ==
    ~ACL => \A key \in Keys \ Reserved :
                server[key] # {} => \E r \in Resources : state[r].key = key

\* Within a run, a resource that has nothing more to do has the key of its
\* block; between runs an edit may have changed the block.
Done ==
    ~Resting => \A r \in Resources :
        step[r] = "rest" /\ state[r] # None => config[r].key = state[r].key

\* A resource whose entry the current run has no reason to give up.
Staying(r) ==
    /\ state[r] # None
    /\ \/ step[r] = "rest"
       \/ step[r] = "update" /\ config[r].key = state[r].key

Matches(r) == server[state[r].key] = Content(state[r].value)
Reported == \A r \in Resources : Staying(r) => state[r].key \in released \/ Matches(r)

Quiet == Calm /\ Plain /\ Worth /\ Owned /\ Done /\ Reported
QuietInv == PlanInv /\ (Undisturbed => Quiet)

\* The calls of the kinds: every creation calls the server, an update that
\* does not is one that never comes to pass, and an ACL is always written.
LEMMA CallsAreWorth ==
    ASSUME kind \in Kinds
    PROVE  /\ Calls.create # "nothing"
           /\ ACL => Calls.create = "put" /\ Calls.update = "put"
           /\ ~ACL => "key" \in Schema.replacedBy
           /\ Calls.update = "nothing" => kind = "view_zone" \/ "value" \in Schema.replacedBy
           /\ kind = "view_zone" => Schema.empty = FALSE
<1>1. kind \in AllKinds
  BY KindsAssumption
<1>. USE DEF Calls, Schema, ACL
<1>2. CASE kind = "metadata"
  BY <1>2 DEF MetadataCalls, MetadataSchema
<1>3. CASE kind = "network"
  BY <1>3 DEF NetworkCalls, NetworkSchema
<1>4. CASE kind = "view_zone"
  BY <1>4 DEF ViewZoneCalls, ViewZoneSchema
<1>5. CASE kind = "autoprimary"
  BY <1>5 DEF AutoprimaryCalls, AutoprimarySchema
<1>6. CASE kind = "tsigkey"
  BY <1>6 DEF TSIGKeyCalls, TSIGKeySchema
<1>7. CASE kind = "recursor_zone"
  BY <1>7 DEF RecursorZoneCalls, RecursorZoneSchema
<1>8. CASE kind = "recursor_acl"
  BY <1>8 DEF RecursorACLCalls
<1>9. CASE kind = "dnsdist_acl"
  BY <1>9 DEF DNSDistACLCalls
<1>. QED  BY <1>1, <1>2, <1>3, <1>4, <1>5, <1>6, <1>7, <1>8, <1>9 DEF AllKinds

\* An ACL has an address that no metadata kind reserves.
LEMMA ACLKeys == ASSUME ACL, NEW b \in Blocks PROVE Addressable(b.key)
<1>1. kind # "metadata"
  BY DEF ACL
<1>2. (CHOOSE key \in Keys \ Reserved : TRUE) \in Keys \ Reserved
  BY KeysAssumption
<1>3. KeysOf(kind) \subseteq Keys \ Reserved
  BY <1>1, <1>2 DEF KeysOf
<1>. QED  BY <1>3 DEF Blocks, Addressable

\* A block leaves nothing or one value of its kind.
LEMMA ContentIsPlain ==
    ASSUME kind \in Kinds, NEW b \in Blocks
    PROVE  Content(b.value) = {} \/ \E v \in ValuesOf(kind) : Content(b.value) = {v}
<1>1. Unset \in ValuesOf(kind)
  BY ValuesAssumption DEF ValuesOf
<1>2. b.value # "empty" => b.value \in ValuesOf(kind)
  BY DEF Blocks
<1>. QED  BY <1>1, <1>2 DEF Content

\* Where no key has two objects, a Read reports exactly what is there.
LEMMA FoundIsThere ==
    ASSUME TypeOK, Plain, NEW s \in Entry \cup {None}, NEW f \in Found(s), f # None
    PROVE  /\ f.key = s.key /\ f.key \in Keys
           /\ f.value \in ValuesOf(kind)
           /\ server[f.key] = Content(f.value)
<1>1. s \in Entry /\ s.key \in Keys /\ server[s.key] # {}
  BY NoneIsNothing, GoneIs DEF Found, Entry
<1>2. PICK v \in server[s.key] : f = [key |-> s.key, value |-> v]
  BY <1>1, GoneIs DEF Found, Observed
<1>3. server[s.key] = {v} /\ v \in ValuesOf(kind)
  BY <1>1, <1>2 DEF Plain
<1>4. v # "empty"
  BY <1>3, ValuesAssumption DEF ValuesOf
<1>. QED  BY <1>1, <1>2, <1>3, <1>4 DEF Content

\* The same of an import.
LEMMA ObservedIsThere ==
    ASSUME TypeOK, Plain, NEW key \in Keys, NEW f \in Observed(key)
    PROVE  /\ f.key = key
           /\ server[f.key] = Content(f.value)
<1>1. PICK v \in server[key] : f = [key |-> key, value |-> v]
  BY DEF Observed
<1>2. server[key] = {v} /\ v \in ValuesOf(kind)
  BY <1>1 DEF Plain
<1>3. v # "empty"
  BY <1>2, ValuesAssumption DEF ValuesOf
<1>. QED  BY <1>1, <1>2, <1>3 DEF Content

\* What is planned and from what.
LEMMA ActionIs ==
    ASSUME kind \in Kinds, NEW c \in Blocks \cup {None}, NEW s \in Entry \cup {None}
    PROVE  /\ Action(c, s) = "create" => s = None
           /\ Action(c, s) = "update" /\ ~ACL => c.key = s.key
           /\ Action(c, s) = "rest" /\ s # None => c.key = s.key
           /\ Action(c, s) = "update" /\ s.value \in ValuesOf(kind) => Calls.update # "nothing"
<1>1. CASE c = None
  BY <1>1 DEF Action
<1>2. CASE c # None /\ s = None
  BY <1>2 DEF Action
<1>3. CASE c # None /\ s # None
  <2>1. c \in Blocks /\ c \in Entry /\ s \in Entry
    BY <1>3, BlocksAreEntries
  <2>2. Action(c, s) = (IF RequiresReplace(c, s) THEN "replace"
                        ELSE IF c # s THEN "update" ELSE "rest")
    BY <1>3 DEF Action
  <2>3. c.key = s.key /\ c.value = s.value => c = s
    BY <2>1 DEF Entry
  <2>4. kind = "view_zone" => c.value = Unset /\ (s.value \in ValuesOf(kind) => s.value = Unset)
    BY <2>1, CallsAreWorth DEF Blocks, ValuesOf
  <2>. QED  BY <2>2, <2>3, <2>4, CallsAreWorth DEF RequiresReplace
<1>. QED  BY <1>1, <1>2, <1>3

\* No key is the key of an absent entry.
LEMMA KeyOfSomething ==
    ASSUME TypeOK, NEW r \in Resources
    PROVE  /\ state[r].key \in Keys <=> state[r] # None
           /\ config[r].key \in Keys <=> config[r] # None
<1>1. state[r] \in Entry \cup {None} /\ config[r] \in Entry \cup {None}
  BY BlocksAreEntries DEF TypeOK
<1>. QED  BY <1>1, NoneIsNothing DEF Entry

LEMMA InitQuiet == ASSUME Init PROVE QuietInv
<1>1. Unset \in ValuesOf(kind)
  BY ValuesAssumption DEF ValuesOf
<1>2. PlanInv /\ Calm /\ Plain /\ Worth /\ Done /\ Reported
  BY <1>1 DEF Init, PlanInv, Calm, Plain, Worth, Done, Reported, Resting, Staying
<1>3. Owned
  BY DEF Init, Owned, Given
<1>. QED  BY <1>2, <1>3 DEF QuietInv, Quiet

\* As long as the kind and the server stay, so does what is said of them.
LEMMA ServerKept ==
    ASSUME UNCHANGED <<kind, server>>
    PROVE  /\ Plain' <=> Plain
           /\ ACL' <=> ACL
           /\ Calls' = Calls
           /\ \A v : Content(v)' = Content(v)
BY DEF Plain, ACL, Calls, Content

LEMMA StartRunQuiet == ASSUME IInv, QuietInv, StartRun PROVE QuietInv'
<1>1. UNCHANGED <<kind, config, state, home, server, late, faults, outside>>
      /\ \A r \in Resources : step'[r] = "refresh"
  BY DEF StartRun, serverVars, bounds
<1>2. PlanInv'
  BY <1>1 DEF PlanInv
<1>3. ASSUME Undisturbed PROVE Quiet'
  <2>1. Calm' /\ Plain' /\ Owned'
    BY <1>1, <1>3, ServerKept DEF QuietInv, Quiet, Calm, Owned
  <2>2. Worth' /\ Done' /\ Reported'
    BY <1>1 DEF Worth, Done, Reported, Staying
  <2>. QED  BY <2>1, <2>2 DEF Quiet
<1>. QED  BY <1>1, <1>2, <1>3 DEF QuietInv, Undisturbed

LEMMA ReadQuiet == ASSUME IInv, QuietInv, NEW r \in Resources, Read(r) PROVE QuietInv'
<1>. USE DEF IInv
<1>0. /\ step[r] = "refresh"
      /\ UNCHANGED <<kind, config, home, server, late, released, edits, outside>>
  BY DEF Read, serverVars
<1>1. CASE step' = [s \in Resources |-> "rest"] /\ Fault /\ UNCHANGED state
  <2>1. faults' # 0
    BY <1>1, BoundsAreNat DEF Fault, TypeOK
  <2>. QED  BY <1>1, <2>1 DEF QuietInv, PlanInv, Undisturbed
<1>2. ASSUME NEW f \in Found(state[r]), state' = [state EXCEPT ![r] = f],
             step' = [step EXCEPT ![r] = Action(config[r], f)], NoFault
      PROVE  QuietInv'
  <2>1. /\ kind \in Kinds /\ config[r] \in Blocks \cup {None} /\ state[r] \in Entry \cup {None}
        /\ f \in Entry \cup {None}
    BY FoundType DEF TypeOK
  <2>2. /\ state'[r] = f /\ step'[r] = Action(config[r], f)
        /\ \A s \in Resources : s # r => state'[s] = state[s] /\ step'[s] = step[s]
    BY <1>2 DEF TypeOK
  <2>3. PlanInv'
    BY <1>0, <2>1, <2>2, ActionIs, ServerKept DEF PlanInv, QuietInv
  <2>4. ASSUME Undisturbed PROVE Quiet'
    <3>0. home /\ late = {} /\ Plain /\ Worth /\ Owned /\ Done /\ Reported
      BY <2>4 DEF QuietInv, Quiet, Calm
    <3>1. Calm' /\ Plain'
      BY <1>0, <3>0, ServerKept DEF Calm
    <3>f. f # None => /\ f.key = state[r].key
                      /\ f.value \in ValuesOf(kind)
                      /\ server[f.key] = Content(f.value)
      BY <2>1, <3>0, FoundIsThere
    <3>2. Worth'
      <4>1. step'[r] = "update" => Calls.update # "nothing"
        <5>1. step'[r] = "update" => f # None
          BY <2>1, <2>2, ActionType, BlocksAreEntries
        <5>. QED  BY <2>1, <2>2, <3>f, <5>1, ActionIs
      <4>. QED  BY <1>0, <2>2, <3>0, <4>1, ServerKept DEF Worth
    <3>3. Owned'
      <4>. SUFFICES ASSUME ~ACL, NEW key \in Keys \ Reserved, server[key] # {}
                    PROVE  \E s \in Resources : state'[s].key = key
        BY <1>0, ServerKept DEF Owned
      <4>1. PICK s \in Resources : state[s].key = key
        BY <3>0 DEF Owned
      <4>2. CASE s = r
        <5>1. f # None
          BY <2>1, <4>1, <4>2, FoundType, KeyOfSomething
        <5>. QED  BY <2>2, <3>f, <4>1, <4>2, <5>1
      <4>. QED  BY <2>2, <4>1, <4>2
    <3>4. Done'
      <4>1. ~Resting
        BY <1>0 DEF Resting
      <4>. QED  BY <1>0, <2>1, <2>2, <3>0, <4>1, ActionIs DEF Done
    <3>5. Reported'
      <4>1. f # None => Matches(r)'
        BY <1>0, <2>2, <3>f, ServerKept DEF Matches
      <4>2. \A s \in Resources : s # r => (Staying(s)' => state'[s].key \in released' \/ Matches(s)')
        BY <1>0, <2>2, <3>0, ServerKept DEF Reported, Staying, Matches
      <4>. QED  BY <2>2, <4>1, <4>2 DEF Reported, Staying
    <3>. QED  BY <3>1, <3>2, <3>3, <3>4, <3>5 DEF Quiet
  <2>. QED  BY <1>0, <1>2, <2>3, <2>4 DEF QuietInv, Undisturbed, NoFault
<1>. QED  BY <1>1, <1>2 DEF Read

\* A resource that failed has nothing planned any more; a call that got no
\* answer is a disturbance.
LEMMA FailPlan ==
    ASSUME IInv, QuietInv, NEW r \in Resources, Fail(r), UNCHANGED <<kind, config>>
    PROVE  /\ PlanInv'
           /\ step'[r] = "rest" /\ state' = state
           /\ \A s \in Resources : s # r => step'[s] = step[s]
<1>1. /\ step'[r] = "rest" /\ state' = state
      /\ \A s \in Resources : s # r => step'[s] = step[s]
  BY DEF IInv, TypeOK, Fail, Finish
<1>2. ACL' <=> ACL
  BY DEF ACL
<1>. QED  BY <1>1, <1>2 DEF QuietInv, PlanInv

LEMMA LostQuiet ==
    ASSUME IInv, QuietInv, NEW r \in Resources, NEW q, Lost(r, q), UNCHANGED <<kind, config>>
    PROVE  QuietInv'
<1>1. faults' # 0
  BY BoundsAreNat DEF Lost, Fault, IInv, TypeOK
<1>2. PlanInv'
  BY FailPlan DEF Lost
<1>. QED  BY <1>1, <1>2 DEF QuietInv, Undisturbed

LEMMA WriteQuiet == ASSUME IInv, QuietInv, NEW r \in Resources, Write(r) PROVE QuietInv'
<1>. DEFINE q == [verb |-> IF step[r] = "create" THEN Calls.create ELSE Calls.update,
                  key |-> config[r].key, content |-> Content(config[r].value)]
<1>. USE DEF IInv
<1>0. /\ step[r] \in {"create", "update"} /\ config[r] # None
      /\ UNCHANGED <<kind, config, home, released, edits, outside>>
  BY DEF Write, StepInv
<1>a. /\ config[r] \in Blocks /\ config[r] \in Entry /\ config[r].key \in Keys
      /\ kind \in Kinds
  BY <1>0, BlocksAreEntries DEF TypeOK, Entry
<1>b. /\ q.key = config[r].key /\ q.content = Content(config[r].value)
      /\ q.verb = IF step[r] = "create" THEN Calls.create ELSE Calls.update
  OBVIOUS
<1>q. q.verb # "nothing" => q \in Request
  <2>1. q.verb \in Verbs \cup {"nothing"}
    BY CallTypes DEF TypeOK
  <2>2. q.content \in SUBSET Values
    BY <1>a, ContentType DEF Entry
  <2>. QED  BY <1>a, <2>1, <2>2 DEF Request
<1>n. ~Resting
  BY <1>0 DEF Resting
<1>. HIDE DEF q
<1>1. CASE Lost(r, q)
  BY <1>0, <1>1, LostQuiet
<1>2. CASE /\ ~Addressable(q.key) \/ Refuses(q)
           /\ Fail(r)
           /\ NoFault /\ UNCHANGED <<server, records, late>>
  <2>1. /\ PlanInv' /\ step'[r] = "rest" /\ state' = state
        /\ \A s \in Resources : s # r => step'[s] = step[s]
    BY <1>0, <1>2, FailPlan
  <2>2. ASSUME Undisturbed PROVE Quiet'
    <3>0. home /\ late = {} /\ Plain /\ Worth /\ Owned /\ Done /\ Reported
      BY <2>2 DEF QuietInv, Quiet, Calm
    <3>1. Calm' /\ Plain' /\ Owned' /\ Worth'
      BY <1>0, <1>2, <2>1, <3>0, ServerKept DEF Calm, Owned, Worth
    <3>2. state[r] # None => step[r] = "update" /\ config[r].key = state[r].key
      <4>1. ~ACL
        <5>. SUFFICES ASSUME ACL PROVE FALSE
          OBVIOUS
        <5>1. Addressable(q.key) /\ q.verb = "put"
          BY <1>a, <1>b, ACLKeys, CallsAreWorth
        <5>. QED  BY <1>2, <3>0, <5>1 DEF Refuses
      <4>. QED  BY <1>0, <4>1 DEF QuietInv, PlanInv
    <3>3. Done'
      BY <1>0, <1>n, <2>1, <3>0, <3>2 DEF Done
    <3>4. Reported'
      <4>1. \A s \in Resources : Staying(s)' => Staying(s)
        BY <1>0, <2>1, <3>2 DEF Staying
      <4>. QED  BY <1>0, <1>2, <2>1, <3>0, <4>1, ServerKept DEF Reported, Matches
    <3>. QED  BY <3>1, <3>3, <3>4 DEF Quiet
  <2>. QED  BY <1>0, <1>2, <2>1, <2>2 DEF QuietInv, Undisturbed, NoFault
<1>3. CASE /\ Addressable(q.key) /\ Takes(q)
           /\ Serve(q)
           /\ state' = [state EXCEPT ![r] = config[r]]
           /\ Finish(r)
           /\ Answered(q)
  <2>0. faults' = 0 => faults' = faults /\ late' = late
    BY <1>q, <1>3, AnsweredIs
  <2>1. /\ state'[r] = config[r] /\ step'[r] = "rest"
        /\ \A s \in Resources : s # r => state'[s] = state[s] /\ step'[s] = step[s]
    BY <1>3 DEF TypeOK, Finish
  <2>2. ACL' <=> ACL
    BY <1>0 DEF ACL
  <2>3. PlanInv'
    BY <1>0, <2>1, <2>2 DEF QuietInv, PlanInv
  <2>4. ASSUME Undisturbed, Undisturbed' PROVE Quiet'
    <3>0. home /\ late = {} /\ Plain /\ Worth /\ Owned /\ Done /\ Reported
      BY <2>4 DEF QuietInv, Quiet, Calm
    <3>s. /\ server'[config[r].key] = Content(config[r].value)
          /\ \A key \in Keys : key # config[r].key => server'[key] = server[key]
      <4>1. q.verb # "nothing"
        BY <1>0, <1>a, <1>b, <3>0, CallsAreWorth DEF Worth
      <4>2. server' = [server EXCEPT ![q.key] = q.content]
        BY <1>3, <4>1 DEF Serve
      <4>. QED  BY <1>a, <1>b, <4>2 DEF TypeOK
    <3>v. ValuesOf(kind)' = ValuesOf(kind) /\ Calls' = Calls /\ \A v : Content(v)' = Content(v)
      BY <1>0 DEF ValuesOf, Calls, Content
    <3>1. Calm' /\ Worth'
      BY <1>0, <2>0, <2>1, <2>4, <3>0, <3>v DEF Calm, Worth, Undisturbed
    <3>2. Plain'
      <4>. SUFFICES ASSUME NEW key \in Keys
                    PROVE  server'[key] = {} \/ \E v \in ValuesOf(kind) : server'[key] = {v}
        BY <3>v DEF Plain
      <4>. QED  BY <1>a, <3>0, <3>s, ContentIsPlain DEF Plain
    <3>3. Owned'
      <4>. SUFFICES ASSUME ~ACL, NEW key \in Keys \ Reserved, server'[key] # {}
                    PROVE  \E s \in Resources : state'[s].key = key
        BY <2>2 DEF Owned
      <4>1. CASE key = config[r].key
        BY <2>1, <4>1
      <4>2. CASE key # config[r].key
        <5>1. PICK s \in Resources : state[s].key = key
          BY <3>0, <3>s, <4>2 DEF Owned
        <5>2. s # r
          BY <1>0, <4>2, <5>1, KeyOfSomething DEF QuietInv, PlanInv
        <5>. QED  BY <2>1, <5>1, <5>2
      <4>. QED  BY <4>1, <4>2
    <3>4. Done'
      BY <1>0, <1>n, <2>1, <3>0 DEF Done
    <3>5. Reported'
      <4>1. Matches(r)'
        BY <2>1, <3>s, <3>v DEF Matches
      <4>2. ASSUME NEW s \in Resources, s # r, Staying(s)'
            PROVE  state'[s].key \in released' \/ Matches(s)'
        <5>1. Staying(s) /\ state'[s] = state[s]
          BY <1>0, <2>1, <4>2 DEF Staying
        <5>2. config[s].key = state[s].key
          BY <1>n, <3>0, <5>1 DEF Done, Staying
        <5>3. state[s].key \in Keys /\ config[s] # None
          BY <5>1, <5>2, KeyOfSomething DEF Staying
        <5>4. state[s].key # config[r].key
          BY <4>2, <5>2, <5>3 DEF TypeOK, Distinct
        <5>. QED  BY <1>0, <3>0, <3>s, <3>v, <5>1, <5>3, <5>4 DEF Reported, Matches
      <4>. QED  BY <4>1, <4>2 DEF Reported
    <3>. QED  BY <3>1, <3>2, <3>3, <3>4, <3>5 DEF Quiet
  <2>. QED  BY <1>0, <2>0, <2>3, <2>4 DEF QuietInv, Undisturbed
<1>. QED  BY <1>1, <1>2, <1>3 DEF Write, q

LEMMA DeleteQuiet == ASSUME IInv, QuietInv, NEW r \in Resources, Delete(r) PROVE QuietInv'
<1>. DEFINE q == [verb |-> Calls.delete, key |-> Doomed(r), content |-> {}]
<1>. USE DEF IInv
<1>0. /\ step[r] \in {"delete", "replace"} /\ state[r] # None
      /\ UNCHANGED <<kind, config, home, edits, outside>>
  BY DEF Delete, StepInv
<1>a. /\ q.key = state[r].key /\ q.content = {} /\ q.verb = (IF ACL THEN "nothing" ELSE "delete")
      /\ state[r].key \in Keys
  BY <1>0, CallTypes, KeyOfSomething DEF Doomed, TypeOK
<1>q. q.verb # "nothing" => q \in Request
  BY <1>a DEF Request, Verbs
<1>n. ~Resting
  BY <1>0 DEF Resting
<1>. HIDE DEF q
<1>1. CASE Lost(r, q) /\ UNCHANGED released
  BY <1>0, <1>1, LostQuiet
<1>2. CASE /\ Serve(q)
           /\ state' = [state EXCEPT ![r] = None]
           /\ step' = [step EXCEPT ![r] = IF @ = "replace" THEN "create" ELSE "rest"]
           /\ released' = released \cup {state[r].key}
           /\ Answered(q)
  <2>0. faults' = 0 => faults' = faults /\ late' = late
    BY <1>q, <1>2, AnsweredIs
  <2>1. /\ state'[r] = None /\ step'[r] \in {"create", "rest"}
        /\ \A s \in Resources : s # r => state'[s] = state[s] /\ step'[s] = step[s]
    BY <1>2 DEF TypeOK
  <2>2. ACL' <=> ACL
    BY <1>0 DEF ACL
  <2>3. PlanInv'
    BY <1>0, <2>1, <2>2 DEF QuietInv, PlanInv
  <2>s. /\ \A key \in Keys : key # state[r].key => server'[key] = server[key]
        /\ \A key \in Keys : server'[key] = {} \/ server'[key] = server[key]
        /\ ~ACL => server'[state[r].key] = {}
    BY <1>2, <1>a DEF Serve, TypeOK
  <2>4. ASSUME Undisturbed, Undisturbed' PROVE Quiet'
    <3>0. home /\ late = {} /\ Plain /\ Worth /\ Owned /\ Done /\ Reported
      BY <2>4 DEF QuietInv, Quiet, Calm
    <3>v. ValuesOf(kind)' = ValuesOf(kind) /\ Calls' = Calls /\ \A v : Content(v)' = Content(v)
      BY <1>0 DEF ValuesOf, Calls, Content
    <3>1. Calm' /\ Worth' /\ Plain'
      BY <1>0, <2>0, <2>1, <2>s, <2>4, <3>0, <3>v DEF Calm, Worth, Plain, Undisturbed
    <3>2. Owned'
      <4>. SUFFICES ASSUME ~ACL, NEW key \in Keys \ Reserved, server'[key] # {}
                    PROVE  \E s \in Resources : state'[s].key = key
        BY <2>2 DEF Owned
      <4>1. key # state[r].key
        BY <2>s
      <4>2. PICK s \in Resources : state[s].key = key
        BY <2>s, <3>0, <4>1 DEF Owned
      <4>. QED  BY <2>1, <4>1, <4>2
    <3>3. Done'
      BY <1>0, <1>n, <2>1, <3>0 DEF Done
    <3>4. Reported'
      <4>. SUFFICES ASSUME NEW s \in Resources, Staying(s)'
                    PROVE  state'[s].key \in released' \/ Matches(s)'
        BY DEF Reported
      <4>1. s # r
        BY <2>1 DEF Staying
      <4>2. Staying(s) /\ state'[s] = state[s] /\ state[s].key \in Keys
        BY <1>0, <2>1, <4>1, KeyOfSomething DEF Staying
      <4>3. CASE state[s].key = state[r].key
        BY <1>2, <4>2, <4>3
      <4>4. CASE state[s].key # state[r].key
        BY <1>2, <2>s, <3>0, <3>v, <4>2, <4>4 DEF Reported, Matches
      <4>. QED  BY <4>3, <4>4
    <3>. QED  BY <3>1, <3>2, <3>3, <3>4 DEF Quiet
  <2>. QED  BY <1>0, <2>0, <2>3, <2>4 DEF QuietInv, Undisturbed
<1>. QED  BY <1>1, <1>2 DEF Delete, q

LEMMA ImportQuiet == ASSUME IInv, QuietInv, NEW r \in Resources, Import(r) PROVE QuietInv'
<1>. USE DEF IInv
<1>0. /\ Resting /\ config[r] # None /\ state[r] = None
      /\ UNCHANGED <<kind, config, step, home, server, late, released, faults, outside>>
  BY DEF Import, serverVars
<1>1. PICK f \in Observed(config[r].key) : state' = [state EXCEPT ![r] = f]
  BY DEF Import
<1>2. /\ state'[r] = f
      /\ \A s \in Resources : s # r => state'[s] = state[s]
  BY <1>1 DEF TypeOK
<1>3. PlanInv'
  BY <1>0 DEF PlanInv, Resting
<1>4. ASSUME Undisturbed PROVE Quiet'
  <2>0. home /\ late = {} /\ Plain /\ Worth /\ Owned /\ Reported
    BY <1>4 DEF QuietInv, Quiet, Calm
  <2>1. Calm' /\ Plain' /\ Worth'
    BY <1>0, <2>0, ServerKept DEF Calm, Worth
  <2>2. Owned'
    <3>. SUFFICES ASSUME ~ACL, NEW key \in Keys \ Reserved, server[key] # {}
                  PROVE  \E s \in Resources : state'[s].key = key
      BY <1>0, ServerKept DEF Owned
    <3>1. PICK s \in Resources : state[s].key = key
      BY <2>0 DEF Owned
    <3>2. s # r
      BY <1>0, <3>1, NoneIsNothing
    <3>. QED  BY <1>2, <3>1, <3>2
  <2>3. Done'
    BY <1>0 DEF Done, Resting
  <2>4. Reported'
    <3>1. Matches(r)'
      <4>1. config[r].key \in Keys
        BY <1>0, KeyOfSomething
      <4>. QED  BY <1>0, <1>2, <2>0, <4>1, ObservedIsThere, ServerKept DEF Matches
    <3>2. \A s \in Resources : s # r => (Staying(s)' => state'[s].key \in released' \/ Matches(s)')
      BY <1>0, <1>2, <2>0, ServerKept DEF Reported, Staying, Matches
    <3>. QED  BY <3>1, <3>2 DEF Reported
  <2>. QED  BY <2>1, <2>2, <2>3, <2>4 DEF Quiet
<1>. QED  BY <1>0, <1>3, <1>4 DEF QuietInv, Undisturbed

LEMMA EditQuiet == ASSUME IInv, QuietInv, Edit PROVE QuietInv'
<1>0. /\ Resting
      /\ UNCHANGED <<kind, state, step, home, server, late, released, faults, outside>>
  BY DEF Edit, serverVars
<1>1. PlanInv'
  BY <1>0 DEF PlanInv, Resting
<1>2. ASSUME Undisturbed PROVE Quiet'
  <2>0. home /\ late = {} /\ Plain /\ Worth /\ Owned /\ Reported
    BY <1>2 DEF QuietInv, Quiet, Calm
  <2>1. Calm' /\ Plain' /\ Worth' /\ Owned'
    BY <1>0, <2>0, ServerKept DEF Calm, Worth, Owned
  <2>2. Done' /\ Reported'
    BY <1>0, <2>0, ServerKept DEF Done, Resting, Reported, Staying, Matches
  <2>. QED  BY <2>1, <2>2 DEF Quiet
<1>. QED  BY <1>0, <1>1, <1>2 DEF QuietInv, Undisturbed

LEMMA OutsideQuiet == ASSUME IInv, QuietInv, Outside PROVE QuietInv'
<1>0. UNCHANGED <<kind, config, state, step>> /\ outside' # 0
  BY BoundsAreNat DEF Outside, IInv, TypeOK
<1>1. PlanInv'
  BY <1>0 DEF QuietInv, PlanInv, ACL
<1>. QED  BY <1>0, <1>1 DEF QuietInv, Undisturbed

LEMMA DeliverQuiet == ASSUME IInv, QuietInv, NEW q \in late, Deliver(q) PROVE QuietInv'
<1>0. UNCHANGED <<kind, config, state, step, faults, outside>>
  BY DEF Deliver, bounds
<1>1. PlanInv'
  BY <1>0 DEF QuietInv, PlanInv, ACL
<1>2. ~Undisturbed
  BY DEF QuietInv, Quiet, Calm
<1>. QED  BY <1>0, <1>1, <1>2 DEF QuietInv, Undisturbed

LEMMA StutterQuiet == ASSUME QuietInv, UNCHANGED vars PROVE QuietInv'
<1>0. UNCHANGED <<kind, config, state, step, home, server, late, released, faults, outside>>
  BY DEF vars, serverVars, bounds
<1>1. PlanInv'
  BY <1>0 DEF QuietInv, PlanInv, ACL
<1>2. ASSUME Undisturbed PROVE Quiet'
  BY <1>0, <1>2, ServerKept DEF QuietInv, Quiet, Calm, Worth, Owned, Done, Reported,
     Resting, Staying, Matches
<1>. QED  BY <1>0, <1>1, <1>2 DEF QuietInv, Undisturbed

LEMMA NextQuiet == ASSUME IInv, QuietInv, [Next]_vars PROVE QuietInv'
BY StartRunQuiet, ReadQuiet, WriteQuiet, DeleteQuiet, ImportQuiet, EditQuiet, OutsideQuiet,
   DeliverQuiet, StutterQuiet DEF Next, Operate

LEMMA QuietInvariance == Spec => []QuietInv
BY InitQuiet, NextQuiet, Invariance, PTL DEF Spec

\* Undisturbed, whatever blocks are moved, changed and removed, every object
\* at a server belongs to a resource; the reserved metadata of a zone and the
\* ACLs are nobody's.
THEOREM NothingIsLeft == Spec => []NoLeftovers
<1>1. IInv /\ QuietInv => NoLeftovers
  BY DEF QuietInv, Quiet, Owned, NoLeftovers
<1>. QED  BY <1>1, Invariance, QuietInvariance, PTL

\* Undisturbed, what a resource reports between runs is what the server holds
\* under its key, unless the key was given up in the same run: no update that
\* calls nobody is ever planned (view zone, autoprimary, TSIG key), and what a
\* Create writes without reading it back is what is reported.
THEOREM StateIsTrue == Spec => []StateMatchesServer
<1>1. ASSUME QuietInv PROVE StateMatchesServer
  BY <1>1 DEF QuietInv, Quiet, Reported, Staying, Matches, Resting, StateMatchesServer
<1>. QED  BY <1>1, QuietInvariance, PTL

-----------------------------------------------------------------------------
(***************************************************************************)
(* What a step may not do.                                                 *)
(***************************************************************************)

\* A step under which the provider keeps to its keys.
Keeps ==
    \A key \in Keys : server'[key] # server[key] =>
        /\ \E r \in Resources :
              \/ state[r].key = key
              \/ config[r].key = key /\ server'[key] = Content(config[r].value)
        /\ key \notin Reserved
        /\ ACL => server'[key] # {}

LEMMA WriteKeeps == ASSUME IInv, NEW r \in Resources, Write(r) PROVE Keeps
<1>. DEFINE q == [verb |-> IF step[r] = "create" THEN Calls.create ELSE Calls.update,
                  key |-> config[r].key, content |-> Content(config[r].value)]
<1>1. config[r] \in Entry
  BY BlocksAreEntries DEF Write, IInv, TypeOK, StepInv
<1>2. q.content \in SUBSET Values /\ (ACL => q.content # {})
  BY <1>1, ContentType DEF Entry, ACL
<1>3. q.key = config[r].key /\ q.content = Content(config[r].value)
  OBVIOUS
<1>. HIDE DEF q
<1>4. UNCHANGED server \/ (Addressable(q.key) /\ Serve(q))
  BY DEF Write, Lost, q
<1>5. CASE UNCHANGED server
  BY <1>5 DEF Keeps
<1>6. CASE Addressable(q.key) /\ Serve(q)
  BY <1>2, <1>3, <1>6, ServeType DEF Keeps, Addressable, IInv
<1>. QED  BY <1>4, <1>5, <1>6

LEMMA DeleteKeeps == ASSUME IInv, NEW r \in Resources, Delete(r) PROVE Keeps
<1>. DEFINE q == [verb |-> Calls.delete, key |-> Doomed(r), content |-> {}]
<1>1. state[r] # None
  BY DEF Delete, IInv, StepInv
<1>2. q.key = state[r].key /\ q.content = {} /\ (ACL => q.verb = "nothing")
  BY CallTypes DEF Doomed, IInv, TypeOK
<1>. HIDE DEF q
<1>3. UNCHANGED server \/ Serve(q)
  BY DEF Delete, Lost, q
<1>4. CASE UNCHANGED server
  BY <1>4 DEF Keeps
<1>5. CASE Serve(q)
  BY <1>1, <1>2, <1>5, ServeType DEF Keeps, Addressable, IInv, AddressInv
<1>. QED  BY <1>3, <1>4, <1>5

LEMMA StepKeeps == ASSUME IInv, [Next]_vars, Provider PROVE Keeps
<1>1. CASE StartRun
  BY <1>1 DEF StartRun, serverVars, Keeps
<1>2. ASSUME NEW r \in Resources, Operate(r) \/ Import(r)
      PROVE  Keeps
  <2>1. CASE Read(r)
    BY <2>1 DEF Read, serverVars, Keeps
  <2>2. CASE Write(r)
    BY <2>2, WriteKeeps
  <2>3. CASE Delete(r)
    BY <2>3, DeleteKeeps
  <2>4. CASE Import(r)
    BY <2>4 DEF Import, serverVars, Keeps
  <2>. QED  BY <1>2, <2>1, <2>2, <2>3, <2>4 DEF Operate
<1>3. CASE Edit
  BY <1>3 DEF Edit, serverVars, Keeps
<1>4. CASE Outside
  BY <1>4, Counters DEF Outside, Provider, IInv
<1>5. ASSUME NEW q \in late, Deliver(q)
      PROVE  Keeps
  BY <1>5 DEF Deliver, Provider
<1>6. CASE UNCHANGED vars
  BY <1>6 DEF vars, serverVars, Keeps
<1>. QED  BY <1>1, <1>2, <1>3, <1>4, <1>5, <1>6 DEF Next

\* A run touches only the keys that the configuration or the state names,
\* never reserved metadata, and never empties an ACL.
THEOREM KeepsToItsKeys == Spec => OtherKeysKept
<1>1. IInv /\ [Next]_vars => [Provider => Keeps]_vars
  BY StepKeeps
<1>. QED  BY <1>1, Invariance, PTL DEF Spec, OtherKeysKept, Keeps

\* A step under which Terraform forgets only what is gone.
Remembers ==
    \A r \in Resources : state[r] # None /\ state'[r] = None =>
        \/ server'[state[r].key] = {}
        \/ ACL /\ step[r] = "delete"

LEMMA ReadRemembers == ASSUME IInv, NEW r \in Resources, Read(r) PROVE Remembers
<1>. USE DEF IInv
<1>1. UNCHANGED server
  BY DEF Read, serverVars
<1>2. ASSUME NEW s \in Found(state[r]), state' = [state EXCEPT ![r] = s]
      PROVE  Remembers
  <2>1. s = None => state[r] = None \/ server[state[r].key] = {}
    BY FoundType DEF TypeOK
  <2>. QED  BY <1>1, <1>2, <2>1 DEF Remembers, TypeOK
<1>3. CASE UNCHANGED state
  BY <1>3 DEF Remembers
<1>. QED  BY <1>2, <1>3 DEF Read

LEMMA DeleteRemembers == ASSUME IInv, NEW r \in Resources, Delete(r) PROVE Remembers
<1>. DEFINE q == [verb |-> Calls.delete, key |-> Doomed(r), content |-> {}]
<1>. USE DEF IInv
<1>1. state[r] \in Entry /\ state[r].key \in Keys
  BY DEF Delete, TypeOK, StepInv, Entry
<1>2. /\ q.key = state[r].key /\ q.content = {}
      /\ q.verb = (IF ACL THEN "nothing" ELSE "delete")
  BY CallTypes DEF Doomed, TypeOK
<1>. HIDE DEF q
<1>3. ACL => step[r] = "delete"
  BY DEF Delete, StepInv
<1>4. CASE UNCHANGED state
  BY <1>4 DEF Remembers
<1>5. CASE Serve(q) /\ state' = [state EXCEPT ![r] = None]
  <2>1. ~ACL => server'[state[r].key] = {}
    BY <1>1, <1>2, <1>5 DEF Serve, TypeOK
  <2>. QED  BY <1>3, <1>5, <2>1 DEF Remembers, TypeOK
<1>. QED  BY <1>4, <1>5 DEF Delete, Lost, Fail, q

LEMMA WriteRemembers == ASSUME IInv, NEW r \in Resources, Write(r) PROVE Remembers
<1>1. config[r] # None
  BY DEF Write, IInv, StepInv
<1>2. state' = [state EXCEPT ![r] = config[r]] \/ UNCHANGED state
  BY DEF Write, Lost, Fail
<1>. QED  BY <1>1, <1>2 DEF Remembers, IInv, TypeOK

LEMMA StepRemembers == ASSUME IInv, [Next]_vars PROVE Remembers
<1>1. CASE UNCHANGED state
  BY <1>1 DEF Remembers
<1>2. ASSUME NEW r \in Resources, Import(r)
      PROVE  Remembers
  <2>1. state[r] = None
    BY <1>2 DEF Import
  <2>. QED  BY <1>2, <2>1 DEF Import, Remembers, IInv, TypeOK
<1>3. ASSUME NEW r \in Resources, Operate(r)
      PROVE  Remembers
  BY <1>3, ReadRemembers, WriteRemembers, DeleteRemembers DEF Operate
<1>. QED  BY <1>1, <1>2, <1>3 DEF Next, StartRun, Edit, Outside, Deliver, vars

\* Terraform never forgets an object that the server still has, other than an
\* ACL the operator removed from the configuration.
THEOREM ForgetsNothingAlive == Spec => ForgetsOnlyGone
<1>1. IInv /\ [Next]_vars => [Remembers]_vars
  BY StepRemembers
<1>. QED  BY <1>1, Invariance, PTL DEF Spec, ForgetsOnlyGone, Remembers
=============================================================================
