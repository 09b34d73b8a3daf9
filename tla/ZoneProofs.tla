----------------------------- MODULE ZoneProofs -----------------------------
(***************************************************************************)
(* Zone keeps its safety properties for every set of kinds, accounts,      *)
(* parameters and nameservers, every set of blocks and every bound.        *)
(***************************************************************************)
EXTENDS Zone, TLAPS

(***************************************************************************)
(* The inductive invariant.                                                *)
(***************************************************************************)

\* What the next call of the run is made from.
StepInv ==
    /\ step \in {"create", "update", "reread", "replace"} => plan \in Plans
    /\ step = "update" => config \in Blocks /\ state \in Entries /\ plan = Planned(config, state)
    /\ step = "delete" => config = Absent
    /\ step = "replace" => config.nameservers # state.nameservers

\* A request the server may still carry out has a body, unless it deletes.
LateInv == \A q \in late : q.op # "delete" => q.body \in Bodies

\* How far a server that reports z has what the entry or the plan s says.
Agrees(s, z) ==
    /\ z # None
    /\ s.kind = z.kind
    /\ s.dnssec \in {z.dnssec, "unknown"}
    /\ s.account \in {z.account, "", "null"}
    /\ s.param \in {z.param, "unknown", ""}

\* Between the calls of an undisturbed run the state agrees with the server,
\* and after a PUT the plan does.
TruthInv ==
    faults = 0 /\ outside = 0 =>
        /\ late = {}
        /\ state # None /\ step # "reread" => Agrees(state, zone)
        /\ step = "reread" => Agrees(plan, zone)

IInv == TypeOK /\ StepInv /\ LateInv

-----------------------------------------------------------------------------
(***************************************************************************)
(* Lemmas about the operators.                                             *)
(***************************************************************************)

\* The values that mean "nothing" are neither blocks, zones nor plans.
LEMMA NoneIsNothing ==
    /\ None \notin Zones
    /\ None \notin Entries
    /\ None \notin Blocks
    /\ None \notin Plans
    /\ None.nameservers = ""
BY ValuesAssumption DEF None, Zones, Entries, Blocks, Plans

\* A plan made of a block is a plan, with "unknown" only over an empty state.
LEMMA PlannedType ==
    ASSUME NEW c \in Blocks, NEW s \in Entries \cup {None}
    PROVE  Planned(c, s) \in Plans
<1>1. s = None \/ (s.dnssec \in Switch /\ s.param \in Params \cup {""})
  BY DEF Entries, Plans
<1>. QED  BY <1>1 DEF Planned, Blocks, Plans, Switch

\* A body is the plan with what is empty or unknown left out.
LEMMA BodyType ==
    ASSUME NEW p \in Plans
    PROVE  Body(p) \in Bodies
BY DEF Body, Filled, Plans, Bodies, Switch

\* What Create and Update store is a whole entry: no unknown survives.
LEMMA WrittenType ==
    ASSUME NEW z \in Zones, plan \in Plans
    PROVE  Written(z) \in Entries
<1>. DEFINE d == IF plan.dnssec = "unknown" THEN z.dnssec ELSE plan.dnssec
            p == IF plan.param = "unknown" THEN z.param ELSE plan.param
<1>1. d \in Switch /\ d # "unknown"
  BY DEF Plans, Zones, Switch
<1>2. p \in Params \cup {""} /\ p # "unknown"
  BY ValuesAssumption DEF Plans, Zones
<1>3. Written(z) = [plan EXCEPT !.dnssec = d, !.param = p]
  BY DEF Written
<1>. HIDE DEF d, p
<1>. QED  BY <1>1, <1>2, <1>3 DEF Plans, Entries

\* What Read stores is a whole entry.
LEMMA ObservedType ==
    ASSUME NEW z \in Zones, NEW s \in Entries \cup {None}
    PROVE  Observed(z, s) \in Entries
<1>1. s.nameservers \in Servers \cup {""}
  BY NoneIsNothing DEF Entries, Plans
<1>. QED  BY <1>1, ValuesAssumption DEF Observed, Optional, Zones, Entries, Plans, Switch

\* A PUT keeps a zone a zone; a POST makes one.
LEMMA ServeWriteType ==
    ASSUME NEW b \in Bodies, zone \in Zones \cup {None}
    PROVE  /\ ServeCreate(b) => zone' \in Zones
           /\ ServeUpdate(b) => zone' \in Zones \cup {None} /\ (zone # None => zone' # None)
<1>1. ASSUME ServeCreate(b)
      PROVE  zone' \in Zones
  BY <1>1, ValuesAssumption DEF ServeCreate, Sent, Bodies, Zones, Switch
<1>2. ASSUME ServeUpdate(b)
      PROVE  zone' \in Zones \cup {None} /\ (zone # None => zone' # None)
  <2>1. CASE zone = None
    BY <1>2, <2>1 DEF ServeUpdate
  <2>2. CASE zone # None
    <3>1. zone' \in Zones
      BY <1>2, <2>2 DEF ServeUpdate, Sent, Bodies, Zones
    <3>. QED  BY <3>1, NoneIsNothing
  <2>. QED  BY <2>1, <2>2
<1>. QED  BY <1>1, <1>2

\* Whatever request the server carries out, it holds a zone or none.
LEMMA ServeType ==
    ASSUME TypeOK, NEW q \in Request, q.op # "delete" => q.body \in Bodies, Serve(q)
    PROVE  zone' \in Zones \cup {None}
<1>1. zone \in Zones \cup {None}
  BY DEF TypeOK
<1>2. CASE q.op = "create"
  BY <1>1, <1>2, ServeWriteType DEF Serve
<1>3. CASE q.op = "update"
  BY <1>1, <1>3, ServeWriteType DEF Serve
<1>4. CASE q.op = "delete"
  BY <1>4 DEF Serve, ServeDelete
<1>. QED  BY <1>2, <1>3, <1>4 DEF Request

LEMMA Bounds == MaxFaults \in Nat /\ MaxEdits \in Nat /\ MaxOutside \in Nat
BY BoundsAssumption

\* The bounded counters.
LEMMA Counters ==
    ASSUME TypeOK
    PROVE  /\ faults \in Nat /\ edits \in Nat /\ outside \in Nat
           /\ Fault => faults' \in 0 .. MaxFaults /\ faults' # 0
BY Bounds DEF TypeOK, Fault

\* A call that failed for good leaves everything well formed.
LEMMA LostTypes ==
    ASSUME TypeOK, LateInv, NEW q \in Request, q.op # "delete" => q.body \in Bodies, Lost(q)
    PROVE  /\ zone' \in Zones \cup {None}
           /\ late' \subseteq Request
           /\ LateInv'
           /\ faults' \in 0 .. MaxFaults
           /\ faults' # 0
           /\ step' = "rest" /\ plan' = NoPlan /\ state' = state
<1>1. zone' \in Zones \cup {None} /\ late' \subseteq Request /\ LateInv'
  <2>1. CASE UNCHANGED <<zone, late>>
    BY <2>1 DEF TypeOK, LateInv
  <2>2. CASE Serve(q) /\ UNCHANGED late
    BY <2>2, ServeType DEF TypeOK, LateInv
  <2>3. CASE late' = late \cup {q} /\ UNCHANGED zone
    BY <2>3 DEF TypeOK, LateInv
  <2>. QED  BY <2>1, <2>2, <2>3 DEF Lost
<1>2. faults' \in 0 .. MaxFaults /\ faults' # 0
  BY Counters DEF Lost
<1>. QED  BY <1>1, <1>2 DEF Lost, Fail, Finish

\* So does a call that succeeded, which may leave an attempt under way.
LEMMA AnsweredTypes ==
    ASSUME TypeOK, LateInv, NEW q \in Request, q.op # "delete" => q.body \in Bodies, Answered(q)
    PROVE  /\ late' \subseteq Request
           /\ LateInv'
           /\ faults' \in 0 .. MaxFaults
           /\ faults' = 0 => UNCHANGED <<faults, late>>
<1>1. CASE NoFault /\ UNCHANGED late
  BY <1>1 DEF NoFault, TypeOK, LateInv
<1>2. CASE Fault /\ late' = late \cup {q}
  BY <1>2, Counters DEF TypeOK, LateInv
<1>. QED  BY <1>1, <1>2 DEF Answered

\* The requests of the three calls.
LEMMA RequestTypes ==
    /\ \A p \in Plans : [op |-> "create", body |-> Body(p)] \in Request
    /\ \A p \in Plans : [op |-> "update", body |-> Body(p)] \in Request
    /\ [op |-> "delete", body |-> None] \in Request
BY BodyType DEF Request

\* What Read plans is what the next call is made from.
LEMMA ReadPlans ==
    ASSUME NEW c \in Blocks \cup {Absent}, NEW s \in Entries \cup {None}
    PROVE  /\ Action(c, s) \in Steps
           /\ PlanFor(c, s) \in Plans \cup {NoPlan}
           /\ Action(c, s) # "reread"
           /\ Action(c, s) \in {"create", "update", "replace"} => PlanFor(c, s) \in Plans
           /\ Action(c, s) = "update" =>
                 c \in Blocks /\ s \in Entries /\ PlanFor(c, s) = Planned(c, s)
           /\ Action(c, s) = "delete" => c = Absent
           /\ Action(c, s) = "replace" => c.nameservers # s.nameservers
<1>1. CASE c = Absent
  BY <1>1 DEF Action, PlanFor, Steps
<1>2. CASE c # Absent /\ s = None
  <2>1. Planned(c, None) \in Plans
    BY <1>2, PlannedType
  <2>. QED  BY <1>2, <2>1 DEF Action, PlanFor, Steps
<1>3. CASE c # Absent /\ s # None
  <2>1. Planned(c, None) \in Plans /\ Planned(c, s) \in Plans
    BY <1>3, PlannedType
  <2>. QED  BY <1>3, <2>1 DEF Action, PlanFor, Steps, RequiresReplace
<1>. QED  BY <1>1, <1>2, <1>3

-----------------------------------------------------------------------------
(***************************************************************************)
(* Every step preserves the invariant.                                     *)
(***************************************************************************)

LEMMA InitIInv == ASSUME Init PROVE IInv
<1>1. faults \in 0 .. MaxFaults /\ edits \in 0 .. MaxEdits /\ outside \in 0 .. MaxOutside
  BY Bounds DEF Init
<1>2. TypeOK
  BY <1>1, OfferedAssumption DEF Init, TypeOK, Steps
<1>3. StepInv /\ LateInv
  BY DEF Init, StepInv, LateInv
<1>. QED  BY <1>2, <1>3 DEF IInv

LEMMA ReadStep == ASSUME IInv, Read PROVE IInv'
<1>. USE DEF IInv
<1>1. CASE state # None /\ Fault /\ Fail /\ UNCHANGED <<config, zone, late, edits, outside>>
  BY <1>1, Counters DEF Fail, Finish, TypeOK, StepInv, LateInv, Steps
<1>2. ASSUME NEW s,
             s = (IF state = None \/ zone = None THEN None ELSE Observed(zone, state)),
             state' = s, step' = Action(config, s), plan' = PlanFor(config, s), NoFault,
             UNCHANGED <<config, zone, late, edits, outside>>
      PROVE  IInv'
  <2>1. s \in Entries \cup {None}
    BY <1>2, ObservedType DEF TypeOK
  <2>2. config \in Blocks \cup {Absent}
    BY DEF TypeOK
  <2>3. TypeOK'
    BY <1>2, <2>1, <2>2, ReadPlans DEF TypeOK, NoFault
  <2>4. StepInv'
    BY <1>2, <2>1, <2>2, ReadPlans DEF StepInv
  <2>. QED  BY <1>2, <2>3, <2>4 DEF LateInv
<1>. QED  BY <1>1, <1>2 DEF Read

LEMMA CreateStep == ASSUME IInv, Create PROVE IInv'
<1>. USE DEF IInv
<1>. DEFINE request == [op |-> "create", body |-> Body(plan)]
<1>1. plan \in Plans /\ request \in Request /\ request.body \in Bodies
  BY RequestTypes, BodyType DEF Create, StepInv
<1>2. UNCHANGED <<config, edits, outside>>
  BY DEF Create
<1>3. CASE zone = None /\ Serve(request) /\ state' = Written(zone') /\ Finish /\ Answered(request)
  <2>1. zone' \in Zones
    BY <1>1, <1>3, ServeWriteType DEF Serve, TypeOK
  <2>2. Written(zone') \in Entries
    BY <1>1, <2>1, WrittenType
  <2>. HIDE DEF request
  <2>3. late' \subseteq Request /\ LateInv' /\ faults' \in 0 .. MaxFaults
    BY <1>1, <1>3, AnsweredTypes
  <2>. QED  BY <1>2, <1>3, <2>1, <2>2, <2>3 DEF Finish, TypeOK, StepInv, Steps
<1>4. CASE zone # None /\ Fail /\ NoFault /\ UNCHANGED <<zone, late>>
  BY <1>2, <1>4 DEF Fail, Finish, NoFault, TypeOK, StepInv, LateInv, Steps
<1>5. CASE Lost(request)
  <2>1. request.op # "delete" => request.body \in Bodies
    BY <1>1
  <2>. HIDE DEF request
  <2>. QED  BY <1>1, <1>2, <1>5, <2>1, LostTypes DEF TypeOK, StepInv, Steps
<1>. QED  BY <1>3, <1>4, <1>5 DEF Create

LEMMA UpdateStep == ASSUME IInv, Update PROVE IInv'
<1>. USE DEF IInv
<1>. DEFINE request == [op |-> "update", body |-> Body(plan)]
<1>1. plan \in Plans /\ request \in Request /\ request.body \in Bodies
  BY RequestTypes, BodyType DEF Update, StepInv
<1>2. UNCHANGED <<config, edits, outside>>
  BY DEF Update
<1>3. CASE zone # None /\ Serve(request) /\ step' = "reread" /\ Answered(request) /\ UNCHANGED <<state, plan>>
  <2>1. zone' \in Zones \cup {None}
    BY <1>1, <1>3, ServeWriteType DEF Serve, TypeOK
  <2>. HIDE DEF request
  <2>2. late' \subseteq Request /\ LateInv' /\ faults' \in 0 .. MaxFaults
    BY <1>1, <1>3, AnsweredTypes
  <2>. QED  BY <1>1, <1>2, <1>3, <2>1, <2>2 DEF TypeOK, StepInv, Steps
<1>4. CASE zone = None /\ Fail /\ NoFault /\ UNCHANGED <<zone, late>>
  BY <1>2, <1>4 DEF Fail, Finish, NoFault, TypeOK, StepInv, LateInv, Steps
<1>5. CASE Lost(request)
  <2>1. request.op # "delete" => request.body \in Bodies
    BY <1>1
  <2>. HIDE DEF request
  <2>. QED  BY <1>1, <1>2, <1>5, <2>1, LostTypes DEF TypeOK, StepInv, Steps
<1>. QED  BY <1>3, <1>4, <1>5 DEF Update

LEMMA RereadStep == ASSUME IInv, Reread PROVE IInv'
<1>. USE DEF IInv
<1>1. zone # None => Written(zone) \in Entries
  BY WrittenType DEF Reread, StepInv, TypeOK
<1>2. faults' \in 0 .. MaxFaults
  BY Counters DEF Reread, NoFault, TypeOK
<1>. QED  BY <1>1, <1>2 DEF Reread, Fail, Finish, TypeOK, StepInv, LateInv, Steps

LEMMA DeleteStep == ASSUME IInv, Delete PROVE IInv'
<1>. USE DEF IInv
<1>. DEFINE request == [op |-> "delete", body |-> None]
<1>1. UNCHANGED <<config, edits, outside>>
  BY DEF Delete
<1>2. CASE /\ Serve(request) /\ state' = None /\ Answered(request)
           /\ IF step = "replace" THEN step' = "create" /\ UNCHANGED plan ELSE Finish
  <2>1. zone' = None
    BY <1>2 DEF Serve, ServeDelete
  <2>2. request \in Request /\ (request.op # "delete" => request.body \in Bodies)
    BY RequestTypes
  <2>. HIDE DEF request
  <2>3. late' \subseteq Request /\ LateInv' /\ faults' \in 0 .. MaxFaults
    BY <1>2, <2>2, AnsweredTypes
  <2>4. TypeOK'
    BY <1>1, <1>2, <2>1, <2>3 DEF Finish, TypeOK, Steps
  <2>5. StepInv'
    BY <1>1, <1>2 DEF Finish, StepInv
  <2>. QED  BY <2>3, <2>4, <2>5
<1>3. CASE Lost(request)
  <2>1. request \in Request /\ (request.op # "delete" => request.body \in Bodies)
    BY RequestTypes
  <2>. HIDE DEF request
  <2>. QED  BY <1>1, <1>3, <2>1, LostTypes DEF TypeOK, StepInv, Steps
<1>. QED  BY <1>2, <1>3 DEF Delete

LEMMA DeliverStep ==
    ASSUME IInv, NEW q \in late, Deliver(q)
    PROVE  IInv'
<1>. USE DEF IInv
<1>1. q \in Request /\ (q.op # "delete" => q.body \in Bodies)
  BY DEF TypeOK, LateInv
<1>2. zone' \in Zones \cup {None}
  BY <1>1, ServeType DEF Deliver
<1>. QED  BY <1>2 DEF Deliver, TypeOK, StepInv, LateInv

LEMMA OutsideStep == ASSUME IInv, Outside PROVE IInv'
<1>. USE DEF IInv
<1>1. zone' \in Zones \cup {None}
  BY DEF Outside
<1>2. outside' \in 0 .. MaxOutside
  BY Bounds DEF Outside, TypeOK
<1>. QED  BY <1>1, <1>2 DEF Outside, TypeOK, StepInv, LateInv

LEMMA NextIInv == ASSUME IInv, [Next]_vars PROVE IInv'
<1>1. CASE StartRun
  BY <1>1 DEF StartRun, IInv, TypeOK, StepInv, LateInv, Steps
<1>2. CASE Import
  <2>1. state' \in Entries
    BY <1>2, ObservedType DEF Import, IInv, TypeOK
  <2>2. edits' \in 0 .. MaxEdits
    BY <1>2, Bounds DEF Import, IInv, TypeOK
  <2>. QED  BY <1>2, <2>1, <2>2 DEF Import, IInv, TypeOK, StepInv, LateInv
<1>3. CASE Edit
  <2>1. edits' \in 0 .. MaxEdits
    BY <1>3, Bounds DEF Edit, IInv, TypeOK
  <2>. QED  BY <1>3, <2>1, OfferedAssumption DEF Edit, IInv, TypeOK, StepInv, LateInv
<1>4. CASE UNCHANGED vars
  BY <1>4 DEF vars, IInv, TypeOK, StepInv, LateInv
<1>. QED  BY <1>1, <1>2, <1>3, <1>4, ReadStep, CreateStep, UpdateStep, RereadStep, DeleteStep,
             OutsideStep, DeliverStep DEF Next, Operate

LEMMA Invariance == Spec => []IInv
BY InitIInv, NextIInv, PTL DEF Spec

\* The variables of the zone keep their types.
THEOREM TypeCorrect == Spec => []TypeOK
BY Invariance, PTL DEF IInv

-----------------------------------------------------------------------------
(***************************************************************************)
(* What the provider destroys and rewrites.                                *)
(***************************************************************************)

\* The steps that are not the provider's leave their mark.
LEMMA Others ==
    ASSUME TypeOK
    PROVE  /\ Outside => outside' # outside
           /\ \A q \in late : Deliver(q) => ~(late \subseteq late')
BY Counters DEF Outside, Deliver

\* Only a Delete takes the zone away.
LEMMA OnlyDeleteDestroys ==
    ASSUME IInv, [Next]_vars, Destroyed
    PROVE  Delete
<1>. USE DEF IInv, Destroyed
<1>1. ~Outside /\ \A q \in late : ~Deliver(q)
  BY Others
<1>2. ~Create
  <2>. SUFFICES ASSUME Create PROVE FALSE
    OBVIOUS
  <2>1. plan \in Plans /\ Body(plan) \in Bodies
    BY BodyType DEF Create, StepInv
  <2>2. CASE Lost([op |-> "create", body |-> Body(plan)])
    BY <2>1, <2>2, ServeWriteType, NoneIsNothing DEF Lost, Serve, TypeOK
  <2>. QED  BY <2>2 DEF Create
<1>3. ~Update
  <2>. SUFFICES ASSUME Update PROVE FALSE
    OBVIOUS
  <2>1. plan \in Plans /\ Body(plan) \in Bodies
    BY BodyType DEF Update, StepInv
  <2>2. CASE Serve([op |-> "update", body |-> Body(plan)])
    BY <2>1, <2>2, ServeWriteType DEF Serve, TypeOK
  <2>. QED  BY <2>2 DEF Update, Lost
<1>. QED  BY <1>1, <1>2, <1>3 DEF Next, Operate, StartRun, Read, Reread, Import, Edit, vars

\* A zone and its records are destroyed only when the block is gone or asks for
\* other nameservers than the ones known to have been used.
THEOREM DestroyedDeliberately == Spec => DestroyedOnPurpose
<1>1. ASSUME IInv, [Next]_vars, Destroyed
      PROVE  \/ config = Absent
             \/ config.nameservers # zone.nameservers
             \/ state.nameservers # zone.nameservers
  <2>1. Delete
    BY <1>1, OnlyDeleteDestroys
  <2>. QED  BY <1>1, <2>1 DEF Delete, IInv, StepInv
<1>. QED  BY <1>1, Invariance, PTL DEF Spec, DestroyedOnPurpose

\* The PUT of a run says nothing new of what the block leaves out.
LEMMA UnmentionedUpdate ==
    ASSUME IInv, [Next]_vars, Rewritten
    PROVE  /\ config.dnssec = "unset" /\ zone.dnssec = state.dnssec => zone'.dnssec = zone.dnssec
           /\ config.param = "unset" /\ zone.param = state.param => zone'.param = zone.param
<1>. USE DEF IInv, Rewritten
<1>1. ~Outside /\ \A q \in late : ~Deliver(q)
  BY Others
<1>2. CASE Update
  <2>1. plan = Planned(config, state) /\ state # None
    BY NoneIsNothing DEF StepInv
  <2>2. state.dnssec \in Switch /\ state.param \in Params \cup {""}
    BY DEF StepInv, Entries, Plans
  <2>3. config.dnssec = "unset" /\ zone.dnssec = state.dnssec => Body(plan).dnssec = zone.dnssec
    BY <2>1, <2>2 DEF Body, Planned, Switch
  <2>4. config.param = "unset" /\ zone.param = state.param
        => Body(plan).param \in {zone.param, "omitted"}
    BY <2>1, <2>2 DEF Body, Filled, Planned
  <2>5. CASE Serve([op |-> "update", body |-> Body(plan)])
    <3>1. ServeUpdate(Body(plan))
      BY <2>5 DEF Serve
    <3>2. zone'.dnssec = Sent(Body(plan).dnssec, zone.dnssec)
      BY <3>1 DEF ServeUpdate
    <3>3. zone'.param = Sent(Body(plan).param, zone.param)
      BY <3>1 DEF ServeUpdate
    <3>. QED  BY <2>3, <2>4, <3>2, <3>3 DEF Sent
  <2>. QED  BY <1>2, <2>5 DEF Update, Lost
<1>3. UNCHANGED zone \/ Update
  BY <1>1 DEF Next, Operate, StartRun, Read, Create, Reread, Delete, Import, Edit, vars
<1>. QED  BY <1>2, <1>3

\* An update leaves alone what the block does not mention, as long as nobody
\* changed it since the run read it.
THEOREM UnmentionedStays == Spec => UnmentionedKept
BY UnmentionedUpdate, Invariance, PTL DEF Spec, UnmentionedKept

-----------------------------------------------------------------------------
(***************************************************************************)
(* The state tells the truth.                                              *)
(***************************************************************************)

\* What a body says is what the plan says, and what it leaves out is empty,
\* unknown or without a value.
LEMMA Bodied ==
    ASSUME plan \in Plans
    PROVE  /\ Body(plan).kind = plan.kind
           /\ IF Body(plan).account = "omitted" THEN plan.account \in {"", "null"}
              ELSE plan.account = Body(plan).account
           /\ IF Body(plan).dnssec = "omitted" THEN plan.dnssec = "unknown"
              ELSE plan.dnssec = Body(plan).dnssec
           /\ IF Body(plan).param = "omitted" THEN plan.param \in {"", "unknown"}
              ELSE plan.param = Body(plan).param
<1>1. /\ plan.account \in Accounts \cup {"", "null"}
      /\ plan.dnssec \in Switch \cup {"unknown"}
      /\ plan.param \in Params \cup {"", "unknown"}
  BY DEF Plans
<1>2. /\ Body(plan).kind = plan.kind
      /\ Body(plan).account = Filled(plan.account)
      /\ Body(plan).dnssec = IF plan.dnssec = "unknown" THEN "omitted" ELSE plan.dnssec
      /\ Body(plan).param = Filled(plan.param)
  BY DEF Body, Plans
<1>3. {"null", "unknown", "omitted"} \cap (Accounts \cup Params) = {}
  BY ValuesAssumption
<1>4. IF Body(plan).account = "omitted" THEN plan.account \in {"", "null"}
      ELSE plan.account = Body(plan).account
  BY <1>1, <1>2, <1>3 DEF Filled
<1>5. IF Body(plan).dnssec = "omitted" THEN plan.dnssec = "unknown"
      ELSE plan.dnssec = Body(plan).dnssec
  BY <1>1, <1>2 DEF Switch
<1>6. IF Body(plan).param = "omitted" THEN plan.param \in {"", "unknown"}
      ELSE plan.param = Body(plan).param
  BY <1>1, <1>2, <1>3 DEF Filled
<1>. QED  BY <1>2, <1>4, <1>5, <1>6

\* What a POST or a PUT made of the plan is what the plan says.
LEMMA WriteAgrees ==
    ASSUME plan \in Plans, zone \in Zones \cup {None}
    PROVE  /\ zone = None /\ ServeCreate(Body(plan)) => Agrees(Written(zone'), zone')
           /\ zone # None /\ ServeUpdate(Body(plan)) => Agrees(plan, zone')
<1>1. ASSUME zone = None, ServeCreate(Body(plan))
      PROVE  Agrees(Written(zone'), zone')
  <2>1. zone' \in Zones
    BY <1>1, BodyType, ServeWriteType
  <2>2. /\ zone'.kind = plan.kind
        /\ plan.account \in {zone'.account, "", "null"}
        /\ plan.dnssec \in {zone'.dnssec, "unknown"}
        /\ plan.param \in {zone'.param, "unknown", ""}
    BY <1>1, Bodied DEF ServeCreate, Sent
  <2>. QED  BY <2>1, <2>2, NoneIsNothing DEF Agrees, Written, Plans
<1>2. ASSUME zone # None, ServeUpdate(Body(plan))
      PROVE  Agrees(plan, zone')
  <2>1. zone' # None
    BY <1>2, BodyType, ServeWriteType
  <2>2. /\ zone'.kind = plan.kind
        /\ plan.account \in {zone'.account, "", "null"}
        /\ plan.dnssec \in {zone'.dnssec, "unknown"}
        /\ plan.param \in {zone'.param, "unknown", ""}
    BY <1>2, Bodied DEF ServeUpdate, Sent
  <2>. QED  BY <2>1, <2>2 DEF Agrees
<1>. QED  BY <1>1, <1>2

\* What Reread stores of a plan that agrees agrees as well.
LEMMA WrittenAgrees ==
    ASSUME plan \in Plans, Agrees(plan, zone)
    PROVE  Agrees(Written(zone), zone)
BY DEF Agrees, Written, Plans

LEMMA ObservedAgrees ==
    ASSUME NEW z \in Zones, NEW s
    PROVE  Agrees(Observed(z, s), z)
BY NoneIsNothing DEF Agrees, Observed, Optional, Zones

LEMMA NextTruth == ASSUME IInv, TruthInv, [Next]_vars PROVE TruthInv'
<1>. SUFFICES ASSUME faults' = 0, outside' = 0
              PROVE  /\ late' = {}
                     /\ state' # None /\ step' # "reread" => Agrees(state', zone')
                     /\ step' = "reread" => Agrees(plan', zone')
  BY DEF TruthInv, Agrees
<1>. USE DEF IInv
<1>1. ~Fault /\ ~Outside
  BY Counters DEF Outside
<1>2. ASSUME faults = 0, outside = 0
      PROVE  late = {} /\ \A q : ~Lost(q)
  BY <1>1, <1>2 DEF TruthInv, Lost
<1>3. CASE StartRun
  BY <1>2, <1>3 DEF StartRun, TruthInv, Agrees, StepInv
<1>4. CASE Read
  <2>. DEFINE s == IF state = None \/ zone = None THEN None ELSE Observed(zone, state)
  <2>1. /\ state' = s /\ step' = Action(config, s) /\ NoFault
        /\ UNCHANGED <<zone, late, outside>>
    BY <1>1, <1>4 DEF Read
  <2>2. late = {}
    BY <1>2, <2>1 DEF NoFault
  <2>3. s # None => Agrees(s, zone)
    BY ObservedAgrees DEF TypeOK
  <2>4. s \in Entries \cup {None} /\ config \in Blocks \cup {Absent}
    BY ObservedType DEF TypeOK
  <2>. HIDE DEF s
  <2>5. step' # "reread"
    BY <2>1, <2>4, ReadPlans
  <2>. QED  BY <2>1, <2>2, <2>3, <2>5
<1>5. CASE Create
  <2>1. UNCHANGED outside /\ plan \in Plans /\ zone \in Zones \cup {None}
    BY <1>5 DEF Create, StepInv, TypeOK
  <2>2. NoFault
    BY <1>1, <1>5 DEF Create, Answered, Lost
  <2>3. late = {} /\ \A q : ~Lost(q)
    BY <1>2, <2>1, <2>2 DEF NoFault
  <2>4. CASE /\ zone = None /\ ServeCreate(Body(plan))
             /\ state' = Written(zone') /\ Finish /\ UNCHANGED late
    BY <2>1, <2>3, <2>4, WriteAgrees DEF Finish
  <2>5. CASE zone # None /\ Fail /\ UNCHANGED <<zone, late>>
    BY <1>5, <2>1, <2>2, <2>3, <2>5 DEF Create, Fail, Finish, NoFault, TruthInv
  <2>. QED  BY <1>1, <1>5, <2>3, <2>4, <2>5 DEF Create, Answered, Serve
<1>6. CASE Update
  <2>1. UNCHANGED outside /\ plan \in Plans /\ zone \in Zones \cup {None}
    BY <1>6 DEF Update, StepInv, TypeOK
  <2>2. NoFault
    BY <1>1, <1>6 DEF Update, Answered, Lost
  <2>3. late = {} /\ \A q : ~Lost(q)
    BY <1>2, <2>1, <2>2 DEF NoFault
  <2>4. CASE /\ zone # None /\ ServeUpdate(Body(plan))
             /\ step' = "reread" /\ UNCHANGED <<plan, late>>
    BY <2>1, <2>3, <2>4, WriteAgrees
  <2>5. CASE zone = None /\ Fail /\ UNCHANGED <<zone, late>>
    BY <1>6, <2>1, <2>2, <2>3, <2>5 DEF Update, Fail, Finish, NoFault, TruthInv
  <2>. QED  BY <1>1, <1>6, <2>3, <2>4, <2>5 DEF Update, Answered, Serve
<1>7. CASE Reread
  BY <1>1, <1>2, <1>7, WrittenAgrees DEF StepInv, Reread, NoFault, Finish, Fail, TruthInv, Agrees
<1>8. CASE Delete
  <2>1. UNCHANGED outside /\ NoFault
    BY <1>1, <1>8 DEF Delete, Answered, Lost
  <2>2. late = {} /\ \A q : ~Lost(q)
    BY <1>2, <2>1 DEF NoFault
  <2>. QED  BY <1>1, <1>8, <2>2 DEF Delete, Answered, Finish
<1>9. CASE Import
  BY <1>2, <1>9, ObservedAgrees DEF Import, TruthInv, TypeOK
<1>10. CASE Edit
  BY <1>2, <1>10 DEF Edit, TruthInv
<1>11. ASSUME NEW q \in late, Deliver(q)
       PROVE  FALSE
  BY <1>2, <1>11 DEF Deliver
<1>12. CASE UNCHANGED vars
  BY <1>2, <1>12 DEF vars, TruthInv
<1>. QED  BY <1>1, <1>3, <1>4, <1>5, <1>6, <1>7, <1>8, <1>9, <1>10, <1>11, <1>12 DEF Next, Operate

\* With nobody interfering and every call answered, the state agrees with the
\* server between runs, but for an account or a parameter that could not be
\* cleared.
THEOREM StateIsTrue == Spec => []StateMatchesServer
<1>1. Init => TruthInv
  BY DEF Init, TruthInv
<1>2. IInv /\ TruthInv => StateMatchesServer
  <2>. SUFFICES ASSUME IInv, TruthInv, step = "rest", state # None, faults = 0, outside = 0
                PROVE  /\ zone # None
                       /\ state.kind = zone.kind
                       /\ state.dnssec = zone.dnssec
                       /\ state.account \in {zone.account, "", "null"}
                       /\ state.param \in {zone.param, ""}
    BY DEF StateMatchesServer
  <2>1. Agrees(state, zone)
    BY DEF TruthInv
  <2>2. state.dnssec # "unknown" /\ state.param # "unknown"
    BY DEF IInv, TypeOK, Entries
  <2>. QED  BY <2>1, <2>2 DEF Agrees
<1>. QED  BY <1>1, <1>2, NextTruth, Invariance, PTL DEF Spec
=============================================================================
