-------------------------------- MODULE Zone --------------------------------
(***************************************************************************)
(* powerdns_zone: one resource and the zone it manages, under Terraform    *)
(* runs, edits of the configuration, and changes made by others.           *)
(*                                                                         *)
(* The attributes are those the code tells apart:                          *)
(*   kind        sent by every write (kind, api_rectify)                   *)
(*   account     sent unless empty, null when read back empty (account,    *)
(*               catalog, soa_edit, masters)                               *)
(*   dnssec      a pointer, computed by the server unless configured and   *)
(*               sent once known (dnssec, nsec3narrow, presigned)          *)
(*   param       computed likewise, but not sent when empty (nsec3param,   *)
(*               soa_edit_api, master_ and slave_tsig_key_ids)             *)
(*   nameservers used by the creation only and never read back             *)
(* Values that a semantic modifier takes for the same are one value here.  *)
(* "" is the empty text or list, which a block may write out; "null" is an *)
(* attribute without a value.                                              *)
(*                                                                         *)
(* An API call is one step, with the outcomes ApiCall allows it.           *)
(***************************************************************************)
EXTENDS Integers

CONSTANTS
    Kinds,      \* the kinds a configuration may ask for
    Accounts,   \* the non-empty accounts
    Params,     \* the non-empty parameters
    Default,    \* the parameter of a zone made without one ("DEFAULT", or "")
    Servers,    \* the nameserver lists, an empty one included; "" is no list
    Offered,    \* bound: the blocks that may be written
    MaxFaults,  \* bound: faulty API calls
    MaxEdits,   \* bound: edits of the configuration and imports
    MaxOutside  \* bound: changes made by others

ASSUME ValuesAssumption ==
    /\ {"", "null", "unset", "unknown", "omitted"} \cap (Accounts \cup Params \cup Servers) = {}
    /\ Default \in Params \cup {""}
    /\ "none" \notin Kinds
ASSUME BoundsAssumption == {MaxFaults, MaxEdits, MaxOutside} \subseteq Nat

VARIABLES
    config,     \* the block, or Absent
    state,      \* what Terraform remembers, or None
    plan,       \* the values the current run is to reach
    step,       \* the next API call of the current run
    zone,       \* the zone at the server, or None
    late,       \* requests given up on that the server may still carry out
    faults, edits, outside  \* how much of each bound is used

vars == <<config, state, plan, step, zone, late, faults, edits, outside>>

Switch == {"on", "off"}
Zones == [kind : Kinds, account : Accounts \cup {""}, dnssec : Switch,
          param : Params \cup {""}, nameservers : Servers \cup {""}]
Blocks == [kind : Kinds, account : Accounts \cup {"", "null"}, dnssec : Switch \cup {"unset"},
           param : Params \cup {"", "unset"}, nameservers : Servers \cup {""}]
ASSUME OfferedAssumption == Offered \subseteq Blocks
Plans == [kind : Kinds, account : Accounts \cup {"", "null"}, dnssec : Switch \cup {"unknown"},
          param : Params \cup {"", "unknown"}, nameservers : Servers \cup {""}]
Entries == {p \in Plans : p.dnssec # "unknown" /\ p.param # "unknown"}
None == [kind |-> "none", account |-> "null", dnssec |-> "off", param |-> "", nameservers |-> ""]
Absent == None
NoPlan == None

Steps == {"rest", "refresh", "create", "update", "reread", "delete", "replace"}
Bodies == [kind : Kinds, account : Accounts \cup {"omitted"}, dnssec : Switch \cup {"omitted"},
           param : Params \cup {"omitted"}, nameservers : Servers \cup {""}]
Request == [op : {"create", "update", "delete"}, body : Bodies \cup {None}]

TypeOK ==
    /\ config \in Blocks \cup {Absent}
    /\ state \in Entries \cup {None}
    /\ plan \in Plans \cup {NoPlan}
    /\ step \in Steps
    /\ zone \in Zones \cup {None}
    /\ late \subseteq Request
    /\ faults \in 0 .. MaxFaults
    /\ edits \in 0 .. MaxEdits
    /\ outside \in 0 .. MaxOutside

\* A configuration that was never applied; the zone may exist already.
Init ==
    /\ config \in Offered
    /\ state = None
    /\ plan = NoPlan
    /\ step = "rest"
    /\ zone \in Zones \cup {None}
    /\ late = {}
    /\ faults = 0 /\ edits = 0 /\ outside = 0

Fault == faults < MaxFaults /\ faults' = faults + 1
NoFault == UNCHANGED faults

-----------------------------------------------------------------------------
(***************************************************************************)
(* The server.                                                             *)
(***************************************************************************)

\* What the server keeps of a field that may be missing from the body.
Sent(field, otherwise) == IF field = "omitted" THEN otherwise ELSE field

\* POST: an existing zone is a conflict; what is omitted gets a default.
ServeCreate(body) ==
    zone' = IF zone # None THEN zone
            ELSE [kind |-> body.kind,
                  account |-> Sent(body.account, ""),
                  dnssec |-> Sent(body.dnssec, "off"),
                  param |-> Sent(body.param, Default),
                  nameservers |-> body.nameservers]

\* PUT: what is omitted stays as it is; nameservers are ignored.
ServeUpdate(body) ==
    zone' = IF zone = None THEN zone
            ELSE [kind |-> body.kind,
                  account |-> Sent(body.account, zone.account),
                  dnssec |-> Sent(body.dnssec, zone.dnssec),
                  param |-> Sent(body.param, zone.param),
                  nameservers |-> zone.nameservers]

ServeDelete == zone' = None

Serve(request) ==
    CASE request.op = "create" -> ServeCreate(request.body)
      [] request.op = "update" -> ServeUpdate(request.body)
      [] request.op = "delete" -> ServeDelete

-----------------------------------------------------------------------------
(***************************************************************************)
(* Planning.                                                               *)
(***************************************************************************)

\* Seeded fault: dnssec has a default of false.
PlannedDefaultOff(c, s) == [c EXCEPT
    !.dnssec = IF @ = "unset" THEN "off" ELSE @,
    !.param = IF @ # "unset" THEN @ ELSE IF s = None THEN "unknown" ELSE s.param]

\* What a block plans over the entry s: a computed attribute that the block
\* leaves out keeps the value in the state, if there is one.
Planned(c, s) ==
    [kind |-> c.kind,
     account |-> c.account,
     dnssec |-> IF c.dnssec # "unset" THEN c.dnssec ELSE IF s = None THEN "unknown" ELSE s.dnssec,
     param |-> IF c.param # "unset" THEN c.param ELSE IF s = None THEN "unknown" ELSE s.param,
     nameservers |-> c.nameservers]

\* Seeded fault: a change of kind forces replacement too.
RequiresReplaceOnKind(c, s) == c.nameservers # s.nameservers \/ c.kind # s.kind

RequiresReplace(c, s) == c.nameservers # s.nameservers

Action(c, s) ==
    CASE c = Absent /\ s = None -> "rest"
      [] c = Absent /\ s # None -> "delete"
      [] c # Absent /\ s = None -> "create"
      [] OTHER -> IF RequiresReplace(c, s) THEN "replace"
                  ELSE IF Planned(c, s) # s THEN "update" ELSE "rest"

\* A replacement is planned again over an empty state.
PlanFor(c, s) ==
    CASE Action(c, s) \in {"create", "replace"} -> Planned(c, None)
      [] Action(c, s) = "update" -> Planned(c, s)
      [] OTHER -> NoPlan

StartRun ==
    /\ step = "rest"
    /\ step' = "refresh"
    /\ UNCHANGED <<config, state, plan, zone, late, faults, edits, outside>>

-----------------------------------------------------------------------------
(***************************************************************************)
(* The operations of the resource.                                         *)
(***************************************************************************)

\* An empty text or list read back is no value (optionalString).
Optional(value) == IF value = "" THEN "null" ELSE value

\* Seeded fault: a read clears what the server does not report.
ObservedAll(z, s) == [z EXCEPT !.account = Optional(@), !.nameservers = ""]

\* applyZone after a read: everything the server reports, which is all but the
\* nameservers.
Observed(z, s) ==
    [z EXCEPT !.account = Optional(@), !.nameservers = s.nameservers]

\* Seeded fault: an unknown value survives the apply.
WrittenAsPlanned(z) == plan

\* applyZone after a write: the plan, with what was unknown resolved.
Written(z) ==
    [plan EXCEPT !.dnssec = IF @ = "unknown" THEN z.dnssec ELSE @,
                 !.param = IF @ = "unknown" THEN z.param ELSE @]

\* A field with omitempty is not sent when it is empty or has no value.
Filled(value) == IF value \in {"", "null", "unknown"} THEN "omitted" ELSE value

\* Seeded fault: the switches are not sent.
BodyWithoutSwitch(p) ==
    [p EXCEPT !.account = Filled(@), !.dnssec = "omitted", !.param = Filled(@)]

\* The body of a POST or a PUT: an empty text or list is never sent, and a
\* switch is sent, on or off, unless its planned value is unknown.
Body(p) ==
    [p EXCEPT !.account = Filled(@),
              !.dnssec = IF @ = "unknown" THEN "omitted" ELSE @,
              !.param = Filled(@)]

Finish == step' = "rest" /\ plan' = NoPlan

\* An error: Terraform keeps the state it had.
Fail == Finish /\ UNCHANGED state

\* The call succeeded, at once or after attempts that were given up on; one of
\* those may be under way still.
Answered(request) ==
    \/ NoFault /\ UNCHANGED late
    \/ Fault /\ late' = late \cup {request}

\* The call failed for good: with no effect, with one, or with one to come.
Lost(request) ==
    /\ Fault
    /\ Fail
    /\ \/ UNCHANGED <<zone, late>>
       \/ Serve(request) /\ UNCHANGED late
       \/ late' = late \cup {request} /\ UNCHANGED zone

\* Read and the plan made of it.  A missing zone leaves the state; any other
\* error ends the run.
Read ==
    /\ step = "refresh"
    /\ \/ LET s == IF state = None \/ zone = None THEN None ELSE Observed(zone, state)
          IN  /\ state' = s
              /\ step' = Action(config, s)
              /\ plan' = PlanFor(config, s)
              /\ NoFault
       \/ state # None /\ Fault /\ Fail
    /\ UNCHANGED <<config, zone, late, edits, outside>>

Create ==
    LET request == [op |-> "create", body |-> Body(plan)] IN
    /\ step = "create"
    /\ \/ /\ zone = None
          /\ Serve(request)
          /\ state' = Written(zone')
          /\ Finish
          /\ Answered(request)
       \/ zone # None /\ Fail /\ NoFault /\ UNCHANGED <<zone, late>>
       \/ Lost(request)
    /\ UNCHANGED <<config, edits, outside>>

\* Update, up to the answer of PUT.
Update ==
    LET request == [op |-> "update", body |-> Body(plan)] IN
    /\ step = "update"
    /\ \/ /\ zone # None
          /\ Serve(request)
          /\ step' = "reread"
          /\ Answered(request)
          /\ UNCHANGED <<state, plan>>
       \/ zone = None /\ Fail /\ NoFault /\ UNCHANGED <<zone, late>>
       \/ Lost(request)
    /\ UNCHANGED <<config, edits, outside>>

\* Update, from the GET that follows the PUT; its every error is an error.
Reread ==
    /\ step = "reread"
    /\ \/ zone # None /\ state' = Written(zone) /\ Finish /\ NoFault
       \/ zone = None /\ Fail /\ NoFault
       \/ Fail /\ Fault
    /\ UNCHANGED <<config, zone, late, edits, outside>>

\* Delete, on its own or as the first half of a replacement; a zone that is
\* not there any more (404) counts as deleted.
Delete ==
    LET request == [op |-> "delete", body |-> None] IN
    /\ step \in {"delete", "replace"}
    /\ \/ /\ Serve(request)
          /\ state' = None
          /\ IF step = "replace" THEN step' = "create" /\ UNCHANGED plan ELSE Finish
          /\ Answered(request)
       \/ Lost(request)
    /\ UNCHANGED <<config, edits, outside>>

\* ImportState sets the name; the read that follows does not tell nameservers.
Import ==
    /\ step = "rest"
    /\ config # Absent /\ state = None /\ zone # None
    /\ edits < MaxEdits /\ edits' = edits + 1
    /\ state' = Observed(zone, None)
    /\ UNCHANGED <<config, plan, step, zone, late, faults, outside>>

-----------------------------------------------------------------------------
(***************************************************************************)
(* The environment.                                                        *)
(***************************************************************************)

Edit ==
    /\ step = "rest"
    /\ edits < MaxEdits /\ edits' = edits + 1
    /\ \E c \in Offered \cup {Absent} : c # config /\ config' = c
    /\ UNCHANGED <<state, plan, step, zone, late, faults, outside>>

\* Somebody else changes the zone or deletes it; adding the first key of a
\* zone switches dnssec on.
Outside ==
    /\ zone # None
    /\ outside < MaxOutside /\ outside' = outside + 1
    /\ zone' \in {z \in Zones \ {zone} : z.nameservers = zone.nameservers} \cup {None}
    /\ UNCHANGED <<config, state, plan, step, late, faults, edits>>

\* The server carries out a request its client has given up on.
Deliver(request) ==
    /\ Serve(request)
    /\ late' = late \ {request}
    /\ UNCHANGED <<config, state, plan, step, faults, edits, outside>>

Operate == Read \/ Create \/ Update \/ Reread \/ Delete

Next == StartRun \/ Operate \/ Import \/ Edit \/ Outside \/ \E request \in late : Deliver(request)

\* Every call returns, and the configuration is applied again and again.
Fairness == WF_vars(StartRun) /\ WF_vars(Operate)

Spec == Init /\ [][Next]_vars
FairSpec == Spec /\ Fairness

-----------------------------------------------------------------------------
(***************************************************************************)
(* Properties.                                                             *)
(***************************************************************************)

\* The server has what the block asks for, as far as the block says.
Satisfies(z, c) ==
    /\ z.kind = c.kind
    /\ Optional(z.account) = c.account
    /\ c.dnssec \in {z.dnssec, "unset"}
    /\ c.param \in {z.param, "unset"}

\* The block has an account or a parameter no longer, and the zone has: what is
\* empty is not sent, so the zone keeps it.
PendingClear ==
    /\ config # Absent /\ zone # None
    /\ \/ config.account \in {"", "null"} /\ zone.account # ""
       \/ config.param = "" /\ zone.param # ""

\* The block writes out an empty account, which is read back as no value and
\* planned again.
EmptyAccount == config # Absent /\ config.account = ""

\* The zone exists, and the resource does not know: only an import helps.
Conflict == config # Absent /\ state = None /\ zone # None

\* With nobody interfering and every call answered, what the state says of a
\* managed zone between runs is what the server has; only what was to be
\* cleared, an account or a parameter, may survive at the server.
StateMatchesServer ==
    step = "rest" /\ state # None /\ faults = 0 /\ outside = 0
    => /\ zone # None
       /\ state.kind = zone.kind
       /\ state.dnssec = zone.dnssec
       /\ state.account \in {zone.account, "", "null"}
       /\ state.param \in {zone.param, ""}

\* The provider, and not somebody else, deletes the zone now.
Destroyed == zone # None /\ zone' = None /\ outside' = outside /\ late \subseteq late'

\* A zone and its records are destroyed only when the block is gone or asks
\* for other nameservers than the ones known to have been used.
DestroyedOnPurpose ==
    [][Destroyed
       => \/ config = Absent
          \/ config.nameservers # zone.nameservers
          \/ state.nameservers # zone.nameservers]_vars

\* The provider changes the zone now.
Rewritten == step = "update" /\ zone # None /\ outside' = outside /\ late \subseteq late'

\* An update leaves alone what the block does not mention, as long as nobody
\* changed it since the run read it.
UnmentionedKept ==
    [][Rewritten
       => /\ config.dnssec = "unset" /\ zone.dnssec = state.dnssec => zone'.dnssec = zone.dnssec
          /\ config.param = "unset" /\ zone.param = state.param => zone'.param = zone.param]_vars

\* Nothing is left to do.
Settled ==
    /\ step \in {"rest", "refresh"}
    /\ IF config = Absent THEN state = None
       ELSE state # None /\ zone # None /\ Satisfies(zone, config)

\* Once edits, faults and outside changes stop, applying again reaches the
\* configuration, and from then on every plan is empty; the exceptions are a
\* zone the resource lost track of, a value that is to be cleared, and an empty
\* account that is written out.
Converges == <>[](Settled \/ Conflict \/ PendingClear \/ EmptyAccount)
=============================================================================
