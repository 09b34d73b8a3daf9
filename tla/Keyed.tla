------------------------------- MODULE Keyed -------------------------------
(***************************************************************************)
(* The resources that keep one value under one key at one server: a kind   *)
(* of zone metadata, a network's view, a zone's place in a view, an        *)
(* autoprimary, a TSIG key, a Recursor zone and the ACLs.  Their handlers  *)
(* have one shape and differ in what forces replacement and in the calls   *)
(* they make; a behaviour is about resources of one kind.                  *)
(*                                                                         *)
(* A key is what the id is made of, a value is what else the block says,   *)
(* and two spellings a modifier takes for the same are one.  A             *)
(* configuration gives a key to one resource only.  An API call is one     *)
(* step, with the outcomes ApiCall allows it.                              *)
(***************************************************************************)
EXTENDS Integers

CONSTANTS
    Resources,
    Kinds,      \* the kinds of resource looked at
    Keys,
    Reserved,   \* the metadata kinds that are attributes of the zone
    Values,
    Unset,      \* the value a block has when it does not mention any
    MaxFaults,  \* bound: faulty API calls
    MaxEdits,   \* bound: edits of the configuration and imports
    MaxOutside  \* bound: changes made by others

AllKinds == {"metadata", "network", "view_zone", "autoprimary", "tsigkey",
             "recursor_zone", "recursor_acl", "dnsdist_acl"}

ASSUME KindsAssumption == Kinds \subseteq AllKinds
ASSUME KeysAssumption == Reserved \subseteq Keys /\ Keys \ Reserved # {}
ASSUME ValuesAssumption == Unset \in Values /\ {"none", "empty"} \cap (Keys \cup Values) = {}
ASSUME BoundsAssumption == {MaxFaults, MaxEdits, MaxOutside} \subseteq Nat

VARIABLES
    kind,       \* the kind this behaviour is about; it never changes
    config,     \* config[r]: the block of r, or None
    state,      \* state[r]: what Terraform remembers of r, or None
    step,       \* step[r]: the next API call of r in the current run
    home,       \* the zone the metadata belongs to exists
    server,     \* server[k]: the values the server holds under k
    records,    \* Recursor zones somebody put records into
    late,       \* requests given up on that the server may still carry out
    released,   \* history: keys a resource gave up in the current run
    faults, edits, outside  \* how much of each bound is used

serverVars == <<home, server, records, late>>
bounds == <<faults, edits, outside>>
vars == <<kind, config, state, step, serverVars, released, bounds>>

-----------------------------------------------------------------------------
(***************************************************************************)
(* What the kinds differ in.  replacedBy: a change of these replaces the   *)
(* object; empty: the block may spell out a value the server takes for     *)
(* none.  The calls of Create, Update and Delete: "add" and "put" write    *)
(* whatever is there, "post" and "insert" make a new object, "replace"     *)
(* changes one that exists, "nothing" calls nobody.                        *)
(***************************************************************************)

MetadataSchema == [replacedBy |-> {"key"}, empty |-> FALSE]
MetadataCalls == [create |-> "put", update |-> "put", delete |-> "delete"]

NetworkSchema == [replacedBy |-> {"key"}, empty |-> TRUE]
NetworkCalls == [create |-> "put", update |-> "put", delete |-> "delete"]

ViewZoneSchema == [replacedBy |-> {"key"}, empty |-> FALSE]
ViewZoneCalls == [create |-> "add", update |-> "nothing", delete |-> "delete"]

AutoprimarySchema == [replacedBy |-> {"key", "value"}, empty |-> TRUE]
AutoprimaryCalls == [create |-> "insert", update |-> "nothing", delete |-> "delete"]

\* Seeded fault: a new algorithm is applied in place.
TSIGKeySchemaInPlace == [replacedBy |-> {"key"}, empty |-> FALSE]
TSIGKeySchema == [replacedBy |-> {"key", "value"}, empty |-> FALSE]
TSIGKeyCalls == [create |-> "post", update |-> "nothing", delete |-> "delete"]

RecursorZoneSchema == [replacedBy |-> {"key"}, empty |-> TRUE]
RecursorZoneCalls == [create |-> "post", update |-> "replace", delete |-> "delete"]

RecursorACLSchema == [replacedBy |-> {}, empty |-> FALSE]
\* Seeded fault: Delete writes the empty list.
RecursorACLCallsClear == [create |-> "put", update |-> "put", delete |-> "delete"]
RecursorACLCalls == [create |-> "put", update |-> "put", delete |-> "nothing"]

DNSDistACLSchema == [replacedBy |-> {}, empty |-> FALSE]
DNSDistACLCalls == [create |-> "put", update |-> "put", delete |-> "nothing"]

Schema ==
    CASE kind = "metadata" -> MetadataSchema
      [] kind = "network" -> NetworkSchema
      [] kind = "view_zone" -> ViewZoneSchema
      [] kind = "autoprimary" -> AutoprimarySchema
      [] kind = "tsigkey" -> TSIGKeySchema
      [] kind = "recursor_zone" -> RecursorZoneSchema
      [] kind = "recursor_acl" -> RecursorACLSchema
      [] OTHER -> DNSDistACLSchema

Calls ==
    CASE kind = "metadata" -> MetadataCalls
      [] kind = "network" -> NetworkCalls
      [] kind = "view_zone" -> ViewZoneCalls
      [] kind = "autoprimary" -> AutoprimaryCalls
      [] kind = "tsigkey" -> TSIGKeyCalls
      [] kind = "recursor_zone" -> RecursorZoneCalls
      [] kind = "recursor_acl" -> RecursorACLCalls
      [] OTHER -> DNSDistACLCalls

ACL == kind \in {"recursor_acl", "dnsdist_acl"}

KeysOf(k) ==
    CASE k = "metadata" -> Keys
      [] k = "dnsdist_acl" -> {CHOOSE key \in Keys \ Reserved : TRUE}
      [] OTHER -> Keys \ Reserved

\* A membership has no value.
ValuesOf(k) == IF k = "view_zone" THEN {Unset} ELSE Values

Entry == [key : Keys, value : Values \cup {"empty"}]
None == [key |-> "none", value |-> "none"]
Verbs == {"put", "add", "post", "insert", "replace", "delete"}
Request == [verb : Verbs, key : Keys, content : SUBSET Values]
Steps == {"rest", "refresh", "create", "update", "delete", "replace"}

Blocks ==
    [key : KeysOf(kind),
     value : ValuesOf(kind) \cup (IF Schema.empty THEN {"empty"} ELSE {})]

\* No two blocks of a configuration ask for the same key.
Distinct(c) == \A r, s \in Resources : r # s /\ c[r] # None => c[r].key # c[s].key

TypeOK ==
    /\ kind \in Kinds
    /\ config \in [Resources -> Blocks \cup {None}] /\ Distinct(config)
    /\ state \in [Resources -> Entry \cup {None}]
    /\ step \in [Resources -> Steps]
    /\ home \in BOOLEAN
    /\ server \in [Keys -> SUBSET Values]
    /\ records \subseteq Keys
    /\ late \subseteq Request
    /\ released \subseteq Keys
    /\ faults \in 0 .. MaxFaults
    /\ edits \in 0 .. MaxEdits
    /\ outside \in 0 .. MaxOutside

\* An ACL always has a value, and a new zone comes with reserved metadata.
Given(key) == key \in KeysOf(kind) /\ (ACL \/ key \in Reserved)

Init ==
    /\ kind \in Kinds
    /\ config \in {c \in [Resources -> Blocks \cup {None}] : Distinct(c)}
    /\ state = [r \in Resources |-> None]
    /\ step = [r \in Resources |-> "rest"]
    /\ home = TRUE
    /\ server = [key \in Keys |-> IF Given(key) THEN {Unset} ELSE {}]
    /\ records = {} /\ late = {} /\ released = {}
    /\ faults = 0 /\ edits = 0 /\ outside = 0

Fault == faults < MaxFaults /\ faults' = faults + 1
NoFault == UNCHANGED faults

Resting == \A r \in Resources : step[r] = "rest"
Applying == \A r \in Resources : step[r] # "refresh"

-----------------------------------------------------------------------------
(***************************************************************************)
(* The server and planning.                                                *)
(***************************************************************************)

\* The server may refuse: there is no zone, a new object has a predecessor,
\* or there is nothing to change.
Refuses(q) ==
    \/ ~home
    \/ q.verb \in {"post", "insert"} /\ server[q.key] # {}
    \/ q.verb = "replace" /\ server[q.key] = {}

\* Whether an autoprimary that exists is written again differs by backend.
Takes(q) == ~Refuses(q) \/ q.verb = "insert"

\* What is written replaces what was there, records of the zone included.
Serve(q) ==
    /\ server' = IF q.verb = "nothing" THEN server ELSE [server EXCEPT ![q.key] = q.content]
    /\ records' = IF q.verb = "nothing" THEN records ELSE records \ {q.key}

\* Seeded fault: the empty spelling reaches the server as it is.
ContentVerbatim(value) == {value}

\* What a write of the value leaves at the server: no view at all, an omitted
\* account or list of servers, or the value.
Content(value) ==
    IF value # "empty" THEN {value} ELSE IF kind = "network" THEN {} ELSE {Unset}

RequiresReplace(c, s) ==
    \/ c.key # s.key /\ "key" \in Schema.replacedBy
    \/ c.value # s.value /\ "value" \in Schema.replacedBy

Action(c, s) ==
    CASE c = None /\ s = None -> "rest"
      [] c = None /\ s # None -> "delete"
      [] c # None /\ s = None -> "create"
      [] OTHER -> IF RequiresReplace(c, s) THEN "replace"
                  ELSE IF c # s THEN "update" ELSE "rest"

StartRun ==
    /\ Resting
    /\ step' = [r \in Resources |-> "refresh"]
    /\ released' = {}
    /\ UNCHANGED <<kind, config, state, serverVars, bounds>>

-----------------------------------------------------------------------------
(***************************************************************************)
(* The operations of a resource.                                           *)
(***************************************************************************)

Observed(key) == {[key |-> key, value |-> v] : v \in server[key]}

\* A view is there as long as it has a member, and reading it is a 404 from then
\* on for whoever had a place in it; the keys of a behaviour about memberships
\* are places in one view.
ViewGone == kind = "view_zone" /\ \A key \in Keys : server[key] = {}

\* The server holds nothing under a key.  Whether it says 404, an empty list or
\* an empty view, or lists other keys only, it is gone.
Gone(key) == ViewGone \/ server[key] = {}

\* Seeded fault: an answer without a value leaves the state alone.
FoundSticky(s) == IF s = None \/ Gone(s.key) THEN {s} ELSE Observed(s.key)

\* Seeded fault: the 404 of a view that is gone is not taken for absence.
FoundUnlessViewGone(s) ==
    IF s # None /\ ViewGone THEN {s}
    ELSE IF s = None \/ Gone(s.key) THEN {None} ELSE Observed(s.key)

\* Seeded fault: any error is taken for absence.
FoundOrLost(s) ==
    IF s = None \/ Gone(s.key) THEN {None} ELSE Observed(s.key) \cup {None}

\* The state after a Read; the first of several objects under a key is as good
\* as another.
Found(s) == IF s = None \/ Gone(s.key) THEN {None} ELSE Observed(s.key)

\* Read and the plan made of it.  Any other error ends the run before
\* anything is applied.
Read(r) ==
    /\ step[r] = "refresh"
    /\ \/ \E s \in Found(state[r]) :
             /\ state' = [state EXCEPT ![r] = s]
             /\ step' = [step EXCEPT ![r] = Action(config[r], s)]
             /\ NoFault
       \/ /\ state[r] # None
          /\ step' = [s \in Resources |-> "rest"]
          /\ Fault
          /\ UNCHANGED state
    /\ UNCHANGED <<kind, config, serverVars, released, edits, outside>>

Finish(r) == step' = [step EXCEPT ![r] = "rest"]

\* An error: Terraform keeps the state it had.
Fail(r) == Finish(r) /\ UNCHANGED state

\* The call succeeded, at once or after attempts that were given up on; one of
\* those may be under way still.
Answered(q) ==
    \/ NoFault /\ UNCHANGED late
    \/ q.verb # "nothing" /\ Fault /\ late' = late \cup {q}

\* The call failed for good: with no effect, with one, or with one to come.
Lost(r, q) ==
    /\ q.verb # "nothing"
    /\ Fault
    /\ Fail(r)
    /\ \/ UNCHANGED <<server, records, late>>
       \/ Takes(q) /\ Serve(q) /\ UNCHANGED late
       \/ late' = late \cup {q} /\ UNCHANGED <<server, records>>

\* checkMetadataKind: reserved metadata is refused before any call.
Addressable(key) == key \notin Reserved

\* Create or Update; neither reads the result back.
Write(r) ==
    LET q == [verb |-> IF step[r] = "create" THEN Calls.create ELSE Calls.update,
              key |-> config[r].key, content |-> Content(config[r].value)]
    IN  /\ step[r] \in {"create", "update"}
        /\ Applying
        /\ \/ /\ Addressable(q.key) /\ Takes(q)
              /\ Serve(q)
              /\ state' = [state EXCEPT ![r] = config[r]]
              /\ Finish(r)
              /\ Answered(q)
           \/ /\ ~Addressable(q.key) \/ Refuses(q)
              /\ Fail(r)
              /\ NoFault /\ UNCHANGED <<server, records, late>>
           \/ Addressable(q.key) /\ Lost(r, q)
        /\ UNCHANGED <<kind, config, home, released, edits, outside>>

\* Seeded fault: the key to delete is taken from the plan.
DoomedByPlan(r) == IF config[r] = None THEN state[r].key ELSE config[r].key

\* The key a Delete names.
Doomed(r) == state[r].key

\* Delete, on its own or as the first half of a replacement; what is not there
\* any more counts as deleted.
Delete(r) ==
    LET q == [verb |-> Calls.delete, key |-> Doomed(r), content |-> {}] IN
    /\ step[r] \in {"delete", "replace"}
    /\ Applying
    /\ \/ /\ Serve(q)
          /\ state' = [state EXCEPT ![r] = None]
          /\ step' = [step EXCEPT ![r] = IF @ = "replace" THEN "create" ELSE "rest"]
          /\ released' = released \cup {state[r].key}
          /\ Answered(q)
       \/ Lost(r, q) /\ UNCHANGED released
    /\ UNCHANGED <<kind, config, home, edits, outside>>

\* ImportState names the key of the block, and the read that follows finds it.
Import(r) ==
    /\ Resting
    /\ config[r] # None /\ state[r] = None
    /\ Addressable(config[r].key)
    /\ edits < MaxEdits /\ edits' = edits + 1
    /\ \E s \in Observed(config[r].key) : state' = [state EXCEPT ![r] = s]
    /\ UNCHANGED <<kind, config, step, serverVars, released, faults, outside>>

-----------------------------------------------------------------------------
(***************************************************************************)
(* The environment.                                                        *)
(***************************************************************************)

\* The operator changes the block of one resource, or moves a block to
\* another address: the old address goes and the new one takes its key.
Edit ==
    /\ Resting
    /\ edits < MaxEdits /\ edits' = edits + 1
    /\ \/ \E r \in Resources, c \in Blocks \cup {None} :
             config' = [config EXCEPT ![r] = c]
       \/ \E r, s \in Resources :
             r # s /\ config' = [config EXCEPT ![r] = config[s], ![s] = config[r]]
    /\ config' # config
    /\ Distinct(config')
    /\ UNCHANGED <<kind, state, step, serverVars, released, faults, outside>>

\* What somebody else may leave under a key.  A PUT with another algorithm
\* adds a second TSIG key, and an ACL is never without a value.
Contents ==
    {{v} : v \in ValuesOf(kind)}
        \cup (IF ACL THEN {} ELSE {{}})
        \cup (IF kind = "tsigkey" THEN {Values} ELSE {})

\* Somebody else writes or removes a value, puts records into a Recursor zone
\* or removes the zone the metadata is about.
Outside ==
    /\ home
    /\ outside < MaxOutside /\ outside' = outside + 1
    /\ \/ \E key \in KeysOf(kind) \ Reserved, content \in Contents \ {{}} :
             /\ server' = [server EXCEPT ![key] = content]
             /\ UNCHANGED <<home, records>>
       \/ \E key \in KeysOf(kind) \ Reserved :
             /\ {} \in Contents
             /\ server' = [server EXCEPT ![key] = {}]
             /\ records' = records \ {key}
             /\ UNCHANGED home
       \/ \E key \in Keys :
             /\ kind = "recursor_zone" /\ server[key] # {}
             /\ records' = records \cup {key}
             /\ UNCHANGED <<home, server>>
       \/ /\ kind = "metadata"
          /\ home' = FALSE
          /\ server' = [key \in Keys |-> {}]
          /\ UNCHANGED records
    /\ server' # server \/ records' # records
    /\ UNCHANGED <<kind, config, state, step, late, released, faults, edits>>

\* The server deals with a request its client has given up on.
Deliver(q) ==
    /\ \/ Takes(q) /\ Serve(q)
       \/ Refuses(q) /\ UNCHANGED <<server, records>>
    /\ late' = late \ {q}
    /\ UNCHANGED <<kind, config, state, step, home, released, bounds>>

Operate(r) == Read(r) \/ Write(r) \/ Delete(r)

Next ==
    \/ StartRun
    \/ \E r \in Resources : Operate(r) \/ Import(r)
    \/ Edit
    \/ Outside
    \/ \E q \in late : Deliver(q)

\* Every call returns, and the configuration is applied again and again.
Fairness == WF_vars(StartRun) /\ \A r \in Resources : WF_vars(Operate(r))

Spec == Init /\ [][Next]_vars
FairSpec == Spec /\ Fairness

-----------------------------------------------------------------------------
(***************************************************************************)
(* Properties.                                                             *)
(***************************************************************************)

\* Nobody interfered, and every call was answered.
Undisturbed == faults = 0 /\ outside = 0

\* Undisturbed, what a resource reports between runs is what the server holds
\* under its key, unless another resource gave the key up in the same run.
StateMatchesServer ==
    Undisturbed /\ Resting =>
        \A r \in Resources : state[r] # None =>
            \/ state[r].key \in released
            \/ server[state[r].key] = Content(state[r].value)

\* Undisturbed, changing, moving or removing a block leaves no object behind.
\* ACLs are left as they are by design.
NoLeftovers ==
    Undisturbed /\ Resting /\ ~ACL =>
        \A key \in Keys \ Reserved :
            server[key] # {} => \E r \in Resources : state[r].key = key

\* A step of the provider, and not of somebody else.
Provider == outside' = outside /\ late \subseteq late'

\* "What the provider does not manage, it does not touch": a run changes no
\* key that neither the configuration nor the state names, removes none that
\* only the configuration names (but for one it gives no view), leaves reserved
\* metadata alone and never leaves an ACL empty, which refuses every client.
OtherKeysKept ==
    [][Provider => \A key \in Keys : server'[key] # server[key] =>
          /\ \E r \in Resources :
                \/ state[r].key = key
                \/ config[r].key = key /\ server'[key] = Content(config[r].value)
          /\ key \notin Reserved
          /\ ACL => server'[key] # {}]_vars

\* Terraform forgets an object only when the server has none under its key,
\* however the server spells that; an ACL is forgotten on request.
ForgetsOnlyGone ==
    [][\A r \in Resources : state[r] # None /\ state'[r] = None =>
          \/ server'[state[r].key] = {}
          \/ ACL /\ step[r] = "delete"]_vars

\* Nothing is left to do for r, and the server has what its block says.
Settled(r) ==
    /\ step[r] \in {"rest", "refresh"}
    /\ state[r] = config[r]
    /\ config[r] # None => Content(config[r].value) \subseteq server[config[r].key]

\* The block can never come true: its value reads back as none, its key is
\* refused, or somebody else's or an unacknowledged object is in the way.
Excused(r) ==
    \/ config[r].value = "empty"
    \/ config[r].key \in Reserved
    \/ /\ ~Undisturbed
       /\ config[r] # None /\ state[r] = None
       /\ Calls.create \in {"post", "insert"} /\ server[config[r].key] # {}

\* Once edits, faults and outside changes stop, applying again reaches the
\* configuration and from then on every plan is empty.
Converges == <>[](home => \A r \in Resources : Settled(r) \/ Excused(r))

-----------------------------------------------------------------------------
(***************************************************************************)
(* What the documents claim.                                               *)
(***************************************************************************)

\* "Anything set by another tool is left alone": records that somebody put
\* into a Recursor zone go only with the zone.
RecordsKept ==
    [][Provider => \A key \in records : key \in records' \/ server'[key] = {}]_vars
=============================================================================
