------------------------------- MODULE Family -------------------------------
(***************************************************************************)
(* A zone with a record set and a DNSSEC key in it: powerdns_zone,         *)
(* powerdns_record and powerdns_zone_cryptokey in one configuration.  The  *)
(* children name their zone by its `id`, which is not known while the zone *)
(* is replaced, or by its `name`, which is.  A run refreshes everything,   *)
(* plans, and then makes the calls of the plan in any order that lets a    *)
(* child follow its zone when made and precede it when destroyed.          *)
(*                                                                         *)
(* Zone, Record and CryptoKey have the handlers one by one, with changes   *)
(* by others and late requests; here they are what matters between         *)
(* resources.  `dnssec` is left out of the zone block, as its schema asks  *)
(* of those who manage keys, so it is what the server had at the refresh.  *)
(***************************************************************************)
EXTENDS Integers, FiniteSets

CONSTANTS
    Servers,    \* nameserver lists; another one replaces the zone
    Accounts,   \* accounts; another one updates the zone
    Algorithms, \* algorithms of the key; another one replaces the key
    MaxFaults,  \* bound: API calls that fail for good
    MaxEdits    \* bound: edits of the configuration

ASSUME NamesAssumption == "none" \notin Servers \cup Algorithms
ASSUME BoundsAssumption == {MaxFaults, MaxEdits} \subseteq Nat

VARIABLES
    config,     \* the blocks: zone or NoZone, record, key or "none", link
    state,      \* what Terraform remembers of the three
    todo,       \* the calls the current run has still to make
    server,     \* the zone, its record set and its keys
    faults, edits,  \* how much of each bound is used
    complete,   \* history: no call of the current or last run has failed
    replaced    \* history: that run destroys the zone to make it again

vars == <<config, state, todo, server, faults, edits, complete, replaced>>

Zone == [servers : Servers, account : Accounts]
NoZone == [servers |-> "none", account |-> "none"]
Remembered == [servers : Servers, account : Accounts, dnssec : BOOLEAN]
Unremembered == [servers |-> "none", account |-> "none", dnssec |-> FALSE]
NoKey == [id |-> 0, algorithm |-> "none"]
Nowhere == [zone |-> NoZone, record |-> FALSE, keys |-> {}]

\* A block refers to the zone only where there is one.
Configs ==
    {c \in [zone : Zone \cup {NoZone}, record : BOOLEAN, key : Algorithms \cup {"none"},
            link : {"id", "name"}] :
        c.zone = NoZone => ~ c.record /\ c.key = "none"}

Calls ==
    {"refresh", "create_zone", "update_zone", "delete_zone",
     "create_record", "delete_record", "create_key", "delete_key"}

Key == [id : Nat \ {0}, managed : BOOLEAN]
RememberedKey == [id : Nat \ {0}, algorithm : Algorithms]

TypeOK ==
    /\ config \in Configs
    /\ state \in [zone : Remembered \cup {Unremembered}, record : BOOLEAN,
                  key : RememberedKey \cup {NoKey}]
    /\ todo \subseteq Calls
    /\ server \in [zone : Zone \cup {NoZone}, record : BOOLEAN, keys : SUBSET Key]
    /\ IsFiniteSet(server.keys)
    /\ faults \in 0 .. MaxFaults /\ edits \in 0 .. MaxEdits
    /\ complete \in BOOLEAN /\ replaced \in BOOLEAN

Init ==
    /\ config \in Configs
    /\ state = [zone |-> Unremembered, record |-> FALSE, key |-> NoKey]
    /\ todo = {}
    /\ server = Nowhere
    /\ faults = 0 /\ edits = 0
    /\ complete = FALSE /\ replaced = FALSE

-----------------------------------------------------------------------------
(***************************************************************************)
(* Refresh and plan.                                                       *)
(***************************************************************************)

Exists == server.zone # NoZone

\* The three Reads.  With the zone gone its children are, and dnssec is what
\* the server has.
Refreshed ==
    [zone |-> IF state.zone = Unremembered \/ ~ Exists THEN Unremembered
              ELSE [servers |-> state.zone.servers, account |-> server.zone.account,
                    dnssec |-> server.keys # {}],
     record |-> state.record /\ server.record,
     key |-> IF \E k \in server.keys : k.id = state.key.id THEN state.key ELSE NoKey]

\* Seeded fault: another account replaces the zone as well.
ReplacesZoneOnAccount(s) == config.zone # [servers |-> s.zone.servers, account |-> s.zone.account]

ReplacesZone(s) == config.zone.servers # s.zone.servers

\* Seeded fault: dnssec has a default of false.
PlannedUnsigned(s) == FALSE

\* dnssec as planned and as sent: the block leaves it out.
PlannedSigning(s) == s.zone.dnssec

ZoneCalls(s) ==
    CASE config.zone = NoZone -> IF s.zone = Unremembered THEN {} ELSE {"delete_zone"}
      [] config.zone # NoZone /\ s.zone = Unremembered -> {"create_zone"}
      [] OTHER -> IF ReplacesZone(s) THEN {"delete_zone", "create_zone"}
                  ELSE IF config.zone.account # s.zone.account \/ PlannedSigning(s) # s.zone.dnssec
                  THEN {"update_zone"} ELSE {}

\* Seeded fault: the zone of a child does not force replacement.
UprootedNever(s) == FALSE

\* A child of a zone that is replaced is replaced too if its zone is unknown.
Uprooted(s) == config.link = "id" /\ ZoneCalls(s) = {"delete_zone", "create_zone"}

RecordCalls(s) ==
    (IF s.record /\ (~ config.record \/ Uprooted(s)) THEN {"delete_record"} ELSE {})
    \cup (IF config.record /\ (~ s.record \/ Uprooted(s)) THEN {"create_record"} ELSE {})

KeyCalls(s) ==
    (IF s.key # NoKey /\ (config.key # s.key.algorithm \/ Uprooted(s)) THEN {"delete_key"} ELSE {})
    \cup (IF config.key # "none" /\ (config.key # s.key.algorithm \/ Uprooted(s))
          THEN {"create_key"} ELSE {})

Plan(s) == ZoneCalls(s) \cup RecordCalls(s) \cup KeyCalls(s)

\* The calls that have to be made before this one.
Before(call) ==
    CASE call = "delete_zone" -> {"delete_record", "delete_key"}
      [] call = "create_zone" -> {"delete_zone"}
      [] call = "create_record" -> {"delete_record", "create_zone", "update_zone"}
      [] call = "create_key" -> {"delete_key", "create_zone", "update_zone"}
      [] OTHER -> {}

\* What is not made once these calls have failed: the chain from the delete
\* of a child to the create of another is the longest.
Dependents(calls) == calls \cup {c \in todo : Before(c) \cap calls # {}}
After(call) == Dependents(Dependents(Dependents({call})))

-----------------------------------------------------------------------------
(***************************************************************************)
(* The server.  A zone is signed exactly if it has keys: told to sign one  *)
(* that has none it makes a key itself, told not to it drops every key.    *)
(***************************************************************************)

\* The id of a new key: one that neither the server nor Terraform has in use.
FreshId ==
    LET used == {k.id : k \in server.keys} \cup {state.key.id}
    IN  CHOOSE i \in 1 .. Cardinality(used) + 1 : i \notin used

NewKey(managed) == [id |-> FreshId, managed |-> managed]

\* PUT of the zone, with the account and dnssec in the body.
PutZone(account, dnssec) ==
    IF ~ Exists THEN server
    ELSE [server EXCEPT
            !.zone.account = account,
            !.keys = IF ~ dnssec THEN {} ELSE IF @ = {} THEN {NewKey(FALSE)} ELSE @]

Served(call) ==
    CASE call = "create_zone" -> IF Exists THEN server ELSE [Nowhere EXCEPT !.zone = config.zone]
      [] call = "update_zone" -> PutZone(config.zone.account, PlannedSigning(state))
      [] call = "delete_zone" -> Nowhere
      [] call \in {"create_record", "delete_record"} ->
            [server EXCEPT !.record = Exists /\ call = "create_record"]
      [] call = "create_key" ->
            IF Exists THEN [server EXCEPT !.keys = @ \cup {NewKey(TRUE)}] ELSE server
      [] call = "delete_key" -> [server EXCEPT !.keys = {k \in @ : k.id # state.key.id}]

\* What the server says to a call: to make a zone there must be none, to
\* change anything there must be one, and what is not there counts as deleted.
Accepted(call) ==
    CASE call = "create_zone" -> ~ Exists
      [] call \in {"update_zone", "create_record", "create_key"} -> Exists
      [] OTHER -> TRUE

-----------------------------------------------------------------------------
(***************************************************************************)
(* The run.                                                                *)
(***************************************************************************)

StartRun ==
    /\ todo = {}
    /\ todo' = {"refresh"}
    /\ UNCHANGED <<config, state, server, faults, edits, complete, replaced>>

Refresh ==
    /\ "refresh" \in todo
    /\ state' = Refreshed
    /\ todo' = Plan(Refreshed)
    /\ complete' = TRUE /\ replaced' = FALSE
    /\ UNCHANGED <<config, server, faults, edits>>

\* What Terraform remembers once a call has succeeded; what the block leaves
\* out of an update was planned as the value in the state.
Recorded(call) ==
    CASE call = "create_zone" ->
            [state EXCEPT !.zone = [servers |-> config.zone.servers,
                                    account |-> config.zone.account, dnssec |-> FALSE]]
      [] call = "update_zone" -> [state EXCEPT !.zone.account = config.zone.account,
                                               !.zone.dnssec = PlannedSigning(state)]
      [] call = "delete_zone" -> [state EXCEPT !.zone = Unremembered]
      [] call = "create_record" -> [state EXCEPT !.record = TRUE]
      [] call = "delete_record" -> [state EXCEPT !.record = FALSE]
      [] call = "create_key" -> [state EXCEPT !.key = [id |-> FreshId, algorithm |-> config.key]]
      [] call = "delete_key" -> [state EXCEPT !.key = NoKey]

Ready(call) == call \in todo /\ call # "refresh" /\ Before(call) \cap todo = {}

Make(call) ==
    /\ Ready(call)
    /\ IF Accepted(call)
       THEN /\ server' = Served(call)
            /\ state' = Recorded(call)
            /\ todo' = todo \ {call}
            /\ UNCHANGED complete
       ELSE /\ todo' = todo \ After(call)
            /\ complete' = FALSE
            /\ UNCHANGED <<state, server>>
    /\ replaced' = (replaced \/ (call = "delete_zone" /\ config.zone # NoZone))
    /\ UNCHANGED <<config, faults, edits>>

\* The call fails for good, having taken effect or not.
Lose(call) ==
    /\ Ready(call)
    /\ faults < MaxFaults /\ faults' = faults + 1
    /\ server' \in {server, Served(call)}
    /\ todo' = todo \ After(call)
    /\ complete' = FALSE
    /\ UNCHANGED <<config, state, edits, replaced>>

\* A read fails, and the run ends before anything is applied.
LoseRefresh ==
    /\ "refresh" \in todo
    /\ faults < MaxFaults /\ faults' = faults + 1
    /\ todo' = {} /\ complete' = FALSE
    /\ UNCHANGED <<config, state, server, edits, replaced>>

Edit ==
    /\ todo = {}
    /\ edits < MaxEdits /\ edits' = edits + 1
    /\ config' \in Configs \ {config}
    /\ config'.link = config.link
    /\ complete' = FALSE
    /\ UNCHANGED <<state, todo, server, faults, replaced>>

Operate == Refresh \/ \E call \in Calls : Make(call)

Next == StartRun \/ Operate \/ Edit \/ LoseRefresh \/ \E call \in Calls : Lose(call)

\* Every call returns, and the configuration is applied again and again.
Fairness == WF_vars(StartRun) /\ WF_vars(Operate)

Spec == Init /\ [][Next]_vars
FairSpec == Spec /\ Fairness

-----------------------------------------------------------------------------
(***************************************************************************)
(* Properties.                                                             *)
(***************************************************************************)

\* The block asks for what the state has, and the zone is not to be replaced.
Wanted(what) ==
    /\ config.zone.servers = server.zone.servers
    /\ IF what = "record" THEN config.record ELSE config.key = state.key.algorithm

\* A run takes the record set or the key from the server only when its block
\* no longer asks for it or asks for another, or when the zone is replaced:
\* changing the zone, or repairing a part that failed, never costs the rest.
ChildrenKept ==
    [][/\ server.record /\ ~ server'.record => ~ Wanted("record")
       /\ (\E k \in server.keys \ server'.keys : k.id = state.key.id) => ~ Wanted("key")]_vars

\* "Applying an unchanged configuration twice plans nothing the second time",
\* whatever failed in earlier runs, unless a zone was replaced under children
\* that name it by its name.
OneRunSuffices ==
    todo = {} /\ complete /\ (replaced => config.link = "id") => Plan(Refreshed) = {}

\* The zone is there and the resource does not know: its POST was lost.
Conflict == config.zone # NoZone /\ state.zone = Unremembered /\ Exists

\* The server has what the blocks ask for, and a run has nothing to do.
Settled ==
    /\ todo \subseteq {"refresh"}
    /\ Plan(Refreshed) = {}
    /\ config.zone # NoZone => server.zone = config.zone
    /\ config.record => server.record
    /\ config.key # "none" => \E k \in server.keys : k.id = state.key.id

\* Once edits and faults stop, applying again reaches the configuration, but
\* for a zone whose POST was lost.
Converges == <>[](Settled \/ Conflict)

\* "Leave it unset and manage keys with powerdns_zone_cryptokey": with dnssec
\* unset, the server is never told to make a key of its own.
NoKeyUnasked == \A k \in server.keys : k.managed
=============================================================================
