---------------------------- MODULE FamilyProofs ----------------------------
(***************************************************************************)
(* Family keeps the children of a zone and finishes in one run, for all    *)
(* nameserver lists, accounts, algorithms and bounds.                      *)
(***************************************************************************)
EXTENDS Family, FiniteSetTheorems, TLAPS

(***************************************************************************)
(* The inductive invariant.                                                *)
(***************************************************************************)

KeyHeld == \E k \in server.keys : k.id = state.key.id

\* A zone that is not there has nothing in it, and the state of one that is
\* knows what it was made with.
ServerInv ==
    /\ ~ Exists => ~ server.record /\ server.keys = {}
    /\ state.zone # Unremembered /\ Exists => state.zone.servers = server.zone.servers

\* Why a call is still to be made.  Nothing is destroyed that the blocks want,
\* and an update has no key to drop.
CallInv ==
    /\ "refresh" \in todo => todo = {"refresh"}
    /\ "delete_zone" \in todo => Exists /\ config.zone.servers # server.zone.servers
    /\ "delete_record" \in todo => Exists /\ ~ Wanted("record")
    /\ "delete_key" \in todo => Exists /\ ~ Wanted("key")
    /\ "update_zone" \in todo =>
          /\ config.zone # NoZone /\ state.zone # Unremembered
          /\ "create_zone" \notin todo /\ "delete_zone" \notin todo
          /\ ~ state.zone.dnssec => server.keys = {}
    /\ "create_zone" \in todo =>
          /\ config.zone # NoZone
          /\ "delete_zone" \in todo \/ state.zone = Unremembered
    /\ "create_record" \in todo => config.record
    /\ "create_key" \in todo => config.key # "none"

\* A run that has not failed and whose calls are planned.
Counted == complete /\ "refresh" \notin todo /\ (replaced => config.link = "id")

\* What is wanted is there or still to be made.
ZonePart ==
    /\ "delete_zone" \in todo /\ config.zone # NoZone => "create_zone" \in todo
    /\ "delete_zone" \notin todo /\ "create_zone" \notin todo =>
          /\ config.zone = NoZone => state.zone = Unremembered
          /\ config.zone # NoZone =>
                /\ state.zone # Unremembered /\ Exists
                /\ config.zone.servers = state.zone.servers
                /\ "update_zone" \in todo \/ config.zone.account = server.zone.account

RecordPart ==
    /\ "delete_record" \in todo /\ config.record => "create_record" \in todo
    /\ "delete_record" \notin todo /\ "create_record" \notin todo =>
          config.record = state.record /\ (config.record => server.record)

KeyPart ==
    /\ "delete_key" \in todo /\ config.key # "none" => "create_key" \in todo
    /\ "delete_key" \notin todo /\ "create_key" \notin todo =>
          config.key = state.key.algorithm /\ (config.key # "none" => KeyHeld)

\* A zone that goes takes its children with it, and they are made again.
ReplacePart ==
    "delete_zone" \in todo /\ config.zone # NoZone /\ config.link = "id" =>
        /\ config.record => "create_record" \in todo
        /\ config.key # "none" => "create_key" \in todo

RunInv == Counted => ZonePart /\ RecordPart /\ KeyPart /\ ReplacePart

IInv == TypeOK /\ ServerInv /\ CallInv /\ RunInv

-----------------------------------------------------------------------------
(***************************************************************************)
(* Lemmas about the operators.                                             *)
(***************************************************************************)

\* What is absent is none of what may be there.
LEMMA NothingIsNothing ==
    /\ NoZone \notin Zone /\ Unremembered \notin Remembered
    /\ \A z \in Zone : z.servers # NoZone.servers
    /\ \A z \in Remembered : z.servers # NoZone.servers
    /\ NoKey \notin RememberedKey
    /\ \A k \in RememberedKey : k.algorithm # "none"
    /\ NoKey.algorithm = "none" /\ NoKey.id = 0
BY NamesAssumption DEF NoZone, Zone, Unremembered, Remembered, NoKey, RememberedKey

\* What a configuration says.
LEMMA ConfigIs ==
    ASSUME config \in Configs
    PROVE  /\ config.zone \in Zone \cup {NoZone}
           /\ config.record \in BOOLEAN
           /\ config.key \in Algorithms \cup {"none"}
           /\ config.zone = NoZone => ~ config.record /\ config.key = "none"
BY DEF Configs

\* The order of the calls.
LEMMA BeforeIs ==
    /\ Before("delete_zone") = {"delete_record", "delete_key"}
    /\ Before("create_zone") = {"delete_zone"}
    /\ Before("update_zone") = {}
    /\ Before("create_record") = {"delete_record", "create_zone", "update_zone"}
    /\ Before("create_key") = {"delete_key", "create_zone", "update_zone"}
    /\ Before("delete_record") = {} /\ Before("delete_key") = {}
BY DEF Before

\* There is always an id left for a new key.
LEMMA FreshIdIsFresh ==
    ASSUME TypeOK
    PROVE  /\ FreshId \in Nat \ {0}
           /\ FreshId # state.key.id
           /\ \A k \in server.keys : k.id # FreshId
<1>. DEFINE used == {k.id : k \in server.keys} \cup {state.key.id}
<1>1. IsFiniteSet(used) /\ Cardinality(used) \in Nat
  <2>1. IsFiniteSet({k.id : k \in server.keys})
    <3>. DEFINE f == [k \in server.keys |-> k.id]
    <3>1. f \in Surjection(server.keys, {k.id : k \in server.keys})
      BY DEF Surjection
    <3>. QED  BY <3>1, FS_Surjection DEF TypeOK
  <2>2. IsFiniteSet(used)
    BY <2>1, FS_AddElement
  <2>. QED  BY <2>2, FS_CardinalityType
<1>2. \E i \in 1 .. Cardinality(used) + 1 : i \notin used
  <2>. SUFFICES ASSUME 1 .. Cardinality(used) + 1 \subseteq used PROVE FALSE
    OBVIOUS
  <2>1. Cardinality(1 .. Cardinality(used) + 1) <= Cardinality(used)
    BY <1>1, FS_Subset
  <2>2. Cardinality(1 .. Cardinality(used) + 1) = Cardinality(used) + 1
    BY <1>1, FS_Interval
  <2>. QED  BY <1>1, <2>1, <2>2
<1>3. FreshId \in 1 .. Cardinality(used) + 1 /\ FreshId \notin used
  BY <1>2 DEF FreshId
<1>. QED  BY <1>1, <1>3

\* A zone that is not destroyed because a child was not is not made either.
LEMMA AfterDestroyed ==
    ASSUME NEW call \in Calls, "delete_zone" \in After(call), "create_zone" \in todo
    PROVE  "create_zone" \in After(call)
<1>1. \A calls : /\ calls \subseteq Dependents(calls)
                 /\ "delete_record" \in Dependents(calls) => "delete_record" \in calls
                 /\ "delete_key" \in Dependents(calls) => "delete_key" \in calls
                 /\ "delete_zone" \in Dependents(calls) =>
                       "delete_zone" \in calls \/ "delete_record" \in calls \/ "delete_key" \in calls
                 /\ "delete_zone" \in calls => "create_zone" \in Dependents(calls)
  BY BeforeIs DEF Dependents
<1>. DEFINE one == Dependents({call})
            two == Dependents(one)
<1>2. "delete_zone" \in two
  <2>1. CASE "delete_zone" \in two
    BY <2>1
  <2>2. CASE "delete_zone" \notin two
    <3>1. "delete_record" \in two \/ "delete_key" \in two
      BY <1>1, <2>2 DEF After
    <3>2. "delete_record" \in {call} \/ "delete_key" \in {call}
      BY <1>1, <3>1
    <3>3. call = "delete_record" \/ call = "delete_key"
      BY <3>2
    <3>4. "delete_zone" \in todo
      BY <2>2, <1>1, <3>3 DEF After, Dependents
    <3>5. "delete_zone" \in one
      BY <3>3, <3>4, BeforeIs DEF Dependents
    <3>. QED  BY <1>1, <3>5
  <2>. QED  BY <2>1, <2>2
<1>. QED  BY <1>1, <1>2 DEF After

\* What the server makes of the calls about the zone; one that is there is
\* never made again and one that is not is never changed.
LEMMA ZoneServed ==
    ASSUME TypeOK
    PROVE  /\ Exists => Served("create_zone") = server
           /\ ~ Exists => Served("create_zone") = [zone |-> config.zone, record |-> FALSE, keys |-> {}]
           /\ Served("delete_zone") = [zone |-> NoZone, record |-> FALSE, keys |-> {}]
           /\ ~ Exists => Served("update_zone") = server
           /\ Exists => \E keys :
                 /\ Served("update_zone") =
                       [zone |-> [servers |-> server.zone.servers, account |-> config.zone.account],
                        record |-> server.record, keys |-> keys]
                 /\ IsFiniteSet(keys) /\ keys \subseteq Key
                 /\ ~ state.zone.dnssec => keys = {}
                 /\ state.zone.dnssec => server.keys \subseteq keys
<1>1. CASE ~ Exists
  BY <1>1 DEF Served, PutZone, Nowhere
<1>2. CASE Exists
  <2>. DEFINE keys == IF ~ state.zone.dnssec THEN {}
                      ELSE IF server.keys = {} THEN {NewKey(FALSE)} ELSE server.keys
  <2>1. server.zone \in Zone
    BY <1>2 DEF TypeOK, Exists
  <2>2. Served("update_zone") = PutZone(config.zone.account, state.zone.dnssec)
    BY DEF Served, PlannedSigning
  <2>3. PutZone(config.zone.account, state.zone.dnssec) =
            [zone |-> [servers |-> server.zone.servers, account |-> config.zone.account],
             record |-> server.record, keys |-> keys]
    <3>1. server = [zone |-> server.zone, record |-> server.record, keys |-> server.keys]
      BY DEF TypeOK
    <3>2. server.zone = [servers |-> server.zone.servers, account |-> server.zone.account]
      BY <2>1 DEF Zone
    <3>3. [server.zone EXCEPT !.account = config.zone.account] =
             [servers |-> server.zone.servers, account |-> config.zone.account]
      BY <3>2
    <3>4. PutZone(config.zone.account, state.zone.dnssec) =
             [server EXCEPT !.zone = [server.zone EXCEPT !.account = config.zone.account],
                            !.keys = keys]
      BY <1>2, <3>1 DEF PutZone
    <3>. QED  BY <3>1, <3>3, <3>4
  <2>4. IsFiniteSet(keys) /\ keys \subseteq Key
    <3>1. NewKey(FALSE) \in Key
      BY FreshIdIsFresh DEF NewKey, Key
    <3>2. IsFiniteSet({}) /\ IsFiniteSet({NewKey(FALSE)})
      BY FS_EmptySet, FS_Singleton
    <3>. QED  BY <3>1, <3>2 DEF TypeOK
  <2>5. /\ ~ state.zone.dnssec => keys = {}
        /\ state.zone.dnssec => server.keys \subseteq keys
    OBVIOUS
  <2>6. /\ Served("create_zone") = server
        /\ Served("delete_zone") = [zone |-> NoZone, record |-> FALSE, keys |-> {}]
    BY <1>2 DEF Served, Nowhere
  <2>. HIDE DEF keys
  <2>. QED  BY <1>2, <2>2, <2>3, <2>4, <2>5, <2>6
<1>. QED  BY <1>1, <1>2

\* What it makes of the calls about the children.
LEMMA ChildServed ==
    ASSUME TypeOK
    PROVE  /\ Served("create_record") = [zone |-> server.zone, record |-> Exists, keys |-> server.keys]
           /\ Served("delete_record") = [zone |-> server.zone, record |-> FALSE, keys |-> server.keys]
           /\ Served("create_key") =
                 [zone |-> server.zone, record |-> server.record,
                  keys |-> IF Exists THEN server.keys \cup {NewKey(TRUE)} ELSE server.keys]
           /\ Served("delete_key") =
                 [zone |-> server.zone, record |-> server.record,
                  keys |-> {k \in server.keys : k.id # state.key.id}]
<1>. DEFINE z == server.zone
            d == server.record
            ks == server.keys
<1>1. server = [zone |-> z, record |-> d, keys |-> ks]
  BY DEF TypeOK
<1>2. /\ Served("create_record") = [server EXCEPT !.record = Exists]
      /\ Served("delete_record") = [server EXCEPT !.record = FALSE]
      /\ Served("create_key") = IF Exists THEN [server EXCEPT !.keys = @ \cup {NewKey(TRUE)}] ELSE server
      /\ Served("delete_key") = [server EXCEPT !.keys = {k \in @ : k.id # state.key.id}]
  BY DEF Served, Exists
<1>. HIDE DEF z, d, ks
<1>. QED  BY <1>1, <1>2 DEF z, d, ks

LEMMA ServedIsTyped ==
    ASSUME TypeOK, NEW call \in Calls \ {"refresh"},
           call \in {"create_zone", "update_zone"} => config.zone # NoZone
    PROVE  /\ Served(call) \in [zone : Zone \cup {NoZone}, record : BOOLEAN, keys : SUBSET Key]
           /\ IsFiniteSet(Served(call).keys)
<1>. DEFINE Answers == [zone : Zone \cup {NoZone}, record : BOOLEAN, keys : SUBSET Key]
<1>0. config.zone \in Zone \cup {NoZone} /\ server \in Answers /\ IsFiniteSet(server.keys)
  BY ConfigIs DEF TypeOK
<1>r. ASSUME NEW z \in Zone \cup {NoZone}, NEW d \in BOOLEAN, NEW ks \in SUBSET Key, IsFiniteSet(ks),
             Served(call) = [zone |-> z, record |-> d, keys |-> ks]
      PROVE  Served(call) \in Answers /\ IsFiniteSet(Served(call).keys)
  BY <1>r
<1>s. server.zone \in Zone \cup {NoZone} /\ server.record \in BOOLEAN /\ server.keys \in SUBSET Key
  BY <1>0
<1>e. {} \in SUBSET Key /\ IsFiniteSet({})
  BY FS_EmptySet
<1>1. CASE call = "create_zone"
  <2>1. CASE Exists
    <3>1. Served(call) = server
      BY <1>1, <2>1, ZoneServed
    <3>. QED  BY <1>0, <3>1
  <2>2. CASE ~ Exists
    <3>1. Served(call) = [zone |-> config.zone, record |-> FALSE, keys |-> {}]
      BY <1>1, <2>2, ZoneServed
    <3>. QED  BY <1>0, <1>e, <1>r, <3>1
  <2>. QED  BY <2>1, <2>2
<1>2. CASE call = "delete_zone"
  <2>1. Served(call) = [zone |-> NoZone, record |-> FALSE, keys |-> {}]
    BY <1>2, ZoneServed
  <2>. QED  BY <1>e, <1>r, <2>1
<1>3. CASE call = "update_zone"
  <2>1. CASE ~ Exists
    <3>1. Served(call) = server
      BY <1>3, <2>1, ZoneServed
    <3>. QED  BY <1>0, <3>1
  <2>2. CASE Exists
    <3>1. server.zone \in Zone
      BY <1>s, <2>2 DEF Exists
    <3>2. [servers |-> server.zone.servers, account |-> config.zone.account] \in Zone
      BY <1>0, <1>3, <3>1 DEF Zone
    <3>3. PICK keys : /\ Served(call) =
                             [zone |-> [servers |-> server.zone.servers, account |-> config.zone.account],
                              record |-> server.record, keys |-> keys]
                      /\ IsFiniteSet(keys) /\ keys \subseteq Key
      BY <1>3, <2>2, ZoneServed
    <3>. QED  BY <1>r, <1>s, <3>2, <3>3
  <2>. QED  BY <2>1, <2>2
<1>4. CASE call = "create_record" \/ call = "delete_record"
  <2>1. Exists \in BOOLEAN
    BY DEF Exists
  <2>2. PICK d \in BOOLEAN : Served(call) = [zone |-> server.zone, record |-> d, keys |-> server.keys]
    BY <1>4, <2>1, ChildServed
  <2>. QED  BY <1>0, <1>r, <1>s, <2>2
<1>5. CASE call = "create_key"
  <2>1. NewKey(TRUE) \in Key
    BY FreshIdIsFresh DEF NewKey, Key
  <2>2. IsFiniteSet(server.keys \cup {NewKey(TRUE)})
    BY <1>0, FS_AddElement
  <2>3. PICK ks \in {server.keys, server.keys \cup {NewKey(TRUE)}} :
            Served(call) = [zone |-> server.zone, record |-> server.record, keys |-> ks]
    BY <1>5, ChildServed
  <2>. QED  BY <1>0, <1>r, <1>s, <2>1, <2>2, <2>3
<1>6. CASE call = "delete_key"
  <2>1. IsFiniteSet({k \in server.keys : k.id # state.key.id})
    BY <1>0, FS_Subset
  <2>2. Served(call) = [zone |-> server.zone, record |-> server.record,
                        keys |-> {k \in server.keys : k.id # state.key.id}]
    BY <1>6, ChildServed
  <2>. QED  BY <1>r, <1>s, <2>1, <2>2
<1>. QED  BY <1>1, <1>2, <1>3, <1>4, <1>5, <1>6 DEF Calls

\* What is remembered of a call that succeeded.
LEMMA RecordedIs ==
    ASSUME TypeOK
    PROVE  /\ Recorded("create_zone") =
                 [zone |-> [servers |-> config.zone.servers, account |-> config.zone.account,
                            dnssec |-> FALSE],
                  record |-> state.record, key |-> state.key]
           /\ state.zone # Unremembered =>
                 Recorded("update_zone") =
                    [zone |-> [servers |-> state.zone.servers, account |-> config.zone.account,
                               dnssec |-> state.zone.dnssec],
                     record |-> state.record, key |-> state.key]
           /\ Recorded("delete_zone") = [zone |-> Unremembered, record |-> state.record, key |-> state.key]
           /\ Recorded("create_record") = [zone |-> state.zone, record |-> TRUE, key |-> state.key]
           /\ Recorded("delete_record") = [zone |-> state.zone, record |-> FALSE, key |-> state.key]
           /\ Recorded("create_key") = [zone |-> state.zone, record |-> state.record,
                                        key |-> [id |-> FreshId, algorithm |-> config.key]]
           /\ Recorded("delete_key") = [zone |-> state.zone, record |-> state.record, key |-> NoKey]
<1>. DEFINE z == state.zone
            d == state.record
            k == state.key
<1>1. state = [zone |-> z, record |-> d, key |-> k]
  BY DEF TypeOK
<1>2. /\ Recorded("create_zone") =
            [state EXCEPT !.zone = [servers |-> config.zone.servers,
                                    account |-> config.zone.account, dnssec |-> FALSE]]
      /\ Recorded("delete_zone") = [state EXCEPT !.zone = Unremembered]
      /\ Recorded("create_record") = [state EXCEPT !.record = TRUE]
      /\ Recorded("delete_record") = [state EXCEPT !.record = FALSE]
      /\ Recorded("create_key") = [state EXCEPT !.key = [id |-> FreshId, algorithm |-> config.key]]
      /\ Recorded("delete_key") = [state EXCEPT !.key = NoKey]
  BY DEF Recorded
<1>3. ASSUME state.zone # Unremembered
      PROVE  Recorded("update_zone") =
                [zone |-> [servers |-> state.zone.servers, account |-> config.zone.account,
                           dnssec |-> state.zone.dnssec],
                 record |-> state.record, key |-> state.key]
  <2>1. z \in Remembered
    BY <1>3 DEF TypeOK
  <2>2. z = [servers |-> z.servers, account |-> z.account, dnssec |-> z.dnssec]
    BY <2>1 DEF Remembered
  <2>3. Recorded("update_zone") = [state EXCEPT !.zone.account = config.zone.account,
                                                !.zone.dnssec = state.zone.dnssec]
    BY DEF Recorded, PlannedSigning
  <2>. DEFINE z1 == [z EXCEPT !.account = config.zone.account]
              z2 == [z1 EXCEPT !.dnssec = z.dnssec]
  <2>4. z2 = [servers |-> z.servers, account |-> config.zone.account, dnssec |-> z.dnssec]
    <3>. DEFINE sv == z.servers
                ac == z.account
                dn == z.dnssec
    <3>1. z = [servers |-> sv, account |-> ac, dnssec |-> dn]
      BY <2>2
    <3>. HIDE DEF z, sv, ac, dn
    <3>2. z1 = [servers |-> sv, account |-> config.zone.account, dnssec |-> dn]
      BY <3>1
    <3>. HIDE DEF z1
    <3>3. [z1 EXCEPT !.dnssec = dn] = [servers |-> sv, account |-> config.zone.account, dnssec |-> dn]
      BY <3>2
    <3>. QED  BY <3>3 DEF sv, dn
  <2>5. Recorded("update_zone") = [state EXCEPT !.zone = z2]
    BY <1>1, <2>3
  <2>. HIDE DEF z, d, k
  <2>6. [state EXCEPT !.zone = z2] = [zone |-> z2, record |-> d, key |-> k]
    BY <1>1
  <2>. QED  BY <2>4, <2>5, <2>6 DEF z, d, k
<1>. HIDE DEF z, d, k
<1>. QED  BY <1>1, <1>2, <1>3 DEF z, d, k

LEMMA RecordedIsTyped ==
    ASSUME TypeOK, NEW call \in Calls \ {"refresh"},
           call \in {"create_zone", "update_zone"} => config.zone # NoZone,
           call = "update_zone" => state.zone # Unremembered,
           call = "create_key" => config.key # "none"
    PROVE  Recorded(call) \in [zone : Remembered \cup {Unremembered}, record : BOOLEAN,
                               key : RememberedKey \cup {NoKey}]
<1>. DEFINE States == [zone : Remembered \cup {Unremembered}, record : BOOLEAN,
                       key : RememberedKey \cup {NoKey}]
<1>0. /\ state.zone \in Remembered \cup {Unremembered} /\ state.record \in BOOLEAN
      /\ state.key \in RememberedKey \cup {NoKey}
      /\ config.zone \in Zone \cup {NoZone} /\ config.key \in Algorithms \cup {"none"}
  BY ConfigIs DEF TypeOK
<1>r. ASSUME NEW z \in Remembered \cup {Unremembered}, NEW d \in BOOLEAN,
             NEW k \in RememberedKey \cup {NoKey},
             Recorded(call) = [zone |-> z, record |-> d, key |-> k]
      PROVE  Recorded(call) \in States
  BY <1>r
<1>. HIDE DEF States
<1>1. CASE call = "create_zone"
  <2>1. [servers |-> config.zone.servers, account |-> config.zone.account, dnssec |-> FALSE] \in Remembered
    BY <1>0, <1>1 DEF Zone, Remembered
  <2>2. Recorded(call) =
            [zone |-> [servers |-> config.zone.servers, account |-> config.zone.account,
                       dnssec |-> FALSE],
             record |-> state.record, key |-> state.key]
    BY <1>1, RecordedIs
  <2>. QED  BY <1>0, <1>r, <2>1, <2>2
<1>2. CASE call = "update_zone"
  <2>1. [servers |-> state.zone.servers, account |-> config.zone.account,
         dnssec |-> state.zone.dnssec] \in Remembered
    BY <1>0, <1>2 DEF Zone, Remembered
  <2>. QED  BY <1>0, <1>2, <1>r, <2>1, RecordedIs
<1>3. CASE call = "delete_zone"
  BY <1>0, <1>3, <1>r, RecordedIs
<1>4. CASE call = "create_record"
  <2>1. Recorded(call) = [zone |-> state.zone, record |-> TRUE, key |-> state.key]
    BY <1>4, RecordedIs
  <2>. QED  BY <1>0, <1>r, <2>1
<1>5. CASE call = "delete_record"
  <2>1. Recorded(call) = [zone |-> state.zone, record |-> FALSE, key |-> state.key]
    BY <1>5, RecordedIs
  <2>. QED  BY <1>0, <1>r, <2>1
<1>6. CASE call = "create_key"
  <2>1. [id |-> FreshId, algorithm |-> config.key] \in RememberedKey
    BY <1>0, <1>6, FreshIdIsFresh DEF RememberedKey
  <2>. QED  BY <1>0, <1>6, <1>r, <2>1, RecordedIs
<1>7. CASE call = "delete_key"
  BY <1>0, <1>7, <1>r, RecordedIs
<1>. QED  BY <1>1, <1>2, <1>3, <1>4, <1>5, <1>6, <1>7 DEF Calls, States

\* What has been made when a call is next.
LEMMA ReadyIs ==
    ASSUME CallInv, NEW call \in Calls, Ready(call)
    PROVE  /\ call \in todo /\ call # "refresh" /\ "refresh" \notin todo
           /\ call = "delete_zone" => "delete_record" \notin todo /\ "delete_key" \notin todo
           /\ call = "create_zone" => "delete_zone" \notin todo
           /\ call \in {"create_record", "create_key"} => "create_zone" \notin todo /\ "update_zone" \notin todo
           /\ call = "create_record" => "delete_record" \notin todo
           /\ call = "create_key" => "delete_key" \notin todo
<1>1. call \in todo /\ call # "refresh" /\ Before(call) \cap todo = {}
  BY DEF Ready
<1>2. "refresh" \notin todo
  BY <1>1 DEF CallInv
<1>3. call = "delete_zone" => "delete_record" \notin todo /\ "delete_key" \notin todo
  BY <1>1, BeforeIs
<1>4. call = "create_zone" => "delete_zone" \notin todo
  BY <1>1, BeforeIs
<1>5. call = "create_record" => /\ "create_zone" \notin todo /\ "update_zone" \notin todo
                                /\ "delete_record" \notin todo
  BY <1>1, BeforeIs
<1>6. call = "create_key" => /\ "create_zone" \notin todo /\ "update_zone" \notin todo
                             /\ "delete_key" \notin todo
  BY <1>1, BeforeIs
<1>. QED  BY <1>1, <1>2, <1>3, <1>4, <1>5, <1>6

\* A step that leaves alone what the remaining calls are about.
LEMMA CallsKept ==
    ASSUME CallInv, config' = config, todo' \subseteq todo,
           "create_zone" \in todo' => "delete_zone" \in todo' \/ state'.zone = Unremembered,
           {"delete_zone", "delete_record", "delete_key"} \cap todo' # {} =>
               server'.zone # NoZone /\ server'.zone.servers = server.zone.servers,
           "delete_key" \in todo' => state'.key.algorithm = state.key.algorithm,
           "update_zone" \in todo' =>
               /\ state'.zone = state.zone
               /\ server.keys = {} => server'.keys = {}
    PROVE  CallInv'
<1>1. "refresh" \in todo' => todo' = {"refresh"}
  BY DEF CallInv
<1>2. "delete_zone" \in todo' => Exists' /\ config'.zone.servers # server'.zone.servers
  BY DEF CallInv, Exists
<1>3. "delete_record" \in todo' => Exists' /\ ~ Wanted("record")'
  BY DEF CallInv, Exists, Wanted
<1>4. "delete_key" \in todo' => Exists' /\ ~ Wanted("key")'
  BY DEF CallInv, Exists, Wanted
<1>5. "update_zone" \in todo' =>
          /\ config'.zone # NoZone /\ state'.zone # Unremembered
          /\ "create_zone" \notin todo' /\ "delete_zone" \notin todo'
          /\ ~ state'.zone.dnssec => server'.keys = {}
  BY DEF CallInv
<1>6. "create_zone" \in todo' =>
          /\ config'.zone # NoZone
          /\ "delete_zone" \in todo' \/ state'.zone = Unremembered
  <2>1. "create_zone" \in todo' => config.zone # NoZone
    BY DEF CallInv
  <2>. QED  BY <2>1
<1>7. /\ "create_record" \in todo' => config'.record
      /\ "create_key" \in todo' => config'.key # "none"
  BY DEF CallInv
<1>. QED  BY <1>1, <1>2, <1>3, <1>4, <1>5, <1>6, <1>7 DEF CallInv

\* A call that fails, its effect on the server felt or not.
LEMMA FailKeeps ==
    ASSUME IInv, NEW call \in Calls, Ready(call), UNCHANGED <<config, state, edits>>,
           server' \in {server, Served(call)}, todo' = todo \ After(call), ~ complete',
           complete' \in BOOLEAN, replaced' \in BOOLEAN, faults' \in 0 .. MaxFaults
    PROVE  IInv'
<1>. USE DEF IInv
<1>0. call \in Calls \ {"refresh"} /\ call \in todo /\ "refresh" \notin todo
  BY ReadyIs
<1>t. call \in {"create_zone", "update_zone"} => config.zone # NoZone
  BY <1>0 DEF CallInv
<1>1. todo' \subseteq todo /\ call \notin todo'
  BY DEF After, Dependents
<1>2. "create_zone" \in todo' => "delete_zone" \in todo' \/ state'.zone = Unremembered
  BY <1>0, AfterDestroyed DEF CallInv
<1>3. TypeOK'
  <2>1. /\ server' \in [zone : Zone \cup {NoZone}, record : BOOLEAN, keys : SUBSET Key]
        /\ IsFiniteSet(server'.keys)
    BY <1>0, <1>t, ServedIsTyped DEF TypeOK
  <2>. QED  BY <1>1, <2>1 DEF TypeOK
<1>4. RunInv'
  BY DEF RunInv, Counted
<1>5. CASE server' = server
  <2>1. ServerInv'
    BY <1>5 DEF ServerInv, Exists
  <2>2. {"delete_zone", "delete_record", "delete_key"} \cap todo' # {} => server.zone # NoZone
    BY <1>1 DEF CallInv, Exists
  <2>3. CallInv'
    BY <1>1, <1>2, <1>5, <2>2, CallsKept
  <2>. QED  BY <1>3, <1>4, <2>1, <2>3
<1>6. CASE server' = Served(call)
  <2>1. CASE call = "create_zone"
    <3>1. CASE Exists
      BY <1>5, <1>6, <2>1, <3>1, ZoneServed
    <3>2. CASE ~ Exists
      <4>1. server' = [zone |-> config.zone, record |-> FALSE, keys |-> {}]
        BY <1>6, <2>1, <3>2, ZoneServed
      <4>2. state.zone = Unremembered
        BY <1>0, <2>1, ReadyIs DEF CallInv
      <4>3. ServerInv'
        BY <4>1, <4>2 DEF ServerInv, Exists
      <4>4. {"delete_zone", "delete_record", "delete_key", "update_zone"} \cap todo' = {}
        BY <1>0, <1>1, <2>1, <3>2 DEF CallInv
      <4>5. CallInv'
        BY <1>1, <1>2, <4>4, CallsKept
      <4>. QED  BY <1>3, <1>4, <4>3, <4>5
    <3>. QED  BY <3>1, <3>2
  <2>2. CASE call = "delete_zone"
    <3>1. server' = [zone |-> NoZone, record |-> FALSE, keys |-> {}]
      BY <1>6, <2>2, ZoneServed
    <3>2. ServerInv'
      BY <3>1 DEF ServerInv, Exists
    <3>3. {"delete_zone", "delete_record", "delete_key"} \cap todo' = {}
      BY <1>1, <2>2, ReadyIs
    <3>4. CallInv'
      BY <1>1, <1>2, <3>1, <3>3, CallsKept
    <3>. QED  BY <1>3, <1>4, <3>2, <3>4
  <2>3. CASE call = "update_zone"
    <3>1. CASE ~ Exists
      BY <1>5, <1>6, <2>3, <3>1, ZoneServed
    <3>2. CASE Exists
      <4>1. PICK keys : server' =
                [zone |-> [servers |-> server.zone.servers, account |-> config.zone.account],
                 record |-> server.record, keys |-> keys]
        BY <1>6, <2>3, <3>2, ZoneServed
      <4>2. server'.zone.servers = server.zone.servers
        BY <4>1
      <4>3. server'.zone # NoZone
        <5>1. server.zone \in Zone
          BY <3>2 DEF TypeOK, Exists
        <5>. QED  BY <4>2, <5>1, NothingIsNothing
      <4>4. ServerInv'
        BY <3>2, <4>2, <4>3 DEF ServerInv, Exists
      <4>5. CallInv'
        BY <1>1, <1>2, <2>3, <4>2, <4>3, CallsKept
      <4>. QED  BY <1>3, <1>4, <4>4, <4>5
    <3>. QED  BY <3>1, <3>2
  <2>4. CASE call \in {"create_record", "delete_record", "create_key", "delete_key"}
    <3>1. /\ server'.zone = server.zone
          /\ ~ Exists => ~ server'.record /\ server'.keys = {}
          /\ call # "create_key" /\ server.keys = {} => server'.keys = {}
      <4>1. CASE call = "create_record"
        <5>1. server' = [zone |-> server.zone, record |-> Exists, keys |-> server.keys]
          BY <1>6, <4>1, ChildServed
        <5>. QED  BY <4>1, <5>1 DEF ServerInv
      <4>2. CASE call = "delete_record"
        <5>1. server' = [zone |-> server.zone, record |-> FALSE, keys |-> server.keys]
          BY <1>6, <4>2, ChildServed
        <5>. QED  BY <4>2, <5>1 DEF ServerInv
      <4>3. CASE call = "create_key"
        <5>1. server' = [zone |-> server.zone, record |-> server.record,
                         keys |-> IF Exists THEN server.keys \cup {NewKey(TRUE)} ELSE server.keys]
          BY <1>6, <4>3, ChildServed
        <5>. QED  BY <4>3, <5>1 DEF ServerInv
      <4>4. CASE call = "delete_key"
        <5>1. server' = [zone |-> server.zone, record |-> server.record,
                         keys |-> {k \in server.keys : k.id # state.key.id}]
          BY <1>6, <4>4, ChildServed
        <5>. QED  BY <4>4, <5>1 DEF ServerInv
      <4>. QED  BY <2>4, <4>1, <4>2, <4>3, <4>4
    <3>2. ServerInv'
      BY <3>1 DEF ServerInv, Exists
    <3>3. {"delete_zone", "delete_record", "delete_key"} \cap todo' # {} => server.zone # NoZone
      BY <1>1 DEF CallInv, Exists
    <3>4. call = "create_key" => "update_zone" \notin todo
      BY ReadyIs
    <3>5. CallInv'
      BY <1>1, <1>2, <3>1, <3>3, <3>4, CallsKept
    <3>. QED  BY <1>3, <1>4, <3>2, <3>5
  <2>. QED  BY <1>0, <2>1, <2>2, <2>3, <2>4 DEF Calls
<1>. QED  BY <1>5, <1>6

\* A call the server accepts, by what it is about.
LEMMA MakeZoneKeeps ==
    ASSUME IInv, NEW call \in {"create_zone", "update_zone", "delete_zone"}, Ready(call), Accepted(call),
           UNCHANGED <<config, faults, edits, complete>>,
           server' = Served(call), state' = Recorded(call), todo' = todo \ {call},
           replaced' = (replaced \/ (call = "delete_zone" /\ config.zone # NoZone))
    PROVE  ServerInv' /\ CallInv' /\ RunInv'
<1>. USE DEF IInv
<1>0. /\ call \in Calls /\ call \in todo /\ "refresh" \notin todo
      /\ config.zone \in Zone \cup {NoZone}
      /\ config.zone = NoZone => ~ config.record /\ config.key = "none"
      /\ state.zone \in Remembered \cup {Unremembered}
  BY ReadyIs, ConfigIs DEF Calls, TypeOK
<1>c. Counted' => Counted
  BY <1>0 DEF Counted
<1>1. CASE call = "create_zone"
  <2>0. ~ Exists /\ config.zone \in Zone
    BY <1>0, <1>1 DEF Accepted, CallInv
  <2>1. server' = [zone |-> config.zone, record |-> FALSE, keys |-> {}]
    BY <1>1, <2>0, ZoneServed
  <2>z. state'.zone = [servers |-> config.zone.servers, account |-> config.zone.account, dnssec |-> FALSE]
        /\ state'.record = state.record /\ state'.key = state.key
    <3>1. state' = [zone |-> [servers |-> config.zone.servers, account |-> config.zone.account,
                              dnssec |-> FALSE],
                    record |-> state.record, key |-> state.key]
      BY <1>1, RecordedIs
    <3>. QED  BY <3>1
  <2>2. state'.zone # Unremembered /\ state'.zone.servers = config.zone.servers
    BY <2>0, <2>z, NothingIsNothing DEF Unremembered, NoZone
  <2>3. ServerInv'
    BY <2>1, <2>2 DEF ServerInv, Exists
  <2>4. {"delete_zone", "delete_record", "delete_key", "update_zone", "create_zone"} \cap todo' = {}
    BY <1>0, <1>1, <2>0 DEF CallInv
  <2>5. CallInv'
    BY <2>4, CallsKept
  <2>6. ASSUME Counted' PROVE ZonePart' /\ RecordPart' /\ KeyPart' /\ ReplacePart'
    <3>0. RecordPart /\ KeyPart
      BY <1>c, <2>6 DEF RunInv
    <3>1. ZonePart' /\ ReplacePart'
      BY <2>0, <2>1, <2>2, <2>4, NothingIsNothing DEF ZonePart, ReplacePart, Exists
    <3>2. RecordPart'
      BY <1>1, <2>0, <2>4, <2>z, <3>0 DEF RecordPart, ServerInv
    <3>3. KeyPart'
      BY <1>1, <2>0, <2>4, <2>z, <3>0 DEF KeyPart, KeyHeld, ServerInv
    <3>. QED  BY <3>1, <3>2, <3>3
  <2>. QED  BY <2>3, <2>5, <2>6 DEF RunInv
<1>2. CASE call = "delete_zone"
  <2>1. server' = [zone |-> NoZone, record |-> FALSE, keys |-> {}]
    BY <1>2, ZoneServed
  <2>2. state'.zone = Unremembered /\ state'.record = state.record /\ state'.key = state.key
    BY <1>2, RecordedIs
  <2>3. ServerInv'
    BY <2>1 DEF ServerInv, Exists
  <2>4. {"delete_zone", "delete_record", "delete_key", "update_zone"} \cap todo' = {}
    BY <1>0, <1>2, ReadyIs DEF CallInv
  <2>5. CallInv'
    BY <2>2, <2>4, CallsKept
  <2>6. ASSUME Counted' PROVE ZonePart' /\ RecordPart' /\ KeyPart' /\ ReplacePart'
    <3>0. ZonePart /\ RecordPart /\ KeyPart /\ ReplacePart
      BY <1>c, <2>6 DEF RunInv
    <3>1. config.zone # NoZone =>
             /\ "create_zone" \in todo
             /\ config.record => "create_record" \in todo
             /\ config.key # "none" => "create_key" \in todo
      BY <1>0, <1>2, <2>6, <3>0 DEF Counted, ZonePart, ReplacePart
    <3>2. ZonePart' /\ ReplacePart'
      BY <1>2, <2>2, <2>4, <3>1 DEF ZonePart, ReplacePart
    <3>3. RecordPart'
      BY <1>0, <1>2, <2>2, <2>4, <3>0, <3>1 DEF RecordPart
    <3>4. KeyPart'
      BY <1>0, <1>2, <2>2, <2>4, <3>0, <3>1 DEF KeyPart
    <3>. QED  BY <3>2, <3>3, <3>4
  <2>. QED  BY <2>3, <2>5, <2>6 DEF RunInv
<1>3. CASE call = "update_zone"
  <2>0. Exists /\ config.zone # NoZone /\ "create_zone" \notin todo /\ "delete_zone" \notin todo
    BY <1>0, <1>3 DEF Accepted, CallInv
  <2>1. PICK keys :
           /\ server' = [zone |-> [servers |-> server.zone.servers, account |-> config.zone.account],
                         record |-> server.record, keys |-> keys]
           /\ ~ state.zone.dnssec => keys = {}
           /\ state.zone.dnssec => server.keys \subseteq keys
    BY <1>3, <2>0, ZoneServed
  <2>2. /\ server'.zone.servers = server.zone.servers /\ server'.zone.account = config.zone.account
        /\ server'.record = server.record /\ server'.zone # NoZone
    <3>1. server.zone \in Zone
      BY <2>0 DEF TypeOK, Exists
    <3>2. server'.zone.servers = server.zone.servers
      BY <2>1
    <3>. QED  BY <2>1, <3>1, <3>2, NothingIsNothing
  <2>3. server.keys \subseteq server'.keys
    BY <1>0, <1>3, <2>1 DEF CallInv
  <2>4. /\ state.zone \in Remembered
        /\ state'.zone = [servers |-> state.zone.servers, account |-> config.zone.account,
                          dnssec |-> state.zone.dnssec]
        /\ state'.record = state.record /\ state'.key = state.key
    BY <1>0, <1>3, RecordedIs DEF CallInv
  <2>5. state'.zone # Unremembered /\ state'.zone.servers = state.zone.servers
    BY <2>4, NothingIsNothing DEF Unremembered, NoZone
  <2>6. ServerInv'
    <3>1. state.zone.servers = server.zone.servers
      BY <2>0, <2>4, NothingIsNothing DEF ServerInv
    <3>. QED  BY <2>2, <2>5, <3>1 DEF ServerInv, Exists
  <2>7. CallInv'
    <3>1. "update_zone" \notin todo' /\ "create_zone" \notin todo'
      BY <1>3, <2>0
    <3>. QED  BY <2>2, <2>4, <3>1, CallsKept
  <2>8. ASSUME Counted' PROVE ZonePart' /\ RecordPart' /\ KeyPart' /\ ReplacePart'
    <3>0. ZonePart /\ RecordPart /\ KeyPart
      BY <1>c, <2>8 DEF RunInv
    <3>1. ZonePart' /\ ReplacePart'
      BY <2>0, <2>2, <2>5, <3>0 DEF ZonePart, ReplacePart, Exists
    <3>2. RecordPart'
      BY <1>3, <2>2, <2>4, <3>0 DEF RecordPart
    <3>3. KeyPart'
      BY <1>3, <2>3, <2>4, <3>0 DEF KeyPart, KeyHeld
    <3>. QED  BY <3>1, <3>2, <3>3
  <2>. QED  BY <2>6, <2>7, <2>8 DEF RunInv
<1>. QED  BY <1>1, <1>2, <1>3

LEMMA MakeChildKeeps ==
    ASSUME IInv, NEW call \in {"create_record", "delete_record", "create_key", "delete_key"},
           Ready(call), Accepted(call),
           UNCHANGED <<config, faults, edits, complete, replaced>>,
           server' = Served(call), state' = Recorded(call), todo' = todo \ {call}
    PROVE  ServerInv' /\ CallInv' /\ RunInv'
<1>. USE DEF IInv
<1>0. /\ call \in Calls /\ call \in todo /\ "refresh" \notin todo
      /\ config.record \in BOOLEAN
  BY ReadyIs, ConfigIs DEF Calls, TypeOK
<1>c. Counted' => Counted
  BY <1>0 DEF Counted
<1>1. server'.zone = server.zone /\ state'.zone = state.zone
  <2>1. server'.zone = server.zone
    BY ChildServed
  <2>2. state'.zone = state.zone
    BY RecordedIs
  <2>. QED  BY <2>1, <2>2
<1>2. call \in {"create_record", "delete_record"} =>
          server'.keys = server.keys /\ state'.key = state.key
  BY ChildServed, RecordedIs
<1>3. call \in {"create_key", "delete_key"} =>
          server'.record = server.record /\ state'.record = state.record
  BY ChildServed, RecordedIs
<1>4. call = "create_record" => Exists /\ server'.record /\ state'.record
  <2>1. call = "create_record" => Exists
    BY DEF Accepted
  <2>2. call = "create_record" =>
            /\ server' = [zone |-> server.zone, record |-> Exists, keys |-> server.keys]
            /\ state' = [zone |-> state.zone, record |-> TRUE, key |-> state.key]
    BY ChildServed, RecordedIs
  <2>3. call = "create_record" => server'.record = Exists /\ state'.record = TRUE
    BY <2>2
  <2>. QED  BY <2>1, <2>3
<1>5. call = "delete_record" => ~ server'.record /\ ~ state'.record
  BY ChildServed, RecordedIs
<1>6. call = "create_key" =>
          /\ Exists
          /\ server'.keys = server.keys \cup {NewKey(TRUE)}
          /\ state'.key = [id |-> FreshId, algorithm |-> config.key]
  <2>1. call = "create_key" => Exists
    BY DEF Accepted
  <2>. SUFFICES ASSUME call = "create_key"
                PROVE  /\ server'.keys = server.keys \cup {NewKey(TRUE)}
                       /\ state'.key = [id |-> FreshId, algorithm |-> config.key]
    BY <2>1
  <2>. DEFINE new == server.keys \cup {NewKey(TRUE)}
  <2>2. server' = [zone |-> server.zone, record |-> server.record, keys |-> new]
    BY <2>1, ChildServed
  <2>3. state' = [zone |-> state.zone, record |-> state.record,
                  key |-> [id |-> FreshId, algorithm |-> config.key]]
    BY RecordedIs
  <2>4. server'.keys = new
    <3>. HIDE DEF new
    <3>. QED  BY <2>2
  <2>5. state'.key = [id |-> FreshId, algorithm |-> config.key]
    BY <2>3
  <2>. QED  BY <2>4, <2>5
<1>7. call = "delete_key" => server'.keys \subseteq server.keys /\ state'.key = NoKey
  BY ChildServed, RecordedIs
<1>8. ServerInv'
  BY <1>1, <1>2, <1>3, <1>4, <1>5, <1>6, <1>7 DEF ServerInv, Exists
<1>9. CallInv'
  <2>1. "create_zone" \in todo' => "delete_zone" \in todo' \/ state'.zone = Unremembered
    BY <1>1 DEF CallInv
  <2>2. {"delete_zone", "delete_record", "delete_key"} \cap todo' # {} =>
            server'.zone # NoZone /\ server'.zone.servers = server.zone.servers
    BY <1>1 DEF CallInv, Exists
  <2>3. "delete_key" \in todo' => state'.key.algorithm = state.key.algorithm
    BY <1>0, <1>2, ReadyIs
  <2>4. "update_zone" \in todo' =>
            state'.zone = state.zone /\ (server.keys = {} => server'.keys = {})
    BY <1>0, <1>1, <1>2, <1>7, ReadyIs
  <2>. QED  BY <2>1, <2>2, <2>3, <2>4, CallsKept
<1>10. ASSUME Counted' PROVE ZonePart' /\ RecordPart' /\ KeyPart' /\ ReplacePart'
  <2>0. ZonePart /\ RecordPart /\ KeyPart /\ ReplacePart
    BY <1>c, <1>10 DEF RunInv
  <2>1. ZonePart'
    BY <1>1, <2>0 DEF ZonePart, Exists
  <2>2. ReplacePart'
    <3>1. CASE call \in {"create_record", "create_key"}
      <4>1. "delete_zone" \in todo => config.zone = NoZone
        BY <1>0, <2>0, <3>1, ReadyIs DEF ZonePart
      <4>. QED  BY <4>1 DEF ReplacePart
    <3>2. CASE call \in {"delete_record", "delete_key"}
      BY <2>0, <3>2 DEF ReplacePart
    <3>. QED  BY <3>1, <3>2
  <2>3. RecordPart'
    <3>1. CASE call = "create_record"
      <4>1. config.record /\ "delete_record" \notin todo
        BY <1>0, <3>1, ReadyIs DEF CallInv
      <4>. QED  BY <1>0, <1>4, <3>1, <4>1 DEF RecordPart, TypeOK
    <3>2. CASE call = "delete_record"
      <4>1. ~ server'.record /\ ~ state'.record /\ state'.record \in BOOLEAN
        <5>1. state'.record = FALSE
          BY <3>2, RecordedIs
        <5>. QED  BY <1>5, <3>2, <5>1
      <4>2. config.record => "create_record" \in todo
        BY <1>0, <2>0, <3>2 DEF RecordPart
      <4>. QED  BY <1>0, <3>2, <4>1, <4>2 DEF RecordPart
    <3>3. CASE call \in {"create_key", "delete_key"}
      BY <1>3, <2>0, <3>3 DEF RecordPart
    <3>. QED  BY <3>1, <3>2, <3>3
  <2>4. KeyPart'
    <3>1. CASE call = "create_key"
      <4>1. config.key # "none" /\ "delete_key" \notin todo
        BY <1>0, <3>1, ReadyIs DEF CallInv
      <4>2. NewKey(TRUE).id = FreshId
        BY DEF NewKey
      <4>3. state'.key.algorithm = config.key /\ state'.key.id = FreshId
        BY <1>6, <3>1
      <4>4. KeyHeld'
        BY <1>6, <3>1, <4>2, <4>3 DEF KeyHeld
      <4>. QED  BY <3>1, <4>1, <4>3, <4>4 DEF KeyPart
    <3>2. CASE call = "delete_key"
      BY <1>0, <1>7, <2>0, <3>2, NothingIsNothing DEF KeyPart
    <3>3. CASE call \in {"create_record", "delete_record"}
      BY <1>2, <2>0, <3>3 DEF KeyPart, KeyHeld
    <3>. QED  BY <3>1, <3>2, <3>3
  <2>. QED  BY <2>1, <2>2, <2>3, <2>4
<1>. QED  BY <1>8, <1>9, <1>10 DEF RunInv

\* What a refresh makes of the state.
LEMMA RefreshedIs ==
    ASSUME TypeOK, ServerInv
    PROVE  /\ Refreshed \in [zone : Remembered \cup {Unremembered}, record : BOOLEAN,
                             key : RememberedKey \cup {NoKey}]
           /\ Refreshed.zone # Unremembered <=> state.zone # Unremembered /\ Exists
           /\ Refreshed.zone # Unremembered =>
                 /\ Exists
                 /\ Refreshed.zone.servers = server.zone.servers
                 /\ Refreshed.zone.account = server.zone.account
                 /\ Refreshed.zone.dnssec <=> server.keys # {}
           /\ Refreshed.record => server.record /\ Exists
           /\ Refreshed.record <=> state.record /\ server.record
           /\ Refreshed.key # NoKey =>
                 /\ Refreshed.key = state.key /\ Exists
                 /\ \E k \in server.keys : k.id = Refreshed.key.id
<1>. DEFINE z == IF state.zone = Unremembered \/ ~ Exists THEN Unremembered
                 ELSE [servers |-> state.zone.servers, account |-> server.zone.account,
                       dnssec |-> server.keys # {}]
            d == state.record /\ server.record
            k == IF KeyHeld THEN state.key ELSE NoKey
<1>1. Refreshed = [zone |-> z, record |-> d, key |-> k]
  BY DEF Refreshed, KeyHeld
<1>2. d \in BOOLEAN /\ k \in RememberedKey \cup {NoKey}
  BY DEF TypeOK
<1>3. /\ z \in Remembered \cup {Unremembered}
      /\ z # Unremembered <=> state.zone # Unremembered /\ Exists
      /\ z # Unremembered =>
            /\ z.servers = server.zone.servers /\ z.account = server.zone.account
            /\ z.dnssec <=> server.keys # {}
  <2>1. CASE state.zone = Unremembered \/ ~ Exists
    BY <2>1
  <2>2. CASE state.zone # Unremembered /\ Exists
    <3>. DEFINE signed == server.keys # {}
    <3>1. signed \in BOOLEAN
      OBVIOUS
    <3>2. z = [servers |-> state.zone.servers, account |-> server.zone.account, dnssec |-> signed]
      BY <2>2
    <3>3. state.zone \in Remembered /\ server.zone \in Zone /\ state.zone.servers = server.zone.servers
      BY <2>2 DEF TypeOK, Exists, ServerInv
    <3>. HIDE DEF z, signed
    <3>4. z \in Remembered
      BY <3>1, <3>2, <3>3 DEF Remembered, Zone
    <3>5. /\ z.servers = server.zone.servers /\ z.account = server.zone.account
          /\ z.dnssec = signed
      BY <3>2, <3>3
    <3>. QED  BY <2>2, <3>4, <3>5, NothingIsNothing DEF signed
  <2>. QED  BY <2>1, <2>2
<1>4. d => server.record /\ Exists
  BY DEF ServerInv
<1>5. k # NoKey => k = state.key /\ Exists /\ \E held \in server.keys : held.id = k.id
  BY DEF KeyHeld, ServerInv
<1>6. d <=> state.record /\ server.record
  OBVIOUS
<1>. HIDE DEF z, d, k
<1>7. /\ Refreshed.zone = z /\ Refreshed.record = d /\ Refreshed.key = k
      /\ Refreshed \in [zone : Remembered \cup {Unremembered}, record : BOOLEAN,
                        key : RememberedKey \cup {NoKey}]
  BY <1>1, <1>2, <1>3
<1>. QED  BY <1>3, <1>4, <1>5, <1>6, <1>7

\* What is planned for a state, call by call.
LEMMA PlanIs ==
    ASSUME NEW s
    PROVE  LET replaces == /\ config.zone # NoZone /\ s.zone # Unremembered
                           /\ config.zone.servers # s.zone.servers
               uprooted == config.link = "id" /\ replaces
           IN
           /\ Plan(s) \subseteq Calls \ {"refresh"}
           /\ "create_zone" \in Plan(s) <=> config.zone # NoZone /\ (s.zone = Unremembered \/ replaces)
           /\ "delete_zone" \in Plan(s) <=> s.zone # Unremembered /\ (config.zone = NoZone \/ replaces)
           /\ "update_zone" \in Plan(s) <=>
                 /\ config.zone # NoZone /\ s.zone # Unremembered /\ ~ replaces
                 /\ config.zone.account # s.zone.account
           /\ "delete_record" \in Plan(s) <=> s.record /\ (~ config.record \/ uprooted)
           /\ "create_record" \in Plan(s) <=> config.record /\ (~ s.record \/ uprooted)
           /\ "delete_key" \in Plan(s) <=>
                 s.key # NoKey /\ (config.key # s.key.algorithm \/ uprooted)
           /\ "create_key" \in Plan(s) <=>
                 config.key # "none" /\ (config.key # s.key.algorithm \/ uprooted)
<1>. DEFINE replaces == /\ config.zone # NoZone /\ s.zone # Unremembered
                        /\ config.zone.servers # s.zone.servers
            uprooted == config.link = "id" /\ replaces
            changes == /\ config.zone # NoZone /\ s.zone # Unremembered /\ ~ replaces
                       /\ config.zone.account # s.zone.account
<1>1. ZoneCalls(s) =
         (IF config.zone # NoZone /\ (s.zone = Unremembered \/ replaces) THEN {"create_zone"} ELSE {})
         \cup (IF s.zone # Unremembered /\ (config.zone = NoZone \/ replaces) THEN {"delete_zone"} ELSE {})
         \cup (IF changes THEN {"update_zone"} ELSE {})
  <2>1. CASE config.zone = NoZone
    BY <2>1 DEF ZoneCalls
  <2>2. CASE config.zone # NoZone /\ s.zone = Unremembered
    BY <2>2 DEF ZoneCalls
  <2>3. CASE config.zone # NoZone /\ s.zone # Unremembered
    BY <2>3 DEF ZoneCalls, ReplacesZone, PlannedSigning
  <2>. QED  BY <2>1, <2>2, <2>3
<1>2. Uprooted(s) <=> uprooted
  BY <1>1 DEF Uprooted
<1>. HIDE DEF replaces, uprooted, changes
<1>3. /\ ZoneCalls(s) \subseteq {"create_zone", "delete_zone", "update_zone"}
      /\ RecordCalls(s) \subseteq {"create_record", "delete_record"}
      /\ KeyCalls(s) \subseteq {"create_key", "delete_key"}
  BY <1>1 DEF RecordCalls, KeyCalls
<1>4. /\ "create_zone" \in ZoneCalls(s) <=> config.zone # NoZone /\ (s.zone = Unremembered \/ replaces)
      /\ "delete_zone" \in ZoneCalls(s) <=> s.zone # Unremembered /\ (config.zone = NoZone \/ replaces)
      /\ "update_zone" \in ZoneCalls(s) <=> changes
  BY <1>1
<1>5. /\ "delete_record" \in RecordCalls(s) <=> s.record /\ (~ config.record \/ uprooted)
      /\ "create_record" \in RecordCalls(s) <=> config.record /\ (~ s.record \/ uprooted)
  BY <1>2 DEF RecordCalls
<1>6. /\ "delete_key" \in KeyCalls(s) <=>
            s.key # NoKey /\ (config.key # s.key.algorithm \/ uprooted)
      /\ "create_key" \in KeyCalls(s) <=>
            config.key # "none" /\ (config.key # s.key.algorithm \/ uprooted)
  BY <1>2 DEF KeyCalls
<1>7. Plan(s) \subseteq Calls \ {"refresh"}
  BY <1>3 DEF Plan, Calls
<1>8. /\ \A c \in {"create_zone", "delete_zone", "update_zone"} : c \in Plan(s) <=> c \in ZoneCalls(s)
      /\ \A c \in {"create_record", "delete_record"} : c \in Plan(s) <=> c \in RecordCalls(s)
      /\ \A c \in {"create_key", "delete_key"} : c \in Plan(s) <=> c \in KeyCalls(s)
  BY <1>3 DEF Plan
<1>. QED  BY <1>4, <1>5, <1>6, <1>7, <1>8 DEF replaces, uprooted, changes

-----------------------------------------------------------------------------
(***************************************************************************)
(* Every action preserves the invariant.                                   *)
(***************************************************************************)

LEMMA InitEstablishes == Init => IInv
<1>. SUFFICES ASSUME Init PROVE IInv
  OBVIOUS
<1>1. TypeOK
  <2>1. server \in [zone : Zone \cup {NoZone}, record : BOOLEAN, keys : SUBSET Key]
    BY DEF Init, Nowhere
  <2>2. IsFiniteSet(server.keys)
    BY FS_EmptySet DEF Init, Nowhere
  <2>3. faults \in 0 .. MaxFaults /\ edits \in 0 .. MaxEdits
    BY BoundsAssumption DEF Init
  <2>. QED  BY <2>1, <2>2, <2>3 DEF Init, TypeOK
<1>2. ServerInv
  BY DEF Init, ServerInv, Exists, Nowhere
<1>3. CallInv /\ RunInv
  BY DEF Init, CallInv, RunInv, Counted
<1>. QED  BY <1>1, <1>2, <1>3 DEF IInv

LEMMA StartRunKeeps == ASSUME IInv, StartRun PROVE IInv'
<1>. USE DEF IInv
<1>1. todo' = {"refresh"} /\ UNCHANGED <<config, state, server, faults, edits, complete, replaced>>
  BY DEF StartRun
<1>2. TypeOK'
  BY <1>1 DEF TypeOK, Calls
<1>3. ServerInv'
  BY <1>1 DEF ServerInv, Exists
<1>4. CallInv' /\ RunInv'
  BY <1>1 DEF CallInv, RunInv, Counted
<1>. QED  BY <1>2, <1>3, <1>4

LEMMA RefreshKeeps == ASSUME IInv, Refresh PROVE IInv'
<1>. USE DEF IInv
<1>1. /\ state' = Refreshed /\ todo' = Plan(Refreshed)
      /\ complete' = TRUE /\ replaced' = FALSE
      /\ UNCHANGED <<config, server, faults, edits>>
  BY DEF Refresh
<1>2. /\ config.zone \in Zone \cup {NoZone} /\ config.record \in BOOLEAN
      /\ config.key \in Algorithms \cup {"none"}
      /\ config.zone = NoZone => ~ config.record /\ config.key = "none"
  BY ConfigIs DEF TypeOK
<1>3. TypeOK'
  BY <1>1, RefreshedIs, PlanIs DEF TypeOK
<1>4. ServerInv'
  BY <1>1, RefreshedIs DEF ServerInv, Exists
<1>5. Exists' = Exists /\ (Exists => server.zone \in Zone)
  BY <1>1 DEF Exists, TypeOK
<1>6. CallInv'
  <2>1. "refresh" \notin todo'
    BY <1>1, PlanIs
  <2>2. "delete_zone" \in todo' => Exists' /\ config'.zone.servers # server'.zone.servers
    BY <1>1, <1>5, PlanIs, RefreshedIs, NothingIsNothing
  <2>3. "delete_record" \in todo' => Exists' /\ ~ Wanted("record")'
    BY <1>1, <1>5, PlanIs, RefreshedIs DEF Wanted
  <2>4. "delete_key" \in todo' => Exists' /\ ~ Wanted("key")'
    BY <1>1, <1>5, PlanIs, RefreshedIs DEF Wanted
  <2>5. "update_zone" \in todo' =>
            /\ config'.zone # NoZone /\ state'.zone # Unremembered
            /\ "create_zone" \notin todo' /\ "delete_zone" \notin todo'
            /\ ~ state'.zone.dnssec => server'.keys = {}
    BY <1>1, PlanIs, RefreshedIs
  <2>6. "create_zone" \in todo' =>
            /\ config'.zone # NoZone
            /\ "delete_zone" \in todo' \/ state'.zone = Unremembered
    BY <1>1, PlanIs
  <2>7. /\ "create_record" \in todo' => config'.record
        /\ "create_key" \in todo' => config'.key # "none"
    BY <1>1, PlanIs
  <2>. QED  BY <2>1, <2>2, <2>3, <2>4, <2>5, <2>6, <2>7 DEF CallInv
<1>7. ZonePart'
  BY <1>1, <1>5, PlanIs, RefreshedIs DEF ZonePart
<1>8. RecordPart'
  <2>1. Refreshed.record \in BOOLEAN
    BY RefreshedIs
  <2>. QED  BY <1>1, <1>2, <2>1, PlanIs, RefreshedIs DEF RecordPart
<1>9. KeyPart'
  <2>1. Refreshed.key = NoKey => Refreshed.key.algorithm = "none"
    BY NothingIsNothing
  <2>2. Refreshed.key # NoKey => Refreshed.key.algorithm # "none"
    BY RefreshedIs, NothingIsNothing
  <2>3. Refreshed.key # NoKey => KeyHeld'
    BY <1>1, RefreshedIs DEF KeyHeld
  <2>. QED  BY <1>1, <2>1, <2>2, <2>3, PlanIs DEF KeyPart
<1>10. ReplacePart'
  BY <1>1, PlanIs DEF ReplacePart
<1>. QED  BY <1>3, <1>4, <1>6, <1>7, <1>8, <1>9, <1>10 DEF RunInv

LEMMA MakeKeeps == ASSUME IInv, NEW call \in Calls, Make(call) PROVE IInv'
<1>. USE DEF IInv
<1>0. /\ Ready(call) /\ UNCHANGED <<config, faults, edits>>
      /\ replaced' = (replaced \/ (call = "delete_zone" /\ config.zone # NoZone))
  BY DEF Make
<1>1. replaced' \in BOOLEAN
  BY <1>0
<1>2. CASE Accepted(call)
  <2>1. /\ server' = Served(call) /\ state' = Recorded(call) /\ todo' = todo \ {call}
        /\ UNCHANGED complete
    BY <1>2 DEF Make
  <2>2. ServerInv' /\ CallInv' /\ RunInv'
    <3>1. CASE call \in {"create_zone", "update_zone", "delete_zone"}
      BY <1>0, <1>2, <2>1, <3>1, MakeZoneKeeps
    <3>2. CASE call \in {"create_record", "delete_record", "create_key", "delete_key"}
      <4>1. UNCHANGED replaced
        BY <1>0, <3>2 DEF TypeOK
      <4>. QED  BY <1>0, <1>2, <2>1, <3>2, <4>1, MakeChildKeeps
    <3>. QED  BY <1>0, <3>1, <3>2, ReadyIs DEF Calls
  <2>3. TypeOK'
    <3>1. /\ call \in Calls \ {"refresh"}
          /\ call \in {"create_zone", "update_zone"} => config.zone # NoZone
          /\ call = "update_zone" => state.zone # Unremembered
          /\ call = "create_key" => config.key # "none"
      BY <1>0, ReadyIs DEF CallInv
    <3>2. /\ server' \in [zone : Zone \cup {NoZone}, record : BOOLEAN, keys : SUBSET Key]
          /\ IsFiniteSet(server'.keys)
          /\ state' \in [zone : Remembered \cup {Unremembered}, record : BOOLEAN,
                         key : RememberedKey \cup {NoKey}]
      BY <2>1, <3>1, ServedIsTyped, RecordedIsTyped
    <3>. QED  BY <1>0, <1>1, <2>1, <3>2 DEF TypeOK
  <2>. QED  BY <2>2, <2>3
<1>3. CASE ~ Accepted(call)
  <2>1. todo' = todo \ After(call) /\ complete' = FALSE /\ UNCHANGED <<state, server>>
    BY <1>3 DEF Make
  <2>. QED  BY <1>0, <1>1, <2>1, FailKeeps DEF TypeOK
<1>. QED  BY <1>2, <1>3

\* The bounded counters.
LEMMA Counters ==
    ASSUME TypeOK
    PROVE  /\ faults < MaxFaults /\ faults' = faults + 1 => faults' \in 0 .. MaxFaults
           /\ edits < MaxEdits /\ edits' = edits + 1 => edits' \in 0 .. MaxEdits
<1>1. MaxFaults \in Nat /\ MaxEdits \in Nat
  BY BoundsAssumption
<1>. QED  BY <1>1 DEF TypeOK

LEMMA LoseKeeps == ASSUME IInv, NEW call \in Calls, Lose(call) PROVE IInv'
BY FailKeeps, Counters DEF Lose, IInv, TypeOK

LEMMA LoseRefreshKeeps == ASSUME IInv, LoseRefresh PROVE IInv'
<1>. USE DEF IInv
<1>1. /\ todo' = {} /\ complete' = FALSE /\ faults' \in 0 .. MaxFaults
      /\ UNCHANGED <<config, state, server, edits, replaced>>
  BY Counters DEF LoseRefresh
<1>2. TypeOK'
  BY <1>1 DEF TypeOK
<1>3. ServerInv' /\ CallInv' /\ RunInv'
  BY <1>1 DEF ServerInv, Exists, CallInv, RunInv, Counted
<1>. QED  BY <1>2, <1>3

LEMMA EditKeeps == ASSUME IInv, Edit PROVE IInv'
<1>. USE DEF IInv
<1>1. /\ todo = {} /\ config' \in Configs /\ complete' = FALSE /\ edits' \in 0 .. MaxEdits
      /\ UNCHANGED <<state, todo, server, faults, replaced>>
  BY Counters DEF Edit
<1>2. TypeOK'
  BY <1>1 DEF TypeOK
<1>3. ServerInv' /\ CallInv' /\ RunInv'
  BY <1>1 DEF ServerInv, Exists, CallInv, RunInv, Counted
<1>. QED  BY <1>2, <1>3

LEMMA StutterKeeps == ASSUME IInv, UNCHANGED vars PROVE IInv'
BY DEF IInv, TypeOK, ServerInv, Exists, CallInv, Wanted, RunInv, Counted, ZonePart, RecordPart,
       KeyPart, KeyHeld, ReplacePart, vars

LEMMA NextKeeps == ASSUME IInv, [Next]_vars PROVE IInv'
BY StartRunKeeps, RefreshKeeps, MakeKeeps, LoseKeeps, LoseRefreshKeeps, EditKeeps, StutterKeeps
   DEF Next, Operate

LEMMA Invariance == Spec => []IInv
BY InitEstablishes, NextKeeps, PTL DEF Spec

-----------------------------------------------------------------------------
(***************************************************************************)
(* The theorems.                                                           *)
(***************************************************************************)

\* The variables keep their types; in particular no key without an id is ever
\* remembered, and a block refers to a zone only where there is one.
THEOREM TypeCorrect == Spec => []TypeOK
<1>1. IInv => TypeOK
  BY DEF IInv
<1>. QED  BY <1>1, Invariance, PTL

\* Whatever failed before: a run in which nothing fails leaves nothing to plan,
\* unless it replaced a zone whose children name it by its name.
THEOREM OneRunIsEnough == Spec => []OneRunSuffices
<1>1. ASSUME IInv PROVE OneRunSuffices
  <2>. SUFFICES ASSUME todo = {}, complete, replaced => config.link = "id" PROVE Plan(Refreshed) = {}
    BY DEF OneRunSuffices
  <2>1. ZonePart /\ RecordPart /\ KeyPart
    BY <1>1 DEF IInv, RunInv, Counted
  <2>2. TypeOK /\ ServerInv
    BY <1>1 DEF IInv
  <2>3. /\ config.zone = NoZone => Refreshed.zone = Unremembered
        /\ config.zone # NoZone =>
              /\ Refreshed.zone # Unremembered
              /\ config.zone.servers = Refreshed.zone.servers
              /\ config.zone.account = Refreshed.zone.account
    BY <2>1, <2>2, RefreshedIs DEF ZonePart, ServerInv
  <2>4. config.record <=> Refreshed.record
    BY <2>1, <2>2, RefreshedIs, ConfigIs DEF RecordPart, TypeOK
  <2>5. config.key = Refreshed.key.algorithm /\ (config.key = "none" => Refreshed.key = NoKey)
    <3>1. config.key # "none" => Refreshed.key = state.key
      BY <2>1 DEF KeyPart, KeyHeld, Refreshed
    <3>2. config.key = "none" => Refreshed.key = NoKey
      BY <2>1, <2>2, RefreshedIs, NothingIsNothing DEF KeyPart, TypeOK
    <3>. QED  BY <2>1, <3>1, <3>2, NothingIsNothing DEF KeyPart
  <2>6. \A c \in Calls \ {"refresh"} : c \notin Plan(Refreshed)
    BY <2>3, <2>4, <2>5, PlanIs DEF Calls
  <2>. QED  BY <2>6, PlanIs
<1>. QED  BY <1>1, Invariance, PTL

\* A step under which no child the blocks want is lost.
Spares ==
    /\ server.record /\ ~ server'.record => ~ Wanted("record")
    /\ (\E k \in server.keys \ server'.keys : k.id = state.key.id) => ~ Wanted("key")

LEMMA CallSpares ==
    ASSUME IInv, NEW call \in Calls, Ready(call), server' = Served(call)
    PROVE  Spares
<1>. USE DEF IInv
<1>0. call \in Calls \ {"refresh"} /\ call \in todo
  BY ReadyIs
<1>1. CASE call = "create_zone"
  <2>1. CASE Exists
    <3>1. server' = server
      BY <1>1, <2>1, ZoneServed
    <3>. QED  BY <3>1 DEF Spares
  <2>2. CASE ~ Exists
    BY <2>2 DEF ServerInv, Spares
  <2>. QED  BY <2>1, <2>2
<1>2. CASE call = "delete_zone"
  BY <1>0, <1>2 DEF CallInv, Spares, Wanted
<1>3. CASE call = "update_zone"
  <2>1. CASE ~ Exists
    BY <2>1 DEF ServerInv, Spares
  <2>2. CASE Exists
    <3>1. PICK keys :
             /\ server' = [zone |-> [servers |-> server.zone.servers, account |-> config.zone.account],
                           record |-> server.record, keys |-> keys]
             /\ state.zone.dnssec => server.keys \subseteq keys
      BY <1>3, <2>2, ZoneServed
    <3>2. server'.record = server.record /\ server'.keys = keys
      BY <3>1
    <3>3. server.keys \subseteq keys
      BY <1>0, <1>3, <3>1 DEF CallInv
    <3>. QED  BY <3>2, <3>3 DEF Spares
  <2>. QED  BY <2>1, <2>2
<1>4. CASE call = "delete_record"
  <2>1. server'.keys = server.keys
    BY <1>4, ChildServed
  <2>. QED  BY <1>0, <1>4, <2>1 DEF CallInv, Spares
<1>5. CASE call = "create_record"
  <2>1. server' = [zone |-> server.zone, record |-> Exists, keys |-> server.keys]
    BY <1>5, ChildServed
  <2>2. server'.keys = server.keys /\ (server.record => server'.record)
    BY <2>1 DEF ServerInv
  <2>. QED  BY <2>2 DEF Spares
<1>6. CASE call = "create_key"
  <2>. DEFINE new == IF Exists THEN server.keys \cup {NewKey(TRUE)} ELSE server.keys
  <2>1. server' = [zone |-> server.zone, record |-> server.record, keys |-> new]
    BY <1>6, ChildServed
  <2>2. server.keys \subseteq new
    OBVIOUS
  <2>. HIDE DEF new
  <2>3. server'.record = server.record /\ server'.keys = new
    BY <2>1
  <2>. QED  BY <2>2, <2>3 DEF Spares
<1>7. CASE call = "delete_key"
  <2>1. server'.record = server.record
    BY <1>7, ChildServed
  <2>. QED  BY <1>0, <1>7, <2>1 DEF CallInv, Spares
<1>. QED  BY <1>0, <1>1, <1>2, <1>3, <1>4, <1>5, <1>6, <1>7 DEF Calls

LEMMA StepSpares == ASSUME IInv, [Next]_vars PROVE Spares
<1>1. CASE UNCHANGED server
  BY <1>1 DEF Spares
<1>2. ASSUME NEW call \in Calls, Make(call) \/ Lose(call)
      PROVE  Spares
  BY <1>1, <1>2, CallSpares DEF Make, Lose
<1>. QED  BY <1>1, <1>2 DEF Next, StartRun, Operate, Refresh, Edit, LoseRefresh, vars

\* No run takes a record set or a key that the blocks ask for from the server,
\* but by replacing the zone; whatever failed before, or fails half-way.
THEOREM ChildrenAreKept == Spec => ChildrenKept
<1>1. IInv /\ [Next]_vars => [Spares]_vars
  BY StepSpares
<1>. QED  BY <1>1, Invariance, PTL DEF Spec, ChildrenKept, Spares
=============================================================================
