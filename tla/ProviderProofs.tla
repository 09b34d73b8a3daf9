--------------------------- MODULE ProviderProofs ---------------------------
(***************************************************************************)
(* Proofs about Provider and the functions it offers, for all blocks,      *)
(* environments, addresses, prefixes and dates.                            *)
(***************************************************************************)
EXTENDS Provider, TLAPS

-----------------------------------------------------------------------------
(***************************************************************************)
(* What the functions compute: reverse zones and PTR names agree, and      *)
(* serials grow.                                                           *)
(***************************************************************************)

LEMMA FamilyFacts ==
    ASSUME NEW f \in Families
    PROVE  /\ Width[f] \in {4, 8} /\ Units[f] \in {4, 32}
BY DEF Families, Width, Units

LEMMA SuffixTells ==
    ASSUME NEW f \in Families, NEW g \in Families, Suffix[f] = Suffix[g]
    PROVE  f = g
BY DEF Families, Suffix

\* A unit that lies within the prefix is kept, one beyond it is zero.
LEMMA MaskOnBoundary ==
    ASSUME NEW f \in Families, NEW units, NEW kept \in 0 .. Units[f], NEW i \in 1 .. Units[f]
    PROVE  Mask(f, units, kept * Width[f])[i] = IF i <= kept THEN units[i] ELSE 0
<1>1. Units[f] \in {4, 32} /\ i \in Int /\ kept \in Int
  BY FamilyFacts
<1>2. CASE Width[f] = 4
  BY <1>1, <1>2 DEF Mask
<1>3. CASE Width[f] = 8
  BY <1>1, <1>3 DEF Mask
<1> QED BY <1>2, <1>3, FamilyFacts

\* A prefix on a boundary keeps a whole number of units.
LEMMA Boundary ==
    ASSUME NEW p \in Prefixes, p.bits % Width[p.family] = 0
    PROVE  /\ p.family \in Families
           /\ p.bits \div Width[p.family] \in 0 .. Units[p.family]
           /\ p.bits = (p.bits \div Width[p.family]) * Width[p.family]
<1>1. p.family \in Families /\ p.bits \in 0 .. Units[p.family] * Width[p.family]
  BY DEF Prefixes, Prefix, Families
<1>2. Units[p.family] \in {4, 32}
  BY <1>1, FamilyFacts
<1>3. CASE Width[p.family] = 4
  BY <1>1, <1>2, <1>3
<1>4. CASE Width[p.family] = 8
  BY <1>1, <1>2, <1>4
<1> QED BY <1>1, <1>3, <1>4, FamilyFacts

\* The labels of a reverse zone are the units of the prefix, backwards.
LEMMA ZoneLabels ==
    ASSUME NEW p \in Prefixes, p.bits % Width[p.family] = 0,
           NEW kept \in 0 .. Units[p.family], kept = p.bits \div Width[p.family]
    PROVE  fqdn(reverseZoneName(p)) =
              [labels |-> [i \in 1 .. kept |-> p.units[kept + 1 - i]],
               suffix |-> Suffix[p.family], dot |-> TRUE]
<1>1. /\ p.family \in Families /\ Units[p.family] \in {4, 32}
      /\ p.bits = kept * Width[p.family]
  BY Boundary, FamilyFacts
<1>2. Masked(p).units = Mask(p.family, p.units, kept * Width[p.family])
  BY <1>1 DEF Masked, Prefixes, Prefix
<1>3. ASSUME NEW i \in 1 .. kept
      PROVE  Masked(p).units[kept + 1 - i] = p.units[kept + 1 - i]
  <2>1. kept + 1 - i \in 1 .. Units[p.family] /\ kept + 1 - i <= kept
    BY <1>1
  <2> QED BY <1>1, <1>2, <2>1, MaskOnBoundary
<1>4. Backward(Masked(p).units, kept) = [i \in 1 .. kept |-> p.units[kept + 1 - i]]
  BY <1>3 DEF Backward
<1>5. reverseZoneName(p) = [labels |-> Backward(Masked(p).units, kept),
                            suffix |-> Suffix[p.family], dot |-> TRUE]
  BY DEF reverseZoneName, hexNibbles, joinReverseLabels
<1> QED BY <1>4, <1>5 DEF fqdn

LEMMA NameLabels ==
    ASSUME NEW a \in Addresses
    PROVE  /\ a.family \in Families
           /\ a.units \in Seq(Int) /\ Len(a.units) = Units[a.family]
           /\ fqdn(ptrName(a)) =
                [labels |-> [i \in 1 .. Units[a.family] |-> a.units[Units[a.family] + 1 - i]],
                 suffix |-> Suffix[a.family], dot |-> TRUE]
<1>1. /\ a.family \in Families
      /\ a.units \in [1 .. Units[a.family] -> 0 .. Base[a.family] - 1]
  BY DEF Addresses, Address, Families
<1>2. Units[a.family] \in Nat /\ Base[a.family] \in Nat
  BY <1>1 DEF Families, Units, Base
<1>3. a.units \in Seq(Int) /\ Len(a.units) = Units[a.family]
  BY <1>1, <1>2
<1>4. ptrName(a) = [labels |-> Backward(a.units, Units[a.family]),
                    suffix |-> Suffix[a.family], dot |-> TRUE]
  BY <1>3 DEF ptrName, hexNibbles, joinReverseLabels
<1> QED BY <1>1, <1>3, <1>4 DEF fqdn, Backward

\* The PTR name of an address lies under the reverse zone of a prefix that ends
\* on a label exactly if the address is in the prefix.
THEOREM ReverseZonesAgree ==
    ASSUME NEW p \in Prefixes, NEW a \in Addresses, p.bits % Width[p.family] = 0
    PROVE  IsUnder(fqdn(ptrName(a)), fqdn(reverseZoneName(p))) <=> Contains(p, a)
<1> DEFINE kept == p.bits \div Width[p.family]
           f == p.family
           zone == fqdn(reverseZoneName(p))
           name == fqdn(ptrName(a))
<1>1. /\ f \in Families /\ kept \in 0 .. Units[f] /\ p.bits = kept * Width[f]
      /\ Units[f] \in {4, 32}
  BY Boundary, FamilyFacts
<1>2. zone = [labels |-> [i \in 1 .. kept |-> p.units[kept + 1 - i]],
              suffix |-> Suffix[f], dot |-> TRUE]
  BY <1>1, ZoneLabels
<1>3. /\ a.family \in Families
      /\ name = [labels |-> [i \in 1 .. Units[a.family] |-> a.units[Units[a.family] + 1 - i]],
                 suffix |-> Suffix[a.family], dot |-> TRUE]
  BY NameLabels
<1>4. CASE a.family # f
  <2>1. name.suffix # zone.suffix
    BY <1>1, <1>2, <1>3, <1>4, SuffixTells
  <2> QED BY <1>4, <2>1 DEF IsUnder, Contains
<1>5. CASE a.family = f
  <2> DEFINE Same == \A i \in 1 .. kept : a.units[i] = p.units[i]
  <2>1. /\ Len(zone.labels) = kept /\ Len(name.labels) = Units[f]
        /\ name.suffix = zone.suffix
        /\ \A i \in 1 .. kept : zone.labels[i] = p.units[kept + 1 - i]
        /\ \A i \in 1 .. Units[f] : name.labels[i] = a.units[Units[f] + 1 - i]
    <3>1. kept \in Nat /\ Units[f] \in Nat
      BY <1>1
    <3> HIDE DEF kept
    <3>2. /\ zone.labels = [i \in 1 .. kept |-> p.units[kept + 1 - i]]
          /\ name.labels = [i \in 1 .. Units[f] |-> a.units[Units[f] + 1 - i]]
          /\ name.suffix = zone.suffix
      BY <1>2, <1>3, <1>5
    <3> QED BY <3>1, <3>2
  <2>2. IsUnder(name, zone) <=>
           \A i \in 1 .. kept : a.units[kept + 1 - i] = p.units[kept + 1 - i]
    <3>1. Units[f] - kept >= 0
      BY <1>1
    <3>2. \A i \in 1 .. kept : /\ Units[f] - kept + i \in 1 .. Units[f]
                               /\ Units[f] + 1 - (Units[f] - kept + i) = kept + 1 - i
      BY <1>1
    <3>3. \A i \in 1 .. kept : name.labels[Units[f] - kept + i] = a.units[kept + 1 - i]
      BY <2>1, <3>2
    <3> HIDE DEF name, zone, kept
    <3>4. IsUnder(name, zone) <=>
             \A i \in 1 .. kept : name.labels[Units[f] - kept + i] = zone.labels[i]
      BY <2>1, <3>1 DEF IsUnder
    <3> QED BY <2>1, <3>3, <3>4
  <2>3. (\A i \in 1 .. kept : a.units[kept + 1 - i] = p.units[kept + 1 - i]) <=> Same
    <3>1. ASSUME \A i \in 1 .. kept : a.units[kept + 1 - i] = p.units[kept + 1 - i],
                 NEW j \in 1 .. kept
          PROVE  a.units[j] = p.units[j]
      <4>1. kept + 1 - j \in 1 .. kept /\ kept + 1 - (kept + 1 - j) = j
        BY <1>1
      <4> QED BY <3>1, <4>1
    <3>2. ASSUME Same, NEW i \in 1 .. kept
          PROVE  a.units[kept + 1 - i] = p.units[kept + 1 - i]
      <4>1. kept + 1 - i \in 1 .. kept
        BY <1>1
      <4> QED BY <3>2, <4>1
    <3> QED BY <3>1, <3>2
  <2>4. Contains(p, a) <=>
           Mask(f, a.units, kept * Width[f]) = Mask(f, p.units, kept * Width[f])
    BY <1>1, <1>5 DEF Contains, Masked, Prefixes, Prefix
  <2>5. \A i \in 1 .. Units[f] :
           /\ Mask(f, a.units, kept * Width[f])[i] = IF i <= kept THEN a.units[i] ELSE 0
           /\ Mask(f, p.units, kept * Width[f])[i] = IF i <= kept THEN p.units[i] ELSE 0
    <3> TAKE i \in 1 .. Units[f]
    <3>1. f \in Families /\ kept \in 0 .. Units[f]
      BY <1>1
    <3> HIDE DEF kept, f
    <3>2. Mask(f, a.units, kept * Width[f])[i] = IF i <= kept THEN a.units[i] ELSE 0
      BY ONLY <3>1, i \in 1 .. Units[f], MaskOnBoundary
    <3>3. Mask(f, p.units, kept * Width[f])[i] = IF i <= kept THEN p.units[i] ELSE 0
      BY ONLY <3>1, i \in 1 .. Units[f], MaskOnBoundary
    <3> QED BY <3>2, <3>3
  <2>6. Contains(p, a) <=>
           \A i \in 1 .. Units[f] :
              Mask(f, a.units, kept * Width[f])[i] = Mask(f, p.units, kept * Width[f])[i]
    BY <2>4 DEF Mask
  <2>7. Contains(p, a) <=> Same
    BY <1>1, <2>5, <2>6
  <2> QED BY <2>2, <2>3, <2>7
<1> QED BY <1>4, <1>5

-----------------------------------------------------------------------------

\* A serial made of a later date, or of a later revision on the same day, is
\* larger: a zone whose serial the function provides never goes backwards.
THEOREM SerialAdvances ==
    ASSUME NEW d \in [year : Int, month : Int, day : Int], NEW r \in Revisions,
           NEW e \in [year : Int, month : Int, day : Int], NEW s \in Revisions,
           IsDate(d), IsDate(e), Before(d, r, e, s)
    PROVE  soaSerial(d, r) < soaSerial(e, s)
<1>1. /\ d.month \in 1 .. 12 /\ d.day \in 1 .. 31 /\ d.year \in Int
      /\ e.month \in 1 .. 12 /\ e.day \in 1 .. 31 /\ e.year \in Int
  BY DEF IsDate, DaysIn
<1>2. r \in 0 .. 99 /\ s \in 0 .. 99
  BY DEF Revisions
<1>3. /\ soaSerial(d, r) = ((d.year * 100 + d.month) * 100 + d.day) * 100 + r
      /\ soaSerial(e, s) = ((e.year * 100 + e.month) * 100 + e.day) * 100 + s
  BY DEF soaSerial
<1> QED BY <1>1, <1>2, <1>3 DEF Before

-----------------------------------------------------------------------------
(***************************************************************************)
(* What the operations and the clients are.                                *)
(***************************************************************************)

\* What an operation is entered in the table with.
LEMMA OperationsAre ==
    \A o \in DOMAIN Operations \ {"flush_other"} :
        /\ Operations[o].kind \in Kinds
        /\ Operations[o].product \in Products
        /\ Operations[o].truths \subseteq Truths
        /\ "limited" \in Operations[o].truths /\ Operations[o].product = "auth" =>
              "views" \in Operations[o].path \/ "networks" \in Operations[o].path
        /\ "limited" \in Operations[o].truths /\ Operations[o].product = "dnsdist" =>
              "cache" \in Operations[o].path \/ Operations[o].method = "PUT"
        /\ "absent" \in Operations[o].truths => Operations[o].product # "dnsdist"
        /\ "blank" \in Operations[o].truths => Operations[o].kind = "ephemeral"
        /\ "no_set" \in Operations[o].truths => o = "record" /\ Operations[o].kind = "data"
        /\ "unset" \in Operations[o].truths => Operations[o].kind = "data"
<1>1. DOMAIN Operations = {"zone", "zones", "record", "zone_metadata", "zone_export", "recursor_zone",
        "dnsdist_server", "key_material", "tsigkey_secret", "notify_zone", "axfr_retrieve",
        "rectify_zone", "flush_auth", "flush_recursor", "flush_dnsdist", "flush_other",
        "change_zone", "set_record",
        "set_network", "add_to_view", "make_forward", "set_acl", "set_dnsdist_acl"}
  BY DEF Operations
<1>. DEFINE Entered(o) ==
              /\ Operations[o].kind \in Kinds
              /\ Operations[o].product \in Products
              /\ Operations[o].truths \subseteq Truths
              /\ "limited" \in Operations[o].truths /\ Operations[o].product = "auth" =>
                    "views" \in Operations[o].path \/ "networks" \in Operations[o].path
              /\ "limited" \in Operations[o].truths /\ Operations[o].product = "dnsdist" =>
                    "cache" \in Operations[o].path \/ Operations[o].method = "PUT"
              /\ "absent" \in Operations[o].truths => Operations[o].product # "dnsdist"
              /\ "blank" \in Operations[o].truths => Operations[o].kind = "ephemeral"
              /\ "no_set" \in Operations[o].truths => o = "record" /\ Operations[o].kind = "data"
              /\ "unset" \in Operations[o].truths => Operations[o].kind = "data"
<1>. USE DEF Op, Kinds, Products, Truths
<1>2. Operations["zone"] = zoneDataSource /\ Entered("zone")
  BY DEF Operations, zoneDataSource
<1>3. Operations["zones"] = zonesDataSource /\ Entered("zones")
  BY DEF Operations, zonesDataSource
<1>4. Operations["record"] = recordDataSource /\ Entered("record")
  BY DEF Operations, recordDataSource
<1>5. Operations["zone_metadata"] = zoneMetadataDataSource /\ Entered("zone_metadata")
  BY DEF Operations, zoneMetadataDataSource
<1>6. Operations["zone_export"] = zoneExportDataSource /\ Entered("zone_export")
  BY DEF Operations, zoneExportDataSource
<1>7. Operations["recursor_zone"] = recursorZoneDataSource /\ Entered("recursor_zone")
  BY DEF Operations, recursorZoneDataSource
<1>8. Operations["dnsdist_server"] = dnsdistServerDataSource /\ Entered("dnsdist_server")
  BY DEF Operations, dnsdistServerDataSource
<1>9. Operations["key_material"] = cryptoKeyMaterialEphemeral /\ Entered("key_material")
  BY DEF Operations, cryptoKeyMaterialEphemeral
<1>10. Operations["tsigkey_secret"] = tsigKeySecretEphemeral /\ Entered("tsigkey_secret")
  BY DEF Operations, tsigKeySecretEphemeral
<1>11. Operations["notify_zone"] = notifyZoneAction /\ Entered("notify_zone")
  BY DEF Operations, notifyZoneAction
<1>12. Operations["axfr_retrieve"] = axfrRetrieveAction /\ Entered("axfr_retrieve")
  BY DEF Operations, axfrRetrieveAction
<1>13. Operations["rectify_zone"] = rectifyZoneAction /\ Entered("rectify_zone")
  BY DEF Operations, rectifyZoneAction
<1>14. Operations["flush_auth"] = flushAuth /\ Entered("flush_auth")
  BY DEF Operations, flushAuth
<1>15. Operations["flush_recursor"] = flushRecursor /\ Entered("flush_recursor")
  BY DEF Operations, flushRecursor
<1>16. Operations["flush_dnsdist"] = flushDNSDist /\ Entered("flush_dnsdist")
  BY DEF Operations, flushDNSDist
<1>17. Operations["change_zone"] = zoneWrite /\ Entered("change_zone")
  BY DEF Operations, zoneWrite
<1>18. Operations["set_record"] = recordWrite /\ Entered("set_record")
  BY DEF Operations, recordWrite
<1>19. Operations["set_network"] = networkWrite /\ Entered("set_network")
  BY DEF Operations, networkWrite
<1>20. Operations["add_to_view"] = viewZoneWrite /\ Entered("add_to_view")
  BY DEF Operations, viewZoneWrite
<1>21. Operations["make_forward"] = recursorZoneWrite /\ Entered("make_forward")
  BY DEF Operations, recursorZoneWrite
<1>22. Operations["set_acl"] = recursorACLWrite /\ Entered("set_acl")
  BY DEF Operations, recursorACLWrite
<1>23. Operations["set_dnsdist_acl"] = dnsdistACLWrite /\ Entered("set_dnsdist_acl")
  BY DEF Operations, dnsdistACLWrite
<1> QED BY <1>1, <1>2, <1>3, <1>4, <1>5, <1>6, <1>7, <1>8, <1>9, <1>10, <1>11, <1>12,
          <1>13, <1>14, <1>15, <1>16, <1>17, <1>18, <1>19, <1>20, <1>21, <1>22, <1>23

\* The path of a request: the fixed segments, and the name where there is one.
LEMMA PathIs ==
    ASSUME NEW op, NEW name
    PROVE  /\ \A segment \in op.path : segment = "{id}" \/ segment \in Path(op, name)
           /\ \A segment \in Path(op, name) : segment \in op.path \/ segment = name
BY DEF Path

\* Settings are told apart by what they are.
LEMMA SettingsDiffer ==
    ASSUME NEW p, NEW argument, NEW place
    PROVE  /\ Value(p, argument, place) \notin {Empty, Null, Unknown}
           /\ Empty # Null /\ Empty # Unknown /\ Null # Unknown
BY DEF Value, Empty, Null, Unknown

LEMMA NothingIsNoBundle == Nothing \notin Clients
BY DEF Nothing, Clients, Products

-----------------------------------------------------------------------------
(***************************************************************************)
(* Configure.                                                              *)
(***************************************************************************)

\* What an argument of the block and a variable of the environment may hold.
Legible ==
    \A p \in Products :
        /\ block.url[p] \in Given(p, "url") /\ block.key[p] \in Given(p, "key")
        /\ env.url[p] \in Found(p, "url") /\ env.key[p] \in Found(p, "key")

LEMMA TypeMakesLegible == TypeOK => Legible
<1> SUFFICES ASSUME TypeOK, NEW p \in Products
             PROVE  /\ block.url[p] \in Given(p, "url") /\ block.key[p] \in Given(p, "key")
                    /\ env.url[p] \in Found(p, "url") /\ env.key[p] \in Found(p, "key")
  BY DEF Legible
<1>1. /\ env.url[p] \in Found(p, "url") /\ env.key[p] \in Found(p, "key")
  BY EnvironmentsAssumption DEF TypeOK, NoEnvironment, Found
<1>2. ASSUME NEW b \in Blocks
      PROVE  b.url[p] \in Given(p, "url") /\ b.key[p] \in Given(p, "key")
  BY BlocksAssumption
<1>3. CASE block \in Blocks
  BY <1>1, <1>2, <1>3
<1>4. CASE block = NoBlock
  BY <1>1, <1>4 DEF NoBlock, Given
<1>5. CASE block \in {Settled(b) : b \in Blocks}
  <2>1. PICK b \in Blocks : block = Settled(b)
    BY <1>5
  <2>2. /\ block.url[p] \in {b.url[p], Value(p, "url", "block")}
        /\ block.key[p] \in {b.key[p], Value(p, "key", "block")}
    BY <2>1 DEF Settled
  <2> QED BY <1>1, <1>2, <2>2 DEF Given
<1> QED BY <1>3, <1>4, <1>5 DEF TypeOK

Places == {"block", "env"}

LEMMA URLIs ==
    ASSUME Legible, NEW p \in Products
    PROVE  URL(p) = Empty \/ \E place \in Places : URL(p) = Value(p, "url", place)
BY SettingsDiffer DEF Legible, URL, resolveString, Given, Found, Places

\* The product was given a key of its own, if only an empty one.
Own(p) == block.key[p] \notin {Null, Unknown} \/ env.key[p] # Empty

LEMMA APIKeyIs ==
    ASSUME Legible, NEW p \in Products
    PROVE  \/ APIKey(p) = Empty
           \/ \E place \in Places : APIKey(p) = Value(IF Own(p) THEN p ELSE "auth", "key", place)
<1>1. "auth" \in Products
  BY DEF Products
<1>2. CASE Own(p)
  BY <1>2, SettingsDiffer DEF Legible, APIKey, Own, resolveString, Given, Found, Places
<1>3. CASE ~ Own(p)
  <2>1. APIKey(p) = IF p = "auth" THEN Empty
                    ELSE resolveString(block.key["auth"], env.key["auth"], Empty)
    BY <1>3 DEF APIKey, Own, resolveString
  <2> QED BY <1>1, <1>3, <2>1, SettingsDiffer DEF Legible, resolveString, Given, Found, Places
<1> QED BY <1>2, <1>3

\* Every client has the URL of its product and a key meant for it.
LEMMA ClientIs ==
    ASSUME Legible, buildClients, NEW p \in Products, URL(p) # Empty
    PROVE  /\ BuiltClients[p] = [url |-> URL(p), key |-> APIKey(p)]
           /\ \E place \in Places : URL(p) = Value(p, "url", place)
           /\ \E place \in Places : APIKey(p) = Value(IF Own(p) THEN p ELSE "auth", "key", place)
BY URLIs, APIKeyIs DEF buildClients, buildTransport, BuiltClients

LEMMA BuiltClientsTyped == ASSUME Legible, buildClients PROVE BuiltClients \in Clients
<1> SUFFICES ASSUME NEW p \in Products PROVE BuiltClients[p] \in Client \cup {NoClient}
  BY DEF BuiltClients, Clients
<1>1. CASE URL(p) = Empty
  BY <1>1 DEF BuiltClients
<1>2. CASE URL(p) # Empty
  <2>1. URL(p) \in Settings("url") /\ APIKey(p) \in Settings("key")
    BY <1>2, ClientIs DEF Settings, Places, Products
  <2>2. [url |-> URL(p), key |-> APIKey(p)] \in Client
    BY <2>1 DEF Client
  <2>3. BuiltClients[p] = [url |-> URL(p), key |-> APIKey(p)]
    BY <1>2, ClientIs
  <2> QED BY <2>2, <2>3
<1> QED BY <1>1, <1>2

-----------------------------------------------------------------------------
(***************************************************************************)
(* The invariant: a provider that is configured has handed out what was    *)
(* built, and no operation runs before.                                    *)
(***************************************************************************)

HandedInv == phase = "configured" => buildClients /\ handed = HandOver
LastInv == Operated => phase = "configured"

IInv == TypeOK /\ HandedInv /\ LastInv

LEMMA InitEstablishes == Init => IInv
<1> SUFFICES ASSUME Init PROVE IInv
  OBVIOUS
<1>1. TypeOK
  BY DEF Init, TypeOK
<1>2. ~ Operated
  BY DEF Init, Operated, Idle, Operations
<1> QED BY <1>1, <1>2 DEF Init, IInv, HandedInv, LastInv

LEMMA IdleIsNone == "none" \notin DOMAIN Operations /\ "names" \notin DOMAIN Operations
BY DEF Operations

-----------------------------------------------------------------------------
(***************************************************************************)
(* One lemma for each action.                                              *)
(***************************************************************************)

LEMMA StartKeeps == ASSUME IInv, Start PROVE IInv'
<1>1. TypeOK'
  BY DEF IInv, Start, TypeOK
<1>2. ~ Operated'
  BY IdleIsNone DEF Start, Operated, Idle
<1>3. HandedInv'
  BY DEF Start, HandedInv
<1> QED BY <1>1, <1>2, <1>3 DEF IInv, LastInv

LEMMA ConfigureKeeps == ASSUME IInv, Configure PROVE IInv'
<1>1. Legible
  BY TypeMakesLegible DEF IInv
<1>2. ~ Operated'
  BY IdleIsNone DEF Configure, Operated, Idle
<1>3. CASE phase' = "failed" /\ UNCHANGED handed
  <2>1. TypeOK'
    BY <1>3 DEF IInv, Configure, TypeOK
  <2>2. HandedInv'
    BY <1>3 DEF HandedInv
  <2> QED BY <1>2, <2>1, <2>2 DEF IInv, LastInv
<1>4. CASE phase' = "configured" /\ handed' = HandOver /\ buildClients
  <2>1. BuiltClients \in Clients
    BY <1>1, <1>4, BuiltClientsTyped
  <2>2. handed' \in [Kinds -> Clients \cup {Nothing}]
    BY <1>4, <2>1 DEF HandOver
  <2>3. TypeOK'
    BY <1>4, <2>2 DEF IInv, Configure, TypeOK
  <2>4. buildClients' /\ HandOver' = HandOver
    BY <1>4 DEF Configure, buildClients, buildSharedConfig, buildTransport, HandOver, BuiltClients,
                URL, APIKey
  <2>5. HandedInv'
    BY <1>4, <2>4 DEF HandedInv
  <2> QED BY <1>2, <2>3, <2>5 DEF IInv, LastInv
<1> QED BY <1>3, <1>4 DEF Configure

\* What a client reports is one of the things there are to report.
LEMMA classifyIs ==
    ASSUME NEW op, op.product \in Products, NEW path, NEW status, NEW names
    PROVE  classify(op, path, status, names) \in Requirements \cup {"other"}
BY DEF classify, classifyAuth, classifyRecursor, classifyDNSDist, Products, Requirements

\* The clients an operation finds, and what they are.
LEMMA ClientsAtHand ==
    ASSUME IInv, phase = "configured", NEW o \in DOMAIN Operations \ {"flush_other"}
    PROVE  /\ handed[Operations[o].kind] = BuiltClients
           /\ BuiltClients \in Clients
           /\ BuiltClients # Nothing
           /\ BuiltClients[Operations[o].product] \in Client \cup {NoClient}
<1>1. Operations[o].kind \in Kinds /\ Operations[o].product \in Products
  BY OperationsAre
<1>2. BuiltClients \in Clients
  BY TypeMakesLegible, BuiltClientsTyped DEF IInv, HandedInv
<1> QED BY <1>1, <1>2, NothingIsNoBundle DEF IInv, HandedInv, HandOver, Clients

\* The four ways an operation goes.
Unsent == last'.sent = NoClient /\ last'.verdict = "error"
Lacking(o) ==
    BuiltClients[Operations[o].product] = NoClient /\ Unsent /\ last'.told = "not_configured"
Rejected(truth) == truth = "reserved" /\ Unsent /\ last'.told = "other"
Sent(o, truth) ==
    /\ truth # "reserved"
    /\ BuiltClients[Operations[o].product] # NoClient
    /\ last'.sent = BuiltClients[Operations[o].product]
Answered(o, truth) ==
    /\ Sent(o, truth)
    /\ Status(Operations[o], truth) = 200
    /\ last'.verdict = Judged(o, truth).verdict /\ last'.told = Judged(o, truth).told
Denied(o, name, truth) ==
    /\ Sent(o, truth)
    /\ Status(Operations[o], truth) # 200
    /\ last'.verdict = "error"
    /\ last'.told = classify(Operations[o], Path(Operations[o], name),
                             Status(Operations[o], truth), NamesDir(Operations[o], truth))

LEMMA OperateGoes ==
    ASSUME IInv, NEW o \in DOMAIN Operations, NEW name \in Names,
           NEW truth \in Truths, Operate(o, name, truth)
    PROVE  /\ o # "flush_other" /\ truth \in Operations[o].truths /\ phase = "configured"
           /\ last' = [op |-> o, name |-> name, truth |-> truth, sent |-> last'.sent,
                       verdict |-> last'.verdict, told |-> last'.told]
           /\ last'.op = o /\ last'.name = name /\ last'.truth = truth
           /\ Lacking(o) \/ Rejected(truth) \/ Answered(o, truth) \/ Denied(o, name, truth)
<1> DEFINE op == Operations[o]
           bundle == handed[op.kind]
           p == op.product
           outcome == IF Status(op, truth) = 200 THEN Judged(o, truth)
                      ELSE Error(classify(op, Path(op, name), Status(op, truth), NamesDir(op, truth)))
<1>1. o # "flush_other" /\ truth \in op.truths /\ phase = "configured"
  BY DEF Operate
<1>2. bundle = BuiltClients /\ bundle # Nothing
  BY <1>1, ClientsAtHand
<1>3. Require(bundle, p) = IF BuiltClients[p] = NoClient THEN "not_configured" ELSE ""
  BY <1>2 DEF Require
<1>4. \/ BuiltClients[p] = NoClient /\ Report(o, name, truth, NoClient, Error("not_configured"))
      \/ /\ BuiltClients[p] # NoClient
         /\ IF truth = "reserved" THEN Report(o, name, truth, NoClient, Error("other"))
            ELSE Report(o, name, truth, BuiltClients[p], outcome)
  BY <1>2, <1>3 DEF Operate
<1>5. ASSUME NEW sent, NEW result, Report(o, name, truth, sent, result)
      PROVE  /\ last' = [op |-> o, name |-> name, truth |-> truth, sent |-> sent,
                         verdict |-> result.verdict, told |-> result.told]
             /\ last'.op = o /\ last'.name = name /\ last'.truth = truth /\ last'.sent = sent
             /\ last'.verdict = result.verdict /\ last'.told = result.told
  BY <1>5 DEF Report
<1>6. CASE BuiltClients[p] = NoClient /\ Report(o, name, truth, NoClient, Error("not_configured"))
  BY <1>1, <1>5, <1>6 DEF Error, Lacking, Unsent
<1>7. CASE truth = "reserved" /\ Report(o, name, truth, NoClient, Error("other"))
  BY <1>1, <1>5, <1>7 DEF Error, Rejected, Unsent
<1>8. CASE /\ truth # "reserved" /\ BuiltClients[p] # NoClient
           /\ Report(o, name, truth, BuiltClients[p], outcome)
  <2>1. /\ last'.op = o /\ last'.name = name /\ last'.truth = truth /\ last'.sent = BuiltClients[p]
        /\ last' = [op |-> o, name |-> name, truth |-> truth, sent |-> last'.sent,
                    verdict |-> last'.verdict, told |-> last'.told]
        /\ last'.verdict = outcome.verdict /\ last'.told = outcome.told
    BY <1>5, <1>8
  <2>2. CASE Status(op, truth) = 200
    BY <1>1, <1>8, <2>1, <2>2 DEF Answered, Sent
  <2>3. CASE Status(op, truth) # 200
    BY <1>1, <1>8, <2>1, <2>3 DEF Denied, Sent, Error
  <2> QED BY <2>2, <2>3
<1> QED BY <1>4, <1>6, <1>7, <1>8

\* What a 200 is taken for.
LEMMA JudgedIs ==
    ASSUME NEW o, NEW truth
    PROVE  /\ Judged(o, truth).verdict \in {"done", "error", "empty", "value"}
           /\ Judged(o, truth).told \in {"", "other"}
           /\ Judged(o, truth).verdict = "empty" => truth = "unset"
           /\ Judged(o, truth).verdict = "error" => truth \in {"no_set", "blank"}
BY DEF Judged

LEMMA OperateKeeps ==
    ASSUME IInv, NEW o \in DOMAIN Operations, NEW name \in Names,
           NEW truth \in Truths, Operate(o, name, truth)
    PROVE  IInv'
<1>1. /\ o # "flush_other" /\ phase = "configured"
      /\ last' = [op |-> o, name |-> name, truth |-> truth, sent |-> last'.sent,
                  verdict |-> last'.verdict, told |-> last'.told]
      /\ Lacking(o) \/ Rejected(truth) \/ Answered(o, truth) \/ Denied(o, name, truth)
  BY OperateGoes
<1>2. BuiltClients[Operations[o].product] \in Client \cup {NoClient}
  BY <1>1, ClientsAtHand
<1>3. /\ last'.sent \in Client \cup {NoClient}
      /\ last'.verdict \in {"value", "empty", "done", "error"}
      /\ last'.told \in Told
  <2>1. CASE Lacking(o) \/ Rejected(truth)
    BY <2>1 DEF Lacking, Rejected, Unsent, Told
  <2>2. CASE Answered(o, truth)
    BY <1>2, <2>2, JudgedIs DEF Answered, Sent, Told
  <2>3. CASE Denied(o, name, truth)
    <3>1. Operations[o].product \in Products
      BY <1>1, OperationsAre
    <3>2. last'.told \in Requirements \cup {"other"}
      BY <2>3, <3>1, classifyIs DEF Denied
    <3> QED BY <1>2, <2>3, <3>2 DEF Denied, Sent, Told
  <2> QED BY <1>1, <2>1, <2>2, <2>3
<1>4. last' \in Operation
  BY <1>1, <1>3 DEF Operation
<1>5. UNCHANGED <<block, env, phase, handed>>
  BY DEF Operate
<1>6. TypeOK'
  BY <1>4, <1>5 DEF IInv, TypeOK
<1>7. HandedInv'
  BY <1>5 DEF IInv, HandedInv, buildClients, buildSharedConfig, buildTransport, HandOver,
              BuiltClients, URL, APIKey
<1> QED BY <1>1, <1>5, <1>6, <1>7 DEF IInv, LastInv

LEMMA FlushOtherKeeps == ASSUME IInv, FlushOther PROVE IInv'
<1>1. last' = [op |-> "flush_other", name |-> "plain", truth |-> "there", sent |-> NoClient,
               verdict |-> "error", told |-> "other"]
  BY DEF FlushOther, Report, Error
<1>2. "flush_other" \in DOMAIN Operations
  BY DEF Operations
<1>3. last' \in Operation
  BY <1>1, <1>2 DEF Operation, Names, Truths, Told
<1>4. TypeOK'
  BY <1>3 DEF IInv, TypeOK, FlushOther
<1>5. HandedInv'
  BY DEF FlushOther, IInv, HandedInv, buildClients, buildSharedConfig, buildTransport, HandOver,
         BuiltClients, URL, APIKey
<1> QED BY <1>4, <1>5 DEF IInv, LastInv, FlushOther

LEMMA CallFunctionsKeep == ASSUME IInv, CallFunctions PROVE IInv'
<1>1. last'.op = "names" /\ last'.prefix \in Prefixes /\ last'.address \in Addresses
  BY CallsAssumption DEF CallFunctions
<1>2. ~ Operated'
  BY <1>1, IdleIsNone DEF Operated
<1>3. TypeOK'
  BY <1>1 DEF IInv, TypeOK, CallFunctions
<1>4. HandedInv'
  BY DEF CallFunctions, HandedInv
<1> QED BY <1>2, <1>3, <1>4 DEF IInv, LastInv

LEMMA RestartKeeps == ASSUME IInv, Restart PROVE IInv'
<1>1. ~ Operated'
  BY IdleIsNone DEF Restart, Operated, Idle
<1>2. block' \in {Settled(b) : b \in Blocks} \cup {NoBlock} \cup Blocks
  <2>1. CASE block \in Blocks
    BY <2>1 DEF Restart
  <2>2. CASE block = NoBlock
    <3>1. NoBlock = [NoBlock EXCEPT !.url = NoBlock.url, !.key = NoBlock.key]
      BY DEF NoBlock
    <3>2. /\ NoBlock.url = [p \in Products |-> IF NoBlock.url[p] = Unknown
                                              THEN Value(p, "url", "block") ELSE NoBlock.url[p]]
          /\ NoBlock.key = [p \in Products |-> IF NoBlock.key[p] = Unknown
                                              THEN Value(p, "key", "block") ELSE NoBlock.key[p]]
      BY SettingsDiffer DEF NoBlock
    <3>3. Settled(NoBlock) = NoBlock
      BY <3>1, <3>2 DEF Settled
    <3> QED BY <2>2, <3>3 DEF Restart
  <2>3. CASE block \in {Settled(b) : b \in Blocks}
    <3>1. PICK b \in Blocks : block = Settled(b)
      BY <2>3
    <3>2. Settled(Settled(b)) = Settled(b)
      BY SettingsDiffer DEF Settled
    <3> QED BY <3>1, <3>2 DEF Restart
  <2> QED BY <2>1, <2>2, <2>3 DEF IInv, TypeOK
<1>3. TypeOK'
  BY <1>2 DEF IInv, Restart, TypeOK
<1>4. HandedInv'
  BY DEF Restart, HandedInv
<1> QED BY <1>1, <1>3, <1>4 DEF IInv, LastInv

LEMMA StutterKeeps == ASSUME IInv, UNCHANGED vars PROVE IInv'
BY DEF IInv, vars, TypeOK, HandedInv, LastInv, Operated, buildClients, buildSharedConfig,
       buildTransport, HandOver, BuiltClients, URL, APIKey

LEMMA NextKeeps == ASSUME IInv, [Next]_vars PROVE IInv'
BY StartKeeps, ConfigureKeeps, OperateKeeps, FlushOtherKeeps, CallFunctionsKeep, RestartKeeps,
   StutterKeeps DEF Next

-----------------------------------------------------------------------------
(***************************************************************************)
(* What the operations come to.  Each of the four invariants is about the  *)
(* last operation, so it is enough to look at the one just made.           *)
(***************************************************************************)

LEMMA OperateFindsBundle ==
    ASSUME IInv, NEW o \in DOMAIN Operations, NEW name \in Names,
           NEW truth \in Truths, Operate(o, name, truth)
    PROVE  BundleArrives'
<1>1. /\ o # "flush_other" /\ phase = "configured" /\ last'.op = o
      /\ Lacking(o) \/ Rejected(truth) \/ Answered(o, truth) \/ Denied(o, name, truth)
  BY OperateGoes
<1>2. Operations[o].product \in Products
  BY <1>1, OperationsAre
<1>3. URL(Operations[o].product)' = URL(Operations[o].product)
  BY DEF Operate, URL
<1>4. CASE Lacking(o)
  <2>1. URL(Operations[o].product) = Empty
    <3>1. SUFFICES ASSUME URL(Operations[o].product) # Empty PROVE FALSE
      OBVIOUS
    <3>2. BuiltClients[Operations[o].product] =
             [url |-> URL(Operations[o].product), key |-> APIKey(Operations[o].product)]
      BY <1>2, <3>1 DEF BuiltClients
    <3>3. BuiltClients[Operations[o].product] = [url |-> Empty, key |-> Empty]
      BY <1>4 DEF Lacking, NoClient
    <3> QED BY <3>1, <3>2, <3>3
  <2> QED BY <1>1, <1>3, <1>4, <2>1 DEF BundleArrives, Lacking
<1>5. CASE Rejected(truth)
  BY <1>5 DEF BundleArrives, Rejected
<1>6. CASE Answered(o, truth)
  <2>1. last'.told \in {"", "other"}
    BY <1>6, JudgedIs DEF Answered
  <2> QED BY <2>1 DEF BundleArrives
<1>7. CASE Denied(o, name, truth)
  BY <1>2, <1>7, classifyIs DEF BundleArrives, Denied, Requirements
<1> QED BY <1>1, <1>4, <1>5, <1>6, <1>7

LEMMA OperateKeepsKeysHome ==
    ASSUME IInv, NEW o \in DOMAIN Operations, NEW name \in Names,
           NEW truth \in Truths, Operate(o, name, truth)
    PROVE  KeysStayHome'
<1> DEFINE p == Operations[o].product
<1>1. /\ o # "flush_other" /\ phase = "configured" /\ last'.op = o
      /\ Lacking(o) \/ Rejected(truth) \/ Answered(o, truth) \/ Denied(o, name, truth)
  BY OperateGoes
<1>2. p \in Products
  BY <1>1, OperationsAre
<1>3. Legible /\ buildClients
  BY <1>1, TypeMakesLegible DEF IInv, HandedInv
<1>4. Own(p)' = Own(p)
  BY DEF Operate, Own
<1>5. CASE last'.sent = NoClient
  BY <1>5 DEF KeysStayHome
<1>6. CASE last'.sent = BuiltClients[p] /\ BuiltClients[p] # NoClient
  <2>1. URL(p) # Empty
    BY <1>2, <1>6 DEF BuiltClients
  <2>2. /\ last'.sent = [url |-> URL(p), key |-> APIKey(p)]
        /\ \E place \in Places : URL(p) = Value(p, "url", place)
        /\ \E place \in Places : APIKey(p) = Value(IF Own(p) THEN p ELSE "auth", "key", place)
    BY <1>2, <1>3, <1>6, <2>1, ClientIs
  <2>3. /\ last'.sent.url \in {Value(p, "url", place) : place \in {"block", "env"}}
        /\ last'.sent.key \in {Value(IF Own(p) THEN p ELSE "auth", "key", place) :
                                 place \in {"block", "env"}}
    BY <2>2 DEF Places
  <2> QED BY <1>1, <1>4, <2>3 DEF KeysStayHome, Own
<1> QED BY <1>1, <1>5, <1>6 DEF Lacking, Rejected, Unsent, Answered, Denied, Sent

LEMMA OperateTellsTruth ==
    ASSUME IInv, NEW o \in DOMAIN Operations, NEW name \in Names,
           NEW truth \in Truths, Operate(o, name, truth)
    PROVE  OutcomeIsTrue'
<1> DEFINE op == Operations[o]
<1>1. /\ o # "flush_other" /\ truth \in op.truths /\ last'.op = o /\ last'.name = name /\ last'.truth = truth
      /\ Lacking(o) \/ Rejected(truth) \/ Answered(o, truth) \/ Denied(o, name, truth)
  BY OperateGoes
<1>2. /\ op.kind \in Kinds
      /\ "blank" \in op.truths => op.kind = "ephemeral"
      /\ "no_set" \in op.truths => o = "record" /\ op.kind = "data"
      /\ "unset" \in op.truths => op.kind = "data"
  BY <1>1, OperationsAre
<1>3. CASE Lacking(o) \/ Rejected(truth)
  BY <1>1, <1>2, <1>3 DEF OutcomeIsTrue, Lacking, Rejected, Unsent
<1>4. CASE Answered(o, truth)
  <2>1. truth \in {"there", "no_set", "unset", "blank"}
    BY <1>4 DEF Answered, Sent, Status, Truths
  <2> QED BY <1>1, <1>2, <1>4, <2>1 DEF OutcomeIsTrue, Answered, Sent, Judged
<1>5. CASE Denied(o, name, truth)
  <2>1. truth \notin {"there", "unset"}
    BY <1>5 DEF Denied, Status
  <2> QED BY <1>1, <1>5, <2>1 DEF OutcomeIsTrue, Denied
<1> QED BY <1>1, <1>3, <1>4, <1>5

LEMMA OperateTellsCause ==
    ASSUME IInv, NEW o \in DOMAIN Operations, NEW name \in Names,
           NEW truth \in Truths, Operate(o, name, truth)
    PROVE  CauseIsTold'
<1> DEFINE op == Operations[o]
<1>1. /\ o # "flush_other" /\ truth \in op.truths /\ last'.op = o /\ last'.name = name /\ last'.truth = truth
      /\ Lacking(o) \/ Rejected(truth) \/ Answered(o, truth) \/ Denied(o, name, truth)
  BY OperateGoes
<1>2. /\ op.product \in Products
      /\ "limited" \in op.truths /\ op.product = "auth" => "views" \in op.path \/ "networks" \in op.path
      /\ "limited" \in op.truths /\ op.product = "dnsdist" => "cache" \in op.path \/ op.method = "PUT"
      /\ "absent" \in op.truths => op.product # "dnsdist"
  BY <1>1, OperationsAre
<1>p. /\ "views" \in op.path => "views" \in Path(op, name)
      /\ "networks" \in op.path => "networks" \in Path(op, name)
      /\ "cache" \in op.path <=> "cache" \in Path(op, name)
      /\ \A segment \in Path(op, name) : segment \in op.path \/ segment = name
  BY PathIs DEF Names
<1>3. CASE Lacking(o) \/ Rejected(truth)
  BY <1>3 DEF CauseIsTold, Lacking, Rejected, Unsent
<1>4. CASE Answered(o, truth)
  <2>1. truth # "limited"
    BY <1>4 DEF Answered, Status
  <2>2. last'.told \notin Requirements
    <3>1. last'.told \in {"", "other"}
      BY <1>4, JudgedIs DEF Answered
    <3> QED BY <3>1 DEF Requirements
  <2> QED BY <1>1, <2>1, <2>2 DEF CauseIsTold
<1>5. CASE Denied(o, name, truth)
  <2>1. truth = "limited" => last'.told = Requirement(op)
    <3>. SUFFICES ASSUME truth = "limited" PROVE last'.told = Requirement(op)
      OBVIOUS
    <3>1. CASE op.product = "auth"
      <4>1. Path(op, name) \cap {"views", "networks"} # {}
        BY <1>1, <1>2, <1>p, <3>1
      <4>2. Status(op, truth) = 422
        BY <3>1 DEF Status
      <4>. QED  BY <1>5, <3>1, <4>1, <4>2 DEF Denied, Requirement, classify, classifyAuth
    <3>2. CASE op.product = "recursor"
      BY <1>5, <3>2 DEF Denied, Status, NamesDir, Requirement, classify, classifyRecursor
    <3>3. CASE op.product = "dnsdist"
      BY <1>1, <1>2, <1>5, <1>p, <3>3 DEF Denied, Status, Requirement, classify, classifyDNSDist
    <3> QED BY <1>2, <3>1, <3>2, <3>3 DEF Products
  <2>2. last'.told \in Requirements => truth = "limited" \/ Mistakable'
    <3>1. CASE op.product = "auth"
      <4>1. CASE Status(op, truth) = 422 /\ Path(op, name) \cap {"views", "networks"} # {}
        <5>1. truth \in {"limited", "refused"}
          BY <1>5, <3>1, <4>1 DEF Status, Truths, Denied, Sent
        <5>2. op.path \cap {"views", "networks"} # {} \/ name # "plain"
          BY <1>p, <4>1
        <5> QED BY <1>1, <3>1, <5>1, <5>2 DEF Mistakable
      <4>2. CASE ~ (Status(op, truth) = 422 /\ Path(op, name) \cap {"views", "networks"} # {})
        <5>1. last'.told = "other"
          BY <1>5, <3>1, <4>2 DEF Denied, classify, classifyAuth
        <5> QED BY <5>1 DEF Requirements
      <4> QED BY <4>1, <4>2
    <3>2. CASE op.product = "recursor"
      <4>1. truth # "limited" => last'.told = "other"
        BY <1>5, <3>2 DEF Denied, classify, classifyRecursor, NamesDir
      <4> QED BY <4>1 DEF Requirements
    <3>3. CASE op.product = "dnsdist"
      <4>1. truth # "limited" => Status(op, truth) \notin {404, 405}
        BY <1>1, <1>2, <1>5, <3>3 DEF Status, Truths, Denied, Sent
      <4>2. truth # "limited" => last'.told = "other"
        BY <1>5, <3>3, <4>1 DEF Denied, classify, classifyDNSDist
      <4> QED BY <4>2 DEF Requirements
    <3> QED BY <1>2, <3>1, <3>2, <3>3 DEF Products
  <2> QED BY <1>1, <2>1, <2>2 DEF CauseIsTold
<1> QED BY <1>1, <1>3, <1>4, <1>5

Outcomes == BundleArrives /\ KeysStayHome /\ OutcomeIsTrue /\ CauseIsTold

LEMMA NoOperationNoOutcome == ~ Operated => Outcomes
BY DEF Outcomes, BundleArrives, KeysStayHome, OutcomeIsTrue, CauseIsTold

LEMMA FlushOtherOutcomes == ASSUME FlushOther PROVE Outcomes'
<1>1. last' = [op |-> "flush_other", name |-> "plain", truth |-> "there", sent |-> NoClient,
               verdict |-> "error", told |-> "other"]
  BY DEF FlushOther, Report, Error
<1> QED BY <1>1 DEF Outcomes, BundleArrives, KeysStayHome, OutcomeIsTrue, CauseIsTold

LEMMA NextOutcomes == ASSUME IInv, Outcomes, [Next]_vars PROVE Outcomes'
<1>1. ASSUME Start \/ Configure \/ CallFunctions \/ Restart PROVE ~ Operated'
  <2>1. CASE CallFunctions
    <3>1. last'.op = "names"
      BY <2>1 DEF CallFunctions
    <3> QED BY <3>1, IdleIsNone DEF Operated
  <2>2. CASE Start \/ Configure \/ Restart
    <3>1. last' = Idle
      BY <2>2 DEF Start, Configure, Restart
    <3> QED BY <3>1, IdleIsNone DEF Operated, Idle
  <2> QED BY <1>1, <2>1, <2>2
<1>2. ASSUME NEW o \in DOMAIN Operations, NEW name \in Names,
           NEW truth \in Truths, Operate(o, name, truth)
      PROVE  Outcomes'
  BY <1>2, OperateFindsBundle, OperateKeepsKeysHome, OperateTellsTruth, OperateTellsCause
  DEF Outcomes
<1>3. CASE FlushOther
  BY <1>3, FlushOtherOutcomes
<1>4. ~ Operated' => Outcomes'
  BY DEF Outcomes, BundleArrives, KeysStayHome, OutcomeIsTrue, CauseIsTold
<1>5. CASE UNCHANGED vars
  BY <1>5 DEF vars, Outcomes, BundleArrives, KeysStayHome, OutcomeIsTrue, CauseIsTold, Operated,
             URL, Mistakable
<1> QED BY <1>1, <1>2, <1>3, <1>4, <1>5 DEF Next

LEMMA Invariance == Spec => [](IInv /\ Outcomes)
<1>1. Init => IInv /\ Outcomes
  <2>1. ASSUME Init PROVE ~ Operated
    <3>1. last = Idle
      BY <2>1 DEF Init
    <3> QED BY <3>1, IdleIsNone DEF Operated, Idle
  <2> QED BY <2>1, InitEstablishes, NoOperationNoOutcome
<1>2. IInv /\ Outcomes /\ [Next]_vars => (IInv /\ Outcomes)'
  BY NextKeeps, NextOutcomes
<1> QED BY <1>1, <1>2, PTL DEF Spec

\* Whatever blocks and environments the provider is configured with, the
\* clients handed out are complete and well-formed.
THEOREM TypeCorrect == Spec => []TypeOK
<1>1. IInv /\ Outcomes => TypeOK
  BY DEF IInv
<1> QED BY <1>1, Invariance, PTL

\* After every successful Configure, every kind of component has its clients.
THEOREM EveryKindHasItsBundle == Spec => []BundleArrives
<1>1. IInv /\ Outcomes => BundleArrives
  BY DEF Outcomes
<1> QED BY <1>1, Invariance, PTL

\* For all blocks and environments, a key reaches only the server it is meant for.
THEOREM KeysAreKept == Spec => []KeysStayHome
<1>1. IInv /\ Outcomes => KeysStayHome
  BY DEF Outcomes
<1> QED BY <1>1, Invariance, PTL

\* A value or a success is reported exactly when it is one.
THEOREM OutcomesAreTrue == Spec => []OutcomeIsTrue
<1>1. IInv /\ Outcomes => OutcomeIsTrue
  BY DEF Outcomes
<1> QED BY <1>1, Invariance, PTL

\* A missing setting of the server is named exactly when it is the cause.
THEOREM CausesAreTold == Spec => []CauseIsTold
<1>1. IInv /\ Outcomes => CauseIsTold
  BY DEF Outcomes
<1> QED BY <1>1, Invariance, PTL

-----------------------------------------------------------------------------
(***************************************************************************)
(* The functions.                                                          *)
(***************************************************************************)

\* What a call of the functions leaves behind.
NamesInv ==
    last.op = "names" =>
        /\ last.prefix \in Prefixes /\ last.address \in Addresses
        /\ last.zone = fqdn(reverseZoneName(last.prefix))
        /\ last.name = fqdn(ptrName(last.address))

LEMMA IdleIsNoName == Idle.op # "names"
BY DEF Idle

LEMMA NextNames == ASSUME NamesInv, [Next]_vars PROVE NamesInv'
<1>1. CASE CallFunctions
  BY <1>1, CallsAssumption DEF CallFunctions, NamesInv
<1>2. ASSUME NEW o \in DOMAIN Operations, NEW name \in Names,
           NEW truth \in Truths, Operate(o, name, truth)
      PROVE  last'.op = o
  <2>1. ASSUME NEW sent, NEW result, Report(o, name, truth, sent, result)
        PROVE  last'.op = o
    BY <2>1 DEF Report
  <2> DEFINE op == Operations[o]
             bundle == handed[op.kind]
             outcome == IF Status(op, truth) = 200 THEN Judged(o, truth)
                        ELSE Error(classify(op, Path(op, name), Status(op, truth), NamesDir(op, truth)))
  <2>2. \/ Report(o, name, truth, NoClient, Error(Require(bundle, op.product)))
        \/ Report(o, name, truth, NoClient, Error("other"))
        \/ Report(o, name, truth, bundle[op.product], outcome)
    BY <1>2 DEF Operate
  <2> QED BY <2>1, <2>2
<1>3. CASE FlushOther
  BY <1>3 DEF FlushOther, Report, NamesInv
<1>4. CASE Start \/ Configure \/ Restart
  <2>1. last' = Idle
    BY <1>4 DEF Start, Configure, Restart
  <2> QED BY <2>1, IdleIsNoName DEF NamesInv
<1>5. CASE UNCHANGED vars
  BY <1>5 DEF vars, NamesInv
<1>6. ASSUME NEW o \in DOMAIN Operations, NEW name \in Names,
           NEW truth \in Truths, Operate(o, name, truth)
      PROVE  NamesInv'
  BY <1>2, <1>6, IdleIsNone DEF NamesInv
<1> QED BY <1>1, <1>3, <1>4, <1>5, <1>6 DEF Next

LEMMA NamesInvSuffices == NamesInv => ReverseZoneHoldsPtr
<1> SUFFICES ASSUME NamesInv, last.op = "names" PROVE ReverseZoneHoldsPtr
  BY DEF ReverseZoneHoldsPtr
<1> DEFINE p == last.prefix
           a == last.address
<1>1. /\ p \in Prefixes /\ a \in Addresses
      /\ last.zone = fqdn(reverseZoneName(p)) /\ last.name = fqdn(ptrName(a))
  BY DEF NamesInv
<1>2. CASE p.bits % Width[p.family] # 0
  <2>1. reverseZoneName(p) = Refused
    BY <1>2 DEF reverseZoneName
  <2>2. last.zone = Refused
    BY <1>1, <2>1 DEF fqdn, Refused
  <2> QED BY <1>2, <2>2 DEF ReverseZoneHoldsPtr
<1>3. CASE p.bits % Width[p.family] = 0
  <2>1. p.bits \div Width[p.family] \in 0 .. Units[p.family]
    BY <1>1, <1>3, Boundary
  <2>2. last.zone.dot = TRUE
    BY <1>1, <1>3, <2>1, ZoneLabels
  <2>3. last.name.dot = TRUE
    BY <1>1, NameLabels
  <2>4. last.zone # Refused
    BY <2>2 DEF Refused
  <2>5. IsUnder(last.name, last.zone) <=> Contains(p, a)
    BY <1>1, <1>3, ReverseZonesAgree
  <2> QED BY <2>2, <2>3, <2>4, <2>5 DEF ReverseZoneHoldsPtr, is_fqdn
<1> QED BY <1>2, <1>3

\* For every prefix and every address the functions are called with, the PTR
\* name lies under the reverse zone exactly if the address is in the prefix.
THEOREM NamesAgree == Spec => []ReverseZoneHoldsPtr
<1>1. Init => NamesInv
  BY IdleIsNoName DEF Init, NamesInv
<1>2. NamesInv /\ [Next]_vars => NamesInv'
  BY NextNames
<1> QED BY <1>1, <1>2, NamesInvSuffices, PTL DEF Spec
=============================================================================
