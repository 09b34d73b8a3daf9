------------------------------ MODULE Compare ------------------------------
(***************************************************************************)
(* The comparisons the provider makes between what a configuration says    *)
(* and what a server reports, and the spelling it puts a name in before it *)
(* sends one.                                                              *)
(*                                                                         *)
(* A text is what it denotes and how that is written: a port, when one is  *)
(* given, and marks.  "upper" and "title" stand for capitals, "dot" for    *)
(* one trailing dot and "dots" for more, "long" for an address with its    *)
(* zeros written out, "hostbits" for a network with bits beyond its        *)
(* prefix, "brackets" for brackets and colons that are no host and port.   *)
(* Two comparisons agree exactly if their keys do.                         *)
(***************************************************************************)
EXTENDS Naturals, FiniteSets, Sequences, SequencesExt

CONSTANTS
    Values,     \* what texts denote: addresses, networks and names
    Addresses,
    Networks,
    SmallLimit  \* the length up to which lists are compared without a map

ASSUME CompareAssumption ==
    /\ SmallLimit \in Nat
    /\ Addresses \subseteq Values /\ Networks \subseteq Values /\ Addresses \cap Networks = {}

Marks == {"upper", "title", "dot", "dots", "long", "hostbits", "brackets"}
Ports == {"none", "empty", "53", "5353"}
Texts == [value : Values, port : Ports, as : SUBSET Marks]

Without(t, marks) == [t EXCEPT !.as = @ \ marks]

-----------------------------------------------------------------------------
(***************************************************************************)
(* The canonical form of a text, one per way of comparing.  Each leaves    *)
(* what it cannot read as it is, so that it differs from everything else.  *)
(***************************************************************************)

foldKey(t) == Without(t, {"upper", "title"})

ZoneKindKey(t) == foldKey(t)

DNSNameKey(t) ==
    IF "dots" \in t.as THEN foldKey(t) ELSE Without(foldKey(t), {"dot"})

IsAddress(t) ==
    t.value \in Addresses /\ t.port = "none" /\ t.as \subseteq {"long", "upper"}

IPAddressKey(t) == IF IsAddress(t) THEN Without(t, {"long", "upper"}) ELSE t

\* No port and no host either, an empty host or port, or a host with more
\* than one trailing dot.
NoUpstream(t) == t.port = "empty" \/ t.as \cap {"brackets", "dots"} # {}

UpstreamHost(t) ==
    IF IsAddress([t EXCEPT !.port = "none"])
    THEN Without(t, {"long", "upper"})
    ELSE Without(t, {"upper", "title", "dot"})

UpstreamServerKey(t) ==
    IF NoUpstream(t) THEN t
    ELSE [UpstreamHost(t) EXCEPT !.port = IF @ = "none" THEN "53" ELSE @]

IsNetwork(t) == t.value \in Networks /\ t.as \subseteq {"long", "upper", "hostbits"}

CIDRKey(t) == IF IsNetwork(t) THEN Without(t, {"long", "upper", "hostbits"}) ELSE t

TSIGKeyIDKey(t) == DNSNameKey(t)

\* Addresses and targets have spellings, every other content is itself.
RecordContentKey(type, t) ==
    CASE type \in {"A", "AAAA"} -> IPAddressKey(t)
      [] type \in {"CNAME", "NS", "PTR", "DNAME"} -> DNSNameKey(t)
      [] OTHER -> t

-----------------------------------------------------------------------------
(***************************************************************************)
(* Lists of keys compared without regard to order, each entry as often as  *)
(* it occurs.                                                              *)
(***************************************************************************)

\* The entries of actual taken by the first i entries of configured, each
\* taking the first one that is its equal and still free.
smallStringMultiset(configured, actual) ==
    LET used[i \in 0 .. Len(configured)] ==
            IF i = 0 THEN {}
            ELSE LET free == {j \in DOMAIN actual \ used[i - 1] : actual[j] = configured[i]}
                 IN  used[i - 1] \cup (IF free = {} THEN {} ELSE {Min(free)})
    IN  Cardinality(used[Len(configured)]) = Len(configured)

\* Seeded fault: the counts are looked at and never used up.
countedStringMultisetSet(configured, actual) == ToSet(actual) \subseteq ToSet(configured)
countedStringMultiset(configured, actual) ==
    LET counts == [k \in ToSet(configured) |-> Cardinality({i \in DOMAIN configured : configured[i] = k})]
        before(j) == Cardinality({i \in 1 .. j - 1 : actual[i] = actual[j]})
    IN  \A j \in DOMAIN actual :
            actual[j] \in DOMAIN counts /\ before(j) < counts[actual[j]]

StringMultiset(configured, actual) ==
    /\ Len(configured) = Len(actual)
    /\ IF Len(configured) <= SmallLimit
       THEN smallStringMultiset(configured, actual)
       ELSE countedStringMultiset(configured, actual)

-----------------------------------------------------------------------------
(***************************************************************************)
(* The dot every stored name ends in.                                      *)
(***************************************************************************)

canonicalName(t) ==
    IF t.as \cap {"dot", "dots"} # {} THEN t ELSE [t EXCEPT !.as = @ \cup {"dot"}]
=============================================================================
