--------------------------- MODULE NameFunctions ---------------------------
(***************************************************************************)
(* The provider functions: reverse zones, PTR names and SOA serials, which *)
(* are computed without a server.                                          *)
(*                                                                         *)
(* An address is its family and its units, most significant first: four    *)
(* octets or thirty-two nibbles, each of which becomes one label of a      *)
(* name.  An IPv4-mapped address is one of family v6.  A name is its       *)
(* labels, the tree they hang from, and whether it ends in a dot.          *)
(***************************************************************************)
EXTENDS Integers, Sequences

Families == {"v4", "v6"}
Units == [v4 |-> 4, v6 |-> 32]
Width == [v4 |-> 8, v6 |-> 4]       \* the bits of a unit
Base == [v4 |-> 256, v6 |-> 16]     \* the values of a unit
Suffix == [v4 |-> "in-addr.arpa", v6 |-> "ip6.arpa"]

Address(f) == [family : {f}, units : [1 .. Units[f] -> 0 .. Base[f] - 1]]
Addresses == Address("v4") \cup Address("v6")

\* A prefix: an address and how many of its bits count.
Prefix(f) ==
    [family : {f}, units : [1 .. Units[f] -> 0 .. Base[f] - 1], bits : 0 .. Units[f] * Width[f]]
Prefixes == Prefix("v4") \cup Prefix("v6")

\* The error of a function: there is no such name, there is no such serial.
Refused == [labels |-> <<>>, suffix |-> "none", dot |-> FALSE]
NoSerial == -1

-----------------------------------------------------------------------------
(***************************************************************************)
(* netip: the bits of an address that lie beyond a prefix are zero in the  *)
(* masked one, and an address is in the prefix if it masks to the same.    *)
(***************************************************************************)

Mask(f, units, bits) ==
    [i \in 1 .. Units[f] |->
        IF i * Width[f] <= bits THEN units[i]
        ELSE IF (i - 1) * Width[f] >= bits THEN 0
        ELSE units[i] - (units[i] % (2 ^ (i * Width[f] - bits)))]

Masked(p) == [p EXCEPT !.units = Mask(p.family, p.units, p.bits)]

Contains(p, a) ==
    a.family = p.family /\ Mask(p.family, a.units, p.bits) = Masked(p).units

-----------------------------------------------------------------------------

\* All thirty-two, of an IPv4-mapped address too.
hexNibbles(a) == a.units

\* Seeded fault: the empty list of labels leaves an empty label.
joinReverseLabelsNaive(labels, suffix) ==
    [labels |-> IF labels = <<>> THEN <<NoSerial>> ELSE labels, suffix |-> suffix, dot |-> TRUE]
joinReverseLabels(labels, suffix) == [labels |-> labels, suffix |-> suffix, dot |-> TRUE]

\* Least significant first, the first so many of them.
Backward(units, kept) == [i \in 1 .. kept |-> units[kept + 1 - i]]

reverseZoneName(p) ==
    LET units == IF p.family = "v4" THEN Masked(p).units ELSE hexNibbles(Masked(p))
    IN  IF p.bits % Width[p.family] # 0 THEN Refused
        ELSE joinReverseLabels(Backward(units, p.bits \div Width[p.family]), Suffix[p.family])

ptrName(a) ==
    LET units == IF a.family = "v4" THEN a.units ELSE hexNibbles(a)
    IN  joinReverseLabels(Backward(units, Len(units)), Suffix[a.family])

\* The name "" has no labels and no dot, and stays what it is.
fqdn(n) == IF n.labels = <<>> \/ n.dot THEN n ELSE [n EXCEPT !.dot = TRUE]

is_fqdn(n) == n.dot

-----------------------------------------------------------------------------

Leap(year) == year % 4 = 0 /\ (year % 100 # 0 \/ year % 400 = 0)

DaysIn(year, month) ==
    CASE month = 2 -> IF Leap(year) THEN 29 ELSE 28
      [] month \in {4, 6, 9, 11} -> 30
      [] OTHER -> 31

\* What time.Parse takes for a date.
IsDate(d) ==
    /\ d.year \in 0 .. 9999
    /\ d.month \in 1 .. 12
    /\ d.day \in 1 .. DaysIn(d.year, d.month)

Revisions == 0 .. 99

soaSerial(d, revision) ==
    IF ~ IsDate(d) \/ revision \notin Revisions THEN NoSerial
    ELSE ((d.year * 100 + d.month) * 100 + d.day) * 100 + revision

\* One date is before another, or the same with a smaller revision.
Before(d, r, e, s) ==
    \/ d.year < e.year
    \/ d.year = e.year /\ d.month < e.month
    \/ d.year = e.year /\ d.month = e.month /\ d.day < e.day
    \/ d = e /\ r < s

-----------------------------------------------------------------------------
(***************************************************************************)
(* What the functions have to agree on.                                    *)
(***************************************************************************)

\* The name lies at or below the zone.
IsUnder(name, zone) ==
    LET above == Len(name.labels) - Len(zone.labels)
    IN  /\ name.suffix = zone.suffix
        /\ above >= 0
        /\ \A i \in 1 .. Len(zone.labels) : name.labels[above + i] = zone.labels[i]
=============================================================================
