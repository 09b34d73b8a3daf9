------------------------------- MODULE MCZone -------------------------------
(***************************************************************************)
(* Zone for TLC: one account and one parameter to set and to clear, one    *)
(* list of nameservers to ask for or not, and two kinds.                   *)
(***************************************************************************)
EXTENDS Zone, FiniteSets

\* The attributes that a block sets beside its kind.
Mentioned(b) ==
    {a \in {"account", "dnssec", "param"} : b[a] \notin {"null", "unset"}}
    \cup {a \in {"nameservers"} : b[a] # ""}

\* Two attributes at a time, and with the second kind one.
MCOffered == {b \in Blocks : Cardinality(Mentioned(b)) <= IF b.kind = "Native" THEN 2 ELSE 1}
=============================================================================
