----------------------------- MODULE MCSpelling -----------------------------
(***************************************************************************)
(* Spelling for TLC: for every subject blocks that differ in the spelling  *)
(* of the key, and blocks that differ in the rest, invalid texts and real  *)
(* changes included.  Lists of one or two texts are compared without a     *)
(* map, lists of three with one.                                           *)
(***************************************************************************)
EXTENDS Spelling

Text(value, as) == [value |-> value, port |-> "none", as |-> as]
OnPort(t, port) == [t EXCEPT !.port = port]
MCPlain == Text("plain", {})

Example == Text("example", {})
EXAMPLE == Text("example", {"upper", "dot"})
Other == Text("other", {"dot"})
Names == {Example, EXAMPLE, Text("example", {"upper"}), Text("example", {"dots"}), Other}
Nets == {Text("net", {}), Text("net", {"long", "hostbits"}), Text("net", {"brackets"}), Text("net2", {})}

\* Two texts, the first in two spellings: alone, as a pair both ways round,
\* and with one of them twice.
ListsOf(a, a2, b) == {<<a>>, <<a2>>, <<a, b>>, <<b, a2>>, <<a, a>>, <<a, a2, b>>, <<a, b, b>>}
Singles(texts) == {<<t>> : t \in texts}

One == Text("one", {})
ONE == Text("one", {"long"})
Two == Text("two", {})
Host == Text("host", {})
HOST == Text("host", {"dot", "upper"})

ContentOf(s) ==
    CASE s = "zone" -> {<<One>>, <<ONE, Two>>, <<Two, One>>}
      [] s = "recursor_zone" ->
            Singles({One, OnPort(ONE, "53"), OnPort(One, "5353"), Text("one", {"brackets"}),
                     Text("host", {"dot"}), Text("host", {"upper"})})
            \cup {<<>>}
      [] s = "address_record" -> ListsOf(One, ONE, Two)
      [] s = "target_record" -> {<<Host>>, <<HOST>>, <<Other>>, <<Text("host", {"dots"})>>, <<Other, Host>>}
      [] s = "text_record" -> {<<Host>>, <<Text("host", {"upper"})>>, <<Host, Other>>, <<Other, Host>>}
      [] s = "metadata" -> {<<Host>>, <<HOST>>, <<Host, Other>>, <<Other, Host>>}
      [] s = "acl" ->
            {<<Text("net", {}), Text("net2", {})>>, <<Text("net2", {}), Text("net", {"long", "hostbits"})>>}
            \cup Singles(Nets)
      [] OTHER -> {<<>>}

LabelsOf(s) ==
    CASE s \in {"zone", "recursor_zone"} ->
            {Text("native", {}), Text("native", {"upper"}), Text("slave", {"title"})}
      [] s = "network" -> {Text("view", {}), Text("view2", {})}
      [] OTHER -> {MCPlain}

KeysOf(s) ==
    CASE s \in {"zone", "recursor_zone", "metadata", "view_zone", "tsigkey"} -> Singles(Names)
      [] s \in Records -> {<<Example, Host>>, <<Example, HOST>>, <<EXAMPLE, HOST>>, <<Example, Other>>}
      [] s = "network" -> Singles(Nets)
      [] s = "autoprimary" -> {<<One, Host>>, <<ONE, HOST>>, <<Two, Host>>, <<Text("one", {"dot"}), Host>>}
      [] OTHER -> {<<>>}

\* One key with everything it can hold, and every key with one thing to hold.
MCBlocks ==
    [s \in Subjects |->
        LET key == CHOOSE k \in KeysOf(s) : \A i \in DOMAIN k : k[i].as = {}
            label == CHOOSE l \in LabelsOf(s) : l.as = {}
            list == CHOOSE l \in ContentOf(s) : \A i \in DOMAIN l : l[i].as = {} /\ l[i].port = "none"
        IN  [key : {key}, label : {label}, list : ContentOf(s)]
            \cup [key : {key}, label : LabelsOf(s), list : {list}]
            \cup [key : KeysOf(s), label : {label}, list : {list}]]
=============================================================================
