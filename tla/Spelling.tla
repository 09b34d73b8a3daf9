------------------------------ MODULE Spelling ------------------------------
(***************************************************************************)
(* One resource whose texts have several spellings: what the operator      *)
(* writes, what the server stores of it, what the state keeps of either,   *)
(* and what the plan modifiers make of the difference.  Every resource of  *)
(* the provider that compares texts is a subject; a behaviour is about one *)
(* of them.  A block is a key, which the object is addressed by, a label   *)
(* and a list; the server takes or refuses every request at once.          *)
(***************************************************************************)
EXTENDS Compare

CONSTANTS
    None,       \* no block, no state
    Subjects,   \* the resources looked at
    Blocks,     \* Blocks[s]: the blocks a configuration may hold of subject s
    Plain       \* a text with one spelling, and the label of what has none

VARIABLES
    subject,    \* the resource this behaviour is about; it never changes
    config,     \* the block, or None
    state,      \* what Terraform remembers, or None
    server,     \* the objects at the server
    step        \* what happened last

vars == <<subject, config, state, server, step>>

-----------------------------------------------------------------------------
(***************************************************************************)
(* What the subjects differ in: how each part of the key, the label and    *)
(* the list are compared.  "name" and "target" are DNS names, the latter   *)
(* sent as written, and a text that is "ordered" or "exact" is itself.     *)
(*                                                                         *)
(* <<>> is null, a list that is not given; one that is given has members   *)
(* here.  What becomes of an explicit [] is told in Zone and Keyed.        *)
(***************************************************************************)

Schema ==
    [zone           |-> [parts |-> <<"name">>, label |-> "kind", list |-> "address"],
     recursor_zone  |-> [parts |-> <<"name">>, label |-> "kind", list |-> "upstream"],
     address_record |-> [parts |-> <<"name", "name">>, label |-> "exact", list |-> "A"],
     target_record  |-> [parts |-> <<"name", "name">>, label |-> "exact", list |-> "CNAME"],
     text_record    |-> [parts |-> <<"name", "name">>, label |-> "exact", list |-> "TXT"],
     metadata       |-> [parts |-> <<"name">>, label |-> "exact", list |-> "ordered"],
     view_zone      |-> [parts |-> <<"name">>, label |-> "exact", list |-> "exact"],
     network        |-> [parts |-> <<"network">>, label |-> "exact", list |-> "exact"],
     autoprimary    |-> [parts |-> <<"address", "target">>, label |-> "exact", list |-> "exact"],
     tsigkey        |-> [parts |-> <<"tsig">>, label |-> "exact", list |-> "exact"],
     acl            |-> [parts |-> <<>>, label |-> "exact", list |-> "network"]]

\* The marks that are spellings of a text of this sort; any other mark makes
\* it another text.  The dot that a name ends in is not written after an
\* address: UpstreamServerKey takes it off all the same, the server does not.
Spelled(sort, t) ==
    CASE sort = "kind" -> t.as \subseteq {"upper", "title"}
      [] sort \in {"name", "target", "tsig", "CNAME"} -> t.as \subseteq {"upper", "title", "dot", "dots"}
      [] sort = "upstream" ->
            t.as \subseteq IF t.value \in Addresses
                         THEN {"long", "upper", "dots", "brackets"}
                         ELSE {"upper", "title", "dot", "dots", "brackets"}
      [] OTHER -> TRUE

Keys(s) == [DOMAIN Schema[s].parts -> Texts]
Objects(s) == [key : Keys(s), label : Texts, list : Seq(Texts)]
Remembered(s) == [id : Keys(s), key : Keys(s), label : Texts, list : Seq(Texts), identity : Keys(s)]

ASSUME SubjectsAssumption == Subjects \subseteq DOMAIN Schema
ASSUME BlocksAssumption ==
    \A s \in Subjects :
        /\ None \notin Blocks[s] /\ None \notin Remembered(s)
        /\ \A b \in Blocks[s] :
            /\ b \in Objects(s)
            /\ \A i \in DOMAIN b.key : Spelled(Schema[s].parts[i], b.key[i])
            /\ Spelled(Schema[s].label, b.label)
            /\ \A i \in DOMAIN b.list : Spelled(Schema[s].list, b.list[i])

Records == {"address_record", "target_record", "text_record"}
ServerNamed == {"zone", "recursor_zone", "tsigkey"}         \* id taken from the answer
Canonicalised == Records \cup {"zone", "recursor_zone", "metadata", "view_zone"}

KeyOf(sort, t) ==
    CASE sort = "kind" -> ZoneKindKey(t)
      [] sort \in {"name", "target"} -> DNSNameKey(t)
      [] sort = "tsig" -> TSIGKeyIDKey(t)
      [] sort = "address" -> IPAddressKey(t)
      [] sort = "upstream" -> UpstreamServerKey(t)
      [] sort = "network" -> CIDRKey(t)
      [] sort \in {"exact", "ordered"} -> t
      [] OTHER -> RecordContentKey(sort, t)

Parts == Schema[subject].parts
EachPart(Op(_, _), key) == [i \in DOMAIN Parts |-> Op(Parts[i], key[i])]

-----------------------------------------------------------------------------
(***************************************************************************)
(* The server: which texts it takes, how it stores them, and which object  *)
(* a path of a request means.                                              *)
(***************************************************************************)

Accepts(sort, t) ==
    CASE sort \in {"name", "target", "tsig", "CNAME"} -> "dots" \notin t.as
      [] sort \in {"address", "A"} -> IsAddress(t)
      [] sort = "upstream" -> ~ NoUpstream(t) /\ (t.value \in Addresses => "dot" \notin t.as)
      [] sort = "network" -> IsNetwork(t)
      [] OTHER -> TRUE

Stored(sort, t) ==
    CASE sort \in {"name", "target", "tsig", "CNAME"} -> [t EXCEPT !.as = {"dot"}]
      [] sort = "kind" -> [t EXCEPT !.as = {"title"}]
      [] sort = "upstream" -> [t EXCEPT !.as = {}, !.port = IF @ = "none" THEN "53" ELSE @]
      [] sort \in {"address", "A", "network"} -> [t EXCEPT !.as = {}]
      [] OTHER -> t

\* A name in a request ends in a dot.
Readable(sort, t) == Accepts(sort, t) /\ (sort = "name" => "dot" \in t.as)

Means(path, o) ==
    \A i \in DOMAIN Parts : Readable(Parts[i], path[i]) /\ Stored(Parts[i], path[i]) = o.key[i]

AcceptsRequest(key, label, list) ==
    /\ \A i \in DOMAIN Parts : Readable(Parts[i], key[i])
    /\ Accepts(Schema[subject].label, label)
    /\ \A t \in ToSet(list) : Accepts(Schema[subject].list, t)

\* Values without order may come back in another one.
StoredLists(list) ==
    LET each == [i \in DOMAIN list |-> Stored(Schema[subject].list, list[i])]
    IN  IF Schema[subject].list = "ordered" THEN {each} ELSE {each, Reverse(each)}

StoredObjects(key, label, list) ==
    {[key |-> EachPart(Stored, key), label |-> Stored(Schema[subject].label, label), list |-> l] :
        l \in StoredLists(list)}

Put(objects, o) == {p \in objects : p.key # o.key} \cup {o}

-----------------------------------------------------------------------------
(***************************************************************************)
(* What the plan modifiers make of a value of the block when the state     *)
(* holds another one.                                                      *)
(***************************************************************************)

semanticString(sort, configured, held) ==
    IF KeyOf(sort, configured) = KeyOf(sort, held) THEN held ELSE configured

\* Both lists have to be given, not null, before their members are compared.
semanticSet(sort, configured, held) ==
    LET keys(list) == [i \in DOMAIN list |-> KeyOf(sort, list[i])]
    IN  IF /\ configured # <<>> /\ held # <<>> /\ sort # "ordered"
           /\ StringMultiset(keys(configured), keys(held))
        THEN held
        ELSE configured

Planned ==
    [key   |-> [i \in DOMAIN Parts |-> semanticString(Parts[i], config.key[i], state.key[i])],
     label |-> semanticString(Schema[subject].label, config.label, state.label),
     list  |-> semanticSet(Schema[subject].list, config.list, state.list)]

-----------------------------------------------------------------------------
(***************************************************************************)
(* The handlers.                                                           *)
(***************************************************************************)

\* A key as requests carry it.
Sent(key) ==
    IF subject \in Canonicalised THEN [i \in DOMAIN key |-> canonicalName(key[i])] ELSE key

Path(remembered) ==
    IF subject \in ServerNamed THEN remembered.id ELSE Sent(remembered.key)

\* Seeded fault: the id is left to the next refresh.
CreatedIdLater(key) == IF subject \in ServerNamed THEN <<>> ELSE key
CreatedId(key) == IF subject \in ServerNamed THEN EachPart(Stored, key) ELSE key

\* Create.  What is written is remembered as planned; a POST needs a free key.
CreateAmong(objects) ==
    LET key == Sent(config.key)
        id == CreatedId(key)
        taken == \E o \in objects : o.key = EachPart(Stored, key)
    IN  IF AcceptsRequest(key, config.label, config.list)
           /\ ~ (taken /\ subject \in ServerNamed \cup {"autoprimary"})
        THEN /\ \E o \in StoredObjects(key, config.label, config.list) : server' = Put(objects, o)
             /\ state' = [id |-> id, key |-> config.key, label |-> config.label,
                          list |-> config.list, identity |-> id]
        ELSE server' = objects /\ state' = None

Create ==
    /\ state = None /\ config # None
    /\ CreateAmong(server)
    /\ step' = IF state' = None THEN "failed" ELSE "create"
    /\ UNCHANGED <<subject, config>>

\* Update: zones are changed where they are, the others written again.
Update ==
    /\ state # None /\ config # None
    /\ Planned.key = state.key
    /\ Planned.label # state.label \/ Planned.list # state.list
    /\ LET key == Path(state)
           exists == \E o \in server : Means(key, o)
       IN  IF AcceptsRequest(key, Planned.label, Planned.list)
              /\ (subject \in {"zone", "recursor_zone"} => exists)
           THEN /\ \E o \in StoredObjects(key, Planned.label, Planned.list) : server' = Put(server, o)
                /\ state' = [state EXCEPT !.label = Planned.label, !.list = Planned.list]
                /\ step' = "update"
           ELSE step' = "failed" /\ UNCHANGED <<state, server>>
    /\ UNCHANGED <<subject, config>>

\* Delete.
Left == {o \in server : ~ Means(Path(state), o)}

Delete ==
    /\ state # None /\ config = None
    /\ server' = Left /\ state' = None
    /\ step' = "delete"
    /\ UNCHANGED <<subject, config>>

\* A new key: Delete, then Create from the block alone.
Replace ==
    /\ state # None /\ config # None
    /\ Planned.key # state.key
    /\ CreateAmong(Left)
    /\ step' = IF state' = None THEN "failed" ELSE "replace"
    /\ UNCHANGED <<subject, config>>

Nothing ==
    /\ IF state = None \/ config = None
       THEN state = config
       ELSE \A part \in {"key", "label", "list"} : Planned[part] = state[part]
    /\ step' = "nothing"
    /\ UNCHANGED <<subject, config, state, server>>

Found(remembered, o) ==
    LET same(i) == KeyOf(Parts[i], remembered.key[i]) = KeyOf(Parts[i], o.key[i])
    IN  CASE subject \in {"view_zone", "autoprimary"} -> \A i \in DOMAIN Parts : same(i)
          [] subject \in Records ->
                /\ Readable("name", Path(remembered)[1])
                /\ Stored("name", Path(remembered)[1]) = o.key[1]
                /\ same(2)
          [] subject = "tsigkey" -> remembered.id = o.key
          [] OTHER -> Means(Path(remembered), o)

\* Seeded fault: the identity is what the server calls the object.
IdentityServers(remembered, o) == o.key
Identity(remembered, o) ==
    CASE subject \in {"tsigkey", "autoprimary"} -> o.key
      [] subject \in {"zone", "recursor_zone"} -> remembered.id
      [] OTHER -> Sent(remembered.key)

\* Read: the key stays as it was remembered, the rest is the server's.
ReadInto(remembered) ==
    IF \E o \in server : Found(remembered, o)
    THEN LET o == CHOOSE p \in server : Found(remembered, p)
         IN  state' = [remembered EXCEPT !.label = o.label, !.list = o.list,
                                         !.identity = Identity(remembered, o)]
    ELSE state' = None

Refresh ==
    /\ state # None
    /\ ReadInto(state)
    /\ step' = "refresh"
    /\ UNCHANGED <<subject, config, server>>

Meaning(sort, t) == IF Accepts(sort, t) THEN Stored(sort, t) ELSE t

\* The id of a TSIG key is looked for as it is, so its case has to be right.
Importable(key) ==
    /\ EachPart(Meaning, key) = EachPart(Meaning, config.key)
    /\ subject = "tsigkey" => \A i \in DOMAIN key : key[i].as \cap {"upper", "title"} = {}

\* ImportState and the Read behind it, for the object the block describes.
Import ==
    /\ state = None /\ config # None
    /\ \E asked \in {b.key : b \in Blocks[subject]} :
        /\ Importable(asked)
        /\ LET id == IF subject = "tsigkey" THEN [i \in DOMAIN asked |-> canonicalName(asked[i])]
                     ELSE Sent(asked)
           IN  ReadInto([id |-> id, key |-> IF subject = "tsigkey" THEN asked ELSE id,
                         label |-> Plain, list |-> <<>>, identity |-> id])
    /\ step' = IF state' = None THEN "missing" ELSE "import"
    /\ UNCHANGED <<subject, config, server>>

-----------------------------------------------------------------------------

\* An ACL always has a value and its block is not taken away here.
Edit ==
    /\ config' \in Blocks[subject] \cup (IF subject = "acl" THEN {} ELSE {None})
    /\ step' = "changed"
    /\ UNCHANGED <<subject, state, server>>

Outside ==
    /\ \/ \E b \in Blocks[subject] :
            /\ AcceptsRequest(Sent(b.key), b.label, b.list)
            /\ \E o \in StoredObjects(b.key, b.label, b.list) : server' = Put(server, o)
       \/ subject # "acl" /\ \E o \in server : server' = server \ {o}
    /\ step' = "changed"
    /\ UNCHANGED <<subject, config, state>>

Init ==
    /\ subject \in Subjects
    /\ config \in Blocks[subject]
    /\ state = None /\ server = {} /\ step = "start"

Next ==
    \/ Edit \/ Outside \/ Refresh \/ Import
    \/ Create \/ Update \/ Replace \/ Delete \/ Nothing

Spec == Init /\ [][Next]_vars

-----------------------------------------------------------------------------
(***************************************************************************)
(* What a block, a state and an object at the server mean.                 *)
(***************************************************************************)

Object(b) ==
    LET sort == Schema[subject].list
        each == [i \in DOMAIN b.list |-> Meaning(sort, b.list[i])]
    IN  [of   |-> subject,
         key  |-> EachPart(Meaning, b.key),
         body |-> [label |-> Meaning(Schema[subject].label, b.label),
                   list  |-> IF sort = "ordered" THEN each ELSE ToBag(each)]]

NoObject == [of |-> "nothing", key |-> <<>>, body |-> <<>>]
ObjectOrNone(b) == IF b = None THEN NoObject ELSE Object(b)

Acceptable(o) ==
    LET schema == Schema[o.of]
    IN  /\ \A i \in DOMAIN schema.parts : Accepts(schema.parts[i], o.key[i])
        /\ Accepts(schema.label, o.body.label)
        /\ schema.list # "ordered" => \A t \in DOMAIN o.body.list : Accepts(schema.list, t)

Meanings ==
    INSTANCE Managed WITH
        None <- NoObject,
        config <- ObjectOrNone(config),
        state <- ObjectOrNone(state),
        server <- {Object(o) : o \in server}

-----------------------------------------------------------------------------
(***************************************************************************)
(* Properties.                                                             *)
(***************************************************************************)

\* Every variable has its type and the objects at the server have different
\* keys.
TypeOK ==
    /\ subject \in Subjects
    /\ config \in Blocks[subject] \cup {None}
    /\ state \in Remembered(subject) \cup {None}
    /\ server \subseteq Objects(subject)
    /\ \A o \in server : \A p \in server : o.key = p.key => o = p

\* Whatever the spellings, Terraform does what the meanings call for: a
\* respelling plans nothing and a change is never taken for one, an object is
\* found again under every spelling it was created or imported with, and a
\* key spelled anew never replaces an object (docs/contract.md, section 4.1).
ImplementsManaged == Meanings!Spec

\* An object keeps its identity as long as it is the same object, whatever
\* the block and the server call it (identity.go, the file comment).  The
\* identity of an autoprimary is not looked at: Read takes the server's
\* spelling where Create took the block's.
IdentityStable ==
    [][ (state # None /\ state' # None /\ step' # "replace" /\ subject # "autoprimary")
        => state'.identity = state.identity ]_vars
=============================================================================
