------------------------------ MODULE Provider ------------------------------
(***************************************************************************)
(* The provider as Terraform drives it: Configure turns the block and the  *)
(* environment into one client for each PowerDNS product, hands them to    *)
(* the four kinds of components, and each operation then takes the client  *)
(* of its product, sends one request and reports what became of it.        *)
(*                                                                         *)
(* A setting is a sequence: empty, the mark of a null or unknown value, or *)
(* the product, the argument and where it was given.  What PowerDNS makes  *)
(* of a request is chosen by what is the case at the server (truth).       *)
(***************************************************************************)
EXTENDS NameFunctions

CONSTANTS
    Blocks,         \* the provider blocks, by argument and product
    Environments,   \* the environments, likewise
    CallPrefixes, CallAddresses  \* arguments the functions are called with

VARIABLES
    block, env,     \* what the provider is to be configured with
    phase,          \* "new", "off", "configured" or "failed"
    handed,         \* handed[kind]: the clients components of a kind get
    last            \* the last operation and what it came to

vars == <<block, env, phase, handed, last>>

Products == {"auth", "recursor", "dnsdist"}
Kinds == {"resource", "data", "ephemeral", "action"}

Empty == <<>>
Null == <<"null">>
Unknown == <<"unknown">>
Value(p, argument, place) == <<p, argument, place>>

Given(p, argument) == {Empty, Null, Unknown, Value(p, argument, "block")}
Found(p, argument) == {Empty, Value(p, argument, "env")}
TLSFiles == {"none", "readable", "unreadable", "invalid", "half"}

ASSUME BlocksAssumption ==
    \A b \in Blocks :
        /\ \A p \in Products : b.url[p] \in Given(p, "url") /\ b.key[p] \in Given(p, "key")
        /\ b.tls \in TLSFiles
ASSUME EnvironmentsAssumption ==
    \A e \in Environments, p \in Products :
        e.url[p] \in Found(p, "url") /\ e.key[p] \in Found(p, "key")
ASSUME CallsAssumption == CallPrefixes \subseteq Prefixes /\ CallAddresses \subseteq Addresses

Settings(argument) == {Value(p, argument, place) : p \in Products, place \in {"block", "env"}}
Client == [url : Settings("url"), key : Settings("key")]
NoClient == [url |-> Empty, key |-> Empty]
Clients == [Products -> Client \cup {NoClient}]
Nothing == [p \in {} |-> NoClient]      \* no bundle at all

NoBlock ==
    [url |-> [p \in Products |-> Null], key |-> [p \in Products |-> Null], tls |-> "none"]
NoEnvironment == [url |-> [p \in Products |-> Empty], key |-> [p \in Products |-> Empty]]

-----------------------------------------------------------------------------
(***************************************************************************)
(* The operations: the kind of component, the product, the method and the  *)
(* path they use, and what may be the case at the server.  A path is the   *)
(* set of its segments; "{id}" is where a name of the operator's goes in.  *)
(***************************************************************************)

Op(kind, product, method, path, truths) ==
    [kind |-> kind, product |-> product, method |-> method, path |-> path,
     truths |-> truths \cup {"there", "denied", "down"}]

zoneDataSource == Op("data", "auth", "GET", {"zones", "{id}"}, {"absent"})
zonesDataSource == Op("data", "auth", "GET", {"zones"}, {})
recordDataSource == Op("data", "auth", "GET", {"zones", "{id}"}, {"absent", "no_set"})
zoneMetadataDataSource == Op("data", "auth", "GET", {"zones", "{id}", "metadata"}, {"absent", "unset", "reserved"})
zoneExportDataSource == Op("data", "auth", "GET", {"zones", "{id}", "export"}, {"absent"})
recursorZoneDataSource == Op("data", "recursor", "GET", {"zones", "{id}"}, {"absent"})
dnsdistServerDataSource == Op("data", "dnsdist", "GET", {"servers"}, {})
cryptoKeyMaterialEphemeral == Op("ephemeral", "auth", "GET", {"zones", "{id}", "cryptokeys"}, {"absent", "blank"})
tsigKeySecretEphemeral == Op("ephemeral", "auth", "GET", {"tsigkeys", "{id}"}, {"absent", "blank"})
notifyZoneAction == Op("action", "auth", "PUT", {"zones", "{id}", "notify"}, {"absent", "refused"})
axfrRetrieveAction == Op("action", "auth", "PUT", {"zones", "{id}", "axfr-retrieve"}, {"absent", "refused"})
rectifyZoneAction == Op("action", "auth", "PUT", {"zones", "{id}", "rectify"}, {"absent", "refused"})

\* flush_cache, for each product it may name, and for a name that is none.
flushAuth == Op("action", "auth", "PUT", {"cache"}, {"refused"})
flushRecursor == Op("action", "recursor", "PUT", {"cache"}, {"refused"})
flushDNSDist == Op("action", "dnsdist", "DELETE", {"cache"}, {"limited"})
flushOther == Op("action", "none", "none", {}, {})

\* Writes that no setting of the server prevents, as all of a zone are.
zoneWrite == Op("resource", "auth", "PUT", {"zones", "{id}"}, {"absent", "refused"})
recordWrite == Op("resource", "auth", "PATCH", {"zones", "{id}"}, {"absent", "refused"})

\* The writes of resources that a missing setting of the server prevents.
networkWrite == Op("resource", "auth", "PUT", {"networks", "{id}"}, {"limited", "refused"})
viewZoneWrite == Op("resource", "auth", "POST", {"views", "{id}"}, {"limited", "refused"})
recursorZoneWrite == Op("resource", "recursor", "POST", {"zones"}, {"limited", "refused"})
recursorACLWrite == Op("resource", "recursor", "PUT", {"config"}, {"limited", "refused"})
dnsdistACLWrite == Op("resource", "dnsdist", "PUT", {"config"}, {"limited", "refused"})

Operations ==
    [zone            |-> zoneDataSource,
     zones           |-> zonesDataSource,
     record          |-> recordDataSource,
     zone_metadata   |-> zoneMetadataDataSource,
     zone_export     |-> zoneExportDataSource,
     recursor_zone   |-> recursorZoneDataSource,
     dnsdist_server  |-> dnsdistServerDataSource,
     key_material    |-> cryptoKeyMaterialEphemeral,
     tsigkey_secret  |-> tsigKeySecretEphemeral,
     notify_zone     |-> notifyZoneAction,
     axfr_retrieve   |-> axfrRetrieveAction,
     rectify_zone    |-> rectifyZoneAction,
     flush_auth      |-> flushAuth,
     flush_recursor  |-> flushRecursor,
     flush_dnsdist   |-> flushDNSDist,
     flush_other     |-> flushOther,
     change_zone     |-> zoneWrite,
     set_record      |-> recordWrite,
     set_network     |-> networkWrite,
     add_to_view     |-> viewZoneWrite,
     make_forward    |-> recursorZoneWrite,
     set_acl         |-> recursorACLWrite,
     set_dnsdist_acl |-> dnsdistACLWrite]

Truths == {"there", "denied", "down", "absent", "no_set", "unset", "reserved", "blank",
           "limited", "refused"}
Requirements == {"lmdb", "api-config-dir", "setAPIWritable", "packet_cache"}
Told == Requirements \cup {"", "bug", "not_configured", "other"}

\* What a name begins with, as far as anybody looks at it; a zone views.org. fares
\* like a zone networks.org.
Names == {"plain", "networks"}

Idle == [op |-> "none", name |-> "plain", truth |-> "none", sent |-> NoClient, verdict |-> "none", told |-> ""]
Operation ==
    [op : DOMAIN Operations, name : Names, truth : Truths, sent : Client \cup {NoClient},
     verdict : {"value", "empty", "done", "error"}, told : Told]

\* What was unknown when the plan was made is known when it is applied.
Settled(b) ==
    [b EXCEPT !.url = [p \in Products |-> IF @[p] = Unknown THEN Value(p, "url", "block") ELSE @[p]],
              !.key = [p \in Products |-> IF @[p] = Unknown THEN Value(p, "key", "block") ELSE @[p]]]

TypeOK ==
    /\ block \in Blocks \cup {NoBlock} \cup {Settled(b) : b \in Blocks}
    /\ env \in Environments \cup {NoEnvironment}
    /\ phase \in {"new", "off", "configured", "failed"}
    /\ handed \in [Kinds -> Clients \cup {Nothing}]
    /\ \/ last = Idle
       \/ last \in Operation
       \/ last.op = "names" /\ last.prefix \in Prefixes /\ last.address \in Addresses

Init ==
    /\ block = NoBlock /\ env = NoEnvironment
    /\ phase = "new"
    /\ handed = [k \in Kinds |-> Nothing]
    /\ last = Idle

-----------------------------------------------------------------------------
(***************************************************************************)
(* Configure.                                                              *)
(***************************************************************************)

resolveString(given, found, fallback) ==
    IF given \notin {Null, Unknown} THEN given
    ELSE IF found # Empty THEN found
    ELSE fallback

URL(p) == resolveString(block.url[p], env.url[p], Empty)

\* Seeded fault: the fallback is the key of the Recursor.
APIKeyOfNeighbour(p) ==
    resolveString(block.key[p], env.key[p],
        IF p = "dnsdist" THEN resolveString(block.key["recursor"], env.key["recursor"], Empty) ELSE Empty)

\* The Recursor and dnsdist fall back to the key of the Authoritative server.
APIKey(p) ==
    resolveString(block.key[p], env.key[p],
        IF p = "auth" THEN Empty
        ELSE resolveString(block.key["auth"], env.key["auth"], Empty))

\* What a client shares with the others is read before any of them is built.
buildSharedConfig == block.tls \notin {"unreadable", "half"}

\* Seeded fault: the key is not asked for.
buildTransportKeyless(p) == block.tls # "invalid"
buildTransport(p) == APIKey(p) # Empty /\ block.tls # "invalid"

\* Every product with a URL is to get its client.
buildClients == buildSharedConfig /\ \A p \in Products : URL(p) # Empty => buildTransport(p)

BuiltClients ==
    [p \in Products |->
        IF URL(p) = Empty THEN NoClient ELSE [url |-> URL(p), key |-> APIKey(p)]]

\* Seeded fault: ephemeral resources are forgotten.
HandOverForgetful == [k \in Kinds |-> IF k = "ephemeral" THEN Nothing ELSE BuiltClients]
HandOver == [k \in Kinds |-> BuiltClients]

Configure ==
    /\ phase = "off"
    /\ IF (\A p \in Products : URL(p) = Empty) \/ ~ buildClients
       THEN phase' = "failed" /\ UNCHANGED handed
       ELSE phase' = "configured" /\ handed' = HandOver
    /\ last' = Idle
    /\ UNCHANGED <<block, env>>

-----------------------------------------------------------------------------
(***************************************************************************)
(* What PowerDNS answers.                                                  *)
(***************************************************************************)

Status(op, truth) ==
    CASE truth \in {"there", "no_set", "unset", "blank"} -> 200
      [] truth = "denied" -> 401
      [] truth = "down" -> 500
      [] truth = "absent" -> 404
      [] truth = "limited" -> IF op.product # "dnsdist" THEN 422
                              ELSE IF "cache" \in op.path THEN 404 ELSE 405
      [] truth = "refused" -> IF op.product = "dnsdist" THEN 400 ELSE 422

\* The Recursor names the setting that is missing.
NamesDir(op, truth) == op.product = "recursor" /\ truth = "limited"

-----------------------------------------------------------------------------
(***************************************************************************)
(* The operations.                                                         *)
(***************************************************************************)

\* The path of a request; of a segment, only what it begins with counts.
Path(op, name) == {IF segment = "{id}" THEN name ELSE segment : segment \in op.path}

\* Contains(path, "/views") holds of a segment that begins so, which may be the
\* name of a zone.
classifyAuth(status, path) ==
    IF status = 422 /\ path \cap {"views", "networks"} # {} THEN "lmdb" ELSE "other"

\* Seeded fault: the status alone decides.
classifyRecursorByStatus(status, names) == IF status = 422 THEN "api-config-dir" ELSE "other"
classifyRecursor(status, names) == IF status = 422 /\ names THEN "api-config-dir" ELSE "other"

classifyDNSDist(method, status, path) ==
    IF status = 405 /\ method = "PUT" THEN "setAPIWritable"
    ELSE IF status = 404 /\ "cache" \in path THEN "packet_cache"
    ELSE "other"

classify(op, path, status, names) ==
    CASE op.product = "auth" -> classifyAuth(status, path)
      [] op.product = "recursor" -> classifyRecursor(status, names)
      [] op.product = "dnsdist" -> classifyDNSDist(op.method, status, path)

\* Seeded fault: whatever came with a 200 is a value.
JudgedBy200(o, truth) ==
    [verdict |-> IF truth = "unset" THEN "empty" ELSE "value", told |-> ""]

\* What a handler makes of a 200.
Judged(o, truth) ==
    CASE Operations[o].kind \in {"action", "resource"} -> [verdict |-> "done", told |-> ""]
      [] o = "record" /\ truth = "no_set" -> [verdict |-> "error", told |-> "other"]
      [] Operations[o].kind = "ephemeral" /\ truth = "blank" -> [verdict |-> "error", told |-> "other"]
      [] OTHER -> [verdict |-> IF truth = "unset" THEN "empty" ELSE "value", told |-> ""]

Report(o, name, truth, sent, outcome) ==
    last' = [op |-> o, name |-> name, truth |-> truth, sent |-> sent, verdict |-> outcome.verdict, told |-> outcome.told]

Error(told) == [verdict |-> "error", told |-> told]

\* RequireAuth, RequireRecursor and RequireDNSDist.
Require(bundle, p) ==
    CASE bundle = Nothing -> "bug"
      [] bundle # Nothing /\ bundle[p] = NoClient -> "not_configured"
      [] OTHER -> ""

\* Read, Open, Invoke, or the request of a write.
Operate(o, name, truth) ==
    LET op == Operations[o]
        bundle == handed[op.kind]
        lacking == Require(bundle, op.product)
        status == Status(op, truth)
    IN  /\ phase = "configured"
        /\ o # "flush_other"
        /\ truth \in op.truths
        /\ name # "plain" => "{id}" \in op.path
        /\ IF lacking # "" THEN Report(o, name, truth, NoClient, Error(lacking))
           ELSE IF truth = "reserved" THEN Report(o, name, truth, NoClient, Error("other"))
           ELSE Report(o, name, truth, bundle[op.product],
                       IF status = 200 THEN Judged(o, truth)
                       ELSE Error(classify(op, Path(op, name), status, NamesDir(op, truth))))
        /\ UNCHANGED <<block, env, phase, handed>>

\* flush_cache with a product that is none of the three.
FlushOther ==
    /\ phase = "configured"
    /\ Report("flush_other", "plain", "there", NoClient, Error("other"))
    /\ UNCHANGED <<block, env, phase, handed>>

\* Functions are there before the provider is configured, and without it.
CallFunctions ==
    /\ phase = "new"
    /\ \E p \in CallPrefixes, a \in CallAddresses :
          last' = [op |-> "names", prefix |-> p, address |-> a,
                   zone |-> fqdn(reverseZoneName(p)), name |-> fqdn(ptrName(a))]
    /\ UNCHANGED <<block, env, phase, handed>>

\* Terraform reads the block and the environment.
Start ==
    /\ phase = "new"
    /\ block' \in Blocks /\ env' \in Environments
    /\ phase' = "off"
    /\ last' = Idle
    /\ UNCHANGED handed

\* A new process for the next walk.
Restart ==
    /\ phase = "configured"
    /\ block' = Settled(block)
    /\ phase' = "off"
    /\ handed' = [k \in Kinds |-> Nothing]
    /\ last' = Idle
    /\ UNCHANGED env

Next ==
    \/ Start
    \/ Configure
    \/ \E o \in DOMAIN Operations, name \in Names, truth \in Truths : Operate(o, name, truth)
    \/ FlushOther
    \/ CallFunctions
    \/ Restart

Spec == Init /\ [][Next]_vars

-----------------------------------------------------------------------------
(***************************************************************************)
(* Properties.                                                             *)
(***************************************************************************)

Operated == last.op \in DOMAIN Operations

\* "Omitting one is a nil dereference at apply": every operation after a
\* successful Configure, whichever kind of component it belongs to, has its
\* clients, and lacks only those of a product that has no URL.
BundleArrives ==
    Operated => /\ last.told # "bug"
                /\ last.told = "not_configured" => URL(Operations[last.op].product) = Empty

\* A request goes to the server of its own product, and carries the key meant
\* for that server: the product's own wherever one was given, the Authoritative
\* server's where none was, the key of another product never and no key never.
KeysStayHome ==
    Operated /\ last.sent # NoClient =>
        LET p == Operations[last.op].product
            own == block.key[p] \notin {Null, Unknown} \/ env.key[p] # Empty
        IN  /\ last.sent.url \in {Value(p, "url", place) : place \in {"block", "env"}}
            /\ last.sent.key \in
                  {Value(IF own THEN p ELSE "auth", "key", place) : place \in {"block", "env"}}

\* A value or a success is reported exactly when the server has the object or
\* did what it was asked; metadata that is not set is an empty value, and
\* everything else that is missing is an error.
OutcomeIsTrue ==
    Operated =>
        /\ last.verdict \in {"value", "done"} =>
              last.truth = "there" /\ last.sent # NoClient
        /\ last.verdict = "empty" <=> last.truth = "unset" /\ last.sent # NoClient
        /\ last.verdict = "error" /\ last.sent # NoClient => last.truth # "there"

\* The requirement of each of the four impossible operations.
Requirement(op) ==
    CASE op.product = "auth" -> "lmdb"
      [] op.product = "recursor" -> "api-config-dir"
      [] op.product = "dnsdist" -> IF "cache" \in op.path THEN "packet_cache" ELSE "setAPIWritable"

\* classifyAuth takes every refusal about views and networks for the limit, and
\* every refusal about an object whose name begins like them.
Mistakable ==
    /\ last.truth = "refused"
    /\ \/ Operations[last.op].path \cap {"views", "networks"} # {}
       \/ last.name # "plain" /\ Operations[last.op].product = "auth"

\* An operation the installation cannot do is reported with the setting that is
\* missing, and no other failure is, but for the refusals classifyAuth mistakes.
CauseIsTold ==
    Operated /\ last.sent # NoClient =>
        /\ last.truth = "limited" => last.told = Requirement(Operations[last.op])
        /\ last.told \in Requirements => last.truth = "limited" \/ Mistakable

\* The PTR name of an address lies under the reverse zone of a prefix exactly
\* if the address is in the prefix; a prefix has no reverse zone exactly if it
\* ends inside a label.
ReverseZoneHoldsPtr ==
    last.op = "names" =>
        IF last.zone = Refused
        THEN last.prefix.bits % Width[last.prefix.family] # 0
        ELSE /\ is_fqdn(last.zone) /\ is_fqdn(last.name)
             /\ IsUnder(last.name, last.zone) <=> Contains(last.prefix, last.address)
=============================================================================
