# TLA+ specification of terraform-provider-powerdns

A Terraform provider is a set of handlers that Terraform calls between a
configuration it plans from and a server it does not control.  What can go
wrong lies between the handlers: an answer that is lost, a resource applied
before or after its sibling, a value read at refresh time and sent minutes
later.  These modules model that: the configuration of the provider, the HTTP
call with its retries, the eleven resources with the Terraform runs that drive
them, the comparisons that decide what a run changes, the reads, actions and
functions beside them, and the PowerDNS server as far as the code depends on it.

All source paths below are relative to the repository.

## The system

| Part | Where | State it keeps | Operations | What is hard |
|---|---|---|---|---|
| API transport | `internal/api/transport` | none between calls; inside `Do` the loop variable and the last error | `New`, `Do`, `attempt`, backoff | retries of calls that took effect, timeouts, cancellation |
| Error classification | `transport/classify.go`, `errors.go` | none | `Is`, `Retryable`, capability | which answer is final |
| API clients | `internal/api/auth`, `rec`, `dnsdist` | none | one method per endpoint | what `omitempty` sends, what a 204 hides |
| `powerdns_zone_cryptokey` | `internal/provider/resource_cryptokey.go`, `cryptokey_helpers.go` | a key id, its type, its flags, derived `ds` | CRUD, import | keys of one zone change each other's derived attributes |
| `powerdns_zone` | `resource_zone.go`, `zone_helpers.go` | the zone's attributes | CRUD, import | optional, computed and create-only attributes |
| `powerdns_record` | `resource_record.go`, `record_helpers.go` | one record set | CRUD, import | the key (name, type) may pass from one block to another |
| metadata, network, ACLs, recursor zone | `resource_zone_metadata.go`, `resource_network.go`, `resource_acl.go`, `resource_recursor_zone.go` | one keyed value | CRUD, import | absence spelled as emptiness, a delete that leaves the value |
| view membership, autoprimary, TSIG key | `resource_view_zone.go`, `resource_autoprimary.go`, `resource_tsigkey.go` | a membership | create, read, delete | the container vanishes with its last member |
| plan modifiers, `normalise` | `internal/provider/planmodify`, `normalise` | none | comparisons | comparing too much hides a change |
| provider configuration | `provider.go`, `clients.go` | one client per product | `Configure` | precedence of block and environment |
| data sources, actions, ephemeral secrets | `datasource_*.go`, `actions.go`, `ephemeral_key_material.go` | none | `Read`, `Invoke`, `Open` | a 200 that is no value, a failure that is explained wrongly |
| functions, identity | `functions.go`, `identity.go` | none | pure conversions, the natural key | zero labels, mapped addresses, a key in several spellings |

Terraform calls `Read` for every resource in the state, plans each by its
schema's modifiers, and then calls `Create`, `Update` and `Delete` of
resources that do not depend on each other in any order and concurrently.  A
replacement is a `Delete` followed by a `Create` of the same resource.  All
handlers reach the server through `transport.Client.Do`.  Two resources
interact through the server, and through the references by which Terraform
orders their calls and replaces one with the other.

## Modules

| Module | Models | Built on |
|---|---|---|
| `ApiCall` | what one call promises its caller | |
| `Transport` | `Client.Do` with the network and the server | implements `ApiCall` |
| `TransportProofs` | theorems about `Transport` | `Transport`, TLAPS |
| `CryptoKey` | several `powerdns_zone_cryptokey` of one zone | assumes `ApiCall` |
| `CryptoKeyProofs` | theorems about `CryptoKey` | `CryptoKey`, TLAPS |
| `Zone` | one `powerdns_zone` | assumes `ApiCall` |
| `ZoneProofs` | theorems about `Zone` | `Zone`, TLAPS |
| `Record` | several `powerdns_record` of one zone | assumes `ApiCall` |
| `RecordProofs` | theorems about `Record` | `Record`, TLAPS |
| `Keyed` | several of one of the eight other kinds of resource | assumes `ApiCall` |
| `KeyedProofs` | theorems about `Keyed` | `Keyed`, TLAPS |
| `Family` | a zone with a record set and a key in it, in one configuration | assumes `ApiCall` |
| `FamilyProofs` | theorems about `Family` | `Family`, TLAPS |
| `Compare` | the comparison functions and `canonicalName` | |
| `Managed` | what a resource promises, in meanings | |
| `Spelling` | one resource whose texts have several spellings | `Compare`, implements `Managed` |
| `SpellingProofs` | theorems about `Compare` and `Spelling`, the refinement of `Managed` | `Spelling`, TLAPS |
| `NameFunctions` | the functions about names and serials | |
| `Provider` | `Configure`, and the operations behind it | `NameFunctions` |
| `ProviderProofs` | theorems about `Provider` and `NameFunctions` | `Provider`, TLAPS |
| `MC*` | the modules above, for TLC | |

The composition is by contract.  `Transport` is shown to implement `ApiCall`: a
call takes effect between zero and `Attempts` times, perhaps after it returned,
and `ok` means at least once.  The resource modules take one call as one step
with exactly those outcomes: it is `Answered`, having succeeded, at once or after
attempts that were given up on, of which one may still be under way; it succeeds
having taken effect twice (only where that makes a difference, the POST of a key);
it is refused; or it is `Lost`: an error after no effect, after one, or with one
still to come.  A request still under way is kept in `late`, and `Deliver` carries it
out at any later moment.  `Family` leaves late requests to the modules of its parts.

### Transport

`pc[c]` is the place in `Do`: `ready` at the top of an attempt, `inflight`
inside `http.Client.Do`, `sleeping` in `sleepBackoff`, `done` after a return.
`attempt[c]` is the loop variable.  `AttemptEnds` is the part of the loop behind
`c.attempt`: return on success, on a final `APIError`, on a done context, at the
last attempt, and otherwise go to sleep.  `Judge` is the tail of `attempt`: the
status first, the body only when something is decoded and the status is not 204.
A body that cannot be decoded is an error and is retried like a broken connection.
Payloads, TLS, durations and messages are abstracted away; `value` stands for
what the last call carried out left at the server.  The error of `json.Marshal` at
the top of `Do` is left out: every body is a structure of texts, numbers, switches and
lists of them, which always has an encoding, and the return would come before anything is sent.

### CryptoKey

A run is `StartRun`, one `Read` for each resource, which also plans it, and then
the calls of each resource in any interleaving (`Applying` holds once every
resource is refreshed and planned).  `Create` and `Update` make their call and
move to `confirm`, the list call of `readInto` behind it; only then is the
state written, so whatever fails in between leaves the old state.  `plan[r]`
keeps what the plan fixed.  The server derives the type of a key on read: a key
alone in its zone is a `csk`, as the table measured in the documentation of
`normalise.DNSSECKeyType` says.  `active` stands for `active` and `published`.

### Zone

One attribute stands for each group the code treats alike:

| In the model | In the code | Written | Read |
|---|---|---|---|
| `kind` | `kind`, `api_rectify` | always sent | always taken |
| `account` | `account`, `catalog`, `soa_edit`, `masters` | not sent when null or empty (`omitempty`) | empty becomes null |
| `dnssec` | `dnssec`, `nsec3narrow`, `presigned` (pointers) | not sent when unknown; `off` is sent | as it is; resolves an unknown |
| `param` | `nsec3param`, `soa_edit_api`, the two TSIG key lists | not sent when unknown or empty (`omitempty`) | as it is, empty stays empty; resolves an unknown |
| `nameservers` | `nameservers` | with POST only | never |

A block may leave an attribute out (`"null"` of `account`, `"unset"` of the computed ones) or
write it out as empty (`""`), and the model tells these apart: an explicit empty
`account` is planned over the null that is read back, every time, and an explicit empty
`param` is never sent, so the server keeps what it has, or what it gives by `Default`,
while the state says empty until the next refresh.

Initially the zone may or may not exist already.

### Record

The identity of a set is one value (`pair`), its values, spelled as a modifier
would recognise them, another (`content`).  `Distinct` is what Terraform and the
comment on `recordResource` assume of a configuration.  An `Edit` may change one
block or move a block to another address.  `Modulus` stands for 2^32, with a TTL
on each side of it: `rrsetFromModel` cuts the TTL, the state does not.  A TTL may be
any integer, as in the schema; one that is 0 after the cut is not sent (`omitempty`,
`zones.go:72`), and a REPLACE without a TTL is refused (`Refused`).  A block
without a comment sends none; whether the server then keeps the comment a set
already has or clears it is settled by no code or fixture of the repository, so
`Kept` allows both.

### Keyed

The eight other resources keep one value under one key at one server, and their
handlers have one shape.  A behaviour is about resources of one `kind`; its
traits are one `...Schema` and one `...Calls` record for each kind:

| Kind | Key | Value | Replaced by | Create, Update, Delete | Gone when |
|---|---|---|---|---|---|
| `metadata` | zone and metadata kind | values | key | PUT, PUT, DELETE | empty list, or no zone (404) |
| `network` | subnet | view | key | PUT, PUT, PUT of no view | 404 or no view |
| `view_zone` | view and zone | none | key | POST, none, DELETE | 404 of the view, or not listed in it |
| `autoprimary` | address and nameserver | account | anything | POST, none, DELETE | not listed |
| `tsigkey` | name | algorithm | anything | POST, none, DELETE | not listed |
| `recursor_zone` | name | kind, servers, flags | key | POST, PUT, DELETE | 404 |
| `recursor_acl` | setting | netmasks | nothing | PUT, PUT, none | never |
| `dnsdist_acl` | `allow-from`, the only one | netmasks | nothing | PUT, PUT, none | never |

`server[k]` holds the values under a key: none, one, or two TSIG keys of one name,
which others can make with a PUT.  A view is no object of its own: the memberships of a
behaviour are those of one view, which is gone with its last member (`ViewGone`), so
that the read of a sibling is answered 404; a seeded fault that does not take this for
absence violates `StateMatchesServer`.  `home` is the zone the metadata belongs to.
`records` are the Recursor zones somebody put records into.  `Reserved` stands for
the two metadata kinds that `checkMetadataKind` refuses.  The value `"empty"` is
an empty spelling a block may use (`view = ""`, `account = ""`, `servers = []`);
`Content` says what the server makes of it.  Metadata and ACLs cannot be empty:
their schemas ask for one element at least.  `secret_wo` never reaches the state
or a plan and is left out.  As in `Record`, no two blocks share a key; two ACL
resources for one setting, which the comment in `resource_acl.go` says Terraform
cannot prevent, are a configuration error and not modelled.

### Family

A zone, a record set and a DNSSEC key of one configuration.  A run is a set of
calls (`todo`), planned when everything is refreshed, and `Before` is the order
Terraform gives them: a child after its zone when made, before it when destroyed,
and the destroy of an object before its new making.  A call that fails takes
those with it that wait for it (`After`).  Terraform does not order the update of
a zone against the delete of its child, and neither does the model.  The children
name their zone by `id`, which is unknown while the zone is replaced and so
replaces them, or by `name`, which is not.  The handlers are those of `Zone`,
`Record` and `CryptoKey` reduced to what one of them means to another: `dnssec`,
which the block leaves out, is refreshed from the server, planned as the state's
value and sent with every update; making the zone makes no child; deleting it
deletes them all.

### Spelling, Compare and Managed

A text is what it denotes (`value`), a port and a set of marks: capitals, a
trailing dot, leading zeros, host bits, brackets.  `Compare` has for every
function of `normalise` its canonical form, which leaves a text it cannot read as
it is, and the two multiset comparisons entry by entry.  The empty sequence is a list that
is null; lists that are given have members, and what an explicit empty one does is told in
`Zone` and `Keyed`.  `Spelling` follows one
resource with a key, a label and a list; `Schema` says by which comparison each
resource that uses one compares them.  The server stores its own spelling of what
it takes and refuses what it cannot read.  `Planned` is what the modifiers make of
block and state, and `Create`, `Update`, `Delete`, `Found`, `ReadInto`, `Identity`
and `Import` are the handlers as far as spelling matters: which text becomes the
path of a request, which goes into the state, and how an object is found again.
`Managed` is the same resource without spellings.  `ImplementsManaged` maps every
text to its meaning and says that each step of `Spelling` is the step of that name
in `Managed`: so a respelling plans nothing, a change is never hidden, and an
object is found again under each of its spellings.  `Spelled` says which marks are
spellings of a text of a sort, and `BlocksAssumption` that blocks use no others.  One
thing is thereby assumed that the code does not see to: no block writes the dot that ends
a name after the address of an upstream.  `upstreamKey` takes it off, PowerDNS does not, so
such a text would be planned as the address it is not; see the list of disagreements.

### Provider and NameFunctions

`Start` is Terraform reading the block and the environment, `Configure` the
method, and `handed[kind]` what resources, data sources, ephemeral resources and
actions receive: one client per product or none.  A failed `Configure` ends the
process; `Restart` is the next walk (plan, then apply), when what was unknown is
known.  `Operations` has a row for every data source, ephemeral resource and action
for the writes of a zone and of a record set, and for the resource writes a setting of
the server can prevent: kind, product, method, path, and what may be the case at the
server (`truths`).  A path is the set of its segments, and one of them may be a name that
the operator chose; since `classifyAuth` looks for `/views` and `/networks` anywhere in the
path (`classify.go:65`), a name is either plain or one that begins like them (`Names`).  `Operate` takes
the client (`Require`), sends the request, and reports a value, an empty value,
success or an error with what it names (`told`), by `Judged` for a 200 and by
`classify` otherwise.  Functions can be called before `Configure`.

A setting is a sequence: empty, null, unknown, or product, argument and place it
was given in.  `NameFunctions` has an address as its octets or nibbles; a name is
its labels and the tree they hang from, so that `/0` keeps no label.

### Seeded faults

An operator whose comment starts with "Seeded fault" stands before the one it
distorts and is used nowhere.  Substituting one for the other must break a
property; it documents which mistake the property would notice.

## What is checked

| Run | Instance | Shows |
|---|---|---|
| `transport` | 2 calls, 2 attempts, statuses 200 204 404 429 500, one call decoding | types; `OkMeansApplied`; `RefusalIsConclusive`; `StaleWriteNeedsAbandonedAttempt`; `CancelIsPrompt`; `EveryCallReturns`; `Contract` |
| `cryptokey` | 2 resources, `ksk` and `zsk`, 1 fault, 2 edits | types; `SeparateKeys`; `LeakBounded`; `SigningKeySurvives`; `ApplyForgetsOnlyGone`; `Converges` |
| `zone` | 2 kinds, 1 account, 1 parameter, 1 nameserver list, each set, empty or left out, 1 fault, 1 edit, 1 change by others | types; `StateMatchesServer`; `DestroyedOnPurpose`; `UnmentionedKept`; `Converges` |
| `record` | 2 resources, 2 pairs, 1 content, 1 comment or none, 3 TTLs (0, inside and beyond the field's width), 1 fault, 1 edit, 1 change by others | types; `StateMatchesServer`; `NoLeftovers`; `OtherSetsKept`; `Converges` |
| `keyed` | every kind; 2 resources, 2 keys and a reserved one, 2 values, 1 fault, 1 edit, 1 change by others | types; `StateMatchesServer`; `NoLeftovers`; `OtherKeysKept`; `ForgetsOnlyGone`; `Converges` |
| `family` | 2 nameserver lists, 2 accounts, 2 algorithms, both ways to name the zone, 2 faults, 2 edits | `OneRunSuffices`; `ChildrenKept`; `Converges` |
| `spelling` | 11 resources, for each up to 5 spellings of keys and 7 lists, invalid texts included | types; `ImplementsManaged`; `IdentityStable` |
| `provider` | 100 blocks, 8 environments, 23 operations on plain and misleading names, 45 prefixes and 6 addresses | `BundleArrives`; `KeysStayHome`; `OutcomeIsTrue`; `CauseIsTold`; `ReverseZoneHoldsPtr` |

`CHECK_DEADLOCK FALSE` is set in `Transport.cfg`, where the system is at its end
when every call has returned and no request is left, and in `Provider.cfg`, where
it is at its end when `Configure` has failed.

**Bounds.**  Two attempts are the fewest with a first, a retry and a last one;
two calls the fewest in which one can overwrite the other; the statuses are one
of each class the client distinguishes, with 429 as the only retryable client
error.  Two keys or two record sets are the fewest that influence one another,
and three add nothing new: every interaction in the code is between a resource
and the rest of the zone.  `MaxFaults`, `MaxEdits` and `MaxOutside` bound how
often the environment interferes; they are in the guards of the environment's
actions and of the faulty outcomes, never in those of the provider.  One fault
is enough for the hazards listed, each of which follows from a single lost or
failed call; `LeakBounded` counts them, and its proof covers every number.  In
`cryptokey` no block asks for `csk`, which every key answers to: the proofs cover
that type as well.  In `keyed` two keys are the fewest that two resources can exchange
or hand over, and a second value is what an update or a replacement needs.
`Offered` bounds the blocks a run may write: in `zone` all that set two attributes beside
the kind, or one with the second kind, since an attribute is planned, sent and read without
regard to the others; in `record` all with a comment or an unusual TTL, not both.  The proofs
are for every choice of `Offered`.
In `record` the contents of a set are one value, since the TTL and the comment
already tell two blocks of a pair apart.  In `family` a second fault is what lets a
repair fail.  In `spelling` the lists have up to three texts and `SmallLimit` is 2,
so both comparisons are reached; one resource is enough, because spelling relates a
block to its own object only.  In `provider` each product has its URL and key from the
block, the environment, both or neither; empty and unknown values occur at one product,
because the code treats the products alike; the operations follow `Configure` in any order.
No symmetry is used, since liveness is checked in the same runs.

**Fairness.**  `Transport` assumes weak fairness of the client's own steps: the
per-attempt timeout of `http.Client` and the timer of `sleepBackoff` always
fire.  Nothing is assumed of the server or the network.  The resource modules
assume that every handler that is under way makes progress, which is
`EveryCallReturns`, and that the operator applies again and again
(`WF_vars(StartRun)`).  That a request that was given up on is ever delivered
is not assumed.

**Convergence and its exceptions.**  `Converges` says that once edits, faults and
interference stop, applying again reaches the configuration and every later
plan is empty.  Some situations are excepted by name (`Excused` in `Keyed`), because the code does not
recover from them: a zone whose POST lost its answer (`Conflict`: the next create
meets the existing zone and only an import helps), an account or a parameter that was
cleared in the block while the server has one (`PendingClear`), an account written out as
empty (`EmptyAccount`), a TTL wider than 32 bits (`TooWide`) and one that is 0 in 32 bits and
cannot be sent (`Unsent`), other values spelled as empty,
which are written and read back as none, a record comment that was removed from the block
(`PendingComment`), reserved metadata, which is refused, and a
TSIG key, autoprimary or Recursor zone that is there without being in the state,
because its POST lost its answer or somebody else made it.  In `record` an exception
excuses the resource it is about only: its siblings converge.

## Disagreements with the documentation

Each is one run that TLC is to find violated; the property states what a
comment or document of the repository says.

| Run | Claimed | The code |
|---|---|---|
| `cryptokey_gone` | `cryptokey_helpers.go:13`: tell a missing object "apart from a real failure" | every error of the list call removes the key from the state, and the next apply makes another |
| `record_vanish` | `resource_record.go:50`: one owner for one name-and-type pair | a block moved to another address deletes what its new address wrote |
| `keyed_records` | `docs/contract.md:308`: "What the provider does not manage, it does not touch" | updating a Recursor zone sends it without its records, and the PUT replaces the zone |
| `family_resign` | `resource_zone.go:201`: `dnssec = true` is for a "server-generated CSK; leave it unset and manage keys with `powerdns_zone_cryptokey`" | left unset it is sent as it was at the refresh; in a run that also replaces the only key, the server makes a CSK no resource manages |

Noted without a run, the first nine met by exceptions the properties name or by
values the models allow:

- `DNSSECKeyType` lets `csk` stand for `ksk` and `zsk`, and the only key of a zone reads
  back as `csk`, so changing its block from `ksk` to `zsk` plans nothing, while
  `planmodify/semantic.go:10` "never keeps a value that means something different".
- An account, catalog or SOA-EDIT taken out of a zone's block is never sent as empty
  (`omitempty`, `zones.go:39`) and is planned again at every run, while
  `docs/contract.md:220` says that a second apply "plans nothing".  The same holds for
  values spelled as empty, and for a removed record comment if the server keeps it.
- `nsec3param = ""`, which the schema documents as "Empty means NSEC rather than NSEC3"
  (`resource_zone.go:210`), is never sent (`zones.go:44`): a zone with NSEC3 keeps it, the
  state says it does not, and the next refresh plans the change again.  So it is with an empty
  `soa_edit_api` and empty TSIG key lists; `PendingClear` in `Zone`.
- An empty list of masters is dropped from the body like a list not given, while
  `zone_helpers.go:33` says that the two "mean different things to PowerDNS"; `EmptyAccount`.
- `rrsetFromModel` says that "a TTL is bounded by the schema" (`record_helpers.go:57`), which
  it is not (`resource_record.go:134`): a wide one is cut, and 0 is left out of the body and refused;
  `TooWide` and `Unsent` in `Record`.
- A zone imported under a block with nameservers is destroyed by the next apply
  (`resource_zone.go:490`, `:157`), while `docs/contract.md:159` offers the import as the
  way to avoid a replacement.
- Every update of a zone sends the `dnssec` read at the refresh and so unsigns a zone
  that was signed since, while `zones.go:18` says that it must not be sent unasked.
- A refusal (422) of any kind under `/views` or `/networks` is explained with the LMDB
  backend (`classify.go:61`), and so is one of a request on a zone whose name begins with `views` or
  `networks`, because the whole path is searched (`:65`); `Mistakable` in `Provider`.
- The identity of an autoprimary is the block's spelling after `Create`
  (`resource_autoprimary.go:154`) and the server's after `Read` (`:194`), while
  `identity.go:25` calls an identity "stable by construction".
- `serial` and `edited_serial` of a zone are planned as the state's value and overwritten
  from the answer (`resource_zone.go:280`, `zone_helpers.go:86`).
- Children that name their zone by `name` are not replaced with it: PowerDNS deletes them,
  and they come back in the run after; hence the condition in `OneRunSuffices`.
- Importing a TSIG key under a name with capitals does not find it (`resource_tsigkey.go:314`);
  `Importable` in `Spelling`.
- Only the zone and the record read `req.Identity` when imported, though the other
  identity schemas mark their attributes as required for it.
- The schema of `retry_attempts` says that a `4xx` never retries, while 429 does
  (`errors.go:179`).
- The schema documents `PDNS_CACERT` while the code reads `PDNS_CA_CERTIFICATE`
  (`clients.go:229`).
- An unknown URL counts as unset when planning (`provider.go:274`), so a provider whose
  only URL is not known yet fails to configure.
- `upstreamKey` takes an address with a trailing dot for the address
  (`normalise.go:120`), and PowerDNS does not.
- `FuzzCanonicalKeysAreIdempotent` (`canonical_test.go:110`) says that the key of a key is the
  key for every text.  An IPv6 address in brackets with a dot behind it and zeros to leave
  out is not: `[2001:db8:0:0::1.]:53` is read as a name and loses its dot, and what is left is read
  as an address and shortened.  `KeysAreIdempotent` proves that nothing else is excepted.
- The `ds` of a key is planned as the state's value (`resource_cryptokey.go:204`) and
  overwritten after an update (`cryptokey_helpers.go:99`), although a sibling key made in
  the same run changes it.
- The `id` of an ACL is planned as the old setting and returned as the new one, while
  `docs/contract.md:77` says that "changing any part of an id replaces the resource".

## What is proved

`TransportProofs` proves, for every number of calls, every configured number of
attempts (any integer) and every set of statuses:

| Theorem | Statement |
|---|---|
| `TypeCorrect` | `Spec => []TypeOK` |
| `NoFalseSuccess` | `Spec => []OkMeansApplied` |
| `FirstRefusalConclusive` | `Spec => []RefusalIsConclusive` |
| `StaleWriteSource` | `Spec => []StaleWriteNeedsAbandonedAttempt` |
| `CancelPrompt` | `Spec => CancelIsPrompt` |
| `KeepsContract` | `Spec => Contract` |

The assumptions are those `Transport` declares of its constants.  The first two
of the safety properties are not inductive: that an answer of success comes with an effect
is known only while the answer is on its way.  `IInv` adds what the steps need:
`SentInOrder` (requests carry indices the loop has reached, and the next one is
on none), `Outstanding` (a request on the wire is the one waited for, or was
given up on), `AnswerIsTrue` (what the answer in hand says of its request),
`ProgramOrder`, and `HeldValue` (whose write the server holds once a later call
was answered).  Each is preserved action by action; the refinement maps the
client's steps to `Invoke`, the returns or a stutter, and the server's handling to `Effect`.

`ZoneProofs` proves, for all sets of kinds, accounts, parameters and nameservers, every
default, every choice of blocks, and every bound on faults, edits and interference:

| Theorem | Statement |
|---|---|
| `TypeCorrect` | `Spec => []TypeOK` |
| `DestroyedDeliberately` | `Spec => DestroyedOnPurpose` |
| `UnmentionedStays` | `Spec => UnmentionedKept` |
| `StateIsTrue` | `Spec => []StateMatchesServer` |

The types alone are not inductive: an update whose plan is no plan would store
anything.  `StepInv` says what the next call of a run is made from (a plan for
every write, `Planned(config, state)` for an update, an absent block or other
nameservers for a delete), `LateInv` that a request still under way has a body.
The two action properties follow from `StepInv` by asking which action can take
the zone away, or write to it, without leaving the mark of somebody else.
`StateIsTrue` needs one more invariant, `TruthInv`: undisturbed, nothing is under
way, the state agrees with the server between the calls, and between the PUT and
the GET behind it the plan does.  To agree (`Agrees`) excepts an account or a parameter
that is empty in the state or the plan, since an empty one is never sent.

`KeyedProofs` proves, for all sets of resources, keys and values, every choice of
kinds and every bound:

| Theorem | Statement |
|---|---|
| `TypeCorrect` | `Spec => []TypeOK` |
| `KeepsToItsKeys` | `Spec => OtherKeysKept` |
| `ForgetsNothingAlive` | `Spec => ForgetsOnlyGone` |
| `NothingIsLeft` | `Spec => []NoLeftovers` |
| `StateIsTrue` | `Spec => []StateMatchesServer` |

The assumptions are those `Keyed` declares: the kinds are among the eight, the
reserved keys do not exhaust the keys, and the spellings of absence are neither
keys nor values.  `IInv` adds to the types what the next call is made from (`StepInv`: a block
for every write, an entry in the state for every update and delete, and no
replacement of an ACL, whose schema forces none) and that no resource owns a
reserved key (`AddressInv`), which is why a delete cannot reach one.  The two action properties
are then a question to each action: which keys can a call touch, and when is an entry dropped.

The last two speak of a system nobody disturbs, between runs.  `QuietInv` says what a run
keeps while it is under way: nothing is under way to the server (`Calm`), no key holds two objects
(`Plain`), an update has a call that carries it out (`Worth`), every object belongs to a
resource that still has its key (`Owned`), a resource that is done has the key of its block
(`Done`), and what a resource is not about to give up is at the server as its state says
(`Reported`).  As in `Record` the delete of one resource and the create of another may meet
on a key, so `Reported` exempts the keys given up in the run and `Done` ends the exemption.
`Plain` is what the quiet assumption buys for TSIG keys: only others make two of a name.

`RecordProofs` proves, for all pairs, contents and comments, all sets of integers as TTLs,
every positive modulus, every choice of blocks and every bound:

| Theorem | Statement |
|---|---|
| `TypeCorrect` | `Spec => []TypeOK` |
| `OtherSetsStay` | `Spec => OtherSetsKept` |
| `NothingIsLeft` | `Spec => []NoLeftovers` |
| `StateIsTrue` | `Spec => []StateMatchesServer` |

`OtherSetsStay` follows from `StepInv`, what the next call of a resource is made from.  The
other two speak of a system nobody disturbs, between runs only, and their invariant
`QuietInv` has to say what a run keeps while it is under way: nothing is under way to the
server (`Calm`), every set belongs to a resource that still has its pair in the state (`Owned`),
a resource that is done has the pair of its block (`Done`), and what a resource is not about
to remove is at the server as its state says (`Reported`).  `Reported` exempts a pair that
was given up in the run, because the delete of one resource and the create of another may
meet on it; `Done` is what makes the exemption end with the run.

`CryptoKeyProofs` proves, for every set of resources and types and every bound on faults and
edits:

| Theorem | Statement |
|---|---|
| `TypeCorrect` | `Spec => []TypeOK` |
| `KeysStaySeparate` | `Spec => []SeparateKeys` |
| `ForgottenIsGone` | `Spec => ApplyForgetsOnlyGone` |
| `KeysSurvive` | `Spec => SigningKeySurvives` |
| `LeaksAreBounded` | `Spec => []LeakBounded` |

`SeparateKeys` is not inductive, because a key is nobody's while the read after its POST is
under way.  `HeldInv` counts a key as held from the answer on: what two resources hold is
disjoint, and below the id the server gives next, so a key just made cannot be somebody
else's.  `StepInv` keeps what was planned true until its call: the flags of a key never
change, so a replacement decided on its type is still one when the key is deleted, however
many keys came and went.  That is all `SigningKeySurvives` needs.  `LeakBounded` holds
between runs only; `LeakInv` says it of every state, with the keys nobody holds and the
creates still under way on one side and the faults on the other.  Each step is shown to do
nothing to the sum, to add one to both sides, or to turn a pending create into a key.

`ProviderProofs` proves, for every set of blocks and environments and all functions'
arguments:

| Theorem | Statement |
|---|---|
| `TypeCorrect` | `Spec => []TypeOK` |
| `EveryKindHasItsBundle` | `Spec => []BundleArrives` |
| `KeysAreKept` | `Spec => []KeysStayHome` |
| `OutcomesAreTrue` | `Spec => []OutcomeIsTrue` |
| `CausesAreTold` | `Spec => []CauseIsTold` |
| `NamesAgree` | `Spec => []ReverseZoneHoldsPtr` |

The properties speak of the last operation only, so they are not inductive: what
makes them true happened in `Configure`.  `IInv` adds `HandedInv` (what each kind was
handed are the clients the settings call for, once configured) and `LastInv` (what an
operation may have left behind); `Outcomes` joins the four properties, which `NextOutcomes`
preserves under it.  `CausesAreTold` goes operation by operation, with `PathIs` for what a name
adds to a path; the exception `Mistakable` is part of the property.  `NamesAgree` rests on `ReverseZonesAgree`:
for every prefix that ends at a label and every address of either family, the PTR name
lies under the reverse zone exactly if the prefix contains the address.
The same module proves `SerialAdvances`: of two dates and revisions in range
the later has the larger serial.

`FamilyProofs` proves, for all nameserver lists, accounts and algorithms, both ways to name
the zone and every bound:

| Theorem | Statement |
|---|---|
| `TypeCorrect` | `Spec => []TypeOK` |
| `OneRunIsEnough` | `Spec => []OneRunSuffices` |
| `ChildrenAreKept` | `Spec => ChildrenKept` |

Both properties are about why a call is still to be made, long after it was planned.
`CallInv` says so of every destroy and update (what it destroys is not wanted, or its zone
is to be replaced), `ServerInv` that a zone that is not there has nothing in it.  `RunInv`
says of a run in which nothing failed that what is wanted of each part is there or still
to be made (`ZonePart`, `RecordPart`, `KeyPart`); `ReplacePart` is what makes the parts
survive the destroy of their zone, and is where `link = "id"` is needed.  The proofs follow
the order of the calls: that the calls which wait for a failed one go with it, and that an
id not in use exists for every new key.

`SpellingProofs` proves, for every choice of subjects, blocks and texts, lists of any
length and every `SmallLimit`:

| Theorem | Statement |
|---|---|
| `MultisetsAreCompared` | `StringMultiset(c, a) <=> ToBag(c) = ToBag(a)` |
| `KeysTellMeanings` | the keys of two texts are equal exactly if their meanings are, if the server takes one of them |
| `KeysAreIdempotent` | the key of a key is the key, but for an upstream that is `HalfRead` |
| `TypeCorrect` | `Spec => []TypeOK` |
| `ImplementsMeanings` | `Spec => ImplementsManaged` |
| `IdentityIsStable` | `Spec => IdentityStable` |

The first three are about the functions of `normalise` alone.  `smallStringMultiset` is a
function defined by recursion; its proof gives the entries taken after each step in closed
form (`Taken`) and shows that this satisfies the recursion, so no induction over lists
is needed beyond the natural numbers' least element; `Takes` turns either comparison into an
injection of one list's places into the other's, and a finite injection between lists
of one length counts every value alike.  `KeysTellMeanings` goes sort by sort, from the marks a text may carry.

`IInv` says that what the server holds is spelled as it stores it (`Well`), and that the
state holds texts the server takes and a path that reaches their object (`Kept`, `Sought`):
for a TSIG key the id, for a zone the name the server answered with, for the others the key
itself made canonical.  That is the strengthening the refinement needs: an
object found through any of these paths is the one whose key means what the state's does
(`FoundIs`, `MeansIs`).  Then each action maps to its namesake of `Managed`, from lemmas
that say what a plan, a write, a read and a create do to meanings (`PlannedIs`, `PuttingIs`,
`ReadGoes`, `CreateAmongIs`).  `BlocksAssumption` is all that is asked of blocks.

Model-checked only: liveness (`EveryCallReturns` and the five `Converges`), which is out of
the prover's reach together with `ENABLED`, as is induction over data.  Every invariant and
every action property that a run checks is stated by a theorem.

## Not modelled

- Timing: durations and the backoff's growth.  Only the order matters.
- The wording of diagnostics, but for the setting that a refusal names.
- Terraform's check that an apply returns what was planned.
- A `Retry` by Go's own transport on a connection that died before use: it is the same request, still
  handled at most once in the model.
- Two blocks that ask for the same object, and the secrets of TSIG keys.
- The serials of a zone, algorithm and bits of a key.
- The error of encoding a request body, which no body of the provider meets.
- Fields of what a data source returns, time zones, TTL and pool of a cache flush.
- API methods that nothing in the provider calls: statistics, search, RPZ, server lists.
- The test harness and the repository's automation.

## Plan

Done, in this order: `ApiCall` and `Transport`, `CryptoKey`, `Zone`, `Record`,
`Keyed`, the proofs of `Transport`, `Zone` and `Keyed`, then `Compare`, `Managed` and
`Spelling`, `Provider` and `NameFunctions` with their proofs, `Family`, the comments
of `Record`, the proofs of `Record` and `CryptoKey`, the invariants of an undisturbed
`Keyed`, and the proofs of `Family` and `Spelling`.  Left, the most important first:

1. An abstract specification of the keyed resources (a map from keys to contents that runs
   move towards the configuration) and the proof that an undisturbed `Keyed` and `Record`
   implement it.
2. Safety parts of `Converges` as theorems: a plan that is empty stays empty while nothing
   interferes.
3. `Family` with the metadata and the view memberships of a zone.
