------------------------------- MODULE Record -------------------------------
(***************************************************************************)
(* powerdns_record: the resources that own the record sets of one zone,    *)
(* under Terraform runs that refresh and plan every resource and then      *)
(* apply the plans in any order.                                           *)
(*                                                                         *)
(* A pair is what identifies a set, its name and its type; the content is  *)
(* its values with the disabled flag, and two spellings a modifier takes   *)
(* for the same are one content.  A configuration gives a pair to one      *)
(* resource only.  A comment is sent only where the block has one; without *)
(* it the server may keep the one it has, or not.                          *)
(*                                                                         *)
(* An API call is one step, with the outcomes ApiCall allows it.           *)
(***************************************************************************)
EXTENDS Integers

CONSTANTS
    Resources,  \* the powerdns_record blocks of the zone
    Pairs,      \* name and type
    Contents,   \* values and disabled
    Comments,   \* comments a block may have
    TTLs,       \* the TTLs a configuration may ask for
    Modulus,    \* 2^32 in the code, scaled down
    Offered,    \* bound: the blocks that may be written
    MaxFaults,  \* bound: faulty API calls
    MaxEdits,   \* bound: edits of the configuration and imports
    MaxOutside  \* bound: changes made by others

ASSUME ModulusAssumption == Modulus \in Nat \ {0}
ASSUME TTLsAssumption == TTLs \subseteq Int
ASSUME ValuesAssumption == "none" \notin Pairs \cup Contents \cup Comments
ASSUME BoundsAssumption == {MaxFaults, MaxEdits, MaxOutside} \subseteq Nat

VARIABLES
    config,     \* config[r]: the block of r, or None
    state,      \* state[r]: what Terraform remembers of r, or None
    step,       \* step[r]: the next API call of r in the current run
    zone,       \* the zone exists
    rrsets,     \* rrsets[p]: the set the zone holds at p, or NoSet
    late,       \* requests given up on that the server may still carry out
    released,   \* history: pairs a resource deleted in the current run
    faults, edits, outside  \* how much of each bound is used

serverVars == <<zone, rrsets, late>>
vars == <<config, state, step, zone, rrsets, late, released, faults, edits, outside>>

Wide == TTLs \cup {n % Modulus : n \in TTLs}
Noted == Comments \cup {"none"}
Entry == [pair : Pairs, ttl : Wide, content : Contents, comment : Noted]
None == [pair |-> "none", ttl |-> 0, content |-> "none", comment |-> "none"]
Set == [ttl : {n % Modulus : n \in TTLs}, content : Contents, comment : Noted]
NoSet == [ttl |-> 0, content |-> "none", comment |-> "none"]
Request == [pair : Pairs, set : Set \cup {NoSet}]
Steps == {"rest", "refresh", "create", "update", "delete", "replace"}

\* No two blocks of a configuration ask for the same pair.
Distinct(c) == \A r, s \in Resources : r # s /\ c[r] # None => c[r].pair # c[s].pair

Blocks == [pair : Pairs, ttl : TTLs, content : Contents, comment : Noted]
ASSUME OfferedAssumption == Offered \subseteq Blocks
Configs == {c \in [Resources -> Offered \cup {None}] : Distinct(c)}

TypeOK ==
    /\ config \in Configs
    /\ state \in [Resources -> Entry \cup {None}]
    /\ step \in [Resources -> Steps]
    /\ zone \in BOOLEAN
    /\ rrsets \in [Pairs -> Set \cup {NoSet}]
    /\ late \subseteq Request
    /\ released \subseteq Pairs
    /\ faults \in 0 .. MaxFaults
    /\ edits \in 0 .. MaxEdits
    /\ outside \in 0 .. MaxOutside

Init ==
    /\ config \in Configs
    /\ state = [r \in Resources |-> None]
    /\ step = [r \in Resources |-> "rest"]
    /\ zone = TRUE
    /\ rrsets = [p \in Pairs |-> NoSet]
    /\ late = {}
    /\ released = {}
    /\ faults = 0 /\ edits = 0 /\ outside = 0

Fault == faults < MaxFaults /\ faults' = faults + 1
NoFault == UNCHANGED faults

Resting == \A r \in Resources : step[r] = "rest"
Applying == \A r \in Resources : step[r] # "refresh"

-----------------------------------------------------------------------------
(***************************************************************************)
(* The server and planning.                                                *)
(***************************************************************************)

\* The comment a set has after a PATCH, which need not mention one.
Kept(request) ==
    IF request.set = NoSet \/ request.set.comment # "none" THEN {request.set.comment}
    ELSE {"none", rrsets[request.pair].comment}

\* A TTL of zero is left out of the body (omitempty), and without one the server
\* refuses to replace a set (422).
Refused(request) == request.set # NoSet /\ request.set.ttl = 0

\* PATCH: REPLACE writes the whole set, DELETE removes it (NoSet).
Serve(request) ==
    IF zone /\ ~ Refused(request)
    THEN \E c \in Kept(request) :
            rrsets' = [rrsets EXCEPT ![request.pair] = [request.set EXCEPT !.comment = c]]
    ELSE UNCHANGED rrsets

\* Seeded fault: a set that is already known is sent with the TTL it had.
RRSetFromState(r) ==
    [ttl |-> (IF state[r] = None THEN config[r].ttl ELSE state[r].ttl) % Modulus,
     content |-> config[r].content, comment |-> config[r].comment]

\* Seeded fault: the conversion keeps every bit.
RRSetFullWidth(r) ==
    [ttl |-> config[r].ttl, content |-> config[r].content, comment |-> config[r].comment]

\* rrsetFromModel: the TTL is converted to 32 bits, an empty comment is not sent.
RRSetFromModel(r) ==
    [ttl |-> config[r].ttl % Modulus, content |-> config[r].content, comment |-> config[r].comment]

\* Seeded fault: the pair does not force replacement.
RequiresReplaceNever(c, s) == FALSE

RequiresReplace(c, s) == c.pair # s.pair

Action(c, s) ==
    CASE c = None /\ s = None -> "rest"
      [] c = None /\ s # None -> "delete"
      [] c # None /\ s = None -> "create"
      [] OTHER -> IF RequiresReplace(c, s) THEN "replace"
                  ELSE IF c # s THEN "update" ELSE "rest"

StartRun ==
    /\ Resting
    /\ step' = [r \in Resources |-> "refresh"]
    /\ released' = {}
    /\ UNCHANGED <<config, state, serverVars, faults, edits, outside>>

-----------------------------------------------------------------------------
(***************************************************************************)
(* The operations of the resource.                                         *)
(***************************************************************************)

\* findRRSet and applyRRSet: the set at the pair of r, if the zone has one.
Observed(p) ==
    [pair |-> p, ttl |-> rrsets[p].ttl, content |-> rrsets[p].content, comment |-> rrsets[p].comment]

\* Seeded fault: a set that is not there is left in the state.
RefreshedSticky(r) ==
    IF state[r] = None \/ ~zone THEN None
    ELSE IF rrsets[state[r].pair] = NoSet THEN state[r] ELSE Observed(state[r].pair)

Refreshed(r) ==
    IF state[r] = None \/ ~zone \/ rrsets[state[r].pair] = NoSet THEN None
    ELSE Observed(state[r].pair)

\* Read and the plan made of it.  An error other than a missing zone ends the
\* run before anything is applied.
Read(r) ==
    /\ step[r] = "refresh"
    /\ \/ LET s == Refreshed(r)
          IN  /\ state' = [state EXCEPT ![r] = s]
              /\ step' = [step EXCEPT ![r] = Action(config[r], s)]
              /\ NoFault
       \/ /\ state[r] # None
          /\ step' = [s \in Resources |-> "rest"]
          /\ Fault
          /\ UNCHANGED state
    /\ UNCHANGED <<config, serverVars, released, edits, outside>>

Finish(r) == step' = [step EXCEPT ![r] = "rest"]

\* An error: Terraform keeps the state it had.
Fail(r) == Finish(r) /\ UNCHANGED state

\* The call succeeded, at once or after attempts that were given up on; one of
\* those may be under way still.
Answered(request) ==
    \/ NoFault /\ UNCHANGED late
    \/ Fault /\ late' = late \cup {request}

\* The call failed for good: with no effect, with one, or with one to come.
Lost(r, request) ==
    /\ Fault
    /\ Fail(r)
    /\ \/ UNCHANGED <<rrsets, late>>
       \/ Serve(request) /\ UNCHANGED late
       \/ late' = late \cup {request} /\ UNCHANGED rrsets

\* Create and Update are the same write; neither reads the result back.
Write(r) ==
    LET request == [pair |-> config[r].pair, set |-> RRSetFromModel(r)] IN
    /\ step[r] \in {"create", "update"}
    /\ Applying
    /\ \/ /\ zone /\ ~ Refused(request)
          /\ Serve(request)
          /\ state' = [state EXCEPT ![r] = config[r]]
          /\ Finish(r)
          /\ Answered(request)
       \/ (~ zone \/ Refused(request)) /\ Fail(r) /\ NoFault /\ UNCHANGED <<rrsets, late>>
       \/ Lost(r, request)
    /\ UNCHANGED <<config, zone, released, edits, outside>>

\* Seeded fault: the set to delete is identified by the plan.
DoomedByPlan(r) == IF config[r] = None THEN state[r].pair ELSE config[r].pair

\* The pair a Delete names.
Doomed(r) == state[r].pair

\* Delete, on its own or as the first half of a replacement; a zone that is
\* not there any more (404) counts as deleted.
Delete(r) ==
    LET request == [pair |-> Doomed(r), set |-> NoSet] IN
    /\ step[r] \in {"delete", "replace"}
    /\ Applying
    /\ \/ /\ Serve(request)
          /\ state' = [state EXCEPT ![r] = None]
          /\ step' = [step EXCEPT ![r] = IF @ = "replace" THEN "create" ELSE "rest"]
          /\ released' = released \cup {state[r].pair}
          /\ Answered(request)
       \/ Lost(r, request) /\ UNCHANGED released
    /\ UNCHANGED <<config, zone, edits, outside>>

\* ImportState names the pair of the block, and the read that follows finds
\* the set.
Import(r) ==
    /\ Resting
    /\ config[r] # None /\ state[r] = None
    /\ zone /\ rrsets[config[r].pair] # NoSet
    /\ edits < MaxEdits /\ edits' = edits + 1
    /\ state' = [state EXCEPT ![r] = Observed(config[r].pair)]
    /\ UNCHANGED <<config, step, serverVars, released, faults, outside>>

-----------------------------------------------------------------------------
(***************************************************************************)
(* The environment.                                                        *)
(***************************************************************************)

\* The operator changes the block of one resource, or moves a block to
\* another address: the old address goes and the new one takes its pair.
Edit ==
    /\ Resting
    /\ edits < MaxEdits /\ edits' = edits + 1
    /\ \/ \E r \in Resources, c \in Offered \cup {None} :
             config' = [config EXCEPT ![r] = c]
       \/ \E r, s \in Resources :
             r # s /\ config' = [config EXCEPT ![r] = config[s], ![s] = config[r]]
    /\ config' # config
    /\ Distinct(config')
    /\ UNCHANGED <<state, step, serverVars, released, faults, outside>>

\* Somebody else writes or removes a set, or removes the zone.
Outside ==
    /\ zone
    /\ outside < MaxOutside /\ outside' = outside + 1
    /\ \/ \E p \in Pairs, x \in Set \cup {NoSet} :
             x # rrsets[p] /\ rrsets' = [rrsets EXCEPT ![p] = x] /\ UNCHANGED zone
       \/ zone' = FALSE /\ rrsets' = [p \in Pairs |-> NoSet]
    /\ UNCHANGED <<config, state, step, late, released, faults, edits>>

\* The server carries out a request its client has given up on.
Deliver(request) ==
    /\ Serve(request)
    /\ late' = late \ {request}
    /\ UNCHANGED <<config, state, step, zone, released, faults, edits, outside>>

Operate(r) == Read(r) \/ Write(r) \/ Delete(r)

Next ==
    \/ StartRun
    \/ \E r \in Resources : Operate(r) \/ Import(r)
    \/ Edit
    \/ Outside
    \/ \E request \in late : Deliver(request)

\* Every call returns, and the configuration is applied again and again.
Fairness == WF_vars(StartRun) /\ \A r \in Resources : WF_vars(Operate(r))

Spec == Init /\ [][Next]_vars
FairSpec == Spec /\ Fairness

-----------------------------------------------------------------------------
(***************************************************************************)
(* Properties.                                                             *)
(***************************************************************************)

\* Nobody interfered, and every call was answered.
Undisturbed == faults = 0 /\ outside = 0

\* Undisturbed, a set that a resource reports between runs is at the server as
\* it was planned (but for the width of the TTL and a comment that was taken out
\* of the block), unless another resource gave its pair up in the same run.
StateMatchesServer ==
    Undisturbed /\ Resting =>
        \A r \in Resources : state[r] # None =>
            \/ state[r].pair \in released
            \/ LET set == rrsets[state[r].pair]
               IN  /\ set.content = state[r].content /\ set.ttl = state[r].ttl % Modulus
                   /\ state[r].comment \in {set.comment, "none"}

\* Undisturbed, moving or removing a block leaves no set behind.
NoLeftovers ==
    Undisturbed /\ Resting =>
        \A p \in Pairs : rrsets[p] # NoSet => \E r \in Resources : state[r].pair = p

\* A step of the provider, and not of somebody else.
Provider == outside' = outside /\ late \subseteq late'

\* A run touches no set that neither the configuration nor the state names,
\* and deletes none that only the configuration names.
OtherSetsKept ==
    [][Provider => \A p \in Pairs : rrsets'[p] # rrsets[p] =>
          \E r \in Resources :
              \/ state[r].pair = p
              \/ config[r].pair = p /\ rrsets'[p] # NoSet]_vars

\* A TTL that does not fit in 32 bits never reads back as it was written.
TooWide(r) == config[r] # None /\ config[r].ttl \notin 0 .. Modulus - 1

\* A TTL of zero is never sent.
Unsent(r) == config[r] # None /\ config[r].ttl % Modulus = 0

\* A comment the block does not have any more, and the server still has.
PendingComment(r) ==
    config[r] # None /\ config[r].comment = "none" /\ rrsets[config[r].pair].comment # "none"

\* Nothing is left to do for r, and the server has the set of its block.
Settled(r) ==
    /\ step[r] \in {"rest", "refresh"}
    /\ state[r] = config[r]
    /\ config[r] # None => rrsets[config[r].pair] = RRSetFromModel(r)

\* Once edits, faults and outside changes stop, applying again reaches the
\* block of every resource and from then on plans nothing for it, unless its TTL
\* is zero or too wide or its comment is to be cleared.
Converges ==
    <>[](zone => \A r \in Resources : Settled(r) \/ TooWide(r) \/ Unsent(r) \/ PendingComment(r))

-----------------------------------------------------------------------------
(***************************************************************************)
(* What the comments of the code claim.                                    *)
(***************************************************************************)

\* "One resource owns one name-and-type pair": a run never deletes a set that
\* another resource has just reported as its own.
NoRecordVanishes ==
    [][Provider => \A p \in Pairs :
          rrsets[p] # NoSet /\ rrsets'[p] = NoSet => \A r \in Resources : state'[r].pair # p]_vars
=============================================================================
