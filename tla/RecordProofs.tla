---------------------------- MODULE RecordProofs ----------------------------
(***************************************************************************)
(* Record leaves no set behind, takes none from anybody else and reports   *)
(* what is at the server, for every set of resources, pairs, contents,     *)
(* comments and TTLs, whether or not they are sent, every width of the TTL *)
(* and every bound.                                                        *)
(***************************************************************************)
EXTENDS Record, TLAPS

(***************************************************************************)
(* The inductive invariant.                                                *)
(***************************************************************************)

\* What the next call of a resource is made from.
StepInv ==
    \A r \in Resources :
        /\ step[r] = "create" => config[r] # None /\ state[r] = None
        /\ step[r] = "update" =>
              config[r] # None /\ state[r] # None /\ config[r].pair = state[r].pair
        /\ step[r] \in {"delete", "replace"} => state[r] # None
        /\ step[r] = "replace" => config[r] # None

\* A resource whose entry the current run has no reason to remove.
Staying(r) == state[r] # None /\ step[r] \notin {"refresh", "delete", "replace"}

Matches(r) ==
    LET set == rrsets[state[r].pair]
    IN  /\ set.content = state[r].content /\ set.ttl = state[r].ttl % Modulus
        /\ state[r].comment \in {set.comment, "none"}

Calm == zone /\ late = {}
Owned == \A p \in Pairs : rrsets[p] # NoSet => \E r \in Resources : state[r].pair = p

\* Within a run, a resource that has nothing more to do has the pair of its
\* block; between runs an edit may have changed the block.
Done ==
    ~ Resting => \A r \in Resources :
        step[r] = "rest" /\ state[r] # None => config[r].pair = state[r].pair
Reported == \A r \in Resources : Staying(r) => state[r].pair \in released \/ Matches(r)

\* What holds as long as nobody interferes and every call is answered.
QuietInv == Undisturbed => Calm /\ Owned /\ Done /\ Reported

IInv == TypeOK /\ StepInv /\ QuietInv

-----------------------------------------------------------------------------
(***************************************************************************)
(* Lemmas about the operators.                                             *)
(***************************************************************************)

\* A TTL as the server holds it.
Cut == {n % Modulus : n \in TTLs}

LEMMA CutIsCut == \A t \in TTLs : t % Modulus \in Cut
BY DEF Cut

\* Cutting twice is cutting once.
LEMMA CutStays == \A t \in Cut : t \in Nat /\ t % Modulus = t
<1>. SUFFICES ASSUME NEW n \in TTLs PROVE n % Modulus \in Nat /\ (n % Modulus) % Modulus = n % Modulus
  BY DEF Cut
<1>1. n \in Int /\ Modulus \in Nat \ {0}
  BY TTLsAssumption, ModulusAssumption
<1>2. n % Modulus \in 0 .. Modulus - 1
  BY <1>1
<1>. QED  BY <1>1, <1>2

\* The absence of a block is no block, and its pair no pair; likewise a set.
LEMMA NoneIsNothing ==
    /\ None.pair \notin Pairs
    /\ None \notin Entry /\ None \notin Blocks
    /\ NoSet \notin Set
    /\ NoSet.comment = "none"
BY ValuesAssumption DEF None, Entry, Blocks, NoSet, Set

\* What a configuration may say is an entry.
LEMMA BlocksAreEntries == Blocks \subseteq Entry
BY DEF Blocks, Entry, Wide

\* A configuration, resource by resource.
LEMMA ConfigIs ==
    ASSUME TypeOK
    PROVE  /\ config \in [Resources -> Blocks \cup {None}]
           /\ \A r, s \in Resources : r # s /\ config[r] # None => config[r].pair # config[s].pair
BY OfferedAssumption DEF TypeOK, Configs, Distinct

\* A write carries a set.
LEMMA RRSetIsSet ==
    ASSUME TypeOK, NEW r \in Resources, config[r] # None
    PROVE  /\ config[r] \in Blocks
           /\ RRSetFromModel(r) \in Set
           /\ [pair |-> config[r].pair, set |-> RRSetFromModel(r)] \in Request
<1>1. config[r] \in Blocks
  BY ConfigIs
<1>2. RRSetFromModel(r) \in Set
  BY <1>1, CutIsCut DEF RRSetFromModel, Set, Blocks, Cut
<1>. QED  BY <1>1, <1>2 DEF Request, Blocks

\* A request changes one pair, to a set if it carries one and to none if not.
LEMMA ServeIs ==
    ASSUME TypeOK, NEW q \in Request, Serve(q)
    PROVE  /\ rrsets' \in [Pairs -> Set \cup {NoSet}]
           /\ \A p \in Pairs : p # q.pair => rrsets'[p] = rrsets[p]
           /\ q.set = NoSet /\ zone => rrsets'[q.pair] = NoSet
           /\ q.set \in Set => rrsets'[q.pair] = rrsets[q.pair] \/ rrsets'[q.pair] # NoSet
           /\ zone /\ q.set \in Set /\ ~ Refused(q) =>
                 /\ rrsets'[q.pair].content = q.set.content
                 /\ rrsets'[q.pair].ttl = q.set.ttl
                 /\ q.set.comment \in {rrsets'[q.pair].comment, "none"}
<1>0. q.pair \in Pairs /\ q.set \in Set \cup {NoSet} /\ rrsets \in [Pairs -> Set \cup {NoSet}]
  BY DEF TypeOK, Request
<1>1. CASE ~ zone \/ Refused(q)
  BY <1>0, <1>1, NoneIsNothing DEF Serve, Refused
<1>2. CASE zone /\ ~ Refused(q)
  <2>1. PICK c \in Kept(q) : rrsets' = [rrsets EXCEPT ![q.pair] = [q.set EXCEPT !.comment = c]]
    BY <1>2 DEF Serve
  <2>2. /\ \A p \in Pairs : p # q.pair => rrsets'[p] = rrsets[p]
        /\ rrsets'[q.pair] = [q.set EXCEPT !.comment = c]
    BY <1>0, <2>1
  <2>3. CASE q.set = NoSet
    <3>1. c = "none"
      BY <2>3, NoneIsNothing DEF Kept
    <3>2. [q.set EXCEPT !.comment = c] = NoSet
      BY <2>3, <3>1 DEF NoSet
    <3>. QED  BY <1>0, <2>1, <2>2, <2>3, <3>2, NoneIsNothing
  <2>4. CASE q.set \in Set
    <3>1. rrsets[q.pair].comment \in Noted
      BY <1>0 DEF Set, NoSet, Noted
    <3>2. q.set # NoSet
      BY <2>4, NoneIsNothing
    <3>3. c \in Noted /\ (q.set.comment # "none" => c = q.set.comment)
      BY <2>4, <3>1, <3>2 DEF Kept, Set, Noted
    <3>4. /\ [q.set EXCEPT !.comment = c] \in Set
          /\ [q.set EXCEPT !.comment = c].content = q.set.content
          /\ [q.set EXCEPT !.comment = c].ttl = q.set.ttl
          /\ [q.set EXCEPT !.comment = c].comment = c
      BY <2>4, <3>3 DEF Set
    <3>. QED  BY <1>0, <2>1, <2>2, <3>2, <3>3, <3>4, <2>4, NoneIsNothing
  <2>. QED  BY <1>0, <2>3, <2>4
<1>. QED  BY <1>1, <1>2

\* The bounded counters.
LEMMA Counters ==
    ASSUME TypeOK
    PROVE  /\ Fault => faults' \in 0 .. MaxFaults /\ faults' # 0
           /\ edits < MaxEdits /\ edits' = edits + 1 => edits' \in 0 .. MaxEdits
           /\ outside < MaxOutside /\ outside' = outside + 1 =>
                 outside' \in 0 .. MaxOutside /\ outside' # 0 /\ outside' # outside
<1>1. MaxFaults \in Nat /\ MaxEdits \in Nat /\ MaxOutside \in Nat
  BY BoundsAssumption
<1>. QED  BY <1>1 DEF TypeOK, Fault

\* What is found at a pair is an entry that matches it.
LEMMA ObservedIs ==
    ASSUME TypeOK, NEW p \in Pairs, rrsets[p] # NoSet
    PROVE  /\ Observed(p) \in Entry
           /\ Observed(p).pair = p
           /\ Observed(p).content = rrsets[p].content
           /\ Observed(p).comment = rrsets[p].comment
           /\ Observed(p).ttl = rrsets[p].ttl
           /\ rrsets[p].ttl % Modulus = rrsets[p].ttl
<1>1. rrsets[p] \in Set
  BY DEF TypeOK
<1>2. rrsets[p].ttl \in Cut
  BY <1>1 DEF Set, Cut
<1>. QED  BY <1>1, <1>2, CutStays DEF Observed, Entry, Set, Wide, Cut

\* A refresh forgets an entry or keeps its pair, and forgets it, while the
\* zone is there, only if the server has no set.
LEMMA RefreshedIs ==
    ASSUME TypeOK, NEW r \in Resources
    PROVE  /\ Refreshed(r) \in Entry \cup {None}
           /\ Refreshed(r) # None =>
                 /\ Refreshed(r) = Observed(state[r].pair)
                 /\ state[r].pair \in Pairs
                 /\ rrsets[state[r].pair] # NoSet
           /\ Refreshed(r) = None /\ state[r] # None /\ zone => rrsets[state[r].pair] = NoSet
<1>1. state[r] # None => state[r].pair \in Pairs
  BY DEF TypeOK, Entry
<1>. QED  BY <1>1, ObservedIs, NoneIsNothing DEF Refreshed

\* What is planned is made from the block and the entry.
LEMMA ActionIs ==
    ASSUME NEW c \in Blocks \cup {None}, NEW s \in Entry \cup {None}
    PROVE  /\ Action(c, s) \in Steps
           /\ Action(c, s) = "create" => c # None /\ s = None
           /\ Action(c, s) = "update" => c # None /\ s # None /\ c.pair = s.pair
           /\ Action(c, s) \in {"delete", "replace"} => s # None
           /\ Action(c, s) = "replace" => c # None
           /\ Action(c, s) = "rest" /\ s # None => c.pair = s.pair
           /\ Action(c, s) # "refresh"
<1>1. CASE c = None /\ s = None
  BY <1>1 DEF Action, Steps
<1>2. CASE c = None /\ s # None
  BY <1>2 DEF Action, Steps
<1>3. CASE c # None /\ s = None
  BY <1>3 DEF Action, Steps
<1>4. CASE c # None /\ s # None
  BY <1>4 DEF Action, Steps, RequiresReplace
<1>. QED  BY <1>1, <1>2, <1>3, <1>4

\* A pair that exists is not the pair of an absent block or entry.
LEMMA PairOfSomething ==
    ASSUME TypeOK, NEW r \in Resources
    PROVE  /\ state[r].pair \in Pairs <=> state[r] # None
           /\ config[r].pair \in Pairs <=> config[r] # None
<1>1. state[r] \in Entry \cup {None} /\ config[r] \in Blocks \cup {None}
  BY ConfigIs DEF TypeOK
<1>. QED  BY <1>1, NoneIsNothing DEF Entry, Blocks

-----------------------------------------------------------------------------
(***************************************************************************)
(* Every action preserves the invariant.                                   *)
(***************************************************************************)

LEMMA InitEstablishes == Init => IInv
<1>. SUFFICES ASSUME Init PROVE IInv
  OBVIOUS
<1>1. TypeOK
  BY BoundsAssumption DEF Init, TypeOK, Steps, Entry, Set
<1>2. StepInv
  BY DEF Init, StepInv
<1>3. QuietInv
  BY DEF Init, QuietInv, Calm, Owned, Done, Reported, Resting, Staying
<1>. QED  BY <1>1, <1>2, <1>3 DEF IInv

LEMMA StartRunKeeps == ASSUME IInv, StartRun PROVE IInv'
<1>. USE DEF IInv
<1>1. TypeOK'
  BY DEF StartRun, TypeOK, Steps, serverVars
<1>2. StepInv'
  BY DEF StartRun, StepInv
<1>3. QuietInv'
  BY DEF StartRun, QuietInv, Undisturbed, Calm, Owned, Done, Reported, Resting, Staying, serverVars
<1>. QED  BY <1>1, <1>2, <1>3

LEMMA ReadKeeps == ASSUME IInv, NEW r \in Resources, Read(r) PROVE IInv'
<1>. USE DEF IInv
<1>0. /\ step[r] = "refresh"
      /\ UNCHANGED <<config, zone, rrsets, late, released, edits, outside>>
  BY DEF Read, serverVars
<1>1. CASE /\ Fault /\ UNCHANGED state
           /\ step' = [s \in Resources |-> "rest"]
  <2>1. faults' \in 0 .. MaxFaults /\ faults' # 0
    BY <1>1, Counters
  <2>2. TypeOK'
    BY <1>0, <1>1, <2>1 DEF TypeOK, Steps
  <2>3. StepInv'
    BY <1>1 DEF StepInv
  <2>4. QuietInv'
    BY <2>1 DEF QuietInv, Undisturbed
  <2>. QED  BY <2>2, <2>3, <2>4
<1>2. CASE /\ state' = [state EXCEPT ![r] = Refreshed(r)]
           /\ step' = [step EXCEPT ![r] = Action(config[r], Refreshed(r))]
           /\ UNCHANGED faults
  <2>1. /\ config[r] \in Blocks \cup {None}
        /\ Refreshed(r) \in Entry \cup {None}
        /\ state \in [Resources -> Entry \cup {None}] /\ step \in [Resources -> Steps]
    BY ConfigIs, RefreshedIs DEF TypeOK
  <2>2. /\ state'[r] = Refreshed(r) /\ step'[r] = Action(config[r], Refreshed(r))
        /\ \A s \in Resources : s # r => state'[s] = state[s] /\ step'[s] = step[s]
    BY <1>2, <2>1
  <2>3. TypeOK'
    <3>1. Action(config[r], Refreshed(r)) \in Steps
      BY <2>1, ActionIs
    <3>. QED  BY <1>0, <1>2, <2>1, <3>1 DEF TypeOK
  <2>4. StepInv'
    BY <1>0, <2>1, <2>2, ActionIs DEF StepInv
  <2>5. ASSUME QuietInv, Undisturbed PROVE (Calm /\ Owned /\ Done /\ Reported)'
    <3>0. zone /\ late = {} /\ Owned /\ Done /\ Reported
      BY <2>5 DEF QuietInv, Calm
    <3>1. Calm'
      BY <1>0, <3>0 DEF Calm
    <3>2. Owned'
      <4>. SUFFICES ASSUME NEW p \in Pairs, rrsets[p] # NoSet
                    PROVE  \E s \in Resources : state'[s].pair = p
        BY <1>0 DEF Owned
      <4>1. PICK s \in Resources : state[s].pair = p
        BY <3>0 DEF Owned
      <4>2. CASE s = r
        <5>1. state[r] # None
          BY <4>1, <4>2, PairOfSomething
        <5>2. Refreshed(r) = Observed(p)
          BY <3>0, <4>1, <4>2, <5>1, RefreshedIs
        <5>. QED  BY <2>2, <5>2, ObservedIs
      <4>. QED  BY <2>2, <4>1, <4>2
    <3>3. Done'
      <4>1. ~ Resting
        BY <1>0 DEF Resting
      <4>2. \A s \in Resources : s # r =>
               (step'[s] = "rest" /\ state'[s] # None => config'[s].pair = state'[s].pair)
        BY <1>0, <2>2, <3>0, <4>1 DEF Done
      <4>3. step'[r] = "rest" /\ state'[r] # None => config'[r].pair = state'[r].pair
        BY <1>0, <2>1, <2>2, ActionIs
      <4>. QED  BY <4>2, <4>3 DEF Done
    <3>4. Reported'
      <4>1. \A s \in Resources : s # r =>
               (Staying(s)' => state'[s].pair \in released' \/ Matches(s)')
        BY <1>0, <2>2, <3>0 DEF Reported, Staying, Matches
      <4>2. state'[r] # None => Matches(r)'
        <5>. SUFFICES ASSUME Refreshed(r) # None PROVE Matches(r)'
          BY <2>2
        <5>1. /\ state[r].pair \in Pairs /\ rrsets[state[r].pair] # NoSet
              /\ state'[r] = Observed(state[r].pair)
          BY <2>2, RefreshedIs
        <5>. QED  BY <1>0, <5>1, ObservedIs DEF Matches
      <4>. QED  BY <4>1, <4>2 DEF Reported, Staying
    <3>. QED  BY <3>1, <3>2, <3>3, <3>4
  <2>6. QuietInv'
    BY <1>0, <1>2, <2>5 DEF QuietInv, Undisturbed
  <2>. QED  BY <2>3, <2>4, <2>6
<1>. QED  BY <1>1, <1>2 DEF Read, NoFault

\* An error keeps the types and uses up a fault.
LEMMA LostIs ==
    ASSUME IInv, NEW r \in Resources, NEW q \in Request, Lost(r, q),
           UNCHANGED <<config, zone, released, edits, outside>>
    PROVE  IInv'
<1>. USE DEF IInv
<1>0. /\ faults' \in 0 .. MaxFaults /\ faults' # 0
      /\ state' = state /\ step' = [step EXCEPT ![r] = "rest"]
  BY Counters DEF Lost, Fail, Finish
<1>1. rrsets' \in [Pairs -> Set \cup {NoSet}] /\ late' \subseteq Request
  BY ServeIs DEF Lost, TypeOK
<1>2. TypeOK'
  BY <1>0, <1>1 DEF TypeOK, Steps
<1>3. StepInv'
  BY <1>0 DEF StepInv, TypeOK
<1>4. QuietInv'
  BY <1>0 DEF QuietInv, Undisturbed
<1>. QED  BY <1>2, <1>3, <1>4

\* A success keeps the types, and uses up a fault if an attempt is left.
LEMMA AnsweredIs ==
    ASSUME TypeOK, NEW q \in Request, Answered(q)
    PROVE  /\ late' \subseteq Request
           /\ faults' \in 0 .. MaxFaults
           /\ faults' = 0 => faults' = faults /\ late' = late
<1>1. CASE NoFault /\ UNCHANGED late
  BY <1>1 DEF NoFault, TypeOK
<1>2. CASE Fault /\ late' = late \cup {q}
  BY <1>2, Counters DEF TypeOK
<1>. QED  BY <1>1, <1>2 DEF Answered

\* A write in its place: nothing is being refreshed and the zone is there.
LEMMA WriteKeeps == ASSUME IInv, NEW r \in Resources, Write(r) PROVE IInv'
<1>. USE DEF IInv
<1>. DEFINE q == [pair |-> config[r].pair, set |-> RRSetFromModel(r)]
<1>0. /\ step[r] \in {"create", "update"} /\ Applying
      /\ UNCHANGED <<config, zone, released, edits, outside>>
      /\ config[r] # None
  BY DEF Write, StepInv
<1>q. /\ config[r] \in Blocks /\ RRSetFromModel(r) \in Set /\ q \in Request
      /\ config[r] \in Entry /\ config[r].pair \in Pairs
  BY <1>0, RRSetIsSet, BlocksAreEntries DEF Blocks
<1>1. CASE Lost(r, q)
  BY <1>0, <1>1, <1>q, LostIs
<1>2. CASE (~ zone \/ Refused(q)) /\ Fail(r) /\ NoFault /\ UNCHANGED <<rrsets, late>>
  <2>1. state' = state /\ step' = [step EXCEPT ![r] = "rest"]
    BY <1>2 DEF Fail, Finish
  <2>2. TypeOK'
    BY <1>0, <1>2, <2>1 DEF TypeOK, Steps, NoFault
  <2>3. StepInv'
    BY <1>0, <2>1 DEF StepInv, TypeOK
  <2>4. QuietInv'
    <3>. SUFFICES ASSUME Undisturbed, Calm, Owned, Done, Reported
                  PROVE  (Calm /\ Owned /\ Done /\ Reported)'
      BY <1>0, <1>2 DEF QuietInv, Undisturbed, NoFault
    <3>1. ~ Resting
      BY <1>0 DEF Resting
    <3>2. Done'
      <4>1. /\ step'[r] = "rest" /\ state' = state
            /\ \A s \in Resources : s # r => step'[s] = step[s]
        BY <2>1 DEF TypeOK
      <4>2. state[r] # None => config[r].pair = state[r].pair
        BY <1>0 DEF StepInv
      <4>. QED  BY <1>0, <3>1, <4>1, <4>2 DEF Done
    <3>. QED  BY <1>0, <1>2, <2>1, <3>2 DEF Calm, Owned, Reported, Staying, Matches, TypeOK
  <2>. QED  BY <2>2, <2>3, <2>4
<1>3. CASE /\ zone /\ ~ Refused(q) /\ Serve(q)
           /\ state' = [state EXCEPT ![r] = config[r]]
           /\ Finish(r) /\ Answered(q)
  <2>0. /\ late' \subseteq Request /\ faults' \in 0 .. MaxFaults
        /\ faults' = 0 => faults' = faults /\ late' = late
    <3>. HIDE DEF q
    <3>. QED  BY <1>3, <1>q, AnsweredIs
  <2>1. /\ state \in [Resources -> Entry \cup {None}] /\ step \in [Resources -> Steps]
        /\ step' = [step EXCEPT ![r] = "rest"]
    BY <1>3 DEF TypeOK, Finish
  <2>2. /\ state'[r] = config[r] /\ step'[r] = "rest"
        /\ \A s \in Resources : s # r => state'[s] = state[s] /\ step'[s] = step[s]
    BY <1>3, <2>1
  <2>3. /\ rrsets' \in [Pairs -> Set \cup {NoSet}]
        /\ \A p \in Pairs : p # config[r].pair => rrsets'[p] = rrsets[p]
        /\ rrsets'[config[r].pair].content = config[r].content
        /\ rrsets'[config[r].pair].ttl = config[r].ttl % Modulus
        /\ config[r].comment \in {rrsets'[config[r].pair].comment, "none"}
    BY <1>3, <1>q, ServeIs DEF RRSetFromModel
  <2>4. TypeOK'
    BY <1>0, <1>3, <1>q, <2>0, <2>1, <2>3 DEF TypeOK, Steps
  <2>5. StepInv'
    BY <1>0, <2>2 DEF StepInv
  <2>6. ASSUME QuietInv, Undisturbed, Undisturbed' PROVE (Calm /\ Owned /\ Done /\ Reported)'
    <3>0. zone /\ late = {} /\ Owned /\ Done /\ Reported
      BY <2>6 DEF QuietInv, Calm
    <3>1. Calm'
      BY <1>0, <2>0, <2>6, <3>0 DEF Calm, Undisturbed
    <3>2. Owned'
      <4>. SUFFICES ASSUME NEW p \in Pairs, rrsets'[p] # NoSet
                    PROVE  \E s \in Resources : state'[s].pair = p
        BY DEF Owned
      <4>1. CASE p = config[r].pair
        BY <2>2, <4>1
      <4>2. CASE p # config[r].pair
        <5>1. PICK s \in Resources : state[s].pair = p
          BY <2>3, <3>0, <4>2 DEF Owned
        <5>2. s # r
          <6>. SUFFICES ASSUME s = r PROVE FALSE
            OBVIOUS
          <6>1. state[r] # None
            BY <5>1, PairOfSomething
          <6>. QED  BY <1>0, <4>2, <5>1, <6>1 DEF StepInv
        <5>. QED  BY <2>2, <5>1, <5>2
      <4>. QED  BY <4>1, <4>2
    <3>n. ~ Resting
      BY <1>0 DEF Resting
    <3>3. Done'
      BY <1>0, <2>2, <3>0, <3>n DEF Done
    <3>4. Reported'
      <4>1. Matches(r)'
        BY <2>2, <2>3 DEF Matches
      <4>2. ASSUME NEW s \in Resources, s # r, Staying(s)'
            PROVE  state'[s].pair \in released' \/ Matches(s)'
        <5>1. Staying(s) /\ state'[s] = state[s]
          BY <2>2, <4>2 DEF Staying
        <5>2. step[s] \in {"rest", "create", "update"}
          BY <2>1, <5>1 DEF Staying, Steps
        <5>3. config[s].pair = state[s].pair
          BY <3>0, <3>n, <5>1, <5>2 DEF Done, StepInv, Staying
        <5>4. state[s].pair # config[r].pair
          BY <1>0, <4>2, <5>3, ConfigIs
        <5>5. state[s].pair \in Pairs
          BY <5>1, PairOfSomething DEF Staying
        <5>. QED  BY <1>0, <2>3, <3>0, <5>1, <5>4, <5>5 DEF Reported, Matches
      <4>. QED  BY <4>1, <4>2 DEF Reported
    <3>. QED  BY <3>1, <3>2, <3>3, <3>4
  <2>7. QuietInv'
    BY <1>0, <2>0, <2>6 DEF QuietInv, Undisturbed
  <2>. QED  BY <2>4, <2>5, <2>7
<1>. QED  BY <1>1, <1>2, <1>3 DEF Write

LEMMA DeleteKeeps == ASSUME IInv, NEW r \in Resources, Delete(r) PROVE IInv'
<1>. USE DEF IInv
<1>. DEFINE q == [pair |-> state[r].pair, set |-> NoSet]
<1>0. /\ step[r] \in {"delete", "replace"} /\ Applying
      /\ UNCHANGED <<config, zone, edits, outside>>
      /\ state[r] # None
  BY DEF Delete, StepInv
<1>q. state[r].pair \in Pairs /\ q \in Request
  BY <1>0, PairOfSomething DEF Request
<1>1. CASE Lost(r, q) /\ UNCHANGED released
  BY <1>0, <1>1, <1>q, LostIs
<1>2. CASE /\ Serve(q)
           /\ state' = [state EXCEPT ![r] = None]
           /\ step' = [step EXCEPT ![r] = IF @ = "replace" THEN "create" ELSE "rest"]
           /\ released' = released \cup {state[r].pair}
           /\ Answered(q)
  <2>0. /\ late' \subseteq Request /\ faults' \in 0 .. MaxFaults
        /\ faults' = 0 => faults' = faults /\ late' = late
    <3>. HIDE DEF q
    <3>. QED  BY <1>2, <1>q, AnsweredIs
  <2>1. state \in [Resources -> Entry \cup {None}] /\ step \in [Resources -> Steps]
    BY DEF TypeOK
  <2>2. /\ state'[r] = None /\ step'[r] = IF step[r] = "replace" THEN "create" ELSE "rest"
        /\ \A s \in Resources : s # r => state'[s] = state[s] /\ step'[s] = step[s]
    BY <1>2, <2>1
  <2>3. /\ rrsets' \in [Pairs -> Set \cup {NoSet}]
        /\ \A p \in Pairs : p # state[r].pair => rrsets'[p] = rrsets[p]
        /\ zone => rrsets'[state[r].pair] = NoSet
    BY <1>2, <1>q, ServeIs
  <2>4. TypeOK'
    BY <1>0, <1>2, <1>q, <2>0, <2>1, <2>3 DEF TypeOK, Steps
  <2>5. StepInv'
    BY <1>0, <2>2 DEF StepInv
  <2>6. ASSUME QuietInv, Undisturbed, Undisturbed' PROVE (Calm /\ Owned /\ Done /\ Reported)'
    <3>0. zone /\ late = {} /\ Owned /\ Done /\ Reported
      BY <2>6 DEF QuietInv, Calm
    <3>1. Calm'
      BY <1>0, <2>0, <2>6, <3>0 DEF Calm, Undisturbed
    <3>2. Owned'
      <4>. SUFFICES ASSUME NEW p \in Pairs, rrsets'[p] # NoSet
                    PROVE  \E s \in Resources : state'[s].pair = p
        BY DEF Owned
      <4>1. p # state[r].pair
        BY <2>3, <3>0
      <4>2. PICK s \in Resources : state[s].pair = p
        BY <2>3, <3>0, <4>1 DEF Owned
      <4>. QED  BY <2>2, <4>1, <4>2
    <3>n. ~ Resting
      BY <1>0 DEF Resting
    <3>3. Done'
      BY <1>0, <2>2, <3>0, <3>n DEF Done
    <3>4. Reported'
      <4>. SUFFICES ASSUME NEW s \in Resources, Staying(s)'
                    PROVE  state'[s].pair \in released' \/ Matches(s)'
        BY DEF Reported
      <4>1. s # r
        BY <2>2 DEF Staying
      <4>2. Staying(s) /\ state'[s] = state[s]
        BY <2>2, <4>1 DEF Staying
      <4>3. CASE state[s].pair = state[r].pair
        BY <1>2, <4>2, <4>3
      <4>4. CASE state[s].pair # state[r].pair
        <5>1. state[s].pair \in Pairs
          BY <4>2, PairOfSomething DEF Staying
        <5>. QED  BY <1>2, <2>3, <3>0, <4>2, <4>4, <5>1 DEF Reported, Matches
      <4>. QED  BY <4>3, <4>4
    <3>. QED  BY <3>1, <3>2, <3>3, <3>4
  <2>7. QuietInv'
    BY <1>0, <2>0, <2>6 DEF QuietInv, Undisturbed
  <2>. QED  BY <2>4, <2>5, <2>7
<1>. QED  BY <1>1, <1>2 DEF Delete, Doomed

LEMMA ImportKeeps == ASSUME IInv, NEW r \in Resources, Import(r) PROVE IInv'
<1>. USE DEF IInv
<1>1. /\ Resting /\ config[r] # None /\ state[r] = None
      /\ rrsets[config[r].pair] # NoSet
      /\ edits' \in 0 .. MaxEdits
      /\ state' = [state EXCEPT ![r] = Observed(config[r].pair)]
      /\ UNCHANGED <<config, step, zone, rrsets, late, released, faults, outside>>
  BY Counters DEF Import, serverVars
<1>2. config[r].pair \in Pairs
  BY <1>1, PairOfSomething
<1>3. /\ state'[r] = Observed(config[r].pair)
      /\ \A s \in Resources : s # r => state'[s] = state[s]
  BY <1>1 DEF TypeOK
<1>4. TypeOK'
  BY <1>1, <1>2, ObservedIs DEF TypeOK
<1>5. StepInv'
  BY <1>1 DEF StepInv, Resting
<1>6. ASSUME QuietInv, Undisturbed PROVE (Calm /\ Owned /\ Done /\ Reported)'
  <2>0. zone /\ late = {} /\ Owned /\ Reported
    BY <1>6 DEF QuietInv, Calm
  <2>1. Calm'
    BY <1>1, <2>0 DEF Calm
  <2>2. Owned'
    <3>. SUFFICES ASSUME NEW p \in Pairs, rrsets[p] # NoSet
                  PROVE  \E s \in Resources : state'[s].pair = p
      BY <1>1 DEF Owned
    <3>1. PICK s \in Resources : state[s].pair = p
      BY <2>0 DEF Owned
    <3>2. s # r
      BY <1>1, <3>1, NoneIsNothing
    <3>. QED  BY <1>3, <3>1, <3>2
  <2>3. Done'
    BY <1>1 DEF Done, Resting
  <2>4. Reported'
    <3>1. Matches(r)'
      BY <1>1, <1>2, <1>3, ObservedIs DEF Matches
    <3>2. \A s \in Resources : s # r =>
             (Staying(s)' => state'[s].pair \in released' \/ Matches(s)')
      BY <1>1, <1>3, <2>0 DEF Reported, Staying, Matches
    <3>. QED  BY <3>1, <3>2 DEF Reported
  <2>. QED  BY <2>1, <2>2, <2>3, <2>4
<1>7. QuietInv'
  BY <1>1, <1>6 DEF QuietInv, Undisturbed
<1>. QED  BY <1>4, <1>5, <1>7

LEMMA EditKeeps == ASSUME IInv, Edit PROVE IInv'
<1>. USE DEF IInv
<1>1. /\ Resting /\ Distinct(config') /\ edits' \in 0 .. MaxEdits
      /\ UNCHANGED <<state, step, zone, rrsets, late, released, faults, outside>>
  BY Counters DEF Edit, serverVars
<1>2. config' \in [Resources -> Offered \cup {None}]
  <2>1. config \in [Resources -> Offered \cup {None}]
    BY DEF TypeOK, Configs
  <2>2. CASE \E r \in Resources, c \in Offered \cup {None} : config' = [config EXCEPT ![r] = c]
    BY <2>1, <2>2
  <2>3. CASE \E r, s \in Resources :
                r # s /\ config' = [config EXCEPT ![r] = config[s], ![s] = config[r]]
    BY <2>1, <2>3
  <2>. QED  BY <2>2, <2>3 DEF Edit
<1>3. TypeOK'
  BY <1>1, <1>2 DEF TypeOK, Configs
<1>4. StepInv'
  BY <1>1 DEF StepInv, Resting
<1>5. QuietInv'
  BY <1>1 DEF QuietInv, Undisturbed, Calm, Owned, Done, Reported, Staying, Matches, Resting
<1>. QED  BY <1>3, <1>4, <1>5

LEMMA OutsideKeeps == ASSUME IInv, Outside PROVE IInv'
<1>. USE DEF IInv
<1>1. /\ outside' \in 0 .. MaxOutside /\ outside' # 0
      /\ UNCHANGED <<config, state, step, late, released, faults, edits>>
  BY Counters DEF Outside
<1>2. rrsets' \in [Pairs -> Set \cup {NoSet}] /\ zone' \in BOOLEAN
  BY DEF Outside, TypeOK
<1>3. TypeOK'
  BY <1>1, <1>2 DEF TypeOK
<1>4. StepInv'
  BY <1>1 DEF StepInv
<1>5. QuietInv'
  BY <1>1 DEF QuietInv, Undisturbed
<1>. QED  BY <1>3, <1>4, <1>5

LEMMA DeliverKeeps == ASSUME IInv, NEW q \in late, Deliver(q) PROVE IInv'
<1>. USE DEF IInv
<1>1. /\ Serve(q) /\ late' = late \ {q}
      /\ UNCHANGED <<config, state, step, zone, released, faults, edits, outside>>
  BY DEF Deliver
<1>2. q \in Request
  BY DEF TypeOK
<1>3. TypeOK'
  BY <1>1, <1>2, ServeIs DEF TypeOK
<1>4. StepInv'
  BY <1>1 DEF StepInv
<1>5. QuietInv'
  BY <1>1 DEF QuietInv, Undisturbed, Calm
<1>. QED  BY <1>3, <1>4, <1>5

LEMMA StutterKeeps == ASSUME IInv, UNCHANGED vars PROVE IInv'
BY DEF IInv, TypeOK, StepInv, QuietInv, Undisturbed, Calm, Owned, Done, Reported,
       Staying, Matches, Resting, vars, serverVars

LEMMA NextKeeps == ASSUME IInv, [Next]_vars PROVE IInv'
BY StartRunKeeps, ReadKeeps, WriteKeeps, DeleteKeeps, ImportKeeps, EditKeeps, OutsideKeeps,
   DeliverKeeps, StutterKeeps DEF Next, Operate

LEMMA Invariance == Spec => []IInv
BY InitEstablishes, NextKeeps, PTL DEF Spec

-----------------------------------------------------------------------------
(***************************************************************************)
(* The theorems.                                                           *)
(***************************************************************************)

\* The variables keep their types; in particular no two blocks ever ask for
\* one pair, and a TTL at the server is always one that was cut.
THEOREM TypeCorrect == Spec => []TypeOK
<1>1. IInv => TypeOK
  BY DEF IInv
<1>. QED  BY <1>1, Invariance, PTL

\* Undisturbed, whatever blocks are moved, changed and removed, every set at
\* the server belongs to a resource (recordResource.Update and Delete).
THEOREM NothingIsLeft == Spec => []NoLeftovers
<1>1. IInv => NoLeftovers
  BY DEF IInv, QuietInv, Owned, NoLeftovers
<1>. QED  BY <1>1, Invariance, PTL

\* Undisturbed, what a resource reports between runs is at the server as it
\* was planned, unless its pair was given up in the same run.
THEOREM StateIsTrue == Spec => []StateMatchesServer
<1>1. ASSUME IInv PROVE StateMatchesServer
  <2>. SUFFICES ASSUME Undisturbed, Resting, NEW r \in Resources, state[r] # None
                PROVE  state[r].pair \in released \/ Matches(r)
    BY DEF StateMatchesServer, Matches
  <2>1. Staying(r)
    BY DEF Staying, Resting
  <2>. QED  BY <1>1, <2>1 DEF IInv, QuietInv, Reported
<1>. QED  BY <1>1, Invariance, PTL

\* Which sets a step of the provider can touch.
LEMMA StepTouches ==
    ASSUME IInv, [Next]_vars, Provider, NEW p \in Pairs, rrsets'[p] # rrsets[p]
    PROVE  \E r \in Resources :
              \/ state[r].pair = p
              \/ config[r].pair = p /\ rrsets'[p] # NoSet
<1>. USE DEF IInv
<1>1. rrsets' # rrsets
  OBVIOUS
<1>2. ~ StartRun /\ ~ Edit /\ ~ UNCHANGED vars /\ \A r \in Resources : ~ Read(r) /\ ~ Import(r)
  BY <1>1 DEF StartRun, Edit, Read, Import, vars, serverVars
<1>3. ~ Outside
  BY Counters DEF Provider, Outside
<1>4. \A q \in late : ~ Deliver(q)
  BY DEF Provider, Deliver
<1>5. PICK r \in Resources : Write(r) \/ Delete(r)
  BY <1>2, <1>3, <1>4 DEF Next, Operate
<1>6. CASE Write(r)
  <2>. DEFINE q == [pair |-> config[r].pair, set |-> RRSetFromModel(r)]
  <2>1. config[r] # None
    BY <1>6 DEF Write, StepInv
  <2>2. q \in Request /\ q.set \in Set
    BY <2>1, RRSetIsSet
  <2>3. Serve(q)
    BY <1>1, <1>6 DEF Write, Lost
  <2>. QED  BY <2>2, <2>3, ServeIs
<1>7. CASE Delete(r)
  <2>. DEFINE q == [pair |-> state[r].pair, set |-> NoSet]
  <2>1. q \in Request
    BY <1>7, PairOfSomething DEF Delete, StepInv, Request
  <2>2. Serve(q)
    BY <1>1, <1>7 DEF Delete, Doomed, Lost
  <2>. QED  BY <2>1, <2>2, ServeIs
<1>. QED  BY <1>5, <1>6, <1>7

\* A run touches no set that neither the configuration nor the state names,
\* and deletes none that only the configuration names.
THEOREM OtherSetsStay == Spec => OtherSetsKept
<1>1. ASSUME IInv, [Next]_vars
      PROVE  [Provider => \A p \in Pairs : rrsets'[p] # rrsets[p] =>
                 \E r \in Resources :
                    \/ state[r].pair = p
                    \/ config[r].pair = p /\ rrsets'[p] # NoSet]_vars
  BY <1>1, StepTouches
<1>. QED  BY <1>1, Invariance, PTL DEF Spec, OtherSetsKept
=============================================================================
