--------------------------- MODULE SpellingProofs ---------------------------
(***************************************************************************)
(* Proofs about Spelling, for all resources, blocks and texts: what the    *)
(* comparisons tell apart, and that Terraform works on meanings.           *)
(***************************************************************************)
EXTENDS Spelling, FiniteSetTheorems, SequenceTheorems, WellFoundedInduction, TLAPS

-----------------------------------------------------------------------------
(***************************************************************************)
(* Lists as multisets: where a value occurs in a list, and how often.      *)
(***************************************************************************)

Where(list, v) == {i \in DOMAIN list : list[i] = v}
Before(list, j) == {i \in 1 .. j - 1 : list[i] = list[j]}

\* Two lists hold every value equally often.
Same(c, a) == \A v \in ToSet(c) \cup ToSet(a) : Cardinality(Where(c, v)) = Cardinality(Where(a, v))

LEMMA WhereIs ==
    ASSUME NEW T, NEW list \in Seq(T), NEW v
    PROVE  /\ Where(list, v) \subseteq 1 .. Len(list)
           /\ IsFiniteSet(Where(list, v))
           /\ Cardinality(Where(list, v)) \in Nat
           /\ Cardinality(Where(list, v)) = 0 <=> v \notin ToSet(list)
<1>1. Where(list, v) \subseteq 1 .. Len(list) /\ Len(list) \in Nat
  BY DEF Where
<1>2. IsFiniteSet(Where(list, v))
  <2>1. IsFiniteSet(1 .. Len(list))
    BY <1>1, FS_Interval
  <2>. QED  BY <1>1, <2>1, FS_Subset
<1>3. Cardinality(Where(list, v)) \in Nat
  BY <1>2, FS_CardinalityType
<1>4. Cardinality(Where(list, v)) = 0 <=> Where(list, v) = {}
  BY <1>2, FS_EmptySet
<1>5. Where(list, v) = {} <=> v \notin ToSet(list)
  BY DEF Where, ToSet
<1>. QED  BY <1>1, <1>2, <1>3, <1>4, <1>5

\* The number of earlier equals of an entry: below that of all its equals,
\* and different for two entries that are equal.
LEMMA BeforeIs ==
    ASSUME NEW T, NEW list \in Seq(T), NEW j \in DOMAIN list
    PROVE  /\ IsFiniteSet(Before(list, j)) /\ Cardinality(Before(list, j)) \in Nat
           /\ Cardinality(Before(list, j)) < Cardinality(Where(list, list[j]))
           /\ \A i \in DOMAIN list :
                 i < j /\ list[i] = list[j] => Cardinality(Before(list, i)) < Cardinality(Before(list, j))
<1>1. DOMAIN list = 1 .. Len(list) /\ Len(list) \in Nat
  OBVIOUS
<1>2. \A n \in DOMAIN list : Before(list, n) \subseteq Where(list, list[n])
  BY <1>1 DEF Before, Where
<1>3. \A n \in DOMAIN list :
        IsFiniteSet(Before(list, n)) /\ Cardinality(Before(list, n)) \in Nat
  BY <1>2, WhereIs, FS_Subset, FS_CardinalityType
<1>4. Cardinality(Before(list, j)) < Cardinality(Where(list, list[j]))
  <2>1. j \in Where(list, list[j]) /\ j \notin Before(list, j)
    BY <1>1 DEF Before, Where
  <2>2. IsFiniteSet(Where(list, list[j])) /\ Cardinality(Where(list, list[j])) \in Nat
    BY WhereIs
  <2>3. /\ Cardinality(Before(list, j)) <= Cardinality(Where(list, list[j]))
        /\ Cardinality(Before(list, j)) # Cardinality(Where(list, list[j]))
    BY <1>2, <2>1, <2>2, FS_Subset
  <2>. QED  BY <1>3, <2>2, <2>3
<1>5. ASSUME NEW i \in DOMAIN list, i < j, list[i] = list[j]
      PROVE  Cardinality(Before(list, i)) < Cardinality(Before(list, j))
  <2>1. Before(list, i) \subseteq Before(list, j) /\ i \in Before(list, j) /\ i \notin Before(list, i)
    BY <1>1, <1>5 DEF Before
  <2>2. /\ Cardinality(Before(list, i)) <= Cardinality(Before(list, j))
        /\ Cardinality(Before(list, i)) # Cardinality(Before(list, j))
    BY <1>3, <2>1, FS_Subset
  <2>. QED  BY <1>3, <2>2
<1>. QED  BY <1>3, <1>4, <1>5

\* Bags are equal if all values occur equally often.
LEMMA BagsTellSame ==
    ASSUME NEW T, NEW c \in Seq(T), NEW a \in Seq(T)
    PROVE  ToBag(c) = ToBag(a) <=> Same(c, a)
<1>1. /\ ToBag(c) = [x \in ToSet(c) |-> Cardinality(Where(c, x))]
      /\ ToBag(a) = [x \in ToSet(a) |-> Cardinality(Where(a, x))]
  BY DEF ToBag, Range, ToSet, Where
<1>2. ASSUME ToBag(c) = ToBag(a) PROVE Same(c, a)
  <2>1. DOMAIN ToBag(c) = ToSet(c) /\ DOMAIN ToBag(a) = ToSet(a)
    BY <1>1
  <2>2. ToSet(c) = ToSet(a)
    BY <1>2, <2>1
  <2>3. \A v \in ToSet(c) : ToBag(c)[v] = Cardinality(Where(c, v)) /\ ToBag(a)[v] = Cardinality(Where(a, v))
    BY <1>1, <2>2
  <2>. QED  BY <1>2, <2>2, <2>3 DEF Same
<1>3. ASSUME Same(c, a) PROVE ToBag(c) = ToBag(a)
  <2>1. ASSUME NEW v PROVE v \in ToSet(c) <=> v \in ToSet(a)
    BY <1>3, WhereIs DEF Same
  <2>2. ToSet(c) = ToSet(a)
    BY <2>1
  <2>. QED  BY <1>1, <1>3, <2>2 DEF Same
<1>. QED  BY <1>2, <1>3

\* Each entry of a takes an entry of c that is its equal, none is taken twice.
Takes(f, c, a) ==
    /\ f \in [DOMAIN a -> DOMAIN c]
    /\ \A j \in DOMAIN a : c[f[j]] = a[j]
    /\ \A i \in DOMAIN a, j \in DOMAIN a : f[i] = f[j] => i = j

\* Two lists of equal length hold everything equally often if the entries of
\* one can take those of the other.
LEMMA TakingTellsSame ==
    ASSUME NEW T, NEW c \in Seq(T), NEW a \in Seq(T), Len(c) = Len(a),
           NEW f, Takes(f, c, a)
    PROVE  Same(c, a)
<1>0. /\ f \in [DOMAIN a -> DOMAIN c]
      /\ \A j \in DOMAIN a : c[f[j]] = a[j]
      /\ \A i \in DOMAIN a, j \in DOMAIN a : f[i] = f[j] => i = j
  BY DEF Takes
<1>1. DOMAIN c = 1 .. Len(c) /\ DOMAIN a = 1 .. Len(c) /\ Len(c) \in Nat
  OBVIOUS
<1>2. IsFiniteSet(DOMAIN a) /\ Cardinality(DOMAIN a) = Len(c)
  <2>1. 1 \in Int /\ Len(c) \in Int
    BY <1>1
  <2>2. /\ IsFiniteSet(1 .. Len(c))
        /\ Cardinality(1 .. Len(c)) = IF 1 > Len(c) THEN 0 ELSE Len(c) - 1 + 1
    BY <2>1, FS_Interval
  <2>. QED  BY <1>1, <2>2
<1>3. ASSUME NEW k \in DOMAIN c PROVE \E j \in DOMAIN a : f[j] = k
  <2>. SUFFICES ASSUME \A j \in DOMAIN a : f[j] # k PROVE FALSE
    OBVIOUS
  <2>. DEFINE others == DOMAIN c \ {k}
  <2>1. IsFiniteSet(others) /\ Cardinality(others) = Len(c) - 1
    BY <1>1, <1>2, FS_RemoveElement
  <2>2. f \in [DOMAIN a -> others]
    BY <1>0
  <2>. DEFINE all == DOMAIN a
  <2>. HIDE DEF others, all
  <2>4. f \in Injection(all, others)
    <3>1. f \in [all -> others] /\ \A x, y \in all : f[x] = f[y] => x = y
      BY <1>0, <2>2 DEF all
    <3>. QED  BY <3>1 DEF Injection, IsInjective
  <2>5. IsFiniteSet(others) /\ Cardinality(all) <= Cardinality(others)
    BY <2>1, <2>4, FS_Injection
  <2>6. Cardinality(all) = Len(c) /\ Cardinality(others) = Len(c) - 1
    BY <1>2, <2>1 DEF all
  <2>. QED  BY <1>1, <2>5, <2>6
<1>4. ASSUME NEW v PROVE Cardinality(Where(c, v)) = Cardinality(Where(a, v))
  <2>. DEFINE g == [j \in Where(a, v) |-> f[j]]
  <2>1. g \in [Where(a, v) -> Where(c, v)]
    BY <1>0 DEF Where
  <2>2. \A i, j \in Where(a, v) : g[i] = g[j] => i = j
    BY <1>0 DEF Where
  <2>3. ASSUME NEW k \in Where(c, v) PROVE \E j \in Where(a, v) : g[j] = k
    <3>1. PICK j \in DOMAIN a : f[j] = k
      BY <1>3 DEF Where
    <3>2. j \in Where(a, v)
      BY <1>0, <3>1 DEF Where
    <3>. QED  BY <3>1, <3>2
  <2>. HIDE DEF g
  <2>4. g \in Bijection(Where(a, v), Where(c, v))
    BY <2>1, <2>2, <2>3 DEF Bijection, Injection, Surjection, IsInjective
  <2>. QED  BY <2>4, WhereIs, FS_Bijection DEF ExistsBijection
<1>. QED  BY <1>4 DEF Same

\* Where every entry has fewer earlier equals than the other list has equals
\* of it, each can take one of its own.
LEMMA EachTakes ==
    ASSUME NEW T, NEW c \in Seq(T), NEW a \in Seq(T),
           \A j \in DOMAIN a : Cardinality(Before(a, j)) < Cardinality(Where(c, a[j]))
    PROVE  \E f : Takes(f, c, a)
<1>. DEFINE numbered(v) == CHOOSE b : b \in Bijection(1 .. Cardinality(Where(c, v)), Where(c, v))
            f == [j \in DOMAIN a |-> numbered(a[j])[Cardinality(Before(a, j)) + 1]]
<1>1. ASSUME NEW v
      PROVE  numbered(v) \in Bijection(1 .. Cardinality(Where(c, v)), Where(c, v))
  <2>1. ExistsBijection(1 .. Cardinality(Where(c, v)), Where(c, v))
    BY WhereIs, FS_CardinalityType
  <2>. QED  BY <2>1 DEF ExistsBijection
<1>2. ASSUME NEW j \in DOMAIN a
      PROVE  Cardinality(Before(a, j)) + 1 \in 1 .. Cardinality(Where(c, a[j]))
  <2>1. /\ Cardinality(Before(a, j)) \in Nat /\ Cardinality(Where(c, a[j])) \in Nat
    BY BeforeIs, WhereIs
  <2>. QED  BY <2>1
<1>3. ASSUME NEW v
      PROVE  /\ numbered(v) \in [1 .. Cardinality(Where(c, v)) -> Where(c, v)]
             /\ \A x, y \in 1 .. Cardinality(Where(c, v)) : numbered(v)[x] = numbered(v)[y] => x = y
  <2>. HIDE DEF numbered
  <2>. QED  BY <1>1 DEF Bijection, Injection, IsInjective
<1>. HIDE DEF numbered
<1>4. ASSUME NEW j \in DOMAIN a PROVE f[j] \in DOMAIN c /\ c[f[j]] = a[j]
  <2>1. f[j] \in Where(c, a[j])
    BY <1>2, <1>3
  <2>. QED  BY <2>1 DEF Where
<1>5. ASSUME NEW i \in DOMAIN a, NEW j \in DOMAIN a, f[i] = f[j] PROVE i = j
  <2>1. a[i] = a[j]
    BY <1>4, <1>5
  <2>2. Cardinality(Before(a, i)) + 1 = Cardinality(Before(a, j)) + 1
    BY <1>2, <1>3, <1>5, <2>1
  <2>3. Cardinality(Before(a, i)) = Cardinality(Before(a, j))
    BY <2>2, BeforeIs
  <2>4. ~ i < j /\ ~ j < i
    BY <2>1, <2>3, BeforeIs
  <2>. QED  BY <2>4
<1>6. f \in [DOMAIN a -> DOMAIN c]
  BY <1>4
<1>. HIDE DEF f
<1>7. Takes(f, c, a)
  BY <1>4, <1>5, <1>6 DEF Takes
<1>. QED  BY <1>7

LEMMA SameEachTakes ==
    ASSUME NEW T, NEW c \in Seq(T), NEW a \in Seq(T), Same(c, a), NEW j \in DOMAIN a
    PROVE  Cardinality(Before(a, j)) < Cardinality(Where(c, a[j]))
<1>1. a[j] \in ToSet(a)
  BY DEF ToSet
<1>2. Cardinality(Where(c, a[j])) = Cardinality(Where(a, a[j]))
  BY <1>1 DEF Same
<1>. QED  BY <1>2, BeforeIs

LEMMA SameIsSymmetric == ASSUME NEW c, NEW a, Same(c, a) PROVE Same(a, c)
BY DEF Same

\* So they are equally long.
LEMMA NoLonger ==
    ASSUME NEW T, NEW c \in Seq(T), NEW a \in Seq(T), Same(c, a)
    PROVE  Len(a) <= Len(c)
<1>1. PICK f : Takes(f, c, a)
  BY SameEachTakes, EachTakes
<1>2. f \in Injection(1 .. Len(a), 1 .. Len(c))
  BY <1>1 DEF Takes, Injection, IsInjective
<1>3. ASSUME NEW n \in Nat PROVE IsFiniteSet(1 .. n) /\ Cardinality(1 .. n) = n
  <2>1. 1 \in Int /\ n \in Int
    OBVIOUS
  <2>2. IsFiniteSet(1 .. n) /\ Cardinality(1 .. n) = IF 1 > n THEN 0 ELSE n - 1 + 1
    BY <2>1, FS_Interval
  <2>. QED  BY <2>2
<1>4. Len(a) \in Nat /\ Len(c) \in Nat
  OBVIOUS
<1>5. Cardinality(1 .. Len(a)) <= Cardinality(1 .. Len(c))
  BY <1>2, <1>3, <1>4, FS_Injection
<1>. QED  BY <1>3, <1>4, <1>5

LEMMA SameLength ==
    ASSUME NEW T, NEW c \in Seq(T), NEW a \in Seq(T), Same(c, a)
    PROVE  Len(c) = Len(a)
<1>1. Len(a) <= Len(c) /\ Len(c) <= Len(a)
  BY NoLonger, SameIsSymmetric
<1>. QED  BY <1>1

\* Comparing with counts.
LEMMA CountedTellsSame ==
    ASSUME NEW T, NEW c \in Seq(T), NEW a \in Seq(T), Len(c) = Len(a)
    PROVE  /\ countedStringMultiset(c, a) <=>
                 \A j \in DOMAIN a : Cardinality(Before(a, j)) < Cardinality(Where(c, a[j]))
           /\ countedStringMultiset(c, a) <=> Same(c, a)
<1>1. countedStringMultiset(c, a) <=>
        \A j \in DOMAIN a : /\ a[j] \in ToSet(c)
                            /\ Cardinality(Before(a, j)) < Cardinality(Where(c, a[j]))
  BY DEF countedStringMultiset, Before, Where
<1>2. ASSUME NEW j \in DOMAIN a, Cardinality(Before(a, j)) < Cardinality(Where(c, a[j]))
      PROVE  a[j] \in ToSet(c)
  <2>1. Cardinality(Before(a, j)) \in Nat
    BY BeforeIs
  <2>. QED  BY <1>2, <2>1, WhereIs
<1>3. ASSUME Same(c, a) PROVE countedStringMultiset(c, a)
  BY <1>1, <1>2, <1>3, SameEachTakes
<1>4. ASSUME countedStringMultiset(c, a) PROVE Same(c, a)
  <2>1. PICK f : Takes(f, c, a)
    BY <1>1, <1>4, EachTakes
  <2>. QED  BY <2>1, TakingTellsSame
<1>. QED  BY <1>1, <1>2, <1>3, <1>4

\* A set of numbers has a least one.
LEMMA LeastNumber ==
    ASSUME NEW S \in SUBSET Nat, S # {}
    PROVE  \E x \in S : \A y \in S : x <= y
<1>1. PICK x \in S : \A y \in S : ~ (<<y, x>> \in OpToRel(<, Nat))
  BY NatLessThanWellFounded, WFMin
<1>2. ASSUME NEW y \in S PROVE x <= y
  <2>1. ~ y < x
    BY <1>1 DEF OpToRel
  <2>. QED  BY <2>1
<1>. QED  BY <1>2

\* Where a value occurs among the first i entries.
UpTo(list, i, v) == {h \in 1 .. i : list[h] = v}

\* The entries of the second list that the first i of the other have taken.
Taken(c, a, i) ==
    {j \in DOMAIN a : Cardinality(Before(a, j)) < Cardinality(UpTo(c, i, a[j]))}

Taking(c, a, taken, i) ==
    LET free == {j \in DOMAIN a \ taken : a[j] = c[i]}
    IN  taken \cup (IF free = {} THEN {} ELSE {Min(free)})

\* How many of the first i entries are equal to v, from one entry to the next.
LEMMA CountUpTo ==
    ASSUME NEW T, NEW c \in Seq(T), NEW i \in 1 .. Len(c), NEW v
    PROVE  /\ Cardinality(UpTo(c, i - 1, v)) \in Nat
           /\ c[i] = v => Cardinality(UpTo(c, i, v)) = Cardinality(UpTo(c, i - 1, v)) + 1
           /\ c[i] # v => Cardinality(UpTo(c, i, v)) = Cardinality(UpTo(c, i - 1, v))
<1>1. IsFiniteSet(UpTo(c, i - 1, v))
  <2>1. i - 1 \in Int /\ 1 \in Int /\ UpTo(c, i - 1, v) \subseteq 1 .. i - 1
    BY DEF UpTo
  <2>2. IsFiniteSet(1 .. i - 1)
    BY <2>1, FS_Interval
  <2>. QED  BY <2>1, <2>2, FS_Subset
<1>2. Cardinality(UpTo(c, i - 1, v)) \in Nat
  BY <1>1, FS_CardinalityType
<1>3. ASSUME c[i] = v PROVE Cardinality(UpTo(c, i, v)) = Cardinality(UpTo(c, i - 1, v)) + 1
  <2>1. UpTo(c, i, v) = UpTo(c, i - 1, v) \cup {i} /\ i \notin UpTo(c, i - 1, v)
    BY <1>3 DEF UpTo
  <2>. QED  BY <1>1, <2>1, FS_AddElement
<1>4. ASSUME c[i] # v PROVE Cardinality(UpTo(c, i, v)) = Cardinality(UpTo(c, i - 1, v))
  <2>1. UpTo(c, i, v) = UpTo(c, i - 1, v)
    BY <1>4 DEF UpTo
  <2>. QED  BY <2>1
<1>. QED  BY <1>2, <1>3, <1>4

\* The least free equal is the one whose turn it is, so greed takes the same.
LEMMA TakingTakes ==
    ASSUME NEW T, NEW c \in Seq(T), NEW a \in Seq(T), NEW i \in 1 .. Len(c)
    PROVE  Taken(c, a, i) = Taking(c, a, Taken(c, a, i - 1), i)
<1>. DEFINE turn == Cardinality(UpTo(c, i - 1, c[i]))
            free == {j \in DOMAIN a \ Taken(c, a, i - 1) : a[j] = c[i]}
            next == {j \in DOMAIN a : a[j] = c[i] /\ Cardinality(Before(a, j)) = turn}
<1>1. /\ turn \in Nat
      /\ Cardinality(UpTo(c, i, c[i])) = turn + 1
  BY CountUpTo
<1>2. ASSUME NEW v, v # c[i] PROVE Cardinality(UpTo(c, i, v)) = Cardinality(UpTo(c, i - 1, v))
  BY <1>2, CountUpTo
<1>3. \A j \in DOMAIN a : Cardinality(Before(a, j)) \in Nat
  BY BeforeIs
<1>4. free = {j \in DOMAIN a : a[j] = c[i] /\ turn <= Cardinality(Before(a, j))}
  <2>1. ASSUME NEW j \in DOMAIN a, a[j] = c[i]
        PROVE  j \in Taken(c, a, i - 1) <=> ~ turn <= Cardinality(Before(a, j))
    <3>1. j \in Taken(c, a, i - 1) <=> Cardinality(Before(a, j)) < turn
      BY <2>1 DEF Taken
    <3>. HIDE DEF turn
    <3>. QED  BY <1>1, <1>3, <3>1
  <2>. HIDE DEF turn
  <2>. QED  BY <2>1
<1>5. Taken(c, a, i) = Taken(c, a, i - 1) \cup next
  <2>1. ASSUME NEW j \in DOMAIN a
        PROVE  j \in Taken(c, a, i) <=> j \in Taken(c, a, i - 1) \cup next
    <3>1. CASE a[j] = c[i]
      <4>1. j \in Taken(c, a, i) <=> Cardinality(Before(a, j)) < turn + 1
        BY <1>1, <3>1 DEF Taken
      <4>2. j \in Taken(c, a, i - 1) <=> Cardinality(Before(a, j)) < turn
        BY <3>1 DEF Taken
      <4>3. j \in next <=> Cardinality(Before(a, j)) = turn
        BY <3>1
      <4>. HIDE DEF turn, next
      <4>. QED  BY <1>1, <1>3, <4>1, <4>2, <4>3
    <3>2. CASE a[j] # c[i]
      <4>1. j \in Taken(c, a, i) <=> j \in Taken(c, a, i - 1)
        BY <1>2, <3>2 DEF Taken
      <4>. QED  BY <3>2, <4>1
    <3>. QED  BY <3>1, <3>2
  <2>. QED  BY <2>1 DEF Taken
<1>6. CASE free = {}
  <2>1. next = {}
    <3>. HIDE DEF turn, free
    <3>1. ASSUME NEW j \in next PROVE FALSE
      BY <1>1, <1>4, <1>6
    <3>. QED  BY <3>1
  <2>. QED  BY <1>5, <1>6, <2>1 DEF Taking
<1>7. CASE free # {}
  <2>1. free \in SUBSET Nat
    BY <1>4
  <2>2. \E x \in free : \A y \in free : x <= y
    BY <1>7, <2>1, LeastNumber
  <2>. DEFINE m == Min(free)
  <2>. HIDE DEF free
  <2>3. m \in free /\ \A y \in free : m <= y
    BY <2>2 DEF Min
  <2>4. m \in DOMAIN a /\ a[m] = c[i] /\ turn <= Cardinality(Before(a, m))
    BY <1>4, <2>3
  <2>. HIDE DEF m, turn
  <2>5. Cardinality(Before(a, m)) <= turn
    <3>. DEFINE f == [j \in Before(a, m) |-> Cardinality(Before(a, j))]
    <3>1. ASSUME NEW j \in Before(a, m)
          PROVE  j \in DOMAIN a /\ a[j] = c[i] /\ f[j] \in 0 .. turn - 1
      <4>1. j \in DOMAIN a /\ a[j] = c[i] /\ j < m
        BY <2>4 DEF Before
      <4>2. j \notin free
        <5>1. m \in Nat
          BY <2>1, <2>3
        <5>2. j \in free => j \in Nat /\ m <= j
          BY <2>1, <2>3
        <5>. QED  BY <4>1, <5>1, <5>2
      <4>. QED  BY <1>1, <1>3, <1>4, <4>1, <4>2
    <3>2. ASSUME NEW j \in Before(a, m), NEW k \in Before(a, m), f[j] = f[k] PROVE j = k
      <4>1. j \in Nat /\ k \in Nat /\ Cardinality(Before(a, j)) = Cardinality(Before(a, k))
        BY <3>1, <3>2
      <4>2. ~ j < k /\ ~ k < j
        BY <1>3, <3>1, <4>1, BeforeIs
      <4>. QED  BY <4>1, <4>2
    <3>3. f \in Injection(Before(a, m), 0 .. turn - 1)
      <4>1. f \in [Before(a, m) -> 0 .. turn - 1]
        BY <3>1
      <4>. HIDE DEF f
      <4>. QED  BY <3>2, <4>1 DEF Injection, IsInjective
    <3>4. IsFiniteSet(0 .. turn - 1) /\ Cardinality(0 .. turn - 1) = turn
      <4>1. 0 \in Int /\ turn - 1 \in Int
        BY <1>1
      <4>2. /\ IsFiniteSet(0 .. turn - 1)
            /\ Cardinality(0 .. turn - 1) = IF 0 > turn - 1 THEN 0 ELSE turn - 1 - 0 + 1
        BY <4>1, FS_Interval
      <4>. QED  BY <1>1, <4>2
    <3>. HIDE DEF f
    <3>. QED  BY <3>3, <3>4, FS_Injection
  <2>6. Cardinality(Before(a, m)) = turn
    BY <1>1, <1>3, <2>4, <2>5
  <2>7. next = {m}
    <3>1. m \in next
      BY <2>4, <2>6
    <3>2. ASSUME NEW j \in next PROVE j = m
      <4>1. j \in free /\ j \in DOMAIN a /\ a[j] = a[m] /\ Cardinality(Before(a, j)) = turn
        BY <1>1, <1>4, <2>4
      <4>2. m <= j /\ j \in Nat /\ m \in Nat
        BY <2>1, <2>3, <4>1
      <4>3. ~ m < j
        BY <1>1, <2>4, <2>6, <4>1, BeforeIs
      <4>. QED  BY <4>2, <4>3
    <3>. QED  BY <3>1, <3>2
  <2>8. Taking(c, a, Taken(c, a, i - 1), i) = Taken(c, a, i - 1) \cup {m}
    BY <1>7 DEF Taking, free, m
  <2>. QED  BY <1>5, <2>7, <2>8
<1>. QED  BY <1>6, <1>7

\* The free entries of the first list are taken in turn: without a map.
LEMMA SmallTellsSame ==
    ASSUME NEW T, NEW c \in Seq(T), NEW a \in Seq(T), Len(c) = Len(a)
    PROVE  smallStringMultiset(c, a) <=> Same(c, a)
<1>. DEFINE n == Len(c)
            Body(f, i) == IF i = 0 THEN {} ELSE Taking(c, a, f[i - 1], i)
            used == CHOOSE f : f = [i \in 0 .. Len(c) |-> Body(f, i)]
            taken == [i \in 0 .. n |-> Taken(c, a, i)]
<1>1. smallStringMultiset(c, a) <=> Cardinality(used[n]) = n
  BY DEF smallStringMultiset, Taking
<1>2. n \in Nat /\ DOMAIN c = 1 .. n /\ DOMAIN a = 1 .. n
  OBVIOUS
<1>3. Taken(c, a, 0) = {}
  <2>1. ASSUME NEW v PROVE Cardinality(UpTo(c, 0, v)) = 0
    BY FS_EmptySet DEF UpTo
  <2>2. ASSUME NEW j \in DOMAIN a PROVE ~ Cardinality(Before(a, j)) < Cardinality(UpTo(c, 0, a[j]))
    <3>1. Cardinality(Before(a, j)) \in Nat
      BY BeforeIs
    <3>. QED  BY <2>1, <3>1
  <2>. QED  BY <2>2 DEF Taken
<1>4. taken = [i \in 0 .. n |-> Body(taken, i)]
  <2>1. ASSUME NEW i \in 0 .. n PROVE Taken(c, a, i) = Body(taken, i)
    <3>1. CASE i = 0
      BY <1>3, <3>1
    <3>2. CASE i # 0
      <4>1. i \in 1 .. n /\ i - 1 \in 0 .. n
        BY <1>2, <3>2
      <4>2. taken[i - 1] = Taken(c, a, i - 1)
        BY <4>1
      <4>3. Taken(c, a, i) = Taking(c, a, Taken(c, a, i - 1), i)
        BY <4>1, TakingTakes
      <4>. QED  BY <3>2, <4>2, <4>3
    <3>. QED  BY <3>1, <3>2
  <2>. QED  BY <2>1
<1>5. used = [i \in 0 .. n |-> Body(used, i)]
  <2>. HIDE DEF taken, Body
  <2>. QED  BY <1>4
<1>6. used[n] = Taken(c, a, n)
  <2>. DEFINE wrong == {i \in 0 .. n : used[i] # Taken(c, a, i)}
  <2>. HIDE DEF used
  <2>. SUFFICES ASSUME wrong # {} PROVE FALSE
    <3>1. n \in 0 .. n
      BY <1>2
    <3>. QED  BY <3>1
  <2>0. wrong \in SUBSET Nat
    BY <1>2
  <2>1. PICK i \in wrong : \A j \in wrong : i <= j
    <3>. HIDE DEF wrong
    <3>. QED  BY <2>0, LeastNumber
  <2>2. i \in 0 .. n /\ used[i] = Body(used, i)
    BY <1>5
  <2>3. i # 0
    BY <1>3, <2>1, <2>2
  <2>4. i \in 1 .. n /\ i - 1 \in 0 .. n
    BY <1>2, <2>2, <2>3
  <2>5. used[i - 1] = Taken(c, a, i - 1)
    BY <2>1, <2>4
  <2>6. used[i] = Taken(c, a, i)
    BY <2>2, <2>3, <2>4, <2>5, TakingTakes
  <2>. QED  BY <2>1, <2>6
<1>7. Cardinality(Taken(c, a, n)) = n <=> Taken(c, a, n) = DOMAIN a
  <2>1. 1 \in Int /\ n \in Int /\ Taken(c, a, n) \subseteq 1 .. n
    BY <1>2 DEF Taken
  <2>2. /\ IsFiniteSet(1 .. n)
        /\ Cardinality(1 .. n) = IF 1 > n THEN 0 ELSE n - 1 + 1
    BY <2>1, FS_Interval
  <2>3. Cardinality(1 .. n) = n
    BY <1>2, <2>2
  <2>4. Cardinality(Taken(c, a, n)) = Cardinality(1 .. n) => Taken(c, a, n) = 1 .. n
    BY <2>1, <2>2, FS_Subset
  <2>. QED  BY <1>2, <2>3, <2>4
<1>8. Taken(c, a, n) = DOMAIN a <=>
        \A j \in DOMAIN a : Cardinality(Before(a, j)) < Cardinality(Where(c, a[j]))
  BY <1>2 DEF Taken, UpTo, Where
<1>. QED
  <2>. HIDE DEF used, n
  <2>. QED  BY <1>1, <1>6, <1>7, <1>8, CountedTellsSame

\* Whichever way they are compared, two lists agree if they hold the same
\* values equally often (multiset.go).
THEOREM MultisetsAreCompared ==
    ASSUME NEW T, NEW configured \in Seq(T), NEW actual \in Seq(T)
    PROVE  StringMultiset(configured, actual) <=> ToBag(configured) = ToBag(actual)
<1>1. Len(configured) = Len(actual) =>
        (StringMultiset(configured, actual) <=> Same(configured, actual))
  BY SmallTellsSame, CountedTellsSame DEF StringMultiset
<1>2. Len(configured) # Len(actual) => ~ StringMultiset(configured, actual)
  BY DEF StringMultiset
<1>. QED  BY <1>1, <1>2, SameLength, BagsTellSame

-----------------------------------------------------------------------------
(***************************************************************************)
(* Texts: two of them are compared equal exactly if they mean the same,    *)
(* provided the server takes one of them.                                  *)
(***************************************************************************)

NameSorts == {"name", "target", "tsig", "CNAME"}
AddressSorts == {"address", "A"}
ItselfSorts == {"exact", "ordered", "TXT"}
Sorts == {"kind", "upstream", "network"} \cup NameSorts \cup AddressSorts \cup ItselfSorts

LEMMA Rewritten ==
    ASSUME NEW t \in Texts, NEW x
    PROVE  /\ t = [value |-> t.value, port |-> t.port, as |-> t.as]
           /\ t.value \in Values /\ t.port \in Ports /\ t.as \subseteq Marks
           /\ [t EXCEPT !.as = x] = [value |-> t.value, port |-> t.port, as |-> x]
           /\ Without(t, x) = [value |-> t.value, port |-> t.port, as |-> t.as \ x]
           /\ [t EXCEPT !.port = x] = [value |-> t.value, port |-> x, as |-> t.as]
BY DEF Texts, Without

\* How a text the server takes is compared and stored.
Bare(t, port) == [value |-> t.value, port |-> port, as |-> {}]
Written(t, port, mark) == [value |-> t.value, port |-> port, as |-> {mark}]

LEMMA Stripped ==
    ASSUME NEW t \in Texts, NEW x, t.as \ x = {}
    PROVE  Without(t, x) = Bare(t, t.port)
<1>1. Without(t, x) = [value |-> t.value, port |-> t.port, as |-> t.as \ x]
  BY Rewritten
<1>. QED  BY <1>1 DEF Bare

LEMMA KindIs ==
    ASSUME NEW t \in Texts, Spelled("kind", t)
    PROVE  /\ Accepts("kind", t)
           /\ KeyOf("kind", t) = Bare(t, t.port)
           /\ Stored("kind", t) = Written(t, t.port, "title")
<1>1. t.as \ {"upper", "title"} = {}
  BY DEF Spelled
<1>2. KeyOf("kind", t) = Without(t, {"upper", "title"})
  BY DEF KeyOf, ZoneKindKey, foldKey
<1>3. Accepts("kind", t) /\ Stored("kind", t) = [t EXCEPT !.as = {"title"}]
  BY DEF Accepts, Stored
<1>4. [t EXCEPT !.as = {"title"}] = Written(t, t.port, "title")
  BY Rewritten DEF Written
<1>. QED  BY <1>1, <1>2, <1>3, <1>4, Stripped

LEMMA NameIs ==
    ASSUME NEW sort \in NameSorts, NEW t \in Texts, Spelled(sort, t)
    PROVE  /\ Accepts(sort, t) <=> "dots" \notin t.as
           /\ Accepts(sort, t) => KeyOf(sort, t) = Bare(t, t.port)
           /\ ~ Accepts(sort, t) => "dots" \in KeyOf(sort, t).as
           /\ Stored(sort, t) = Written(t, t.port, "dot")
<1>1. /\ Accepts(sort, t) <=> "dots" \notin t.as
      /\ Stored(sort, t) = [t EXCEPT !.as = {"dot"}]
      /\ KeyOf(sort, t) = DNSNameKey(t)
      /\ t.as \subseteq {"upper", "title", "dot", "dots"}
  BY DEF NameSorts, Accepts, Stored, KeyOf, TSIGKeyIDKey, RecordContentKey, Spelled
<1>2. foldKey(t) = [value |-> t.value, port |-> t.port, as |-> t.as \ {"upper", "title"}]
  BY Rewritten DEF foldKey
<1>0. [t EXCEPT !.as = {"dot"}] = Written(t, t.port, "dot")
  BY Rewritten DEF Written
<1>3. CASE "dots" \in t.as
  <2>1. DNSNameKey(t) = foldKey(t)
    BY <1>3 DEF DNSNameKey
  <2>2. foldKey(t).as = t.as \ {"upper", "title"}
    BY <1>2
  <2>. QED  BY <1>0, <1>1, <1>3, <2>1, <2>2
<1>4. CASE "dots" \notin t.as
  <2>1. (t.as \ {"upper", "title"}) \ {"dot"} = {}
    BY <1>1, <1>4
  <2>2. DNSNameKey(t) = [foldKey(t) EXCEPT !.as = @ \ {"dot"}]
    BY <1>4 DEF DNSNameKey, Without
  <2>3. DNSNameKey(t) = Bare(t, t.port)
    BY <1>2, <2>1, <2>2 DEF Bare
  <2>. QED  BY <1>0, <1>1, <1>4, <2>3
<1>. QED  BY <1>3, <1>4

LEMMA AddressIs ==
    ASSUME NEW sort \in AddressSorts, NEW t \in Texts
    PROVE  /\ Accepts(sort, t) <=> IsAddress(t)
           /\ IsAddress(t) => KeyOf(sort, t) = Bare(t, t.port)
           /\ ~ IsAddress(t) => KeyOf(sort, t) = t
           /\ Stored(sort, t) = Bare(t, t.port)
<1>1. /\ Accepts(sort, t) <=> IsAddress(t)
      /\ Stored(sort, t) = [t EXCEPT !.as = {}]
      /\ KeyOf(sort, t) = IPAddressKey(t)
  BY DEF AddressSorts, Accepts, Stored, KeyOf, RecordContentKey
<1>2. ASSUME IsAddress(t) PROVE IPAddressKey(t) = Bare(t, t.port)
  <2>1. t.as \ {"long", "upper"} = {}
    BY <1>2 DEF IsAddress
  <2>. QED  BY <1>2, <2>1, Stripped DEF IPAddressKey
<1>. QED  BY <1>1, <1>2, Rewritten DEF IPAddressKey, Bare

LEMMA NetworkIs ==
    ASSUME NEW t \in Texts
    PROVE  /\ Accepts("network", t) <=> IsNetwork(t)
           /\ IsNetwork(t) => KeyOf("network", t) = Bare(t, t.port)
           /\ ~ IsNetwork(t) => KeyOf("network", t) = t
           /\ Stored("network", t) = Bare(t, t.port)
<1>1. /\ Accepts("network", t) <=> IsNetwork(t)
      /\ Stored("network", t) = [t EXCEPT !.as = {}]
      /\ KeyOf("network", t) = CIDRKey(t)
  BY DEF Accepts, Stored, KeyOf
<1>2. ASSUME IsNetwork(t) PROVE CIDRKey(t) = Bare(t, t.port)
  <2>1. t.as \ {"long", "upper", "hostbits"} = {}
    BY <1>2 DEF IsNetwork
  <2>. QED  BY <1>2, <2>1, Stripped DEF CIDRKey
<1>. QED  BY <1>1, <1>2, Rewritten DEF CIDRKey, Bare

Port(t) == IF t.port = "none" THEN "53" ELSE t.port

LEMMA UpstreamIs ==
    ASSUME NEW t \in Texts, Spelled("upstream", t)
    PROVE  /\ Accepts("upstream", t) <=> ~ NoUpstream(t)
           /\ Accepts("upstream", t) => KeyOf("upstream", t) = Bare(t, Port(t))
           /\ ~ Accepts("upstream", t) => KeyOf("upstream", t) = t
           /\ Stored("upstream", t) = Bare(t, Port(t))
<1>1. t.value \in Addresses => "dot" \notin t.as
  BY DEF Spelled
<1>2. /\ Accepts("upstream", t) <=> ~ NoUpstream(t)
      /\ Stored("upstream", t) = [t EXCEPT !.as = {}, !.port = IF @ = "none" THEN "53" ELSE @]
      /\ KeyOf("upstream", t) = UpstreamServerKey(t)
  BY <1>1 DEF Accepts, Stored, KeyOf
<1>3. Stored("upstream", t) = Bare(t, Port(t))
  BY <1>2 DEF Texts, Bare, Port
<1>4. ASSUME ~ NoUpstream(t) PROVE UpstreamHost(t) = Bare(t, t.port)
  <2>0. [t EXCEPT !.port = "none"] = [value |-> t.value, port |-> "none", as |-> t.as]
    BY Rewritten
  <2>1. IsAddress([t EXCEPT !.port = "none"]) <=> t.value \in Addresses /\ t.as \subseteq {"long", "upper"}
    BY <2>0 DEF IsAddress
  <2>2. "brackets" \notin t.as /\ "dots" \notin t.as
    BY <1>4 DEF NoUpstream
  <2>3. CASE t.value \in Addresses
    <3>1. t.as \subseteq {"long", "upper"} /\ t.as \ {"long", "upper"} = {}
      BY <2>2, <2>3 DEF Spelled
    <3>. QED  BY <2>1, <2>3, <3>1, Stripped DEF UpstreamHost
  <2>4. CASE t.value \notin Addresses
    <3>1. t.as \ {"upper", "title", "dot"} = {}
      BY <2>2, <2>4 DEF Spelled
    <3>. QED  BY <2>1, <2>4, <3>1, Stripped DEF UpstreamHost
  <2>. QED  BY <2>3, <2>4
<1>5. ASSUME ~ NoUpstream(t) PROVE UpstreamServerKey(t) = Bare(t, Port(t))
  <2>1. UpstreamServerKey(t) = [Bare(t, t.port) EXCEPT !.port = IF @ = "none" THEN "53" ELSE @]
    BY <1>4, <1>5 DEF UpstreamServerKey
  <2>. QED  BY <2>1 DEF Bare, Port
<1>. QED  BY <1>2, <1>3, <1>5 DEF UpstreamServerKey

LEMMA ItselfIs ==
    ASSUME NEW sort \in ItselfSorts, NEW t \in Texts
    PROVE  Accepts(sort, t) /\ KeyOf(sort, t) = t /\ Stored(sort, t) = t
BY DEF ItselfSorts, Accepts, KeyOf, RecordContentKey, Stored

\* What the server has stored, it takes and leaves as it is.
LEMMA StoredText ==
    ASSUME NEW sort \in Sorts, NEW t \in Texts, Spelled(sort, t), Accepts(sort, t)
    PROVE  /\ Stored(sort, t) \in Texts /\ Spelled(sort, Stored(sort, t))
           /\ Accepts(sort, Stored(sort, t))
           /\ Stored(sort, Stored(sort, t)) = Stored(sort, t)
<1>. DEFINE s == Stored(sort, t)
<1>0. t.value \in Values /\ t.port \in Ports
  BY Rewritten
<1>1. CASE sort = "kind"
  <2>1. s = Written(t, t.port, "title")
    BY <1>1, KindIs
  <2>2. s \in Texts /\ s.value = t.value /\ s.port = t.port /\ s.as = {"title"}
    BY <1>0, <2>1 DEF Written, Texts, Marks
  <2>. HIDE DEF s
  <2>3. Spelled("kind", s)
    BY <2>2 DEF Spelled
  <2>4. Accepts("kind", s) /\ Stored("kind", s) = Written(s, s.port, "title")
    BY <2>2, <2>3, KindIs
  <2>5. Written(s, s.port, "title") = s
    BY <2>1, <2>2 DEF Written
  <2>. QED  BY <1>1, <2>2, <2>3, <2>4, <2>5 DEF s
<1>2. CASE sort \in NameSorts
  <2>1. s = Written(t, t.port, "dot")
    BY <1>2, NameIs
  <2>2. s \in Texts /\ s.value = t.value /\ s.port = t.port /\ s.as = {"dot"}
    BY <1>0, <2>1 DEF Written, Texts, Marks
  <2>. HIDE DEF s
  <2>3. Spelled(sort, s)
    BY <1>2, <2>2 DEF Spelled, NameSorts
  <2>4. Accepts(sort, s) /\ Stored(sort, s) = Written(s, s.port, "dot")
    BY <1>2, <2>2, <2>3, NameIs
  <2>5. Written(s, s.port, "dot") = s
    BY <2>1, <2>2 DEF Written
  <2>. QED  BY <2>2, <2>3, <2>4, <2>5 DEF s
<1>3. CASE sort \in AddressSorts
  <2>1. s = Bare(t, t.port) /\ IsAddress(t)
    BY <1>3, AddressIs
  <2>2. s \in Texts /\ s.value = t.value /\ s.port = t.port /\ s.as = {}
    BY <1>0, <2>1 DEF Bare, Texts
  <2>. HIDE DEF s
  <2>3. Spelled(sort, s)
    BY <1>3 DEF Spelled, AddressSorts
  <2>4. IsAddress(s)
    BY <2>1, <2>2 DEF IsAddress
  <2>5. Accepts(sort, s) /\ Stored(sort, s) = Bare(s, s.port)
    BY <1>3, <2>2, <2>4, AddressIs
  <2>6. Bare(s, s.port) = s
    BY <2>1, <2>2 DEF Bare
  <2>. QED  BY <2>2, <2>3, <2>5, <2>6 DEF s
<1>4. CASE sort = "network"
  <2>1. s = Bare(t, t.port) /\ IsNetwork(t)
    BY <1>4, NetworkIs
  <2>2. s \in Texts /\ s.value = t.value /\ s.port = t.port /\ s.as = {}
    BY <1>0, <2>1 DEF Bare, Texts
  <2>. HIDE DEF s
  <2>3. Spelled(sort, s)
    BY <1>4 DEF Spelled
  <2>4. IsNetwork(s)
    BY <2>1, <2>2 DEF IsNetwork
  <2>5. Accepts(sort, s) /\ Stored(sort, s) = Bare(s, s.port)
    BY <1>4, <2>2, <2>4, NetworkIs
  <2>6. Bare(s, s.port) = s
    BY <2>1, <2>2 DEF Bare
  <2>. QED  BY <2>2, <2>3, <2>5, <2>6 DEF s
<1>5. CASE sort = "upstream"
  <2>1. s = Bare(t, Port(t)) /\ ~ NoUpstream(t)
    BY <1>5, UpstreamIs
  <2>2. Port(t) \in Ports /\ Port(t) # "none" /\ Port(t) # "empty"
    BY <1>0, <2>1 DEF Port, Ports, NoUpstream
  <2>3. s \in Texts /\ s.value = t.value /\ s.port = Port(t) /\ s.as = {}
    BY <1>0, <2>1, <2>2 DEF Bare, Texts
  <2>. HIDE DEF s
  <2>4. Spelled("upstream", s)
    BY <2>3 DEF Spelled
  <2>5. ~ NoUpstream(s) /\ Port(s) = s.port
    BY <2>2, <2>3 DEF NoUpstream, Port
  <2>6. Accepts("upstream", s) /\ Stored("upstream", s) = Bare(s, s.port)
    BY <2>3, <2>4, <2>5, UpstreamIs
  <2>7. Bare(s, s.port) = s
    BY <2>1, <2>3 DEF Bare
  <2>. QED  BY <1>5, <2>3, <2>4, <2>6, <2>7 DEF s
<1>6. CASE sort \in ItselfSorts
  BY <1>6, ItselfIs
<1>. QED  BY <1>1, <1>2, <1>3, <1>4, <1>5, <1>6 DEF Sorts

LEMMA AcceptsMeaning ==
    ASSUME NEW sort \in Sorts, NEW t \in Texts, Spelled(sort, t)
    PROVE  /\ Accepts(sort, Meaning(sort, t)) <=> Accepts(sort, t)
           /\ Meaning(sort, t) \in Texts
BY StoredText DEF Meaning

\* The comparisons are right: they tell two texts apart exactly if they mean
\* different things, as long as the server takes one of them.
THEOREM KeysTellMeanings ==
    ASSUME NEW sort \in Sorts, NEW t \in Texts, NEW held \in Texts,
           Spelled(sort, t), Spelled(sort, held), Accepts(sort, held)
    PROVE  KeyOf(sort, t) = KeyOf(sort, held) <=> Meaning(sort, t) = Meaning(sort, held)
<1>1. Meaning(sort, held) = Stored(sort, held)
  BY DEF Meaning
<1>2. ASSUME ~ Accepts(sort, t) PROVE Meaning(sort, t) # Meaning(sort, held)
  BY <1>1, <1>2, StoredText DEF Meaning
<1>3. ASSUME Accepts(sort, t) PROVE Meaning(sort, t) = Stored(sort, t)
  BY <1>3 DEF Meaning
<1>4. \A x, y : /\ Bare(t, x) = Bare(held, y) <=> t.value = held.value /\ x = y
                /\ Written(t, x, "dot") = Written(held, y, "dot") <=> t.value = held.value /\ x = y
                /\ Written(t, x, "title") = Written(held, y, "title") <=> t.value = held.value /\ x = y
  BY DEF Bare, Written
<1>5. \A x : Bare(held, x).as = {}
  BY DEF Bare
<1>6. CASE sort = "kind"
  BY <1>1, <1>3, <1>4, <1>6, KindIs
<1>7. CASE sort \in NameSorts
  BY <1>1, <1>2, <1>3, <1>4, <1>5, <1>7, NameIs
<1>8. CASE sort \in AddressSorts
  <2>1. IsAddress(Bare(held, held.port))
    BY <1>8, AddressIs DEF Bare, IsAddress
  <2>. QED  BY <1>1, <1>2, <1>3, <1>4, <1>8, <2>1, AddressIs
<1>9. CASE sort = "network"
  <2>1. IsNetwork(Bare(held, held.port))
    BY <1>9, NetworkIs DEF Bare, IsNetwork
  <2>. QED  BY <1>1, <1>2, <1>3, <1>4, <1>9, <2>1, NetworkIs
<1>10. CASE sort = "upstream"
  <2>1. ~ NoUpstream(Bare(held, Port(held)))
    BY <1>10, UpstreamIs DEF Bare, NoUpstream, Port
  <2>. QED  BY <1>1, <1>2, <1>3, <1>4, <1>10, <2>1, UpstreamIs
<1>11. CASE sort \in ItselfSorts
  BY <1>1, <1>3, <1>11, ItselfIs
<1>. QED  BY <1>6, <1>7, <1>8, <1>9, <1>10, <1>11 DEF Sorts

\* An upstream that is read as a name, and whose key is read as an address with
\* zeros to leave out: an address in brackets with a dot behind it.
HalfRead(t) ==
    LET bare(u) == [u EXCEPT !.port = "none"]
    IN  /\ ~ NoUpstream(t) /\ "long" \in t.as
        /\ ~ IsAddress(bare(t)) /\ IsAddress(bare(Without(t, {"upper", "title", "dot"})))

LEMMA WithoutIs ==
    ASSUME NEW t \in Texts, NEW x
    PROVE  /\ Without(t, x) \in Texts /\ Without(Without(t, x), x) = Without(t, x)
           /\ Without(t, x).value = t.value /\ Without(t, x).port = t.port /\ Without(t, x).as = t.as \ x
<1>1. /\ Without(t, x) = [value |-> t.value, port |-> t.port, as |-> t.as \ x]
      /\ t.value \in Values /\ t.port \in Ports /\ t.as \subseteq Marks
  BY Rewritten
<1>2. Without(t, x) \in Texts
  BY <1>1 DEF Texts
<1>3. Without(t, x).value = t.value /\ Without(t, x).port = t.port /\ Without(t, x).as = t.as \ x
  BY <1>1
<1>4. Without(Without(t, x), x) = [value |-> t.value, port |-> t.port, as |-> (t.as \ x) \ x]
  <2>. DEFINE n == Without(t, x)
  <2>. HIDE DEF n
  <2>1. n \in Texts /\ n.value = t.value /\ n.port = t.port /\ n.as = t.as \ x
    BY <1>2, <1>3 DEF n
  <2>2. Without(n, x) = [value |-> n.value, port |-> n.port, as |-> n.as \ x]
    BY <2>1, Rewritten
  <2>. QED  BY <2>1, <2>2 DEF n
<1>5. (t.as \ x) \ x = t.as \ x
  OBVIOUS
<1>. QED  BY <1>1, <1>2, <1>3, <1>4, <1>5

LEMMA TwiceWithout ==
    ASSUME NEW t \in Texts, NEW x, NEW y
    PROVE  Without(Without(t, x), y) = [value |-> t.value, port |-> t.port, as |-> (t.as \ x) \ y]
<1>. DEFINE n == Without(t, x)
<1>1. n \in Texts /\ n.value = t.value /\ n.port = t.port /\ n.as = t.as \ x
  BY WithoutIs
<1>. HIDE DEF n
<1>2. Without(n, y) = [value |-> n.value, port |-> n.port, as |-> n.as \ y]
  BY <1>1, Rewritten
<1>. QED  BY <1>1, <1>2 DEF n

LEMMA UpstreamKeyIs ==
    ASSUME NEW t \in Texts, ~ NoUpstream(t)
    PROVE  /\ UpstreamServerKey(t) =
                 [value |-> t.value, port |-> Port(t),
                  as |-> IF t.value \in Addresses /\ t.as \subseteq {"long", "upper"}
                         THEN {} ELSE t.as \ {"upper", "title", "dot"}]
           /\ UpstreamServerKey(t) \in Texts /\ ~ NoUpstream(UpstreamServerKey(t))
<1>. DEFINE host == UpstreamHost(t)
            marks == IF t.value \in Addresses /\ t.as \subseteq {"long", "upper"}
                     THEN {} ELSE t.as \ {"upper", "title", "dot"}
<1>1. IsAddress([t EXCEPT !.port = "none"]) <=> t.value \in Addresses /\ t.as \subseteq {"long", "upper"}
  BY DEF IsAddress, Texts
<1>2. host = [value |-> t.value, port |-> t.port, as |-> marks]
  <2>1. t.as \subseteq {"long", "upper"} => t.as \ {"long", "upper"} = {}
    OBVIOUS
  <2>2. /\ Without(t, {"long", "upper"}) =
             [value |-> t.value, port |-> t.port, as |-> t.as \ {"long", "upper"}]
        /\ Without(t, {"upper", "title", "dot"}) =
             [value |-> t.value, port |-> t.port, as |-> t.as \ {"upper", "title", "dot"}]
    BY Rewritten
  <2>. QED  BY <1>1, <2>1, <2>2 DEF UpstreamHost
<1>3. UpstreamServerKey(t) = [host EXCEPT !.port = IF @ = "none" THEN "53" ELSE @]
  BY DEF UpstreamServerKey
<1>. HIDE DEF host, marks
<1>4. UpstreamServerKey(t) = [value |-> t.value, port |-> Port(t), as |-> marks]
  BY <1>2, <1>3 DEF Port
<1>5. t.value \in Values /\ t.port \in Ports \ {"empty"} /\ t.as \subseteq Marks
  BY Rewritten DEF NoUpstream
<1>6. Port(t) \in Ports \ {"empty"} /\ marks \subseteq t.as
  BY <1>5 DEF Port, Ports, marks
<1>7. UpstreamServerKey(t) \in Texts
  BY <1>4, <1>5, <1>6 DEF Texts
<1>8. ~ NoUpstream(UpstreamServerKey(t))
  BY <1>4, <1>6 DEF NoUpstream
<1>. QED  BY <1>4, <1>7, <1>8 DEF marks

\* The key of a key is the key itself, as the tests of the comparisons say, but
\* for the upstream that is half read.
THEOREM KeysAreIdempotent ==
    ASSUME NEW sort \in Sorts, NEW t \in Texts
    PROVE  KeyOf(sort, KeyOf(sort, t)) = KeyOf(sort, t) <=> ~ (sort = "upstream" /\ HalfRead(t))
<1>1. CASE sort = "kind"
  <2>1. \A u : KeyOf(sort, u) = Without(u, {"upper", "title"})
    BY <1>1 DEF KeyOf, ZoneKindKey, foldKey
  <2>. QED  BY <1>1, <2>1, WithoutIs
<1>2. CASE sort \in NameSorts
  <2>1. \A u : KeyOf(sort, u) = DNSNameKey(u)
    BY <1>2 DEF NameSorts, KeyOf, TSIGKeyIDKey, RecordContentKey
  <2>2. CASE "dots" \in t.as
    <3>1. DNSNameKey(t) = Without(t, {"upper", "title"}) /\ "dots" \in DNSNameKey(t).as
      BY <2>2, WithoutIs DEF DNSNameKey, foldKey
    <3>2. DNSNameKey(DNSNameKey(t)) = Without(DNSNameKey(t), {"upper", "title"})
      BY <3>1 DEF DNSNameKey, foldKey
    <3>. QED  BY <1>2, <2>1, <3>1, <3>2, WithoutIs DEF NameSorts
  <2>3. CASE "dots" \notin t.as
    <3>. DEFINE x == {"upper", "title"}
    <3>1. DNSNameKey(t) = Without(Without(t, x), {"dot"})
      BY <2>3 DEF DNSNameKey, foldKey
    <3>. HIDE DEF x
    <3>2. /\ Without(t, x) \in Texts /\ Without(t, x).value = t.value /\ Without(t, x).port = t.port
          /\ Without(t, x).as = t.as \ x
      BY WithoutIs
    <3>3. DNSNameKey(t) = [value |-> t.value, port |-> t.port, as |-> (t.as \ x) \ {"dot"}]
      BY <3>1, <3>2, TwiceWithout
    <3>4. DNSNameKey(t) \in Texts
      BY <3>1, <3>2, WithoutIs
    <3>. DEFINE n == DNSNameKey(t)
    <3>. HIDE DEF n
    <3>5. n \in Texts /\ n.value = t.value /\ n.port = t.port /\ n.as = (t.as \ x) \ {"dot"}
      BY <3>3, <3>4 DEF n
    <3>6. DNSNameKey(n) = Without(Without(n, x), {"dot"})
      BY <2>3, <3>5 DEF DNSNameKey, foldKey, x
    <3>7. Without(Without(n, x), {"dot"}) = [value |-> n.value, port |-> n.port, as |-> (n.as \ x) \ {"dot"}]
      BY <3>5, TwiceWithout
    <3>8. DNSNameKey(n) = [value |-> t.value, port |-> t.port, as |-> (n.as \ x) \ {"dot"}]
      BY <3>5, <3>6, <3>7
    <3>9. (n.as \ x) \ {"dot"} = (t.as \ x) \ {"dot"}
      BY <3>5
    <3>. QED  BY <1>2, <2>1, <3>3, <3>8, <3>9 DEF n, NameSorts
  <2>. QED  BY <2>2, <2>3
<1>3. CASE sort \in AddressSorts
  <2>1. ASSUME IsAddress(t) PROVE IsAddress(Bare(t, t.port)) /\ Bare(t, t.port) \in Texts
    BY <2>1, Rewritten DEF IsAddress, Bare, Texts
  <2>2. Bare(Bare(t, t.port), Bare(t, t.port).port) = Bare(t, t.port)
    BY DEF Bare
  <2>. QED  BY <1>3, <2>1, <2>2, AddressIs DEF AddressSorts
<1>4. CASE sort = "network"
  <2>1. ASSUME IsNetwork(t) PROVE IsNetwork(Bare(t, t.port)) /\ Bare(t, t.port) \in Texts
    BY <2>1, Rewritten DEF IsNetwork, Bare, Texts
  <2>2. Bare(Bare(t, t.port), Bare(t, t.port).port) = Bare(t, t.port)
    BY DEF Bare
  <2>. QED  BY <1>4, <2>1, <2>2, NetworkIs
<1>5. CASE sort \in ItselfSorts
  BY <1>5, ItselfIs DEF ItselfSorts
<1>6. CASE sort = "upstream"
  <2>1. \A u : KeyOf(sort, u) = UpstreamServerKey(u)
    BY <1>6 DEF KeyOf
  <2>2. CASE NoUpstream(t)
    BY <1>6, <2>1, <2>2 DEF UpstreamServerKey, HalfRead
  <2>3. CASE ~ NoUpstream(t)
    <3>. DEFINE u == UpstreamServerKey(t)
                address(v, marks) == v \in Addresses /\ marks \subseteq {"long", "upper"}
                cut(marks) == marks \ {"upper", "title", "dot"}
                left(v, marks) == IF address(v, marks) THEN {} ELSE cut(marks)
    <3>1. u = [value |-> t.value, port |-> Port(t), as |-> left(t.value, t.as)]
          /\ u \in Texts /\ ~ NoUpstream(u)
      BY <2>3, UpstreamKeyIs
    <3>. HIDE DEF u, address, cut, left
    <3>2. u.value = t.value /\ u.port = Port(t) /\ u.as = left(t.value, t.as)
      BY <3>1
    <3>3. UpstreamServerKey(u) = [value |-> u.value, port |-> Port(u), as |-> left(u.value, u.as)]
      BY <3>1, UpstreamKeyIs DEF left, address, cut
    <3>4. Port(u) = u.port
      BY <3>2 DEF Port
    <3>5. UpstreamServerKey(u) = u <=> left(t.value, left(t.value, t.as)) = left(t.value, t.as)
      BY <3>1, <3>2, <3>3, <3>4
    <3>6. HalfRead(t) <=> "long" \in t.as /\ ~ address(t.value, t.as) /\ address(t.value, cut(t.as))
      <4>1. /\ Without(t, {"upper", "title", "dot"}) \in Texts
            /\ Without(t, {"upper", "title", "dot"}).value = t.value
            /\ Without(t, {"upper", "title", "dot"}).as = cut(t.as)
        BY WithoutIs DEF cut
      <4>2. \A w \in Texts : IsAddress([w EXCEPT !.port = "none"]) <=> address(w.value, w.as)
        BY DEF IsAddress, Texts, address
      <4>. QED  BY <2>3, <4>1, <4>2 DEF HalfRead
    <3>7. left(t.value, left(t.value, t.as)) = left(t.value, t.as)
          <=> ~ ("long" \in t.as /\ ~ address(t.value, t.as) /\ address(t.value, cut(t.as)))
      <4>1. CASE address(t.value, t.as)
        <5>1. left(t.value, t.as) = {} /\ left(t.value, {}) = {}
          BY <4>1 DEF left, cut
        <5>. QED  BY <4>1, <5>1
      <4>2. CASE ~ address(t.value, t.as)
        <5>1. left(t.value, t.as) = cut(t.as) /\ cut(cut(t.as)) = cut(t.as)
          BY <4>2 DEF left, cut
        <5>2. CASE address(t.value, cut(t.as))
          <6>1. left(t.value, cut(t.as)) = {}
            BY <5>2 DEF left
          <6>2. cut(t.as) = {} <=> "long" \notin t.as
            BY <5>2 DEF cut, address
          <6>. QED  BY <4>2, <5>1, <5>2, <6>1, <6>2
        <5>3. CASE ~ address(t.value, cut(t.as))
          <6>1. left(t.value, cut(t.as)) = cut(t.as)
            BY <5>1, <5>3 DEF left
          <6>. QED  BY <5>1, <5>3, <6>1
        <5>. QED  BY <5>2, <5>3
      <4>. QED  BY <4>1, <4>2
    <3>. QED  BY <1>6, <2>1, <3>5, <3>6, <3>7 DEF u
  <2>. QED  BY <2>2, <2>3
<1>. QED  BY <1>1, <1>2, <1>3, <1>4, <1>5, <1>6 DEF Sorts

\* The dot that requests end names in changes no meaning.
LEMMA CanonicalIs ==
    ASSUME NEW sort \in {"name", "tsig"}, NEW t \in Texts, Spelled(sort, t)
    PROVE  /\ canonicalName(t) \in Texts /\ Spelled(sort, canonicalName(t))
           /\ Meaning(sort, canonicalName(t)) = Meaning(sort, t)
           /\ Readable(sort, canonicalName(t)) <=> Accepts(sort, t)
           /\ canonicalName(canonicalName(t)) = canonicalName(t)
<1>. DEFINE n == canonicalName(t)
<1>0. /\ sort \in NameSorts
      /\ t.value \in Values /\ t.port \in Ports /\ t.as \subseteq {"upper", "title", "dot", "dots"}
  BY Rewritten DEF NameSorts, Spelled
<1>1. CASE t.as \cap {"dot", "dots"} # {}
  <2>1. n = t
    BY <1>1 DEF canonicalName
  <2>2. "dots" \notin t.as => "dot" \in t.as
    BY <1>1
  <2>. QED  BY <1>0, <2>1, <2>2, NameIs DEF Readable
<1>2. CASE t.as \cap {"dot", "dots"} = {}
  <2>1. n = [t EXCEPT !.as = @ \cup {"dot"}]
    BY <1>2 DEF canonicalName
  <2>2. n = [value |-> t.value, port |-> t.port, as |-> t.as \cup {"dot"}]
    BY <2>1 DEF Texts
  <2>. HIDE DEF n
  <2>3. n \in Texts /\ n.value = t.value /\ n.port = t.port /\ n.as = t.as \cup {"dot"}
    BY <1>0, <2>2 DEF Texts, Marks
  <2>4. Spelled(sort, n)
    BY <1>0, <2>3 DEF Spelled, NameSorts
  <2>5. "dots" \notin n.as /\ "dots" \notin t.as
    BY <1>2, <2>3
  <2>6. Accepts(sort, n) /\ Accepts(sort, t)
    BY <1>0, <2>3, <2>4, <2>5, NameIs
  <2>7. Stored(sort, n) = Stored(sort, t)
    BY <1>0, <2>3, <2>4, NameIs DEF Written
  <2>8. canonicalName(n) = n
    <3>1. "dot" \in n.as
      BY <2>3
    <3>. QED  BY <3>1 DEF canonicalName
  <2>9. Readable(sort, n)
    BY <2>3, <2>6 DEF Readable
  <2>. QED  BY <2>3, <2>4, <2>6, <2>7, <2>8, <2>9 DEF n, Meaning
<1>. QED  BY <1>1, <1>2

-----------------------------------------------------------------------------
(***************************************************************************)
(* Lists of texts.                                                         *)
(***************************************************************************)

Each(sort, list) == [i \in DOMAIN list |-> Meaning(sort, list[i])]
KeyOfEach(sort, list) == [i \in DOMAIN list |-> KeyOf(sort, list[i])]
ListMeaning(sort, list) == IF sort = "ordered" THEN Each(sort, list) ELSE ToBag(Each(sort, list))

SpelledList(sort, list) == list \in Seq(Texts) /\ \A i \in DOMAIN list : Spelled(sort, list[i])
AcceptedList(sort, list) == \A i \in DOMAIN list : Accepts(sort, list[i])

LEMMA EachIs ==
    ASSUME NEW sort \in Sorts, NEW list, SpelledList(sort, list)
    PROVE  /\ Each(sort, list) \in Seq(Texts) /\ Len(Each(sort, list)) = Len(list)
           /\ KeyOfEach(sort, list) \in Seq(ToSet(KeyOfEach(sort, list)))
           /\ Len(KeyOfEach(sort, list)) = Len(list)
<1>1. Len(list) \in Nat /\ DOMAIN list = 1 .. Len(list)
  BY DEF SpelledList
<1>2. \A i \in DOMAIN list : Meaning(sort, list[i]) \in Texts
  BY AcceptsMeaning DEF SpelledList
<1>3. Each(sort, list) \in [1 .. Len(list) -> Texts]
  BY <1>1, <1>2 DEF Each
<1>4. KeyOfEach(sort, list) \in [1 .. Len(list) -> ToSet(KeyOfEach(sort, list))]
  BY <1>1 DEF KeyOfEach, ToSet
<1>. QED  BY <1>1, <1>3, <1>4

\* Entries are told apart in kc and kh as they are in mc and mh.
Alike(kc, kh, mc, mh) ==
    /\ DOMAIN kc = DOMAIN mc /\ DOMAIN kh = DOMAIN mh
    /\ \A i \in DOMAIN kc, j \in DOMAIN kh : kc[i] = kh[j] <=> mc[i] = mh[j]
    /\ \A i \in DOMAIN kh, j \in DOMAIN kh : kh[i] = kh[j] <=> mh[i] = mh[j]

\* If two ways of looking at the entries tell the same ones apart, then lists
\* that are the same in one are the same in the other.
LEMMA SameThrough ==
    ASSUME NEW T, NEW kc \in Seq(T), NEW kh \in Seq(T),
           NEW U, NEW mc \in Seq(U), NEW mh \in Seq(U),
           Alike(kc, kh, mc, mh), Same(kc, kh)
    PROVE  Same(mc, mh)
<1>1. DOMAIN kc = DOMAIN mc /\ DOMAIN kh = DOMAIN mh
  BY DEF Alike
<1>2. ASSUME NEW j \in DOMAIN kh
      PROVE  Cardinality(Where(mc, mh[j])) = Cardinality(Where(mh, mh[j]))
  <2>1. Where(mc, mh[j]) = Where(kc, kh[j]) /\ Where(mh, mh[j]) = Where(kh, kh[j])
    BY <1>1 DEF Alike, Where
  <2>2. kh[j] \in ToSet(kh)
    BY DEF ToSet
  <2>. QED  BY <2>1, <2>2 DEF Same
<1>3. ASSUME NEW i \in DOMAIN kc
      PROVE  \E j \in DOMAIN kh : mh[j] = mc[i]
  <2>1. kc[i] \in ToSet(kc)
    BY DEF ToSet
  <2>2. Cardinality(Where(kc, kc[i])) # 0 /\ Cardinality(Where(kc, kc[i])) = Cardinality(Where(kh, kc[i]))
    BY <2>1, WhereIs DEF Same
  <2>3. kc[i] \in ToSet(kh)
    BY <2>2, WhereIs
  <2>. QED  BY <2>3 DEF Alike, ToSet
<1>. QED  BY <1>1, <1>2, <1>3 DEF Same, ToSet

\* What the plan modifier of a list keeps of the state: the list that is held,
\* exactly if it means what the block says.
LEMMA ListsTellMeanings ==
    ASSUME NEW sort \in Sorts, NEW list, NEW held,
           SpelledList(sort, list), SpelledList(sort, held), AcceptedList(sort, held)
    PROVE  semanticSet(sort, list, held) = held <=> ListMeaning(sort, list) = ListMeaning(sort, held)
<1>. DEFINE kc == KeyOfEach(sort, list)
            kh == KeyOfEach(sort, held)
            mc == Each(sort, list)
            mh == Each(sort, held)
            T == ToSet(kc) \cup ToSet(kh)
<1>1. /\ list \in Seq(Texts) /\ held \in Seq(Texts)
      /\ mc \in Seq(Texts) /\ mh \in Seq(Texts) /\ Len(mc) = Len(list) /\ Len(mh) = Len(held)
      /\ kc \in Seq(T) /\ kh \in Seq(T) /\ Len(kc) = Len(list) /\ Len(kh) = Len(held)
  <2>1. /\ kc \in Seq(ToSet(kc)) /\ kh \in Seq(ToSet(kh))
        /\ mc \in Seq(Texts) /\ mh \in Seq(Texts) /\ Len(mc) = Len(list) /\ Len(mh) = Len(held)
        /\ Len(kc) = Len(list) /\ Len(kh) = Len(held)
    BY EachIs
  <2>2. list \in Seq(Texts) /\ held \in Seq(Texts)
    BY DEF SpelledList
  <2>. HIDE DEF kc, kh, mc, mh
  <2>3. kc \in Seq(T) /\ kh \in Seq(T)
    BY <2>1
  <2>. QED  BY <2>1, <2>2, <2>3
<1>2. DOMAIN kc = DOMAIN list /\ DOMAIN mc = DOMAIN list /\ DOMAIN kh = DOMAIN held /\ DOMAIN mh = DOMAIN held
  BY DEF KeyOfEach, Each
<1>3. CASE sort = "ordered"
  <2>1. mc = list /\ mh = held
    <3>1. ASSUME NEW t \in Texts PROVE Meaning(sort, t) = t
      BY <1>3, ItselfIs DEF ItselfSorts, Meaning
    <3>. QED  BY <1>1, <3>1 DEF Each
  <2>. QED  BY <1>3, <2>1 DEF semanticSet, ListMeaning
<1>4. CASE sort # "ordered"
  <2>1. Alike(kc, kh, mc, mh)
    <3>1. ASSUME NEW t \in Texts, Spelled(sort, t), NEW j \in DOMAIN held
          PROVE  KeyOf(sort, t) = KeyOf(sort, held[j]) <=> Meaning(sort, t) = Meaning(sort, held[j])
      BY <1>1, <3>1, KeysTellMeanings DEF SpelledList, AcceptedList
    <3>2. /\ \A i \in DOMAIN list : list[i] \in Texts /\ Spelled(sort, list[i])
          /\ \A i \in DOMAIN held : held[i] \in Texts /\ Spelled(sort, held[i])
      BY <1>1 DEF SpelledList
    <3>. QED  BY <1>2, <3>1, <3>2 DEF KeyOfEach, Each, Alike
  <2>. HIDE DEF kc, kh, mc, mh, T
  <2>2. Same(kc, kh) <=> Same(mc, mh)
    <3>1. Same(kc, kh) => Same(mc, mh)
      BY <1>1, <2>1, SameThrough
    <3>2. Alike(mc, mh, kc, kh)
      BY <2>1 DEF Alike
    <3>3. Same(mc, mh) => Same(kc, kh)
      BY <1>1, <3>2, SameThrough
    <3>. QED  BY <3>1, <3>3
  <2>3. StringMultiset(kc, kh) <=> ToBag(mc) = ToBag(mh)
    <3>1. StringMultiset(kc, kh) <=> Same(kc, kh)
      BY <1>1, MultisetsAreCompared, BagsTellSame
    <3>2. ToBag(mc) = ToBag(mh) <=> Same(mc, mh)
      BY <1>1, BagsTellSame
    <3>. QED  BY <2>2, <3>1, <3>2
  <2>4. ToBag(mc) = ToBag(mh) => Len(list) = Len(held)
    BY <1>1, BagsTellSame, SameLength
  <2>5. list = held => ToBag(mc) = ToBag(mh)
    BY DEF mc, mh
  <2>6. semanticSet(sort, list, held) =
          IF list # <<>> /\ held # <<>> /\ StringMultiset(kc, kh) THEN held ELSE list
    BY <1>4 DEF semanticSet, kc, kh, KeyOfEach
  <2>7. ListMeaning(sort, list) = ToBag(mc) /\ ListMeaning(sort, held) = ToBag(mh)
    BY <1>4 DEF ListMeaning, mc, mh
  <2>8. (list = <<>> \/ held = <<>>) /\ Len(list) = Len(held) => list = held
    BY <1>1
  <2>. QED  BY <2>3, <2>4, <2>5, <2>6, <2>7, <2>8
<1>. QED  BY <1>3, <1>4

LEMMA ReversedIsSame ==
    ASSUME NEW T, NEW list \in Seq(T)
    PROVE  Reverse(list) \in Seq(T) /\ ToBag(Reverse(list)) = ToBag(list)
<1>. DEFINE n == Len(list)
            f == [j \in 1 .. n |-> (n - j) + 1]
<1>1. n \in Nat /\ DOMAIN list = 1 .. n
  OBVIOUS
<1>2. \A j \in 1 .. n : (n - j) + 1 \in 1 .. n
  BY <1>1
<1>3. Reverse(list) = [j \in 1 .. n |-> list[(n - j) + 1]]
  BY DEF Reverse
<1>4. Reverse(list) \in Seq(T) /\ Len(Reverse(list)) = n /\ DOMAIN Reverse(list) = 1 .. n
  <2>1. Reverse(list) \in [1 .. n -> T]
    BY <1>1, <1>2, <1>3
  <2>. QED  BY <1>1, <2>1
<1>5. Takes(f, list, Reverse(list))
  <2>1. f \in [DOMAIN Reverse(list) -> DOMAIN list]
    BY <1>1, <1>2, <1>4
  <2>2. \A j \in DOMAIN Reverse(list) : list[f[j]] = Reverse(list)[j]
    BY <1>3, <1>4
  <2>3. \A i \in DOMAIN Reverse(list), j \in DOMAIN Reverse(list) : f[i] = f[j] => i = j
    BY <1>1, <1>4
  <2>. QED  BY <2>1, <2>2, <2>3 DEF Takes
<1>6. Same(list, Reverse(list))
  BY <1>4, <1>5, TakingTellsSame
<1>. QED  BY <1>4, <1>6, BagsTellSame

-----------------------------------------------------------------------------
(***************************************************************************)
(* Keys, and the paths that requests carry for them.                       *)
(***************************************************************************)

PartSorts == {"name", "target", "tsig", "address", "network"}

LEMMA SchemaIs ==
    ASSUME NEW s \in Subjects
    PROVE  /\ \A i \in DOMAIN Schema[s].parts :
                 /\ Schema[s].parts[i] \in PartSorts
                 /\ s \in Canonicalised => Schema[s].parts[i] = "name"
                 /\ s \notin Canonicalised => Schema[s].parts[i] # "name"
                 /\ s = "tsigkey" => Schema[s].parts[i] = "tsig"
           /\ s \in Records => DOMAIN Schema[s].parts = 1 .. 2
           /\ Schema[s].label \in {"kind", "exact"}
           /\ Schema[s].list \in Sorts
<1>. DEFINE row(r) ==
       /\ \A i \in DOMAIN r.parts :
                 /\ r.parts[i] \in PartSorts
                 /\ s \in Canonicalised => r.parts[i] = "name"
                 /\ s \notin Canonicalised => r.parts[i] # "name"
                 /\ s = "tsigkey" => r.parts[i] = "tsig"
       /\ s \in Records => DOMAIN r.parts = 1 .. 2
       /\ r.label \in {"kind", "exact"}
       /\ r.list \in Sorts
<1>. USE DEF Canonicalised, Records, PartSorts, Sorts, NameSorts, AddressSorts, ItselfSorts
<1>0. s \in {"zone", "recursor_zone", "address_record", "target_record", "text_record", "metadata",
             "view_zone", "network", "autoprimary", "tsigkey", "acl"}
  BY SubjectsAssumption DEF Schema
<1>1. CASE s \in {"zone", "recursor_zone"}
  <2>1. /\ Schema[s].parts = <<"name">> /\ Schema[s].label = "kind"
        /\ Schema[s].list \in {"address", "upstream"}
    BY <1>1 DEF Schema
  <2>. QED  BY <1>1, <2>1
<1>2. CASE s \in {"address_record", "target_record", "text_record"}
  <2>1. /\ Schema[s].parts = <<"name", "name">> /\ Schema[s].label = "exact"
        /\ Schema[s].list \in {"A", "CNAME", "TXT"}
    BY <1>2 DEF Schema
  <2>. QED  BY <1>2, <2>1
<1>3. CASE s \in {"metadata", "view_zone"}
  <2>1. /\ Schema[s].parts = <<"name">> /\ Schema[s].label = "exact"
        /\ Schema[s].list \in {"ordered", "exact"}
    BY <1>3 DEF Schema
  <2>. QED  BY <1>3, <2>1
<1>4. CASE s = "network"
  <2>1. /\ Schema[s].parts = <<"network">> /\ Schema[s].label = "exact" /\ Schema[s].list = "exact"
    BY <1>4 DEF Schema
  <2>. QED  BY <1>4, <2>1
<1>5. CASE s = "autoprimary"
  <2>1. /\ Schema[s].parts = <<"address", "target">> /\ Schema[s].label = "exact" /\ Schema[s].list = "exact"
    BY <1>5 DEF Schema
  <2>. QED  BY <1>5, <2>1
<1>6. CASE s = "tsigkey"
  <2>1. /\ Schema[s].parts = <<"tsig">> /\ Schema[s].label = "exact" /\ Schema[s].list = "exact"
    BY <1>6 DEF Schema
  <2>. QED  BY <1>6, <2>1
<1>7. CASE s = "acl"
  <2>1. /\ Schema[s].parts = <<>> /\ Schema[s].label = "exact" /\ Schema[s].list = "network"
    BY <1>7 DEF Schema
  <2>. QED  BY <1>7, <2>1
<1>. QED  BY <1>0, <1>1, <1>2, <1>3, <1>4, <1>5, <1>6, <1>7

\* The parts of the key of this behaviour's subject.
LEMMA PartsAre ==
    ASSUME subject \in Subjects
    PROVE  /\ Parts = Schema[subject].parts
           /\ \A i \in DOMAIN Parts :
                 /\ Parts[i] \in Sorts /\ Parts[i] \in PartSorts
                 /\ subject \in Canonicalised => Parts[i] = "name"
                 /\ subject \notin Canonicalised => Parts[i] # "name"
                 /\ subject = "tsigkey" => Parts[i] = "tsig"
           /\ subject \in Records => DOMAIN Parts = 1 .. 2
           /\ Schema[subject].label \in Sorts
           /\ Schema[subject].list \in Sorts
<1>1. PartSorts \subseteq Sorts /\ {"kind", "exact"} \subseteq Sorts
  BY DEF PartSorts, Sorts, NameSorts, AddressSorts, ItselfSorts
<1>. QED  BY <1>1, SchemaIs DEF Parts

SpelledKey(key) == key \in Keys(subject) /\ \A i \in DOMAIN Parts : Spelled(Parts[i], key[i])
AcceptedKey(key) == \A i \in DOMAIN Parts : Accepts(Parts[i], key[i])

\* A path reaches what a key means, and no object if the server does not take
\* the key.
Reaches(path, key) ==
    /\ SpelledKey(path)
    /\ \A i \in DOMAIN Parts :
        /\ Readable(Parts[i], path[i]) <=> Accepts(Parts[i], key[i])
        /\ Accepts(Parts[i], key[i]) => Stored(Parts[i], path[i]) = Stored(Parts[i], key[i])

LEMMA KeyIs ==
    ASSUME subject \in Subjects, NEW key, SpelledKey(key)
    PROVE  /\ DOMAIN key = DOMAIN Parts
           /\ \A i \in DOMAIN Parts : key[i] \in Texts /\ Spelled(Parts[i], key[i])
BY PartsAre DEF SpelledKey, Keys

LEMMA SentIs ==
    ASSUME subject \in Subjects, NEW key, SpelledKey(key)
    PROVE  /\ SpelledKey(Sent(key)) /\ Reaches(Sent(key), key)
           /\ EachPart(Meaning, Sent(key)) = EachPart(Meaning, key)
           /\ AcceptedKey(Sent(key)) <=> AcceptedKey(key)
           /\ Sent(Sent(key)) = Sent(key)
<1>1. CASE subject \notin Canonicalised
  <2>1. Sent(key) = key
    BY <1>1 DEF Sent
  <2>2. \A i \in DOMAIN Parts : Readable(Parts[i], key[i]) <=> Accepts(Parts[i], key[i])
    BY <1>1, PartsAre DEF Readable
  <2>. QED  BY <2>1, <2>2 DEF Reaches
<1>2. CASE subject \in Canonicalised
  <2>1. /\ Sent(key) = [i \in DOMAIN Parts |-> canonicalName(key[i])]
        /\ Sent(Sent(key)) = [i \in DOMAIN Parts |-> canonicalName(Sent(key)[i])]
    BY <1>2, KeyIs DEF Sent
  <2>2. ASSUME NEW i \in DOMAIN Parts
        PROVE  /\ Sent(key)[i] \in Texts /\ Spelled(Parts[i], Sent(key)[i])
               /\ Meaning(Parts[i], Sent(key)[i]) = Meaning(Parts[i], key[i])
               /\ Readable(Parts[i], Sent(key)[i]) <=> Accepts(Parts[i], key[i])
               /\ canonicalName(Sent(key)[i]) = Sent(key)[i]
    <3>1. Parts[i] = "name" /\ Parts[i] \in {"name", "tsig"} /\ key[i] \in Texts /\ Spelled(Parts[i], key[i])
      BY <1>2, PartsAre, KeyIs
    <3>2. Sent(key)[i] = canonicalName(key[i])
      BY <2>1
    <3>. QED  BY <3>1, <3>2, CanonicalIs
  <2>3. SpelledKey(Sent(key))
    BY <2>1, <2>2, PartsAre DEF SpelledKey, Keys
  <2>4. ASSUME NEW i \in DOMAIN Parts
        PROVE  /\ Accepts(Parts[i], Sent(key)[i]) <=> Accepts(Parts[i], key[i])
               /\ Accepts(Parts[i], key[i]) => Stored(Parts[i], Sent(key)[i]) = Stored(Parts[i], key[i])
    <3>1. Parts[i] \in Sorts /\ key[i] \in Texts /\ Spelled(Parts[i], key[i])
      BY PartsAre, KeyIs
    <3>2. Accepts(Parts[i], Sent(key)[i]) <=> Accepts(Parts[i], key[i])
      BY <2>2, <3>1, AcceptsMeaning
    <3>. QED  BY <2>2, <3>2 DEF Meaning
  <2>5. Reaches(Sent(key), key)
    BY <2>2, <2>3, <2>4 DEF Reaches
  <2>6. EachPart(Meaning, Sent(key)) = EachPart(Meaning, key)
    BY <2>2 DEF EachPart
  <2>7. Sent(Sent(key)) = Sent(key)
    BY <2>1, <2>2
  <2>. QED  BY <2>3, <2>4, <2>5, <2>6, <2>7 DEF AcceptedKey
<1>. QED  BY <1>1, <1>2

-----------------------------------------------------------------------------
(***************************************************************************)
(* Objects at the server, and what a block or a state means.               *)
(***************************************************************************)

StoredAs(sort, t) == t \in Texts /\ Spelled(sort, t) /\ Accepts(sort, t) /\ Stored(sort, t) = t

StoredObject(o) ==
    /\ o \in Objects(subject)
    /\ \A i \in DOMAIN Parts : StoredAs(Parts[i], o.key[i])
    /\ StoredAs(Schema[subject].label, o.label)
    /\ \A i \in DOMAIN o.list : StoredAs(Schema[subject].list, o.list[i])

SpelledBody(label, list) ==
    /\ label \in Texts /\ Spelled(Schema[subject].label, label)
    /\ SpelledList(Schema[subject].list, list)
AcceptedBody(label, list) ==
    Accepts(Schema[subject].label, label) /\ AcceptedList(Schema[subject].list, list)

Body(label, list) ==
    [label |-> Meaning(Schema[subject].label, label), list |-> ListMeaning(Schema[subject].list, list)]
KeyMeaning(key) == EachPart(Meaning, key)

LEMMA ObjectIs ==
    ASSUME NEW b
    PROVE  /\ Object(b) = [of |-> subject, key |-> KeyMeaning(b.key), body |-> Body(b.label, b.list)]
           /\ Object(b).of = subject /\ Object(b).key = KeyMeaning(b.key)
           /\ Object(b).body = Body(b.label, b.list)
           /\ subject \in Subjects => Object(b) # NoObject
<1>1. Object(b) = [of |-> subject, key |-> KeyMeaning(b.key), body |-> Body(b.label, b.list)]
  BY DEF Object, Body, KeyMeaning, ListMeaning, Each
<1>2. subject \in Subjects => subject # "nothing"
  BY SubjectsAssumption DEF Schema
<1>. QED  BY <1>1, <1>2 DEF NoObject

LEMMA MeaningOfStored ==
    ASSUME NEW sort, NEW t, StoredAs(sort, t)
    PROVE  Meaning(sort, t) = t
BY DEF StoredAs, Meaning

LEMMA KeyOfStored ==
    ASSUME subject \in Subjects, NEW o, StoredObject(o)
    PROVE  /\ SpelledKey(o.key) /\ AcceptedKey(o.key)
           /\ KeyMeaning(o.key) = o.key
           /\ SpelledBody(o.label, o.list) /\ AcceptedBody(o.label, o.list)
<1>1. o.key \in Keys(subject) /\ o.label \in Texts /\ o.list \in Seq(Texts)
  BY DEF StoredObject, Objects
<1>2. \A i \in DOMAIN Parts : Meaning(Parts[i], o.key[i]) = o.key[i]
  BY MeaningOfStored DEF StoredObject
<1>3. KeyMeaning(o.key) = o.key
  BY <1>1, <1>2, PartsAre DEF KeyMeaning, EachPart, Keys
<1>. QED
  BY <1>1, <1>3 DEF StoredObject, StoredAs, SpelledKey, AcceptedKey, SpelledBody, AcceptedBody,
                    SpelledList, AcceptedList

\* The server takes a request if it takes all that the request says.
LEMMA RequestIs ==
    ASSUME subject \in Subjects, NEW path, NEW key, Reaches(path, key), NEW label, NEW list
    PROVE  AcceptsRequest(path, label, list) <=> AcceptedKey(key) /\ AcceptedBody(label, list)
BY DEF AcceptsRequest, Reaches, AcceptedKey, AcceptedBody, AcceptedList, ToSet

LEMMA AcceptedListIs ==
    ASSUME NEW sort \in Sorts, sort # "ordered", NEW list, SpelledList(sort, list)
    PROVE  AcceptedList(sort, list) <=> \A t \in DOMAIN ListMeaning(sort, list) : Accepts(sort, t)
<1>1. DOMAIN ListMeaning(sort, list) = {Each(sort, list)[i] : i \in DOMAIN Each(sort, list)}
  BY DEF ListMeaning, ToBag, Range
<1>2. DOMAIN Each(sort, list) = DOMAIN list
  BY DEF Each
<1>3. \A i \in DOMAIN list : Accepts(sort, Each(sort, list)[i]) <=> Accepts(sort, list[i])
  BY AcceptsMeaning DEF SpelledList, Each
<1>. QED  BY <1>1, <1>2, <1>3 DEF AcceptedList

LEMMA AcceptableIs ==
    ASSUME subject \in Subjects, NEW b, SpelledKey(b.key), SpelledBody(b.label, b.list)
    PROVE  Acceptable(Object(b)) <=> AcceptedKey(b.key) /\ AcceptedBody(b.label, b.list)
<1>. DEFINE schema == Schema[subject]
<1>1. schema.list \in Sorts /\ schema.label \in Sorts /\ \A i \in DOMAIN Parts : Parts[i] \in Sorts
  BY PartsAre
<1>2. \A i \in DOMAIN Parts : Accepts(Parts[i], Object(b).key[i]) <=> Accepts(Parts[i], b.key[i])
  <2>1. ASSUME NEW i \in DOMAIN Parts
        PROVE  Object(b).key[i] = Meaning(Parts[i], b.key[i])
    BY ObjectIs DEF KeyMeaning, EachPart
  <2>. QED  BY <1>1, <2>1, KeyIs, AcceptsMeaning
<1>3. /\ Object(b).of = subject
      /\ Object(b).body.label = Meaning(schema.label, b.label)
      /\ Object(b).body.list = ListMeaning(schema.list, b.list)
  <2>1. Object(b).of = subject /\ Object(b).body = Body(b.label, b.list)
    BY ObjectIs
  <2>2. /\ Body(b.label, b.list).label = Meaning(schema.label, b.label)
        /\ Body(b.label, b.list).list = ListMeaning(schema.list, b.list)
    BY DEF Body
  <2>. QED  BY <2>1, <2>2
<1>4. Accepts(schema.label, Object(b).body.label) <=> Accepts(schema.label, b.label)
  BY <1>1, <1>3, AcceptsMeaning DEF SpelledBody
<1>5. (schema.list # "ordered" =>
         \A t \in DOMAIN Object(b).body.list : Accepts(schema.list, t)) <=> AcceptedList(schema.list, b.list)
  <2>1. CASE schema.list = "ordered"
    BY <2>1, ItselfIs DEF ItselfSorts, AcceptedList, SpelledBody, SpelledList
  <2>2. CASE schema.list # "ordered"
    BY <1>1, <1>3, <2>2, AcceptedListIs DEF SpelledBody
  <2>. QED  BY <2>1, <2>2
<1>. QED  BY <1>2, <1>3, <1>4, <1>5, PartsAre DEF Acceptable, AcceptedKey, AcceptedBody

\* What a write leaves at the server means what was to be written.
LEMMA WrittenIs ==
    ASSUME subject \in Subjects, NEW key, SpelledKey(key), AcceptedKey(key),
           NEW path, EachPart(Stored, path) = EachPart(Stored, key),
           NEW label, NEW list, SpelledBody(label, list), AcceptedBody(label, list),
           NEW o \in StoredObjects(path, label, list)
    PROVE  /\ StoredObject(o) /\ o.key = KeyMeaning(key)
           /\ Object(o) = [of |-> subject, key |-> KeyMeaning(key), body |-> Body(label, list)]
<1>. DEFINE sort == Schema[subject].list
            each == [i \in DOMAIN list |-> Stored(sort, list[i])]
<1>0. sort \in Sorts /\ Schema[subject].label \in Sorts /\ \A i \in DOMAIN Parts : Parts[i] \in Sorts
  BY PartsAre
<1>1. PICK l \in StoredLists(list) :
        o = [key |-> EachPart(Stored, path), label |-> Stored(Schema[subject].label, label), list |-> l]
  BY DEF StoredObjects
<1>2. /\ o.key = EachPart(Stored, key) /\ o.label = Stored(Schema[subject].label, label) /\ o.list = l
  BY <1>1
<1>3. ASSUME NEW s \in Sorts, NEW t \in Texts, Spelled(s, t), Accepts(s, t)
      PROVE  StoredAs(s, Stored(s, t)) /\ Meaning(s, t) = Stored(s, t)
  BY <1>3, StoredText DEF StoredAs, Meaning
<1>4. /\ \A i \in DOMAIN Parts : StoredAs(Parts[i], o.key[i])
      /\ o.key = KeyMeaning(key) /\ o.key \in Keys(subject)
  <2>1. ASSUME NEW i \in DOMAIN Parts
        PROVE  /\ StoredAs(Parts[i], Stored(Parts[i], key[i]))
               /\ Meaning(Parts[i], key[i]) = Stored(Parts[i], key[i])
    BY <1>0, <1>3, KeyIs DEF AcceptedKey
  <2>2. o.key = [i \in DOMAIN Parts |-> Stored(Parts[i], key[i])]
    BY <1>2 DEF EachPart
  <2>3. KeyMeaning(key) = [i \in DOMAIN Parts |-> Meaning(Parts[i], key[i])]
    BY DEF KeyMeaning, EachPart
  <2>4. o.key \in Keys(subject)
    BY <2>1, <2>2, PartsAre DEF Keys, StoredAs
  <2>. QED  BY <2>1, <2>2, <2>3, <2>4
<1>5. /\ StoredAs(Schema[subject].label, o.label)
      /\ Meaning(Schema[subject].label, o.label) = Meaning(Schema[subject].label, label)
  <2>1. StoredAs(Schema[subject].label, o.label) /\ Meaning(Schema[subject].label, label) = o.label
    BY <1>0, <1>2, <1>3 DEF SpelledBody, AcceptedBody
  <2>. QED  BY <2>1, MeaningOfStored
<1>6. /\ each = Each(sort, list) /\ each \in Seq(Texts)
      /\ \A i \in DOMAIN each : StoredAs(sort, each[i])
  <2>1. ASSUME NEW i \in DOMAIN list
        PROVE  StoredAs(sort, Stored(sort, list[i])) /\ Meaning(sort, list[i]) = Stored(sort, list[i])
    BY <1>0, <1>3 DEF SpelledBody, SpelledList, AcceptedBody, AcceptedList
  <2>2. each = Each(sort, list)
    BY <2>1 DEF Each
  <2>3. each \in Seq(Texts)
    BY <1>0, <2>2, EachIs DEF SpelledBody
  <2>. QED  BY <2>1, <2>2, <2>3
<1>7. /\ l \in Seq(Texts) /\ \A i \in DOMAIN l : StoredAs(sort, l[i])
      /\ sort = "ordered" => l = each
      /\ ToBag(l) = ToBag(each)
  <2>1. CASE l = each
    BY <1>6, <2>1
  <2>2. CASE sort # "ordered" /\ l = Reverse(each)
    <3>1. l \in Seq(Texts) /\ ToBag(l) = ToBag(each)
      BY <1>6, <2>2, ReversedIsSame
    <3>2. ASSUME NEW i \in DOMAIN l PROVE StoredAs(sort, l[i])
      <4>. HIDE DEF each
      <4>1. Len(each) \in Nat /\ DOMAIN each = 1 .. Len(each)
        BY <1>6
      <4>2. l = [j \in 1 .. Len(each) |-> each[(Len(each) - j) + 1]]
        BY <2>2 DEF Reverse
      <4>3. i \in 1 .. Len(each) /\ (Len(each) - i) + 1 \in 1 .. Len(each)
        BY <4>1, <4>2
      <4>. QED  BY <1>6, <4>1, <4>2, <4>3
    <3>. QED  BY <2>2, <3>1, <3>2
  <2>. QED  BY <2>1, <2>2 DEF StoredLists
<1>8. ListMeaning(sort, l) = ListMeaning(sort, list)
  <2>1. Each(sort, l) = l
    BY <1>7, MeaningOfStored DEF Each
  <2>. QED  BY <1>6, <1>7, <2>1 DEF ListMeaning
<1>9. StoredObject(o)
  <2>1. o \in Objects(subject)
    BY <1>1, <1>2, <1>4, <1>5, <1>7 DEF Objects, StoredAs
  <2>. QED  BY <1>2, <1>4, <1>5, <1>7, <2>1 DEF StoredObject
<1>10. KeyMeaning(o.key) = KeyMeaning(key)
  BY <1>4, <1>9, KeyOfStored
<1>11. Body(o.label, o.list) = Body(label, list)
  BY <1>2, <1>5, <1>8 DEF Body
<1>. QED  BY <1>4, <1>9, <1>10, <1>11, ObjectIs

\* An object is the one that a path means if the path reaches its key.
LEMMA MeansIs ==
    ASSUME subject \in Subjects, NEW path, NEW key, SpelledKey(key), Reaches(path, key),
           NEW o, StoredObject(o)
    PROVE  Means(path, o) <=> KeyMeaning(key) = o.key
<1>1. /\ o.key = [i \in DOMAIN Parts |-> o.key[i]]
      /\ KeyMeaning(key) = [i \in DOMAIN Parts |-> Meaning(Parts[i], key[i])]
  <2>1. o.key = KeyMeaning(o.key)
    BY KeyOfStored
  <2>. QED  BY <2>1 DEF KeyMeaning, EachPart
<1>2. KeyMeaning(key) = o.key <=> \A i \in DOMAIN Parts : Meaning(Parts[i], key[i]) = o.key[i]
  BY <1>1
<1>3. ASSUME NEW i \in DOMAIN Parts
      PROVE  Readable(Parts[i], path[i]) /\ Stored(Parts[i], path[i]) = o.key[i]
             <=> Meaning(Parts[i], key[i]) = o.key[i]
  <2>1. Accepts(Parts[i], Meaning(Parts[i], key[i])) <=> Accepts(Parts[i], key[i])
    BY PartsAre, KeyIs, AcceptsMeaning
  <2>2. Accepts(Parts[i], o.key[i])
    BY DEF StoredObject, StoredAs
  <2>. QED  BY <2>1, <2>2 DEF Reaches, Meaning
<1>. QED  BY <1>2, <1>3 DEF Means

\* What the state or an import looks for: a key, and a path that reaches it.
Sought(r) ==
    /\ SpelledKey(r.key) /\ Reaches(Path(r), r.key)
    /\ subject = "tsigkey" =>
          /\ SpelledKey(r.id)
          /\ AcceptedKey(r.id) <=> AcceptedKey(r.key)
          /\ AcceptedKey(r.key) => r.id = EachPart(Stored, r.key)

\* However it is looked for, what is found is the object of that key.
LEMMA FoundIs ==
    ASSUME subject \in Subjects, NEW r, Sought(r), NEW o, StoredObject(o)
    PROVE  Found(r, o) <=> KeyMeaning(r.key) = o.key
<1>1. /\ SpelledKey(r.key) /\ Reaches(Path(r), r.key)
      /\ KeyMeaning(o.key) = o.key
      /\ \A i \in DOMAIN Parts :
            /\ Parts[i] \in Sorts /\ r.key[i] \in Texts /\ Spelled(Parts[i], r.key[i])
            /\ StoredAs(Parts[i], o.key[i])
  BY PartsAre, KeyIs, KeyOfStored DEF Sought, StoredObject
<1>2. KeyMeaning(r.key) = o.key <=> \A i \in DOMAIN Parts : Meaning(Parts[i], r.key[i]) = o.key[i]
  <2>1. /\ KeyMeaning(o.key) = [i \in DOMAIN Parts |-> Meaning(Parts[i], o.key[i])]
        /\ KeyMeaning(r.key) = [i \in DOMAIN Parts |-> Meaning(Parts[i], r.key[i])]
    BY DEF KeyMeaning, EachPart
  <2>2. \A i \in DOMAIN Parts : Meaning(Parts[i], o.key[i]) = o.key[i]
    BY <1>1, MeaningOfStored
  <2>. QED  BY <1>1, <2>1, <2>2
<1>3. ASSUME NEW i \in DOMAIN Parts
      PROVE  /\ KeyOf(Parts[i], r.key[i]) = KeyOf(Parts[i], o.key[i])
                  <=> Meaning(Parts[i], r.key[i]) = o.key[i]
             /\ Readable(Parts[i], Path(r)[i]) /\ Stored(Parts[i], Path(r)[i]) = o.key[i]
                  <=> Meaning(Parts[i], r.key[i]) = o.key[i]
  <2>1. Meaning(Parts[i], o.key[i]) = o.key[i]
    BY <1>1, MeaningOfStored
  <2>2. KeyOf(Parts[i], r.key[i]) = KeyOf(Parts[i], o.key[i])
          <=> Meaning(Parts[i], r.key[i]) = Meaning(Parts[i], o.key[i])
    BY <1>1, KeysTellMeanings DEF StoredAs
  <2>3. Accepts(Parts[i], Meaning(Parts[i], r.key[i])) <=> Accepts(Parts[i], r.key[i])
    BY <1>1, AcceptsMeaning
  <2>4. Accepts(Parts[i], o.key[i])
    BY <1>1 DEF StoredAs
  <2>. QED  BY <1>1, <2>1, <2>2, <2>3, <2>4 DEF Reaches, Meaning
<1>4. CASE subject \in {"view_zone", "autoprimary"}
  <2>1. Found(r, o) <=> \A i \in DOMAIN Parts : KeyOf(Parts[i], r.key[i]) = KeyOf(Parts[i], o.key[i])
    BY <1>4 DEF Found, Records
  <2>. QED  BY <1>2, <1>3, <2>1
<1>5. CASE subject \in Records
  <2>1. DOMAIN Parts = {1, 2} /\ Parts[1] = "name"
    BY <1>5, PartsAre DEF Canonicalised
  <2>2. Found(r, o) <=> /\ Readable("name", Path(r)[1]) /\ Stored("name", Path(r)[1]) = o.key[1]
                        /\ KeyOf(Parts[2], r.key[2]) = KeyOf(Parts[2], o.key[2])
    BY <1>5 DEF Found, Records
  <2>. QED  BY <1>2, <1>3, <2>1, <2>2
<1>6. CASE subject = "tsigkey"
  <2>1. Found(r, o) <=> r.id = o.key
    BY <1>6 DEF Found, Records
  <2>2. AcceptedKey(o.key)
    BY KeyOfStored
  <2>3. ASSUME AcceptedKey(r.key) PROVE r.id = KeyMeaning(r.key)
    BY <1>6, <2>3 DEF Sought, KeyMeaning, EachPart, Meaning, AcceptedKey
  <2>4. ASSUME ~ AcceptedKey(r.key) PROVE r.id # o.key /\ KeyMeaning(r.key) # o.key
    <3>1. r.id # o.key
      BY <1>6, <2>2, <2>4 DEF Sought
    <3>2. PICK i \in DOMAIN Parts : ~ Accepts(Parts[i], r.key[i])
      BY <2>4 DEF AcceptedKey
    <3>3. Meaning(Parts[i], r.key[i]) = r.key[i] /\ Accepts(Parts[i], o.key[i])
      BY <1>1, <3>2 DEF Meaning, StoredAs
    <3>4. Meaning(Parts[i], r.key[i]) # o.key[i]
      BY <3>2, <3>3
    <3>. QED  BY <1>2, <3>1, <3>4
  <2>. QED  BY <2>1, <2>3, <2>4
<1>7. CASE subject \notin {"view_zone", "autoprimary", "tsigkey"} \cup Records
  <2>1. Found(r, o) <=> Means(Path(r), o)
    BY <1>7 DEF Found
  <2>. QED  BY <1>1, <2>1, MeansIs
<1>. QED  BY <1>4, <1>5, <1>6, <1>7

-----------------------------------------------------------------------------
(***************************************************************************)
(* The invariant: the server holds what it has stored, and the state holds *)
(* texts the server takes and a path that reaches its object.              *)
(***************************************************************************)

Well(objects) ==
    /\ \A o \in objects : StoredObject(o)
    /\ \A o \in objects : \A p \in objects : o.key = p.key => o = p

Kept(r) ==
    /\ r \in Remembered(subject)
    /\ SpelledKey(r.key) /\ AcceptedKey(r.key)
    /\ SpelledBody(r.label, r.list) /\ AcceptedBody(r.label, r.list)
    /\ Sought(r)
    /\ subject # "autoprimary" => r.identity = IF subject \in ServerNamed THEN r.id ELSE Sent(r.key)

IInv == TypeOK /\ Well(server) /\ (state # None => Kept(state))

LEMMA BlocksAreSpelled ==
    ASSUME subject \in Subjects, NEW b \in Blocks[subject]
    PROVE  b \in Objects(subject) /\ SpelledKey(b.key) /\ SpelledBody(b.label, b.list)
<1>1. /\ b \in Objects(subject)
      /\ \A i \in DOMAIN b.key : Spelled(Schema[subject].parts[i], b.key[i])
      /\ Spelled(Schema[subject].label, b.label)
      /\ \A i \in DOMAIN b.list : Spelled(Schema[subject].list, b.list[i])
  BY BlocksAssumption
<1>2. b.key \in Keys(subject) /\ b.label \in Texts /\ b.list \in Seq(Texts)
  BY <1>1 DEF Objects
<1>. QED  BY <1>1, <1>2 DEF SpelledKey, SpelledBody, SpelledList, Keys, Parts

LEMMA ConfigIs ==
    ASSUME TypeOK, config # None
    PROVE  /\ subject \in Subjects /\ config \in Blocks[subject]
           /\ SpelledKey(config.key) /\ SpelledBody(config.label, config.list)
BY BlocksAreSpelled DEF TypeOK

\* Putting an object keeps the keys different.
LEMMA PutKeeps ==
    ASSUME NEW objects, Well(objects), NEW o, StoredObject(o)
    PROVE  Well(Put(objects, o))
BY DEF Well, Put

\* Reading finds the one object of the key.
LEMMA ReadIs ==
    ASSUME subject \in Subjects, Well(server), NEW r, Sought(r), ReadInto(r)
    PROVE  \/ /\ \A o \in server : o.key # KeyMeaning(r.key)
              /\ state' = None
           \/ \E o \in server :
              /\ o.key = KeyMeaning(r.key)
              /\ \A p \in server : p.key = KeyMeaning(r.key) => p = o
              /\ state' = [r EXCEPT !.label = o.label, !.list = o.list, !.identity = Identity(r, o)]
<1>1. subject \in Subjects /\ \A o \in server : Found(r, o) <=> KeyMeaning(r.key) = o.key
  BY FoundIs DEF Well
<1>2. CASE ~ \E o \in server : Found(r, o)
  BY <1>1, <1>2 DEF ReadInto
<1>3. CASE \E o \in server : Found(r, o)
  <2>. DEFINE o == CHOOSE p \in server : Found(r, p)
  <2>1. o \in server /\ Found(r, o)
    BY <1>3
  <2>2. state' = [r EXCEPT !.label = o.label, !.list = o.list, !.identity = Identity(r, o)]
    BY <1>3 DEF ReadInto
  <2>. HIDE DEF o
  <2>3. o.key = KeyMeaning(r.key) /\ \A p \in server : p.key = KeyMeaning(r.key) => p = o
    BY <1>1, <2>1 DEF Well
  <2>. QED  BY <2>1, <2>2, <2>3
<1>. QED  BY <1>2, <1>3

\* What is made of the key of the block by a Create that succeeds.
LEMMA CreatedIs ==
    ASSUME subject \in Subjects, NEW key, SpelledKey(key), AcceptedKey(key),
           NEW label, NEW list, SpelledBody(label, list), AcceptedBody(label, list),
           NEW r, NEW id, id = CreatedId(Sent(key)),
           r = [id |-> id, key |-> key, label |-> label, list |-> list, identity |-> id]
    PROVE  Kept(r)
<1>1. r.id = id /\ r.key = key /\ r.label = label /\ r.list = list /\ r.identity = id
  OBVIOUS
<1>2. /\ SpelledKey(Sent(key)) /\ Reaches(Sent(key), key)
      /\ AcceptedKey(Sent(key))
  BY SentIs
<1>3. ASSUME NEW i \in DOMAIN Parts
      PROVE  /\ Parts[i] \in Sorts /\ Sent(key)[i] \in Texts /\ Spelled(Parts[i], Sent(key)[i])
             /\ Accepts(Parts[i], key[i]) /\ Accepts(Parts[i], Sent(key)[i])
             /\ Stored(Parts[i], Sent(key)[i]) = Stored(Parts[i], key[i])
  BY <1>2, PartsAre, KeyIs DEF AcceptedKey, Reaches
<1>4. CASE subject \in ServerNamed
  <2>1. id = [i \in DOMAIN Parts |-> Stored(Parts[i], key[i])]
    BY <1>3, <1>4 DEF CreatedId, EachPart
  <2>2. ASSUME NEW i \in DOMAIN Parts
        PROVE  /\ id[i] \in Texts /\ Spelled(Parts[i], id[i])
               /\ Readable(Parts[i], id[i]) /\ Accepts(Parts[i], id[i])
               /\ Stored(Parts[i], id[i]) = Stored(Parts[i], key[i])
    <3>1. /\ id[i] = Stored(Parts[i], key[i])
          /\ id[i] \in Texts /\ Spelled(Parts[i], id[i]) /\ Accepts(Parts[i], id[i])
          /\ Stored(Parts[i], id[i]) = id[i]
      BY <1>3, <2>1, KeyIs, StoredText
    <3>2. Parts[i] = "name" => "dot" \in id[i].as
      <4>1. ASSUME Parts[i] = "name" PROVE id[i] = Written(key[i], key[i].port, "dot")
        BY <3>1, <4>1, KeyIs, NameIs DEF NameSorts
      <4>. QED  BY <4>1 DEF Written
    <3>. QED  BY <3>1, <3>2 DEF Readable
  <2>3. SpelledKey(id)
    BY <2>1, <2>2, PartsAre DEF SpelledKey, Keys
  <2>4. Path(r) = id
    BY <1>1, <1>4 DEF Path
  <2>5. Reaches(id, key)
    BY <1>3, <2>2, <2>3 DEF Reaches
  <2>6. AcceptedKey(id) /\ id = EachPart(Stored, key)
    BY <2>1, <2>2 DEF AcceptedKey, EachPart
  <2>7. Sought(r)
    BY <1>1, <2>3, <2>4, <2>5, <2>6 DEF Sought
  <2>8. r \in Remembered(subject)
    BY <2>3 DEF Remembered, SpelledKey, SpelledBody, SpelledList
  <2>. QED  BY <1>1, <1>4, <2>7, <2>8 DEF Kept
<1>5. CASE subject \notin ServerNamed
  <2>1. id = Sent(key)
    BY <1>5 DEF CreatedId
  <2>2. Path(r) = Sent(key)
    BY <1>1, <1>5 DEF Path
  <2>3. Sought(r)
    BY <1>1, <1>2, <1>5, <2>2 DEF Sought, ServerNamed
  <2>4. r \in Remembered(subject)
    BY <1>2, <2>1 DEF Remembered, SpelledKey, SpelledBody, SpelledList
  <2>. QED  BY <1>1, <1>5, <2>1, <2>3, <2>4 DEF Kept
<1>. QED  BY <1>4, <1>5

-----------------------------------------------------------------------------
(***************************************************************************)
(* What the plan keeps of the state.                                       *)
(***************************************************************************)

\* A part of a text resource is planned as the state holds it exactly if it
\* means the same, and what is planned means what the block says.
LEMMA PlannedText ==
    ASSUME NEW sort \in Sorts, NEW t \in Texts, Spelled(sort, t),
           NEW held \in Texts, Spelled(sort, held), Accepts(sort, held)
    PROVE  /\ semanticString(sort, t, held) = held <=> Meaning(sort, t) = Meaning(sort, held)
           /\ Meaning(sort, semanticString(sort, t, held)) = Meaning(sort, t)
           /\ semanticString(sort, t, held) \in {t, held}
BY KeysTellMeanings DEF semanticString

LEMMA PlannedList ==
    ASSUME NEW sort \in Sorts, NEW list, SpelledList(sort, list),
           NEW held, SpelledList(sort, held), AcceptedList(sort, held)
    PROVE  /\ semanticSet(sort, list, held) = held <=> ListMeaning(sort, list) = ListMeaning(sort, held)
           /\ ListMeaning(sort, semanticSet(sort, list, held)) = ListMeaning(sort, list)
           /\ semanticSet(sort, list, held) \in {list, held}
<1>1. semanticSet(sort, list, held) \in {list, held}
  BY DEF semanticSet
<1>. QED  BY <1>1, ListsTellMeanings

\* The key, the label and the list are planned as they are held exactly if
\* they mean what the block says.
LEMMA PlannedIs ==
    ASSUME IInv, config # None, state # None
    PROVE  /\ Planned.key = state.key <=> Object(config).key = Object(state).key
           /\ Planned.label = state.label /\ Planned.list = state.list <=> Object(config).body = Object(state).body
           /\ SpelledBody(Planned.label, Planned.list)
           /\ Body(Planned.label, Planned.list) = Body(config.label, config.list)
<1>. DEFINE lsort == Schema[subject].label
            sort == Schema[subject].list
<1>1. /\ subject \in Subjects /\ SpelledKey(config.key) /\ SpelledBody(config.label, config.list)
      /\ Kept(state)
  BY ConfigIs DEF IInv
<1>2. /\ SpelledKey(state.key) /\ AcceptedKey(state.key)
      /\ SpelledBody(state.label, state.list) /\ AcceptedBody(state.label, state.list)
  BY <1>1 DEF Kept
<1>3. /\ Planned.key = [i \in DOMAIN Parts |-> semanticString(Parts[i], config.key[i], state.key[i])]
      /\ Planned.label = semanticString(lsort, config.label, state.label)
      /\ Planned.list = semanticSet(sort, config.list, state.list)
  BY DEF Planned
<1>4. lsort \in Sorts /\ sort \in Sorts /\ \A i \in DOMAIN Parts : Parts[i] \in Sorts
  BY <1>1, PartsAre
<1>5. Planned.key = state.key <=> Object(config).key = Object(state).key
  <2>1. ASSUME NEW i \in DOMAIN Parts
        PROVE  semanticString(Parts[i], config.key[i], state.key[i]) = state.key[i]
               <=> Meaning(Parts[i], config.key[i]) = Meaning(Parts[i], state.key[i])
    BY <1>1, <1>2, <1>4, KeyIs, PlannedText DEF AcceptedKey
  <2>2. /\ Object(config).key = [i \in DOMAIN Parts |-> Meaning(Parts[i], config.key[i])]
        /\ Object(state).key = [i \in DOMAIN Parts |-> Meaning(Parts[i], state.key[i])]
    BY ObjectIs DEF KeyMeaning, EachPart
  <2>3. state.key = [i \in DOMAIN Parts |-> state.key[i]]
    BY <1>1, <1>2, PartsAre DEF SpelledKey, Keys
  <2>. QED  BY <1>3, <2>1, <2>2, <2>3
<1>6. /\ Planned.label = state.label <=> Meaning(lsort, config.label) = Meaning(lsort, state.label)
      /\ Meaning(lsort, Planned.label) = Meaning(lsort, config.label)
      /\ Planned.label \in {config.label, state.label}
  BY <1>1, <1>2, <1>3, <1>4, PlannedText DEF SpelledBody, AcceptedBody
<1>7. /\ Planned.list = state.list <=> ListMeaning(sort, config.list) = ListMeaning(sort, state.list)
      /\ ListMeaning(sort, Planned.list) = ListMeaning(sort, config.list)
      /\ Planned.list \in {config.list, state.list}
  BY <1>1, <1>2, <1>3, <1>4, PlannedList DEF SpelledBody, AcceptedBody
<1>8. SpelledBody(Planned.label, Planned.list)
  BY <1>1, <1>2, <1>6, <1>7 DEF SpelledBody
<1>9. /\ Object(config).body = [label |-> Meaning(lsort, config.label), list |-> ListMeaning(sort, config.list)]
      /\ Object(state).body = [label |-> Meaning(lsort, state.label), list |-> ListMeaning(sort, state.list)]
  BY ObjectIs DEF Body
<1>10. Planned.label = state.label /\ Planned.list = state.list <=> Object(config).body = Object(state).body
  BY <1>6, <1>7, <1>9
<1>11. Body(Planned.label, Planned.list) = Body(config.label, config.list)
  BY <1>6, <1>7 DEF Body
<1>. QED  BY <1>5, <1>8, <1>10, <1>11

\* Two bodies that mean the same are taken or refused alike.
LEMMA SameAccepted ==
    ASSUME subject \in Subjects, NEW l, NEW m, NEW x, NEW y,
           SpelledBody(l, x), SpelledBody(m, y), Body(l, x) = Body(m, y)
    PROVE  AcceptedBody(l, x) <=> AcceptedBody(m, y)
<1>. DEFINE lsort == Schema[subject].label
            sort == Schema[subject].list
<1>1. lsort \in Sorts /\ sort \in Sorts
  BY PartsAre
<1>2. Meaning(lsort, l) = Meaning(lsort, m) /\ ListMeaning(sort, x) = ListMeaning(sort, y)
  BY DEF Body
<1>3. Accepts(lsort, l) <=> Accepts(lsort, m)
  BY <1>1, <1>2, AcceptsMeaning DEF SpelledBody
<1>4. AcceptedList(sort, x) <=> AcceptedList(sort, y)
  <2>1. CASE sort = "ordered"
    BY <2>1, ItselfIs DEF ItselfSorts, AcceptedList, SpelledBody, SpelledList
  <2>2. CASE sort # "ordered"
    BY <1>1, <1>2, <2>2, AcceptedListIs DEF SpelledBody
  <2>. QED  BY <2>1, <2>2
<1>. QED  BY <1>3, <1>4 DEF AcceptedBody

-----------------------------------------------------------------------------
(***************************************************************************)
(* What a step leaves is judged by the subject it began with: it stays.    *)
(***************************************************************************)

AllObjects(objects) == {Object(o) : o \in objects}
Others(objects, k) == {o \in objects : o.key # k}
ObjectAt(objects, k) == CHOOSE a \in AllObjects(objects) : a.key = k

LEMMA Unprimed ==
    ASSUME subject' = subject
    PROVE  /\ Well(server)' <=> Well(server')
           /\ Kept(state)' <=> Kept(state')
           /\ ObjectOrNone(state)' = ObjectOrNone(state')
           /\ ObjectOrNone(config)' = ObjectOrNone(config')
           /\ AllObjects(server)' = AllObjects(server')
<1>1. Well(server)' <=> Well(server')
  BY DEF Well, StoredObject, Parts
<1>2. Kept(state)' <=> Kept(state')
  BY DEF Kept, SpelledKey, AcceptedKey, SpelledBody, AcceptedBody, Sought, Reaches, Path, Sent, EachPart, Parts
<1>3. \A x : ObjectOrNone(x)' = ObjectOrNone(x)
  BY DEF ObjectOrNone, Object, EachPart, Parts
<1>. QED  BY <1>1, <1>2 DEF ObjectOrNone, AllObjects, Object, EachPart, Parts

LEMMA Keeps ==
    ASSUME IInv, subject' = subject, config' \in Blocks[subject] \cup {None},
           Well(server'), state' = None \/ Kept(state')
    PROVE  IInv'
<1>1. Well(server)' /\ (state' = None \/ Kept(state)')
  BY Unprimed
<1>2. TypeOK'
  <2>1. server' \subseteq Objects(subject)
    BY DEF Well, StoredObject
  <2>2. state' \in Remembered(subject) \cup {None}
    BY DEF Kept
  <2>. QED  BY <2>1, <2>2 DEF IInv, TypeOK, Well
<1>. QED  BY <1>1, <1>2 DEF IInv

\* The objects at the server, by what they mean.
LEMMA AllObjectsIs ==
    ASSUME subject \in Subjects, NEW objects, Well(objects), NEW k
    PROVE  /\ \A o \in objects : Object(o).key = o.key
           /\ \A o \in objects : o.key = k => Object(o) = ObjectAt(objects, k)
           /\ Others(AllObjects(objects), k) = AllObjects(Others(objects, k))
           /\ Well(Others(objects, k))
<1>1. \A o \in objects : Object(o).key = o.key
  BY ObjectIs, KeyOfStored DEF Well
<1>2. ASSUME NEW o \in objects, o.key = k
      PROVE  Object(o) = ObjectAt(objects, k)
  <2>1. Object(o) \in AllObjects(objects) /\ Object(o).key = k
    BY <1>1, <1>2 DEF AllObjects
  <2>2. ASSUME NEW a \in AllObjects(objects), a.key = k PROVE a = Object(o)
    BY <1>1, <1>2, <2>2 DEF AllObjects, Well
  <2>. QED  BY <2>1, <2>2 DEF ObjectAt
<1>3. Others(AllObjects(objects), k) = AllObjects(Others(objects, k))
  BY <1>1 DEF AllObjects, Others
<1>4. Well(Others(objects, k))
  BY DEF Well, Others
<1>. QED  BY <1>1, <1>2, <1>3, <1>4

LEMMA HeldIs ==
    ASSUME subject \in Subjects, NEW objects, Well(objects), NEW k
    PROVE  (\E a \in AllObjects(objects) : a.key = k) <=> \E o \in objects : o.key = k
<1>1. \A o \in objects : Object(o).key = o.key
  BY AllObjectsIs
<1>. QED  BY <1>1 DEF AllObjects

LEMMA ObjectAtIs ==
    ASSUME subject \in Subjects, NEW objects, Well(objects), NEW o \in objects
    PROVE  Object(o) = ObjectAt(objects, o.key) /\ Object(o).key = o.key
BY AllObjectsIs

LEMMA AllObjectsPut ==
    ASSUME subject \in Subjects, NEW objects, Well(objects), NEW o, StoredObject(o)
    PROVE  AllObjects(Put(objects, o)) = Others(AllObjects(objects), o.key) \cup {Object(o)}
<1>1. AllObjects(Put(objects, o)) = AllObjects(Others(objects, o.key)) \cup {Object(o)}
  BY DEF AllObjects, Others, Put
<1>. QED  BY <1>1, AllObjectsIs

LEMMA InitEstablishes == Init => IInv /\ Meanings!Init
<1>. SUFFICES ASSUME Init PROVE IInv /\ Meanings!Init
  OBVIOUS
<1>1. TypeOK
  BY DEF Init, TypeOK
<1>2. Well(server)
  BY DEF Init, Well
<1>. QED  BY <1>1, <1>2 DEF Init, IInv, Meanings!Init, ObjectOrNone

-----------------------------------------------------------------------------
(***************************************************************************)
(* Every action preserves the invariant and does to the meanings what its  *)
(* namesake of module Managed does.                                        *)
(***************************************************************************)

LEMMA EditGoes == ASSUME IInv, Edit PROVE IInv' /\ Meanings!Edit
<1>1. /\ config' \in Blocks[subject] \cup {None} /\ step' = "changed"
      /\ subject' = subject /\ state' = state /\ server' = server
  BY DEF Edit
<1>2. IInv'
  BY <1>1, Keeps DEF IInv
<1>3. AllObjects(server)' = AllObjects(server) /\ ObjectOrNone(state)' = ObjectOrNone(state)
  BY <1>1, Unprimed
<1>. QED  BY <1>1, <1>2, <1>3 DEF Meanings!Edit, AllObjects

LEMMA OutsideGoes == ASSUME IInv, Outside PROVE IInv' /\ Meanings!Outside
<1>1. /\ step' = "changed" /\ subject' = subject /\ state' = state /\ config' = config
      /\ subject \in Subjects /\ config \in Blocks[subject] \cup {None}
  BY DEF Outside, IInv, TypeOK
<1>2. Well(server')
  <2>1. CASE \E o \in server : server' = server \ {o}
    BY <2>1 DEF IInv, Well
  <2>2. ASSUME NEW b \in Blocks[subject],
               AcceptsRequest(Sent(b.key), b.label, b.list),
               NEW o \in StoredObjects(b.key, b.label, b.list), server' = Put(server, o)
        PROVE  Well(server')
    <3>1. SpelledKey(b.key) /\ SpelledBody(b.label, b.list)
      BY <1>1, BlocksAreSpelled
    <3>2. AcceptedKey(b.key) /\ AcceptedBody(b.label, b.list)
      BY <1>1, <2>2, <3>1, SentIs, RequestIs
    <3>3. StoredObject(o)
      BY <1>1, <3>1, <3>2, WrittenIs
    <3>. QED  BY <2>2, <3>3, PutKeeps DEF IInv
  <2>. QED  BY <2>1, <2>2 DEF Outside
<1>3. IInv'
  BY <1>1, <1>2, Keeps DEF IInv
<1>4. ObjectOrNone(config)' = ObjectOrNone(config) /\ ObjectOrNone(state)' = ObjectOrNone(state)
  BY <1>1, Unprimed
<1>. QED  BY <1>1, <1>3, <1>4 DEF Meanings!Outside

\* What is kept is something.
LEMMA KeptIsSome ==
    ASSUME subject \in Subjects, NEW r, Kept(r)
    PROVE  r # None /\ ObjectOrNone(r) = Object(r) /\ Object(r) # NoObject
BY BlocksAssumption, ObjectIs DEF Kept, ObjectOrNone

LEMMA ConfigIsSome ==
    ASSUME TypeOK
    PROVE  /\ config # None <=> ObjectOrNone(config) # NoObject
           /\ config # None => ObjectOrNone(config) = Object(config)
BY ObjectIs DEF ObjectOrNone, TypeOK

LEMMA StateIsSome ==
    ASSUME IInv
    PROVE  /\ state # None <=> ObjectOrNone(state) # NoObject
           /\ state # None => ObjectOrNone(state) = Object(state) /\ Kept(state)
BY ObjectIs DEF ObjectOrNone, IInv, TypeOK

\* Keys that mean the same are taken or refused alike.
LEMMA SameAcceptedKey ==
    ASSUME subject \in Subjects, NEW k, SpelledKey(k), NEW l, SpelledKey(l),
           KeyMeaning(k) = KeyMeaning(l)
    PROVE  AcceptedKey(k) <=> AcceptedKey(l)
<1>1. ASSUME NEW i \in DOMAIN Parts PROVE Accepts(Parts[i], k[i]) <=> Accepts(Parts[i], l[i])
  <2>1. Meaning(Parts[i], k[i]) = Meaning(Parts[i], l[i])
    <3>1. KeyMeaning(k)[i] = Meaning(Parts[i], k[i]) /\ KeyMeaning(l)[i] = Meaning(Parts[i], l[i])
      BY DEF KeyMeaning, EachPart
    <3>. QED  BY <3>1
  <2>. QED  BY <2>1, PartsAre, KeyIs, AcceptsMeaning
<1>. QED  BY <1>1 DEF AcceptedKey

LEMMA AcceptedMeaning ==
    ASSUME NEW key, AcceptedKey(key)
    PROVE  KeyMeaning(key) = EachPart(Stored, key)
BY DEF AcceptedKey, KeyMeaning, EachPart, Meaning

\* What a read makes of what it was asked for.
LEMMA ReadRecordIs ==
    ASSUME subject \in Subjects, NEW r, Sought(r),
           r.id \in Keys(subject),
           r = [id |-> r.id, key |-> r.key, label |-> r.label, list |-> r.list, identity |-> r.identity],
           NEW o, StoredObject(o), o.key = KeyMeaning(r.key),
           NEW n, n = [r EXCEPT !.label = o.label, !.list = o.list, !.identity = Identity(r, o)]
    PROVE  Kept(n) /\ Object(n) = Object(o)
<1>1. n = [id |-> r.id, key |-> r.key, label |-> o.label, list |-> o.list, identity |-> Identity(r, o)]
  <2>. DEFINE i == r.id
              k == r.key
              l == r.label
              v == r.list
              d == r.identity
  <2>1. r = [id |-> i, key |-> k, label |-> l, list |-> v, identity |-> d]
    OBVIOUS
  <2>. HIDE DEF i, k, l, v, d
  <2>2. n = [id |-> i, key |-> k, label |-> o.label, list |-> o.list, identity |-> Identity(r, o)]
    BY <2>1
  <2>. QED  BY <2>2 DEF i, k
<1>2. n.id = r.id /\ n.key = r.key /\ n.label = o.label /\ n.list = o.list /\ n.identity = Identity(r, o)
  BY <1>1
<1>3. /\ SpelledKey(o.key) /\ AcceptedKey(o.key) /\ KeyMeaning(o.key) = o.key
      /\ SpelledBody(o.label, o.list) /\ AcceptedBody(o.label, o.list)
  BY KeyOfStored
<1>4. SpelledKey(r.key)
  BY DEF Sought
<1>5. AcceptedKey(r.key)
  BY <1>3, <1>4, SameAcceptedKey
<1>6. Path(n) = Path(r)
  BY <1>2 DEF Path
<1>7. Sought(n)
  BY <1>2, <1>6 DEF Sought
<1>8. Object(n) = Object(o)
  <2>1. KeyMeaning(n.key) = KeyMeaning(o.key)
    BY <1>2, <1>3
  <2>2. Object(n) = [of |-> subject, key |-> KeyMeaning(n.key), body |-> Body(n.label, n.list)]
    BY ObjectIs
  <2>3. Object(o) = [of |-> subject, key |-> KeyMeaning(o.key), body |-> Body(o.label, o.list)]
    BY ObjectIs
  <2>. QED  BY <1>2, <2>1, <2>2, <2>3
<1>9. ASSUME Identity(r, o) \in Keys(subject) PROVE n \in Remembered(subject)
  <2>1. r.key \in Keys(subject)
    BY <1>4 DEF SpelledKey
  <2>2. o.label \in Texts /\ o.list \in Seq(Texts)
    BY <1>3 DEF SpelledBody, SpelledList
  <2>. QED  BY <1>1, <1>9, <2>1, <2>2 DEF Remembered
<1>10. ASSUME n \in Remembered(subject),
              subject # "autoprimary" => n.identity = IF subject \in ServerNamed THEN n.id ELSE Sent(n.key)
       PROVE  Kept(n)
  <2>1. SpelledKey(n.key) /\ AcceptedKey(n.key)
    BY <1>2, <1>4, <1>5
  <2>2. SpelledBody(n.label, n.list) /\ AcceptedBody(n.label, n.list)
    BY <1>2, <1>3
  <2>. QED  BY <1>7, <1>10, <2>1, <2>2 DEF Kept
<1>11. CASE subject \in {"tsigkey", "autoprimary"}
  <2>1. n.identity = o.key /\ Identity(r, o) = o.key
    BY <1>2, <1>11 DEF Identity
  <2>2. subject = "tsigkey" => o.key = r.id
    BY <1>5, AcceptedMeaning DEF Sought
  <2>3. n \in Remembered(subject)
    BY <1>3, <1>9, <2>1 DEF SpelledKey
  <2>4. subject # "autoprimary" => n.identity = IF subject \in ServerNamed THEN n.id ELSE Sent(n.key)
    BY <1>2, <1>11, <2>1, <2>2 DEF ServerNamed
  <2>. QED  BY <1>8, <1>10, <2>3, <2>4
<1>12. CASE subject \in {"zone", "recursor_zone"}
  <2>1. n.identity = r.id /\ Identity(r, o) = r.id
    BY <1>2, <1>12 DEF Identity
  <2>2. n \in Remembered(subject)
    BY <1>9, <2>1
  <2>3. n.identity = IF subject \in ServerNamed THEN n.id ELSE Sent(n.key)
    BY <1>2, <1>12, <2>1 DEF ServerNamed
  <2>. QED  BY <1>8, <1>10, <2>2, <2>3
<1>13. CASE subject \notin {"tsigkey", "autoprimary", "zone", "recursor_zone"}
  <2>1. n.identity = Sent(r.key) /\ Identity(r, o) = Sent(r.key)
    BY <1>2, <1>13 DEF Identity
  <2>2. n \in Remembered(subject)
    BY <1>4, <1>9, <2>1, SentIs DEF SpelledKey
  <2>3. n.identity = IF subject \in ServerNamed THEN n.id ELSE Sent(n.key)
    BY <1>2, <1>13, <2>1 DEF ServerNamed
  <2>. QED  BY <1>8, <1>10, <2>2, <2>3
<1>. QED  BY <1>11, <1>12, <1>13

\* A read in terms of meanings: what the server holds of the key, or nothing.
LEMMA ReadGoes ==
    ASSUME IInv, NEW r, Sought(r), r.id \in Keys(subject),
           r = [id |-> r.id, key |-> r.key, label |-> r.label, list |-> r.list, identity |-> r.identity],
           ReadInto(r)
    PROVE  /\ state' = None \/ Kept(state')
           /\ ObjectOrNone(state') =
                 IF \E a \in AllObjects(server) : a.key = KeyMeaning(r.key)
                 THEN ObjectAt(server, KeyMeaning(r.key))
                 ELSE NoObject
           /\ state' = None <=> ~ \E a \in AllObjects(server) : a.key = KeyMeaning(r.key)
<1>1. subject \in Subjects /\ Well(server)
  BY DEF IInv, TypeOK
<1>2. CASE (\A o \in server : o.key # KeyMeaning(r.key)) /\ state' = None
  <2>1. ~ \E a \in AllObjects(server) : a.key = KeyMeaning(r.key)
    BY <1>1, <1>2, HeldIs
  <2>. QED  BY <1>2, <2>1 DEF ObjectOrNone
<1>3. ASSUME NEW o \in server, o.key = KeyMeaning(r.key),
             state' = [r EXCEPT !.label = o.label, !.list = o.list, !.identity = Identity(r, o)]
      PROVE  /\ Kept(state')
             /\ \E a \in AllObjects(server) : a.key = KeyMeaning(r.key)
             /\ Object(state') = ObjectAt(server, KeyMeaning(r.key))
  <2>1. StoredObject(o)
    BY <1>1 DEF Well
  <2>2. Kept(state') /\ Object(state') = Object(o)
    BY <1>1, <1>3, <2>1, ReadRecordIs
  <2>3. Object(o) = ObjectAt(server, KeyMeaning(r.key))
    BY <1>1, <1>3, ObjectAtIs
  <2>4. \E a \in AllObjects(server) : a.key = KeyMeaning(r.key)
    BY <1>1, <1>3, HeldIs
  <2>. QED  BY <2>2, <2>3, <2>4
<1>4. \/ (\A o \in server : o.key # KeyMeaning(r.key)) /\ state' = None
      \/ \E o \in server :
            /\ o.key = KeyMeaning(r.key)
            /\ state' = [r EXCEPT !.label = o.label, !.list = o.list, !.identity = Identity(r, o)]
  BY <1>1, ReadIs
<1>. QED  BY <1>1, <1>2, <1>3, <1>4, KeptIsSome

LEMMA RefreshGoes == ASSUME IInv, Refresh PROVE IInv' /\ Meanings!Refresh
<1>. DEFINE key == KeyMeaning(state.key)
<1>1. /\ state # None /\ ReadInto(state) /\ step' = "refresh"
      /\ subject' = subject /\ config' = config /\ server' = server
  BY DEF Refresh
<1>2. Kept(state) /\ ObjectOrNone(state) = Object(state) /\ ObjectOrNone(state) # NoObject
  BY <1>1, StateIsSome
<1>3. /\ Sought(state) /\ state.id \in Keys(subject)
      /\ state = [id |-> state.id, key |-> state.key, label |-> state.label,
                  list |-> state.list, identity |-> state.identity]
  BY <1>2 DEF Kept, Remembered
<1>4. /\ state' = None \/ Kept(state')
      /\ ObjectOrNone(state') =
            IF \E a \in AllObjects(server) : a.key = key
            THEN ObjectAt(server, key)
            ELSE NoObject
  BY <1>1, <1>3, ReadGoes
<1>5. IInv'
  BY <1>1, <1>4, Keeps DEF IInv, TypeOK
<1>6. /\ ObjectOrNone(config)' = ObjectOrNone(config) /\ AllObjects(server)' = AllObjects(server)
      /\ ObjectOrNone(state)' = ObjectOrNone(state')
  BY <1>1, Unprimed
<1>7. ObjectOrNone(state).key = key
  BY <1>2, ObjectIs
<1>. HIDE DEF key
<1>. QED
  BY <1>1, <1>2, <1>4, <1>5, <1>6, <1>7 DEF Meanings!Refresh, Meanings!Holds, Meanings!At, AllObjects, ObjectAt

\* What an import asks for, it asks for under a path that reaches it.
LEMMA AskedIs ==
    ASSUME subject \in Subjects, NEW asked, SpelledKey(asked), Importable(asked),
           NEW id, id = IF subject = "tsigkey" THEN [i \in DOMAIN asked |-> canonicalName(asked[i])]
                        ELSE Sent(asked),
           NEW r, r = [id |-> id, key |-> IF subject = "tsigkey" THEN asked ELSE id,
                       label |-> Plain, list |-> <<>>, identity |-> id]
    PROVE  /\ Sought(r) /\ r.id \in Keys(subject)
           /\ r = [id |-> r.id, key |-> r.key, label |-> r.label, list |-> r.list, identity |-> r.identity]
           /\ KeyMeaning(r.key) = KeyMeaning(config.key)
<1>1. /\ r.id = id /\ r.identity = id /\ r.label = Plain /\ r.list = <<>>
      /\ r.key = IF subject = "tsigkey" THEN asked ELSE id
  OBVIOUS
<1>2. KeyMeaning(asked) = KeyMeaning(config.key)
  BY DEF Importable, KeyMeaning
<1>3. CASE subject = "tsigkey"
  <2>1. /\ id = [i \in DOMAIN Parts |-> canonicalName(asked[i])] /\ r.key = asked
        /\ Path(r) = id
    BY <1>1, <1>3, KeyIs DEF Path, ServerNamed
  <2>2. ASSUME NEW i \in DOMAIN Parts
        PROVE  /\ Parts[i] \in Sorts /\ Parts[i] = "tsig" /\ Parts[i] \in NameSorts
               /\ asked[i] \in Texts /\ Spelled(Parts[i], asked[i])
               /\ id[i] \in Texts /\ Spelled(Parts[i], id[i])
               /\ Meaning(Parts[i], id[i]) = Meaning(Parts[i], asked[i])
               /\ Readable(Parts[i], id[i]) <=> Accepts(Parts[i], asked[i])
               /\ Accepts(Parts[i], id[i]) <=> Accepts(Parts[i], asked[i])
    <3>1. /\ Parts[i] \in Sorts /\ Parts[i] = "tsig" /\ Parts[i] \in {"name", "tsig"}
          /\ Parts[i] \in NameSorts
          /\ asked[i] \in Texts /\ Spelled(Parts[i], asked[i])
      BY <1>3, PartsAre, KeyIs DEF NameSorts
    <3>2. id[i] = canonicalName(asked[i])
      BY <2>1
    <3>3. /\ id[i] \in Texts /\ Spelled(Parts[i], id[i])
          /\ Meaning(Parts[i], id[i]) = Meaning(Parts[i], asked[i])
          /\ Readable(Parts[i], id[i]) <=> Accepts(Parts[i], asked[i])
      BY <3>1, <3>2, CanonicalIs
    <3>4. Readable(Parts[i], id[i]) <=> Accepts(Parts[i], id[i])
      BY <3>1 DEF Readable
    <3>. QED  BY <3>1, <3>3, <3>4
  <2>3. SpelledKey(id)
    BY <2>1, <2>2, PartsAre DEF SpelledKey, Keys
  <2>4. ASSUME NEW i \in DOMAIN Parts, Accepts(Parts[i], asked[i])
        PROVE  id[i] = Stored(Parts[i], asked[i]) /\ Stored(Parts[i], id[i]) = Stored(Parts[i], asked[i])
    <3>1. /\ asked[i].as \subseteq {"dot"} /\ asked[i] \in Texts
          /\ Stored(Parts[i], asked[i]) = Written(asked[i], asked[i].port, "dot")
      <4>1. asked[i].as \cap {"upper", "title"} = {}
        BY <1>3, KeyIs DEF Importable
      <4>2. /\ asked[i].as \subseteq {"upper", "title", "dot", "dots"} /\ "dots" \notin asked[i].as
            /\ Stored(Parts[i], asked[i]) = Written(asked[i], asked[i].port, "dot")
        BY <2>2, <2>4, NameIs DEF Spelled
      <4>. QED  BY <2>2, <4>1, <4>2
    <3>2. id[i] = Stored(Parts[i], asked[i])
      <4>1. CASE asked[i].as = {}
        <5>1. id[i] = [asked[i] EXCEPT !.as = asked[i].as \cup {"dot"}]
          BY <2>1, <4>1 DEF canonicalName
        <5>2. asked[i].as \cup {"dot"} = {"dot"}
          BY <4>1
        <5>3. [asked[i] EXCEPT !.as = {"dot"}] =
                [value |-> asked[i].value, port |-> asked[i].port, as |-> {"dot"}]
          BY <3>1, Rewritten
        <5>4. id[i] = [asked[i] EXCEPT !.as = {"dot"}]
          BY <5>1, <5>2
        <5>. QED  BY <3>1, <5>3, <5>4 DEF Written
      <4>2. CASE asked[i].as = {"dot"}
        <5>1. id[i] = asked[i]
          BY <2>1, <4>2 DEF canonicalName
        <5>2. asked[i] = [value |-> asked[i].value, port |-> asked[i].port, as |-> asked[i].as]
          BY <3>1, Rewritten
        <5>. QED  BY <3>1, <4>2, <5>1, <5>2 DEF Written
      <4>. QED  BY <3>1, <4>1, <4>2
    <3>3. Stored(Parts[i], id[i]) = Stored(Parts[i], asked[i])
      BY <2>2, <2>4 DEF Meaning
    <3>. QED  BY <3>2, <3>3
  <2>5. Reaches(id, asked)
    BY <2>2, <2>3, <2>4 DEF Reaches
  <2>6. AcceptedKey(id) <=> AcceptedKey(asked)
    BY <2>2 DEF AcceptedKey
  <2>7. ASSUME AcceptedKey(asked) PROVE id = EachPart(Stored, asked)
    BY <2>1, <2>4, <2>7 DEF AcceptedKey, EachPart
  <2>8. Sought(r)
    BY <1>1, <2>1, <2>3, <2>5, <2>6, <2>7 DEF Sought
  <2>. QED  BY <1>1, <1>2, <2>1, <2>3, <2>8 DEF SpelledKey
<1>4. CASE subject # "tsigkey"
  <2>1. /\ id = Sent(asked) /\ r.key = id /\ SpelledKey(id) /\ Sent(id) = id
        /\ KeyMeaning(id) = KeyMeaning(asked)
    BY <1>1, <1>4, SentIs DEF KeyMeaning
  <2>2. Path(r) = id
    BY <1>1, <2>1 DEF Path
  <2>3. Reaches(id, id)
    BY <2>1, SentIs
  <2>4. Sought(r)
    BY <1>4, <2>1, <2>2, <2>3 DEF Sought
  <2>. QED  BY <1>1, <1>2, <2>1, <2>4 DEF SpelledKey
<1>. QED  BY <1>3, <1>4

LEMMA ImportGoes == ASSUME IInv, Import PROVE IInv' /\ Meanings!Import
<1>. DEFINE key == KeyMeaning(config.key)
<1>1. /\ state = None /\ config # None /\ step' = IF state' = None THEN "missing" ELSE "import"
      /\ subject' = subject /\ config' = config /\ server' = server
      /\ subject \in Subjects /\ config \in Blocks[subject] \cup {None} /\ TypeOK
  BY DEF Import, IInv, TypeOK
<1>2. PICK b \in Blocks[subject] :
        /\ Importable(b.key)
        /\ LET id == IF subject = "tsigkey" THEN [i \in DOMAIN b.key |-> canonicalName(b.key[i])]
                     ELSE Sent(b.key)
           IN  ReadInto([id |-> id, key |-> IF subject = "tsigkey" THEN b.key ELSE id,
                         label |-> Plain, list |-> <<>>, identity |-> id])
  BY DEF Import
<1>. DEFINE id == IF subject = "tsigkey" THEN [i \in DOMAIN b.key |-> canonicalName(b.key[i])]
                  ELSE Sent(b.key)
            r == [id |-> id, key |-> IF subject = "tsigkey" THEN b.key ELSE id,
                  label |-> Plain, list |-> <<>>, identity |-> id]
<1>3. SpelledKey(b.key)
  BY <1>1, BlocksAreSpelled
<1>4. /\ Sought(r) /\ r.id \in Keys(subject)
      /\ r = [id |-> r.id, key |-> r.key, label |-> r.label, list |-> r.list, identity |-> r.identity]
      /\ KeyMeaning(r.key) = key
  <2>. HIDE DEF key
  <2>. QED  BY <1>1, <1>2, <1>3, AskedIs DEF key
<1>5. ReadInto(r)
  BY <1>2
<1>. HIDE DEF r, id
<1>6. /\ state' = None \/ Kept(state')
      /\ ObjectOrNone(state') =
            IF \E a \in AllObjects(server) : a.key = key
            THEN ObjectAt(server, key)
            ELSE NoObject
      /\ state' = None <=> ~ \E a \in AllObjects(server) : a.key = key
  <2>. HIDE DEF key
  <2>. QED  BY <1>4, <1>5, ReadGoes
<1>7. IInv'
  BY <1>1, <1>6, Keeps DEF IInv
<1>8. /\ ObjectOrNone(config)' = ObjectOrNone(config) /\ AllObjects(server)' = AllObjects(server)
      /\ ObjectOrNone(state)' = ObjectOrNone(state')
  BY <1>1, Unprimed
<1>9. ObjectOrNone(config) = Object(config) /\ ObjectOrNone(config) # NoObject
  BY <1>1, ConfigIsSome
<1>10. ObjectOrNone(config).key = key
  BY <1>9, ObjectIs
<1>11. ObjectOrNone(state) = NoObject
  BY <1>1 DEF ObjectOrNone
<1>. HIDE DEF key
<1>. QED
  BY <1>1, <1>6, <1>7, <1>8, <1>9, <1>10, <1>11
     DEF Meanings!Import, Meanings!Holds, Meanings!At, AllObjects, ObjectAt

\* A POST needs a free key, and a key that is in use is in use by its meaning.
LEMMA TakenIs ==
    ASSUME subject \in Subjects, NEW objects, Well(objects), NEW key, SpelledKey(key), AcceptedKey(key)
    PROVE  /\ EachPart(Stored, Sent(key)) = EachPart(Stored, key)
           /\ (\E o \in objects : o.key = EachPart(Stored, Sent(key)))
                 <=> \E a \in AllObjects(objects) : a.key = KeyMeaning(key)
<1>1. EachPart(Stored, Sent(key)) = EachPart(Stored, key)
  <2>1. \A i \in DOMAIN Parts : Stored(Parts[i], Sent(key)[i]) = Stored(Parts[i], key[i])
    BY SentIs DEF Reaches, AcceptedKey
  <2>. QED  BY <2>1 DEF EachPart
<1>2. EachPart(Stored, key) = KeyMeaning(key)
  BY AcceptedMeaning
<1>. QED  BY <1>1, <1>2, HeldIs

\* A write leaves the object that the key and the body mean, in the place of
\* what had the key.
LEMMA PuttingIs ==
    ASSUME subject \in Subjects, NEW objects, Well(objects),
           NEW key, SpelledKey(key), AcceptedKey(key),
           NEW path, EachPart(Stored, path) = EachPart(Stored, key),
           NEW label, NEW list, SpelledBody(label, list), AcceptedBody(label, list),
           NEW o \in StoredObjects(path, label, list)
    PROVE  /\ Well(Put(objects, o))
           /\ AllObjects(Put(objects, o)) =
                 Others(AllObjects(objects), KeyMeaning(key))
                 \cup {[of |-> subject, key |-> KeyMeaning(key), body |-> Body(label, list)]}
<1>1. /\ StoredObject(o) /\ o.key = KeyMeaning(key)
      /\ Object(o) = [of |-> subject, key |-> KeyMeaning(key), body |-> Body(label, list)]
  BY WrittenIs
<1>2. Well(Put(objects, o))
  BY <1>1, PutKeeps
<1>3. AllObjects(Put(objects, o)) = Others(AllObjects(objects), o.key) \cup {Object(o)}
  BY <1>1, AllObjectsPut
<1>. QED  BY <1>1, <1>2, <1>3

\* What Create does to meanings: it makes the object, or nothing, if the server
\* does not take it or has one of its key.
Makes(objects, o) ==
    /\ Acceptable(o)
    /\ AllObjects(server') = Others(AllObjects(objects), o.key) \cup {o}
    /\ Kept(state') /\ Object(state') = o
Refuses(objects, o) ==
    /\ ~ Acceptable(o) \/ \E a \in AllObjects(objects) : a.key = o.key
    /\ server' = objects /\ state' = None

LEMMA CreateAmongIs ==
    ASSUME TypeOK, config # None, NEW objects, Well(objects), CreateAmong(objects)
    PROVE  /\ Well(server')
           /\ Makes(objects, Object(config)) \/ Refuses(objects, Object(config))
<1>. DEFINE key == Sent(config.key)
            id == CreatedId(key)
            taken == \E o \in objects : o.key = EachPart(Stored, key)
            goes == /\ AcceptsRequest(key, config.label, config.list)
                    /\ ~ (taken /\ subject \in ServerNamed \cup {"autoprimary"})
            made == [id |-> id, key |-> config.key, label |-> config.label,
                     list |-> config.list, identity |-> id]
<1>1. /\ subject \in Subjects /\ SpelledKey(config.key) /\ SpelledBody(config.label, config.list)
  BY ConfigIs
<1>2. /\ Object(config) = [of |-> subject, key |-> KeyMeaning(config.key),
                           body |-> Body(config.label, config.list)]
      /\ Object(config).key = KeyMeaning(config.key)
  BY ObjectIs
<1>3. /\ AcceptsRequest(key, config.label, config.list)
            <=> AcceptedKey(config.key) /\ AcceptedBody(config.label, config.list)
      /\ Acceptable(Object(config))
            <=> AcceptedKey(config.key) /\ AcceptedBody(config.label, config.list)
  BY <1>1, SentIs, RequestIs, AcceptableIs
<1>4. AcceptedKey(config.key) => (taken <=> \E a \in AllObjects(objects) : a.key = Object(config).key)
  BY <1>1, <1>2, TakenIs
<1>5. /\ goes => /\ \E o \in StoredObjects(key, config.label, config.list) : server' = Put(objects, o)
                 /\ state' = made
      /\ ~ goes => server' = objects /\ state' = None
  BY DEF CreateAmong
<1>6. CASE goes
  <2>1. AcceptedKey(config.key) /\ AcceptedBody(config.label, config.list) /\ Acceptable(Object(config))
    BY <1>3, <1>6
  <2>2. PICK o \in StoredObjects(key, config.label, config.list) : server' = Put(objects, o)
    BY <1>5, <1>6
  <2>3. EachPart(Stored, key) = EachPart(Stored, config.key)
    BY <1>1, <2>1, TakenIs
  <2>4. /\ Well(server')
        /\ AllObjects(server') = Others(AllObjects(objects), Object(config).key) \cup {Object(config)}
    <3>. HIDE DEF key
    <3>. QED  BY <1>1, <1>2, <2>1, <2>2, <2>3, PuttingIs
  <2>5. Kept(state')
    <3>1. state' = made
      BY <1>5, <1>6
    <3>2. id = CreatedId(Sent(config.key))
      OBVIOUS
    <3>. HIDE DEF id
    <3>. QED  BY <1>1, <2>1, <3>1, <3>2, CreatedIs
  <2>6. Object(state') = Object(config)
    <3>1. state'.key = config.key /\ state'.label = config.label /\ state'.list = config.list
      BY <1>5, <1>6
    <3>. QED  BY <3>1, ObjectIs
  <2>. QED  BY <2>1, <2>4, <2>5, <2>6 DEF Makes
<1>7. CASE ~ goes
  <2>1. server' = objects /\ state' = None
    BY <1>5, <1>7
  <2>2. ~ Acceptable(Object(config)) \/ \E a \in AllObjects(objects) : a.key = Object(config).key
    BY <1>3, <1>4, <1>7
  <2>. QED  BY <2>1, <2>2 DEF Refuses
<1>. QED  BY <1>6, <1>7

LEMMA CreateGoes == ASSUME IInv, Create PROVE IInv' /\ Meanings!Create
<1>1. /\ state = None /\ config # None /\ CreateAmong(server)
      /\ step' = IF state' = None THEN "failed" ELSE "create"
      /\ subject' = subject /\ config' = config
      /\ subject \in Subjects /\ config \in Blocks[subject] \cup {None} /\ TypeOK /\ Well(server)
  BY DEF Create, IInv, TypeOK
<1>2. /\ Well(server')
      /\ Makes(server, Object(config)) \/ Refuses(server, Object(config))
  BY <1>1, CreateAmongIs
<1>3. IInv'
  BY <1>1, <1>2, Keeps DEF Makes, Refuses
<1>4. /\ ObjectOrNone(config)' = ObjectOrNone(config) /\ AllObjects(server)' = AllObjects(server')
      /\ ObjectOrNone(state)' = ObjectOrNone(state')
  BY <1>1, Unprimed
<1>5. ObjectOrNone(config) = Object(config) /\ ObjectOrNone(config) # NoObject
  BY <1>1, ConfigIsSome
<1>6. ObjectOrNone(state) = NoObject
  BY <1>1 DEF ObjectOrNone
<1>7. CASE Makes(server, Object(config))
  <2>1. /\ Acceptable(Object(config))
        /\ AllObjects(server') = Others(AllObjects(server), Object(config).key) \cup {Object(config)}
        /\ state' # None /\ ObjectOrNone(state') = Object(config)
    BY <1>1, <1>7, KeptIsSome DEF Makes
  <2>. QED
    BY <1>1, <1>3, <1>4, <1>5, <1>6, <2>1
       DEF Meanings!Create, Meanings!Made, Meanings!Except, AllObjects, Others
<1>8. CASE Refuses(server, Object(config))
  <2>1. /\ ~ Acceptable(Object(config)) \/ \E a \in AllObjects(server) : a.key = Object(config).key
        /\ server' = server /\ state' = None /\ ObjectOrNone(state') = NoObject
    BY <1>8 DEF Refuses, ObjectOrNone
  <2>. QED
    BY <1>1, <1>3, <1>4, <1>5, <1>6, <2>1 DEF Meanings!Create, Meanings!Holds, AllObjects
<1>. QED  BY <1>2, <1>7, <1>8

\* Deleting takes away the object of the key.
LEMMA LeftIs ==
    ASSUME IInv, state # None
    PROVE  /\ Left = Others(server, Object(state).key)
           /\ Well(Left)
           /\ AllObjects(Left) = Others(AllObjects(server), Object(state).key)
<1>1. subject \in Subjects /\ Well(server) /\ Kept(state)
  BY DEF IInv, TypeOK
<1>2. SpelledKey(state.key) /\ Reaches(Path(state), state.key) /\ Object(state).key = KeyMeaning(state.key)
  BY <1>1, ObjectIs DEF Kept, Sought
<1>3. \A o \in server : Means(Path(state), o) <=> KeyMeaning(state.key) = o.key
  BY <1>1, <1>2, MeansIs DEF Well
<1>4. Left = Others(server, Object(state).key)
  BY <1>2, <1>3 DEF Left, Others
<1>. QED  BY <1>1, <1>4, AllObjectsIs

LEMMA DeleteGoes == ASSUME IInv, Delete PROVE IInv' /\ Meanings!Delete
<1>1. /\ state # None /\ config = None /\ server' = Left /\ state' = None /\ step' = "delete"
      /\ subject' = subject /\ config' = config
      /\ subject \in Subjects /\ config \in Blocks[subject] \cup {None}
  BY DEF Delete, IInv, TypeOK
<1>2. Well(server') /\ AllObjects(server') = Others(AllObjects(server), Object(state).key)
  BY <1>1, LeftIs
<1>3. IInv'
  BY <1>1, <1>2, Keeps
<1>4. /\ ObjectOrNone(config)' = ObjectOrNone(config) /\ AllObjects(server)' = AllObjects(server')
      /\ ObjectOrNone(state)' = ObjectOrNone(state')
  BY <1>1, Unprimed
<1>5. /\ ObjectOrNone(config) = NoObject /\ ObjectOrNone(state') = NoObject
      /\ ObjectOrNone(state) # NoObject /\ ObjectOrNone(state) = Object(state)
  <2>1. ObjectOrNone(state) # NoObject /\ ObjectOrNone(state) = Object(state)
    BY <1>1, StateIsSome
  <2>. QED  BY <1>1, <2>1 DEF ObjectOrNone
<1>. QED  BY <1>1, <1>2, <1>3, <1>4, <1>5 DEF Meanings!Delete, Meanings!Except, AllObjects, Others

LEMMA ReplaceGoes == ASSUME IInv, Replace PROVE IInv' /\ Meanings!Replace
<1>1. /\ state # None /\ config # None /\ CreateAmong(Left)
      /\ Planned.key # state.key
      /\ step' = IF state' = None THEN "failed" ELSE "replace"
      /\ subject' = subject /\ config' = config
      /\ subject \in Subjects /\ config \in Blocks[subject] \cup {None} /\ TypeOK
  BY DEF Replace, IInv, TypeOK
<1>2. Well(Left) /\ AllObjects(Left) = Others(AllObjects(server), Object(state).key)
  BY <1>1, LeftIs
<1>3. /\ Well(server')
      /\ Makes(Left, Object(config)) \/ Refuses(Left, Object(config))
  BY <1>1, <1>2, CreateAmongIs
<1>4. IInv'
  BY <1>1, <1>3, Keeps DEF Makes, Refuses
<1>5. /\ ObjectOrNone(config)' = ObjectOrNone(config) /\ AllObjects(server)' = AllObjects(server')
      /\ ObjectOrNone(state)' = ObjectOrNone(state')
  BY <1>1, Unprimed
<1>6. /\ ObjectOrNone(config) = Object(config) /\ ObjectOrNone(config) # NoObject
      /\ ObjectOrNone(state) = Object(state) /\ ObjectOrNone(state) # NoObject
      /\ Object(config).key # Object(state).key
  BY <1>1, ConfigIsSome, StateIsSome, PlannedIs
<1>7. CASE Makes(Left, Object(config))
  <2>1. /\ Acceptable(Object(config))
        /\ AllObjects(server') =
              Others(Others(AllObjects(server), Object(state).key), Object(config).key) \cup {Object(config)}
        /\ state' # None /\ ObjectOrNone(state') = Object(config)
    BY <1>1, <1>2, <1>7, KeptIsSome DEF Makes
  <2>. QED
    BY <1>1, <1>4, <1>5, <1>6, <2>1
       DEF Meanings!Replace, Meanings!Made, Meanings!Except, AllObjects, Others
<1>8. CASE Refuses(Left, Object(config))
  <2>1. /\ \/ ~ Acceptable(Object(config))
           \/ \E a \in Others(AllObjects(server), Object(state).key) : a.key = Object(config).key
        /\ AllObjects(server') = Others(AllObjects(server), Object(state).key)
        /\ state' = None /\ ObjectOrNone(state') = NoObject
    BY <1>2, <1>8 DEF Refuses, ObjectOrNone
  <2>2. ~ Acceptable(Object(config)) \/ \E a \in AllObjects(server) : a.key = Object(config).key
    BY <2>1 DEF Others
  <2>. QED
    BY <1>1, <1>4, <1>5, <1>6, <2>1, <2>2
       DEF Meanings!Replace, Meanings!Holds, Meanings!Except, AllObjects, Others
<1>. QED  BY <1>3, <1>7, <1>8

\* A change that is taken: the object of the block under the key of the state.
LEMMA ChangedIs ==
    ASSUME IInv, state # None, NEW label, NEW list, SpelledBody(label, list), AcceptedBody(label, list),
           NEW r, r = [state EXCEPT !.label = label, !.list = list]
    PROVE  /\ Kept(r)
           /\ Object(r) = [of |-> subject, key |-> KeyMeaning(state.key), body |-> Body(label, list)]
<1>1. Kept(state)
  BY DEF IInv
<1>2. state = [id |-> state.id, key |-> state.key, label |-> state.label,
               list |-> state.list, identity |-> state.identity]
  BY <1>1 DEF Kept, Remembered
<1>3. r = [id |-> state.id, key |-> state.key, label |-> label, list |-> list, identity |-> state.identity]
  <2>. DEFINE i == state.id
              k == state.key
              l == state.label
              v == state.list
              d == state.identity
  <2>1. state = [id |-> i, key |-> k, label |-> l, list |-> v, identity |-> d]
    BY <1>2
  <2>. HIDE DEF i, k, l, v, d
  <2>2. r = [id |-> i, key |-> k, label |-> label, list |-> list, identity |-> d]
    BY <2>1
  <2>. QED  BY <2>2 DEF i, k, d
<1>4. r.id = state.id /\ r.key = state.key /\ r.label = label /\ r.list = list /\ r.identity = state.identity
  BY <1>3
<1>5. r \in Remembered(subject)
  <2>1. state.id \in Keys(subject) /\ state.key \in Keys(subject) /\ state.identity \in Keys(subject)
    BY <1>1 DEF Kept, Remembered
  <2>. QED  BY <1>3, <2>1 DEF Remembered, SpelledBody, SpelledList
<1>6. Sought(r)
  <2>1. Path(r) = Path(state)
    BY <1>4 DEF Path
  <2>. QED  BY <1>1, <1>4, <2>1 DEF Kept, Sought
<1>7. Kept(r)
  BY <1>1, <1>4, <1>5, <1>6 DEF Kept
<1>. QED  BY <1>4, <1>7, ObjectIs

LEMMA UpdateGoes == ASSUME IInv, Update PROVE IInv' /\ Meanings!Update
<1>. DEFINE label == Planned.label
            list == Planned.list
            path == Path(state)
            goes == /\ AcceptsRequest(path, label, list)
                    /\ subject \in {"zone", "recursor_zone"} => \E o \in server : Means(path, o)
<1>1. /\ state # None /\ config # None
      /\ Planned.key = state.key /\ ~ (Planned.label = state.label /\ Planned.list = state.list)
      /\ subject' = subject /\ config' = config
      /\ subject \in Subjects /\ config \in Blocks[subject] \cup {None} /\ TypeOK /\ Well(server)
  BY DEF Update, IInv, TypeOK
<1>2. /\ goes => /\ \E o \in StoredObjects(path, label, list) : server' = Put(server, o)
                 /\ state' = [state EXCEPT !.label = label, !.list = list]
                 /\ step' = "update"
      /\ ~ goes => step' = "failed" /\ state' = state /\ server' = server
  BY DEF Update
<1>3. /\ Object(config).key = Object(state).key /\ Object(config).body # Object(state).body
      /\ SpelledBody(label, list) /\ Body(label, list) = Body(config.label, config.list)
  BY <1>1, PlannedIs
<1>4. /\ Object(config) = [of |-> subject, key |-> KeyMeaning(config.key),
                           body |-> Body(config.label, config.list)]
      /\ Object(config).key = KeyMeaning(config.key) /\ Object(state).key = KeyMeaning(state.key)
  BY ObjectIs
<1>5. /\ SpelledKey(config.key) /\ SpelledBody(config.label, config.list)
      /\ Kept(state) /\ SpelledKey(state.key) /\ AcceptedKey(state.key) /\ Reaches(path, state.key)
  BY <1>1, ConfigIs DEF IInv, Kept, Sought
<1>. HIDE DEF label, list, path
<1>6. AcceptsRequest(path, label, list) <=> AcceptedBody(label, list)
  BY <1>1, <1>5, RequestIs
<1>7. Acceptable(Object(config)) <=> AcceptedBody(label, list)
  <2>1. AcceptedKey(config.key)
    BY <1>1, <1>3, <1>4, <1>5, SameAcceptedKey
  <2>2. AcceptedBody(config.label, config.list) <=> AcceptedBody(label, list)
    BY <1>1, <1>3, <1>5, SameAccepted
  <2>. QED  BY <1>1, <1>5, <2>1, <2>2, AcceptableIs
<1>8. (\E o \in server : Means(path, o)) <=> \E a \in AllObjects(server) : a.key = KeyMeaning(state.key)
  <2>1. \A o \in server : Means(path, o) <=> KeyMeaning(state.key) = o.key
    BY <1>1, <1>5, MeansIs DEF Well
  <2>2. (\E a \in AllObjects(server) : a.key = KeyMeaning(state.key))
           <=> \E o \in server : o.key = KeyMeaning(state.key)
    BY <1>1, HeldIs
  <2>. QED  BY <2>1, <2>2
<1>9. /\ ObjectOrNone(config)' = ObjectOrNone(config) /\ AllObjects(server)' = AllObjects(server')
      /\ ObjectOrNone(state)' = ObjectOrNone(state')
  BY <1>1, Unprimed
<1>10. /\ ObjectOrNone(config) = Object(config) /\ ObjectOrNone(config) # NoObject
       /\ ObjectOrNone(state) = Object(state) /\ ObjectOrNone(state) # NoObject
  BY <1>1, ConfigIsSome, StateIsSome
<1>11. CASE goes
  <2>1. AcceptedBody(label, list) /\ Acceptable(Object(config))
    BY <1>6, <1>7, <1>11
  <2>2. PICK o \in StoredObjects(path, label, list) : server' = Put(server, o)
    BY <1>2, <1>11
  <2>3. step' = "update" /\ state' = [state EXCEPT !.label = label, !.list = list]
    BY <1>2, <1>11
  <2>4. EachPart(Stored, path) = EachPart(Stored, state.key)
    <3>1. \A i \in DOMAIN Parts : Stored(Parts[i], path[i]) = Stored(Parts[i], state.key[i])
      BY <1>5 DEF Reaches, AcceptedKey
    <3>. QED  BY <3>1 DEF EachPart
  <2>5. Object(config) = [of |-> subject, key |-> KeyMeaning(state.key), body |-> Body(label, list)]
    BY <1>3, <1>4
  <2>6. /\ Well(server')
        /\ AllObjects(server') = Others(AllObjects(server), Object(config).key) \cup {Object(config)}
    <3>1. /\ Well(Put(server, o))
          /\ AllObjects(Put(server, o)) =
                Others(AllObjects(server), KeyMeaning(state.key))
                \cup {[of |-> subject, key |-> KeyMeaning(state.key), body |-> Body(label, list)]}
      BY <1>1, <1>3, <1>5, <2>1, <2>4, PuttingIs
    <3>. QED  BY <1>3, <1>4, <2>2, <2>5, <3>1
  <2>7. Kept(state') /\ Object(state') = Object(config)
    BY <1>1, <1>3, <2>1, <2>3, <2>5, ChangedIs
  <2>8. IInv'
    BY <1>1, <2>6, <2>7, Keeps
  <2>9. ObjectOrNone(state') = Object(config)
    BY <1>1, <2>7, KeptIsSome
  <2>. QED
    BY <1>1, <1>3, <1>9, <1>10, <2>1, <2>3, <2>6, <2>8, <2>9
       DEF Meanings!Update, Meanings!Made, Meanings!Except, AllObjects, Others
<1>12. CASE ~ goes
  <2>1. step' = "failed" /\ state' = state /\ server' = server
    BY <1>2, <1>12
  <2>2. ~ Acceptable(Object(config)) \/ ~ \E a \in AllObjects(server) : a.key = Object(config).key
    BY <1>3, <1>4, <1>6, <1>7, <1>8, <1>12
  <2>3. IInv'
    BY <1>1, <1>5, <2>1, Keeps
  <2>4. AllObjects(server)' = AllObjects(server) /\ ObjectOrNone(state)' = ObjectOrNone(state)
    BY <1>9, <2>1
  <2>. QED
    BY <1>1, <1>3, <1>9, <1>10, <2>1, <2>2, <2>3, <2>4 DEF Meanings!Update, Meanings!Holds, AllObjects
<1>. QED  BY <1>11, <1>12

LEMMA NothingGoes == ASSUME IInv, Nothing PROVE IInv' /\ Meanings!Nothing
<1>1. /\ step' = "nothing" /\ subject' = subject /\ config' = config /\ state' = state /\ server' = server
      /\ subject \in Subjects /\ config \in Blocks[subject] \cup {None} /\ TypeOK /\ Well(server)
      /\ state = None \/ Kept(state)
  BY DEF Nothing, IInv, TypeOK
<1>2. IInv'
  BY <1>1, Keeps
<1>3. ObjectOrNone(state) = ObjectOrNone(config)
  <2>1. CASE state = None \/ config = None
    BY <2>1 DEF Nothing
  <2>2. CASE state # None /\ config # None
    <3>1. Planned.key = state.key /\ Planned.label = state.label /\ Planned.list = state.list
      BY <2>2 DEF Nothing
    <3>2. Object(config).key = Object(state).key /\ Object(config).body = Object(state).body
      BY <2>2, <3>1, PlannedIs
    <3>3. /\ Object(config) = [of |-> subject, key |-> Object(config).key, body |-> Object(config).body]
          /\ Object(state) = [of |-> subject, key |-> Object(state).key, body |-> Object(state).body]
      BY ObjectIs
    <3>. QED  BY <2>2, <3>2, <3>3 DEF ObjectOrNone
  <2>. QED  BY <2>1, <2>2
<1>4. /\ ObjectOrNone(config)' = ObjectOrNone(config) /\ AllObjects(server)' = AllObjects(server)
      /\ ObjectOrNone(state)' = ObjectOrNone(state)
  BY <1>1, Unprimed
<1>. QED  BY <1>1, <1>2, <1>3, <1>4 DEF Meanings!Nothing, AllObjects

-----------------------------------------------------------------------------
(***************************************************************************)
(* The theorems.                                                           *)
(***************************************************************************)

LEMMA NextGoes ==
    ASSUME IInv, [Next]_vars
    PROVE  /\ IInv'
           /\ [Meanings!Next]_<<ObjectOrNone(config), ObjectOrNone(state), {Object(o) : o \in server}, step>>
<1>1. CASE Edit
  BY <1>1, EditGoes DEF Meanings!Next
<1>2. CASE Outside
  BY <1>2, OutsideGoes DEF Meanings!Next
<1>3. CASE Refresh
  BY <1>3, RefreshGoes DEF Meanings!Next
<1>4. CASE Import
  BY <1>4, ImportGoes DEF Meanings!Next
<1>5. CASE Create
  BY <1>5, CreateGoes DEF Meanings!Next
<1>6. CASE Update
  BY <1>6, UpdateGoes DEF Meanings!Next
<1>7. CASE Replace
  BY <1>7, ReplaceGoes DEF Meanings!Next
<1>8. CASE Delete
  BY <1>8, DeleteGoes DEF Meanings!Next
<1>9. CASE Nothing
  BY <1>9, NothingGoes DEF Meanings!Next
<1>10. CASE UNCHANGED vars
  <2>1. /\ subject' = subject /\ config' = config /\ state' = state /\ server' = server /\ step' = step
        /\ config \in Blocks[subject] \cup {None} /\ Well(server)
        /\ state = None \/ Kept(state)
    BY <1>10 DEF vars, IInv, TypeOK
  <2>2. IInv'
    BY <2>1, Keeps
  <2>3. /\ ObjectOrNone(config)' = ObjectOrNone(config) /\ AllObjects(server)' = AllObjects(server)
        /\ ObjectOrNone(state)' = ObjectOrNone(state)
    BY <2>1, Unprimed
  <2>. QED  BY <2>1, <2>2, <2>3 DEF AllObjects
<1>. QED
  BY <1>1, <1>2, <1>3, <1>4, <1>5, <1>6, <1>7, <1>8, <1>9, <1>10 DEF Next

LEMMA Invariance == Spec => []IInv
<1>1. Init => IInv
  BY InitEstablishes
<1>2. IInv /\ [Next]_vars => IInv'
  BY NextGoes
<1>. QED  BY <1>1, <1>2, PTL DEF Spec

\* Every variable has its type, and the objects at the server have different
\* keys, whatever is read and written.
THEOREM TypeCorrect == Spec => []TypeOK
<1>1. IInv => TypeOK
  BY DEF IInv
<1>. QED  BY <1>1, Invariance, PTL

\* Whatever the spellings, every step does to what the texts mean what module
\* Managed says: a respelling plans nothing, no change is taken for one, and a
\* key is found and kept under all its spellings.
THEOREM ImplementsMeanings == Spec => ImplementsManaged
<1>1. Init => Meanings!Init
  BY InitEstablishes
<1>2. IInv /\ [Next]_vars
        => [Meanings!Next]_<<ObjectOrNone(config), ObjectOrNone(state), {Object(o) : o \in server}, step>>
  BY NextGoes
<1>. QED  BY <1>1, <1>2, Invariance, PTL DEF Spec, ImplementsManaged, Meanings!Spec

\* While it is the same object an identity never changes: Create, Read and
\* Import find the same for it, from the key that is kept.
THEOREM IdentityIsStable == Spec => IdentityStable
<1>. DEFINE Stable == (state # None /\ state' # None /\ step' # "replace" /\ subject # "autoprimary")
                      => state'.identity = state.identity
<1>1. ASSUME IInv, Next PROVE Stable
  <2>. SUFFICES ASSUME state # None, state' # None, step' # "replace", subject # "autoprimary"
                PROVE  state'.identity = state.identity
    OBVIOUS
  <2>1. Kept(state) /\ Sought(state) /\ subject \in Subjects /\ Well(server)
    BY <1>1 DEF IInv, TypeOK, Kept
  <2>2. CASE state' = state
    BY <2>2
  <2>3. CASE Refresh
    <3>1. PICK o \in server :
            /\ o.key = KeyMeaning(state.key)
            /\ state' = [state EXCEPT !.label = o.label, !.list = o.list, !.identity = Identity(state, o)]
      BY <2>1, <2>3, ReadIs DEF Refresh
    <3>2. StoredObject(o) /\ state \in Remembered(subject)
      BY <2>1 DEF Well, Kept
    <3>3. /\ state.id \in Keys(subject)
          /\ state = [id |-> state.id, key |-> state.key, label |-> state.label,
                      list |-> state.list, identity |-> state.identity]
      BY <3>2 DEF Remembered
    <3>4. Kept(state')
      BY <2>1, <3>1, <3>2, <3>3, ReadRecordIs
    <3>5. state'.id = state.id /\ state'.key = state.key
      BY <3>1, <3>2 DEF Remembered
    <3>. QED  BY <2>1, <3>4, <3>5 DEF Kept
  <2>4. CASE Update
    <3>1. state' = [state EXCEPT !.label = Planned.label, !.list = Planned.list] \/ state' = state
      BY <2>4 DEF Update
    <3>. QED  BY <2>1, <3>1 DEF Kept, Remembered
  <2>5. CASE Edit \/ Outside \/ Import \/ Create \/ Replace \/ Delete \/ Nothing
    BY <2>2, <2>5 DEF Edit, Outside, Import, Create, Replace, Delete, Nothing
  <2>. QED  BY <1>1, <2>3, <2>4, <2>5 DEF Next
<1>2. ASSUME UNCHANGED vars PROVE Stable
  BY <1>2 DEF vars
<1>3. IInv /\ [Next]_vars => [Stable]_vars
  BY <1>1, <1>2
<1>. QED  BY <1>3, Invariance, PTL DEF Spec, IdentityStable
=============================================================================
