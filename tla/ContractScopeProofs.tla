------------------------- MODULE ContractScopeProofs -------------------------
(***************************************************************************)
(* What the contract scope selects and how the router shards pack it, for  *)
(* every repository of playbooks, tests and roles and every change.  A     *)
(* packing never loses a playbook, runs none in two jobs, spreads the      *)
(* units of a topic, and names its jobs apart (PackHolds); what a changed  *)
(* path is owed is selected before the path is left behind                 *)
(* (SelectionHolds).  The lemmas about the sequences come from             *)
(* SystemMergeProofs.                                                      *)
(***************************************************************************)
EXTENDS ContractScope, SystemMergeProofs, FiniteSetTheorems

--------------------------------------------------------------------------
\* Weights, and how many shards.

\* The recursive function of a sum exists, and sums numbers to a number.
Sums(v) ==
    CHOOSE f : f = [s \in SUBSET DOMAIN v |->
        IF s = {} THEN 0
        ELSE v[CHOOSE x \in s : TRUE] + f[s \ {CHOOSE x \in s : TRUE}]]
SumUpTo(v, n, f) ==
    /\ f \in [SUBSET DOMAIN v -> Nat]
    /\ \A s \in SUBSET DOMAIN v : Cardinality(s) <= n =>
        f[s] = IF s = {} THEN 0
               ELSE v[CHOOSE x \in s : TRUE] + f[s \ {CHOOSE x \in s : TRUE}]

LEMMA SumIsSums == ASSUME NEW v PROVE SumFunction(v) = Sums(v)[DOMAIN v]
  BY DEF SumFunction, SumFunctionOnSet, FoldFunctionOnSet, MapThenFoldSet, Sums

LEMMA SubsetSizes ==
    ASSUME NEW ps, IsFiniteSet(ps), NEW s \in SUBSET ps
    PROVE  /\ IsFiniteSet(s) /\ Cardinality(s) \in Nat /\ Cardinality(s) <= Cardinality(ps)
           /\ Cardinality(ps) \in Nat
           /\ s # {} => /\ (CHOOSE x \in s : TRUE) \in s
                        /\ Cardinality(s) # 0
                        /\ Cardinality(s \ {CHOOSE x \in s : TRUE}) = Cardinality(s) - 1
<1>1. IsFiniteSet(s) /\ Cardinality(s) <= Cardinality(ps)
  BY FS_Subset
<1>2. Cardinality(s) \in Nat /\ Cardinality(ps) \in Nat
  BY <1>1, FS_CardinalityType
<1>3. ASSUME s # {}
      PROVE  /\ (CHOOSE x \in s : TRUE) \in s /\ Cardinality(s) # 0
             /\ Cardinality(s \ {CHOOSE x \in s : TRUE}) = Cardinality(s) - 1
  BY <1>1, <1>3, FS_RemoveElement, FS_EmptySet
<1>4. QED
  BY <1>1, <1>2, <1>3

LEMMA SumsExist ==
    ASSUME NEW S, IsFiniteSet(S), NEW v \in [S -> Nat]
    PROVE  \A n \in Nat : \E f : SumUpTo(v, n, f)
<1>0. IsFiniteSet(S) /\ DOMAIN v = S /\ \A p \in S : v[p] \in Nat
  OBVIOUS
<1> DEFINE T == {n \in Nat : \E f : SumUpTo(v, n, f)}
<1>1. 0 \in T
  <2> DEFINE f == [s \in SUBSET S |-> 0]
  <2>1. \A s \in SUBSET S : Cardinality(s) <= 0 => s = {}
    <3> SUFFICES ASSUME NEW s \in SUBSET S, Cardinality(s) <= 0 PROVE s = {}
      OBVIOUS
    <3>1. IsFiniteSet(s) /\ Cardinality(s) \in Nat
      BY <1>0, SubsetSizes
    <3>2. QED
      BY <3>1, FS_EmptySet
  <2>2. SumUpTo(v, 0, f)
    BY <2>1 DEF SumUpTo
  <2> HIDE DEF f
  <2>3. QED
    BY <2>2
<1>2. ASSUME NEW n \in Nat, n \in T PROVE n + 1 \in T
  <2>1. PICK f : SumUpTo(v, n, f)
    BY <1>2
  <2> DEFINE first(s) == CHOOSE x \in s : TRUE
             sum(s) == IF s = {} THEN 0 ELSE v[first(s)] + f[s \ {first(s)}]
             g == [s \in SUBSET S |-> sum(s)]
  <2>2. \A s \in SUBSET S : sum(s) \in Nat
    <3> SUFFICES ASSUME NEW s \in SUBSET S PROVE sum(s) \in Nat
      OBVIOUS
    <3>1. s # {} => first(s) \in s
      OBVIOUS
    <3>2. s # {} => v[first(s)] \in Nat /\ f[s \ {first(s)}] \in Nat
      BY <1>0, <2>1, <3>1 DEF SumUpTo
    <3> HIDE DEF first
    <3>3. QED
      BY <3>2
  <2>3. ASSUME NEW s \in SUBSET S, Cardinality(s) <= n + 1
        PROVE  g[s] = IF s = {} THEN 0 ELSE v[first(s)] + g[s \ {first(s)}]
    <3>1. CASE s = {}
      BY <3>1
    <3>2. CASE s # {}
      <4> DEFINE r == s \ {first(s)}
      <4>1. r \in SUBSET S /\ Cardinality(r) <= n
        <5>1. Cardinality(s) \in Nat /\ Cardinality(r) = Cardinality(s) - 1
          BY <1>0, <3>2, SubsetSizes
        <5>2. QED
          BY <2>3, <5>1
      <4>2. f[r] = sum(r)
        BY <2>1, <4>1 DEF SumUpTo
      <4>3. g[s] = v[first(s)] + f[r] /\ g[r] = sum(r)
        BY <3>2, <4>1
      <4>4. QED
        BY <3>2, <4>2, <4>3
    <3>3. QED
      BY <3>1, <3>2
  <2>4. g \in [SUBSET S -> Nat]
    BY <2>2
  <2>5. SumUpTo(v, n + 1, g)
    <3> HIDE DEF g
    <3>1. QED
      BY <2>3, <2>4 DEF SumUpTo
  <2> HIDE DEF g
  <2>6. QED
    BY <2>5
<1>3. \A n \in Nat : n \in T
  <2> HIDE DEF T
  <2> QED
    BY <1>1, <1>2, SetInduction
<1>4. QED
  BY <1>3

LEMMA SumType == ASSUME NEW S, IsFiniteSet(S), NEW v \in [S -> Nat] PROVE SumFunction(v) \in Nat
<1>1. IsFiniteSet(S) /\ Cardinality(S) \in Nat
  BY FS_CardinalityType
<1>2. PICK f : SumUpTo(v, Cardinality(S), f)
  BY <1>1, SumsExist
<1>3. f = [s \in SUBSET S |->
            IF s = {} THEN 0
            ELSE v[CHOOSE x \in s : TRUE] + f[s \ {CHOOSE x \in s : TRUE}]]
  <2>1. \A s \in SUBSET S : Cardinality(s) <= Cardinality(S)
    BY <1>1, SubsetSizes
  <2>2. QED
    BY <1>2, <2>1 DEF SumUpTo
<1> DEFINE IsSum(g) == g = [s \in SUBSET DOMAIN v |->
                          IF s = {} THEN 0
                          ELSE v[CHOOSE x \in s : TRUE] + g[s \ {CHOOSE x \in s : TRUE}]]
           h == Sums(v)
<1>a. DOMAIN v = S
  OBVIOUS
<1>b. h = CHOOSE g : IsSum(g)
  BY DEF Sums
<1>c. IsSum(f)
  BY <1>3, <1>a
<1>d. IsSum(h)
  <2> HIDE DEF IsSum, h
  <2> QED
    BY <1>b, <1>c
<1>4. h = [s \in SUBSET S |->
            IF s = {} THEN 0
            ELSE v[CHOOSE x \in s : TRUE] + h[s \ {CHOOSE x \in s : TRUE}]]
  <2> HIDE DEF h
  <2> QED
    BY <1>a, <1>d
<1> HIDE DEF h, IsSum
<1> DEFINE T == {n \in Nat : \A s \in SUBSET S : Cardinality(s) = n => h[s] \in Nat}
<1>5. 0 \in T
  <2>1. \A s \in SUBSET S : Cardinality(s) = 0 => s = {}
    <3> SUFFICES ASSUME NEW s \in SUBSET S, Cardinality(s) = 0 PROVE s = {}
      OBVIOUS
    <3>1. IsFiniteSet(s)
      BY <1>1, SubsetSizes
    <3>2. QED
      BY <3>1, FS_EmptySet
  <2>2. h[{}] = 0
    BY <1>4
  <2>3. QED
    BY <2>1, <2>2
<1>6. ASSUME NEW n \in Nat, n \in T PROVE n + 1 \in T
  <2> SUFFICES ASSUME NEW s \in SUBSET S, Cardinality(s) = n + 1 PROVE h[s] \in Nat
    OBVIOUS
  <2> DEFINE x == CHOOSE x \in s : TRUE
  <2>1. s # {}
    BY FS_EmptySet
  <2>2. x \in s /\ Cardinality(s \ {x}) = n /\ s \ {x} \in SUBSET S
    BY <1>1, <2>1, SubsetSizes
  <2>3. v[x] \in Nat
    BY <2>2
  <2>4. h[s] = v[x] + h[s \ {x}]
    BY <1>4, <2>1
  <2> HIDE DEF x
  <2>5. QED
    BY <1>6, <2>2, <2>3, <2>4
<1>7. \A n \in Nat : n \in T
  <2> HIDE DEF T
  <2> QED
    BY <1>5, <1>6, SetInduction
<1>8. QED
  BY <1>1, <1>7, SumIsSums DEF h

LEMMA WeightType == ASSUME NEW ps \in SUBSET Playbooks PROVE Weight(ps) \in Nat
<1>1. IsFiniteSet(ps) /\ [p \in ps |-> p.weight] \in [ps -> Nat]
  BY ShardAssumption, FS_Subset
<1>2. QED
  BY <1>1, SumType DEF Weight

\* The least of three numbers is one of them.
LEMMA MinIs == ASSUME NEW S, S \subseteq Int, NEW a \in S, \A b \in S : a <= b PROVE Min(S) = a
<1> DEFINE P(x) == \A y \in S : x =< y
<1>1. a \in S /\ P(a)
  OBVIOUS
<1>2. \A x \in S : P(x) => x = a
  OBVIOUS
<1> HIDE DEF P
<1>3. (CHOOSE x \in S : P(x)) = a
  BY <1>1, <1>2
<1>4. QED
  BY <1>3 DEF Min, P

LEMMA MinOfThree == ASSUME NEW a \in Nat, NEW b \in Nat, NEW c \in Nat
    PROVE Min({a, b, c}) \in Nat /\ Min({a, b, c}) <= a
<1> DEFINE m == IF a <= b /\ a <= c THEN a ELSE IF b <= c THEN b ELSE c
<1>1. m \in {a, b, c} /\ \A x \in {a, b, c} : m <= x
  OBVIOUS
<1>2. Min({a, b, c}) = m
  <2> HIDE DEF m
  <2> QED
    BY <1>1, MinIs
<1>3. QED
  BY <1>2

LEMMA ShardCountType ==
    ASSUME NEW ps \in SUBSET Playbooks, NEW t \in Nat \ {0}
    PROVE  ShardCount(ps, t) \in Nat /\ ShardCount(ps, t) <= MaxShards
<1>1. IsFiniteSet(ps) /\ Cardinality(ps) \in Nat
  BY ShardAssumption, FS_Subset, FS_CardinalityType
<1>2. CeilDiv(Weight(ps), t) \in Nat
  BY WeightType DEF CeilDiv
<1>3. QED
  BY <1>1, <1>2, MinOfThree, ShardAssumption DEF ShardCount

--------------------------------------------------------------------------
\* Labels, sorted by counting.

\* Counting the labels up to each of them numbers them.
Tagged(L) ==
    /\ IsFiniteSet(L)
    /\ \A a \in L : a \in Seq(Int) /\ a # <<>>
    /\ \A a, b \in L : a[1] = b[1] /\ a[Len(a)] = b[Len(b)] => a = b
UpTo(L, l) == {k \in L : NotAfter(k, l)}
Rank(L) == [l \in L |-> Cardinality(UpTo(L, l))]

LEMMA LabelsCompare ==
    ASSUME NEW L, Tagged(L), NEW a \in L, NEW b \in L
    PROVE  /\ NotAfter(a, a)
           /\ NotAfter(a, b) \/ NotAfter(b, a)
           /\ NotAfter(a, b) /\ NotAfter(b, a) => a = b
           /\ \A c \in L : NotAfter(c, a) /\ NotAfter(a, b) => NotAfter(c, b)
<1>1. \A c \in L : c[1] \in Int /\ c[Len(c)] \in Int
  BY DEF Tagged
<1>2. a[1] = b[1] /\ a[Len(a)] = b[Len(b)] => a = b
  BY DEF Tagged
<1>3. QED
  BY <1>1, <1>2 DEF NotAfter

LEMMA RankIsOneToOne ==
    ASSUME NEW L, Tagged(L)
    PROVE  Rank(L) \in Injection(L, 1..Cardinality(L))
<1>0. IsFiniteSet(L) /\ Cardinality(L) \in Nat
  BY FS_CardinalityType DEF Tagged
<1>1. \A l \in L : IsFiniteSet(UpTo(L, l)) /\ Cardinality(UpTo(L, l)) \in 1..Cardinality(L) /\ l \in UpTo(L, l)
  <2> SUFFICES ASSUME NEW l \in L
               PROVE  /\ IsFiniteSet(UpTo(L, l)) /\ Cardinality(UpTo(L, l)) \in 1..Cardinality(L)
                      /\ l \in UpTo(L, l)
    OBVIOUS
  <2>1. l \in UpTo(L, l) /\ UpTo(L, l) \in SUBSET L
    BY LabelsCompare DEF UpTo
  <2>2. IsFiniteSet(UpTo(L, l)) /\ Cardinality(UpTo(L, l)) <= Cardinality(L)
    BY <1>0, <2>1, FS_Subset
  <2>3. Cardinality(UpTo(L, l)) \in Nat /\ Cardinality(UpTo(L, l)) # 0
    BY <2>1, <2>2, FS_CardinalityType, FS_EmptySet
  <2>4. QED
    BY <1>0, <2>1, <2>2, <2>3
<1>2. ASSUME NEW a \in L, NEW b \in L, a # b, NotAfter(a, b)
      PROVE  Cardinality(UpTo(L, a)) # Cardinality(UpTo(L, b))
  <2>1. UpTo(L, a) \in SUBSET UpTo(L, b)
    BY <1>2, LabelsCompare DEF UpTo
  <2>2. b \notin UpTo(L, a)
    BY <1>2, LabelsCompare DEF UpTo
  <2>3. UpTo(L, a) # UpTo(L, b)
    BY <1>1, <2>2
  <2>4. QED
    BY <1>1, <2>1, <2>3, FS_Subset
<1>3. ASSUME NEW a \in L, NEW b \in L, Rank(L)[a] = Rank(L)[b] PROVE a = b
  BY <1>2, <1>3, LabelsCompare DEF Rank
<1>4. Rank(L) \in [L -> 1..Cardinality(L)]
  BY <1>1 DEF Rank
<1>5. QED
  BY <1>3, <1>4 DEF Injection, IsInjective

LEMMA SortedIs ==
    ASSUME NEW L, Tagged(L)
    PROVE  Sorted(L) \in Seq(L) /\ Len(Sorted(L)) = Cardinality(L) /\ Cardinality(L) \in Nat
<1> DEFINE n == Cardinality(L)
<1>1. IsFiniteSet(L) /\ n \in Nat
  BY FS_CardinalityType DEF Tagged
<1>2. IsFiniteSet(1..n) /\ Cardinality(1..n) = n
  BY <1>1, FS_Interval
<1>3. Rank(L) \in Surjection(L, 1..n)
  BY <1>2, RankIsOneToOne, FS_Injection
<1>4. \A i \in 1..n : \E l \in L : Cardinality({k \in L : NotAfter(k, l)}) = i
  BY <1>3 DEF Surjection, Rank, UpTo
<1>5. \A i \in 1..n : (CHOOSE l \in L : Cardinality({k \in L : NotAfter(k, l)}) = i) \in L
  BY <1>4
<1>6. Sorted(L) \in [1..n -> L]
  BY <1>5 DEF Sorted
<1> HIDE DEF n
<1>7. QED
  BY <1>1, <1>6 DEF n

LEMMA FlattenSome ==
    ASSUME NEW S, NEW ss \in Seq(Seq(S)), ss # <<>>, \A i \in 1..Len(ss) : ss[i] # <<>>
    PROVE  FlattenSeq(ss) \in Seq(S) /\ Len(FlattenSeq(ss)) \in Nat \ {0}
<1> DEFINE n == Len(ss) - 1
           front == [i \in 1..n |-> ss[i]]
           last == ss[n + 1]
<1>1. n \in Nat /\ front \in Seq(Seq(S)) /\ last \in Seq(S) /\ last # <<>> /\ ss = Append(front, last)
  OBVIOUS
<1> HIDE DEF front, last
<1>2. FlattenSeq(ss) = FlattenSeq(front) \o last
  BY <1>1, FlattenAppend
<1>3. FlattenSeq(front) \in Seq(S)
  BY <1>1, FlattenType
<1>4. QED
  BY <1>1, <1>2, <1>3

--------------------------------------------------------------------------
\* The invariant of a packing.

\* The units of the jobs, and all there are.
InJobs == UNION {shards[s] : s \in DOMAIN shards}
AllUnits == units \union InJobs

\* What is packed, by its kind.
PackShape ==
    /\ pc \in {"select", "chunk", "place", "name", "done"}
    /\ selected \in SUBSET Playbooks /\ todo \in SUBSET selected /\ open \in SUBSET selected
    /\ AllUnits \in SUBSET SUBSET selected
    /\ \E n \in 0..MaxShards : shards \in [1..n -> SUBSET SUBSET selected]
\* A playbook waits, or is in the open chunk, or in one unit, and a unit is in one place.
NothingLost == selected \subseteq todo \union open \union UNION AllUnits
NothingTwice ==
    /\ todo \cap open = {}
    /\ \A u \in AllUnits : u \cap todo = {} /\ u \cap open = {}
    /\ \A u, v \in AllUnits : u # v => u \cap v = {}
    /\ InJobs \cap units = {}
    /\ \A r, s \in DOMAIN shards : r # s => shards[r] \cap shards[s] = {}
OneTopic(u) == \E p \in u : \A q \in u : q.topic = p.topic
TopicsApart == (\A u \in AllUnits : OneTopic(u)) /\ (open # {} => OneTopic(open))
\* How far the packing is.
StageHolds ==
    /\ pc \in {"select", "chunk"} => InJobs = {}
    /\ pc = "chunk" => selected # {} /\ (open = {} => todo = selected)
    /\ pc # "chunk" => todo = {} /\ open = {}
    /\ pc \in {"select", "name", "done"} => units = {}
    /\ pc \notin {"name", "done"} => names = <<>>
NamesHold ==
    /\ DOMAIN names \subseteq DOMAIN shards
    /\ \A s \in DOMAIN names : names[s] \in Seq(Int) /\ Len(names[s]) \in 1..MaxName
    /\ \A r, s \in DOMAIN names : names[r] = names[s] => r = s
PackHolds == PackShape /\ NothingLost /\ NothingTwice /\ TopicsApart /\ StageHolds /\ TopicsSpread /\ NamesHold

LEMMA TopicsOfOne == ASSUME NEW u PROVE OneTopic(u) <=> \E t : Topics(u) = {t}
<1>1. ASSUME OneTopic(u) PROVE \E t : Topics(u) = {t}
  <2>1. PICK p \in u : \A q \in u : q.topic = p.topic
    BY <1>1 DEF OneTopic
  <2>2. Topics(u) = {p.topic}
    BY <2>1 DEF Topics
  <2>3. QED
    BY <2>2
<1>2. ASSUME NEW t, Topics(u) = {t} PROVE OneTopic(u)
  BY <1>2 DEF OneTopic, Topics
<1>3. QED
  BY <1>1, <1>2

LEMMA ShardSizes ==
    ASSUME PackShape
    PROVE  /\ IsFiniteSet(DOMAIN shards) /\ Cardinality(DOMAIN shards) \in Nat
           /\ Cardinality(DOMAIN shards) <= MaxShards
           /\ DOMAIN shards \in SUBSET Nat
<1>1. PICK n \in 0..MaxShards : shards \in [1..n -> SUBSET SUBSET selected]
  BY DEF PackShape
<1>2. DOMAIN shards = 1..n /\ n \in Nat /\ n <= MaxShards
  BY <1>1, ShardAssumption
<1>3. IsFiniteSet(1..n) /\ Cardinality(1..n) = n
  BY <1>2, FS_Interval
<1>4. QED
  BY <1>2, <1>3

LEMMA UnitsFinite == ASSUME PackShape PROVE \A S \in SUBSET AllUnits : IsFiniteSet(S)
<1>1. IsFiniteSet(selected)
  BY ShardAssumption, FS_Subset DEF PackShape
<1>2. IsFiniteSet(SUBSET selected)
  BY <1>1, FS_SUBSET
<1>3. QED
  BY <1>2, FS_Subset DEF PackShape

(* Chunks *)
LEMMA ChunkKeeps == ASSUME PackHolds, NEW p \in todo, Chunk(p) PROVE PackHolds'
<1>1. /\ pc = "chunk" /\ pc' = "chunk" /\ todo' = todo \ {p}
      /\ UNCHANGED <<selected, shards, names>>
      /\ InJobs = {} /\ InJobs' = {} /\ AllUnits = units /\ AllUnits' = units'
  BY DEF Chunk, PackHolds, StageHolds, InJobs, AllUnits
<1>2. p \in selected /\ p \notin open /\ \A u \in units : p \notin u
  BY <1>1 DEF PackHolds, PackShape, NothingTwice
<1>3. TopicsSpread' /\ NamesHold'
  <2>1. \A s \in DOMAIN shards' : shards'[s] = {}
    BY <1>1 DEF InJobs
  <2>2. QED
    BY <1>1, <2>1 DEF PackHolds, TopicsSpread, NamesHold
<1>4. CASE Fits(p)
  <2>1. open' = open \union {p} /\ units' = units
    BY <1>4 DEF Chunk
  <2>2. PackShape' /\ NothingLost' /\ NothingTwice'
    BY <1>1, <1>2, <2>1 DEF PackHolds, PackShape, NothingLost, NothingTwice
  <2>3. OneTopic(open')
    BY <1>4, <2>1 DEF Fits, OneTopic
  <2>4. QED
    BY <1>1, <1>3, <2>1, <2>2, <2>3 DEF PackHolds, TopicsApart, StageHolds, OneTopic
<1>5. CASE ~Fits(p)
  <2>1. open' = {p} /\ units' = units \union {open} /\ open # {}
    BY <1>5 DEF Chunk, Fits
  <2>2. PackShape' /\ NothingLost' /\ NothingTwice'
    BY <1>1, <1>2, <2>1 DEF PackHolds, PackShape, NothingLost, NothingTwice
  <2>3. OneTopic(open') /\ OneTopic(open)
    BY <2>1 DEF OneTopic, PackHolds, TopicsApart
  <2>4. QED
    BY <1>1, <1>3, <2>1, <2>2, <2>3 DEF PackHolds, TopicsApart, StageHolds, OneTopic
<1>6. QED
  BY <1>4, <1>5

LEMMA LastChunkKeeps == ASSUME PackHolds, LastChunk PROVE PackHolds'
<1>1. /\ pc = "chunk" /\ pc' = "place" /\ todo = {} /\ open' = {} /\ units' = units \union {open}
      /\ UNCHANGED <<selected, todo, shards, names>>
      /\ InJobs = {} /\ InJobs' = {} /\ AllUnits = units /\ AllUnits' = units'
  BY DEF LastChunk, CloseOpen, PackHolds, StageHolds, InJobs, AllUnits
<1>2. open # {}
  BY <1>1 DEF PackHolds, StageHolds
<1>3. PackShape' /\ NothingLost' /\ NothingTwice'
  BY <1>1 DEF PackHolds, PackShape, NothingLost, NothingTwice
<1>4. TopicsApart' /\ StageHolds'
  BY <1>1, <1>2 DEF PackHolds, TopicsApart, OneTopic, StageHolds
<1>5. TopicsSpread' /\ NamesHold'
  <2>1. \A s \in DOMAIN shards' : shards'[s] = {}
    BY <1>1 DEF InJobs
  <2>2. QED
    BY <1>1, <2>1 DEF PackHolds, TopicsSpread, NamesHold
<1>6. QED
  BY <1>3, <1>4, <1>5 DEF PackHolds

(* Jobs *)
UnitsOf(u) == {w \in AllUnits : Topics(w) = Topics(u)}

\* A job takes a second unit of a topic only when the topic has more units than there are jobs.
LEMMA SecondOfTopic ==
    ASSUME PackHolds, NEW u \in units, NEW s \in DOMAIN shards, s \in Candidates(u),
           NEW v \in shards[s], Topics(v) = Topics(u)
    PROVE  Cardinality(UnitsOf(u)) > Cardinality(DOMAIN shards)
<1>1. \A w \in AllUnits : Topics(w) # {}
  BY TopicsOfOne DEF PackHolds, TopicsApart
<1>2. u \in AllUnits /\ v \in AllUnits
  BY DEF AllUnits, InJobs
<1>3. FreeOf(u) = {}
  BY <1>1, <1>2 DEF Candidates, FreeOf, HasTopicOf
<1>4. \A r \in DOMAIN shards : \E w \in shards[r] : Topics(w) = Topics(u)
  <2> SUFFICES ASSUME NEW r \in DOMAIN shards PROVE \E w \in shards[r] : Topics(w) = Topics(u)
    OBVIOUS
  <2>1. PICK w \in shards[r] : Topics(w) \cap Topics(u) # {}
    BY <1>3 DEF FreeOf, HasTopicOf
  <2>2. w \in AllUnits
    BY DEF AllUnits, InJobs
  <2>3. (\E t : Topics(w) = {t}) /\ (\E t : Topics(u) = {t})
    BY <1>2, <2>2, TopicsOfOne DEF PackHolds, TopicsApart
  <2>4. QED
    BY <2>1, <2>3
<1> DEFINE f == [r \in DOMAIN shards |-> CHOOSE w \in shards[r] : Topics(w) = Topics(u)]
           rest == UnitsOf(u) \ {u}
<1>5. \A r \in DOMAIN shards : f[r] \in shards[r] /\ f[r] \in rest
  <2> SUFFICES ASSUME NEW r \in DOMAIN shards PROVE f[r] \in shards[r] /\ f[r] \in rest
    OBVIOUS
  <2>1. f[r] \in shards[r] /\ Topics(f[r]) = Topics(u)
    BY <1>4
  <2> HIDE DEF f
  <2>2. f[r] \in InJobs /\ f[r] \in AllUnits
    BY <2>1 DEF AllUnits, InJobs
  <2>3. f[r] # u
    BY <2>2 DEF PackHolds, NothingTwice
  <2>4. QED
    BY <2>1, <2>2, <2>3 DEF UnitsOf
<1>6. f \in [DOMAIN shards -> rest]
  BY <1>5
<1>7. f \in Injection(DOMAIN shards, rest)
  <2>1. \A q, r \in DOMAIN shards : f[q] = f[r] => q = r
    <3> HIDE DEF f
    <3> QED
      BY <1>5 DEF PackHolds, NothingTwice
  <2> HIDE DEF f
  <2>2. QED
    BY <1>6, <2>1 DEF Injection, IsInjective
<1> HIDE DEF f
<1>8. IsFiniteSet(UnitsOf(u)) /\ IsFiniteSet(rest) /\ Cardinality(rest) = Cardinality(UnitsOf(u)) - 1
      /\ Cardinality(UnitsOf(u)) \in Nat
  <2>1. u \in UnitsOf(u) /\ UnitsOf(u) \in SUBSET AllUnits
    BY <1>2 DEF UnitsOf
  <2>2. IsFiniteSet(UnitsOf(u))
    BY <2>1, UnitsFinite DEF PackHolds
  <2>3. QED
    BY <2>1, <2>2, FS_RemoveElement, FS_CardinalityType
<1>9. Cardinality(DOMAIN shards) <= Cardinality(rest)
  BY <1>7, <1>8, FS_Injection
<1>10. Cardinality(DOMAIN shards) \in Nat
  BY ShardSizes DEF PackHolds
<1>11. QED
  BY <1>8, <1>9, <1>10

LEMMA PlaceKeeps == ASSUME PackHolds, NEW u \in units, NEW s \in DOMAIN shards, Place(u, s) PROVE PackHolds'
<1>1. /\ pc = "place" /\ UNCHANGED <<pc, selected, todo, open, names>> /\ units' = units \ {u}
      /\ DOMAIN shards' = DOMAIN shards
      /\ shards'[s] = shards[s] \union {u}
      /\ \A r \in DOMAIN shards : r # s => shards'[r] = shards[r]
      /\ s \in Candidates(u)
  BY DEF Place, PackHolds, PackShape
<1>2. InJobs' = InJobs \union {u}
  <2>1. \A r \in DOMAIN shards : shards'[r] = IF r = s THEN shards[r] \union {u} ELSE shards[r]
    BY <1>1
  <2>2. QED
    BY <1>1, <2>1 DEF InJobs
<1>3. AllUnits' = AllUnits /\ u \in AllUnits
  BY <1>1, <1>2 DEF AllUnits
<1>4. PackShape'
  <2>1. PICK n \in 0..MaxShards : shards \in [1..n -> SUBSET SUBSET selected]
    BY DEF PackHolds, PackShape
  <2>2. u \in SUBSET selected
    BY <1>3 DEF PackHolds, PackShape
  <2>3. shards' \in [1..n -> SUBSET SUBSET selected]
    BY <2>1, <2>2 DEF Place
  <2>4. QED
    BY <1>1, <1>3, <2>3 DEF PackHolds, PackShape
<1>5. NothingLost' /\ NothingTwice'
  <2>1. u \notin InJobs /\ \A r \in DOMAIN shards : u \notin shards[r]
    BY DEF PackHolds, NothingTwice, InJobs
  <2>2. \A q, r \in DOMAIN shards' : q # r => shards'[q] \cap shards'[r] = {}
    BY <1>1, <2>1 DEF PackHolds, NothingTwice
  <2>3. InJobs' \cap units' = {}
    BY <1>1, <1>2 DEF PackHolds, NothingTwice
  <2>4. QED
    BY <1>1, <1>3, <2>2, <2>3 DEF PackHolds, NothingLost, NothingTwice
<1>6. TopicsApart' /\ StageHolds' /\ NamesHold'
  BY <1>1, <1>3 DEF PackHolds, TopicsApart, StageHolds, NamesHold
<1>7. TopicsSpread'
  <2> DEFINE Crowded(a) == Cardinality({w \in AllUnits : Topics(w) = Topics(a)}) > Cardinality(DOMAIN shards)
  <2>1. ASSUME NEW r \in DOMAIN shards, NEW a \in shards'[r], NEW b \in shards'[r], a # b, Topics(a) = Topics(b)
        PROVE  Crowded(a)
    <3>1. CASE a \in shards[r] /\ b \in shards[r]
      BY <2>1, <3>1 DEF PackHolds, TopicsSpread, AllUnits, InJobs
    <3>2. CASE ~(a \in shards[r] /\ b \in shards[r])
      <4>1. r = s /\ ((a = u /\ b \in shards[s]) \/ (b = u /\ a \in shards[s]))
        BY <1>1, <2>1, <3>2
      <4>2. Cardinality(UnitsOf(u)) > Cardinality(DOMAIN shards)
        BY <1>1, <2>1, <4>1, SecondOfTopic
      <4>3. QED
        BY <2>1, <4>1, <4>2 DEF UnitsOf
    <3>3. QED
      BY <3>1, <3>2
  <2>2. ASSUME NEW r \in DOMAIN shards, NEW a \in shards'[r] PROVE Cardinality(Topics(a)) = 1
    <3>1. a \in AllUnits
      BY <1>1, <1>3, <2>2 DEF AllUnits, InJobs
    <3>2. \E t : Topics(a) = {t}
      BY <3>1, TopicsOfOne DEF PackHolds, TopicsApart
    <3>3. QED
      BY <3>2, FS_Singleton
  <2>3. \A a : {w \in units' \union UNION {shards'[r] : r \in DOMAIN shards'} : Topics(w) = Topics(a)}
              = {w \in AllUnits : Topics(w) = Topics(a)}
    BY <1>3 DEF AllUnits, InJobs
  <2> SUFFICES ASSUME NEW r \in DOMAIN shards'
               PROVE  /\ \A a \in shards'[r] : Cardinality(Topics(a)) = 1
                      /\ \A a, b \in shards'[r] : a # b /\ Topics(a) = Topics(b) =>
                            Cardinality({w \in units' \union UNION {shards'[q] : q \in DOMAIN shards'} : Topics(w) = Topics(a)})
                                > Cardinality(DOMAIN shards')
    BY DEF TopicsSpread
  <2>4. \A a, b \in shards'[r] : a # b /\ Topics(a) = Topics(b) => Crowded(a)
    BY <1>1, <2>1
  <2>5. QED
    BY <1>1, <2>2, <2>3, <2>4
<1>8. QED
  BY <1>4, <1>5, <1>6, <1>7 DEF PackHolds

--------------------------------------------------------------------------
\* Placing and naming.

\* A step that only moves on.
LEMMA NothingMoved ==
    ASSUME PackHolds, UNCHANGED packVars
    PROVE  NothingLost' /\ NothingTwice' /\ TopicsApart' /\ TopicsSpread' /\ NamesHold'
<1>1. AllUnits' = AllUnits /\ InJobs' = InJobs
  BY DEF packVars, AllUnits, InJobs
<1>2. NothingLost' /\ NothingTwice' /\ TopicsApart' /\ NamesHold'
  BY <1>1 DEF packVars, PackHolds, NothingLost, NothingTwice, TopicsApart, NamesHold
<1>3. TopicsSpread'
  BY DEF packVars, PackHolds, TopicsSpread
<1>4. QED
  BY <1>2, <1>3

LEMMA PlacedKeeps == ASSUME PackHolds, Placed PROVE PackHolds'
<1>1. pc = "place" /\ pc' = "name" /\ units = {} /\ UNCHANGED packVars
  BY DEF Placed
<1>2. PackShape' /\ StageHolds'
  BY <1>1 DEF packVars, PackHolds, PackShape, StageHolds, AllUnits, InJobs
<1>3. QED
  BY <1>1, <1>2, NothingMoved DEF PackHolds

LEMMA NamedKeeps == ASSUME PackHolds, Named PROVE PackHolds'
<1>1. pc = "name" /\ pc' = "done" /\ UNCHANGED packVars
  BY DEF Named
<1>2. PackShape' /\ StageHolds'
  BY <1>1 DEF packVars, PackHolds, PackShape, StageHolds, AllUnits, InJobs
<1>3. QED
  BY <1>1, <1>2, NothingMoved DEF PackHolds

(* Names *)
LEMMA SetOfNumbersHasMin == ASSUME NEW S \in SUBSET Nat, S # {} PROVE Min(S) \in S
<1>1. PICK a \in S : \A b \in S : a =< b
  BY LeastNat
<1>2. S \subseteq Int /\ \A b \in S : a <= b
  BY <1>1
<1>3. Min(S) = a
  BY <1>2, MinIs
<1>4. QED
  BY <1>3

LEMMA LabelTypes ==
    ASSUME PackHolds, NEW s \in DOMAIN shards, NEW u \in shards[s]
    PROVE  TopicOf(u) \in Nat /\ Part(u) \in Nat
<1>1. u \in AllUnits /\ u \in SUBSET Playbooks
  BY DEF AllUnits, InJobs, PackHolds, PackShape
<1>2. Topics(u) \in SUBSET Nat /\ Topics(u) # {}
  <2>1. Topics(u) # {}
    BY <1>1, TopicsOfOne DEF PackHolds, TopicsApart
  <2>2. QED
    BY <1>1, <2>1, ShardAssumption DEF Topics
<1>3. TopicOf(u) \in Nat
  BY <1>2, SetOfNumbersHasMin DEF TopicOf
<1>4. {v \in Siblings(u) : FirstNr(v) <= FirstNr(u)} \in SUBSET AllUnits
  BY DEF Siblings, AllUnits, InJobs
<1>5. Part(u) \in Nat
  BY <1>4, UnitsFinite, FS_CardinalityType DEF Part, PackHolds
<1>6. QED
  BY <1>3, <1>5

LEMMA LabelsTagged ==
    ASSUME PackHolds, NEW s \in DOMAIN shards
    PROVE  Tagged({Label(u) : u \in shards[s]})
<1> DEFINE L == {Label(u) : u \in shards[s]}
<1>1. IsFiniteSet(L)
  <2>1. IsFiniteSet(shards[s])
    BY UnitsFinite DEF PackHolds, AllUnits, InJobs
  <2> DEFINE f == [u \in shards[s] |-> Label(u)]
  <2>2. f \in Surjection(shards[s], L)
    BY DEF Surjection
  <2> HIDE DEF f, L
  <2>3. QED
    BY <2>1, <2>2, FS_Surjection
<1>2. ASSUME NEW u \in shards[s] PROVE Label(u) \in Seq(Int) /\ Label(u) # <<>>
  BY LabelTypes DEF Label
<1>3. ASSUME NEW u \in shards[s], NEW v \in shards[s],
             Label(u)[1] = Label(v)[1], Label(u)[Len(Label(u))] = Label(v)[Len(Label(v))]
      PROVE  Label(u) = Label(v)
  <2>1. TopicOf(u) = TopicOf(v)
    BY <1>3, LabelTypes DEF Label
  <2>2. Siblings(u) = Siblings(v)
    BY <2>1 DEF Siblings
  <2>3. QED
    BY <1>3, <2>1, <2>2, LabelTypes DEF Label
<1>4. QED
  BY <1>1, <1>2, <1>3 DEF Tagged

LEMMA CutIs ==
    ASSUME PackHolds, NEW s \in DOMAIN shards, shards[s] # {}
    PROVE  LET name == Cut(InOneLine({Label(u) : u \in shards[s]})) IN name \in Seq(Int) /\ Len(name) \in 1..MaxName
<1> DEFINE L == {Label(u) : u \in shards[s]}
           sorted == Sorted(L)
           whole == FlattenSeq(sorted)
<1>1. Tagged(L) /\ L # {}
  BY LabelsTagged
<1>2. whole \in Seq(Int) /\ Len(whole) \in Nat \ {0}
  <2>1. sorted \in Seq(L) /\ Len(sorted) = Cardinality(L) /\ Cardinality(L) # 0
    BY <1>1, SortedIs, FS_EmptySet DEF Tagged
  <2>2. L \subseteq Seq(Int) /\ <<>> \notin L
    BY <1>1 DEF Tagged
  <2> HIDE DEF L, sorted
  <2>3. sorted \in Seq(Seq(Int)) /\ sorted # <<>> /\ \A i \in 1..Len(sorted) : sorted[i] # <<>>
    BY <2>1, <2>2
  <2>4. QED
    BY <2>3, FlattenSome
<1>3. Cut(InOneLine(L)) = Cut(whole)
  BY DEF InOneLine
<1> HIDE DEF whole
<1>4. Cut(whole) \in Seq(Int) /\ Len(Cut(whole)) \in 1..MaxName
  BY <1>2, ShardAssumption DEF Cut, Mark
<1>5. QED
  BY <1>3, <1>4

LEMMA NumberedIs ==
    ASSUME NEW name \in Seq(Int), Len(name) \in 1..MaxName, NEW i \in Nat \ {0}
    PROVE  /\ Numbered(name, i) \in Seq(Int) /\ Len(Numbered(name, i)) \in 1..MaxName
           /\ i # 1 => Numbered(name, i)[Len(Numbered(name, i))] = -i
<1>1. CASE i = 1
  BY <1>1 DEF Numbered
<1>2. CASE i # 1
  <2> DEFINE marks == [j \in 1..(i - 2) |-> Mark(j + 1)]
             base == name \o marks
             m == Min({Len(base), MaxName - 1})
             front == SubSeq(base, 1, m)
  <2>1. i - 2 \in Nat /\ marks \in Seq(Int)
    <3>1. i - 2 \in Nat
      BY <1>2
    <3>2. \A j \in 1..(i - 2) : Mark(j + 1) \in Int
      BY DEF Mark
    <3>3. QED
      BY <3>1, <3>2
  <2>2. base \in Seq(Int) /\ Len(base) \in Nat
    BY <2>1
  <2> HIDE DEF base
  <2>3. m \in Nat /\ m <= Len(base) /\ m <= MaxName - 1
    <3>1. \A a, b \in Nat : Min({a, b}) = IF a <= b THEN a ELSE b
      <4> SUFFICES ASSUME NEW a \in Nat, NEW b \in Nat PROVE Min({a, b}) = IF a <= b THEN a ELSE b
        OBVIOUS
      <4> DEFINE c == IF a <= b THEN a ELSE b
      <4>1. c \in {a, b} /\ {a, b} \subseteq Int /\ \A x \in {a, b} : c <= x
        OBVIOUS
      <4> HIDE DEF c
      <4>2. Min({a, b}) = c
        BY <4>1, MinIs
      <4>3. QED
        BY <4>2 DEF c
    <3>2. MaxName - 1 \in Nat
      BY ShardAssumption
    <3>3. m = IF Len(base) <= MaxName - 1 THEN Len(base) ELSE MaxName - 1
      BY <2>2, <3>1, <3>2
    <3> HIDE DEF m
    <3>4. QED
      BY <2>2, <3>2, <3>3
  <2> HIDE DEF m
  <2>4. front \in Seq(Int) /\ Len(front) = m
    BY <2>2, <2>3
  <2>5. Numbered(name, i) = front \o <<-i>>
    BY <1>2 DEF Numbered, Mark, base, m
  <2> HIDE DEF front
  <2>6. QED
    BY <2>3, <2>4, <2>5, ShardAssumption
<1>3. QED
  BY <1>1, <1>2

--------------------------------------------------------------------------
\* Names, and every step of a packing.

\* There are more numbered forms of a name than jobs that have one.
LEMMA UnusedIs ==
    ASSUME NEW name \in Seq(Int), Len(name) \in 1..MaxName,
           NEW used, IsFiniteSet(used), Cardinality(used) < MaxShards
    PROVE  /\ Unused(name, used) \notin used
           /\ Unused(name, used) \in Seq(Int) /\ Len(Unused(name, used)) \in 1..MaxName
<1> DEFINE numbers == 1..(MaxShards + 1)
           free == {i \in numbers : Numbered(name, i) \notin used}
<1>1. free # {}
  <2> SUFFICES ASSUME free = {} PROVE FALSE
    OBVIOUS
  <2> DEFINE rest == 2..(MaxShards + 1)
             f == [i \in rest |-> Numbered(name, i)]
  <2>1. f \in [rest -> used]
    OBVIOUS
  <2>2. \A i \in rest : f[i][Len(f[i])] = -i
    BY NumberedIs
  <2>3. \A i, j \in rest : f[i] = f[j] => i = j
    <3> HIDE DEF f
    <3>1. \A i, j \in rest : f[i] = f[j] => -i = -j
      BY <2>2
    <3>2. QED
      BY <3>1
  <2>4. IsFiniteSet(rest) /\ Cardinality(rest) = MaxShards
    BY FS_Interval, ShardAssumption
  <2>5. Cardinality(used) \in Nat
    BY FS_CardinalityType
  <2> HIDE DEF f
  <2>6. f \in Injection(rest, used)
    BY <2>1, <2>3 DEF Injection, IsInjective
  <2>7. Cardinality(rest) <= Cardinality(used)
    BY <2>6, FS_Injection
  <2>8. QED
    BY <2>4, <2>5, <2>7, ShardAssumption
<1>2. PICK i \in free : \A j \in free : i =< j
  <2>1. free \in SUBSET Nat
    OBVIOUS
  <2> HIDE DEF free
  <2>2. QED
    BY <1>1, <2>1, LeastNat
<1>3. i \in numbers /\ Numbered(name, i) \notin used /\ \A j \in 1..(i - 1) : Numbered(name, j) \in used
  <2>1. \A j \in 1..(i - 1) : j \in numbers /\ ~(i =< j)
    BY ShardAssumption
  <2>2. QED
    BY <1>2, <2>1
<1> DEFINE chosen == CHOOSE k \in numbers :
                        Numbered(name, k) \notin used /\ \A j \in 1..(k - 1) : Numbered(name, j) \in used
<1>4. chosen \in numbers /\ Numbered(name, chosen) \notin used
  BY <1>3
<1>5. Unused(name, used) = Numbered(name, chosen)
  BY DEF Unused
<1> HIDE DEF chosen
<1>6. chosen \in Nat \ {0}
  BY <1>4, ShardAssumption
<1>7. QED
  BY <1>4, <1>5, <1>6, NumberedIs

LEMMA NameKeeps == ASSUME PackHolds, NEW s \in DOMAIN shards, Name(s) PROVE PackHolds'
<1> DEFINE labels == {Label(u) : u \in shards[s]}
           name == Cut(InOneLine(labels))
           used == {names[q] : q \in DOMAIN names}
           new == Unused(name, used)
<1>1. /\ pc = "name" /\ UNCHANGED <<pc, selected, target, todo, open, units, shards>>
      /\ s \notin DOMAIN names /\ shards[s] # {}
      /\ names' = [r \in DOMAIN names \union {s} |-> IF r = s THEN new ELSE names[r]]
  BY DEF Name, Jobs
<1>2. name \in Seq(Int) /\ Len(name) \in 1..MaxName
  BY <1>1, CutIs
<1>3. IsFiniteSet(used) /\ Cardinality(used) < MaxShards
  <2>1. DOMAIN names \in SUBSET (DOMAIN shards \ {s})
    BY <1>1 DEF PackHolds, NamesHold
  <2>2. IsFiniteSet(DOMAIN shards \ {s}) /\ Cardinality(DOMAIN shards \ {s}) = Cardinality(DOMAIN shards) - 1
    BY ShardSizes, FS_RemoveElement DEF PackHolds
  <2>3. IsFiniteSet(DOMAIN names) /\ Cardinality(DOMAIN names) <= Cardinality(DOMAIN shards \ {s})
    BY <2>1, <2>2, FS_Subset
  <2> DEFINE f == [q \in DOMAIN names |-> names[q]]
  <2>4. f \in Surjection(DOMAIN names, used)
    BY DEF Surjection
  <2> HIDE DEF f, used
  <2>5. IsFiniteSet(used) /\ Cardinality(used) <= Cardinality(DOMAIN names)
    BY <2>3, <2>4, FS_Surjection
  <2>6. Cardinality(used) \in Nat /\ Cardinality(DOMAIN names) \in Nat
    BY <2>3, <2>5, FS_CardinalityType
  <2>7. Cardinality(DOMAIN shards) \in Nat /\ Cardinality(DOMAIN shards) <= MaxShards
    BY ShardSizes DEF PackHolds
  <2>8. QED
    BY <2>2, <2>3, <2>5, <2>6, <2>7, ShardAssumption
<1> HIDE DEF name
<1>4. new \notin used /\ new \in Seq(Int) /\ Len(new) \in 1..MaxName
  <2> HIDE DEF used
  <2> QED
    BY <1>2, <1>3, UnusedIs
<1> HIDE DEF new
<1>5. NamesHold'
  <2>1. DOMAIN names' = DOMAIN names \union {s} /\ names'[s] = new
        /\ \A r \in DOMAIN names : names'[r] = names[r] /\ names'[r] # new
    BY <1>1, <1>4
  <2>2. DOMAIN names' \subseteq DOMAIN shards'
    BY <1>1, <2>1 DEF PackHolds, NamesHold
  <2>3. \A r \in DOMAIN names' : names'[r] \in Seq(Int) /\ Len(names'[r]) \in 1..MaxName
    BY <1>4, <2>1 DEF PackHolds, NamesHold
  <2>4. \A q, r \in DOMAIN names' : names'[q] = names'[r] => q = r
    BY <2>1 DEF PackHolds, NamesHold
  <2>5. QED
    BY <2>2, <2>3, <2>4 DEF NamesHold
<1>6. AllUnits' = AllUnits /\ InJobs' = InJobs
  BY <1>1 DEF AllUnits, InJobs
<1>7. PackShape' /\ StageHolds' /\ NothingLost' /\ NothingTwice' /\ TopicsApart'
  BY <1>1, <1>6 DEF PackHolds, PackShape, StageHolds, NothingLost, NothingTwice, TopicsApart
<1>8. TopicsSpread'
  BY <1>1 DEF PackHolds, TopicsSpread
<1>9. QED
  BY <1>5, <1>7, <1>8 DEF PackHolds

LEMMA PackStepKeeps == ASSUME PackHolds, PackNext PROVE PackHolds'
  BY ChunkKeeps, LastChunkKeeps, PlaceKeeps, PlacedKeeps, NameKeeps, NamedKeeps DEF PackNext

\* A call of router_shards, whatever was packed before.
LEMMA PackStarts ==
    ASSUME NEW ps \in SUBSET Playbooks, NEW t \in Nat \ {0}, Pack(ps, t) PROVE PackHolds'
<1>1. /\ selected' = ps /\ todo' = ps /\ open' = {} /\ units' = {} /\ names' = <<>>
      /\ pc' = IF ps = {} THEN "done" ELSE "chunk"
  BY DEF Pack
<1>2. /\ \E n \in 0..MaxShards : shards' \in [1..n -> SUBSET SUBSET ps]
      /\ \A s \in DOMAIN shards' : shards'[s] = {}
  <2>1. CASE ps = {}
    <3>1. shards' = <<>>
      BY <2>1 DEF Pack
    <3>2. shards' \in [1..0 -> SUBSET SUBSET ps] /\ DOMAIN shards' = {} /\ 0 \in 0..MaxShards
      BY <3>1, ShardAssumption
    <3>3. QED
      BY <3>2
  <2>2. CASE ps # {}
    <3>1. shards' = [i \in 1..ShardCount(ps, t) |-> {}]
      BY <2>2 DEF Pack
    <3>2. ShardCount(ps, t) \in 0..MaxShards
      BY ShardCountType, ShardAssumption
    <3>3. QED
      BY <3>1, <3>2
  <2>3. QED
    BY <2>1, <2>2
<1>3. InJobs' = {} /\ AllUnits' = {}
  BY <1>1, <1>2 DEF InJobs, AllUnits
<1>4. PackShape' /\ NothingLost' /\ NothingTwice' /\ TopicsApart' /\ StageHolds'
  BY <1>1, <1>2, <1>3 DEF PackShape, NothingLost, NothingTwice, TopicsApart, StageHolds
<1>5. TopicsSpread' /\ NamesHold'
  BY <1>1, <1>2 DEF TopicsSpread, NamesHold
<1>6. QED
  BY <1>4, <1>5 DEF PackHolds

LEMMA ShardTargetType == ASSUME NEW ps \in SUBSET Playbooks PROVE ShardTarget(ps) \in Nat \ {0}
<1>1. IsFiniteSet(ps) /\ Cardinality(ps) \in Nat /\ (ps # {} => Cardinality(ps) # 0)
  BY ShardAssumption, FS_Subset, FS_CardinalityType, FS_EmptySet
<1> DEFINE jobs == Min({MaxShards, Cardinality(ps)})
           share == CeilDiv(Weight(ps), jobs)
<1>2. ASSUME ps # {} PROVE Max({1, share}) \in Nat \ {0}
  <2>1. jobs \in Nat \ {0}
    <3>1. {MaxShards, Cardinality(ps)} \in SUBSET Nat
      BY <1>1, ShardAssumption
    <3>2. jobs \in {MaxShards, Cardinality(ps)}
      BY <3>1, SetOfNumbersHasMin
    <3>3. QED
      BY <1>1, <1>2, <3>2, ShardAssumption
  <2> HIDE DEF jobs
  <2>2. share \in Nat
    BY <2>1, WeightType DEF CeilDiv
  <2> HIDE DEF share
  <2> DEFINE P(x) == \A y \in {1, share} : x >= y
             m == IF share >= 1 THEN share ELSE 1
  <2>3. m \in {1, share} /\ P(m) /\ \A x \in {1, share} : P(x) => x = m
    BY <2>2
  <2> HIDE DEF P, m
  <2>4. (CHOOSE x \in {1, share} : P(x)) = m
    BY <2>3
  <2>5. QED
    BY <2>2, <2>4 DEF Max, P, m
<1>3. ShardTarget(ps) = IF ps = {} THEN 1 ELSE Max({1, share})
  BY DEF ShardTarget
<1> HIDE DEF share
<1>4. QED
  BY <1>2, <1>3

LEMMA PackingIsSound == PackHolds => JobsAreSound
<1> SUFFICES ASSUME PackHolds PROVE JobsAreSound
  OBVIOUS
<1>1. EachPlaybookOnce
  <2> SUFFICES ASSUME pc \in {"name", "done"}
               PROVE  /\ \A p \in selected : \E s \in DOMAIN shards :
                            RunsIn(p, s) /\ \A r \in DOMAIN shards : RunsIn(p, r) => r = s
                      /\ \A s \in DOMAIN shards : Content(shards[s]) \subseteq selected
    BY DEF EachPlaybookOnce
  <2>1. todo = {} /\ open = {} /\ AllUnits = InJobs
    BY DEF PackHolds, StageHolds, AllUnits
  <2>2. ASSUME NEW p \in selected
        PROVE  \E s \in DOMAIN shards : RunsIn(p, s) /\ \A r \in DOMAIN shards : RunsIn(p, r) => r = s
    <3>1. PICK u \in AllUnits : p \in u
      BY <2>1 DEF PackHolds, NothingLost
    <3>2. PICK s \in DOMAIN shards : u \in shards[s]
      BY <2>1, <3>1 DEF InJobs
    <3>3. ASSUME NEW r \in DOMAIN shards, RunsIn(p, r) PROVE r = s
      <4>1. PICK v \in shards[r] : p \in v
        BY <3>3 DEF RunsIn
      <4>2. v \in AllUnits
        BY <2>1 DEF InJobs
      <4>3. v = u
        BY <3>1, <4>1, <4>2 DEF PackHolds, NothingTwice
      <4>4. QED
        BY <3>2, <4>1, <4>3 DEF PackHolds, NothingTwice
    <3>4. QED
      BY <3>1, <3>2, <3>3 DEF RunsIn
  <2>3. \A s \in DOMAIN shards : Content(shards[s]) \subseteq selected
    BY DEF Content, PackHolds, PackShape, AllUnits, InJobs
  <2>4. QED
    BY <2>2, <2>3
<1>2. JobsTellApart
  BY ShardSizes DEF PackHolds, NamesHold, JobsTellApart
<1>3. QED
  BY <1>1, <1>2 DEF JobsAreSound, PackHolds

--------------------------------------------------------------------------
\* What a scope is and owes.

IsScope(s) == s.ansible \subseteq DOMAIN AnsibleTests /\ s.router \subseteq Matrix /\ s.full \in BOOLEAN
\* A selection that runs every test which looks at a path, before and after packing.
Tested(p, s) ==
    /\ \A d \in PytestFor(p) :
            IF d = "llm_router" THEN UNION s.router # {} ELSE "tests" \in s.pytest \/ d \in s.pytest
    /\ AnsibleFor(p) \subseteq s.ansible
    /\ PlaybooksFor(p) \subseteq UNION s.router
Settles(p, s) == (s.full \/ Tested(p, s))

(* The tables *)
LEMMA RoleTable ==
    /\ DOMAIN RoleTests = {"hermes_agent", "dify_docker", "llamaindex", "langflow_docker", "nvidia_gpu_guest", "vllm_serving"}
    /\ RoleTests["hermes_agent"] = {"hermes_agent"}
    /\ RoleTests["dify_docker"] = {} /\ RoleTests["llamaindex"] = {}
    /\ RoleTests["langflow_docker"] = {"agent_concurrency", "langflow_docker"}
    /\ RoleTests["nvidia_gpu_guest"] = GPUPytest /\ RoleTests["vllm_serving"] = GPUPytest
  BY DEF RoleTests

LEMMA ScopeTable ==
    TestScopes = {"hermes_agent", "agent_concurrency", "langflow_docker", "nvidia_gpu_guest", "llm_gpu_legacy",
                  "vllm_serving", "llm_router", "llm_model_campaign", "inventory_load", "repo_guards", "dify_docker",
                  "openbao_secrets", "llamaindex"}
<1>1. UNION {RoleTests[r] : r \in DOMAIN RoleTests}
        = {"hermes_agent", "agent_concurrency", "langflow_docker", "nvidia_gpu_guest", "llm_gpu_legacy", "vllm_serving"}
  <2>1. {RoleTests[r] : r \in DOMAIN RoleTests}
          = {RoleTests["hermes_agent"], RoleTests["dify_docker"], RoleTests["llamaindex"], RoleTests["langflow_docker"],
             RoleTests["nvidia_gpu_guest"], RoleTests["vllm_serving"]}
    BY RoleTable
  <2>2. {RoleTests[r] : r \in DOMAIN RoleTests}
          = {{"hermes_agent"}, {}, {"agent_concurrency", "langflow_docker"}, GPUPytest}
    BY <2>1, RoleTable
  <2>3. UNION {{"hermes_agent"}, {}, {"agent_concurrency", "langflow_docker"}, GPUPytest}
          = {"hermes_agent", "agent_concurrency", "langflow_docker"} \union GPUPytest
    OBVIOUS
  <2>4. QED
    BY <2>2, <2>3 DEF GPUPytest
<1> DEFINE U == UNION {RoleTests[r] : r \in DOMAIN RoleTests}
<1>2. TestScopes = U \union {"llm_router", "llm_model_campaign", "inventory_load", "repo_guards", "dify_docker",
                      "openbao_secrets", "llamaindex"}
  BY DEF TestScopes
<1> HIDE DEF U
<1>3. U = {"hermes_agent", "agent_concurrency", "langflow_docker", "nvidia_gpu_guest", "llm_gpu_legacy", "vllm_serving"}
  BY <1>1 DEF U
<1>4. QED
  BY <1>2, <1>3

LEMMA AnsibleTable ==
    /\ DOMAIN AnsibleTests = {"env_guards", "api_key_seed", "db_password", "hardening", "cache_only_sync", "render_host"}
    /\ AnsibleTests["env_guards"] = "repo_guards" /\ AnsibleTests["api_key_seed"] = "openbao_secrets"
    /\ AnsibleTests["db_password"] = "dify_docker" /\ AnsibleTests["hardening"] = "llamaindex"
    /\ AnsibleTests["cache_only_sync"] = "nvidia_gpu_guest" /\ AnsibleTests["render_host"] = "llm_gpu_legacy"
  BY DEF AnsibleTests

LEMMA AnsibleOwners ==
    /\ \A owners : AnsibleOf(owners) \subseteq DOMAIN AnsibleTests
    /\ AnsibleOf({"repo_guards"}) = {"env_guards"} /\ AnsibleOf({"inventory_load"}) = {}
    /\ \A t \in DOMAIN AnsibleTests : AnsibleTests[t] # "llm_router"
  BY AnsibleTable DEF AnsibleOf

LEMMA ScopeTypes ==
    /\ IsScope(Nothing) /\ IsScope(Inventory) /\ IsScope(SelectorChecks) /\ IsScope(Full) /\ Full.full
    /\ \A t : IsScope(Pytest(t)) /\ Pytest(t).pytest = t
    /\ \A t \in SUBSET DOMAIN AnsibleTests : IsScope(Ansible(t)) /\ Ansible(t).ansible = t
    /\ \A e \in SUBSET Matrix : IsScope(Router(e)) /\ Router(e).router = e
  BY DEF IsScope, Nothing, Inventory, SelectorChecks, Full, Pytest, Ansible, Router

LEMMA RoleScopeIs ==
    ASSUME NEW r
    PROVE  /\ IsScope(RoleScope(r))
           /\ r \in DOMAIN RoleTests => RoleTests[r] \subseteq RoleScope(r).pytest
           /\ AnsibleOf({r}) \subseteq RoleScope(r).ansible
           /\ r = "llm_router" => RoleScope(r).router = Matrix /\ "hermes_agent" \in RoleScope(r).pytest
<1> DEFINE pytest == (IF r \in DOMAIN RoleTests THEN RoleTests[r] ELSE {})
                     \union (IF r \in OtelConsumerRoles THEN {"otel_endpoint_consumers"} ELSE {})
                     \union (IF r = "llm_router" THEN {"llm_gpu_engine_roles", "hermes_agent"} ELSE {})
           ansible == AnsibleOf({r})
                      \union (IF r \in SeedRoles THEN {"api_key_seed"} ELSE {})
                      \union (IF r \in GPURoles THEN GPUAnsible ELSE {})
           router == IF r = "llm_router" THEN Matrix ELSE {}
<1>1. ansible \subseteq DOMAIN AnsibleTests /\ router \subseteq Matrix
  <2>1. {"api_key_seed"} \subseteq DOMAIN AnsibleTests
    BY AnsibleTable
  <2>2. QED
    BY <2>1, AnsibleOwners DEF GPUAnsible
<1>2. /\ RoleScope(r).pytest = pytest /\ RoleScope(r).ansible = ansible
      /\ RoleScope(r).router = router /\ RoleScope(r).full = FALSE
  BY DEF RoleScope, Nothing
<1>3. /\ r \in DOMAIN RoleTests => RoleTests[r] \subseteq pytest
      /\ AnsibleOf({r}) \subseteq ansible
      /\ r = "llm_router" => router = Matrix /\ "hermes_agent" \in pytest
  OBVIOUS
<1> HIDE DEF pytest, ansible, router
<1>4. QED
  BY <1>1, <1>2, <1>3 DEF IsScope

LEMMA AndIs ==
    ASSUME NEW a, NEW b, IsScope(a), IsScope(b)
    PROVE  /\ IsScope(And(a, b))
           /\ \A p : Settles(p, a) \/ Settles(p, b) => Settles(p, And(a, b))
<1>1. /\ a.pytest \union b.pytest = And(a, b).pytest /\ a.ansible \union b.ansible = And(a, b).ansible
      /\ a.router \union b.router = And(a, b).router
      /\ (a.full \/ b.full) <=> And(a, b).full
      /\ And(a, b).full \in BOOLEAN
  BY DEF And
<1>2. IsScope(And(a, b))
  BY <1>1 DEF IsScope
<1>3. ASSUME NEW p, Settles(p, a) \/ Settles(p, b) PROVE Settles(p, And(a, b))
  <2>1. CASE a.full \/ b.full
    BY <1>1, <2>1 DEF Settles
  <2>2. CASE Tested(p, a)
    BY <1>1, <2>2 DEF Settles, Tested
  <2>3. CASE Tested(p, b)
    BY <1>1, <2>3 DEF Settles, Tested
  <2>4. QED
    BY <1>3, <2>1, <2>2, <2>3 DEF Settles
<1>4. QED
  BY <1>2, <1>3

--------------------------------------------------------------------------
\* What the scopes of roles and readers run.

\* The directories of pytest files that look at a role.
TestsOf(o) ==
    (TestScopes \ Untied) \cap (IF o = "llm_router" THEN {"llm_router", "hermes_agent"} ELSE {o})
RunsThose(ds, s) ==
    \A d \in ds : IF d = "llm_router" THEN UNION s.router # {} ELSE "tests" \in s.pytest \/ d \in s.pytest

LEMMA RolesRunTheirTests ==
    ASSUME NEW o, o \in DOMAIN RoleTests \union {"llm_router"}
    PROVE  RunsThose(TestsOf(o), RoleScope(o))
<1>1. CASE o = "llm_router"
  <2>1. RoleScope(o).router = Matrix /\ "hermes_agent" \in RoleScope(o).pytest
    BY <1>1, RoleScopeIs
  <2>2. TestsOf(o) \subseteq {"llm_router", "hermes_agent"}
    BY <1>1 DEF TestsOf
  <2>3. QED
    BY <2>1, <2>2, ScopeAssumption DEF RunsThose
<1>2. CASE o \in DOMAIN RoleTests
  <2>1. o # "llm_router" /\ TestsOf(o) \subseteq {o} /\ o # "dify_docker" /\ o # "llamaindex" => o \in RoleTests[o]
    BY <1>2, RoleTable DEF GPUPytest
  <2>2. TestsOf(o) \subseteq {o} /\ o # "llm_router" /\ (o \in {"dify_docker", "llamaindex"} => TestsOf(o) = {})
    BY <1>2, RoleTable DEF TestsOf, Untied
  <2>3. RoleTests[o] \subseteq RoleScope(o).pytest
    BY <1>2, RoleScopeIs
  <2>4. QED
    BY <2>1, <2>2, <2>3 DEF RunsThose
<1>3. QED
  BY <1>1, <1>2

LEMMA FullTests == ASSUME NEW p, IsPath(p) PROVE Tested(p, FullSelection)
<1> DEFINE s == FullSelection
<1>1. s.pytest = {"tests"} /\ s.ansible = DOMAIN AnsibleTests /\ s.router = Matrix
  BY DEF FullSelection
<1> HIDE DEF s
<1>2. AnsibleFor(p) \subseteq DOMAIN AnsibleTests
  BY AnsibleOwners DEF AnsibleFor
<1>3. PlaybooksFor(p) \subseteq UNION Matrix
  BY ScopeAssumption DEF PlaybooksFor, InMatrix, EntriesWith
<1>4. QED
  BY <1>1, <1>2, <1>3, ScopeAssumption DEF Tested, s

\* What a path asks for, by what it is.
LEMMA RetiredAsksNothing ==
    ASSUME NEW p, IsPath(p), p.id \in RetiredTests
    PROVE  PytestFor(p) = {} /\ AnsibleFor(p) = {} /\ PlaybooksFor(p) = {}
<1>1. p.top = "tests" /\ p.kind = "yml" /\ p.owner = "langfuse_docker"
  BY DEF IsPath
<1>2. ~IsShared(p) /\ p.id \notin DOMAIN PlaybookOf /\ p.id \notin DOMAIN ImportedBy /\ p.id \notin DOMAIN AnsibleTests
  BY <1>1, ScopeTable, AnsibleTable DEF IsShared, IsPath
<1>3. QED
  BY <1>1, <1>2 DEF PytestFor, AnsibleFor, PlaybooksFor, InMatrix

LEMMA SharedAnswers ==
    ASSUME NEW p, IsPath(p), IsTest(p), IsShared(p)
    PROVE  IsScope(OwnerScope(p.owner)) /\ Settles(p, OwnerScope(p.owner))
<1> DEFINE o == p.owner
           s == OwnerScope(o)
<1>1. p.top = "tests" /\ o \in TestScopes /\ (~p.exists \/ p.helper)
  BY DEF IsTest, IsShared
<1>2. PytestFor(p) = TestsOf(o) /\ AnsibleFor(p) = AnsibleOf({o})
  BY <1>1 DEF PytestFor, TestsOf, AnsibleFor
<1>3. p.id \in DOMAIN PlaybookOf \union DOMAIN ImportedBy => o = "llm_router"
  BY DEF IsPath
<1>4. CASE o = "llm_router" \/ o \in DOMAIN RoleTests
  <2>1. s = RoleScope(o)
    BY <1>4 DEF OwnerScope
  <2>2. RunsThose(TestsOf(o), s) /\ AnsibleOf({o}) \subseteq s.ansible /\ IsScope(s)
    BY <1>4, <2>1, RolesRunTheirTests, RoleScopeIs
  <2>3. PlaybooksFor(p) \subseteq UNION s.router
    <3>1. CASE o = "llm_router"
      <4>1. s.router = Matrix
        BY <2>1, <3>1, RoleScopeIs
      <4>2. PlaybooksFor(p) \subseteq UNION Matrix
        BY ScopeAssumption DEF PlaybooksFor, InMatrix, EntriesWith
      <4>3. QED
        BY <4>1, <4>2
    <3>2. CASE o # "llm_router"
      BY <1>1, <1>3, <3>2 DEF PlaybooksFor, InMatrix
    <3>3. QED
      BY <3>1, <3>2
  <2> HIDE DEF s
  <2>4. QED
    BY <1>2, <2>2, <2>3 DEF Settles, Tested, RunsThose, s
<1>5. CASE ~(o = "llm_router" \/ o \in DOMAIN RoleTests)
  <2>1. PlaybooksFor(p) = {}
    BY <1>1, <1>3, <1>5 DEF PlaybooksFor, InMatrix
  <2>2. TestsOf(o) \subseteq {o} /\ (o \in {"inventory_load", "repo_guards"} => TestsOf(o) = {})
    BY <1>5 DEF TestsOf, Untied
  <2>3. IsScope(s) /\ AnsibleOf({o}) \subseteq s.ansible /\ (o \notin {"inventory_load", "repo_guards"} => o \in s.pytest)
    <3>1. CASE o = "inventory_load"
      BY <1>5, <3>1, AnsibleOwners, ScopeTypes DEF OwnerScope
    <3>2. CASE o = "repo_guards"
      <4>1. s = Ansible({"env_guards"}) /\ {"env_guards"} \subseteq DOMAIN AnsibleTests
        BY <1>5, <3>2, AnsibleTable DEF OwnerScope
      <4>2. QED
        BY <3>2, <4>1, AnsibleOwners, ScopeTypes
    <3>3. CASE o \notin {"inventory_load", "repo_guards"}
      <4>1. s = And(Pytest({o}), Ansible(AnsibleOf({o})))
        BY <1>5, <3>3 DEF OwnerScope
      <4>2. IsScope(Pytest({o})) /\ IsScope(Ansible(AnsibleOf({o})))
        BY AnsibleOwners, ScopeTypes
      <4>3. IsScope(s)
        BY <4>1, <4>2, AndIs
      <4>4. o \in s.pytest /\ AnsibleOf({o}) \subseteq s.ansible
        BY <4>1 DEF And, Pytest, Ansible
      <4>5. QED
        BY <4>3, <4>4
    <3>4. QED
      BY <3>1, <3>2, <3>3
  <2> HIDE DEF s
  <2>4. QED
    BY <1>2, <1>5, <2>1, <2>2, <2>3 DEF Settles, Tested, s
<1>6. QED
  BY <1>4, <1>5

--------------------------------------------------------------------------
\* One changed path, by its kind.

LEMMA RemovedAsksNothing ==
    ASSUME NEW p, IsPath(p), IsTest(p), ~IsShared(p), ~p.exists
    PROVE  PytestFor(p) = {} /\ AnsibleFor(p) = {} /\ PlaybooksFor(p) = {}
<1>1. p.top = "tests" /\ p.owner \notin TestScopes
  BY DEF IsTest, IsShared
<1>2. p.id \notin DOMAIN ImportedBy
  BY <1>1, ScopeTable DEF IsPath
<1>3. QED
  BY <1>1, <1>2 DEF PytestFor, AnsibleFor, PlaybooksFor, InMatrix

LEMMA OthersAskNothing ==
    ASSUME NEW p, IsPath(p), p.top \notin {"tests", "roles", "hermes_agent_group", "inventory", "llm-models.d"}
    PROVE  PytestFor(p) = {} /\ AnsibleFor(p) = {} /\ PlaybooksFor(p) = {}
<1>1. p.id \notin DOMAIN ImportedBy /\ p.id \notin DOMAIN PlaybookOf /\ p.id \notin DOMAIN AnsibleTests
  BY DEF IsPath
<1>2. QED
  BY <1>1 DEF PytestFor, AnsibleFor, PlaybooksFor, InMatrix

LEMMA NothingAsked ==
    ASSUME NEW p, PytestFor(p) = {}, AnsibleFor(p) = {}, PlaybooksFor(p) = {}
    PROVE  \A s : Settles(p, s)
  BY DEF Settles, Tested

LEMMA RouterTestAnswers ==
    ASSUME NEW p, IsPath(p), IsTest(p), ~IsShared(p), p.exists, p.owner = "llm_router", p.kind \in {"py", "yml"}
    PROVE  IsScope(RouterTestScope(p)) /\ Settles(p, RouterTestScope(p))
<1> DEFINE s == RouterTestScope(p)
<1>1. p.top = "tests" /\ ~p.helper
  BY ScopeTable DEF IsTest, IsShared
<1>2. AnsibleFor(p) = {}
  BY <1>1, AnsibleOwners DEF AnsibleFor, IsPath
<1>3. CASE p.kind = "py"
  <2>1. p.id \notin DOMAIN PlaybookOf /\ p.id \notin DOMAIN ImportedBy
    BY <1>3 DEF IsPath
  <2>2. PytestFor(p) = {"llm_router"} /\ PlaybooksFor(p) = {}
    BY <1>1, <1>3, <2>1 DEF PytestFor, OwnTest, PlaybooksFor, InMatrix
  <2>3. s = RoleScope("llm_router")
    BY <1>3 DEF RouterTestScope
  <2>4. IsScope(s) /\ s.router = Matrix
    BY <2>3, RoleScopeIs
  <2>5. QED
    BY <1>2, <2>2, <2>4, ScopeAssumption DEF Settles, Tested
<1>4. CASE p.kind = "yml"
  <2>1. PytestFor(p) = {}
    BY <1>1, <1>4 DEF PytestFor
  <2>2. PlaybooksFor(p) = IF InMatrix(p.id) THEN {PlaybookOf[p.id]}
                          ELSE IF p.id \in DOMAIN ImportedBy THEN UNION ImportedBy[p.id] ELSE {}
    BY <1>1 DEF PlaybooksFor
  <2>3. CASE InMatrix(p.id)
    <3>1. s = Router(EntriesWith(p.id)) /\ EntriesWith(p.id) \in SUBSET Matrix /\ PlaybookOf[p.id] \in UNION EntriesWith(p.id)
      BY <1>4, <2>3 DEF RouterTestScope, InMatrix, EntriesWith
    <3>2. IsScope(s) /\ s.router = EntriesWith(p.id)
      BY <3>1, ScopeTypes
    <3>3. QED
      BY <1>2, <2>1, <2>2, <2>3, <3>1, <3>2 DEF Settles, Tested
  <2>4. CASE ~InMatrix(p.id) /\ p.id \in DOMAIN ImportedBy
    <3>1. s = Router(ImportedBy[p.id]) /\ ImportedBy[p.id] \in SUBSET Matrix
      BY <1>4, <2>4, ScopeAssumption DEF RouterTestScope
    <3>2. IsScope(s) /\ s.router = ImportedBy[p.id]
      BY <3>1, ScopeTypes
    <3>3. QED
      BY <1>2, <2>1, <2>2, <2>4, <3>2 DEF Settles, Tested
  <2>5. CASE ~InMatrix(p.id) /\ p.id \notin DOMAIN ImportedBy
    BY <1>4, <2>5, ScopeTypes DEF RouterTestScope, Settles
  <2>6. QED
    BY <2>3, <2>4, <2>5
<1>5. QED
  BY <1>3, <1>4

LEMMA TestAnswers ==
    ASSUME NEW p, IsPath(p), IsTest(p), ~IsShared(p), p.exists
    PROVE  IsScope(TestFileScope(p)) /\ Settles(p, TestFileScope(p))
<1> DEFINE s == TestFileScope(p)
<1>1. CASE p.owner = "llm_router" /\ p.kind \in {"py", "yml"}
  BY <1>1, RouterTestAnswers DEF TestFileScope
<1>2. CASE p.owner # "llm_router"
  <2>1. p.top = "tests" /\ p.id \notin DOMAIN PlaybookOf /\ p.id \notin DOMAIN ImportedBy
    BY <1>2 DEF IsTest, IsPath
  <2>2. PlaybooksFor(p) = {}
    BY <2>1 DEF PlaybooksFor, InMatrix
  <2>3. CASE p.kind \in {"py", "dir"}
    <3>1. s = Pytest({p.id}) /\ PytestFor(p) \subseteq {p.id} /\ p.id # "llm_router" /\ p.id \notin DOMAIN AnsibleTests
      BY <1>2, <2>1, <2>3 DEF TestFileScope, PytestFor, OwnTest, IsPath
    <3>2. AnsibleFor(p) = {}
      BY <2>1, <3>1 DEF AnsibleFor
    <3>3. IsScope(s) /\ s.pytest = {p.id}
      BY <3>1, ScopeTypes
    <3>4. QED
      BY <2>2, <3>1, <3>2, <3>3 DEF Settles, Tested
  <2>4. CASE p.kind = "yml" /\ p.id \in DOMAIN AnsibleTests
    <3>1. s = Ansible({p.id}) /\ PytestFor(p) = {} /\ AnsibleFor(p) \subseteq {p.id}
      BY <1>2, <2>1, <2>4 DEF TestFileScope, PytestFor, AnsibleFor
    <3>2. IsScope(s) /\ s.ansible = {p.id}
      BY <2>4, <3>1, ScopeTypes
    <3>3. QED
      BY <2>2, <3>1, <3>2 DEF Settles, Tested
  <2>5. CASE p.kind \notin {"py", "dir"} /\ ~(p.kind = "yml" /\ p.id \in DOMAIN AnsibleTests)
    BY <1>2, <2>5, ScopeTypes DEF TestFileScope, Settles
  <2>6. QED
    BY <2>3, <2>4, <2>5
<1>3. CASE p.owner = "llm_router" /\ p.kind \notin {"py", "yml"}
  <2>1. p.kind # "dir"
    BY <1>3 DEF IsPath
  <2>2. QED
    BY <1>3, <2>1, ScopeTypes DEF TestFileScope, Settles
<1>4. QED
  BY <1>1, <1>2, <1>3

LEMMA RoleAnswers ==
    ASSUME NEW p, IsPath(p), p.top = "roles"
    PROVE  IsScope(RolePathScope(p)) /\ Settles(p, RolePathScope(p))
<1> DEFINE o == p.owner
<1>1. CASE o \in DOMAIN RoleTests \union {"llm_router"}
  <2>1. RolePathScope(p) = RoleScope(o)
    BY <1>1 DEF RolePathScope
  <2>2. p.id \notin DOMAIN PlaybookOf /\ p.id \notin DOMAIN ImportedBy /\ p.id \notin DOMAIN AnsibleTests
    BY DEF IsPath
  <2>3. PytestFor(p) = TestsOf(o) /\ AnsibleFor(p) = AnsibleOf({o})
    BY <2>2 DEF PytestFor, AnsibleFor, TestsOf
  <2>4. PlaybooksFor(p) \subseteq UNION RoleScope(o).router
    <3>1. CASE o = "llm_router"
      <4>1. RoleScope(o).router = Matrix
        BY <3>1, RoleScopeIs
      <4>2. PlaybooksFor(p) \subseteq UNION Matrix
        BY <2>2 DEF PlaybooksFor, InMatrix
      <4>3. QED
        BY <4>1, <4>2
    <3>2. CASE o # "llm_router"
      BY <1>1, <2>2, <3>2 DEF PlaybooksFor, InMatrix
    <3>3. QED
      BY <3>1, <3>2
  <2>5. RunsThose(TestsOf(o), RoleScope(o)) /\ AnsibleOf({o}) \subseteq RoleScope(o).ansible /\ IsScope(RoleScope(o))
    BY <1>1, RolesRunTheirTests, RoleScopeIs
  <2>6. QED
    BY <2>1, <2>3, <2>4, <2>5 DEF Settles, Tested, RunsThose
<1>2. CASE o \notin DOMAIN RoleTests \union {"llm_router"}
  BY <1>2, ScopeTypes DEF RolePathScope, Settles
<1>3. QED
  BY <1>1, <1>2

LEMMA ModelsAnswer ==
    ASSUME NEW p, IsPath(p), p.top = "llm-models.d"
    PROVE  IsScope(ModelsScope) /\ Settles(p, ModelsScope)
<1> DEFINE more == [Nothing EXCEPT !.pytest = GPUPytest \union {"llm_model_campaign", "hermes_agent"},
                                   !.ansible = GPUAnsible, !.selector = TRUE]
<1>1. IsScope(more)
  BY AnsibleOwners DEF IsScope, Nothing, GPUAnsible
<1>2. ModelsScope = And(RoleScope("llm_router"), more)
  BY DEF ModelsScope
<1>3. IsScope(ModelsScope)
  <2> HIDE DEF more
  <2> QED
    BY <1>1, <1>2, AndIs, RoleScopeIs
<1>4. Matrix \subseteq ModelsScope.router
  <2>1. RoleScope("llm_router").router = Matrix
    BY RoleScopeIs
  <2> HIDE DEF more
  <2>2. QED
    BY <1>2, <2>1 DEF And
<1>5. PytestFor(p) = {} /\ AnsibleFor(p) = {} /\ PlaybooksFor(p) = UNION Matrix
  <2>1. p.id \notin DOMAIN AnsibleTests
    BY DEF IsPath
  <2>2. QED
    BY <2>1 DEF PytestFor, AnsibleFor, PlaybooksFor
<1>6. QED
  BY <1>3, <1>4, <1>5 DEF Settles, Tested

LEMMA ReadersAnswer ==
    ASSUME NEW p, IsPath(p), p.top = "hermes_agent_group"
    PROVE  IsScope(ReadersScope) /\ Settles(p, ReadersScope)
<1> DEFINE each == {OneTest(t) : t \in Readers}
           all == Together(each)
           first == And(RoleScope("hermes_agent"), Inventory)
<1>1. ASSUME NEW t \in Readers
      PROVE  IsScope(OneTest(t)) /\ (t.kind = "py" => t.id \in OneTest(t).pytest)
  <2>1. IsPath(t) /\ (t.kind = "py" => ~InMatrix(t.id))
    BY ScopeAssumption DEF IsPath, InMatrix
  <2>2. CASE InMatrix(t.id)
    <3>1. OneTest(t) = Router(EntriesWith(t.id)) /\ EntriesWith(t.id) \in SUBSET Matrix
      BY <2>2 DEF OneTest, EntriesWith
    <3>2. QED
      BY <2>1, <2>2, <3>1, ScopeTypes
  <2>3. CASE ~InMatrix(t.id) /\ t.kind = "py"
    <3>1. OneTest(t) = Pytest({t.id})
      BY <2>3 DEF OneTest
    <3>2. QED
      BY <3>1, ScopeTypes
  <2>4. CASE ~InMatrix(t.id) /\ t.kind # "py" /\ t.id \in DOMAIN AnsibleTests
    <3>1. OneTest(t) = Ansible({t.id}) /\ {t.id} \in SUBSET DOMAIN AnsibleTests
      BY <2>4 DEF OneTest
    <3>2. QED
      BY <2>4, <3>1, ScopeTypes
  <2>5. CASE ~InMatrix(t.id) /\ t.kind # "py" /\ t.id \notin DOMAIN AnsibleTests
    BY <2>5, ScopeTypes DEF OneTest
  <2>6. QED
    BY <2>2, <2>3, <2>4, <2>5
<1>2. /\ all.pytest = UNION {s.pytest : s \in each} /\ all.ansible = UNION {s.ansible : s \in each}
      /\ all.router = UNION {s.router : s \in each} /\ all.full \in BOOLEAN
  BY DEF Together
<1>3. \A s \in each : IsScope(s)
  BY <1>1
<1>4. \A t \in Readers : t.kind = "py" => t.id \in all.pytest
  BY <1>1, <1>2
<1>5. IsScope(all)
  <2> HIDE DEF each, all
  <2> QED
    BY <1>2, <1>3 DEF IsScope
<1>6. ReadersScope = And(first, all)
  BY DEF ReadersScope
<1> HIDE DEF each, all
<1>7. IsScope(ReadersScope)
  <2>1. IsScope(first)
    BY AndIs, RoleScopeIs, ScopeTypes
  <2> HIDE DEF first
  <2>2. QED
    BY <1>5, <1>6, <2>1, AndIs
<1>8. all.pytest \subseteq ReadersScope.pytest
  <2> HIDE DEF first
  <2> QED
    BY <1>6 DEF And
<1>9. /\ PytestFor(p) \subseteq {t.id : t \in {r \in Readers : r.kind = "py"}}
      /\ AnsibleFor(p) = {} /\ PlaybooksFor(p) = {}
  <2>1. p.id \notin DOMAIN PlaybookOf /\ p.id \notin DOMAIN ImportedBy /\ p.id \notin DOMAIN AnsibleTests
    BY DEF IsPath
  <2>2. QED
    BY <2>1 DEF PytestFor, AnsibleFor, PlaybooksFor, InMatrix
<1>10. \A d \in PytestFor(p) : d # "llm_router" /\ d \in ReadersScope.pytest
  BY <1>4, <1>8, <1>9, ScopeAssumption DEF IsPath
<1>11. QED
  BY <1>7, <1>9, <1>10 DEF Settles, Tested

--------------------------------------------------------------------------
\* The invariant of a selection, and the theorems.

(* The selection *)
\* What is looked at is tested by what is selected, and the jobs are the selection's.
SelectionHolds ==
    /\ changed \in Changes /\ left \subseteq changed /\ IsScope(sel)
    /\ pc = "select" => \A p \in changed \ left : Settles(p, sel)
    /\ pc # "select" => selected = UNION sel.router /\ \A p \in changed : Tested(p, sel)
ScopeInvariant == PackHolds /\ SelectionHolds

LEMMA TakeAnswers ==
    ASSUME NEW p, IsPath(p), Take(p)
    PROVE  \E scope : IsScope(scope) /\ Settles(p, scope) /\ Add(p, scope)
<1> DEFINE Settled(scope) == IsScope(scope) /\ Settles(p, scope) /\ Add(p, scope)
<1>1. CASE TakeRetired(p)
  <2>1. Settled(Nothing)
    BY <1>1, RetiredAsksNothing, NothingAsked, ScopeTypes DEF TakeRetired
  <2>2. QED
    BY <2>1
<1>2. CASE TakeShared(p)
  BY <1>2, SharedAnswers DEF TakeShared
<1>3. CASE TakeRemoved(p)
  <2>1. Settled(Nothing)
    BY <1>3, RemovedAsksNothing, NothingAsked, ScopeTypes DEF TakeRemoved
  <2>2. QED
    BY <2>1
<1>4. CASE TakeTest(p)
  BY <1>4, TestAnswers DEF TakeTest
<1>5. CASE TakeRole(p)
  BY <1>5, RoleAnswers DEF TakeRole
<1>6. CASE TakeModels(p)
  BY <1>6, ModelsAnswer DEF TakeModels
<1>7. CASE TakeHermesVars(p)
  BY <1>7, ReadersAnswer DEF TakeHermesVars
<1>8. CASE TakeShareable(p)
  BY <1>8, ScopeTypes DEF TakeShareable, Settles
<1>9. CASE \/ TakeRouterFixture(p) \/ TakeInventoryTest(p) \/ TakeMolecule(p) \/ TakeScript(p) \/ TakeRenovate(p)
           \/ TakeRouterWorkflow(p) \/ TakeWorkflow(p) \/ TakeDoc(p) \/ TakeUnknown(p)
  <2>1. p.top \notin {"tests", "roles", "hermes_agent_group", "inventory", "llm-models.d"}
    BY <1>9 DEF TakeRouterFixture, TakeInventoryTest, TakeMolecule, TakeScript, TakeRenovate,
                TakeRouterWorkflow, TakeWorkflow, TakeDoc, TakeUnknown
  <2>2. \A s : Settles(p, s)
    BY <2>1, OthersAskNothing, NothingAsked
  <2>3. \E scope : IsScope(scope) /\ Add(p, scope)
    <3>1. IsScope(RoleScope("llm_router")) /\ IsScope(RoleScope("hermes_agent"))
      BY RoleScopeIs
    <3>2. /\ IsScope(And(RoleScope("llm_router"), SelectorChecks))
          /\ IsScope(And(SelectorChecks, Pytest(SelectorTests)))
      BY <3>1, AndIs, ScopeTypes
    <3>3. CASE TakeRouterFixture(p)
      BY <3>1, <3>3 DEF TakeRouterFixture
    <3>4. CASE TakeInventoryTest(p)
      BY <3>4, ScopeTypes DEF TakeInventoryTest
    <3>5. CASE TakeMolecule(p)
      BY <3>5, ScopeTypes DEF TakeMolecule
    <3>6. CASE TakeScript(p)
      BY <3>1, <3>2, <3>6, ScopeTypes DEF TakeScript
    <3>7. CASE TakeRenovate(p)
      BY <3>7, ScopeTypes DEF TakeRenovate
    <3>8. CASE TakeRouterWorkflow(p)
      BY <3>2, <3>8 DEF TakeRouterWorkflow
    <3>9. CASE TakeWorkflow(p)
      BY <3>2, <3>9 DEF TakeWorkflow
    <3>10. CASE TakeDoc(p)
      BY <3>10, ScopeTypes DEF TakeDoc
    <3>11. CASE TakeUnknown(p)
      BY <3>11, ScopeTypes DEF TakeUnknown
    <3>12. QED
      BY <1>9, <3>3, <3>4, <3>5, <3>6, <3>7, <3>8, <3>9, <3>10, <3>11
  <2>4. QED
    BY <2>2, <2>3
<1>10. QED
  BY <1>1, <1>2, <1>3, <1>4, <1>5, <1>6, <1>7, <1>8, <1>9 DEF Take

LEMMA ChangedArePaths == ASSUME SelectionHolds, NEW p \in changed PROVE IsPath(p)
  BY ScopeAssumption DEF SelectionHolds

LEMMA TakeKeeps == ASSUME ScopeInvariant, NEW p \in left, Take(p) PROVE ScopeInvariant'
<1>1. p \in changed /\ IsPath(p)
  BY ChangedArePaths DEF ScopeInvariant, SelectionHolds
<1>2. PICK scope : IsScope(scope) /\ Settles(p, scope) /\ Add(p, scope)
  BY <1>1, TakeAnswers
<1> DEFINE extra == IF p.id \in DOMAIN PytestPathTargets THEN Pytest({PytestPathTargets[p.id]}) ELSE Nothing
           both == And(scope, extra)
<1>3. /\ pc = "select" /\ left' = left \ {p} /\ sel' = And(sel, both)
      /\ UNCHANGED <<pc, packVars, changed>>
  BY <1>2 DEF Add
<1>4. IsScope(extra)
  BY ScopeTypes
<1> HIDE DEF extra
<1>5. IsScope(both) /\ Settles(p, both)
  BY <1>2, <1>4, AndIs
<1> HIDE DEF both
<1>6. IsScope(sel') /\ Settles(p, sel') /\ \A q : Settles(q, sel) => Settles(q, sel')
  BY <1>3, <1>5, AndIs DEF ScopeInvariant, SelectionHolds
<1>7. SelectionHolds'
  BY <1>3, <1>6 DEF ScopeInvariant, SelectionHolds
<1>8. PackHolds'
  <2>1. PackShape' /\ StageHolds'
    BY <1>3 DEF packVars, ScopeInvariant, PackHolds, PackShape, StageHolds, AllUnits, InJobs
  <2>2. QED
    BY <1>3, <2>1, NothingMoved DEF ScopeInvariant, PackHolds
<1>9. QED
  BY <1>7, <1>8 DEF ScopeInvariant

LEMMA FinishKeeps == ASSUME ScopeInvariant, Finish PROVE ScopeInvariant'
<1> DEFINE ps == UNION sel'.router
           t == ShardTarget(UNION Matrix)
<1>1. /\ pc = "select" /\ left = {} /\ sel' = (IF sel.full THEN FullSelection ELSE sel)
      /\ Pack(ps, t) /\ UNCHANGED <<changed, left>>
  BY DEF Finish
<1>2. IsScope(sel')
  BY <1>1 DEF ScopeInvariant, SelectionHolds, IsScope, FullSelection
<1>3. ps \in SUBSET Playbooks /\ t \in Nat \ {0}
  BY <1>2, ScopeAssumption, ShardTargetType DEF IsScope
<1>4. PackHolds' /\ pc' # "select" /\ selected' = ps
  <2> HIDE DEF ps, t
  <2>1. PackHolds'
    BY <1>1, <1>3, PackStarts
  <2>2. QED
    BY <1>1, <2>1 DEF Pack
<1>5. ASSUME NEW p \in changed PROVE Tested(p, sel')
  <2>1. CASE sel.full
    BY <1>1, <1>5, <2>1, ChangedArePaths, FullTests DEF ScopeInvariant
  <2>2. CASE ~sel.full
    <3>1. Tested(p, sel)
      BY <1>1, <2>2 DEF ScopeInvariant, SelectionHolds, Settles
    <3>2. sel' = sel
      BY <1>1, <2>2
    <3>3. QED
      BY <3>1, <3>2
  <2>3. QED
    BY <2>1, <2>2
<1>6. SelectionHolds'
  BY <1>1, <1>2, <1>4, <1>5 DEF ScopeInvariant, SelectionHolds
<1>7. QED
  BY <1>4, <1>6 DEF ScopeInvariant

LEMMA PackingKeeps ==
    ASSUME ScopeInvariant, PackNext, UNCHANGED <<changed, left, sel>> PROVE ScopeInvariant'
<1>1. PackHolds'
  BY PackStepKeeps DEF ScopeInvariant
<1>2. pc # "select" /\ pc' # "select" /\ selected' = selected
  BY DEF PackNext, Chunk, LastChunk, Place, Placed, Name, Named, packVars
<1>3. SelectionHolds'
  BY <1>2 DEF ScopeInvariant, SelectionHolds
<1>4. QED
  BY <1>1, <1>3 DEF ScopeInvariant

LEMMA ScopeStarts == Init => ScopeInvariant
<1> SUFFICES ASSUME Init PROVE ScopeInvariant
  OBVIOUS
<1>1. /\ pc = "select" /\ selected = {} /\ todo = {} /\ open = {} /\ units = {} /\ shards = <<>> /\ names = <<>>
      /\ changed \in Changes /\ left = changed /\ sel = Nothing
  BY DEF Init, NoPacking
<1>2. InJobs = {} /\ AllUnits = {}
  BY <1>1 DEF InJobs, AllUnits
<1>3. PackShape
  <2>1. shards \in [1..0 -> SUBSET SUBSET selected] /\ 0 \in 0..MaxShards
    BY <1>1, ShardAssumption
  <2>2. QED
    BY <1>1, <1>2, <2>1 DEF PackShape
<1>4. NothingLost /\ NothingTwice /\ TopicsApart /\ StageHolds /\ TopicsSpread /\ NamesHold
  BY <1>1, <1>2 DEF NothingLost, NothingTwice, TopicsApart, StageHolds, TopicsSpread, NamesHold
<1>5. SelectionHolds
  BY <1>1, ScopeTypes DEF SelectionHolds
<1>6. QED
  BY <1>3, <1>4, <1>5 DEF ScopeInvariant, PackHolds

LEMMA ScopeSteps == ScopeInvariant /\ [Next]_vars => ScopeInvariant'
<1> SUFFICES ASSUME ScopeInvariant, [Next]_vars PROVE ScopeInvariant'
  OBVIOUS
<1>1. CASE UNCHANGED vars
  <2>1. UNCHANGED <<pc, packVars, changed, left, sel>>
    BY <1>1 DEF vars
  <2>2. PackShape' /\ StageHolds'
    BY <2>1 DEF packVars, ScopeInvariant, PackHolds, PackShape, StageHolds, AllUnits, InJobs
  <2>3. PackHolds'
    BY <2>1, <2>2, NothingMoved DEF ScopeInvariant, PackHolds
  <2>4. SelectionHolds'
    BY <2>1 DEF packVars, ScopeInvariant, SelectionHolds
  <2>5. QED
    BY <2>3, <2>4 DEF ScopeInvariant
<1>2. QED
  BY <1>1, TakeKeeps, FinishKeeps, PackingKeeps DEF Next

\* The induction behind the two theorems that follow.
THEOREM ScopeSafe == Spec => []ScopeInvariant
<1>1. QED
  BY ScopeStarts, ScopeSteps, PTL DEF Spec

\* Of every change to any repository laid out as IsPath says, the jobs that come out run
\* each selected playbook exactly once, keep playbooks of one topic apart as far as there
\* are jobs, and have names and a number within their limits (router_shards.py, lines 53-119).
THEOREM JobsStaySound == Spec => []JobsAreSound
<1>1. ScopeInvariant => JobsAreSound
  BY PackingIsSound DEF ScopeInvariant
<1>2. QED
  BY <1>1, ScopeSafe, PTL

\* What a path asks of the generic pytest job is nothing that the job drops.
LEMMA AskedAreRun ==
    ASSUME NEW p, IsPath(p), NEW d \in PytestFor(p), d # "llm_router"
    PROVE  d \notin LeftOut
<1>1. NamedTargets \cap LeftOut = {"llm_router"} /\ \A t \in Readers : IsPath(t)
  BY ScopeAssumption
<1>2. CASE d \in TestScopes
  BY <1>1, <1>2 DEF NamedTargets
<1>3. CASE d \notin TestScopes
  <2>1. \/ p.top = "tests" /\ p.kind \in {"py", "dir"} /\ d \in OwnTest(p)
        \/ d \in {t.id : t \in {r \in Readers : r.kind = "py" /\ r.owner \notin LeftOutDirs}}
    BY <1>3 DEF PytestFor
  <2>2. CASE p.top = "tests" /\ p.kind \in {"py", "dir"} /\ d \in OwnTest(p)
    BY <2>2 DEF OwnTest, IsPath
  <2>3. CASE d \in {t.id : t \in {r \in Readers : r.kind = "py" /\ r.owner \notin LeftOutDirs}}
    <3>1. PICK t \in Readers : t.kind = "py" /\ t.owner \notin LeftOutDirs /\ d = t.id
      BY <2>3
    <3>2. t.top = "tests"
      BY ScopeAssumption
    <3>3. QED
      BY <1>1, <3>1, <3>2 DEF IsPath
  <2>4. QED
    BY <2>1, <2>2, <2>3
<1>4. QED
  BY <1>2, <1>3

\* Whatever paths a change touches, and in whatever order they are looked at, every test
\* that looks at one of them is run: its pytest target by the job that does not drop it, its
\* Ansible test and its playbook in a job that stands (select-contract-scope.py, lines
\* 162-316; _data-contract.yml, line 326).  The kinds of tests that no job runs are those
\* that PytestFor leaves out.
THEOREM NothingGoesUntested == Spec => []NothingUntested
<1>1. ScopeInvariant => NothingUntested
  <2> SUFFICES ASSUME ScopeInvariant, pc = "done", NEW p \in changed
               PROVE  /\ \A d \in PytestFor(p) : RunsPytest(d)
                      /\ AnsibleFor(p) \subseteq sel.ansible
                      /\ \A b \in PlaybooksFor(p) : RunsPlaybook(b)
    BY DEF NothingUntested
  <2>1. Tested(p, sel) /\ selected = UNION sel.router
    BY DEF ScopeInvariant, SelectionHolds
  <2>2. \A b \in selected : \E s \in DOMAIN shards : RunsIn(b, s)
    BY PackingIsSound DEF ScopeInvariant, JobsAreSound, EachPlaybookOnce
  <2>3. \A b \in PlaybooksFor(p) : RunsPlaybook(b)
    BY <2>1, <2>2 DEF Tested, RunsPlaybook
  <2>4. ASSUME NEW d \in PytestFor(p) PROVE RunsPytest(d)
    <3>1. CASE d = "llm_router"
      BY <2>1, <2>2, <3>1 DEF Tested, RunsPytest
    <3>2. CASE d # "llm_router"
      <4>1. d \notin LeftOut /\ "tests" \notin LeftOut
        BY <2>4, <3>2, AskedAreRun, ChangedArePaths, ScopeAssumption DEF ScopeInvariant, NamedTargets
      <4>2. QED
        BY <2>1, <3>2, <4>1 DEF Tested, RunsPytest, JobTargets
    <3>3. QED
      BY <3>1, <3>2
  <2>5. AnsibleFor(p) \subseteq sel.ansible
    BY <2>1 DEF Tested
  <2>6. QED
    BY <2>3, <2>4, <2>5
<1>2. QED
  BY <1>1, ScopeSafe, PTL

--------------------------------------------------------------------------
\* Types.

(* What pytest is given *)
LEMMA RolesHaveTargets == ASSUME NEW r PROVE RoleScope(r).pytest \subseteq PytestTargets
<1> DEFINE own == IF r \in DOMAIN RoleTests THEN RoleTests[r] ELSE {}
           pytest == own \union (IF r \in OtelConsumerRoles THEN {"otel_endpoint_consumers"} ELSE {})
                     \union (IF r = "llm_router" THEN {"llm_gpu_engine_roles", "hermes_agent"} ELSE {})
<1>1. RoleScope(r).pytest = pytest
  BY DEF RoleScope, Nothing
<1>2. own \subseteq TestScopes
  BY RoleTable, ScopeTable DEF GPUPytest
<1>3. "hermes_agent" \in TestScopes
  BY ScopeTable
<1> HIDE DEF own
<1>4. QED
  BY <1>1, <1>2, <1>3 DEF PytestTargets, NamedTargets

LEMMA TogetherHasTargets ==
    ASSUME NEW a, NEW b, a.pytest \subseteq PytestTargets, b.pytest \subseteq PytestTargets
    PROVE  And(a, b).pytest \subseteq PytestTargets
  BY DEF And

LEMMA PlainTargets ==
    /\ Nothing.pytest = {} /\ Inventory.pytest = {} /\ SelectorChecks.pytest = {} /\ Full.pytest = {}
    /\ \A t : Pytest(t).pytest = t /\ Ansible(t).pytest = {} /\ Router(t).pytest = {}
  BY DEF Nothing, Inventory, SelectorChecks, Full, Pytest, Ansible, Router

LEMMA OwnersHaveTargets == ASSUME NEW o \in TestScopes PROVE OwnerScope(o).pytest \subseteq PytestTargets
<1>1. Pytest({o}).pytest \subseteq PytestTargets /\ Ansible(AnsibleOf({o})).pytest \subseteq PytestTargets
  BY PlainTargets DEF PytestTargets, NamedTargets
<1>2. And(Pytest({o}), Ansible(AnsibleOf({o}))).pytest \subseteq PytestTargets
  BY <1>1, TogetherHasTargets
<1>3. QED
  BY <1>2, PlainTargets, RolesHaveTargets DEF OwnerScope

LEMMA TestsHaveTargets ==
    ASSUME NEW p \in Readers \union changed
    PROVE  TestFileScope(p).pytest \subseteq PytestTargets /\ OneTest(p).pytest \subseteq PytestTargets
<1>1. Pytest({p.id}).pytest \subseteq PytestTargets
  BY PlainTargets DEF PytestTargets, NamedTargets
<1>2. RouterTestScope(p).pytest \subseteq PytestTargets
  BY PlainTargets, RolesHaveTargets DEF RouterTestScope
<1>3. QED
  BY <1>1, <1>2, PlainTargets DEF TestFileScope, OneTest

LEMMA ModelsHaveTargets == ModelsScope.pytest \subseteq PytestTargets
<1> DEFINE more == [Nothing EXCEPT !.pytest = GPUPytest \union {"llm_model_campaign", "hermes_agent"},
                                   !.ansible = GPUAnsible, !.selector = TRUE]
<1>1. more.pytest = GPUPytest \union {"llm_model_campaign", "hermes_agent"}
  BY DEF Nothing
<1>2. more.pytest \subseteq TestScopes
  BY <1>1, ScopeTable DEF GPUPytest
<1> HIDE DEF more
<1>3. more.pytest \subseteq PytestTargets
  BY <1>2 DEF PytestTargets, NamedTargets
<1>4. And(RoleScope("llm_router"), more).pytest \subseteq PytestTargets
  BY <1>3, RolesHaveTargets, TogetherHasTargets
<1>5. QED
  BY <1>4 DEF ModelsScope, more

LEMMA ReadersHaveTargets == ReadersScope.pytest \subseteq PytestTargets
<1> DEFINE all == Together({OneTest(t) : t \in Readers})
           first == And(RoleScope("hermes_agent"), Inventory)
<1>1. all.pytest = UNION {s.pytest : s \in {OneTest(t) : t \in Readers}}
  BY DEF Together
<1>2. all.pytest \subseteq PytestTargets
  BY <1>1, TestsHaveTargets
<1>3. Inventory.pytest \subseteq PytestTargets
  BY PlainTargets
<1>4. first.pytest \subseteq PytestTargets
  BY <1>3, RolesHaveTargets, TogetherHasTargets
<1> HIDE DEF all, first
<1>5. And(first, all).pytest \subseteq PytestTargets
  BY <1>2, <1>4, TogetherHasTargets
<1>6. QED
  BY <1>5 DEF ReadersScope, all, first

LEMMA TakeHasTargets ==
    ASSUME NEW p \in changed, Take(p)
    PROVE  \E scope : scope.pytest \subseteq PytestTargets /\ Add(p, scope)
<1>1. \A r : RoleScope(r).pytest \subseteq PytestTargets
  BY RolesHaveTargets
<1>2. /\ Nothing.pytest \subseteq PytestTargets /\ Inventory.pytest \subseteq PytestTargets
      /\ SelectorChecks.pytest \subseteq PytestTargets /\ Full.pytest \subseteq PytestTargets
      /\ Pytest({"test_run_ansible_runner"}).pytest \subseteq PytestTargets
      /\ Pytest(SelectorTests).pytest \subseteq PytestTargets
  BY PlainTargets DEF PytestTargets, NamedTargets
<1>3. /\ And(RoleScope("llm_router"), SelectorChecks).pytest \subseteq PytestTargets
      /\ And(SelectorChecks, Pytest(SelectorTests)).pytest \subseteq PytestTargets
  BY <1>1, <1>2, TogetherHasTargets
<1>4. CASE TakeShared(p)
  BY <1>4, OwnersHaveTargets DEF TakeShared, IsShared
<1>5. CASE TakeTest(p)
  BY <1>5, TestsHaveTargets DEF TakeTest
<1>6. CASE TakeRole(p)
  BY <1>1, <1>2, <1>6 DEF TakeRole, RolePathScope
<1>7. CASE TakeModels(p)
  BY <1>7, ModelsHaveTargets DEF TakeModels
<1>8. CASE TakeHermesVars(p)
  BY <1>8, ReadersHaveTargets DEF TakeHermesVars
<1>9. CASE TakeMolecule(p)
  BY <1>2, <1>9 DEF TakeMolecule
<1>10. CASE TakeScript(p)
  BY <1>1, <1>2, <1>3, <1>10 DEF TakeScript
<1>11. CASE TakeRouterFixture(p) \/ TakeRouterWorkflow(p) \/ TakeWorkflow(p)
  BY <1>1, <1>3, <1>11 DEF TakeRouterFixture, TakeRouterWorkflow, TakeWorkflow
<1>12. CASE TakeRetired(p) \/ TakeRemoved(p) \/ TakeInventoryTest(p) \/ TakeRenovate(p)
            \/ TakeShareable(p) \/ TakeDoc(p) \/ TakeUnknown(p)
  BY <1>2, <1>12 DEF TakeRetired, TakeRemoved, TakeInventoryTest, TakeRenovate, TakeShareable, TakeDoc, TakeUnknown
<1>13. QED
  BY <1>4, <1>5, <1>6, <1>7, <1>8, <1>9, <1>10, <1>11, <1>12 DEF Take

TargetsHold == sel.pytest \subseteq PytestTargets

LEMMA TargetsStay == ASSUME ScopeInvariant, TargetsHold, [Next]_vars PROVE TargetsHold'
<1>1. PytestTargets' = PytestTargets
  <2>1. changed' = changed
    BY DEF Next, Take, Add, Finish, vars, TakeRetired, TakeShared, TakeRemoved, TakeTest, TakeRouterFixture,
           TakeInventoryTest, TakeRole, TakeModels, TakeMolecule, TakeScript, TakeRenovate, TakeHermesVars,
           TakeShareable, TakeRouterWorkflow, TakeWorkflow, TakeDoc, TakeUnknown
  <2>2. QED
    BY <2>1 DEF PytestTargets
<1>2. ASSUME NEW p \in left, Take(p) PROVE sel'.pytest \subseteq PytestTargets
  <2>1. p \in changed
    BY DEF ScopeInvariant, SelectionHolds
  <2>2. PICK scope : scope.pytest \subseteq PytestTargets /\ Add(p, scope)
    BY <1>2, <2>1, TakeHasTargets
  <2> DEFINE extra == IF p.id \in DOMAIN PytestPathTargets THEN Pytest({PytestPathTargets[p.id]}) ELSE Nothing
             both == And(scope, extra)
  <2>3. sel' = And(sel, both)
    BY <2>2 DEF Add
  <2>4. extra.pytest \subseteq PytestTargets
    BY PlainTargets DEF PytestTargets, NamedTargets
  <2> HIDE DEF extra
  <2>5. both.pytest \subseteq PytestTargets
    BY <2>2, <2>4, TogetherHasTargets
  <2> HIDE DEF both
  <2>6. QED
    BY <2>3, <2>5, TogetherHasTargets DEF TargetsHold
<1>3. CASE Finish
  <2>1. FullSelection.pytest = {"tests"}
    BY DEF FullSelection
  <2>2. sel' = FullSelection \/ sel' = sel
    BY <1>3 DEF Finish
  <2>3. sel'.pytest \subseteq PytestTargets
    BY <2>1, <2>2 DEF TargetsHold, PytestTargets, NamedTargets
  <2>4. QED
    BY <1>1, <2>3 DEF TargetsHold
<1>4. CASE UNCHANGED sel
  BY <1>1, <1>4 DEF TargetsHold
<1>5. QED
  BY <1>1, <1>2, <1>3, <1>4 DEF Next, vars, TargetsHold

LEMMA ScopeHasTypes == ScopeInvariant /\ TargetsHold => TypeOK
<1> SUFFICES ASSUME ScopeInvariant, TargetsHold PROVE TypeOK
  OBVIOUS
<1>1. /\ pc \in {"select", "chunk", "place", "name", "done"}
      /\ selected \subseteq Playbooks /\ todo \subseteq selected /\ open \subseteq selected
      /\ AllUnits \in SUBSET SUBSET selected
  BY DEF ScopeInvariant, PackHolds, PackShape
<1>2. UNION units \subseteq selected
  BY <1>1 DEF AllUnits
<1>3. left \subseteq changed /\ sel.ansible \subseteq DOMAIN AnsibleTests /\ sel.router \subseteq Matrix
  BY DEF ScopeInvariant, SelectionHolds, IsScope
<1>4. QED
  BY <1>1, <1>2, <1>3 DEF TypeOK, TargetsHold

\* A selection is made of paths of the change, of tests that are tied to something and of
\* entries of the matrix, and what is being packed are playbooks of the selection.
THEOREM ScopeTypesHold == Spec => []TypeOK
<1>1. Init => ScopeInvariant /\ TargetsHold
  BY ScopeStarts, PlainTargets DEF Init, TargetsHold
<1>2. ScopeInvariant /\ TargetsHold /\ [Next]_vars => ScopeInvariant' /\ TargetsHold'
  BY ScopeSteps, TargetsStay
<1>3. QED
  BY <1>1, <1>2, ScopeHasTypes, PTL DEF Spec
=============================================================================
