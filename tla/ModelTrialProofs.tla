--------------------------- MODULE ModelTrialProofs ---------------------------
(***************************************************************************)
(* A model that is selected for a trial may be served, for every Hub,      *)
(* policy, tree of files and table of rules: TrialIsSound.  The origins    *)
(* the recursion of ModelPolicy finds are compared with the smallest set   *)
(* that holds the model and all it was made from; the rest follows the     *)
(* selection from candidate to plan.  Sums, least numbers and sequences    *)
(* come from ContractScopeProofs and SystemMergeProofs.  The last section  *)
(* is about the three decision procedures side by side: DecisionsTypes.    *)
(***************************************************************************)
EXTENDS MCDecisions, ContractScopeProofs, RouterRequestProofs

--------------------------------------------------------------------------
\* The recursion over the base models.

\* What a depth of the recursion over the base models makes of the next one.
UpStep(hub, up, d, m) ==
    IF d = MaxDepth \/ ~hub[m].valid THEN Unresolved
    ELSE IF hub[m].bases = <<>>
    THEN IF hub[m].created = 0 THEN Unresolved ELSE Resolved(<<m>>)
    ELSE IF \A b \in Range(hub[m].bases) : Resolves(b, hub)
    THEN AllOrigins([i \in DOMAIN hub[m].bases |-> up[d + 1][hub[m].bases[i]]])
    ELSE Unresolved
UpFrom(hub, up, d) == [m \in DOMAIN hub |-> UpStep(hub, up, d, m)]
Up(hub) == CHOOSE up : up = [d \in 0..MaxDepth |-> UpFrom(hub, up, d)]

\* The origins of a model are what the recursion answers at its top.
LEMMA DatesAreUp == ASSUME NEW hub, NEW id PROVE UpstreamDates(id, hub) = Up(hub)[0][id]
  BY DEF UpstreamDates, Up, UpFrom, UpStep

\* The recursion is well founded: it goes one level deeper each time, and stops at MaxDepth.
LEMMA UpExists == ASSUME NEW hub PROVE \E up : up = [d \in 0..MaxDepth |-> UpFrom(hub, up, d)]
<1> DEFINE Good(n, up) == /\ up = [d \in 0..MaxDepth |-> up[d]]
                          /\ \A d \in 0..MaxDepth : d + n >= MaxDepth => up[d] = UpFrom(hub, up, d)
           Reached == {n \in Nat : \E up : Good(n, up)}
<1>1. ASSUME NEW up, NEW n \in Int,
             \A d \in 0..MaxDepth : d + n >= MaxDepth => up[d] = UpFrom(hub, up, d)
      PROVE  \E g : Good(n + 1, g)
  <2> DEFINE g == [d \in 0..MaxDepth |-> UpFrom(hub, up, d)]
  <2>1. ASSUME NEW d \in 0..MaxDepth, d + (n + 1) >= MaxDepth PROVE UpFrom(hub, g, d) = UpFrom(hub, up, d)
    <3>1. CASE d = MaxDepth
      BY <3>1 DEF UpFrom, UpStep
    <3>2. CASE d # MaxDepth
      <4>1. d + 1 \in 0..MaxDepth /\ (d + 1) + n >= MaxDepth
        BY <2>1, <3>2, DepthAssumption
      <4>2. g[d + 1] = up[d + 1]
        BY <1>1, <4>1
      <4> HIDE DEF g
      <4>3. \A m \in DOMAIN hub : UpStep(hub, g, d, m) = UpStep(hub, up, d, m)
        BY <4>2 DEF UpStep
      <4>4. QED
        BY <4>3 DEF UpFrom
    <3>3. QED
      BY <3>1, <3>2
  <2>2. \A d \in 0..MaxDepth : g[d] = UpFrom(hub, up, d)
    OBVIOUS
  <2>3. g = [d \in 0..MaxDepth |-> g[d]]
    OBVIOUS
  <2> HIDE DEF g
  <2>4. Good(n + 1, g)
    BY <2>1, <2>2, <2>3
  <2>5. QED
    BY <2>4
<1>2. 0 \in Reached
  <2>1. \A d \in 0..MaxDepth : ~(d + (0 - 1) >= MaxDepth)
    BY DepthAssumption
  <2>2. 0 - 1 \in Int
    OBVIOUS
  <2> HIDE DEF Good
  <2>3. \E g : Good((0 - 1) + 1, g)
    BY <1>1, <2>1, <2>2
  <2>4. (0 - 1) + 1 = 0
    OBVIOUS
  <2>5. QED
    BY <2>3, <2>4
<1>3. ASSUME NEW n \in Nat, n \in Reached PROVE n + 1 \in Reached
  <2>1. PICK up : Good(n, up)
    BY <1>3
  <2>2. \A d \in 0..MaxDepth : d + n >= MaxDepth => up[d] = UpFrom(hub, up, d)
    BY <2>1
  <2> HIDE DEF Good
  <2>3. \E g : Good(n + 1, g)
    BY <1>1, <2>2
  <2> QED
    BY <2>3
<1>4. \A n \in Nat : n \in Reached
  <2> HIDE DEF Reached
  <2> QED
    BY <1>2, <1>3, SetInduction
<1>5. PICK up : Good(MaxDepth, up)
  BY <1>4, DepthAssumption
<1>6. \A d \in 0..MaxDepth : d + MaxDepth >= MaxDepth
  BY DepthAssumption
<1>7. QED
  BY <1>5, <1>6

\* The recursion, one step of it unfolded.
LEMMA UpIs ==
    ASSUME NEW hub, NEW d \in 0..MaxDepth, NEW m \in DOMAIN hub
    PROVE  Up(hub)[d][m] = UpStep(hub, Up(hub), d, m)
<1>1. Up(hub) = [e \in 0..MaxDepth |-> UpFrom(hub, Up(hub), e)]
  BY UpExists DEF Up
<1>2. Up(hub)[d] = UpFrom(hub, Up(hub), d)
  BY <1>1
<1>3. QED
  BY <1>2 DEF UpFrom

HubHolds(hub) == \A m \in DOMAIN hub : hub[m].bases \in Seq(Range(hub[m].bases))
IsOk(hub, d, m) == d \in 0..MaxDepth /\ m \in DOMAIN hub /\ Up(hub)[d][m].ok
RootsAt(hub, d, m) == Up(hub)[d][m].roots

\* The answer at a depth: the model itself, or what its bases give one level deeper.
LEMMA UpCases ==
    ASSUME NEW hub, HubHolds(hub), NEW d \in 0..MaxDepth, NEW m \in DOMAIN hub
    PROVE  /\ Up(hub)[d][m].ok \in BOOLEAN
           /\ ~Up(hub)[d][m].ok => RootsAt(hub, d, m) = <<>>
           /\ IsOk(hub, d, m) => d + 1 \in 0..MaxDepth
           /\ IsOk(hub, d, m) /\ hub[m].bases = <<>> => hub[m].created # 0 /\ RootsAt(hub, d, m) = <<m>>
           /\ IsOk(hub, d, m) /\ hub[m].bases # <<>> =>
                /\ \A b \in Range(hub[m].bases) : b \in DOMAIN hub /\ IsOk(hub, d + 1, b)
                /\ RootsAt(hub, d, m) =
                     Gathered([b \in Range(hub[m].bases) |-> RootsAt(hub, d + 1, b)], hub[m].bases)
<1> DEFINE bases == hub[m].bases
           ups == [i \in DOMAIN bases |-> Up(hub)[d + 1][bases[i]]]
<1>1. Up(hub)[d][m] = UpStep(hub, Up(hub), d, m)
  BY UpIs
<1>2. CASE d = MaxDepth \/ ~hub[m].valid
  <2>1. Up(hub)[d][m] = Unresolved
    BY <1>1, <1>2 DEF UpStep
  <2>2. QED
    BY <2>1 DEF Unresolved, IsOk, RootsAt
<1>3. CASE d # MaxDepth /\ hub[m].valid /\ bases = <<>>
  <2>1. Up(hub)[d][m] = IF hub[m].created = 0 THEN Unresolved ELSE Resolved(<<m>>)
    BY <1>1, <1>3 DEF UpStep
  <2>2. d + 1 \in 0..MaxDepth
    BY <1>3, DepthAssumption
  <2>3. QED
    BY <1>3, <2>1, <2>2 DEF Unresolved, Resolved, IsOk, RootsAt
<1>4. CASE d # MaxDepth /\ hub[m].valid /\ bases # <<>>
  <2>1. d + 1 \in 0..MaxDepth
    BY <1>4, DepthAssumption
  <2>2. CASE ~(\A b \in Range(bases) : Resolves(b, hub))
    <3>1. Up(hub)[d][m] = Unresolved
      BY <1>1, <1>4, <2>2 DEF UpStep
    <3>2. QED
      BY <3>1 DEF Unresolved, IsOk, RootsAt
  <2>3. CASE \A b \in Range(bases) : Resolves(b, hub)
    <3>1. Up(hub)[d][m] = AllOrigins(ups)
      BY <1>1, <1>4, <2>3 DEF UpStep
    <3>2. CASE ~(\A i \in DOMAIN ups : ups[i].ok)
      <4>1. Up(hub)[d][m] = Unresolved
        BY <3>1, <3>2 DEF AllOrigins
      <4>2. QED
        BY <4>1 DEF Unresolved, IsOk, RootsAt
    <3>3. CASE \A i \in DOMAIN ups : ups[i].ok
      <4> DEFINE g == [b \in Range(bases) |-> RootsAt(hub, d + 1, b)]
      <4>1. Up(hub)[d][m] = Resolved(FlattenSeq([i \in DOMAIN ups |-> ups[i].roots]))
        BY <3>1, <3>3 DEF AllOrigins
      <4>2. \A i \in DOMAIN bases : bases[i] \in Range(bases)
        BY DEF Range
      <4>3. [i \in DOMAIN ups |-> ups[i].roots] = [i \in DOMAIN bases |-> g[bases[i]]]
        BY <4>2 DEF RootsAt
      <4>a. [i \in DOMAIN bases |-> g[bases[i]]] = [i \in DOMAIN bases |-> g[hub[m].bases[i]]]
        OBVIOUS
      <4> HIDE DEF g, ups
      <4>b. Up(hub)[d][m] = Resolved(Gathered(g, bases))
        BY <4>1, <4>3 DEF Gathered
      <4>4. RootsAt(hub, d, m) = Gathered(g, bases) /\ Up(hub)[d][m].ok = TRUE
        BY <4>b DEF Resolved, RootsAt
      <4>5. \A b \in Range(bases) : IsOk(hub, d + 1, b)
        BY <2>1, <2>3, <3>3 DEF IsOk, Range, ups, Resolves
      <4>6. QED
        BY <1>4, <2>1, <2>3, <4>4, <4>5 DEF g, Resolves
    <3>4. QED
      BY <3>2, <3>3
  <2>4. QED
    BY <2>2, <2>3
<1>5. QED
  BY <1>2, <1>3, <1>4

--------------------------------------------------------------------------
\* Where the chains of bases end.

\* A set of models that holds what its models were made from.
Closed(hub, S) == S \subseteq DOMAIN hub /\ \A m \in S : Range(hub[m].bases) \subseteq S
RootsWithin(hub, S, d) ==
    \A m \in DOMAIN hub :
        /\ RootsAt(hub, d, m) \in Seq(DOMAIN hub)
        /\ IsOk(hub, d, m) => RootsAt(hub, d, m) # <<>>
        /\ IsOk(hub, d, m) /\ m \in S =>
             \A o \in ToSet(RootsAt(hub, d, m)) : o \in S /\ hub[o].bases = <<>> /\ hub[o].created # 0

\* The two names the libraries have for the members of a sequence.
LEMMA RangeToSet == ASSUME NEW s PROVE Range(s) = ToSet(s)
  BY DEF Range, ToSet

\* A sequence that is not empty has a member.
LEMMA SomeMember == ASSUME NEW D, NEW s \in Seq(D), s # <<>> PROVE \E x \in D : x \in ToSet(s)
<1>1. 1 \in DOMAIN s /\ s[1] \in D
  OBVIOUS
<1>2. s[1] \in ToSet(s)
  BY <1>1 DEF ToSet
<1>3. QED
  BY <1>1, <1>2

\* The origins of a model made from others are those of what it was made from.
LEMMA RootsOfBases ==
    ASSUME NEW hub, HubHolds(hub), NEW d \in 0..MaxDepth, NEW m \in DOMAIN hub,
           IsOk(hub, d, m), hub[m].bases # <<>>,
           \A n \in DOMAIN hub : RootsAt(hub, d + 1, n) \in Seq(DOMAIN hub)
    PROVE  /\ RootsAt(hub, d, m) \in Seq(DOMAIN hub)
           /\ \A o : o \in ToSet(RootsAt(hub, d, m)) <=>
                       \E b \in Range(hub[m].bases) : o \in ToSet(RootsAt(hub, d + 1, b))
<1> DEFINE bases == hub[m].bases
           R == Range(bases)
           g == [b \in R |-> RootsAt(hub, d + 1, b)]
<1>1. RootsAt(hub, d, m) = Gathered(g, bases) /\ \A b \in R : b \in DOMAIN hub
  BY UpCases
<1>2. bases \in Seq(R)
  BY DEF HubHolds
<1>3. g \in [R -> Seq(DOMAIN hub)]
  BY <1>1
<1>4. ToSet(bases) = R /\ \A b \in R : g[b] = RootsAt(hub, d + 1, b)
  BY RangeToSet
<1> HIDE DEF g, R, bases
<1>5. Gathered(g, bases) \in Seq(DOMAIN hub)
  BY <1>2, <1>3, GatheredType
<1>6. \A o : o \in ToSet(Gathered(g, bases)) <=> \E b \in ToSet(bases) : o \in ToSet(g[b])
  BY <1>2, <1>3, GatheredMembers
<1>7. QED
  BY <1>1, <1>4, <1>5, <1>6 DEF R, bases

\* What is not answered has no origins.
LEMMA EmptyRoots ==
    ASSUME NEW hub, HubHolds(hub), NEW d \in 0..MaxDepth, NEW m \in DOMAIN hub, ~IsOk(hub, d, m)
    PROVE  RootsAt(hub, d, m) \in Seq(DOMAIN hub)
<1>1. ~Up(hub)[d][m].ok => RootsAt(hub, d, m) = <<>>
  BY UpCases
<1>2. <<>> \in Seq(DOMAIN hub)
  OBVIOUS
<1>3. QED
  BY <1>1, <1>2 DEF IsOk

\* What is answered has origins, all of them inside any set that holds what its models
\* were made from: downward from the deepest level.
LEMMA RootsHold ==
    ASSUME NEW hub, HubHolds(hub), NEW S, Closed(hub, S), NEW d \in 0..MaxDepth
    PROVE  RootsWithin(hub, S, d)
<1>1. ASSUME NEW e \in 0..MaxDepth, e + 1 \in 0..MaxDepth => RootsWithin(hub, S, e + 1)
      PROVE  RootsWithin(hub, S, e)
  <2> SUFFICES ASSUME NEW m \in DOMAIN hub
               PROVE  /\ RootsAt(hub, e, m) \in Seq(DOMAIN hub)
                      /\ IsOk(hub, e, m) => RootsAt(hub, e, m) # <<>>
                      /\ IsOk(hub, e, m) /\ m \in S =>
                           \A o \in ToSet(RootsAt(hub, e, m)) :
                              o \in S /\ hub[o].bases = <<>> /\ hub[o].created # 0
    BY DEF RootsWithin
  <2>1. CASE ~IsOk(hub, e, m)
    BY <2>1, EmptyRoots
  <2>2. CASE IsOk(hub, e, m) /\ hub[m].bases = <<>>
    <3>1. RootsAt(hub, e, m) = <<m>> /\ hub[m].created # 0
      BY <2>2, UpCases
    <3>2. ToSet(<<m>>) = {m} /\ <<m>> \in Seq(DOMAIN hub) /\ <<m>> # <<>>
      BY DEF ToSet
    <3>3. QED
      BY <2>2, <3>1, <3>2
  <2>3. CASE IsOk(hub, e, m) /\ hub[m].bases # <<>>
    <3>1. /\ e + 1 \in 0..MaxDepth
          /\ \A b \in Range(hub[m].bases) : b \in DOMAIN hub /\ IsOk(hub, e + 1, b)
      BY <2>3, UpCases
    <3>2. RootsWithin(hub, S, e + 1)
      BY <1>1, <3>1
    <3>3. /\ RootsAt(hub, e, m) \in Seq(DOMAIN hub)
          /\ \A o : o \in ToSet(RootsAt(hub, e, m)) <=>
                      \E b \in Range(hub[m].bases) : o \in ToSet(RootsAt(hub, e + 1, b))
      BY <2>3, <3>2, RootsOfBases DEF RootsWithin
    <3>4. RootsAt(hub, e, m) # <<>>
      <4>1. PICK b \in Range(hub[m].bases) : TRUE
        <5>1. hub[m].bases \in Seq(Range(hub[m].bases))
          BY DEF HubHolds
        <5>2. QED
          BY <2>3, <5>1
      <4>2. RootsAt(hub, e + 1, b) \in Seq(DOMAIN hub) /\ RootsAt(hub, e + 1, b) # <<>>
        BY <3>1, <3>2, <4>1 DEF RootsWithin
      <4>3. PICK o : o \in ToSet(RootsAt(hub, e + 1, b))
        BY <4>2, SomeMember
      <4>4. o \in ToSet(RootsAt(hub, e, m))
        BY <3>3, <4>1, <4>3
      <4>5. QED
        BY <4>4 DEF ToSet
    <3>5. ASSUME m \in S, NEW o \in ToSet(RootsAt(hub, e, m))
          PROVE  o \in S /\ hub[o].bases = <<>> /\ hub[o].created # 0
      <4>1. PICK b \in Range(hub[m].bases) : o \in ToSet(RootsAt(hub, e + 1, b))
        BY <3>3, <3>5
      <4>2. b \in S /\ b \in DOMAIN hub /\ IsOk(hub, e + 1, b)
        BY <3>1, <3>5, <4>1 DEF Closed
      <4>3. QED
        BY <3>2, <4>1, <4>2 DEF RootsWithin
    <3>6. QED
      BY <3>3, <3>4, <3>5
  <2>4. QED
    BY <2>1, <2>2, <2>3
<1> DEFINE Reached == {n \in Nat : \A e \in 0..MaxDepth : e + n >= MaxDepth => RootsWithin(hub, S, e)}
<1>2. 0 \in Reached
  <2> SUFFICES ASSUME NEW e \in 0..MaxDepth, e + 0 >= MaxDepth PROVE RootsWithin(hub, S, e)
    OBVIOUS
  <2>1. e + 1 \notin 0..MaxDepth
    BY DepthAssumption
  <2>2. QED
    BY <1>1, <2>1
<1>3. ASSUME NEW n \in Nat, n \in Reached PROVE n + 1 \in Reached
  <2> SUFFICES ASSUME NEW e \in 0..MaxDepth, e + (n + 1) >= MaxDepth PROVE RootsWithin(hub, S, e)
    OBVIOUS
  <2>1. (e + 1) + n >= MaxDepth
    BY DepthAssumption
  <2>2. e + 1 \in 0..MaxDepth => RootsWithin(hub, S, e + 1)
    BY <1>3, <2>1
  <2>3. QED
    BY <1>1, <2>2
<1>4. \A n \in Nat : n \in Reached
  <2> HIDE DEF Reached
  <2> QED
    BY <1>2, <1>3, SetInduction
<1>5. MaxDepth \in Reached /\ d + MaxDepth >= MaxDepth
  <2> HIDE DEF Reached
  <2> QED
    BY <1>4, DepthAssumption
<1>6. QED
  BY <1>5

\* If a model is answered, so is what it was made from, one level deeper and with no
\* other origins.
LEMMA OkBases ==
    ASSUME NEW hub, HubHolds(hub), NEW d \in 0..MaxDepth, NEW m \in DOMAIN hub, IsOk(hub, d, m),
           NEW b \in Range(hub[m].bases)
    PROVE  /\ d + 1 \in 0..MaxDepth /\ b \in DOMAIN hub /\ IsOk(hub, d + 1, b)
           /\ ToSet(RootsAt(hub, d + 1, b)) \subseteq ToSet(RootsAt(hub, d, m))
<1>1. hub[m].bases # <<>>
  <2>1. Range(<<>>) = {}
    BY DEF Range
  <2>2. QED
    BY <2>1
<1>2. d + 1 \in 0..MaxDepth /\ b \in DOMAIN hub /\ IsOk(hub, d + 1, b)
  BY <1>1, UpCases
<1>3. Closed(hub, {})
  BY DEF Closed
<1>4. \A n \in DOMAIN hub : RootsAt(hub, d + 1, n) \in Seq(DOMAIN hub)
  BY <1>2, <1>3, RootsHold DEF RootsWithin
<1>5. QED
  BY <1>1, <1>2, <1>4, RootsOfBases

\* The smallest set that holds a model and what its models were made from.
IsAncestry(hub, id, A) ==
    /\ id \in A /\ Closed(hub, A)
    /\ \A S : Closed(hub, S) /\ id \in S => A \subseteq S

\* What is answered at a depth or deeper, and ends in some of the given origins.
Answered(hub, from, R) ==
    {m \in DOMAIN hub : \E d \in 0..MaxDepth :
        d >= from /\ IsOk(hub, d, m) /\ ToSet(RootsAt(hub, d, m)) \subseteq R}

\* The models answered from a level on hold what they were made from.
LEMMA AnsweredIsClosed ==
    ASSUME NEW hub, HubHolds(hub), NEW from \in Nat, NEW R PROVE Closed(hub, Answered(hub, from, R))
<1> SUFFICES ASSUME NEW m \in Answered(hub, from, R), NEW b \in Range(hub[m].bases)
             PROVE  b \in Answered(hub, from, R)
  BY DEF Closed, Answered
<1>1. PICK d \in 0..MaxDepth : d >= from /\ IsOk(hub, d, m) /\ ToSet(RootsAt(hub, d, m)) \subseteq R
  BY DEF Answered
<1>2. m \in DOMAIN hub
  BY DEF Answered
<1>3. /\ d + 1 \in 0..MaxDepth /\ b \in DOMAIN hub /\ IsOk(hub, d + 1, b)
      /\ ToSet(RootsAt(hub, d + 1, b)) \subseteq ToSet(RootsAt(hub, d, m))
  BY <1>1, <1>2, OkBases
<1>4. d + 1 >= from
  BY <1>1
<1>5. ToSet(RootsAt(hub, d + 1, b)) \subseteq R
  BY <1>1, <1>3
<1>6. QED
  BY <1>3, <1>4, <1>5 DEF Answered

\* The deepest answer there is.
LEMMA Deepest ==
    ASSUME NEW hub, NEW id, IsOk(hub, 0, id)
    PROVE  \E d \in 0..MaxDepth : IsOk(hub, d, id) /\ \A e \in 0..MaxDepth : IsOk(hub, e, id) => e <= d
<1> DEFINE Gap == {n \in Nat : \E d \in 0..MaxDepth : n = MaxDepth - d /\ IsOk(hub, d, id)}
<1>1. MaxDepth \in Gap
  BY DepthAssumption
<1>2. PICK n \in Gap : \A k \in Gap : n <= k
  <2>1. Gap \in SUBSET Nat /\ Gap # {}
    BY <1>1
  <2> HIDE DEF Gap
  <2>2. QED
    BY <2>1, LeastNat
<1>3. PICK d \in 0..MaxDepth : n = MaxDepth - d /\ IsOk(hub, d, id)
  BY <1>2
<1>4. ASSUME NEW e \in 0..MaxDepth, IsOk(hub, e, id) PROVE e <= d
  <2>1. MaxDepth - e \in Gap
    BY <1>4, DepthAssumption
  <2>2. n <= MaxDepth - e
    BY <1>2, <2>1
  <2>3. QED
    BY <1>3, <2>2, DepthAssumption
<1>5. QED
  BY <1>3, <1>4

\* The chain of bases that is answered ends in every origin and in nothing else, and it
\* never comes back to where it starts.
LEMMA ChainIsWhole ==
    ASSUME NEW hub, HubHolds(hub), NEW id \in DOMAIN hub, IsOk(hub, 0, id), NEW A, IsAncestry(hub, id, A)
    PROVE  /\ RootsAt(hub, 0, id) \in Seq(DOMAIN hub) /\ RootsAt(hub, 0, id) # <<>>
           /\ ToSet(RootsAt(hub, 0, id)) = {m \in A : hub[m].bases = <<>>}
           /\ \A o \in ToSet(RootsAt(hub, 0, id)) : hub[o].created # 0
           /\ \A m \in A : id \notin Range(hub[m].bases)
<1> DEFINE R == ToSet(RootsAt(hub, 0, id))
<1>0. 0 \in 0..MaxDepth
  BY DepthAssumption
<1>1. Closed(hub, A) /\ id \in A /\ A \subseteq DOMAIN hub
  BY DEF IsAncestry, Closed
<1>2. /\ RootsAt(hub, 0, id) \in Seq(DOMAIN hub) /\ RootsAt(hub, 0, id) # <<>>
      /\ \A o \in R : o \in A /\ hub[o].bases = <<>> /\ hub[o].created # 0
  BY <1>0, <1>1, RootsHold DEF RootsWithin
<1>3. ASSUME NEW o \in A, hub[o].bases = <<>> PROVE o \in R
  <2>1. id \in Answered(hub, 0, R)
    BY <1>0 DEF Answered
  <2>2. o \in Answered(hub, 0, R)
    BY <2>1, AnsweredIsClosed DEF IsAncestry
  <2>3. PICK d \in 0..MaxDepth : IsOk(hub, d, o) /\ ToSet(RootsAt(hub, d, o)) \subseteq R
    BY <2>2 DEF Answered
  <2>4. RootsAt(hub, d, o) = <<o>>
    BY <1>1, <1>3, <2>3, UpCases
  <2>5. o \in ToSet(<<o>>)
    BY DEF ToSet
  <2>6. QED
    BY <2>3, <2>4, <2>5
<1>4. ASSUME NEW m \in A, id \in Range(hub[m].bases) PROVE FALSE
  <2>1. PICK d \in 0..MaxDepth : IsOk(hub, d, id) /\ \A e \in 0..MaxDepth : IsOk(hub, e, id) => e <= d
    BY Deepest
  <2> DEFINE W == UNION {ToSet(RootsAt(hub, e, n)) : e \in 0..MaxDepth, n \in DOMAIN hub}
  <2>2. id \in Answered(hub, d, W)
    <3>1. ToSet(RootsAt(hub, d, id)) \subseteq W
      OBVIOUS
    <3> HIDE DEF W
    <3>2. QED
      BY <2>1, <3>1 DEF Answered
  <2> HIDE DEF W
  <2>3. m \in Answered(hub, d, W)
    <3>1. Closed(hub, Answered(hub, d, W))
      BY AnsweredIsClosed
    <3>2. QED
      BY <2>2, <3>1 DEF IsAncestry
  <2>4. PICK e \in 0..MaxDepth : e >= d /\ IsOk(hub, e, m)
    BY <2>3 DEF Answered
  <2>5. e + 1 \in 0..MaxDepth /\ IsOk(hub, e + 1, id)
    BY <1>1, <1>4, <2>4, OkBases
  <2>6. e + 1 <= d
    BY <2>1, <2>5
  <2>7. QED
    BY <2>4, <2>6
<1>5. QED
  BY <1>2, <1>3, <1>4

\* The oldest of some origins is one of them.
LEMMA OldestIs ==
    ASSUME NEW hub, NEW roots \in Seq(DOMAIN hub), roots # <<>>, \A m \in DOMAIN hub : hub[m].created \in Nat
    PROVE  /\ OldestRoot(roots, hub) \in ToSet(roots)
           /\ \A o \in ToSet(roots) : hub[OldestRoot(roots, hub)].created <= hub[o].created
<1> DEFINE born(i) == hub[roots[i]].created
           Born == {born(i) : i \in DOMAIN roots}
           First(i) == \A j \in DOMAIN roots : born(i) < born(j) \/ (born(i) = born(j) /\ i <= j)
<1>0. Len(roots) \in Nat /\ DOMAIN roots = 1..Len(roots) /\ \A i \in DOMAIN roots : roots[i] \in DOMAIN hub
  OBVIOUS
<1>1. \A i \in DOMAIN roots : born(i) \in Nat /\ i \in Nat
  <2>1. \A i \in 1..Len(roots) : i \in Nat
    BY <1>0
  <2>2. \A i \in DOMAIN roots : born(i) \in Nat
    BY <1>0
  <2>3. QED
    BY <1>0, <2>1, <2>2
<1>2. 1 \in DOMAIN roots
  OBVIOUS
<1>3. PICK d \in Born : \A e \in Born : d <= e
  <2>1. Born \in SUBSET Nat /\ Born # {}
    BY <1>1, <1>2
  <2> HIDE DEF Born
  <2>2. QED
    BY <2>1, LeastNat
<1> DEFINE At == {i \in DOMAIN roots : born(i) = d}
<1>4. PICK i \in At : \A j \in At : i <= j
  <2>1. At \in SUBSET Nat /\ At # {}
    BY <1>1, <1>3
  <2> HIDE DEF At
  <2>2. QED
    BY <2>1, LeastNat
<1>5. i \in DOMAIN roots /\ First(i)
  <2> SUFFICES ASSUME NEW j \in DOMAIN roots PROVE born(i) < born(j) \/ (born(i) = born(j) /\ i <= j)
    BY <1>4
  <2>1. born(i) = d /\ born(j) \in Born /\ d <= born(j) /\ (born(j) = d => j \in At)
    BY <1>3, <1>4
  <2>2. born(j) \in Nat /\ d \in Nat
    BY <1>1, <1>3
  <2> HIDE DEF born, Born, At
  <2>3. QED
    BY <1>4, <2>1, <2>2
<1> DEFINE k == CHOOSE i0 \in DOMAIN roots : First(i0)
<1>6. k \in DOMAIN roots /\ First(k)
  <2> HIDE DEF First
  <2> QED
    BY <1>5
<1>7. OldestRoot(roots, hub) = roots[k]
  BY DEF OldestRoot
<1> HIDE DEF k
<1>8. \A j \in DOMAIN roots : born(k) <= born(j)
  BY <1>1, <1>6
<1>9. QED
  BY <1>6, <1>7, <1>8 DEF ToSet

--------------------------------------------------------------------------
\* The walk, and what the policy agrees to.

WalkShape == trial \in Trials /\ DOMAIN infos \subseteq DOMAIN trial.hub

\* What TrialAssumption says of the dates.
LEMMA TrialFacts ==
    ASSUME NEW t \in Trials
    PROVE  /\ t.id \in DOMAIN t.hub /\ t.today \in Nat /\ HubHolds(t.hub)
           /\ \A m \in DOMAIN t.hub : t.hub[m].created \in Nat
           /\ t.policy.as_of \in Nat /\ t.policy.max_age_days \in Nat
           /\ \A r \in t.policy.models : r.upstream_created \in Nat
  BY TrialAssumption DEF IsTrial, HubHolds

\* What the walk has read is what the Hub says.
LEMMA HubIs ==
    ASSUME WalkShape
    PROVE  /\ DOMAIN Hub \subseteq DOMAIN trial.hub /\ trial.id \in DOMAIN Hub /\ HubHolds(Hub)
           /\ \A m \in DOMAIN Hub : Hub[m] = trial.hub[m] /\ Hub[m].created \in Nat
<1>1. DOMAIN Hub = DOMAIN infos \union {trial.id} /\ \A m \in DOMAIN Hub : Hub[m] = trial.hub[m]
  BY DEF Hub
<1>2. trial.id \in DOMAIN trial.hub /\ HubHolds(trial.hub) /\ \A m \in DOMAIN trial.hub : trial.hub[m].created \in Nat
  BY TrialFacts DEF WalkShape
<1>3. DOMAIN Hub \subseteq DOMAIN trial.hub
  BY <1>1, <1>2 DEF WalkShape
<1>4. HubHolds(Hub)
  BY <1>1, <1>2, <1>3 DEF HubHolds
<1>5. QED
  BY <1>1, <1>2, <1>3, <1>4

\* A walk that found every origin has read all the model is made of.
LEMMA WalkFindsAll ==
    ASSUME WalkShape, Upstream.ok
    PROVE  IsOk(Hub, 0, trial.id) /\ RootsAt(Hub, 0, trial.id) = Upstream.roots /\ IsAncestry(Hub, trial.id, Ancestry)
<1>1. Upstream = Up(Hub)[0][trial.id] /\ 0 \in 0..MaxDepth
  BY DatesAreUp, DepthAssumption DEF Upstream
<1>2. IsOk(Hub, 0, trial.id) /\ RootsAt(Hub, 0, trial.id) = Upstream.roots
  BY <1>1, HubIs DEF IsOk, RootsAt
<1> DEFINE closed == {S \in SUBSET DOMAIN trial.hub : trial.id \in S /\ \A m \in S : Range(trial.hub[m].bases) \subseteq S}
<1>3. ASSUME NEW S, Closed(Hub, S), trial.id \in S PROVE S \in closed
  <2>1. S \subseteq DOMAIN Hub
    BY <1>3 DEF Closed
  <2>2. S \subseteq DOMAIN trial.hub /\ \A m \in S : Hub[m] = trial.hub[m]
    BY <2>1, HubIs
  <2>3. QED
    BY <1>3, <2>2 DEF Closed
<1> DEFINE K == Answered(Hub, 0, ToSet(RootsAt(Hub, 0, trial.id)))
<1>4. K \in closed /\ K \subseteq DOMAIN Hub
  <2>1. Closed(Hub, K)
    BY HubIs, AnsweredIsClosed
  <2>2. trial.id \in K
    BY <1>1, <1>2, HubIs DEF Answered
  <2> HIDE DEF K, closed
  <2>3. QED
    BY <1>3, <2>1, <2>2 DEF Closed
<1>5. Ancestry = {m \in DOMAIN trial.hub : \A S \in closed : m \in S}
  BY <1>4 DEF Ancestry
<1> HIDE DEF K
<1>6. Ancestry \subseteq DOMAIN Hub
  BY <1>4, <1>5
<1>7. trial.id \in Ancestry
  BY <1>4, <1>5
<1>8. Closed(Hub, Ancestry)
  <2> SUFFICES ASSUME NEW m \in Ancestry, NEW b \in Range(Hub[m].bases) PROVE b \in Ancestry
    BY <1>6 DEF Closed
  <2>1. Hub[m] = trial.hub[m]
    BY <1>6, HubIs
  <2>2. \A S \in closed : b \in S /\ S \subseteq DOMAIN trial.hub
    BY <1>5, <2>1
  <2>3. b \in DOMAIN trial.hub
    BY <1>4, <2>2
  <2>4. QED
    BY <1>5, <2>2, <2>3
<1>9. ASSUME NEW S, Closed(Hub, S), trial.id \in S PROVE Ancestry \subseteq S
  BY <1>3, <1>5, <1>9
<1>10. QED
  BY <1>2, <1>7, <1>8, <1>9 DEF IsAncestry

\* What OnlyYoungOrigins says of the model tried.
Young ==
    /\ Origins # {}
    /\ \A m \in Ancestry : \A b \in Range(trial.hub[m].bases) : b # trial.id
    /\ \A o \in Origins : trial.today - trial.hub[o].created \in 0..trial.policy.max_age_days
    /\ \E r \in trial.policy.models : /\ r.id = trial.id /\ r.upstream_id \in Origins
                                      /\ \A o \in Origins : r.upstream_created <= trial.hub[o].created
    /\ trial.id \notin trial.policy.deny

\* The record by which the policy admits a model is its own.
LEMMA EntryIs ==
    ASSUME NEW id, NEW policy, NEW today, Admits(id, policy, today)
    PROVE  Entry(id, policy) \in policy.models /\ Entry(id, policy).id = id /\ id \notin policy.deny
<1>1. RecordsOf(id, policy) # {}
  <2>1. Cardinality(RecordsOf(id, policy)) = 1
    BY DEF Admits
  <2>2. Cardinality({}) = 0
    BY FS_EmptySet
  <2>3. QED
    BY <2>1, <2>2
<1>2. Entry(id, policy) \in RecordsOf(id, policy)
  BY <1>1 DEF Entry
<1>3. QED
  BY <1>2 DEF RecordsOf, Admits

\* What the policy and the Hub agree on at the selection has young origins only.
LEMMA AgreedIsYoung == ASSUME WalkShape, day = trial.today, PolicyAgrees PROVE Young
<1> DEFINE roots == Upstream.roots
           oldest == OldestRoot(roots, Hub)
           entry == Entry(trial.id, trial.policy)
<1>1. /\ Upstream.ok /\ Admits(trial.id, trial.policy, day)
      /\ \A m \in Range(roots) : InAge(Hub[m].created, day, trial.policy)
      /\ entry.upstream_id = oldest /\ entry.upstream_created = Hub[oldest].created
  BY DEF PolicyAgrees
<1>2. /\ IsOk(Hub, 0, trial.id) /\ roots = RootsAt(Hub, 0, trial.id)
      /\ IsAncestry(Hub, trial.id, Ancestry)
  BY <1>1, WalkFindsAll
<1>3. Ancestry \subseteq DOMAIN Hub
  BY <1>2 DEF IsAncestry, Closed
<1>4. /\ roots \in Seq(DOMAIN Hub) /\ roots # <<>>
      /\ ToSet(roots) = {m \in Ancestry : Hub[m].bases = <<>>}
      /\ \A m \in Ancestry : trial.id \notin Range(Hub[m].bases)
  BY <1>2, HubIs, ChainIsWhole
<1>5. \A m \in Ancestry : Hub[m] = trial.hub[m]
  BY <1>3, HubIs
<1>6. ToSet(roots) = Origins
  BY <1>4, <1>5 DEF Origins
<1>7. oldest \in ToSet(roots) /\ \A o \in ToSet(roots) : Hub[oldest].created <= Hub[o].created
  BY <1>4, HubIs, OldestIs
<1> HIDE DEF roots, oldest, entry
<1>8. \A o \in Origins : trial.today - trial.hub[o].created \in 0..trial.policy.max_age_days
  <2> SUFFICES ASSUME NEW o \in Origins PROVE trial.today - trial.hub[o].created \in 0..trial.policy.max_age_days
    OBVIOUS
  <2>1. InAge(Hub[o].created, day, trial.policy)
    BY <1>1, <1>6, RangeToSet
  <2>2. Hub[o] = trial.hub[o]
    BY <1>5 DEF Origins
  <2>3. QED
    BY <2>1, <2>2 DEF InAge
<1>9. \E r \in trial.policy.models : /\ r.id = trial.id /\ r.upstream_id \in Origins
                                     /\ \A o \in Origins : r.upstream_created <= trial.hub[o].created
  <2>1. entry \in trial.policy.models /\ entry.id = trial.id
    BY <1>1, EntryIs DEF entry
  <2>2. \A o \in Origins : o \in Ancestry
    BY DEF Origins
  <2>3. QED
    BY <1>1, <1>5, <1>6, <1>7, <2>1, <2>2
<1>10. trial.id \notin trial.policy.deny
  BY <1>1, EntryIs
<1>11. \A m \in Ancestry : \A b \in Range(trial.hub[m].bases) : b # trial.id
  BY <1>4, <1>5
<1>12. QED
  BY <1>6, <1>7, <1>8, <1>9, <1>10, <1>11 DEF Young

--------------------------------------------------------------------------
\* Contexts and weights.

\* The lesser of two numbers.
LEMMA MinOfTwo ==
    ASSUME NEW a \in Int, NEW b \in Int
    PROVE  Min({a, b}) \in Int /\ Min({a, b}) <= a /\ Min({a, b}) <= b
<1> DEFINE m == IF a <= b THEN a ELSE b
<1>1. m \in {a, b} /\ {a, b} \subseteq Int /\ \A x \in {a, b} : m <= x
  OBVIOUS
<1>2. m \in Int /\ m <= a /\ m <= b
  OBVIOUS
<1>3. Min({a, b}) = m
  <2> HIDE DEF m
  <2> QED
    BY <1>1, MinIs
<1>4. QED
  BY <1>2, <1>3

\* Places of a sequence are numbers, and its members are where they should be.
LEMMA SeqIs == ASSUME NEW S, NEW s \in Seq(S) PROVE DOMAIN s \subseteq Nat /\ \A i \in DOMAIN s : s[i] \in S
<1>1. Len(s) \in Nat /\ DOMAIN s = 1..Len(s) /\ \A i \in DOMAIN s : s[i] \in S
  OBVIOUS
<1>2. 1..Len(s) \subseteq Nat
  <2> DEFINE n == Len(s)
  <2> HIDE DEF n
  <2>1. 1..n \subseteq Nat
    OBVIOUS
  <2>2. QED
    BY <2>1 DEF n
<1>3. QED
  BY <1>1, <1>2

\* The least of some numbers is a lower bound.
LEMMA MinBounds == ASSUME NEW S \in SUBSET Nat, S # {} PROVE Min(S) \in Nat /\ \A x \in S : Min(S) <= x
<1>1. PICK a \in S : \A x \in S : a =< x
  BY LeastNat
<1>2. S \subseteq Int /\ \A x \in S : a <= x
  BY <1>1
<1>3. Min(S) = a
  BY <1>2, MinIs
<1>4. QED
  BY <1>1, <1>3

\* What TrialAssumption says of the card, the rules and the files.
LEMMA ContextTypes ==
    ASSUME NEW t \in Trials
    PROVE  /\ t.card.field \in Nat /\ t.card.text \in Seq([n : Nat, unit : {"", "k", "m"}]) /\ t.contexts \subseteq Nat
           /\ \A r \in t.rules : /\ r.format \in {{"safetensors"}, {"gguf"}} /\ r.mtp \in BOOLEAN
                                /\ r.maximum \in Nat
           /\ IsFiniteSet(t.rules) /\ IsFiniteSet(t.tree)
           /\ \A f \in t.tree : f.size \in Int /\ f.label \in Nat
           /\ \A i \in t.index : i.mtp \in BOOLEAN
  BY TrialAssumption DEF IsTrial

\* A number of thousands or millions is a number.
LEMMA TimesType == ASSUME NEW n \in Nat, NEW unit PROVE n * Times(unit) \in Nat
<1>1. Times(unit) \in Nat
  BY SMT DEF Times
<1>2. \A a, b \in Nat : a * b \in Nat
  BY SMT
<1>3. QED
  BY <1>1, <1>2

\* What the card states is a number of tokens.
LEMMA CardContextType == ASSUME NEW t \in Trials PROVE CardContext(t.card) \in Nat
<1> DEFINE card == t.card
           said == {i \in DOMAIN card.text : card.text[i].n > 0}
           first == card.text[Min(said)]
<1>1. card.field \in Nat /\ card.text \in Seq([n : Nat, unit : {"", "k", "m"}])
  BY ContextTypes
<1> HIDE DEF card
<1>a. DOMAIN card.text \subseteq Nat /\ \A i \in DOMAIN card.text : card.text[i] \in [n : Nat, unit : {"", "k", "m"}]
  <2> HIDE DEF said, first
  <2> QED
    BY <1>1, SeqIs
<1>2. CASE said # {}
  <2>1. said \in SUBSET Nat /\ said \subseteq DOMAIN card.text
    BY <1>a
  <2>2. Min(said) \in said
    <3> HIDE DEF said
    <3> QED
      BY <1>2, <2>1, SetOfNumbersHasMin
  <2>3. first \in [n : Nat, unit : {"", "k", "m"}]
    BY <1>a, <2>1, <2>2
  <2> HIDE DEF first, said
  <2>4. first.n \in Nat /\ first.unit \in {"", "k", "m"}
    BY <2>3
  <2>5. first.n * Times(first.unit) \in Nat
    BY <2>4, TimesType
  <2>6. CardContext(card) = IF card.field > 0 THEN card.field ELSE first.n * Times(first.unit)
    BY <1>2 DEF CardContext, said, first
  <2>7. QED
    BY <1>1, <2>5, <2>6 DEF card
<1>3. CASE said = {}
  <2>1. CardContext(card) = IF card.field > 0 THEN card.field ELSE 0
    BY <1>3 DEF CardContext
  <2> HIDE DEF said, first
  <2>2. CardContext(card) \in Nat
    <3> DEFINE f == card.field
    <3>1. f \in Nat /\ 0 \in Nat
      BY <1>1
    <3> HIDE DEF f
    <3>2. (IF f > 0 THEN f ELSE 0) \in Nat
      BY <3>1
    <3>3. QED
      BY <2>1, <3>2 DEF f
  <2>3. QED
    BY <2>2 DEF card
<1>4. QED
  BY <1>2, <1>3

\* The bound on the context is within the card and every statement of the configuration.
LEMMA ContextMaxIs ==
    ASSUME NEW t \in Trials, ValidContext(t)
    PROVE  /\ ContextMax(t) \in Int /\ ContextMax(t) <= CardContext(t.card)
           /\ \A n \in t.contexts : n \in Nat /\ ContextMax(t) <= n
<1>1. t.contexts \in SUBSET Nat /\ t.contexts # {}
  BY ContextTypes DEF ValidContext
<1>2. Min(t.contexts) \in Nat /\ \A x \in t.contexts : Min(t.contexts) <= x
  BY <1>1, MinBounds
<1>3. ContextMax(t) \in Int /\ ContextMax(t) <= CardContext(t.card) /\ ContextMax(t) <= Min(t.contexts)
  <2> DEFINE a == CardContext(t.card)
             b == Min(t.contexts)
  <2>1. a \in Int /\ b \in Int
    BY <1>2, CardContextType
  <2> HIDE DEF a, b
  <2>2. Min({a, b}) \in Int /\ Min({a, b}) <= a /\ Min({a, b}) <= b
    BY <2>1, MinOfTwo
  <2>3. QED
    BY <2>2 DEF ContextMax, a, b
<1>4. QED
  BY <1>1, <1>2, <1>3

--------------------------------------------------------------------------
\* The quantization chosen is a complete one.
LEMMA GroupIs ==
    ASSUME NEW t \in Trials, NEW g \in GGUFGroups(t.tree)
    PROVE  /\ g # {} /\ g \subseteq OfKind(t.tree, {"gguf"}) /\ g \subseteq t.tree /\ IsFiniteSet(g)
           /\ GroupLabel(g) \in Nat
           /\ \A f \in g : f.label = GroupLabel(g) /\ f.bits >= MinimumBits
<1> DEFINE usable == {f \in OfKind(t.tree, {"gguf"}) : f.label # 0 /\ f.bits >= MinimumBits}
<1>1. PICK h \in usable : g = {f \in usable : f.label = h.label}
  BY DEF GGUFGroups
<1>2. g # {} /\ g \subseteq OfKind(t.tree, {"gguf"}) /\ g \subseteq t.tree
  BY <1>1 DEF OfKind
<1>3. IsFiniteSet(g)
  BY <1>2, ContextTypes, FS_Subset
<1>4. (CHOOSE f \in g : TRUE) \in g
  BY <1>2
<1>5. GroupLabel(g) = h.label
  BY <1>1, <1>4 DEF GroupLabel
<1>6. h \in t.tree
  BY <1>1 DEF OfKind
<1>7. QED
  BY <1>1, <1>2, <1>3, <1>5, <1>6, ContextTypes

\* The size of a quantization is a number.
LEMMA GroupSizeType ==
    ASSUME NEW t \in Trials, ValidTree(t.tree), NEW g \in GGUFGroups(t.tree) PROVE GroupSize(g) \in Nat
<1>1. g \subseteq t.tree /\ IsFiniteSet(g)
  BY GroupIs
<1>2. \A f \in g : f.size \in Nat
  <2>1. \A f \in t.tree : f.size >= 0
    BY DEF ValidTree
  <2>2. \A f \in t.tree : f.size \in Int
    BY ContextTypes
  <2>3. QED
    BY <1>1, <2>1, <2>2
<1>3. [f \in g |-> f.size] \in [g -> Nat]
  BY <1>2
<1>4. QED
  BY <1>1, <1>3, SumType DEF GroupSize

\* Among the complete quantizations one is the smallest, so the choice is one of them.
LEMMA GGUFWeightsComplete ==
    ASSUME NEW t \in Trials, ValidTree(t.tree), CompleteGroups(t.tree) # {}
    PROVE  GGUFWeights(t.tree) \in CompleteGroups(t.tree)
<1> DEFINE Gs == CompleteGroups(t.tree)
           Sizes == {GroupSize(g) : g \in Gs}
<1>1. \A g \in Gs : GroupSize(g) \in Nat /\ GroupLabel(g) \in Nat
  BY GroupSizeType, GroupIs DEF CompleteGroups
<1>2. PICK n \in Sizes : \A k \in Sizes : n <= k
  <2>1. Sizes \in SUBSET Nat /\ Sizes # {}
    BY <1>1
  <2> HIDE DEF Sizes
  <2>2. QED
    BY <2>1, LeastNat
<1> DEFINE Labels == {GroupLabel(g) : g \in {h \in Gs : GroupSize(h) = n}}
<1>3. PICK l \in Labels : \A k \in Labels : l <= k
  <2>1. Labels \in SUBSET Nat /\ Labels # {}
    BY <1>1, <1>2
  <2> HIDE DEF Labels
  <2>2. QED
    BY <2>1, LeastNat
<1>4. PICK g \in Gs : GroupSize(g) = n /\ GroupLabel(g) = l
  BY <1>3
<1>5. ASSUME NEW h \in Gs PROVE Smaller(g, h)
  <2>1. GroupSize(h) \in Sizes /\ n <= GroupSize(h) /\ (GroupSize(h) = n => GroupLabel(h) \in Labels)
    BY <1>2
  <2>2. n \in Nat /\ GroupSize(h) \in Nat
    BY <1>1, <1>4
  <2> HIDE DEF Gs, Sizes, Labels
  <2>3. QED
    BY <1>3, <1>4, <2>1, <2>2 DEF Smaller
<1>6. QED
  BY <1>4, <1>5 DEF GGUFWeights

\* A complete quantization has every one of its shards once.
LEMMA ShardsOnce ==
    ASSUME NEW g, IsFiniteSet(g), CompleteShards(g), NEW f \in g, f.shard # <<>>, NEW i \in 1..f.shard[2]
    PROVE  Cardinality({h \in g : h.shard[1] = i}) = 1
<1> DEFINE n == Cardinality(g)
           nr == [h \in g |-> h.shard[1]]
<1>1. f.shard[2] = n /\ {h.shard[1] : h \in g} = 1..n
  BY DEF CompleteShards
<1>2. n \in Nat
  BY FS_CardinalityType
<1>3. nr \in Surjection(g, 1..n)
  BY <1>1 DEF Surjection
<1>4. Cardinality(1..n) = n
  <2> HIDE DEF n
  <2> QED
    BY <1>2, FS_Interval
<1>5. nr \in Injection(g, 1..n)
  <2> HIDE DEF nr
  <2> QED
    BY <1>3, <1>4, FS_SurjSameCardinalityImpliesInj
<1>6. PICK h \in g : h.shard[1] = i
  BY <1>1
<1>7. {k \in g : k.shard[1] = i} = {h}
  <2> SUFFICES ASSUME NEW k \in g, k.shard[1] = i PROVE k = h
    BY <1>6
  <2>1. nr[k] = nr[h]
    BY <1>6
  <2> HIDE DEF nr
  <2>2. QED
    BY <1>5, <2>1 DEF Injection, IsInjective
<1>8. QED
  BY <1>7, FS_Singleton

--------------------------------------------------------------------------
\* The plan.

\* What is refused unless it holds, of a trial that may be selected.
Acceptable(t) == ValidTree(t.tree) /\ ValidCandidates(t) /\ ValidContext(t) /\ Servable(t) # {}

\* The candidate that is chosen may be served and is one of the two there are.
LEMMA ChosenIs ==
    ASSUME NEW t, Acceptable(t)
    PROVE  /\ Chosen(t) \in Servable(t)
           /\ \/ HasSafetensors(t) /\ Chosen(t) = Safetensors(t)
              \/ HasGGUF(t) /\ Chosen(t) = GGUF(t)
<1>1. Safetensors(t).format = "safetensors" /\ GGUF(t).format = "gguf"
  BY DEF Safetensors, GGUF, Candidate
<1>2. \A c \in Servable(t) : \/ HasSafetensors(t) /\ c = Safetensors(t)
                             \/ HasGGUF(t) /\ c = GGUF(t)
  BY DEF Servable, WeightChoices
<1> DEFINE Suits(c) == \A d \in Servable(t) : c.format = "safetensors" \/ d.format = "gguf"
<1>3. \E c \in Servable(t) : Suits(c)
  <2>1. CASE \E c \in Servable(t) : c.format = "safetensors"
    BY <2>1
  <2>2. CASE ~\E c \in Servable(t) : c.format = "safetensors"
    <3>1. \A d \in Servable(t) : d.format = "gguf"
      BY <1>1, <1>2, <2>2
    <3>2. Servable(t) # {}
      BY DEF Acceptable
    <3>3. QED
      BY <3>1, <3>2
  <2>3. QED
    BY <2>1, <2>2
<1>4. Chosen(t) \in Servable(t)
  BY <1>3 DEF Chosen
<1>5. QED
  BY <1>2, <1>4

\* The rule is the only one that matches.
LEMMA RuleIs ==
    ASSUME NEW t \in Trials, NEW c, Serves(t, c)
    PROVE  /\ Matching(t.rules, c) = {RuleOf(t, c)} /\ RuleOf(t, c) \in t.rules
           /\ c.format \in RuleOf(t, c).format /\ RuleOf(t, c).mtp = c.mtp
           /\ t.ask.engine \in {"auto", RuleOf(t, c).engine}
<1>1. Matching(t.rules, c) \in SUBSET t.rules
  BY DEF Matching
<1>2. IsFiniteSet(Matching(t.rules, c))
  BY <1>1, ContextTypes, FS_Subset
<1>3. Cardinality(Matching(t.rules, c)) = 1
  BY DEF Serves, OneRule
<1>4. PICK r : Matching(t.rules, c) = {r}
  BY <1>2, <1>3, FS_Singleton
<1>5. RuleOf(t, c) = r
  BY <1>4 DEF RuleOf
<1>6. r \in Matching(t.rules, c)
  BY <1>4
<1>7. r \in t.rules /\ c.format \in r.format /\ r.mtp = c.mtp
  BY <1>6 DEF Matching
<1>8. t.ask.engine \in {"auto", r.engine}
  BY <1>4 DEF Serves
<1>9. QED
  BY <1>4, <1>5, <1>7, <1>8

\* What the properties say of a plan.
WholePlan(t, p) ==
    /\ p.files \ p.weights \subseteq OfKind(t.tree, {"metadata"})
    /\ p.format = "safetensors" => {i.file : i \in t.index} \subseteq Names(p.weights)
    /\ p.format = "gguf" =>
          \A f \in p.weights :
            /\ f.bits >= MinimumBits /\ \A g \in p.weights : g.label = f.label
            /\ f.shard # <<>> => \A i \in 1..f.shard[2] :
                                    Cardinality({g \in p.weights : g.shard[1] = i}) = 1
Within(t, p) ==
    /\ p.context > 0 /\ \A n \in t.contexts : p.context <= n
    /\ p.context <= CardContext(t.card) /\ p.context <= p.rule.maximum
    /\ t.ask.context # <<>> => p.context = t.ask.context[1]
HeadsOf(t, p) ==
    IF p.format = "safetensors" THEN {i \in t.index : i.mtp}
    ELSE {f \in t.tree : f.kind = "mtp" /\ \E w \in p.weights : w.label = f.label}
Ruled(t, p) ==
    /\ p.rule.mtp <=> HeadsOf(t, p) # {}
    /\ \A r \in t.rules :
        \/ r = p.rule \/ r.mtp # p.rule.mtp \/ p.format \notin r.format
        \/ p.quantization \notin r.quantization \/ p.architecture \notin r.architecture
    /\ p.architecture = IF p.format = "safetensors" THEN t.arch.config ELSE t.arch.gguf
    /\ t.ask.engine \in {"auto", p.rule.engine}
OfTheTree(t, p) == p.weights \subseteq p.files /\ p.files \subseteq t.tree /\ p.rule \in t.rules

\* A plan, field by field.
LEMMA PlanIs ==
    ASSUME trial \in Trials, Acceptable(trial), NEW p, p = Selection(Chosen(trial))
    PROVE  LET c == Chosen(trial) IN
           /\ p.format = c.format /\ p.quantization = c.quantization /\ p.architecture = c.architecture
           /\ p.weights = c.weights /\ p.rule = RuleOf(trial, c)
           /\ p.files = c.weights \union MetadataPaths(trial.tree)
           /\ p.context = ContextFor(trial, RuleOf(trial, c))
<1> DEFINE c == Chosen(trial)
           rule == RuleOf(trial, c)
<1>1. c \in Servable(trial) /\ c.format \in {"safetensors", "gguf"}
  BY ChosenIs DEF Safetensors, GGUF, Candidate
<1>2. Serves(trial, c)
  BY <1>1 DEF Servable
<1>3. rule \in trial.rules /\ c.format \in rule.format
  BY <1>2, RuleIs
<1>4. rule.format \in {{"safetensors"}, {"gguf"}}
  BY <1>3, ContextTypes
<1> HIDE DEF c, rule
<1>5. c.format = IF rule.format = {"safetensors"} THEN "safetensors" ELSE "gguf"
  BY <1>1, <1>3, <1>4
<1>6. p = Selection(c)
  BY DEF c
<1>7. QED
  BY <1>5, <1>6 DEF Selection, rule, c

\* The context of the plan keeps to every limit.
LEMMA PlanWithin ==
    ASSUME trial \in Trials, Acceptable(trial), InBounds(trial, RuleOf(trial, Chosen(trial))),
           NEW p, p = Selection(Chosen(trial))
    PROVE  Within(trial, p)
<1> DEFINE rule == RuleOf(trial, Chosen(trial))
<1>1. p.rule = rule /\ p.context = ContextFor(trial, rule)
  BY PlanIs
<1>2. p.context \in 1..Min({ContextMax(trial), rule.maximum})
  BY <1>1 DEF InBounds
<1>3. rule \in trial.rules
  BY ChosenIs, RuleIs DEF Servable
<1>4. rule.maximum \in Nat
  BY <1>3, ContextTypes
<1>5. /\ ContextMax(trial) \in Int /\ ContextMax(trial) <= CardContext(trial.card)
      /\ \A n \in trial.contexts : n \in Nat /\ ContextMax(trial) <= n
  BY ContextMaxIs DEF Acceptable
<1>6. CardContext(trial.card) \in Nat
  BY CardContextType
<1> DEFINE a == ContextMax(trial)
           b == rule.maximum
           x == p.context
           m == Min({a, b})
<1>7. m \in Int /\ m <= a /\ m <= b
  BY <1>4, <1>5, MinOfTwo
<1>8. x \in Int /\ x > 0 /\ x <= a /\ x <= b
  <2>1. x \in 1..m /\ a \in Int /\ b \in Int
    BY <1>2, <1>4, <1>5
  <2> HIDE DEF x, m, a, b
  <2>2. QED
    BY <1>7, <2>1
<1>9. trial.ask.context # <<>> => p.context = trial.ask.context[1]
  BY <1>1 DEF ContextFor
<1> DEFINE card == CardContext(trial.card)
<1>10. x <= card /\ \A n \in trial.contexts : x <= n
  <2> HIDE DEF x, a, card
  <2>1. a <= card /\ card \in Int /\ \A n \in trial.contexts : n \in Int /\ a <= n
    BY <1>5, <1>6 DEF a, card
  <2>2. a \in Int
    BY <1>5 DEF a
  <2>3. QED
    BY <1>8, <2>1, <2>2
<1>11. QED
  BY <1>1, <1>8, <1>9, <1>10 DEF Within

\* The two candidates.
LEMMA SafetensorsIs ==
    ASSUME NEW t \in Trials, Acceptable(t), HasSafetensors(t), NEW c, c = Safetensors(t)
    PROVE  /\ c.format = "safetensors" /\ c.architecture = t.arch.config /\ c.weights \subseteq t.tree
           /\ {i.file : i \in t.index} \subseteq Names(c.weights)
           /\ c.mtp <=> {i \in t.index : i.mtp} # {}
<1>1. /\ c.format = "safetensors" /\ c.architecture = t.arch.config
      /\ c.weights = SafetensorsWeights(t.tree, t.index) /\ c.mtp = \E i \in t.index : i.mtp
  BY DEF Safetensors, Candidate
<1>2. c.weights \subseteq t.tree
  BY <1>1 DEF SafetensorsWeights, OfKind
<1>3. {i.file : i \in t.index} \subseteq Names(OfKind(t.tree, {"safetensors"}))
  BY DEF Acceptable, ValidCandidates, CompleteSafetensors
<1>4. ASSUME NEW i \in t.index PROVE i.file \in Names(c.weights)
  <2>1. PICK f \in t.tree : f.name = i.file
    BY <1>3 DEF Names, OfKind
  <2>2. f \in c.weights
    BY <1>1, <2>1 DEF SafetensorsWeights
  <2>3. QED
    BY <2>1, <2>2 DEF Names
<1>5. c.mtp <=> {i \in t.index : i.mtp} # {}
  <2>1. (\E i \in t.index : i.mtp) <=> {i \in t.index : i.mtp} # {}
    OBVIOUS
  <2>2. QED
    BY <1>1, <2>1
<1>6. QED
  BY <1>1, <1>2, <1>4, <1>5

\* The GGUF candidate is a complete quantization, with a head if one of its label is there.
LEMMA GGUFIs ==
    ASSUME NEW t \in Trials, Acceptable(t), HasGGUF(t), NEW c, c = GGUF(t)
    PROVE  /\ c.format = "gguf" /\ c.architecture = t.arch.gguf /\ c.weights \subseteq t.tree
           /\ c.weights \in CompleteGroups(t.tree)
           /\ c.mtp <=> {f \in t.tree : f.kind = "mtp" /\ \E w \in c.weights : w.label = f.label} # {}
<1> DEFINE weights == GGUFWeights(t.tree)
<1>1. /\ c.format = "gguf" /\ c.architecture = t.arch.gguf /\ c.weights = weights
      /\ c.mtp = \E f \in OfKind(t.tree, {"mtp"}) : f.label = GroupLabel(weights)
  BY DEF GGUF, Candidate
<1>2. weights \in CompleteGroups(t.tree)
  BY GGUFWeightsComplete DEF Acceptable, ValidCandidates
<1>3. /\ weights # {} /\ weights \subseteq t.tree /\ \A f \in weights : f.label = GroupLabel(weights)
  BY <1>2, GroupIs DEF CompleteGroups
<1> HIDE DEF weights
<1>4. \A f : f.label = GroupLabel(weights) <=> \E w \in weights : w.label = f.label
  BY <1>3
<1>5. (\E f \in OfKind(t.tree, {"mtp"}) : f.label = GroupLabel(weights))
      <=> {f \in t.tree : f.kind = "mtp" /\ \E w \in weights : w.label = f.label} # {}
  BY <1>4 DEF OfKind
<1>6. QED
  BY <1>1, <1>2, <1>3, <1>5

\* The weights of the plan are one whole set of files of the tree.
LEMMA PlanWhole ==
    ASSUME trial \in Trials, Acceptable(trial), NEW p, p = Selection(Chosen(trial))
    PROVE  WholePlan(trial, p) /\ OfTheTree(trial, p)
<1> DEFINE c == Chosen(trial)
<1>1. /\ p.format = c.format /\ p.weights = c.weights /\ p.rule = RuleOf(trial, c)
      /\ p.files = c.weights \union MetadataPaths(trial.tree)
  BY PlanIs
<1>2. c \in Servable(trial)
  BY ChosenIs
<1>3. RuleOf(trial, c) \in trial.rules
  BY <1>2, RuleIs DEF Servable
<1>4. (HasSafetensors(trial) /\ c = Safetensors(trial)) \/ (HasGGUF(trial) /\ c = GGUF(trial))
  BY ChosenIs
<1> HIDE DEF c
<1>5. c.weights \subseteq trial.tree
  BY <1>4, SafetensorsIs, GGUFIs
<1>6. MetadataPaths(trial.tree) \subseteq OfKind(trial.tree, {"metadata"}) /\ MetadataPaths(trial.tree) \subseteq trial.tree
  BY DEF MetadataPaths, OfKind
<1>7. OfTheTree(trial, p)
  BY <1>1, <1>3, <1>5, <1>6 DEF OfTheTree
<1>8. p.files \ p.weights \subseteq OfKind(trial.tree, {"metadata"})
  BY <1>1, <1>6
<1>9. p.format = "safetensors" => {i.file : i \in trial.index} \subseteq Names(p.weights)
  BY <1>1, <1>4, SafetensorsIs, GGUFIs
<1>10. ASSUME p.format = "gguf", NEW f \in p.weights
       PROVE  /\ f.bits >= MinimumBits /\ \A g \in p.weights : g.label = f.label
              /\ f.shard # <<>> => \A i \in 1..f.shard[2] :
                                      Cardinality({g \in p.weights : g.shard[1] = i}) = 1
  <2>1. p.weights \in CompleteGroups(trial.tree)
    BY <1>1, <1>4, <1>10, SafetensorsIs, GGUFIs
  <2>2. p.weights \in GGUFGroups(trial.tree) /\ CompleteShards(p.weights)
    BY <2>1 DEF CompleteGroups
  <2>3. /\ IsFiniteSet(p.weights)
        /\ \A g \in p.weights : g.label = GroupLabel(p.weights) /\ g.bits >= MinimumBits
    BY <2>2, GroupIs
  <2>4. f.shard # <<>> => \A i \in 1..f.shard[2] : Cardinality({g \in p.weights : g.shard[1] = i}) = 1
    BY <1>10, <2>2, <2>3, ShardsOnce
  <2>5. QED
    BY <1>10, <2>3, <2>4
<1>11. QED
  BY <1>7, <1>8, <1>9, <1>10 DEF WholePlan

\* The rule of the plan is the only one for its weights.
LEMMA PlanRuled ==
    ASSUME trial \in Trials, Acceptable(trial), NEW p, p = Selection(Chosen(trial))
    PROVE  Ruled(trial, p)
<1> DEFINE c == Chosen(trial)
           rule == RuleOf(trial, c)
<1>1. /\ p.format = c.format /\ p.quantization = c.quantization /\ p.architecture = c.architecture
      /\ p.weights = c.weights /\ p.rule = rule
  BY PlanIs
<1>2. Serves(trial, c)
  BY ChosenIs DEF Servable
<1>3. /\ Matching(trial.rules, c) = {rule} /\ rule \in trial.rules
      /\ rule.mtp = c.mtp /\ trial.ask.engine \in {"auto", rule.engine}
  BY <1>2, RuleIs
<1>4. rule.mtp \in BOOLEAN /\ \A r \in trial.rules : r.mtp \in BOOLEAN
  BY <1>3, ContextTypes
<1>5. (HasSafetensors(trial) /\ c = Safetensors(trial)) \/ (HasGGUF(trial) /\ c = GGUF(trial))
  BY ChosenIs
<1> HIDE DEF c, rule
<1>6. /\ c.mtp <=> HeadsOf(trial, p) # {}
      /\ c.architecture = IF p.format = "safetensors" THEN trial.arch.config ELSE trial.arch.gguf
  <2>1. CASE HasSafetensors(trial) /\ c = Safetensors(trial)
    <3>1. /\ c.format = "safetensors" /\ c.architecture = trial.arch.config
          /\ c.mtp <=> {i \in trial.index : i.mtp} # {}
      BY <2>1, SafetensorsIs
    <3>2. QED
      BY <1>1, <3>1 DEF HeadsOf
  <2>2. CASE HasGGUF(trial) /\ c = GGUF(trial)
    <3>1. /\ c.format = "gguf" /\ c.architecture = trial.arch.gguf
          /\ c.mtp <=> {f \in trial.tree : f.kind = "mtp" /\ \E w \in c.weights : w.label = f.label} # {}
      BY <2>2, GGUFIs
    <3>2. QED
      BY <1>1, <3>1 DEF HeadsOf
  <2>3. QED
    BY <1>5, <2>1, <2>2
<1>7. \A r \in trial.rules :
        \/ r = p.rule \/ r.mtp # p.rule.mtp \/ p.format \notin r.format
        \/ p.quantization \notin r.quantization \/ p.architecture \notin r.architecture
  <2> SUFFICES ASSUME NEW r \in trial.rules, r.mtp = p.rule.mtp, p.format \in r.format,
                      p.quantization \in r.quantization, p.architecture \in r.architecture
               PROVE  r = p.rule
    OBVIOUS
  <2>1. r \in Matching(trial.rules, c)
    BY <1>1, <1>3 DEF Matching
  <2>2. QED
    BY <1>1, <1>3, <2>1
<1>8. p.rule.mtp <=> HeadsOf(trial, p) # {}
  BY <1>1, <1>3, <1>6
<1>9. p.architecture = IF p.format = "safetensors" THEN trial.arch.config ELSE trial.arch.gguf
  BY <1>1, <1>6
<1>10. QED
  BY <1>1, <1>3, <1>7, <1>8, <1>9 DEF Ruled

--------------------------------------------------------------------------
\* The trial, step by step.

(***************************************************************************)
(* What holds of a trial at every moment.  A model that is served was      *)
(* admitted by the policy on the day of the last projection, and a policy  *)
(* once valid stays so: that is what bounds how long it is served.         *)
(***************************************************************************)
TrialInvariant ==
    /\ trial \in Trials /\ verdict \in {"walking", "refused", "selected"}
    /\ TrialTypeOK /\ IsFiniteSet(DOMAIN infos)
    /\ verdict = "walking" => day = trial.today /\ ~listed
    /\ listed => Admits(trial.id, trial.policy, day)
    /\ OnlyYoungOrigins /\ WholeWeights /\ WithinEveryLimit /\ OneRuleForTheWeights

\* The greater of two numbers.
LEMMA MaxOfTwo ==
    ASSUME NEW a \in Int, NEW b \in Int
    PROVE  Max({a, b}) \in Int /\ a <= Max({a, b}) /\ b <= Max({a, b})
<1> DEFINE P(x) == \A y \in {a, b} : x >= y
<1>1. \E x \in {a, b} : P(x)
  <2>1. CASE a <= b
    BY <2>1
  <2>2. CASE b <= a
    BY <2>2
  <2>3. QED
    BY <2>1, <2>2
<1> DEFINE m == CHOOSE x \in {a, b} : P(x)
<1>2. m \in {a, b} /\ P(m)
  <2> HIDE DEF P
  <2> QED
    BY <1>1
<1>3. Max({a, b}) = m
  BY DEF Max
<1> HIDE DEF m
<1>4. QED
  BY <1>2, <1>3

\* Nothing is said of a trial that is not selected.
LEMMA NotSelected ==
    ~Selected => OnlyYoungOrigins /\ WholeWeights /\ WithinEveryLimit /\ OneRuleForTheWeights
  BY DEF OnlyYoungOrigins, WholeWeights, WithinEveryLimit, OneRuleForTheWeights

\* The invariant holds at the start of a trial.
LEMMA TrialStarts == TrialInit => TrialInvariant
<1> SUFFICES ASSUME TrialInit PROVE TrialInvariant
  OBVIOUS
<1>1. /\ trial \in Trials /\ day = trial.today /\ infos = <<>> /\ verdict = "walking" /\ listed = FALSE
  BY DEF TrialInit
<1>2. ~Selected
  BY <1>1 DEF Selected
<1>3. OnlyYoungOrigins /\ WholeWeights /\ WithinEveryLimit /\ OneRuleForTheWeights
  BY <1>2, NotSelected
<1>4. DOMAIN infos = {} /\ IsFiniteSet(DOMAIN infos) /\ Cardinality(DOMAIN infos) = 0
  <2>1. DOMAIN infos = {}
    BY <1>1
  <2>2. QED
    BY <2>1, FS_EmptySet
<1>5. day \in trial.today..Max({trial.today, LastDay})
  <2>1. trial.today \in Int /\ LastDay \in Int
    BY <1>1, TrialFacts, TrialAssumption
  <2>2. Max({trial.today, LastDay}) \in Int /\ trial.today <= Max({trial.today, LastDay})
    BY <2>1, MaxOfTwo
  <2>3. QED
    BY <1>1, <2>1, <2>2
<1>6. TrialTypeOK
  <2>1. Cardinality(DOMAIN infos) <= MaxInfos
    BY <1>4, TrialAssumption
  <2>2. DOMAIN infos \subseteq DOMAIN trial.hub /\ listed \in BOOLEAN
    BY <1>1, <1>4
  <2>3. QED
    BY <1>2, <1>5, <2>1, <2>2 DEF TrialTypeOK
<1>7. QED
  BY <1>1, <1>3, <1>4, <1>6 DEF TrialInvariant

\* Reading a base model keeps the invariant: the walk stays within its bound.
LEMMA ReadKeeps == ASSUME TrialInvariant, ReadUpstream PROVE TrialInvariant'
<1> DEFINE base == Head(pending)
<1>1. /\ verdict = "walking" /\ UNCHANGED <<trial, plan, day, listed>>
      /\ \/ /\ MayRead /\ base \in DOMAIN trial.hub
            /\ infos' = [m \in DOMAIN infos \union {base} |-> trial.hub[m]] /\ verdict' = verdict
         \/ verdict' = "refused" /\ infos' = infos
  BY DEF ReadUpstream
<1>2. /\ trial \in Trials /\ TrialTypeOK /\ IsFiniteSet(DOMAIN infos)
      /\ day = trial.today /\ ~listed
  BY <1>1 DEF TrialInvariant
<1>3. verdict' \in {"walking", "refused"} /\ ~Selected'
  BY <1>1 DEF Selected
<1>4. (OnlyYoungOrigins /\ WholeWeights /\ WithinEveryLimit /\ OneRuleForTheWeights)'
  BY <1>3, NotSelected, PTL
<1>5. DOMAIN infos \subseteq DOMAIN trial.hub /\ Cardinality(DOMAIN infos) <= MaxInfos
  BY <1>2 DEF TrialTypeOK
<1>6. IsFiniteSet(DOMAIN infos') /\ DOMAIN infos' \subseteq DOMAIN trial.hub /\ Cardinality(DOMAIN infos') <= MaxInfos
  <2>1. CASE infos' = infos
    BY <1>2, <1>5, <2>1
  <2>2. CASE /\ MayRead /\ base \in DOMAIN trial.hub
             /\ infos' = [m \in DOMAIN infos \union {base} |-> trial.hub[m]]
    <3>1. DOMAIN infos' = DOMAIN infos \union {base}
      BY <2>2
    <3> HIDE DEF base
    <3>2. /\ IsFiniteSet(DOMAIN infos \union {base})
          /\ Cardinality(DOMAIN infos \union {base}) = IF base \in DOMAIN infos THEN Cardinality(DOMAIN infos)
                                                      ELSE Cardinality(DOMAIN infos) + 1
      BY <1>2, FS_AddElement
    <3>3. Cardinality(DOMAIN infos) \in Nat /\ MaxInfos \in Nat
      BY <1>2, FS_CardinalityType, TrialAssumption
    <3>4. Cardinality(DOMAIN infos) < MaxInfos
      BY <2>2 DEF MayRead
    <3>5. Cardinality(DOMAIN infos \union {base}) <= MaxInfos
      BY <3>2, <3>3, <3>4
    <3>6. QED
      BY <1>5, <2>2, <3>1, <3>2, <3>5
  <2>3. QED
    BY <1>1, <2>1, <2>2
<1>7. TrialTypeOK'
  BY <1>1, <1>2, <1>3, <1>6 DEF TrialTypeOK
<1>8. QED
  BY <1>1, <1>2, <1>3, <1>4, <1>6, <1>7 DEF TrialInvariant

\* The selection keeps the invariant: what it accepts is sound.
LEMMA SelectKeeps == ASSUME TrialInvariant, Select PROVE TrialInvariant'
<1>1. /\ verdict = "walking" /\ UNCHANGED <<trial, infos, day, listed>>
      /\ \/ Accepted /\ verdict' = "selected" /\ plan' = Selection(Chosen(trial))
         \/ verdict' = "refused" /\ plan' = plan
  BY DEF Select
<1>2. /\ trial \in Trials /\ TrialTypeOK /\ IsFiniteSet(DOMAIN infos)
      /\ day = trial.today /\ ~listed
  BY <1>1 DEF TrialInvariant
<1>3. /\ day \in trial.today..Max({trial.today, LastDay}) /\ listed \in BOOLEAN
      /\ DOMAIN infos \subseteq DOMAIN trial.hub /\ Cardinality(DOMAIN infos) <= MaxInfos
  BY <1>2 DEF TrialTypeOK
<1>4. CASE verdict' = "refused" /\ plan' = plan
  <2>1. ~Selected'
    BY <1>4 DEF Selected
  <2>2. (OnlyYoungOrigins /\ WholeWeights /\ WithinEveryLimit /\ OneRuleForTheWeights)'
    BY <2>1, NotSelected, PTL
  <2>3. TrialTypeOK'
    BY <1>1, <1>3, <2>1 DEF TrialTypeOK
  <2>4. QED
    BY <1>1, <1>2, <1>4, <2>2, <2>3 DEF TrialInvariant
<1>5. CASE Accepted /\ verdict' = "selected" /\ plan' = Selection(Chosen(trial))
  <2>1. /\ PolicyAgrees /\ Acceptable(trial) /\ InBounds(trial, RuleOf(trial, Chosen(trial)))
    BY <1>5 DEF Accepted, Acceptable
  <2>2. Young
    BY <1>2, <1>3, <2>1, AgreedIsYoung DEF WalkShape
  <2>3. /\ WholePlan(trial, plan') /\ OfTheTree(trial, plan') /\ Ruled(trial, plan') /\ Within(trial, plan')
    BY <1>2, <1>5, <2>1, PlanWhole, PlanRuled, PlanWithin
  <2>4. Selected' /\ trial' = trial
    BY <1>1, <1>5 DEF Selected
  <2>5. OnlyYoungOrigins'
    BY <2>2, <2>4 DEF OnlyYoungOrigins, Young, Origins, Ancestry
  <2>6. WholeWeights'
    BY <2>3, <2>4 DEF WholeWeights, WholePlan
  <2>7. WithinEveryLimit'
    BY <2>3, <2>4 DEF WithinEveryLimit, Within
  <2>8. OneRuleForTheWeights'
    BY <2>3, <2>4 DEF OneRuleForTheWeights, Ruled, HeadsOf
  <2>9. TrialTypeOK'
    BY <1>1, <1>3, <2>3 DEF TrialTypeOK, OfTheTree
  <2>10. QED
    BY <1>1, <1>2, <1>5, <2>5, <2>6, <2>7, <2>8, <2>9 DEF TrialInvariant
<1>6. QED
  BY <1>1, <1>4, <1>5

\* A policy that is valid stays so as days go by.
LEMMA StaysValid ==
    ASSUME NEW policy, policy.as_of \in Nat, NEW d \in Int, ValidPolicy(policy, d)
    PROVE  ValidPolicy(policy, d + 1)
<1>1. policy.as_of \in 1..(d + 1)
  BY DEF ValidPolicy
<1>2. QED
  BY <1>1 DEF ValidPolicy

\* What is said of the trial and the plan stays as long as they do.
LEMMA SamePlan ==
    ASSUME UNCHANGED <<trial, verdict, plan>>, OnlyYoungOrigins, WholeWeights, WithinEveryLimit, OneRuleForTheWeights
    PROVE  OnlyYoungOrigins' /\ WholeWeights' /\ WithinEveryLimit' /\ OneRuleForTheWeights'
<1>1. OnlyYoungOrigins'
  BY DEF OnlyYoungOrigins, Selected, Origins, Ancestry
<1>2. WholeWeights'
  BY DEF WholeWeights, Selected
<1>3. WithinEveryLimit'
  BY DEF WithinEveryLimit, Selected
<1>4. OneRuleForTheWeights'
  BY DEF OneRuleForTheWeights, Selected
<1>5. QED
  BY <1>1, <1>2, <1>3, <1>4

\* A later day keeps the invariant: what stays listed is still admitted.
LEMMA ProjectKeeps == ASSUME TrialInvariant, Project PROVE TrialInvariant'
<1>1. /\ verdict # "walking" /\ day < LastDay /\ day' = day + 1
      /\ UNCHANGED <<trial, infos, pending, verdict, plan>>
      /\ listed' = IF ValidPolicy(trial.policy, day + 1)
                   THEN RegistryAllowed([lifecycle |-> trial.lifecycle, upstream_model_id |-> trial.id], trial.policy, day + 1)
                   ELSE listed
  BY DEF Project
<1>2. trial \in Trials /\ TrialTypeOK /\ IsFiniteSet(DOMAIN infos)
  BY DEF TrialInvariant
<1>3. /\ day \in trial.today..Max({trial.today, LastDay}) /\ listed \in BOOLEAN
      /\ DOMAIN infos \subseteq DOMAIN trial.hub /\ Cardinality(DOMAIN infos) <= MaxInfos
  BY <1>2 DEF TrialTypeOK
<1>4. trial.today \in Int /\ LastDay \in Int /\ trial.policy.as_of \in Nat
  BY <1>2, TrialFacts, TrialAssumption
<1>5. Max({trial.today, LastDay}) \in Int /\ LastDay <= Max({trial.today, LastDay})
  BY <1>4, MaxOfTwo
<1>6. day \in Int /\ day + 1 \in trial.today..Max({trial.today, LastDay})
  BY <1>1, <1>3, <1>4, <1>5
<1>7. listed' \in BOOLEAN
  BY <1>1, <1>3 DEF RegistryAllowed, Admits
<1>8. TrialTypeOK'
  BY <1>1, <1>2, <1>3, <1>6, <1>7 DEF TrialTypeOK, Selected
<1>9. listed' => Admits(trial.id, trial.policy, day + 1)
  <2>1. CASE ValidPolicy(trial.policy, day + 1)
    BY <1>1, <2>1 DEF RegistryAllowed
  <2>2. CASE ~ValidPolicy(trial.policy, day + 1)
    <3>1. ~ValidPolicy(trial.policy, day)
      BY <1>4, <1>6, <2>2, StaysValid
    <3>2. ~listed
      BY <3>1 DEF TrialInvariant, Admits
    <3>3. QED
      BY <1>1, <2>2, <3>2
  <2>3. QED
    BY <2>1, <2>2
<1>10. (listed => Admits(trial.id, trial.policy, day))'
  <2>1. trial' = trial /\ day' = day + 1
    BY <1>1
  <2>2. Admits(trial.id, trial.policy, day)' <=> Admits(trial.id, trial.policy, day + 1)
    BY <2>1 DEF Admits, RecordsOf, ValidPolicy, InAge, ValidDossier
  <2>3. QED
    BY <1>9, <2>2
<1>11. (OnlyYoungOrigins /\ WholeWeights /\ WithinEveryLimit /\ OneRuleForTheWeights)'
  BY <1>1, SamePlan DEF TrialInvariant
<1>12. QED
  BY <1>1, <1>2, <1>8, <1>10, <1>11 DEF TrialInvariant

\* Every step of a trial keeps the invariant.
LEMMA TrialSteps == TrialInvariant /\ [TrialNext]_trialVars => TrialInvariant'
<1> SUFFICES ASSUME TrialInvariant, [TrialNext]_trialVars PROVE TrialInvariant'
  OBVIOUS
<1>1. CASE ReadUpstream
  BY <1>1, ReadKeeps
<1>2. CASE Select
  BY <1>2, SelectKeeps
<1>3. CASE Project
  BY <1>3, ProjectKeeps
<1>4. CASE UNCHANGED trialVars
  <2>1. /\ UNCHANGED <<trial, verdict, plan>> /\ infos' = infos /\ day' = day /\ listed' = listed
    BY <1>4 DEF trialVars
  <2>2. (OnlyYoungOrigins /\ WholeWeights /\ WithinEveryLimit /\ OneRuleForTheWeights)'
    BY <2>1, SamePlan DEF TrialInvariant
  <2>3. TrialTypeOK'
    BY <2>1 DEF TrialInvariant, TrialTypeOK, Selected
  <2>4. QED
    BY <2>1, <2>2, <2>3 DEF TrialInvariant, Admits, RecordsOf, ValidPolicy, InAge, ValidDossier
<1>5. QED
  BY <1>1, <1>2, <1>3, <1>4 DEF TrialNext

\* The registry serves no longer than the record it goes by, which is as old as the oldest.
LEMMA ListedIsYoung == TrialInvariant => ServedWhileYoung
<1> SUFFICES ASSUME TrialInvariant, Selected, listed, NEW o \in Origins
             PROVE  day - trial.hub[o].created <= trial.policy.max_age_days
  BY DEF ServedWhileYoung
<1>1. PICK r \in trial.policy.models : r.id = trial.id /\ \A x \in Origins : r.upstream_created <= trial.hub[x].created
  BY DEF TrialInvariant, OnlyYoungOrigins
<1>2. r \in RecordsOf(trial.id, trial.policy)
  BY <1>1 DEF RecordsOf
<1>3. InAge(r.upstream_created, day, trial.policy)
  BY <1>2 DEF TrialInvariant, Admits
<1>4. o \in DOMAIN trial.hub
  BY DEF Origins, Ancestry
<1>5. /\ trial.hub[o].created \in Nat /\ r.upstream_created \in Nat /\ trial.policy.max_age_days \in Nat
      /\ trial.today \in Int
  BY <1>1, <1>4, TrialFacts DEF TrialInvariant
<1>6. day \in Int
  <2>1. day \in trial.today..Max({trial.today, LastDay})
    BY DEF TrialInvariant, TrialTypeOK
  <2>2. Max({trial.today, LastDay}) \in Int
    <3>1. LastDay \in Int
      BY TrialAssumption
    <3>2. QED
      BY <1>5, <3>1, MaxOfTwo
  <2>3. QED
    BY <1>5, <2>1, <2>2
<1>7. r.upstream_created <= trial.hub[o].created /\ day - r.upstream_created <= trial.policy.max_age_days
  BY <1>1, <1>3, <1>5, <1>6 DEF InAge
<1>8. QED
  BY <1>5, <1>6, <1>7

\* The invariant holds throughout every trial (upstream.yml, select_model_trial and the
\* registry's filter on the days after).
THEOREM TrialSafe == TrialSpec => []TrialInvariant
<1>1. TrialInit => TrialInvariant
  BY TrialStarts
<1>2. TrialInvariant /\ [TrialNext]_trialVars => TrialInvariant'
  BY TrialSteps
<1>3. QED
  BY <1>1, <1>2, PTL DEF TrialSpec

\* Whatever the Hub says and is asked for, a model that is selected may be served:
\* young origins, whole weights, a context within every limit and one rule
\* (select_model_trial, registry_policy_reason).
THEOREM TrialsAreSound == TrialSpec => []TrialIsSound
<1>1. TrialInvariant => TrialIsSound
  BY ListedIsYoung DEF TrialInvariant, TrialIsSound
<1>2. QED
  BY <1>1, TrialSafe, PTL

(***************************************************************************)
(* The three decision procedures side by side.  The one that decides keeps *)
(* its invariant, the others stand still with their types.                 *)
(***************************************************************************)
ScopeInv == ScopeInvariant /\ TargetsHold
RequestInv == RequestInvariant /\ TypesHold
DecisionsInv ==
    /\ active = "scope" => ScopeInv
    /\ active = "trial" => TrialInvariant
    /\ active = "request" => RequestInv
    /\ DecisionsTypeOK

LEMMA EachHasTypes ==
    (ScopeInv => TypeOK) /\ (TrialInvariant => TrialTypeOK) /\ (RequestInv => RequestTypeOK)
  BY ScopeHasTypes, RequestHasTypes DEF ScopeInv, RequestInv, TrialInvariant

LEMMA ScopeRestHasTypes == ScopeRests => TypeOK
<1> SUFFICES ASSUME ScopeRests PROVE TypeOK
  OBVIOUS
<1>1. /\ pc = "done" /\ selected = {} /\ todo = {} /\ open = {} /\ units = {}
      /\ changed = {} /\ left = {} /\ sel = Nothing
  BY DEF ScopeRests, NoPacking
<1>2. sel.pytest = {} /\ sel.ansible = {} /\ sel.router = {}
  BY <1>1 DEF Nothing
<1>3. QED
  BY <1>1, <1>2 DEF TypeOK

LEMMA TrialRestHasTypes == TrialRests => TrialTypeOK
<1> SUFFICES ASSUME TrialRests PROVE TrialTypeOK
  OBVIOUS
<1>1. /\ day = trial.today /\ infos = <<>> /\ verdict = "refused" /\ listed = FALSE /\ trial.today = 7
  BY DEF TrialRests, InOrder
<1>2. DOMAIN infos = {} /\ Cardinality(DOMAIN infos) = 0
  <2>1. DOMAIN infos = {}
    BY <1>1
  <2>2. QED
    BY <2>1, FS_EmptySet
<1>3. Max({trial.today, LastDay}) \in Int /\ trial.today <= Max({trial.today, LastDay})
  <2>1. trial.today \in Int /\ LastDay \in Int
    BY <1>1, TrialAssumption
  <2>2. QED
    BY <2>1, MaxOfTwo
<1>4. day \in trial.today..Max({trial.today, LastDay})
  BY <1>1, <1>3
<1>5. Cardinality(DOMAIN infos) <= MaxInfos
  BY <1>2, TrialAssumption
<1>6. ~Selected /\ listed \in BOOLEAN
  BY <1>1 DEF Selected
<1>7. DOMAIN infos \subseteq DOMAIN trial.hub
  BY <1>2
<1>8. QED
  BY <1>4, <1>5, <1>6, <1>7 DEF TrialTypeOK

LEMMA RequestRestHasTypes == RequestRests => RequestTypeOK
<1> SUFFICES ASSUME RequestRests PROVE RequestTypeOK
  OBVIOUS
<1>1. /\ at = "done" /\ posts = 0 /\ hop = 0 /\ call.to = None /\ unlogged = {} /\ answer.status = "refused"
  BY DEF RequestRests
<1>2. PICK line : records = {line}
  BY DEF RequestRests
<1>3. Cardinality(records) = 1
  BY <1>2, FS_Singleton
<1>4. QED
  BY <1>1, <1>3, RequestAssumption DEF RequestTypeOK, Steps, Answers

LEMMA DecisionsStart == DecisionsInit => DecisionsInv
<1>1. active = "scope" /\ Init /\ TrialRests /\ RequestRests => DecisionsInv
  <2>1. Init => ScopeInv
    BY ScopeStarts, PlainTargets DEF Init, ScopeInv, TargetsHold
  <2>2. QED
    BY <2>1, EachHasTypes, TrialRestHasTypes, RequestRestHasTypes DEF DecisionsInv, DecisionsTypeOK
<1>2. active = "trial" /\ TrialInit /\ ScopeRests /\ RequestRests => DecisionsInv
  BY TrialStarts, EachHasTypes, ScopeRestHasTypes, RequestRestHasTypes DEF DecisionsInv, DecisionsTypeOK
<1>3. active = "request" /\ RequestInit /\ ScopeRests /\ TrialRests => DecisionsInv
  <2>1. RequestInit => RequestInv
    BY FirstHolds, TypesStart DEF RequestInv
  <2>2. QED
    BY <2>1, EachHasTypes, ScopeRestHasTypes, TrialRestHasTypes DEF DecisionsInv, DecisionsTypeOK
<1>4. QED
  BY <1>1, <1>2, <1>3 DEF DecisionsInit

\* Types of what stands still.
LEMMA TypesStandStill ==
    /\ TypeOK /\ UNCHANGED vars => TypeOK'
    /\ TrialTypeOK /\ UNCHANGED trialVars => TrialTypeOK'
    /\ RequestTypeOK /\ UNCHANGED requestVars => RequestTypeOK'
<1>1. TypeOK /\ UNCHANGED vars => TypeOK'
  BY DEF vars, packVars, TypeOK, PytestTargets
<1>2. TrialTypeOK /\ UNCHANGED trialVars => TrialTypeOK'
  BY DEF trialVars, TrialTypeOK, Selected
<1>3. RequestTypeOK /\ UNCHANGED requestVars => RequestTypeOK'
  BY DEF requestVars, RequestTypeOK
<1>4. QED
  BY <1>1, <1>2, <1>3

LEMMA DecisionsStep == DecisionsInv /\ [DecisionsNext]_decisionVars => DecisionsInv'
<1> SUFFICES ASSUME DecisionsInv, [DecisionsNext]_decisionVars PROVE DecisionsInv'
  OBVIOUS
<1>1. /\ active' = active
      /\ \/ active = "scope" /\ [Next]_vars /\ UNCHANGED <<trialVars, requestVars>>
         \/ active = "trial" /\ [TrialNext]_trialVars /\ UNCHANGED <<vars, requestVars>>
         \/ active = "request" /\ [RequestNext]_requestVars /\ UNCHANGED <<vars, trialVars>>
         \/ UNCHANGED <<vars, trialVars, requestVars>>
  BY DEF DecisionsNext, Decide, Days, decisionVars, TrialNext
<1>2. (ScopeInv /\ [Next]_vars => ScopeInv') /\ (TrialInvariant /\ [TrialNext]_trialVars => TrialInvariant')
      /\ (RequestInv /\ [RequestNext]_requestVars => RequestInv')
  BY ScopeSteps, TargetsStay, TrialSteps, RequestSteps, StepsHold, AttemptsStay DEF ScopeInv, RequestInv, TypesHold
<1>3. (ScopeInv' => TypeOK') /\ (TrialInvariant' => TrialTypeOK') /\ (RequestInv' => RequestTypeOK')
  BY EachHasTypes, PTL
<1>4. QED
  BY <1>1, <1>2, <1>3, TypesStandStill DEF DecisionsInv, DecisionsTypeOK

\* The types of the three decision procedures hold in every reachable state of the
\* composition that is run: of a selection and its packing, of a trial's walk and plan, and
\* of a request's attempts and log lines.
THEOREM DecisionsTypes == DecisionsSpec => []DecisionsTypeOK
<1>1. DecisionsInv => DecisionsTypeOK
  BY DEF DecisionsInv
<1>2. QED
  BY <1>1, DecisionsStart, DecisionsStep, PTL DEF DecisionsSpec
=============================================================================
