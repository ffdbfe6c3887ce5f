------------------------- MODULE SystemMergeProofs -------------------------
(***************************************************************************)
(* What merging system messages keeps of any conversation.  The merge is   *)
(* made of FlattenSeq, a recursive function, so it takes induction.  The   *)
(* induction theorems of the library take a predicate; the two here take a *)
(* set in its place and rest on the least member of a set of numbers.      *)
(***************************************************************************)
EXTENDS SystemMerge, Integers, WellFoundedInduction, TLAPS

LEMMA LeastNat == ASSUME NEW T \in SUBSET Nat, T # {} PROVE \E x \in T : \A y \in T : x =< y
<1> DEFINE R == {p \in Nat \X Nat : p[1] < p[2]}
<1>1. IsWellFoundedOn(R, Nat)
  BY NatLessThanWellFounded DEF OpToRel
<1>2. \A x, y \in Nat : <<y, x>> \notin R => x =< y
  OBVIOUS
<1> HIDE DEF R
<1>3. PICK x \in T : \A y \in T : <<y, x>> \notin R
  BY <1>1, WFMin
<1>4. QED
  BY <1>2, <1>3

\* Induction over a set of numbers.
LEMMA SetInduction ==
    ASSUME NEW T, 0 \in T, \A n \in Nat : n \in T => n + 1 \in T
    PROVE  \A n \in Nat : n \in T
<1> SUFFICES ASSUME NEW k \in Nat, k \notin T PROVE FALSE
  OBVIOUS
<1> DEFINE Out == {n \in Nat : n \notin T}
<1>1. PICK x \in Out : \A y \in Out : x =< y
  <2>1. Out \in SUBSET Nat /\ Out # {}
    OBVIOUS
  <2> HIDE DEF Out
  <2>2. QED
    BY <2>1, LeastNat
<1>2. x # 0 /\ x - 1 \in Nat
  OBVIOUS
<1>3. x - 1 \in T
  BY <1>1, <1>2
<1>4. QED
  BY <1>2, <1>3

\* The recursive function of FlattenSeq exists.
IsJoin(ss, n, f) == f = [i \in 1..n |-> IF i = 1 THEN ss[i] ELSE f[i-1] \o ss[i]]
Joined(ss, n) == CHOOSE f : f = [i \in 1..n |-> IF i = 1 THEN ss[i] ELSE f[i-1] \o ss[i]]
LEMMA JoinedExists ==
    ASSUME NEW ss, NEW n \in Nat
    PROVE  Joined(ss, n) = [i \in 1..n |-> IF i = 1 THEN ss[i] ELSE Joined(ss, n)[i-1] \o ss[i]]
<1> DEFINE T == {m \in Nat : \E f : IsJoin(ss, m, f)}
<1>1. 0 \in T
  <2> DEFINE f == [i \in 1..0 |-> ss[i]]
  <2>1. IsJoin(ss, 0, f)
    BY DEF IsJoin
  <2> HIDE DEF f
  <2>2. QED
    BY <2>1
<1>2. ASSUME NEW m \in Nat, m \in T PROVE m + 1 \in T
  <2>1. PICK f : f = [i \in 1..m |-> IF i = 1 THEN ss[i] ELSE f[i-1] \o ss[i]]
    BY <1>2 DEF IsJoin
  <2> DEFINE g == [i \in 1..(m+1) |-> IF i = 1 THEN ss[i] ELSE f[i-1] \o ss[i]]
  <2>2. ASSUME NEW i \in 1..(m+1), i # 1 PROVE g[i-1] = f[i-1]
    <3>1. i - 1 \in 1..m
      BY <2>2
    <3>2. f[i-1] = IF i - 1 = 1 THEN ss[i-1] ELSE f[i-1-1] \o ss[i-1]
      BY <2>1, <3>1
    <3>3. QED
      BY <3>1, <3>2
  <2>3. IsJoin(ss, m+1, g)
    BY <2>2 DEF IsJoin
  <2> HIDE DEF g
  <2>4. QED
    BY <2>3
<1> HIDE DEF T
<1>3. n \in T
  BY <1>1, <1>2, SetInduction
<1>4. \E f : IsJoin(ss, n, f)
  BY <1>3 DEF T
<1>5. QED
  BY <1>4 DEF IsJoin, Joined


LEMMA FlattenIsJoined ==
    ASSUME NEW ss, Len(ss) # 0
    PROVE  FlattenSeq(ss) = Joined(ss, Len(ss))[Len(ss)]
  BY DEF FlattenSeq, Joined

LEMMA FlattenEmpty == FlattenSeq(<<>>) = <<>>
  BY DEF FlattenSeq

LEMMA JoinedIs ==
    ASSUME NEW ss, NEW n \in Nat, NEW i \in 1..n
    PROVE  Joined(ss, n)[i] = IF i = 1 THEN ss[i] ELSE Joined(ss, n)[i-1] \o ss[i]
<1> DEFINE f == Joined(ss, n)
<1>1. f = [k \in 1..n |-> IF k = 1 THEN ss[k] ELSE f[k-1] \o ss[k]]
  BY JoinedExists
<1> HIDE DEF f
<1>2. f[i] = IF i = 1 THEN ss[i] ELSE f[i-1] \o ss[i]
  BY <1>1
<1>3. QED
  BY <1>2 DEF f

LEMMA FlattenAppend ==
    ASSUME NEW S, NEW ss \in Seq(Seq(S)), NEW t \in Seq(S)
    PROVE  FlattenSeq(Append(ss, t)) = FlattenSeq(ss) \o t
<1> DEFINE n == Len(ss)
           app == Append(ss, t)
<1>1. n \in Nat /\ Len(app) = n + 1 /\ app[n+1] = t /\ \A i \in 1..n : app[i] = ss[i]
  OBVIOUS
<1> HIDE DEF n, app
<1>2. FlattenSeq(app) = Joined(app, n+1)[n+1]
  BY <1>1, FlattenIsJoined
<1>3. CASE n = 0
  <2>1. Joined(app, n+1)[n+1] = t
    BY <1>1, <1>3, JoinedIs
  <2>2. ss = <<>>
    BY <1>3 DEF n
  <2>3. QED
    BY <1>2, <2>1, <2>2, FlattenEmpty DEF app
<1>4. CASE n # 0
  <2> DEFINE T == {i \in Nat : i \in 1..n => Joined(app, n+1)[i] = Joined(ss, n)[i]}
  <2>1. 0 \in T
    OBVIOUS
  <2>2. ASSUME NEW i \in Nat, i \in T PROVE i + 1 \in T
    <3> SUFFICES ASSUME i + 1 \in 1..n PROVE Joined(app, n+1)[i+1] = Joined(ss, n)[i+1]
      OBVIOUS
    <3> DEFINE k == i + 1
    <3>1. k \in 1..n /\ k \in 1..(n+1) /\ k - 1 = i /\ (k # 1 => i \in 1..n) /\ n + 1 \in Nat
      BY <1>1
    <3> HIDE DEF k
    <3>2. Joined(app, n+1)[k] = IF k = 1 THEN app[k] ELSE Joined(app, n+1)[k-1] \o app[k]
      BY <1>1, <3>1, JoinedIs
    <3>3. Joined(ss, n)[k] = IF k = 1 THEN ss[k] ELSE Joined(ss, n)[k-1] \o ss[k]
      BY <1>1, <3>1, JoinedIs
    <3>4. Joined(app, n+1)[k] = Joined(ss, n)[k]
      BY <1>1, <2>2, <3>1, <3>2, <3>3
    <3>5. QED
      BY <3>4 DEF k
  <2>3. \A i \in Nat : i \in T
    <3> HIDE DEF T
    <3> QED
      BY <2>1, <2>2, SetInduction
  <2>4. Joined(app, n+1)[n] = Joined(ss, n)[n]
    BY <1>1, <1>4, <2>3
  <2> DEFINE k == n + 1
  <2>5. k \in 1..(n+1) /\ k # 1 /\ k - 1 = n /\ n + 1 \in Nat
    BY <1>1, <1>4
  <2> HIDE DEF k
  <2>6. Joined(app, n+1)[k] = Joined(app, n+1)[k-1] \o app[k]
    BY <2>5, JoinedIs
  <2>7. FlattenSeq(ss) = Joined(ss, n)[n]
    BY <1>4, FlattenIsJoined DEF n
  <2>8. QED
    BY <1>1, <1>2, <2>4, <2>5, <2>6, <2>7 DEF k, app
<1>5. QED
  BY <1>3, <1>4 DEF app

\* Induction over sequences, for a set of them.
LEMMA SeqInduction ==
    ASSUME NEW S, NEW T, <<>> \in T, \A s \in Seq(S), x \in S : s \in T => Append(s, x) \in T
    PROVE  \A s \in Seq(S) : s \in T
<1> DEFINE U == {n \in Nat : \A s \in Seq(S) : Len(s) = n => s \in T}
<1>1. 0 \in U
  OBVIOUS
<1>2. ASSUME NEW n \in Nat, n \in U PROVE n + 1 \in U
  <2> SUFFICES ASSUME NEW s \in Seq(S), Len(s) = n + 1 PROVE s \in T
    OBVIOUS
  <2> DEFINE front == [i \in 1..n |-> s[i]]
  <2>1. front \in Seq(S) /\ Len(front) = n
    OBVIOUS
  <2>2. s[n+1] \in S /\ s = Append(front, s[n+1])
    OBVIOUS
  <2> HIDE DEF front
  <2>3. QED
    BY <1>2, <2>1, <2>2
<1>3. \A n \in Nat : n \in U
  <2> HIDE DEF U
  <2> QED
    BY <1>1, <1>2, SetInduction
<1>4. QED
  BY <1>3

LEMMA FlattenType ==
    ASSUME NEW S, NEW ss \in Seq(Seq(S)) PROVE FlattenSeq(ss) \in Seq(S)
<1> DEFINE T == {s \in Seq(Seq(S)) : FlattenSeq(s) \in Seq(S)}
<1>1. <<>> \in T
  <2>1. <<>> \in Seq(S) /\ <<>> \in Seq(Seq(S))
    OBVIOUS
  <2>2. QED
    BY <2>1, FlattenEmpty
<1>2. ASSUME NEW s \in Seq(Seq(S)), NEW x \in Seq(S), s \in T PROVE Append(s, x) \in T
  <2>1. FlattenSeq(Append(s, x)) = FlattenSeq(s) \o x
    BY FlattenAppend
  <2>2. FlattenSeq(s) \o x \in Seq(S) /\ Append(s, x) \in Seq(Seq(S))
    BY <1>2
  <2>3. QED
    BY <2>1, <2>2
<1> HIDE DEF T
<1>3. ss \in T
  BY <1>1, <1>2, SeqInduction
<1>4. QED
  BY <1>3 DEF T

LEMMA ToSetConcat ==
    ASSUME NEW S, NEW a \in Seq(S), NEW b \in Seq(S)
    PROVE  ToSet(a \o b) = ToSet(a) \cup ToSet(b)
<1>1. ASSUME NEW x \in ToSet(a \o b) PROVE x \in ToSet(a) \cup ToSet(b)
  <2>1. PICK i \in DOMAIN (a \o b) : x = (a \o b)[i]
    BY DEF ToSet
  <2>2. CASE i \in 1..Len(a)
    BY <2>1, <2>2 DEF ToSet
  <2>3. CASE i \notin 1..Len(a)
    <3> DEFINE j == i - Len(a)
    <3>1. j \in 1..Len(b) /\ x = b[j]
      BY <2>1, <2>3
    <3> HIDE DEF j
    <3>2. QED
      BY <3>1 DEF ToSet
  <2>4. QED
    BY <2>2, <2>3
<1>2. ASSUME NEW x \in ToSet(a) PROVE x \in ToSet(a \o b)
  BY <1>2 DEF ToSet
<1>3. ASSUME NEW x \in ToSet(b) PROVE x \in ToSet(a \o b)
  <2>1. PICK j \in 1..Len(b) : x = b[j]
    BY <1>3 DEF ToSet
  <2> DEFINE i == Len(a) + j
  <2>2. i \in DOMAIN (a \o b) /\ (a \o b)[i] = x
    BY <2>1
  <2> HIDE DEF i
  <2>3. QED
    BY <2>2 DEF ToSet
<1>4. QED
  BY <1>1, <1>2, <1>3

LEMMA ToSetAppend ==
    ASSUME NEW S, NEW s \in Seq(S), NEW x \in S
    PROVE  ToSet(Append(s, x)) = ToSet(s) \cup {x}
<1> DEFINE one == <<x>>
<1>1. one \in Seq(S) /\ s \o one = Append(s, x)
  OBVIOUS
<1>2. ToSet(one) = {x}
  BY DEF ToSet
<1> HIDE DEF one
<1>3. ToSet(s \o one) = ToSet(s) \cup ToSet(one)
  BY <1>1, ToSetConcat
<1>4. QED
  BY <1>1, <1>2, <1>3

LEMMA GatheredType ==
    ASSUME NEW R, NEW S, NEW g \in [R -> Seq(S)], NEW s \in Seq(R)
    PROVE  Gathered(g, s) \in Seq(S)
<1>1. [i \in DOMAIN s |-> g[s[i]]] \in Seq(Seq(S))
  <2>1. Len(s) \in Nat /\ DOMAIN s = 1..Len(s) /\ \A i \in 1..Len(s) : g[s[i]] \in Seq(S)
    OBVIOUS
  <2>2. [i \in 1..Len(s) |-> g[s[i]]] \in Seq(Seq(S))
    BY <2>1
  <2>3. QED
    BY <2>1, <2>2
<1>2. QED
  BY <1>1, FlattenType DEF Gathered

LEMMA GatheredEmpty == ASSUME NEW g PROVE Gathered(g, <<>>) = <<>>
<1>1. [i \in DOMAIN <<>> |-> g[<<>>[i]]] = <<>>
  OBVIOUS
<1>2. QED
  BY <1>1, FlattenEmpty DEF Gathered

LEMMA GatheredAppend ==
    ASSUME NEW R, NEW S, NEW g \in [R -> Seq(S)], NEW s \in Seq(R), NEW x \in R
    PROVE  Gathered(g, Append(s, x)) = Gathered(g, s) \o g[x]
<1> DEFINE ss == [i \in DOMAIN s |-> g[s[i]]]
           tt == [i \in DOMAIN Append(s, x) |-> g[Append(s, x)[i]]]
<1>1. ss \in Seq(Seq(S)) /\ g[x] \in Seq(S)
  OBVIOUS
<1>2. tt = Append(ss, g[x])
  OBVIOUS
<1> HIDE DEF ss, tt
<1>3. FlattenSeq(tt) = FlattenSeq(ss) \o g[x]
  BY <1>1, <1>2, FlattenAppend
<1>4. QED
  BY <1>3 DEF ss, tt, Gathered

LEMMA GatheredOne ==
    ASSUME NEW R, NEW S, NEW g \in [R -> Seq(S)], NEW x \in R
    PROVE  Gathered(g, <<x>>) = g[x]
<1>1. <<>> \in Seq(R) /\ Append(<<>>, x) = <<x>> /\ g[x] \in Seq(S) /\ <<>> \o g[x] = g[x]
  OBVIOUS
<1>2. Gathered(g, Append(<<>>, x)) = Gathered(g, <<>>) \o g[x]
  BY <1>1, GatheredAppend
<1>3. QED
  BY <1>1, <1>2, GatheredEmpty

LEMMA GatheredConcat ==
    ASSUME NEW R, NEW S, NEW g \in [R -> Seq(S)], NEW a \in Seq(R), NEW b \in Seq(R)
    PROVE  Gathered(g, a \o b) = Gathered(g, a) \o Gathered(g, b)
<1> DEFINE T == {t \in Seq(R) : Gathered(g, a \o t) = Gathered(g, a) \o Gathered(g, t)}
<1>1. <<>> \in T
  <2>1. <<>> \in Seq(R) /\ a \o <<>> = a
    OBVIOUS
  <2>2. Gathered(g, a) \in Seq(S)
    BY GatheredType
  <2>3. Gathered(g, a) \o <<>> = Gathered(g, a)
    BY <2>2
  <2>4. QED
    BY <2>1, <2>3, GatheredEmpty
<1>2. ASSUME NEW t \in Seq(R), NEW x \in R, t \in T PROVE Append(t, x) \in T
  <2>1. a \o t \in Seq(R) /\ a \o Append(t, x) = Append(a \o t, x) /\ Append(t, x) \in Seq(R)
    OBVIOUS
  <2>2. Gathered(g, Append(a \o t, x)) = Gathered(g, a \o t) \o g[x]
    BY <2>1, GatheredAppend
  <2>3. Gathered(g, Append(t, x)) = Gathered(g, t) \o g[x]
    BY GatheredAppend
  <2>4. Gathered(g, a) \in Seq(S) /\ Gathered(g, t) \in Seq(S) /\ g[x] \in Seq(S)
    BY GatheredType
  <2>5. Gathered(g, a \o t) = Gathered(g, a) \o Gathered(g, t)
    BY <1>2
  <2>6. (Gathered(g, a) \o Gathered(g, t)) \o g[x] = Gathered(g, a) \o (Gathered(g, t) \o g[x])
    BY <2>4
  <2>7. QED
    BY <2>1, <2>2, <2>3, <2>5, <2>6
<1> HIDE DEF T
<1>3. b \in T
  BY <1>1, <1>2, SeqInduction
<1>4. QED
  BY <1>3 DEF T

LEMMA GatheredMembers ==
    ASSUME NEW R, NEW S, NEW g \in [R -> Seq(S)], NEW s \in Seq(R), NEW x
    PROVE  x \in ToSet(Gathered(g, s)) <=> \E y \in ToSet(s) : x \in ToSet(g[y])
<1> DEFINE In(t) == x \in ToSet(Gathered(g, t)) <=> \E y \in ToSet(t) : x \in ToSet(g[y])
           T == {t \in Seq(R) : In(t)}
<1>1. <<>> \in T
  <2>1. <<>> \in Seq(R) /\ ToSet(<<>>) = {}
    BY DEF ToSet
  <2>2. QED
    BY <2>1, GatheredEmpty
<1>2. ASSUME NEW t \in Seq(R), NEW z \in R, t \in T PROVE Append(t, z) \in T
  <2>1. Gathered(g, Append(t, z)) = Gathered(g, t) \o g[z]
    BY GatheredAppend
  <2>2. Gathered(g, t) \in Seq(S) /\ g[z] \in Seq(S)
    BY GatheredType
  <2>3. ToSet(Gathered(g, t) \o g[z]) = ToSet(Gathered(g, t)) \cup ToSet(g[z])
    BY <2>2, ToSetConcat
  <2>4. ToSet(Append(t, z)) = ToSet(t) \cup {z}
    BY ToSetAppend
  <2>5. Append(t, z) \in Seq(R)
    OBVIOUS
  <2>6. QED
    BY <1>2, <2>1, <2>3, <2>4, <2>5
<1> HIDE DEF T
<1>3. s \in T
  BY <1>1, <1>2, SeqInduction
<1>4. QED
  BY <1>3 DEF T

\* The facts above in one, for a function whose set is named and not unfolded.
Maker(g, R, S) == g \in [R -> Seq(S)]
LEMMA Gathering ==
    ASSUME NEW R, NEW S, NEW g, Maker(g, R, S)
    PROVE  /\ Gathered(g, <<>>) = <<>>
           /\ \A x \in R : Gathered(g, <<x>>) = g[x] /\ g[x] \in Seq(S)
           /\ \A s \in Seq(R) : Gathered(g, s) \in Seq(S)
           /\ \A s \in Seq(R), x \in R : Gathered(g, Append(s, x)) = Gathered(g, s) \o g[x]
           /\ \A a, b \in Seq(R) : Gathered(g, a \o b) = Gathered(g, a) \o Gathered(g, b)
           /\ \A s \in Seq(R) : \A x : x \in ToSet(Gathered(g, s)) <=> \E y \in ToSet(s) : x \in ToSet(g[y])
<1>1. g \in [R -> Seq(S)]
  BY DEF Maker
<1>2. Gathered(g, <<>>) = <<>>
  BY GatheredEmpty
<1>3. \A x \in R : Gathered(g, <<x>>) = g[x] /\ g[x] \in Seq(S)
  BY <1>1, GatheredOne
<1>4. \A s \in Seq(R) : Gathered(g, s) \in Seq(S)
  BY <1>1, GatheredType
<1>5. \A s \in Seq(R), x \in R : Gathered(g, Append(s, x)) = Gathered(g, s) \o g[x]
  BY <1>1, GatheredAppend
<1>6. \A a, b \in Seq(R) : Gathered(g, a \o b) = Gathered(g, a) \o Gathered(g, b)
  BY <1>1, GatheredConcat
<1>7. \A s \in Seq(R) : \A x : x \in ToSet(Gathered(g, s)) <=> \E y \in ToSet(s) : x \in ToSet(g[y])
  BY <1>1, GatheredMembers
<1>8. QED
  BY <1>2, <1>3, <1>4, <1>5, <1>6, <1>7

LEMMA GatheredTwice ==
    ASSUME NEW R, NEW S, NEW U, NEW h, Maker(h, R, S), NEW g, Maker(g, S, U),
           NEW gh, Maker(gh, R, U), \A x \in R : gh[x] = Gathered(g, h[x])
    PROVE  \A s \in Seq(R) : Gathered(g, Gathered(h, s)) = Gathered(gh, s)
<1> DEFINE T == {t \in Seq(R) : Gathered(g, Gathered(h, t)) = Gathered(gh, t)}
<1>2. <<>> \in T
  <2>1. <<>> \in Seq(R)
    OBVIOUS
  <2>2. QED
    BY <2>1, GatheredEmpty
<1>3. ASSUME NEW t \in Seq(R), NEW x \in R, t \in T PROVE Append(t, x) \in T
  <2>1. Gathered(h, Append(t, x)) = Gathered(h, t) \o h[x]
    BY Gathering
  <2>2. Gathered(gh, Append(t, x)) = Gathered(gh, t) \o gh[x]
    BY Gathering
  <2>3. Gathered(h, t) \in Seq(S) /\ h[x] \in Seq(S)
    BY Gathering
  <2>4. Gathered(g, Gathered(h, t) \o h[x]) = Gathered(g, Gathered(h, t)) \o Gathered(g, h[x])
    BY <2>3, Gathering
  <2>5. Append(t, x) \in Seq(R)
    OBVIOUS
  <2>6. QED
    BY <1>3, <2>1, <2>2, <2>4, <2>5
<1> HIDE DEF T
<1>4. \A s \in Seq(R) : s \in T
  BY <1>2, <1>3, SeqInduction
<1>5. QED
  BY <1>4 DEF T


(***************************************************************************)
(* Contents and their text                                                 *)
(***************************************************************************)
LEMMA BlockMakers ==
    /\ Maker(BlockText, BlockValues, STRING)
    /\ Maker(IfStays, BlockValues, BlockValues)
<1>1. \A b \in BlockValues : b.text \in Seq(STRING) /\ <<>> \in Seq(STRING)
  BY DEF BlockValues
<1>2. \A b \in BlockValues : <<b>> \in Seq(BlockValues) /\ <<>> \in Seq(BlockValues)
  OBVIOUS
<1>3. Maker(BlockText, BlockValues, STRING)
  BY <1>1 DEF Maker, BlockText
<1>4. Maker(IfStays, BlockValues, BlockValues)
  BY <1>2 DEF Maker, IfStays
<1>5. QED
  BY <1>3, <1>4

LEMMA OneBlock == ASSUME NEW b \in BlockValues PROVE Gathered(BlockText, <<b>>) = BlockText[b]
<1>1. BlockText \in [BlockValues -> Seq(STRING)]
  BY BlockMakers DEF Maker
<1>2. QED
  BY <1>1, GatheredOne

LEMMA ContentParts == ASSUME NEW c \in ContentValues PROVE c.parts \in Seq(BlockValues)
  BY DEF ContentValues

LEMMA ContentMakers ==
    /\ Maker(AsText, ContentValues, STRING)
    /\ Maker(AsBlocks, ContentValues, BlockValues)
    /\ \A c \in ContentValues : AsText[c] = Gathered(BlockText, c.parts) /\ AsBlocks[c] = Gathered(IfStays, c.parts)
<1>1. \A c \in ContentValues : Gathered(BlockText, c.parts) \in Seq(STRING)
  BY BlockMakers, ContentParts, Gathering
<1>2. \A c \in ContentValues : Gathered(IfStays, c.parts) \in Seq(BlockValues)
  BY BlockMakers, ContentParts, Gathering
<1>3. QED
  BY <1>1, <1>2 DEF Maker, AsText, AsBlocks

LEMMA Joins ==
    ASSUME NEW cs \in Seq(ContentValues)
    PROVE  /\ JoinedText[cs] = Gathered(AsText, cs) /\ JoinedText[cs] \in Seq(STRING)
           /\ JoinedBlocks[cs] = Gathered(AsBlocks, cs) /\ JoinedBlocks[cs] \in Seq(BlockValues)
<1>1. Gathered(AsText, cs) \in Seq(STRING) /\ Gathered(AsBlocks, cs) \in Seq(BlockValues)
  BY ContentMakers, Gathering
<1>2. QED
  BY <1>1 DEF JoinedText, JoinedBlocks

\* A block that is left out of a list had no text.
LEMMA BlocksText ==
    ASSUME NEW c \in ContentValues PROVE Gathered(BlockText, AsBlocks[c]) = AsText[c]
<1>1. \A b \in BlockValues : BlockText[b] = Gathered(BlockText, IfStays[b])
  <2> SUFFICES ASSUME NEW b \in BlockValues PROVE BlockText[b] = Gathered(BlockText, IfStays[b])
    OBVIOUS
  <2>1. CASE Stays(b)
    <3>1. IfStays[b] = <<b>>
      BY <2>1 DEF IfStays
    <3>2. QED
      BY <3>1, OneBlock
  <2>2. CASE ~Stays(b)
    <3>1. IfStays[b] = <<>> /\ BlockText[b] = <<>>
      BY <2>2 DEF IfStays, BlockText, Stays
    <3>2. QED
      BY <3>1, GatheredEmpty
  <2>3. QED
    BY <2>1, <2>2
<1>2. \A s \in Seq(BlockValues) : Gathered(BlockText, Gathered(IfStays, s)) = Gathered(BlockText, s)
  BY <1>1, BlockMakers, GatheredTwice
<1>3. QED
  BY <1>2, ContentMakers, ContentParts

LEMMA ContentShapes ==
    /\ \A t \in Seq(STRING) : TextContent(t) \in ContentValues /\ AsText[TextContent(t)] = t
    /\ \A bs \in Seq(BlockValues) : BlockContent(bs) \in ContentValues /\ AsText[BlockContent(bs)] = Gathered(BlockText, bs)
<1>1. ASSUME NEW t \in Seq(STRING) PROVE TextContent(t) \in ContentValues /\ AsText[TextContent(t)] = t
  <2>1. Block(t) \in BlockValues /\ BlockText[Block(t)] = t
    BY DEF Block, BlockValues, BlockText
  <2>2. <<Block(t)>> \in Seq(BlockValues) /\ <<Block(t)>>[1].text = t
    BY <2>1 DEF Block
  <2>3. TextContent(t) \in ContentValues
    BY <2>2 DEF TextContent, ContentValues
  <2>4. TextContent(t).parts = <<Block(t)>>
    BY DEF TextContent
  <2>5. Gathered(BlockText, <<Block(t)>>) = t
    BY <2>1, BlockMakers, Gathering
  <2>6. QED
    BY <2>3, <2>4, <2>5, ContentMakers
<1>2. ASSUME NEW bs \in Seq(BlockValues)
      PROVE  BlockContent(bs) \in ContentValues /\ AsText[BlockContent(bs)] = Gathered(BlockText, bs)
  <2>1. BlockContent(bs) \in ContentValues /\ BlockContent(bs).parts = bs
    BY DEF BlockContent, ContentValues
  <2>2. QED
    BY <2>1, ContentMakers
<1>3. QED
  BY <1>1, <1>2

\* However contents are merged, the text is theirs in their order.
THEOREM MergedText ==
    ASSUME NEW cs \in Seq(ContentValues)
    PROVE  MergeContents(cs) \in ContentValues /\ AsText[MergeContents(cs)] = JoinedText[cs]
<1>1. \A s \in Seq(ContentValues) : Gathered(BlockText, Gathered(AsBlocks, s)) = Gathered(AsText, s)
  <2>1. \A c \in ContentValues : AsText[c] = Gathered(BlockText, AsBlocks[c])
    BY BlocksText
  <2>2. QED
    BY <2>1, BlockMakers, ContentMakers, GatheredTwice
<1>2. CASE HasCacheControl(cs)
  <2>1. MergeContents(cs) = BlockContent(JoinedBlocks[cs])
    BY <1>2 DEF MergeContents
  <2>2. Gathered(BlockText, JoinedBlocks[cs]) = JoinedText[cs]
    BY <1>1, Joins
  <2>3. QED
    BY <2>1, <2>2, Joins, ContentShapes
<1>3. CASE ~HasCacheControl(cs)
  BY <1>3, Joins, ContentShapes DEF MergeContents
<1>4. QED
  BY <1>2, <1>3

LEMMA KeptMembers ==
    ASSUME NEW s \in Seq(BlockValues), NEW x
    PROVE  x \in ToSet(Gathered(IfStays, s)) <=> \E y \in ToSet(s) : x \in ToSet(IfStays[y])
<1>1. IfStays \in [BlockValues -> Seq(BlockValues)]
  BY BlockMakers DEF Maker
<1>2. QED
  BY <1>1, GatheredMembers

LEMMA TextMembers ==
    ASSUME NEW s \in Seq(BlockValues), NEW x
    PROVE  x \in ToSet(Gathered(BlockText, s)) <=> \E y \in ToSet(s) : x \in ToSet(BlockText[y])
<1>1. BlockText \in [BlockValues -> Seq(STRING)]
  BY BlockMakers DEF Maker
<1>2. QED
  BY <1>1, GatheredMembers

\* The blocks of merged contents: all that say something, or one with all their text.
LEMMA MergedBlocks ==
    ASSUME NEW cs \in Seq(ContentValues)
    PROVE  /\ HasCacheControl(cs) =>
                \A b : b \in ToSet(MergeContents(cs).parts)
                       <=> (\E c \in ToSet(cs) : b \in ToSet(c.parts)) /\ Stays(b)
           /\ ~HasCacheControl(cs) =>
                /\ ToSet(MergeContents(cs).parts) = {Block(JoinedText[cs])}
                /\ \A c \in ToSet(cs) : \A b \in ToSet(c.parts) : ~b.cached
<1>1. ASSUME HasCacheControl(cs), NEW b
      PROVE  b \in ToSet(MergeContents(cs).parts) <=> (\E c \in ToSet(cs) : b \in ToSet(c.parts)) /\ Stays(b)
  <2>1. MergeContents(cs).parts = Gathered(AsBlocks, cs)
    BY <1>1, Joins DEF MergeContents, BlockContent
  <2>2. b \in ToSet(Gathered(AsBlocks, cs)) <=> \E c \in ToSet(cs) : b \in ToSet(AsBlocks[c])
    BY ContentMakers, Gathering
  <2>3. ASSUME NEW c \in ToSet(cs) PROVE b \in ToSet(AsBlocks[c]) <=> b \in ToSet(c.parts) /\ Stays(b)
    <3>1. c \in ContentValues
      BY DEF ToSet
    <3>2. c.parts \in Seq(BlockValues) /\ AsBlocks[c] = Gathered(IfStays, c.parts)
      BY <3>1, ContentParts, ContentMakers
    <3>3. b \in ToSet(AsBlocks[c]) <=> \E d \in ToSet(c.parts) : b \in ToSet(IfStays[d])
      BY <3>2, KeptMembers
    <3>4. ASSUME NEW d \in ToSet(c.parts) PROVE b \in ToSet(IfStays[d]) <=> b = d /\ Stays(d)
      <4>1. d \in BlockValues
        BY <3>2 DEF ToSet
      <4>2. IfStays[d] = IF Stays(d) THEN <<d>> ELSE <<>>
        BY <4>1 DEF IfStays
      <4>3. ToSet(<<d>>) = {d} /\ ToSet(<<>>) = {}
        BY DEF ToSet
      <4>4. QED
        BY <4>2, <4>3
    <3>5. QED
      BY <3>3, <3>4
  <2>4. QED
    BY <2>1, <2>2, <2>3
<1>2. ASSUME ~HasCacheControl(cs)
      PROVE  /\ ToSet(MergeContents(cs).parts) = {Block(JoinedText[cs])}
             /\ \A c \in ToSet(cs) : \A b \in ToSet(c.parts) : ~b.cached
  <2>1. MergeContents(cs).parts = <<Block(JoinedText[cs])>>
    BY <1>2 DEF MergeContents, TextContent
  <2>2. ToSet(<<Block(JoinedText[cs])>>) = {Block(JoinedText[cs])}
    BY DEF ToSet
  <2>3. ASSUME NEW c \in ToSet(cs), NEW b \in ToSet(c.parts) PROVE ~b.cached
    <3>1. PICK i \in DOMAIN cs : c = cs[i]
      BY DEF ToSet
    <3>2. PICK j \in DOMAIN c.parts : b = c.parts[j]
      BY DEF ToSet
    <3>3. CASE c.form = "blocks"
      BY <1>2, <3>1, <3>2, <3>3 DEF HasCacheControl
    <3>4. CASE c.form # "blocks"
      <4>1. c \in ContentValues
        BY <3>1
      <4>2. c.parts = <<Block(c.parts[1].text)>>
        BY <3>4, <4>1 DEF ContentValues, TextContent
      <4>3. c.parts[j] = Block(c.parts[1].text)
        BY <3>2, <4>2
      <4>4. QED
        BY <3>2, <4>3 DEF Block
    <3>5. QED
      BY <3>3, <3>4
  <2>4. QED
    BY <2>1, <2>2, <2>3
<1>3. QED
  BY <1>1, <1>2

\* A piece of a joined text is a piece of one of its blocks.
LEMMA JoinedPieces ==
    ASSUME NEW cs \in Seq(ContentValues), NEW p \in ToSet(JoinedText[cs])
    PROVE  \E c \in ToSet(cs) : \E b \in ToSet(c.parts) : p \in ToSet(b.text)
<1>1. p \in ToSet(Gathered(AsText, cs)) <=> \E c \in ToSet(cs) : p \in ToSet(AsText[c])
  BY ContentMakers, Gathering
<1>2. PICK c \in ToSet(cs) : p \in ToSet(AsText[c])
  BY <1>1, Joins
<1>3. c \in ContentValues
  BY DEF ToSet
<1>4. c.parts \in Seq(BlockValues) /\ AsText[c] = Gathered(BlockText, c.parts)
  BY <1>3, ContentParts, ContentMakers
<1>5. p \in ToSet(Gathered(BlockText, c.parts)) <=> \E b \in ToSet(c.parts) : p \in ToSet(BlockText[b])
  BY <1>4, TextMembers
<1>6. PICK b \in ToSet(c.parts) : p \in ToSet(BlockText[b])
  BY <1>2, <1>4, <1>5
<1>7. b \in BlockValues /\ ToSet(<<>>) = {}
  BY <1>4 DEF ToSet
<1>8. p \in ToSet(b.text)
  BY <1>6, <1>7 DEF BlockText
<1>9. QED
  BY <1>6, <1>8

LEMMA JoinedConcat ==
    ASSUME NEW a \in Seq(ContentValues), NEW b \in Seq(ContentValues)
    PROVE  JoinedText[a \o b] = JoinedText[a] \o JoinedText[b]
<1>1. Gathered(AsText, a \o b) = Gathered(AsText, a) \o Gathered(AsText, b)
  BY ContentMakers, Gathering
<1>2. a \o b \in Seq(ContentValues)
  OBVIOUS
<1>3. QED
  BY <1>1, <1>2, Joins

LEMMA JoinedOne ==
    /\ JoinedText[<<>>] = <<>>
    /\ \A c \in ContentValues : JoinedText[<<c>>] = AsText[c]
<1>1. AsText \in [ContentValues -> Seq(STRING)]
  BY ContentMakers DEF Maker
<1>2. <<>> \in Seq(ContentValues) /\ \A c \in ContentValues : <<c>> \in Seq(ContentValues)
  OBVIOUS
<1>3. \A c \in ContentValues : Gathered(AsText, <<c>>) = AsText[c]
  BY <1>1, GatheredOne
<1>4. Gathered(AsText, <<>>) = <<>>
  BY GatheredEmpty
<1>5. QED
  BY <1>2, <1>3, <1>4 DEF JoinedText

(***************************************************************************)
(* Messages                                                                *)
(***************************************************************************)
LEMMA LenSome == ASSUME NEW S, NEW s \in Seq(S), s # <<>> PROVE Len(s) # 0
  OBVIOUS
LEMMA LenOne == ASSUME NEW S, NEW s \in Seq(S), ~(Len(s) > 1), Len(s) # 0 PROVE Len(s) = 1
<1> DEFINE n == Len(s)
<1>1. n \in Nat /\ ~(n > 1) /\ n # 0
  OBVIOUS
<1> HIDE DEF n
<1>2. n = 1
  BY <1>1
<1>3. QED
  BY <1>2 DEF n

LEMMA MessageMakers == Maker(IfSystemish, Messages, Messages) /\ Maker(IfOther, Messages, Messages)
<1>1. \A m \in Messages : <<m>> \in Seq(Messages) /\ <<>> \in Seq(Messages)
  OBVIOUS
<1>2. Maker(IfSystemish, Messages, Messages)
  BY <1>1 DEF Maker, IfSystemish
<1>3. Maker(IfOther, Messages, Messages)
  BY <1>1 DEF Maker, IfOther
<1>4. QED
  BY <1>2, <1>3

\* What the two parts of a list of messages are.
LEMMA Parts ==
    /\ SystemMessages[<<>>] = <<>> /\ OtherMessages[<<>>] = <<>>
    /\ \A m \in Messages : SystemMessages[<<m>>] = IF Systemish(m) THEN <<m>> ELSE <<>>
    /\ \A m \in Messages : OtherMessages[<<m>>] = IF Systemish(m) THEN <<>> ELSE <<m>>
    /\ \A ms \in Seq(Messages) : SystemMessages[ms] \in Seq(Messages) /\ OtherMessages[ms] \in Seq(Messages)
    /\ \A a, b \in Seq(Messages) : SystemMessages[a \o b] = SystemMessages[a] \o SystemMessages[b]
    /\ \A a, b \in Seq(Messages) : OtherMessages[a \o b] = OtherMessages[a] \o OtherMessages[b]
<1>1. <<>> \in Seq(Messages) /\ \A m \in Messages : <<m>> \in Seq(Messages)
  OBVIOUS
<1>2. \A a, b \in Seq(Messages) : a \o b \in Seq(Messages)
  OBVIOUS
<1>3. \A ms \in Seq(Messages) : SystemMessages[ms] = Gathered(IfSystemish, ms) /\ OtherMessages[ms] = Gathered(IfOther, ms)
  BY DEF SystemMessages, OtherMessages
<1>4. IfSystemish \in [Messages -> Seq(Messages)] /\ IfOther \in [Messages -> Seq(Messages)]
  BY MessageMakers DEF Maker
<1>5. \A m \in Messages : Gathered(IfSystemish, <<m>>) = IfSystemish[m]
  BY <1>4, GatheredOne
<1>6. \A m \in Messages : Gathered(IfOther, <<m>>) = IfOther[m]
  BY <1>4, GatheredOne
<1>7. \A m \in Messages : IfSystemish[m] = (IF Systemish(m) THEN <<m>> ELSE <<>>)
                          /\ IfOther[m] = (IF Systemish(m) THEN <<>> ELSE <<m>>)
  BY DEF IfSystemish, IfOther
<1>8. SystemMessages[<<>>] = <<>> /\ OtherMessages[<<>>] = <<>>
  BY <1>1, <1>3, GatheredEmpty
<1>9. \A m \in Messages : SystemMessages[<<m>>] = IF Systemish(m) THEN <<m>> ELSE <<>>
  BY <1>1, <1>3, <1>5, <1>7
<1>10. \A m \in Messages : OtherMessages[<<m>>] = IF Systemish(m) THEN <<>> ELSE <<m>>
  BY <1>1, <1>3, <1>6, <1>7
<1>11. \A ms \in Seq(Messages) : Gathered(IfSystemish, ms) \in Seq(Messages)
  BY MessageMakers, Gathering
<1>12. \A ms \in Seq(Messages) : Gathered(IfOther, ms) \in Seq(Messages)
  BY MessageMakers, Gathering
<1>13. \A a, b \in Seq(Messages) : Gathered(IfSystemish, a \o b) = Gathered(IfSystemish, a) \o Gathered(IfSystemish, b)
  <2> TAKE a, b \in Seq(Messages)
  <2>1. IfSystemish \in [Messages -> Seq(Messages)]
    BY <1>4
  <2>2. QED
    BY <2>1, GatheredConcat
<1>14. \A a, b \in Seq(Messages) : Gathered(IfOther, a \o b) = Gathered(IfOther, a) \o Gathered(IfOther, b)
  <2> TAKE a, b \in Seq(Messages)
  <2>1. IfOther \in [Messages -> Seq(Messages)]
    BY <1>4
  <2>2. QED
    BY <2>1, GatheredConcat
<1>15. \A a, b \in Seq(Messages) : SystemMessages[a \o b] = SystemMessages[a] \o SystemMessages[b]
  BY <1>2, <1>3, <1>13
<1>16. \A a, b \in Seq(Messages) : OtherMessages[a \o b] = OtherMessages[a] \o OtherMessages[b]
  BY <1>2, <1>3, <1>14
<1>17. QED
  BY <1>3, <1>8, <1>9, <1>10, <1>11, <1>12, <1>15, <1>16

LEMMA PartsMembers ==
    ASSUME NEW ms \in Seq(Messages)
    PROVE  /\ ToSet(SystemMessages[ms]) = {m \in ToSet(ms) : Systemish(m)}
           /\ ToSet(OtherMessages[ms]) = {m \in ToSet(ms) : ~Systemish(m)}
<1>1. ToSet(ms) \subseteq Messages
  BY DEF ToSet
<1>2. \A m \in Messages : \A x : (x \in ToSet(IfSystemish[m]) <=> x = m /\ Systemish(m))
                             /\ (x \in ToSet(IfOther[m]) <=> x = m /\ ~Systemish(m))
  <2> SUFFICES ASSUME NEW m \in Messages
               PROVE  \A x : (x \in ToSet(IfSystemish[m]) <=> x = m /\ Systemish(m))
                             /\ (x \in ToSet(IfOther[m]) <=> x = m /\ ~Systemish(m))
    OBVIOUS
  <2>1. ToSet(<<m>>) = {m} /\ ToSet(<<>>) = {}
    BY DEF ToSet
  <2>2. IfSystemish[m] = (IF Systemish(m) THEN <<m>> ELSE <<>>) /\ IfOther[m] = (IF Systemish(m) THEN <<>> ELSE <<m>>)
    BY DEF IfSystemish, IfOther
  <2>3. QED
    BY <2>1, <2>2
<1>3. \A x : x \in ToSet(Gathered(IfSystemish, ms)) <=> \E m \in ToSet(ms) : x \in ToSet(IfSystemish[m])
  BY MessageMakers, Gathering
<1>4. \A x : x \in ToSet(Gathered(IfOther, ms)) <=> \E m \in ToSet(ms) : x \in ToSet(IfOther[m])
  BY MessageMakers, Gathering
<1>5. SystemMessages[ms] = Gathered(IfSystemish, ms) /\ OtherMessages[ms] = Gathered(IfOther, ms)
  BY DEF SystemMessages, OtherMessages
<1>6. ToSet(SystemMessages[ms]) = {m \in ToSet(ms) : Systemish(m)}
  <2>1. \A x : x \in ToSet(SystemMessages[ms]) <=> \E m \in ToSet(ms) : x \in ToSet(IfSystemish[m])
    BY <1>3, <1>5
  <2>2. \A m \in Messages : \A x : x \in ToSet(IfSystemish[m]) <=> x = m /\ Systemish(m)
    BY <1>2
  <2>3. \A x : x \in ToSet(SystemMessages[ms]) <=> x \in ToSet(ms) /\ Systemish(x)
    <3> TAKE x
    <3>1. ASSUME x \in ToSet(SystemMessages[ms]) PROVE x \in ToSet(ms) /\ Systemish(x)
      <4>1. PICK m \in ToSet(ms) : x \in ToSet(IfSystemish[m])
        BY <2>1, <3>1
      <4>2. QED
        BY <1>1, <2>2, <4>1
    <3>2. ASSUME x \in ToSet(ms), Systemish(x) PROVE x \in ToSet(SystemMessages[ms])
      BY <1>1, <2>1, <2>2, <3>2
    <3>3. QED
      BY <3>1, <3>2
  <2>4. QED
    BY <2>3
<1>7. ToSet(OtherMessages[ms]) = {m \in ToSet(ms) : ~Systemish(m)}
  <2>1. \A x : x \in ToSet(OtherMessages[ms]) <=> \E m \in ToSet(ms) : x \in ToSet(IfOther[m])
    BY <1>4, <1>5
  <2>2. \A m \in Messages : \A x : x \in ToSet(IfOther[m]) <=> x = m /\ ~Systemish(m)
    BY <1>2
  <2>3. \A x : x \in ToSet(OtherMessages[ms]) <=> x \in ToSet(ms) /\ ~Systemish(x)
    BY <1>1, <2>1, <2>2
  <2>4. QED
    BY <2>3
<1>8. QED
  BY <1>6, <1>7

\* The rest of a list has no system message and no rest of its own but itself.
LEMMA RestIsRest ==
    ASSUME NEW ms \in Seq(Messages)
    PROVE  SystemMessages[OtherMessages[ms]] = <<>> /\ OtherMessages[OtherMessages[ms]] = OtherMessages[ms]
<1> DEFINE Good(s) == SystemMessages[OtherMessages[s]] = <<>> /\ OtherMessages[OtherMessages[s]] = OtherMessages[s]
           T == {s \in Seq(Messages) : Good(s)}
<1>1. <<>> \in T
  <2>1. <<>> \in Seq(Messages)
    OBVIOUS
  <2>2. SystemMessages[<<>>] = <<>> /\ OtherMessages[<<>>] = <<>>
    BY Parts
  <2>3. Good(<<>>)
    BY <2>2
  <2>4. QED
    BY <2>1, <2>3
<1>2. ASSUME NEW s \in Seq(Messages), NEW m \in Messages, s \in T PROVE Append(s, m) \in T
  <2> DEFINE rest == OtherMessages[s]
             last == OtherMessages[<<m>>]
  <2>1. <<m>> \in Seq(Messages) /\ Append(s, m) = s \o <<m>> /\ Append(s, m) \in Seq(Messages)
    OBVIOUS
  <2>2. OtherMessages[Append(s, m)] = rest \o last /\ rest \in Seq(Messages) /\ last \in Seq(Messages)
    <3> DEFINE one == <<m>>
    <3>1. one \in Seq(Messages) /\ Append(s, m) = s \o one
      BY <2>1
    <3> HIDE DEF one
    <3>2. OtherMessages[s \o one] = OtherMessages[s] \o OtherMessages[one]
      BY <3>1, Parts
    <3>3. OtherMessages[s] \in Seq(Messages) /\ OtherMessages[one] \in Seq(Messages)
      BY <3>1, Parts
    <3>4. QED
      BY <3>1, <3>2, <3>3 DEF one
  <2>3. SystemMessages[last] = <<>> /\ OtherMessages[last] = last
    <3>1. CASE Systemish(m)
      BY <3>1, Parts
    <3>2. CASE ~Systemish(m)
      BY <3>2, Parts
    <3>3. QED
      BY <3>1, <3>2
  <2>4. SystemMessages[rest] = <<>> /\ OtherMessages[rest] = rest
    BY <1>2
  <2> HIDE DEF rest, last
  <2>5. SystemMessages[rest \o last] = <<>> \o <<>> /\ OtherMessages[rest \o last] = rest \o last
    <3>1. SystemMessages[rest \o last] = SystemMessages[rest] \o SystemMessages[last]
      BY <2>2, Parts
    <3>2. OtherMessages[rest \o last] = OtherMessages[rest] \o OtherMessages[last]
      BY <2>2, Parts
    <3>3. QED
      BY <2>3, <2>4, <3>1, <3>2
  <2>6. Good(Append(s, m))
    BY <2>2, <2>5
  <2>7. QED
    BY <2>1, <2>6
<1> HIDE DEF T
<1>3. ms \in T
  BY <1>1, <1>2, SeqInduction
<1>4. QED
  BY <1>3 DEF T

LEMMA MessageContent == ASSUME NEW m \in Messages PROVE m.content \in ContentValues
  BY DEF Messages

LEMMA LeadIsMessage ==
    ASSUME NEW c \in ContentValues
    PROVE  [role |-> "system", content |-> c] \in Messages /\ Systemish([role |-> "system", content |-> c])
<1>1. [role |-> "system", content |-> c] \in [role : Roles, content : ContentValues]
  BY DEF Roles
<1>2. QED
  BY <1>1 DEF Messages, Systemish

LEMMA ContentsOf ==
    ASSUME NEW ms \in Seq(Messages)
    PROVE  /\ Contents(ms) \in Seq(ContentValues)
           /\ Len(Contents(ms)) = Len(ms)
           /\ ToSet(Contents(ms)) = {m.content : m \in ToSet(ms)}
<1>1. \A i \in DOMAIN ms : ms[i].content \in ContentValues
  <2>1. \A i \in DOMAIN ms : ms[i] \in Messages
    OBVIOUS
  <2>2. QED
    BY <2>1, MessageContent
<1>2. Contents(ms) \in Seq(ContentValues) /\ Len(Contents(ms)) = Len(ms)
  BY <1>1 DEF Contents
<1>3. ToSet(Contents(ms)) = {m.content : m \in ToSet(ms)}
  BY DEF ToSet, Contents
<1>4. QED
  BY <1>2, <1>3

LEMMA ContentsLead ==
    ASSUME NEW m \in Messages, NEW ms \in Seq(Messages)
    PROVE  Contents(<<m>> \o ms) = <<m.content>> \o Contents(ms)
<1> DEFINE all == <<m>> \o ms
           left == Contents(all)
           right == <<m.content>> \o Contents(ms)
<1>1. all \in Seq(Messages) /\ Len(all) = Len(ms) + 1 /\ all[1] = m
      /\ \A i \in 1..Len(ms) : all[i + 1] = ms[i]
  OBVIOUS
<1>2. Contents(ms) \in Seq(ContentValues) /\ Len(Contents(ms)) = Len(ms)
      /\ \A i \in 1..Len(ms) : Contents(ms)[i] = ms[i].content
  BY ContentsOf DEF Contents
<1>3. m.content \in ContentValues
  BY MessageContent
<1>4. right \in Seq(ContentValues) /\ Len(right) = Len(ms) + 1 /\ right[1] = m.content
      /\ \A i \in 1..Len(ms) : right[i + 1] = ms[i].content
  BY <1>2, <1>3
<1> HIDE DEF all
<1>5. left \in Seq(ContentValues) /\ Len(left) = Len(ms) + 1 /\ \A i \in 1..Len(left) : left[i] = all[i].content
  <2>1. left \in Seq(ContentValues) /\ Len(left) = Len(all)
    BY <1>1, ContentsOf
  <2>2. \A i \in DOMAIN all : left[i] = all[i].content
    BY DEF Contents
  <2>3. DOMAIN all = 1..Len(all) /\ Len(all) \in Nat
    BY <1>1
  <2>4. QED
    BY <1>1, <2>1, <2>2, <2>3
<1> HIDE DEF left, right
<1>6. ASSUME NEW i \in 1..(Len(ms) + 1) PROVE left[i] = right[i]
  <2>1. CASE i = 1
    BY <1>1, <1>4, <1>5, <2>1
  <2>2. CASE i # 1
    <3> DEFINE j == i - 1
    <3>1. j \in 1..Len(ms) /\ i = j + 1
      BY <2>2
    <3> HIDE DEF j
    <3>2. left[j + 1] = all[j + 1].content /\ right[j + 1] = ms[j].content /\ all[j + 1] = ms[j]
      BY <1>1, <1>4, <1>5, <3>1
    <3>3. QED
      BY <3>1, <3>2
  <2>3. QED
    BY <2>1, <2>2
<1>7. left = right
  BY <1>4, <1>5, <1>6
<1>8. QED
  BY <1>7 DEF left, right, all

\* A leading message before messages of which none is the system's.
LEMMA LeadAlone ==
    ASSUME NEW c \in ContentValues, NEW rest \in Seq(Messages), SystemMessages[rest] = <<>>,
           NEW ms, ms = <<[role |-> "system", content |-> c]>> \o rest
    PROVE  /\ ms \in Seq(Messages) /\ OtherMessages[ms] = OtherMessages[rest]
           /\ Len(SystemMessages[ms]) = 1 /\ Systemish(ms[1])
           /\ Contents(SystemMessages[ms]) = <<c>>
<1> DEFINE lead == [role |-> "system", content |-> c]
           front == <<lead>>
<1>1. lead \in Messages /\ Systemish(lead) /\ lead.content = c
  BY LeadIsMessage
<1>2. front \in Seq(Messages) /\ ms = front \o rest /\ ms \in Seq(Messages) /\ ms[1] = lead
  BY <1>1
<1>3. SystemMessages[front] = <<lead>> /\ OtherMessages[front] = <<>>
  BY <1>1, Parts
<1>4. SystemMessages[front \o rest] = SystemMessages[front] \o SystemMessages[rest]
      /\ OtherMessages[front \o rest] = OtherMessages[front] \o OtherMessages[rest]
  <2> HIDE DEF front
  <2>1. SystemMessages[front \o rest] = SystemMessages[front] \o SystemMessages[rest]
    BY <1>2, Parts
  <2>2. OtherMessages[front \o rest] = OtherMessages[front] \o OtherMessages[rest]
    BY <1>2, Parts
  <2>3. QED
    BY <2>1, <2>2
<1>5. OtherMessages[rest] \in Seq(Messages)
  BY Parts
<1> HIDE DEF lead, front
<1>6. SystemMessages[ms] = <<lead>> /\ OtherMessages[ms] = OtherMessages[rest]
  BY <1>2, <1>3, <1>4, <1>5
<1>7. Contents(<<lead>>) = <<c>>
  BY <1>1 DEF Contents
<1>8. QED
  BY <1>1, <1>2, <1>6, <1>7

\* The merge of a list: either the list, which has no need of it, or one leading message
\* with what the system messages said before the rest.
THEOREM MergedMessages ==
    ASSUME NEW ms \in Seq(Messages), NEW new, new = MergeSystemMessages(ms)
    PROVE  /\ new \in Seq(Messages) /\ OtherMessages[new] = OtherMessages[ms]
           /\ Len(SystemMessages[new]) =< 1
           /\ SystemMessages[new] # <<>> => Systemish(new[1])
           /\ \/ new = ms
              \/ /\ Contents(SystemMessages[new]) = <<MergeContents(Contents(SystemMessages[ms]))>>
                 /\ ToSet(new) = {[role |-> "system", content |-> MergeContents(Contents(SystemMessages[ms]))]}
                                 \cup ToSet(OtherMessages[ms])
<1> DEFINE systemish == SystemMessages[ms]
           rest == OtherMessages[ms]
           merged == MergeContents(Contents(systemish))
           leads == Systemish(ms[1])
           needed == Len(systemish) > 1 \/ (Len(systemish) = 1 /\ ~leads)
<1>1. systemish \in Seq(Messages) /\ rest \in Seq(Messages)
  BY Parts
<1>2. CASE ~needed
  <2>1. new = ms
    BY <1>2 DEF MergeSystemMessages
  <2> HIDE DEF systemish
  <2>2. Len(systemish) \in Nat /\ (systemish # <<>> => Len(systemish) # 0)
    BY <1>1
  <2>3. Len(systemish) =< 1 /\ (systemish # <<>> => leads)
    <3>1. CASE systemish = <<>>
      BY <3>1
    <3>2. CASE systemish # <<>>
      <4>1. ~(Len(systemish) > 1) /\ ~(Len(systemish) = 1 /\ ~leads)
        BY <1>2
      <4>2. Len(systemish) = 1
        <5>1. ~(Len(systemish) > 1)
          BY <4>1
        <5>2. systemish \in Seq(Messages) /\ systemish # <<>>
          BY <1>1, <3>2
        <5>3. QED
          BY <5>1, <5>2, LenSome, LenOne
      <4>3. leads
        BY <4>1, <4>2
      <4>4. QED
        BY <4>2, <4>3
    <3>3. QED
      BY <3>1, <3>2
  <2>4. QED
    BY <1>1, <2>1, <2>3 DEF systemish
<1>3. CASE needed
  <2>1. new = <<[role |-> "system", content |-> merged]>> \o rest
    BY <1>3 DEF MergeSystemMessages
  <2>2. merged \in ContentValues
    <3> HIDE DEF systemish
    <3>1. Contents(systemish) \in Seq(ContentValues)
      BY <1>1, ContentsOf
    <3>2. QED
      BY <3>1, MergedText
  <2>3. SystemMessages[rest] = <<>> /\ OtherMessages[rest] = rest
    BY RestIsRest
  <2> HIDE DEF merged, rest
  <2>4. new \in Seq(Messages) /\ OtherMessages[new] = rest /\ Len(SystemMessages[new]) = 1
        /\ Systemish(new[1]) /\ Contents(SystemMessages[new]) = <<merged>>
    BY <1>1, <2>1, <2>2, <2>3, LeadAlone
  <2>5. ToSet(new) = {[role |-> "system", content |-> merged]} \cup ToSet(rest)
    <3> DEFINE lead == [role |-> "system", content |-> merged]
               front == <<lead>>
    <3>1. lead \in Messages
      BY <2>2, LeadIsMessage
    <3> HIDE DEF lead
    <3>2. front \in Seq(Messages) /\ ToSet(front) = {lead}
      BY <3>1 DEF ToSet
    <3>3. new = front \o rest
      BY <2>1 DEF lead
    <3> HIDE DEF front
    <3>4. ToSet(front \o rest) = ToSet(front) \cup ToSet(rest)
      BY <1>1, <3>2, ToSetConcat
    <3>5. QED
      BY <3>2, <3>3, <3>4 DEF lead
  <2>6. QED
    BY <2>4, <2>5 DEF merged, rest, systemish
<1>4. QED
  BY <1>2, <1>3

=============================================================================
