--------------------------- MODULE ServicesProofs ---------------------------
(* Theorems about the services of the hosts that share nothing: GhAccess, ModelStore, *)
(* DocsIndex and SessionIndex, each for any values of its own constants, and about their *)
(* composition in MCServices. *)
EXTENDS MCServices, SystemMergeProofs, TLAPS

-----------------------------------------------------------------------------
(* GhAccess, for any token sets, calls and repositories *)

\* A token of a key's own set.
IsTokenOf(k, token) == \E a \in Nat : token = [set |-> SetOf(k), age |-> a]

\* Each file is empty or holds a token of its own set.
FilesHold ==
    /\ DOMAIN tokenFile = ConfiguredKeys
    /\ \A k \in ConfiguredKeys : tokenFile[k] = NoFile \/ IsTokenOf(k, tokenFile[k])

\* The refresh has a token of its own set for each key of the boundary that it has minted,
\* and for all of them once it writes.
MintHolds ==
    /\ keys \subseteq ConfiguredKeys
    /\ stage \in {"idle", "mint", "write", "replace"}
    /\ stage = "mint" =>
          \A k \in KeysOf(Head(boundaries)) \ keys : k \in DOMAIN minted /\ IsTokenOf(k, minted[k])
    /\ stage \in {"write", "replace"} => \A k \in keys : k \in DOMAIN minted /\ IsTokenOf(k, minted[k])

\* What is known of a call's target at the moment is part of what it has been.
WasHolds ==
    /\ private \in [Repos -> BOOLEAN]
    /\ step # "idle" => call \in Calls
    /\ step # "idle" /\ TargetRepo(call) # NoRepo => private[TargetRepo(call)] \in was

\* A call that has been let through is of a known set, on its own side and clean.
Passed ==
    /\ KnownSet(call)
    /\ IF TargetRepo(call) = NoRepo THEN ~IsWrite(call) ELSE (call.boundary = "private") \in was
    /\ IsWrite(call) /\ call.boundary # "private" => Scan(Outgoing(call)) = {}

CallHolds ==
    /\ step \in {"idle", "lookup", "asked", "ready", "running", "refused"}
    /\ step \in {"lookup", "asked"} =>
          KnownSet(call) /\ call.boundary \in {"public", "private"} /\ TargetRepo(call) # NoRepo
    /\ step \in {"ready", "running"} => Passed
    /\ step = "running" => IsTokenOf(RunKey(call), held)

GhIInv == FilesHold /\ MintHolds /\ WasHolds /\ CallHolds

-----------------------------------------------------------------------------

LEMMA SetsHaveNames == \A k \in ConfiguredKeys : SetOf(k) # "none"
<1> SUFFICES ASSUME NEW k \in ConfiguredKeys PROVE SetOf(k) # "none"
  OBVIOUS
<1>1. \E e \in ToSet(Entries) : e.key = k
  BY DEF ConfiguredKeys
<1>2. (CHOOSE e \in ToSet(Entries) : e.key = k) \in ToSet(Entries)
  BY <1>1
<1>3. QED
  BY <1>2, GhAssumption DEF SetOf

LEMMA TokensAreFiles == \A k \in ConfiguredKeys : \A token : IsTokenOf(k, token) => token # NoFile
  BY SetsHaveNames DEF IsTokenOf, NoFile

LEMMA RunKeyIsConfigured == \A c : KnownSet(c) => RunKey(c) \in ConfiguredKeys
  BY GhAssumption DEF KnownSet, RunKey

LEMMA KeysAreConfigured == \A b : KeysOf(b) \subseteq ConfiguredKeys
  BY DEF KeysOf, ConfiguredKeys

-----------------------------------------------------------------------------
(* The refresh *)

LEMMA StepMint ==
    ASSUME FilesHold, MintHolds, RefreshSucceeds \/ MintFails \/ RefreshDies
    PROVE  FilesHold' /\ MintHolds'
<1> USE KeysAreConfigured DEF FilesHold, MintHolds
<1>1. ASSUME NEW bs, NextBoundary(bs) PROVE MintHolds'
  BY <1>1 DEF NextBoundary, Idle
<1>2. CASE StartRefresh
  BY <1>1, <1>2 DEF StartRefresh
<1>3. CASE Mint
  <2>1. PICK k \in keys : /\ minted' = [j \in DOMAIN minted \union {k} |->
                                           IF j = k THEN [set |-> SetOf(k), age |-> 0] ELSE minted[j]]
                          /\ keys' = keys \ {k}
    BY <1>3 DEF Mint
  <2>2. /\ DOMAIN minted' = {k} \union DOMAIN minted
        /\ minted'[k] = [set |-> SetOf(k), age |-> 0]
        /\ \A j \in DOMAIN minted \ {k} : minted'[j] = minted[j]
    BY <2>1
  <2>3. IsTokenOf(k, minted'[k])
    BY <2>2 DEF IsTokenOf
  <2>4. UNCHANGED <<tokenFile, stage, boundaries>> /\ stage = "mint"
    BY <1>3 DEF Mint
  <2>5. \A j \in KeysOf(Head(boundaries)) \ keys' : j \in DOMAIN minted' /\ IsTokenOf(j, minted'[j])
    BY <2>1, <2>2, <2>3, <2>4
  <2>6. QED
    BY <2>1, <2>4, <2>5
<1>4. CASE BeginWriting
  BY <1>4 DEF BeginWriting
<1>5. CASE WriteTemporary
  BY <1>5 DEF WriteTemporary
<1>6. CASE Replace
  <2>1. PICK k \in keys :
            /\ tokenFile' = [tokenFile EXCEPT ![k] = minted[k]]
            /\ \/ stage' = "write" /\ keys' = keys \ {k} /\ minted' = minted
               \/ NextBoundary(Tail(boundaries))
    BY <1>6 DEF Replace, Put
  <2>2. IsTokenOf(k, minted[k]) /\ k \in ConfiguredKeys /\ stage = "replace"
    BY <1>6, <2>1 DEF Replace
  <2>3. FilesHold'
    BY <2>1, <2>2
  <2>4. MintHolds'
    BY <1>1, <2>1, <2>2
  <2>5. QED
    BY <2>3, <2>4
<1>7. CASE MintFails
  BY <1>1, <1>7 DEF MintFails
<1>8. CASE RefreshDies
  BY <1>8 DEF RefreshDies, Idle
<1>9. QED
  BY <1>2, <1>3, <1>4, <1>5, <1>6, <1>7, <1>8 DEF RefreshSucceeds

\* A day of use: tokens grow older and stay tokens of their sets.
LEMMA StepTick == ASSUME FilesHold, MintHolds, Tick PROVE FilesHold' /\ MintHolds'
<1>1. \A k \in ConfiguredKeys : tokenFile'[k] = tokenFile[k] \/
          (tokenFile[k] # NoFile /\ tokenFile'[k] = [tokenFile[k] EXCEPT !.age = @ + 1])
  BY DEF Tick, FilesHold
<1>2. ASSUME NEW k \in ConfiguredKeys, IsTokenOf(k, tokenFile[k])
      PROVE  IsTokenOf(k, [tokenFile[k] EXCEPT !.age = @ + 1])
  <2>1. PICK a \in Nat : tokenFile[k] = [set |-> SetOf(k), age |-> a]
    BY <1>2 DEF IsTokenOf
  <2>2. [tokenFile[k] EXCEPT !.age = @ + 1] = [set |-> SetOf(k), age |-> a + 1] /\ a + 1 \in Nat
    BY <2>1
  <2>3. QED
    BY <2>2 DEF IsTokenOf
<1>3. FilesHold'
  BY <1>1, <1>2 DEF FilesHold, Tick
<1>4. QED
  BY <1>3 DEF MintHolds, Tick

-----------------------------------------------------------------------------
(* The call *)

LEMMA StepCall == ASSUME GhIInv, GhCall PROVE WasHolds' /\ CallHolds' /\ UNCHANGED refreshVars
<1> USE DEF GhIInv, WasHolds, CallHolds, Passed
<1>1. ASSUME NEW c \in Calls, Begin(c) PROVE WasHolds' /\ CallHolds' /\ UNCHANGED refreshVars
  BY <1>1, GhAssumption DEF Begin, Touch
<1>2. CASE LookUp
  BY <1>2 DEF LookUp, ReadToken
<1>3. ASSUME NEW answer, Answered(answer) PROVE WasHolds' /\ CallHolds' /\ UNCHANGED refreshVars
  <2>1. /\ step = "asked"
        /\ UNCHANGED <<call, held, was, refreshVars, private>>
        /\ step' = IF Allowed(call, answer) THEN "ready" ELSE "refused"
        /\ answer \in {"none"} \union {IF private[TargetRepo(call)] THEN "private" ELSE "public"}
    BY <1>3 DEF Answered, Answers
  <2>2. private[TargetRepo(call)] \in BOOLEAN
    <3>1. call \in Calls /\ TargetRepo(call) # NoRepo
      BY <2>1
    <3>2. QED
      BY <3>1, GhAssumption
  <2>3. Allowed(call, answer) => Passed
    BY <2>1, <2>2 DEF Allowed
  <2>4. QED
    BY <2>1, <2>3
<1>4. CASE RunGh
  <2>1. KnownSet(call) /\ RunKey(call) \in ConfiguredKeys
    BY <1>4, RunKeyIsConfigured DEF RunGh
  <2>2. tokenFile[RunKey(call)] # NoFile => IsTokenOf(RunKey(call), tokenFile[RunKey(call)])
    BY <2>1 DEF FilesHold
  <2>3. QED
    BY <1>4, <2>2 DEF RunGh, ReadToken, RunKey, KnownSet
<1>5. CASE End
  BY <1>5 DEF End
<1>6. QED
  BY <1>1, <1>2, <1>3, <1>4, <1>5 DEF GhCall

LEMMA StepFlip ==
    ASSUME GhIInv, NEW r \in Repos, Flip(r)
    PROVE  WasHolds' /\ CallHolds' /\ UNCHANGED refreshVars
<1> USE DEF GhIInv, WasHolds, CallHolds, Passed
<1>1. /\ private' = [private EXCEPT ![r] = ~private[r]]
      /\ was' = IF step # "idle" /\ TargetRepo(call) = r THEN was \union {~private[r]} ELSE was
      /\ UNCHANGED <<call, step, held, refreshVars>>
  BY DEF Flip
<1>2. private' \in [Repos -> BOOLEAN] /\ was \subseteq was'
  BY <1>1
<1>3. WasHolds'
  BY <1>1, <1>2, GhAssumption
<1>4. QED
  BY <1>1, <1>2, <1>3

-----------------------------------------------------------------------------
(* The invariant *)

LEMMA GhInitHolds == GhInit => GhIInv
  BY DEF GhInit, GhIInv, FilesHold, MintHolds, WasHolds, CallHolds

LEMMA GhRebootHolds == GhIInv /\ Reboot => GhIInv'
  BY DEF Reboot, Idle, GhIInv, FilesHold, MintHolds, WasHolds, CallHolds

LEMMA GhStepHolds == GhIInv /\ [GhNext]_ghVars => GhIInv'
<1> SUFFICES ASSUME GhIInv, [GhNext]_ghVars PROVE GhIInv'
  OBVIOUS
<1>1. CASE Refresh
  <2>1. FilesHold' /\ MintHolds'
    BY <1>1, StepMint DEF Refresh, GhIInv
  <2>2. UNCHANGED <<call, step, held, was, private>>
    BY <1>1 DEF Refresh, callVars
  <2>3. QED
    BY <2>1, <2>2 DEF GhIInv, WasHolds, CallHolds, Passed
<1>2. CASE Tick
  <2>1. FilesHold' /\ MintHolds'
    BY <1>2, StepTick DEF GhIInv
  <2>2. UNCHANGED <<call, step, held, was, private>>
    BY <1>2 DEF Tick, callVars
  <2>3. QED
    BY <2>1, <2>2 DEF GhIInv, WasHolds, CallHolds, Passed
<1>3. CASE GhCall
  BY <1>3, StepCall DEF GhIInv, FilesHold, MintHolds, refreshVars
<1>4. ASSUME NEW r \in Repos, Flip(r) PROVE GhIInv'
  BY <1>4, StepFlip DEF GhIInv, FilesHold, MintHolds, refreshVars
<1>5. CASE Reboot
  BY <1>5, GhRebootHolds
<1>6. CASE UNCHANGED ghVars
  BY <1>6 DEF ghVars, refreshVars, callVars, GhIInv, FilesHold, MintHolds, WasHolds, CallHolds, Passed
<1>7. QED
  BY <1>1, <1>2, <1>3, <1>4, <1>5, <1>6 DEF GhNext

\* Files and minted tokens are of their own sets, what a call knows of its target is part of
\* what the target has been, and a call past the decision has passed every rule of it.
THEOREM GhInvariant == GhSpec => []GhIInv
<1>1. QED
  BY GhInitHolds, GhStepHolds, PTL DEF GhSpec

\* The wrapper takes a recognised call for what it is.
LEMMA RecognisedWrites == \A c : Recognised(c) /\ Changes(c) => IsWrite(c)
<1> SUFFICES ASSUME NEW c, Recognised(c), Changes(c) PROVE IsWrite(c)
  OBVIOUS
<1>1. SeenMethod(c) = c.method /\ (c.fields => SeenFields(c))
  BY DEF Recognised, SeenMethod, SeenFields
<1>2. \A p \in ToSet(c.parts) : p.mutation => p \in Outgoing(c)
  BY DEF Recognised
<1>3. QED
  BY <1>1, <1>2 DEF Changes, IsWrite, WritesBy

LEMMA BoundaryHolds == GhIInv => BoundaryKept
<1>1. ASSUME GhIInv, step = "running" PROVE OwnToken /\ OwnSideOnly /\ NothingPrivateOut
  <2>1. Passed /\ IsTokenOf(RunKey(call), held)
    BY <1>1 DEF GhIInv, CallHolds
  <2>2. OwnToken
    BY <2>1 DEF OwnToken, IsTokenOf, RunKey
  <2>3. OwnSideOnly
    BY <2>1, RecognisedWrites DEF OwnSideOnly, Passed
  <2>4. ASSUME Recognised(call), Changes(call),
               NEW p \in ToSet(call.parts), p.form \in ReadForms, p.rule # "clean"
        PROVE  TRUE \in was
    <3>1. Scan(Outgoing(call)) # {} /\ IsWrite(call)
      BY <2>4, RecognisedWrites DEF Scan, Outgoing
    <3>2. call.boundary = "private"
      BY <2>1, <3>1 DEF Passed
    <3>3. (call.boundary = "private") \in was
      BY <2>1, <3>1 DEF Passed
    <3>4. QED
      BY <3>2, <3>3
  <2>5. QED
    BY <2>2, <2>3, <2>4 DEF NothingPrivateOut
<1>2. QED
  BY <1>1 DEF BoundaryKept, OwnToken, OwnSideOnly, NothingPrivateOut

\* A call that runs carries a token of its own set and boundary and runs on the side its
\* target was on during the call; and what it writes, in the forms the wrapper reads and in a
\* call it takes for what it is, breaks no rule on a public target, though tokens are replaced
\* and repositories change sides at any moment.
THEOREM BoundaryTheorem == GhSpec => []BoundaryKept
<1>1. QED
  BY BoundaryHolds, GhInvariant, PTL

\* No refresh, whether it succeeds, fails or dies, takes a token away from a file.
THEOREM TokensStayTheorem == GhSpec => TokensStay
<1>1. ASSUME GhIInv, GhIInv', [GhNext]_ghVars, NEW k \in ConfiguredKeys,
             tokenFile[k] # NoFile, tokenFile'[k] = NoFile
      PROVE  Reboot
  <2>1. ~Replace
    <3>1. ASSUME Replace PROVE FALSE
      <4>1. PICK j \in keys : tokenFile' = [tokenFile EXCEPT ![j] = minted[j]]
        BY <3>1 DEF Replace, Put
      <4>2. IsTokenOf(j, minted[j]) /\ j \in ConfiguredKeys
        BY <1>1, <3>1, <4>1 DEF Replace, GhIInv, MintHolds
      <4>3. QED
        BY <1>1, <4>1, <4>2, TokensAreFiles DEF GhIInv, FilesHold
    <3>2. QED
      BY <3>1
  <2>2. ~Tick
    <3>1. ASSUME Tick PROVE FALSE
      <4>1. tokenFile'[k] = [tokenFile[k] EXCEPT !.age = @ + 1]
        BY <1>1, <3>1 DEF Tick, GhIInv, FilesHold
      <4>2. PICK a \in Nat : tokenFile[k] = [set |-> SetOf(k), age |-> a]
        BY <1>1 DEF GhIInv, FilesHold, IsTokenOf
      <4>3. IsTokenOf(k, tokenFile'[k])
        BY <4>1, <4>2 DEF IsTokenOf
      <4>4. QED
        BY <1>1, <4>3, TokensAreFiles
    <3>2. QED
      BY <3>1
  <2>3. QED
    BY <1>1, <2>1, <2>2, StepCall, StepFlip
    DEF GhNext, Refresh, RefreshSucceeds, StartRefresh, Mint, BeginWriting, WriteTemporary,
        MintFails, RefreshDies, refreshVars, ghVars
<1>2. GhIInv /\ GhIInv' /\ [GhNext]_ghVars
        => [\A k \in ConfiguredKeys : tokenFile[k] # NoFile /\ tokenFile'[k] = NoFile => Reboot]_ghVars
  BY <1>1
<1>3. QED
  BY <1>2, GhInvariant, PTL DEF GhSpec, TokensStay

-----------------------------------------------------------------------------
(* The age of tokens *)

Boundaries == {e.boundary : e \in ToSet(Entries)}

\* parse_sets visits every entry: the recursive function of ByBoundary exists, and what it
\* has after n entries are their boundaries.
IsUpTo(n, f) == f = [i \in 0 .. n |-> IF i = 0 THEN <<>> ELSE OneMoreBoundary(f[i - 1], Entries[i].boundary)]
UpTo == CHOOSE f : f = [i \in 0 .. Len(Entries) |->
                           IF i = 0 THEN <<>> ELSE OneMoreBoundary(f[i - 1], Entries[i].boundary)]

LEMMA UpToExists == IsUpTo(Len(Entries), UpTo)
<1> DEFINE T == {n \in Nat : \E f : IsUpTo(n, f)}
<1>1. 0 \in T
  <2> DEFINE f == [i \in 0 .. 0 |-> <<>>]
  <2>1. IsUpTo(0, f)
    BY DEF IsUpTo
  <2> HIDE DEF f
  <2>2. QED
    BY <2>1
<1>2. ASSUME NEW n \in Nat, n \in T PROVE n + 1 \in T
  <2>1. PICK f : f = [i \in 0 .. n |-> IF i = 0 THEN <<>> ELSE OneMoreBoundary(f[i - 1], Entries[i].boundary)]
    BY <1>2 DEF IsUpTo
  <2> DEFINE g == [i \in 0 .. n + 1 |-> IF i = 0 THEN <<>> ELSE OneMoreBoundary(f[i - 1], Entries[i].boundary)]
  <2>2. ASSUME NEW i \in 0 .. n + 1, i # 0 PROVE g[i - 1] = f[i - 1]
    <3>1. i - 1 \in 0 .. n
      BY <2>2
    <3>2. f[i - 1] = IF i - 1 = 0 THEN <<>> ELSE OneMoreBoundary(f[i - 1 - 1], Entries[i - 1].boundary)
      BY <2>1, <3>1
    <3>3. QED
      BY <3>1, <3>2
  <2>3. IsUpTo(n + 1, g)
    BY <2>2 DEF IsUpTo
  <2> HIDE DEF g
  <2>4. QED
    BY <2>3
<1> HIDE DEF T
<1>3. Len(Entries) \in T
  BY <1>1, <1>2, SetInduction, GhAssumption
<1>4. \E f : IsUpTo(Len(Entries), f)
  BY <1>3 DEF T
<1>5. QED
  BY <1>4 DEF IsUpTo, UpTo

LEMMA UpToIs ==
    ASSUME NEW n \in 0 .. Len(Entries)
    PROVE  UpTo[n] = IF n = 0 THEN <<>> ELSE OneMoreBoundary(UpTo[n - 1], Entries[n].boundary)
<1> DEFINE f == UpTo
<1>1. f = [i \in 0 .. Len(Entries) |-> IF i = 0 THEN <<>> ELSE OneMoreBoundary(f[i - 1], Entries[i].boundary)]
  BY UpToExists DEF IsUpTo
<1> HIDE DEF f
<1>2. f[n] = IF n = 0 THEN <<>> ELSE OneMoreBoundary(f[n - 1], Entries[n].boundary)
  BY <1>1
<1>3. QED
  BY <1>2 DEF f

LEMMA OneMoreIs ==
    ASSUME NEW bs \in Seq(Boundaries), NEW b \in Boundaries
    PROVE  OneMoreBoundary(bs, b) \in Seq(Boundaries) /\ ToSet(OneMoreBoundary(bs, b)) = ToSet(bs) \cup {b}
<1>1. CASE b \in ToSet(bs)
  BY <1>1 DEF OneMoreBoundary
<1>2. CASE b \notin ToSet(bs)
  <2> DEFINE app == Append(bs, b)
  <2>1. app \in Seq(Boundaries) /\ Len(app) = Len(bs) + 1 /\ app[Len(bs) + 1] = b
        /\ \A i \in 1 .. Len(bs) : app[i] = bs[i]
    OBVIOUS
  <2>2. OneMoreBoundary(bs, b) = app
    BY <1>2 DEF OneMoreBoundary
  <2>3. DOMAIN app = 1 .. Len(bs) + 1 /\ DOMAIN bs = 1 .. Len(bs) /\ Len(bs) \in Nat
    BY <2>1
  <2> HIDE DEF app
  <2>4. ToSet(app) = ToSet(bs) \cup {b}
    <3>1. \A i \in DOMAIN app : i = Len(bs) + 1 \/ i \in DOMAIN bs
      BY <2>3
    <3>2. Len(bs) + 1 \in DOMAIN app /\ DOMAIN bs \subseteq DOMAIN app
      BY <2>3
    <3>3. QED
      BY <2>1, <2>3, <3>1, <3>2 DEF ToSet
  <2>5. QED
    BY <2>1, <2>2, <2>4
<1>3. QED
  BY <1>1, <1>2

LEMMA ByBoundaryIs == ByBoundary \in Seq(Boundaries) /\ ToSet(ByBoundary) = Boundaries
<1> DEFINE N == Len(Entries)
           Visited(n) == {Entries[i].boundary : i \in 1 .. n}
           T == {n \in Nat : n <= N => UpTo[n] \in Seq(Boundaries) /\ ToSet(UpTo[n]) = Visited(n)}
<1>1. N \in Nat /\ DOMAIN Entries = 1 .. N
  BY GhAssumption
<1>2. \A i \in 1 .. N : Entries[i].boundary \in Boundaries
  BY <1>1 DEF Boundaries, ToSet
<1> HIDE DEF N
<1>3. 0 \in T
  <2>1. UpTo[0] = <<>>
    BY <1>1, UpToIs DEF N
  <2>2. <<>> \in Seq(Boundaries) /\ ToSet(<<>>) = {}
    BY DEF ToSet
  <2>3. Visited(0) = {}
    OBVIOUS
  <2>4. QED
    BY <2>1, <2>2, <2>3
<1>4. ASSUME NEW n \in Nat, n \in T PROVE n + 1 \in T
  <2> SUFFICES ASSUME n + 1 <= N
               PROVE  UpTo[n + 1] \in Seq(Boundaries) /\ ToSet(UpTo[n + 1]) = Visited(n + 1)
    OBVIOUS
  <2>1. UpTo[n + 1] = OneMoreBoundary(UpTo[n], Entries[n + 1].boundary)
    <3>1. n + 1 \in 0 .. Len(Entries) /\ n + 1 # 0 /\ n + 1 - 1 = n
      BY <1>1 DEF N
    <3>2. QED
      BY <3>1, UpToIs
  <2>2. UpTo[n] \in Seq(Boundaries) /\ ToSet(UpTo[n]) = Visited(n) /\ Entries[n + 1].boundary \in Boundaries
    BY <1>1, <1>2, <1>4
  <2>3. Visited(n + 1) = Visited(n) \cup {Entries[n + 1].boundary}
    <3>1. 1 .. n + 1 = (1 .. n) \cup {n + 1}
      OBVIOUS
    <3>2. QED
      BY <3>1
  <2> HIDE DEF Visited
  <2>4. QED
    BY <2>1, <2>2, <2>3, OneMoreIs
<1>5. \A n \in Nat : n \in T
  <2> HIDE DEF T
  <2> QED
    BY <1>3, <1>4, SetInduction
<1>6. UpTo[N] \in Seq(Boundaries) /\ ToSet(UpTo[N]) = Visited(N)
  BY <1>1, <1>5
<1>7. Visited(N) = Boundaries
  BY <1>1 DEF Boundaries, ToSet
<1>8. ByBoundary = UpTo[N]
  BY DEF ByBoundary, UpTo, N
<1>9. QED
  BY <1>6, <1>7, <1>8

\* Where the refresh is: its boundaries are configured ones, and it runs as long as any are left.
RefreshHolds ==
    /\ due \in BOOLEAN
    /\ boundaries \in Seq(Boundaries)
    /\ (stage = "idle") = (boundaries = <<>>)
    /\ due => stage = "idle"
    /\ missed \in [Boundaries -> 0 .. Life]

\* A boundary whose turn is still to come in this interval has its token one interval longer.
Allowance(b) == missed[b] + (IF due \/ b \in ToSet(boundaries) THEN 1 ELSE 0)
AgesHold ==
    /\ \A k \in ConfiguredKeys : tokenFile[k].age \in 0 .. Life
    /\ \A e \in ToSet(Entries) : tokenFile[e.key].age <= Allowance(e.boundary)

\* What is minted and what is written of it is new.
NewIsFresh ==
    /\ stage = "mint" => \A k \in KeysOf(Head(boundaries)) \ keys : minted[k].age = 0
    /\ stage \in {"write", "replace"} =>
          /\ \A k \in keys : minted[k].age = 0
          /\ \A k \in KeysOf(Head(boundaries)) \ keys : tokenFile[k].age = 0

FreshInv == RefreshHolds /\ AgesHold /\ NewIsFresh

LEMMA KeysAreEntries == \A e \in ToSet(Entries) : e.key \in KeysOf(e.boundary) /\ e.key \in ConfiguredKeys
                                                  /\ e.boundary \in Boundaries
  BY DEF KeysOf, ConfiguredKeys, Boundaries

LEMMA HeadOrTail ==
    ASSUME NEW bs \in Seq(Boundaries), bs # <<>>
    PROVE  /\ Tail(bs) \in Seq(Boundaries) /\ Head(bs) \in Boundaries
           /\ ToSet(bs) = {Head(bs)} \cup ToSet(Tail(bs))
<1> DEFINE rest == Tail(bs)
<1>1. /\ rest \in Seq(Boundaries) /\ Head(bs) \in Boundaries /\ Head(bs) = bs[1]
      /\ Len(bs) \in Nat /\ Len(bs) # 0 /\ Len(rest) = Len(bs) - 1
      /\ \A i \in 1 .. Len(rest) : rest[i] = bs[i + 1]
  OBVIOUS
<1>2. DOMAIN bs = 1 .. Len(bs) /\ DOMAIN rest = 1 .. Len(rest)
  BY <1>1
<1> HIDE DEF rest
<1>3. ToSet(bs) \subseteq {Head(bs)} \cup ToSet(rest)
  <2>1. ASSUME NEW i \in DOMAIN bs, i # 1 PROVE bs[i] \in ToSet(rest)
    <3>1. i - 1 \in DOMAIN rest /\ rest[i - 1] = bs[i]
      BY <1>1, <1>2, <2>1
    <3>2. QED
      BY <3>1 DEF ToSet
  <2>2. QED
    BY <1>1, <2>1 DEF ToSet
<1>4. ToSet(rest) \subseteq ToSet(bs)
  <2>1. \A i \in DOMAIN rest : i + 1 \in DOMAIN bs /\ rest[i] = bs[i + 1]
    BY <1>1, <1>2
  <2>2. QED
    BY <2>1 DEF ToSet
<1>5. Head(bs) \in ToSet(bs)
  BY <1>1, <1>2 DEF ToSet
<1>6. QED
  BY <1>1, <1>3, <1>4, <1>5 DEF rest

LEMMA NothingLeft == ToSet(<<>>) = {}
  BY DEF ToSet

LEMMA MissedIs ==
    ASSUME RefreshHolds, NEW bs, Miss(bs)
    PROVE  /\ missed' \in [Boundaries -> 0 .. Life]
           /\ \A b \in Boundaries : missed[b] <= missed'[b]
           /\ \A b \in Boundaries \cap bs : missed'[b] = Life \/ missed'[b] = missed[b] + 1
<1> USE GhAssumption DEF RefreshHolds
<1>1. /\ DOMAIN missed = Boundaries
      /\ missed' = [b \in DOMAIN missed |-> IF b \in bs /\ missed[b] < Life THEN missed[b] + 1 ELSE missed[b]]
  BY DEF Miss
<1>2. \A b \in Boundaries : missed[b] \in 0 .. Life
  OBVIOUS
<1>3. \A b \in Boundaries : missed'[b] \in 0 .. Life
  BY <1>1, <1>2
<1>4. QED
  BY <1>1, <1>2, <1>3

\* The next boundary's turn begins with nothing minted.
LEMMA NextTurn ==
    ASSUME NEW bs \in Seq(Boundaries), NextBoundary(bs)
    PROVE  /\ boundaries' = bs /\ (stage' = "idle") = (bs = <<>>) /\ NewIsFresh'
           /\ stage' \in {"idle", "mint"}
  BY DEF NextBoundary, Idle, NewIsFresh

\* Ages that do not change stay within allowances that do not shrink but for boundaries at Life.
LEMMA AgesStay ==
    ASSUME AgesHold, RefreshHolds, missed' \in [Boundaries -> 0 .. Life], UNCHANGED tokenFile,
           \A b \in Boundaries : missed'[b] = Life \/ Allowance(b) <= Allowance(b)'
    PROVE  AgesHold'
<1> SUFFICES ASSUME NEW e \in ToSet(Entries) PROVE tokenFile[e.key].age <= Allowance(e.boundary)'
  BY DEF AgesHold
<1> DEFINE b == e.boundary
<1>1. b \in Boundaries /\ tokenFile[e.key].age \in 0 .. Life /\ tokenFile[e.key].age <= Allowance(b)
  BY KeysAreEntries DEF AgesHold
<1>2. missed[b] \in 0 .. Life /\ missed'[b] \in 0 .. Life
  BY <1>1 DEF RefreshHolds
<1>3. CASE missed'[b] = Life
  BY <1>1, <1>2, <1>3, GhAssumption DEF Allowance
<1>4. CASE Allowance(b) <= Allowance(b)'
  <2>1. Allowance(b) \in Nat /\ Allowance(b)' \in Nat
    BY <1>2, GhAssumption DEF Allowance
  <2> HIDE DEF b
  <2>2. tokenFile[e.key].age <= Allowance(b)'
    BY <1>1, <1>4, <2>1, GhAssumption
  <2>3. QED
    BY <2>2 DEF b
<1>5. QED
  BY <1>1, <1>3, <1>4

LEMMA FreshStart == ASSUME FreshInv, StartRefresh PROVE FreshInv'
<1> USE DEF FreshInv
<1>1. /\ due /\ due' = FALSE /\ UNCHANGED <<tokenFile, missed>> /\ NextBoundary(ByBoundary)
  BY DEF StartRefresh
<1>2. boundaries' = ByBoundary /\ (stage' = "idle") = (ByBoundary = <<>>) /\ NewIsFresh'
  BY <1>1, ByBoundaryIs, NextTurn
<1>3. RefreshHolds'
  BY <1>1, <1>2, ByBoundaryIs DEF RefreshHolds
<1>4. \A b \in Boundaries : Allowance(b) = Allowance(b)'
  BY <1>1, <1>2, ByBoundaryIs DEF Allowance
<1>5. \A b \in Boundaries : Allowance(b) \in Nat
  BY GhAssumption DEF Allowance, RefreshHolds
<1>6. AgesHold'
  BY <1>1, <1>3, <1>4, <1>5, AgesStay DEF RefreshHolds
<1>7. QED
  BY <1>2, <1>3, <1>6

LEMMA FreshMint ==
    ASSUME FreshInv, MintHolds, Mint \/ BeginWriting \/ WriteTemporary
    PROVE  FreshInv'
<1> USE DEF FreshInv
<1>1. UNCHANGED <<tokenFile, due, boundaries, missed>> /\ stage # "idle" /\ stage' # "idle"
  BY DEF Mint, BeginWriting, WriteTemporary
<1>2. RefreshHolds'
  BY <1>1 DEF RefreshHolds
<1>3. AgesHold'
  BY <1>1 DEF AgesHold, Allowance
<1>4. CASE Mint
  <2>1. PICK k \in keys : /\ minted' = [j \in DOMAIN minted \union {k} |->
                                           IF j = k THEN [set |-> SetOf(k), age |-> 0] ELSE minted[j]]
                          /\ keys' = keys \ {k}
    BY <1>4 DEF Mint
  <2>2. minted'[k].age = 0 /\ \A j \in DOMAIN minted \ {k} : minted'[j] = minted[j]
    BY <2>1
  <2>3. UNCHANGED <<stage, boundaries>> /\ stage = "mint"
    BY <1>4 DEF Mint
  <2>4. \A j \in KeysOf(Head(boundaries)) \ keys : j \in DOMAIN minted /\ minted[j].age = 0
    BY <2>3 DEF MintHolds, NewIsFresh
  <2>5. \A j \in KeysOf(Head(boundaries)) \ keys' : minted'[j].age = 0
    BY <2>1, <2>2, <2>4
  <2>6. QED
    BY <1>2, <1>3, <2>3, <2>5 DEF NewIsFresh
<1>5. CASE BeginWriting
  BY <1>2, <1>3, <1>5 DEF BeginWriting, NewIsFresh
<1>6. CASE WriteTemporary
  BY <1>2, <1>3, <1>6 DEF WriteTemporary, NewIsFresh
<1>7. QED
  BY <1>4, <1>5, <1>6

\* A boundary, or a whole refresh, that fails has one more miss in place of its turn.
LEMMA FreshFails == ASSUME FreshInv, MintFails \/ RefreshDies PROVE FreshInv'
<1> USE DEF FreshInv
<1>1. /\ stage # "idle" /\ ~due /\ UNCHANGED <<tokenFile, due>>
      /\ boundaries \in Seq(Boundaries) /\ boundaries # <<>>
  BY DEF MintFails, RefreshDies, RefreshHolds
<1>2. /\ Tail(boundaries) \in Seq(Boundaries) /\ <<>> \in Seq(Boundaries)
      /\ ToSet(boundaries) = {Head(boundaries)} \cup ToSet(Tail(boundaries))
  BY <1>1, HeadOrTail
<1>3. PICK lost \in SUBSET ToSet(boundaries), left \in Seq(Boundaries) :
          /\ Miss(lost) /\ boundaries' = left /\ ToSet(boundaries) \subseteq lost \cup ToSet(left)
          /\ (stage' = "idle") = (left = <<>>) /\ NewIsFresh'
  <2>1. CASE MintFails
    BY <1>2, <2>1, NextTurn DEF MintFails
  <2>2. CASE RefreshDies
    BY <1>2, <2>2 DEF RefreshDies, Idle, NewIsFresh
  <2>3. QED
    BY <2>1, <2>2
<1>4. /\ missed' \in [Boundaries -> 0 .. Life]
      /\ \A b \in Boundaries : missed[b] <= missed'[b]
      /\ \A b \in Boundaries \cap lost : missed'[b] = Life \/ missed'[b] = missed[b] + 1
  BY <1>3, MissedIs
<1>5. RefreshHolds'
  BY <1>1, <1>3, <1>4 DEF RefreshHolds
<1>6. ASSUME NEW b \in Boundaries PROVE missed'[b] = Life \/ Allowance(b) <= Allowance(b)'
  <2>1. missed[b] \in Nat /\ missed'[b] \in Nat /\ missed[b] <= missed'[b]
    BY <1>4, GhAssumption DEF RefreshHolds
  <2>2. CASE b \in lost
    BY <1>1, <1>3, <1>4, <2>1, <2>2 DEF Allowance
  <2>3. CASE b \notin lost
    <3>1. b \in ToSet(boundaries) => b \in ToSet(boundaries)'
      BY <1>3, <2>3
    <3>2. QED
      BY <1>1, <2>1, <3>1 DEF Allowance
  <2>4. QED
    BY <2>2, <2>3
<1>7. AgesHold'
  BY <1>1, <1>4, <1>6, AgesStay
<1>8. QED
  BY <1>3, <1>5, <1>7

\* What is replaced is new, and a boundary whose files all are has missed nothing.
LEMMA FreshReplace == ASSUME FreshInv, FilesHold, MintHolds, Replace PROVE FreshInv'
<1> USE DEF FreshInv
<1>1. PICK k \in keys :
          /\ tokenFile' = [tokenFile EXCEPT ![k] = minted[k]]
          /\ IF keys \ {k} # {}
             THEN stage' = "write" /\ keys' = keys \ {k} /\ UNCHANGED <<boundaries, minted, missed>>
             ELSE missed' = [missed EXCEPT ![Head(boundaries)] = 0] /\ NextBoundary(Tail(boundaries))
  BY DEF Replace, Put
<1>2. stage = "replace" /\ ~due /\ UNCHANGED due
      /\ boundaries \in Seq(Boundaries) /\ boundaries # <<>>
  BY DEF Replace, RefreshHolds
<1>3. /\ Tail(boundaries) \in Seq(Boundaries) /\ Head(boundaries) \in Boundaries
      /\ ToSet(boundaries) = {Head(boundaries)} \cup ToSet(Tail(boundaries))
  BY <1>2, HeadOrTail
<1>4. k \in ConfiguredKeys /\ minted[k].age = 0
  BY <1>2 DEF MintHolds, NewIsFresh
<1>5. /\ tokenFile'[k].age = 0
      /\ \A j \in ConfiguredKeys : tokenFile'[j] = tokenFile[j] \/ tokenFile'[j].age = 0
  BY <1>1, <1>4 DEF FilesHold
<1>6. \A j \in ConfiguredKeys : tokenFile'[j].age \in 0 .. Life /\ tokenFile'[j].age <= tokenFile[j].age
  BY <1>5, GhAssumption DEF AgesHold
<1>7. CASE keys \ {k} # {}
  <2>1. RefreshHolds'
    BY <1>1, <1>2, <1>7 DEF RefreshHolds
  <2>2. AgesHold'
    <3>1. SUFFICES ASSUME NEW e \in ToSet(Entries) PROVE tokenFile'[e.key].age <= Allowance(e.boundary)'
      BY <1>6 DEF AgesHold
    <3>2. /\ e.key \in ConfiguredKeys /\ tokenFile[e.key].age \in 0 .. Life
          /\ tokenFile[e.key].age <= Allowance(e.boundary) /\ missed[e.boundary] \in 0 .. Life
      BY KeysAreEntries DEF AgesHold, RefreshHolds
    <3>3. Allowance(e.boundary)' = Allowance(e.boundary)
      BY <1>1, <1>2, <1>7 DEF Allowance
    <3>4. Allowance(e.boundary) \in Nat
      BY <3>2, GhAssumption DEF Allowance
    <3>5. QED
      BY <1>6, <3>2, <3>3, <3>4, GhAssumption
  <2>3. NewIsFresh'
    <3>1. \A j \in KeysOf(Head(boundaries)) \ keys : tokenFile[j].age = 0
      BY <1>2 DEF NewIsFresh
    <3>2. \A j \in KeysOf(Head(boundaries)) \ keys' : tokenFile'[j].age = 0
      BY <1>1, <1>5, <1>7, <3>1, KeysAreConfigured
    <3>3. QED
      BY <1>1, <1>2, <1>7, <3>2 DEF NewIsFresh
  <2>4. QED
    BY <2>1, <2>2, <2>3
<1>8. CASE keys \ {k} = {}
  <2> DEFINE served == Head(boundaries)
  <2>1. /\ boundaries' = Tail(boundaries) /\ (stage' = "idle") = (Tail(boundaries) = <<>>) /\ NewIsFresh'
        /\ missed' = [missed EXCEPT ![served] = 0]
    BY <1>1, <1>3, <1>8, NextTurn
  <2>2. RefreshHolds'
    BY <1>2, <1>3, <2>1, GhAssumption DEF RefreshHolds
  <2>3. \A j \in KeysOf(served) : tokenFile'[j].age = 0
    <3>1. \A j \in KeysOf(served) \ {k} : tokenFile[j].age = 0
      BY <1>2, <1>8 DEF NewIsFresh
    <3>2. QED
      BY <1>5, <3>1, KeysAreConfigured
  <2>4. AgesHold'
    <3>1. SUFFICES ASSUME NEW e \in ToSet(Entries) PROVE tokenFile'[e.key].age <= Allowance(e.boundary)'
      BY <1>6 DEF AgesHold
    <3>2. /\ e.key \in ConfiguredKeys /\ tokenFile[e.key].age \in 0 .. Life /\ e.key \in KeysOf(e.boundary)
          /\ tokenFile[e.key].age <= Allowance(e.boundary)
          /\ e.boundary \in Boundaries /\ missed[e.boundary] \in 0 .. Life /\ missed'[e.boundary] \in 0 .. Life
      BY <2>2, KeysAreEntries DEF AgesHold, RefreshHolds
    <3>3. CASE e.boundary = served
      BY <2>3, <3>2, <3>3, GhAssumption DEF Allowance
    <3>4. CASE e.boundary # served
      <4>1. missed'[e.boundary] = missed[e.boundary]
        BY <2>1, <3>2, <3>4 DEF RefreshHolds
      <4>2. e.boundary \in ToSet(boundaries) => e.boundary \in ToSet(boundaries)'
        BY <1>3, <2>1, <3>4
      <4>3. tokenFile'[e.key].age \in 0 .. Life /\ tokenFile'[e.key].age <= tokenFile[e.key].age
        BY <1>6, <3>2
      <4>4. QED
        BY <1>2, <3>2, <4>1, <4>2, <4>3, GhAssumption DEF Allowance
    <3>5. QED
      BY <3>3, <3>4
  <2>5. QED
    BY <2>1, <2>2, <2>4
<1>9. QED
  BY <1>7, <1>8

\* An interval passes: every boundary has a turn to come.
LEMMA FreshTick == ASSUME FreshInv, FilesHold, Tick PROVE FreshInv'
<1> USE DEF FreshInv
<1>0. Life \in Nat
  BY GhAssumption
<1>1. /\ stage = "idle" /\ ~due /\ due' = TRUE /\ UNCHANGED <<stage, boundaries, keys, minted, missed>>
      /\ boundaries = <<>>
      /\ \A k \in ConfiguredKeys : tokenFile'[k] =
            IF tokenFile[k] = NoFile \/ tokenFile[k].age = Life THEN tokenFile[k]
            ELSE [tokenFile[k] EXCEPT !.age = @ + 1]
  BY DEF Tick, RefreshHolds, FilesHold
<1>2. RefreshHolds' /\ NewIsFresh'
  BY <1>1 DEF RefreshHolds, NewIsFresh
<1>3. ASSUME NEW k \in ConfiguredKeys
      PROVE  tokenFile'[k].age \in 0 .. Life /\ tokenFile'[k].age <= tokenFile[k].age + 1
  <2>1. tokenFile[k].age \in 0 .. Life
    BY DEF AgesHold
  <2>2. CASE tokenFile[k] = NoFile \/ tokenFile[k].age = Life
    <3>1. tokenFile'[k] = tokenFile[k]
      BY <1>1, <2>2
    <3>2. QED
      BY <1>0, <2>1, <3>1
  <2>3. CASE tokenFile[k] # NoFile /\ tokenFile[k].age # Life
    <3>1. PICK a \in Nat : tokenFile[k] = [set |-> SetOf(k), age |-> a]
      BY <2>3 DEF FilesHold, IsTokenOf
    <3>2. tokenFile'[k] = [tokenFile[k] EXCEPT !.age = @ + 1]
      BY <1>1, <2>3
    <3>3. tokenFile'[k] = [set |-> SetOf(k), age |-> a + 1]
      BY <3>1, <3>2
    <3>4. tokenFile'[k].age = a + 1 /\ tokenFile[k].age = a
      BY <3>1, <3>3
    <3>5. QED
      BY <1>0, <2>1, <2>3, <3>4
  <2>4. QED
    BY <2>2, <2>3
<1>4. ASSUME NEW e \in ToSet(Entries) PROVE tokenFile'[e.key].age <= Allowance(e.boundary)'
  <2>1. /\ e.key \in ConfiguredKeys /\ tokenFile[e.key].age \in 0 .. Life
        /\ tokenFile[e.key].age <= Allowance(e.boundary) /\ missed[e.boundary] \in 0 .. Life
    BY KeysAreEntries DEF AgesHold, RefreshHolds
  <2>2. Allowance(e.boundary) = missed[e.boundary] /\ Allowance(e.boundary)' = missed[e.boundary] + 1
    BY <1>0, <1>1, <2>1, NothingLeft DEF Allowance
  <2>3. tokenFile'[e.key].age \in 0 .. Life /\ tokenFile'[e.key].age <= tokenFile[e.key].age + 1
    BY <1>3, <2>1
  <2> DEFINE old == tokenFile[e.key].age
             new == tokenFile'[e.key].age
             m == missed[e.boundary]
  <2>4. /\ old \in Nat /\ new \in Nat /\ m \in Nat /\ old <= m /\ new <= old + 1
        /\ Allowance(e.boundary)' = m + 1
    BY <1>0, <2>1, <2>2, <2>3
  <2> HIDE DEF old, new, m
  <2>5. new <= m + 1
    BY <2>4
  <2>6. QED
    BY <2>4, <2>5 DEF new, m
<1>5. QED
  BY <1>2, <1>3, <1>4 DEF AgesHold

LEMMA FreshInit == GhInit \/ TokensRest => FreshInv
<1> SUFFICES ASSUME GhInit \/ TokensRest PROVE FreshInv
  OBVIOUS
<1>1. /\ due \in BOOLEAN /\ stage = "idle" /\ boundaries = <<>>
      /\ missed = [b \in Boundaries |-> 0]
      /\ \A k \in ConfiguredKeys : tokenFile[k].age = 0
  <2>1. CASE GhInit
    BY <2>1, ByBoundaryIs DEF GhInit, NoFile
  <2>2. CASE TokensRest
    BY <2>2, ByBoundaryIs DEF TokensRest
  <2>3. QED
    BY <2>1, <2>2
<1>2. RefreshHolds
  BY <1>1, GhAssumption DEF RefreshHolds
<1>3. AgesHold
  BY <1>1, KeysAreEntries, GhAssumption DEF AgesHold, Allowance
<1>4. QED
  BY <1>1, <1>2, <1>3 DEF FreshInv, NewIsFresh

LEMMA FreshReboot == ASSUME FreshInv, FilesHold, Reboot PROVE FreshInv'
<1>1. /\ due' = TRUE /\ stage' = "idle" /\ boundaries' = <<>>
      /\ missed' = [b \in Boundaries |-> 0]
      /\ \A k \in ConfiguredKeys : tokenFile'[k].age = 0
  BY DEF Reboot, Idle, FreshInv, RefreshHolds, FilesHold, NoFile
<1>2. RefreshHolds'
  BY <1>1, GhAssumption DEF RefreshHolds
<1>3. AgesHold'
  BY <1>1, KeysAreEntries, GhAssumption DEF AgesHold, Allowance
<1>4. QED
  BY <1>1, <1>2, <1>3 DEF FreshInv, NewIsFresh

LEMMA FreshStays == FreshInv /\ UNCHANGED refreshVars => FreshInv'
  BY DEF refreshVars, FreshInv, RefreshHolds, AgesHold, Allowance, NewIsFresh

LEMMA FreshStep == GhIInv /\ FreshInv /\ [GhNext]_ghVars => FreshInv'
<1> SUFFICES ASSUME GhIInv, FreshInv, [GhNext]_ghVars PROVE FreshInv'
  OBVIOUS
<1>1. FilesHold /\ MintHolds
  BY DEF GhIInv
<1>2. CASE Refresh
  BY <1>1, <1>2, FreshStart, FreshMint, FreshReplace, FreshFails DEF Refresh, RefreshSucceeds
<1>3. CASE Tick
  BY <1>1, <1>3, FreshTick
<1>4. CASE GhCall
  BY <1>4, StepCall, FreshStays
<1>5. ASSUME NEW r \in Repos, Flip(r) PROVE FreshInv'
  BY <1>5, StepFlip, FreshStays
<1>6. CASE Reboot
  BY <1>1, <1>6, FreshReboot
<1>7. CASE UNCHANGED ghVars
  BY <1>7, FreshStays DEF ghVars
<1>8. QED
  BY <1>2, <1>3, <1>4, <1>5, <1>6, <1>7 DEF GhNext

LEMMA AgesAreAllowed == FreshInv => TokensAreFresh
<1> SUFFICES ASSUME FreshInv, NEW e \in ToSet(Entries)
             PROVE  tokenFile[e.key].age <= 1 + missed[e.boundary]
  BY DEF TokensAreFresh
<1>1. /\ tokenFile[e.key].age \in 0 .. Life /\ tokenFile[e.key].age <= Allowance(e.boundary)
      /\ missed[e.boundary] \in 0 .. Life
  BY KeysAreEntries DEF FreshInv, AgesHold, RefreshHolds
<1>2. QED
  BY <1>1, GhAssumption DEF Allowance

\* A token in a file is at most one refresh interval old, and one more for each refresh in a
\* row that its boundary has missed, whichever refreshes fail, die or are lost to a reboot.
THEOREM FreshTheorem == GhSpec => []TokensAreFresh
<1>1. GhInit => GhIInv /\ FreshInv
  BY GhInitHolds, FreshInit
<1>2. GhIInv /\ FreshInv /\ [GhNext]_ghVars => GhIInv' /\ FreshInv'
  BY GhStepHolds, FreshStep
<1>3. FreshInv => TokensAreFresh
  BY AgesAreAllowed
<1>4. QED
  BY <1>1, <1>2, <1>3, PTL DEF GhSpec

-----------------------------------------------------------------------------
(* ModelStore, for any revisions, files and registered globs *)

\* A sidecar is either absent or names what its revision has under that name.
SidecarsHold ==
    \A f \in StoreNames : sidecar[f] = NoSidecar \/
        (/\ sidecar[f].revision \in Revisions
         /\ f \in DOMAIN Trees[sidecar[f].revision]
         /\ sidecar[f].etag = Trees[sidecar[f].revision][f])

\* Files whose sidecars are still to be written are files of the pinned revision, and
\* hf download is at work as long as there are any.
FetchHolds ==
    /\ fetched \subseteq DOMAIN Trees[pinned]
    /\ fetched # {} => converge = "download"

StoreIInv ==
    /\ DOMAIN content = StoreNames /\ DOMAIN sidecar = StoreNames
    /\ pinned \in Revisions
    /\ SidecarsHold /\ FetchHolds /\ AcceptedIsPinned

\* A file of any revision is one the store may hold.
LEMMA FilesAreNames == \A r \in Revisions : DOMAIN Trees[r] \subseteq StoreNames
  BY DEF StoreNames

\* What the check accepts carries the pinned content: a matched file that is there is
\* selected, has the pinned sidecar and the content this sidecar names.
LEMMA VerifiedIsPinned ==
    ASSUME StoreIInv, Verified(pinned), NEW f \in Matched \cap Present
    PROVE  f \in DOMAIN Trees[pinned] /\ content[f] = Trees[pinned][f]
<1>1. PICK i \in DOMAIN Includes : f \in Includes[i]
  BY DEF Matched
<1>2. f \in Selected /\ f \in StoreNames
  BY <1>1 DEF Selected, MatchesOf, Present
<1>3. /\ f \in Downloaded /\ sidecar[f].revision = pinned
      /\ content[f] = sidecar[f].etag
  BY <1>2 DEF Verified, AtRevision, Intact
<1>4. QED
  BY <1>2, <1>3 DEF Downloaded, StoreIInv, SidecarsHold

LEMMA StoreInitHolds == StoreInit => StoreIInv
  BY DEF StoreInit, StoreIInv, SidecarsHold, FetchHolds, AcceptedIsPinned

LEMMA StoreStepHolds == StoreIInv /\ [StoreNext]_storeVars => StoreIInv'
<1> SUFFICES ASSUME StoreIInv, [StoreNext]_storeVars PROVE StoreIInv'
  OBVIOUS
<1> USE DEF StoreIInv, SidecarsHold, FetchHolds
<1>1. CASE CheckOffline
  BY <1>1 DEF CheckOffline, AcceptedIsPinned
<1>2. CASE NextInclude
  BY <1>2 DEF NextInclude, AcceptedIsPinned
<1>3. CASE VerifyStore
  <2>1. ASSUME Verified(pinned) PROVE AcceptedIsPinned'
    BY <1>3, <2>1, VerifiedIsPinned DEF VerifyStore, AcceptedIsPinned, Present
  <2>2. AcceptedIsPinned'
    BY <1>3, <2>1 DEF VerifyStore, AcceptedIsPinned
  <2>3. QED
    BY <1>3, <2>2 DEF VerifyStore
<1>4. CASE Stop
  BY <1>4 DEF Stop, AcceptedIsPinned
<1>5. ASSUME NEW f \in StoreNames, Fetch(f) PROVE StoreIInv'
  BY <1>5 DEF Fetch, ToFetch, Wanted, AcceptedIsPinned
<1>6. ASSUME NEW f \in StoreNames, WriteSidecar(f) PROVE StoreIInv'
  <2>1. f \in DOMAIN Trees[pinned] /\ converge = "download"
    BY <1>6 DEF WriteSidecar
  <2>2. SidecarsHold'
    BY <1>6, <2>1 DEF WriteSidecar
  <2>3. QED
    BY <1>6, <2>1, <2>2 DEF WriteSidecar, AcceptedIsPinned
<1>7. ASSUME NEW f \in StoreNames, Damage(f) PROVE StoreIInv'
  BY <1>7 DEF Damage, Between, AcceptedIsPinned
<1>8. ASSUME NEW r \in Revisions, Pin(r) PROVE StoreIInv'
  BY <1>8 DEF Pin, Between, AcceptedIsPinned
<1>9. CASE UNCHANGED storeVars
  BY <1>9 DEF storeVars, AcceptedIsPinned, Present
<1>10. QED
  BY <1>1, <1>2, <1>3, <1>4, <1>5, <1>6, <1>7, <1>8, <1>9 DEF StoreNext

-----------------------------------------------------------------------------

\* Sidecars tell the truth about their revision and only the download leaves files without
\* them, in every reachable state of the store and the converge.
THEOREM StoreInvariant == StoreSpec => []StoreIInv
<1>1. StoreInit => StoreIInv
  BY StoreInitHolds
<1>2. StoreIInv /\ [StoreNext]_storeVars => StoreIInv'
  BY StoreStepHolds
<1>3. QED
  BY <1>1, <1>2, PTL DEF StoreSpec

\* A store the converge accepts holds the content of the pinned revision under every name
\* the registered globs match, whatever was interrupted, re-pinned or damaged before.
THEOREM PinnedTheorem == StoreSpec => []AcceptedIsPinned
<1>1. StoreIInv => AcceptedIsPinned
  BY DEF StoreIInv
<1>2. QED
  BY <1>1, StoreInvariant, PTL

-----------------------------------------------------------------------------
(* DocsIndex, for any sources, any required ones among them and any age *)

USE DocsAssumption
USE DEF Never, Whole

\* What a run has in hand: from the drop on every required source is loaded or indexed
\* anew, and nothing still in hand is in the collection it builds.
RunHolds ==
    /\ indexer = "drop" => Required \subseteq docs
    /\ indexer = "insert" => \A s \in Required : s \in docs \/ (indexed # Absent /\ indexed[s] > 0)
    /\ indexer = "insert" /\ indexed # Absent => \A s \in docs : indexed[s] = 0
    /\ indexer = "touch" => Whole(indexed)

\* The collection has not been broken for longer than the sentinel is old.
SentinelHolds == sentinel # Never => broken <= sentinel

DocsIInv == DocsTypeOK /\ RunHolds /\ NoDuplicates /\ SentinelHolds

\* A collection that exists has every source in its domain.
LEMMA AbsentIsEmpty ==
    /\ DOMAIN Absent = {}
    /\ DOMAIN indexed = Sources => indexed # Absent
<1>1. DOMAIN Absent = {}
  BY DEF Absent
<1>2. QED
  BY <1>1

LEMMA DocsInitHolds == DocsInit => DocsIInv
  BY AbsentIsEmpty DEF DocsInit, DocsIInv, DocsTypeOK, RunHolds, NoDuplicates, SentinelHolds

\* What an insertion does to the collection.
LEMMA InsertCounts ==
    ASSUME DocsTypeOK, NEW s \in Sources, Insert(s)
    PROVE  /\ DOMAIN indexed' = Sources
           /\ indexed' # Absent
           /\ indexed = Absent => \A t \in Sources : indexed'[t] = (IF t = s THEN 1 ELSE 0)
           /\ indexed # Absent => \A t \in Sources : indexed'[t] = indexed[t] + (IF t = s THEN 1 ELSE 0)
<1>1. DOMAIN indexed' = Sources
  BY DEF Insert
<1>2. indexed' # Absent
  BY <1>1, AbsentIsEmpty
<1>3. ASSUME indexed = Absent, NEW t \in Sources PROVE indexed'[t] = (IF t = s THEN 1 ELSE 0)
  BY <1>3, AbsentIsEmpty DEF Insert
<1>4. ASSUME indexed # Absent, NEW t \in Sources
      PROVE  indexed'[t] = indexed[t] + (IF t = s THEN 1 ELSE 0)
  BY <1>4, AbsentIsEmpty DEF Insert, DocsTypeOK
<1>5. QED
  BY <1>1, <1>2, <1>3, <1>4

LEMMA DocsStepHolds == DocsIInv /\ [DocsNext]_docsVars => DocsIInv'
<1> SUFFICES ASSUME DocsIInv, [DocsNext]_docsVars PROVE DocsIInv'
  OBVIOUS
<1> USE AbsentIsEmpty DEF DocsIInv, DocsTypeOK, RunHolds, NoDuplicates, SentinelHolds
<1>1. CASE StartIndexing
  BY <1>1 DEF StartIndexing
<1>2. ASSUME NEW s \in Sources, Load(s) PROVE DocsIInv'
  BY <1>2 DEF Load
<1>3. CASE EndGathering
  BY <1>3 DEF EndGathering, RequiredGathered
<1>4. CASE DropCollection
  BY <1>4 DEF DropCollection
<1>5. ASSUME NEW s \in Sources, Insert(s) PROVE DocsIInv'
  <2>1. /\ DOMAIN indexed' = Sources /\ indexed' # Absent
        /\ indexed = Absent => \A t \in Sources : indexed'[t] = (IF t = s THEN 1 ELSE 0)
        /\ indexed # Absent => \A t \in Sources : indexed'[t] = indexed[t] + (IF t = s THEN 1 ELSE 0)
    BY <1>5, InsertCounts
  <2>2. indexed # Absent => DOMAIN indexed = Sources
    OBVIOUS
  <2>3. /\ indexer = "insert" /\ indexer' = "insert" /\ s \in docs /\ docs' = docs \ {s}
        /\ UNCHANGED <<sentinel, unread, broken>>
    BY <1>5 DEF Insert
  <2>4. DocsTypeOK'
    BY <2>1, <2>2, <2>3
  <2>5. RunHolds'
    BY <2>1, <2>2, <2>3
  <2>6. NoDuplicates'
    BY <2>1, <2>2, <2>3
  <2>7. QED
    BY <2>3, <2>4, <2>5, <2>6
<1>6. CASE EndInserting
  BY <1>6 DEF EndInserting, AllIndexed
<1>7. CASE TouchSentinel
  BY <1>7 DEF TouchSentinel
<1>8. CASE IndexerDies
  BY <1>8 DEF IndexerDies
<1>9. CASE Day
  BY <1>9 DEF Day
<1>10. CASE UNCHANGED docsVars
  BY <1>10 DEF docsVars
<1>11. QED
  BY <1>1, <1>2, <1>3, <1>4, <1>5, <1>6, <1>7, <1>8, <1>9, <1>10 DEF DocsNext, Step

-----------------------------------------------------------------------------

\* In every reachable state the collection, the run and the sentinel have their types, and a
\* run past the drop holds or has indexed every required source (gather_documents and
\* build_index of index_docs.py).
THEOREM DocsInvariant == DocsSpec => []DocsIInv
<1>1. DocsInit => DocsIInv
  BY DocsInitHolds
<1>2. DocsIInv /\ [DocsNext]_docsVars => DocsIInv'
  BY DocsStepHolds
<1>3. QED
  BY <1>1, <1>2, PTL DEF DocsSpec

LEMMA HonestHolds == DocsIInv => IndexIsHonest
  BY DEF DocsIInv, IndexIsHonest, BrokenIsCalledStale, CalledStale, SentinelHolds, DocsTypeOK

\* Nothing is indexed twice, wherever runs end, and a collection that lacks a required
\* source for MaxAge days is called stale by the sentinel's check.
THEOREM HonestTheorem == DocsSpec => []IndexIsHonest
<1>1. QED
  BY HonestHolds, DocsInvariant, PTL

\* The collection disappears only in a run that has every required source in hand.
THEOREM DroppedTheorem == DocsSpec => DroppedForAWholeOne
<1>1. ASSUME DocsIInv, [DocsNext]_docsVars, indexed # Absent, indexed' = Absent
      PROVE  Required \subseteq docs
  <2>1. \A s \in Sources : ~Insert(s)
    BY <1>1, InsertCounts DEF DocsIInv
  <2>2. DropCollection
    BY <1>1, <2>1 DEF DocsNext, Step, StartIndexing, Load, EndGathering, EndInserting,
                      TouchSentinel, IndexerDies, Day, docsVars
  <2>3. QED
    BY <1>1, <2>2 DEF DropCollection, DocsIInv, RunHolds
<1>2. DocsIInv /\ [DocsNext]_docsVars
        => [indexed # Absent /\ indexed' = Absent => Required \subseteq docs]_docsVars
  BY <1>1
<1>3. QED
  BY <1>2, DocsInvariant, PTL DEF DocsSpec, DroppedForAWholeOne

-----------------------------------------------------------------------------
(* SessionIndex, for any harnesses, turns, batch size and attempts *)

\* Splunk's answer is whole whenever the export ends without an error.  Where it may be
\* cut short, NothingSkipped does not hold, and only the types are proved.
ExportsAreWhole == "cut" \notin MayFail

\* The run in memory works from the file's watermarks: the two only part in between steps.
MarksInMemory == known = mark

\* A watermark is the time of a turn that has been seen, so that a turn which appears below
\* it is late.
Reached(h, t) == t = 0 \/ \E f \in arrived : f.harness = h /\ f.time = t
MarkHolds == \A h \in Harnesses : Reached(h, mark[h])

\* Between an export and its save, what the new watermark will pass is indexed or in hand.
LatestHolds ==
    pc = "upsert" =>
        /\ latest >= mark[Harness]
        /\ Reached(Harness, latest)
        /\ \A e \in arrived \ late :
              e.harness = Harness /\ e.usable /\ e.time < latest => Indexed(e) \/ e \in pending

SessionIInv == TypeOK /\ MarksInMemory /\ MarkHolds /\ LatestHolds /\ NothingSkipped

-----------------------------------------------------------------------------

LEMMA HarnessInHand == TypeOK => Harness \in Harnesses
  BY IndexAssumption DEF TypeOK, Harness

LEMMA TurnFields ==
    ASSUME NEW e \in Turns
    PROVE  /\ e.harness \in Harnesses /\ e.time \in Nat /\ e.session \in Nat
           /\ e.usable \in BOOLEAN /\ PointId(e) \in PointIds
  BY IndexAssumption DEF PointIds

LEMMA PointIdIsOwn == \A d, e \in Turns : PointId(d) = PointId(e) => d = e
  BY IndexAssumption DEF PointId

\* A batch adds its turns to the collection and leaves every other one as it is.
LEMMA StoredAdds ==
    ASSUME TypeOK, NEW b \in SUBSET pending
    PROVE  /\ DOMAIN Stored(b) = DOMAIN points \union {PointId(e) : e \in b}
           /\ \A e \in b : Stored(b)[PointId(e)] = e
           /\ \A i \in DOMAIN points : Stored(b)[i] = points[i]
<1> DEFINE ids == {PointId(e) : e \in b}
<1>1. b \subseteq Turns /\ b \subseteq arrived
  BY DEF TypeOK
<1>2. DOMAIN Stored(b) = DOMAIN points \union ids
  BY DEF Stored
<1>3. ASSUME NEW e \in b PROVE Stored(b)[PointId(e)] = e
  <2>1. \A d \in b : PointId(d) = PointId(e) => d = e
    BY <1>1, PointIdIsOwn
  <2>2. (CHOOSE d \in b : PointId(d) = PointId(e)) = e
    BY <2>1
  <2>3. PointId(e) \in DOMAIN points \union ids
    OBVIOUS
  <2>4. QED
    BY <2>2, <2>3 DEF Stored
<1>4. ASSUME NEW i \in DOMAIN points PROVE Stored(b)[i] = points[i]
  <2>1. CASE \E e \in b : PointId(e) = i
    <3>1. PICK e \in b : PointId(e) = i
      BY <2>1
    <3>2. points[i] \in Turns /\ PointId(points[i]) = i
      BY DEF TypeOK
    <3>3. points[i] = e
      BY <1>1, <3>1, <3>2, PointIdIsOwn
    <3>4. QED
      BY <1>3, <3>1, <3>3
  <2>2. CASE ~\E e \in b : PointId(e) = i
    BY <2>2 DEF Stored
  <2>3. QED
    BY <2>1, <2>2
<1>5. QED
  BY <1>2, <1>3, <1>4

LEMMA StaysIndexed ==
    ASSUME TypeOK, NEW b \in SUBSET pending, points' = Stored(b)
    PROVE  \A e \in Turns : Indexed(e) => Indexed(e)'
<1>1. DOMAIN Stored(b) = DOMAIN points \union {PointId(e) : e \in b}
  BY StoredAdds
<1>2. \A i \in DOMAIN points : Stored(b)[i] = points[i]
  BY StoredAdds
<1>3. /\ DOMAIN points \subseteq DOMAIN points'
      /\ \A i \in DOMAIN points : points'[i] = points[i]
  BY <1>1, <1>2
<1>4. QED
  BY <1>3 DEF Indexed

\* A turn that appears below a reached time of its harness is late.
LEMMA BelowIsLate ==
    ASSUME TypeOK, NEW e \in Turns, Appear(e), NEW t \in Nat, Reached(e.harness, t), e.time < t
    PROVE  e \in late'
  BY TurnFields DEF Appear, Overtaken, Reached

-----------------------------------------------------------------------------
(* Types *)

LEMMA InitType == Init => TypeOK
  BY IndexAssumption DEF Init, TypeOK

LEMMA StepType == TypeOK /\ [Next]_vars => TypeOK'
<1> SUFFICES ASSUME TypeOK, [Next]_vars PROVE TypeOK'
  OBVIOUS
<1> USE IndexAssumption DEF runVars
<1>1. ASSUME NEW e \in Turns, Appear(e) PROVE TypeOK'
  BY <1>1 DEF Appear, TypeOK
<1>2. CASE Start
  BY <1>2 DEF Start, TypeOK
<1>3. CASE Export
  <2>1. \A h, t : FromMark(h, t) \subseteq arrived
    BY DEF FromMark
  <2>2. PICK rows \in SUBSET arrived :
            /\ pending' = {e \in rows : e.usable}
            /\ latest' \in {known[Harness]} \union {e.time : e \in rows}
    BY <1>3, <2>1 DEF Export, Exported
  <2>3. known[Harness] \in Nat /\ \A e \in rows : e.time \in Nat
    BY HarnessInHand, TurnFields DEF TypeOK
  <2> HIDE DEF Harness
  <2>4. latest' \in Nat
    BY <2>2, <2>3
  <2>5. QED
    BY <1>3, <2>2, <2>4 DEF Export, TypeOK
<1>4. CASE Reconnect
  BY <1>4 DEF Reconnect, TypeOK, AttemptLeft, Counted
<1>5. CASE Upsert
  <2>1. PICK b \in SUBSET pending : points' = Stored(b) /\ pending' = pending \ b
    BY <1>5 DEF Upsert
  <2>2. /\ DOMAIN points' = DOMAIN points \union {PointId(e) : e \in b}
        /\ \A e \in b : points'[PointId(e)] = e
        /\ \A i \in DOMAIN points : points'[i] = points[i]
    BY <2>1, StoredAdds
  <2>3. \A i \in DOMAIN points' : points'[i] \in arrived /\ PointId(points'[i]) = i
    <3>1. \A e \in b : e \in arrived
      BY DEF TypeOK
    <3>2. \A i \in DOMAIN points : points[i] \in arrived /\ PointId(points[i]) = i
      BY DEF TypeOK
    <3>3. QED
      BY <2>2, <3>1, <3>2
  <2>4. DOMAIN points' \subseteq PointIds
    <3>1. \A e \in b : PointId(e) \in PointIds
      BY TurnFields DEF TypeOK
    <3>2. QED
      BY <2>2, <3>1 DEF TypeOK
  <2>5. QED
    BY <1>5, <2>1, <2>3, <2>4 DEF Upsert, TypeOK
<1>6. CASE Save
  <2>1. mark' \in [Harnesses -> Nat] /\ known' \in [Harnesses -> Nat]
    BY <1>6 DEF Save, TypeOK
  <2>2. at' \in 1..Len(HarnessOrder) /\ pc' \in {"idle", "export", "upsert"}
    BY <1>6 DEF Save, TypeOK
  <2>3. /\ arrived' = arrived /\ late' = late
        /\ points' = points /\ latest' = latest
        /\ tries' = 0 /\ pending' = {}
    BY <1>6 DEF Save
  <2>4. tries' \in 0..(ExportAttempts - 1)
    BY <2>3
  <2>5. /\ arrived' \subseteq Turns /\ late' \subseteq arrived'
        /\ DOMAIN points' \subseteq PointIds
        /\ \A i \in DOMAIN points' : points'[i] \in arrived' /\ PointId(points'[i]) = i
        /\ pending' \subseteq arrived' /\ latest' \in Nat
    BY <2>3 DEF TypeOK
  <2>6. QED
    BY <2>1, <2>2, <2>4, <2>5 DEF TypeOK
<1>7. CASE Abort
  BY <1>7 DEF Abort, TypeOK
<1>8. CASE UNCHANGED vars
  BY <1>8 DEF vars, TypeOK
<1>9. QED
  BY <1>1, <1>2, <1>3, <1>4, <1>5, <1>6, <1>7, <1>8 DEF Next, Run

\* Every variable keeps its type: points carry their own ids and only what Splunk shows,
\* and a run never makes more than its attempts, whatever is refused, cut or killed.
THEOREM SessionType == Spec => []TypeOK
<1>1. QED
  BY InitType, StepType, PTL DEF Spec

-----------------------------------------------------------------------------
(* The watermarks *)

LEMMA SessionInitHolds == Init => SessionIInv
  BY InitType
  DEF Init, SessionIInv, MarksInMemory, MarkHolds, Reached, LatestHolds, NothingSkipped

LEMMA SessionStepHolds == ASSUME ExportsAreWhole, SessionIInv, [Next]_vars PROVE SessionIInv'
<1> USE DEF runVars
<1>0. TypeOK /\ TypeOK'
  BY StepType DEF SessionIInv
<1> USE <1>0
<1>1. ASSUME NEW e \in Turns, Appear(e) PROVE SessionIInv'
  <2>1. /\ arrived' = arrived \union {e} /\ late \subseteq late'
        /\ late' \subseteq late \union {e}
        /\ UNCHANGED <<points, mark, runVars>>
    BY <1>1 DEF Appear
  <2>2. \A h, t : Reached(h, t) => Reached(h, t)'
    BY <2>1 DEF Reached
  <2>3. \A d \in Turns : Indexed(d)' = Indexed(d)
    BY <2>1 DEF Indexed
  <2>4. e \notin late' /\ e.harness = Harness /\ pc = "upsert" => ~(e.time < latest)
    BY <1>1, BelowIsLate, TurnFields DEF SessionIInv, LatestHolds, TypeOK
  <2>5. e \notin late' => ~(e.time < mark[e.harness])
    BY <1>1, BelowIsLate, TurnFields DEF SessionIInv, MarkHolds, TypeOK
  <2>6. MarksInMemory' /\ MarkHolds'
    BY <2>1, <2>2 DEF SessionIInv, MarksInMemory, MarkHolds
  <2>7. LatestHolds'
    BY <2>1, <2>2, <2>3, <2>4 DEF SessionIInv, LatestHolds, Harness, TypeOK
  <2>8. NothingSkipped'
    BY <2>1, <2>3, <2>5 DEF SessionIInv, NothingSkipped, TypeOK
  <2>9. QED
    BY <2>6, <2>7, <2>8 DEF SessionIInv
<1>2. CASE Start
  BY <1>2 DEF Start, SessionIInv, MarksInMemory, MarkHolds, Reached, LatestHolds, NothingSkipped, Indexed
<1>3. CASE Export
  <2> DEFINE rows == FromMark(Harness, known[Harness])
  <2>1. /\ pending' = {e \in rows : e.usable}
        /\ latest' \in {known[Harness]} \union {e.time : e \in rows}
        /\ \A u \in {known[Harness]} \union {e.time : e \in rows} : u <= latest'
        /\ UNCHANGED <<arrived, late, points, mark, at, known>>
    BY <1>3 DEF Export, Exported, ExportsAreWhole, IsLatest
  <2>2. known[Harness] = mark[Harness] /\ mark[Harness] \in Nat
    BY HarnessInHand DEF SessionIInv, MarksInMemory, TypeOK
  <2>3. rows \subseteq {e \in arrived : e.harness = Harness}
    BY DEF FromMark
  <2>4. latest' >= mark[Harness] /\ Reached(Harness, latest')
    BY <2>1, <2>2, <2>3, HarnessInHand DEF SessionIInv, MarkHolds, Reached, TypeOK
  <2>5. ASSUME NEW e \in arrived \ late, e.harness = Harness, e.usable
        PROVE  Indexed(e) \/ e \in pending'
    <3>1. CASE e.time < mark[Harness]
      BY <2>5, <3>1 DEF SessionIInv, NothingSkipped
    <3>2. CASE e.time >= mark[Harness]
      BY <2>1, <2>2, <2>5, <3>2 DEF FromMark
    <3>3. e \in Turns /\ e.time \in Nat
      BY TurnFields DEF TypeOK
    <3>4. QED
      BY <3>1, <3>2, <3>3, <2>2
  <2>6. LatestHolds'
    BY <2>1, <2>4, <2>5 DEF LatestHolds, Reached, Harness, Indexed
  <2>7. QED
    BY <2>1, <2>6 DEF SessionIInv, MarksInMemory, MarkHolds, Reached, NothingSkipped, Indexed
<1>4. CASE Reconnect
  BY <1>4 DEF Reconnect, SessionIInv, MarksInMemory, MarkHolds, Reached, LatestHolds, NothingSkipped, Indexed
<1>5. CASE Upsert
  <2>1. PICK b \in SUBSET pending : points' = Stored(b) /\ pending' = pending \ b
    BY <1>5 DEF Upsert
  <2>2. /\ UNCHANGED <<arrived, late, mark, pc, at, tries, known, latest>>
    BY <1>5 DEF Upsert
  <2>3. \A e \in Turns : Indexed(e) => Indexed(e)'
    BY <1>0, <2>1, StaysIndexed
  <2>4. \A e \in b : Indexed(e)'
    <3>1. /\ DOMAIN points' = DOMAIN points \union {PointId(e) : e \in b}
          /\ \A e \in b : points'[PointId(e)] = e
      BY <2>1, StoredAdds
    <3>2. QED
      BY <3>1 DEF Indexed
  <2>5. LatestHolds'
    BY <2>1, <2>2, <2>3, <2>4 DEF SessionIInv, LatestHolds, Reached, Harness, TypeOK
  <2>6. NothingSkipped'
    BY <2>2, <2>3 DEF SessionIInv, NothingSkipped, TypeOK
  <2>7. QED
    BY <2>2, <2>5, <2>6 DEF SessionIInv, MarksInMemory, MarkHolds, Reached
<1>6. CASE Save
  <2>1. /\ mark' = [mark EXCEPT ![Harness] = latest] /\ known' = mark'
        /\ pc = "upsert" /\ pending = {} /\ pc' # "upsert"
        /\ UNCHANGED <<arrived, late, points>>
    BY <1>6 DEF Save, Finished, SessionIInv, MarksInMemory
  <2>2. mark'[Harness] = latest /\ \A h \in Harnesses \ {Harness} : mark'[h] = mark[h]
    BY <2>1, HarnessInHand DEF TypeOK
  <2>3. MarkHolds'
    BY <2>1, <2>2 DEF SessionIInv, LatestHolds, MarkHolds, Reached
  <2>4. NothingSkipped'
    BY <2>1, <2>2, TurnFields DEF SessionIInv, LatestHolds, NothingSkipped, Indexed, TypeOK
  <2>5. QED
    BY <2>1, <2>3, <2>4 DEF SessionIInv, MarksInMemory, LatestHolds
<1>7. CASE Abort
  BY <1>7 DEF Abort, SessionIInv, MarksInMemory, MarkHolds, Reached, LatestHolds, NothingSkipped, Indexed
<1>8. CASE UNCHANGED vars
  BY <1>8 DEF vars, SessionIInv, MarksInMemory, MarkHolds, Reached, LatestHolds, NothingSkipped, Indexed, Harness
<1>9. QED
  BY <1>1, <1>2, <1>3, <1>4, <1>5, <1>6, <1>7, <1>8 DEF Next, Run

\* File and memory agree on watermarks that are times of turns seen, and what the next one
\* will pass is indexed or in hand, as long as every export is whole.
THEOREM SessionInvariant == ExportsAreWhole => (Spec => []SessionIInv)
<1> SUFFICES ASSUME ExportsAreWhole PROVE Spec => []SessionIInv
  OBVIOUS
<1>1. SessionIInv /\ [Next]_vars => SessionIInv'
  BY SessionStepHolds
<1>2. QED
  BY <1>1, SessionInitHolds, PTL DEF Spec

\* The watermark file never claims a turn the collection lacks.
THEOREM NothingSkippedTheorem == ExportsAreWhole => (Spec => []NothingSkipped)
<1> SUFFICES ASSUME ExportsAreWhole PROVE Spec => []NothingSkipped
  OBVIOUS
<1>1. SessionIInv => NothingSkipped
  BY DEF SessionIInv
<1>2. QED
  BY <1>1, SessionInvariant, PTL

-----------------------------------------------------------------------------
(* The refinement *)

LEMMA FeedStarts == Init => Feed!FeedInit
  BY DEF Init, Feed!FeedInit, Indexed

LEMMA FeedSteps == ASSUME ExportsAreWhole, SessionIInv, [Next]_vars PROVE [Feed!FeedNext]_(Feed!feedVars)
<1> USE DEF runVars
<1> DEFINE copied == {e \in Turns : Indexed(e)}
<1>0. TypeOK
  BY DEF SessionIInv
<1>1. ASSUME NEW e \in Turns, Appear(e) PROVE Feed!FeedNext
  <2>1. copied' = copied
    BY <1>1 DEF Appear, Indexed
  <2>2. Feed!Appear(e)
    BY <1>1, <2>1 DEF Appear, Feed!Appear, Overtaken, Feed!Overtaken
  <2>3. QED
    BY <2>2 DEF Feed!FeedNext
<1>2. CASE Upsert
  <2>1. PICK b \in SUBSET pending : points' = Stored(b)
    BY <1>2 DEF Upsert
  <2>2. \A e \in Turns : Indexed(e) => Indexed(e)'
    BY <1>0, <2>1, StaysIndexed
  <2>3. TypeOK' /\ UNCHANGED <<arrived, late, mark>>
    BY <1>0, <1>2, StepType DEF Upsert
  <2>4. copied \subseteq copied' /\ copied' \subseteq arrived
    BY <2>2, <2>3 DEF Indexed, TypeOK
  <2>5. QED
    BY <2>3, <2>4 DEF Feed!FeedNext, Feed!Copy
<1>3. CASE Save
  <2>1. /\ mark' = [mark EXCEPT ![Harness] = latest]
        /\ pc = "upsert" /\ pending = {}
        /\ UNCHANGED <<arrived, late, points>>
    BY <1>3 DEF Save, Finished, SessionIInv, MarksInMemory
  <2>2. Harness \in Harnesses /\ mark[Harness] \in Nat
    BY <1>0, HarnessInHand DEF TypeOK
  <2>3. latest \in {e.time : e \in arrived} \union {mark[Harness]}
    BY <1>0, <2>1, <2>2 DEF SessionIInv, LatestHolds, Reached, TypeOK
  <2>4. Feed!Owed(Harness, latest) \subseteq copied
    BY <1>0, <2>1 DEF SessionIInv, LatestHolds, Feed!Owed, TypeOK
  <2>5. copied' = copied
    BY <2>1 DEF Indexed
  <2>6. Feed!Advance(Harness, latest)
    BY <2>1, <2>4, <2>5 DEF Feed!Advance, SessionIInv, LatestHolds
  <2>7. QED
    BY <2>2, <2>3, <2>6 DEF Feed!FeedNext
<1>4. CASE Start \/ Export \/ Reconnect \/ Abort \/ UNCHANGED vars
  <2>1. UNCHANGED <<arrived, late, points, mark>>
    BY <1>4 DEF Start, Export, Reconnect, Abort, vars
  <2>2. QED
    BY <2>1 DEF Feed!feedVars, Indexed
<1>5. QED
  BY <1>1, <1>2, <1>3, <1>4 DEF Next, Run

\* The job implements an incremental index: copies are only added, and the watermark of a
\* harness passes a turn that was on time only when the collection has it.
THEOREM FeedTheorem == ExportsAreWhole => (Spec => KeepsFeed)
<1> SUFFICES ASSUME ExportsAreWhole PROVE Spec => KeepsFeed
  OBVIOUS
<1>1. SessionIInv /\ [Next]_vars => [Feed!FeedNext]_(Feed!feedVars)
  BY FeedSteps
<1>2. QED
  BY <1>1, FeedStarts, SessionInvariant, PTL DEF Spec, KeepsFeed, Feed!FeedSpec

-----------------------------------------------------------------------------
(* The four services side by side *)

\* What a call's target has been is known exactly: public or private.
LEMMA WasStaysBoolean == ASSUME GhIInv, was \subseteq BOOLEAN, [GhNext]_ghVars PROVE was' \subseteq BOOLEAN
<1>1. private \in [Repos -> BOOLEAN]
  BY DEF GhIInv, WasHolds
<1>2. CASE GhCall
  <2>1. ASSUME NEW c \in Calls, Begin(c) PROVE was' \subseteq BOOLEAN
    <3>1. was' = Touch(TargetRepo(c)) /\ TargetRepo(c) \in Repos \union {NoRepo}
      BY <2>1, GhAssumption DEF Begin
    <3>2. QED
      BY <1>1, <3>1 DEF Touch
  <2>2. CASE LookUp \/ RunGh \/ End
    BY <2>2 DEF LookUp, RunGh, ReadToken, End
  <2>3. ASSUME NEW answer, Answered(answer) PROVE was' \subseteq BOOLEAN
    BY <2>3 DEF Answered
  <2>4. QED
    BY <1>2, <2>1, <2>2, <2>3 DEF GhCall
<1>3. ASSUME NEW r \in Repos, Flip(r) PROVE was' \subseteq BOOLEAN
  BY <1>1, <1>3 DEF Flip
<1>4. CASE Refresh \/ Tick \/ Reboot \/ UNCHANGED ghVars
  BY <1>4 DEF Refresh, Tick, Reboot, ghVars, callVars
<1>5. QED
  BY <1>2, <1>3, <1>4 DEF GhNext

TokensInv == GhIInv /\ FreshInv /\ was \subseteq BOOLEAN
StoreInv == StoreIInv /\ StoreTypeOK
ServicesInv == TypeOK /\ TokensInv /\ StoreInv /\ DocsIInv

LEMMA TokensHaveTypes == TokensInv => GhTypeOK
<1> SUFFICES ASSUME TokensInv PROVE GhTypeOK
  OBVIOUS
<1>1. ToSet(boundaries) \subseteq ToSet(ByBoundary)
  <2>1. boundaries \in Seq(Boundaries) /\ ToSet(ByBoundary) = Boundaries
    BY ByBoundaryIs DEF TokensInv, FreshInv, RefreshHolds
  <2>2. \A i \in DOMAIN boundaries : boundaries[i] \in Boundaries
    BY <2>1
  <2>3. QED
    BY <2>1, <2>2 DEF ToSet
<1>2. QED
  BY <1>1 DEF GhTypeOK, TokensInv, GhIInv, MintHolds, CallHolds, FreshInv, RefreshHolds, AgesHold

LEMMA TokensInit == GhInit \/ TokensRest => TokensInv
<1>1. GhInit => GhIInv /\ was = {}
  BY GhInitHolds DEF GhInit
<1>2. ASSUME TokensRest PROVE GhIInv /\ was = {}
  <2>1. \A k \in ConfiguredKeys : IsTokenOf(k, tokenFile[k])
    BY <1>2 DEF TokensRest, IsTokenOf
  <2>2. FilesHold
    BY <1>2, <2>1 DEF TokensRest, FilesHold
  <2>3. MintHolds /\ WasHolds /\ CallHolds /\ was = {}
    BY <1>2 DEF TokensRest, MintHolds, WasHolds, CallHolds
  <2>4. QED
    BY <2>2, <2>3 DEF GhIInv
<1>3. QED
  BY <1>1, <1>2, FreshInit DEF TokensInv

LEMMA StoreTypeInit == StoreInit => StoreTypeOK
  BY StoreAssumption DEF StoreInit, StoreTypeOK

\* The include at work never passes the end of the registered globs.
LEMMA StoreTypeStep == ASSUME StoreInv, [StoreNext]_storeVars PROVE StoreTypeOK'
<1>1. /\ SidecarsHold' /\ fetched' \subseteq StoreNames /\ (fetched' # {} => converge' = "download")
  BY StoreStepHolds, FilesAreNames DEF StoreInv, StoreIInv, FetchHolds
<1>2. Len(Includes) \in Nat /\ DOMAIN Includes = 1 .. Len(Includes) /\ include \in 1 .. Len(Includes) + 1
  BY StoreAssumption DEF StoreInv, StoreTypeOK
<1>3. /\ include' = include \/ include' = 1 \/ (include \in DOMAIN Includes /\ include' = include + 1)
      /\ converge' \in {"idle", "download", "verify", "accepted", "failed"}
  BY DEF StoreInv, StoreTypeOK, StoreNext, CheckOffline, NextInclude, VerifyStore, Stop, Fetch,
         WriteSidecar, Damage, Pin, storeVars
<1>4. include' \in 1 .. Len(Includes) + 1
  BY <1>2, <1>3
<1>5. QED
  BY <1>1, <1>3, <1>4 DEF StoreTypeOK, SidecarsHold

LEMMA DocsRestHolds == DocsRest => DocsIInv
  BY AbsentIsEmpty DEF DocsRest, DocsIInv, DocsTypeOK, RunHolds, NoDuplicates, SentinelHolds

LEMMA ServicesInitHolds == ServicesInit => ServicesInv
  BY InitType, TokensInit, StoreInitHolds, StoreTypeInit, DocsInitHolds, DocsRestHolds
  DEF ServicesInit, StoreRests, ServicesInv, StoreInv

LEMMA TokensStep == TokensInv /\ [GhNext]_ghVars => TokensInv'
  BY GhStepHolds, FreshStep, WasStaysBoolean DEF TokensInv

LEMMA StoreStep == StoreInv /\ [StoreNext]_storeVars => StoreInv'
  BY StoreStepHolds, StoreTypeStep DEF StoreInv

\* A step of one service is a step of it alone: the others stand still.
LEMMA OneOfFour ==
    [ServicesNext]_serviceVars =>
        [Next]_vars /\ [GhNext]_ghVars /\ [StoreNext]_storeVars /\ [DocsNext]_docsVars
  BY DEF ServicesNext, Sessions, Tokens, Store, Docs, serviceVars

LEMMA ServicesStepHolds == ServicesInv /\ [ServicesNext]_serviceVars => ServicesInv'
  BY OneOfFour, StepType, TokensStep, StoreStep, DocsStepHolds DEF ServicesInv

\* In the composition of the four services as it is run, each keeps what its own
\* specification promises, from its beginning or from where it rests: tokens stay with their
\* boundary and are fresh, what the converge accepts is the pinned revision, and the index
\* has no duplicates and no gap that is not called stale.
THEOREM ServicesTheorem == ServicesSpec => [](BoundaryKept /\ TokensAreFresh /\ AcceptedIsPinned /\ IndexIsHonest)
<1>1. ServicesInv => BoundaryKept /\ TokensAreFresh /\ AcceptedIsPinned /\ IndexIsHonest
  BY BoundaryHolds, AgesAreAllowed, HonestHolds DEF ServicesInv, TokensInv, StoreInv, StoreIInv
<1>2. QED
  BY <1>1, ServicesInitHolds, ServicesStepHolds, PTL DEF ServicesSpec

\* The types of all four services hold in every reachable state: of the files and the two
\* programs of hermes-gh, of the store and the converge, of the document index and its run,
\* and of the session index and its marks.
THEOREM ServicesTypes == ServicesSpec => []ServicesTypeOK
<1>1. ServicesInv => ServicesTypeOK
  BY TokensHaveTypes DEF ServicesInv, ServicesTypeOK, StoreInv, DocsIInv
<1>2. QED
  BY <1>1, ServicesInitHolds, ServicesStepHolds, PTL DEF ServicesSpec
=============================================================================
