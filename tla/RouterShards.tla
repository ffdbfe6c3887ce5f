---------------------------- MODULE RouterShards ----------------------------
(***************************************************************************)
(* .github/scripts/router_shards.py: packs the router playbooks a change   *)
(* selected into at most MaxShards CI jobs.  Playbooks of one topic are    *)
(* chunked up to a target weight, each chunk is a unit, and units go, the  *)
(* heaviest first, to the lightest job that has no unit of their topic.    *)
(* A job's name is a sequence of tokens: topics, part numbers, cut marks.  *)
(* The step before packing is the selector's, of ContractScope.            *)
(* A helper that stands just before another one and is used nowhere is a   *)
(* slip of that one, kept to see it caught.                                *)
(***************************************************************************)
EXTENDS Integers, Sequences, FiniteSets, FiniteSetsExt, SequencesExt, Functions

CONSTANTS
    Playbooks,   \* the router playbooks: topic, nr in the order of paths, weight
    MaxShards,   \* MAX_ROUTER_SHARDS, 16 in the code
    MaxName      \* MAX_ROUTER_SHARD_NAME, in tokens

ASSUME ShardAssumption ==
    /\ Playbooks \subseteq [topic : Nat, nr : Nat, weight : Nat] /\ IsFiniteSet(Playbooks)
    /\ MaxShards \in Nat \ {0}
    /\ MaxName \in Nat \ {0}

VARIABLES
    pc,        \* "select" until the selection is made, then "chunk", "place", "name", "done"
    selected,  \* the playbooks to pack
    target,    \* the weight to chunk to
    todo,      \* playbooks not chunked yet
    open,      \* the chunk being filled
    units,     \* closed chunks no job has
    shards,    \* job to its units
    names      \* job to its name

packVars == <<selected, target, todo, open, units, shards, names>>

Weight(ps) == SumFunction([p \in ps |-> p.weight])
CeilDiv(a, b) == (a + b - 1) \div b

\* The target of a whole matrix: its weight spread over the jobs it may have.
ShardTarget(ps) ==
    LET jobs == Min({MaxShards, Cardinality(ps)})
    IN  IF ps = {} THEN 1 ELSE Max({1, CeilDiv(Weight(ps), jobs)})
ShardCount(ps, t) == Min({MaxShards, Cardinality(ps), CeilDiv(Weight(ps), t)})

NoPacking ==
    /\ selected = {} /\ target = 1 /\ todo = {} /\ open = {} /\ units = {}
    /\ shards = <<>> /\ names = <<>>
\* router_shards is called with a selection and a target.
Pack(ps, t) ==
    /\ pc' = IF ps = {} THEN "done" ELSE "chunk"
    /\ selected' = ps
    /\ target' = t
    /\ todo' = ps
    /\ open' = {}
    /\ units' = {}
    /\ shards' = IF ps = {} THEN <<>> ELSE [i \in 1..ShardCount(ps, t) |-> {}]
    /\ names' = <<>>

(***************************************************************************)
(* Chunks                                                                  *)
(***************************************************************************)
ComesFirst(p) ==
    \A q \in todo : p.topic < q.topic \/ (p.topic = q.topic /\ p.nr <= q.nr)
Fits(p) ==
    \/ open = {}
    \/ (\A q \in open : q.topic = p.topic) /\ Weight(open) + p.weight <= target
Chunk(p) ==
    /\ pc = "chunk"
    /\ p \in todo
    /\ ComesFirst(p)
    /\ todo' = todo \ {p}
    /\ open' = IF Fits(p) THEN open \union {p} ELSE {p}
    /\ units' = IF Fits(p) THEN units ELSE units \union {open}
    /\ UNCHANGED <<pc, selected, target, shards, names>>
\* The slip: the last chunk is only closed when it is full.
CloseFull == IF Weight(open) < target THEN {} ELSE {open}
CloseOpen == {open}
LastChunk ==
    /\ pc = "chunk"
    /\ todo = {}
    /\ units' = units \union CloseOpen
    /\ open' = {}
    /\ pc' = "place"
    /\ UNCHANGED <<selected, target, todo, shards, names>>

(***************************************************************************)
(* Jobs.  Equal weights are told apart by label in the code, in any order  *)
(* here.                                                                   *)
(***************************************************************************)
Topics(u) == {p.topic : p \in u}
Content(us) == UNION us
HasTopicOf(s, u) == \E v \in shards[s] : Topics(v) \cap Topics(u) # {}
FreeOf(u) == {s \in DOMAIN shards : ~HasTopicOf(s, u)}
\* The slips: the lightest job of all, and none at all once every job has the topic.
AnyShard(u) == DOMAIN shards
OnlyFree(u) == FreeOf(u)
Candidates(u) == IF FreeOf(u) = {} THEN DOMAIN shards ELSE FreeOf(u)
Heaviest(u) == \A v \in units : Weight(v) <= Weight(u)
Lightest(s, among) == \A r \in among : Weight(Content(shards[s])) <= Weight(Content(shards[r]))
Place(u, s) ==
    /\ pc = "place"
    /\ u \in units
    /\ Heaviest(u)
    /\ s \in Candidates(u)
    /\ Lightest(s, Candidates(u))
    /\ shards' = [shards EXCEPT ![s] = @ \union {u}]
    /\ units' = units \ {u}
    /\ UNCHANGED <<pc, selected, target, todo, open, names>>
Placed ==
    /\ pc = "place"
    /\ units = {}
    /\ pc' = "name"
    /\ UNCHANGED packVars

(***************************************************************************)
(* Names                                                                   *)
(***************************************************************************)
FirstNr(u) == Min({p.nr : p \in u})
TopicOf(u) == Min(Topics(u))
Siblings(u) == {v \in UNION {shards[s] : s \in DOMAIN shards} : TopicOf(v) = TopicOf(u)}
Part(u) == Cardinality({v \in Siblings(u) : FirstNr(v) <= FirstNr(u)})
Label(u) == IF Cardinality(Siblings(u)) > 1 THEN <<TopicOf(u), Part(u)>> ELSE <<TopicOf(u)>>
NotAfter(a, b) == a[1] < b[1] \/ (a[1] = b[1] /\ a[Len(a)] <= b[Len(b)])
Sorted(labels) ==
    [i \in 1..Cardinality(labels) |->
        CHOOSE l \in labels : Cardinality({k \in labels : NotAfter(k, l)}) = i]
InOneLine(labels) == FlattenSeq(Sorted(labels))
\* A cut mark, and the same mark with a number: "…" and "… 2".
Mark(i) == -i
Cut(name) == IF Len(name) > MaxName THEN SubSeq(name, 1, MaxName - 1) \o <<Mark(1)>> ELSE name
Numbered(name, i) ==
    LET base == name \o [j \in 1..(i - 2) |-> Mark(j + 1)]
    IN  IF i = 1 THEN name ELSE SubSeq(base, 1, Min({Len(base), MaxName - 1})) \o <<Mark(i)>>
\* The slip: the second job of a name gets its number, and so does a third.
OnceNumbered(name, used) == IF name \in used THEN Numbered(name, 2) ELSE name
Unused(name, used) ==
    LET i == CHOOSE i \in 1..(MaxShards + 1) :
                Numbered(name, i) \notin used /\ \A j \in 1..(i - 1) : Numbered(name, j) \in used
    IN  Numbered(name, i)
Jobs == {s \in DOMAIN shards : shards[s] # {}}
Name(s) ==
    /\ pc = "name"
    /\ s \in Jobs \ DOMAIN names
    /\ \A r \in Jobs \ DOMAIN names : s <= r
    /\ \E labels \in {{Label(u) : u \in shards[s]}}, used \in {{names[q] : q \in DOMAIN names}} :
       \E name \in {Cut(InOneLine(labels))} :
        names' = [r \in DOMAIN names \union {s} |-> IF r = s THEN Unused(name, used) ELSE names[r]]
    /\ UNCHANGED <<pc, selected, target, todo, open, units, shards>>
Named ==
    /\ pc = "name"
    /\ DOMAIN names = Jobs
    /\ pc' = "done"
    /\ UNCHANGED packVars

PackNext ==
    \/ \E p \in todo : Chunk(p)
    \/ LastChunk
    \/ \E u \in units : \E s \in DOMAIN shards : Place(u, s)
    \/ Placed
    \/ \E s \in DOMAIN shards : Name(s)
    \/ Named

(***************************************************************************)
(* Properties                                                              *)
(***************************************************************************)
\* No playbook is ever lost or doubled on its way through chunks, units and jobs: at
\* the end every selected playbook is in exactly one job and no other is in any.
RunsIn(p, s) == \E u \in shards[s] : p \in u
EachPlaybookOnce ==
    pc \in {"name", "done"} =>
        /\ \A p \in selected : \E s \in DOMAIN shards :
                RunsIn(p, s) /\ \A r \in DOMAIN shards : RunsIn(p, r) => r = s
        /\ \A s \in DOMAIN shards : Content(shards[s]) \subseteq selected

\* Playbooks of one topic fail together, so no job holds two units of a topic as long
\* as the topic has no more units than there are jobs, and no unit holds two topics.
TopicsSpread ==
    \A s \in DOMAIN shards :
        /\ \A u \in shards[s] : Cardinality(Topics(u)) = 1
        /\ \A u, v \in shards[s] :
                u # v /\ Topics(u) = Topics(v) =>
                    Cardinality({w \in units \union UNION {shards[r] : r \in DOMAIN shards} : Topics(w) = Topics(u)})
                        > Cardinality(DOMAIN shards)

\* CI tells jobs apart by name: names differ, however alike their cut topics are, and
\* neither a name nor the number of jobs exceeds its limit.
JobsTellApart ==
    /\ \A r, s \in DOMAIN names : names[r] = names[s] => r = s
    /\ \A s \in DOMAIN names : Len(names[s]) \in 1..MaxName
    /\ Cardinality(DOMAIN shards) <= MaxShards

\* What the packing owes CI: every selected playbook runs once, playbooks of a topic
\* are apart as far as there are jobs, and the jobs can be told apart (lines 53-119).
JobsAreSound == EachPlaybookOnce /\ TopicsSpread /\ JobsTellApart

=============================================================================
