------------------------------ MODULE DocsIndex ------------------------------
(***************************************************************************)
(* The documentation index: index_docs.py, which a daily timer runs to      *)
(* fetch every source, drop the collection in Qdrant and build it again,    *)
(* and the freshness sentinel the converge reads (assert_hardening.yml).    *)
(*                                                                          *)
(* The sources, the embedding router and Qdrant are external.  A source is  *)
(* indexed as one document; its points are counted, so that what is indexed *)
(* twice shows.                                                             *)
(***************************************************************************)
EXTENDS Naturals, FiniteSets

CONSTANTS
    Sources,        \* the configured sources
    Required,       \* those with required: true
    MaxAge          \* days after which the converge calls the sentinel stale

ASSUME DocsAssumption == Required \subseteq Sources /\ Required # {} /\ MaxAge \in Nat \ {0}

Never == MaxAge + 1     \* the sentinel does not exist
Absent == [s \in {} |-> 0]

VARIABLES
    indexed,        \* the collection: how often each source is indexed, Absent without one
    sentinel,       \* days since the sentinel was touched, up to MaxAge, or Never
    indexer,        \* "idle", "gather", "drop", "insert" or "touch"
    unread,         \* the sources still to load
    docs,           \* the sources loaded in this run
    broken          \* history: days since the collection was last whole, up to MaxAge

docsVars == <<indexed, sentinel, indexer, unread, docs, broken>>

Whole(p) == p # Absent /\ \A s \in Required : p[s] > 0

-----------------------------------------------------------------------------
(* index_docs.py *)

StartIndexing ==
    /\ indexer = "idle"
    /\ indexer' = "gather" /\ unread' = Sources /\ docs' = {}
    /\ UNCHANGED <<indexed, sentinel, broken>>

LoadUnnamed(s) ==
    /\ indexer = "gather" /\ s \in unread
    /\ unread' = unread \ {s} /\ docs' = docs \union {"source"}
    /\ UNCHANGED <<indexed, sentinel, indexer, broken>>

\* fetch_url, read_path: the text, or nothing where the token or the file is missing.
Load(s) ==
    /\ indexer = "gather" /\ s \in unread
    /\ unread' = unread \ {s}
    /\ docs' \in {docs, docs \union {s}}
    /\ UNCHANGED <<indexed, sentinel, indexer, broken>>

AnyDocument == docs # {}
IntoNoCollection == Required \subseteq docs /\ docs # {} /\ indexed = Absent

\* gather_documents: every required source has its text; main: there is one at all.
RequiredGathered == Required \subseteq docs /\ docs # {}

EndGathering ==
    /\ indexer = "gather" /\ unread = {}
    /\ indexer' = IF RequiredGathered THEN "drop" ELSE "idle"
    /\ UNCHANGED <<indexed, sentinel, unread, docs, broken>>

\* build_index: the whole collection is dropped, so that a run replaces the last one's.
KeepCollection ==
    /\ indexer = "drop"
    /\ indexer' = "insert"
    /\ UNCHANGED <<indexed, sentinel, unread, docs, broken>>
DropCollection ==
    /\ indexer = "drop"
    /\ indexer' = "insert" /\ indexed' = Absent
    /\ UNCHANGED <<sentinel, unread, docs, broken>>

\* VectorStoreIndex.from_documents: the collection is created with the first points.
Insert(s) ==
    /\ indexer = "insert" /\ s \in docs
    /\ indexed' = [t \in Sources |->
          (IF t \in DOMAIN indexed THEN indexed[t] ELSE 0) + (IF t = s THEN 1 ELSE 0)]
    /\ docs' = docs \ {s}
    /\ UNCHANGED <<sentinel, indexer, unread, broken>>

SomeIndexed == indexed # Absent
AllIndexed == docs = {}

EndInserting ==
    /\ indexer = "insert" /\ AllIndexed
    /\ indexer' = "touch"
    /\ UNCHANGED <<indexed, sentinel, unread, docs, broken>>

TouchSentinel ==
    /\ indexer = "touch"
    /\ indexer' = "idle" /\ sentinel' = 0
    /\ broken' = IF Whole(indexed) THEN 0 ELSE broken
    /\ docs' = {} /\ UNCHANGED <<indexed, unread>>

\* A source that answers with an error, a batch that is refused until its retries are
\* spent, a timeout of Qdrant or a kill ends the run where it is.
IndexerDies ==
    /\ indexer # "idle"
    /\ indexer' = "idle" /\ unread' = {} /\ docs' = {}
    /\ UNCHANGED <<indexed, sentinel, broken>>

-----------------------------------------------------------------------------
(* Days *)

\* A day passes between two runs of the timer.
Day ==
    /\ indexer = "idle"
    /\ sentinel' = IF sentinel < MaxAge THEN sentinel + 1 ELSE sentinel
    /\ broken' = IF Whole(indexed) THEN 0 ELSE IF broken < MaxAge THEN broken + 1 ELSE broken
    /\ UNCHANGED <<indexed, indexer, unread, docs>>

Step == \/ StartIndexing \/ EndGathering \/ DropCollection \/ EndInserting \/ TouchSentinel
        \/ \E s \in Sources : Load(s) \/ Insert(s)

DocsInit ==
    /\ indexed = Absent /\ sentinel = Never /\ indexer = "idle"
    /\ unread = {} /\ docs = {} /\ broken = MaxAge

DocsNext == Step \/ IndexerDies \/ Day

\* The timer, and a run that goes on.
DocsSpec == DocsInit /\ [][DocsNext]_docsVars /\ WF_docsVars(Step)

-----------------------------------------------------------------------------
(* Properties *)

\* The converge's verdict on the sentinel: one that never existed is no failure.
CalledStale == sentinel = MaxAge

DocsTypeOK ==
    /\ indexed = Absent \/ (DOMAIN indexed = Sources /\ \A s \in Sources : indexed[s] \in Nat)
    /\ sentinel \in 0 .. Never /\ broken \in 0 .. MaxAge
    /\ indexer \in {"idle", "gather", "drop", "insert", "touch"}
    /\ unread \subseteq Sources /\ docs \subseteq Sources

\* A collection that has been without a required source for as long as the converge
\* tolerates is called stale: no run that broke it has touched the sentinel since.
BrokenIsCalledStale ==
    broken = MaxAge /\ ~Whole(indexed) /\ sentinel # Never => CalledStale

\* No document is indexed twice, however often runs repeat and wherever they end.
NoDuplicates == \A s \in DOMAIN indexed : indexed[s] <= 1

\* What the index shows between and during rebuilds: nothing twice, and no lasting gap
\* that the converge does not call stale.
IndexIsHonest == NoDuplicates /\ BrokenIsCalledStale

\* A run drops the collection only with every required source in hand: one that cannot
\* be loaded leaves the last index in place, it never shrinks it.
DroppedForAWholeOne ==
    [][indexed # Absent /\ indexed' = Absent => Required \subseteq docs]_docsVars

\* Once runs stop failing and the required sources load, the index is whole again and stays.
IndexHeals ==
    (/\ <>[][~IndexerDies]_docsVars
     /\ <>[][\A s \in Required : Load(s) => s \in docs']_docsVars)
    => []<>(Whole(indexed) /\ sentinel = 0)
=============================================================================
