---------------------------- MODULE SessionIndex ----------------------------
(***************************************************************************)
(* The timer job of roles/llamaindex/files/index_agent_sessions.py, which  *)
(* copies the user turns of agent sessions from Splunk into a Qdrant       *)
(* collection.  A run takes the harnesses in the configured order: export  *)
(* every turn from the harness's watermark on, retrying the connection,    *)
(* upsert the turns in batches, save the watermarks, go on.  Anything that *)
(* fails ends the run; the next timer tick starts over from the file.      *)
(* A helper that stands just before another one and is used nowhere is a   *)
(* slip of that one, kept to see it caught.                                *)
(***************************************************************************)
EXTENDS Naturals, Sequences, FiniteSets

CONSTANTS
    Harnesses,      \* the configured harnesses
    HarnessOrder,   \* the order in which a run takes them
    Turns,          \* the user turns that may ever reach Splunk
    BatchSize,      \* points per upsert call, 64 in the code
    ExportAttempts, \* EXPORT_ATTEMPTS, 6 in the code
    MayFail         \* which of the faults beside an aborted run happen

Faults == {"connect", "cut"}

\* Turns of one session differ in time, so a point id stands for one turn.
ASSUME IndexAssumption ==
    /\ HarnessOrder \in Seq(Harnesses)
    /\ HarnessOrder # <<>>
    /\ Turns \subseteq [harness : Harnesses, session : Nat, time : Nat, usable : BOOLEAN]
    /\ \A d, e \in Turns : d.session = e.session /\ d.time = e.time => d = e
    /\ BatchSize \in Nat \ {0}
    /\ ExportAttempts \in Nat \ {0}
    /\ MayFail \subseteq Faults

VARIABLES
    arrived,   \* the turns Splunk shows
    late,      \* those that appeared after a later turn of their harness (history)
    points,    \* the Qdrant collection: point id to turn
    mark,      \* the watermark file
    pc,        \* what the run does next; "idle" between runs
    at,        \* the harness it is at, as an index into HarnessOrder
    tries,     \* failed connection attempts of this export
    known,     \* the watermarks in memory
    pending,   \* turns embedded and not yet upserted
    latest     \* the watermark to save for this harness

runVars == <<pc, at, tries, known, pending, latest>>
vars == <<arrived, late, points, mark, runVars>>

\* The slip: an id that two sessions can share.
PointIdOfTime(e) == <<0, e.time>>
PointId(e) == <<e.session, e.time>>
PointIds == {PointId(e) : e \in Turns}
Indexed(e) == PointId(e) \in DOMAIN points /\ points[PointId(e)] = e
Harness == HarnessOrder[at]

TypeOK ==
    /\ arrived \subseteq Turns
    /\ late \subseteq arrived
    /\ DOMAIN points \subseteq PointIds
    /\ \A i \in DOMAIN points : points[i] \in arrived /\ PointId(points[i]) = i
    /\ mark \in [Harnesses -> Nat]
    /\ pc \in {"idle", "export", "upsert"}
    /\ at \in 1..Len(HarnessOrder)
    /\ tries \in 0..(ExportAttempts - 1)
    /\ known \in [Harnesses -> Nat]
    /\ pending \subseteq arrived
    /\ latest \in Nat

Init ==
    /\ arrived = {}
    /\ late = {}
    /\ points = <<>>
    /\ mark = [h \in Harnesses |-> 0]
    /\ pc = "idle"
    /\ at = 1
    /\ tries = 0
    /\ known = [h \in Harnesses |-> 0]
    /\ pending = {}
    /\ latest = 0

(***************************************************************************)
(* Splunk.  Forwarders deliver in any order, so a turn may appear after a  *)
(* later one of its harness.                                               *)
(***************************************************************************)
Overtaken(e) == \E f \in arrived : f.harness = e.harness /\ f.time > e.time
Appear(e) ==
    /\ e \notin arrived
    /\ arrived' = arrived \union {e}
    /\ late' = IF Overtaken(e) THEN late \union {e} ELSE late
    /\ UNCHANGED <<points, mark, runVars>>

(***************************************************************************)
(* The run                                                                 *)
(***************************************************************************)
Start ==
    /\ pc = "idle"
    /\ pc' = "export"
    /\ at' = 1
    /\ tries' = 0
    /\ known' = mark
    /\ UNCHANGED <<arrived, late, points, mark, pending, latest>>

\* The slip: only what is later than the watermark.
AfterMark(h, from) == {e \in arrived : e.harness = h /\ e.time > from}
\* The search: the turns of a harness from the watermark on, that instant included.
FromMark(h, from) == {e \in arrived : e.harness = h /\ e.time >= from}

\* An export that a broken search or connection ends early still ends like a complete one.
Exported == IF "cut" \in MayFail
            THEN SUBSET FromMark(Harness, known[Harness])
            ELSE {FromMark(Harness, known[Harness])}

IsLatest(t, rows) ==
    LET times == {known[Harness]} \union {e.time : e \in rows}
    IN  t \in times /\ \A u \in times : u <= t
Export ==
    /\ pc = "export"
    /\ pc' = "upsert"
    /\ \E rows \in Exported :
        /\ pending' = {e \in rows : e.usable}
        /\ latest' \in {known[Harness]} \union {e.time : e \in rows}
        /\ IsLatest(latest', rows)
    /\ UNCHANGED <<arrived, late, points, mark, at, tries, known>>

\* The slips: one attempt too many, and a count that starts over.
OneTooMany == tries < ExportAttempts
StartsOver == 1 - tries
\* Whether a failed connection leaves an attempt to make.
AttemptLeft == tries + 1 < ExportAttempts
Counted == tries + 1
Reconnect ==
    /\ pc = "export"
    /\ "connect" \in MayFail
    /\ IF AttemptLeft
       THEN tries' = Counted /\ pc' = pc
       ELSE tries' = 0 /\ pc' = "idle"
    /\ UNCHANGED <<arrived, late, points, mark, at, known, pending, latest>>

\* Points go in the order of the rows, by session and then by time.
Before(d, e) == d.session < e.session \/ (d.session = e.session /\ d.time < e.time)
IsBatch(b) ==
    /\ b \subseteq pending
    /\ Cardinality(b) <= BatchSize
    /\ Cardinality(b) = BatchSize \/ b = pending
    /\ \A d \in b, e \in pending \ b : Before(d, e)
Stored(b) == [i \in DOMAIN points \union {PointId(e) : e \in b} |->
                IF \E e \in b : PointId(e) = i THEN CHOOSE e \in b : PointId(e) = i ELSE points[i]]
Upsert ==
    /\ pc = "upsert"
    /\ pending # {}
    /\ \E b \in SUBSET pending :
        /\ IsBatch(b)
        /\ points' = Stored(b)
        /\ pending' = pending \ b
    /\ UNCHANGED <<arrived, late, mark, pc, at, tries, known, latest>>

\* The slip: the watermark is saved as soon as the turns are read.
RowsRead == TRUE
Finished == pending = {}
Save ==
    /\ pc = "upsert"
    /\ Finished
    /\ known' = [known EXCEPT ![Harness] = latest]
    /\ mark' = [known EXCEPT ![Harness] = latest]
    /\ tries' = 0
    /\ pending' = {}
    /\ IF at < Len(HarnessOrder)
       THEN at' = at + 1 /\ pc' = "export"
       ELSE at' = at /\ pc' = "idle"
    /\ UNCHANGED <<arrived, late, points, latest>>

\* A refused export, an unreadable row, a failed embedding or upsert, a kill: the
\* run ends where it is, and only the files and the collection remain.
Abort ==
    /\ pc # "idle"
    /\ pc' = "idle"
    /\ pending' = {}
    /\ UNCHANGED <<arrived, late, points, mark, at, tries, known, latest>>

Run == Export \/ Reconnect \/ Upsert \/ Save
Next == (\E e \in Turns : Appear(e)) \/ Start \/ Run \/ Abort

Spec == Init /\ [][Next]_vars
\* systemd starts the job at every tick of its timer, and a started run goes on.
FairSpec == Spec /\ WF_vars(Start) /\ WF_vars(Run)

(***************************************************************************)
(* Properties                                                              *)
(***************************************************************************)
\* The watermark file never claims a turn the collection lacks: a turn that was on
\* time, carries text and lies before its harness's watermark is in the collection,
\* wherever runs were ended and however turns and exports interleaved (lines 188-211, 255-256).
NothingSkipped ==
    \A e \in arrived \ late : e.usable /\ e.time < mark[e.harness] => Indexed(e)

\* Every turn that appears on time is indexed, once runs stop failing: also one that
\* shares its instant with the watermark, and one of a harness behind one that failed.
FinitelyManyFaults == <>[][Abort \/ Reconnect => Export \/ Upsert \/ Save]_vars
OnTimeIsIndexed ==
    FinitelyManyFaults =>
        \A e \in Turns : [](e \in arrived \ late /\ e.usable => <>Indexed(e))

\* However long Splunk refuses connections, a run comes to its end and lets the next
\* job of the guest have the embedding slot (lines 81-99).
RunEnds == []<>(pc = "idle")

\* The index moves on: runs end, and what they were on time for is indexed.
SessionsMoveOn == OnTimeIsIndexed /\ RunEnds

\* The job keeps the promise of an incremental index.
Feed == INSTANCE IndexedFeed WITH
    Sources <- Harnesses,
    Entries <- Turns,
    copied <- {e \in Turns : Indexed(e)},
    upTo <- mark
KeepsFeed == Feed!FeedSpec

=============================================================================
