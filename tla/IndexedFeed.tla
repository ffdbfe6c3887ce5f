----------------------------- MODULE IndexedFeed -----------------------------
(***************************************************************************)
(* What an incremental index of a log owes its readers, whatever the       *)
(* mechanism: entries appear in the log, some of them late, that is after  *)
(* an entry of the same source with a later time; copies are only added;   *)
(* and a source's mark passes an entry that was not late only when the     *)
(* entry has been copied.                                                  *)
(***************************************************************************)
EXTENDS Naturals

CONSTANTS Sources, Entries

VARIABLES arrived, late, copied, upTo
feedVars == <<arrived, late, copied, upTo>>

Overtaken(e) == \E f \in arrived : f.harness = e.harness /\ f.time > e.time
Owed(s, t) == {e \in arrived \ late : e.harness = s /\ e.usable /\ e.time < t}

FeedInit ==
    /\ arrived = {}
    /\ late = {}
    /\ copied = {}
    /\ upTo = [s \in Sources |-> 0]

Appear(e) ==
    /\ e \notin arrived
    /\ arrived' = arrived \union {e}
    /\ late' = IF Overtaken(e) THEN late \union {e} ELSE late
    /\ UNCHANGED <<copied, upTo>>

Copy ==
    /\ copied \subseteq copied'
    /\ copied' \subseteq arrived
    /\ UNCHANGED <<arrived, late, upTo>>

Advance(s, t) ==
    /\ t >= upTo[s]
    /\ Owed(s, t) \subseteq copied
    /\ upTo' = [upTo EXCEPT ![s] = t]
    /\ UNCHANGED <<arrived, late, copied>>

FeedNext ==
    \/ \E e \in Entries : Appear(e)
    \/ Copy
    \/ \E s \in Sources : \E t \in {e.time : e \in arrived} \union {upTo[s]} : Advance(s, t)

FeedSpec == FeedInit /\ [][FeedNext]_feedVars

=============================================================================
