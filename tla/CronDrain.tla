------------------------------ MODULE CronDrain ------------------------------
(***************************************************************************)
(* The drain-before-restart wrapper of                                     *)
(* roles/hermes_agent/templates/hermes-cron-drain-restart.py.j2.  A        *)
(* converge runs it to restart the gateway: it puts an ESTOP file into     *)
(* every cron store that has none, waits until no job holds a claim or the *)
(* drain bound passes, restarts the gateway and removes the files it put.  *)
(* Two converges may run at once, an operator pauses and resumes stores by *)
(* hand, a signal sends a run to its release and a kill ends it.  A helper *)
(* that stands just before another one and is used nowhere is a slip of    *)
(* that one, kept to see it caught.                                        *)
(***************************************************************************)
CONSTANTS
    Stores,        \* the cron stores: HERMES_HOME and one per profile
    DefaultStore,  \* the store the gateway ticks in its own process
    NoStore,
    Runs,          \* the converges that run the wrapper
    OperatorMay,   \* what the operator does in this instance
    MayFail        \* which faults happen in this instance

OperatorActs == {"pause", "race", "clear"}
Faults == {"signal", "kill", "torn", "restart_fails", "unread"}

ASSUME DrainAssumption ==
    /\ DefaultStore \in Stores
    /\ NoStore \notin Stores
    /\ OperatorMay \subseteq OperatorActs
    /\ MayFail \subseteq Faults

VARIABLES
    estop,     \* the ESTOP file of each store
    claim,     \* the fire claim in each store's job records
    pc,        \* what each run does next
    todo,      \* stores a run has still to engage
    hand,      \* the store whose file it is about to write, or to count as its own
    ours,      \* the stores it will release
    drained    \* whether its wait ended with no live claim

runVars == <<pc, todo, hand, ours, drained>>
vars == <<estop, claim, runVars>>

\* A file with the wrapper's owner marker is an orphan once it is "stale", older
\* than any live drain; "unreadable" is a file whose body does not parse.
EstopStates == {"none", "operator", "unreadable", "fresh", "stale"}
Steps == {"off", "engage", "write", "take", "drain", "restart", "release"}

TypeOK ==
    /\ estop \in [Stores -> EstopStates]
    /\ claim \in [Stores -> {"none", "running", "lingering"}]
    /\ pc \in [Runs -> Steps]
    /\ todo \in [Runs -> SUBSET Stores]
    /\ hand \in [Runs -> Stores \union {NoStore}]
    /\ ours \in [Runs -> SUBSET Stores]
    /\ drained \in [Runs -> BOOLEAN]

Init ==
    /\ estop = [s \in Stores |-> "none"]
    /\ claim = [s \in Stores |-> "none"]
    /\ pc = [r \in Runs |-> "off"]
    /\ todo = [r \in Runs |-> {}]
    /\ hand = [r \in Runs |-> NoStore]
    /\ ours = [r \in Runs |-> {}]
    /\ drained = [r \in Runs |-> FALSE]

-----------------------------------------------------------------------------
(* The cron stores.                                                        *)

\* Upstream skips cron dispatch in a store that has an ESTOP file, and never
\* stops what is running.
Dispatch(s) ==
    /\ estop[s] = "none"
    /\ claim[s] = "none"
    /\ claim' = [claim EXCEPT ![s] = "running"]
    /\ UNCHANGED <<estop, runVars>>

Finish(s) ==
    /\ claim[s] = "running"
    /\ claim' = [claim EXCEPT ![s] = "none"]
    /\ UNCHANGED <<estop, runVars>>

\* A runner that dies leaves a claim that reads as live until its lease ends.
RunnerDies(s) ==
    /\ claim[s] = "running"
    /\ claim' = [claim EXCEPT ![s] = "lingering"]
    /\ UNCHANGED <<estop, runVars>>

ClaimExpires(s) ==
    /\ claim[s] = "lingering"
    /\ claim' = [claim EXCEPT ![s] = "none"]
    /\ UNCHANGED <<estop, runVars>>

-----------------------------------------------------------------------------
(* One run of the wrapper.                                                 *)

Begin(r) ==
    /\ pc[r] = "off"
    /\ pc' = [pc EXCEPT ![r] = "engage"]
    /\ todo' = [todo EXCEPT ![r] = Stores]
    /\ drained' = [drained EXCEPT ![r] = FALSE]
    /\ UNCHANGED <<estop, claim, hand, ours>>

\* engage: an absent file or an orphan is taken, anything else is somebody
\* else's pause.
FreeByAge(e) == e \in {"none", "stale", "operator"}
NeverReclaimed(e) == e = "none"
Free(e) == e \in {"none", "stale"}

Look(r, s) ==
    /\ pc[r] = "engage"
    /\ s \in todo[r]
    /\ todo' = [todo EXCEPT ![r] = @ \ {s}]
    /\ \/ /\ Free(estop[s])
          /\ pc' = [pc EXCEPT ![r] = "write"]
          /\ hand' = [hand EXCEPT ![r] = s]
       \/ ~Free(estop[s]) /\ UNCHANGED <<pc, hand>>
    /\ UNCHANGED <<estop, claim, ours, drained>>

Write(r) ==
    /\ pc[r] = "write"
    /\ estop' = [estop EXCEPT ![hand[r]] = "fresh"]
    /\ pc' = [pc EXCEPT ![r] = "take"]
    /\ UNCHANGED <<claim, todo, hand, ours, drained>>

\* main counts the store as its own only when engage has returned.
Take(r) ==
    /\ pc[r] = "take"
    /\ ours' = [ours EXCEPT ![r] = @ \union {hand[r]}]
    /\ hand' = [hand EXCEPT ![r] = NoStore]
    /\ pc' = [pc EXCEPT ![r] = "engage"]
    /\ UNCHANGED <<estop, claim, todo, drained>>

Quiesced(r) ==
    /\ pc[r] = "engage"
    /\ todo[r] = {}
    /\ pc' = [pc EXCEPT ![r] = "drain"]
    /\ UNCHANGED <<estop, claim, todo, hand, ours, drained>>

\* wait_for_drain looks at every store, its own and those it found paused; job
\* records it cannot read count as no jobs.
OwnStores(r) == ours[r]
Watched(r) == Stores

Drained(r) ==
    /\ pc[r] = "drain"
    /\ "unread" \in MayFail \/ \A s \in Watched(r) : claim[s] = "none"
    /\ drained' = [drained EXCEPT ![r] = TRUE]
    /\ pc' = [pc EXCEPT ![r] = "restart"]
    /\ UNCHANGED <<estop, claim, todo, hand, ours>>

BoundExpires(r) ==
    /\ pc[r] = "drain"
    /\ \E s \in Watched(r) : claim[s] # "none"
    /\ pc' = [pc EXCEPT ![r] = "restart"]
    /\ UNCHANGED <<estop, claim, todo, hand, ours, drained>>

\* The restart ends what runs in the gateway's own process.
Restart(r) ==
    /\ pc[r] = "restart"
    /\ claim' = [claim EXCEPT ![DefaultStore] =
                   IF @ = "running" THEN "lingering" ELSE @]
    /\ pc' = [pc EXCEPT ![r] = "release"]
    /\ UNCHANGED <<estop, todo, hand, ours, drained>>

\* "systemctl daemon-reload" or the restart fails; the release comes all the same.
RestartFails(r) ==
    /\ "restart_fails" \in MayFail
    /\ pc[r] = "restart"
    /\ pc' = [pc EXCEPT ![r] = "release"]
    /\ UNCHANGED <<estop, claim, todo, hand, ours, drained>>

\* disengage: unlink, whatever the file now is.
Release(r, s) ==
    /\ pc[r] = "release"
    /\ s \in ours[r]
    /\ estop' = [estop EXCEPT ![s] = "none"]
    /\ ours' = [ours EXCEPT ![r] = @ \ {s}]
    /\ UNCHANGED <<claim, pc, todo, hand, drained>>

End(r) ==
    /\ pc[r] = "release"
    /\ ours[r] = {}
    /\ pc' = [pc EXCEPT ![r] = "off"]
    /\ todo' = [todo EXCEPT ![r] = {}]
    /\ UNCHANGED <<estop, claim, hand, ours, drained>>

\* A write cut short leaves a file whose body does not parse.
MaybeTorn(r) ==
    \/ UNCHANGED estop
    \/ /\ "torn" \in MayFail
       /\ pc[r] = "write"
       /\ estop' = [estop EXCEPT ![hand[r]] = "unreadable"]

\* SIGTERM or SIGINT raises SystemExit wherever the run is: it goes to the
\* release, or out of it.
Signal(r) ==
    /\ "signal" \in MayFail
    /\ pc[r] # "off"
    /\ MaybeTorn(r)
    /\ hand' = [hand EXCEPT ![r] = NoStore]
    /\ todo' = [todo EXCEPT ![r] = {}]
    /\ \/ pc[r] # "release" /\ pc' = [pc EXCEPT ![r] = "release"] /\ ours' = ours
       \/ /\ pc[r] = "release"
          /\ pc' = [pc EXCEPT ![r] = "off"]
          /\ ours' = [ours EXCEPT ![r] = {}]
    /\ UNCHANGED <<claim, drained>>

\* SIGKILL, the OOM killer, a power loss: nothing is released.
Kill(r) ==
    /\ "kill" \in MayFail
    /\ pc[r] # "off"
    /\ MaybeTorn(r)
    /\ pc' = [pc EXCEPT ![r] = "off"]
    /\ hand' = [hand EXCEPT ![r] = NoStore]
    /\ todo' = [todo EXCEPT ![r] = {}]
    /\ ours' = [ours EXCEPT ![r] = {}]
    /\ UNCHANGED <<claim, drained>>

-----------------------------------------------------------------------------
(* The operator and the clock.                                             *)

\* "race": also between a run's look at the store and its write.
OperatorPauses(s) ==
    /\ "pause" \in OperatorMay
    /\ estop[s] = "none"
    /\ "race" \in OperatorMay \/ \A r \in Runs : ~(pc[r] = "write" /\ hand[r] = s)
    /\ estop' = [estop EXCEPT ![s] = "operator"]
    /\ UNCHANGED <<claim, runVars>>

OperatorClears(s) ==
    /\ "clear" \in OperatorMay
    /\ estop[s] # "none"
    /\ estop' = [estop EXCEPT ![s] = "none"]
    /\ UNCHANGED <<claim, runVars>>

\* ORPHAN_AFTER is the drain bound and room for a restart, so no run that is
\* still alive holds a file this old.
Abandoned(s) == \A r \in Runs : s \notin ours[r] /\ ~(hand[r] = s /\ pc[r] = "take")

EstopAges(s) ==
    /\ estop[s] = "fresh"
    /\ Abandoned(s)
    /\ estop' = [estop EXCEPT ![s] = "stale"]
    /\ UNCHANGED <<claim, runVars>>

Fleet(s) == Dispatch(s) \/ Finish(s) \/ RunnerDies(s) \/ ClaimExpires(s)
Operator(s) == OperatorPauses(s) \/ OperatorClears(s)
Wrapper(r) ==
    \/ Write(r) \/ Take(r) \/ Quiesced(r) \/ Drained(r) \/ BoundExpires(r)
    \/ Restart(r) \/ End(r)
    \/ \E s \in Stores : Look(r, s) \/ Release(r, s)
Fault(r) == Signal(r) \/ Kill(r) \/ RestartFails(r)

Next ==
    \/ \E r \in Runs : Begin(r) \/ Wrapper(r) \/ Fault(r)
    \/ \E s \in Stores : Fleet(s) \/ Operator(s) \/ EstopAges(s)

Spec == Init /\ [][Next]_vars

\* A run that is not killed goes on, converges come again and again, and an
\* abandoned file grows old.
Fairness ==
    /\ \A r \in Runs : WF_vars(Begin(r)) /\ WF_vars(Wrapper(r))
    /\ \A s \in Stores : WF_vars(EstopAges(s))
FairSpec == Spec /\ Fairness

-----------------------------------------------------------------------------
(* Safety.                                                                 *)

\* A restart that followed a completed drain ends nobody's run: from the look
\* at the last claim to the restart no store starts a job (lines 205-226 and
\* 252-276).
DrainedRestartHurtsNobody ==
    [][\A r \in Runs : Restart(r) /\ drained[r] => claim' = claim]_vars

\* A pause that an operator has set before a run looked at the store outlives
\* every run, whatever aborts it (lines 15-16 and 139-195).
OperatorPauseKept ==
    [][\A s \in Stores : estop[s] = "operator" /\ ~OperatorClears(s)
          => estop'[s] = "operator"]_vars

\* A store a run counts as its own still has the file that the run put there.
Quiet == {"drain", "restart"}
OursArePaused == \A r \in Runs : \A s \in ours[r] : estop[s] = "fresh"
AllPaused ==
    \A r \in Runs :
        /\ pc[r] = "engage" => \A s \in Stores \ todo[r] : estop[s] # "none"
        /\ pc[r] \in {"write", "take"} =>
              \A s \in Stores \ (todo[r] \union {hand[r]}) : estop[s] # "none"
        /\ pc[r] = "write" => Free(estop[hand[r]])
        /\ pc[r] = "take" => estop[hand[r]] = "fresh"
        /\ pc[r] \in Quiet => \A s \in Stores : estop[s] # "none"
HandHolds ==
    \A r \in Runs :
        /\ pc[r] \in {"write", "take"} <=> hand[r] # NoStore
        /\ hand[r] \notin ours[r]
        /\ pc[r] = "off" => ours[r] = {}
        /\ ours[r] \intersect todo[r] = {}
        /\ hand[r] \notin todo[r]
DrainHolds ==
    \A r \in Runs :
        /\ pc[r] \in {"engage", "write", "take", "drain"} => ~drained[r]
        /\ pc[r] = "restart" /\ drained[r] => \A s \in Stores : claim[s] = "none"

\* What both claims rest on when one run is under way at a time and the operator
\* neither clears a file by hand nor pauses a store in the middle of a look.
IInv == TypeOK /\ HandHolds /\ OursArePaused /\ AllPaused /\ DrainHolds

-----------------------------------------------------------------------------
(* Liveness.                                                               *)

FinitelyManyFaults == <>[][\A r \in Runs : Fault(r) => Wrapper(r)]_vars

\* However runs were signalled and killed, and each file it left behind found by
\* whichever run, no store stays paused: the orphans of dead runs are reclaimed
\* and released (lines 31-37 and 139-195).
OrphansAreReclaimed ==
    FinitelyManyFaults => \A s \in Stores : []<>(estop[s] = "none")

-----------------------------------------------------------------------------
(* What the repository says of the wrapper and the code does not do.       *)

\* "an abort at any point still lifts the pause" (lines 26-27): when no run is
\* under way no store is left with a file of the wrapper.
AbortLiftsThePause ==
    (\A r \in Runs : pc[r] = "off") =>
        \A s \in Stores : estop[s] \notin {"fresh", "stale", "unreadable"}

=============================================================================
