--------------------------- MODULE VikunjaBridge ---------------------------
(***************************************************************************)
(* The daemon of roles/hermes_agent/templates/vikunja-bridge.py.j2: it     *)
(* turns a task of the operator's Vikunja board into a card of Hermes' own *)
(* Kanban board and relays the card's outcome back.  One action is one     *)
(* REST call, one subprocess or one file write of the daemon's poll loop,  *)
(* so the operator, the Hermes workers, the brain watchdog and a crash can *)
(* come between any two of them.  A helper that stands just before another *)
(* one and is used nowhere is a slip of that one, kept to see it caught.   *)
(***************************************************************************)
EXTENDS Naturals

CONSTANTS
    Tasks,        \* the tasks of the Vikunja project
    NoTask,       \* "no task in hand"
    Eligible,     \* tasks that carry the intake label and some text
    Parents,      \* Parents[t]: the parenttask relations of a hard-dep task t
    Columns,      \* the optional buckets this board really has
    MaxIntake,    \* MAX_INTAKE_PER_TICK
    Readings,     \* what the brain watchdog writes into probe_state
    OperatorMay,  \* what the operator does in this instance
    MayFail       \* which faults happen in this instance

OptionalColumns == {"in_progress", "done", "blocked", "needs_triage", "busy"}
Buckets == OptionalColumns \union {"ready", "elsewhere"}
OperatorActs == {"move", "finish", "delete", "discard_ledger"}
Faults == {"abort", "refuse", "unread"}

ASSUME BridgeAssumption ==
    /\ NoTask \notin Tasks
    /\ Eligible \subseteq Tasks
    /\ Parents \in [Tasks -> SUBSET Tasks]
    /\ Columns \subseteq OptionalColumns
    /\ MaxIntake \in Nat \ {0}
    /\ "up" \in Readings
    /\ OperatorMay \subseteq OperatorActs
    /\ MayFail \subseteq Faults

VARIABLES
    \* Vikunja
    bucket,       \* the column a task is in, or "gone" once it is deleted
    done,         \* its done flag
    said,         \* the last comment the bridge put on it since it was accepted
    \* Hermes
    card,         \* the card with idempotency key vikunja-<t>
    probe,        \* the probe_state file
    \* the bridge's files
    ledger,       \* STATE_PATH: the tasks with a tracked card
    busyFile,     \* LANES_PATH busy_tasks: "none", "waiting" or "due"
    blockedFile,  \* LANES_PATH blocked_since: "none", "young" or "aged"
    \* the bridge's memory during one tick
    pc,           \* the call it makes next
    tracked,      \* the ledger as loaded and updated
    busyTasks,    \* the two lanes as loaded and updated
    blockedSince,
    snapReady,    \* undone tasks of READY when the board was fetched
    snapBlocked,  \* tasks of BLOCKED when the board was fetched
    seen,         \* the probe reading taken by reconcile
    todo,         \* what the loop under way still has to visit
    cur,          \* the task in hand
    verdict,      \* what reconcile decided about it
    picked        \* intakes so far in this tick

boardVars == <<bucket, done, said>>
hermesVars == <<card, probe>>
fileVars == <<ledger, busyFile, blockedFile>>
world == <<boardVars, hermesVars, fileVars>>
laneVars == <<busyTasks, blockedSince>>
snapVars == <<snapReady, snapBlocked, seen>>
kept == <<tracked, laneVars, snapVars>>
loopVars == <<pc, todo, cur, verdict, picked>>
vars == <<world, kept, loopVars>>

Verdicts == {"completed", "FAILED", "busy"}
Comments == Verdicts \union {"none", "picked_up", "requeued", "triaged"}
CardStates == {"none", "live", "parked", "ok", "hollow", "failed",
               "archived_ok", "archived_failed"}
Timers == {"none", "waiting", "due"}
Dwells == {"none", "young", "aged"}
Steps == {"idle", "reconcile", "r_comment", "r_move", "r_done", "r_save",
          "requeue", "q_comment", "triage", "t_move",
          "intake", "i_save", "i_comment", "i_move"}

TypeOK ==
    /\ bucket \in [Tasks -> Buckets \union {"gone"}]
    /\ done \in [Tasks -> BOOLEAN]
    /\ said \in [Tasks -> Comments]
    /\ card \in [Tasks -> CardStates]
    /\ probe \in Readings
    /\ ledger \in SUBSET Tasks
    /\ busyFile \in [Tasks -> Timers]
    /\ blockedFile \in [Tasks -> Dwells]
    /\ pc \in Steps
    /\ tracked \in SUBSET Tasks
    /\ busyTasks \in [Tasks -> Timers]
    /\ blockedSince \in [Tasks -> Dwells]
    /\ snapReady \in SUBSET Tasks
    /\ snapBlocked \in SUBSET Tasks
    /\ seen \in Readings
    /\ todo \in SUBSET Tasks
    /\ cur \in Tasks \union {NoTask}
    /\ verdict \in Verdicts \union {"none"}
    /\ picked \in 0..MaxIntake

NoTimers == [t \in Tasks |-> "none"]

Init ==
    /\ bucket = [t \in Tasks |-> "elsewhere"]
    /\ done = [t \in Tasks |-> FALSE]
    /\ said = [t \in Tasks |-> "none"]
    /\ card = [t \in Tasks |-> "none"]
    /\ probe = "up"
    /\ ledger = {}
    /\ busyFile = NoTimers
    /\ blockedFile = NoTimers
    /\ pc = "idle"
    /\ tracked = {}
    /\ busyTasks = NoTimers
    /\ blockedSince = NoTimers
    /\ snapReady = {}
    /\ snapBlocked = {}
    /\ seen = "up"
    /\ todo = {}
    /\ cur = NoTask
    /\ verdict = "none"
    /\ picked = 0

-----------------------------------------------------------------------------
(* What the code computes from what it reads.                              *)

\* card_state: a completed run of a done or archived card; anything else that
\* is over is a failure, and a card that is queued, running or parked by
\* kanban_block is not settled.
OkByStatus(c) == c \in {"ok", "archived_ok", "hollow"}
Ok(c) == c \in {"ok", "archived_ok"}
SettledWhenParked(c) == c \in {"ok", "archived_ok", "hollow", "failed", "parked"}
SettledUnlessArchived(c) == c \in {"ok", "hollow", "failed"}
Settled(c) == Ok(c) \/ c \in {"hollow", "failed", "archived_failed"}

\* reconcile: a failure while the probe reads anything but "up" is blamed on
\* the brain, if the board has a BUSY column to put it in.
Judge(c) ==
    IF Ok(c) THEN "completed"
    ELSE IF seen # "up" /\ "busy" \in Columns THEN "busy" ELSE "FAILED"

SwappedTarget(v) == IF v = "completed" THEN "done" ELSE IF v = "busy" THEN "blocked" ELSE "busy"
Target(v) == IF v = "completed" THEN "done" ELSE IF v = "busy" THEN "busy" ELSE "blocked"

\* move_to_bucket, skipped when the board lacks that column.
Moved(t, b) ==
    bucket' = IF b \in Columns \union {"ready"}
              THEN [bucket EXCEPT ![t] = b] ELSE bucket

Gone(t) == bucket[t] = "gone"

\* has_undone_parent asks Vikunja afresh, whatever the snapshot said.
ParentInProgress(t) == \E p \in Parents[t] : bucket[p] = "in_progress" /\ ~done[p]
HasUndoneParent(t) == \E p \in Parents[t] : ~Gone(p) /\ ~done[p]

RoomForOneMore == picked <= MaxIntake
RoomForOneLess == picked + 1 < MaxIntake
RoomLeft == picked < MaxIntake

ActionableOnce(t) == t \notin tracked /\ t \in Eligible /\ card[t] = "none"
Actionable(t) ==
    /\ t \notin tracked
    /\ t \in Eligible
    /\ ~HasUndoneParent(t)

\* hermes kanban create --idempotency-key: the newest card with this key that
\* is not archived, or a new one.
Created(c) == IF c \in {"none", "archived_ok", "archived_failed"} THEN "live" ELSE c

-----------------------------------------------------------------------------
(* The poll loop.                                                          *)

\* tick up to the reconcile loop: resolve_board, load_ledger, load_lanes and
\* reconcile's reading of the probe.
StartTick ==
    /\ pc = "idle"
    /\ snapReady' = {t \in Tasks : bucket[t] = "ready" /\ ~done[t]}
    /\ snapBlocked' = {t \in Tasks : bucket[t] = "blocked"}
    /\ seen' = probe
    /\ tracked' = ledger
    /\ busyTasks' = busyFile
    /\ blockedSince' = blockedFile
    /\ todo' = ledger
    /\ pc' = "reconcile"
    /\ UNCHANGED <<world, cur, verdict, picked>>

\* The loop under way is through with t and nothing else happened.
Pass(t) ==
    /\ t \in todo
    /\ todo' = todo \ {t}
    /\ UNCHANGED <<world, kept, pc, cur, verdict, picked>>

ReconcileSkip(t) ==
    /\ pc = "reconcile"
    /\ Pass(t)
    /\ ~Settled(card[t])

ReconcileJudge(t) ==
    /\ pc = "reconcile"
    /\ t \in todo
    /\ Settled(card[t])
    /\ cur' = t
    /\ verdict' = Judge(card[t])
    /\ pc' = "r_comment"
    /\ UNCHANGED <<world, kept, todo, picked>>

ReconcileComment ==
    /\ pc = "r_comment"
    /\ ~Gone(cur)
    /\ said' = [said EXCEPT ![cur] = verdict]
    /\ pc' = "r_move"
    /\ UNCHANGED <<bucket, done, hermesVars, fileVars, kept, todo, cur, verdict,
                   picked>>

CloseForgotten == "r_save"
AfterMove == IF verdict = "completed" THEN "r_done" ELSE "r_save"

ReconcileMove ==
    /\ pc = "r_move"
    /\ Target(verdict) \in Columns => ~Gone(cur)
    /\ Moved(cur, Target(verdict))
    /\ pc' = AfterMove
    /\ UNCHANGED <<done, said, hermesVars, fileVars, kept, todo, cur, verdict,
                   picked>>

\* mark_done; Vikunja moves a task of its own accord when its flag flips.
ReconcileDone ==
    /\ pc = "r_done"
    /\ ~Gone(cur)
    /\ done' = [done EXCEPT ![cur] = TRUE]
    /\ bucket' = IF ~done[cur] /\ "done" \in Columns
                 THEN [bucket EXCEPT ![cur] = "done"] ELSE bucket
    /\ pc' = "r_save"
    /\ UNCHANGED <<said, hermesVars, fileVars, kept, todo, cur, verdict, picked>>

\* The retry-after stamp goes into memory only; LANES_PATH is written at the
\* end of the tick.
StampForgotten == busyTasks
RetryStamp == IF verdict = "busy" THEN [busyTasks EXCEPT ![cur] = "waiting"] ELSE busyTasks

StillTracked == tracked
Untracked == tracked \ {cur}

ReconcileSave ==
    /\ pc = "r_save"
    /\ busyTasks' = RetryStamp
    /\ tracked' = Untracked
    /\ ledger' = tracked'
    /\ todo' = todo \ {cur}
    /\ cur' = NoTask
    /\ verdict' = "none"
    /\ pc' = "reconcile"
    /\ UNCHANGED <<boardVars, hermesVars, busyFile, blockedFile, blockedSince,
                   snapVars, picked>>

ReconcileEnd ==
    /\ pc = "reconcile"
    /\ todo = {}
    /\ todo' = {t \in Tasks : busyTasks[t] # "none"}
    /\ pc' = "requeue"
    /\ UNCHANGED <<world, kept, cur, verdict, picked>>

RequeueSkip(t) ==
    /\ pc = "requeue"
    /\ Pass(t)
    /\ busyTasks[t] = "waiting"

RequeueMove(t) ==
    /\ pc = "requeue"
    /\ t \in todo
    /\ busyTasks[t] = "due"
    /\ ~Gone(t)
    /\ Moved(t, "ready")
    /\ cur' = t
    /\ pc' = "q_comment"
    /\ UNCHANGED <<done, said, hermesVars, fileVars, kept, todo, verdict, picked>>

RequeueComment ==
    /\ pc = "q_comment"
    /\ ~Gone(cur)
    /\ said' = [said EXCEPT ![cur] = "requeued"]
    /\ busyTasks' = [busyTasks EXCEPT ![cur] = "none"]
    /\ todo' = todo \ {cur}
    /\ cur' = NoTask
    /\ pc' = "requeue"
    /\ UNCHANGED <<bucket, done, hermesVars, fileVars, tracked, blockedSince,
                   snapVars, verdict, picked>>

\* triage_aged_blocked starts by forgetting the tasks that left BLOCKED; it
\* does nothing at all on a board without both of its columns.
StampsDropped == NoTimers
StampsKept == [t \in Tasks |-> IF t \in snapBlocked THEN blockedSince[t] ELSE "none"]

RequeueEnd ==
    /\ pc = "requeue"
    /\ todo = {}
    /\ IF {"blocked", "needs_triage"} \subseteq Columns
       THEN blockedSince' = StampsKept /\ todo' = snapBlocked
       ELSE UNCHANGED <<blockedSince, todo>>
    /\ pc' = "triage"
    /\ UNCHANGED <<world, tracked, busyTasks, snapVars, cur, verdict, picked>>

TriageWait(t) ==
    /\ pc = "triage"
    /\ t \in todo
    /\ blockedSince[t] # "aged"
    /\ blockedSince' = [blockedSince EXCEPT ![t] = "young"]
    /\ todo' = todo \ {t}
    /\ UNCHANGED <<world, tracked, busyTasks, snapVars, pc, cur, verdict, picked>>

TriageComment(t) ==
    /\ pc = "triage"
    /\ t \in todo
    /\ blockedSince[t] = "aged"
    /\ ~Gone(t)
    /\ said' = [said EXCEPT ![t] = "triaged"]
    /\ cur' = t
    /\ pc' = "t_move"
    /\ UNCHANGED <<bucket, done, hermesVars, fileVars, kept, todo, verdict, picked>>

TriageMove ==
    /\ pc = "t_move"
    /\ ~Gone(cur)
    /\ Moved(cur, "needs_triage")
    /\ blockedSince' = [blockedSince EXCEPT ![cur] = "none"]
    /\ todo' = todo \ {cur}
    /\ cur' = NoTask
    /\ pc' = "triage"
    /\ UNCHANGED <<done, said, hermesVars, fileVars, tracked, busyTasks, snapVars,
                   verdict, picked>>

\* What a tick leaves behind: nothing of its memory is read by the next one.
Rest ==
    /\ pc' = "idle"
    /\ tracked' = {}
    /\ busyTasks' = NoTimers
    /\ blockedSince' = NoTimers
    /\ snapReady' = {}
    /\ snapBlocked' = {}
    /\ seen' = "up"
    /\ todo' = {}
    /\ cur' = NoTask
    /\ verdict' = "none"
    /\ picked' = 0

\* save_lanes, then the second reading of the probe: anything but "up" ends the
\* tick before intake.
SaveLanes ==
    /\ pc = "triage"
    /\ todo = {}
    /\ busyFile' = busyTasks
    /\ blockedFile' = blockedSince
    /\ \/ /\ probe = "up"
          /\ todo' = snapReady
          /\ pc' = "intake"
          /\ UNCHANGED <<kept, cur, verdict, picked>>
       \/ probe # "up" /\ Rest
    /\ UNCHANGED <<boardVars, hermesVars, ledger>>

IntakeSkip(t) ==
    /\ pc = "intake"
    /\ Pass(t)
    /\ RoomLeft
    /\ ~Actionable(t)

IntakeCreate(t) ==
    /\ pc = "intake"
    /\ t \in todo
    /\ RoomLeft
    /\ Actionable(t)
    /\ Parents[t] # {} => ~Gone(t)
    /\ card' = [card EXCEPT ![t] = Created(card[t])]
    /\ cur' = t
    /\ pc' = "i_save"
    /\ UNCHANGED <<boardVars, probe, fileVars, kept, todo, verdict, picked>>

\* The ledger saved only once the task has moved.
IntakeSaveLater ==
    /\ pc = "i_save"
    /\ tracked' = tracked \union {cur}
    /\ ledger' \in {ledger, tracked'}
    /\ said' = [said EXCEPT ![cur] = "none"]
    /\ pc' = "i_comment"
    /\ UNCHANGED <<bucket, done, hermesVars, busyFile, blockedFile, laneVars,
                   snapVars, todo, cur, verdict, picked>>

\* save_ledger; what was said about an earlier handover no longer counts.
IntakeSave ==
    /\ pc = "i_save"
    /\ tracked' = tracked \union {cur}
    /\ ledger' = tracked'
    /\ said' = [said EXCEPT ![cur] = "none"]
    /\ pc' = "i_comment"
    /\ UNCHANGED <<bucket, done, hermesVars, busyFile, blockedFile, laneVars,
                   snapVars, todo, cur, verdict, picked>>

IntakeComment ==
    /\ pc = "i_comment"
    /\ ~Gone(cur)
    /\ said' = [said EXCEPT ![cur] = "picked_up"]
    /\ pc' = "i_move"
    /\ UNCHANGED <<bucket, done, hermesVars, fileVars, kept, todo, cur, verdict,
                   picked>>

IntakeMove ==
    /\ pc = "i_move"
    /\ "in_progress" \in Columns => ~Gone(cur)
    /\ Moved(cur, "in_progress")
    /\ picked' = picked + 1
    /\ todo' = todo \ {cur}
    /\ cur' = NoTask
    /\ pc' = "intake"
    /\ UNCHANGED <<done, said, hermesVars, fileVars, kept, verdict>>

IntakeEnd ==
    /\ pc = "intake"
    /\ todo = {} \/ ~RoomLeft
    /\ Rest
    /\ UNCHANGED <<world>>

-----------------------------------------------------------------------------
(* The ways a tick ends early.  The next one starts from the files alone, so *)
(* an exception, a killed daemon and a request whose answer was lost after   *)
(* it took effect are one and the same.                                      *)

Abort ==
    /\ "abort" \in MayFail
    /\ pc # "idle"
    /\ Rest
    /\ UNCHANGED <<world>>

\* Vikunja answers 404 for a deleted task and api raises.
NotFound ==
    /\ \/ pc \in {"r_comment", "r_done", "q_comment", "t_move", "i_comment"} /\ Gone(cur)
       \/ pc = "r_move" /\ Target(verdict) \in Columns /\ Gone(cur)
       \/ pc = "i_move" /\ "in_progress" \in Columns /\ Gone(cur)
       \/ pc = "requeue" /\ \E t \in todo : busyTasks[t] = "due" /\ Gone(t)
       \/ pc = "triage" /\ \E t \in todo : blockedSince[t] = "aged" /\ Gone(t)
       \/ /\ pc = "intake"
          /\ RoomLeft
          /\ \E t \in (todo \intersect Eligible) \ tracked : Parents[t] # {} /\ Gone(t)
    /\ Rest
    /\ UNCHANGED <<world>>

\* kanban create exits non-zero, or prints no card id: with or without having
\* made the card, the task stays in READY.
IntakeRefused(t) ==
    /\ "refuse" \in MayFail
    /\ pc = "intake"
    /\ t \in todo
    /\ RoomLeft
    /\ Actionable(t)
    /\ card' \in {card, [card EXCEPT ![t] = Created(card[t])]}
    /\ todo' = todo \ {t}
    /\ UNCHANGED <<boardVars, probe, fileVars, kept, pc, cur, verdict, picked>>

\* sqlite3.Error on a card: logged, and the next card is looked at.
ReconcileUnread(t) ==
    /\ "unread" \in MayFail
    /\ pc = "reconcile"
    /\ Pass(t)

-----------------------------------------------------------------------------
(* The world around the daemon.                                            *)

daemonVars == <<fileVars, kept, loopVars>>

OperatorFile(t) ==
    /\ bucket[t] = "elsewhere"
    /\ bucket' = [bucket EXCEPT ![t] = "ready"]
    /\ UNCHANGED <<done, said, hermesVars, daemonVars>>

OperatorMove(t, b) ==
    /\ "move" \in OperatorMay
    /\ ~Gone(t)
    /\ bucket[t] # b
    /\ bucket' = [bucket EXCEPT ![t] = b]
    /\ UNCHANGED <<done, said, hermesVars, daemonVars>>

OperatorFinish(t) ==
    /\ "finish" \in OperatorMay
    /\ ~Gone(t)
    /\ ~done[t]
    /\ done' = [done EXCEPT ![t] = TRUE]
    /\ bucket' = IF "done" \in Columns THEN [bucket EXCEPT ![t] = "done"] ELSE bucket
    /\ UNCHANGED <<said, hermesVars, daemonVars>>

OperatorDelete(t) ==
    /\ "delete" \in OperatorMay
    /\ ~Gone(t)
    /\ bucket' = [bucket EXCEPT ![t] = "gone"]
    /\ UNCHANGED <<done, said, hermesVars, daemonVars>>

\* The ledger is missing, unparsable or of an older schema when next loaded.
LedgerDiscarded ==
    /\ "discard_ledger" \in OperatorMay
    /\ pc = "idle"
    /\ ledger # {}
    /\ ledger' = {}
    /\ UNCHANGED <<boardVars, hermesVars, busyFile, blockedFile, kept, loopVars>>

CardMay(t, from, to) ==
    /\ card[t] \in from
    /\ card' = [card EXCEPT ![t] = to]
    /\ UNCHANGED <<boardVars, probe, daemonVars>>

CardSettles(t) == \E c \in {"ok", "hollow", "failed"} : CardMay(t, {"live"}, c)
CardParks(t) == CardMay(t, {"live"}, "parked")
CardUnparks(t) == CardMay(t, {"parked"}, "live")
CardArchived(t) ==
    \/ CardMay(t, {"ok"}, "archived_ok")
    \/ CardMay(t, {"live", "parked", "hollow", "failed"}, "archived_failed")

ProbeChanges ==
    /\ \E r \in Readings \ {probe} : probe' = r
    /\ UNCHANGED <<boardVars, card, daemonVars>>

\* Time passes BUSY_REQUEUE_SECONDS, or BLOCKED_TRIAGE_DAYS, for a stamp: the
\* copy in memory and the one on disk carry the same date.
Later(lane, t, from, to) == [lane EXCEPT ![t] = IF @ = from THEN to ELSE @]

BusyTimerExpires(t) ==
    /\ "waiting" \in {busyFile[t], busyTasks[t]}
    /\ busyFile' = Later(busyFile, t, "waiting", "due")
    /\ busyTasks' = Later(busyTasks, t, "waiting", "due")
    /\ UNCHANGED <<boardVars, hermesVars, ledger, blockedFile, tracked,
                   blockedSince, snapVars, loopVars>>

BlockedAges(t) ==
    /\ "young" \in {blockedFile[t], blockedSince[t]}
    /\ blockedFile' = Later(blockedFile, t, "young", "aged")
    /\ blockedSince' = Later(blockedSince, t, "young", "aged")
    /\ UNCHANGED <<boardVars, hermesVars, ledger, busyFile, tracked, busyTasks,
                   snapVars, loopVars>>

-----------------------------------------------------------------------------

Reconcile ==
    \/ \E t \in Tasks : ReconcileSkip(t) \/ ReconcileJudge(t)
    \/ ReconcileComment \/ ReconcileMove \/ ReconcileDone \/ ReconcileSave
    \/ ReconcileEnd

Requeue ==
    \/ \E t \in Tasks : RequeueSkip(t) \/ RequeueMove(t)
    \/ RequeueComment \/ RequeueEnd

Triage ==
    \/ \E t \in Tasks : TriageWait(t) \/ TriageComment(t)
    \/ TriageMove \/ SaveLanes

Intake ==
    \/ \E t \in Tasks : IntakeSkip(t) \/ IntakeCreate(t)
    \/ IntakeSave \/ IntakeComment \/ IntakeMove \/ IntakeEnd

Bridge == StartTick \/ Reconcile \/ Requeue \/ Triage \/ Intake \/ NotFound

Fault == Abort \/ \E t \in Tasks : IntakeRefused(t) \/ ReconcileUnread(t)

Operator ==
    \/ \E t \in Tasks :
        \/ OperatorFile(t) \/ OperatorFinish(t) \/ OperatorDelete(t)
        \/ \E b \in Buckets : OperatorMove(t, b)
    \/ LedgerDiscarded

Hermes ==
    \/ \E t \in Tasks : CardSettles(t) \/ CardParks(t) \/ CardUnparks(t) \/ CardArchived(t)
    \/ ProbeChanges

Clock == \E t \in Tasks : BusyTimerExpires(t) \/ BlockedAges(t)

Next == Bridge \/ Fault \/ Operator \/ Hermes \/ Clock

Spec == Init /\ [][Next]_vars

\* systemd restarts the daemon and its loop never ends; time passes.
Fairness ==
    /\ WF_vars(Bridge)
    /\ \A t \in Tasks : WF_vars(BusyTimerExpires(t)) /\ WF_vars(BlockedAges(t))

FairSpec == Spec /\ Fairness

-----------------------------------------------------------------------------
(* The contract: VikunjaBridge implements ResultRelay.                     *)

ReportOf(t) == IF said[t] \in Verdicts THEN said[t] ELSE "none"
OutcomeOf(c) ==
    IF c \in {"ok", "archived_ok"} THEN "good"
    ELSE IF c \in {"hollow", "failed", "archived_failed"} THEN "bad" ELSE "pending"

Relay == INSTANCE ResultRelay WITH
    held <- ledger,
    report <- [t \in Tasks |-> ReportOf(t)],
    outcome <- [t \in Tasks |-> OutcomeOf(card[t])]

\* Whatever is lost between two steps of a tick, the ledger lets go of a task
\* only after the outcome of its card stands on the board, and "completed" is
\* said only of a card whose run completed (the order comment, move, mark_done,
\* save_ledger of reconcile, and save_ledger before comment in intake).
RelayContract == Relay!RelaySpec

-----------------------------------------------------------------------------
(* Safety.                                                                 *)

\* A task the board says was picked up has a card the bridge is tracking: the
\* ledger is written before the comment, so no crash leaves an announced task
\* that nothing will ever reconcile (intake's "Ledger FIRST").
PickedUpIsTracked == \A t \in Tasks : said[t] = "picked_up" => t \in ledger

\* A task whose last report is a success, and which the ledger has let go, is
\* closed: mark_done comes before save_ledger, whatever crash or operator comes
\* in between.
CompletedIsClosed == \A t \in Tasks \ ledger : said[t] = "completed" => done[t]

\* Between two ticks the board shows the verdict: a task the ledger has let go
\* sits in the column its last report calls for, and one that waits in BUSY has a
\* retry stamp on disk, so that requeue_busy will find it.  (While no tick is
\* aborted and nobody else moves tasks: a retry stamp that outlives an aborted
\* tick can move a FAILED task back to READY.)
BusyIsStamped == \A t \in Tasks : bucket[t] = "busy" => busyFile[t] # "none"
BoardAgrees ==
    pc = "idle" =>
        /\ BusyIsStamped
        /\ \A t \in Tasks \ ledger :
            /\ said[t] = "completed" /\ "done" \in Columns => bucket[t] = "done"
            /\ said[t] = "FAILED" /\ "blocked" \in Columns => bucket[t] = "blocked"
            /\ said[t] = "busy" => bucket[t] = "busy"

\* The bridge closes a task only when the card's run completed; a card that is
\* done or archived without a completed run is a failure (card_state).
ClosedMeansCompleted ==
    [][\A t \in Tasks : done'[t] /\ ~done[t] /\ pc = "r_done" /\ cur = t
            => OutcomeOf(card[t]) = "good"]_vars

\* A hard-dep task gets its card only when every parent is done, by Vikunja's
\* answer at that moment and not by the snapshot of the tick
\* (has_undone_parent).
HardDepRespected ==
    \A t \in Tasks : card[t] # "none" => \A p \in Parents[t] : done[p] \/ Gone(p)

\* Without crashes every report follows the announcement of its own pickup: no
\* card is reported twice, none before the task was announced.  It is stated on
\* the step that comments, so a second report counts even when it says the same
\* as the first.
OneReportPerPickup ==
    [][pc = "r_comment" /\ pc' = "r_move" => said[cur] = "picked_up"]_vars

-----------------------------------------------------------------------------
(* Why: the inductive invariant behind the contract.                       *)

Reporting == {"r_comment", "r_move", "r_done", "r_save"}
TakingOver == {"i_save", "i_comment", "i_move"}

\* A step that works on a task has one in hand, and intake has room for it.
InHand ==
    /\ pc \in Reporting \union TakingOver \union {"q_comment", "t_move"} => cur \in Tasks
    /\ pc \in TakingOver => RoomLeft

\* During a tick the memory and the file hold the same ledger, and reconcile
\* visits only tracked tasks.
LedgerInMemory ==
    /\ pc # "idle" => tracked = ledger
    /\ pc \in {"reconcile"} \union Reporting => todo \subseteq ledger

\* A verdict in hand is about a tracked task and true of its card, and from the
\* comment on it stands on the board.
VerdictHolds ==
    /\ pc \in Reporting =>
        /\ cur \in ledger
        /\ Relay!Truthful(verdict, OutcomeOf(card[cur]))
    /\ pc \in Reporting \ {"r_comment"} => said[cur] = verdict
    /\ pc = "r_done" => verdict = "completed"
    /\ pc = "r_save" /\ verdict = "completed" => done[cur]

\* A task is tracked from the save on, and not before.
TakeoverHolds ==
    /\ pc = "i_save" => cur \notin ledger
    /\ pc \in {"i_comment", "i_move"} => cur \in ledger

\* Everything the proofs need; it holds step by step in every instance.
IInv == TypeOK /\ InHand /\ LedgerInMemory /\ VerdictHolds /\ TakeoverHolds

-----------------------------------------------------------------------------
(* Liveness.                                                               *)

\* From some point on a tick only ends, and only passes over a card, where the
\* program itself does so.
FinitelyManyFaults == <>[][Fault => Bridge]_vars
BrainStaysUp == <>[](probe = "up")

\* Once crashes stop, every tracked card that is over gets reported and its task
\* let go, however many ticks were aborted midway (reconcile retries from the
\* ledger).
SettledIsReleased ==
    FinitelyManyFaults =>
        \A t \in Tasks : (t \in ledger /\ OutcomeOf(card[t]) # "pending") ~> t \notin ledger

\* Once crashes stop and the brain stays up, an actionable task of READY is
\* taken over, unless something moves it away first (intake, its cap per tick
\* and its probe gate).
ReadyIsAccepted ==
    FinitelyManyFaults /\ BrainStaysUp =>
        \A t \in Eligible :
            (bucket[t] = "ready" /\ ~done[t] /\ ~HasUndoneParent(t))
                ~> (t \in ledger \/ bucket[t] # "ready" \/ done[t])

\* A task in BLOCKED reaches a human even when ticks were aborted: the stamp is
\* taken anew from the live board (triage_aged_blocked).
BlockedIsTriaged ==
    FinitelyManyFaults =>
        \A t \in Tasks : bucket[t] = "blocked" ~> bucket[t] # "blocked"

\* A task in BUSY goes back to READY, while no tick is aborted (requeue_busy).
BusyIsRequeued == \A t \in Tasks : bucket[t] = "busy" ~> bucket[t] # "busy"

\* With aborted ticks it does so if its retry stamp reached the disk.  A tick that
\* ends between save_ledger and save_lanes leaves a task in BUSY without one, and
\* nothing ever looks at that task again.
StampedIsRequeued ==
    FinitelyManyFaults =>
        \A t \in Tasks :
            (bucket[t] = "busy" /\ busyFile[t] # "none") ~> bucket[t] # "busy"

\* Whatever a task waits for while ticks are aborted, cards unread and creates
\* refused, it waits in vain for none of these once that stops.
HandoversGoOn ==
    /\ SettledIsReleased
    /\ ReadyIsAccepted
    /\ BlockedIsTriaged
    /\ StampedIsRequeued

\* Tasks that compete for the intake of each tick and return to READY from BUSY again
\* and again all have their turn.
NobodyStarves == ReadyIsAccepted /\ BusyIsRequeued

=============================================================================
