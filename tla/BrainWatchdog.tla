---------------------------- MODULE BrainWatchdog ----------------------------
(***************************************************************************)
(* The brain-health watchdog of                                            *)
(* roles/hermes_agent/templates/hermes-brain-watchdog.sh.j2.  A systemd    *)
(* timer runs the script; a run probes the brain, and on a debounced edge  *)
(* pauses or resumes the cron jobs that need the brain and pages, or       *)
(* counts the edge as a flap.  All it remembers between two runs is in     *)
(* files, written one after the other, so one action is one CLI call, one  *)
(* page or one file write, and a kill can come between any two of them.    *)
(* A helper that stands just before another one and is used nowhere is a   *)
(* slip of that one, kept to see it caught.                                *)
(***************************************************************************)
EXTENDS Integers

CONSTANTS
    Jobs,           \* SEEDED_JOBS
    DownAfter,      \* DOWN_AFTER
    UpAfter,        \* UP_AFTER
    BusyGrace,      \* BUSY_GRACE_PROBES
    FlapThreshold,  \* SUSTAINED_FLAP_THRESHOLD, 0 for never
    MaxFlaps,       \* flaps are counted up to here
    Weather,        \* what the brain does in this instance
    MayFail         \* which faults happen in this instance

ProbeStates == {"up", "busy", "down"}
Faults == {"kill", "list", "pause", "resume", "push"}

ASSUME WatchdogAssumption ==
    /\ DownAfter \in Nat \ {0}
    /\ UpAfter \in Nat \ {0}
    /\ BusyGrace \in Nat \ {0}
    /\ FlapThreshold \in Nat
    /\ MaxFlaps \in Nat \ {0}
    /\ FlapThreshold <= MaxFlaps
    /\ Weather \subseteq ProbeStates
    /\ "up" \in Weather
    /\ MayFail \subseteq Faults

VARIABLES
    brain,       \* what a probe would find now
    fleet,       \* the state of each job on the cron board
    pushed,      \* the last message pushed
    belief,      \* how the last message that reached the operator left things
    \* the files of STATE_DIR
    stateFile, streakFile, busyFile, probeFile,
    cooldown,    \* flap_cooldown_until: absent, ahead or past
    flaps,       \* flap_count
    episode,     \* flap_since_epoch: absent, or how long ago
    rearm,       \* sustained_rearm_until: absent or past, or ahead
    \* the memory of one run
    pc,          \* what the script does next
    result,      \* the verdict on this run's probe
    state, streak, busy,
    left         \* the jobs cron_do still has to call for

files == <<stateFile, streakFile, busyFile, probeFile>>
flapVars == <<cooldown, flaps, episode, rearm>>
memory == <<result, state, streak, busy, left>>
alertVars == <<pushed, belief>>
vars == <<brain, fleet, alertVars, files, flapVars, pc, memory>>

Messages == {"none", "down", "up", "unstable", "summary"}
Tones == {"well", "trouble"}
Tone(m) == IF m \in {"down", "unstable"} THEN "trouble" ELSE "well"
Steps == {"idle", "judge", "reconcile", "pause", "resume", "repair", "edge",
          "window", "escalate", "save_state", "save_streak", "save_busy",
          "summary"}

\* The streak is only compared with 0, UpAfter and -DownAfter: beyond them it
\* stops counting.
Streaks == (-DownAfter)..UpAfter

TypeOK ==
    /\ brain \in Weather
    /\ fleet \in [Jobs -> {"active", "paused"}]
    /\ pushed \in Messages
    /\ belief \in Tones
    /\ stateFile \in {"up", "down"}
    /\ streakFile \in Streaks
    /\ busyFile \in 0..(BusyGrace - 1)
    /\ probeFile \in ProbeStates
    /\ cooldown \in {"none", "running", "over"}
    /\ flaps \in 0..MaxFlaps
    /\ episode \in {"none", "young", "old"}
    /\ rearm \in {"none", "running"}
    /\ pc \in Steps
    /\ result \in ProbeStates
    /\ state \in {"up", "down"}
    /\ streak \in Streaks
    /\ busy \in 0..(BusyGrace - 1)
    /\ left \in SUBSET Jobs

Forgotten ==
    /\ result' = "up"
    /\ state' = "up"
    /\ streak' = 0
    /\ busy' = 0
    /\ left' = {}

Init ==
    /\ brain = "up"
    /\ fleet = [j \in Jobs |-> "active"]
    /\ pushed = "none"
    /\ belief = "well"
    /\ stateFile = "up"
    /\ streakFile = 0
    /\ busyFile = 0
    /\ probeFile = "up"
    /\ cooldown = "none"
    /\ flaps = 0
    /\ episode = "none"
    /\ rearm = "none"
    /\ pc = "idle"
    /\ result = "up"
    /\ state = "up"
    /\ streak = 0
    /\ busy = 0
    /\ left = {}

-----------------------------------------------------------------------------
(* One run of the script.                                                  *)

\* The run reads its files, probes, and leaves the raw reading for others.
Start ==
    /\ pc = "idle"
    /\ state' = stateFile
    /\ streak' = streakFile
    /\ busy' = busyFile
    /\ result' = brain
    /\ probeFile' = brain
    /\ pc' = "judge"
    /\ UNCHANGED <<brain, fleet, alertVars, stateFile, streakFile, busyFile,
                   flapVars, left>>

\* Saturation is an outage once it has lasted BUSY_GRACE_PROBES probes.
NeverGivenUp(r) == r
Escalated(r) == IF r = "busy" /\ busy + 1 >= BusyGrace THEN "down" ELSE r

\* A good probe ends a run of bad ones and a bad one a run of good ones; a busy
\* one is evidence of neither.
Raised == IF streak < 0 THEN 1 ELSE IF streak = UpAfter THEN streak ELSE streak + 1
FirstBadOnly == IF streak > -1 THEN -1 ELSE streak
Lowered == IF streak > 0 THEN -1 ELSE IF streak = -DownAfter THEN streak ELSE streak - 1
BusyIsBad == Lowered
AfterBusy == streak

JudgeUp ==
    /\ pc = "judge"
    /\ Escalated(result) = "up"
    /\ busy' = 0
    /\ streak' = Raised
    /\ \/ state = "down" /\ Raised >= UpAfter /\ pc' = "resume" /\ left' = Jobs
       \/ ~(state = "down" /\ Raised >= UpAfter) /\ pc' = "reconcile" /\ left' = left
    /\ UNCHANGED <<brain, fleet, alertVars, files, flapVars, result, state>>

JudgeBusy ==
    /\ pc = "judge"
    /\ Escalated(result) = "busy"
    /\ busy' = busy + 1
    /\ streak' = AfterBusy
    /\ pc' = "save_state"
    /\ UNCHANGED <<brain, fleet, alertVars, files, flapVars, result, state, left>>

JudgeDown ==
    /\ pc = "judge"
    /\ Escalated(result) = "down"
    /\ result' = "down"
    /\ busy' = 0
    /\ streak' = Lowered
    /\ \/ state = "up" /\ Lowered <= -DownAfter /\ pc' = "pause" /\ left' = Jobs
       \/ ~(state = "up" /\ Lowered <= -DownAfter) /\ pc' = "save_state" /\ left' = left
    /\ UNCHANGED <<brain, fleet, alertVars, files, flapVars, state>>

\* reconcile_fleet: any job found paused while the brain is healthy is repaired.
RepairOff == {}
ToRepair == {j \in Jobs : fleet[j] = "paused"}

Reconcile ==
    /\ pc = "reconcile"
    /\ \/ ToRepair # {} /\ pc' = "repair" /\ left' = Jobs
       \/ ToRepair = {} /\ pc' = "save_state" /\ left' = left
    /\ UNCHANGED <<brain, fleet, alertVars, files, flapVars, result, state, streak,
                   busy>>

\* "cron list" prints nothing: there is nothing to repair.
ReconcileBlind ==
    /\ "list" \in MayFail
    /\ pc = "reconcile"
    /\ pc' = "save_state"
    /\ UNCHANGED <<brain, fleet, alertVars, files, flapVars, memory>>

\* cron_do: one "hermes cron pause|resume <job>".
Wanted == IF pc = "pause" THEN "paused" ELSE "active"

CronCall(j) ==
    /\ pc \in {"pause", "resume", "repair"}
    /\ j \in left
    /\ fleet' = [fleet EXCEPT ![j] = Wanted]
    /\ left' = left \ {j}
    /\ UNCHANGED <<brain, alertVars, files, flapVars, pc, result, state, streak,
                   busy>>

\* The call fails; "|| true" goes on to the next job.
CronCallFails(j) ==
    /\ (IF pc = "pause" THEN "pause" ELSE "resume") \in MayFail
    /\ pc \in {"pause", "resume", "repair"}
    /\ j \in left
    /\ left' = left \ {j}
    /\ UNCHANGED <<brain, fleet, alertVars, files, flapVars, pc, result, state,
                   streak, busy>>

CronDone ==
    /\ pc \in {"pause", "resume", "repair"}
    /\ left = {}
    /\ pc' = IF pc = "repair" THEN "save_state" ELSE "edge"
    /\ UNCHANGED <<brain, fleet, alertVars, files, flapVars, memory>>

-----------------------------------------------------------------------------
(* handle_edge: a page, or one more flap.                                  *)

\* ntfy_push ends in "|| true" and does nothing at all without an NTFY_URL: what
\* was pushed is on record as paged whether it arrived or not, and is never
\* pushed again.
Push(m) ==
    /\ pushed' = m
    /\ \/ belief' = Tone(m)
       \/ "push" \in MayFail /\ UNCHANGED belief

\* The state an edge leaves behind.
KeptState == state
NewState == result

\* An edge inside the window that a completed cycle has opened is a flap.
Coalesced == cooldown = "running"

EdgePage ==
    /\ pc = "edge"
    /\ ~Coalesced
    /\ Push(result)
    /\ \/ result = "up" /\ pc' = "window" /\ UNCHANGED <<state, streak>>
       \/ result = "down" /\ pc' = "save_state" /\ state' = NewState /\ streak' = 0
    /\ UNCHANGED <<brain, fleet, files, flapVars, result, busy, left>>

\* A cycle is complete: later edges within the cooldown are flaps.
OpenWindow ==
    /\ pc = "window"
    /\ cooldown' = "running"
    /\ flaps' = 0
    /\ episode' = "young"
    /\ rearm' = "none"
    /\ state' = NewState
    /\ streak' = 0
    /\ pc' = "save_state"
    /\ UNCHANGED <<brain, fleet, alertVars, files, result, busy, left>>

NoneMore == flaps
OneMore == IF flaps = MaxFlaps THEN flaps ELSE flaps + 1

EdgeCoalesced ==
    /\ pc = "edge"
    /\ Coalesced
    /\ flaps' = OneMore
    /\ cooldown' = "running"
    /\ pc' = "escalate"
    /\ UNCHANGED <<brain, fleet, alertVars, files, episode, rearm, memory>>

\* maybe_escalate_sustained_flap: one loud page per re-arm period.
Sustained ==
    /\ FlapThreshold > 0
    /\ rearm = "none"
    /\ flaps >= FlapThreshold \/ episode = "old"

Escalate ==
    /\ pc = "escalate"
    /\ \/ Sustained /\ Push("unstable") /\ rearm' = "running"
       \/ ~Sustained /\ UNCHANGED <<alertVars, rearm>>
    /\ state' = NewState
    /\ streak' = 0
    /\ pc' = "save_state"
    /\ UNCHANGED <<brain, fleet, files, cooldown, flaps, episode, result, busy,
                   left>>

-----------------------------------------------------------------------------
(* The end of a run.                                                       *)

SaveState ==
    /\ pc = "save_state"
    /\ stateFile' = state
    /\ pc' = "save_streak"
    /\ UNCHANGED <<brain, fleet, alertVars, streakFile, busyFile, probeFile, flapVars,
                   memory>>

SaveStreak ==
    /\ pc = "save_streak"
    /\ streakFile' = streak
    /\ pc' = "save_busy"
    /\ UNCHANGED <<brain, fleet, alertVars, stateFile, busyFile, probeFile, flapVars,
                   memory>>

SaveBusy ==
    /\ pc = "save_busy"
    /\ busyFile' = busy
    /\ pc' = "summary"
    /\ UNCHANGED <<brain, fleet, alertVars, stateFile, streakFile, probeFile,
                   flapVars, memory>>

EpisodeCleared ==
    /\ cooldown' = "none"
    /\ flaps' = 0
    /\ episode' = "none"
    /\ rearm' = "none"

\* flap_summary_check: an episode ends when the window has passed and the brain
\* is up; while it is down the window is extended.
EndsAnyhow == cooldown = "over"
EpisodeEnds == cooldown = "over" /\ state = "up"

Summary ==
    /\ pc = "summary"
    /\ \/ /\ EpisodeEnds
          /\ \/ flaps > 0 /\ Push("summary")
             \/ flaps = 0 /\ UNCHANGED alertVars
          /\ EpisodeCleared
       \/ /\ ~EpisodeEnds
          /\ cooldown' = IF cooldown = "over" THEN "running" ELSE cooldown
          /\ UNCHANGED <<alertVars, flaps, episode, rearm>>
    /\ Forgotten
    /\ pc' = "idle"
    /\ UNCHANGED <<brain, fleet, files>>

\* SIGKILL, the OOM killer or a host reset: the run is over, and the file it was
\* writing may be left empty, which the next run reads as its default.
Kill ==
    /\ "kill" \in MayFail
    /\ pc # "idle"
    /\ \/ UNCHANGED files
       \/ /\ pc = "save_state"
          /\ stateFile' = "up"
          /\ UNCHANGED <<streakFile, busyFile, probeFile>>
       \/ /\ pc = "save_streak"
          /\ streakFile' = 0
          /\ UNCHANGED <<stateFile, busyFile, probeFile>>
       \/ /\ pc = "save_busy"
          /\ busyFile' = 0
          /\ UNCHANGED <<stateFile, streakFile, probeFile>>
    /\ Forgotten
    /\ pc' = "idle"
    /\ UNCHANGED <<brain, fleet, alertVars, flapVars>>

-----------------------------------------------------------------------------
(* The world around it.                                                    *)

BrainChanges ==
    /\ brain' \in Weather \ {brain}
    /\ UNCHANGED <<fleet, alertVars, files, flapVars, pc, memory>>

CooldownElapses ==
    /\ cooldown = "running"
    /\ cooldown' = "over"
    /\ UNCHANGED <<brain, fleet, alertVars, files, flaps, episode, rearm, pc, memory>>

EpisodeAges ==
    /\ episode = "young"
    /\ episode' = "old"
    /\ UNCHANGED <<brain, fleet, alertVars, files, cooldown, flaps, rearm, pc, memory>>

RearmElapses ==
    /\ rearm = "running"
    /\ rearm' = "none"
    /\ UNCHANGED <<brain, fleet, alertVars, files, cooldown, flaps, episode, pc, memory>>

Judge == JudgeUp \/ JudgeBusy \/ JudgeDown
Fleet == Reconcile \/ CronDone \/ \E j \in Jobs : CronCall(j)
Edge == EdgePage \/ OpenWindow \/ EdgeCoalesced \/ Escalate
Save == SaveState \/ SaveStreak \/ SaveBusy \/ Summary
Run == Start \/ Judge \/ Fleet \/ Edge \/ Save
Fault == Kill \/ ReconcileBlind \/ \E j \in Jobs : CronCallFails(j)
Clock == CooldownElapses \/ EpisodeAges \/ RearmElapses

Next == Run \/ Fault \/ Clock \/ BrainChanges

Spec == Init /\ [][Next]_vars

\* The timer fires again and again, a run that is not killed goes on, and the
\* cooldown passes.
Fairness == WF_vars(Run) /\ WF_vars(CooldownElapses)
FairSpec == Spec /\ Fairness

-----------------------------------------------------------------------------
(* Safety.                                                                 *)

Resting == pc = "idle"
AllActive == \A j \in Jobs : fleet[j] = "active"
AllPaused == \A j \in Jobs : fleet[j] = "paused"

\* While the watchdog rests and believes the brain up, every job runs: no path
\* through a run that was not killed leaves a job paused behind a healthy brain
\* (lines 424-454, cron_do before the three state files).
UpMeansRunning == Resting /\ stateFile = "up" => AllActive

\* An outage the watchdog has recorded was either the last thing it pushed, or it
\* began inside an open flap episode: the episode is never closed under an
\* outage, which would let its end pass for a fresh one (lines 309-337 against
\* 271-303).  Whether the push arrived is another matter: see Push.
OutageIsPagedOrOpen ==
    Resting /\ stateFile = "down" => pushed = "down" \/ cooldown # "none"

\* Why both hold.  The step a run is at tells which verdict it acts on, and that
\* the state in memory is the one in the file until an edge changes it; a run
\* that has the brain up in mind has seen to it that no job is left paused, and
\* a run that has it down in mind that it was paged or is part of an episode.
VerdictHolds ==
    /\ pc \in {"reconcile", "resume", "repair", "window"} => result = "up"
    /\ pc = "pause" => result = "down"
    /\ pc = "pause" => state = "up"
    /\ pc \in {"resume", "window"} => state = "down"
    /\ pc \in {"edge", "escalate"} => result \in {"up", "down"} /\ state # result

StateHolds ==
    pc \notin {"idle", "save_state"} => state = stateFile

FleetHolds ==
    /\ Resting /\ stateFile = "up" => AllActive
    /\ pc \in {"judge", "reconcile", "repair", "save_state", "save_streak",
               "save_busy", "summary"} /\ state = "up" => AllActive
    /\ pc = "resume" => \A j \in Jobs \ left : fleet[j] = "active"
    /\ pc \in {"edge", "escalate", "window"} /\ result = "up" => AllActive

Owned(s) == s = "down" => pushed = "down" \/ cooldown # "none"

PageHolds ==
    /\ Resting => Owned(stateFile)
    /\ ~Resting /\ pc # "window" => Owned(state)
    /\ pc = "escalate" => cooldown # "none"

IInv == TypeOK /\ VerdictHolds /\ StateHolds /\ FleetHolds /\ PageHolds

-----------------------------------------------------------------------------
(* Liveness.  Faults stop at some time; the brain is free to do anything.  *)

FinitelyManyFaults == <>[][Fault => Run]_vars

\* Once the brain is up for good the whole fleet runs, whatever was killed or
\* failed on the way (lines 338-380: the pause and the state file are separate
\* writes, and the repair must make up for a kill between them).
HealthyFleetRuns ==
    FinitelyManyFaults /\ <>[](brain = "up") => <>[]AllActive

\* An outage that begins while the watchdog believes the brain up, and lasts,
\* pauses the whole fleet, kills notwithstanding, unless a pause call itself
\* fails (lines 441-449).
LastingOutagePauses ==
    FinitelyManyFaults =>
        []((Resting /\ stateFile = "up" /\ [](brain # "up")) => <>[]AllPaused)

\* The last push of all reaches the operator: NTFY_URL is set, and the hub takes
\* it within its 8 seconds.  Earlier ones may be lost.
LastPushArrives == <>[](belief = Tone(pushed))

\* An operator who was told of an outage is told of its end: by the recovery page
\* or by the summary of the flaps it was counted among (lines 271-337).  A lost
\* push is never made up for, so this needs the last one to arrive: an operator
\* who misses it stays with the outage.
RecoveryIsTold == <>[](brain = "up") /\ LastPushArrives => <>[](belief = "well")

=============================================================================
