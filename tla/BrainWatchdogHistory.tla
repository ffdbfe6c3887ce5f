------------------------- MODULE BrainWatchdogHistory -------------------------
(***************************************************************************)
(* BrainWatchdog with a record of what its probes have found, to state     *)
(* what a debounced edge owes to the probes before it.                     *)
(***************************************************************************)
EXTENDS BrainWatchdog

VARIABLE
    badProbes   \* probes that found the brain down, or busy once too often,
                \* since one found it up; counted up to DownAfter

historyVars == <<vars, badProbes>>

OneMoreBad == IF badProbes = DownAfter THEN badProbes ELSE badProbes + 1

Recorded ==
    badProbes' = IF Start /\ brain = "up" THEN 0
                 ELSE IF Start /\ brain = "down" THEN OneMoreBad
                 ELSE IF JudgeDown /\ result = "busy" THEN OneMoreBad
                 ELSE badProbes

HistoryInit == Init /\ badProbes = 0
HistoryNext == Next /\ Recorded
HistorySpec ==
    /\ HistoryInit
    /\ [][HistoryNext]_historyVars
    /\ WF_historyVars(Run /\ Recorded)
    /\ WF_historyVars(CooldownElapses /\ Recorded)

\* A job is paused only after DOWN_AFTER bad probes without a good one between
\* them, however busy and good probes, edges and flaps were mixed before (lines
\* 414-447).
PauseIsDebounced ==
    [][(\E j \in Jobs : fleet[j] = "active" /\ fleet'[j] = "paused")
        => badProbes >= DownAfter]_historyVars

=============================================================================
