----------------------------- MODULE MCWatchdogs -----------------------------
(* The brain watchdog and the watchdog of the scheduled jobs on small instances, one of   *)
(* them in each behaviour: they share no file, so that a behaviour of both is no more     *)
(* than one of each. The other rests as it was installed.                                 *)
EXTENDS BrainWatchdogHistory, SuccessWatch

VARIABLE active     \* the one that works in this behaviour

\* One job with a cron expression, in the store of the default profile.
OneStore == [j \in {"job"} |-> "default"]
ByExpression == [j \in {"job"} |-> 0]

Brain(A) == active = "brain" /\ A /\ UNCHANGED <<active, watchVars>>
Success(A) == active = "success" /\ A /\ UNCHANGED <<active, historyVars>>

watchdogVars == <<active, historyVars, watchVars>>
WatchdogsInit == active \in {"brain", "success"} /\ HistoryInit /\ WatchInit
WatchdogsNext == Brain(HistoryNext) \/ Success(WatchNext)
WatchdogsSpec ==
    /\ WatchdogsInit /\ [][WatchdogsNext]_watchdogVars
    /\ WF_watchdogVars(Brain(Run /\ Recorded))
    /\ WF_watchdogVars(Brain(CooldownElapses /\ Recorded))
=============================================================================
