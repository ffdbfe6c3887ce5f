---------------------------- MODULE ResultRelay ----------------------------
(***************************************************************************)
(* What the bridge promises for the work it takes over: it lets go of a    *)
(* task only after the outcome of the work has been reported on it, and it *)
(* never reports a success that did not happen.  Stated over the ledger,   *)
(* the reports and the outcomes alone, with no board, file or poll loop.   *)
(***************************************************************************)
CONSTANT Tasks

VARIABLES
    held,      \* the tasks taken over and not yet let go
    report,    \* what stands reported on a task, or "none"
    outcome    \* how the work on it ended, or "pending"

relayVars == <<held, report, outcome>>

Reports == {"completed", "FAILED", "busy"}

\* A report an outcome admits.
Truthful(r, o) ==
    \/ o = "good" /\ r = "completed"
    \/ o = "bad" /\ r \in {"FAILED", "busy"}

RelayTypeOK ==
    /\ held \subseteq Tasks
    /\ report \in [Tasks -> Reports \union {"none"}]
    /\ outcome \in [Tasks -> {"pending", "good", "bad"}]

RelayInit ==
    /\ held = {}
    /\ report = [t \in Tasks |-> "none"]
    /\ outcome = [t \in Tasks |-> "pending"]

Accept(t) ==
    /\ t \notin held
    /\ held' = held \union {t}
    /\ report' = [report EXCEPT ![t] = "none"]
    /\ UNCHANGED outcome

Report(t) ==
    /\ t \in held
    /\ \E r \in Reports :
        /\ Truthful(r, outcome[t])
        /\ report' = [report EXCEPT ![t] = r]
    /\ UNCHANGED <<held, outcome>>

Release(t) ==
    /\ t \in held
    /\ Truthful(report[t], outcome[t])
    /\ held' = held \ {t}
    /\ UNCHANGED <<report, outcome>>

\* A later remark on the task supersedes the report.
Remark(t) ==
    /\ report' = [report EXCEPT ![t] = "none"]
    /\ UNCHANGED <<held, outcome>>

Finish(t) ==
    /\ outcome[t] = "pending"
    /\ \E o \in {"good", "bad"} : outcome' = [outcome EXCEPT ![t] = o]
    /\ UNCHANGED <<held, report>>

\* Work on a task nobody holds may begin again from nothing.
Reopen(t) ==
    /\ t \notin held
    /\ outcome' = [outcome EXCEPT ![t] = "pending"]
    /\ UNCHANGED <<held, report>>

RelayNext ==
    \E t \in Tasks :
        \/ Accept(t) \/ Report(t) \/ Release(t)
        \/ Remark(t) \/ Finish(t) \/ Reopen(t)

RelaySpec == RelayInit /\ [][RelayNext]_relayVars

=============================================================================
