---------------------------- MODULE MCDecisions ----------------------------
(* The three decision procedures on their small instances, one of them in each behaviour. *)
(* They share no state, so that a behaviour of all three is no more than one of each; the *)
(* two others rest where their properties hold: a selection that is done, a trial that is *)
(* refused, a request that is answered. *)
EXTENDS MCContractScope, MCModelTrial, MCRouterRequest

VARIABLE active     \* the one that decides in this behaviour

ScopeRests == pc = "done" /\ NoPacking /\ changed = {} /\ left = {} /\ sel = Nothing
TrialRests == /\ trial = InOrder /\ infos = <<>> /\ pending = <<>> /\ verdict = "refused"
              /\ plan = NoPlan /\ day = trial.today /\ listed = FALSE
RequestRests ==
    /\ req = Request(Live, "chat", Data, {}) /\ data = req.data /\ at = "done" /\ posts = 0 /\ cleared = {}
    /\ hop = 0 /\ call = [to |-> None, top |-> <<>>, turns |-> <<>>, thinking |-> None, settings |-> TRUE]
    /\ unlogged = {} /\ answer = [status |-> "refused", lane |-> None]
    /\ records = {[a |-> [hop |-> 0, to |-> None, status |-> "failure"],
                   line |-> BuildRecord(ApplyTraceContract(data.meta, Key), req.model, "failure")]}

DecisionsInit ==
    \/ active = "scope" /\ Init /\ TrialRests /\ RequestRests
    \/ active = "trial" /\ TrialInit /\ ScopeRests /\ RequestRests
    \/ active = "request" /\ RequestInit /\ ScopeRests /\ TrialRests

Decide ==
    \/ active = "scope" /\ Next /\ UNCHANGED <<trialVars, requestVars>>
    \/ active = "trial" /\ (ReadUpstream \/ Select) /\ UNCHANGED <<vars, requestVars>>
    \/ active = "request" /\ RequestNext /\ UNCHANGED <<vars, trialVars>>
Days == active = "trial" /\ TrialNext /\ UNCHANGED <<vars, requestVars>>

decisionVars == <<vars, trialVars, requestVars, active>>
DecisionsNext == (Decide \/ Days) /\ UNCHANGED active
DecisionsSpec == DecisionsInit /\ [][DecisionsNext]_decisionVars /\ WF_decisionVars(Decide /\ UNCHANGED active)

\* Types, of all three.
DecisionsTypeOK == TypeOK /\ TrialTypeOK /\ RequestTypeOK

\* A selection comes to its jobs and a trial to its verdict, also on a chain of base
\* models that comes back to itself, and a request to its answer with a log line for each
\* attempt (router_shards, upstream.yml, RequestMetrics).
DecisionsEnd == SelectionEnds /\ TrialEnds /\ EveryAttemptIsLogged
=============================================================================
