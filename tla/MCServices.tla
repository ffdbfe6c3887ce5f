----------------------------- MODULE MCServices -----------------------------
(* Four services of the hosts on their small instances, one of them in each behaviour. *)
(* They share no state, so that a behaviour of all four is no more than one of each; the *)
(* others rest where their properties hold: nothing exported yet, every token fresh, an *)
(* empty store, an index that is whole. *)
EXTENDS MCSessionIndex, MCGhAccess, MCModelStore, DocsIndex

VARIABLE active     \* the one that works in this behaviour

TokensRest ==
    /\ tokenFile = [k \in ConfiguredKeys |-> [set |-> SetOf(k), age |-> 0]] /\ due = FALSE
    /\ stage = "idle" /\ boundaries = <<>> /\ keys = {} /\ minted = <<>>
    /\ missed = [b \in ToSet(ByBoundary) |-> 0]
    /\ call = NoCall /\ step = "idle" /\ held = NoFile /\ was = {} /\ private = [r \in Repos |-> FALSE]
StoreRests == StoreInit /\ pinned = CHOOSE r \in Revisions : TRUE
DocsRest == /\ indexed = [s \in Sources |-> 1] /\ sentinel = 0 /\ indexer = "idle"
            /\ unread = {} /\ docs = {} /\ broken = 0

ServicesInit ==
    \/ active = "sessions" /\ Init /\ TokensRest /\ StoreRests /\ DocsRest
    \/ active = "tokens" /\ Init /\ GhInit /\ StoreRests /\ DocsRest
    \/ active = "store" /\ Init /\ TokensRest /\ StoreInit /\ DocsRest
    \/ active = "docs" /\ Init /\ TokensRest /\ StoreRests /\ DocsInit

Sessions(A) == active = "sessions" /\ A /\ UNCHANGED <<active, ghVars, storeVars, docsVars>>
Tokens(A) == active = "tokens" /\ A /\ UNCHANGED <<active, vars, storeVars, docsVars>>
Store(A) == active = "store" /\ A /\ UNCHANGED <<active, vars, ghVars, docsVars>>
Docs(A) == active = "docs" /\ A /\ UNCHANGED <<active, vars, ghVars, storeVars>>

serviceVars == <<active, vars, ghVars, storeVars, docsVars>>
ServicesNext == Sessions(Next) \/ Tokens(GhNext) \/ Store(StoreNext) \/ Docs(DocsNext)
ServicesFairness ==
    /\ WF_serviceVars(Sessions(Start)) /\ WF_serviceVars(Sessions(Run))
    /\ WF_serviceVars(Tokens(Tick))
    /\ WF_serviceVars(Tokens(RefreshSucceeds /\ UNCHANGED <<callVars, private>>))
    /\ WF_serviceVars(Docs(Step))
ServicesSpec == ServicesInit /\ [][ServicesNext]_serviceVars /\ ServicesFairness

\* Types, of all four.
ServicesTypeOK == TypeOK /\ GhTypeOK /\ StoreTypeOK /\ DocsTypeOK
=============================================================================
