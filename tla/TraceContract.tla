---------------------------- MODULE TraceContract ----------------------------
(***************************************************************************)
(* roles/llm_router/files/callbacks/request_metrics.py as operators on the *)
(* metadata LiteLLM keeps beside a request:                                *)
(*   top       what the metadata says itself, attribute to value           *)
(*   carriers  the copies of it that exporters read                        *)
(*   tags, inherited, asked   the tags it lists, those among them a policy *)
(*             of the key put there, and those of requester_metadata       *)
(* One attribute stands for each way the code treats one: "runner" may be  *)
(* asked for and has a default, "agent" is the key's when the key has one, *)
(* "run_id" is the caller's, "privacy_class", "key_alias" and "model" are  *)
(* never the caller's.  The callback's other attributes go with one of     *)
(* these.  "" is None.                                                     *)
(* A helper that stands just before another one and is used nowhere is a   *)
(* slip of that one, kept to see it caught.                                *)
(***************************************************************************)
EXTENDS Naturals, Sequences

Carriers == {"requester_metadata", "spend_logs_metadata", "trace_metadata"}
None == ""

ValueOf(f, a) == IF a \in DOMAIN f THEN f[a] ELSE None
Only(f, as) == [a \in DOMAIN f \cap as |-> f[a]]
\* The first of two that is there.
Or(a, b) == IF a # None THEN a ELSE b
Updated(f, g) == [a \in DOMAIN f \cup DOMAIN g |-> IF a \in DOMAIN g THEN g[a] ELSE f[a]]

\* What a key's metadata gives a request that asks for nothing.
Defaults(key) ==
    IF key.defaults # <<>> THEN key.defaults
    ELSE [client |-> key.alias, runner |-> "unattributed", purpose |-> "unattributed"]

\* The slip: what the caller claims in a carrier stays.
ContractUnder(existing, contract) == Updated(contract, existing)
ContractOver(existing, contract) == Updated(existing, contract)

\* An attribute once the key's defaults are over the metadata, but for the ones a request
\* may ask for.
Known(top, key, a) ==
    IF a \in {"runner", "purpose", "tier"} /\ ValueOf(top, a) # None THEN top[a]
    ELSE IF a \in DOMAIN Defaults(key) THEN Defaults(key)[a] ELSE ValueOf(top, a)
KeyDecided == {"agent", "privacy_class", "model", "session_id"}
TopContract(top, key) ==
    [a \in DOMAIN top \cup DOMAIN Defaults(key) \cup KeyDecided |->
        CASE a = "agent" -> Or(ValueOf(Defaults(key), a), Or(Known(top, key, a), key.alias))
          [] a = "privacy_class" -> IF key.public THEN "public" ELSE "private"
          [] a = "model" -> None
          [] a = "session_id" -> Or(Known(top, key, a), Or(Known(top, key, "run_id"), "fresh"))
          [] OTHER -> Known(top, key, a)]

ContractFields(key) ==
    DOMAIN Defaults(key) \union key.required \union {"agent", "tier", "privacy_class", "session_id"}

\* The attributes every exporter must see, put over whatever the caller sent.
Contract(top, key) ==
    [a \in {f \in ContractFields(key) : ValueOf(top, f) # None} \cup {"key_alias", "model"} |->
        CASE a = "key_alias" -> key.alias
          [] a = "model" -> None
          [] OTHER -> top[a]]
ApplyTraceContract(meta, key) ==
    LET top == TopContract(meta.top, key)
    IN  [meta EXCEPT !.top = top,
                     !.carriers = [c \in Carriers |-> ContractOver(meta.carriers[c], Contract(top, key))]]

\* A benchmark key's request must say what it measures.
IsBenchmark(key) == ValueOf(Defaults(key), "purpose") = "benchmark"
\* The slip: that something is required is enough.
LacksList(meta, key) == IsBenchmark(key) /\ key.required = {}
LacksBenchmark(meta, key) ==
    IsBenchmark(key) /\ (key.required = {} \/ \E a \in key.required : ValueOf(meta.top, a) = None)

\* Names the deployment of the attempt that is logged.
ApplyDeploymentContract(meta, deployment) ==
    [meta EXCEPT !.top = Updated(@, [model |-> deployment]),
                 !.carriers = [c \in Carriers |-> Updated(@[c], [model |-> deployment])]]

RecordFields == {"key_alias", "model", "agent", "privacy_class", "runner", "run_id", "session_id"}
\* The one log line of an attempt.
BuildRecord(meta, payloadModel, status) ==
    LET contract == meta.carriers["requester_metadata"]
    IN  [status |-> status,
         model |-> Or(ValueOf(contract, "model"), payloadModel),
         key_alias |-> ValueOf(contract, "key_alias"),
         said |-> Only(contract, RecordFields \ {"model", "key_alias"})]

=============================================================================
