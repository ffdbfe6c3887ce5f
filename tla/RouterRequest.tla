---------------------------- MODULE RouterRequest ----------------------------
(***************************************************************************)
(* One request on its way through the LLM router: the callbacks of         *)
(* roles/llm_router/files/callbacks/ in the order in which                 *)
(* litellm-settings.yaml.j2 registers them, the deployments LiteLLM tries, *)
(* and the log line each try leaves.  Requests share no state of these     *)
(* callbacks.  What LiteLLM does in between is modelled from what the      *)
(* callbacks expect of it.                                                 *)
(* A helper that stands just before another one and is used nowhere is a   *)
(* slip of that one, kept to see it caught.                                *)
(***************************************************************************)
EXTENDS SystemMerge, EffortPin, FiniteSets

CONSTANTS
    Requests,          \* the requests clients send, each with its key
    Deployments,       \* the deployments a fallback chain may try
    MaxHops,           \* deployments tried for one request
    MaxPieces,         \* pieces of text the classifier takes
    CIKeyAliases,      \* the keys ci_effort_pin looks after
    ThinkingOffModels, \* models that think only when told to
    ManyModels,        \* model values that name more than one model
    Lanes              \* model names that are router lanes

DataFields == {"model", "top", "turns", "plain", "headers", "tools", "options", "extra", "template", "client", "meta"}
MetaFields == {"top", "carriers", "tags", "inherited", "asked"}
Templates == {"absent", "empty", "on", "off"}

\* How a request reaches the callbacks: only Responses and Anthropic requests have text
\* beside their messages, the client's values are in the snapshot of its body, and a key
\* requires only attributes that a log line has (63-trace-contract.yml, lines 6-18).
WellFormed(r) ==
    LET d == r.data
    IN  /\ DOMAIN d = DataFields /\ DOMAIN d.meta = MetaFields
        /\ d.turns \in Seq(Messages)
        /\ d.top \in Seq(ContentValues) /\ Len(d.top) <= 1
        /\ r.family \in {"responses", "anthropic"} \/ d.top = <<>>
        /\ d.extra \in [other : BOOLEAN, template : Templates] /\ d.template \in Templates
        /\ \A f \in DOMAIN d.plain : d.plain[f] = "client" => f \in r.body
        /\ d.tools # {} => "tools" \in r.body
        /\ d.extra # NoExtra => "extra_body" \in r.body
        /\ d.template # "absent" => "chat_template_kwargs" \in r.body
        /\ Cardinality(r.credential_fields) <= 1
        /\ r.key.required \subseteq RecordFields \ {"model", "key_alias"}

ASSUME RequestAssumption ==
    /\ \A r \in Requests : WellFormed(r)
    /\ MaxHops \in Nat \ {0}

VARIABLES
    req,       \* the request as the client sent it (constant)
    data,      \* the request as the callbacks leave it
    at,        \* the step it is at
    posts,     \* classifier calls made
    cleared,   \* the pieces of text the classifier called public (history)
    hop,       \* the current attempt
    call,      \* what that attempt's deployment gets
    unlogged,  \* finished attempts whose log line is not written
    records,   \* the log lines, with the deployment really tried (history)
    answer     \* what the client gets

requestVars == <<req, data, at, posts, cleared, hop, call, unlogged, records, answer>>

Key == req.key
IsCI == Key.alias \in CIKeyAliases
IsResponses == req.family = "responses"
Steps == {"metrics", "merge", "pin", "classify", "route", "sent", "done"}
Answers == {"none", "invalid", "refused", "served", "failed"}

RequestTypeOK ==
    /\ at \in Steps
    /\ posts \in 0..2
    /\ hop \in 0..MaxHops
    /\ call.to \in Deployments \union {None}
    /\ unlogged \subseteq [hop : 0..MaxHops, to : Deployments \union {None}, status : {"success", "failure"}]
    /\ Cardinality(records) <= MaxHops + 1
    /\ answer.status \in Answers
    /\ answer.status # "none" <=> at = "done"

RequestInit ==
    /\ req \in Requests
    /\ data = req.data
    /\ at = "metrics"
    /\ posts = 0
    /\ cleared = {}
    /\ hop = 0
    /\ call = [to |-> None, top |-> <<>>, turns |-> <<>>, thinking |-> None, settings |-> TRUE]
    /\ unlogged = {}
    /\ records = {}
    /\ answer = [status |-> "none", lane |-> None]

End(status) ==
    /\ at' = "done"
    /\ answer' = [answer EXCEPT !.status = status]
\* The slip: only what reached a deployment is logged.
RefuseSilently(status) ==
    /\ End(status)
    /\ UNCHANGED unlogged
\* A refusal is logged like a failed attempt that had no deployment.
Refuse(status) ==
    /\ End(status)
    /\ unlogged' = {[hop |-> 0, to |-> None, status |-> "failure"]}

\* request_metrics: the attribution goes on before validation may refuse the request.
Metrics ==
    /\ at = "metrics"
    /\ data' = [data EXCEPT !.meta = ApplyTraceContract(@, Key)]
    /\ IF LacksBenchmark(data'.meta, Key)
       THEN Refuse("invalid")
       ELSE at' = "merge" /\ UNCHANGED <<answer, unlogged>>
    /\ UNCHANGED <<req, posts, cleared, hop, call, records>>

\* system_merge: only a request that carries messages has any to merge yet.
Merge ==
    /\ at = "merge"
    /\ data' = IF IsResponses THEN data ELSE [data EXCEPT !.turns = MergeSystemMessages(@)]
    /\ at' = "pin"
    /\ UNCHANGED <<req, posts, cleared, hop, call, unlogged, records, answer>>

\* ci_effort_pin
Refusable == req.family \notin Families \/ ~req.snapshot \/ {req.model, data.model} \cap ManyModels # {}
PinnedData ==
    DefaultThinkingOff(
        PinRequest(DropHeaderCarriers(SanitizeTransportFields(data, req.credential_fields)),
                   req.body, req.family),
        req.family, ThinkingOffModels)
Pin ==
    /\ at = "pin"
    /\ IF ~IsCI THEN at' = "classify" /\ UNCHANGED <<data, answer, unlogged>>
       ELSE IF Refusable THEN Refuse("refused") /\ UNCHANGED data
       ELSE data' = PinnedData /\ at' = "classify" /\ UNCHANGED <<answer, unlogged>>
    /\ UNCHANGED <<req, posts, cleared, hop, call, records>>

(***************************************************************************)
(* untrusted_classify                                                      *)
(***************************************************************************)
Blocks(cs) == UNION {ToSet(c.parts) : c \in ToSet(cs)}
Pieces(cs) == UNION {ToSet(b.text) : b \in Blocks(cs)}
\* The slip: only the messages are read.
MessageText(d) == Pieces(Contents(d.turns))
\* The text of the fields it reads, _TEXT_KEYS.
ScannedText(d) == Pieces(d.top) \union Pieces(Contents(d.turns)) \union d.tools
Readable(d) == \A b \in Blocks(d.top) \union Blocks(Contents(d.turns)) : b.kind = "text"

Inspected == Key.untrusted /\ Key.route_local # "only"
Postable == Readable(data) /\ ScannedText(data) # {} /\ Cardinality(ScannedText(data)) <= MaxPieces

PassClassify ==
    /\ at = "classify"
    /\ ~Inspected
    /\ at' = "route"
    /\ UNCHANGED <<req, data, posts, cleared, hop, call, unlogged, records, answer>>
RefuseUnread ==
    /\ at = "classify"
    /\ Inspected
    /\ ~Postable
    /\ Refuse("refused")
    /\ UNCHANGED <<req, data, posts, cleared, hop, call, records>>
\* The slip: a timeout is always tried again.
EveryTimeout == posts < 3
OneTimeout == posts = 0
\* A call of the classifier: a first timeout is tried again, any other reply but "public" refuses.
Post ==
    /\ at = "classify"
    /\ Inspected
    /\ Postable
    /\ posts' = posts + 1
    /\ \/ cleared' = ScannedText(data) /\ at' = "route" /\ UNCHANGED <<unlogged, answer>>
       \/ Refuse("refused") /\ UNCHANGED cleared
       \/ OneTimeout /\ UNCHANGED <<at, cleared, unlogged, answer>>
    /\ UNCHANGED <<req, data, hop, call, records>>

(***************************************************************************)
(* LiteLLM tries deployments                                               *)
(***************************************************************************)
\* The Responses bridge, and the Anthropic adapter: the top-level text becomes a message.
Bridge(c) ==
    IF c.top = <<>> THEN c
    ELSE [c EXCEPT !.top = <<>>, !.turns = <<[role |-> "system", content |-> c.top[1]]>> \o c.turns]
\* The slip: what was merged before the deployment was chosen is taken for good.
BridgeOnly(c) == Bridge(c)
\* What system_merge makes of an attempt, once the bridge has built its messages.
DeploymentHook(c) ==
    IF req.family = "anthropic" THEN Bridge(MergeAnthropicSystem(c))
    ELSE LET b == IF IsResponses THEN Bridge(c) ELSE c
         IN  [b EXCEPT !.turns = MergeSystemMessages(@)]

\* A request's extra_body merges with the deployment's at first and replaces it on a
\* fallback; a template at the top level merges into either.
Thinking == IF data.template \in {"on", "off"} THEN data.template ELSE data.extra.template
KeepsSettings(h) == h = 1 \/ data.extra = NoExtra

\* A next attempt starts from the request or, where the deployment hook's work is kept, from the last one.
Route ==
    /\ at = "route"
    /\ hop' = hop + 1
    /\ \E d \in Deployments :
        \E from \in {data} \union (IF hop > 0 /\ ~IsResponses THEN {call} ELSE {}) :
            LET hooked == DeploymentHook([top |-> from.top, turns |-> from.turns])
            IN  call' = [to |-> d, top |-> hooked.top, turns |-> hooked.turns,
                         thinking |-> Thinking, settings |-> KeepsSettings(hop')]
    /\ at' = "sent"
    /\ UNCHANGED <<req, data, posts, cleared, unlogged, records, answer>>

Attempt(status) == [hop |-> hop, to |-> call.to, status |-> status]
LaneOf(model) == IF model \in Lanes THEN model ELSE None
Serve ==
    /\ at = "sent"
    /\ unlogged' = unlogged \union {Attempt("success")}
    /\ at' = "done"
    /\ answer' = [status |-> "served", lane |-> LaneOf(data.model)]
    /\ UNCHANGED <<req, data, posts, cleared, hop, call, records>>
Fail ==
    /\ at = "sent"
    /\ unlogged' = unlogged \union {Attempt("failure")}
    /\ IF hop < MaxHops THEN at' = "route" /\ UNCHANGED answer ELSE End("failed")
    /\ UNCHANGED <<req, data, posts, cleared, hop, call, records>>

\* The log line of an attempt, which is written beside the request and not before it
\* goes on.  The attempts share the carriers, and each line changes them in place; the
\* deployment a line finds is its attempt's own, which LiteLLM's router puts into a
\* metadata of that attempt (tests/llm_router/test_deployment_trace_contract.py, line 61).
Log(a) ==
    LET named == ApplyDeploymentContract(data.meta, a.to)
    IN  /\ a \in unlogged
        /\ unlogged' = unlogged \ {a}
        /\ data' = [data EXCEPT !.meta = [@ EXCEPT !.carriers = named.carriers]]
        /\ records' = records \union {[a |-> a, line |-> BuildRecord(named, req.model, a.status)]}
        /\ UNCHANGED <<req, at, posts, cleared, hop, call, answer>>

Proceed == Metrics \/ Merge \/ Pin \/ PassClassify \/ RefuseUnread \/ Post \/ Route \/ Serve \/ Fail
RequestNext == Proceed \/ \E a \in unlogged : Log(a)

\* Every await of the path has a timeout.
RequestSpec == RequestInit /\ [][RequestNext]_requestVars /\ WF_requestVars(RequestNext)

(***************************************************************************)
(* Properties                                                              *)
(***************************************************************************)
SystemOf(c) == SystemMessages[c.turns]
TalkOf(c) == OtherMessages[c.turns]
SentSystem(c) == c.top \o Contents(SystemOf(c))

\* Whatever form a request came in and however often it fell back, a deployment gets at
\* most one system message and that one leads: Qwen's template refuses any other list,
\* and the refusal is not retried (system_merge.py, lines 5-19).
OneLeadingSystem ==
    at = "sent" =>
        /\ call.top = <<>>
        /\ Len(SystemOf(call)) <= 1
        /\ SystemOf(call) # <<>> => Systemish(call.turns[1])

\* Merging twice, before and after the choice of a deployment, and again on a fallback,
\* neither loses, repeats nor reorders anything: the turns are the client's, the system
\* text is all of the client's system text in its order, and cached blocks stay blocks,
\* but for empty ones, which the Anthropic API rejects (system_merge.py, lines 55-59).
CachedBlocks(cs) == {b \in Blocks(cs) : b.cached /\ Stays(b)}
SameConversation(c, d) ==
    /\ TalkOf(c) = TalkOf(d)
    /\ JoinedText[SentSystem(c)] = JoinedText[SentSystem(d)]
    /\ CachedBlocks(SentSystem(c)) = CachedBlocks(SentSystem(d))
ConversationKept == at = "sent" => SameConversation(call, req.data)

\* The fields of a request that may hold text and leave without the classifier having
\* read them: what the client put beside the conversation and the tools, as
\* response_format, user or metadata, and extra_body, which may even replace messages.
UnscannedFields(d) ==
    {f \in DOMAIN d.plain : d.plain[f] = "client"}
        \union {f \in {"extra_body"} : d.extra.other} \union {f \in {"metadata"} : d.client # {}}

\* The classifier's answer covers the conversation and the tools, and those whole: of an
\* untrusted key that may leave the site, every piece of a message and every tool sent
\* was called public in one of two calls, also in what the deployment hook and the
\* bridges build after that answer.  It covers nothing else (untrusted_classify.py, lines
\* 23-26): what the client put in an unscanned field leaves unread, and there is no
\* such field but the client's own.
ClearedOnly ==
    at = "sent" /\ Key.untrusted /\ Key.route_local # "only" =>
        /\ Pieces(Contents(call.turns)) \union data.tools \subseteq cleared
        /\ \A b \in Blocks(Contents(call.turns)) : b.kind = "text"
        /\ UnscannedFields(data) \subseteq UnscannedFields(req.data)

\* Every log line, of an attempt, a fallback or a refusal and however late it is written,
\* carries the authenticated key, its privacy class and one session, and names the
\* deployment of its own attempt, whatever the client claimed in its metadata and
\* whatever the line of another attempt left in the carriers they share (request_metrics.py,
\* lines 93-108 and 145-152, after ci_effort_pin took its share).
Attributed ==
    \A r \in records :
        /\ r.line.key_alias = Key.alias
        /\ r.line.model = Or(r.a.to, req.model)
        /\ r.line.said["privacy_class"] = IF Key.public THEN "public" ELSE "private"
        /\ \A q \in records : q.line.said["session_id"] = r.line.said["session_id"]

\* A benchmark's request is refused before any deployment sees it unless it says all that
\* its key requires, and then its log lines say it too (lines 153-159).
BenchmarksSayWhat ==
    IsBenchmark(Key) => \A r \in records : r.a.hop > 0 => Key.required \subseteq DOMAIN r.line.said

\* A deployment sees of a CI request only fields, tools, headers and tags its route may
\* carry, also of those LiteLLM copies in after the snapshot, and everything the proxy
\* itself put there or replaced (ci_effort_pin.py, lines 173-272).
CIRequestPinned ==
    at = "sent" /\ IsCI =>
        /\ \A f \in DOMAIN data.plain : data.plain[f] = "client" => f \in AllowedFields[req.family] \union AlwaysKept
        /\ \A f \in DOMAIN req.data.plain : req.data.plain[f] = "proxy" =>
                (f \in DOMAIN data.plain <=> f \notin HeaderCarriers \union CredentialFields(req.credential_fields))
        /\ data.tools \subseteq ClientToolTypes /\ data.headers \subseteq ProviderHeaders
        /\ data.meta.tags = req.data.meta.tags \cap req.data.meta.inherited

\* A CI request for a model that thinks only when told to does not think unless the
\* client chose to in extra_body, on the first deployment and on every fallback, and
\* that default costs no deployment its own settings (lines 275-291).
ThinkingReaches ==
    at = "sent" /\ IsCI /\ req.family = "chat" /\ req.data.model \in ThinkingOffModels =>
        LET chosen == req.data.extra.template \in {"on", "off"}
        IN  /\ call.thinking = IF chosen THEN req.data.extra.template ELSE "off"
            /\ ~chosen => call.settings

\* What a deployment is sent is a request it can serve and the one that was meant: one
\* system message in front, the client's conversation whole, the chosen thinking.
ServableRequest == OneLeadingSystem /\ ConversationKept /\ ThinkingReaches

\* The authenticated key, and nothing the client writes, decides what a request is logged
\* as, what it has to say and what it may carry.
KeyDecides == Attributed /\ BenchmarksSayWhat /\ CIRequestPinned

\* Every request comes to an answer and leaves one log line per attempt, a refused one
\* a single line.
EveryAttemptIsLogged ==
    <>[](at = "done" /\ {r.a.hop : r \in records} = IF hop = 0 THEN {0} ELSE 1..hop)

=============================================================================
