------------------------------ MODULE EffortPin ------------------------------
(***************************************************************************)
(* roles/llm_router/files/callbacks/ci_effort_pin.py as operators on the   *)
(* data of a request, which holds, beside its conversation and metadata:   *)
(*   plain    further fields, each with whose value it is: "client" while  *)
(*            it is the very object of the body snapshot, else "proxy"     *)
(*   headers  header names of provider_specific_header                     *)
(*   tools    the kinds of tools it declares                               *)
(*   options  the keys of stream_options                                   *)
(*   extra    extra_body: Absent, or its other keys and its                *)
(*            chat_template_kwargs                                         *)
(*   template chat_template_kwargs at the top level                        *)
(* A template is "absent", "empty", "on" or "off".  One name stands for    *)
(* every field, header or kind the code treats alike.                      *)
(* A helper that stands just before another one and is used nowhere is a   *)
(* slip of that one, kept to see it caught.                                *)
(***************************************************************************)
EXTENDS TraceContract

Families == {"chat", "responses", "anthropic"}
AllowedFields == [chat |-> {"temperature", "stop", "user"},
                  responses |-> {"temperature", "store", "user"},
                  anthropic |-> {"temperature", "top_k"}]
AlwaysKept == {"litellm_session_id", "drop_params"}
HeaderCarriers == {"timeout", "num_retries"}
Credentials == {"api_key", "headers"}
ProviderHeaders == {"anthropic-version"}
ClientToolTypes == {"function", "untyped"}
NoExtra == [other |-> FALSE, template |-> "absent"]

\* Tags that no policy of the key put there are routing hints of the caller.
PinTags(meta) == [meta EXCEPT !.tags = @ \intersect meta.inherited, !.asked = {}]

\* A chat's metadata is the proxy's own: what the caller put there goes.  On the other
\* routes the proxy keeps its own beside the caller's.
PinMetadata(data, family) ==
    LET requester == data.meta.carriers["requester_metadata"]
        repeated == {a \in DOMAIN requester : ValueOf(data.meta.top, a) = requester[a]}
        own == [data.meta EXCEPT !.top = Only(@, DOMAIN @ \ repeated)]
    IN  IF family = "chat" THEN
            [data EXCEPT !.meta = PinTags(IF data.client = {} THEN data.meta ELSE own)]
        ELSE
            [data EXCEPT !.client = IF family = "anthropic" THEN @ \cap {"user_id"} ELSE {},
                         !.meta = PinTags(@)]

SanitizeExtra(extra) ==
    IF extra.template \in {"on", "off"} THEN [other |-> FALSE, template |-> extra.template] ELSE NoExtra
SanitizeClientFields(data, body, family) ==
    [data EXCEPT !.extra = IF "extra_body" \in body THEN SanitizeExtra(@) ELSE @,
                 !.options = IF "stream_options" \in body /\ family = "chat"
                             THEN @ \cap {"include_usage"} ELSE @,
                 !.tools = IF "tools" \in body THEN @ \cap ClientToolTypes ELSE @]

\* The credentials the request's list names, all of them when it has no list.
CredentialFields(lists) == IF lists = {} THEN Credentials ELSE Credentials \cap UNION lists
SanitizeTransportFields(data, lists) ==
    [data EXCEPT !.plain = Only(@, DOMAIN @ \ CredentialFields(lists)),
                 !.headers = @ \cap ProviderHeaders]
DropHeaderCarriers(data) == [data EXCEPT !.plain = Only(@, DOMAIN @ \ HeaderCarriers)]

\* The slip: a field goes by its name, whoever put its value there.
UnservedByName(data, body, family) ==
    {f \in DOMAIN data.plain \intersect body : f \notin AllowedFields[family] \union AlwaysKept}
\* The fields a caller may not send, while they are still what the caller sent.
Unserved(data, body, family) ==
    {f \in DOMAIN data.plain \intersect body :
        f \notin AllowedFields[family] \union AlwaysKept /\ data.plain[f] = "client"}
PinRequest(data, body, family) ==
    LET served == [data EXCEPT !.plain = Only(@, DOMAIN @ \ Unserved(data, body, family)),
                               !.template = IF "chat_template_kwargs" \in body THEN "absent" ELSE @,
                               !.options = IF "stream_options" \in body /\ family # "chat" THEN {} ELSE @]
    IN  PinMetadata(SanitizeClientFields(served, body, family), family)

\* The slip: the default goes into extra_body.
ThinkingOffInExtra(data) ==
    IF data.extra.template = "absent" THEN [data EXCEPT !.extra = [@ EXCEPT !.template = "off"]] ELSE data
ThinkingOff(data) ==
    IF data.extra.template # "absent"
    THEN IF data.extra.template = "empty" THEN [data EXCEPT !.extra.template = "off"] ELSE data
    ELSE IF data.template \in {"absent", "empty"} THEN [data EXCEPT !.template = "off"] ELSE data
DefaultThinkingOff(data, family, thinkingOffModels) ==
    IF family = "chat" /\ data.model \in thinkingOffModels THEN ThinkingOff(data) ELSE data

=============================================================================
