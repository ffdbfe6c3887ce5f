--------------------------- MODULE MCRouterRequest ---------------------------
(* A small instance of RouterRequest: conversations of every shape, CI requests *)
(* with every mix of fields, untrusted and benchmark keys. *)
EXTENDS RouterRequest

T(p) == TextContent(<<p>>)
Plain(p) == Block(<<p>>)
Cached(p) == [Plain(p) EXCEPT !.cached = TRUE]
Image == [text |-> <<>>, kind |-> "other", cached |-> FALSE]
Say(r, c) == [role |-> r, content |-> c]
Sys(c) == Say("system", c)
Dev(c) == Say("developer", c)
User(c) == Say("user", c)

Empty == TextContent(<<>>)
Talk == <<User(T("u1")), Say("assistant", T("u2"))>>
Conversations ==
    {Talk,
     <<Sys(T("s1"))>> \o Talk,
     <<Dev(T("s1")), Sys(T("s2"))>> \o Talk,
     <<User(T("u1")), Sys(T("s1")), User(T("u2"))>>,
     <<Sys(BlockContent(<<Cached("s1"), Plain("s2")>>)), User(T("u1")), Dev(T("s3")), User(T("u2"))>>,
     <<Sys(BlockContent(<<Plain("s1"), Block(<<>>), Image>>)), Dev(BlockContent(<<Cached("s2"), Block(<<>>)>>))>> \o Talk,
     <<User(T("u1")), Sys(Empty)>>,
     <<User(BlockContent(<<Image, Plain("u1")>>))>>,
     <<>>}
Tops == {<<>>, <<T("t1")>>, <<BlockContent(<<Cached("t1"), Plain("t2")>>)>>}

Live == [alias |-> "any", untrusted |-> FALSE, route_local |-> "no", public |-> TRUE,
        defaults |-> [client |-> "any", runner |-> "any", purpose |-> "live"], required |-> {}]
CIKey == [Live EXCEPT !.alias = "github-actions", !.defaults = <<>>, !.public = FALSE]
Untrusted(l) == [Live EXCEPT !.alias = "guest", !.untrusted = TRUE, !.route_local = l]
Benchmark(required) ==
    [Live EXCEPT !.alias = "bench", !.required = required,
                !.defaults = [client |-> "bench", runner |-> "bench", purpose |-> "benchmark", agent |-> "bench"]]

NoClaim == [c \in Carriers |-> <<>>]
Meta(top, carriers) == [top |-> top, carriers |-> carriers, tags |-> {}, inherited |-> {}, asked |-> {}]
\* What LiteLLM makes of a client that claims every attribute in its metadata.
Claim == [runner |-> "claimed", agent |-> "claimed", privacy_class |-> "claimed", key_alias |-> "claimed",
          model |-> "claimed", run_id |-> "run"]
Claimed == [Meta(Claim, [c \in Carriers |-> Claim]) EXCEPT !.tags = {"asked", "policy"}, !.inherited = {"policy"}, !.asked = {"asked"}]

Data == [model |-> "m", top |-> <<>>, turns |-> Talk, plain |-> <<>>, headers |-> {}, tools |-> {},
         options |-> {}, extra |-> NoExtra, template |-> "absent", client |-> {}, meta |-> Meta(<<>>, NoClaim)]
Request(key, family, d, body) ==
    [key |-> key, family |-> family, model |-> d.model, snapshot |-> TRUE, body |-> body,
     credential_fields |-> {}, data |-> d]

Chats == {Request(Live, f, [Data EXCEPT !.turns = c, !.top = t], {}) :
            f \in Families, c \in Conversations, t \in Tops}
ConversationRequests == {r \in Chats : r.family = "chat" => r.data.top = <<>>}

Fields == [temperature |-> "client", top_k |-> "client", fallbacks |-> "client", cache |-> "proxy",
           timeout |-> "proxy", api_key |-> "client", drop_params |-> "client"]
CIData == {[Data EXCEPT !.model = m, !.plain = Fields, !.headers = {"anthropic-version", "x-other"},
                        !.tools = {"function", "server"}, !.options = {"include_usage", "other"},
                        !.extra = x, !.template = t, !.client = c,
                        !.meta = IF c = {} THEN Meta(<<>>, NoClaim) ELSE Claimed] :
            m \in {"m", "medium"}, t \in {"absent", "empty", "on"}, c \in {{}, {"user_id", "other"}},
            x \in {NoExtra, [other |-> TRUE, template |-> "absent"], [other |-> TRUE, template |-> "empty"],
                   [other |-> FALSE, template |-> "on"], [other |-> TRUE, template |-> "off"]}}
BodyOf(d) == {"temperature", "top_k", "fallbacks", "cache", "drop_params", "api_key", "stream_options", "tools"}
             \union (IF d.extra # NoExtra THEN {"extra_body"} ELSE {})
             \union (IF d.template # "absent" THEN {"chat_template_kwargs"} ELSE {})
CIRequests == {Request(CIKey, f, d, BodyOf(d)) : f \in Families, d \in CIData}
CredentialRequests ==
    {[Request(CIKey, f, [Data EXCEPT !.plain = [api_key |-> w, headers |-> "proxy"]], {"api_key"}) EXCEPT
            !.credential_fields = lists] :
        f \in Families, w \in {"client", "proxy"}, lists \in {{}, {{}}, {{"api_key"}}, {{"headers", "other"}}}}
UnservedRequests ==
    {Request(CIKey, "embedding", Data, {}), [Request(CIKey, "chat", Data, {}) EXCEPT !.snapshot = FALSE],
     Request(CIKey, "chat", [Data EXCEPT !.model = "m,medium"], {})}

UntrustedRequests ==
    {Request(Untrusted(l), f, [Data EXCEPT !.turns = c, !.tools = t, !.top = IF f = "chat" THEN <<>> ELSE <<T("t1")>>], {"tools"}) :
        l \in {"no", "only", "odd"}, f \in Families, c \in Conversations, t \in {{}, {"function"}}}

\* Text where the classifier does not look.
UnscannedRequests ==
    {Request(Untrusted(l), f, [Data EXCEPT !.plain = p, !.extra = x, !.client = c], {"user", "response_format", "extra_body"}) :
        l \in {"no", "only"}, f \in Families, p \in {<<>>, [user |-> "proxy", response_format |-> "client"]},
        x \in {NoExtra, [other |-> TRUE, template |-> "absent"]}, c \in {{}, {"user_id"}}}

BenchmarkRequests ==
    {Request(Benchmark(required), f, [Data EXCEPT !.meta = m], {}) :
        required \in {{}, {"run_id"}}, f \in Families, m \in {Meta(<<>>, NoClaim), Claimed}}

SmallRequests == ConversationRequests \union CIRequests \union CredentialRequests \union UnservedRequests
                 \union UntrustedRequests \union UnscannedRequests \union BenchmarkRequests
=============================================================================
