----------------------------- MODULE SystemMerge -----------------------------
(***************************************************************************)
(* roles/llm_router/files/callbacks/system_merge.py as operators on lists  *)
(* of messages.  A text is the sequence of the pieces it was joined from.  *)
(* A content is one text (form "text") or a list of blocks, of which some  *)
(* hold no text (kind "other") and some carry cache_control.               *)
(* A helper that stands just before another one and is used nowhere is a   *)
(* slip of that one, kept to see it caught.                                *)
(***************************************************************************)
EXTENDS Naturals, Sequences, SequencesExt

Block(t) == [text |-> t, kind |-> "text", cached |-> FALSE]
TextContent(t) == [form |-> "text", parts |-> <<Block(t)>>]
BlockContent(bs) == [form |-> "blocks", parts |-> bs]

BlockValues == [text : Seq(STRING), kind : {"text", "other"}, cached : BOOLEAN]
ContentValues ==
    {c \in [form : {"text", "blocks"}, parts : Seq(BlockValues)] :
        c.form = "text" => c = TextContent(c.parts[1].text)}
Roles == {"system", "developer", "user", "assistant", "tool"}
Messages == [role : Roles, content : ContentValues]

\* What g makes of the members of s, joined in order.
Gathered(g, s) == FlattenSeq([i \in DOMAIN s |-> g[s[i]]])

Systemish(m) == m.role \in {"system", "developer"}
IfSystemish == [m \in Messages |-> IF Systemish(m) THEN <<m>> ELSE <<>>]
IfOther == [m \in Messages |-> IF Systemish(m) THEN <<>> ELSE <<m>>]
SystemMessages[ms \in Seq(Messages)] == Gathered(IfSystemish, ms)
OtherMessages[ms \in Seq(Messages)] == Gathered(IfOther, ms)
Contents(ms) == [i \in DOMAIN ms |-> ms[i].content]

\* The blocks a content becomes: a list keeps its own, but for empty text blocks.
Stays(b) == b.kind = "other" \/ b.text # <<>>
BlockText[b \in BlockValues] == IF b.kind = "text" THEN b.text ELSE <<>>
IfStays == [b \in BlockValues |-> IF Stays(b) THEN <<b>> ELSE <<>>]
AsText[c \in ContentValues] == Gathered(BlockText, c.parts)
AsBlocks[c \in ContentValues] == Gathered(IfStays, c.parts)

HasCacheControl(cs) ==
    \E i \in DOMAIN cs : cs[i].form = "blocks" /\ \E j \in DOMAIN cs[i].parts : cs[i].parts[j].cached
JoinedText[cs \in Seq(ContentValues)] == Gathered(AsText, cs)
JoinedBlocks[cs \in Seq(ContentValues)] == Gathered(AsBlocks, cs)
\* The slip: blocks are joined to one text also when some of them are cached.
MergeToText(cs) == TextContent(JoinedText[cs])
MergeContents(cs) ==
    IF HasCacheControl(cs) THEN BlockContent(JoinedBlocks[cs]) ELSE TextContent(JoinedText[cs])
IsEmptyContent(c) == IF c.form = "blocks" THEN c.parts = <<>> ELSE AsText[c] = <<>>

\* One leading system message, or the list as it is.
MergeSystemMessages(ms) ==
    LET systemish == SystemMessages[ms]
    IN  IF Len(systemish) > 1 \/ (Len(systemish) = 1 /\ ~Systemish(ms[1]))
        THEN <<[role |-> "system", content |-> MergeContents(Contents(systemish))]>> \o OtherMessages[ms]
        ELSE ms

\* The system messages join the top-level field, behind what it held.
MergeAnthropicSystem(call) ==
    LET systemish == SystemMessages[call.turns]
        merged == MergeContents(call.top \o Contents(systemish))
    IN  IF systemish = <<>> THEN call
        ELSE [call EXCEPT !.top = IF IsEmptyContent(merged) THEN <<>> ELSE <<merged>>,
                          !.turns = OtherMessages[call.turns]]

=============================================================================
