------------------------ MODULE RouterRequestProofs ------------------------
(***************************************************************************)
(* What RouterRequest promises, for every set of well-formed requests,     *)
(* every chain of deployments and every configured list.                   *)
(***************************************************************************)
EXTENDS RouterRequest, SystemMergeProofs, FiniteSetTheorems

(***************************************************************************)
(* Blocks and pieces of contents                                           *)
(***************************************************************************)
LEMMA BlocksConcat ==
    ASSUME NEW a \in Seq(ContentValues), NEW b \in Seq(ContentValues)
    PROVE  Blocks(a \o b) = Blocks(a) \cup Blocks(b)
<1>1. ToSet(a \o b) = ToSet(a) \cup ToSet(b)
  BY ToSetConcat
<1>2. QED
  BY <1>1 DEF Blocks

LEMMA BlocksOne ==
    /\ Blocks(<<>>) = {}
    /\ \A c : Blocks(<<c>>) = ToSet(c.parts)
<1>1. ToSet(<<>>) = {} /\ \A c : ToSet(<<c>>) = {c}
  BY DEF ToSet
<1>2. Blocks(<<>>) = {}
  BY <1>1 DEF Blocks
<1>3. \A c : Blocks(<<c>>) = ToSet(c.parts)
  BY <1>1 DEF Blocks
<1>4. QED
  BY <1>2, <1>3

LEMMA BlocksIn ==
    ASSUME NEW cs, NEW b
    PROVE  b \in Blocks(cs) <=> \E c \in ToSet(cs) : b \in ToSet(c.parts)
  BY DEF Blocks

LEMMA PiecesIn ==
    ASSUME NEW cs, NEW p
    PROVE  p \in Pieces(cs) <=> \E b \in Blocks(cs) : p \in ToSet(b.text)
  BY DEF Pieces

\* What a merge makes of contents says no more than they said, and what is cached stays.
LEMMA MergedContents ==
    ASSUME NEW cs \in Seq(ContentValues), NEW merged, merged = MergeContents(cs)
    PROVE  /\ CachedBlocks(<<merged>>) = CachedBlocks(cs)
           /\ Pieces(<<merged>>) \subseteq Pieces(cs)
           /\ (\A b \in Blocks(cs) : b.kind = "text") => \A b \in Blocks(<<merged>>) : b.kind = "text"
           /\ IsEmptyContent(merged) => JoinedText[cs] = <<>> /\ CachedBlocks(cs) = {}
<1>1. Blocks(<<merged>>) = ToSet(merged.parts)
  BY BlocksOne
<1>2. merged \in ContentValues /\ AsText[merged] = JoinedText[cs]
  BY MergedText
<1>3. CASE HasCacheControl(cs)
  <2>1. \A b : b \in ToSet(merged.parts) <=> (\E c \in ToSet(cs) : b \in ToSet(c.parts)) /\ Stays(b)
    BY <1>3, MergedBlocks
  <2>2. \A b : b \in Blocks(<<merged>>) <=> b \in Blocks(cs) /\ Stays(b)
    BY <1>1, <2>1, BlocksIn
  <2>3. CachedBlocks(<<merged>>) = CachedBlocks(cs)
    BY <2>2 DEF CachedBlocks
  <2>4. Pieces(<<merged>>) \subseteq Pieces(cs)
    BY <2>2 DEF Pieces
  <2>5. ASSUME IsEmptyContent(merged) PROVE JoinedText[cs] = <<>> /\ CachedBlocks(cs) = {}
    <3>1. merged.form = "blocks"
      BY <1>3 DEF MergeContents, BlockContent
    <3>2. merged.parts = <<>>
      BY <2>5, <3>1 DEF IsEmptyContent
    <3>3. ToSet(<<>>) = {}
      BY DEF ToSet
    <3>4. CachedBlocks(<<merged>>) = {}
      BY <1>1, <3>2, <3>3 DEF CachedBlocks
    <3>5. AsText[merged] = <<>>
      BY <1>2, <3>2, ContentMakers, GatheredEmpty
    <3>6. QED
      BY <1>2, <2>3, <3>4, <3>5
  <2>6. QED
    BY <2>2, <2>3, <2>4, <2>5
<1>4. CASE ~HasCacheControl(cs)
  <2>1. ToSet(merged.parts) = {Block(JoinedText[cs])}
    BY <1>4, MergedBlocks
  <2>2. \A b \in Blocks(cs) : ~b.cached
    <3>1. \A c \in ToSet(cs) : \A b \in ToSet(c.parts) : ~b.cached
      BY <1>4, MergedBlocks
    <3>2. QED
      BY <3>1, BlocksIn
  <2>3. \A b \in Blocks(<<merged>>) : b = Block(JoinedText[cs])
    BY <1>1, <2>1
  <2>4. CachedBlocks(<<merged>>) = {} /\ CachedBlocks(cs) = {}
    BY <2>2, <2>3 DEF CachedBlocks, Block
  <2>5. Pieces(<<merged>>) \subseteq Pieces(cs)
    <3> SUFFICES ASSUME NEW p \in Pieces(<<merged>>) PROVE p \in Pieces(cs)
      OBVIOUS
    <3>1. p \in ToSet(JoinedText[cs])
      BY <2>3, PiecesIn DEF Block
    <3>2. PICK c \in ToSet(cs) : \E b \in ToSet(c.parts) : p \in ToSet(b.text)
      BY <3>1, JoinedPieces
    <3>3. QED
      BY <3>2, BlocksIn, PiecesIn
  <2>6. \A b \in Blocks(<<merged>>) : b.kind = "text"
    BY <2>3 DEF Block
  <2>7. ASSUME IsEmptyContent(merged) PROVE JoinedText[cs] = <<>>
    <3>1. merged.form = "text"
      BY <1>4 DEF MergeContents, TextContent
    <3>2. QED
      BY <1>2, <2>7, <3>1 DEF IsEmptyContent
  <2>8. QED
    BY <2>4, <2>5, <2>6, <2>7
<1>5. QED
  BY <1>3, <1>4

LEMMA CachedConcat ==
    ASSUME NEW a \in Seq(ContentValues), NEW b \in Seq(ContentValues)
    PROVE  CachedBlocks(a \o b) = CachedBlocks(a) \cup CachedBlocks(b)
  BY BlocksConcat DEF CachedBlocks

LEMMA PiecesConcat ==
    ASSUME NEW a \in Seq(ContentValues), NEW b \in Seq(ContentValues)
    PROVE  Pieces(a \o b) = Pieces(a) \cup Pieces(b)
  BY BlocksConcat DEF Pieces

\* The blocks of messages are the blocks of each of them.
LEMMA BlocksOfMessages ==
    ASSUME NEW ms \in Seq(Messages), NEW b
    PROVE  b \in Blocks(Contents(ms)) <=> \E m \in ToSet(ms) : b \in ToSet(m.content.parts)
<1>1. ToSet(Contents(ms)) = {m.content : m \in ToSet(ms)}
  BY ContentsOf
<1>2. QED
  BY <1>1, BlocksIn

(***************************************************************************)
(* What each rearrangement of a request keeps                              *)
(***************************************************************************)
Calls == {c \in [top : Seq(ContentValues), turns : Seq(Messages)] : Len(c.top) =< 1}
Shape(c) == c.top \in Seq(ContentValues) /\ Len(c.top) =< 1 /\ c.turns \in Seq(Messages)
AllBlocks(c) == Blocks(c.top) \cup Blocks(Contents(c.turns))
Said(c) == Pieces(c.top) \cup Pieces(Contents(c.turns))
SaysNoMore(new, old) ==
    /\ Said(new) \subseteq Said(old)
    /\ (\A b \in AllBlocks(old) : b.kind = "text") => \A b \in AllBlocks(new) : b.kind = "text"
SystemFirst(ms) == Len(SystemMessages[ms]) =< 1 /\ (SystemMessages[ms] # <<>> => Systemish(ms[1]))
Keeps(new, old) == Shape(new) /\ SameConversation(new, old) /\ SaysNoMore(new, old)

LEMMA KeepsItself == ASSUME NEW c, Shape(c) PROVE Keeps(c, c)
  BY DEF Keeps, SameConversation, SaysNoMore

LEMMA KeepsOn == ASSUME NEW a, NEW b, NEW c, Keeps(a, b), Keeps(b, c) PROVE Keeps(a, c)
  BY DEF Keeps, SameConversation, SaysNoMore

\* Only the top and the turns matter.
LEMMA KeepsParts ==
    ASSUME NEW a, NEW b, NEW c, NEW d, Keeps(a, b),
           c.top = a.top, c.turns = a.turns, d.top = b.top, d.turns = b.turns
    PROVE  Keeps(c, d)
  BY DEF Keeps, Shape, SameConversation, SaysNoMore, TalkOf, SentSystem, SystemOf, Said, AllBlocks

LEMMA SentSystemType ==
    ASSUME NEW c, Shape(c)
    PROVE  /\ SystemMessages[c.turns] \in Seq(Messages)
           /\ Contents(SystemMessages[c.turns]) \in Seq(ContentValues)
           /\ Contents(c.turns) \in Seq(ContentValues)
           /\ SentSystem(c) = c.top \o Contents(SystemMessages[c.turns])
           /\ SentSystem(c) \in Seq(ContentValues)
<1>1. SystemMessages[c.turns] \in Seq(Messages) /\ c.turns \in Seq(Messages)
  BY Parts DEF Shape
<1>2. Contents(SystemMessages[c.turns]) \in Seq(ContentValues) /\ Contents(c.turns) \in Seq(ContentValues)
  BY <1>1, ContentsOf
<1>3. SentSystem(c) = c.top \o Contents(SystemMessages[c.turns])
  BY DEF SentSystem, SystemOf
<1>4. c.top \o Contents(SystemMessages[c.turns]) \in Seq(ContentValues)
  BY <1>2 DEF Shape
<1>5. QED
  BY <1>1, <1>2, <1>3, <1>4

\* What the system messages say is said, and so is the rest.
LEMMA SentIsSaid ==
    ASSUME NEW c, Shape(c)
    PROVE  /\ Blocks(SentSystem(c)) \subseteq AllBlocks(c)
           /\ Blocks(Contents(OtherMessages[c.turns])) \subseteq AllBlocks(c)
<1> DEFINE sys == SystemMessages[c.turns]
           rest == OtherMessages[c.turns]
<1>1. c.turns \in Seq(Messages) /\ sys \in Seq(Messages) /\ rest \in Seq(Messages)
  BY Parts DEF Shape
<1>2. ToSet(sys) \subseteq ToSet(c.turns) /\ ToSet(rest) \subseteq ToSet(c.turns)
  BY <1>1, PartsMembers
<1>3. Blocks(SentSystem(c)) = Blocks(c.top) \cup Blocks(Contents(sys))
  BY SentSystemType, BlocksConcat DEF Shape
<1> HIDE DEF sys, rest
<1>4. Blocks(Contents(sys)) \subseteq Blocks(Contents(c.turns))
  BY <1>1, <1>2, BlocksOfMessages
<1>5. Blocks(Contents(rest)) \subseteq Blocks(Contents(c.turns))
  BY <1>1, <1>2, BlocksOfMessages
<1>6. QED
  BY <1>3, <1>4, <1>5 DEF AllBlocks, sys, rest

LEMMA SaidIn ==
    ASSUME NEW c, NEW p
    PROVE  p \in Said(c) <=> \E b \in AllBlocks(c) : p \in ToSet(b.text)
  BY PiecesIn DEF Said, AllBlocks

\* The blocks of a new request that come from the old one or from a merge of some of its
\* contents say nothing new.
LEMMA NothingNew ==
    ASSUME NEW old, NEW new, NEW cs \in Seq(ContentValues), Blocks(cs) \subseteq AllBlocks(old),
           AllBlocks(new) \subseteq AllBlocks(old) \cup Blocks(<<MergeContents(cs)>>)
    PROVE  SaysNoMore(new, old)
<1> DEFINE merged == MergeContents(cs)
<1>1. /\ Pieces(<<merged>>) \subseteq Pieces(cs)
      /\ (\A b \in Blocks(cs) : b.kind = "text") => \A b \in Blocks(<<merged>>) : b.kind = "text"
  BY MergedContents
<1>2. AllBlocks(new) \subseteq AllBlocks(old) \cup Blocks(<<merged>>)
  OBVIOUS
<1> HIDE DEF merged
<1>3. ASSUME NEW p \in Said(new) PROVE p \in Said(old)
  <2>1. PICK b \in AllBlocks(new) : p \in ToSet(b.text)
    BY <1>3, SaidIn
  <2>2. CASE b \in AllBlocks(old)
    BY <2>1, <2>2, SaidIn
  <2>3. CASE b \in Blocks(<<merged>>)
    <3>1. p \in Pieces(cs)
      BY <1>1, <2>1, <2>3, PiecesIn
    <3>2. PICK d \in Blocks(cs) : p \in ToSet(d.text)
      BY <3>1, PiecesIn
    <3>3. QED
      BY <3>2, SaidIn
  <2>4. QED
    BY <1>2, <2>1, <2>2, <2>3
<1>4. ASSUME \A b \in AllBlocks(old) : b.kind = "text" PROVE \A b \in AllBlocks(new) : b.kind = "text"
  BY <1>1, <1>2, <1>4
<1>5. QED
  BY <1>3, <1>4 DEF SaysNoMore

LEMMA SameSystem ==
    ASSUME NEW new, NEW old, TalkOf(new) = TalkOf(old),
           JoinedText[SentSystem(new)] = JoinedText[SentSystem(old)],
           CachedBlocks(SentSystem(new)) = CachedBlocks(SentSystem(old))
    PROVE  SameConversation(new, old)
  BY DEF SameConversation

LEMMA SameEnd ==
    ASSUME NEW top \in Seq(ContentValues), NEW one \in Seq(ContentValues), NEW cs \in Seq(ContentValues),
           JoinedText[one] = JoinedText[cs], CachedBlocks(one) = CachedBlocks(cs)
    PROVE  /\ JoinedText[top \o one] = JoinedText[top \o cs]
           /\ CachedBlocks(top \o one) = CachedBlocks(top \o cs)
<1>1. JoinedText[top \o one] = JoinedText[top] \o JoinedText[one]
  BY JoinedConcat
<1>2. JoinedText[top \o cs] = JoinedText[top] \o JoinedText[cs]
  BY JoinedConcat
<1>3. CachedBlocks(top \o one) = CachedBlocks(top) \cup CachedBlocks(one)
  BY CachedConcat
<1>4. CachedBlocks(top \o cs) = CachedBlocks(top) \cup CachedBlocks(cs)
  BY CachedConcat
<1>5. QED
  BY <1>1, <1>2, <1>3, <1>4

LEMMA OneAtMost ==
    ASSUME NEW T, NEW s \in Seq(T), Len(s) =< 1, s # <<>>
    PROVE  Len(s) = 1 /\ s[1] \in T /\ s = <<s[1]>>
<1> DEFINE n == Len(s)
<1>1. n \in Nat /\ n # 0 /\ n =< 1
  BY LenSome
<1> HIDE DEF n
<1>2. n = 1
  BY <1>1
<1>3. Len(s) = 1
  BY <1>2 DEF n
<1>4. QED
  BY <1>3

LEMMA NoneOrOne == ASSUME NEW n, n = 0 \/ n = 1 PROVE n =< 1
  OBVIOUS

LEMMA NoContents ==
    /\ Contents(<<>>) = <<>> /\ Blocks(<<>>) = {} /\ CachedBlocks(<<>>) = {}
    /\ JoinedText[<<>>] = <<>> /\ Len(<<>>) = 0 /\ <<>> \in Seq(ContentValues)
<1>1. Contents(<<>>) = <<>>
  BY DEF Contents
<1>2. Blocks(<<>>) = {}
  BY BlocksOne
<1>3. CachedBlocks(<<>>) = {}
  BY <1>2 DEF CachedBlocks
<1>4. JoinedText[<<>>] = <<>>
  BY JoinedOne
<1>5. Len(<<>>) = 0 /\ <<>> \in Seq(ContentValues)
  OBVIOUS
<1>6. QED
  BY <1>1, <1>2, <1>3, <1>4, <1>5

LEMMA MergeKeeps ==
    ASSUME NEW old, Shape(old), NEW new, new.top = old.top, new.turns = MergeSystemMessages(old.turns)
    PROVE  Keeps(new, old) /\ SystemFirst(new.turns)
<1> DEFINE cs == Contents(SystemMessages[old.turns])
           merged == MergeContents(cs)
           lead == [role |-> "system", content |-> merged]
           rest == OtherMessages[old.turns]
<1>1. old.turns \in Seq(Messages) /\ old.top \in Seq(ContentValues) /\ Len(old.top) =< 1
  BY DEF Shape
<1>2. /\ new.turns \in Seq(Messages) /\ OtherMessages[new.turns] = rest
      /\ SystemFirst(new.turns)
      /\ \/ new.turns = old.turns
         \/ Contents(SystemMessages[new.turns]) = <<merged>> /\ ToSet(new.turns) = {lead} \cup ToSet(rest)
  BY <1>1, MergedMessages DEF SystemFirst
<1>3. CASE new.turns = old.turns
  <2>1. Keeps(old, old)
    BY KeepsItself
  <2>2. Keeps(new, old)
    BY <1>3, <2>1, KeepsParts
  <2>3. QED
    BY <1>2, <2>2
<1>4. CASE Contents(SystemMessages[new.turns]) = <<merged>> /\ ToSet(new.turns) = {lead} \cup ToSet(rest)
  <2>1. cs \in Seq(ContentValues) /\ SentSystem(old) = old.top \o cs
    BY SentSystemType
  <2>2. merged \in ContentValues /\ AsText[merged] = JoinedText[cs] /\ CachedBlocks(<<merged>>) = CachedBlocks(cs)
    <3> HIDE DEF cs
    <3> QED
      BY <2>1, MergedText, MergedContents
  <2>3. Blocks(cs) \subseteq AllBlocks(old)
    <3>1. Blocks(SentSystem(old)) \subseteq AllBlocks(old)
      BY SentIsSaid
    <3> HIDE DEF cs
    <3>2. Blocks(old.top \o cs) = Blocks(old.top) \cup Blocks(cs)
      BY <1>1, <2>1, BlocksConcat
    <3>3. QED
      BY <2>1, <3>1, <3>2
  <2>4. AllBlocks(new) \subseteq AllBlocks(old) \cup Blocks(<<merged>>)
    <3> SUFFICES ASSUME NEW b \in AllBlocks(new), b \notin Blocks(old.top) PROVE b \in AllBlocks(old) \cup Blocks(<<merged>>)
      BY DEF AllBlocks
    <3>1. b \in Blocks(Contents(new.turns))
      BY DEF AllBlocks
    <3>2. PICK m \in ToSet(new.turns) : b \in ToSet(m.content.parts)
      BY <1>2, <3>1, BlocksOfMessages
    <3>3. CASE m = lead
      BY <3>2, <3>3, BlocksOne
    <3>4. CASE m \in ToSet(rest)
      <4>1. b \in Blocks(Contents(rest))
        BY <1>1, <3>2, <3>4, Parts, BlocksOfMessages
      <4>2. QED
        BY <4>1, SentIsSaid
    <3>5. QED
      BY <1>4, <3>2, <3>3, <3>4
  <2>5. SentSystem(new) = old.top \o <<merged>>
    BY <1>4 DEF SentSystem, SystemOf
  <2>6. TalkOf(new) = TalkOf(old)
    BY <1>2 DEF TalkOf
  <2> HIDE DEF cs, lead, rest
  <2>7. SaysNoMore(new, old)
    BY <2>1, <2>3, <2>4, NothingNew DEF merged
  <2> HIDE DEF merged
  <2>8. <<merged>> \in Seq(ContentValues) /\ JoinedText[<<merged>>] = JoinedText[cs]
    BY <2>2, JoinedOne
  <2> DEFINE one == <<merged>>
             top == old.top
  <2>9. /\ one \in Seq(ContentValues) /\ top \in Seq(ContentValues) /\ cs \in Seq(ContentValues)
        /\ JoinedText[one] = JoinedText[cs] /\ CachedBlocks(one) = CachedBlocks(cs)
    BY <1>1, <2>1, <2>2, <2>8
  <2> HIDE DEF one, top
  <2>10. JoinedText[top \o one] = JoinedText[top \o cs] /\ CachedBlocks(top \o one) = CachedBlocks(top \o cs)
    BY <2>9, SameEnd
  <2>11. SameConversation(new, old)
    BY <2>1, <2>5, <2>6, <2>10, SameSystem DEF one, top
  <2>12. Shape(new)
    BY <1>1, <1>2 DEF Shape
  <2>13. QED
    BY <1>2, <2>7, <2>11, <2>12 DEF Keeps
<1>5. QED
  BY <1>2, <1>3, <1>4

\* The bridge: what the top said, a leading message says.
LEMMA BridgeKeeps ==
    ASSUME NEW c \in Calls, NEW new, new = Bridge(c)
    PROVE  /\ new \in Calls /\ Keeps(new, c) /\ new.top = <<>>
           /\ c.top = <<>> => new = c
           /\ c.top # <<>> => /\ Systemish(new.turns[1])
                              /\ SystemMessages[c.turns] = <<>> => Len(SystemMessages[new.turns]) =< 1
<1> DEFINE sys == SystemMessages[c.turns]
<1>1. /\ c.turns \in Seq(Messages) /\ c.top \in Seq(ContentValues) /\ Len(c.top) =< 1 /\ Shape(c)
      /\ sys \in Seq(Messages)
  BY Parts DEF Calls, Shape
<1>2. CASE c.top = <<>>
  BY <1>1, <1>2, KeepsItself DEF Bridge
<1>3. CASE c.top # <<>>
  <2> DEFINE said == c.top[1]
             lead == [role |-> "system", content |-> said]
             front == <<lead>>
  <2>1. said \in ContentValues /\ c.top = <<said>>
    <3>1. c.top[1] \in ContentValues /\ c.top = <<c.top[1]>>
      BY <1>1, <1>3, OneAtMost
    <3>2. QED
      BY <3>1
  <2>2. lead \in Messages /\ Systemish(lead) /\ lead.content = said
    BY <2>1, LeadIsMessage
  <2>3. front \in Seq(Messages)
    BY <2>2
  <2>4. new.top = <<>> /\ new.turns = front \o c.turns /\ new \in Calls
    <3>1. c \in [top : Seq(ContentValues), turns : Seq(Messages)]
      BY DEF Calls
    <3>2. new = [c EXCEPT !.top = <<>>, !.turns = front \o c.turns]
      BY <1>3 DEF Bridge
    <3> HIDE DEF front
    <3>3. front \o c.turns \in Seq(Messages) /\ <<>> \in Seq(ContentValues)
      BY <1>1, <2>3
    <3>4. new.top = <<>> /\ new.turns = front \o c.turns
          /\ new \in [top : Seq(ContentValues), turns : Seq(Messages)]
      BY <3>1, <3>2, <3>3
    <3>5. QED
      BY <3>4 DEF Calls
  <2>5. SystemMessages[front] = <<lead>> /\ OtherMessages[front] = <<>>
    BY <2>2, Parts
  <2>6. Contents(front \o sys) = <<said>> \o Contents(sys) /\ Contents(front \o c.turns) = <<said>> \o Contents(c.turns)
    BY <1>1, <2>2, ContentsLead
  <2>7. new.turns[1] = lead
    BY <1>1, <2>2, <2>4
  <2> HIDE DEF said, lead, front
  <2>8. SystemMessages[front \o c.turns] = front \o sys /\ OtherMessages[front \o c.turns] = OtherMessages[c.turns]
    <3>1. SystemMessages[front \o c.turns] = SystemMessages[front] \o sys
      BY <1>1, <2>3, Parts
    <3>2. OtherMessages[front \o c.turns] = OtherMessages[front] \o OtherMessages[c.turns]
      BY <1>1, <2>3, Parts
    <3>3. OtherMessages[c.turns] \in Seq(Messages)
      BY <1>1, Parts
    <3>4. QED
      BY <2>5, <3>1, <3>2, <3>3 DEF front
  <2> HIDE DEF sys
  <2>9. TalkOf(new) = TalkOf(c)
    BY <2>4, <2>8 DEF TalkOf
  <2>10. Contents(sys) \in Seq(ContentValues) /\ Contents(c.turns) \in Seq(ContentValues)
         /\ <<said>> \in Seq(ContentValues) /\ SentSystem(c) = c.top \o Contents(sys)
    BY <1>1, <2>1, ContentsOf DEF SentSystem, SystemOf, sys
  <2>11. SentSystem(new) = SentSystem(c)
    <3>1. SentSystem(new) = <<>> \o Contents(front \o sys)
      BY <2>4, <2>8 DEF SentSystem, SystemOf
    <3>2. <<said>> \o Contents(sys) \in Seq(ContentValues)
      BY <2>10
    <3>3. QED
      BY <2>1, <2>6, <2>10, <3>1, <3>2
  <2>12. AllBlocks(new) = AllBlocks(c)
    <3>1. Blocks(<<said>> \o Contents(c.turns)) = Blocks(<<said>>) \cup Blocks(Contents(c.turns))
      BY <2>10, BlocksConcat
    <3>2. QED
      BY <2>1, <2>4, <2>6, <3>1, BlocksOne DEF AllBlocks
  <2>13. Said(new) = Said(c)
    <3>1. \A p : p \in Said(new) <=> p \in Said(c)
      BY <2>12, SaidIn
    <3>2. QED
      BY <3>1
  <2>14. Keeps(new, c)
    <3>1. SameConversation(new, c)
      BY <2>9, <2>11, SameSystem
    <3>2. SaysNoMore(new, c)
      BY <2>12, <2>13 DEF SaysNoMore
    <3>3. Shape(new)
      BY <2>4 DEF Shape, Calls
    <3>4. QED
      BY <3>1, <3>2, <3>3 DEF Keeps
  <2>15. SystemMessages[c.turns] = <<>> => Len(SystemMessages[new.turns]) =< 1
    <3> SUFFICES ASSUME sys = <<>> PROVE Len(front \o sys) =< 1
      BY <2>4, <2>8 DEF sys
    <3>1. front \o <<>> = front
      BY <2>3
    <3>2. Len(front) = 1
      BY DEF front
    <3>3. front \o sys = front
      BY <3>1
    <3>4. Len(front \o sys) = 1
      BY <3>2, <3>3
    <3>5. QED
      BY <3>4, NoneOrOne
  <2>16. QED
    BY <1>3, <2>2, <2>4, <2>7, <2>14, <2>15
<1>4. QED
  BY <1>2, <1>3

\* The Anthropic merge: the system text moves to the top, and no system message is left.
LEMMA AnthropicKeeps ==
    ASSUME NEW c \in Calls, NEW new, new = MergeAnthropicSystem(c)
    PROVE  new \in Calls /\ Keeps(new, c) /\ SystemMessages[new.turns] = <<>>
<1> DEFINE sys == SystemMessages[c.turns]
           rest == OtherMessages[c.turns]
           cs == c.top \o Contents(sys)
           merged == MergeContents(cs)
           top == IF IsEmptyContent(merged) THEN <<>> ELSE <<merged>>
<1>1. /\ c.turns \in Seq(Messages) /\ c.top \in Seq(ContentValues) /\ Shape(c)
      /\ c \in [top : Seq(ContentValues), turns : Seq(Messages)]
  BY DEF Calls, Shape
<1>2. CASE sys = <<>>
  <2>1. new = c
    BY <1>2 DEF MergeAnthropicSystem
  <2>2. QED
    BY <1>1, <1>2, <2>1, KeepsItself
<1>3. CASE sys # <<>>
  <2>1. new = [c EXCEPT !.top = top, !.turns = rest]
    BY <1>3 DEF MergeAnthropicSystem
  <2>2. rest \in Seq(Messages) /\ SystemMessages[rest] = <<>> /\ OtherMessages[rest] = rest
    BY <1>1, Parts, RestIsRest
  <2>3. cs \in Seq(ContentValues) /\ SentSystem(c) = cs
    BY <1>1, SentSystemType
  <2>4. Blocks(cs) \subseteq AllBlocks(c) /\ Blocks(Contents(rest)) \subseteq AllBlocks(c)
    BY <1>1, <2>3, SentIsSaid
  <2> HIDE DEF sys, rest, cs
  <2>5. merged \in ContentValues /\ AsText[merged] = JoinedText[cs]
    BY <2>3, MergedText
  <2>6. /\ CachedBlocks(<<merged>>) = CachedBlocks(cs)
        /\ IsEmptyContent(merged) => JoinedText[cs] = <<>> /\ CachedBlocks(cs) = {}
    BY <2>3, MergedContents
  <2>7. \/ top = <<>> /\ JoinedText[cs] = <<>> /\ CachedBlocks(cs) = {}
        \/ top = <<merged>>
    BY <2>6
  <2> DEFINE one == <<merged>>
  <2>8. Blocks(one) = Blocks(<<MergeContents(cs)>>)
    OBVIOUS
  <2> HIDE DEF merged
  <2>9. one \in Seq(ContentValues) /\ Len(one) = 1 /\ JoinedText[one] = JoinedText[cs] /\ CachedBlocks(one) = CachedBlocks(cs)
    BY <2>5, <2>6, JoinedOne
  <2>10. \/ top = <<>> /\ JoinedText[cs] = <<>> /\ CachedBlocks(cs) = {}
         \/ top = one
    BY <2>7
  <2> HIDE DEF one, top
  <2>11. /\ Len(top) = 0 \/ Len(top) = 1
         /\ top \in Seq(ContentValues)
         /\ JoinedText[top] = JoinedText[cs] /\ CachedBlocks(top) = CachedBlocks(cs)
         /\ Blocks(top) \subseteq Blocks(one)
    <3>1. ASSUME top = <<>>, JoinedText[cs] = <<>>, CachedBlocks(cs) = {} PROVE <2>11!:
      BY <3>1, NoContents
    <3>2. ASSUME top = one PROVE <2>11!:
      BY <2>9, <3>2
    <3>3. QED
      BY <2>10, <3>1, <3>2
  <2>12. Len(top) =< 1
    BY <2>11, NoneOrOne
  <2>13. new.top = top /\ new.turns = rest /\ new \in Calls
    <3>1. new.top = top /\ new.turns = rest /\ new \in [top : Seq(ContentValues), turns : Seq(Messages)]
      BY <1>1, <2>1, <2>2, <2>11
    <3>2. QED
      BY <2>12, <3>1 DEF Calls
  <2>14. SentSystem(new) = top
    <3>1. SystemMessages[new.turns] = <<>>
      BY <2>2, <2>13
    <3>2. Contents(<<>>) = <<>>
      BY NoContents
    <3>3. top \o <<>> = top
      BY <2>11
    <3>4. QED
      BY <2>13, <3>1, <3>2, <3>3 DEF SentSystem, SystemOf
  <2>15. TalkOf(new) = TalkOf(c)
    BY <2>2, <2>13 DEF TalkOf, rest
  <2>16. SameConversation(new, c)
    BY <2>3, <2>11, <2>14, <2>15, SameSystem
  <2>17. AllBlocks(new) \subseteq AllBlocks(c) \cup Blocks(<<MergeContents(cs)>>)
    BY <2>4, <2>8, <2>11, <2>13 DEF AllBlocks
  <2>18. SaysNoMore(new, c)
    BY <2>3, <2>4, <2>17, NothingNew
  <2>19. Shape(new)
    BY <2>13 DEF Shape, Calls
  <2>20. QED
    BY <2>2, <2>13, <2>16, <2>18, <2>19 DEF Keeps
<1>4. QED
  BY <1>2, <1>3

\* What a deployment is sent keeps what was meant, in the one form a template takes.
LEMMA HookKeeps ==
    ASSUME NEW c \in Calls, NEW new, new = DeploymentHook(c),
           req.family \in {"responses", "anthropic"} \/ c.top = <<>>
    PROVE  Keeps(new, c) /\ new.top = <<>> /\ SystemFirst(new.turns) /\ new \in Calls
<1>1. CASE req.family = "anthropic"
  <2> DEFINE merged == MergeAnthropicSystem(c)
  <2>1. merged \in Calls /\ Keeps(merged, c) /\ SystemMessages[merged.turns] = <<>>
    BY AnthropicKeeps
  <2>2. new = Bridge(merged)
    BY <1>1 DEF DeploymentHook
  <2> HIDE DEF merged
  <2>3. /\ new \in Calls /\ Keeps(new, merged) /\ new.top = <<>>
        /\ merged.top = <<>> => new = merged
        /\ merged.top # <<>> => Systemish(new.turns[1]) /\ Len(SystemMessages[new.turns]) =< 1
    BY <2>1, <2>2, BridgeKeeps
  <2>4. Keeps(new, c)
    BY <2>1, <2>3, KeepsOn
  <2>5. SystemFirst(new.turns)
    <3>1. CASE merged.top = <<>>
      <4>1. SystemMessages[new.turns] = <<>>
        BY <2>1, <2>3, <3>1
      <4>2. Len(<<>>) = 0
        OBVIOUS
      <4>3. Len(SystemMessages[new.turns]) = 0
        BY <4>1, <4>2
      <4>4. QED
        BY <4>1, <4>3 DEF SystemFirst
    <3>2. CASE merged.top # <<>>
      BY <2>3, <3>2 DEF SystemFirst
    <3>3. QED
      BY <3>1, <3>2
  <2>6. QED
    BY <2>3, <2>4, <2>5
<1>2. CASE req.family # "anthropic"
  <2> DEFINE b == IF IsResponses THEN Bridge(c) ELSE c
  <2>1. b \in Calls /\ Keeps(b, c) /\ b.top = <<>>
    <3>1. CASE IsResponses
      <4>1. b = Bridge(c)
        BY <3>1
      <4>2. QED
        BY <4>1, BridgeKeeps
    <3>2. CASE ~IsResponses
      <4>1. b = c /\ c.top = <<>>
        BY <1>2, <3>2 DEF IsResponses
      <4>2. Shape(c)
        BY DEF Calls, Shape
      <4>3. QED
        BY <4>1, <4>2, KeepsItself
    <3>3. QED
      BY <3>1, <3>2
  <2>2. new = [b EXCEPT !.turns = MergeSystemMessages(@)]
    BY <1>2 DEF DeploymentHook
  <2> HIDE DEF b
  <2>3. b \in [top : Seq(ContentValues), turns : Seq(Messages)] /\ Shape(b)
    BY <2>1 DEF Calls, Shape
  <2>4. new.top = b.top /\ new.turns = MergeSystemMessages(b.turns)
    BY <2>2, <2>3
  <2>5. Keeps(new, b) /\ SystemFirst(new.turns)
    BY <2>3, <2>4, MergeKeeps
  <2>6. new \in Calls
    <3>1. new.turns \in Seq(Messages)
      BY <2>5 DEF Keeps, Shape
    <3>2. new = [b EXCEPT !.turns = new.turns]
      BY <2>2, <2>4
    <3>3. new \in [top : Seq(ContentValues), turns : Seq(Messages)]
      BY <2>3, <3>1, <3>2
    <3>4. Len(new.top) =< 1
      BY <2>3, <2>4 DEF Shape
    <3>5. QED
      BY <3>3, <3>4 DEF Calls
  <2>7. QED
    BY <2>1, <2>4, <2>5, <2>6, KeepsOn
<1>3. QED
  BY <1>1, <1>2

(***************************************************************************)
(* What the log line of an attempt says                                    *)
(***************************************************************************)
LEMMA UpdatedAt ==
    ASSUME NEW f, NEW g
    PROVE  /\ DOMAIN Updated(f, g) = DOMAIN f \cup DOMAIN g
           /\ \A a \in DOMAIN g : Updated(f, g)[a] = g[a]
           /\ \A a \in DOMAIN f \ DOMAIN g : Updated(f, g)[a] = f[a]
  BY DEF Updated

\* The contract touches nothing of the metadata but its top and the exporters' copies.
LEMMA TraceStamps ==
    ASSUME NEW meta, DOMAIN meta = MetaFields, NEW key, NEW new, new = ApplyTraceContract(meta, key)
    PROVE  /\ DOMAIN new = MetaFields /\ new.tags = meta.tags /\ new.inherited = meta.inherited
           /\ new.top = TopContract(meta.top, key)
           /\ DOMAIN new.carriers = Carriers
           /\ new.carriers["requester_metadata"] =
                 Updated(meta.carriers["requester_metadata"], Contract(TopContract(meta.top, key), key))
<1> DEFINE top == TopContract(meta.top, key)
           copies == [c \in Carriers |-> ContractOver(meta.carriers[c], Contract(top, key))]
<1>1. new = [meta EXCEPT !.top = top, !.carriers = copies]
  BY DEF ApplyTraceContract
<1>2. /\ copies["requester_metadata"] = Updated(meta.carriers["requester_metadata"], Contract(top, key))
      /\ DOMAIN copies = Carriers
  BY DEF Carriers, ContractOver
<1> HIDE DEF top, copies
<1>3. DOMAIN new = MetaFields /\ new.tags = meta.tags /\ new.inherited = meta.inherited
      /\ new.top = top /\ new.carriers = copies
  BY <1>1 DEF MetaFields
<1>4. QED
  BY <1>2, <1>3 DEF top

\* A line is written from the copies alone.
LEMMA LineFromCopies ==
    ASSUME NEW meta, DOMAIN meta = MetaFields, NEW to, NEW model, NEW status,
           NEW line, line = BuildRecord(ApplyDeploymentContract(meta, to), model, status),
           NEW sent, sent = Updated(meta.carriers["requester_metadata"], [model |-> to])
    PROVE  line = [status |-> status, model |-> Or(ValueOf(sent, "model"), model),
                   key_alias |-> ValueOf(sent, "key_alias"), said |-> Only(sent, RecordFields \ {"model", "key_alias"})]
<1> DEFINE top == Updated(meta.top, [model |-> to])
           copies == [c \in Carriers |-> Updated(meta.carriers[c], [model |-> to])]
           new == ApplyDeploymentContract(meta, to)
<1>1. new = [meta EXCEPT !.top = top, !.carriers = copies]
  BY DEF ApplyDeploymentContract
<1>2. copies["requester_metadata"] = sent
  BY DEF Carriers
<1> HIDE DEF top, copies, new
<1>3. new.carriers = copies
  BY <1>1 DEF MetaFields
<1>4. QED
  BY <1>2, <1>3 DEF BuildRecord, new

\* What the contract says whoever asks.
LEMMA ContractSays ==
    ASSUME NEW asked, NEW key, NEW top, top = TopContract(asked, key), NEW says, says = Contract(top, key)
    PROVE  /\ "key_alias" \in DOMAIN says /\ says["key_alias"] = key.alias
           /\ "privacy_class" \in DOMAIN says
           /\ says["privacy_class"] = IF key.public THEN "public" ELSE "private"
           /\ "session_id" \in DOMAIN says
           /\ \A a \in key.required : ValueOf(top, a) # None => a \in DOMAIN says
<1>1. DOMAIN says = {f \in ContractFields(key) : ValueOf(top, f) # None} \cup {"key_alias", "model"}
  BY DEF Contract
<1>2. \A a \in DOMAIN says : a \notin {"key_alias", "model"} => says[a] = top[a]
  BY DEF Contract
<1>3. says["key_alias"] = key.alias
  BY DEF Contract
<1>4. "privacy_class" \in DOMAIN top /\ top["privacy_class"] = IF key.public THEN "public" ELSE "private"
  BY DEF TopContract, KeyDecided
<1>5. "session_id" \in DOMAIN top /\ top["session_id"] # None
  <2>1. top["session_id"] = Or(Known(asked, key, "session_id"), Or(Known(asked, key, "run_id"), "fresh"))
    BY DEF TopContract, KeyDecided
  <2>2. \A a, b : b # None => Or(a, b) # None
    BY DEF Or
  <2>3. "fresh" # None
    BY DEF None
  <2>4. QED
    BY <2>1, <2>2, <2>3 DEF TopContract, KeyDecided
<1>6. "privacy_class" \in ContractFields(key) /\ "session_id" \in ContractFields(key)
      /\ key.required \subseteq ContractFields(key)
  BY DEF ContractFields
<1>7. ValueOf(top, "privacy_class") # None /\ ValueOf(top, "session_id") # None
  BY <1>4, <1>5 DEF ValueOf, None
<1>8. QED
  BY <1>1, <1>2, <1>3, <1>4, <1>6, <1>7

(***************************************************************************)
(* The inductive invariant.  What the properties say of a deployment and   *)
(* of a log line depends on what every callback before it left behind.     *)
(***************************************************************************)
Before == {"metrics", "merge", "pin"}
Cleaned == {"classify", "route", "sent"}
Stamped == ApplyTraceContract(req.data.meta, Key)
Unnamed(f) == Updated(f, [model |-> None])
LineOf(a) == BuildRecord(ApplyDeploymentContract(Stamped, a.to), req.model, a.status)

\* The exporters' copies are as request_metrics left them, but for the deployment that a
\* line may have put there.
SharedCarriers(meta) ==
    /\ DOMAIN meta.carriers = Carriers
    /\ \A c \in Carriers : Unnamed(meta.carriers[c]) = Unnamed(Stamped.carriers[c])
\* A request keeps its fields, and of its metadata the exporters' copies.
Whole ==
    /\ req \in Requests
    /\ DOMAIN data = DataFields /\ DOMAIN data.meta = MetaFields
    /\ data.model = req.data.model /\ data.top = req.data.top
    /\ at = "metrics" => data = req.data
    /\ at # "metrics" => SharedCarriers(data.meta)
\* No callback but the merges touches the conversation.
Conversed ==
    /\ Keeps(data, req.data)
    /\ hop > 0 => Keeps(call, data) /\ call.top = <<>> /\ SystemFirst(call.turns)
\* Deployments are tried after the callbacks.
Counted ==
    /\ hop \in Nat
    /\ at \in Before \cup {"classify"} => hop = 0
    /\ at = "sent" => hop > 0
Untouched(d) ==
    /\ d.plain = req.data.plain /\ d.headers = req.data.headers /\ d.tools = req.data.tools
    /\ d.client = req.data.client /\ d.extra = req.data.extra /\ d.template = req.data.template
    /\ d.meta.tags = req.data.meta.tags /\ d.meta.inherited = req.data.meta.inherited
Stripped(d) ==
    /\ \A f \in DOMAIN d.plain : d.plain[f] = "client" => f \in AllowedFields[req.family] \union AlwaysKept
    /\ \A f \in DOMAIN req.data.plain : req.data.plain[f] = "proxy" =>
            (f \in DOMAIN d.plain <=> f \notin HeaderCarriers \union CredentialFields(req.credential_fields))
    /\ d.tools \subseteq ClientToolTypes /\ d.headers \subseteq ProviderHeaders
    /\ d.meta.tags = req.data.meta.tags \cap req.data.meta.inherited
\* No callback puts anything of the client's where the classifier does not look.
NothingHidden(d) == UnscannedFields(d) \subseteq UnscannedFields(req.data)
\* What a request chose itself is in its extra_body, the default beside it.
ThinkingSet(d) ==
    req.family = "chat" /\ req.data.model \in ThinkingOffModels =>
        IF req.data.extra.template \in {"on", "off"}
        THEN d.template = "absent" /\ d.extra.template = req.data.extra.template
        ELSE d.template = "off" /\ d.extra = NoExtra
PinsHold ==
    /\ at \in Before => Untouched(data)
    /\ at \in Cleaned /\ IsCI => Stripped(data) /\ ThinkingSet(data)
    /\ at = "sent" => call.thinking = Thinking /\ call.settings = KeepsSettings(hop)
ClearedHolds ==
    /\ NothingHidden(data)
    /\ Inspected /\ at \in {"route", "sent"} => ScannedText(data) \subseteq cleared /\ Readable(data)
\* A line is that of its attempt, an attempt with a deployment is that of a request that may have one.
LinesHold ==
    /\ at = "metrics" => unlogged = {} /\ records = {}
    /\ at \in {"merge", "pin"} \cup Cleaned \/ hop > 0 => ~LacksBenchmark(Stamped, Key)
    /\ \A a \in unlogged : a.hop > 0 => hop > 0
    /\ \A r \in records : r.line = LineOf(r.a) /\ (r.a.hop > 0 => hop > 0)
RequestInvariant == Whole /\ Conversed /\ Counted /\ PinsHold /\ ClearedHolds /\ LinesHold

Naming(h, to) == [a \in DOMAIN h \cup {"model"} |-> IF a = "model" THEN to ELSE h[a]]
LEMMA NamingIs == ASSUME NEW h, NEW to PROVE Updated(h, [model |-> to]) = Naming(h, to)
<1> DEFINE named == [model |-> to]
<1>1. DOMAIN named = {"model"} /\ named["model"] = to
  OBVIOUS
<1> HIDE DEF named
<1>2. Updated(h, named) = Naming(h, to)
  BY <1>1 DEF Updated, Naming
<1>3. QED
  BY <1>2 DEF named

\* A deployment that is named takes the place of one that was.
LEMMA NamedAgain ==
    ASSUME NEW f, NEW g, Unnamed(f) = Unnamed(g), NEW to
    PROVE  Updated(f, [model |-> to]) = Updated(g, [model |-> to])
<1>1. Naming(f, None) = Naming(g, None)
  BY NamingIs DEF Unnamed
<1>2. DOMAIN f \cup {"model"} = DOMAIN g \cup {"model"}
  BY <1>1 DEF Naming
<1>3. ASSUME NEW a \in DOMAIN f \cup {"model"}, a # "model" PROVE f[a] = g[a]
  <2>1. Naming(f, None)[a] = f[a] /\ Naming(g, None)[a] = g[a]
    BY <1>2, <1>3 DEF Naming
  <2>2. QED
    BY <1>1, <2>1
<1>4. Naming(f, to) = Naming(g, to)
  BY <1>2, <1>3 DEF Naming
<1>5. QED
  BY <1>4, NamingIs

\* Once named, twice named: what counts is the last.
LEMMA NamedTwice ==
    ASSUME NEW f, NEW to
    PROVE  Unnamed(Updated(f, [model |-> to])) = Unnamed(f)
<1> DEFINE named == [model |-> to]
           none == [model |-> None]
<1>1. DOMAIN named = {"model"} /\ DOMAIN none = {"model"}
  OBVIOUS
<1> HIDE DEF named, none
<1>2. Updated(Updated(f, named), none) = Updated(f, none)
  BY <1>1 DEF Updated
<1>3. QED
  BY <1>2 DEF Unnamed, named, none

LEMMA StampedSays ==
    ASSUME DOMAIN req.data.meta = MetaFields, Key.required \subseteq RecordFields \ {"model", "key_alias"},
           NEW a, NEW line, line = LineOf(a)
    PROVE  /\ line.key_alias = Key.alias /\ line.model = Or(a.to, req.model)
           /\ line.said["privacy_class"] = IF Key.public THEN "public" ELSE "private"
           /\ line.said["session_id"] = Contract(TopContract(req.data.meta.top, Key), Key)["session_id"]
           /\ IsBenchmark(Key) /\ ~LacksBenchmark(Stamped, Key) => Key.required \subseteq DOMAIN line.said
<1> DEFINE meta == req.data.meta
           top == TopContract(meta.top, Key)
           says == Contract(top, Key)
           copy == Updated(meta.carriers["requester_metadata"], says)
           sent == Updated(copy, [model |-> a.to])
<1>1. DOMAIN Stamped = MetaFields /\ Stamped.top = top /\ Stamped.carriers["requester_metadata"] = copy
  BY TraceStamps DEF Stamped
<1>2. line = BuildRecord(ApplyDeploymentContract(Stamped, a.to), req.model, a.status)
  BY DEF LineOf
<1>3. sent = Updated(Stamped.carriers["requester_metadata"], [model |-> a.to])
  BY <1>1
<1>4. /\ "key_alias" \in DOMAIN says /\ says["key_alias"] = Key.alias
      /\ "privacy_class" \in DOMAIN says
      /\ says["privacy_class"] = IF Key.public THEN "public" ELSE "private"
      /\ "session_id" \in DOMAIN says
      /\ \A f \in Key.required : ValueOf(top, f) # None => f \in DOMAIN says
  BY ContractSays
<1> HIDE DEF says, copy
<1>5. \A f \in DOMAIN says : f \in DOMAIN copy /\ copy[f] = says[f]
  BY DEF copy, Updated
<1> DEFINE named == [model |-> a.to]
<1>6. DOMAIN named = {"model"} /\ named["model"] = a.to
  OBVIOUS
<1> HIDE DEF sent
<1>7. sent = Updated(copy, named)
  BY DEF sent
<1> HIDE DEF named
<1>8. \A f \in DOMAIN says : f \in DOMAIN sent /\ (f # "model" => sent[f] = says[f])
  BY <1>5, <1>6, <1>7 DEF Updated
<1>9. "model" \in DOMAIN sent /\ sent["model"] = a.to
  BY <1>6, <1>7 DEF Updated
<1>10. line = [status |-> a.status, model |-> Or(ValueOf(sent, "model"), req.model),
               key_alias |-> ValueOf(sent, "key_alias"), said |-> Only(sent, RecordFields \ {"model", "key_alias"})]
  BY <1>1, <1>2, <1>3, LineFromCopies
<1>11. ValueOf(sent, "model") = a.to /\ ValueOf(sent, "key_alias") = Key.alias
  BY <1>4, <1>8, <1>9 DEF ValueOf
<1>12. line.key_alias = Key.alias /\ line.model = Or(a.to, req.model)
       /\ line.said = Only(sent, RecordFields \ {"model", "key_alias"})
  BY <1>10, <1>11
<1>13. DOMAIN line.said = DOMAIN sent \cap (RecordFields \ {"model", "key_alias"})
       /\ \A f \in DOMAIN line.said : line.said[f] = sent[f]
  BY <1>12 DEF Only
<1>14. "privacy_class" \in DOMAIN line.said /\ "session_id" \in DOMAIN line.said
  BY <1>4, <1>8, <1>13 DEF RecordFields
<1>15. line.said["privacy_class"] = says["privacy_class"] /\ line.said["session_id"] = says["session_id"]
  BY <1>4, <1>8, <1>13, <1>14
<1>16. ASSUME IsBenchmark(Key), ~LacksBenchmark(Stamped, Key) PROVE Key.required \subseteq DOMAIN line.said
  <2>1. \A f \in Key.required : ValueOf(top, f) # None
    BY <1>1, <1>16 DEF LacksBenchmark
  <2>2. QED
    BY <1>4, <1>8, <1>13, <2>1
<1>17. QED
  BY <1>4, <1>12, <1>15, <1>16 DEF says

(***************************************************************************)
(* What a pinned request still carries                                     *)
(***************************************************************************)
LEMMA OnlyKeeps ==
    ASSUME NEW f, NEW as
    PROVE  DOMAIN Only(f, as) = DOMAIN f \cap as /\ \A a \in DOMAIN Only(f, as) : Only(f, as)[a] = f[a]
  BY DEF Only

LEMMA TransportStripped ==
    ASSUME NEW d, DOMAIN d = DataFields, NEW lists, NEW new, new = DropHeaderCarriers(SanitizeTransportFields(d, lists))
    PROVE  /\ DOMAIN new = DataFields
           /\ new.model = d.model /\ new.top = d.top /\ new.turns = d.turns /\ new.tools = d.tools
           /\ new.extra = d.extra /\ new.template = d.template /\ new.client = d.client /\ new.meta = d.meta
           /\ new.options = d.options
           /\ new.headers = d.headers \cap ProviderHeaders
           /\ DOMAIN new.plain = DOMAIN d.plain \ (CredentialFields(lists) \cup HeaderCarriers)
           /\ \A f \in DOMAIN new.plain : new.plain[f] = d.plain[f]
<1> DEFINE kept == Only(d.plain, DOMAIN d.plain \ CredentialFields(lists))
           headers == d.headers \cap ProviderHeaders
           mid == SanitizeTransportFields(d, lists)
           left == Only(kept, DOMAIN kept \ HeaderCarriers)
<1>1. mid = [d EXCEPT !.plain = kept, !.headers = headers]
  BY DEF SanitizeTransportFields
<1>2. DOMAIN kept = DOMAIN d.plain \ CredentialFields(lists) /\ \A f \in DOMAIN kept : kept[f] = d.plain[f]
  BY DEF Only
<1> HIDE DEF kept, headers, mid
<1>3. /\ DOMAIN mid = DataFields /\ mid.plain = kept /\ mid.headers = headers
      /\ mid.model = d.model /\ mid.top = d.top /\ mid.turns = d.turns /\ mid.tools = d.tools
      /\ mid.extra = d.extra /\ mid.template = d.template /\ mid.client = d.client /\ mid.meta = d.meta
      /\ mid.options = d.options
  BY <1>1 DEF DataFields
<1>4. new = [mid EXCEPT !.plain = left]
  BY <1>3 DEF DropHeaderCarriers, mid
<1>5. DOMAIN left = DOMAIN kept \ HeaderCarriers /\ \A f \in DOMAIN left : left[f] = kept[f]
  BY DEF Only
<1> HIDE DEF left
<1>6. /\ DOMAIN new = DataFields /\ new.plain = left /\ new.headers = headers
      /\ new.model = d.model /\ new.top = d.top /\ new.turns = d.turns /\ new.tools = d.tools
      /\ new.extra = d.extra /\ new.template = d.template /\ new.client = d.client /\ new.meta = d.meta
      /\ new.options = d.options
  BY <1>3, <1>4 DEF DataFields
<1>7. QED
  BY <1>2, <1>5, <1>6 DEF headers

LEMMA MetadataPinned ==
    ASSUME NEW d, DOMAIN d = DataFields, DOMAIN d.meta = MetaFields, NEW family, NEW new, new = PinMetadata(d, family)
    PROVE  /\ DOMAIN new = DataFields /\ DOMAIN new.meta = MetaFields
           /\ new.model = d.model /\ new.top = d.top /\ new.turns = d.turns /\ new.tools = d.tools
           /\ new.extra = d.extra /\ new.template = d.template /\ new.headers = d.headers /\ new.plain = d.plain
           /\ new.client \subseteq d.client
           /\ new.meta.carriers = d.meta.carriers
           /\ new.meta.tags = d.meta.tags \cap d.meta.inherited
<1>1. ASSUME NEW meta, DOMAIN meta = MetaFields, NEW pinned, pinned = PinTags(meta)
      PROVE  DOMAIN pinned = MetaFields /\ pinned.carriers = meta.carriers /\ pinned.tags = meta.tags \cap meta.inherited
  <2> DEFINE tags == meta.tags \cap meta.inherited
  <2>1. pinned = [meta EXCEPT !.tags = tags, !.asked = {}]
    BY <1>1 DEF PinTags
  <2> HIDE DEF tags
  <2>2. DOMAIN pinned = MetaFields /\ pinned.carriers = meta.carriers /\ pinned.tags = tags
    BY <1>1, <2>1 DEF MetaFields
  <2>3. QED
    BY <2>2 DEF tags
<1>2. ASSUME NEW meta, new = [d EXCEPT !.meta = meta]
      PROVE  /\ DOMAIN new = DataFields /\ new.meta = meta /\ new.client = d.client
             /\ new.model = d.model /\ new.top = d.top /\ new.turns = d.turns /\ new.tools = d.tools
             /\ new.extra = d.extra /\ new.template = d.template /\ new.headers = d.headers /\ new.plain = d.plain
  BY <1>2 DEF DataFields
<1>3. CASE family = "chat"
  <2> DEFINE requester == d.meta.carriers["requester_metadata"]
             repeated == {a \in DOMAIN requester : ValueOf(d.meta.top, a) = requester[a]}
             top == Only(d.meta.top, DOMAIN d.meta.top \ repeated)
             less == [d.meta EXCEPT !.top = top]
             own == IF d.client = {} THEN d.meta ELSE less
             meta == PinTags(own)
  <2>1. new = [d EXCEPT !.meta = meta]
    BY <1>3 DEF PinMetadata
  <2> HIDE DEF top
  <2>2. DOMAIN less = MetaFields /\ less.carriers = d.meta.carriers /\ less.tags = d.meta.tags
        /\ less.inherited = d.meta.inherited
    BY DEF MetaFields
  <2> HIDE DEF less
  <2>3. DOMAIN meta = MetaFields /\ meta.carriers = d.meta.carriers /\ meta.tags = d.meta.tags \cap d.meta.inherited
    BY <1>1, <2>2
  <2> HIDE DEF meta
  <2>4. QED
    BY <1>2, <2>1, <2>3
<1>4. CASE family # "chat"
  <2> DEFINE client == IF family = "anthropic" THEN d.client \cap {"user_id"} ELSE {}
             meta == PinTags(d.meta)
  <2>1. new = [d EXCEPT !.client = client, !.meta = meta]
    BY <1>4 DEF PinMetadata
  <2>2. DOMAIN meta = MetaFields /\ meta.carriers = d.meta.carriers /\ meta.tags = d.meta.tags \cap d.meta.inherited
    BY <1>1
  <2>5. client \subseteq d.client
    OBVIOUS
  <2> HIDE DEF client, meta
  <2>3. /\ DOMAIN new = DataFields /\ new.meta = meta /\ new.client = client
        /\ new.model = d.model /\ new.top = d.top /\ new.turns = d.turns /\ new.tools = d.tools
        /\ new.extra = d.extra /\ new.template = d.template /\ new.headers = d.headers /\ new.plain = d.plain
    BY <2>1 DEF DataFields
  <2>4. QED
    BY <2>2, <2>3, <2>5
<1>5. QED
  BY <1>3, <1>4

LEMMA FieldsPinned ==
    ASSUME NEW d, DOMAIN d = DataFields, DOMAIN d.meta = MetaFields, NEW body, NEW family,
           NEW new, new = PinRequest(d, body, family)
    PROVE  /\ DOMAIN new = DataFields /\ DOMAIN new.meta = MetaFields
           /\ new.model = d.model /\ new.top = d.top /\ new.turns = d.turns /\ new.headers = d.headers
           /\ new.client \subseteq d.client
           /\ new.meta.carriers = d.meta.carriers
           /\ new.meta.tags = d.meta.tags \cap d.meta.inherited
           /\ new.tools = IF "tools" \in body THEN d.tools \cap ClientToolTypes ELSE d.tools
           /\ new.extra = IF "extra_body" \in body THEN SanitizeExtra(d.extra) ELSE d.extra
           /\ new.template = IF "chat_template_kwargs" \in body THEN "absent" ELSE d.template
           /\ DOMAIN new.plain = DOMAIN d.plain \ Unserved(d, body, family)
           /\ \A f \in DOMAIN new.plain : new.plain[f] = d.plain[f]
<1> DEFINE plain == Only(d.plain, DOMAIN d.plain \ Unserved(d, body, family))
           template == IF "chat_template_kwargs" \in body THEN "absent" ELSE d.template
           options == IF "stream_options" \in body /\ family # "chat" THEN {} ELSE d.options
           served == [[[d EXCEPT !.plain = plain] EXCEPT !.template = template] EXCEPT !.options = options]
           clean == SanitizeClientFields(served, body, family)
<1>1. new = PinMetadata(clean, family) /\ DOMAIN d.meta = MetaFields
  BY DEF PinRequest
<1>2. DOMAIN plain = DOMAIN d.plain \ Unserved(d, body, family) /\ \A f \in DOMAIN plain : plain[f] = d.plain[f]
  BY DEF Only
<1> HIDE DEF plain, template, options
<1>3. /\ DOMAIN served = DataFields /\ served.plain = plain /\ served.template = template
      /\ served.model = d.model /\ served.top = d.top /\ served.turns = d.turns /\ served.headers = d.headers
      /\ served.client = d.client /\ served.meta = d.meta /\ served.tools = d.tools /\ served.extra = d.extra
  BY DEF DataFields
<1> HIDE DEF served
<1> HIDE DEF clean
<1>4. /\ DOMAIN clean = DataFields
      /\ clean.model = served.model /\ clean.top = served.top /\ clean.turns = served.turns
      /\ clean.client = served.client /\ clean.meta = served.meta /\ clean.template = served.template
      /\ clean.headers = served.headers /\ clean.plain = served.plain
      /\ clean.tools = IF "tools" \in body THEN served.tools \cap ClientToolTypes ELSE served.tools
      /\ clean.extra = IF "extra_body" \in body THEN SanitizeExtra(served.extra) ELSE served.extra
  <2> DEFINE extra == IF "extra_body" \in body THEN SanitizeExtra(served.extra) ELSE served.extra
             kept == IF "stream_options" \in body /\ family = "chat"
                     THEN served.options \cap {"include_usage"} ELSE served.options
             tools == IF "tools" \in body THEN served.tools \cap ClientToolTypes ELSE served.tools
  <2>1. clean = [[[served EXCEPT !.extra = extra] EXCEPT !.options = kept] EXCEPT !.tools = tools]
    <3>1. DOMAIN served = DataFields
      BY <1>3
    <3> DEFINE first == [served EXCEPT !.extra = extra]
               second == [first EXCEPT !.options = kept]
    <3>2. first.options = served.options /\ first.tools = served.tools /\ second.tools = served.tools
      BY <3>1 DEF DataFields
    <3>3. QED
      BY <3>2 DEF SanitizeClientFields, clean
  <2> HIDE DEF extra, kept, tools
  <2>2. /\ DOMAIN clean = DataFields /\ clean.extra = extra /\ clean.tools = tools
        /\ clean.model = served.model /\ clean.top = served.top /\ clean.turns = served.turns
        /\ clean.client = served.client /\ clean.meta = served.meta /\ clean.template = served.template
        /\ clean.headers = served.headers /\ clean.plain = served.plain
    BY <1>3, <2>1 DEF DataFields
  <2>3. QED
    BY <2>2 DEF extra, tools
<1>5. /\ DOMAIN new = DataFields /\ DOMAIN new.meta = MetaFields
      /\ new.model = clean.model /\ new.top = clean.top /\ new.turns = clean.turns /\ new.tools = clean.tools
      /\ new.extra = clean.extra /\ new.template = clean.template
      /\ new.headers = clean.headers /\ new.plain = clean.plain
      /\ new.client \subseteq clean.client
      /\ new.meta.carriers = clean.meta.carriers
      /\ new.meta.tags = clean.meta.tags \cap clean.meta.inherited
  BY <1>1, <1>3, <1>4, MetadataPinned
<1>6. QED
  BY <1>2, <1>3, <1>4, <1>5 DEF template

\* The default is set beside extra_body and only where nothing was chosen there.
LEMMA ThinkingDefaulted ==
    ASSUME NEW d, DOMAIN d = DataFields, d.extra = NoExtra \/ d.extra.template \in {"on", "off"}, d.template = "absent",
           NEW family, NEW new, new = DefaultThinkingOff(d, family, ThinkingOffModels)
    PROVE  /\ DOMAIN new = DataFields /\ new.extra = d.extra
           /\ new.model = d.model /\ new.top = d.top /\ new.turns = d.turns /\ new.headers = d.headers
           /\ new.client = d.client /\ new.meta = d.meta /\ new.tools = d.tools /\ new.plain = d.plain
           /\ family = "chat" /\ d.model \in ThinkingOffModels =>
                 new.template = IF d.extra = NoExtra THEN "off" ELSE "absent"
<1>1. NoExtra.template = "absent" /\ "absent" \notin {"on", "off"}
  BY DEF NoExtra
<1>2. CASE family = "chat" /\ d.model \in ThinkingOffModels /\ d.extra = NoExtra
  <2>1. new = [d EXCEPT !.template = "off"]
    BY <1>1, <1>2 DEF DefaultThinkingOff, ThinkingOff
  <2>2. QED
    BY <1>2, <2>1 DEF DataFields
<1>3. CASE ~(family = "chat" /\ d.model \in ThinkingOffModels)
  <2>1. new = d
    BY <1>3 DEF DefaultThinkingOff
  <2>2. QED
    BY <1>3, <2>1
<1>4. CASE d.extra # NoExtra
  <2>1. d.extra.template # "absent" /\ d.extra.template # "empty"
    BY <1>4
  <2>2. new = d
    BY <2>1 DEF DefaultThinkingOff, ThinkingOff
  <2>3. QED
    BY <1>4, <2>2
<1>5. QED
  BY <1>2, <1>3, <1>4

LEMMA PinStrips ==
    ASSUME WellFormed(req), req.family \in Families, DOMAIN data = DataFields, DOMAIN data.meta = MetaFields,
           Untouched(data), data.model = req.data.model, NEW new, new = PinnedData
    PROVE  /\ DOMAIN new = DataFields /\ DOMAIN new.meta = MetaFields
           /\ new.model = data.model /\ new.top = data.top /\ new.turns = data.turns
           /\ new.meta.carriers = data.meta.carriers
           /\ Stripped(new) /\ ThinkingSet(new) /\ NothingHidden(new)
<1> DEFINE lists == req.credential_fields
           stripped == DropHeaderCarriers(SanitizeTransportFields(data, lists))
           pinned == PinRequest(stripped, req.body, req.family)
<1>1. new = DefaultThinkingOff(pinned, req.family, ThinkingOffModels)
  BY DEF PinnedData
<1>2. /\ DOMAIN stripped = DataFields
      /\ stripped.model = data.model /\ stripped.top = data.top /\ stripped.turns = data.turns
      /\ stripped.tools = data.tools /\ stripped.extra = data.extra /\ stripped.template = data.template
      /\ stripped.client = data.client /\ stripped.meta = data.meta
      /\ stripped.headers = data.headers \cap ProviderHeaders
      /\ DOMAIN stripped.plain = DOMAIN data.plain \ (CredentialFields(lists) \cup HeaderCarriers)
      /\ \A f \in DOMAIN stripped.plain : stripped.plain[f] = data.plain[f]
  BY TransportStripped
<1> HIDE DEF stripped, lists
<1>3. /\ DOMAIN pinned = DataFields /\ DOMAIN pinned.meta = MetaFields
      /\ pinned.model = stripped.model /\ pinned.top = stripped.top /\ pinned.turns = stripped.turns
      /\ pinned.headers = stripped.headers /\ pinned.client \subseteq stripped.client
      /\ pinned.meta.carriers = stripped.meta.carriers
      /\ pinned.meta.tags = stripped.meta.tags \cap stripped.meta.inherited
      /\ pinned.tools = IF "tools" \in req.body THEN stripped.tools \cap ClientToolTypes ELSE stripped.tools
      /\ pinned.extra = IF "extra_body" \in req.body THEN SanitizeExtra(stripped.extra) ELSE stripped.extra
      /\ pinned.template = IF "chat_template_kwargs" \in req.body THEN "absent" ELSE stripped.template
      /\ DOMAIN pinned.plain = DOMAIN stripped.plain \ Unserved(stripped, req.body, req.family)
      /\ \A f \in DOMAIN pinned.plain : pinned.plain[f] = stripped.plain[f]
  <2>1. DOMAIN stripped = DataFields /\ DOMAIN stripped.meta = MetaFields
    BY <1>2
  <2>2. pinned = PinRequest(stripped, req.body, req.family)
    OBVIOUS
  <2> HIDE DEF pinned
  <2>3. QED
    BY <2>1, <2>2, FieldsPinned
<1> HIDE DEF pinned
<1> DEFINE old == req.data
<1>4. /\ \A f \in DOMAIN old.plain : old.plain[f] = "client" => f \in req.body
      /\ old.tools # {} => "tools" \in req.body
      /\ old.extra # NoExtra => "extra_body" \in req.body
      /\ old.template # "absent" => "chat_template_kwargs" \in req.body
      /\ old.extra \in [other : BOOLEAN, template : Templates]
  BY DEF WellFormed
<1>5. /\ data.plain = old.plain /\ data.headers = old.headers /\ data.tools = old.tools
      /\ data.client = old.client /\ data.extra = old.extra /\ data.template = old.template
      /\ data.meta.tags = old.meta.tags /\ data.meta.inherited = old.meta.inherited
  BY DEF Untouched
<1> HIDE DEF old
<1>6. pinned.template = "absent"
  BY <1>2, <1>3, <1>4, <1>5
<1> DEFINE chosen == old.extra.template \in {"on", "off"}
<1>7. /\ chosen => pinned.extra # NoExtra /\ pinned.extra.template = old.extra.template
      /\ ~chosen => pinned.extra = NoExtra
  <2>1. pinned.extra = IF "extra_body" \in req.body THEN SanitizeExtra(old.extra) ELSE old.extra
    BY <1>2, <1>3, <1>5
  <2>2. NoExtra.template = "absent"
    BY DEF NoExtra
  <2>3. CASE old.extra = NoExtra
    <3>1. SanitizeExtra(old.extra) = NoExtra /\ ~chosen
      BY <2>2, <2>3 DEF SanitizeExtra
    <3>2. QED
      BY <2>1, <2>3, <3>1
  <2>4. CASE old.extra # NoExtra
    <3>1. pinned.extra = SanitizeExtra(old.extra)
      BY <1>4, <2>1, <2>4
    <3>2. ASSUME chosen PROVE pinned.extra # NoExtra /\ pinned.extra.template = old.extra.template
      BY <2>2, <3>1, <3>2 DEF SanitizeExtra
    <3>3. ASSUME ~chosen PROVE pinned.extra = NoExtra
      BY <3>1, <3>3 DEF SanitizeExtra
    <3>4. QED
      BY <3>2, <3>3
  <2>5. QED
    BY <2>3, <2>4
<1>8. pinned.extra = NoExtra \/ pinned.extra.template \in {"on", "off"}
  BY <1>7
<1>9. /\ DOMAIN new = DataFields /\ new.extra = pinned.extra
      /\ new.model = pinned.model /\ new.top = pinned.top /\ new.turns = pinned.turns /\ new.headers = pinned.headers
      /\ new.client = pinned.client /\ new.meta = pinned.meta /\ new.tools = pinned.tools /\ new.plain = pinned.plain
      /\ req.family = "chat" /\ pinned.model \in ThinkingOffModels =>
            new.template = IF pinned.extra = NoExtra THEN "off" ELSE "absent"
  BY <1>1, <1>3, <1>6, <1>8, ThinkingDefaulted
<1>10. ThinkingSet(new)
  <2> SUFFICES ASSUME req.family = "chat", old.model \in ThinkingOffModels
               PROVE  IF chosen THEN new.template = "absent" /\ new.extra.template = old.extra.template
                                ELSE new.template = "off" /\ new.extra = NoExtra
    BY DEF ThinkingSet, old
  <2>1. pinned.model \in ThinkingOffModels
    BY <1>2, <1>3 DEF old
  <2>2. QED
    BY <1>7, <1>9, <2>1
<1>11. ASSUME NEW f \in DOMAIN new.plain, new.plain[f] = "client"
       PROVE  f \in AllowedFields[req.family] \union AlwaysKept
  <2>1. f \in DOMAIN stripped.plain /\ f \in DOMAIN old.plain /\ f \notin Unserved(stripped, req.body, req.family)
    BY <1>2, <1>3, <1>5, <1>9, <1>11
  <2>2. stripped.plain[f] = "client" /\ f \in req.body
    BY <1>2, <1>3, <1>4, <1>5, <1>9, <1>11, <2>1
  <2>3. QED
    BY <2>1, <2>2 DEF Unserved
<1>12. ASSUME NEW f \in DOMAIN old.plain, old.plain[f] = "proxy"
       PROVE  f \in DOMAIN new.plain <=> f \notin HeaderCarriers \union CredentialFields(lists)
  <2>1. f \in DOMAIN stripped.plain <=> f \notin HeaderCarriers \union CredentialFields(lists)
    BY <1>2, <1>5
  <2>2. f \in DOMAIN stripped.plain => stripped.plain[f] = "proxy"
    BY <1>2, <1>5, <1>12
  <2>3. f \in DOMAIN stripped.plain => f \notin Unserved(stripped, req.body, req.family)
    BY <2>2 DEF Unserved
  <2>4. QED
    BY <1>3, <1>9, <2>1, <2>3
<1>13. new.tools \subseteq ClientToolTypes
  BY <1>2, <1>3, <1>4, <1>5, <1>9
<1>14. new.headers \subseteq ProviderHeaders /\ new.meta.tags = old.meta.tags \cap old.meta.inherited
  BY <1>2, <1>3, <1>5, <1>9
<1>15. Stripped(new)
  BY <1>11, <1>12, <1>13, <1>14 DEF Stripped, old, lists
<1>16. NothingHidden(new)
  <2>1. \A f \in DOMAIN new.plain : f \in DOMAIN old.plain /\ new.plain[f] = old.plain[f]
    BY <1>2, <1>3, <1>5, <1>9
  <2>2. new.client # {} => old.client # {}
    BY <1>2, <1>3, <1>5, <1>9
  <2>3. new.extra.other => old.extra.other
    <3>1. new.extra = IF "extra_body" \in req.body THEN SanitizeExtra(old.extra) ELSE old.extra
      BY <1>2, <1>3, <1>5, <1>9
    <3>2. ~SanitizeExtra(old.extra).other
      BY DEF SanitizeExtra, NoExtra
    <3>3. QED
      BY <3>1, <3>2
  <2>4. UnscannedFields(new) \subseteq UnscannedFields(old)
    BY <2>1, <2>2, <2>3 DEF UnscannedFields
  <2>5. QED
    BY <2>4 DEF NothingHidden, old
<1>17. QED
  BY <1>2, <1>3, <1>9, <1>10, <1>15, <1>16

(***************************************************************************)
(* The invariant holds at first and every step keeps it                    *)
(***************************************************************************)
LEMMA Served == RequestInvariant => WellFormed(req) /\ Shape(req.data)
<1> SUFFICES ASSUME RequestInvariant PROVE WellFormed(req) /\ Shape(req.data)
  OBVIOUS
<1>1. WellFormed(req)
  BY RequestAssumption DEF RequestInvariant, Whole
<1>2. Shape(req.data)
  BY <1>1 DEF WellFormed, Shape
<1>3. QED
  BY <1>1, <1>2

LEMMA FirstHolds == RequestInit => RequestInvariant
<1> SUFFICES ASSUME RequestInit PROVE RequestInvariant
  OBVIOUS
<1>1. WellFormed(req) /\ req \in Requests /\ data = req.data
      /\ at = "metrics" /\ hop = 0 /\ unlogged = {} /\ records = {}
  BY RequestAssumption DEF RequestInit
<1>2. Whole
  BY <1>1 DEF Whole, WellFormed
<1>3. Conversed
  <2>1. Shape(req.data)
    BY <1>1 DEF WellFormed, Shape
  <2>2. Keeps(req.data, req.data)
    BY <2>1, KeepsItself
  <2>3. QED
    BY <1>1, <2>2 DEF Conversed
<1>4. Counted
  BY <1>1 DEF Counted
<1>5. PinsHold
  BY <1>1 DEF PinsHold, Untouched, Before, Cleaned
<1>6. ClearedHolds
  BY <1>1 DEF ClearedHolds, NothingHidden
<1>7. LinesHold
  BY <1>1 DEF LinesHold, Cleaned
<1>8. QED
  BY <1>2, <1>3, <1>4, <1>5, <1>6, <1>7 DEF RequestInvariant

\* What a step of each callback leaves in the request.
LEMMA MetricsData ==
    ASSUME RequestInvariant, Metrics
    PROVE  /\ DOMAIN data' = DataFields /\ DOMAIN data'.meta = MetaFields
           /\ data'.model = data.model /\ data'.top = data.top /\ data'.turns = data.turns
           /\ data'.meta = Stamped /\ SharedCarriers(Stamped) /\ Untouched(data')
<1>1. data = req.data /\ DOMAIN data = DataFields /\ DOMAIN data.meta = MetaFields
  BY DEF RequestInvariant, Whole, Metrics
<1>2. data' = [data EXCEPT !.meta = Stamped]
  BY <1>1 DEF Metrics, Stamped
<1>3. /\ DOMAIN Stamped = MetaFields /\ Stamped.tags = data.meta.tags /\ Stamped.inherited = data.meta.inherited
      /\ DOMAIN Stamped.carriers = Carriers
  BY <1>1, TraceStamps DEF Stamped
<1> HIDE DEF Stamped
<1>4. /\ DOMAIN data' = DataFields /\ data'.meta = Stamped
      /\ data'.model = data.model /\ data'.top = data.top /\ data'.turns = data.turns
      /\ data'.plain = data.plain /\ data'.headers = data.headers /\ data'.tools = data.tools
      /\ data'.client = data.client /\ data'.extra = data.extra /\ data'.template = data.template
  BY <1>1, <1>2 DEF DataFields
<1>5. Untouched(data')
  BY <1>1, <1>3, <1>4 DEF Untouched
<1>6. SharedCarriers(Stamped)
  BY <1>3 DEF SharedCarriers
<1>7. QED
  BY <1>3, <1>4, <1>5, <1>6

LEMMA MergeData ==
    ASSUME RequestInvariant, Merge
    PROVE  /\ DOMAIN data' = DataFields /\ data'.meta = data.meta
           /\ data'.model = data.model /\ data'.top = data.top
           /\ data'.turns = data.turns \/ data'.turns = MergeSystemMessages(data.turns)
           /\ Untouched(data')
<1>1. DOMAIN data = DataFields /\ Untouched(data)
  BY DEF RequestInvariant, Whole, PinsHold, Merge, Before
<1>2. CASE data' = data
  BY <1>1, <1>2
<1>3. CASE data' # data
  <2> DEFINE turns == MergeSystemMessages(data.turns)
  <2>1. data' = [data EXCEPT !.turns = turns]
    BY <1>3 DEF Merge
  <2> HIDE DEF turns
  <2>2. /\ DOMAIN data' = DataFields /\ data'.meta = data.meta
        /\ data'.model = data.model /\ data'.top = data.top /\ data'.turns = turns
        /\ data'.plain = data.plain /\ data'.headers = data.headers /\ data'.tools = data.tools
        /\ data'.client = data.client /\ data'.extra = data.extra /\ data'.template = data.template
    BY <1>1, <2>1 DEF DataFields
  <2>3. Untouched(data')
    BY <1>1, <2>2 DEF Untouched
  <2>4. QED
    BY <2>2, <2>3 DEF turns
<1>4. QED
  BY <1>2, <1>3

LEMMA PinData ==
    ASSUME RequestInvariant, Pin
    PROVE  \/ data' = data /\ at' = "done"
           \/ data' = data /\ at' = "classify" /\ ~IsCI
           \/ /\ at' = "classify"
              /\ DOMAIN data' = DataFields /\ DOMAIN data'.meta = MetaFields
              /\ data'.model = data.model /\ data'.top = data.top /\ data'.turns = data.turns
              /\ data'.meta.carriers = data.meta.carriers
              /\ Stripped(data') /\ ThinkingSet(data') /\ NothingHidden(data')
<1>1. CASE ~IsCI
  BY <1>1 DEF Pin
<1>2. CASE IsCI /\ Refusable
  BY <1>2 DEF Pin, Refuse, End
<1>3. CASE IsCI /\ ~Refusable
  <2>1. data' = PinnedData /\ at' = "classify"
    BY <1>3 DEF Pin
  <2>2. WellFormed(req)
    BY Served
  <2>3. req.family \in Families
    BY <1>3 DEF Refusable
  <2>4. DOMAIN data = DataFields /\ DOMAIN data.meta = MetaFields /\ Untouched(data) /\ data.model = req.data.model
    BY DEF RequestInvariant, Whole, PinsHold, Pin, Before
  <2>5. QED
    BY <2>1, <2>2, <2>3, <2>4, PinStrips
<1>4. QED
  BY <1>1, <1>2, <1>3

\* A log line changes nothing but the deployment that the exporters' copies name.
LEMMA LogData ==
    ASSUME RequestInvariant, NEW a \in unlogged, Log(a)
    PROVE  /\ at # "metrics"
           /\ DOMAIN data' = DataFields /\ DOMAIN data'.meta = MetaFields
           /\ data'.model = data.model /\ data'.top = data.top /\ data'.turns = data.turns
           /\ data'.plain = data.plain /\ data'.headers = data.headers /\ data'.tools = data.tools
           /\ data'.client = data.client /\ data'.extra = data.extra /\ data'.template = data.template
           /\ data'.meta.tags = data.meta.tags /\ data'.meta.inherited = data.meta.inherited
           /\ SharedCarriers(data'.meta)
<1>1. at # "metrics" /\ DOMAIN data = DataFields /\ DOMAIN data.meta = MetaFields /\ SharedCarriers(data.meta)
  BY DEF RequestInvariant, LinesHold, Whole
<1> DEFINE copies == [c \in Carriers |-> Updated(data.meta.carriers[c], [model |-> a.to])]
           top == Updated(data.meta.top, [model |-> a.to])
           named == ApplyDeploymentContract(data.meta, a.to)
           meta == [data.meta EXCEPT !.carriers = named.carriers]
<1>2. data' = [data EXCEPT !.meta = meta]
  BY DEF Log
<1>3. named = [data.meta EXCEPT !.top = top, !.carriers = copies]
  BY DEF ApplyDeploymentContract
<1>4. DOMAIN copies = Carriers /\ \A c \in Carriers : copies[c] = Updated(data.meta.carriers[c], [model |-> a.to])
  OBVIOUS
<1> HIDE DEF copies, top, named
<1>5. named.carriers = copies
  BY <1>1, <1>3 DEF MetaFields
<1>6. /\ DOMAIN meta = MetaFields /\ meta.carriers = copies
      /\ meta.tags = data.meta.tags /\ meta.inherited = data.meta.inherited
  BY <1>1, <1>5 DEF MetaFields
<1> HIDE DEF meta
<1>7. /\ DOMAIN data' = DataFields /\ data'.meta = meta
      /\ data'.model = data.model /\ data'.top = data.top /\ data'.turns = data.turns
      /\ data'.plain = data.plain /\ data'.headers = data.headers /\ data'.tools = data.tools
      /\ data'.client = data.client /\ data'.extra = data.extra /\ data'.template = data.template
  BY <1>1, <1>2 DEF DataFields
<1>8. \A c \in Carriers : Unnamed(copies[c]) = Unnamed(Stamped.carriers[c])
  BY <1>1, <1>4, NamedTwice DEF SharedCarriers
<1>9. SharedCarriers(meta)
  BY <1>4, <1>6, <1>8 DEF SharedCarriers
<1>10. QED
  BY <1>1, <1>6, <1>7, <1>9

\* What a route makes of the request, or of the attempt before.
LEMMA RouteCall ==
    ASSUME RequestInvariant, Route
    PROVE  /\ Keeps(call', data) /\ call'.top = <<>> /\ SystemFirst(call'.turns)
           /\ call'.thinking = Thinking /\ call'.settings = KeepsSettings(hop')
<1>1. /\ Keeps(data, req.data) /\ data.top = req.data.top
      /\ hop > 0 => Keeps(call, data) /\ call.top = <<>>
  BY DEF RequestInvariant, Conversed, Whole
<1>2. req.family \in {"responses", "anthropic"} \/ data.top = <<>>
  BY <1>1, Served DEF WellFormed
<1>3. PICK to \in Deployments, from \in {data} \union (IF hop > 0 /\ ~IsResponses THEN {call} ELSE {}) :
        LET hooked == DeploymentHook([top |-> from.top, turns |-> from.turns])
        IN  call' = [to |-> to, top |-> hooked.top, turns |-> hooked.turns,
                     thinking |-> Thinking, settings |-> KeepsSettings(hop')]
  BY DEF Route
<1> DEFINE c == [top |-> from.top, turns |-> from.turns]
           new == DeploymentHook(c)
<1>4. call'.top = new.top /\ call'.turns = new.turns
      /\ call'.thinking = Thinking /\ call'.settings = KeepsSettings(hop')
  BY <1>3
<1>5. Keeps(from, data) /\ (req.family \in {"responses", "anthropic"} \/ from.top = <<>>)
  <2>1. CASE from = data
    <3>1. Shape(data)
      BY <1>1 DEF Keeps
    <3>2. QED
      BY <1>2, <2>1, <3>1, KeepsItself
  <2>2. CASE from = call /\ hop > 0
    BY <1>1, <2>2
  <2>3. QED
    BY <1>3, <2>1, <2>2
<1>6. c \in Calls /\ c.top = from.top /\ c.turns = from.turns
  BY <1>5 DEF Calls, Keeps, Shape
<1>7. Keeps(new, c) /\ new.top = <<>> /\ SystemFirst(new.turns)
  BY <1>5, <1>6, HookKeeps
<1> HIDE DEF c, new
<1>8. Keeps(call', from)
  BY <1>4, <1>6, <1>7, KeepsParts
<1>9. Keeps(call', data)
  BY <1>5, <1>8, KeepsOn
<1>10. QED
  BY <1>4, <1>7, <1>9

LEMMA WholeKept == RequestInvariant /\ [RequestNext]_requestVars => Whole'
<1> SUFFICES ASSUME RequestInvariant, [RequestNext]_requestVars PROVE Whole'
  OBVIOUS
<1> USE DEF RequestInvariant, Whole
<1>0. ASSUME Stamped' = Stamped PROVE SharedCarriers(data.meta)' <=> SharedCarriers(data'.meta)
  BY <1>0 DEF SharedCarriers
<1>1. CASE Metrics
  <2>1. req' = req /\ at' # "metrics"
    BY <1>1 DEF Metrics, Refuse, End
  <2>2. Stamped' = Stamped
    BY <2>1 DEF Stamped, Key
  <2>3. QED
    BY <1>0, <1>1, <2>1, <2>2, MetricsData
<1>2. CASE Merge
  <2>1. req' = req /\ at # "metrics" /\ at' # "metrics"
    BY <1>2 DEF Merge
  <2>2. Stamped' = Stamped
    BY <2>1 DEF Stamped, Key
  <2>3. QED
    BY <1>0, <1>2, <2>1, <2>2, MergeData
<1>3. CASE Pin
  <2>1. req' = req /\ at # "metrics" /\ at' # "metrics"
    BY <1>3 DEF Pin, Refuse, End
  <2>2. Stamped' = Stamped
    BY <2>1 DEF Stamped, Key
  <2>3. CASE data' = data
    BY <2>1, <2>2, <2>3 DEF SharedCarriers
  <2>4. CASE data' # data
    <3>1. /\ DOMAIN data' = DataFields /\ DOMAIN data'.meta = MetaFields
          /\ data'.model = data.model /\ data'.top = data.top /\ data'.meta.carriers = data.meta.carriers
      BY <1>3, <2>4, PinData
    <3>2. SharedCarriers(data'.meta)
      BY <2>1, <3>1 DEF SharedCarriers
    <3>3. QED
      BY <1>0, <2>1, <2>2, <3>1, <3>2
  <2>5. QED
    BY <2>3, <2>4
<1>4. CASE PassClassify \/ RefuseUnread \/ Post \/ Route \/ Serve \/ Fail
  <2>1. req' = req /\ data' = data /\ at # "metrics" /\ at' # "metrics"
    BY <1>4 DEF PassClassify, RefuseUnread, Post, Route, Serve, Fail, Refuse, End
  <2>2. Stamped' = Stamped
    BY <2>1 DEF Stamped, Key
  <2>3. QED
    BY <1>0, <2>1, <2>2
<1>5. CASE UNCHANGED requestVars
  <2>1. req' = req /\ data' = data /\ at' = at
    BY <1>5 DEF requestVars
  <2>2. Stamped' = Stamped
    BY <2>1 DEF Stamped, Key
  <2>3. QED
    BY <1>0, <2>1, <2>2
<1>6. ASSUME NEW a \in unlogged, Log(a) PROVE Whole'
  <2>1. req' = req /\ at' = at /\ at # "metrics"
    BY <1>6, LogData DEF Log
  <2>2. Stamped' = Stamped
    BY <2>1 DEF Stamped, Key
  <2>3. /\ DOMAIN data' = DataFields /\ DOMAIN data'.meta = MetaFields
        /\ data'.model = data.model /\ data'.top = data.top /\ SharedCarriers(data'.meta)
    BY <1>6, LogData
  <2>4. QED
    BY <1>0, <2>1, <2>2, <2>3
<1>7. QED
  BY <1>1, <1>2, <1>3, <1>4, <1>5, <1>6 DEF RequestNext, Proceed

LEMMA ConversedKept == RequestInvariant /\ [RequestNext]_requestVars => Conversed'
<1> SUFFICES ASSUME RequestInvariant, [RequestNext]_requestVars PROVE Conversed'
  OBVIOUS
<1>1. /\ Keeps(data, req.data)
      /\ hop > 0 => Keeps(call, data) /\ call.top = <<>> /\ SystemFirst(call.turns)
  BY DEF RequestInvariant, Conversed
<1>2. ASSUME Keeps(data', req.data), req' = req, hop' = 0 PROVE Conversed'
  BY <1>2 DEF Conversed
<1>3. CASE Metrics
  <2>1. req' = req /\ hop' = 0
    BY <1>3 DEF Metrics, RequestInvariant, Counted, Before
  <2>2. data'.top = data.top /\ data'.turns = data.turns
    BY <1>3, MetricsData
  <2>3. Keeps(data', req.data)
    BY <1>1, <2>2, KeepsParts
  <2>4. QED
    BY <1>2, <2>1, <2>3
<1>4. CASE Merge
  <2>1. req' = req /\ hop' = 0
    BY <1>4 DEF Merge, RequestInvariant, Counted, Before
  <2>2. data'.top = data.top /\ (data'.turns = data.turns \/ data'.turns = MergeSystemMessages(data.turns))
    BY <1>4, MergeData
  <2>3. CASE data'.turns = data.turns
    <3>1. Keeps(data', req.data)
      BY <1>1, <2>2, <2>3, KeepsParts
    <3>2. QED
      BY <1>2, <2>1, <3>1
  <2>4. CASE data'.turns = MergeSystemMessages(data.turns)
    <3>1. Shape(data)
      BY <1>1 DEF Keeps
    <3>2. Keeps(data', data)
      BY <2>2, <2>4, <3>1, MergeKeeps
    <3>3. Keeps(data', req.data)
      BY <1>1, <3>2, KeepsOn
    <3>4. QED
      BY <1>2, <2>1, <3>3
  <2>5. QED
    BY <2>2, <2>3, <2>4
<1>5. CASE Pin
  <2>1. req' = req /\ hop' = 0
    BY <1>5 DEF Pin, RequestInvariant, Counted, Before
  <2>2. data'.top = data.top /\ data'.turns = data.turns
    BY <1>5, PinData
  <2>3. Keeps(data', req.data)
    BY <1>1, <2>2, KeepsParts
  <2>4. QED
    BY <1>2, <2>1, <2>3
<1>6. CASE Route
  <2>1. req' = req /\ data' = data
    BY <1>6 DEF Route
  <2>2. Keeps(call', data) /\ call'.top = <<>> /\ SystemFirst(call'.turns)
    BY <1>6, RouteCall
  <2>3. QED
    BY <1>1, <2>1, <2>2 DEF Conversed
<1>7. CASE \/ PassClassify \/ RefuseUnread \/ Post \/ Serve \/ Fail
           \/ UNCHANGED requestVars
  <2>1. req' = req /\ data' = data /\ hop' = hop /\ call' = call
    BY <1>7 DEF PassClassify, RefuseUnread, Post, Serve, Fail, requestVars
  <2>2. QED
    BY <1>1, <2>1 DEF Conversed
<1>8. ASSUME NEW a \in unlogged, Log(a) PROVE Conversed'
  <2>1. req' = req /\ hop' = hop /\ call' = call
    BY <1>8 DEF Log
  <2>2. data'.top = data.top /\ data'.turns = data.turns
    BY <1>8, LogData
  <2>3. Keeps(data', req.data) /\ (hop > 0 => Keeps(call, data'))
    BY <1>1, <2>2, KeepsParts
  <2>4. QED
    BY <1>1, <2>1, <2>3 DEF Conversed
<1>9. QED
  BY <1>3, <1>4, <1>5, <1>6, <1>7, <1>8 DEF RequestNext, Proceed

LEMMA CountedKept == RequestInvariant /\ [RequestNext]_requestVars => Counted'
<1> SUFFICES ASSUME RequestInvariant, [RequestNext]_requestVars PROVE Counted'
  OBVIOUS
<1>1. hop \in Nat /\ (at \in Before \cup {"classify"} => hop = 0) /\ (at = "sent" => hop > 0)
  BY DEF RequestInvariant, Counted
<1>2. CASE Metrics \/ Merge \/ Pin \/ PassClassify \/ RefuseUnread \/ Post
  <2>1. hop' = hop /\ at \in Before \cup {"classify"}
    BY <1>2 DEF Metrics, Merge, Pin, PassClassify, RefuseUnread, Post, Before
  <2>2. at' # "sent"
    BY <1>2 DEF Metrics, Merge, Pin, PassClassify, RefuseUnread, Post, Refuse, End
  <2>3. QED
    BY <1>1, <2>1, <2>2 DEF Counted
<1>3. CASE Route
  BY <1>1, <1>3 DEF Route, Counted, Before
<1>4. CASE Serve \/ Fail
  BY <1>1, <1>4 DEF Serve, Fail, End, Counted, Before
<1>5. CASE (\E a \in unlogged : Log(a)) \/ UNCHANGED requestVars
  BY <1>1, <1>5 DEF Log, requestVars, Counted
<1>6. QED
  BY <1>2, <1>3, <1>4, <1>5 DEF RequestNext, Proceed

LEMMA PinsKept == RequestInvariant /\ [RequestNext]_requestVars => PinsHold'
<1> SUFFICES ASSUME RequestInvariant, [RequestNext]_requestVars PROVE PinsHold'
  OBVIOUS
<1>1. /\ at \in Before => Untouched(data)
      /\ at \in Cleaned /\ IsCI => Stripped(data) /\ ThinkingSet(data)
      /\ at = "sent" => call.thinking = Thinking /\ call.settings = KeepsSettings(hop)
  BY DEF RequestInvariant, PinsHold
<1>2. req' = req
  BY DEF RequestNext, Proceed, Metrics, Merge, Pin, PassClassify, RefuseUnread, Post, Route, Serve, Fail, Log, requestVars
<1>3. /\ IsCI' = IsCI
      /\ Untouched(data)' <=> Untouched(data')
      /\ Stripped(data)' <=> Stripped(data')
      /\ ThinkingSet(data)' <=> ThinkingSet(data')
  BY <1>2 DEF IsCI, Key, Untouched, Stripped, ThinkingSet
<1>4. CASE Metrics \/ Merge
  <2>1. Untouched(data')
    BY <1>4, MetricsData, MergeData
  <2>2. at' \notin Cleaned
    BY <1>4 DEF Metrics, Merge, Refuse, End, Cleaned
  <2>3. QED
    BY <1>3, <2>1, <2>2 DEF PinsHold, Cleaned
<1>5. CASE Pin
  <2>1. at' \notin Before /\ at' # "sent"
    BY <1>5 DEF Pin, Refuse, End, Before
  <2>2. at' \in Cleaned /\ IsCI => Stripped(data') /\ ThinkingSet(data')
    BY <1>5, PinData DEF Cleaned
  <2>3. QED
    BY <1>3, <2>1, <2>2 DEF PinsHold
<1>6. CASE \/ PassClassify \/ RefuseUnread \/ Post \/ Route \/ Serve \/ Fail
           \/ UNCHANGED requestVars
  <2>1. data' = data
    BY <1>6 DEF PassClassify, RefuseUnread, Post, Route, Serve, Fail, requestVars
  <2>2. at' \in Before => at' = at
    BY <1>6 DEF PassClassify, RefuseUnread, Post, Route, Serve, Fail, Refuse, End, requestVars, Before
  <2>3. at' \in Cleaned => at \in Cleaned
    BY <1>6 DEF PassClassify, RefuseUnread, Post, Route, Serve, Fail, Refuse, End, requestVars, Cleaned
  <2>4. at' = "sent" => call'.thinking = Thinking /\ call'.settings = KeepsSettings(hop')
    <3>1. CASE Route
      BY <3>1, RouteCall
    <3>2. CASE ~Route
      <4>1. at' = "sent" => at = "sent" /\ call' = call /\ hop' = hop
        BY <1>6, <3>2 DEF PassClassify, RefuseUnread, Post, Serve, Fail, Refuse, End, requestVars
      <4>2. QED
        BY <1>1, <4>1
    <3>3. QED
      BY <3>1, <3>2
  <2>5. Thinking' = Thinking /\ KeepsSettings(hop)' = KeepsSettings(hop')
    BY <2>1 DEF Thinking, KeepsSettings
  <2>6. /\ at' \in Before => Untouched(data')
        /\ at' \in Cleaned /\ IsCI => Stripped(data') /\ ThinkingSet(data')
    BY <1>1, <2>1, <2>2, <2>3
  <2>7. QED
    BY <1>3, <2>4, <2>5, <2>6 DEF PinsHold
<1>7. ASSUME NEW a \in unlogged, Log(a) PROVE PinsHold'
  <2>1. at' = at /\ call' = call /\ hop' = hop
    BY <1>7 DEF Log
  <2>2. /\ data'.plain = data.plain /\ data'.headers = data.headers /\ data'.tools = data.tools
        /\ data'.client = data.client /\ data'.extra = data.extra /\ data'.template = data.template
        /\ data'.meta.tags = data.meta.tags /\ data'.meta.inherited = data.meta.inherited
    BY <1>7, LogData
  <2>3. /\ Untouched(data) => Untouched(data')
        /\ Stripped(data) => Stripped(data')
        /\ ThinkingSet(data) => ThinkingSet(data')
    BY <2>2 DEF Untouched, Stripped, ThinkingSet
  <2>4. Thinking' = Thinking /\ KeepsSettings(hop)' = KeepsSettings(hop)
    BY <2>1, <2>2 DEF Thinking, KeepsSettings
  <2>5. QED
    BY <1>1, <1>3, <2>1, <2>3, <2>4 DEF PinsHold
<1>8. QED
  BY <1>4, <1>5, <1>6, <1>7 DEF RequestNext, Proceed

LEMMA ClearedKept == RequestInvariant /\ [RequestNext]_requestVars => ClearedHolds'
<1> SUFFICES ASSUME RequestInvariant, [RequestNext]_requestVars PROVE ClearedHolds'
  OBVIOUS
<1>1. /\ NothingHidden(data)
      /\ Inspected /\ at \in {"route", "sent"} => ScannedText(data) \subseteq cleared /\ Readable(data)
  BY DEF RequestInvariant, ClearedHolds
<1>2. req' = req
  BY DEF RequestNext, Proceed, Metrics, Merge, Pin, PassClassify, RefuseUnread, Post, Route, Serve, Fail, Log, requestVars
<1>3. /\ Inspected' = Inspected
      /\ NothingHidden(data)' <=> NothingHidden(data')
      /\ ScannedText(data)' = ScannedText(data')
      /\ Readable(data)' <=> Readable(data')
  BY <1>2 DEF Inspected, Key, NothingHidden, UnscannedFields, ScannedText, Readable
<1>4. CASE Metrics \/ Merge
  <2>1. at' \notin {"route", "sent"}
    BY <1>4 DEF Metrics, Merge, Refuse, End
  <2>2. Untouched(data')
    BY <1>4, MetricsData, MergeData
  <2>3. NothingHidden(data')
    BY <2>2 DEF Untouched, NothingHidden, UnscannedFields
  <2>4. QED
    BY <1>3, <2>1, <2>3 DEF ClearedHolds
<1>5. CASE Pin
  <2>1. at' \notin {"route", "sent"}
    BY <1>5 DEF Pin, Refuse, End
  <2>2. NothingHidden(data')
    BY <1>1, <1>5, PinData
  <2>3. QED
    BY <1>3, <2>1, <2>2 DEF ClearedHolds
<1>6. CASE PassClassify
  BY <1>1, <1>3, <1>6 DEF PassClassify, ClearedHolds
<1>7. CASE Post
  <2>1. data' = data /\ Readable(data)
    BY <1>7 DEF Post, Postable
  <2>2. at' \in {"route", "sent"} => cleared' = ScannedText(data)
    BY <1>7 DEF Post, Refuse, End
  <2>3. QED
    BY <1>1, <1>3, <2>1, <2>2 DEF ClearedHolds
<1>8. CASE RefuseUnread \/ Serve \/ Route \/ Fail \/ UNCHANGED requestVars
  <2>1. data' = data /\ cleared' = cleared
    BY <1>8 DEF RefuseUnread, Serve, Route, Fail, requestVars
  <2>2. at' \in {"route", "sent"} => at \in {"route", "sent"}
    BY <1>8 DEF RefuseUnread, Serve, Route, Fail, Refuse, End, requestVars
  <2>3. QED
    BY <1>1, <1>3, <2>1, <2>2 DEF ClearedHolds
<1>9. ASSUME NEW a \in unlogged, Log(a) PROVE ClearedHolds'
  <2>1. at' = at /\ cleared' = cleared
    BY <1>9 DEF Log
  <2>2. /\ data'.top = data.top /\ data'.turns = data.turns /\ data'.tools = data.tools
        /\ data'.plain = data.plain /\ data'.client = data.client /\ data'.extra = data.extra
    BY <1>9, LogData
  <2>3. /\ ScannedText(data') = ScannedText(data) /\ (Readable(data) => Readable(data'))
        /\ UnscannedFields(data') = UnscannedFields(data)
    BY <2>2 DEF ScannedText, Readable, UnscannedFields
  <2>4. QED
    BY <1>1, <1>3, <2>1, <2>3 DEF ClearedHolds, NothingHidden
<1>10. QED
  BY <1>4, <1>5, <1>6, <1>7, <1>8, <1>9 DEF RequestNext, Proceed

LEMMA LinesKept == RequestInvariant /\ [RequestNext]_requestVars => LinesHold'
<1> SUFFICES ASSUME RequestInvariant, [RequestNext]_requestVars PROVE LinesHold'
  OBVIOUS
<1> DEFINE Passed == ~LacksBenchmark(Stamped, Key)
<1>1. /\ at = "metrics" => unlogged = {} /\ records = {}
      /\ at \in {"merge", "pin"} \cup Cleaned \/ hop > 0 => Passed
      /\ \A a \in unlogged : a.hop > 0 => hop > 0
      /\ \A r \in records : r.line = LineOf(r.a) /\ (r.a.hop > 0 => hop > 0)
  BY DEF RequestInvariant, LinesHold
<1>2. req' = req
  BY DEF RequestNext, Proceed, Metrics, Merge, Pin, PassClassify, RefuseUnread, Post, Route, Serve, Fail, Log, requestVars
<1>3. Passed' = Passed /\ \A a : LineOf(a)' = LineOf(a)
  BY <1>2 DEF Stamped, LineOf, Key
<1>4. hop \in Nat
  BY DEF RequestInvariant, Counted
<1> HIDE DEF Passed
<1>5. /\ LinesHold' <=> /\ at' = "metrics" => unlogged' = {} /\ records' = {}
                        /\ at' \in {"merge", "pin"} \cup Cleaned \/ hop' > 0 => Passed'
                        /\ \A a \in unlogged' : a.hop > 0 => hop' > 0
                        /\ \A r \in records' : r.line = LineOf(r.a) /\ (r.a.hop > 0 => hop' > 0)
  BY <1>3 DEF LinesHold, Passed
<1>6. CASE Metrics
  <2>1. data'.meta = Stamped
    BY <1>6, MetricsData
  <2>2. hop' = 0 /\ records' = {} /\ at' # "metrics"
    BY <1>1, <1>6 DEF Metrics, Refuse, End, RequestInvariant, Counted, Before
  <2>3. at' \in {"merge", "pin"} \cup Cleaned => Passed
    BY <1>6, <2>1 DEF Metrics, Refuse, End, Cleaned, Passed
  <2>4. \A a \in unlogged' : a.hop = 0
    BY <1>1, <1>6 DEF Metrics, Refuse
  <2>5. QED
    BY <1>3, <1>5, <2>2, <2>3, <2>4
<1>7. CASE Merge \/ Pin \/ PassClassify \/ RefuseUnread \/ Post \/ Route
  <2>1. at \in {"merge", "pin"} \cup Cleaned /\ records' = records /\ at' # "metrics"
    BY <1>7 DEF Merge, Pin, PassClassify, RefuseUnread, Post, Route, Refuse, End, Cleaned
  <2>2. \A a \in unlogged' : a \in unlogged \/ a.hop = 0
    BY <1>7 DEF Merge, Pin, PassClassify, RefuseUnread, Post, Route, Refuse
  <2>3. hop' \in Nat /\ (hop > 0 => hop' > 0)
    BY <1>4, <1>7 DEF Merge, Pin, PassClassify, RefuseUnread, Post, Route
  <2>4. \A a \in unlogged' : a.hop > 0 => hop' > 0
    BY <1>1, <2>2, <2>3
  <2>5. QED
    BY <1>1, <1>3, <1>5, <2>1, <2>3, <2>4
<1>8. CASE Serve \/ Fail
  <2>1. hop > 0 /\ hop' = hop /\ records' = records /\ at' # "metrics"
    BY <1>8 DEF Serve, Fail, End, RequestInvariant, Counted
  <2>2. QED
    BY <1>1, <1>3, <1>5, <2>1
<1>9. CASE \E a \in unlogged : Log(a)
  <2>1. PICK a \in unlogged : Log(a)
    BY <1>9
  <2>2. at' = at /\ hop' = hop /\ at # "metrics" /\ unlogged' \subseteq unlogged
    BY <1>1, <2>1 DEF Log
  <2> DEFINE line == BuildRecord(ApplyDeploymentContract(data.meta, a.to), req.model, a.status)
             new == [a |-> a, line |-> line]
  <2>3. records' = records \cup {new}
    BY <2>1 DEF Log
  <2>4. line = LineOf(a)
    <3>1. DOMAIN data.meta = MetaFields /\ SharedCarriers(data.meta) /\ DOMAIN req.data.meta = MetaFields
      BY <2>2, Served DEF RequestInvariant, Whole, WellFormed
    <3>2. DOMAIN Stamped = MetaFields
      BY <3>1, TraceStamps DEF Stamped
    <3> DEFINE sent == Updated(Stamped.carriers["requester_metadata"], [model |-> a.to])
               said == [status |-> a.status, model |-> Or(ValueOf(sent, "model"), req.model),
                        key_alias |-> ValueOf(sent, "key_alias"),
                        said |-> Only(sent, RecordFields \ {"model", "key_alias"})]
    <3> HIDE DEF Stamped
    <3>6. Updated(data.meta.carriers["requester_metadata"], [model |-> a.to]) = sent
      BY <3>1, NamedAgain DEF SharedCarriers, Carriers
    <3>3. line = said
      BY <3>1, <3>6, LineFromCopies
    <3>4. LineOf(a) = said
      BY <3>2, LineFromCopies DEF LineOf
    <3>5. QED
      BY <3>3, <3>4
  <2> HIDE DEF line
  <2>5. new.a = a /\ new.line = LineOf(a)
    BY <2>4
  <2> HIDE DEF new
  <2>6. \A r \in records' : r.line = LineOf(r.a) /\ (r.a.hop > 0 => hop > 0)
    BY <1>1, <2>3, <2>5
  <2>7. QED
    BY <1>1, <1>3, <1>5, <2>2, <2>6
<1>10. CASE UNCHANGED requestVars
  BY <1>1, <1>3, <1>5, <1>10 DEF requestVars
<1>11. QED
  BY <1>6, <1>7, <1>8, <1>9, <1>10 DEF RequestNext, Proceed

LEMMA RequestSteps == RequestInvariant /\ [RequestNext]_requestVars => RequestInvariant'
  BY WholeKept, ConversedKept, CountedKept, PinsKept, ClearedKept, LinesKept DEF RequestInvariant

\* The callbacks keep the invariant, in whatever order deployments fail and lines are written.
THEOREM RequestSafe == RequestSpec => []RequestInvariant
<1>1. QED
  BY RequestSteps, FirstHolds, PTL DEF RequestSpec

(***************************************************************************)
(* What follows                                                            *)
(***************************************************************************)
\* Whatever the hooks and bridges rebuild after the classifier's answer, no message and no
\* tool of an untrusted key that may leave the site reaches a deployment uncleared, and
\* what leaves unread is only what the client put into the fields the classifier skips.
THEOREM OnlyClearedLeaves == RequestSpec => []ClearedOnly
<1>1. RequestInvariant => ClearedOnly
  <2> SUFFICES ASSUME RequestInvariant, at = "sent", Inspected
               PROVE  /\ Pieces(Contents(call.turns)) \union data.tools \subseteq cleared
                      /\ \A b \in Blocks(Contents(call.turns)) : b.kind = "text"
                      /\ UnscannedFields(data) \subseteq UnscannedFields(req.data)
    BY DEF ClearedOnly, Inspected
  <2>1. ScannedText(data) \subseteq cleared /\ Readable(data) /\ NothingHidden(data)
    BY DEF RequestInvariant, ClearedHolds
  <2>2. SaysNoMore(call, data)
    BY DEF RequestInvariant, Counted, Conversed, Keeps
  <2>3. Said(data) \subseteq cleared /\ data.tools \subseteq cleared
    BY <2>1 DEF ScannedText, Said
  <2>4. \A b \in AllBlocks(call) : b.kind = "text"
    BY <2>1, <2>2 DEF SaysNoMore, Readable, AllBlocks
  <2>5. QED
    BY <2>1, <2>2, <2>3, <2>4 DEF SaysNoMore, Said, AllBlocks, NothingHidden
<1>2. QED
  BY <1>1, RequestSafe, PTL

\* However a request came in and however often it fell back, a deployment gets the
\* conversation that was meant, in the form its template takes, with the chosen thinking.
THEOREM DeploymentsServe == RequestSpec => []ServableRequest
<1>1. RequestInvariant => ServableRequest
  <2> SUFFICES ASSUME RequestInvariant, at = "sent" PROVE ServableRequest
    BY DEF ServableRequest, OneLeadingSystem, ConversationKept, ThinkingReaches
  <2>1. Keeps(call, data) /\ Keeps(data, req.data) /\ call.top = <<>> /\ SystemFirst(call.turns)
    BY DEF RequestInvariant, Counted, Conversed
  <2>2. OneLeadingSystem
    BY <2>1 DEF OneLeadingSystem, SystemOf, SystemFirst
  <2>3. ConversationKept
    BY <2>1, KeepsOn DEF ConversationKept, Keeps
  <2>4. ThinkingReaches
    <3> DEFINE chosen == req.data.extra.template \in {"on", "off"}
    <3> SUFFICES ASSUME IsCI, req.family = "chat", req.data.model \in ThinkingOffModels
                 PROVE  /\ call.thinking = IF chosen THEN req.data.extra.template ELSE "off"
                        /\ ~chosen => call.settings
      BY DEF ThinkingReaches
    <3>1. ThinkingSet(data) /\ call.thinking = Thinking /\ call.settings = KeepsSettings(hop)
      BY DEF RequestInvariant, PinsHold, Cleaned
    <3>2. IF chosen THEN data.template = "absent" /\ data.extra.template = req.data.extra.template
                    ELSE data.template = "off" /\ data.extra = NoExtra
      BY <3>1 DEF ThinkingSet
    <3>3. QED
      BY <3>1, <3>2 DEF Thinking, KeepsSettings
  <2>5. QED
    BY <2>2, <2>3, <2>4 DEF ServableRequest
<1>2. QED
  BY <1>1, RequestSafe, PTL

\* Whatever the client wrote in its metadata and however late a line is written, the key
\* decides what it says, what a benchmark must say, and what a CI request carries.
THEOREM TheKeyDecides == RequestSpec => []KeyDecides
<1>1. RequestInvariant => KeyDecides
  <2> SUFFICES ASSUME RequestInvariant PROVE KeyDecides
    OBVIOUS
  <2>1. WellFormed(req)
    BY Served
  <2>2. DOMAIN req.data.meta = MetaFields /\ Key.required \subseteq RecordFields \ {"model", "key_alias"}
    BY <2>1 DEF WellFormed, Key
  <2>3. \A r \in records : r.line = LineOf(r.a) /\ (r.a.hop > 0 => ~LacksBenchmark(Stamped, Key))
    BY DEF RequestInvariant, LinesHold
  <2>4. Attributed
    <3>1. ASSUME NEW r \in records
          PROVE  /\ r.line.key_alias = Key.alias /\ r.line.model = Or(r.a.to, req.model)
                 /\ r.line.said["privacy_class"] = IF Key.public THEN "public" ELSE "private"
                 /\ r.line.said["session_id"] = Contract(TopContract(req.data.meta.top, Key), Key)["session_id"]
      BY <2>2, <2>3, StampedSays
    <3>2. QED
      BY <3>1 DEF Attributed
  <2>5. BenchmarksSayWhat
    <3> SUFFICES ASSUME IsBenchmark(Key), NEW r \in records, r.a.hop > 0 PROVE Key.required \subseteq DOMAIN r.line.said
      BY DEF BenchmarksSayWhat
    <3>1. QED
      BY <2>2, <2>3, StampedSays
  <2>6. CIRequestPinned
    <3> SUFFICES ASSUME at = "sent", IsCI
                 PROVE  Stripped(data)
      BY DEF CIRequestPinned, Stripped
    <3>1. QED
      BY DEF RequestInvariant, PinsHold, Cleaned
  <2>7. QED
    BY <2>4, <2>5, <2>6 DEF KeyDecides
<1>2. QED
  BY <1>1, RequestSafe, PTL

(***************************************************************************)
(* Types.  Each attempt is logged at most once, so that lines are bounded  *)
(* by the deployments that may be tried.                                   *)
(***************************************************************************)
Attempts == [hop : 0..MaxHops, to : Deployments \union {None}, status : {"success", "failure"}]
LoggedOrNot == unlogged \union {r.a : r \in records}

StepHolds ==
    /\ at \in Steps
    /\ posts \in 0..2 /\ (at \in Before => posts = 0) /\ (at = "classify" => posts < 2)
    /\ hop \in 0..MaxHops /\ (at = "route" => hop < MaxHops)
    /\ call.to \in Deployments \union {None}
    /\ DOMAIN answer = {"status", "lane"} /\ answer.status \in Answers
    /\ answer.status # "none" <=> at = "done"
\* An attempt is waiting for its line or has it; the one under way has neither.
AttemptsHold ==
    /\ LoggedOrNot \subseteq Attempts
    /\ \A a \in LoggedOrNot : a.hop <= hop /\ (at = "sent" => a.hop < hop) /\ (a.hop = 0 => at = "done")
    /\ \A a, b \in LoggedOrNot : a.hop = b.hop => a = b
    /\ \A r \in records : r.a \notin unlogged
    /\ \A q, r \in records : q.a = r.a => q = r
TypesHold == StepHolds /\ AttemptsHold

LEMMA TypesStart == RequestInit => TypesHold
<1> SUFFICES ASSUME RequestInit PROVE TypesHold
  OBVIOUS
<1>1. /\ at = "metrics" /\ posts = 0 /\ hop = 0 /\ call.to = None /\ unlogged = {} /\ records = {}
      /\ answer = [status |-> "none", lane |-> None]
  BY DEF RequestInit
<1>2. StepHolds
  BY <1>1, RequestAssumption DEF StepHolds, Steps, Before, Answers
<1>3. LoggedOrNot = {}
  BY <1>1 DEF LoggedOrNot
<1>4. QED
  BY <1>1, <1>2, <1>3 DEF TypesHold, AttemptsHold

LEMMA EndIs ==
    ASSUME DOMAIN answer = {"status", "lane"}, NEW status, End(status)
    PROVE  at' = "done" /\ DOMAIN answer' = {"status", "lane"} /\ answer'.status = status
  BY DEF End

LEMMA StepsHold == ASSUME RequestInvariant, TypesHold, [RequestNext]_requestVars PROVE StepHolds'
<1> USE RequestAssumption DEF TypesHold, StepHolds, Steps, Before, Answers
<1>1. hop \in 0..MaxHops /\ MaxHops \in Nat \ {0}
  OBVIOUS
<1>2. at \in Before \cup {"classify"} => hop = 0
  BY DEF RequestInvariant, Counted
<1>3. CASE Metrics
  BY <1>2, <1>3, EndIs DEF Metrics, Refuse
<1>4. CASE Merge \/ PassClassify
  BY <1>2, <1>4 DEF Merge, PassClassify
<1>5. CASE Pin
  BY <1>2, <1>5, EndIs DEF Pin, Refuse
<1>6. CASE RefuseUnread
  BY <1>2, <1>6, EndIs DEF RefuseUnread, Refuse
<1>7. CASE Post
  <2>1. posts \in 0..1 /\ posts' = posts + 1 /\ hop' = 0 /\ hop = 0 /\ call' = call /\ at = "classify"
    BY <1>2, <1>7 DEF Post
  <2>2. CASE at' = "route" /\ UNCHANGED answer
    BY <2>1, <2>2
  <2>3. CASE Refuse("refused")
    BY <2>1, <2>3, EndIs DEF Refuse
  <2>4. CASE OneTimeout /\ UNCHANGED <<at, answer>>
    BY <2>1, <2>4 DEF OneTimeout
  <2>5. QED
    BY <1>7, <2>2, <2>3, <2>4 DEF Post
<1>8. CASE Route
  BY <1>1, <1>8 DEF Route
<1>9. CASE Serve
  BY <1>9 DEF Serve
<1>10. CASE Fail
  <2>1. CASE hop < MaxHops
    BY <1>10, <2>1 DEF Fail
  <2>2. CASE ~(hop < MaxHops)
    BY <1>10, <2>2, EndIs DEF Fail
  <2>3. QED
    BY <2>1, <2>2
<1>11. CASE (\E a \in unlogged : Log(a)) \/ UNCHANGED requestVars
  BY <1>11 DEF Log, requestVars
<1>12. QED
  BY <1>3, <1>4, <1>5, <1>6, <1>7, <1>8, <1>9, <1>10, <1>11 DEF RequestNext, Proceed

LEMMA AttemptsStay == ASSUME RequestInvariant, TypesHold, [RequestNext]_requestVars PROVE AttemptsHold'
<1>1. hop \in Nat /\ (at \in Before \cup {"classify"} => hop = 0) /\ (at = "sent" => hop > 0)
  BY DEF RequestInvariant, Counted
<1>2. LoggedOrNot \subseteq Attempts /\ \A a \in LoggedOrNot : a.hop \in Nat
  BY DEF TypesHold, AttemptsHold, Attempts
<1>3. ASSUME Refuse("refused") \/ Refuse("invalid"), at \in Before \cup {"classify"}, UNCHANGED <<hop, records>>
      PROVE  AttemptsHold'
  <2> DEFINE refused == [hop |-> 0, to |-> None, status |-> "failure"]
  <2>1. LoggedOrNot = {}
    <3>1. ASSUME NEW a \in LoggedOrNot PROVE FALSE
      <4>1. a.hop = 0
        BY <1>1, <1>2, <1>3 DEF TypesHold, AttemptsHold
      <4>2. QED
        BY <1>3, <4>1 DEF TypesHold, AttemptsHold, Before
    <3>2. QED
      BY <3>1
  <2>2. records' = {} /\ unlogged' = {refused} /\ at' = "done" /\ hop' = 0
    BY <1>1, <1>3, <2>1 DEF LoggedOrNot, Refuse, End
  <2>3. LoggedOrNot' = {refused} /\ refused.hop = 0 /\ refused \in Attempts
    BY <2>2, RequestAssumption DEF LoggedOrNot, Attempts
  <2> HIDE DEF refused
  <2>4. QED
    BY <2>2, <2>3 DEF AttemptsHold
<1>4. ASSUME UNCHANGED <<hop, unlogged, records>>, at # "done", at' # "sent" PROVE AttemptsHold'
  <2>1. LoggedOrNot' = LoggedOrNot
    BY <1>4 DEF LoggedOrNot
  <2>2. \A a \in LoggedOrNot : a.hop # 0
    BY <1>4 DEF TypesHold, AttemptsHold
  <2>3. QED
    BY <1>4, <2>1, <2>2 DEF TypesHold, AttemptsHold
<1>5. CASE Metrics
  BY <1>3, <1>4, <1>5 DEF Metrics, Before
<1>6. CASE Merge \/ PassClassify
  BY <1>4, <1>6 DEF Merge, PassClassify
<1>7. CASE Pin
  BY <1>3, <1>4, <1>7 DEF Pin, Before
<1>8. CASE RefuseUnread
  BY <1>3, <1>8 DEF RefuseUnread
<1>9. CASE Post
  BY <1>3, <1>4, <1>9 DEF Post
<1>10. CASE Route
  <2>1. hop' = hop + 1 /\ at' = "sent" /\ at = "route" /\ LoggedOrNot' = LoggedOrNot /\ UNCHANGED <<unlogged, records>>
    BY <1>10 DEF Route, LoggedOrNot
  <2>2. \A a \in LoggedOrNot : a.hop <= hop /\ a.hop # 0
    BY <2>1 DEF TypesHold, AttemptsHold
  <2>3. \A a \in LoggedOrNot : a.hop <= hop' /\ a.hop < hop'
    BY <1>1, <1>2, <2>1, <2>2
  <2>4. QED
    BY <2>1, <2>2, <2>3 DEF TypesHold, AttemptsHold
<1>11. CASE Serve \/ Fail
  <2>1. PICK status \in {"success", "failure"} :
            /\ unlogged' = unlogged \union {Attempt(status)}
            /\ at = "sent" /\ at' # "sent" /\ UNCHANGED <<hop, records>>
    BY <1>11 DEF Serve, Fail, End
  <2> DEFINE new == Attempt(status)
  <2>2. new.hop = hop /\ hop > 0 /\ new \in Attempts
    BY <1>1, <2>1 DEF Attempt, Attempts, TypesHold, StepHolds
  <2> HIDE DEF new
  <2>3. unlogged' = unlogged \union {new} /\ LoggedOrNot' = LoggedOrNot \union {new}
    BY <2>1 DEF LoggedOrNot, new
  <2>4. \A a \in LoggedOrNot : a.hop < hop /\ a.hop # 0
    BY <2>1 DEF TypesHold, AttemptsHold
  <2>5. \A a \in LoggedOrNot : a.hop # hop /\ a.hop <= hop
    BY <1>1, <1>2, <2>4
  <2>6. \A r \in records : r.a \in LoggedOrNot
    BY DEF LoggedOrNot
  <2>7. \A r \in records : r.a # new
    BY <2>2, <2>5, <2>6
  <2>8. \A r \in records' : r.a \notin unlogged'
    BY <2>1, <2>3, <2>7 DEF TypesHold, AttemptsHold
  <2>9. \A a, b \in LoggedOrNot' : a.hop = b.hop => a = b
    BY <2>2, <2>3, <2>5 DEF TypesHold, AttemptsHold
  <2>10. \A a \in LoggedOrNot' : a.hop <= hop /\ a.hop # 0
    BY <1>1, <2>2, <2>3, <2>4, <2>5
  <2>11. QED
    BY <1>2, <2>1, <2>2, <2>3, <2>8, <2>9, <2>10 DEF TypesHold, AttemptsHold
<1>12. ASSUME NEW a \in unlogged, Log(a) PROVE AttemptsHold'
  <2>1. PICK new : /\ new.a = a /\ records' = records \union {new} /\ unlogged' = unlogged \ {a}
                   /\ UNCHANGED <<at, hop>>
    <3> DEFINE new == [a |-> a, line |-> BuildRecord(ApplyDeploymentContract(data.meta, a.to), req.model, a.status)]
    <3>1. new.a = a /\ records' = records \union {new} /\ unlogged' = unlogged \ {a} /\ UNCHANGED <<at, hop>>
      BY <1>12 DEF Log
    <3> HIDE DEF new
    <3>2. QED
      BY <3>1
  <2>2. LoggedOrNot' = LoggedOrNot
    BY <2>1 DEF LoggedOrNot
  <2>3. \A r \in records : r.a # a /\ r.a \notin unlogged
    BY DEF TypesHold, AttemptsHold
  <2>4. \A r \in records' : r.a \notin unlogged'
    BY <2>1, <2>3
  <2>5. \A q, r \in records' : q.a = r.a => q = r
    BY <2>1, <2>3 DEF TypesHold, AttemptsHold
  <2>6. QED
    BY <2>1, <2>2, <2>4, <2>5 DEF TypesHold, AttemptsHold
<1>13. CASE UNCHANGED requestVars
  <2>1. LoggedOrNot' = LoggedOrNot /\ UNCHANGED <<at, hop, unlogged, records>>
    BY <1>13 DEF LoggedOrNot, requestVars
  <2>2. QED
    BY <2>1 DEF TypesHold, AttemptsHold
<1>14. QED
  BY <1>5, <1>6, <1>7, <1>8, <1>9, <1>10, <1>11, <1>12, <1>13 DEF RequestNext, Proceed

\* A line for each of the numbers up to MaxHops, and no more.
LEMMA LinesAreFew == ASSUME TypesHold PROVE Cardinality(records) <= MaxHops + 1
<1> DEFINE hopOf == [r \in records |-> r.a.hop]
<1>1. \A r \in records : r.a.hop \in 0..MaxHops
  BY DEF TypesHold, AttemptsHold, LoggedOrNot, Attempts
<1>2. \A q, r \in records : q.a.hop = r.a.hop => q = r
  BY DEF TypesHold, AttemptsHold, LoggedOrNot
<1>3. hopOf \in [records -> 0..MaxHops] /\ \A q, r \in records : hopOf[q] = hopOf[r] => q = r
  BY <1>1, <1>2
<1>4. hopOf \in Injection(records, 0..MaxHops)
  BY <1>3 DEF Injection, IsInjective
<1>5. IsFiniteSet(0..MaxHops) /\ Cardinality(0..MaxHops) = MaxHops + 1
  BY FS_Interval, RequestAssumption
<1> HIDE DEF hopOf
<1>6. Cardinality(records) <= Cardinality(0..MaxHops)
  BY <1>4, <1>5, FS_Injection
<1>7. QED
  BY <1>5, <1>6

LEMMA RequestHasTypes == TypesHold => RequestTypeOK
<1> SUFFICES ASSUME TypesHold PROVE RequestTypeOK
  OBVIOUS
<1>1. unlogged \subseteq Attempts
  BY DEF TypesHold, AttemptsHold, LoggedOrNot
<1>2. QED
  BY <1>1, LinesAreFew DEF RequestTypeOK, TypesHold, StepHolds, Attempts

\* A request is at a step, within its calls of the classifier and its deployments, answered
\* exactly when it is done, and has no more log lines than attempts.
THEOREM RequestTypesHold == RequestSpec => []RequestTypeOK
<1>1. RequestInit => RequestInvariant /\ TypesHold
  BY FirstHolds, TypesStart
<1>2. RequestInvariant /\ TypesHold /\ [RequestNext]_requestVars => RequestInvariant' /\ TypesHold'
  BY RequestSteps, StepsHold, AttemptsStay DEF TypesHold
<1>3. QED
  BY <1>1, <1>2, RequestHasTypes, PTL DEF RequestSpec
=============================================================================
