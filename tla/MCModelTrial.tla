----------------------------- MODULE MCModelTrial -----------------------------
(* A small instance of ModelTrial: a trial that is in order, and each part of it *)
(* replaced by what the part can be. *)
EXTENDS ModelTrial

Info(bases, created) == [bases |-> bases, created |-> created, valid |-> TRUE, renamed |-> FALSE]
NoHub == [q |-> Info(<<"b">>, 9)]
Hubs == {[q |-> Info(<<"b">>, 9), b |-> Info(<<>>, b), c |-> Info(bc, c), d |-> d] :
            b \in {0, 5, 6}, c \in {4, 6}, bc \in {<<>>, <<"d">>},
            d \in {Info(<<>>, 5), Info(<<"c">>, 5), [Info(<<>>, 5) EXCEPT !.valid = FALSE],
                  [Info(<<>>, 5) EXCEPT !.renamed = TRUE]}}
Merges == {[h EXCEPT !.q.bases = <<"b", "c">>] : h \in Hubs}
Chain == [q |-> Info(<<"b">>, 9), b |-> Info(<<"c", "d">>, 8), c |-> Info(<<"e">>, 7), d |-> Info(<<"e">>, 7), e |-> Info(<<>>, 5)]
Loops == {[Chain EXCEPT !.e.bases = <<x>>] : x \in {"q", "b", "unknown"}}
AllHubs == Hubs \union Merges \union {NoHub, Chain} \union Loops

Record(up, created) == [id |-> "q", upstream_id |-> up, upstream_created |-> created, dossier |-> "complete"]
Policy(models) == [version |-> 1, as_of |-> 6, max_age_days |-> 3, deny |-> {}, models |-> models]
PlainPolicy == Policy({Record("b", 5)})
Policies == {Policy({Record(u, c)}) : u \in {"b", "c", "d", "e"}, c \in {4, 5, 6}}
            \union {Policy({}), Policy({Record("b", 5), Record("c", 6)}), Policy({[Record("b", 5) EXCEPT !.dossier = "partial"]}),
                    [PlainPolicy EXCEPT !.deny = {"q"}], [PlainPolicy EXCEPT !.as_of = 8], [PlainPolicy EXCEPT !.version = 0]}

Blob(name, kind, size) == [name |-> name, kind |-> kind, size |-> size, label |-> 0, bits |-> 0, shard |-> <<>>]
Quant(name, size, label, bits, shard) ==
    [Blob(name, "gguf", size) EXCEPT !.label = label, !.bits = bits, !.shard = shard]
Card == Blob("README.md", "metadata", 1)
Config == Blob("config.json", "metadata", 1)
Big == Blob("notes", "metadata", 9)
Tensors(n) == Blob(n, "safetensors", 5)
Dense == {Card, Config, Big, Tensors("t1"), Tensors("t2")}
Head4(name) == [Blob(name, "mtp", 1) EXCEPT !.label = 4]
Trees == {Dense, {}, Dense \ {Card}, Dense \ {Config}, Dense \ {Tensors("t2")}, Dense \union {Blob("t1", "metadata", 2)},
          {Card, Config}, Dense \union {Quant("g", 2, 4, 4, <<>>)}}
         \union {{Card, Blob("mm", "mmproj", 1)} \union gs \union hs :
                    gs \in SUBSET {Quant("a1", 1, 3, 3, <<1, 2>>), Quant("a2", 1, 3, 3, <<2, 2>>), Quant("a0", 1, 3, 3, <<1, 2>>),
                                   Quant("g", 4, 4, 4, <<>>), Quant("x", 1, 2, 2, <<>>)},
                    hs \in {{}, {Head4("h4")}}}
Indexes == {{}, {[file |-> "t1", mtp |-> TRUE], [file |-> "t2", mtp |-> FALSE]},
            {[file |-> "t1", mtp |-> FALSE], [file |-> "t3", mtp |-> FALSE]}}

Rule(f, q, head, engine) ==
    [format |-> {f}, quantization |-> q, architecture |-> {"a"}, mtp |-> head, engine |-> engine,
     default |-> 4000, maximum |-> 9000, slots |-> 2]
Rules == {Rule("safetensors", {"awq"}, h, "vllm") : h \in BOOLEAN}
         \union {Rule("gguf", {2, 3, 4}, h, "llama_cpp") : h \in BOOLEAN}
Ambiguous == Rules \union {[Rule("safetensors", {"awq", "gptq"}, FALSE, "vllm") EXCEPT !.maximum = 16000]}

AwqQuant == [method |-> "awq", nvfp4 |-> FALSE, producer |-> "p"]
Anything == [engine |-> "auto", context |-> <<>>, slots |-> <<>>]
Says(field, text) == [field |-> field, text |-> text]
Stated(n, unit) == [n |-> n, unit |-> unit]

InOrder ==
    [id |-> "q", hub |-> [q |-> Info(<<"b">>, 9), b |-> Info(<<>>, 5)], policy |-> PlainPolicy, today |-> 7, lifecycle |-> "new",
     open |-> TRUE, trusted |-> TRUE, pinned |-> TRUE, tree |-> Dense, index |-> {}, quant |-> AwqQuant,
     arch |-> [config |-> "a", gguf |-> "a"], card |-> Says(8000, <<>>), contexts |-> {8000}, rules |-> Rules, ask |-> Anything]

SmallTrials ==
    {[InOrder EXCEPT !.hub = h, !.policy = p] : h \in AllHubs, p \in Policies}
    \union {[InOrder EXCEPT !.open = o, !.trusted = t, !.pinned = p, !.lifecycle = l] :
            o \in BOOLEAN, t \in BOOLEAN, p \in BOOLEAN, l \in {"new", "old"}}
    \union {[InOrder EXCEPT !.tree = t, !.index = i, !.rules = r, !.ask.engine = e] :
            t \in Trees, i \in Indexes, r \in {Rules, Ambiguous}, e \in {"auto", "vllm", "llama_cpp", "other"}}
    \union {[InOrder EXCEPT !.quant = q, !.arch = a, !.tree = t] :
            q \in [method : {"", "awq", "modelopt"}, nvfp4 : BOOLEAN, producer : {"", "awq"}],
            a \in [config : {"", "a"}, gguf : {"", "a"}], t \in {Dense, Dense \union {Quant("g", 2, 4, 4, <<>>)}}}
    \union {[InOrder EXCEPT !.card = c, !.contexts = cs, !.ask.context = ctx, !.ask.slots = s] :
            c \in {Says(0, <<>>), Says(8000, <<Stated(4, "k")>>), Says(0, <<Stated(0, ""), Stated(8, "k")>>),
                   Says(0, <<Stated(8080, ""), Stated(1, "m")>>), Says(3000, <<>>), Says(16000, <<>>)},
            cs \in {{}, {8000}, {8000, 8079}, {8000, 8081}, {3000}, {16000}}, ctx \in {<<>>, <<0>>, <<7999>>, <<8079>>, <<9001>>},
            s \in {<<>>, <<0>>, <<2>>, <<3>>}}
=============================================================================
