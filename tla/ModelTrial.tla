------------------------------ MODULE ModelTrial ------------------------------
(***************************************************************************)
(* A model trial, from the Hub facts to the day the router's registry      *)
(* drops the model: tasks/upstream.yml of roles/llm_model_trial walks the  *)
(* base models, filter_plugins/model_trial.py selects one weight set and   *)
(* one engine rule or refuses, and the registry asks the shared policy     *)
(* again on every later day.                                               *)
(*                                                                         *)
(* A trial is a record of what is known before it starts:                  *)
(*   id, hub, policy   as in ModelPolicy; hub has what the Hub would say   *)
(*   open, trusted, pinned   public and ungated; an author on the list or  *)
(*            popular enough; a revision that resolved to a full SHA       *)
(*   tree     the files: name, size, kind, label (the order of its name,   *)
(*            0 for none), bits, shard (<<>> or its number and their total)*)
(*   index    the weight index: the files it names, and which hold a head  *)
(*   quant, arch   what the configuration and the GGUF header say          *)
(*   card, contexts   the card's statements and every configured maximum   *)
(*   rules    the engine rules; a pattern is the set of what it matches    *)
(*   ask      the engine, context and slots asked for, "auto" and <<>> for *)
(*            none                                                         *)
(***************************************************************************)
EXTENDS ModelPolicy, FiniteSetsExt

CONSTANTS
    Trials,         \* the trials that may be asked for
    MaxInfos,       \* base models the walk reads, 16 in the role
    MinimumBits,    \* the floor of a GGUF quantization, 3 in the role
    MaxMetadata,    \* the size a metadata file may have, 64 MiB in the code
    LastDay         \* the bound on the days observed

\* What is known of a model: days, sizes, bits and contexts are numbers, and a rule is for
\* one format, as those of engine-rules.yml are.
IsTrial(t) ==
    /\ t.id \in DOMAIN t.hub /\ t.today \in Nat
    /\ \A m \in DOMAIN t.hub : t.hub[m].created \in Nat /\ t.hub[m].bases \in Seq(Range(t.hub[m].bases))
    /\ t.policy.as_of \in Nat /\ t.policy.max_age_days \in Nat
    /\ \A r \in t.policy.models : r.upstream_created \in Nat
    /\ IsFiniteSet(t.policy.models) /\ IsFiniteSet(t.tree) /\ IsFiniteSet(t.rules)
    /\ \A f \in t.tree : f.size \in Int /\ f.label \in Nat /\ f.bits \in Nat /\ f.shard \in {<<>>} \union (Nat \X Nat)
    /\ \A i \in t.index : i.mtp \in BOOLEAN
    /\ t.card.field \in Nat /\ t.card.text \in Seq([n : Nat, unit : {"", "k", "m"}]) /\ t.contexts \subseteq Nat
    /\ \A r \in t.rules : /\ r.format \in {{"safetensors"}, {"gguf"}} /\ r.mtp \in BOOLEAN
                         /\ r.default \in Nat /\ r.maximum \in Nat /\ r.slots \in Nat
    /\ t.ask.context \in Seq(Int) /\ t.ask.slots \in Seq(Int)

ASSUME TrialAssumption ==
    /\ MaxInfos \in Nat /\ LastDay \in Nat /\ MinimumBits \in Nat /\ MaxMetadata \in Nat
    /\ \A t \in Trials : IsTrial(t)

VARIABLES
    trial,      \* the facts of the trial under way
    infos,      \* what the walk has read: a base model to what the Hub says
    pending,    \* the base models still to read
    verdict,    \* "walking", "refused" or "selected"
    plan,       \* what was selected
    day,        \* the day of the trial, then of the last registry projection
    listed      \* whether the registry serves the model
trialVars == <<trial, infos, pending, verdict, plan, day, listed>>

(***************************************************************************)
(* The walk over the base models.                                          *)
(***************************************************************************)
Unique(s) == FoldLeft(LAMBDA seen, x : IF x \in ToSet(seen) THEN seen ELSE Append(seen, x), <<>>, s)
\* The slip: one more is read than the walk is bounded to.
OneInfoMore == Cardinality(DOMAIN infos) <= MaxInfos
MayRead == Cardinality(DOMAIN infos) < MaxInfos
\* The slip: what was read before the walk's last step is read again.
StillNamed(s, base) == SelectSeq(s, LAMBDA m : m # base)
Unread(s, base) == SelectSeq(s, LAMBDA m : m \notin DOMAIN infos \union {base})
ReadUpstream ==
    /\ verdict = "walking" /\ pending # <<>>
    /\ LET base == Head(pending) IN
       IF MayRead /\ base \in DOMAIN trial.hub /\ trial.hub[base].valid
       THEN /\ infos' = [m \in DOMAIN infos \union {base} |-> trial.hub[m]]
            /\ pending' = Unread(Unique(Tail(pending) \o trial.hub[base].bases), base)
            /\ UNCHANGED verdict
       ELSE verdict' = "refused" /\ UNCHANGED <<infos, pending>>
    /\ UNCHANGED <<trial, plan, day, listed>>

(***************************************************************************)
(* The files.                                                              *)
(***************************************************************************)
Names(files) == {f.name : f \in files}
ValidTree(tree) ==
    /\ tree # {} /\ \A f \in tree : f.name # "" /\ f.size >= 0
    /\ Cardinality(Names(tree)) = Cardinality(tree)
    /\ "README.md" \in Names(tree)
MetadataPaths(tree) == {f \in tree : f.kind = "metadata" /\ f.size <= MaxMetadata}
OfKind(tree, kinds) == {f \in tree : f.kind \in kinds}
GGUFKinds == {"gguf", "mtp", "mmproj"}

SafetensorsWeights(tree, index) ==
    IF index # {} THEN {f \in tree : f.name \in {t.file : t \in index}} ELSE OfKind(tree, {"safetensors"})
CompleteSafetensors(tree, index) ==
    /\ SafetensorsWeights(tree, index) # {}
    /\ {t.file : t \in index} \subseteq Names(OfKind(tree, {"safetensors"}))

GGUFGroups(tree) ==
    LET usable == {f \in OfKind(tree, {"gguf"}) : f.label # 0 /\ f.bits >= MinimumBits}
    IN  {{f \in usable : f.label = l} : l \in {g.label : g \in usable}}
\* The slip: shards are counted, not told apart.
CountedShards(group) ==
    \/ \A f \in group : f.shard = <<>>
    \/ \A f \in group : f.shard # <<>> /\ f.shard[2] = Cardinality(group)
CompleteShards(group) ==
    \/ \A f \in group : f.shard = <<>>
    \/ /\ \A f \in group : f.shard # <<>> /\ f.shard[2] = Cardinality(group)
       /\ {f.shard[1] : f \in group} = 1..Cardinality(group)
GroupSize(group) == SumFunction([f \in group |-> f.size])
GroupLabel(group) == (CHOOSE f \in group : TRUE).label
Smaller(a, b) ==
    \/ GroupSize(a) < GroupSize(b)
    \/ GroupSize(a) = GroupSize(b) /\ GroupLabel(a) <= GroupLabel(b)
CompleteGroups(tree) == {g \in GGUFGroups(tree) : CompleteShards(g)}
GGUFWeights(tree) == CHOOSE g \in CompleteGroups(tree) : \A h \in CompleteGroups(tree) : Smaller(g, h)

(***************************************************************************)
(* The candidates, safetensors first, and the one rule that may serve one. *)
(***************************************************************************)
QuantizationOf(quant) ==
    IF quant.method = "modelopt" /\ quant.nvfp4 THEN "modelopt_nvfp4"
    ELSE IF quant.method # "" THEN quant.method ELSE quant.producer

HasSafetensors(t) == OfKind(t.tree, {"safetensors"}) # {}
HasGGUF(t) == OfKind(t.tree, GGUFKinds) # {}
Candidate(format, quantization, architecture, weights, mtp) ==
    [format |-> format, quantization |-> quantization, architecture |-> architecture,
     weights |-> weights, mtp |-> mtp]
Safetensors(t) ==
    Candidate("safetensors", QuantizationOf(t.quant), t.arch.config,
              SafetensorsWeights(t.tree, t.index), \E i \in t.index : i.mtp)
GGUF(t) ==
    LET weights == GGUFWeights(t.tree)
    IN  Candidate("gguf", GroupLabel(weights), t.arch.gguf, weights,
                  \E f \in OfKind(t.tree, {"mtp"}) : f.label = GroupLabel(weights))
ValidCandidates(t) ==
    /\ HasSafetensors(t) \/ HasGGUF(t)
    /\ HasSafetensors(t) => "config.json" \in Names(t.tree) /\ CompleteSafetensors(t.tree, t.index)
    /\ HasGGUF(t) => CompleteGroups(t.tree) # {}
WeightChoices(t) == (IF HasSafetensors(t) THEN {Safetensors(t)} ELSE {})
                    \union (IF HasGGUF(t) THEN {GGUF(t)} ELSE {})

Matching(rules, c) ==
    {r \in rules : /\ c.format \in r.format /\ c.quantization \in r.quantization
                   /\ c.architecture \in r.architecture /\ r.mtp = c.mtp}
\* The slip: the first of several rules that match is taken.
SomeRule(rules, c) == Matching(rules, c) # {}
OneRule(rules, c) == Cardinality(Matching(rules, c)) = 1
Serves(t, c) ==
    /\ c.architecture # "" /\ OneRule(t.rules, c)
    /\ t.ask.engine \in {"auto"} \union {r.engine : r \in Matching(t.rules, c)}
Servable(t) == {c \in WeightChoices(t) : Serves(t, c)}
RuleOf(t, c) == CHOOSE r \in Matching(t.rules, c) : TRUE

(***************************************************************************)
(* The context: the card and the configuration agree to one percent, and   *)
(* the smallest statement counts.                                          *)
(***************************************************************************)
Times(unit) == IF unit = "k" THEN 1000 ELSE IF unit = "m" THEN 1000000 ELSE 1
Agree(a, b) == 100 * Max({a, b}) <= 101 * Min({a, b})
\* The card's own field, else its first statement that is not zero; 0 if there is none.
CardContext(card) ==
    LET said == {i \in DOMAIN card.text : card.text[i].n > 0}
        first == card.text[Min(said)]
    IN  IF card.field > 0 THEN card.field
        ELSE IF said = {} THEN 0 ELSE first.n * Times(first.unit)
ValidContext(t) ==
    /\ CardContext(t.card) > 0 /\ t.contexts # {}
    /\ Agree(Max(t.contexts), Min(t.contexts)) /\ Agree(CardContext(t.card), Min(t.contexts))
\* The slip: the card is believed, and the configuration only compared with it.
CardMax(t) == CardContext(t.card)
ContextMax(t) == Min({CardContext(t.card), Min(t.contexts)})
ContextFor(t, rule) == IF t.ask.context = <<>> THEN Min({rule.default, ContextMax(t)}) ELSE t.ask.context[1]
SlotsFor(t) == IF t.ask.slots = <<>> THEN 1 ELSE t.ask.slots[1]

(***************************************************************************)
(* select_model_trial, and the registry on the days after.                 *)
(***************************************************************************)
Hub == [m \in DOMAIN infos \union {trial.id} |-> trial.hub[m]]
Upstream == UpstreamDates(trial.id, Hub)
PolicyAgrees ==
    /\ Upstream.ok /\ Admits(trial.id, trial.policy, day)
    /\ \A m \in Range(Upstream.roots) : InAge(Hub[m].created, day, trial.policy)
    /\ LET oldest == OldestRoot(Upstream.roots, Hub)
           entry == Entry(trial.id, trial.policy)
       IN  entry.upstream_id = oldest /\ entry.upstream_created = Hub[oldest].created

Chosen(t) == CHOOSE c \in Servable(t) : \A d \in Servable(t) : c.format = "safetensors" \/ d.format = "gguf"
InBounds(t, rule) ==
    /\ ContextFor(t, rule) \in 1..Min({ContextMax(t), rule.maximum})
    /\ SlotsFor(t) \in 1..rule.slots
Accepted ==
    /\ trial.open /\ trial.trusted /\ trial.pinned /\ trial.ask.engine \in {"auto", "vllm", "llama_cpp"}
    /\ PolicyAgrees
    /\ ValidTree(trial.tree) /\ ValidCandidates(trial) /\ ValidContext(trial)
    /\ Servable(trial) # {} /\ \E c \in {Chosen(trial)} : InBounds(trial, RuleOf(trial, c))
Selection(c) ==
    LET rule == RuleOf(trial, c)
    IN  [format |-> IF rule.format = {"safetensors"} THEN "safetensors" ELSE "gguf",
         quantization |-> c.quantization, architecture |-> c.architecture,
         weights |-> c.weights, mtp |-> c.mtp, rule |-> rule,
         files |-> c.weights \union MetadataPaths(trial.tree),
         context |-> ContextFor(trial, rule), slots |-> SlotsFor(trial)]
Selected == verdict = "selected"
NoPlan == [format |-> "none"]

Select ==
    /\ verdict = "walking" /\ pending = <<>>
    /\ IF Accepted THEN verdict' = "selected" /\ \E c \in {Chosen(trial)} : plan' = Selection(c)
       ELSE verdict' = "refused" /\ UNCHANGED plan
    /\ UNCHANGED <<trial, infos, pending, day, listed>>

\* A later run of the router's role under the same policy, which fails under one that is not valid.
Project ==
    /\ verdict # "walking" /\ day < LastDay
    /\ day' = day + 1
    /\ listed' = IF ValidPolicy(trial.policy, day + 1)
                 THEN RegistryAllowed([lifecycle |-> trial.lifecycle, upstream_model_id |-> trial.id], trial.policy, day + 1)
                 ELSE listed
    /\ UNCHANGED <<trial, infos, pending, verdict, plan>>

TrialInit ==
    /\ trial \in Trials /\ day = trial.today
    /\ infos = <<>> /\ pending = Unique(trial.hub[trial.id].bases)
    /\ verdict = "walking" /\ plan = NoPlan /\ listed = FALSE
TrialNext == ReadUpstream \/ Select \/ Project
TrialFairness == WF_trialVars(ReadUpstream \/ Select)
TrialSpec == TrialInit /\ [][TrialNext]_trialVars /\ TrialFairness

(***************************************************************************)
(* Properties.                                                             *)
(***************************************************************************)
\* The walk never reads more base models than it is bounded to, and what is selected is
\* made of files of the tree (upstream.yml's assert and select_model_trial's result).
TrialTypeOK ==
    /\ day \in trial.today..Max({trial.today, LastDay}) /\ listed \in BOOLEAN
    /\ DOMAIN infos \subseteq DOMAIN trial.hub /\ Cardinality(DOMAIN infos) <= MaxInfos
    /\ Selected => /\ plan.weights \subseteq plan.files /\ plan.files \subseteq trial.tree
                   /\ plan.rule \in trial.rules

\* What the Hub says the model is made of, found without the walk.
Ancestry ==
    LET closed == {S \in SUBSET DOMAIN trial.hub :
                    trial.id \in S /\ \A m \in S : Range(trial.hub[m].bases) \subseteq S}
    IN  IF closed = {} THEN {} ELSE {m \in DOMAIN trial.hub : \A S \in closed : m \in S}
Origins == {m \in Ancestry : trial.hub[m].bases = <<>>}

\* A model is tried only when everything it is made of is known to the Hub, all its
\* origins are young enough on the day of the trial, and the policy's record, the only
\* one and not denied, names the oldest of them: a merge or a quantization of an old or
\* a hidden model is no new model (select_model_trial lines 217-227).
OnlyYoungOrigins ==
    Selected =>
        /\ Origins # {}
        /\ \A m \in Ancestry : \A b \in Range(trial.hub[m].bases) : b # trial.id
        /\ \A o \in Origins : trial.today - trial.hub[o].created \in 0..trial.policy.max_age_days
        /\ \E r \in trial.policy.models : /\ r.id = trial.id /\ r.upstream_id \in Origins
                                          /\ \A o \in Origins : r.upstream_created <= trial.hub[o].created
        /\ trial.id \notin trial.policy.deny

\* The registry, which never asks the Hub, serves a tried model no longer than its
\* oldest origin is young enough: the date it goes by is the one the trial compared
\* with the Hub (registry_policy_reason, select_model_trial lines 226-227).
ServedWhileYoung ==
    Selected /\ listed => \A o \in Origins : day - trial.hub[o].created <= trial.policy.max_age_days

\* What is downloaded is one whole model: every tensor the index names, or every shard
\* of one quantization not below the floor, no weight besides and no incomplete set
\* chosen because it is smaller (_safetensors_weights, _gguf_weights).
WholeWeights ==
    Selected =>
        /\ plan.files \ plan.weights \subseteq OfKind(trial.tree, {"metadata"})
        /\ plan.format = "safetensors" => {t.file : t \in trial.index} \subseteq Names(plan.weights)
        /\ plan.format = "gguf" =>
              \A f \in plan.weights :
                /\ f.bits >= MinimumBits /\ \A g \in plan.weights : g.label = f.label
                /\ f.shard # <<>> => \A i \in 1..f.shard[2] :
                                        Cardinality({g \in plan.weights : g.shard[1] = i}) = 1

\* The served context is within every statement of the model's card and configuration
\* and within the engine's, whichever of them is the smallest and whatever was asked
\* for (select_model_trial lines 265-274 and 303-311).
WithinEveryLimit ==
    Selected =>
        /\ plan.context > 0 /\ \A n \in trial.contexts : plan.context <= n
        /\ plan.context <= CardContext(trial.card) /\ plan.context <= plan.rule.maximum
        /\ trial.ask.context # <<>> => plan.context = trial.ask.context[1]

\* The engine is told of a speculative head exactly when the head of the chosen weights
\* is there, and no other rule of the table claims these weights with other settings
\* (_gguf_weights' head of the same label, and the one rule of lines 288-292).
OneRuleForTheWeights ==
    Selected =>
        LET heads == IF plan.format = "safetensors"
                     THEN {t \in trial.index : t.mtp}
                     ELSE {f \in trial.tree : f.kind = "mtp" /\ \E w \in plan.weights : w.label = f.label}
        IN  /\ plan.rule.mtp <=> heads # {}
            /\ \A r \in trial.rules :
                \/ r = plan.rule \/ r.mtp # plan.rule.mtp \/ plan.format \notin r.format
                \/ plan.quantization \notin r.quantization \/ plan.architecture \notin r.architecture
            /\ plan.architecture = IF plan.format = "safetensors" THEN trial.arch.config ELSE trial.arch.gguf
            /\ trial.ask.engine \in {"auto", plan.rule.engine}

\* What is selected for a trial may be served: the model is as new as it claims and is
\* served no longer than that lasts, its weights are whole, its context fits every
\* statement of it and one rule says how it is run (select_model_trial).
TrialIsSound ==
    OnlyYoungOrigins /\ ServedWhileYoung /\ WholeWeights /\ WithinEveryLimit /\ OneRuleForTheWeights

\* Every trial ends, also on a chain of base models that comes back to itself or does
\* not end (upstream.yml's "difference" and its bound).
TrialEnds == <>(verdict # "walking")
=============================================================================
