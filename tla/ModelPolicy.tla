----------------------------- MODULE ModelPolicy -----------------------------
(***************************************************************************)
(* roles/llm_model_trial/filter_plugins/model_policy.py: which model may   *)
(* be tried, or stay in the router's registry, on a day.  Days are         *)
(* numbers, 0 is a date that is missing or unreadable.                     *)
(*   hub      a model id to what the Hub says of it: the ids it was made   *)
(*            from, the day it was created, whether its lists are valid    *)
(*            and whether the Hub answers under another id                 *)
(*   policy   the shared policy: version, as_of, max_age_days, the denied  *)
(*            ids and the records (id, upstream_id, upstream_created,      *)
(*            dossier)                                                     *)
(* A helper that stands just before another one and is used nowhere is a   *)
(* slip of that one, kept to see it caught.                                *)
(***************************************************************************)
EXTENDS Integers, SequencesExt, FiniteSets

CONSTANTS
    MaxDepth    \* how long a base_model chain may be, 16 in the code

ASSUME DepthAssumption == MaxDepth \in Nat \ {0}

InAge(day, today, policy) == day > 0 /\ today - day \in 0..policy.max_age_days

\* A dossier inside its directory, readable, with front matter of its type, a date and
\* the status "complete"; every other one names what it lacks.
ValidDossier(d) == d = "complete"

ValidPolicy(policy, today) ==
    /\ policy.version = 1
    /\ policy.as_of \in 1..today
    /\ policy.max_age_days \in 1..365

\* The one record of an artifact, if the policy admits it today.
RecordsOf(id, policy) == {r \in policy.models : r.id = id}
Admits(id, policy, today) ==
    /\ ValidPolicy(policy, today)
    /\ Cardinality(RecordsOf(id, policy)) = 1
    /\ id \notin policy.deny
    /\ \A r \in RecordsOf(id, policy) :
        r.upstream_id # "" /\ InAge(r.upstream_created, today, policy) /\ ValidDossier(r.dossier)
Entry(id, policy) == CHOOSE r \in RecordsOf(id, policy) : TRUE

\* The registry's own filter.
RegistryAllowed(model, policy, today) ==
    model.lifecycle # "old" /\ Admits(model.upstream_model_id, policy, today)

(***************************************************************************)
(* What a model was made from: the origins its chain of bases ends in, in  *)
(* the order it names them, among the models "hub" says something of.  One *)
(* that occurs twice on a path is refused in the code before the chain is  *)
(* too long, with the same result.                                         *)
(***************************************************************************)
Unresolved == [ok |-> FALSE, roots |-> <<>>]
Resolved(roots) == [ok |-> TRUE, roots |-> roots]
\* The slip: a merge is as old as the first model it names.
FirstOrigin(ups) == ups[1]
AllOrigins(ups) ==
    IF \A i \in DOMAIN ups : ups[i].ok THEN Resolved(FlattenSeq([i \in DOMAIN ups |-> ups[i].roots]))
    ELSE Unresolved
\* A renamed repository answers for its old id, but not as it.
Resolves(base, hub) == base \in DOMAIN hub /\ ~hub[base].renamed
UpstreamDates(id, hub) ==
    LET up[d \in 0..MaxDepth] == [m \in DOMAIN hub |->
            IF d = MaxDepth \/ ~hub[m].valid THEN Unresolved
            ELSE IF hub[m].bases = <<>>
            THEN IF hub[m].created = 0 THEN Unresolved ELSE Resolved(<<m>>)
            ELSE IF \A b \in Range(hub[m].bases) : Resolves(b, hub)
            THEN AllOrigins([i \in DOMAIN hub[m].bases |-> up[d + 1][hub[m].bases[i]]])
            ELSE Unresolved]
    IN  up[0][id]
\* The slip: the last of the origins counts, so a fresh merge hides an old model.
YoungestRoot(roots, hub) ==
    roots[CHOOSE i \in DOMAIN roots : \A j \in DOMAIN roots : hub[roots[j]].created <= hub[roots[i]].created]
OldestRoot(roots, hub) ==
    roots[CHOOSE i \in DOMAIN roots :
        \A j \in DOMAIN roots : \/ hub[roots[i]].created < hub[roots[j]].created
                                \/ hub[roots[i]].created = hub[roots[j]].created /\ i <= j]

=============================================================================
