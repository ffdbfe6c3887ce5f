---------------------------- MODULE ContractScope ----------------------------
(***************************************************************************)
(* .github/scripts/select-contract-scope.py: from the paths a change       *)
(* touches to the contract tests CI runs, whose router playbooks           *)
(* RouterShards packs.  A path is a record:                                *)
(*   top     its first part, or a name of its own for a file the code      *)
(*           names in full                                                 *)
(*   owner   the role, or the directory under tests/, "" if none           *)
(*   kind    "py", "yml", "dir", "doc" or "other"                          *)
(*   helper  whether it is a fixture, a task file or starts with "_"       *)
(*   exists  whether the change left it there                              *)
(*   id      the test it is, if it is one                                  *)
(* The tables below have a row for each way in which the code's rows       *)
(* differ.                                                                 *)
(* A helper that stands just before another one and is used nowhere is a   *)
(* slip of that one, kept to see it caught.                                *)
(***************************************************************************)
EXTENDS RouterShards

CONSTANTS
    Changes,     \* the sets of changed paths to select for
    Matrix,      \* the entries of the router matrix, each a set of playbooks; no playbook is in two
    PlaybookOf,  \* test ids that are router playbooks, to the playbook
    ImportedBy,  \* imported router playbooks, to the entries that import them
    Readers,     \* test files that read the vars of hermes_agent's group
    MoleculeDirs,\* the scenarios under molecule/
    LeftOut      \* the pytest targets under tests/llm_router and tests/qdrant_llamaindex

VARIABLES
    changed,     \* the change (constant)
    left,        \* its paths not looked at yet
    sel          \* what is selected so far

vars == <<pc, packVars, changed, left, sel>>

\* ANSIBLE_TESTS, each with its directory under tests/
AnsibleTests == [env_guards |-> "repo_guards", api_key_seed |-> "openbao_secrets", db_password |-> "dify_docker",
                 hardening |-> "llamaindex", cache_only_sync |-> "nvidia_gpu_guest", render_host |-> "llm_gpu_legacy"]
AnsibleOf(owners) == {t \in DOMAIN AnsibleTests : AnsibleTests[t] \in owners}
RetiredTests == {"code_eval_dispatcher"}
\* PYTEST_PATH_TARGETS: files whose test lies elsewhere
PytestPathTargets == [compose |-> "agent_concurrency", seed_shape |-> "llm_router"]
GPUPytest == {"nvidia_gpu_guest", "llm_gpu_legacy", "vllm_serving"}
GPURoles == {"nvidia_gpu_guest", "vllm_serving"}
GPUAnsible == AnsibleOf({"nvidia_gpu_guest", "llm_gpu_legacy"})
SeedRoles == {"dify_docker", "langflow_docker"}
OtelConsumerRoles == {"hermes_agent", "dify_docker", "llm_router"}
RoleTests == [hermes_agent |-> {"hermes_agent"}, dify_docker |-> {}, llamaindex |-> {},
              langflow_docker |-> {"agent_concurrency", "langflow_docker"},
              nvidia_gpu_guest |-> GPUPytest, vllm_serving |-> GPUPytest]
TestScopes == (UNION {RoleTests[r] : r \in DOMAIN RoleTests})
              \union {"llm_router", "llm_model_campaign", "inventory_load", "repo_guards", "dify_docker",
                      "openbao_secrets", "llamaindex"}
SelectorTests == {"test_contract_scope_selector"}
\* The pytest targets the code names.
NamedTargets ==
    {"tests", "otel_endpoint_consumers", "llm_gpu_engine_roles", "test_run_ansible_runner"}
    \union TestScopes \union SelectorTests \union {PytestPathTargets[i] : i \in DOMAIN PytestPathTargets}
\* The generic pytest job drops what it is given of these two directories: the first has a
\* job of its own, the second, which needs live services, none.
LeftOutDirs == {"llm_router", "qdrant_llamaindex"}

Nothing == [pytest |-> {}, ansible |-> {}, router |-> {}, inventory |-> FALSE, selector |-> FALSE, full |-> FALSE]
Pytest(targets) == [Nothing EXCEPT !.pytest = targets]
Ansible(tests) == [Nothing EXCEPT !.ansible = tests]
Router(entries) == [Nothing EXCEPT !.router = entries]
Inventory == [Nothing EXCEPT !.inventory = TRUE]
SelectorChecks == [Nothing EXCEPT !.selector = TRUE]
Full == [Nothing EXCEPT !.full = TRUE]
And(a, b) == [pytest |-> a.pytest \union b.pytest, ansible |-> a.ansible \union b.ansible,
              router |-> a.router \union b.router, inventory |-> a.inventory \/ b.inventory,
              selector |-> a.selector \/ b.selector, full |-> a.full \/ b.full]

\* A path of the repository.  A test is known by its path, so that its name tells its kind
\* and directory; no directory is changed under the router's tests.
IsPath(p) ==
    /\ p \in [top : STRING, owner : STRING, kind : {"py", "yml", "dir", "doc", "other"},
              helper : BOOLEAN, exists : BOOLEAN, id : STRING]
    /\ p.id \in DOMAIN PlaybookOf \union DOMAIN ImportedBy =>
            p.top = "tests" /\ p.owner = "llm_router" /\ p.kind = "yml"
    /\ p.id \in DOMAIN AnsibleTests => p.top = "tests" /\ p.owner = AnsibleTests[p.id] /\ p.kind = "yml"
    /\ p.id \in RetiredTests => p.top = "tests" /\ p.owner = "langfuse_docker" /\ p.kind = "yml"
    /\ p.owner = "llm_router" => p.kind # "dir"
    /\ p.id # "llm_router"
    /\ p.top = "tests" /\ p.kind \in {"py", "dir"} => (p.id \in LeftOut <=> p.owner \in LeftOutDirs)

ASSUME ScopeAssumption ==
    /\ Matrix \subseteq SUBSET Playbooks /\ UNION Matrix # {}
    /\ \A e, f \in Matrix : e # f => e \cap f = {}
    /\ NamedTargets \cap LeftOut = {"llm_router"}
    /\ \A id \in DOMAIN ImportedBy : ImportedBy[id] \subseteq Matrix
    /\ \A p \in Readers \union UNION Changes : IsPath(p)
    /\ \A t \in Readers : t.top = "tests"

RoleScope(r) ==
    [Nothing EXCEPT
        !.pytest = (IF r \in DOMAIN RoleTests THEN RoleTests[r] ELSE {})
                   \union (IF r \in OtelConsumerRoles THEN {"otel_endpoint_consumers"} ELSE {})
                   \union (IF r = "llm_router" THEN {"llm_gpu_engine_roles", "hermes_agent"} ELSE {}),
        !.ansible = AnsibleOf({r})
                    \union (IF r \in SeedRoles THEN {"api_key_seed"} ELSE {})
                    \union (IF r \in GPURoles THEN GPUAnsible ELSE {}),
        !.router = IF r = "llm_router" THEN Matrix ELSE {}]

EntriesWith(id) == {e \in Matrix : PlaybookOf[id] \in e}
InMatrix(id) == id \in DOMAIN PlaybookOf /\ EntriesWith(id) # {}
\* A test file that is selected by itself.
OneTest(p) ==
    IF InMatrix(p.id) THEN Router(EntriesWith(p.id))
    ELSE IF p.kind = "py" THEN Pytest({p.id})
    ELSE IF p.id \in DOMAIN AnsibleTests THEN Ansible({p.id})
    ELSE Full

(***************************************************************************)
(* What one path selects                                                   *)
(***************************************************************************)
\* A fixture, a task file or a removed file stands for its whole directory.
OwnerScope(o) ==
    IF o = "llm_router" \/ o \in DOMAIN RoleTests THEN RoleScope(o)
    ELSE IF o = "inventory_load" THEN Inventory
    ELSE IF o = "repo_guards" THEN Ansible({"env_guards"})
    ELSE And(Pytest({o}), Ansible(AnsibleOf({o})))
IsShared(p) == p.owner \in TestScopes /\ (~p.exists \/ p.helper)

\* A router test that is no playbook needs the router job, which runs only with shards.
RouterTestScope(p) ==
    IF p.kind = "py" THEN RoleScope("llm_router")
    ELSE IF InMatrix(p.id) THEN Router(EntriesWith(p.id))
    ELSE IF p.id \in DOMAIN ImportedBy THEN Router(ImportedBy[p.id])
    ELSE Full

\* The slip: the generic pytest job is given a router test.
TestFileByKind(p) == IF p.kind \in {"py", "dir"} THEN Pytest({p.id}) ELSE RouterTestScope(p)
TestFileScope(p) ==
    IF p.owner = "llm_router" /\ p.kind \in {"py", "yml"} THEN RouterTestScope(p)
    ELSE IF p.kind \in {"py", "dir"} THEN Pytest({p.id})
    ELSE IF p.kind = "yml" /\ p.id \in DOMAIN AnsibleTests THEN Ansible({p.id})
    ELSE Full

RolePathScope(p) ==
    IF p.owner \in DOMAIN RoleTests \union {"llm_router"} THEN RoleScope(p.owner) ELSE Full

ModelsScope ==
    And(RoleScope("llm_router"),
        [Nothing EXCEPT !.pytest = GPUPytest \union {"llm_model_campaign", "hermes_agent"},
                        !.ansible = GPUAnsible, !.selector = TRUE])

\* The vars of the hermes_agent group: the role and every test that reads the file.
Together(scopes) ==
    [pytest |-> UNION {s.pytest : s \in scopes}, ansible |-> UNION {s.ansible : s \in scopes},
     router |-> UNION {s.router : s \in scopes}, inventory |-> \E s \in scopes : s.inventory,
     selector |-> \E s \in scopes : s.selector, full |-> \E s \in scopes : s.full]
ReadersScope == And(And(RoleScope("hermes_agent"), Inventory), Together({OneTest(t) : t \in Readers}))

Add(p, scope) ==
    /\ pc = "select"
    /\ p \in left
    /\ left' = left \ {p}
    /\ sel' = And(sel, And(scope,
                IF p.id \in DOMAIN PytestPathTargets THEN Pytest({PytestPathTargets[p.id]}) ELSE Nothing))
    /\ UNCHANGED <<pc, packVars, changed>>

IsTest(p) == p.top = "tests" /\ p.id \notin RetiredTests
TakeRetired(p) == p.id \in RetiredTests /\ Add(p, Nothing)
TakeShared(p) == IsTest(p) /\ IsShared(p) /\ Add(p, OwnerScope(p.owner))
TakeRemoved(p) == IsTest(p) /\ ~IsShared(p) /\ ~p.exists /\ Add(p, Nothing)
TakeTest(p) == IsTest(p) /\ ~IsShared(p) /\ p.exists /\ Add(p, TestFileScope(p))
TakeRouterFixture(p) == p.top = "llm-router-target-output.yml" /\ Add(p, RoleScope("llm_router"))
TakeInventoryTest(p) == p.top = "tofu_inventory.json" /\ Add(p, Inventory)
TakeRole(p) == p.top = "roles" /\ Add(p, RolePathScope(p))
TakeModels(p) == p.top = "llm-models.d" /\ Add(p, ModelsScope)
TakeMolecule(p) == p.top = "molecule" /\ Add(p, IF p.owner \in MoleculeDirs THEN SelectorChecks ELSE Full)
TakeScript(p) ==
    \/ p.top = "generate_servable_aliases.py" /\ Add(p, And(RoleScope("llm_router"), SelectorChecks))
    \/ p.top = "run-ansible.sh" /\ Add(p, Pytest({"test_run_ansible_runner"}))
    \/ p.top = "verify-pinned-patches.py" /\ Add(p, RoleScope("hermes_agent"))
TakeRenovate(p) == p.top = "renovate.json" /\ Add(p, SelectorChecks)
TakeHermesVars(p) == p.top = "hermes_agent_group" /\ Add(p, ReadersScope)
TakeShareable(p) == p.top = "inventory" /\ Add(p, Full)
TakeRouterWorkflow(p) == p.top = "_llm-router-contract.yml" /\ Add(p, And(RoleScope("llm_router"), SelectorChecks))
TakeWorkflow(p) == p.top = ".github" /\ Add(p, And(SelectorChecks, Pytest(SelectorTests)))
TakeDoc(p) == p.top = "root" /\ p.kind = "doc" /\ Add(p, Nothing)
TakeUnknown(p) == p.top = "root" /\ p.kind # "doc" /\ Add(p, Full)

Take(p) ==
    \/ TakeRetired(p) \/ TakeShared(p) \/ TakeRemoved(p) \/ TakeTest(p) \/ TakeRouterFixture(p)
    \/ TakeInventoryTest(p) \/ TakeRole(p) \/ TakeModels(p) \/ TakeMolecule(p) \/ TakeScript(p)
    \/ TakeRenovate(p) \/ TakeHermesVars(p) \/ TakeShareable(p) \/ TakeRouterWorkflow(p)
    \/ TakeWorkflow(p) \/ TakeDoc(p) \/ TakeUnknown(p)

(***************************************************************************)
(* The selection goes out                                                  *)
(***************************************************************************)
\* The slip: the retired tests still run.
FullWithRetired ==
    [pytest |-> {"tests"}, ansible |-> DOMAIN AnsibleTests \union RetiredTests, router |-> Matrix,
     inventory |-> TRUE, selector |-> TRUE, full |-> TRUE]
FullSelection ==
    [pytest |-> {"tests"}, ansible |-> DOMAIN AnsibleTests, router |-> Matrix,
     inventory |-> TRUE, selector |-> TRUE, full |-> TRUE]
Finish ==
    /\ pc = "select"
    /\ left = {}
    /\ sel' = IF sel.full THEN FullSelection ELSE sel
    /\ Pack(UNION sel'.router, ShardTarget(UNION Matrix))
    /\ UNCHANGED <<changed, left>>

Init ==
    /\ pc = "select"
    /\ NoPacking
    /\ changed \in Changes
    /\ left = changed
    /\ sel = Nothing

Next ==
    \/ \E p \in left : Take(p)
    \/ Finish
    \/ PackNext /\ UNCHANGED <<changed, left, sel>>
Spec == Init /\ [][Next]_vars
FairSpec == Spec /\ WF_vars(Next)

\* What pytest is given: all of tests/, a directory, a file that is tied to a role or a script,
\* or a test for itself.
PytestTargets == NamedTargets \union {p.id : p \in Readers \union changed}

TypeOK ==
    /\ pc \in {"select", "chunk", "place", "name", "done"}
    /\ left \subseteq changed
    /\ sel.pytest \subseteq PytestTargets /\ sel.ansible \subseteq DOMAIN AnsibleTests /\ sel.router \subseteq Matrix
    /\ selected \subseteq Playbooks
    /\ todo \union open \subseteq selected
    /\ UNION units \subseteq selected

(***************************************************************************)
(* Properties                                                              *)
(***************************************************************************)
\* What the generic pytest job runs of the targets it is given (_data-contract.yml, line 326);
\* the router's pytest files run in the router job, if there is one.
JobTargets == sel.pytest \ LeftOut
RunsPytest(d) ==
    IF d = "llm_router" THEN DOMAIN shards # {} ELSE d \notin LeftOut /\ JobTargets \cap {"tests", d} # {}
RunsPlaybook(b) == \E s \in DOMAIN shards : RunsIn(b, s)

\* The tests that look at what a path holds, by where they lie: a test for itself, a
\* directory of tests for its role and its fixtures, the tests that read a file.  Three
\* kinds are run by no job and are not asked for here: the tests that need live services;
\* a router pytest file that reads the vars of the hermes_agent group, which is selected for
\* the job that drops it (lines 284-285); and the pytest files beside what is Untied, of
\* which the first two are tied to no role and the fixtures of the others bring one playbook
\* or the inventory load (lines 210-213).
Untied == {"dify_docker", "llamaindex", "repo_guards", "inventory_load"}
OwnTest(p) ==
    IF p.owner = "llm_router" THEN {"llm_router"} ELSE IF p.owner \in LeftOutDirs THEN {} ELSE {p.id}
PytestFor(p) ==
    IF p.top = "tests" /\ p.kind \in {"py", "dir"} /\ ~IsShared(p) /\ p.exists THEN OwnTest(p)
    ELSE IF p.top \in {"roles", "tests"} /\ (p.top = "tests" => IsShared(p))
    THEN (TestScopes \ Untied) \cap (IF p.owner = "llm_router" THEN {"llm_router", "hermes_agent"} ELSE {p.owner})
    ELSE IF p.top = "hermes_agent_group"
    THEN {t.id : t \in {r \in Readers : r.kind = "py" /\ r.owner \notin LeftOutDirs}}
    ELSE {}
AnsibleFor(p) ==
    IF p.id \in DOMAIN AnsibleTests /\ p.exists /\ ~p.helper THEN {p.id}
    ELSE IF p.top \in {"roles", "tests"} /\ (p.top = "tests" => IsShared(p)) THEN AnsibleOf({p.owner})
    ELSE IF p.top = "inventory" THEN DOMAIN AnsibleTests
    ELSE {}
PlaybooksFor(p) ==
    IF p.top \in {"llm-models.d", "inventory"} \/ (p.top = "roles" /\ p.owner \notin DOMAIN RoleTests) THEN UNION Matrix
    ELSE IF p.exists /\ InMatrix(p.id) THEN {PlaybookOf[p.id]}
    ELSE IF p.id \in DOMAIN ImportedBy THEN UNION ImportedBy[p.id]
    ELSE {}

\* Once the jobs stand, CI runs every test that looks at a changed path, whatever else
\* changed with it and in whatever order, but for the kinds PytestFor names: no path is
\* dropped, nothing that the generic job drops is counted on, and a changed router test has
\* a router job to run in (lines 162-316).
NothingUntested ==
    pc = "done" => \A p \in changed :
        /\ \A d \in PytestFor(p) : RunsPytest(d)
        /\ AnsibleFor(p) \subseteq sel.ansible
        /\ \A b \in PlaybooksFor(p) : RunsPlaybook(b)

\* A selection always comes to its jobs.
SelectionEnds == <>(pc = "done")

=============================================================================
