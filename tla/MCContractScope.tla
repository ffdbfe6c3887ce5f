--------------------------- MODULE MCContractScope ---------------------------
(* A small instance of ContractScope: a path of each kind the selector tells apart, *)
(* a router matrix with a topic of three playbooks and an entry of two topics. *)
EXTENDS ContractScope

Book(t, n, w) == [topic |-> t, nr |-> n, weight |-> w]
SmallBooks == {Book(1, 1, 3), Book(1, 2, 3), Book(1, 3, 3), Book(2, 4, 2), Book(3, 5, 1), Book(3, 6, 3)}
SmallMatrix == {{Book(1, 1, 3)}, {Book(1, 2, 3)}, {Book(1, 3, 3)}, {Book(2, 4, 2), Book(3, 5, 1)}, {Book(3, 6, 3)}}
SmallPlaybookOf == [play1 |-> Book(1, 1, 3), play2 |-> Book(1, 2, 3), play4 |-> Book(2, 4, 2), play6 |-> Book(3, 6, 3)]
SmallImportedBy == [cases |-> {{Book(1, 1, 3)}, {Book(1, 2, 3)}, {Book(1, 3, 3)}}]

Path(top, owner, kind, id) ==
    [top |-> top, owner |-> owner, kind |-> kind, helper |-> FALSE, exists |-> TRUE, id |-> id]
Test(owner, kind, id) == Path("tests", owner, kind, id)
Helper(owner) == [Test(owner, "yml", "") EXCEPT !.helper = TRUE]
Gone(p) == [p EXCEPT !.exists = FALSE]
File(name) == Path(name, "", "other", "")

SmallReaders == {Test("hermes_agent", "py", "test_cron_env"), Test("llm_router", "yml", "play2"),
                 Test("llm_router", "py", "test_agents"), Test("nvidia_gpu_guest", "yml", "cache_only_sync")}

ScopePaths ==
    {Path("roles", r, "yml", "") : r \in {"hermes_agent", "llm_router", "vllm_serving", "squid"}}
    \union {Test("llm_router", "yml", t) : t \in {"play1", "play4", "cases", "stray"}}
    \union {Helper(o) : o \in {"llm_router", "repo_guards", "openbao_secrets", "inventory_load"}}
    \union {File(f) : f \in {"llm-models.d", "llm-router-target-output.yml", "tofu_inventory.json",
                             "generate_servable_aliases.py", "run-ansible.sh", "verify-pinned-patches.py",
                             "renovate.json", "hermes_agent_group", "inventory", "_llm-router-contract.yml",
                             ".github", "root"}}
    \union {Test("llm_router", "py", "test_keys"), Test("benchmark_run", "py", "test_bench"),
            Test("qdrant_llamaindex", "py", "test_rag_pipeline"),
            Test("benchmark_run", "dir", "benchmark_dir"), Test("nvidia_gpu_guest", "yml", "cache_only_sync"),
            Gone(Test("benchmark_run", "py", "test_gone")),
            Test("langfuse_docker", "yml", "code_eval_dispatcher"), Path("root", "", "doc", ""),
            Path("roles", "dify_docker", "other", "compose"), Path("molecule", "hindsight", "yml", "")}
SmallChanges == {{p, q} : p, q \in ScopePaths}
Scenarios == {"hindsight"}

=============================================================================
