# Verification of the Hermes stack

This directory holds TLA+ models of the programs in this repository that run
unattended and keep state: what they promise, the instances TLC checks, and the
theorems TLAPS proves about them for every instance. Paths are relative to the
repository root; `templates/` alone means `roles/hermes_agent/templates/`.

* `tlc -workers 2 -config BridgeRelay.cfg MCVikunjaBridge` runs one check; the
  table of runs below names the module of each configuration.
* `tlapm VikunjaBridgeProofs.tla` checks one module's proofs.

Contents: [the system](#the-system), [the models](#the-models),
[runs](#runs), [bounds](#bounds), [fairness](#fairness),
[proofs](#proofs), [where code and documentation part](#where-code-and-documentation-part),
[what is left out](#what-is-left-out), [plan](#plan).

## The system

The repository deploys an AI homelab with Ansible. Most of it is declarative
host configuration; its own logic is a set of daemons, timers and filters that
the roles render from templates. They talk through REST calls (Vikunja,
Hermes, Proxmox, Splunk), through subprocesses (`hermes`, `systemctl`) and
through small files.

    operator --board--> Vikunja <--REST-- vikunja-bridge --CLI/sqlite--> Hermes kanban
                                              ^ reads probe_state            ^ workers
                           hermes-brain-watchdog --pause/resume--> cron stores of Hermes
                                              | pages                        ^ ESTOP files
                                           operator                 hermes-cron-drain-restart
                                                                             ^ handler of a play

### Components with a model

| component | state it keeps | operations | what is hard | what makes it correct |
|---|---|---|---|---|
| vikunja-bridge (`templates/vikunja-bridge.py.j2`) | ledger file, lanes file (BUSY retry stamps, BLOCKED dwell stamps), a snapshot per tick | reconcile, requeue BUSY, triage BLOCKED, save lanes, intake | every call is remote and may fail after it took effect; two files written at different times; an operator moves the same tasks; the probe is read twice | a task is let go only under a standing and true report; what is announced is tracked; what is reported completed is closed; hard dependencies; nobody starves |
| hermes-brain-watchdog (`templates/hermes-brain-watchdog.sh.j2`) | state, streak and busy counter in three files, four files of the flap window | probe, debounce, pause or resume the fleet, repair, page or count a flap, summarise | killed between any two CLI calls and writes; two debounces in a row; cooldowns that pass at any time | an up brain leaves no job paused; a lasting outage pauses the fleet; whoever was told of an outage is told of its end, unless the last push is lost |
| hermes-cron-drain-restart (`templates/hermes-cron-drain-restart.py.j2`) | one ESTOP file per cron store, the set of stores a run engaged | engage, drain, restart, release, reclaim orphans | signals and kills anywhere, two converges at once, an operator who uses the same files | a drained restart ends nobody's run; an operator's pause outlives every run; no store stays paused |
| cron-success-watchdog (`roles/fabric_watchdog/templates/cron-success-watchdog.py.j2`) | a record per job (clock, time stopped, cadence, latch, flaps, mute) and per stopped store, in one file | load, judge every job, save, send the alerts | the state is saved before the alerts are sent; stops, successes and unread stores in any order; the threshold moves with the cadence | a silence is measured without the stops, paged once, and ended by a success only; file and operator agree |
| agent session index (`roles/llamaindex/files/index_agent_sessions.py`) | watermark file, points in Qdrant | export from the watermark, embed, upsert in batches, save the watermark, per harness | forwarders deliver in any order, turns share instants, Splunk refuses connections, a run ends anywhere | the watermark never claims what the collection lacks; what is on time is indexed |
| documentation index (`roles/llamaindex/files/index_docs.py`) | collection, freshness sentinel | load sources, drop, insert, touch | the collection is gone while the new one is embedded | never dropped for less than every required source; a broken index is called stale; nothing twice |
| hermes-gh, hermes-gh-token (`roles/hermes_agent/files/`) | token files on a tmpfs | decide a gh call; mint and replace tokens per boundary | visibility is read before a token that another program replaces; boundaries fail separately | a call runs with its own token, on its own side; nothing private leaves in a public write, as far as the wrapper recognises one; tokens stay and stay fresh |
| router callbacks (`roles/llm_router/files/callbacks/`) | the request, its metadata | attribution, merge of system text, pins for CI, classifier, per-deployment hook, log lines | five callbacks change one request, a deployment may fail, hooks run again on the next | one leading system message, whole conversation, only cleared conversations and tools, the key decides |
| model trial and policy (`roles/llm_model_trial/filter_plugins/`) | facts of one repository, the walk over base models | read base models, select weights, context and engine rule, project into the registry | cyclic and deep ancestries, incomplete quantizations, statements that contradict each other | young origins only, whole weights, within every limit, one rule |
| CI selection (`.github/scripts/select-contract-scope.py`, `router_shards.py`) | selection, chunks, jobs, names | add what each path selects, pack router playbooks | the rules overlap, router tests need a router job, names are cut | no reader of a changed path is left out, but for those no job runs; every playbook runs once; jobs can be told apart |
| model store check (`roles/nvidia_gpu_guest/files/verify-local-model-store.py`, `tasks/cache-sync.yml`) | files and download sidecars | check offline, download, verify | interrupted downloads, a moved pin, damage | what is accepted has the content of the pinned revision |

### Components without a model

| component | state, operations and interactions | what is hard and what would make it correct | |
|---|---|---|---|
| splunk-status-digest (`templates/splunk-digest.py.j2`) | state file with reported findings, a day ledger, failure and backup records; queries Splunk, posts | tiers of findings under a cap, repeats and recoveries: a new finding is told once, a failure that comes back is told again | planned |
| splunk-triage (`templates/splunk-triage.py.j2`) | signatures and bands per job | novelty against a baseline under a cap: no new signature is lost | planned |
| kanban-digest (`templates/kanban-digest.py.j2`) | reporting window, stall and growth alarms | window, posts and state in one write: no event of the board falls between two windows | planned |
| cron-failure-rollup (`templates/cron-failure-rollup.py.j2`) | signature of the failing set | an unreadable store is not an all-clear | planned |
| fabric-watchdog (`roles/fabric_watchdog/templates/fabric-watchdog.sh.j2`) | debounced edge per endpoint | page and state in two steps | planned |
| hermes-brain-sync (`templates/hermes-brain-sync.sh.j2`) | state file, config.yaml, the gateway | three writers of one truth: the gateway ends up on the brain the file names | planned |
| agent job queue (`roles/ai_runner/templates/ai-job-worker.py.j2`, `roles/agent_guest/templates/agent-task.py.j2`) | tasks and assignees of a Vikunja project | several runners, crash after a claim: each job at most once, none stranded | planned |
| llm-cpu-scaler (`roles/llm_cpu_scaler/templates/llm-cpu-scaler.py.j2`) | guests, idle clock, state file at the end of a tick | a tick that fails halfway: a guest in use is not stopped | planned |
| hermes-repo-crawl, hermes-pr-reconcile | seen ledger, findings, replays | crash between ledger and findings, a cap that starves | planned |
| Hindsight migration (`roles/hindsight_docker/tasks/run_db_migration_drain_and_migrate.yml`) | drained workers, backup, schema | repeated and interrupted plays: never migrate without a verified backup | planned |
| gateway restart from state (`roles/hermes_agent/tasks/finalize.yml`) | digest and marker files | an interrupted play still restarts the gateway | planned |
| filters (`cron_schedule`, `drift_notifications`, `hindsight_stale_workers`, `qdrant_jwt`) | none | boundaries of pure functions, against a reference definition | planned |
| splunk-wired-trajectory | samples, verdict | regression on reals | arithmetic on reals is out of TLC's reach |
| other maintenance scripts (patch pins, servable aliases, fan speed, held-out evaluation), bank export and drill, observability helpers | files | sequential one-shot scripts | no state between runs |
| helpers of the integration tests (`integration/`) | fixtures, observers | they watch a running system, they are no part of it | they are tests |
| roles, inventory, playbooks; containers of third-party servers | hosts | Ansible's semantics, other people's servers | not this repository's logic |

## The models

### VikunjaBridge, with ResultRelay as its contract

`VikunjaBridge.tla` is the daemon's poll loop. One action is one REST call, one
subprocess or one file write of `tick`; `pc` is the call made next. The
variables fall into the board (`bucket`, `done`, `said`), Hermes (`card`,
`probe`), the two files (`ledger`, `busyFile`, `blockedFile`) and the memory of
one tick (`tracked`, `busyTasks`, `blockedSince`, the snapshots, the task in
hand, the verdict, the count of intakes).

| part of the code | actions |
|---|---|
| `resolve_board`, `load_ledger`, `load_lanes` | `StartTick` |
| `reconcile`, `card_state`, `mark_done`, `save_ledger` | `ReconcileSkip`, `Judge`, `Comment`, `Move`, `Done`, `Save`, `End`, `Unread` |
| `requeue_busy` | `RequeueSkip`, `Move`, `Comment`, `End` |
| `triage_aged_blocked` | the end of requeueing drops stale stamps; `TriageWait`, `Comment`, `Move` |
| `save_lanes`, the second `read_probe_state` | `SaveLanes` |
| `intake`, `actionable`, `create_card` | `IntakeSkip`, `Create`, `Refused`, `Save`, `Comment`, `Move`, `End` |
| `main`: any exception ends the tick; systemd restarts a killed daemon | `Abort` anywhere, `NotFound` for a deleted task |
| around the daemon | the operator files, moves, closes and deletes tasks; cards settle, park and are archived; the probe changes; stamps grow old; the ledger is discarded |

An aborted tick, a killed daemon and a request whose answer got lost after it
took effect are one action each side of the call: `Abort` may come before or
after any of them, and the next tick starts from the files alone. `said` is the
last thing the bridge said about the present handover.

`ResultRelay.tla` states the promise without board, file or loop: a task is
taken over, its outcome is reported truthfully, and only then is it let go.
`RelayContract` instantiates it with `held <- ledger` and the reports and
outcomes read off the comments and the cards.

Abstractions: a parked card (`kanban_block`) is simply not settled; a board that
cannot be used makes a whole tick a stutter; a task that is dragged out of Done
keeps its flag; a task with hard dependencies has at least one parent (`Parents[t]`
empty stands for a task without the label); comments carry their kind and not
their text.

### BrainWatchdog and its history

`BrainWatchdog.tla` is one run of the timer's script after another: `Start`
reads the three files and probes, `Judge*` debounces, `Reconcile` and `CronCall`
pause, resume or repair one job per step, `Edge*`, `OpenWindow` and `Escalate`
are `handle_edge` and the sustained-flap page, `Save*` are the three file writes
and `Summary` is `flap_summary_check`. `Kill` ends a run at any step and may
leave the file it was writing empty, which the next run reads as its default.
`BrainWatchdogHistory.tla` adds a count of the bad probes since the last good
one, to state what a debounced pause owes to them.

Abstractions: the streak stops counting where it can no longer make a
difference, flaps are counted up to `MaxFlaps`; the writes of the flap files
within one `handle_edge` branch are one step, and only the state, streak and
busy files are ever torn; `RECONCILE_PAUSED` is on, as in the defaults, and
`BUSY_GRACE_PROBES` is positive; the healthchecks ping changes nothing the
script reads and is left out. The three kinds of failing CLI call are separate
faults (`list`, `pause`, `resume`), and so is a push that gets lost (`push`):
`ntfy_push` ends in `|| true` and returns at once when `NTFY_URL` is empty, the edge
is recorded as paged all the same, and nothing is ever pushed again. `pushed` is
therefore what the script has pushed, `belief` how the last message that arrived left
things; "paged" in `OutageIsPagedOrOpen` means pushed, and `RecoveryIsTold`
assumes that the last push of all arrives (`LastPushArrives`), which without an
`NTFY_URL` none does.

### SuccessWatch

`Evaluate` is one run's `evaluate` and `save_state`: `Judgement` is the body of the
loop over the jobs (off, stopped, seeded, judged), `Banked` and `Observed` set the
clock, `Judged` the latch, the flaps and the mute, `Alerts` what is to be told.
`Send` is one alert, which may get lost; `WatchKilled` ends a run among its alerts.
`JobEnds`, `Switch`, `StopOrOpen` and `Pass` are the scheduler, whoever switches a job
or stops a store, and time. Histories note what the operator heard (`heard`, `loose`),
the silence as it was (`charged`) and the jobs whose clock the code sets otherwise
(`odd`, see below). The order of the alerts and their roll-up into one message are
left out. Times are counted from the start, so the clock has a bound.

### CronDrain

`CronDrain.tla` is any number of runs of the wrapper (`pc`, `todo`, `hand`,
`ours`, `drained` per run) over the ESTOP file and the fire claim of each cron
store. `Look`, `Write` and `Take` are the three steps of `engage` and its caller
that a signal or another actor can come between; `Drained` and `BoundExpires`
end `wait_for_drain`; `Restart` ends what runs in the gateway's own process;
`Release` unlinks one file; `End` closes the `finally`. `Signal` is SIGTERM or
SIGINT turned into `SystemExit`, `Kill` a hard kill, and either may cut a write
short (`torn`). Cron dispatch, its claims and the operator are external.

Abstractions: upstream's claim of a job is one step, and so is the wrapper's
reading of all job records; a fresh file turns stale only once the run that
wrote it no longer counts on it (`ORPHAN_AFTER_SECONDS` exceeds the drain bound
by the room for a restart).

### SessionIndex, with IndexedFeed as its contract

`SessionIndex.tla` is the timer job: `Start` reads the watermarks, `Export` takes
every turn from the watermark on (that instant included), `Reconnect` is a
refused connection with its counted attempts, `Upsert` stores one batch by point
id, `Save` writes the watermark file and goes to the next harness, `Abort` is
anything that ends the run. `Appear` is Splunk showing a turn, possibly after a
later one of the same harness, which the history `late` notes. `IndexedFeed.tla`
is the promise without runs, batches or ids; `KeepsFeed` instantiates it with
the indexed turns as its copies and the watermark file as its marks.

### DocsIndex

`StartIndexing`, `Load`, `EndGathering`, `DropCollection`, `Insert`,
`EndInserting` and `TouchSentinel` are one run of `index_docs.py`; `IndexerDies`
ends it anywhere; `Day` lets the sentinel grow old. A source is one document,
and its points are counted so that doubling shows. `broken` counts the days the
collection has lacked a required source.

### GhAccess

The refresher: `StartRefresh`, `Mint`, `BeginWriting`, `WriteTemporary`,
`Replace`, with `MintFails` for a boundary that cannot and `RefreshDies` for a run
that ends. The wrapper: `Begin` is `decide` up to the lookup, `LookUp` reads the
review token, `Answered` is the answer and the verdict, `RunGh` reads the token of
the call, `End` is a refusal or the end of gh. The keys of a boundary are minted and written in any
order. `Flip` publishes or hides a
repository, `Reboot` empties the token directory. A call is what its command line
amounts to: boundary and set, command and subcommand, the repositories named in
its flag, path, URL and origin, and its parts, each with the rule it breaks and the form
it is given in. Body files are taken not to change between the wrapper's scan and gh's own
read.

The wrapper knows only some ways to write a call, and the model keeps what it sees apart
from what gh does. `outgoing_text` reads the forms of `ReadForms`: arguments, files named
after `--body-file`, `--input` or as `k=@file` after `-F` and `--field`, standard input
after `-` or `=@-`, and base64 after `contents:`. A part in another form (`-F notes.md`,
`--body-file=x`, `--notes-file`, the files of a gist or a release, a file that does not
open, another encoding) is sent unscanned. Flags in one word with their value (`-XPOST`,
`-fbody=x`, `--field=body=x`, `-Rorg/x`) are in `fused`: `SeenMethod`, `SeenFields` and
`SeenFlag` are what the wrapper makes of them, `IsWrite` its verdict, `Changes` the truth.
`OwnSideOnly` and `NothingPrivateOut` claim what they do of *recognised* calls and, the
second, of the forms that are read; the calls that are not are in the instance, and nothing
is claimed of what they say. The side a call is held to is that of the repository
`target_repo` finds; `GH_REPO` and a fused `-R` can make gh turn to another. Commands outside
`WRITE_CMDS` count as reads in the model as in the code.

### RouterRequest and what it is built from

`SystemMerge.tla`, `TraceContract.tla` and `EffortPin.tla` are the functions of
`system_merge.py`, `request_metrics.py` and `ci_effort_pin.py` as operators.
`RouterRequest.tla` takes one request through `Metrics`, `Merge`, `Pin` and `Post`
(the classifier) in the order `litellm-settings.yaml.j2` registers them, then
through `Route`, `DeploymentHook`, `Serve` or `Fail` for up to `MaxHops`
deployments, with `Log` writing an attempt's line at any later time. LiteLLM's own
steps are external: what it copies into a request, its bridges between API
forms, and its fallbacks. Text is a sequence of pieces, so that merging and
classifying can be compared piece by piece.

`ClearedOnly` is about what the classifier reads (`_TEXT_KEYS`): the messages as LiteLLM
builds them, the text beside them and the tools. What the client puts in any other field
leaves unread: `extra_body` (with which even the messages can be replaced),
`response_format`, `stop`, `user`, `metadata`, and the labels of roles and types. Of these
(`UnscannedFields`) the property says only that none is added after the client. All
attempts of a request share the metadata's carriers, and `Log` changes them in place as
`apply_deployment_contract` does, so that a late line finds what the lines before it left;
that LiteLLM stamps each attempt's own deployment next to them is taken from
`tests/llm_router/test_deployment_trace_contract.py`. A list of `credential_fields` limits
which credentials the pin removes, and a request may come with one.

### ModelPolicy and ModelTrial

`ReadUpstream` is one round of `tasks/upstream.yml`, `Select` is
`select_model_trial` with every refusal, `Project` the registry projection on a
later day. `ModelPolicy.tla` has the filters of `model_policy.py`. A tree is a set
of files with kind, size, label, shard and bits; a repository that now answers with
another id (`renamed`) is refused as a base (`Resolves`); a rule's patterns are the sets of
what they match. Days and tokens are small numbers.

### ContractScope and RouterShards

`Take*` is the branch of `select` a path falls into, `Finish` the result;
`RouterShards.tla` continues with chunks, units, jobs and names, one unit per step.
The reference definition is in `NothingUntested`: which tests look at a path, by
where they lie. The tables have a row for each way in which the code's rows differ.
Which pytest targets run is not what the selector says alone: the job of
`_data-contract.yml` drops those under `tests/llm_router` and `tests/qdrant_llamaindex`
(`LeftOut`, `JobTargets`). The first have a job with the router shards, the second none, so
`PytestFor` does not ask for them, nor for the other tests no job runs (see
[below](#where-code-and-documentation-part)). No playbook is in two entries of the matrix,
as is so in the present one; of one that were, the code would run the playbook twice.

### ModelStore

`Verified` is `_verify`; `CheckOffline` and `VerifyStore` are the two calls of the
converge; `Fetch`, `WriteSidecar` and `NextInclude` are hf download, external, which
moves whole files into place and writes each sidecar after its file; `Stop` ends a
play anywhere, `Pin` moves the registered revision, `Damage` loses or spoils a file.

### Three harnesses

`MCDecisions` puts the selection, the trial and the request into one
specification, `MCServices` the four services, `MCWatchdogs` the two watchdogs. They share no state: a behaviour
starts one of them (`active`) while the others rest in a state where their
properties hold, so that one run checks each component exactly as a run of its own
would, at the sum and not the product of their states.

## Runs

| run | configuration, module | shows |
|---|---|---|
| relay | BridgeRelay, MCVikunjaBridge | one task against everything at once; `RelayContract`, `PickedUpIsTracked`, `CompletedIsClosed`, `ClosedMeansCompleted` |
| crash | BridgeCrash, MCVikunjaBridge | two tasks, one hard-dependent on the other, a board with only two optional columns, aborted ticks, a discarded ledger, an operator who closes and deletes: `HardDepRespected` |
| calm | BridgeCalm, MCVikunjaBridge | two tasks, one intake per tick, no aborted tick: the inductive invariant `IInv`, `BoardAgrees`, `OneReportPerPickup`, and `NobodyStarves` (`ReadyIsAccepted`, `BusyIsRequeued`) |
| live | BridgeLive, MCVikunjaBridge | finitely many aborted ticks, refused creates and unread cards: `HandoversGoOn` (`SettledIsReleased`, `ReadyIsAccepted`, `BlockedIsTriaged`, `StampedIsRequeued`) |
| watchdog_calm | WatchdogCalm, MCWatchdogs | the brain's watchdog, lists, pauses and pushes that fail, no run killed and no resume failing: `IInv`, `UpMeansRunning`, `OutageIsPagedOrOpen`, `PauseIsDebounced`, `RecoveryIsTold`; the scheduled jobs' watchdog with every fault: `StateIsTrue`, `PagesAreEarned` |
| watchdog_faults | WatchdogFaults, BrainWatchdog | kills at every step, failing lists and resumes, finitely many: `HealthyFleetRuns`, `LastingOutagePauses` |
| drain_one | DrainOne, CronDrain | one run at a time, signalled, killed, torn, with failing restarts, beside an operator who pauses: `IInv`, `DrainedRestartHurtsNobody`, `OperatorPauseKept` |
| drain_orphans | DrainOrphans, CronDrain | two runs at once, signals and kills at every step, unreadable job records, an operator who clears files: `OrphansAreReclaimed` |
| abort_leaves_pause | AbortLeavesPause, CronDrain | violation of `AbortLiftsThePause` |
| decisions | Decisions, MCDecisions | selection: `NothingUntested`, `JobsAreSound`; trial: `TrialIsSound`; request: `ServableRequest`, `ClearedOnly`, `KeyDecides`; all come to their end, a request with its log lines: `DecisionsEnd`; types: `DecisionsTypeOK` |
| services | Services, MCServices | sessions: `KeepsFeed`, `SessionsMoveOn`; documents: `IndexIsHonest`, `DroppedForAWholeOne`, `IndexHeals`; GitHub: `BoundaryKept`, `TokensKept`; store: `AcceptedIsPinned`; types: `ServicesTypeOK` |
| half_a_store | HalfAStore, MCModelStore | violation of `AcceptedIsComplete` |

A property that is a conjunction of named parts (`JobsAreSound`, `TrialIsSound`,
`ServableRequest`, `KeyDecides`, `BoundaryKept`, ...) has a mutant for most of its parts.
Deadlock is checked in the runs of the bridge, in `watchdog_faults` and in those of the
drain: the daemon loops, the timer fires and converges recur, so none may stop. A
decision does stop, and so does a harness of which one part is done or whose clock has
reached its bound. For every property of a passing run there
is a mutant of one definition, a bug the code could have, under which TLC finds
the property violated; the mutated forms stand before the definition they
replace.

## Bounds

* Bridge: one task shows every interleaving of one handover with crashes and an
  operator, since tasks meet only in the cap, in hard dependencies and in an
  exception that ends the tick for all. Two tasks and `MaxIntake = 1` bring
  those out. The cards, comments and stamps are finite by nature, so nothing
  else is bounded: a task can be handed over, requeued and refiled for ever.
* Watchdog: two jobs make a call fail or be cut off between jobs. The
  thresholds 2 and 3 are the smallest that tell "once" from "in a row", and
  `DownAfter = 3` in the calm run tells the streak from the edge. `MaxFlaps =
  FlapThreshold = 2` reaches the threshold and its saturation.
* Scheduled jobs: one job, since jobs are judged apart; a clock of six units, in which it
  can be paged, recover, be paged as flapping and be unmuted; slots one or three units
  apart, so that the threshold moves over a silence; three faults, stops or switches.
* Drain: two stores, so that one is engaged while another is still open, and one
  or two runs.
* Sessions: two harnesses, five turns, two of them at one instant and one without
  text, batches of two, three attempts: a batch boundary falls inside a session and
  a turn of the second harness waits for the first.
* Documents: two required sources and an optional one, a tolerance of two days.
* GitHub: three sets over both boundaries, of which one has two keys, one repository
  that changes sides, and a call for each branch of `decide`; tokens live two refresh
  intervals, so that they can be fresh, old and expired.
* Store: two revisions that share, change, drop and add a file; two globs.
* Requests: every conversation shape (system text in front, in the middle, in blocks,
  cached, empty), each kind of key, two deployments, which is one fallback.
* Trials: each part of an admissible trial replaced by everything it can be; base
  models up to five deep, in chains, forks and circles; depth and reads bounded at 4
  so that the bounds are met.
* Selection: any one or two paths out of one of each kind; six router playbooks in
  three topics, three jobs, names of one token, so that cut names collide.

## Fairness

* Bridge: weak fairness of the daemon's own steps (the main loop never ends and
  systemd restarts it) and of the two clocks. Nothing is assumed of the
  operator, of cards settling or of the probe; where a property needs the brain
  up for good it says so (`BrainStaysUp`). Faults are finite in number only
  where a property says `FinitelyManyFaults`.
* Watchdog: weak fairness of a run's steps (the timer is `OnUnitActiveSec`, so
  it fires again after every run) and of the cooldown passing. The brain may do
  anything.
* Drain: converges come again, a run that is not killed goes on, an abandoned
  file grows old. The drain bound is why a run does not depend on jobs ending.
* Sessions, documents and token refreshes: systemd timers fire again and a started
  run goes on. Faults end only where a property says so. The gh calls, the store and
  the days are under no fairness.
* Decisions: each is one process that runs to its end.

## Proofs

Each invariant has a strengthening that is inductive and is proved in three facts: it
holds at the start, every action keeps it (one step of the proof per action), and it
implies what is claimed. Those of the bridge, the brain watchdog and the drain are
checked by TLC in the runs as well; those of the others stand in the proof modules.

**VikunjaBridgeProofs.** `IInv` says, beyond the types, what the code knows at
each step: a task is in hand when a step needs one, memory and file hold the
same ledger during a tick (`LedgerInMemory`), a verdict in hand is true of its
card and stands on the board from the comment on (`VerdictHolds`), and a task
is tracked from the save on and not before (`TakeoverHolds`). Without these no
conclusion could be drawn in `ReconcileSave`, where the ledger lets go. From it
follow `HardDepTheorem`, `ClosedMeansTheorem`, and, under the premise
`LedgerKept` that the ledger file is never discarded, `PickedUpTheorem`,
`ClosedTheorem` and `RelayTheorem`, the refinement: every step of the bridge is
a step of `ResultRelay` or leaves its variables alone. They hold for any tasks,
parents, columns, cap, readings, operator and faults that
`BridgeAssumption` admits.

The second half of the module builds on it. `BoardTheorem` and `OneReportTheorem` assume
`Undisturbed`: no operator moves anything, no tick is aborted, and there is an In
Progress column. An aborted tick breaks `OneReportPerPickup`, and an operator who moves
or deletes a task breaks `BoardAgrees`. Without In Progress a task that was handed over
lies in READY still, so that a tick that lets it go takes it up again from its snapshot,
and on such a board `OneReportPerPickup` fails; the four other columns may be there or
not (`Place` is where a verdict leaves a task, `ColumnsHold` what a missing column rules
out). `BoardHolds` says where a task lies that no step is at work
on (`Rests`), where the one in hand is on its way (`Moves`), and that a snapshot taken
early in the tick still tells the truth when it is used (`SnapshotHolds`), which is
why no task is picked up twice in a tick. Any parents, cap, readings, refused
creates and unread cards are covered.

**WatchdogProofs** holds the two watchdogs. For `BrainWatchdog`, `WatchdogType` holds
whatever is killed or fails; it needs `VerdictHolds`, since an edge writes the probe's
result into the state file. Each of the others assumes what it needs and no more. That
memory and file agree until an edge (`StateHolds`) and what has been pushed (`PageHolds`)
is `MindInvariant`; it needs that no run is killed (`NoKill`), and lists, pauses,
resumes and pushes may fail. `OutageTheorem` follows from it. `UpTheorem` needs in addition which
jobs are active at each step (`FleetHolds`), and for that also that no resume fails
(`ResumesWork`): a kill between the pause and the state file, or a resume that fails,
does break `UpMeansRunning`, and what then holds is the liveness `HealthyFleetRuns`.
`PauseTheorem` is about the watchdog with its
record of past probes (`BrainWatchdogHistory`) and needs `NoKill` alone: a kill after a
good probe and before the streak is saved leaves the old streak. `StreakIsEarned`, which
TLC also checked on the small instance, says that no streak counts more bad probes than
there were: in the file between two runs, in memory once the verdict is in, and, between
a probe and its verdict, for the count that the verdict is about to make; a busy probe
becomes a bad one only there.

For `SuccessWatch`, `StateStaysTrue` and `PagesStayEarned` hold for any jobs, stores,
slots and faults, with runs, stops and successes in any order. `StateIsTrue` is not
inductive: that a silence is charged without its stops depends on what of a stop is
already banked (`PausesFit`: no more than lies before the stop that is under way), on
records being older than any run that ends before the timer fires (`RecordIsOlder`), and
on a success that no run has read yet being what the silence is counted from
(`SuccessIsCounted`); that the operator's last word is right depends on the alerts that
are still to be sent (`WordHolds`). The lemmas take `evaluate` apart: the clock
(`Banked`, `Observed`), the latch (`Judged`), the words (`Alerts`). Silences that the
code does set otherwise are in `odd` and left out, as the run leaves them out.

**CronDrainProofs.** `DrainType` is unconditional. `DrainTheorem` and
`OperatorTheorem` assume one run at a time (`OneAtATime`) and an operator who only
pauses and not between a run's look at a store and its write, with job records that can be read (`Calm`), and hold for any signals,
kills, torn writes and failed restarts. The invariant says that the stores a run
counts as its own carry its file, that every store a run has looked at is paused
(`AllPaused`), and hence that a drain that found no claim is still true at the
restart (`DrainHolds`).

**ServicesProofs** holds four services that share nothing. For `GhAccess`,
`BoundaryTheorem` and `TokensStayTheorem` hold for any sets, keys, repositories and
calls that `GhAssumption` admits. The invariant says that a token file is empty or holds
a token of its own set (`FilesHold`), that a refresh holds a token for each key it will
write (`MintHolds`), and that a call that was let through is of a known set, was on its
own side at some time since it began, and, when the wrapper takes it for a write in the
open, is clean in every part it reads (`CallHolds`). That it takes a recognised call for
what it is, is `RecognisedWrites`; of the others, and of parts it does not read, the theorem
says nothing. `FreshTheorem` is the part of `TokensKept` about
ages: a token is no older than one refresh interval and one more for each refresh in
a row its boundary has missed. Its invariant allows a boundary whose turn in this interval
is still to come one interval more (`Allowance`, `AgesHold`), and says that what is minted,
and what a run has already put in place of it, is new (`NewIsFresh`); `ByBoundaryIs`
computes by induction that the run goes over every boundary of the entries. For
`DocsIndex` and `ModelStore` no premise is needed (`StoreAssumption` only says that the
globs select names of files). The first rests on what a run holds from the drop on (`RunHolds`) and on the collection
not having been broken for longer than the sentinel is old (`SentinelHolds`); the second
on what a sidecar says (`SidecarsHold`) and on files without their sidecar belonging to
the present pin (`FetchHolds`), through the lemma `VerifiedIsPinned`. The module
ends with the composition `MCServices`: the states in which a service rests satisfy its invariant, whatever the
constants, so `ServicesTheorem` and `ServicesTypes` carry the safety of each over to the
run of all four.

For `SessionIndex`, `SessionType` is unconditional. `NothingSkippedTheorem` and
`FeedTheorem`, the refinement of `IndexedFeed`, assume `ExportsAreWhole`: Splunk's
answer is not cut short without an error, in which case the watermark does pass turns
that were never read. `SessionIInv` adds that the file's watermarks and those in memory
agree (`MarksInMemory`), that a watermark is the time of a turn that was seen, so that
what appears below it is late (`MarkHolds`), and that what the next watermark will pass
is indexed or in hand (`LatestHolds`).

**SystemMergeProofs** is about lists of any length. The merge is made of `FlattenSeq`, a
recursive function, and needs induction. The library's induction theorems take a
predicate as an argument, so the module states its own two for sets of numbers and of
sequences (`SetInduction`, `SeqInduction`), which follow from the least member of a set
of numbers. From them come the laws of `Gathered` (its members, its concatenation,
twice), and from these `MergedText` (the merged content holds all the text in its order,
whether it became one text or a list of blocks) and `MergedMessages` (one system message
in front, every other message as it was).

**RouterRequestProofs** rests on it. `RequestSafe` proves the inductive invariant
`RequestInvariant`, from which `OnlyClearedLeaves`, `DeploymentsServe` and
`TheKeyDecides` follow, for any well-formed requests, any number of deployments and
fallbacks, and any lists of models and keys. Its parts say what a later callback builds
on: the data keep their conversation and each attempt keeps that of the data
(`Conversed`; `Keeps` composes, which is why a merge of a merge is harmless), no
deployment is tried before the callbacks are through (`Counted`), fields and tags are
the client's until the pin and only what the route may carry after it (`PinsHold`), what
was cleared covers the data from then on (`ClearedHolds`), and the carriers from which log
lines are written stay as the first callback left them but for the deployment, which each
line sets anew (`LinesHold`, `Whole`, `SharedCarriers`). On top of
it `RequestTypesHold` proves the types; that a request has no more log lines than
attempts needs a count: a line names an attempt, and of each there is one
(`LinesAreFew`). The only premise is `RequestAssumption`: how LiteLLM hands over a request. It says that text
beside the messages comes with Responses and Anthropic requests only, that what the
client sent is in the snapshot of its body, that there is at least one hop, and that a key requires only attributes which
`request_metrics` logs, as `63-trace-contract.yml` does. Without the second, the pin
would not know what is the client's.

**ContractScopeProofs** is about every repository and every change: any playbooks with
any weights, any matrix, readers and changed paths, any number of jobs and length of
names that `ShardAssumption` and `ScopeAssumption` admit. The first says that there are
finitely many playbooks and that both limits are positive. The second says what a path is
(`IsPath`: a test's name goes with its directory and kind), that the matrix is not
empty, which `llm_router_matrix` refuses, that its entries share no playbook, and which of
the targets the code names the job drops (`LeftOut`). `ScopeInvariant`, which TLC also checked on the
small instance, has two halves. `PackHolds` says where a playbook can be: it waits, or it
is in the open chunk, or in one unit, and a unit waits or is in one job (`NothingLost`,
`NothingTwice`); that units are of one topic (`TopicsApart`); and what each stage leaves
for the next (`StageHolds`). Two of its steps count. `PlacedKeeps`: a unit is put beside
another one of its topic only if every job has one already, and with the new one these
are more units than jobs. `UnusedIs`: of the `MaxShards + 1` numbered forms of a name no
two are alike, since each ends in its own mark, so one of them is free. `SelectionHolds`
says that every path that was looked at is answered (`Settles`): each test that looks at
it is selected, or everything is. It goes over the kinds of paths one by one, and what
was answered stays so since a selection only grows. From it follow `JobsStaySound` and
`NothingGoesUntested`; the second needs the first, since a router test has been run only
when its playbook is in a job. `ScopeTypesHold` adds what a selection is made of
(`TargetsHold`): a pytest target is a test of the change, of a reader, or of a row of
the tables.

**ModelTrialProofs** is about every repository, policy and table of rules that
`TrialAssumption` admits: numbers where the Hub gives numbers, finite sets, and rules of
one format each, as `engine-rules.yml` has them. `TrialSafe` proves the inductive
invariant `TrialInvariant`, which TLC also checked on the small instance, and from it
follows `TrialsAreSound`. Three of its parts need an argument.

* The origins. `upstream_dates` is a recursion to a bounded depth, and `UpExists` shows
  that the function it defines exists. `OnlyYoungOrigins` says of the model what the Hub
  knows, without that recursion: `Ancestry`, the smallest set that holds the model and
  what its models were made from. `ChainIsWhole` compares the two. What is answered at
  some depth is closed under "made from", so it holds the ancestry; every origin answers
  with itself, and the answers of the bases are part of those of the model. Were the model
  its own ancestor, it would be answered one level below its deepest answer.
* The weights. That the smallest complete quantization exists takes the sum of the sizes
  to be a number (`SumType`, by induction over the number of files). Its shards are all
  there once (`ShardsOnce`): as many files as numbers, and every number is met.
* The days. A record that was admitted once is asked again on each day, and a policy
  that is valid stays so (`StaysValid`). Since the trial compared the record's date with
  the oldest origin, a served model is young however many days pass (`ListedIsYoung`).

The steps in between take the selection apart: `ChosenIs` (one of the two candidates),
`RuleIs` (the one rule that matches) and `PlanIs` (the plan, field by field), from which
`PlanWhole`, `PlanWithin` and `PlanRuled` read off what the properties ask.

The module ends with the composition `MCDecisions`: `DecisionsTypes` says that the types
of all three decision procedures hold in it. The two that rest do so in a state of their
own invariant, and the third keeps its own.

What stays with TLC: liveness (`HandoversGoOn`, `NobodyStarves`, `HealthyFleetRuns`,
`LastingOutagePauses`, `OrphansAreReclaimed`, `RecoveryIsTold`, `SessionsMoveOn`,
`IndexHeals`, `DecisionsEnd`), since fairness and `ENABLED` are beyond the prover;
and `TokensKept` as a whole, of which `EachBoundaryServed` is liveness. Every invariant
and every action property that a passing run checks is stated by a theorem.

## Where code and documentation part

Two runs show a disagreement between the code and what the repository says of
it; the findings in `PROJECT.json` quote both.

* `abort_leaves_pause`: a signal between the write of a sentinel and the note
  that it is the run's own leaves the store paused, although an abort at any
  point is said to lift the pause.
* `half_a_store`: the offline check looks only at files and sidecars that are there,
  so a download cut short after one file of each glob is called complete, and the
  download is skipped in this and every later converge.

The models show more of the kind, which no run holds on to:

* a tick that ends between `save_ledger` and `save_lanes` leaves a task in BUSY with
  no stamp anywhere, although the lanes file is said to heal itself off the board
  (`BusyIsRequeued` with `abort`; `StampedIsRequeued` is what is left of it);
* an empty ledger is called the safe degradation, but a task in In Progress is then
  never reported;
* one good probe during an outage makes the repair resume the fleet while the state
  still reads down, and only a state of up can pause it again;
* a turn that Splunk shows after a later one of its harness was indexed is never
  indexed, and a harness that fails in every run keeps those behind it waiting;
* a job that was switched off and is switched on again is to be judged "from its
  resumption" (`cron-success-watchdog.py.j2:309`), but when its last run succeeded,
  `last_ok` becomes the time of that run, and an interval job is paged at once: this
  happens to every job that the brain watchdog pauses for longer than its threshold;
* a healthy job is not to be charged for the time its store was stopped (line 281), but
  when its last success falls into the stop, or just before it, `paused` is reset after
  the stop has been added to it, and all of the stop counts as silence;
* a job that is overdue again before its mute is over, and stays dead, is never paged
  again: it is overdue in every run, so the mute does not expire, although a job that
  dies "re-alerts normally once the mute expires" (line 82);
* a cron store that cannot be read in one run is said to have "nothing evaluated" (line
  161), but all its jobs are forgotten: clocks start anew, and a page is never followed
  by its all-clear;
* no rule of the selector ties the pytest files under `tests/dify_docker` and
  `tests/llamaindex` to a change of these roles, and a changed fixture of
  `tests/repo_guards` or `tests/inventory_load` brings one playbook or the inventory load
  and not the pytest files beside it (`Untied` in `ContractScope`);
* "every test that loads the file" is selected for a change of the vars of the Hermes
  group (`select-contract-scope.py:275`), but of these a pytest file under
  `tests/llm_router` is dropped by the job it is selected for and selects no router shard;
  and a test under `tests/qdrant_llamaindex`, which needs live services, is selected when it
  changes and run by no job (`_data-contract.yml:326`);
* text in a field the classifier does not read, and text or changes in a form the gh wrapper
  does not know, leave unscanned (see [RouterRequest](#routerrequest-and-what-it-is-built-from)
  and [GhAccess](#ghaccess));
* a task finished in a tick while still in READY is picked up again from the
  snapshot of that tick, and moves from Done to In Progress;
* a requeued task is handed over with the card that has already failed, as long
  as that card is not archived;
* a tick aborted after `save_ledger` leaves the tracked task in READY until its
  card is over, not until the next tick;
* a task the operator closes while it waits in BUSY returns to READY;
* a deleted tracked task ends every tick before intake, so no other task is
  accepted (`ReadyIsAccepted` with `OperatorMay = {"delete"}` and two tasks);
* an outage that begins within the cooldown of an earlier one and lasts is never
  paged; an up edge in the run that first sees the cooldown over drops the flaps
  counted so far; `BUSY_GRACE_PROBES` busy probes count as one bad probe, so
  saturation needs `DOWN_AFTER` times as many to count as an outage;
* a kill can leave the fleet paused behind a state file that reads up, until the
  next good probe, and a streak of bad probes that a good one had ended, so that fewer
  than `DOWN_AFTER` more of them pause (`PauseIsDebounced` with `kill`);
* a run killed in the middle of writing a sentinel leaves a file no later run
  reclaims (`OrphansAreReclaimed` with `torn`); two converges at once can restart
  under a job (`DrainedRestartHurtsNobody` with two runs); an operator who clears a
  file in the middle of a run and pauses the store again loses that pause, and so does one
  who pauses a store between a run's look at it and its write, lines 173 to 189
  (`OperatorPauseKept` with "race" in `OperatorMay`; the run has an operator without it).

## What is left out

Within the modelled components: message texts, logging, the JSON schemas, HTTP
details beyond success and failure, and the healthchecks ping. Two runs of an
indexer started by hand beside its timer are not modelled. Regular expressions
are taken as what they match, checksums as contents, and the classifier as an
oracle with a timeout. The components without a model are in the table above,
each with its reason. Most of them are shell and Python templates with a state
file each; the integration helpers are tests.

## Plan

Done: the bridge with its contract, the watchdog, the drain and their safety
theorems; the two indexers, the GitHub access, the model store, the watchdog of the
scheduled jobs, the router callbacks, the CI selection and the model trial, with theirs.
Next, in this order:

1. `BridgeUnderWatchdog`, composing the watchdog's `probe_state` with the bridge's
   two readings of it, and the abstract gate it should implement.
2. The fabric watchdog, which pages before it saves where the success watchdog saves
   before it pages, with "every edge is told" as the abstract specification of both;
   and the composition of the brain watchdog, which pauses the jobs, with the success
   watchdog, which judges them.
3. `Digests`: the Splunk digest, the triage digests, the kanban digest and the
   failure rollup as "query, choose under a cap, post, save".
4. `BrainSync` with the gateway restart from state; `JobQueue`; `Scaler`.

The number of runs is kept small: a component that shares no state with another
joins a harness, and a disagreement that is well described gives its run to a
component that is not checked yet. Theorems worth proving next: the reporter
contract of 2 and 3, and `DrainTheorem` for any number of runs under a premise weaker
than `OneAtATime`.
