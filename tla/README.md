# Formal models of the data-analysis Harness

The repository is a data-analysis assistant: a FastAPI back end in which one user question
becomes one *run* of a Harness. The run is a loop that plans an action with an LLM, executes a
tool, looks at the result and goes on, until it has a final answer or has to ask its user. Runs,
actions, confirmations, turns, artifacts and memories are rows in PostgreSQL, every call of a
repository is a transaction of its own, and a run may be served by several requests after each
other or at once: the one that started it, the ones that answer its questions, the ones that
reconcile it. What makes the system correct is therefore a protocol between transactions, and
that protocol is the subject of these models.

All paths below are relative to `src/`; `app/` is the back end.

## 1. The system

| Component | Code | State it keeps | Operations | Modelled by |
|---|---|---|---|---|
| Control state machine | `app/agent/state_result_store/{state,contracts}.py` | none (immutable snapshots) | `transition_harness_state`, snapshot validation | `HarnessState` |
| Loop controller | `app/agent/loop_controller/controller.py` | its copy of the control state | `start`, `resume`, `_run`, `_run_guarded`, `_finalize`, pauses, interruptions | `HarnessRun`, `RunLifecycle`; its calls of finalize also in `Finalization` |
| Run store and confirmations | `app/repositories/harness_run_repository.py` | `harness_runs`, `harness_confirmations` | `create`, `save`, `load`, `pause_for_confirmation`, `resolve_confirmation` | `HarnessRun`, `ConversationRuns` |
| Action committer | `app/repositories/harness_action_repository.py` | `harness_actions`, `action_seq` of the run | `commit` | `HarnessRun` |
| Finalization service and ledger | `app/agent/finalization/service.py`, `app/repositories/finalization_repository.py` | `harness_finalizations` | `finalize`, `reconcile`, `_drive`, `prepare`, `advance`, `mark_reconcile_attempt` | `Finalization`, `FinalizationPromise` |
| Conversations and turns | `app/repositories/conversation_repository.py` | `conversations.active_run_id`, `conversation_turns`, messages | `start_turn`, `finish_turn`, `release_active_run`, `delete_conversation` | `ConversationRuns` |
| Harness router | `app/api/routers/harness.py` | one task per request | run, resume, reconcile, each also as a stream; the cleanup after a failure | `ConversationRuns` |
| Planning agent | `app/agent/planning_agent/agent.py` | none | one LLM call with a deadline | its outcome, in `HarnessRun` |
| Tools, runtime, artifact store | `app/agent/tool_runtime/`, `app/agent/business_tools/`, `app/repositories/harness_artifact_repository.py` | `harness_artifacts` | `execute`, `save`, `read`, `build_report` | `ToolArtifact`, `ArtifactPromise` |
| Memory formation | `app/agent/memory/{formation_service,eligibility,governance,writer}.py` and the extractors | `memory_formation_runs`, background tasks | `submit`, `process` | `MemoryFormation`; the claim also in `Finalization` |
| Long-term memory and indexes | `app/agent/memory/{manager,lifecycle,write_policy}.py`, `types/`, `app/repositories/memory/` | memories and assets, Qdrant and Neo4j projections, failed index jobs | `add`, `search`, `forget`, `expire` | `MemoryIdentity`, `MemoryStore` |
| Context engine, summaries | `app/agent/context_engine/`, `app/repositories/context_repository.py` | conversation summaries, build rows | `build`, `prepare`, `save_summary`, selection under a budget | `ContextSelection`, `ContextBuild` |
| Query graph and analysis | `app/agent/query_graph.py`, `app/agent/nodes/` | state of one graph invocation | the plan and its layers, the nodes of the query graph | `QueryContext`, `AnalysisGraph`, `AnalysisPromise` |
| Event streaming | `app/agent/streaming/writer.py` | one stream per request | ordered, sanitised events | no |
| Semantic indexing, clients | `app/services/semantic/`, `app/clients/` | Qdrant, Elasticsearch | batch builds | no |
| Front end | `frontend/` | the user's view | requests | only as requests that may come at any time |

### How the components interact

    request ──> router ──start_turn──> conversations/turns
                  │
                  └──> loop controller ──create/save/pause/resolve──> harness_runs, confirmations
                          │      │
                          │      ├──commit──> harness_actions (+ action_seq of the run)
                          │      ├──plan──> planning agent      ├──execute──> tool runtime
                          │      └──build──> context engine
                          └──finalize──> finalization service ──> ledger, turn and messages,
                                            ▲                     terminal row, active_run_id,
    POST /run/reconcile ────────────────────┘                     memory formation

    tool runtime ──> query_data | analyze_data (plan, layers of query graphs) | build_report
         └──save/read──> harness_artifacts
    memory formation ──govern, write──> memories ──sync──> Qdrant, Neo4j, asset flag
    context engine ──read──> messages, summary, recall ──write──> summary, build row

There are no threads and no locks held between transactions. The row of a run is guarded by an
optimistic version (`state_version`), the order of its actions by `action_seq`, the outcome by the
content digest in the ledger, the conversation by `active_run_id`.

### What is hard

* **Interleaving of requests.** Two replies to one question; a reply while the task that asked
  has not returned yet; two reconciles; a reconcile against the controller; a start between the
  two transactions of another start.
* **Interruption between two transactions.** A cancelled task, an exception, a passed deadline or
  a dead process. The controller answers the first three itself by closing the run, possibly while
  it is already closing it.
* **Stale copies.** A worker, a cleanup and `_drive` each act on a row read some transactions ago;
  only the version check at the next save tells.
* **Replay.** Finalization is a sequence of five effects, each made idempotent so that a replay
  from the ledger's stage repeats nothing.
* **Stores without a common transaction.** A memory is committed first and indexed afterwards; an
  artifact may be committed although its answer is lost; an index may show what the table forgot.
* **Models that choose.** What an LLM plans, selects or names is arbitrary; the code between two
  prompts has to repair or refuse it.
* **Limits that only together bound the run**: iterations, planner retries, tool retries,
  confirmations, all persisted in the row because a pause may put any of them into another process.

### What makes each component correct

* Control state machine: only listed transitions; a waiting row has its question, a terminal row is
  in finalization. (Definitions, used by all the others.)
* Loop controller and its stores: one runner; a waiting run has exactly one open question; committed
  actions are consecutive; a non-idempotent tool runs once; a failed request is not committed again;
  the loop is bounded; nothing is committed once the run is closing; a run stops.
* Finalization: one answer, the locked one; the row ends as locked; the conversation is released last
  but for memory; the ledger never claims what is not done; every locked run completes.
* Conversations and router: only the holder has an open turn; a closed turn is never rewritten; a live
  run keeps its conversation; ledger, row and turn agree; a run that is over completes.
* Tools and artifacts: one result per action for ever; the loop is told of success only with it; a
  report is made of whole results; every call ends; the output a run is closed with is a stored report.
* Memory formation: a turn is formed once; its audit says what was written; nothing that governance
  refused or the user did not want is stored; a deleted conversation teaches nothing new; what began ends.
* Long-term memory: one retrievable memory per key, versions in a line, recall shows what the table
  says, a missing index entry is on record.
* Context: the summary skips nothing; the model is given the whole conversation and the attachments
  whenever there is room.
* Query graph and analysis: each task is decided once, on the outcomes of what it depends on; every
  accepted plan reaches its evidence; SQL is generated from a context that can be computed and
  joined, by dates that are meant; result columns are traced to the metric the SQL declared.

## 2. The modules

| Module | What it is |
|---|---|
| `HarnessState` | The control-state machine as operators: `CanTransition`, `Transition`, `CanSave`, `IsTerminal`. Every module below uses them, so all agree with the code on what a transition does to status, phase, intent, pending confirmation and version. |
| `FinalizationPromise` | Abstract: what a closing promises. One outcome is chosen, published, the run ends, the conversation is freed, a completed run may be learned from, in this order and each once. |
| `Finalization` | One run being closed by the controller and any number of reconcile requests, one action per transaction. |
| `RunLifecycle` | Abstract: a run as its client sees it. |
| `HarnessRun` | One run from its start to its end: loop, tools, pauses, replies, interruptions, deadline, dead processes. |
| `ConversationRuns` | Several runs and requests in one conversation: start, takeover, pause, resume, reconcile, cleanup, deletion. |
| `ArtifactPromise` | Abstract: an action has at most one result, for ever; what the loop trusts is stored; what is published was trusted. |
| `ToolArtifact` | The tool calls of one run, from dispatch to the observation, the output the run is closed with, and its read by the history. |
| `MemoryIdentity` | Operators: what makes two memories the same, which row a write finds, replaces or creates. |
| `MemoryStore` | The memories of one user and the indexes that follow them, under interleaved writes, forgetting, expiry and recall. |
| `MemoryFormation` | Turns submitted for formation, inline or in the background, to their audited end. It writes with the operators of `MemoryIdentity`, in one step; `MemoryStore` splits that step. |
| `ContextSelection` | Operators: deduplication, the shares of the token budget, selection, cutting, and the fit of the compiled context. |
| `ContextBuild` | Builds of one conversation that overlap with each other and with its turns, and the summary they extend. |
| `QueryContext` | Operators: the merge of what was retrieved, the reconciliation of what the models chose, the lineage of result columns. |
| `AnalysisPromise` | Abstract: tasks are decided once, after and according to their dependencies, and the evidence counts them. |
| `AnalysisGraph` | A plan carried out layer by layer, each task a run of the query graph in supersteps and a calculation. |
| `Finalization_proofs`, `HarnessRun_proofs`, `ConversationRuns_proofs`, `ToolArtifact_proofs`, `MemoryStore_proofs`, `MemoryFormation_proofs`, `ContextBuild_proofs`, `AnalysisGraph_proofs` | The theorems about each state machine and their proofs, section 5. |
| `MC*` | Instances for TLC. |

Refinements: `Finalization` implements `FinalizationPromise` (`KeepsPromise`), `HarnessRun` follows
`RunLifecycle` (`FollowsLifecycle`), `ToolArtifact` implements `ArtifactPromise`
(`KeepsArtifactPromise`) and `AnalysisGraph` implements `AnalysisPromise` (`KeepsAnalysisPromise`).

The first three state machines look at the same code from different distances. `Finalization` splits
`finalize` into its transactions and reduces the loop to "some outcome"; `HarnessRun` splits the loop
and reduces finalize to one step that succeeds, fails after the lock or is refused;
`ConversationRuns` reduces both to what the runs of a conversation share. A driver, worker or task
is always a record with a program counter, the copies of rows it has read, and what it was given; an
action is what happens between two `await`s.

Correspondences that are not obvious from the names:

* A `row` is `harness_runs` with its `state_payload`. `CanSave` is `_assert_version` and the other
  guards of `save`. `NoPending` is a null `pending_confirmation_id`.
* In `Finalization` a value of `Values` is a whole `FinalizationInput`; the equality of two values is
  the equality of their content digests. Saved history is one turn with a count of assistant messages.
* `Raise`, `Caught` and `Fail` are what an exception does at the point where it is raised: inside
  `_run` it reaches `_run_guarded`, which closes the run; from a handler it ends the task; inside
  `_drive` it is a `FinalizationFailure`, which no handler turns into a second close; a *cancellation*
  inside `_drive` is not, so the controller closes the run again, as cancelled.
* `HarnessRun`: a request stands for its request hash, a question for a (reason code, question) pair.
  `runs` and `outcome` of an action are history variables, read by no guard.
  `Dispatch` to `Rebuild` are the phases of one iteration. A reply that expires or answers the wrong
  fields is a refused reply, which changes nothing in `HarnessRun`. `CanRetry` asks only whether the tool is
  idempotent: the errors it is asked about are temporary ones, which `runtime.py` marks retryable and never
  calls `tool_timeout`. `Spec` assumes that a handler can load the row it closes; `UnreadableSpec` adds
  the fallback for when it cannot (`CloseFromMemory`, section 6, item 4).
* `ConversationRuns`: a task with `cleans` set is one whose route calls
  `_finish_unhandled_start_failure`: run, streaming run and streaming resume do, plain resume and
  reconcile do not. Deleting a conversation removes its turns and keeps its runs, as the code does.
  `Reload` and `CloseAgain` are the two transactions of a handler that closes a run: it reads the row and
  saves the closing.
* `ToolArtifact`: an artifact's payload is the set of its rows or the sequence of its tasks; equality
  of payloads is equality of content hashes. `SaveIsUncertain` is a `DBAPIError` raised around the
  commit. A task id is a name with the suffixes `_unique_task_id` has put on it.
* `MemoryStore`: a row is a write request with its life cycle. A task's `todo` is the list of calls it
  still makes after its commit, in the order of `_sync_write_result`. `held` are the rows it has
  locked for update, the advisory lock of a write is `LockIdentity`. `Abandon` is a task that
  disappears with its process. `revived` and `dropped` are history variables.
* `MemoryFormation`: a caller is a request (inline) or a background task; `Submit` claims the turn by
  inserting its row, which is why a second submit does nothing. `sources` says from which turns a
  memory was formed. `deleted` says that the conversation is gone, and with it the turns `govern` looks for;
  the memories and the formation rows stay. The check and the write are two transactions, so one candidate
  per task may be written after the deletion, which `DeletedTeachesNothing` admits.
* `MemoryIdentity`: the key of a perceptual memory stands for the pair of asset and modality. A new row does not
  expire, because no request of a formation carries `expires_at`; `MemoryStore` sets one later, by an update.
* `ContextSelection` and `ContextBuild`: an item is its identity, kind, size in tokens, score and text
  (`Texts` are identities and normalised texts, only compared); `rank` stands for the order
  `_prefer` has of versions, confidence, relevance and so on. A sorted list is a sequence of *places*,
  sets of at most one item (`NewestFirst` has a place for every index); among equal scores the id decides
  where the code keeps the order of retrieval. A loop over the list is a recursive function on the
  places. `older` is what a build took out of its window
  and `Marked` the flag an attachment's memories get from it. The text of a summary is the set of
  messages it tells of. A withdrawn turn is one whose run failed; `finish_turn`
  takes its messages out and drops a summary that told of them. An answer may be empty, and adds no message
  then, only if the turn was closed without a run that reached `finish_turn` (`Unanswered`).
* `QueryContext`: a catalog is tables, columns, metrics with the columns they use, and an ordered
  sequence of relationships, because `_find_table_path` is a breadth-first search whose result
  depends on that order. `Denotes` is what a name used by the model may resolve to. `Visit` opens one
  table, the first that the queue, the priorities and the ids allow, and carries the way back to it
  (`previous`) along; the code stops when it reaches its target, `Search` when no table is left, and both
  reach it the same way. `Meant` are the dates a question means for a fact: those it names which the fact has,
  and the default one if it names none. `SourceMetric` looks a metric up by its id only: the second
  alias of `_metric_candidates`, `metric_name`, is the same in every row of the catalog that is loaded.
  `CatalogAssumption` is what `scripts/mysql/05_build_meta_tables.sql` loads: a metric uses columns of its
  base table, and a relationship joins columns its two tables have.
* `AnalysisGraph`: the set `Writes(n, q)` holds what node `n` may make of the query state `q`; a node
  that can only raise has none. `NodeFails` is any exception of a node, which ends its task as failed.

## 3. The runs

| Run | Question | Bounds |
|---|---|---|
| `closing` | Do the safety properties, the abstract promise and termination hold while one run is closed? | controller, two reconcilers, three outcomes, two faults |
| `run_tools` | Do the action log, tool retries and refusals of failed requests hold? | two workers, an idempotent and a non-idempotent request, one question, two iterations, one retry of planner and tool, one interruption |
| `run_dialogue` | Does a run follow its life cycle through two questions, with one runner, and does it stop? | two workers, two questions, one request, two confirmations, one interruption, one dead process |
| `conversation_safety` | Do history, ledger, rows and occupation agree? | two tasks, two runs, one question, one fault, and either a refused reply or a deletion |
| `conversation_liveness` | Does the closing of a run that is over complete when another run takes the conversation? | two tasks, two runs, no faults |
| `tool_results` | Is there one result per action, are reports whole, does every call end, is what a closed run shows a result it was told of? | three actions, one retry, reports of two references, two faults, an empty and a filled query and an analysis with a name that collides with a suffix |
| `memory_store` | Do keys, versions, recall and the record of missing index entries hold? | two tasks, three operations, five kinds of request, two conversations, two moved expiries, one fault |
| `memory_formation` | Is each turn formed once, as its audit says, and to an end, and does a deleted conversation teach nothing new? | two turns, two callers, four kinds of turn, four proposals, two faults, one deletion |
| `context_window` | Does the summary skip nothing, and does the model get the conversation and the attachments? | three turns, two of them live, three builds, one fault, short and long messages, a base that leaves room for some of it or is too large |
| `analysis` | Is the plan carried out, and is what each query works on and returns sound? | three tasks, seven plans; or one task over a catalog of four tables, three metrics and six relationships |
| `conversation_cleanup`, `conversation_start` | Statements of the code and its documents that the models refute, see section 6. | as small as the counterexample |

Some properties are in no run because they are proved (section 5): `FormationLast`, `LedgerOnlyAdvances`
and `TerminalIsFinal` of `Finalization`, `LoopIsBounded` and `CompletedWithAnswer` of `HarnessRun`,
`ReleasedRunsAreOver` of `ConversationRuns`, `SuccessIsStored`, `TaskIdsAreUnique` and
`LockedReportIsThere` of `ToolArtifact`, the
inductive invariants, and the type invariants of `HarnessRun` and `ConversationRuns`. The other type
invariants hold under the configurations of their runs when they are added to them; the runs themselves
ask the questions they do not answer.

Why the bounds are enough to be interesting:

* Two reconcilers and the controller give every pair of drivers; a third reconciler meets the same
  ledger row. Two faults let the controller be interrupted inside `_drive`, close again, be refused,
  and a reconciler die as well. Three outcomes include the pair that matters, an original one and the
  `cancelled` one of the second close. The proofs cover all numbers.
* The controller calls `_finalize` at most twice (`CallsOfFinalize`): once from the loop and once from
  a handler, and handlers are not guarded. This is the code, not a bound.
* Two workers are a task left over from a pause and the task of the reply; a worker that ended may
  serve a later reply. Two iterations are needed to repeat a failed request, one retry to retry a tool
  that must not be. Iterations, retries and confirmations are the code's own limits with small values.
* Two runs and two tasks give one run that holds the conversation and one that wants it, each served
  by any task; a run id is never used again, so at most two runs are started. Symmetry of tasks and runs is
  sound: no action distinguishes them and the run states no liveness property.
* Three tool calls are two results and a report of both; two faults lose the commit of a call and of
  its retry. Three memory operations are two writes of one fact and the recall, forget or third
  write between them; one fault lets an index fail, a write be rolled back or its answer be lost, or a task disappear.
  Two moved expiries let a row expire, a write ignore it and an update bring it back beside the new
  one. Two turns and two callers give a second submit of the same turn and two turns that
  tell the same fact.
* The token sizes of `context_window` are the code's shares (50 % history, of it 65 % recent) of a
  budget of 40, with messages of one or nine tokens: the window holds a part of the conversation,
  the summary has to be extended twice, two attachments do not fit as they are, and a base of 41 is
  refused. Three turns with two live at once give every order of two overlapping builds and the turn
  after them.
* The catalog of `analysis` has two fact tables that share dates and customers, two date columns per
  fact of which one is the default, two metrics of one table, and names retrieval still knows that
  the catalog has dropped: the smallest one in which a join path can be wrong. Plans of three tasks
  have a join, a fork and a chain. One task is enough for the query graph, since queries share nothing.
* Deadlock is checked in `context_window` and `analysis`, whose `Next` has a step for having ended; the
  others come to rest when their requests are served.

## 4. Fairness

`Finalization` and `ConversationRuns` assume that a task which can go on does (the event loop runs
every ready task) and that somebody keeps calling `POST /run/reconcile` for a locked run that is not
completed. **Nothing in the code does that by itself**: `LockedRunCloses` and `OverRunCompletes` say
that a closing *can* always be brought to its end by repeating that request, from every crash point,
not that it will be without it. The number of faults is finite. In `HarnessRun` every worker is weakly
fair, and so is reconcile; replies, interruptions, dead processes and the deadline are not fair, so
`RunStops` holds without a deadline and without an answer (a waiting run has stopped running). It is
stated for executions in which no process dies: a dead process leaves a running row that nothing in
the code picks up.

`ToolArtifact`: tools have timeouts, so a call goes on (`WF` of `CallStep`). `MemoryFormation`: an extractor and the
database answer (`WF` of `Advance`); `FormationEnds` names its exception, a task lost with its process,
whose claim nothing takes up again. `AnalysisGraph`: every model call, query and calculation returns
or times out (`WF` of `Work`, one condition for all tasks, since some task can always go on and each
step brings the plan nearer to its end); `Cancel` is not fair.

`OverRunCompletes` is checked without pauses: while a newer run waits for its user, the release of an
older run in the same conversation is refused, and no fairness makes a user answer.

## 5. What is proved

Eight modules `*_proofs` hold theorems that `tlapm` checks for every value of the constants: any number
of requests, workers, turns, runs, actions and faults, any outcomes, plans, catalogs and proposals. TLC
checks the same properties in the runs, and checked every inductive invariant on the run's
configuration before it was proved. Hardly any of the properties is inductive by itself, mostly for the same
reason: a task acts on what it read some transactions ago, so the invariant has to say what a task at
that point of its way still knows. The step theorem then has one lemma per action.

**`Finalization_proofs`** assumes `ValuesAssumption` (outcomes are terminal, `NoValue` is not one, the
controller is not a reconciler) and `BoundsAssumption`. `IInv` adds, per driver: `FollowsLedger` (past
the lock it carries the locked value and a stage that is at most the ledger's), `WorksBeforeAdvancing`
(before `advance`, the effect of the next stage is in the database), `ReadsOrLags` (its copy of the row
is the row, or has a smaller version, so a save that passes the version check extends the very row it
was computed from), `IntentIsNextOrLags` (an unsaved intent does not pass the check against a terminal
row) and `HoldsOutcome`. Every action moves the database forward only (`Monotone`); the effects of the
stages never go away, which is why the other drivers' conjuncts survive a step (`OthersKeep`, `Rests`).
Theorems: `TypeCorrect`, `ReleaseIsSafe`, `OneAnswer`, `EndsAsLocked`, `LedgerIsTrue`, `FormationIsLast`,
`TerminalStays`, `LedgerAdvances`, and `Refinement` of `FinalizationPromise`.

**`HarnessRun_proofs`** assumes `RunAssumption` (the starter is a worker, only requests are idempotent, a
null question is neither a question nor a request, limits are numbers and there is an iteration). `Inv` says of the one worker in
the loop (`RunnerKnows`) that it knows the whole log, and has the current version of the row exactly
until somebody closes the run; `RunnerActs` says which action it is busy with and that its memory of
failed requests is complete up to it; `CloserInv` says that a worker which closes has the row, an old
one, or the next version of a *waiting* row, which it woke up in memory only. `WaitingRow` carries all of
this over a pause into another process. Counting the answered confirmations (`AnswersCounted`) is what
bounds the log. Theorems: `LogAndRowAgree`, `WaitsForItsQuestion`, `AtMostOneRunner`,
`ToolsRunAsOftenAsAllowed`, `FailedRequestsStayOut`, `LogIsBounded`, `CompletedRunsAreAnswered`, the action
property `ClosingRunStandsStill`, and `Refinement` of `RunLifecycle`.

**`ConversationRuns_proofs`** assumes `OutcomesAssumption` and `RunsAssumption`. `Inv` says per run what
row, ledger and turn imply of each other (`RowInv`, `LedgerInv`, `TurnInv`), and per task that its copy of
the row is old or current (`KnowsRow`) and that it advances the ledger only over what is done
(`DriverInv`). Theorems: `OneOpenTurn`, `HistoryShowsLockedOutcome`, `ReleasedMeansOver`, and the action
properties `ClosedTurnsStay` and `LiveRunsKeepTheirConversation`. `LedgerRowAndTurnAgree` holds only as
long as no streaming reply was refused (section 6, item 5) and needs a second invariant for that case,
`CalmInv`: one request at most owns a run's cleanup, and a locked run's row is closing.

**`ToolArtifact_proofs`** assumes `BoundsAssumption`, `ContentsAssumption` (only the report tool makes
reports, an analysis is a sequence of tasks) and `OpenAssumption`. `Inv` says that the call at work owns the
next free slot and that what it is about to report is stored there with the content it reports
(`CallOwnsSlot`), and that the locked output was told of as a success (`FinalIsReported`). Theorems:
`NoSuccessWithoutArtifact` and `Refinement` of `ArtifactPromise`.

`ResultsInv` is about what is in the rows. A call that reads (`CallReads`) has left some of its references,
each of them once, and none of a result it has read; the tasks it has so far tell of exactly the results
it has read, task for task (`Tells`, a bijection), under ids that differ. Reading one more result adds its
tasks one by one (`TaskAdded`, `SourceAdded`), and each of them finds a free id: among one more suffixes
than there are ids taken one is free, because different suffixes make different ids (`FreeSuffix`, by the
pigeonhole principle), so the loop of `_unique_task_id` ends. That references are not named twice is
`Deduplicated`. Rows only expire, and the loop is told of a result after it is stored, so what a report
was made of stays as it was read. Theorems: `ReportsAreWhole`, `TasksHaveIds`, and `LockedReportsAreThere`,
which puts the two together for the output a run is closed with.

**`MemoryFormation_proofs`** assumes `FormationAssumption` (what is proposed is a sequence of governed
requests). `Inv` ties the decisions of a task, in memory only until the audit is written, to the
memories its turn has left: they name no other, and all of them unless one failed (`TaskInv`, `FormInv`);
`OneTask` is the claim. Theorems: `AuditIsTrue`, `RefusedIsNotStored`, and the action properties
`NoSecondFormation` and `DeletedIsNotLearned`.

**`MemoryStore_proofs`** assumes `RequestsAssumption`. Four invariants, each on top of `TypeInv`:
* `LineInv`, for `VersionsAreALine`: rows that a writer has locked for its commit stay active and are of
  its identity, and no two writers hold the same (`LockInv`), although writers under different advisory
  locks may look for the same row.
* `KeyInv`, for `OneIsRetrievable`: a writer with a key has every retrievable row of its identity among
  those it looked for (`WriterSees`), because the advisory lock lets nobody else write for it.
* `RecallInv`, for `RecallsAreCurrent`: what must be hidden from a recall is invisible to it all along.
* `IndexInv`, for `WhatIsMissingIsRecorded`: only what is inactive is on a list of removals
  (`ListsAreGood`), and every active row is indexed, on its way, recorded as failed, or abandoned.

The proof of `OneIsRetrievable` corrected the model. The property used to exempt only *pairs* with a
revived row and passed TLC with one moved expiry; the proof did not go through, and with two moved
expiries TLC shows why: a row expires, a writer ignores it and adds a second row of the key, an update
brings the first one back, and the next write replaces one of the two. Two rows that were never revived
can then both be retrievable. The property now exempts the *identity* of a revived row, and
`memory_store` allows two moved expiries.

**`ContextBuild_proofs`** assumes `PolicyAssumption` (the field constraints of the policy, and that the
normalised texts are a set) and `ItemsAssumption` (sizes are numbers; a turn names an attachment once;
items that compete have ids and ranks of their own; nothing recalled is a message; a missing summary
is not one). `GapInv` says that what a build loaded is the whole conversation up to some message but for
the withdrawn ones, and that the summary it *means* to write has no gap, whichever summary it read.
Messages are only added and withdrawn ones stay so, hence both survive what other builds do. The largest
element of a set of positions comes from `WellFoundedInduction`. Theorem: `SummarySkipsNothing`.

The second part of the module is about one selection, for any items and any policy. `DeduplicateIs`: what
is required survives both passes of the deduplicator, itself or as an item with its text, and history
always does. `FillIs` and `RequiredIs`: a class of items adds to what there is, takes no more than its
share, and a required item is there, cut or not, unless the selection has failed. `FitIs`: the final fit
removes optional items only. With these, `CompiledIs`: what a turn attached is in the compiled context.
`RecentIs` says what the recent window costs in the history manager's own estimate, `WindowReaches` that
the selector, which counts the same messages by its own rules and newest first, has something left for
each of them whenever its share is at least the window's, and `BudgetsAre` that the two shares of the
history add up. With these, `HistoryReaches`: without attachments, and with room for history, the whole
window and the summary are chosen.

`ReadInv` connects the two: from the reading of the summary on, a build's window is the newest part of
what the summary did not cover, for the budget this build has (`Windowed`); what it leaves out is no newer
than something it is about to summarise (`Behind`); and once it has written its summary, or read the one
that won, that summary tells what is left out (`Covered`). Theorems: `AttachmentsArrive` and
`ConversationArrives`.

The proof of `ConversationArrives` corrected the property. It used to be claimed of every build, passed TLC
with three turns, and is false: the summary that won may be dropped by a withdrawn turn and replaced by a
shorter one before the build that lost reads it (section 6, item 13). `ModelReadsTheConversation` now
exempts a build that was *outrun* in this way, and the former claim is `SummaryMeetsTheWindow`.

**`AnalysisGraph_proofs`** assumes `InputsAssumption` and `CatalogAssumption`. `Inv` says that a layer holds
only tasks whose dependencies are decided, and that a task which has not failed goes on only because they
all succeeded; from it follows `Refinement` of `AnalysisPromise`. `QueriesInv` follows a query through
its supersteps: `merge_retrieved_info` finds known metrics only, `reconcile_filtered_context` completes
what the models chose (`ReconcileIs`), and no later node changes the context. `GeneratedFromUsable` is
`ContextIsUsable` for every catalog, which rests on what the search computes: that the recursive function
exists and each of its values is one queue (`SearchGoesOn`, by a least counterexample), and that in such a
queue every table has a way back to the start along relationships of the context, each of which leads
between tables the queue holds, with a date that is meant where a fact that has one was joined to the dates
(`SearchIs`). The last point needs that the first of the tables that may be opened is the one with the best
priority (`FirstIsMeant`). `MetricsAreTraceable` is
`ResultIsTraceable`, from what `Describe` writes for one name (`DescribeIs`).

Only model-checked, because they need fairness and `ENABLED`: the liveness properties `LockedRunCloses`,
`RunStops`, `OverRunCompletes`, `CallEnds`, `FormationEnds` and `PlanIsCarriedOut`. Every
invariant and every action property of the passing runs is a theorem.

The library's induction theorems take an operator as a parameter and cannot be used, so a pass over data is
a recursive function on the places of a sequence, `f[n]` from `f[n - 1]`, and what holds at every place
follows from the least place where it does not (`PlaceByPlace`, from `WellFoundedInduction`). That such a
function exists is shown first, place by place as well (`GoesOn`).

## 6. What the models refute

Two statements are runs that are expected to be violated; the trace TLC prints is the scenario.

1. `conversation_cleanup`: `harness.py:430` says that the cleanup after a failed start releases the
   conversation. `_finish_unhandled_start_failure` (`harness.py:476`) applies two transitions to the
   loaded state and saves once, so the version is raised by two and `save` refuses it. The refusal is
   swallowed, the turn is closed as failed, and the run stays running: the conversation cannot be used
   again.
2. `conversation_start`: `start_turn` and `run_store.create` are two transactions. A second
   `start_turn` between them takes the holder for a dead run and takes the conversation; both runs
   execute. `asbuilt.md:412` says the second is not admitted.

Further statements that do not hold, each with the configuration that shows it
(`tlc -config <cfg> MC<module>`):

3. `HarnessRun_cancelled.cfg`, `CancelledTaskClosesRun`: `controller.py:217` says a run is brought to a
   terminal state even when the client disconnects. Cancelled just after `pause_for_confirmation`
   committed, the controller takes the waiting row through the same double transition; the save is
   refused, and the run stays waiting and keeps the conversation.
4. `HarnessRun_memory.cfg`, `ConflictIsReported`: `controller.py:344` says that when the row cannot be
   loaded, the run is closed from the state in memory, so that the save reports the real conflict.
   `_transition` works in place, so after a refused save that state is one version ahead. When another
   worker has saved exactly once, here to close the run, the save of this closing is accepted and
   replaces the outcome of the other.
5. `ConversationRuns_stale.cfg`, `LoopOwnsItsRow`: the cleanup's save is *accepted* when the executing
   loop saved exactly once after the cleanup read the row, since the row then is one version behind the
   copy plus two. It overwrites the row of a live run, even a terminal one.
   `Finalization!TerminalIsFinal`, which is proved, is about the controller and reconcile; this cleanup
   is outside that module. `CheckpointsAgree` is stated for executions without refused replies for the
   same reason.
6. `ConversationRuns_reply.cfg`, `RefusedReplyKeepsTurn`: a streaming reply that is refused as
   conflicting reaches that cleanup, which fails the turn of the run another request is executing;
   `incremental_sdd.md:3092` says a conflicting reply changes no state.
7. `HarnessRun_log.cfg`, `ActionSeqNeverLost`: `commit` moves `action_seq` without `state_version`. The
   save of a worker left over from an interrupted pause still passes the version check and takes
   `action_seq` back. The damage is limited to a run that is closing: `LogMatchesRow` holds otherwise.
8. `Finalization_answer.cfg`, `RowShowsLockedAnswer`: the row's `final_answer` may be that of a second
   close the ledger refused, while history and status are the locked ones.
9. `MemoryStore_overwrite.cfg`, `KeylessNeverOverwrites`: `write_policy.py:36` says a semantic text
   without a key cannot overwrite another fact. `_identity_conditions` looks for its content in rows of
   any key, so a text equal to the content of a keyed fact replaces that fact by a row without key.
10. `ContextBuild_attachments.cfg`, `AttachmentsAlwaysReachTheModel`: `selector.py:43` promises to keep
    explicitly referenced items first. With nothing left of the budget (instructions of 616 to 1000
    tokens at the default of 1000) `select` rejects them with everything else, and the build succeeds.
11. `AnalysisGraph_dates.cfg`, `DefaultDateComesSecond`: `reconcile_filtered_context.py:83` says that
    the date a question names comes first and the business default second. Once a date is named, every
    other date relationship has the same priority, the default of a fact that lacks the named date
    included, and the lowest relationship id wins. In the catalog that is loaded, a question about the
    purchase date joins reviews by their answer date and not by their creation date. `ContextIsUsable`
    therefore asks for the default only where no date is named.
12. `AnalysisGraph_truncated.cfg`, `TruncationIsReported`: `incremental_sdd.md:3888` says limitations
    must tell of truncation. `execute_analysis` drops the `query_limitations` of its queries, so a
    calculation over rows cut at the limit is reported without it.
13. `ContextBuild_reread.cfg`, `SummaryMeetsTheWindow`: `history.py:57` says `prepare` returns the summary
    and the recent messages it does not cover. `save_summary` reads the summary that refused its own in a
    second transaction (`context_repository.py:120`). When between the two a turn ran out of budget, which
    drops that summary, and another build wrote a shorter one, `prepare` returns the shorter one with a
    window that begins after the messages it meant to summarise: those are in neither. It takes four turns
    (about six minutes of TLC).

Observed while modelling and allowed by the models, without a run of their own:

* When a lost commit is followed by a retry with another result, the action fails with
  `artifact_action_conflict` although a result is stored. More than 32 limitations fail an action whose
  artifact has been saved. A database error while `build_report` reads a source is reported as
  unrecoverable.
* A locked run whose report expires before reconcile read it can never be completed.
* The index failures `record_index_failure` writes are read by nothing in the application; a completed
  asset flag can outlive its memory; a row that expired, was ignored by a write and was then given a
  later expiry is a second retrievable row of its key, and the writes that follow replace one of the two,
  which is the exception `OneMemoryPerKey` names. `forget`, `expire`, `update` and `register_asset` have
  no caller in the application outside tests and scripts.
* Governance's confidence threshold also drops explicit requests to remember.
* A build cancelled by the deadline leaves its row pending: `engine.py:122` gives every failure a terminal
  state, but its `except Exception` does not see a cancellation. A build that loaded a turn before it was
  withdrawn can put it back into the summary.
* Tasks of one layer share the request's database sessions (`harness.py:141`, `execute_analysis.py:768`);
  what SQLAlchemy does about that appears as a failing node.
* Of a table the model names twice, the last list of columns counts. An analysis without rows is a
  failed task. The list of limitations is cut at 32 and can lose a failed task's error.

Two limits are as documented and not findings: the deadline is not extended by a pause, and reaching
the iteration limit closes the run as a timeout.

## 7. What is not modelled, and the plan

Left out of the modelled components: texts, prompts and formatting; authentication and ownership
checks; the execution trace; expiry and field whitelists of confirmation replies; ranking scores other
than their order; the SQL text and the sandboxed program, which appear as the outcomes they can have;
the script that rebuilds the memory indexes. A planner and a tool are any outcome they can return.

Not modelled at all: the semantic indexing services and clients (batch I/O without state shared
between runs), event streaming (one stream per request, nothing of it survives) and the front end.

The modules are not composed into one: `ToolArtifact` takes the loop for a sequence of dispatches and
`HarnessRun` takes a tool for an outcome, and the interface between them is the observation, which
both have. The product would multiply state spaces that hardly interact.

What could follow:

1. The normalisation of a planner's text and the order of streamed events as pure algorithms.
2. Selections under every order of items with equal scores; here the id decides.
