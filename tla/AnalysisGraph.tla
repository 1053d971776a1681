--------------------------- MODULE AnalysisGraph ---------------------------
(***************************************************************************)
(* analyze_data: a plan of dependent tasks carried out layer by layer, the *)
(* tasks of a layer in parallel, each of them a run of the query graph     *)
(* followed by a calculation (app/agent/nodes/plan_analysis.py,            *)
(* execute_analysis.py, app/agent/query_graph.py and its nodes).           *)
(*                                                                         *)
(* The query graph runs in supersteps: the nodes triggered by the last     *)
(* step run in parallel, and the next step begins when all have ended.     *)
(***************************************************************************)
EXTENDS QueryContext

CONSTANTS
  Tasks,
  Inputs,      \* what the model may plan and choose and retrieval may find
  MaxTasks,    \* 8 in the code
  MaxRows

ASSUME InputsAssumption ==
  \A i \in Inputs : /\ i.plans \subseteq Seq([id : Tasks, needs : Seq(Tasks)])
                   /\ i.metrics \subseteq SUBSET Metrics
                   /\ i.chosenTables \subseteq Seq([name : DOMAIN Denotes, columns : SUBSET DOMAIN TableOf])

VARIABLES
  input,       \* the member of Inputs this analysis meets
  phase,       \* "planning", "running", "done", "failed", "cancelled"
  plan,        \* the accepted plan: a sequence of [id, needs]
  layer,       \* the tasks gathered now
  task,        \* of each task: where it is, and its query
  results,     \* completed_results
  evidence

vars == <<input, phase, plan, layer, task, results, evidence>>

NoContext == [ok |-> FALSE]
NoQuery ==
  [running |-> {"extract_keywords"}, ended |-> {}, ran |-> {}, ctx |-> NoContext,
   found |-> [tables |-> {}, columns |-> {}, metrics |-> {}, values |-> {}],
   chosen |-> [metrics |-> {}, tables |-> <<>>],
   answer |-> <<>>, rows |-> 0, truncated |-> FALSE, unmapped |-> FALSE, described |-> << >>]

Idle == [pc |-> "idle", query |-> NoQuery]
NoEvidence == [status |-> "none"]

Init ==
  /\ input \in Inputs
  /\ phase = "planning"
  /\ plan = <<>> /\ layer = {}
  /\ task = [t \in Tasks |-> Idle]
  /\ results = << >>
  /\ evidence = NoEvidence

(***************************************************************************)
(* The plan: unique tasks, each depending on earlier ones only.            *)
(***************************************************************************)
ValidPlan(p) ==
  /\ Len(p) \in 1..MaxTasks
  /\ \A n \in DOMAIN p :
       /\ \A k \in 1..(n - 1) : p[k].id # p[n].id
       /\ IsInjective(p[n].needs)
       /\ ToSet(p[n].needs) \subseteq {p[k].id : k \in 1..(n - 1)}

PlanAnalysis ==
  /\ phase = "planning"
  /\ \/ \E p \in input.plans :
          IF ValidPlan(p) THEN plan' = p /\ phase' = "running"
                          ELSE phase' = "failed" /\ UNCHANGED plan
     \/ phase' = "failed" /\ UNCHANGED plan       \* the model fails or is silent
  /\ UNCHANGED <<input, layer, task, results, evidence>>

Planned == {plan[n].id : n \in DOMAIN plan}
Needs(t) == UNION {ToSet(plan[n].needs) : n \in {k \in DOMAIN plan : plan[k].id = t}}
Completed == DOMAIN results
Pending == Planned \ Completed

(***************************************************************************)
(* The layers.                                                             *)
(***************************************************************************)
\* Mutant of Ready: a task waits for successes.
ReadyOnSuccess == {t \in Pending : \A u \in Needs(t) : u \in Completed /\ results[u].status = "success"}

Ready == {t \in Pending : Needs(t) \subseteq Completed}

\* gather over the tasks that are ready; a plan that leaves none is an error.
StartLayer ==
  /\ phase = "running" /\ layer = {} /\ Pending # {}
  /\ IF Ready = {}
     THEN phase' = "failed" /\ UNCHANGED <<layer, task>>
     ELSE /\ layer' = Ready
          /\ task' = [t \in Tasks |-> IF t \in Ready THEN [task[t] EXCEPT !.pc = "depend"] ELSE task[t]]
          /\ UNCHANGED phase
  /\ UNCHANGED <<input, plan, results, evidence>>

Outcome(t) == task[t].outcome

\* All of the layer has returned: its results are there for the next.
EndLayer ==
  /\ phase = "running" /\ layer # {}
  /\ \A t \in layer : task[t].pc = "ended"
  /\ results' = [t \in Completed \cup layer |-> IF t \in layer THEN Outcome(t) ELSE results[t]]
  /\ layer' = {}
  /\ UNCHANGED <<input, phase, plan, task, evidence>>

Counted(status) == {t \in Completed : results[t].status = status}

\* The evidence and the limitations analyze_data makes of it: those of the
\* display mappings and the errors.
PublishEvidence ==
  /\ phase = "running" /\ layer = {} /\ Pending = {}
  /\ phase' = "done"
  /\ evidence' =
       [status |-> IF Counted("failed") = {} THEN "success"
                   ELSE IF Counted("success") # {} THEN "partial" ELSE "failed",
        successful |-> Counted("success"), failed |-> Counted("failed"),
        limited |-> {t \in Completed : results[t].unmapped \/ results[t].status = "failed"}]
  /\ UNCHANGED <<input, plan, layer, task, results>>

\* The tool's deadline or the run's cancellation leaves through everything.
Cancel ==
  /\ phase \in {"planning", "running"}
  /\ phase' = "cancelled"
  /\ UNCHANGED <<input, plan, layer, task, results, evidence>>

(***************************************************************************)
(* One task.                                                               *)
(***************************************************************************)
At(t, pc) == phase = "running" /\ t \in layer /\ task[t].pc = pc
Goto(t, pc) == task' = [task EXCEPT ![t].pc = pc]

End(t, status) ==
  LET q == task[t].query
  IN  task' = [task EXCEPT ![t] =
        [pc |-> "ended", query |-> q,
         outcome |-> [status |-> status, truncated |-> q.truncated,
                      unmapped |-> q.unmapped, described |-> q.described]]]

Failing(t) == End(t, "failed")

\* Mutant of CheckDependencies: a task goes on after a failed dependency.
CheckNothing(t) ==
  /\ At(t, "depend")
  /\ Goto(t, IF Needs(t) = {} THEN "query" ELSE "resolve")

CheckDependencies(t) ==
  /\ At(t, "depend")
  /\ IF \E u \in Needs(t) : results[u].status # "success" THEN Failing(t)
     ELSE Goto(t, IF Needs(t) = {} THEN "query" ELSE "resolve")

\* A structured answer: it can be parsed, or it is late, broken off or refused.
AskModel(t, next) == Goto(t, next) \/ Failing(t)

\* The model turns what the dependencies found into the question to ask.
ResolveQuestion(t) == At(t, "resolve") /\ AskModel(t, "query")

\* The profile of the rows goes to the model, its program to the sandbox.
WriteCode(t) ==
  /\ At(t, "rows")
  /\ IF task[t].query.rows = 0 THEN Failing(t)
     ELSE AskModel(t, "calculate")

\* The sandbox refuses code, runs out of time, memory or output, or answers
\* with an error or with a decrease that is none.
Calculate(t) ==
  /\ At(t, "calculate")
  /\ End(t, "success") \/ Failing(t)

(***************************************************************************)
(* The query graph.  Each node is a set of the writes it may make to the   *)
(* query q; none when it can only raise.                                   *)
(***************************************************************************)
Edges ==
  {<<"extract_keywords", n>> :
     n \in {"retrieve_columns", "retrieve_tables", "retrieve_metrics", "retrieve_dimension_values"}}
  \cup {<<n, "merge_retrieved_info">> :
     n \in {"retrieve_columns", "retrieve_tables", "retrieve_metrics", "retrieve_dimension_values"}}
  \cup {<<"merge_retrieved_info", "filter_metric">>, <<"merge_retrieved_info", "filter_table">>,
        <<"filter_metric", "reconcile_filtered_context">>,
        <<"filter_table", "reconcile_filtered_context">>,
        <<"reconcile_filtered_context", "add_extra_context">>,
        <<"add_extra_context", "generate_sql">>, <<"generate_sql", "execute_sql">>,
        <<"execute_sql", "enrich_query_result">>}

After(nodes) == {n \in {e[2] : e \in Edges} : \E m \in nodes : <<m, n>> \in Edges}

RetrieveColumns(q) == {[q EXCEPT !.found.columns = s] : s \in input.columns}
RetrieveTables(q) == {[q EXCEPT !.found.tables = s] : s \in input.tables}
RetrieveMetrics(q) == {[q EXCEPT !.found.metrics = s] : s \in input.metrics}
RetrieveDimensionValues(q) == {[q EXCEPT !.found.values = s] : s \in input.values}

MergeRetrievedInfo(q) ==
  {p \in {[q EXCEPT !.ctx = Merge(q.found)]} : p.ctx.ok}

\* Without candidates the model is not asked.
FilterMetric(q) ==
  {[q EXCEPT !.chosen.metrics = s] :
     s \in IF q.ctx.metrics = {} THEN {{}} ELSE input.chosenMetrics}
FilterTable(q) ==
  {[q EXCEPT !.chosen.tables = s] :
     s \in IF q.ctx.tables = {} THEN {<<>>} ELSE input.chosenTables}

ReconcileFilteredContext(q) ==
  {[q EXCEPT !.ctx = c] : c \in Reconcile(q.chosen, q.ctx, input.asked)}

GenerateSql(q) == {[q EXCEPT !.answer = a] : a \in input.answers}

\* One row more than the limit is read to see whether there are more.
ExecuteSql(q) ==
  {[q EXCEPT !.rows = IF n > MaxRows THEN MaxRows ELSE n, !.truncated = n > MaxRows] :
     n \in input.rows}

ResultColumns(q) ==
  [k \in (IF q.rows = 0 THEN {} ELSE q.answer.keys) |-> Describe(k, Declared(q.answer), q.ctx)]

\* A value of a dimension may have no display name.
MayBeUnmapped(columns) ==
  \E k \in DOMAIN columns : columns[k].role = "dimension" /\ columns[k].column # NoColumn

EnrichQueryResult(q) ==
  {[q EXCEPT !.unmapped = u, !.described = ResultColumns(q)] :
     u \in IF MayBeUnmapped(ResultColumns(q)) THEN input.unmapped ELSE {FALSE}}

Writes(n, q) ==
  CASE n = "retrieve_columns" -> RetrieveColumns(q)
    [] n = "retrieve_tables" -> RetrieveTables(q)
    [] n = "retrieve_metrics" -> RetrieveMetrics(q)
    [] n = "retrieve_dimension_values" -> RetrieveDimensionValues(q)
    [] n = "merge_retrieved_info" -> MergeRetrievedInfo(q)
    [] n = "filter_metric" -> FilterMetric(q)
    [] n = "filter_table" -> FilterTable(q)
    [] n = "reconcile_filtered_context" -> ReconcileFilteredContext(q)
    [] n = "generate_sql" -> GenerateSql(q)
    [] n = "execute_sql" -> ExecuteSql(q)
    [] n = "enrich_query_result" -> EnrichQueryResult(q)
    [] OTHER -> {q}     \* keywords and wording: nothing here depends on them

\* The last node of a superstep to end starts the next one.
NodeEnds(t) ==
  /\ At(t, "query")
  /\ \E n \in task[t].query.running :
       \E q \in Writes(n, task[t].query) :
         LET left == q.running \ {n}
             ended == q.ended \cup {n}
             next == After(ended)
         IN  task' = [task EXCEPT
               ![t].query = IF left # {} THEN [q EXCEPT !.running = left, !.ended = ended]
                            ELSE [q EXCEPT !.running = next, !.ended = {}, !.ran = @ \cup ended],
               ![t].pc = IF left = {} /\ next = {} THEN "rows" ELSE "query"]

\* A model, a store or the database fails, or what came back is refused; the
\* other nodes of the superstep are cancelled.
Refuses(n) == n # "add_extra_context"

NodeFails(t) ==
  /\ At(t, "query")
  /\ \E n \in task[t].query.running : Refuses(n)
  /\ task' = [task EXCEPT ![t] =
       [pc |-> "ended", query |-> NoQuery,
        outcome |-> [status |-> "failed", truncated |-> FALSE, unmapped |-> FALSE, described |-> << >>]]]

TaskStep(t) ==
  /\ \/ CheckDependencies(t) \/ ResolveQuestion(t) \/ NodeEnds(t) \/ NodeFails(t)
     \/ WriteCode(t) \/ Calculate(t)
  /\ UNCHANGED <<input, phase, plan, layer, results, evidence>>

Work == PlanAnalysis \/ StartLayer \/ EndLayer \/ PublishEvidence \/ (\E t \in Tasks : TaskStep(t))

Over == phase \in {"done", "failed", "cancelled"}

Next == Work \/ Cancel \/ (Over /\ UNCHANGED vars)

Spec == Init /\ [][Next]_vars

\* Every model call, query and calculation returns or times out.
FairSpec == Spec /\ WF_vars(Work)

-----------------------------------------------------------------------------
Promise == INSTANCE AnalysisPromise WITH
  needs <- IF plan = <<>> THEN << >> ELSE [t \in Planned |-> Needs(t)],
  outcome <- [t \in Tasks |->
    IF t \in Completed THEN results[t].status
    ELSE IF task[t].pc = "ended" THEN Outcome(t).status ELSE "open"],
  report <- CASE phase = "done" -> evidence.status
              [] phase \in {"failed", "cancelled"} -> "aborted"
              [] OTHER -> "none"

\* The analysis implements its promise: however the tasks of a layer overlap,
\* each is decided once, on the final outcomes of what it depends on, and the
\* evidence counts what happened.
KeepsAnalysisPromise == Promise!Spec

\* A plan that was accepted is carried to its evidence, whatever fails in it:
\* failed tasks do not leave their dependents without a turn.
PlanIsCarriedOut == (phase = "running") ~> (phase \in {"done", "cancelled"})

\* What SQL is generated from, after reconciliation.
MetricsAreComputable(c) ==
  \A m \in c.metrics : Base[m] \in c.tables /\ Uses[m] \subseteq c.columns
FiltersAreKept(c) == c.exact \subseteq c.columns
JoinsAreComplete(c) == \A l \in c.relationships : {l.fromCol, l.toCol} \subseteq c.columns
\* No part of the tables holds the metrics' own and all that is joined to it.
TablesAreJoined(c) ==
  c.metrics = {} \/
    \A part \in SUBSET c.tables :
      /\ {Base[m] : m \in c.metrics} \subseteq part
      /\ \A l \in c.relationships : l.from \in part <=> l.to \in part
      => part = c.tables

\* The dates of a fact that the question means: by their names, or the default.
Meant(fact, asked) ==
  {l.fromCol : l \in {d \in Relationships : d.from = fact /\ d.to = DateTable}}
    \cap (IF asked = {} THEN DefaultDates ELSE asked)

DatesAreMeant(c, asked) ==
  \A l \in c.relationships :
    l.to = DateTable /\ Meant(l.from, asked) # {} => l.fromCol \in Meant(l.from, asked)

\* The SQL of a task is about to be generated.
Generates(t) == task[t].pc = "query" /\ task[t].query.running = {"generate_sql"}

\* Whatever retrieval found, whatever the models chose of it: the context the
\* SQL is generated from can compute each chosen metric, keeps every exact
\* filter value, reaches every table from a metric by joins whose columns are
\* there, and joins each fact to the dates by a date the question names, or by
\* its default date if the question names none.
ContextIsUsable ==
  \A t \in Tasks :
    Generates(t) =>
      LET c == task[t].query.ctx
      IN  /\ MetricsAreComputable(c) /\ FiltersAreKept(c) /\ JoinsAreComplete(c)
          /\ TablesAreJoined(c) /\ DatesAreMeant(c, input.asked)

\* reconcile_filtered_context.py:83: the date the question names comes first,
\* the business default second.  The facts that lack a named date are meant.
DefaultDateComesSecond ==
  \A t \in Tasks :
    Generates(t) =>
      \A l \in task[t].query.ctx.relationships :
        l.to = DateTable /\ Meant(l.from, input.asked) = {} => l.fromCol \in Meant(l.from, {})

\* A result column passes for a catalog metric only if the SQL declared it as
\* that metric or declared nothing about it, and the metric was in the
\* context: a count the model made up and named like a metric does not.
ResultIsTraceable ==
  \A t \in Tasks :
    LET q == task[t].query IN
    \A k \in DOMAIN q.described :
      q.described[k].role = "metric" /\ q.described[k].lineage = "matched" =>
        LET m == q.described[k].metric
            says == Declaring(k, q.answer)
            last == q.answer.columns[Max(says)]
        IN  /\ m \in q.chosen.metrics
            /\ says = {} \/ (last.metric = m /\ last.role # "derived_metric")

\* docs/data_agent_harness_incremental_sdd.md:3888: the limitations of a result
\* must tell of truncation.
TruncationIsReported ==
  phase = "done" => \A t \in evidence.successful : results[t].truncated => t \in evidence.limited
=============================================================================
