---------------------------- MODULE QueryContext ----------------------------
(***************************************************************************)
(* The catalog context a question's SQL is generated from: what retrieval  *)
(* found completed from the catalog, what the models chose of it completed *)
(* with the columns and joins that choice needs, and the description of    *)
(* the columns that come back (merge_retrieved_info,                       *)
(* reconcile_filtered_context, generate_sql, enrich_query_result under     *)
(* app/agent/nodes).                                                       *)
(***************************************************************************)
EXTENDS Integers, FiniteSets, Sequences, SequencesExt

CONSTANTS
  Tables, Columns,    \* active tables; active, queryable columns
  TableOf,            \* of every column ever indexed, retired ones included
  ColumnName,         \* the bare name of each of them
  MetricOrder,        \* the metrics, by metric_id
  Base, Uses,         \* a metric's table and the columns of its expression
  RelationshipOrder,  \* the relationships, by id: [from, fromCol, to, toCol]
  DateTable, DefaultDates,
  DimensionColumns,   \* columns of the registered dimensions
  DimensionRole,      \* columns whose semantic role is that of a dimension
  Denotes,            \* the tables a name given by the model may stand for
  NoColumn, NoMetric

Metrics == ToSet(MetricOrder)
Relationships == ToSet(RelationshipOrder)

Relationship == [from : Tables, fromCol : Columns, to : Tables, toCol : Columns]

\* What scripts/mysql/05_build_meta_tables.sql loads: expressions name columns
\* of their base table and relationships join queryable columns.  A metric's
\* name is its id there, and no column belongs to two dimensions.
ASSUME CatalogAssumption ==
  /\ MetricOrder \in Seq(Metrics)
  /\ RelationshipOrder \in Seq(Relationship)
  /\ \A c \in Columns : TableOf[c] \in Tables
  /\ \A m \in Metrics : /\ Uses[m] # {} /\ Uses[m] \subseteq Columns
                        /\ \A c \in Uses[m] : TableOf[c] = Base[m]
  /\ \A l \in Relationships : /\ {l.fromCol, l.toCol} \subseteq Columns
                              /\ TableOf[l.fromCol] = l.from /\ TableOf[l.toCol] = l.to

ColumnsOf(tables) == {c \in Columns : TableOf[c] \in tables}

(***************************************************************************)
(* merge_retrieved_info.  found is [tables, columns, metrics, values]; a   *)
(* value is [column, exact].  The vector indexes may still hold what the   *)
(* catalog has retired.                                                    *)
(***************************************************************************)
Merge(found) ==
  LET valued == {v.column : v \in found.values}
      relevant == found.columns \cup valued
      tables == found.tables \cup {TableOf[c] : c \in relevant} \cup {Base[m] : m \in found.metrics}
      columns == ColumnsOf(tables)
  IN  [ok |-> /\ (valued \ found.columns) \subseteq Columns
              /\ (tables \ found.tables) \subseteq Tables
              /\ relevant \subseteq columns,
       tables |-> tables, columns |-> columns, metrics |-> found.metrics,
       relationships |-> {l \in Relationships : {l.from, l.to} \subseteq tables},
       dimensions |-> relevant \cap DimensionColumns,
       exact |-> {v.column : v \in {w \in found.values : w.exact}}]

(***************************************************************************)
(* reconcile_filtered_context.  chosen is [metrics, tables]; tables is the *)
(* sequence of [name, columns] the model named.                            *)
(***************************************************************************)
Resolved(name, ctx) == Denotes[name] \cap ctx.tables

ChoiceIsKnown(chosen, ctx) ==
  /\ chosen.metrics \subseteq ctx.metrics
  /\ \A n \in DOMAIN chosen.tables :
       LET ts == Resolved(chosen.tables[n].name, ctx)
       IN  /\ Cardinality(ts) = 1
           /\ chosen.tables[n].columns \subseteq (ColumnsOf(ts) \cap ctx.columns)

ChosenTables(chosen, ctx) ==
  UNION {Resolved(chosen.tables[n].name, ctx) : n \in DOMAIN chosen.tables}

\* A table named twice, once without its schema, keeps the last list only.
ChosenColumns(t, chosen, ctx) ==
  LET mine == {n \in DOMAIN chosen.tables : Resolved(chosen.tables[n].name, ctx) = {t}}
  IN  IF mine = {} THEN {} ELSE chosen.tables[Max(mine)].columns

Selected(chosen, ctx) ==
  UNION ({ChosenColumns(t, chosen, ctx) : t \in ChosenTables(chosen, ctx)}
         \cup {Uses[m] : m \in chosen.metrics} \cup {ctx.exact})

\* Mutant of Priority: the columns that were selected come first.
SelectedFirst(l, selected, asked) ==
  IF l.fromCol \in selected THEN 0
  ELSE IF l.to = DateTable /\ l.fromCol \in DefaultDates THEN 1 ELSE 2

\* Which of the relationships at one table is tried first; asked holds the
\* date columns the question names.
Priority(l, selected, asked) ==
  LET isDate == l.to = DateTable
  IN  CASE isDate /\ asked # {} -> IF l.fromCol \in asked THEN 0 ELSE 3
        [] isDate /\ asked = {} /\ l.fromCol \in DefaultDates -> 0
        [] isDate /\ asked = {} /\ l.fromCol \notin DefaultDates ->
             IF l.fromCol \in selected THEN 1 ELSE 2
        [] OTHER -> IF l.fromCol \in selected THEN 0 ELSE 2

OtherEnd(l, t) == IF l.from = t THEN l.to ELSE l.from

\* Breadth-first search: where the queue may open a table nobody has visited,
\* each a place in it and a relationship there,
Openings(queue, ctx) ==
  {o \in (DOMAIN queue) \X (DOMAIN RelationshipOrder) :
     LET t == queue[o[1]].table
         l == RelationshipOrder[o[2]]
     IN  /\ l \in ctx.relationships /\ t \in {l.from, l.to}
         /\ \A k \in DOMAIN queue : queue[k].table # OtherEnd(l, t)}

\* which comes first: by the queue, then by priority, then by id,
Sooner(o, p, selected, asked) ==
  LET priority(n) == Priority(RelationshipOrder[n], selected, asked)
  IN  \/ o[1] < p[1]
      \/ o[1] = p[1] /\ priority(o[2]) < priority(p[2])
      \/ o[1] = p[1] /\ priority(o[2]) = priority(p[2]) /\ o[2] < p[2]

\* and the queue with the table it leads to.  Each table has the relationships
\* on the way back from it to the first.
Visit(queue, ctx, selected, asked) ==
  LET open == Openings(queue, ctx)
      first == {o \in open : \A p \in open : p = o \/ Sooner(o, p, selected, asked)}
      Opened(n, l) == [table |-> OtherEnd(l, queue[n].table), path |-> queue[n].path \cup {l}]
  IN  IF open = {} THEN {queue}
      ELSE {Append(queue, Opened(o[1], RelationshipOrder[o[2]])) : o \in first}

\* The one queue that is left when no table is; each table took a relationship.
Search(start, ctx, selected, asked) ==
  LET visited[n \in 0..Len(RelationshipOrder)] ==
        IF n = 0 THEN {<<[table |-> start, path |-> {}]>>}
        ELSE UNION {Visit(queue, ctx, selected, asked) : queue \in visited[n - 1]}
  IN  visited[Len(RelationshipOrder)]

RequiredTables(chosen, ctx) ==
  ChosenTables(chosen, ctx) \cup {Base[m] : m \in chosen.metrics} \cup {TableOf[c] : c \in ctx.exact}

\* A required table is searched for from the table of the first chosen metric
\* that has another.
From(t, chosen) ==
  {n \in DOMAIN MetricOrder : MetricOrder[n] \in chosen.metrics /\ Base[MetricOrder[n]] # t}
Sought(chosen, ctx) == {t \in RequiredTables(chosen, ctx) : From(t, chosen) # {}}

PathsTo(t, chosen, ctx, asked) ==
  UNION {{queue[n].path : n \in {k \in DOMAIN queue : queue[k].table = t}} :
    queue \in Search(Base[MetricOrder[Min(From(t, chosen))]], ctx, Selected(chosen, ctx), asked)}

Paths(chosen, ctx, asked) ==
  UNION {{<<t, path>> : path \in PathsTo(t, chosen, ctx, asked)} : t \in Sought(chosen, ctx)}

Filtered(chosen, ctx, related) ==
  LET joins == UNION {{l.fromCol, l.toCol} : l \in related}
      columns == Selected(chosen, ctx) \cup (joins \cap ctx.columns)
      tables == {TableOf[c] : c \in columns}
  IN  [ok |-> TRUE, tables |-> tables, columns |-> columns, metrics |-> chosen.metrics,
       relationships |-> {l \in related : {l.from, l.to} \subseteq tables},
       dimensions |-> {c \in ctx.dimensions : TableOf[c] \in tables},
       exact |-> ctx.exact]

\* The context completed; none if the choice is refused or a table out of reach.
Reconcile(chosen, ctx, asked) ==
  {Filtered(chosen, ctx, UNION {w[2] : w \in ways}) :
     ways \in {p \in {Paths(chosen, ctx, asked)} :
                 ChoiceIsKnown(chosen, ctx) /\ Sought(chosen, ctx) \subseteq {w[1] : w \in p}}}

(***************************************************************************)
(* generate_sql's answer and the description of what came back.  A         *)
(* declared column is [name, role, column, metric, form]: how well it      *)
(* validates decides what is kept of it.                                   *)
(***************************************************************************)
Undeclared == [role |-> "unknown", column |-> NoColumn, metric |-> NoMetric]

Recovered(d) ==
  IF d.form \in {"valid", "bad filters"}
  THEN [role |-> d.role, column |-> d.column, metric |-> d.metric]
  ELSE Undeclared

\* What is declared of a result by its name; a column without one is left out.
Declaring(k, answer) ==
  {n \in DOMAIN answer.columns : answer.columns[n].name = k /\ answer.columns[n].form # "nameless"}

Declared(answer) ==
  [k \in {answer.columns[n].name : n \in {m \in DOMAIN answer.columns : answer.columns[m].form # "nameless"}} |->
     Recovered(answer.columns[Max(Declaring(k, answer))])]

Columnlike(k, ctx) == {c \in ctx.columns : k \in {c, ColumnName[c]}}

\* Mutant of SourceMetric: a result that bears a metric's name is that metric.
MetricByName(k, declared, ctx) ==
  IF k \in ctx.metrics THEN k
  ELSE IF k \in DOMAIN declared /\ declared[k].metric \in ctx.metrics
       THEN declared[k].metric ELSE NoMetric

\* A declaration is believed where the context confirms it and is never
\* second-guessed from the name; only a name nobody declared is looked up.
SourceMetric(k, declared, ctx) ==
  CASE k \in DOMAIN declared /\ declared[k].metric \in ctx.metrics -> declared[k].metric
    [] k \notin DOMAIN declared /\ k \in ctx.metrics /\ Columnlike(k, ctx) = {} -> k
    [] OTHER -> NoMetric

SourceColumn(k, declared, ctx) ==
  CASE k \in DOMAIN declared /\ declared[k].column \in ctx.columns -> declared[k].column
    [] k \notin DOMAIN declared /\ Cardinality(Columnlike(k, ctx)) = 1 /\ k \notin ctx.metrics ->
         CHOOSE c \in Columnlike(k, ctx) : TRUE
    [] OTHER -> NoColumn

Describe(k, declared, ctx) ==
  LET column == SourceColumn(k, declared, ctx)
      metric == SourceMetric(k, declared, ctx)
      role == IF k \in DOMAIN declared THEN declared[k].role ELSE "unknown"
      As(r, lineage) == [role |-> r, lineage |-> lineage, column |-> column, metric |-> metric]
  IN  CASE role = "derived_metric" -> As(role, "declared")
        [] role # "derived_metric" /\ column # NoColumn ->
             As(IF column \in ctx.dimensions \cup DimensionRole THEN "dimension" ELSE "unknown",
                "matched")
        [] role # "derived_metric" /\ column = NoColumn /\ metric # NoMetric -> As("metric", "matched")
        [] OTHER -> As(role, IF role = "unknown" THEN "unknown" ELSE "declared")
=============================================================================
