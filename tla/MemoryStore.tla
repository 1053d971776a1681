---------------------------- MODULE MemoryStore ----------------------------
(***************************************************************************)
(* The long-term memory of one user: rows in PostgreSQL, vectors in Qdrant *)
(* and a graph in Neo4j that follow them without a common transaction, and *)
(* a recall that must not trust them (app/agent/memory, its types, manager *)
(* and lifecycle, and app/repositories/memory).                            *)
(*                                                                         *)
(* Tasks run the operations of MemoryManager and MemoryLifecycle.  Each    *)
(* step of a task is one transaction or one call of a store; what a task   *)
(* still has to do after its fact is committed is its list todo.           *)
(***************************************************************************)
EXTENDS MemoryIdentity, SequencesExt

CONSTANTS Tasks,
          Requests,      \* governed write requests
          Conversations, \* where recalls come from
          Linked,        \* values that declare entities
          MaxOps,        \* bound: operations started
          MaxExtended,   \* bound: updates of an expiry
          MaxFaults      \* bound: failing stores, lost tasks

\* What the requests have in a field.
Asked(field) == {m[field] : m \in Requests}

Request == [kind : {"semantic", "episodic", "perceptual"}, key : Asked("key"),
            when : Asked("when"), text : Asked("text"), value : Asked("value"),
            scope : Asked("scope")]

ASSUME RequestsAssumption == Requests \subseteq Request

VARIABLES
  rows,      \* agent_memories
  vectors,   \* memories with a Qdrant point
  graph,     \* memories with a Neo4j node
  saved,     \* memory_graph_projections.sync_status by memory
  assets,    \* memory_assets.index_status by asset
  failed,    \* memory_index_jobs: <<memory, target>>
  task,
  used,      \* counters of the bounds
  revived,   \* history: rows whose expiry was moved after it had passed
  dropped    \* history: memories whose synchronisation was abandoned

indexes == <<vectors, graph, saved, assets, failed>>
vars == <<rows, indexes, task, used, revived, dropped>>

Ids == DOMAIN rows
Assets == {m.key : m \in {r \in Requests : r.kind = "perceptual"}}
Idle == [pc |-> "idle"]

Init ==
  /\ rows = <<>>
  /\ vectors = {}
  /\ graph = {}
  /\ saved = <<>>
  /\ assets = [a \in Assets |-> "pending"]
  /\ failed = {}
  /\ task = [t \in Tasks |-> Idle]
  /\ used = [ops |-> 0, extended |-> 0, faults |-> 0]
  /\ revived = {}
  /\ dropped = {}

At(t, pc) == task[t].pc = pc

Start(t, op) ==
  /\ At(t, "idle")
  /\ used.ops < MaxOps
  /\ used' = [used EXCEPT !.ops = @ + 1]
  /\ task' = [task EXCEPT ![t] = op]
  /\ UNCHANGED <<rows, indexes, revived, dropped>>

Fault ==
  /\ used.faults < MaxFaults
  /\ used' = [used EXCEPT !.faults = @ + 1]

\* Rows another transaction has locked for update.
Locked(t) == UNION {task[u].held : u \in {v \in Tasks \ {t} : At(v, "commit")}}

(* Writing: write_managed, then _sync_write_result.                         *)

StartWrite(t, m) == Start(t, [pc |-> "select", req |-> m, held |-> {}])

InTransaction(t) == task[t].pc \in {"wait", "commit"}

\* Mutant of Select: the advisory lock is not taken.
SelectUnlocked(t) ==
  /\ At(t, "select")
  /\ task' = [task EXCEPT ![t].pc = "wait", ![t].held = Found(rows, task[t].req)]
  /\ UNCHANGED <<rows, indexes, used, revived, dropped>>

\* The advisory lock is free: the rows of the identity are selected.
Select(t) ==
  /\ At(t, "select")
  /\ \A u \in Tasks \ {t} :
       InTransaction(u) => LockIdentity(task[u].req) # LockIdentity(task[t].req)
  /\ task' = [task EXCEPT ![t].pc = "wait", ![t].held = Found(rows, task[t].req)]
  /\ UNCHANGED <<rows, indexes, used, revived, dropped>>

\* Mutant of LockRows: the rows are used as they were selected.
UseSelected(t) ==
  /\ At(t, "wait")
  /\ task[t].held \cap Locked(t) = {}
  /\ task' = [task EXCEPT ![t].pc = "commit"]
  /\ UNCHANGED <<rows, indexes, used, revived, dropped>>

\* FOR UPDATE waits for other writers and checks their rows again; rows they
\* have inserted are not seen.
LockRows(t) ==
  /\ At(t, "wait")
  /\ task[t].held \cap Locked(t) = {}
  /\ task' = [task EXCEPT ![t].pc = "commit",
                          ![t].held = @ \cap Found(rows, task[t].req)]
  /\ UNCHANGED <<rows, indexes, used, revived, dropped>>

Step(what, id) == [do |-> what, id |-> id]

\* _sync_write_result of the kind of memory: new is the row that was written,
\* old the one it replaces or 0.
SyncSteps(m, new, old) ==
     (IF old # 0 THEN <<Step("vector delete", old)>> ELSE <<>>)
  \o <<Step("vector put", new)>>
  \o (IF m.kind = "semantic" /\ old # 0 THEN <<Step("graph delete", old)>> ELSE <<>>)
  \o (IF m.kind = "semantic" /\ m.value \in Linked
      THEN <<Step("graph save", new), Step("graph put", new)>> ELSE <<>>)
  \o (IF m.kind = "perceptual" THEN <<Step("asset", new)>> ELSE <<>>)

Syncing(todo) == IF todo = <<>> THEN Idle ELSE [pc |-> "sync", todo |-> todo]

\* What a write does to the rows, and the row it replaces.
Outcomes(m, ids) ==
  IF ids = {} THEN {[rows |-> Create(rows, m), old |-> 0]}
  ELSE {IF SamePayload(m, rows[cur]) THEN [rows |-> rows, old |-> 0]
        ELSE [rows |-> Replace(rows, m, cur), old |-> cur] :
        cur \in Newest(rows, ids)}

\* A duplicate has nothing to synchronise.
Todo(m, out) ==
  IF out.rows = rows THEN <<>> ELSE SyncSteps(m, Len(out.rows), out.old)

Written(out) ==
  /\ rows' = out.rows
  /\ saved' = IF out.rows = rows THEN saved ELSE Append(saved, "none")

Commit(t) ==
  /\ At(t, "commit")
  /\ \E out \in Outcomes(task[t].req, task[t].held) :
       /\ Written(out)
       /\ task' = [task EXCEPT ![t] = Syncing(Todo(task[t].req, out))]
  /\ UNCHANGED <<vectors, graph, assets, failed, used, revived, dropped>>

\* The write raises, or its task is lost: the transaction is rolled back, or
\* committed without anybody knowing.
WriteIsLost(t) ==
  /\ InTransaction(t)
  /\ Fault
  /\ \/ UNCHANGED <<rows, saved, dropped>>
     \/ /\ At(t, "commit")
        /\ \E out \in Outcomes(task[t].req, task[t].held) :
             /\ Written(out)
             /\ dropped' = dropped \cup ToSet(Todo(task[t].req, out))
  /\ task' = [task EXCEPT ![t] = Idle]
  /\ UNCHANGED <<vectors, graph, assets, failed, revived>>

(* Forgetting and expiring.                                                 *)

\* manager.forget reads the record, whatever its status.
StartForget(t, id) == Start(t, [pc |-> "sync", todo |-> <<Step("forgotten", id)>>])

\* MemoryLifecycle.expire works through the list it has read, in no order.
StartExpire(t) ==
  LET due == {id \in Ids : rows[id].status = "active" /\ rows[id].expiry = "past"}
  IN  /\ due # {}
      /\ \E order \in SetToSeqs(due) :
           Start(t, [pc |-> "sync",
                     todo |-> [i \in DOMAIN order |-> Step("expired", order[i])]])

\* update moves the expiry of a memory of any status.
ExtendExpiry(id) ==
  /\ used.extended < MaxExtended
  /\ used' = [used EXCEPT !.extended = @ + 1]
  /\ id \notin UNION {task[t].held : t \in {u \in Tasks : At(u, "commit")}}
  /\ rows' = [rows EXCEPT ![id].expiry = "later"]
  /\ revived' = IF rows[id].expiry = "past" THEN revived \cup {id} ELSE revived
  /\ UNCHANGED <<indexes, task, dropped>>

TimePasses(id) ==
  /\ rows[id].expiry = "later"
  /\ rows' = [rows EXCEPT ![id].expiry = "past"]
  /\ UNCHANGED <<indexes, task, used, revived, dropped>>

(* The steps after a committed fact.                                        *)

Does(t, kinds) == At(t, "sync") /\ Head(task[t].todo).do \in kinds

Target(t) == Head(task[t].todo).id

Pop(t) == task' = [task EXCEPT ![t] = Syncing(Tail(@.todo))]

Unindex(id) ==
  <<Step("vector delete", id)>>
    \o (IF rows[id].kind = "semantic" THEN <<Step("graph delete", id)>> ELSE <<>>)

\* mark_status does not look at the status the row has by now; then the row
\* leaves the indexes.
Mark(t) ==
  /\ Does(t, {"forgotten", "expired"})
  /\ Target(t) \notin Locked(t)
  /\ rows' = [rows EXCEPT ![Target(t)].status = Head(task[t].todo).do]
  /\ task' = [task EXCEPT ![t].todo = Unindex(Target(t)) \o Tail(@)]
  /\ UNCHANGED <<indexes, used, revived, dropped>>

SyncVector(t) ==
  /\ Does(t, {"vector put", "vector delete"})
  /\ vectors' = IF Does(t, {"vector put"}) THEN vectors \cup {Target(t)}
                ELSE vectors \ {Target(t)}
  /\ Pop(t)
  /\ UNCHANGED <<rows, graph, saved, assets, failed, used, revived, dropped>>

\* The entities are saved for a rebuild before Neo4j is asked.
SaveGraph(t) ==
  /\ Does(t, {"graph save"})
  /\ saved' = [saved EXCEPT ![Target(t)] = "pending"]
  /\ Pop(t)
  /\ UNCHANGED <<rows, vectors, graph, assets, failed, used, revived, dropped>>

SyncGraph(t) ==
  /\ Does(t, {"graph put", "graph delete"})
  /\ IF Does(t, {"graph put"})
     THEN /\ graph' = graph \cup {Target(t)}
          /\ saved' = [saved EXCEPT ![Target(t)] = "completed"]
     ELSE /\ graph' = graph \ {Target(t)}
          /\ UNCHANGED saved
  /\ Pop(t)
  /\ UNCHANGED <<rows, vectors, assets, failed, used, revived, dropped>>

\* PerceptualMemory: the asset carries the result of its text's vector.
MarkAsset(t) ==
  /\ Does(t, {"asset", "asset unindexed"})
  /\ assets' = [assets EXCEPT ![rows[Target(t)].key] =
       IF Does(t, {"asset"}) THEN "completed" ELSE "failed"]
  /\ Pop(t)
  /\ UNCHANGED <<rows, vectors, graph, saved, failed, used, revived, dropped>>

\* Mutant of SyncFails: a failing index is only logged.
SyncFailsSilently(t) ==
  /\ Does(t, {"vector put", "vector delete", "graph put", "graph delete"})
  /\ Fault
  /\ Pop(t)
  /\ UNCHANGED <<rows, indexes, revived, dropped>>

\* An index fails, after it has done the step or before: the failure is
\* recorded and the next step is tried.
SyncFails(t) ==
  /\ Does(t, {"vector put", "vector delete", "graph put", "graph delete"})
  /\ Fault
  /\ LET id == Target(t)
         what == Head(task[t].todo).do
         target == IF Does(t, {"vector put", "vector delete"}) THEN "qdrant" ELSE "neo4j"
         rest == Tail(task[t].todo)
     IN  /\ failed' = failed \cup {<<id, target>>}
         /\ saved' = IF what = "graph put" THEN [saved EXCEPT ![id] = "failed"]
                     ELSE saved
         /\ vectors' \in {vectors, IF what = "vector put" THEN vectors \cup {id} ELSE
                                   IF what = "vector delete" THEN vectors \ {id} ELSE vectors}
         /\ graph' \in {graph, IF what = "graph put" THEN graph \cup {id} ELSE
                               IF what = "graph delete" THEN graph \ {id} ELSE graph}
         /\ task' = [task EXCEPT ![t] = Syncing(
              [i \in DOMAIN rest |->
                 IF rest[i] = Step("asset", id) /\ what = "vector put"
                 THEN Step("asset unindexed", id) ELSE rest[i]])]
  /\ UNCHANGED <<rows, assets, revived, dropped>>

\* A step in PostgreSQL raises, or the task is lost: nobody does the rest.
Abandon(t) ==
  /\ At(t, "sync")
  /\ Fault
  /\ dropped' = dropped \cup ToSet(task[t].todo)
  /\ task' = [task EXCEPT ![t] = Idle]
  /\ UNCHANGED <<rows, indexes, revived>>

(* Recall.                                                                  *)

InScope(row, conv) == row.scope \in {User, conv}

Visible(id, op) ==
  /\ Retrievable(rows[id])
  /\ rows[id].kind = op.kind
  /\ InScope(rows[id], op.conv)

\* What an index answers: its entries were active when they were put.
Hits(index, op) ==
  {id \in index : rows[id].kind = op.kind /\ InScope(rows[id], op.conv)}

StartRecall(t, kind, conv) ==
  Start(t, [pc |-> "recall", kind |-> kind, conv |-> conv,
            reads |-> {"lexical", "vector", "graph"}, hits |-> {}, found |-> {},
            hidden |-> {id \in Ids : ~Visible(id, [kind |-> kind, conv |-> conv])}])

\* repository.search filters in one statement.
ReadLexical(t) ==
  /\ At(t, "recall")
  /\ "lexical" \in task[t].reads
  /\ \E some \in {{}, {id \in Ids : Visible(id, task[t])}} :
       task' = [task EXCEPT ![t].reads = @ \ {"lexical"}, ![t].found = @ \cup some]
  /\ UNCHANGED <<rows, indexes, used, revived, dropped>>

\* Vectors at the same time as words, then the graph; either may fail.
ReadIndex(t, source, index) ==
  /\ At(t, "recall")
  /\ source \in task[t].reads
  /\ source = "graph" => task[t].reads = {"graph"} /\ task[t].hits = {}
  /\ \E some \in {{}, Hits(index, task[t])} :
       task' = [task EXCEPT ![t].reads = @ \ {source}, ![t].hits = @ \cup some]
  /\ UNCHANGED <<rows, indexes, used, revived, dropped>>

\* Mutant of CheckHit: the hit is taken from the index as it is.
TrustHit(t) ==
  /\ At(t, "recall")
  /\ task[t].reads \in {{}, {"graph"}}
  /\ \E id \in task[t].hits :
       task' = [task EXCEPT ![t].hits = @ \ {id}, ![t].found = @ \cup {id}]
  /\ UNCHANGED <<rows, indexes, used, revived, dropped>>

\* A hit is looked up in PostgreSQL before it is used (is_memory_visible).
CheckHit(t) ==
  /\ At(t, "recall")
  /\ task[t].reads \in {{}, {"graph"}}
  /\ \E id \in task[t].hits :
       task' = [task EXCEPT ![t].hits = @ \ {id},
                            ![t].found = IF Visible(id, task[t]) THEN @ \cup {id} ELSE @]
  /\ UNCHANGED <<rows, indexes, used, revived, dropped>>

EndRecall(t) ==
  /\ At(t, "recall")
  /\ task[t].reads = {} /\ task[t].hits = {}
  /\ task' = [task EXCEPT ![t] = Idle]
  /\ UNCHANGED <<rows, indexes, used, revived, dropped>>

Advance(t) ==
  \/ Select(t) \/ LockRows(t) \/ Commit(t)
  \/ Mark(t) \/ SyncVector(t) \/ SaveGraph(t) \/ SyncGraph(t) \/ MarkAsset(t)
  \/ ReadLexical(t) \/ ReadIndex(t, "vector", vectors) \/ ReadIndex(t, "graph", graph)
  \/ CheckHit(t) \/ EndRecall(t)

Next ==
  \/ \E t \in Tasks :
       \/ \E m \in Requests : StartWrite(t, m)
       \/ \E id \in Ids : StartForget(t, id)
       \/ StartExpire(t)
       \/ \E kind \in {m.kind : m \in Requests}, conv \in Conversations :
            StartRecall(t, kind, conv)
       \/ Advance(t)
       \/ WriteIsLost(t) \/ SyncFails(t) \/ Abandon(t)
  \/ \E id \in Ids : ExtendExpiry(id) \/ TimePasses(id)

Spec == Init /\ [][Next]_vars
-----------------------------------------------------------------------------
Row == [kind : {"semantic", "episodic", "perceptual"}, key : Asked("key"),
        when : Asked("when"), text : Asked("text"), value : Asked("value"),
        scope : Asked("scope"),
        status : {"active", "superseded", "forgotten", "expired"},
        version : Nat, prev : Nat, expiry : {"never", "later", "past"}]

\* The types of the variables.
TypeOK ==
  /\ rows \in Seq(Row)
  /\ vectors \cup graph \cup revived \subseteq Ids
  /\ Len(saved) = Len(rows)
  /\ ToSet(saved) \subseteq {"none", "pending", "completed", "failed"}
  /\ \A a \in Assets : assets[a] \in {"pending", "completed", "failed"}
  /\ failed \subseteq Ids \X {"qdrant", "neo4j"}
  /\ \A t \in Tasks :
       task[t].pc \in {"idle", "select", "wait", "commit", "sync", "recall"}

\* A fact, event or asset has one retrievable memory, however its writers
\* interleave: the advisory lock of write_managed.  The exception is one with a row
\* whose expiry had passed, which a write ignores, and which update then moves
\* again: a later write replaces only one of the two.
OneMemoryPerKey ==
  \A i, j \in Ids :
    i # j /\ rows[i].key # NoKey /\ Retrievable(rows[i]) /\ Retrievable(rows[j])
          /\ LockIdentity(rows[i]) = LockIdentity(rows[j])
      => \E k \in revived : LockIdentity(rows[k]) = LockIdentity(rows[i])

\* The versions of a memory form a line: a replaced row is replaced once, is
\* no longer active, and the next version counts on from it, also when writers
\* under different locks find the same row (FOR UPDATE).  A fact is replaced by
\* the same fact under the same conditions, if not by a text without a key.
VersionsFormALine ==
  \A i \in Ids : rows[i].prev # 0 =>
    /\ rows[i].key # NoKey => LockIdentity(rows[i]) = LockIdentity(rows[rows[i].prev])
    /\ rows[rows[i].prev].status # "active"
    /\ rows[i].version = rows[rows[i].prev].version + 1
    /\ \A j \in Ids : rows[j].prev = rows[i].prev => j = i

\* A recall never returns what was forgotten, replaced or out of its scope
\* when it began, however long the indexes keep it (is_memory_visible).
RecallIsCurrent ==
  \A t \in Tasks : At(t, "recall") => task[t].found \cap task[t].hidden \subseteq revived

\* A retrievable memory the vector index does not have is on its way there, is
\* recorded as failed, or belongs to a task that was lost; likewise its graph.
MissingIsRecorded ==
  \A id \in Ids : Retrievable(rows[id]) =>
    LET Coming(step) ==
          \/ step \in dropped
          \/ \E t \in Tasks : At(t, "sync") /\ step \in ToSet(task[t].todo)
    IN  /\ id \in vectors \/ <<id, "qdrant">> \in failed \/ Coming(Step("vector put", id))
        /\ rows[id].kind = "semantic" /\ rows[id].value \in Linked =>
             id \in graph \/ <<id, "neo4j">> \in failed \/ Coming(Step("graph put", id))

\* write_policy.py: a text without a key never overwrites another fact.
KeylessNeverOverwrites ==
  \A i \in Ids : rows[i].key = NoKey /\ rows[i].prev # 0 =>
    rows[rows[i].prev].key = NoKey
=============================================================================
