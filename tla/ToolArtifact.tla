---------------------------- MODULE ToolArtifact ----------------------------
(***************************************************************************)
(* The tool calls of one run and the results they leave behind:            *)
(* ToolRuntime (app/agent/tool_runtime/runtime.py), the artifact store     *)
(* (harness_artifact_repository.py), the report tool that reads earlier    *)
(* results, the controller's retries, and the closing of the run, which    *)
(* shows the last report.                                                  *)
(*                                                                         *)
(* A run executes one call at a time (HarnessRun!OneRunner).  A call waits *)
(* at program counter pc for one database transaction or for its tool;     *)
(* whatever the tool returns or raises is an outcome of that wait.         *)
(***************************************************************************)
EXTENDS Naturals, FiniteSets, SequencesExt

CONSTANTS Contents,        \* what query_data and analyze_data may return
          QueryTool, AnalyzeTool, ReportTool,
          NoRef, Open, Text,
          Unknown,         \* a result_ref that belongs to no action of the run
          Idempotent,      \* tools whose ToolSpec is idempotent
          MaxActions,      \* bound: tool actions of the run
          MaxToolRetries,
          MaxRefs,         \* max_length of BuildReportInput.result_refs
          MaxFaults        \* bound: failing transactions

ASSUME BoundsAssumption ==
  {MaxActions, MaxToolRetries, MaxRefs, MaxFaults} \subseteq Nat

Names == {"query"} \cup {t.id.name : t \in UNION {ToSet(c.tasks) : c \in Contents}}
TaskId == [name : Names, suffixes : Seq(Nat)]
Task == [id : TaskId, ok : BOOLEAN]

\* Only the report tool renders reports; an analysis is a sequence of tasks.
ASSUME ContentsAssumption ==
  /\ ReportTool \notin {QueryTool, AnalyzeTool}
  /\ \A c \in Contents : /\ c.tool \in {QueryTool, AnalyzeTool}
                         /\ c.tasks \in Seq(Task)

ASSUME OpenAssumption == Open # NoRef

VARIABLES
  artifacts,    \* harness_artifacts by action_id
  observations, \* state_payload.observations: what the loop was told, in order
  call,         \* the running ToolRuntime.execute
  final,        \* final_output_ref once finalize has locked it, Open before
  shown,        \* output_payload of the turn
  faults

vars == <<artifacts, observations, call, final, shown, faults>>

Slots == 1..MaxActions
Tools == {QueryTool, AnalyzeTool, ReportTool}

\* ToolResult.limitations: more than 32 do not validate.
Limits == {"none", "some", "too many"}

\* A result_ref is a digest of action and payload.
Ref(a, payload) == [action |-> a, payload |-> payload]

NoArtifact == [stored |-> FALSE]
Artifact(payload) == [stored |-> TRUE, payload |-> payload, expired |-> FALSE]

Stored(a) == artifacts[a].stored
Good(o) == o.status \in {"success", "partial"}

\* result_refs the planner can name: those it has seen, and made-up ones.
KnownRefs ==
  ({observations[i].ref : i \in DOMAIN observations} \ {NoRef}) \cup {Unknown}

Idle == [pc |-> "idle"]

Begin(t, refs, n) ==
  [pc |-> "start", tool |-> t, refs |-> refs, left |-> <<>>, tasks |-> <<>>,
   retries |-> n]

Init ==
  /\ artifacts = [a \in Slots |-> NoArtifact]
  /\ observations = <<>>
  /\ call = Idle
  /\ final = Open
  /\ shown = NoRef
  /\ faults = 0

At(pc) == call.pc = pc
Action == Len(observations) + 1

Fault ==
  /\ faults < MaxFaults
  /\ faults' = faults + 1

\* RECORD_OBSERVATION: the only place where the loop learns of a result.
Observe(status, ref) ==
  /\ observations' = Append(observations,
       [tool |-> call.tool, status |-> status, ref |-> ref])
  /\ call' = Idle

Failed == Observe("unrecoverable_error", NoRef)

(* Reading earlier results into the tasks of a report.                      *)

\* "query_2" is the name "query" with the suffixes <<2>>.
WithSuffix(id, n) == [id EXCEPT !.suffixes = Append(@, n)]

UniqueTaskId(id, taken) ==
  IF id \notin taken THEN id
  ELSE WithSuffix(id, CHOOSE n \in 2..(Cardinality(taken) + 2) :
                        /\ WithSuffix(id, n) \notin taken
                        /\ \A k \in 2..(n - 1) : WithSuffix(id, k) \in taken)

\* The single task a query becomes, and the tasks an analysis has.
TasksOf(payload) ==
  IF payload.tool = QueryTool
  THEN <<[id |-> [name |-> "query", suffixes |-> <<>>], ok |-> payload.rows # {}]>>
  ELSE payload.tasks

AddTask(tasks, task) ==
  LET taken == {tasks[i].id : i \in DOMAIN tasks}
  IN  Append(tasks, [task EXCEPT !.id = UniqueTaskId(task.id, taken)])

TasksFromArtifact(tasks, payload) ==
  LET source == TasksOf(payload)
      added[n \in 0..Len(source)] ==
        IF n = 0 THEN tasks ELSE AddTask(added[n - 1], source[n])
  IN  added[Len(source)]

\* Mutant of Dedup: a reference named twice is read twice.
KeepAll(refs) == refs

Dedup(refs) ==
  LET seen[n \in 0..Len(refs)] ==
        IF n = 0 THEN <<>>
        ELSE IF refs[n] \in ToSet(seen[n - 1]) THEN seen[n - 1]
             ELSE Append(seen[n - 1], refs[n])
  IN  seen[Len(refs)]

\* artifact_store.read finds the row of this run with this very content.
Readable(ref) ==
  /\ ref # Unknown
  /\ Stored(ref.action)
  /\ artifacts[ref.action].payload = ref.payload
  /\ ~artifacts[ref.action].expired

(* One call of a tool.                                                      *)

\* A committed tool_call is dispatched.
Dispatch(t, refs) ==
  /\ call = Idle
  /\ final = Open
  /\ Len(observations) < MaxActions
  /\ call' = Begin(t, refs, 0)
  /\ UNCHANGED <<artifacts, observations, final, shown, faults>>

\* Mutant of Validate: an invalid input is logged and nothing is returned.
ValidateSilently ==
  /\ At("start")
  /\ call.tool = ReportTool => Len(call.refs) \in 1..MaxRefs
  /\ call' = [call EXCEPT !.pc = IF call.tool = ReportTool THEN "read" ELSE "run",
                          !.left = Dedup(call.refs)]
  /\ UNCHANGED <<artifacts, observations, final, shown, faults>>

\* registry.get and the tool's input_model, then TOOL_STARTED.
Validate ==
  /\ At("start")
  /\ IF call.tool = ReportTool /\ Len(call.refs) \notin 1..MaxRefs
     THEN Failed
     ELSE /\ call' = [call EXCEPT !.pc = IF call.tool = ReportTool THEN "read" ELSE "run",
                                  !.left = Dedup(call.refs)]
          /\ UNCHANGED observations
  /\ UNCHANGED <<artifacts, final, shown, faults>>

Returns(payload, limits) ==
  call' = [pc |-> "save", tool |-> call.tool, refs |-> call.refs,
           retries |-> call.retries, payload |-> payload, limits |-> limits]

\* query_graph ends within the timeout; nothing bounds its limitations.
QueryReturns ==
  /\ At("run")
  /\ call.tool = QueryTool
  /\ \E c \in Contents, l \in Limits : c.tool = QueryTool /\ Returns(c, l)
  /\ UNCHANGED <<artifacts, observations, final, shown, faults>>

\* The analysis ends: a failed task is a limitation, at most 32 are returned.
AnalyzeReturns ==
  /\ At("run")
  /\ call.tool = AnalyzeTool
  /\ \E c \in Contents, l \in Limits \ {"too many"} :
       /\ c.tool = AnalyzeTool
       /\ l = "none" => \A i \in DOMAIN c.tasks : c.tasks[i].ok
       /\ Returns(c, l)
  /\ UNCHANGED <<artifacts, observations, final, shown, faults>>

\* build_report reads its next source; a report is no source.
ReadSource ==
  /\ At("read")
  /\ call.left # <<>>
  /\ LET ref == Head(call.left)
     IN  IF Readable(ref) /\ artifacts[ref.action].payload.tool # ReportTool
         THEN /\ call' = [call EXCEPT !.left = Tail(@),
                                      !.tasks = TasksFromArtifact(@, ref.payload)]
              /\ UNCHANGED observations
         ELSE Failed
  /\ UNCHANGED <<artifacts, final, shown, faults>>

\* All sources are read: the report is planned and rendered.
Render ==
  /\ At("read")
  /\ call.left = <<>>
  /\ \E l \in {"none", "some"} :
       Returns([tool |-> ReportTool, rows |-> {}, tasks |-> call.tasks], l)
  /\ UNCHANGED <<artifacts, observations, final, shown, faults>>

\* The tool exceeds its timeout or raises, or save refuses the payload.
ToolFails ==
  /\ call.pc \in {"run", "read", "save"}
  /\ Failed
  /\ UNCHANGED <<artifacts, final, shown, faults>>

\* save returns the record of the row it wrote or found.
Saved == call' = [call EXCEPT !.pc = "saved", !.payload = artifacts'[Action].payload]

\* Mutant of Save: an existing row of the action is overwritten.
Upsert ==
  /\ At("save")
  /\ artifacts' = [artifacts EXCEPT ![Action] = Artifact(call.payload)]
  /\ Saved
  /\ UNCHANGED <<observations, final, shown, faults>>

\* save commits its row, or finds the action's row with the same content.
Save ==
  /\ At("save")
  /\ IF Stored(Action)
     THEN /\ UNCHANGED artifacts
          /\ IF artifacts[Action].payload = call.payload
             THEN Saved /\ UNCHANGED observations
             ELSE Failed                     \* artifact_action_conflict
     ELSE /\ artifacts' = [artifacts EXCEPT ![Action] = Artifact(call.payload)]
          /\ Saved
          /\ UNCHANGED observations
  /\ UNCHANGED <<final, shown, faults>>

\* A DBAPIError: the commit may have happened or not.
SaveIsUncertain ==
  /\ At("save")
  /\ Fault
  /\ \/ UNCHANGED artifacts
     \/ /\ ~Stored(Action)
        /\ artifacts' = [artifacts EXCEPT ![Action] = Artifact(call.payload)]
  /\ call' = [call EXCEPT !.pc = "uncertain"]
  /\ UNCHANGED <<observations, final, shown>>

\* _execute_tool: a temporary error of an idempotent tool is tried again.  Only
\* _artifact_error_result gives one, which is retryable and never a timeout.
RetryOrReport ==
  /\ At("uncertain")
  /\ IF call.tool \in Idempotent /\ call.retries < MaxToolRetries
     THEN /\ call' = Begin(call.tool, call.refs, call.retries + 1)
          /\ UNCHANGED observations
     ELSE Observe("temporary_error", NoRef)
  /\ UNCHANGED <<artifacts, final, shown, faults>>

\* The ToolResult is built; too many limitations do not validate, although
\* the result is stored.
Report ==
  /\ At("saved")
  /\ IF call.limits = "too many"
     THEN Failed
     ELSE Observe(IF call.limits = "none" THEN "success" ELSE "partial",
                  Ref(Action, call.payload))
  /\ UNCHANGED <<artifacts, final, shown, faults>>

(* The end of the run.                                                      *)

\* _final_output: the last report the loop was told of.
LastReport ==
  LET reports == {i \in DOMAIN observations :
                    observations[i].tool = ReportTool /\ Good(observations[i])}
  IN  IF reports = {} THEN NoRef
      ELSE observations[CHOOSE i \in reports : \A j \in reports : j <= i].ref

\* The run is completed, or closed with text after an error or a deadline.
Lock ==
  /\ call = Idle
  /\ final = Open
  /\ final' \in {LastReport, NoRef}
  /\ UNCHANGED <<artifacts, observations, call, shown, faults>>

\* Deadline or cancellation while a call runs; save may have committed.
Interrupt ==
  /\ call # Idle
  /\ call' = Idle
  /\ final' = NoRef
  /\ \/ UNCHANGED artifacts
     \/ /\ At("save")
        /\ ~Stored(Action)
        /\ artifacts' = [artifacts EXCEPT ![Action] = Artifact(call.payload)]
  /\ UNCHANGED <<observations, shown, faults>>

\* _save_history reads the locked reference; it may be a reconcile much later.
SaveHistory ==
  /\ final # Open
  /\ shown = NoRef
  /\ IF final = NoRef THEN shown' = Text
     ELSE /\ Readable(final)
          /\ shown' = final
  /\ UNCHANGED <<artifacts, observations, call, final, faults>>

\* The retention of 30 days is far beyond the deadline of a run.
Expire(a) ==
  /\ final # Open
  /\ Stored(a)
  /\ ~artifacts[a].expired
  /\ artifacts' = [artifacts EXCEPT ![a].expired = TRUE]
  /\ UNCHANGED <<observations, call, final, shown, faults>>

CallStep ==
  \/ Validate \/ QueryReturns \/ AnalyzeReturns \/ ReadSource \/ Render \/ ToolFails
  \/ Save \/ RetryOrReport \/ Report

Next ==
  \/ \E t \in Tools \ {ReportTool} : Dispatch(t, <<>>)
  \/ \E refs \in SeqOf(KnownRefs, MaxRefs + 1) : Dispatch(ReportTool, refs)
  \/ CallStep
  \/ SaveIsUncertain
  \/ Lock \/ Interrupt \/ SaveHistory
  \/ \E a \in Slots : Expire(a)

Spec == Init /\ [][Next]_vars

\* Tools have timeouts and a ready task goes on.
FairSpec == Spec /\ WF_vars(CallStep)
-----------------------------------------------------------------------------
Payloads == Contents \cup [tool : {ReportTool}, rows : {{}}, tasks : Seq(Task)]

Refs == [action : Slots, payload : Payloads]

\* The types of the variables.
TypeOK ==
  /\ artifacts \in [Slots ->
       [stored : {TRUE}, payload : Payloads, expired : BOOLEAN] \cup {NoArtifact}]
  /\ observations \in Seq([tool : Tools, ref : Refs \cup {NoRef},
       status : {"success", "partial", "temporary_error", "unrecoverable_error"}])
  /\ Len(observations) <= MaxActions
  /\ call.pc \in {"idle", "start", "run", "read", "save", "uncertain", "saved"}
  /\ call # Idle => call.tool \in Tools /\ call.retries \in 0..MaxToolRetries
  /\ final \in Refs \cup {NoRef, Open}
  /\ shown \in Refs \cup {NoRef, Text}
  /\ faults \in 0..MaxFaults

\* A success the loop was told of names the content that is stored for its
\* action, however often the tool ran and whatever commit was lost: without a
\* persisted artifact there is no success (_artifact_error_result).
SuccessIsStored ==
  \A a \in DOMAIN observations :
    Good(observations[a]) =>
      /\ Stored(a)
      /\ observations[a].ref = Ref(a, artifacts[a].payload)

\* The tasks are those of the results, each of them once, renamed at most.
Tells(tasks, results) ==
  \E origin \in Bijection(DOMAIN tasks,
                          UNION {{b} \X DOMAIN TasksOf(results[b]) : b \in DOMAIN results}) :
    \A i \in DOMAIN tasks :
      LET task == TasksOf(results[origin[i][1]])[origin[i][2]]
      IN  tasks[i].id.name = task.id.name /\ tasks[i].ok = task.ok

\* The results the loop was told of before action a that a report can be of.
SourcesBefore(a) ==
  {b \in DOMAIN observations :
     b < a /\ Good(observations[b]) /\ observations[b].tool # ReportTool}

\* A stored report is rendered from whole results the loop was told of before
\* it, each of them once: never from part of one, from a failed action or from
\* another report (_tasks_from_artifact, dict.fromkeys).
ReportIsWhole ==
  \A a \in Slots :
    Stored(a) /\ artifacts[a].payload.tool = ReportTool =>
      \E sources \in SUBSET SourcesBefore(a) :
        /\ sources # {}
        /\ Tells(artifacts[a].payload.tasks, [b \in sources |-> artifacts[b].payload])

\* Components bind to tasks by id: two tasks of a report never share one, even
\* when an analysis names a task as a suffixed one (_unique_task_id).
TaskIdsAreUnique ==
  \A a \in Slots :
    Stored(a) /\ artifacts[a].payload.tool = ReportTool =>
      LET tasks == artifacts[a].payload.tasks
      IN  \A i, j \in DOMAIN tasks : tasks[i].id = tasks[j].id => i = j

\* The output a run is closed with is a report the loop was told of as a success,
\* and it is stored under its reference with that content for whoever completes
\* the closing later: a deadline never locks a report whose commit is unknown
\* (_final_output reads observations only).
LockedReportIsThere ==
  final \notin {Open, NoRef} =>
    /\ final.payload.tool = ReportTool
    /\ Stored(final.action) /\ artifacts[final.action].payload = final.payload
    /\ final.action \in DOMAIN observations
    /\ Good(observations[final.action]) /\ observations[final.action].ref = final

Promise ==
  INSTANCE ArtifactPromise WITH
    result <- [a \in Slots |-> IF Stored(a) THEN {artifacts[a].payload} ELSE {}],
    told <- DOMAIN observations,
    trusted <- {a \in DOMAIN observations : Good(observations[a])},
    published <- IF shown \in {NoRef, Text} THEN {} ELSE {shown.payload}

\* The tool calls of a run implement ArtifactPromise: one result per action for
\* ever, successes only with it, and the conversation shows a reported one.
KeepsArtifactPromise == Promise!Spec

\* Every call ends, with a result or with its run: tools have timeouts and
\* retries are counted.
CallEnds == (call # Idle) ~> (call = Idle)
=============================================================================
