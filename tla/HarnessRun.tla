---------------------------- MODULE HarnessRun ----------------------------
(***************************************************************************)
(* One Harness run: LoopController (app/agent/loop_controller), the run    *)
(* store (harness_run_repository.py) and the action committer              *)
(* (harness_action_repository.py).                                         *)
(*                                                                         *)
(* A worker is a task inside LoopController.start or resume.  Every await  *)
(* of the database or of a tool is one action; the run row is shared, the  *)
(* worker's copy of the control state is its own.  Closing a run is        *)
(* modelled in detail by Finalization; here finalize is one step that      *)
(* succeeds or raises FinalizationFailure.                                 *)
(***************************************************************************)
EXTENDS HarnessState, Sequences, FiniteSets

CONSTANTS Workers,            \* tasks; a finished one may serve a later resume
          Starter,            \* the one that serves POST /run
          Requests,           \* tool requests, one per request hash
          Idempotent,         \* those whose ToolSpec is idempotent
          Questions,          \* <<reason_code, question>> pairs
          NoQuestion,
          MaxPlannerRetries, MaxToolRetries, MaxIterations,
          MaxConfirmations,   \* _max_confirmation_attempts
          MaxInterrupts,      \* bound: exceptions and cancellations
          MaxCrashes          \* bound: dead processes

ASSUME RunAssumption ==
  /\ Starter \in Workers
  /\ Idempotent \subseteq Requests
  /\ NoQuestion \notin Questions \cup Requests
  /\ {MaxPlannerRetries, MaxToolRetries, MaxConfirmations,
      MaxInterrupts, MaxCrashes} \subseteq Nat
  /\ MaxIterations \in Nat \ {0}

VARIABLES
  row,            \* harness_runs.state_payload
  actions,        \* harness_actions in action_seq order; runs and outcome are
                  \* history: how often the tool ran, and with what result
  confirmations,  \* harness_confirmations: status and question by action_seq
  locked,         \* status locked in the finalization ledger, or NoIntent
  task,           \* the workers
  expired,        \* deadline_at has passed
  interrupts, crashes

vars == <<row, actions, confirmations, locked, task, expired, interrupts, crashes>>

Actions ==
  [kind : {"tool"}, request : Requests, question : {NoQuestion}]
    \cup [kind : {"ask"}, request : {NoQuestion}, question : Questions]
    \cup [kind : {"final"}, request : {NoQuestion}, question : {NoQuestion}]

NoAction == [kind |-> "none", request |-> NoQuestion, question |-> NoQuestion]

NoConfirmation == [status |-> "none", question |-> NoQuestion]

Failure == {"temporary_error", "unrecoverable_error"}
Outcome == {"none", "success", "needs_user"} \cup Failure

ControlState ==
  [status : HarnessStatus, phase : LoopPhase, intent : Intent, pending : Nat,
   version : Nat, actionSeq : Nat, iteration : Nat, plannerRetries : Nat,
   toolRetries : Nat, failed : SUBSET Requests, attempts : Nat,
   lastQuestion : Questions \cup {NoQuestion}]

\* Program counters inside _run, where _run_guarded catches what goes wrong.
Loop == {"begin", "build", "plan", "commit", "dispatch", "execute", "retry",
         "handle", "observe", "ask", "rebuild", "paused"}

Busy == Loop \cup {"interrupted", "close", "finalize"}

TypeOK ==
  /\ row \in ControlState
  /\ actions \in Seq([action : Actions, runs : Nat, outcome : Outcome])
  /\ confirmations \in Seq([status : {"none", "pending", "confirmed", "rejected"},
                            question : Questions \cup {NoQuestion}])
  /\ locked \in Intent
  /\ task \in [Workers ->
       [pc : Busy \cup {"idle", "dead"}, state : ControlState,
        action : Actions \cup {NoAction}, close : Intent, guarded : BOOLEAN]]
  /\ expired \in BOOLEAN
  /\ interrupts \in 0..MaxInterrupts
  /\ crashes \in 0..MaxCrashes

\* new_harness_control_state and run_store.create: the row start() has saved.
NewState ==
  [status |-> "running", phase |-> "start_run", intent |-> NoIntent,
   pending |-> NoPending, version |-> 0, actionSeq |-> 0, iteration |-> 0,
   plannerRetries |-> 0, toolRetries |-> 0, failed |-> {}, attempts |-> 0,
   lastQuestion |-> NoQuestion]

\* A task that enters _run with a state, and one that has ended.
Entering(s) ==
  [pc |-> "begin", state |-> s, action |-> NoAction, close |-> NoIntent,
   guarded |-> TRUE]

Gone == [Entering(NewState) EXCEPT !.pc = "idle"]

Init ==
  /\ row = NewState
  /\ actions = <<>>
  /\ confirmations = <<>>
  /\ locked = NoIntent
  /\ task = [w \in Workers |-> IF w = Starter THEN Entering(NewState) ELSE Gone]
  /\ expired = FALSE
  /\ interrupts = 0
  /\ crashes = 0

Set(w, t) == task' = [task EXCEPT ![w] = t]
At(w, pc) == task[w].pc = pc

\* A worker at pc with its state; the deadline is checked before every await.
Ready(w, pc) == At(w, pc) /\ ~expired

\* _run_guarded catches an exception raised in _run and will close the run with
\* the given status; one raised in a handler ends the task.
Caught(w, status) ==
  Set(w, IF task[w].guarded
         THEN [task[w] EXCEPT !.pc = "interrupted", !.close = status,
                              !.action = NoAction]
         ELSE [Gone EXCEPT !.pc = "dead", !.close = task[w].close])

\* The run goes on to _finalize from inside _run.
Close(w, s, status) ==
  Set(w, [task[w] EXCEPT !.pc = "close", !.state = s, !.close = status,
                         !.action = NoAction])

\* run_store.save of a state that carries the fields assigned before; next is
\* the worker that goes on.
Save(w, s, next) ==
  IF CanSave(row, s) THEN row' = s /\ Set(w, next)
                     ELSE Caught(w, "failed") /\ UNCHANGED row

\* _transition to running/phase inside _run, where it is always allowed.
Enter(s, phase) == Transition(s, "running", phase, NoIntent)

\* _transition and _save_running_state, on to pc.
SaveRunning(w, s, phase, pc) ==
  Save(w, Enter(s, phase), [task[w] EXCEPT !.pc = pc, !.state = Enter(s, phase)])

bounds == <<expired, interrupts, crashes>>

(***************************************************************************)
(* _run                                                                    *)
(***************************************************************************)
Begin(w) ==
  /\ Ready(w, "begin")
  /\ SaveRunning(w, task[w].state, "build_context", "build")
  /\ UNCHANGED <<actions, confirmations, locked, bounds>>

\* The context is built; plan follows.
BuildContext(w) ==
  /\ Ready(w, "build")
  /\ SaveRunning(w, task[w].state, "plan", "plan")
  /\ UNCHANGED <<actions, confirmations, locked, bounds>>

\* ContextBudgetExceeded.
BudgetExceeded(w) ==
  /\ Ready(w, "build")
  /\ Caught(w, "budget_exceeded")
  /\ UNCHANGED <<row, actions, confirmations, locked, bounds>>

\* The planner issues an action: its retries are counted anew.
Plan(w, a) ==
  LET t == Enter([task[w].state EXCEPT !.plannerRetries = 0], "validate_action") IN
  /\ Ready(w, "plan")
  /\ Save(w, t, [task[w] EXCEPT !.pc = "commit", !.state = t, !.action = a])
  /\ UNCHANGED <<actions, confirmations, locked, bounds>>

\* PlannerFailure: tried again while it is retryable and retries are left.
PlannerFails(w, retryable) ==
  LET s == task[w].state IN
  /\ Ready(w, "plan")
  /\ IF retryable /\ s.plannerRetries < MaxPlannerRetries
     THEN SaveRunning(w, [s EXCEPT !.plannerRetries = @ + 1], "plan", "plan")
     ELSE Close(w, s, "failed") /\ UNCHANGED row
  /\ UNCHANGED <<actions, confirmations, locked, bounds>>

\* _should_stop_for_repeated_confirmation.
Repeated(s, question) ==
  s.attempts >= MaxConfirmations \/ s.lastQuestion = question

\* Requests that failed and questions that were answered stop the run before
\* the action is committed.
Refused(s, a) ==
  \/ a.kind = "tool" /\ a.request \in s.failed
  \/ a.kind = "ask" /\ Repeated(s, a.question)

RefuseAction(w) ==
  /\ At(w, "commit")
  /\ Refused(task[w].state, task[w].action)
  /\ Close(w, task[w].state, "failed")
  /\ UNCHANGED <<row, actions, confirmations, locked, bounds>>

AfterCommit(a) ==
  CASE a.kind = "tool"  -> "dispatch"
    [] a.kind = "ask"   -> "ask"
    [] a.kind = "final" -> "close"

\* Mutant of CommitAction: the row's action_seq is left to the next save.
CommitActionAside(w) ==
  LET a == task[w].action
      seq == task[w].state.actionSeq + 1 IN
  /\ Ready(w, "commit")
  /\ ~Refused(task[w].state, a)
  /\ actions' = Append(actions, [action |-> a, runs |-> 0, outcome |-> "none"])
  /\ confirmations' = Append(confirmations, NoConfirmation)
  /\ Set(w, [task[w] EXCEPT !.pc = AfterCommit(a), !.state.actionSeq = seq,
                            !.close = IF a.kind = "final" THEN "completed" ELSE @])
  /\ UNCHANGED <<row, locked, bounds>>

\* Mutant of CommitAction: state_version is not compared.
CommitActionAnyVersion(w) ==
  LET a == task[w].action
      seq == task[w].state.actionSeq + 1 IN
  /\ Ready(w, "commit")
  /\ ~Refused(task[w].state, a)
  /\ IF seq = row.actionSeq + 1
     THEN /\ actions' = Append(actions, [action |-> a, runs |-> 0, outcome |-> "none"])
          /\ confirmations' = Append(confirmations, NoConfirmation)
          /\ row' = [row EXCEPT !.actionSeq = seq, !.toolRetries = 0]
          /\ Set(w, [task[w] EXCEPT !.pc = AfterCommit(a), !.state.actionSeq = seq,
                                    !.close = IF a.kind = "final" THEN "completed" ELSE @])
     ELSE Caught(w, "failed") /\ UNCHANGED <<row, actions, confirmations>>
  /\ UNCHANGED <<locked, bounds>>

\* ActionCommitter.commit: against the row's action_seq and state_version; the
\* row's action_seq moves with the action, its state_version does not.
CommitAction(w) ==
  LET a == task[w].action
      seq == task[w].state.actionSeq + 1
      s == [task[w].state EXCEPT !.actionSeq = seq, !.toolRetries = 0]
      committed == [task[w] EXCEPT !.pc = AfterCommit(a), !.state = s,
                                   !.close = IF a.kind = "final" THEN "completed" ELSE @]
  IN
  /\ Ready(w, "commit")
  /\ ~Refused(task[w].state, a)
  /\ IF seq = row.actionSeq + 1 /\ task[w].state.version = row.version
     THEN /\ actions' = Append(actions, [action |-> a, runs |-> 0, outcome |-> "none"])
          /\ confirmations' = Append(confirmations, NoConfirmation)
          /\ row' = [row EXCEPT !.actionSeq = seq, !.toolRetries = 0]
          /\ Set(w, committed)
     ELSE /\ IF seq <= row.actionSeq /\ actions[seq].action = a
             THEN Set(w, committed)
             ELSE Caught(w, "failed")
          /\ UNCHANGED <<row, actions, confirmations>>
  /\ UNCHANGED <<locked, bounds>>

\* The action is taken to execution.
Dispatch(w) ==
  /\ Ready(w, "dispatch")
  /\ SaveRunning(w, task[w].state, "execute_tool", "execute")
  /\ UNCHANGED <<actions, confirmations, locked, bounds>>

\* Mutant of CanRetry: the idempotency of the tool is not asked for.
CanRetryAny(s, a, outcome) ==
  outcome = "temporary_error" /\ s.toolRetries < MaxToolRetries

\* _execute_tool.  Every temporary error is retryable and none is a timeout: only
\* _artifact_error_result gives one (tool_runtime/runtime.py).
CanRetry(s, a, outcome) ==
  /\ outcome = "temporary_error"
  /\ a.request \in Idempotent
  /\ s.toolRetries < MaxToolRetries

\* The tool runs, whatever becomes of its result.
ExecuteTool(w, outcome) ==
  LET s == task[w].state IN
  /\ Ready(w, "execute")
  /\ actions' = [actions EXCEPT ![s.actionSeq].runs = @ + 1,
                                ![s.actionSeq].outcome = outcome]
  /\ Set(w, [task[w] EXCEPT !.pc = IF CanRetry(s, task[w].action, outcome)
                                   THEN "retry" ELSE "handle"])
  /\ UNCHANGED <<row, confirmations, locked, bounds>>

RetryTool(w) ==
  /\ Ready(w, "retry")
  /\ SaveRunning(w, [task[w].state EXCEPT !.toolRetries = @ + 1],
                 "execute_tool", "execute")
  /\ UNCHANGED <<actions, confirmations, locked, bounds>>

\* Mutant of HandleResult: the observation carries no request hash.
HandleResultUnhashed(w) ==
  LET s == task[w].state
      t == Enter(s, "handle_tool_result") IN
  /\ Ready(w, "handle")
  /\ Save(w, t, [task[w] EXCEPT !.state = t,
                   !.pc = IF actions[s.actionSeq].outcome = "needs_user"
                          THEN "ask" ELSE "observe"])
  /\ UNCHANGED <<actions, confirmations, locked, bounds>>

\* handle_tool_result is saved; the observation is only in memory yet.
HandleResult(w) ==
  LET s == task[w].state
      outcome == actions[s.actionSeq].outcome
      t == Enter(s, "handle_tool_result")
      observed == [t EXCEPT !.failed = IF outcome \in Failure
                                       THEN @ \cup {task[w].action.request} ELSE @]
  IN
  /\ Ready(w, "handle")
  /\ Save(w, t, [task[w] EXCEPT !.state = observed,
                   !.pc = IF outcome = "needs_user" THEN "ask" ELSE "observe"])
  /\ UNCHANGED <<actions, confirmations, locked, bounds>>

\* record_observation, and the end of the run at the iteration limit.
RecordObservation(w) ==
  LET t == Enter([task[w].state EXCEPT !.iteration = @ + 1], "record_observation")
      next == [task[w] EXCEPT !.state = t, !.action = NoAction] IN
  /\ Ready(w, "observe")
  /\ Save(w, t, IF t.iteration >= MaxIterations
                THEN [next EXCEPT !.pc = "close", !.close = "timeout"]
                ELSE [next EXCEPT !.pc = "rebuild"])
  /\ UNCHANGED <<actions, confirmations, locked, bounds>>

Rebuild(w) ==
  /\ Ready(w, "rebuild")
  /\ SaveRunning(w, task[w].state, "build_context", "build")
  /\ UNCHANGED <<actions, confirmations, locked, bounds>>

(***************************************************************************)
(* Asking the user                                                         *)
(***************************************************************************)

\* A tool asks what was answered before: the run stops.  (An ask action was
\* checked before it was committed.)
RefuseQuestion(w, question) ==
  /\ At(w, "ask")
  /\ task[w].action.kind = "tool"
  /\ Repeated(task[w].state, question)
  /\ Close(w, task[w].state, "failed")
  /\ UNCHANGED <<row, actions, confirmations, locked, bounds>>

\* pause_for_confirmation: the request and the waiting state in one transaction.
Pause(w, question) ==
  LET a == task[w].action
      seq == task[w].state.actionSeq
      t == Transition([task[w].state EXCEPT !.pending = seq],
                      "waiting_confirmation", "wait_confirmation", NoIntent) IN
  /\ Ready(w, "ask")
  /\ IF a.kind = "ask" THEN question = a.question
                       ELSE ~Repeated(task[w].state, question)
  /\ IF CanSave(row, t) /\ confirmations[seq] = NoConfirmation
     THEN /\ row' = t
          /\ confirmations' = [confirmations EXCEPT
                                ![seq] = [status |-> "pending", question |-> question]]
          /\ Set(w, [task[w] EXCEPT !.pc = "paused", !.state = t, !.action = NoAction])
     ELSE Caught(w, "failed") /\ UNCHANGED <<row, confirmations>>
  /\ UNCHANGED <<actions, locked, bounds>>

\* The pause is returned to the client.
ReturnPaused(w) ==
  /\ At(w, "paused")
  /\ Set(w, Gone)
  /\ UNCHANGED <<row, actions, confirmations, locked, bounds>>

\* Mutant of Resume: an equal reply starts the loop again.
ResumeAgain(w, seq, decision) ==
  LET s == IF row.status = "waiting_confirmation"
           THEN Transition(row, "running", "restore_run", NoIntent) ELSE row IN
  /\ task[w].pc \in {"idle", "dead"}
  /\ confirmations[seq].status \in {"pending", decision}
  /\ confirmations' = [confirmations EXCEPT ![seq].status = decision]
  /\ row' = s
  /\ Set(w, Entering(s))
  /\ UNCHANGED <<actions, locked, bounds>>

\* resolve_confirmation, then _run_guarded or, for a refusal, an unguarded
\* _finalize.  Every other reply changes nothing: an equal one is idempotent, a
\* different one, or one to another question, is an error.
Resume(w, seq, decision) ==
  LET s == Transition([row EXCEPT !.attempts = @ + 1,
                                  !.lastQuestion = confirmations[seq].question],
                      "running", "restore_run", NoIntent) IN
  /\ task[w].pc \in {"idle", "dead"}
  /\ confirmations[seq].status = "pending"
  /\ row.status = "waiting_confirmation"
  /\ row.pending = seq
  /\ confirmations' = [confirmations EXCEPT ![seq].status = decision]
  /\ row' = s
  /\ Set(w, IF decision = "confirmed"
            THEN Entering(s)
            ELSE [Entering(s) EXCEPT !.pc = "close", !.close = "cancelled",
                                     !.guarded = FALSE])
  /\ UNCHANGED <<actions, locked, bounds>>

(***************************************************************************)
(* Closing                                                                 *)
(***************************************************************************)

\* _prepare_interruption_state: start again from the persisted row; a waiting
\* one is woken up in memory only.  CloseFromMemory is what follows a failing load.
PrepareInterruption(w) ==
  LET s == IF row.status = "waiting_confirmation"
           THEN Transition(row, "running", "restore_run", NoIntent)
           ELSE row IN
  /\ At(w, "interrupted")
  /\ Set(w, [task[w] EXCEPT !.pc = "close", !.state = s, !.guarded = FALSE])
  /\ UNCHANGED <<row, actions, confirmations, locked, bounds>>

\* Mutant of SaveIntent: the state_version of the row is not compared.
SaveIntentBlindly(w) ==
  LET s == task[w].state
      status == task[w].close
      t == Transition(s, "running", "finalization", status) IN
  /\ At(w, "close")
  /\ IF CanTransition(s, "running", "finalization", status)
     THEN row' = t /\ Set(w, [task[w] EXCEPT !.pc = "finalize", !.state = t])
     ELSE Caught(w, "failed") /\ UNCHANGED row
  /\ UNCHANGED <<actions, confirmations, locked, bounds>>

\* _finalize: running/finalization with the intent is saved.
SaveIntent(w) ==
  LET s == task[w].state
      status == task[w].close
      t == Transition(s, "running", "finalization", status) IN
  /\ At(w, "close")
  /\ IF CanTransition(s, "running", "finalization", status) /\ CanSave(row, t)
     THEN row' = t /\ Set(w, [task[w] EXCEPT !.pc = "finalize", !.state = t])
     ELSE Caught(w, "failed") /\ UNCHANGED row
  /\ UNCHANGED <<actions, confirmations, locked, bounds>>

\* _require_finalizable and the ledger's lock.
Finalizable(status) ==
  /\ row.phase = "finalization"
  /\ IF row.status = "running" THEN row.intent = status ELSE row.status = status
  /\ locked \in {NoIntent, status}

Ended(status) == Transition(row, status, "finalization", status)

\* finalization_service.finalize ends the run.
Finalize(w) ==
  /\ At(w, "finalize")
  /\ Finalizable(task[w].close)
  /\ locked' = task[w].close
  /\ row' = Ended(task[w].close)
  /\ Set(w, Gone)
  /\ UNCHANGED <<actions, confirmations, bounds>>

\* FinalizationFailure after the lock was taken, or a cancellation in _drive.
FinalizeFails(w) ==
  /\ At(w, "finalize")
  /\ Finalizable(task[w].close)
  /\ interrupts < MaxInterrupts
  /\ interrupts' = interrupts + 1
  /\ locked' = task[w].close
  /\ \/ Set(w, [Gone EXCEPT !.pc = "dead", !.close = task[w].close])
     \/ task[w].guarded /\ Caught(w, "cancelled")
  /\ UNCHANGED <<row, actions, confirmations, expired, crashes>>

\* The row or the lock says otherwise by now: an exception before _drive.
FinalizeRefused(w) ==
  /\ At(w, "finalize")
  /\ ~Finalizable(task[w].close)
  /\ Caught(w, "failed")
  /\ UNCHANGED <<row, actions, confirmations, locked, bounds>>

\* Mutant of Reconcile: the row's intent must be the locked status.
ReconcileStrictly ==
  /\ locked # NoIntent
  /\ row.status = "running"
  /\ row.intent = locked
  /\ row' = Ended(locked)
  /\ UNCHANGED <<actions, confirmations, locked, task, bounds>>

\* POST /run/reconcile drives a locked outcome to its end.
Reconcile ==
  /\ locked # NoIntent
  /\ ~IsTerminal(row)
  /\ row' = Ended(locked)
  /\ UNCHANGED <<actions, confirmations, locked, task, bounds>>

(***************************************************************************)
(* What goes wrong                                                         *)
(***************************************************************************)
Expire ==
  /\ ~expired
  /\ expired' = TRUE
  /\ UNCHANGED <<row, actions, confirmations, locked, task, interrupts, crashes>>

\* HarnessDeadlineExceeded at the next check.
Timeout(w) ==
  /\ expired
  /\ task[w].pc \in Loop \ {"paused"}
  /\ Caught(w, "timeout")
  /\ UNCHANGED <<row, actions, confirmations, locked, bounds>>

\* An exception or a cancellation at an await, before or after it had its effect.
Interrupt(w, status) ==
  /\ task[w].pc \in Loop \cup {"close", "finalize"}
  /\ task[w].guarded
  /\ interrupts < MaxInterrupts
  /\ interrupts' = interrupts + 1
  /\ Caught(w, status)
  /\ UNCHANGED <<row, actions, confirmations, locked, expired, crashes>>

\* The process dies, or an exception meets a handler.
Crash(w) ==
  /\ task[w].pc \in Busy
  /\ crashes < MaxCrashes
  /\ crashes' = crashes + 1
  /\ Set(w, Gone)
  /\ UNCHANGED <<row, actions, confirmations, locked, expired, interrupts>>

\* A save is refused and _prepare_interruption_state cannot load the row: the run is
\* closed from memory.  _transition works in place, so the state in memory carries
\* the version whose save was refused, and the closing asks for the next one.
CloseFromMemory(w) ==
  LET inMemory == [task[w].state EXCEPT !.version = @ + 1]
      t == Transition(inMemory, "running", "finalization", "failed") IN
  /\ task[w].pc \in {"begin", "build", "dispatch", "retry", "handle", "observe", "rebuild"}
  /\ ~expired
  /\ task[w].state.version # row.version
  /\ CanTransition(inMemory, "running", "finalization", "failed")
  /\ crashes < MaxCrashes
  /\ crashes' = crashes + 1
  /\ IF CanSave(row, t)
     THEN row' = t /\ Set(w, [task[w] EXCEPT !.pc = "finalize", !.state = t,
                                 !.close = "failed", !.guarded = FALSE,
                                 !.action = NoAction])
     ELSE Set(w, [Gone EXCEPT !.pc = "dead", !.close = "failed"]) /\ UNCHANGED row
  /\ UNCHANGED <<actions, confirmations, locked, expired, interrupts>>

Running(w) ==
  \/ Begin(w) \/ BuildContext(w) \/ BudgetExceeded(w)
  \/ \E a \in Actions : Plan(w, a)
  \/ \E retryable \in BOOLEAN : PlannerFails(w, retryable)
  \/ RefuseAction(w) \/ CommitAction(w)
  \/ Dispatch(w) \/ RetryTool(w)
  \/ \E outcome \in Outcome \ {"none"} : ExecuteTool(w, outcome)
  \/ HandleResult(w) \/ RecordObservation(w) \/ Rebuild(w)
  \/ \E question \in Questions : RefuseQuestion(w, question) \/ Pause(w, question)
  \/ ReturnPaused(w)
  \/ Timeout(w)
  \/ PrepareInterruption(w) \/ SaveIntent(w)
  \/ Finalize(w) \/ FinalizeRefused(w)

Next ==
  \/ \E w \in Workers : Running(w)
  \/ \E w \in Workers : \E seq \in DOMAIN actions :
       \E decision \in {"confirmed", "rejected"} : Resume(w, seq, decision)
  \/ \E w \in Workers : FinalizeFails(w) \/ Crash(w)
  \/ \E w \in Workers : \E status \in {"failed", "cancelled"} : Interrupt(w, status)
  \/ Reconcile
  \/ Expire

Spec == Init /\ [][Next]_vars

\* The same where a handler's load may raise.
UnreadableSpec == Init /\ [][Next \/ \E w \in Workers : CloseFromMemory(w)]_vars

\* A task that can go on does, and reconcile is called for a failed closing.
Fairness == (\A w \in Workers : WF_vars(Running(w))) /\ WF_vars(Reconcile)

FairSpec == Spec /\ Fairness

(***************************************************************************)
(* Properties                                                              *)
(***************************************************************************)

\* Until the run is closing, the action log and the row's action_seq agree: a
\* worker that plans from the row issues the next free number.
LogMatchesRow ==
  /\ row.actionSeq <= Len(actions)
  /\ row.phase # "finalization" => row.actionSeq = Len(actions)
  /\ Len(confirmations) = Len(actions)

\* A run waits exactly when it has one open question, its own: no reply can wake
\* a run that does not wait, no waiting run lacks a question to answer.
WaitingMeansOpenQuestion ==
  \A seq \in DOMAIN confirmations :
    confirmations[seq].status = "pending" <=>
      row.status = "waiting_confirmation" /\ row.pending = seq

\* Whatever replies race for a confirmation, one worker at most runs the loop.
OneRunner ==
  \A v, w \in Workers :
    task[v].pc \in Loop \ {"paused"} /\ task[w].pc \in Loop \ {"paused"} => v = w

\* A committed tool call runs at most once, unless it is idempotent, then at most
\* as often as the retry limit allows (_execute_tool), pauses and resumes included.
ToolRunsAreBounded ==
  \A i \in DOMAIN actions :
    actions[i].runs <= IF actions[i].action.request \in Idempotent
                       THEN 1 + MaxToolRetries ELSE 1

\* A request that failed in this run is never committed again, also after pauses
\* and resumes (_has_failed_tool_request on persisted observations).
FailedIsNotRepeated ==
  \A i, j \in DOMAIN actions :
    i < j /\ actions[i].outcome \in Failure
      => actions[j].action.request # actions[i].action.request

\* The iteration limit and the confirmation limit together bound the run.
LoopIsBounded == Len(actions) <= MaxIterations + MaxConfirmations

\* A completed run has a committed final answer, and it is the last action.
CompletedWithAnswer ==
  row.status = "completed" =>
    actions # <<>> /\ actions[Len(actions)].action.kind = "final"

\* Once a run is closing, no worker left over commits an action, asks or answers
\* a question (the state_version check of commit, save and pause).
NothingCommittedAfterClosing ==
  [][row.phase = "finalization" =>
       Len(actions') = Len(actions) /\ confirmations' = confirmations]_vars

\* A client sees the life of RunLifecycle.
Lifecycle == INSTANCE RunLifecycle
  WITH status <- row.status,
       asked <- Cardinality({i \in DOMAIN confirmations :
                               confirmations[i].status # "none"}),
       answered <- Cardinality({i \in DOMAIN confirmations :
                                  confirmations[i].status \in {"confirmed", "rejected"}})

FollowsLifecycle == Lifecycle!Spec

\* As long as no process dies, a running run ends or asks its user: the planner,
\* the tools and the interruptions cannot keep it running, and two workers that
\* close it against each other do not leave it behind.
RunStops ==
  row.status = "running" ~> row.status # "running" \/ crashes > 0

\* "When the client disconnects the run is still brought to a terminal state"
\* (controller.py, _run_guarded): a cancelled task that ended in its handler has
\* closed the run.
CancelledTaskClosesRun ==
  \A w \in Workers :
    task[w].pc = "dead" /\ task[w].close = "cancelled" => row.phase = "finalization"

\* "When the row cannot be read the state in memory is kept, so that the save of the
\* closing reports the real conflict" (controller.py, _prepare_interruption_state): a
\* task behind the row does not get to close the run from its own state.
ConflictIsReported ==
  [][\A w \in Workers :
       task[w].pc \in Loop /\ At(w, "finalize")' =>
         task[w].state.version = row.version]_vars

\* "Old workers may not overwrite a newer state" (_assert_version) and the row's
\* action_seq and its snapshot never disagree with the log (comment of commit).
ActionSeqNeverLost == row.actionSeq = Len(actions)
=============================================================================
