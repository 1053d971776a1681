--------------------------- MODULE Finalization ---------------------------
(***************************************************************************)
(* Closing one run: PostgresFinalizationService.finalize / reconcile       *)
(* (app/agent/finalization/service.py), the ledger they drive              *)
(* (app/repositories/finalization_repository.py), and the LoopController   *)
(* code that calls finalize, is interrupted in it and calls it again.      *)
(*                                                                         *)
(* Every database transaction is one action.  Between two of them any      *)
(* driver may stop (exception, cancelled task, dead process), and other    *)
(* drivers may run: the controller and any number of reconcile requests.   *)
(***************************************************************************)
EXTENDS HarnessState, FiniteSets

CONSTANTS Controller,    \* the task of LoopController
          Reconcilers,   \* tasks serving POST /run/reconcile
          Values,        \* FinalizationInputs: records with status and answer
          NoValue,
          MaxAttempts,   \* bound: the ledger's attempts counter saturates here
          MaxFaults      \* bound: drivers that stop half-way

Drivers == {Controller} \cup Reconcilers

ASSUME ValuesAssumption ==
  /\ \A v \in Values : v.status \in TerminalStatus
  /\ NoValue \notin Values
  /\ Controller \notin Reconcilers

ASSUME BoundsAssumption ==
  /\ MaxAttempts \in Nat
  /\ MaxFaults \in Nat

\* _STAGE_ORDER, preceded by "there is no ledger row".
NoLedger            == 0
Prepared            == 1
HistorySaved        == 2
CheckpointSaved     == 3
Released            == 4
FormationSubmitted  == 5
Completed           == 6

VARIABLES
  row,        \* harness_runs: the control state, and final_answer as answer
  ledger,     \* harness_finalizations: stage, locked value, attempts
  turn,       \* conversation_turns and its assistant messages
  active,     \* conversations.active_run_id is this run
  formation,  \* a memory formation row exists for the turn
  task,       \* the drivers: program counter and local variables
  tries,      \* calls of LoopController._finalize used up
  faults      \* drivers stopped so far

vars == <<row, ledger, turn, active, formation, task, tries, faults>>
db == <<row, ledger, turn, active, formation>>
counts == <<tries, faults>>

PC == {"idle", "save", "load", "prepare", "mark", "reload", "work", "advance",
       "raised", "cancelled", "stopped", "done"}

\* The controller may close the run from its loop and then once more from an
\* exception handler; the handlers themselves are not guarded.
CallsOfFinalize == 2

RowState == [status : HarnessStatus, phase : LoopPhase, intent : Intent,
             pending : Nat, version : Nat, answer : Values \cup {NoValue}]

\* A driver's program counter, its input, the row and the stage it knows.
TaskState == [pc : PC, value : Values \cup {NoValue}, state : RowState,
              stage : NoLedger..Completed]

TypeOK ==
  /\ row \in RowState
  /\ ledger \in [stage : NoLedger..Completed, value : Values \cup {NoValue},
                 attempts : Nat]
  /\ turn \in [shown : Values \cup {NoValue}, messages : Nat]
  /\ active \in BOOLEAN
  /\ formation \in BOOLEAN
  /\ task \in [Drivers -> TaskState]
  /\ tries \in Nat
  /\ faults \in Nat

\* The run as the loop left it: running, in a phase from which it may close.
InitialRow ==
  [status |-> "running", phase |-> "validate_action", intent |-> NoIntent,
   pending |-> NoPending, version |-> 0, answer |-> NoValue]

Init ==
  /\ row = InitialRow
  /\ ledger = [stage |-> NoLedger, value |-> NoValue, attempts |-> 0]
  /\ turn = [shown |-> NoValue, messages |-> 0]
  /\ active = TRUE
  /\ formation = FALSE
  /\ task = [d \in Drivers |-> [pc |-> "idle", value |-> NoValue,
                                state |-> InitialRow, stage |-> NoLedger]]
  /\ tries = 0
  /\ faults = 0

At(d, pc) == task[d].pc = pc
Goto(d, pc) == task' = [task EXCEPT ![d].pc = pc]

\* The driver also learns a state of the row and a stage of the ledger.
Move(d, pc, state, stage) ==
  task' = [task EXCEPT ![d] = [pc |-> pc, value |-> task[d].value,
                               state |-> state, stage |-> stage]]

\* An exception inside _drive is FinalizationFailure and ends the driver; one
\* the controller meets before _drive makes it close the run a second time.
Raise(d) ==
  Goto(d, IF d = Controller /\ task[d].pc \in {"save", "load", "prepare"}
          THEN "raised" ELSE "stopped")

(***************************************************************************)
(* LoopController._finalize                                                *)
(***************************************************************************)

\* Which outcomes a call may carry: any from the loop or from the first handler
\* entered; failed or cancelled from a handler that closes the run again.
MayClose(v) ==
  CASE task[Controller].pc = "idle"      -> TRUE
    [] task[Controller].pc = "raised"    -> v.status = "failed"
    [] task[Controller].pc = "cancelled" -> v.status = "cancelled"
    [] OTHER                             -> FALSE

\* The controller takes the persisted state (its own memory, or what
\* _prepare_interruption_state reloads) and moves it to finalization.  A
\* terminal row refuses the transition and the exception leaves the controller.
\* cancelled and budget_exceeded come from a handler, hence use up both calls.
BeginFinalize(v) ==
  LET d == Controller IN
  /\ MayClose(v)
  /\ tries < CallsOfFinalize
  /\ tries' = IF v.status \in {"cancelled", "budget_exceeded"}
              THEN CallsOfFinalize ELSE tries + 1
  /\ IF CanTransition(row, "running", "finalization", v.status)
     THEN task' = [task EXCEPT ![d] =
            [pc |-> "save", value |-> v, stage |-> NoLedger,
             state |-> [Transition(row, "running", "finalization", v.status)
                          EXCEPT !.answer = v]]]
     ELSE Goto(d, "stopped")
  /\ UNCHANGED <<db, faults>>

\* run_store.save of running/finalization: optimistic on state_version.
SaveIntent ==
  LET d == Controller IN
  /\ At(d, "save")
  /\ IF CanSave(row, task[d].state)
     THEN row' = task[d].state /\ Goto(d, "load")
     ELSE Raise(d) /\ UNCHANGED row
  /\ UNCHANGED <<ledger, turn, active, formation, counts>>

\* finalize: load the row and _require_finalizable.
LoadRow ==
  LET d == Controller
      v == task[d].value IN
  /\ At(d, "load")
  /\ IF /\ row.phase = "finalization"
        /\ IF row.status = "running" THEN row.intent = v.status
                                     ELSE row.status = v.status
     THEN Move(d, "prepare", row, NoLedger)
     ELSE Raise(d)
  /\ UNCHANGED <<db, counts>>

\* Mutant of PrepareLedger: the lock is taken over by a later call with other content.
PrepareLedgerOverwrites ==
  LET d == Controller
      v == task[d].value IN
  /\ At(d, "prepare")
  /\ ledger' = [ledger EXCEPT !.value = v,
                              !.stage = IF @ = NoLedger THEN Prepared ELSE @]
  /\ Move(d, "work", task[d].state, ledger'.stage)
  /\ UNCHANGED <<row, turn, active, formation, counts>>

\* Mutant of PrepareLedger: the stage is advanced before its work is done.
PrepareSkipsHistory ==
  LET d == Controller
      v == task[d].value IN
  /\ At(d, "prepare")
  /\ IF ledger.stage = NoLedger
     THEN /\ ledger' = [ledger EXCEPT !.stage = HistorySaved, !.value = v]
          /\ Move(d, "work", task[d].state, HistorySaved)
     ELSE Raise(d) /\ UNCHANGED ledger
  /\ UNCHANGED <<row, turn, active, formation, counts>>

\* ledger.prepare: the first value is locked; a different one is a digest
\* conflict, the same one continues at the stage already reached.
PrepareLedger ==
  LET d == Controller
      v == task[d].value IN
  /\ At(d, "prepare")
  /\ IF ledger.stage = NoLedger
     THEN /\ ledger' = [ledger EXCEPT !.stage = Prepared, !.value = v]
          /\ Move(d, "work", task[d].state, Prepared)
     ELSE /\ IF ledger.value = v
             THEN Move(d, "work", task[d].state, ledger.stage)
             ELSE Raise(d)
          /\ UNCHANGED ledger
  /\ UNCHANGED <<row, turn, active, formation, counts>>

(***************************************************************************)
(* reconcile                                                               *)
(***************************************************************************)

\* ledger.get; the input is rebuilt from the locked payload.
BeginReconcile(d) ==
  /\ task[d].pc \in {"idle", "stopped", "done"}
  /\ ledger.stage # NoLedger
  /\ task' = [task EXCEPT ![d] = [pc |-> "mark", value |-> ledger.value,
                                  stage |-> ledger.stage, state |-> @.state]]
  /\ UNCHANGED <<db, counts>>

\* mark_reconcile_attempt.
MarkAttempt(d) ==
  /\ At(d, "mark")
  /\ ledger' = [ledger EXCEPT
                  !.attempts = IF @ < MaxAttempts THEN @ + 1 ELSE @]
  /\ Goto(d, "reload")
  /\ UNCHANGED <<row, turn, active, formation, counts>>

\* run_store.load, then _drive.
ReloadRow(d) ==
  /\ At(d, "reload")
  /\ Move(d, "work", row, task[d].stage)
  /\ UNCHANGED <<db, counts>>

(***************************************************************************)
(* _drive: for each stage not yet reached, the stage's work and then       *)
(* ledger.advance.  Both are transactions of their own.                    *)
(***************************************************************************)
Working(d, stage) == At(d, "work") /\ task[d].stage = stage

\* Mutant of SaveHistory: the conversation is released as soon as the history is saved.
SaveHistoryAndRelease(d) ==
  LET v == task[d].value IN
  /\ Working(d, Prepared)
  /\ turn' = IF turn.shown = NoValue
             THEN [shown |-> v, messages |-> turn.messages + 1] ELSE turn
  /\ active' = FALSE
  /\ Goto(d, "advance")
  /\ UNCHANGED <<row, ledger, formation, counts>>

\* _save_history / finish_turn: one assistant message, idempotent for the same
\* content, an error for a different one.
SaveHistory(d) ==
  LET v == task[d].value IN
  /\ Working(d, Prepared)
  /\ IF turn.shown = NoValue
     THEN /\ turn' = [shown |-> v, messages |-> turn.messages + 1]
          /\ Goto(d, "advance")
     ELSE /\ IF turn.shown = v THEN Goto(d, "advance") ELSE Raise(d)
          /\ UNCHANGED turn
  /\ UNCHANGED <<row, ledger, active, formation, counts>>

\* Mutant of SaveCheckpoint: the checkpoint commits the row's own terminal_intent.
SaveCheckpointByIntent(d) ==
  LET s == task[d].state
      status == IF s.intent = NoIntent THEN "failed" ELSE s.intent
      terminal == Transition(s, status, "finalization", status) IN
  /\ Working(d, HistorySaved)
  /\ IF CanTransition(s, status, "finalization", status) /\ CanSave(row, terminal)
     THEN /\ row' = terminal
          /\ Move(d, "advance", terminal, HistorySaved)
     ELSE Raise(d) /\ UNCHANGED row
  /\ UNCHANGED <<ledger, turn, active, formation, counts>>

\* Mutant of SaveCheckpoint: the checkpoint refuses a row whose intent is not the locked one.
SaveCheckpointStrict(d) ==
  LET v == task[d].value
      s == task[d].state
      terminal == Transition(s, v.status, "finalization", NoIntent) IN
  /\ Working(d, HistorySaved)
  /\ IF CanTransition(s, v.status, "finalization", NoIntent) /\ CanSave(row, terminal)
     THEN /\ row' = terminal
          /\ Move(d, "advance", terminal, HistorySaved)
     ELSE Raise(d) /\ UNCHANGED row
  /\ UNCHANGED <<ledger, turn, active, formation, counts>>

\* The terminal checkpoint, computed from the state loaded before _drive.
SaveCheckpoint(d) ==
  LET v == task[d].value
      s == task[d].state
      terminal == Transition(s, v.status, "finalization", v.status) IN
  /\ Working(d, HistorySaved)
  /\ IF /\ CanTransition(s, v.status, "finalization", v.status)
        /\ CanSave(row, terminal)
     THEN /\ row' = terminal
          /\ Move(d, "advance", terminal, HistorySaved)
     ELSE Raise(d) /\ UNCHANGED row
  /\ UNCHANGED <<ledger, turn, active, formation, counts>>

\* release_active_run.
ReleaseActiveRun(d) ==
  /\ Working(d, CheckpointSaved)
  /\ active' = FALSE
  /\ Goto(d, "advance")
  /\ UNCHANGED <<row, ledger, turn, formation, counts>>

\* _submit_formation: only a completed run forms memory; the claim on the
\* formation key is idempotent.
SubmitFormation(d) ==
  /\ Working(d, Released)
  /\ formation' = (formation \/ task[d].value.status = "completed")
  /\ Goto(d, "advance")
  /\ UNCHANGED <<row, ledger, turn, active, counts>>

\* Mutant of BeginComplete: the loop over the stages does not stop at the last one.
BeginCompleteForEver(d) ==
  /\ At(d, "work")
  /\ task[d].stage >= FormationSubmitted
  /\ Goto(d, "advance")
  /\ UNCHANGED <<db, counts>>

\* The last stage has no work of its own.
BeginComplete(d) ==
  /\ Working(d, FormationSubmitted)
  /\ Goto(d, "advance")
  /\ UNCHANGED <<db, counts>>

\* Every stage was reached already: the result is returned.
Return(d) ==
  /\ Working(d, Completed)
  /\ Goto(d, "done")
  /\ UNCHANGED <<db, counts>>

\* ledger.advance: exactly one stage forward, or an error.
Advance(d) ==
  /\ At(d, "advance")
  /\ IF ledger.stage = task[d].stage
     THEN /\ ledger' = [ledger EXCEPT
               !.stage = @ + 1,
               !.attempts = IF ledger.stage + 1 = Completed /\ @ < MaxAttempts
                            THEN @ + 1 ELSE @]
          /\ Move(d, "work", task[d].state, task[d].stage + 1)
     ELSE Raise(d) /\ UNCHANGED ledger
  /\ UNCHANGED <<row, turn, active, formation, counts>>

(***************************************************************************)
(* Faults                                                                  *)
(***************************************************************************)
Busy(d) == task[d].pc \notin {"idle", "stopped", "done"}

\* A driver stops for good: a failing call inside _drive, a dead process.
Stop(d) ==
  /\ Busy(d)
  /\ faults < MaxFaults
  /\ faults' = faults + 1
  /\ Goto(d, "stopped")
  /\ UNCHANGED <<db, tries>>

\* The client disconnects and the controller's task is cancelled, in _drive too
\* (CancelledError is no Exception): _run_guarded closes the run as cancelled.
Cancel ==
  /\ Busy(Controller)
  /\ task[Controller].pc \notin {"raised", "cancelled"}
  /\ faults < MaxFaults
  /\ faults' = faults + 1
  /\ Goto(Controller, "cancelled")
  /\ UNCHANGED <<db, tries>>

\* A database call before _drive fails, whether or not it was committed.
Fail ==
  /\ task[Controller].pc \in {"save", "load", "prepare"}
  /\ faults < MaxFaults
  /\ faults' = faults + 1
  /\ Raise(Controller)
  /\ UNCHANGED <<db, tries>>

Drive(d) ==
  \/ SaveHistory(d)
  \/ SaveCheckpoint(d)
  \/ ReleaseActiveRun(d)
  \/ SubmitFormation(d)
  \/ BeginComplete(d)
  \/ Advance(d)
  \/ Return(d)

ControllerStep == SaveIntent \/ LoadRow \/ PrepareLedger \/ Drive(Controller)

ReconcilerStep(d) == BeginReconcile(d) \/ MarkAttempt(d) \/ ReloadRow(d) \/ Drive(d)

Next ==
  \/ \E v \in Values : BeginFinalize(v)
  \/ ControllerStep
  \/ \E d \in Reconcilers : ReconcilerStep(d)
  \/ \E d \in Drivers : Stop(d)
  \/ Cancel
  \/ Fail

Spec == Init /\ [][Next]_vars

\* A task that runs keeps running, and somebody keeps calling reconcile.
Fairness ==
  /\ WF_vars(ControllerStep)
  /\ \A d \in Reconcilers : WF_vars(ReconcilerStep(d))

FairSpec == Spec /\ Fairness

(***************************************************************************)
(* Properties                                                              *)
(***************************************************************************)

\* The conversation is never free while its run can still write: an unoccupied
\* conversation has a terminal run whose answer is in the history ("red line"
\* of the recovery tests, order of _drive).
ReleasedOnlyWhenOver ==
  ~active => IsTerminal(row) /\ turn.shown # NoValue

\* The user sees exactly one assistant message and it is the locked one, however
\* many drivers replay _save_history (finish_turn, ledger digest).
ShownIsLocked ==
  turn.shown # NoValue => turn.shown = ledger.value /\ turn.messages = 1

\* The terminal status is the locked one, even when an interrupted controller
\* has overwritten terminal_intent in the row (_drive, prepare).
EndedAsLocked ==
  IsTerminal(row) => row.status = ledger.value.status /\ turn.shown # NoValue

\* The ledger never claims a stage whose effect is missing: a reconcile that
\* starts there would skip it for ever.
LedgerTellsTheTruth ==
  /\ ledger.stage >= HistorySaved => turn.shown # NoValue
  /\ ledger.stage >= CheckpointSaved => IsTerminal(row)
  /\ ledger.stage >= Released => ~active
  /\ ledger.stage >= FormationSubmitted =>
       (formation <=> ledger.value.status = "completed")

\* Memory is formed from completed runs only, and only after the conversation
\* was given back (_submit_formation).
FormationLast ==
  formation => ~active /\ ledger.value.status = "completed"

\* The locked content never changes and the ledger moves one stage at a time,
\* never back, whatever drivers race for it (prepare, advance).
LedgerOnlyAdvances ==
  [][/\ ledger.stage' \in {ledger.stage, ledger.stage + 1}
     /\ ledger.value # NoValue => ledger'.value = ledger.value]_ledger

\* A terminal run is never rewritten: no late driver, no stale checkpoint and no
\* second _finalize changes it (transition_harness_state, _assert_version).
TerminalIsFinal == [][IsTerminal(row) => row' = row]_row

\* Once the outcome is locked, reconcile requests bring the run to its end: no
\* crash point, no interrupted controller and no race of drivers blocks it.
LockedRunCloses == ledger.stage # NoLedger ~> ledger.stage = Completed

\* Every closing, however it is driven, keeps the promise to the user.
Promise == INSTANCE FinalizationPromise
  WITH outcome <- ledger.value, published <- turn.shown,
       ended <- IsTerminal(row), freed <- ~active, learned <- formation

KeepsPromise == Promise!Spec

\* The docstring of PostgresFinalizationService says the closing content is
\* locked; then the row of a terminal run shows the locked answer.
RowShowsLockedAnswer == IsTerminal(row) => row.answer = ledger.value

(***************************************************************************)
(* The inductive invariant behind the safety properties.                   *)
(***************************************************************************)

\* The effect of a stage is in the database.
Done(stage) ==
  /\ stage = HistorySaved => turn.shown # NoValue
  /\ stage = CheckpointSaved => IsTerminal(row)
  /\ stage = Released => ~active
  /\ stage = FormationSubmitted =>
       (formation <=> ledger.value.status = "completed")

\* A driver that knows the ledger holds the locked value and lags behind it.
FollowsLedger(d) ==
  task[d].pc \in {"mark", "reload", "work", "advance"} =>
    /\ ledger.stage # NoLedger
    /\ task[d].value = ledger.value
    /\ task[d].stage \in Prepared..ledger.stage

\* Its work is done before it advances the ledger.
WorksBeforeAdvancing(d) ==
  task[d].pc = "advance" =>
    task[d].stage # Completed /\ Done(task[d].stage + 1)

\* A state read from the row is the row, or older.
ReadsOrLags(d) ==
  task[d].pc \in {"prepare", "work", "advance"} =>
    /\ task[d].state.version <= row.version
    /\ task[d].state.version = row.version => task[d].state = row

\* An unsaved intent extends the row, or an older one.
IntentIsNextOrLags(d) ==
  task[d].pc = "save" =>
    /\ task[d].state.status = "running"
    /\ task[d].state.version <= row.version + 1
    /\ task[d].state.version = row.version + 1 => ~IsTerminal(row)

\* Before it reaches the ledger, a driver carries an outcome.
HoldsOutcome(d) ==
  task[d].pc \in {"save", "load", "prepare"} => task[d].value \in Values

DriverInv(d) ==
  /\ FollowsLedger(d)
  /\ WorksBeforeAdvancing(d)
  /\ ReadsOrLags(d)
  /\ IntentIsNextOrLags(d)
  /\ HoldsOutcome(d)

LockInv ==
  /\ (ledger.stage = NoLedger) <=> (ledger.value = NoValue)
  /\ turn.shown = NoValue => turn.messages = 0

IInv ==
  /\ TypeOK
  /\ ReleasedOnlyWhenOver
  /\ ShownIsLocked
  /\ EndedAsLocked
  /\ LedgerTellsTheTruth
  /\ FormationLast
  /\ LockInv
  /\ \A d \in Drivers : DriverInv(d)
=============================================================================
