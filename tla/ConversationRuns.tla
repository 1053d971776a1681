-------------------------- MODULE ConversationRuns --------------------------
(***************************************************************************)
(* Several runs in one conversation: who holds conversations.active_run_id,*)
(* what becomes of each run's turn, and how the requests of the router     *)
(* (app/api/routers/harness.py) meet in the database: POST /run and        *)
(* /run/stream, /run/resume and /run/resume/stream, /run/reconcile, the    *)
(* cleanup after a request that failed, and DELETE of the conversation.    *)
(*                                                                         *)
(* A run's own loop is the subject of HarnessRun and the closing of one    *)
(* run that of Finalization; both are cut down here to the transactions    *)
(* that touch what the runs of a conversation share.  One action is one    *)
(* database transaction of one request.                                    *)
(***************************************************************************)
EXTENDS HarnessState

CONSTANTS Tasks,        \* requests being served: each a task of its own
          Runs,         \* run ids, fresh for every POST (uuid4), with their turn
          NoRun,
          Outcomes,     \* the terminal statuses a loop may close with
          MaxFaults,    \* bound: requests that fail or die half-way
          MaxRefused,   \* bound: replies resolve_confirmation refuses
          MaxPauses,    \* bound: questions asked
          MaxDeletes    \* bound: deletions of the conversation

ASSUME OutcomesAssumption == Outcomes \subseteq TerminalStatus

ASSUME RunsAssumption ==
  /\ NoRun \notin Runs
  /\ {MaxFaults, MaxRefused, MaxPauses, MaxDeletes} \subseteq Nat

\* The stages of the ledger, as in Finalization.
NoLedger           == 0
Prepared           == 1
HistorySaved       == 2
CheckpointSaved    == 3
Released           == 4
FormationSubmitted == 5
Completed          == 6

VARIABLES
  exists,   \* the conversations row exists
  active,   \* conversations.active_run_id
  turn,     \* conversation_turns: status, and what the assistant message shows
  row,      \* harness_runs: the control state, or status "absent"
  ledger,   \* harness_finalizations: stage and locked terminal status
  task,     \* the requests: program counter and local variables
  used      \* how much of each bound is used up

vars == <<exists, active, turn, row, ledger, task, used>>
db == <<exists, active, turn, row, ledger>>

PC == {"idle", "create", "loop", "close", "prepare", "work", "advance",
       "cleanup", "check", "save_failure", "finish"}

TurnStatus == {"none", "deleted", "running"} \cup TerminalStatus

\* "answer" is the run's own final answer, "start_failure" the fixed text of
\* the cleanup; a turn closed by a takeover shows nothing.
Shown == {"nothing", "answer", "start_failure"}

RowState == [status : HarnessStatus \cup {"absent"}, phase : LoopPhase,
             intent : Intent, pending : Nat, version : Nat]

AbsentRow == [status |-> "absent", phase |-> "start_run", intent |-> NoIntent,
              pending |-> NoPending, version |-> 0]

TypeOK ==
  /\ exists \in BOOLEAN
  /\ active \in Runs \cup {NoRun}
  /\ turn \in [Runs -> [status : TurnStatus, shown : Shown]]
  /\ row \in [Runs -> RowState]
  /\ ledger \in [Runs -> [stage : NoLedger..Completed, status : Intent]]
  /\ task \in [Tasks -> [pc : PC, run : Runs \cup {NoRun}, state : RowState,
                         stage : NoLedger..Completed, cleans : BOOLEAN]]
  /\ used \in [faults : Nat, refused : Nat, pauses : Nat, deletes : Nat]

\* A task that serves no request.
NoTask == [pc |-> "idle", run |-> NoRun, state |-> AbsentRow,
           stage |-> NoLedger, cleans |-> FALSE]

Init ==
  /\ exists = FALSE
  /\ active = NoRun
  /\ turn = [r \in Runs |-> [status |-> "none", shown |-> "nothing"]]
  /\ row = [r \in Runs |-> AbsentRow]
  /\ ledger = [r \in Runs |-> [stage |-> NoLedger, status |-> NoIntent]]
  /\ task = [t \in Tasks |-> NoTask]
  /\ used = [faults |-> 0, refused |-> 0, pauses |-> 0, deletes |-> 0]

At(t, pc) == task[t].pc = pc
Goto(t, pc) == task' = [task EXCEPT ![t].pc = pc]
Quit(t) == task' = [task EXCEPT ![t] = NoTask]

\* The task goes on with the row it has just read or written.
Continue(t, pc, state) ==
  task' = [task EXCEPT ![t].pc = pc, ![t].state = state]

\* A request is accepted: cleans tells whether its route runs the cleanup.
Accept(t, r, pc, state, stage, cleans) ==
  task' = [task EXCEPT ![t] = [pc |-> pc, run |-> r, state |-> state,
                               stage |-> stage, cleans |-> cleans]]

\* An exception leaves the controller.
Raise(t) == IF task[t].cleans THEN Goto(t, "cleanup") ELSE Quit(t)

Use(bound) == used' = [used EXCEPT ![bound] = @ + 1]

(***************************************************************************)
(* ConversationRepository                                                  *)
(***************************************************************************)

Open(r) == turn[r].status = "running"
Closed(r) == turn[r].status \in TerminalStatus
Live(r) == row[r].status \in {"running", "waiting_confirmation"}

\* The self-heal of start_turn: nobody holds the conversation, or the holder's
\* run is terminal or was never created.
MayTakeOver == \A r \in Runs : active = r => ~Live(r)

\* Mutant of TurnsTakenOver: the old holder's turn is left as it is.
TurnsNotTakenOver == turn

\* turn after the takeover: the old holder's turn, when still open, is failed.
TurnsTakenOver ==
  [r \in Runs |-> IF r = active /\ Open(r)
                  THEN [turn[r] EXCEPT !.status = "failed"] ELSE turn[r]]

\* Mutant of CanFinish: a closed turn is taken for idempotent whatever its status.
CanFinishAnyStatus(r, status, shown) == Open(r) \/ Closed(r)

\* finish_turn goes through: the turn is open, or it was closed with the same
\* status and with no other message.
CanFinish(r, status, shown) ==
  \/ Open(r)
  \/ turn[r].status = status /\ turn[r].shown \in {"nothing", shown}

\* Mutant of FinishTurn: finish_turn without its completed_at check.
FinishTurnAgain(r, status, shown) ==
  turn' = IF Open(r) \/ Closed(r)
          THEN [turn EXCEPT ![r] = [status |-> status, shown |-> shown]]
          ELSE turn

\* The first close decides; later ones change nothing.
FinishTurn(r, status, shown) ==
  turn' = IF Open(r)
          THEN [turn EXCEPT ![r] = [status |-> status, shown |-> shown]]
          ELSE turn

(***************************************************************************)
(* POST /run and /run/stream                                               *)
(***************************************************************************)

\* start_turn in one transaction; a refused request changes nothing.
StartTurn(t, r) ==
  /\ At(t, "idle")
  /\ turn[r].status = "none"
  /\ MayTakeOver
  /\ exists' = TRUE
  /\ active' = r
  /\ turn' = [TurnsTakenOver EXCEPT ![r].status = "running"]
  /\ Accept(t, r, "create", AbsentRow, NoLedger, TRUE)
  /\ UNCHANGED <<row, ledger, used>>

\* controller.start: run_store.create, a transaction of its own.
CreateRun(t) ==
  LET r == task[t].run
      s == [AbsentRow EXCEPT !.status = "running"] IN
  /\ At(t, "create")
  /\ row' = [row EXCEPT ![r] = s]
  /\ Continue(t, "loop", s)
  /\ UNCHANGED <<exists, active, turn, ledger, used>>

(***************************************************************************)
(* The loop: it works up to a validated action, then asks or closes.       *)
(***************************************************************************)

\* A save of the run that is only taken when nobody else has moved the row.
SaveRow(t, pc, next) ==
  LET r == task[t].run IN
  IF CanSave(row[r], next)
  THEN row' = [row EXCEPT ![r] = next] /\ Continue(t, pc, next)
  ELSE Raise(t) /\ UNCHANGED row

\* The iterations up to an action, cut down to their last save.
Work(t) ==
  LET s == task[t].state IN
  /\ At(t, "loop")
  /\ s.phase \in {"start_run", "restore_run"}
  /\ SaveRow(t, "loop", [s EXCEPT !.phase = "validate_action",
                                  !.version = @ + 1])
  /\ UNCHANGED <<exists, active, turn, ledger, used>>

\* _pause_for_confirmation: the request ends, the run waits and keeps the
\* conversation.
Pause(t) ==
  LET r == task[t].run
      asking == [task[t].state EXCEPT !.pending = used.pauses + 1] IN
  /\ At(t, "loop")
  /\ used.pauses < MaxPauses
  /\ CanTransition(asking, "waiting_confirmation", "wait_confirmation", NoIntent)
  /\ LET next == Transition(asking, "waiting_confirmation",
                            "wait_confirmation", NoIntent) IN
     IF CanSave(row[r], next)
     THEN row' = [row EXCEPT ![r] = next] /\ Quit(t)
     ELSE Raise(t) /\ UNCHANGED row
  /\ Use("pauses")
  /\ UNCHANGED <<exists, active, turn, ledger>>

\* _finalize: running/finalization is saved with the intended outcome.
SaveIntent(t, outcome) ==
  LET s == task[t].state IN
  /\ At(t, "loop")
  /\ CanTransition(s, "running", "finalization", outcome)
  /\ SaveRow(t, "prepare", Transition(s, "running", "finalization", outcome))
  /\ UNCHANGED <<exists, active, turn, ledger, used>>

\* Something failed before _drive: the handler reloads the row
\* (_prepare_interruption_state) ...
Reload(t) ==
  /\ task[t].pc \in {"loop", "prepare"}
  /\ used.faults < MaxFaults
  /\ Continue(t, "close", row[task[t].run])
  /\ Use("faults")
  /\ UNCHANGED db

\* ... and closes the run again, as failed.  (A waiting row is woken up in memory
\* first: the save, two versions ahead, is refused.)
CloseAgain(t) ==
  LET s == task[t].state IN
  /\ At(t, "close")
  /\ IF /\ s.status = "running"
        /\ CanTransition(s, "running", "finalization", "failed")
     THEN SaveRow(t, "prepare", Transition(s, "running", "finalization", "failed"))
     ELSE Raise(t) /\ UNCHANGED row
  /\ UNCHANGED <<exists, active, turn, ledger, used>>

\* finalize up to _drive: the row is loaded and the outcome locked
\* (Finalization separates the two transactions).
Prepare(t) ==
  LET r == task[t].run
      outcome == task[t].state.intent IN
  /\ At(t, "prepare")
  /\ IF \/ row[r].status = "running" /\ row[r].intent = outcome
        \/ row[r].status = outcome
     THEN CASE ledger[r].stage = NoLedger ->
                 /\ ledger' = [ledger EXCEPT ![r] = [stage |-> Prepared,
                                                     status |-> outcome]]
                 /\ task' = [task EXCEPT ![t].pc = "work", ![t].state = row[r],
                                         ![t].stage = Prepared]
            [] ledger[r].stage # NoLedger /\ ledger[r].status = outcome ->
                 /\ task' = [task EXCEPT ![t].pc = "work", ![t].state = row[r],
                                         ![t].stage = ledger[r].stage]
                 /\ UNCHANGED ledger
            [] OTHER -> Raise(t) /\ UNCHANGED ledger
     ELSE Raise(t) /\ UNCHANGED ledger
  /\ UNCHANGED <<exists, active, turn, row, used>>

(***************************************************************************)
(* _drive, for the loop that closes its run and for POST /run/reconcile.   *)
(***************************************************************************)

\* reconcile starts at the ledger's stage, with the row as it is now.
Reconcile(t, r) ==
  /\ At(t, "idle")
  /\ ledger[r].stage \notin {NoLedger, Completed}
  /\ Accept(t, r, "work", row[r], ledger[r].stage, FALSE)
  /\ UNCHANGED <<db, used>>

Working(t, stage) == At(t, "work") /\ task[t].stage = stage

\* Mutant of SaveHistory: the history takes the row's terminal_intent.
SaveHistoryByIntent(t) ==
  LET r == task[t].run
      outcome == task[t].state.intent IN
  /\ Working(t, Prepared)
  /\ IF CanFinish(r, outcome, "answer")
     THEN FinishTurn(r, outcome, "answer") /\ Goto(t, "advance")
     ELSE Raise(t) /\ UNCHANGED turn
  /\ UNCHANGED <<exists, active, row, ledger, used>>

\* _save_history, with finish_turn: the locked outcome and answer.
SaveHistory(t) ==
  LET r == task[t].run
      outcome == ledger[r].status IN
  /\ Working(t, Prepared)
  /\ IF CanFinish(r, outcome, "answer")
     THEN FinishTurn(r, outcome, "answer") /\ Goto(t, "advance")
     ELSE Raise(t) /\ UNCHANGED turn
  /\ UNCHANGED <<exists, active, row, ledger, used>>

\* The terminal checkpoint, from the state loaded before _drive.
SaveCheckpoint(t) ==
  LET r == task[t].run
      s == task[t].state
      outcome == ledger[r].status IN
  /\ Working(t, HistorySaved)
  /\ IF CanTransition(s, outcome, "finalization", outcome)
     THEN SaveRow(t, "advance", Transition(s, outcome, "finalization", outcome))
     ELSE Raise(t) /\ UNCHANGED row
  /\ UNCHANGED <<exists, active, turn, ledger, used>>

\* Mutant of MayRelease: whoever holds the conversation loses it.
MayReleaseAny(r) == exists

\* Mutant of MayRelease: releasing what is released already is an error.
MayReleaseHeld(r) == exists /\ active = r

\* release_active_run: only by the holder, or when nobody holds it.
MayRelease(r) == exists /\ active \in {NoRun, r}

\* The conversation is freed.
ReleaseActiveRun(t) ==
  LET r == task[t].run IN
  /\ Working(t, CheckpointSaved)
  /\ IF MayRelease(r)
     THEN active' = NoRun /\ Goto(t, "advance")
     ELSE Raise(t) /\ UNCHANGED active
  /\ UNCHANGED <<exists, turn, row, ledger, used>>

\* The two last stages touch nothing the runs share.
FinishUp(t) ==
  /\ Working(t, Released) \/ Working(t, FormationSubmitted)
  /\ Goto(t, "advance")
  /\ UNCHANGED <<db, used>>

\* ledger.advance: one stage, and only from the stage the driver knows.
Advance(t) ==
  LET r == task[t].run IN
  /\ At(t, "advance")
  /\ IF ledger[r].stage = task[t].stage
     THEN /\ ledger' = [ledger EXCEPT ![r].stage = @ + 1]
          /\ task' = [task EXCEPT ![t].pc = "work", ![t].stage = @ + 1]
     ELSE Raise(t) /\ UNCHANGED ledger
  /\ UNCHANGED <<exists, active, turn, row, used>>

\* Nothing is left to do.
Return(t) ==
  /\ Working(t, Completed)
  /\ Quit(t)
  /\ UNCHANGED <<db, used>>

(***************************************************************************)
(* POST /run/resume and /run/resume/stream                                 *)
(***************************************************************************)

\* resolve_confirmation takes the reply: the run goes on in this request, which
\* has a cleanup only when it streams.  (After a rejection the loop may only
\* close; that is one of the choices it has here.)
Resume(t, r, streams) ==
  /\ At(t, "idle")
  /\ row[r].status = "waiting_confirmation"
  /\ CanTransition(row[r], "running", "restore_run", NoIntent)
  /\ LET next == Transition(row[r], "running", "restore_run", NoIntent) IN
     /\ row' = [row EXCEPT ![r] = next]
     /\ Accept(t, r, "loop", next, NoLedger, streams)
  /\ UNCHANGED <<exists, active, turn, ledger, used>>

\* resolve_confirmation refuses it: an unknown confirmation_id, an answer other
\* than the one already taken.  The streaming route then runs the cleanup.
RefuseReply(t, r) ==
  /\ At(t, "idle")
  /\ row[r].status # "absent"
  /\ used.refused < MaxRefused
  /\ Use("refused")
  /\ Accept(t, r, "cleanup", AbsentRow, NoLedger, FALSE)
  /\ UNCHANGED db

(***************************************************************************)
(* _finish_unhandled_start_failure                                         *)
(***************************************************************************)

\* run_store.load: a run that waits or is over is left alone.
CleanupLoad(t) ==
  LET r == task[t].run IN
  /\ At(t, "cleanup")
  /\ CASE row[r].status = "absent"  -> Goto(t, "finish")
       [] row[r].status = "running" -> Continue(t, "check", row[r])
       [] OTHER                     -> Quit(t)
  /\ UNCHANGED <<db, used>>

\* The ledger is read: a locked run is left to reconcile.
CleanupCheck(t) ==
  /\ At(t, "check")
  /\ IF ledger[task[t].run].stage = NoLedger
     THEN Goto(t, "save_failure") ELSE Quit(t)
  /\ UNCHANGED <<db, used>>

\* Two transitions, one save; when it is refused the exception is swallowed.
CleanupSave(t) ==
  LET r == task[t].run
      s == task[t].state
      closing == Transition(s, "running", "finalization", "failed")
      failed == Transition(closing, "failed", "finalization", NoIntent) IN
  /\ At(t, "save_failure")
  /\ row' = IF /\ CanTransition(s, "running", "finalization", "failed")
               /\ CanTransition(closing, "failed", "finalization", NoIntent)
               /\ CanSave(row[r], failed)
            THEN [row EXCEPT ![r] = failed] ELSE row
  /\ Goto(t, "finish")
  /\ UNCHANGED <<exists, active, turn, ledger, used>>

\* finish_turn(failed); its errors are swallowed too.
CleanupFinish(t) ==
  LET r == task[t].run IN
  /\ At(t, "finish")
  /\ FinishTurn(r, "failed", "start_failure")
  /\ Quit(t)
  /\ UNCHANGED <<exists, active, row, ledger, used>>

(***************************************************************************)
(* DELETE /conversations/{id}, and faults                                  *)
(***************************************************************************)

\* delete_conversation: the conversation and its turns go, its runs stay.
DeleteConversation ==
  /\ exists
  /\ used.deletes < MaxDeletes
  /\ exists' = FALSE
  /\ active' = NoRun
  /\ turn' = [r \in Runs |-> IF turn[r].status = "none" THEN turn[r]
                             ELSE [status |-> "deleted", shown |-> "nothing"]]
  /\ Use("deletes")
  /\ UNCHANGED <<row, ledger, task>>

\* A call of the request fails and the exception leaves the controller; in the
\* cleanup it is logged and the turn is finished all the same.
Fail(t) ==
  /\ ~At(t, "idle")
  /\ used.faults < MaxFaults
  /\ CASE task[t].pc \in {"cleanup", "check", "save_failure"} -> Goto(t, "finish")
       [] At(t, "finish")                                     -> Quit(t)
       [] OTHER                                               -> Raise(t)
  /\ Use("faults")
  /\ UNCHANGED db

\* The process dies with the request.
Crash(t) ==
  /\ ~At(t, "idle")
  /\ used.faults < MaxFaults
  /\ Quit(t)
  /\ Use("faults")
  /\ UNCHANGED db

(***************************************************************************)
(* The specification                                                       *)
(***************************************************************************)
Loop(t) ==
  \/ Work(t)
  \/ Pause(t)
  \/ \E outcome \in Outcomes : SaveIntent(t, outcome)
  \/ Reload(t)
  \/ CloseAgain(t)
  \/ Prepare(t)

Drive(t) ==
  \/ SaveHistory(t)
  \/ SaveCheckpoint(t)
  \/ ReleaseActiveRun(t)
  \/ FinishUp(t)
  \/ Advance(t)
  \/ Return(t)

Cleanup(t) ==
  \/ CleanupLoad(t)
  \/ CleanupCheck(t)
  \/ CleanupSave(t)
  \/ CleanupFinish(t)

Serve(t) == CreateRun(t) \/ Loop(t) \/ Drive(t) \/ Cleanup(t)

Next ==
  \/ \E t \in Tasks, r \in Runs :
       \/ StartTurn(t, r)
       \/ \E streams \in BOOLEAN : Resume(t, r, streams)
       \/ RefuseReply(t, r)
       \/ Reconcile(t, r)
  \/ \E t \in Tasks : Serve(t) \/ Fail(t) \/ Crash(t)
  \/ DeleteConversation

Spec == Init /\ [][Next]_vars

\* Every request that runs goes on to its end, and somebody keeps calling
\* reconcile for a run whose closing is not complete.
Fairness ==
  /\ \A t \in Tasks : WF_vars(Serve(t))
  /\ \A r \in Runs : WF_vars(\E t \in Tasks : Reconcile(t, r))

FairSpec == Spec /\ Fairness

(***************************************************************************)
(* Safety                                                                  *)
(***************************************************************************)

\* Only the run that holds the conversation has an open turn: whatever takes
\* the conversation from a run (release, takeover, deletion) has its turn
\* closed, then or before.
OpenTurnIsActive == \A r \in Runs : Open(r) => active = r

\* The history shows the locked outcome: an answer in it belongs to the ledger's
\* status, and a turn the ledger calls saved has that status, although the
\* cleanup and the takeover also write turns.
HistoryIsLocked ==
  \A r \in Runs :
    /\ turn[r].shown = "answer" => turn[r].status = ledger[r].status
    /\ ledger[r].stage >= HistorySaved =>
         turn[r].status \in {ledger[r].status, "deleted"}

\* As long as no reply was refused, ledger, row and turn, written in three
\* transactions, agree on what the ledger calls checkpointed.  (A refused reply
\* starts a cleanup that may overwrite the row: see LoopOwnsItsRow.)
CheckpointsAgree ==
  used.refused = 0 => \A r \in Runs :
    ledger[r].stage >= CheckpointSaved =>
      /\ row[r].status = ledger[r].status
      /\ turn[r].status \in {ledger[r].status, "deleted"}

\* A run whose ledger says released is over and does not hold the conversation.
ReleasedRunsAreOver ==
  \A r \in Runs :
    ledger[r].stage >= Released =>
      active # r /\ row[r].status \in TerminalStatus

\* What the user was shown stays: a closed turn is never written again, by a
\* late finish_turn, a cleanup or a takeover.
ClosedTurnIsFinal ==
  [][\A r \in Runs :
       Closed(r) => turn'[r] = turn[r] \/ turn'[r].status = "deleted"]_vars

\* A run that is running or waiting for the user loses its conversation only by
\* deletion: neither to another run's start nor to another run's release.
LiveRunKeepsConversation ==
  [][\A r \in Runs : active = r /\ Live(r) => active' = r \/ ~exists']_vars

(***************************************************************************)
(* Liveness                                                                *)
(***************************************************************************)

\* The closing of a run that is over completes, also when another run has taken
\* the conversation over between its checkpoint and its release.
OverRunCompletes ==
  \A r \in Runs :
    row[r].status \in TerminalStatus ~> ledger[r].stage = Completed

(***************************************************************************)
(* What the code and its documents say and the model refutes               *)
(***************************************************************************)

\* harness.py:430: the cleanup of a failed request releases the conversation.
\* At the least, once it has failed the turn and no request serves the run any
\* more, another run may take the conversation.
CleanupReleases ==
  \A r \in Runs :
    /\ turn[r].shown = "start_failure"
    /\ \A t \in Tasks : task[t].run # r
    => active # r \/ MayTakeOver

\* incremental_sdd.md:3092: a conflicting reply changes no state.  The turn of a
\* run that another request is executing is not closed by a cleanup.
RefusedReplyKeepsTurn ==
  \A t \in Tasks :
    At(t, "loop") => turn[task[t].run].shown # "start_failure"

\* harness_run_repository.py:105: versions only grow, a stale worker never
\* overwrites a newer row.  While a loop executes, the row is the one it last
\* wrote.
LoopOwnsItsRow ==
  \A t \in Tasks : At(t, "loop") => row[task[t].run] = task[t].state

\* asbuilt.md:412: no run starts in a conversation that an unfinished run holds;
\* two loops never execute in one conversation.
OneLiveRun ==
  \A t, u \in Tasks :
    At(t, "loop") /\ At(u, "loop") => task[t].run = task[u].run
=============================================================================
