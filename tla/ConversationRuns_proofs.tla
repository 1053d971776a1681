----------------------- MODULE ConversationRuns_proofs -----------------------
(***************************************************************************)
(* Proofs about ConversationRuns for any number of requests, runs, faults, *)
(* refused replies, questions and deletions.                               *)
(***************************************************************************)
EXTENDS ConversationRuns, TLAPS

(***************************************************************************)
(* The inductive invariant.                                                *)
(***************************************************************************)

\* A run's row is one the schema accepts, and it exists only for a run whose
\* turn was started.
RowInv(r) ==
  /\ row[r].status = "absent" => row[r] = AbsentRow
  /\ row[r].status # "absent" => ValidCombination(row[r])
  /\ turn[r].status = "none" => row[r].status = "absent"

\* What each stage of a run's ledger stands for.
LedgerInv(r) ==
  /\ ledger[r].stage = NoLedger => turn[r].shown # "answer"
  /\ ledger[r].stage # NoLedger =>
       ledger[r].status \in TerminalStatus /\ row[r].status # "absent"
  /\ ledger[r].stage >= HistorySaved =>
       turn[r].status \in {ledger[r].status, "deleted"}
  /\ ledger[r].stage >= CheckpointSaved => row[r].status \in TerminalStatus
  /\ ledger[r].stage >= Released => active # r

\* A run's turn.
TurnInv(r) ==
  /\ turn[r].status \in {"none", "running"} => turn[r].shown = "nothing"
  /\ turn[r].shown = "answer" => turn[r].status = ledger[r].status
  /\ turn[r].status = "running" => active = r
  /\ turn[r].status = "none" => active # r

\* What a request at work knows of its run's row: an old version, or this one.
KnowsRow(t) ==
  LET r == task[t].run IN
  /\ row[r].status # "absent"
  /\ task[t].state.version <= row[r].version
  /\ task[t].state.version = row[r].version => task[t].state = row[r]

\* A request that drives the ledger has done the work of its stage before it
\* advances.
DriverInv(t) ==
  LET r == task[t].run IN
  /\ task[t].stage \in Prepared..ledger[r].stage
  /\ At(t, "advance") =>
       /\ task[t].stage # Completed
       /\ task[t].stage = Prepared =>
            turn[r].status \in {ledger[r].status, "deleted"}
       /\ task[t].stage = HistorySaved => row[r].status \in TerminalStatus
       /\ task[t].stage = CheckpointSaved => active # r

\* A request at each point of its way.
TaskInv(t) ==
  LET r == task[t].run IN
  /\ At(t, "idle") => task[t] = NoTask
  /\ ~At(t, "idle") => r \in Runs /\ turn[r].status # "none"
  /\ At(t, "create") =>
       /\ row[r] = AbsentRow
       /\ \A u \in Tasks \ {t} : task[u].run # r
  /\ task[t].pc \in {"loop", "close", "prepare", "work", "advance", "check",
                    "save_failure"} =>
       KnowsRow(t)
  /\ At(t, "prepare") => task[t].state.intent # NoIntent
  /\ task[t].pc \in {"work", "advance"} => DriverInv(t)
  /\ task[t].pc \in {"check", "save_failure"} => task[t].state.status = "running"

Inv ==
  /\ TypeOK
  /\ \A r \in Runs : RowInv(r) /\ LedgerInv(r) /\ TurnInv(r)
  /\ \A t \in Tasks : TaskInv(t)

(***************************************************************************)
(* What holds besides as long as no reply was refused.                     *)
(***************************************************************************)

\* The request of a start or of a reply, until it drives the ledger without a
\* cleanup to fall back on.
Owner(t) ==
  \/ task[t].cleans
  \/ task[t].pc \in {"create", "loop", "close", "prepare", "cleanup", "check",
                     "save_failure", "finish"}

OwnerInv(t) ==
  LET r == task[t].run IN
  /\ Owner(t) => /\ row[r].status # "waiting_confirmation"
                 /\ \A u \in Tasks \ {t} : Owner(u) => task[u].run # r
  /\ At(t, "save_failure") => ledger[r].stage = NoLedger
  /\ At(t, "advance") /\ task[t].stage = HistorySaved =>
       row[r].status = ledger[r].status

\* A run whose outcome is locked is closing, and its row has that outcome once
\* the ledger says so.
RowAgrees(r) ==
  /\ ledger[r].stage # NoLedger => row[r].phase = "finalization"
  /\ ledger[r].stage >= CheckpointSaved => row[r].status = ledger[r].status

Calm ==
  /\ \A t \in Tasks : OwnerInv(t)
  /\ \A r \in Runs : RowAgrees(r)

CalmInv == used.refused = 0 => Calm

(***************************************************************************)
(* Lemmas.                                                                 *)
(***************************************************************************)

Request == [pc : PC, run : Runs \cup {NoRun}, state : RowState,
            stage : NoLedger..Completed, cleans : BOOLEAN]

Bounds == [faults : Nat, refused : Nat, pauses : Nat, deletes : Nat]

\* What transition_harness_state returns when it does not raise.
LEMMA TransitionReturns ==
  ASSUME NEW s \in RowState, NEW status \in HarnessStatus, NEW phase \in LoopPhase,
         NEW intent \in Intent, CanTransition(s, status, phase, intent),
         NEW n, n = Transition(s, status, phase, intent)
  PROVE  /\ n \in RowState
         /\ IsTerminal(s) => n = s /\ status = s.status
         /\ ~IsTerminal(s) =>
              /\ n.status = status /\ n.phase = phase /\ n.version = s.version + 1
              /\ ValidCombination(n)
<1>1. CASE IsTerminal(s)
  BY <1>1 DEF CanTransition, Transition
<1>2. CASE ~IsTerminal(s)
  <2>1. /\ n = Candidate(s, status, phase, intent)
        /\ ValidCombination(Candidate(s, status, phase, intent))
    BY <1>2 DEF CanTransition, Transition
  <2>2. EffectiveIntent(s, intent) \in Intent
    BY DEF EffectiveIntent, RowState
  <2>3. /\ n \in RowState /\ n.status = status /\ n.phase = phase
        /\ n.version = s.version + 1
    <3> DEFINE i == EffectiveIntent(s, intent)
               p == IF s.status = "waiting_confirmation" /\ status = "running"
                    THEN NoPending ELSE s.pending
    <3>1. p \in Nat
      BY DEF NoPending, RowState
    <3>2. n = [s EXCEPT !.status = status, !.phase = phase, !.intent = i,
                        !.version = s.version + 1, !.pending = p]
      BY <2>1 DEF Candidate
    <3> HIDE DEF i, p
    <3>3. i \in Intent
      BY <2>2 DEF i
    <3>4. n = [status |-> status, phase |-> phase, intent |-> i, pending |-> p,
               version |-> s.version + 1]
      BY <3>2 DEF RowState
    <3>5. s.version + 1 \in Nat
      BY DEF RowState
    <3> QED  BY <3>1, <3>3, <3>4, <3>5 DEF RowState
  <2> QED  BY <1>2, <2>1, <2>3
<1> QED  BY <1>1, <1>2

\* A save that is taken leaves the row as it is, or was made from it.
LEMMA SavedFromRow ==
  ASSUME TypeOK, NEW t \in Tasks, KnowsRow(t), task[t].run \in Runs,
         NEW n \in RowState,
         n = task[t].state \/ n.version = task[t].state.version + 1,
         CanSave(row[task[t].run], n)
  PROVE  \/ n = row[task[t].run]
         \/ /\ task[t].state = row[task[t].run]
            /\ n.version = row[task[t].run].version + 1
<1> DEFINE r == task[t].run
           s == task[t].state
<1>1. row[r].version \in Nat /\ s.version \in Nat
  BY DEF TypeOK, RowState
<1>2. s.version <= row[r].version /\ (s.version = row[r].version => s = row[r])
  BY DEF KnowsRow
<1>3. n.version = row[r].version + 1 \/ n = row[r]
  BY DEF CanSave
<1> HIDE DEF r, s
<1>4. n = row[r] \/ (s = row[r] /\ n.version = row[r].version + 1)
  BY <1>1, <1>2, <1>3 DEF s
<1> QED  BY <1>4 DEF r, s

\* A step that moves one request and nothing the runs share.
LEMMA TaskMoves ==
  ASSUME Inv, NEW t \in Tasks, NEW x \in Request, UNCHANGED db, used' \in Bounds,
         task' = [task EXCEPT ![t] = x],
         x.run \in {task[t].run, NoRun} \/ row[x.run].status # "absent",
         TaskInv(t)'
  PROVE  Inv'
<1>1. TypeOK'
  BY DEF Inv, TypeOK, Request, Bounds, db
<1>2. task'[t] = x /\ \A u \in Tasks \ {t} : task'[u] = task[u]
  BY DEF Inv, TypeOK
<1>3. \A r \in Runs : RowInv(r)' /\ LedgerInv(r)' /\ TurnInv(r)'
  BY DEF Inv, RowInv, LedgerInv, TurnInv, db
<1>4. ASSUME NEW u \in Tasks \ {t} PROVE TaskInv(u)'
  <2>1. TaskInv(u) /\ task'[u] = task[u] /\ UNCHANGED db
    BY <1>2, <1>4 DEF Inv
  <2>2. At(u, "create") => x.run # task[u].run
    BY <2>1, RunsAssumption DEF TaskInv, At, AbsentRow
  <2> QED  BY <1>2, <2>1, <2>2 DEF TaskInv, KnowsRow, DriverInv, At, db
<1> QED  BY <1>1, <1>3, <1>4 DEF Inv

\* A request that ends.
LEMMA QuitKeeps ==
  ASSUME Inv, NEW t \in Tasks, Quit(t), UNCHANGED db, used' \in Bounds
  PROVE  Inv'
<1>1. NoTask \in Request
  BY DEF NoTask, Request, PC, AbsentRow, RowState, HarnessStatus, LoopPhase, Intent,
         NoIntent, NoPending, NoLedger, Completed
<1>2. task'[t] = NoTask
  BY DEF Quit, Inv, TypeOK
<1>3. TaskInv(t)'
  BY <1>2 DEF TaskInv, At, NoTask
<1> QED  BY <1>1, <1>3, TaskMoves DEF Quit, NoTask

\* Leaving for a point of the way where nothing is known of the run.
LEMMA GotoKeeps ==
  ASSUME Inv, NEW t \in Tasks, NEW pc \in {"cleanup", "finish"}, Goto(t, pc),
         ~At(t, "idle"), UNCHANGED db, used' \in Bounds
  PROVE  Inv'
<1> DEFINE x == [task[t] EXCEPT !.pc = pc]
<1>1. x \in Request /\ x.run = task[t].run /\ x.pc = pc
  BY DEF Inv, TypeOK, Request, PC
<1>2. task' = [task EXCEPT ![t] = x]
  BY DEF Goto
<1>3. TaskInv(t)
  BY DEF Inv
<1>4. TaskInv(t)'
  <2>1. task'[t] = x
    BY <1>2 DEF Inv, TypeOK
  <2> QED  BY <1>1, <1>3, <2>1 DEF TaskInv, At, db
<1> HIDE DEF x
<1> QED  BY <1>1, <1>2, <1>4, TaskMoves

\* An exception that leaves the controller.
LEMMA RaiseKeeps ==
  ASSUME Inv, NEW t \in Tasks, Raise(t), ~At(t, "idle"), UNCHANGED db, used' \in Bounds
  PROVE  Inv'
BY GotoKeeps, QuitKeeps DEF Raise

\* A step that writes the row of one run and moves one request.
LEMMA RowWritten ==
  ASSUME Inv, NEW t \in Tasks, NEW x \in Request, task' = [task EXCEPT ![t] = x],
         NEW r \in Runs, NEW n \in RowState, row' = [row EXCEPT ![r] = n],
         UNCHANGED <<exists, active, turn, ledger>>, used' \in Bounds,
         ValidCombination(n), n.status # "absent", turn[r].status # "none",
         IsTerminal(row[r]) => IsTerminal(n),
         \/ n = row[r]
         \/ n.version > row[r].version
         \/ row[r].status = "absent" /\ ledger[r].stage = NoLedger,
         \A u \in Tasks \ {t} : At(u, "create") => task[u].run # r,
         x.run \in {r, NoRun},
         TaskInv(t)'
  PROVE  Inv'
<1>1. TypeOK'
  BY DEF Inv, TypeOK, Request, Bounds
<1>2. task'[t] = x /\ \A u \in Tasks \ {t} : task'[u] = task[u]
  BY DEF Inv, TypeOK
<1>3. row'[r] = n /\ \A q \in Runs \ {r} : row'[q] = row[q]
  BY DEF Inv, TypeOK
<1>4. \A q \in Runs : RowInv(q)' /\ LedgerInv(q)' /\ TurnInv(q)'
  BY <1>3 DEF Inv, RowInv, LedgerInv, TurnInv, IsTerminal
<1>5. ASSUME NEW u \in Tasks \ {t} PROVE TaskInv(u)'
  <2>1. TaskInv(u) /\ task'[u] = task[u]
    BY <1>2, <1>5 DEF Inv
  <2>2. At(u, "create") => x.run # task[u].run
    BY <2>1, RunsAssumption DEF TaskInv, At
  <2>3. KnowsRow(u) /\ task[u].run \in Runs => KnowsRow(u)'
    <3>1. \A q \in Runs : row[q].version \in Nat /\ row'[q].version \in Nat
      BY <1>1 DEF Inv, TypeOK, RowState
    <3>2. task[u].state.version \in Nat
      BY DEF Inv, TypeOK, RowState
    <3> QED  BY <1>3, <2>1, <3>1, <3>2 DEF KnowsRow
  <2>4. DriverInv(u) /\ task[u].run \in Runs => DriverInv(u)'
    BY <1>3, <2>1 DEF DriverInv, At, IsTerminal
  <2>5. At(u, "create") => row'[task[u].run] = row[task[u].run]
    BY <1>3, <2>1 DEF TaskInv, At
  <2> QED  BY <1>2, <2>1, <2>2, <2>3, <2>4, <2>5 DEF TaskInv, At
<1> QED  BY <1>1, <1>4, <1>5 DEF Inv

\* A request that goes on with a row it has read or written, as a record.
LEMMA ContinueIs ==
  ASSUME TypeOK, NEW t \in Tasks, NEW pc \in PC, NEW s \in RowState, Continue(t, pc, s)
  PROVE  \E x \in Request :
           /\ task' = [task EXCEPT ![t] = x]
           /\ task'[t] = x /\ x.pc = pc /\ x.state = s
           /\ x.run = task[t].run /\ x.stage = task[t].stage /\ x.cleans = task[t].cleans
<1> DEFINE x == [task[t] EXCEPT !.pc = pc, !.state = s]
<1>1. task' = [task EXCEPT ![t] = x] /\ task'[t] = x
  BY DEF Continue, TypeOK
<1>2. x = [pc |-> pc, run |-> task[t].run, state |-> s, stage |-> task[t].stage,
           cleans |-> task[t].cleans]
  <2> DEFINE old == task[t]
  <2>1. old \in Request
    BY DEF TypeOK, Request
  <2>2. x = [old EXCEPT !.pc = pc, !.state = s]
    BY DEF old
  <2> HIDE DEF x, old
  <2>3. x = [pc |-> pc, run |-> old.run, state |-> s, stage |-> old.stage,
             cleans |-> old.cleans]
    BY <2>1, <2>2 DEF Request
  <2> QED  BY <2>3 DEF old
<1>3. x \in Request
  BY <1>2 DEF Request, TypeOK
<1> QED  BY <1>1, <1>2, <1>3

\* A request that goes on with what it knows, as a record.
LEMMA GotoIs ==
  ASSUME TypeOK, NEW t \in Tasks, NEW pc \in PC, Goto(t, pc)
  PROVE  \E x \in Request :
           /\ task' = [task EXCEPT ![t] = x]
           /\ task'[t] = x /\ x.pc = pc /\ x.state = task[t].state
           /\ x.run = task[t].run /\ x.stage = task[t].stage /\ x.cleans = task[t].cleans
<1>1. Continue(t, pc, task[t].state)
  BY DEF Goto, Continue, TypeOK
<1>2. task[t].state \in RowState
  BY DEF TypeOK
<1> QED  BY <1>1, <1>2, ContinueIs

\* A save by a loop or by a driver.
LEMMA SaveRowKeeps ==
  ASSUME Inv, NEW t \in Tasks, KnowsRow(t), ~At(t, "idle"), ~At(t, "create"),
         NEW pc \in {"loop", "prepare", "advance"},
         NEW n \in RowState, SaveRow(t, pc, n),
         n = task[t].state \/ n.version = task[t].state.version + 1,
         task[t].state = row[task[t].run] =>
           /\ ValidCombination(n) /\ n.status # "absent"
           /\ IsTerminal(row[task[t].run]) => IsTerminal(n),
         pc = "advance" => /\ At(t, "work") /\ task[t].stage = HistorySaved
                           /\ IsTerminal(n),
         pc = "prepare" => n.intent # NoIntent,
         UNCHANGED <<exists, active, turn, ledger>>, used' \in Bounds
  PROVE  Inv'
<1> DEFINE r == task[t].run
<1>1. /\ r \in Runs /\ turn[r].status # "none" /\ row[r].status # "absent"
      /\ ValidCombination(row[r]) /\ row[r] \in RowState
  BY DEF Inv, TaskInv, KnowsRow, RowInv, TypeOK
<1>2. CASE CanSave(row[r], n)
  <2>1. row' = [row EXCEPT ![r] = n] /\ Continue(t, pc, n)
    BY <1>2 DEF SaveRow
  <2>2. \/ n = row[r]
        \/ task[t].state = row[r] /\ n.version = row[r].version + 1
    BY <1>1, <1>2, SavedFromRow DEF Inv
  <2>3. /\ ValidCombination(n) /\ n.status # "absent"
        /\ IsTerminal(row[r]) => IsTerminal(n)
        /\ n = row[r] \/ n.version > row[r].version
    BY <1>1, <2>2 DEF RowState
  <2>4. pc \in PC
    BY DEF PC
  <2>5. PICK x \in Request :
           /\ task' = [task EXCEPT ![t] = x]
           /\ task'[t] = x /\ x.pc = pc /\ x.state = n
           /\ x.run = r /\ x.stage = task[t].stage
    BY <2>1, <2>4, ContinueIs DEF Inv
  <2>6. row'[r] = n
    BY <1>1, <2>1 DEF Inv, TypeOK
  <2>7. TaskInv(t)'
    <3>1. KnowsRow(t)'
      BY <2>3, <2>5, <2>6 DEF KnowsRow, RowState
    <3>2. pc = "advance" => DriverInv(t)'
      <4>1. pc = "advance" => DriverInv(t)
        BY DEF Inv, TaskInv, At
      <4> QED  BY <2>5, <2>6, <4>1 DEF DriverInv, At, IsTerminal, Completed, HistorySaved,
                                       Prepared, CheckpointSaved
    <3> QED  BY <1>1, <2>5, <3>1, <3>2 DEF TaskInv, At
  <2>8. \A u \in Tasks \ {t} : At(u, "create") => task[u].run # r
    BY <1>1 DEF Inv, TaskInv, AbsentRow
  <2> QED  BY <1>1, <2>1, <2>3, <2>5, <2>7, <2>8, RowWritten
<1>3. CASE ~CanSave(row[r], n)
  BY <1>3, RaiseKeeps DEF SaveRow, db
<1> QED  BY <1>2, <1>3

\* finish_turn by a request that then moves on.
LEMMA FinishKeeps ==
  ASSUME Inv, NEW t \in Tasks, NEW x \in Request, task' = [task EXCEPT ![t] = x],
         NEW r \in Runs, NEW status \in TerminalStatus, NEW shown \in Shown,
         FinishTurn(r, status, shown),
         shown = "answer" => status = ledger[r].status /\ ledger[r].stage # NoLedger,
         UNCHANGED <<exists, active, row, ledger>>, used' \in Bounds,
         x.run \in {task[t].run, NoRun}, TaskInv(t)'
  PROVE  /\ Inv'
         /\ turn'[r] = IF Open(r) THEN [status |-> status, shown |-> shown] ELSE turn[r]
<1>1. task'[t] = x /\ \A u \in Tasks \ {t} : task'[u] = task[u]
  BY DEF Inv, TypeOK
<1>2. /\ turn'[r] = IF Open(r) THEN [status |-> status, shown |-> shown] ELSE turn[r]
      /\ \A q \in Runs \ {r} : turn'[q] = turn[q]
  BY DEF Inv, TypeOK, FinishTurn
<1>3. status \in TurnStatus /\ status \notin {"none", "deleted", "running"}
  BY DEF TurnStatus, TerminalStatus
<1>4. TypeOK'
  <2>1. turn' \in [Runs -> [status : TurnStatus, shown : Shown]]
    BY <1>3 DEF Inv, TypeOK, FinishTurn
  <2> QED  BY <2>1 DEF Inv, TypeOK, Request, Bounds
<1>5. Open(r) => ledger[r].stage < HistorySaved
  BY DEF Inv, LedgerInv, TypeOK, TerminalStatus, Open, NoLedger, HistorySaved
<1>6. \A q \in Runs : RowInv(q)' /\ LedgerInv(q)' /\ TurnInv(q)'
  <2>1. ASSUME NEW q \in Runs \ {r} PROVE RowInv(q)' /\ LedgerInv(q)' /\ TurnInv(q)'
    BY <1>2, <2>1 DEF Inv, RowInv, LedgerInv, TurnInv
  <2>2. CASE ~Open(r)
    BY <1>2, <2>1, <2>2 DEF Inv, RowInv, LedgerInv, TurnInv
  <2>3. CASE Open(r)
    <3>1. turn'[r].status = status /\ turn'[r].shown = shown
      BY <1>2, <2>3
    <3>2. ledger[r].stage \in Nat
      BY DEF Inv, TypeOK, NoLedger, Completed
    <3>3. RowInv(r)' /\ LedgerInv(r)' /\ TurnInv(r)'
      BY <1>3, <1>5, <2>3, <3>1, <3>2
         DEF Inv, RowInv, LedgerInv, TurnInv, Open, NoLedger, HistorySaved,
             CheckpointSaved, Released
    <3> QED  BY <2>1, <3>3
  <2> QED  BY <2>2, <2>3
<1>7. ASSUME NEW u \in Tasks \ {t} PROVE TaskInv(u)'
  <2>1. TaskInv(u) /\ task'[u] = task[u]
    BY <1>1, <1>7 DEF Inv
  <2>2. At(u, "create") => x.run # task[u].run
    BY <2>1, RunsAssumption DEF TaskInv, At
  <2>3. DriverInv(u) /\ task[u].run \in Runs => DriverInv(u)'
    <3>1. ~Open(task[u].run) /\ task[u].run \in Runs => turn'[task[u].run] = turn[task[u].run]
      BY <1>2
    <3>2. task[u].run \in Runs =>
            "running" \notin {ledger[task[u].run].status, "deleted"}
      BY DEF Inv, TypeOK, Intent, TerminalStatus, NoIntent
    <3> QED  BY <2>1, <3>1, <3>2 DEF DriverInv, At, Open
  <2>4. \A q \in Runs : turn[q].status # "none" => turn'[q].status # "none"
    BY <1>2, <1>3
  <2> QED  BY <1>1, <2>1, <2>2, <2>3, <2>4 DEF TaskInv, KnowsRow, At
<1> QED  BY <1>2, <1>4, <1>6, <1>7 DEF Inv

(***************************************************************************)
(* One lemma per action.                                                   *)
(***************************************************************************)

\* A turn with another status, as a record.
LEMMA WithStatus ==
  ASSUME NEW old \in [status : TurnStatus, shown : Shown], NEW s, NEW new,
         new = [old EXCEPT !.status = s]
  PROVE  new = [status |-> s, shown |-> old.shown]
OBVIOUS

\* A start takes a fresh run id: no request, row or ledger is about it yet, and the
\* holder it takes over from has its turn closed.
LEMMA StartTurnKeeps ==
  ASSUME Inv, NEW t \in Tasks, NEW r \in Runs, StartTurn(t, r)
  PROVE  Inv'
<1> DEFINE x == [pc |-> "create", run |-> r, state |-> AbsentRow, stage |-> NoLedger,
                 cleans |-> TRUE]
<1>1. x \in Request
  BY DEF Request, PC, AbsentRow, RowState, HarnessStatus, LoopPhase, Intent, NoIntent,
         NoPending, NoLedger, Completed
<1>2. /\ At(t, "idle") /\ turn[r].status = "none" /\ active' = r
      /\ turn' = [TurnsTakenOver EXCEPT ![r].status = "running"]
      /\ task' = [task EXCEPT ![t] = x]
      /\ exists' = TRUE /\ UNCHANGED <<row, ledger, used>>
  BY DEF StartTurn, Accept
<1> HIDE DEF x
<1>3. task'[t] = x /\ \A u \in Tasks \ {t} : task'[u] = task[u]
  BY <1>2 DEF Inv, TypeOK
<1>4. /\ active # r /\ turn[r].shown = "nothing" /\ row[r] = AbsentRow
      /\ ledger[r].stage = NoLedger
  BY <1>2 DEF Inv, RowInv, LedgerInv, TurnInv, AbsentRow
<1>5. /\ turn'[r].status = "running" /\ turn'[r].shown = "nothing"
      /\ \A q \in Runs \ {r} :
           /\ turn'[q].shown = turn[q].shown
           /\ \/ turn'[q] = turn[q]
              \/ q = active /\ turn[q].status = "running" /\ turn'[q].status = "failed"
           /\ turn[q].status = "running" /\ q = active => turn'[q].status = "failed"
      /\ \A q \in Runs : turn'[q] \in [status : TurnStatus, shown : Shown]
  <2> DEFINE over(q) == IF q = active /\ Open(q)
                        THEN [turn[q] EXCEPT !.status = "failed"] ELSE turn[q]
  <2>1. \A q \in Runs : turn[q] \in [status : TurnStatus, shown : Shown]
    BY DEF Inv, TypeOK
  <2>2. /\ turn'[r] = [over(r) EXCEPT !.status = "running"]
        /\ \A q \in Runs \ {r} : turn'[q] = over(q)
    BY <1>2 DEF TurnsTakenOver
  <2>3. turn'[r] = [turn[r] EXCEPT !.status = "running"]
    BY <1>4, <2>2
  <2>4. turn'[r] = [status |-> "running", shown |-> turn[r].shown]
    BY <2>1, <2>3, WithStatus
  <2>5. ASSUME NEW q \in Runs \ {r}, q = active /\ Open(q)
        PROVE  turn'[q] = [status |-> "failed", shown |-> turn[q].shown]
    <3>1. turn'[q] = [turn[q] EXCEPT !.status = "failed"]
      BY <2>2, <2>5
    <3> QED  BY <2>1, <3>1, WithStatus
  <2>6. ASSUME NEW q \in Runs \ {r}, ~(q = active /\ Open(q))
        PROVE  turn'[q] = turn[q]
    BY <2>2, <2>6
  <2>7. {"running", "failed"} \subseteq TurnStatus /\ "nothing" \in Shown
    BY DEF TurnStatus, TerminalStatus, Shown
  <2>8. ASSUME NEW q \in Runs \ {r}
        PROVE  /\ turn'[q].shown = turn[q].shown
               /\ \/ turn'[q] = turn[q]
                  \/ q = active /\ turn[q].status = "running" /\ turn'[q].status = "failed"
               /\ turn[q].status = "running" /\ q = active => turn'[q].status = "failed"
               /\ turn'[q] \in [status : TurnStatus, shown : Shown]
    <3>1. CASE q = active /\ Open(q)
      <4>1. turn'[q] = [status |-> "failed", shown |-> turn[q].shown]
        BY <2>5, <3>1
      <4>2. turn[q].shown \in Shown /\ turn[q].status = "running"
        BY <2>1, <3>1 DEF Open
      <4> HIDE DEF over
      <4> QED  BY <2>7, <3>1, <4>1, <4>2
    <3>2. CASE ~(q = active /\ Open(q))
      BY <2>1, <2>6, <3>2 DEF Open
    <3> QED  BY <3>1, <3>2
  <2> QED  BY <1>4, <2>1, <2>4, <2>7, <2>8
<1>6. TypeOK'
  <2>1. turn' \in [Runs -> [status : TurnStatus, shown : Shown]]
    BY <1>2, <1>5 DEF TurnsTakenOver
  <2> QED  BY <1>1, <1>2, <2>1 DEF Inv, TypeOK, Request
<1>7. ASSUME NEW q \in Runs \ {r} PROVE RowInv(q)' /\ LedgerInv(q)' /\ TurnInv(q)'
  <2>1. RowInv(q) /\ LedgerInv(q) /\ TurnInv(q)
    BY DEF Inv
  <2>2. ledger[q].stage \in Nat /\ "running" \notin {ledger[q].status, "deleted"}
    BY DEF Inv, TypeOK, NoLedger, Completed, Intent, TerminalStatus, NoIntent
  <2> QED  BY <1>2, <1>5, <2>1, <2>2
           DEF RowInv, LedgerInv, TurnInv, Open, NoLedger, HistorySaved,
               CheckpointSaved, Released
<1>8. RowInv(r)' /\ LedgerInv(r)' /\ TurnInv(r)'
  BY <1>2, <1>4, <1>5 DEF Inv, RowInv, LedgerInv, TurnInv, NoLedger, HistorySaved,
                          CheckpointSaved, Released
<1>9. \A u \in Tasks : task[u].run # r
  <2> SUFFICES ASSUME NEW u \in Tasks PROVE task[u].run # r
    OBVIOUS
  <2>1. CASE At(u, "idle")
    BY <2>1, RunsAssumption DEF Inv, TaskInv, NoTask
  <2>2. CASE ~At(u, "idle")
    BY <1>2, <2>2 DEF Inv, TaskInv
  <2> QED  BY <2>1, <2>2
<1>10. ASSUME NEW u \in Tasks \ {t} PROVE TaskInv(u)'
  <2>1. TaskInv(u) /\ task'[u] = task[u] /\ task[u].run # r
    BY <1>3, <1>9, <1>10 DEF Inv
  <2>2. At(u, "create") => x.run # task[u].run
    BY <2>1 DEF x
  <2>3. DriverInv(u) /\ task[u].run \in Runs => DriverInv(u)'
    <3>1. ~Open(task[u].run) /\ task[u].run \in Runs => turn'[task[u].run] = turn[task[u].run]
      BY <1>5, <2>1 DEF Open
    <3>2. task[u].run \in Runs =>
            "running" \notin {ledger[task[u].run].status, "deleted"}
      BY DEF Inv, TypeOK, Intent, TerminalStatus, NoIntent
    <3> QED  BY <1>2, <2>1, <3>1, <3>2 DEF DriverInv, At, Open
  <2>4. \A q \in Runs : turn[q].status # "none" => turn'[q].status # "none"
    BY <1>5 DEF Open
  <2> QED  BY <1>2, <1>3, <2>1, <2>2, <2>3, <2>4 DEF TaskInv, KnowsRow, At
<1>11. TaskInv(t)'
  BY <1>2, <1>3, <1>4, <1>5, <1>9 DEF x, TaskInv, At
<1> QED  BY <1>6, <1>7, <1>8, <1>10, <1>11 DEF Inv

\* A record with some fields changed.
LEMMA WithPhase ==
  ASSUME NEW s \in RowState, NEW phase, NEW version, NEW n,
         n = [s EXCEPT !.phase = phase, !.version = version]
  PROVE  n = [status |-> s.status, phase |-> phase, intent |-> s.intent,
              pending |-> s.pending, version |-> version]
BY DEF RowState

\* A row with another question, as a record.
LEMMA WithPending ==
  ASSUME NEW s \in RowState, NEW pending, NEW n, n = [s EXCEPT !.pending = pending]
  PROVE  n = [status |-> s.status, phase |-> s.phase, intent |-> s.intent,
              pending |-> pending, version |-> s.version]
BY DEF RowState

\* The row a start creates, as a record.
LEMMA CreatedRow ==
  ASSUME NEW n, NEW old, old = AbsentRow, n = [old EXCEPT !.status = "running"]
  PROVE  n = [status |-> "running", phase |-> "start_run", intent |-> NoIntent,
              pending |-> NoPending, version |-> 0]
BY DEF AbsentRow

\* Only the request that started the run creates its row.
LEMMA CreateRunKeeps ==
  ASSUME Inv, NEW t \in Tasks, CreateRun(t)
  PROVE  Inv'
<1> DEFINE r == task[t].run
           s == [AbsentRow EXCEPT !.status = "running"]
<1>1. /\ At(t, "create") /\ row' = [row EXCEPT ![r] = s] /\ Continue(t, "loop", s)
      /\ UNCHANGED <<exists, active, turn, ledger, used>>
  BY DEF CreateRun
<1>2. /\ r \in Runs /\ turn[r].status # "none" /\ row[r] = AbsentRow
      /\ \A u \in Tasks \ {t} : task[u].run # r
  BY <1>1 DEF Inv, TaskInv, At
<1>3. s \in RowState /\ ValidCombination(s) /\ s.status # "absent"
  <2>1. s = [status |-> "running", phase |-> "start_run", intent |-> NoIntent,
             pending |-> NoPending, version |-> 0]
    BY CreatedRow
  <2> HIDE DEF s
  <2> QED
   BY <2>1 DEF RowState, HarnessStatus, LoopPhase, Intent, NoIntent, NoPending,
         ValidCombination, IsTerminal, TerminalStatus
<1>4. ledger[r].stage = NoLedger /\ ~IsTerminal(row[r]) /\ row[r].status = "absent"
  BY <1>2 DEF Inv, LedgerInv, AbsentRow, IsTerminal, TerminalStatus
<1> HIDE DEF s
<1>5. PICK x \in Request :
        /\ task' = [task EXCEPT ![t] = x]
        /\ task'[t] = x /\ x.pc = "loop" /\ x.state = s /\ x.run = r
  BY <1>1, <1>3, ContinueIs DEF Inv, PC
<1>6. row'[r] = s
  BY <1>1, <1>2 DEF Inv, TypeOK
<1>7. TaskInv(t)'
  <2>1. KnowsRow(t)'
    BY <1>3, <1>5, <1>6 DEF KnowsRow, RowState
  <2> QED  BY <1>1, <1>2, <1>5, <2>1 DEF TaskInv, At
<1>8. used' \in Bounds
  BY <1>1 DEF Inv, TypeOK, Bounds
<1> QED  BY <1>1, <1>2, <1>3, <1>4, <1>5, <1>7, <1>8, RowWritten

\* What a request at these points knows.
LEMMA AtWork ==
  ASSUME Inv, NEW t \in Tasks,
         task[t].pc \in {"loop", "close", "prepare", "work", "advance", "check",
                         "save_failure"}
  PROVE  /\ KnowsRow(t) /\ ~At(t, "idle") /\ ~At(t, "create")
         /\ task[t].run \in Runs /\ turn[task[t].run].status # "none"
         /\ row[task[t].run].status # "absent" /\ ValidCombination(row[task[t].run])
         /\ task[t].state \in RowState /\ row[task[t].run] \in RowState
         /\ task[t].pc \in {"work", "advance"} => DriverInv(t)
         /\ used \in Bounds
BY DEF Inv, TaskInv, KnowsRow, RowInv, TypeOK, At, Bounds

\* The iterations of a loop save the row they know, one version on.
LEMMA WorkKeeps ==
  ASSUME Inv, NEW t \in Tasks, Work(t)
  PROVE  Inv'
<1> DEFINE s == task[t].state
           r == task[t].run
           n == [s EXCEPT !.phase = "validate_action", !.version = @ + 1]
<1>1. /\ At(t, "loop") /\ s.phase \in {"start_run", "restore_run"}
      /\ SaveRow(t, "loop", n)
      /\ UNCHANGED <<exists, active, turn, ledger, used>>
  BY DEF Work
<1>2. /\ KnowsRow(t) /\ ~At(t, "idle") /\ ~At(t, "create")
      /\ row[r].status # "absent" /\ ValidCombination(row[r])
      /\ s \in RowState /\ used' \in Bounds
  BY <1>1, AtWork DEF At
<1>3. n = [status |-> s.status, phase |-> "validate_action", intent |-> s.intent,
           pending |-> s.pending, version |-> s.version + 1]
  BY <1>2, WithPhase
<1>4. n \in RowState /\ n.version = s.version + 1
  BY <1>2, <1>3 DEF RowState, LoopPhase
<1>5. s = row[r] => /\ ValidCombination(n) /\ n.status # "absent"
                    /\ IsTerminal(row[r]) => IsTerminal(n)
  BY <1>1, <1>2, <1>3 DEF ValidCombination, IsTerminal, TerminalStatus, RowState,
                          HarnessStatus
<1> HIDE DEF n
<1> QED  BY <1>1, <1>2, <1>4, <1>5, SaveRowKeeps

\* The intended outcome is saved in the phase that allows one.
LEMMA SaveIntentKeeps ==
  ASSUME Inv, NEW t \in Tasks, NEW outcome \in Outcomes, SaveIntent(t, outcome)
  PROVE  Inv'
<1> DEFINE s == task[t].state
           r == task[t].run
           n == Transition(s, "running", "finalization", outcome)
<1>1. /\ At(t, "loop") /\ CanTransition(s, "running", "finalization", outcome)
      /\ SaveRow(t, "prepare", n)
      /\ UNCHANGED <<exists, active, turn, ledger, used>>
  BY DEF SaveIntent
<1>2. /\ KnowsRow(t) /\ ~At(t, "idle") /\ ~At(t, "create")
      /\ s \in RowState /\ used' \in Bounds
  BY <1>1, AtWork DEF At
<1>3. outcome \in Intent /\ "running" \in HarnessStatus /\ "finalization" \in LoopPhase
  BY OutcomesAssumption DEF Intent, HarnessStatus, LoopPhase
<1>4. ~IsTerminal(s)
  BY <1>1 DEF CanTransition, IsTerminal, TerminalStatus
<1>5. /\ n \in RowState /\ n.status = "running" /\ n.phase = "finalization"
      /\ n.version = s.version + 1 /\ ValidCombination(n)
  BY <1>1, <1>2, <1>3, <1>4, TransitionReturns
<1>6. n.intent # NoIntent
  BY <1>5 DEF ValidCombination
<1> HIDE DEF n
<1> QED  BY <1>1, <1>2, <1>4, <1>5, <1>6, SaveRowKeeps

\* A question is saved with the row, and the request ends.
LEMMA PauseKeeps ==
  ASSUME Inv, NEW t \in Tasks, Pause(t)
  PROVE  Inv'
<1> DEFINE r == task[t].run
           s == task[t].state
           asking == [s EXCEPT !.pending = used.pauses + 1]
           n == Transition(asking, "waiting_confirmation", "wait_confirmation", NoIntent)
<1>1. /\ At(t, "loop") /\ UNCHANGED <<exists, active, turn, ledger>> /\ Use("pauses")
      /\ CanTransition(asking, "waiting_confirmation", "wait_confirmation", NoIntent)
      /\ IF CanSave(row[r], n)
         THEN row' = [row EXCEPT ![r] = n] /\ Quit(t)
         ELSE Raise(t) /\ UNCHANGED row
  BY DEF Pause
<1>2. /\ KnowsRow(t) /\ ~At(t, "idle") /\ r \in Runs /\ turn[r].status # "none"
      /\ row[r].status # "absent" /\ ValidCombination(row[r])
      /\ s \in RowState /\ used \in Bounds
  BY <1>1, AtWork DEF At
<1>3. used' \in Bounds
  BY <1>1, <1>2 DEF Use, Bounds
<1>4. /\ asking = [status |-> s.status, phase |-> s.phase, intent |-> s.intent,
                   pending |-> used.pauses + 1, version |-> s.version]
      /\ asking \in RowState
  <2>1. used.pauses + 1 \in Nat
    BY <1>2 DEF Bounds
  <2>2. asking = [status |-> s.status, phase |-> s.phase, intent |-> s.intent,
                  pending |-> used.pauses + 1, version |-> s.version]
    BY <1>2, WithPending
  <2> HIDE DEF asking
  <2> QED  BY <1>2, <2>1, <2>2 DEF RowState
<1> HIDE DEF asking
<1>5. ~IsTerminal(asking) /\ ~IsTerminal(s)
  BY <1>1, <1>4 DEF CanTransition, IsTerminal, TerminalStatus
<1>6. /\ n \in RowState /\ n.status = "waiting_confirmation" /\ ValidCombination(n)
      /\ n.version = s.version + 1
  <2>1. /\ "waiting_confirmation" \in HarnessStatus /\ "wait_confirmation" \in LoopPhase
        /\ NoIntent \in Intent
    BY DEF HarnessStatus, LoopPhase, Intent
  <2> QED  BY <1>1, <1>4, <1>5, <2>1, TransitionReturns
<1> HIDE DEF n
<1>7. CASE CanSave(row[r], n)
  <2>1. row' = [row EXCEPT ![r] = n] /\ task' = [task EXCEPT ![t] = NoTask]
    BY <1>1, <1>7 DEF Quit
  <2>2. /\ n = row[r] \/ (s = row[r] /\ n.version = row[r].version + 1)
    BY <1>2, <1>6, <1>7, SavedFromRow DEF Inv
  <2>3. ~IsTerminal(row[r])
    BY <1>5, <1>6, <2>2 DEF IsTerminal, TerminalStatus
  <2>4. n = row[r] \/ n.version > row[r].version
    BY <1>2, <2>2 DEF Inv, TypeOK, RowState
  <2>5. \A u \in Tasks \ {t} : At(u, "create") => task[u].run # r
    BY <1>2 DEF Inv, TaskInv, AbsentRow
  <2>6. task'[t] = NoTask
    BY <2>1 DEF Inv, TypeOK
  <2>7. TaskInv(t)'
    BY <2>6 DEF TaskInv, At, NoTask
  <2>8. NoTask \in Request /\ NoTask.run = NoRun
    BY DEF NoTask, Request, PC, AbsentRow, RowState, HarnessStatus, LoopPhase, Intent,
           NoIntent, NoPending, NoLedger, Completed
  <2> QED  BY <1>1, <1>2, <1>3, <1>6, <2>1, <2>3, <2>4, <2>5, <2>7, <2>8, RowWritten
<1>8. CASE ~CanSave(row[r], n)
  BY <1>1, <1>2, <1>3, <1>8, RaiseKeeps DEF db
<1> QED  BY <1>7, <1>8

\* The row is read again, as a cleanup does.
LEMMA ReloadKeeps ==
  ASSUME Inv, NEW t \in Tasks, Reload(t)
  PROVE  Inv'
<1> DEFINE r == task[t].run
<1>1. /\ task[t].pc \in {"loop", "prepare"} /\ UNCHANGED db /\ Use("faults")
      /\ Continue(t, "close", row[r])
  BY DEF Reload
<1>2. /\ ~At(t, "idle") /\ r \in Runs /\ turn[r].status # "none"
      /\ row[r].status # "absent" /\ row[r] \in RowState /\ used \in Bounds
  BY <1>1, AtWork
<1>3. used' \in Bounds
  BY <1>1, <1>2 DEF Use, Bounds
<1>4. PICK x \in Request :
        /\ task' = [task EXCEPT ![t] = x]
        /\ task'[t] = x /\ x.pc = "close" /\ x.state = row[r] /\ x.run = r
  BY <1>1, <1>2, ContinueIs DEF Inv, PC
<1>5. TaskInv(t)'
  <2>1. KnowsRow(t)'
    BY <1>1, <1>2, <1>4 DEF KnowsRow, RowState, db
  <2> QED  BY <1>1, <1>2, <1>4, <2>1 DEF TaskInv, At, db
<1> QED  BY <1>1, <1>2, <1>3, <1>4, <1>5, TaskMoves

\* The second close saves the row it has read.
LEMMA CloseAgainKeeps ==
  ASSUME Inv, NEW t \in Tasks, CloseAgain(t)
  PROVE  Inv'
<1> DEFINE s == task[t].state
           n == Transition(s, "running", "finalization", "failed")
<1>1. /\ At(t, "close") /\ UNCHANGED <<exists, active, turn, ledger, used>>
      /\ IF s.status = "running" /\ CanTransition(s, "running", "finalization", "failed")
         THEN SaveRow(t, "prepare", n)
         ELSE Raise(t) /\ UNCHANGED row
  BY DEF CloseAgain
<1>2. /\ KnowsRow(t) /\ ~At(t, "idle") /\ ~At(t, "create")
      /\ s \in RowState /\ used' \in Bounds
  BY <1>1, AtWork DEF At
<1>3. CASE s.status = "running" /\ CanTransition(s, "running", "finalization", "failed")
  <2>1. "failed" \in Intent /\ "running" \in HarnessStatus /\ "finalization" \in LoopPhase
    BY DEF Intent, HarnessStatus, LoopPhase, TerminalStatus
  <2>2. ~IsTerminal(s)
    BY <1>3 DEF IsTerminal, TerminalStatus
  <2>3. /\ n \in RowState /\ n.status = "running" /\ n.phase = "finalization"
        /\ n.version = s.version + 1 /\ ValidCombination(n)
    BY <1>2, <1>3, <2>1, <2>2, TransitionReturns
  <2>4. n.intent # NoIntent
    BY <2>3 DEF ValidCombination
  <2>5. SaveRow(t, "prepare", n)
    BY <1>1, <1>3
  <2> HIDE DEF n
  <2> QED  BY <1>1, <1>2, <2>2, <2>3, <2>4, <2>5, SaveRowKeeps
<1>4. CASE ~(s.status = "running" /\ CanTransition(s, "running", "finalization", "failed"))
  BY <1>1, <1>2, <1>4, RaiseKeeps DEF db
<1> QED  BY <1>3, <1>4

\* A step that writes the ledger of the run of one request.
LEMMA LedgerMoves ==
  ASSUME Inv, NEW t \in Tasks, NEW x \in Request, task' = [task EXCEPT ![t] = x],
         NEW r \in Runs, x.run = r, NEW l \in [stage : NoLedger..Completed, status : Intent],
         ledger' = [ledger EXCEPT ![r] = l], UNCHANGED <<exists, active, turn, row>>,
         used' \in Bounds, row[r].status # "absent",
         l.stage >= ledger[r].stage, l.status \in TerminalStatus, l.stage # NoLedger,
         ledger[r].stage # NoLedger => l.status = ledger[r].status,
         l.stage >= HistorySaved => turn[r].status \in {l.status, "deleted"},
         l.stage >= CheckpointSaved => row[r].status \in TerminalStatus,
         l.stage >= Released => active # r,
         TaskInv(t)'
  PROVE  Inv'
<1>1. task'[t] = x /\ \A u \in Tasks \ {t} : task'[u] = task[u]
  BY DEF Inv, TypeOK
<1>2. ledger'[r] = l /\ \A q \in Runs \ {r} : ledger'[q] = ledger[q]
  BY DEF Inv, TypeOK
<1>3. TypeOK'
  BY DEF Inv, TypeOK, Request, Bounds
<1>4. \A q \in Runs : RowInv(q)' /\ LedgerInv(q)' /\ TurnInv(q)'
  BY <1>2 DEF Inv, RowInv, LedgerInv, TurnInv
<1>5. ASSUME NEW u \in Tasks \ {t} PROVE TaskInv(u)'
  <2>1. TaskInv(u) /\ task'[u] = task[u]
    BY <1>1, <1>5 DEF Inv
  <2>2. At(u, "create") => x.run # task[u].run
    BY <2>1 DEF TaskInv, At, AbsentRow
  <2>3. DriverInv(u) /\ task[u].run \in Runs => DriverInv(u)'
    <3>1. \A q \in Runs : ledger[q].stage \in Nat /\ ledger'[q].stage \in Nat
                          /\ ledger'[q].stage >= ledger[q].stage
      BY <1>2, <1>3 DEF Inv, TypeOK, NoLedger, Completed
    <3>2. task[u].stage \in Nat
      <4>1. task[u] \in Request
        BY DEF Inv, TypeOK, Request
      <4>2. task[u].stage \in NoLedger..Completed
        BY <4>1 DEF Request
      <4> QED  BY <4>2 DEF NoLedger, Completed
    <3>3. DriverInv(u) /\ task[u].run \in Runs =>
            ledger'[task[u].run].status = ledger[task[u].run].status
      BY <1>2, <3>1, <3>2 DEF DriverInv, NoLedger, Prepared
    <3> QED  BY <2>1, <3>1, <3>2, <3>3 DEF DriverInv, At, Prepared
  <2> QED  BY <1>1, <2>1, <2>2, <2>3 DEF TaskInv, KnowsRow, At
<1> QED  BY <1>3, <1>4, <1>5 DEF Inv

\* A request that goes on with the work of a stage.
WorksOn(t, s, g) ==
  task' = [task EXCEPT ![t].pc = "work", ![t].state = s, ![t].stage = g]

\* A request that works on a stage of the ledger, as a record.
LEMMA StageIs ==
  ASSUME TypeOK, NEW t \in Tasks, NEW s \in RowState, NEW g \in NoLedger..Completed,
         WorksOn(t, s, g)
  PROVE  \E x \in Request :
           /\ task' = [task EXCEPT ![t] = x]
           /\ task'[t] = x /\ x.pc = "work" /\ x.state = s /\ x.stage = g
           /\ x.run = task[t].run /\ x.cleans = task[t].cleans
<1> DEFINE old == task[t]
           x == [old EXCEPT !.pc = "work", !.state = s, !.stage = g]
<1>1. task' = [task EXCEPT ![t] = x] /\ task'[t] = x
  BY DEF TypeOK, WorksOn
<1>2. old \in Request /\ "work" \in PC
  BY DEF TypeOK, Request, PC
<1>3. x = [old EXCEPT !.pc = "work", !.state = s, !.stage = g]
  OBVIOUS
<1> HIDE DEF x, old
<1>4. x = [pc |-> "work", run |-> old.run, state |-> s, stage |-> g,
           cleans |-> old.cleans]
  BY <1>2, <1>3 DEF Request
<1>5. x \in Request
  BY <1>2, <1>4 DEF Request
<1>6. x.run = task[t].run /\ x.cleans = task[t].cleans
  BY <1>4 DEF old
<1> QED  BY <1>1, <1>4, <1>5, <1>6

\* The outcome that is locked is the row's own, so it is terminal.
LEMMA PrepareKeeps ==
  ASSUME Inv, NEW t \in Tasks, Prepare(t)
  PROVE  Inv'
<1> DEFINE r == task[t].run
           outcome == task[t].state.intent
<1>1. At(t, "prepare") /\ UNCHANGED <<exists, active, turn, row, used>>
  BY DEF Prepare
<1>2. /\ ~At(t, "idle") /\ r \in Runs /\ turn[r].status # "none"
      /\ row[r].status # "absent" /\ row[r] \in RowState /\ used' \in Bounds
      /\ ValidCombination(row[r])
  BY <1>1, AtWork DEF At
<1>3. CASE Raise(t) /\ UNCHANGED ledger
  BY <1>1, <1>2, <1>3, RaiseKeeps DEF db
<1>4. ASSUME \/ row[r].status = "running" /\ row[r].intent = outcome
             \/ row[r].status = outcome,
             ledger[r].stage = NoLedger,
             ledger' = [ledger EXCEPT ![r] = [stage |-> Prepared, status |-> outcome]],
             task' = [task EXCEPT ![t].pc = "work", ![t].state = row[r],
                                  ![t].stage = Prepared]
      PROVE  Inv'
  <2> DEFINE l == [stage |-> Prepared, status |-> outcome]
  <2>1. PICK x \in Request :
          /\ task' = [task EXCEPT ![t] = x]
          /\ task'[t] = x /\ x.pc = "work" /\ x.state = row[r] /\ x.stage = Prepared
          /\ x.run = r
    <3>1. TypeOK /\ row[r] \in RowState /\ Prepared \in NoLedger..Completed
      BY <1>2 DEF Inv, Prepared, NoLedger, Completed
    <3>2. WorksOn(t, row[r], Prepared)
      BY <1>4 DEF WorksOn
    <3> QED  BY <3>1, <3>2, StageIs
  <2>2. ledger'[r] = l
    BY <1>2, <1>4 DEF Inv, TypeOK
  <2>3. l \in [stage : NoLedger..Completed, status : Intent]
    BY DEF Inv, TypeOK, RowState, Prepared, NoLedger, Completed
  <2>4. TaskInv(t)'
    <3>1. KnowsRow(t)'
      BY <1>1, <1>2, <2>1 DEF KnowsRow, RowState
    <3>2. DriverInv(t)'
      BY <2>1, <2>2 DEF DriverInv, At, Prepared
    <3> QED  BY <1>1, <1>2, <2>1, <3>1, <3>2 DEF TaskInv, At
  <2>5. outcome \in TerminalStatus
    <3>1. outcome \in Intent
      BY DEF Inv, TypeOK, RowState
    <3>2. outcome # NoIntent
      BY <1>1 DEF Inv, TaskInv
    <3> QED  BY <3>1, <3>2 DEF Intent
  <2> HIDE DEF l
  <2>6. l.stage = 1 /\ l.status = outcome /\ ledger' = [ledger EXCEPT ![r] = l]
    BY <1>4 DEF l, Prepared
  <2>7. /\ l.stage >= ledger[r].stage /\ l.status \in TerminalStatus
        /\ l.stage # NoLedger /\ ~(l.stage >= HistorySaved)
        /\ ~(l.stage >= CheckpointSaved) /\ ~(l.stage >= Released)
    BY <1>4, <2>5, <2>6 DEF NoLedger, HistorySaved, CheckpointSaved, Released
  <2> QED  BY <1>1, <1>2, <1>4, <2>1, <2>3, <2>4, <2>6, <2>7, LedgerMoves, ZenonT(60)
<1>5. ASSUME ledger[r].stage # NoLedger, UNCHANGED ledger,
             task' = [task EXCEPT ![t].pc = "work", ![t].state = row[r],
                                  ![t].stage = ledger[r].stage]
      PROVE  Inv'
  <2>1. ledger[r].stage \in NoLedger..Completed
    BY <1>2 DEF Inv, TypeOK
  <2>2. PICK x \in Request :
          /\ task' = [task EXCEPT ![t] = x]
          /\ task'[t] = x /\ x.pc = "work" /\ x.state = row[r]
          /\ x.stage = ledger[r].stage /\ x.run = r
    <3>1. TypeOK /\ row[r] \in RowState
      BY <1>2 DEF Inv
    <3>2. WorksOn(t, row[r], ledger[r].stage)
      BY <1>5 DEF WorksOn
    <3> QED  BY <2>1, <3>1, <3>2, StageIs
  <2>3. TaskInv(t)'
    <3>1. KnowsRow(t)'
      BY <1>1, <1>2, <2>2 DEF KnowsRow, RowState
    <3>2. DriverInv(t)'
      BY <1>5, <2>1, <2>2 DEF DriverInv, At, Prepared, NoLedger, Completed
    <3> QED  BY <1>1, <1>2, <2>2, <3>1, <3>2 DEF TaskInv, At
  <2> QED  BY <1>1, <1>2, <1>5, <2>2, <2>3, TaskMoves DEF db
<1> QED
  <2>1. CASE ~(\/ row[r].status = "running" /\ row[r].intent = outcome
               \/ row[r].status = outcome)
    BY <1>3, <2>1 DEF Prepare
  <2>2. CASE \/ row[r].status = "running" /\ row[r].intent = outcome
             \/ row[r].status = outcome
    <3>1. CASE ledger[r].stage = NoLedger
      BY <1>4, <2>2, <3>1 DEF Prepare
    <3>2. CASE ledger[r].stage # NoLedger
      BY <1>3, <1>5, <2>2, <3>2 DEF Prepare
    <3> QED  BY <3>1, <3>2
  <2> QED  BY <2>1, <2>2

\* reconcile starts with the row and the stage as they are.
LEMMA ReconcileKeeps ==
  ASSUME Inv, NEW t \in Tasks, NEW r \in Runs, Reconcile(t, r)
  PROVE  Inv'
<1> DEFINE x == [pc |-> "work", run |-> r, state |-> row[r], stage |-> ledger[r].stage,
                 cleans |-> FALSE]
<1>1. /\ ledger[r].stage # NoLedger /\ ledger[r].stage # Completed
      /\ task' = [task EXCEPT ![t] = x] /\ UNCHANGED <<db, used>>
  BY DEF Reconcile, Accept
<1>2. x \in Request
  BY DEF Inv, TypeOK, Request, PC
<1>3. /\ row[r].status # "absent" /\ turn[r].status # "none"
      /\ ledger[r].stage \in Prepared..Completed
  BY <1>1 DEF Inv, LedgerInv, RowInv, TypeOK, NoLedger, Prepared, Completed
<1>4. x.pc = "work" /\ x.run = r /\ x.state = row[r] /\ x.stage = ledger[r].stage
  OBVIOUS
<1> HIDE DEF x
<1>5. task'[t] = x
  BY <1>1 DEF Inv, TypeOK
<1>6. row[r].version \in Nat
  BY DEF Inv, TypeOK, RowState
<1>7. TaskInv(t)'
  BY <1>1, <1>3, <1>4, <1>5, <1>6 DEF TaskInv, KnowsRow, DriverInv, At, db, Prepared, Completed
<1>8. used' \in Bounds
  BY <1>1 DEF Inv, TypeOK, Bounds
<1> QED  BY <1>1, <1>2, <1>3, <1>4, <1>7, <1>8, TaskMoves

\* The history is saved with the locked outcome before the stage advances.
LEMMA SaveHistoryKeeps ==
  ASSUME Inv, NEW t \in Tasks, SaveHistory(t)
  PROVE  Inv'
<1> DEFINE r == task[t].run
           outcome == ledger[r].status
<1>1. /\ At(t, "work") /\ task[t].stage = Prepared
      /\ UNCHANGED <<exists, active, row, ledger, used>>
      /\ IF CanFinish(r, outcome, "answer")
         THEN FinishTurn(r, outcome, "answer") /\ Goto(t, "advance")
         ELSE Raise(t) /\ UNCHANGED turn
  BY DEF SaveHistory, Working
<1>2. /\ ~At(t, "idle") /\ r \in Runs /\ turn[r].status # "none" /\ used' \in Bounds
      /\ DriverInv(t) /\ KnowsRow(t)
  BY <1>1, AtWork DEF At
<1>3. CASE CanFinish(r, outcome, "answer")
  <2>1. FinishTurn(r, outcome, "answer") /\ Goto(t, "advance")
    BY <1>1, <1>3
  <2>2. PICK x \in Request :
          /\ task' = [task EXCEPT ![t] = x]
          /\ task'[t] = x /\ x.pc = "advance" /\ x.state = task[t].state
          /\ x.run = r /\ x.stage = task[t].stage
    BY <2>1, GotoIs DEF Inv, PC
  <2>3. /\ ledger[r].stage # NoLedger /\ outcome \in TerminalStatus
        /\ outcome # "none" /\ "answer" \in Shown
    <3>1. ledger[r].stage # NoLedger
      BY <1>2 DEF DriverInv, Inv, TypeOK, NoLedger, Prepared
    <3> QED  BY <1>2, <3>1 DEF Inv, LedgerInv, TerminalStatus, Shown
  <2>4. turn'[r].status = outcome
    <3>1. CASE Open(r)
      <4>1. turn'[r] = [status |-> outcome, shown |-> "answer"]
        BY <1>2, <2>1, <3>1 DEF FinishTurn, Inv, TypeOK
      <4> QED  BY <4>1
    <3>2. CASE ~Open(r)
      BY <1>3, <2>1, <3>2 DEF CanFinish, FinishTurn
    <3> QED  BY <3>1, <3>2
  <2>5. TaskInv(t)'
    <3>1. KnowsRow(t)'
      BY <1>1, <1>2, <2>2 DEF KnowsRow
    <3>2. DriverInv(t)'
      BY <1>1, <1>2, <2>2, <2>4
         DEF DriverInv, At, Prepared, HistorySaved, CheckpointSaved, Completed
    <3> QED  BY <1>2, <2>2, <2>3, <2>4, <3>1, <3>2 DEF TaskInv, At
  <2> QED  BY <1>1, <1>2, <2>1, <2>2, <2>3, <2>5, FinishKeeps
<1>4. CASE ~CanFinish(r, outcome, "answer")
  BY <1>1, <1>2, <1>4, RaiseKeeps DEF db
<1> QED  BY <1>3, <1>4

\* The checkpoint is terminal before the stage advances.
LEMMA SaveCheckpointKeeps ==
  ASSUME Inv, NEW t \in Tasks, SaveCheckpoint(t)
  PROVE  Inv'
<1> DEFINE r == task[t].run
           s == task[t].state
           outcome == ledger[r].status
           n == Transition(s, outcome, "finalization", outcome)
<1>1. /\ At(t, "work") /\ task[t].stage = HistorySaved
      /\ UNCHANGED <<exists, active, turn, ledger, used>>
      /\ IF CanTransition(s, outcome, "finalization", outcome)
         THEN SaveRow(t, "advance", n) ELSE Raise(t) /\ UNCHANGED row
  BY DEF SaveCheckpoint, Working
<1>2. /\ ~At(t, "idle") /\ ~At(t, "create") /\ r \in Runs /\ used' \in Bounds
      /\ DriverInv(t) /\ KnowsRow(t) /\ s \in RowState
      /\ row[r].status # "absent" /\ ValidCombination(row[r])
  BY <1>1, AtWork DEF At
<1>3. CASE CanTransition(s, outcome, "finalization", outcome)
  <2>1. SaveRow(t, "advance", n)
    BY <1>1, <1>3
  <2>2. outcome \in TerminalStatus
    <3>1. ledger[r].stage # NoLedger
      BY <1>2 DEF DriverInv, Inv, TypeOK, NoLedger, Prepared
    <3> QED  BY <1>2, <3>1 DEF Inv, LedgerInv
  <2>3. outcome \in HarnessStatus /\ outcome \in Intent /\ "finalization" \in LoopPhase
    BY <2>2 DEF HarnessStatus, Intent, LoopPhase
  <2>4. /\ n \in RowState /\ n.status = outcome
        /\ n = s \/ n.version = s.version + 1
        /\ s = row[r] => ValidCombination(n)
    BY <1>2, <1>3, <2>3, TransitionReturns
  <2>5. IsTerminal(n) /\ n.status # "absent"
    BY <2>2, <2>4 DEF IsTerminal, TerminalStatus
  <2> HIDE DEF n, outcome
  <2> QED  BY <1>1, <1>2, <2>1, <2>4, <2>5, SaveRowKeeps
<1>4. CASE ~CanTransition(s, outcome, "finalization", outcome)
  BY <1>1, <1>2, <1>4, RaiseKeeps DEF db
<1> QED  BY <1>3, <1>4

\* The conversation is not the run's any more before the stage advances; its turn was
\* closed two stages ago.
LEMMA ReleaseActiveRunKeeps ==
  ASSUME Inv, NEW t \in Tasks, ReleaseActiveRun(t)
  PROVE  Inv'
<1> DEFINE r == task[t].run
<1>1. /\ At(t, "work") /\ task[t].stage = CheckpointSaved
      /\ UNCHANGED <<exists, turn, row, ledger, used>>
      /\ IF MayRelease(r) THEN active' = NoRun /\ Goto(t, "advance")
         ELSE Raise(t) /\ UNCHANGED active
  BY DEF ReleaseActiveRun, Working
<1>2. /\ ~At(t, "idle") /\ r \in Runs /\ used' \in Bounds
      /\ turn[r].status # "none" /\ DriverInv(t) /\ KnowsRow(t)
  BY <1>1, AtWork DEF At
<1>3. CASE MayRelease(r)
  <2>1. active' = NoRun /\ Goto(t, "advance") /\ active \in {NoRun, r}
    BY <1>1, <1>3 DEF MayRelease
  <2>2. PICK x \in Request :
          /\ task' = [task EXCEPT ![t] = x]
          /\ task'[t] = x /\ x.pc = "advance" /\ x.state = task[t].state
          /\ x.run = r /\ x.stage = task[t].stage
    BY <2>1, GotoIs DEF Inv, PC
  <2>3. turn[r].status \in {ledger[r].status, "deleted"} /\ ledger[r].status \in TerminalStatus
    <3>1. ledger[r].stage \in Nat /\ ledger[r].stage >= CheckpointSaved
      BY <1>1, <1>2 DEF DriverInv, Inv, TypeOK, NoLedger, Completed, CheckpointSaved
    <3> QED  BY <1>2, <3>1 DEF Inv, LedgerInv, NoLedger, CheckpointSaved, HistorySaved
  <2>4. TypeOK'
    BY <1>1, <2>1, <2>2 DEF Inv, TypeOK, Request
  <2>5. ASSUME NEW q \in Runs PROVE RowInv(q)' /\ LedgerInv(q)' /\ TurnInv(q)'
    <3>1. active' # q
      BY <2>1, RunsAssumption
    <3>2. turn[q].status # "running"
      BY <2>1, <2>3, RunsAssumption DEF Inv, TurnInv, TerminalStatus
    <3> QED  BY <1>1, <3>1, <3>2 DEF Inv, RowInv, LedgerInv, TurnInv
  <2>6. ASSUME NEW u \in Tasks \ {t} PROVE TaskInv(u)'
    <3>1. TaskInv(u) /\ task'[u] = task[u]
      BY <2>2, <2>6 DEF Inv, TypeOK
    <3>2. At(u, "create") => x.run # task[u].run
      BY <1>2, <2>2, <3>1 DEF TaskInv, KnowsRow, AbsentRow
    <3> QED  BY <1>1, <2>1, <2>2, <3>1, <3>2, RunsAssumption
             DEF TaskInv, KnowsRow, DriverInv, At
  <2>7. TaskInv(t)'
    <3>1. KnowsRow(t)'
      BY <1>1, <1>2, <2>2 DEF KnowsRow
    <3>2. DriverInv(t)'
      BY <1>1, <1>2, <2>1, <2>2, RunsAssumption
         DEF DriverInv, At, Prepared, HistorySaved, CheckpointSaved, Completed
    <3> QED  BY <1>1, <1>2, <2>2, <3>1, <3>2 DEF TaskInv, At
  <2> QED  BY <2>4, <2>5, <2>6, <2>7 DEF Inv
<1>4. CASE ~MayRelease(r)
  BY <1>1, <1>2, <1>4, RaiseKeeps DEF db
<1> QED  BY <1>3, <1>4

\* The last two stages touch nothing that is shared.
LEMMA FinishUpKeeps ==
  ASSUME Inv, NEW t \in Tasks, FinishUp(t)
  PROVE  Inv'
<1>1. /\ At(t, "work") /\ task[t].stage \in {Released, FormationSubmitted}
      /\ Goto(t, "advance") /\ UNCHANGED <<db, used>>
  BY DEF FinishUp, Working
<1>2. /\ task[t].run \in Runs /\ used' \in Bounds /\ turn[task[t].run].status # "none"
      /\ DriverInv(t) /\ KnowsRow(t)
  BY <1>1, AtWork DEF At
<1>3. PICK x \in Request :
        /\ task' = [task EXCEPT ![t] = x]
        /\ task'[t] = x /\ x.pc = "advance" /\ x.state = task[t].state
        /\ x.run = task[t].run /\ x.stage = task[t].stage
  BY <1>1, GotoIs DEF Inv, PC
<1>4. TaskInv(t)'
  <2>1. KnowsRow(t)'
    BY <1>1, <1>2, <1>3 DEF KnowsRow, db
  <2>2. DriverInv(t)'
    BY <1>1, <1>2, <1>3
       DEF DriverInv, At, db, Prepared, HistorySaved, CheckpointSaved, Released,
           FormationSubmitted, Completed
  <2> QED  BY <1>1, <1>2, <1>3, <2>1, <2>2 DEF TaskInv, At, db
<1> QED  BY <1>1, <1>2, <1>3, <1>4, TaskMoves

\* A driver that is done ends.
LEMMA ReturnKeeps ==
  ASSUME Inv, NEW t \in Tasks, Return(t)
  PROVE  Inv'
<1>1. Quit(t) /\ UNCHANGED <<db, used>>
  BY DEF Return
<1>2. used' \in Bounds
  BY <1>1 DEF Inv, TypeOK, Bounds
<1> QED  BY <1>1, <1>2, QuitKeeps

\* The stage advances by one, and what the driver did makes the next stage true.
LEMMA AdvanceKeeps ==
  ASSUME Inv, NEW t \in Tasks, Advance(t)
  PROVE  Inv'
<1> DEFINE r == task[t].run
           g == task[t].stage
<1>1. /\ At(t, "advance") /\ UNCHANGED <<exists, active, turn, row, used>>
      /\ IF ledger[r].stage = g
         THEN /\ ledger' = [ledger EXCEPT ![r].stage = @ + 1]
              /\ task' = [task EXCEPT ![t].pc = "work", ![t].stage = @ + 1]
         ELSE Raise(t) /\ UNCHANGED ledger
  BY DEF Advance
<1>2. /\ ~At(t, "idle") /\ r \in Runs /\ used' \in Bounds /\ DriverInv(t) /\ KnowsRow(t)
      /\ turn[r].status # "none" /\ row[r].status # "absent" /\ task[t].state \in RowState
  BY <1>1, AtWork DEF At
<1>3. /\ g \in Prepared..FormationSubmitted /\ ledger[r].stage \in NoLedger..Completed
      /\ g = Prepared => turn[r].status \in {ledger[r].status, "deleted"}
      /\ g = HistorySaved => row[r].status \in TerminalStatus
      /\ g = CheckpointSaved => active # r
  BY <1>1, <1>2 DEF DriverInv, Inv, TypeOK, NoLedger, Prepared, FormationSubmitted, Completed
<1>4. CASE ledger[r].stage = g
  <2> DEFINE l == [stage |-> g + 1, status |-> ledger[r].status]
  <2>1. ledger' = [ledger EXCEPT ![r] = l]
    <3>1. ledger' = [ledger EXCEPT ![r].stage = g + 1]
      BY <1>1, <1>4
    <3>2. \A q \in Runs : ledger[q] \in [stage : NoLedger..Completed, status : Intent]
      BY DEF Inv, TypeOK
    <3>3. ASSUME NEW old \in [stage : NoLedger..Completed, status : Intent], NEW new,
                 new = [old EXCEPT !.stage = g + 1]
          PROVE  new = [stage |-> g + 1, status |-> old.status]
      BY <3>3
    <3>4. [ledger[r] EXCEPT !.stage = g + 1] = l
      BY <1>2, <3>2, <3>3
    <3> QED  BY <3>1, <3>4
  <2>2. /\ l \in [stage : NoLedger..Completed, status : Intent]
        /\ l.stage = g + 1 /\ l.status = ledger[r].status
    BY <1>2, <1>3 DEF Inv, TypeOK, NoLedger, Prepared, FormationSubmitted, Completed
  <2> HIDE DEF l
  <2>3. PICK x \in Request :
          /\ task' = [task EXCEPT ![t] = x]
          /\ task'[t] = x /\ x.pc = "work" /\ x.state = task[t].state
          /\ x.stage = g + 1 /\ x.run = r
    <3>1. WorksOn(t, task[t].state, g + 1)
      BY <1>1, <1>4 DEF WorksOn, Inv, TypeOK
    <3>2. g + 1 \in NoLedger..Completed /\ TypeOK
      BY <1>3 DEF Inv, NoLedger, Prepared, FormationSubmitted, Completed
    <3> QED  BY <1>2, <3>1, <3>2, StageIs
  <2>4. ledger'[r] = l
    BY <1>2, <2>1 DEF Inv, TypeOK
  <2>5. TaskInv(t)'
    <3>1. KnowsRow(t)'
      BY <1>1, <1>2, <2>3 DEF KnowsRow
    <3>2. DriverInv(t)'
      BY <1>3, <2>2, <2>3, <2>4 DEF DriverInv, At, Prepared, FormationSubmitted, Completed
    <3> QED  BY <1>1, <1>2, <2>3, <3>1, <3>2 DEF TaskInv, At
  <2>6. LedgerInv(r) /\ ledger[r].stage \in Nat /\ ledger[r].stage # NoLedger
    BY <1>2, <1>3, <1>4 DEF Inv, NoLedger, Prepared, FormationSubmitted, Completed
  <2>7. /\ l.stage >= ledger[r].stage /\ l.status \in TerminalStatus /\ l.stage # NoLedger
        /\ l.stage >= HistorySaved => turn[r].status \in {l.status, "deleted"}
        /\ l.stage >= CheckpointSaved => row[r].status \in TerminalStatus
        /\ l.stage >= Released => active # r
    BY <1>3, <1>4, <2>2, <2>6
       DEF LedgerInv, NoLedger, Prepared, HistorySaved, CheckpointSaved, Released,
           FormationSubmitted, Completed
  <2> QED  BY <1>1, <1>2, <2>1, <2>2, <2>3, <2>5, <2>7, LedgerMoves
<1>5. CASE ledger[r].stage # g
  BY <1>1, <1>2, <1>5, RaiseKeeps DEF db
<1> QED  BY <1>4, <1>5

\* A reply moves the row on by a version, so whoever knew it before knows an old one.
LEMMA ResumeKeeps ==
  ASSUME Inv, NEW t \in Tasks, NEW r \in Runs, NEW streams \in BOOLEAN,
         Resume(t, r, streams)
  PROVE  Inv'
<1> DEFINE n == Transition(row[r], "running", "restore_run", NoIntent)
           x == [pc |-> "loop", run |-> r, state |-> n, stage |-> NoLedger,
                 cleans |-> streams]
<1>1. /\ row[r].status = "waiting_confirmation"
      /\ CanTransition(row[r], "running", "restore_run", NoIntent)
      /\ row' = [row EXCEPT ![r] = n] /\ task' = [task EXCEPT ![t] = x]
      /\ UNCHANGED <<exists, active, turn, ledger, used>>
  BY DEF Resume, Accept
<1>2. ~IsTerminal(row[r]) /\ row[r] \in RowState
  BY <1>1 DEF IsTerminal, TerminalStatus, Inv, TypeOK
<1>3. /\ n \in RowState /\ n.status = "running" /\ n.version = row[r].version + 1
      /\ ValidCombination(n)
  <2>1. "running" \in HarnessStatus /\ "restore_run" \in LoopPhase /\ NoIntent \in Intent
    BY DEF HarnessStatus, LoopPhase, Intent
  <2> QED  BY <1>1, <1>2, <2>1, TransitionReturns
<1> HIDE DEF n
<1>4. /\ x \in Request /\ x.pc = "loop" /\ x.run = r /\ x.state = n
  BY <1>3 DEF Request, PC, NoLedger, Completed
<1> HIDE DEF x
<1>5. task'[t] = x /\ row'[r] = n /\ turn[r].status # "none" /\ n.version > row[r].version
  BY <1>1, <1>2, <1>3 DEF Inv, TypeOK, RowInv, RowState
<1>6. TaskInv(t)'
  <2>1. KnowsRow(t)'
    BY <1>3, <1>4, <1>5 DEF KnowsRow, RowState
  <2> QED  BY <1>1, <1>4, <1>5, <2>1 DEF TaskInv, At
<1>7. \A u \in Tasks \ {t} : At(u, "create") => task[u].run # r
  BY <1>1 DEF Inv, TaskInv, AbsentRow
<1>8. used' \in Bounds
  BY <1>1 DEF Inv, TypeOK, Bounds
<1> QED  BY <1>1, <1>2, <1>3, <1>4, <1>5, <1>6, <1>7, <1>8, RowWritten

\* A refused reply changes nothing but starts a cleanup.
LEMMA RefuseReplyKeeps ==
  ASSUME Inv, NEW t \in Tasks, NEW r \in Runs, RefuseReply(t, r)
  PROVE  Inv'
<1> DEFINE x == [pc |-> "cleanup", run |-> r, state |-> AbsentRow, stage |-> NoLedger,
                 cleans |-> FALSE]
<1>1. /\ row[r].status # "absent" /\ Use("refused") /\ task' = [task EXCEPT ![t] = x]
      /\ UNCHANGED db
  BY DEF RefuseReply, Accept
<1>2. x \in Request
  BY DEF Request, PC, AbsentRow, RowState, HarnessStatus, LoopPhase, Intent, NoIntent,
         NoPending, NoLedger, Completed
<1>3. x.pc = "cleanup" /\ x.run = r
  OBVIOUS
<1> HIDE DEF x
<1>4. task'[t] = x /\ used' \in Bounds /\ turn[r].status # "none"
  BY <1>1 DEF Inv, TypeOK, Use, Bounds, RowInv
<1>5. TaskInv(t)'
  BY <1>1, <1>3, <1>4 DEF TaskInv, At, db
<1> QED  BY <1>1, <1>2, <1>3, <1>4, <1>5, TaskMoves

\* The cleanup goes on only for a run it has read as running.
LEMMA CleanupLoadKeeps ==
  ASSUME Inv, NEW t \in Tasks, CleanupLoad(t)
  PROVE  Inv'
<1> DEFINE r == task[t].run
<1>1. At(t, "cleanup") /\ UNCHANGED <<db, used>>
  BY DEF CleanupLoad
<1>2. /\ ~At(t, "idle") /\ r \in Runs /\ turn[r].status # "none" /\ used' \in Bounds
      /\ row[r] \in RowState
  BY <1>1 DEF Inv, TaskInv, At, TypeOK, Bounds
<1>3. CASE row[r].status = "absent"
  BY <1>1, <1>2, <1>3, GotoKeeps DEF CleanupLoad
<1>4. CASE row[r].status = "running"
  <2>1. Continue(t, "check", row[r])
    BY <1>4 DEF CleanupLoad
  <2>2. PICK x \in Request :
          /\ task' = [task EXCEPT ![t] = x]
          /\ task'[t] = x /\ x.pc = "check" /\ x.state = row[r] /\ x.run = r
    BY <1>2, <2>1, ContinueIs DEF Inv, PC
  <2>3. TaskInv(t)'
    <3>1. KnowsRow(t)'
      BY <1>1, <1>2, <1>4, <2>2 DEF KnowsRow, RowState, db
    <3> QED  BY <1>1, <1>2, <1>4, <2>2, <3>1 DEF TaskInv, At, db
  <2> QED  BY <1>1, <1>2, <2>2, <2>3, TaskMoves
<1>5. CASE row[r].status \notin {"absent", "running"}
  BY <1>1, <1>2, <1>5, QuitKeeps DEF CleanupLoad
<1> QED  BY <1>3, <1>4, <1>5

\* The look at the ledger changes nothing.
LEMMA CleanupCheckKeeps ==
  ASSUME Inv, NEW t \in Tasks, CleanupCheck(t)
  PROVE  Inv'
<1>1. /\ At(t, "check") /\ UNCHANGED <<db, used>>
      /\ Goto(t, "save_failure") \/ Quit(t)
  BY DEF CleanupCheck
<1>2. /\ task[t].run \in Runs /\ turn[task[t].run].status # "none" /\ used' \in Bounds
      /\ KnowsRow(t) /\ task[t].state.status = "running"
  BY <1>1, AtWork DEF At, Inv, TaskInv
<1>3. CASE Goto(t, "save_failure")
  <2>1. PICK x \in Request :
          /\ task' = [task EXCEPT ![t] = x]
          /\ task'[t] = x /\ x.pc = "save_failure" /\ x.state = task[t].state
          /\ x.run = task[t].run
    BY <1>3, GotoIs DEF Inv, PC
  <2>2. TaskInv(t)'
    <3>1. KnowsRow(t)'
      BY <1>1, <1>2, <2>1 DEF KnowsRow, db
    <3> QED  BY <1>1, <1>2, <2>1, <3>1 DEF TaskInv, At, db
  <2> QED  BY <1>1, <1>2, <2>1, <2>2, TaskMoves
<1> QED  BY <1>1, <1>2, <1>3, QuitKeeps

\* The row the cleanup writes is failed, two versions on from the one it read.
LEMMA CleanupSaveKeeps ==
  ASSUME Inv, NEW t \in Tasks, CleanupSave(t)
  PROVE  Inv'
<1> DEFINE r == task[t].run
           s == task[t].state
           closing == Transition(s, "running", "finalization", "failed")
           failed == Transition(closing, "failed", "finalization", NoIntent)
<1>1. /\ At(t, "save_failure") /\ Goto(t, "finish")
      /\ UNCHANGED <<exists, active, turn, ledger, used>>
      /\ row' = IF /\ CanTransition(s, "running", "finalization", "failed")
                   /\ CanTransition(closing, "failed", "finalization", NoIntent)
                   /\ CanSave(row[r], failed)
                THEN [row EXCEPT ![r] = failed] ELSE row
  BY DEF CleanupSave
<1>2. /\ ~At(t, "idle") /\ r \in Runs /\ turn[r].status # "none" /\ used' \in Bounds
      /\ KnowsRow(t) /\ s \in RowState /\ row[r] \in RowState /\ row[r].status # "absent"
      /\ s.status = "running"
  BY <1>1, AtWork DEF At, Inv, TaskInv
<1>3. CASE UNCHANGED row
  BY <1>1, <1>2, <1>3, GotoKeeps DEF db
<1>4. ASSUME CanTransition(s, "running", "finalization", "failed"),
             CanTransition(closing, "failed", "finalization", NoIntent),
             CanSave(row[r], failed), row' = [row EXCEPT ![r] = failed]
      PROVE  Inv'
  <2>1. /\ {"running", "failed"} \subseteq HarnessStatus /\ "finalization" \in LoopPhase
        /\ {"failed", NoIntent} \subseteq Intent
    BY DEF HarnessStatus, TerminalStatus, LoopPhase, Intent
  <2>2. ~IsTerminal(s)
    BY <1>2 DEF IsTerminal, TerminalStatus
  <2>3. /\ closing \in RowState /\ closing.status = "running"
        /\ closing.version = s.version + 1
    BY <1>2, <1>4, <2>1, <2>2, TransitionReturns
  <2>4. ~IsTerminal(closing)
    BY <2>3 DEF IsTerminal, TerminalStatus
  <2> HIDE DEF closing
  <2>5. /\ failed \in RowState /\ failed.status = "failed" /\ ValidCombination(failed)
        /\ failed.version = s.version + 2
    <3>1. /\ failed \in RowState /\ failed.status = "failed" /\ ValidCombination(failed)
          /\ failed.version = closing.version + 1
      BY <1>4, <2>1, <2>3, <2>4, TransitionReturns
    <3> QED  BY <1>2, <2>3, <3>1 DEF RowState
  <2> HIDE DEF failed
  <2>6. failed = row[r] \/ failed.version > row[r].version
    BY <1>2, <1>4, <2>5 DEF CanSave, RowState
  <2>7. PICK x \in Request :
          /\ task' = [task EXCEPT ![t] = x]
          /\ task'[t] = x /\ x.pc = "finish" /\ x.run = r
    BY <1>1, GotoIs DEF Inv, PC
  <2>8. TaskInv(t)'
    BY <1>1, <1>2, <2>7 DEF TaskInv, At
  <2>9. \A u \in Tasks \ {t} : At(u, "create") => task[u].run # r
    BY <1>2 DEF Inv, TaskInv, AbsentRow
  <2>10. IsTerminal(failed) /\ failed.status # "absent"
    BY <2>5 DEF IsTerminal, TerminalStatus
  <2> QED  BY <1>1, <1>2, <1>4, <2>5, <2>6, <2>7, <2>8, <2>9, <2>10, RowWritten
<1> QED  BY <1>1, <1>3, <1>4

\* The cleanup closes the turn, if it is still open.
LEMMA CleanupFinishKeeps ==
  ASSUME Inv, NEW t \in Tasks, CleanupFinish(t)
  PROVE  Inv'
<1> DEFINE r == task[t].run
<1>1. /\ At(t, "finish") /\ FinishTurn(r, "failed", "start_failure")
      /\ task' = [task EXCEPT ![t] = NoTask]
      /\ UNCHANGED <<exists, active, row, ledger, used>>
  BY DEF CleanupFinish, Quit
<1>2. r \in Runs /\ used' \in Bounds
  BY <1>1 DEF Inv, TaskInv, At, TypeOK, Bounds
<1>3. NoTask \in Request /\ NoTask.run = NoRun
  BY DEF NoTask, Request, PC, AbsentRow, RowState, HarnessStatus, LoopPhase, Intent,
         NoIntent, NoPending, NoLedger, Completed
<1>4. task'[t] = NoTask
  BY <1>1 DEF Inv, TypeOK
<1>5. TaskInv(t)'
  BY <1>4 DEF TaskInv, At, NoTask
<1>6. "failed" \in TerminalStatus /\ "start_failure" \in Shown /\ "start_failure" # "answer"
  BY DEF TerminalStatus, Shown
<1> QED  BY <1>1, <1>2, <1>3, <1>5, <1>6, FinishKeeps

\* Deletion takes the turns and the holder together.
LEMMA DeleteConversationKeeps ==
  ASSUME Inv, DeleteConversation
  PROVE  Inv'
<1>1. /\ exists' = FALSE /\ active' = NoRun /\ Use("deletes")
      /\ turn' = [r \in Runs |-> IF turn[r].status = "none" THEN turn[r]
                                 ELSE [status |-> "deleted", shown |-> "nothing"]]
      /\ UNCHANGED <<row, ledger, task>>
  BY DEF DeleteConversation
<1>2. \A r \in Runs :
        /\ turn[r].status = "none" => turn'[r] = turn[r]
        /\ turn[r].status # "none" =>
             turn'[r] = [status |-> "deleted", shown |-> "nothing"]
  BY <1>1
<1>3. used' \in Bounds
  BY <1>1 DEF Inv, TypeOK, Use, Bounds
<1>4. TypeOK'
  <2>1. "deleted" \in TurnStatus /\ "nothing" \in Shown
    BY DEF TurnStatus, Shown
  <2>2. \A r \in Runs : turn'[r] \in [status : TurnStatus, shown : Shown]
    BY <1>2, <2>1 DEF Inv, TypeOK
  <2>3. turn' \in [Runs -> [status : TurnStatus, shown : Shown]]
    BY <1>1, <2>2
  <2> QED  BY <1>1, <1>3, <2>3 DEF Inv, TypeOK, Bounds
<1>5. ASSUME NEW r \in Runs PROVE RowInv(r)' /\ LedgerInv(r)' /\ TurnInv(r)'
  <2>1. active' # r
    BY <1>1, RunsAssumption
  <2>2. CASE turn[r].status = "none"
    BY <1>1, <1>2, <2>1, <2>2 DEF Inv, RowInv, LedgerInv, TurnInv
  <2>3. CASE turn[r].status # "none"
    <3>1. turn'[r].status = "deleted" /\ turn'[r].shown = "nothing"
      BY <1>2, <2>3
    <3> QED  BY <1>1, <2>1, <3>1 DEF Inv, RowInv, LedgerInv, TurnInv
  <2> QED  BY <2>2, <2>3
<1>6. ASSUME NEW t \in Tasks PROVE TaskInv(t)'
  <2>1. \A r \in Runs : turn[r].status # "none" => turn'[r].status = "deleted"
    BY <1>2
  <2>2. TaskInv(t)
    BY DEF Inv
  <2> QED  BY <1>1, <2>1, <2>2, RunsAssumption DEF TaskInv, KnowsRow, DriverInv, At
<1> QED  BY <1>4, <1>5, <1>6 DEF Inv

\* A fault moves one request and nothing else.
LEMMA FailKeeps ==
  ASSUME Inv, NEW t \in Tasks, Fail(t) \/ Crash(t)
  PROVE  Inv'
<1>1. ~At(t, "idle") /\ Use("faults") /\ UNCHANGED db
  BY DEF Fail, Crash
<1>2. used' \in Bounds
  BY <1>1 DEF Inv, TypeOK, Use, Bounds
<1>3. CASE Fail(t)
  BY <1>1, <1>2, <1>3, GotoKeeps, QuitKeeps, RaiseKeeps DEF Fail
<1>4. CASE Crash(t)
  BY <1>1, <1>2, <1>4, QuitKeeps DEF Crash
<1> QED  BY <1>3, <1>4

\* A stuttering step.
LEMMA StutterKeeps ==
  ASSUME Inv, UNCHANGED vars
  PROVE  Inv'
BY DEF Inv, vars, TypeOK, RowInv, LedgerInv, TurnInv, TaskInv, KnowsRow, DriverInv, At

(***************************************************************************)
(* The invariant, and the properties that follow from it.                  *)
(***************************************************************************)

\* The invariant holds in the initial state.
LEMMA InitInv == Init => Inv
<1> SUFFICES ASSUME Init PROVE Inv
  OBVIOUS
<1>1. NoTask \in Request /\ AbsentRow \in RowState
  BY DEF NoTask, Request, PC, AbsentRow, RowState, HarnessStatus, LoopPhase, Intent,
         NoIntent, NoPending, NoLedger, Completed
<1>2. TypeOK
  <2>1. task \in [Tasks -> Request] /\ row \in [Runs -> RowState]
    BY <1>1 DEF Init
  <2>2. /\ turn \in [Runs -> [status : TurnStatus, shown : Shown]]
        /\ ledger \in [Runs -> [stage : NoLedger..Completed, status : Intent]]
    BY DEF Init, TurnStatus, Shown, NoLedger, Completed, Intent
  <2> QED  BY <2>1, <2>2 DEF Init, TypeOK, Request
<1>3. ASSUME NEW r \in Runs PROVE RowInv(r) /\ LedgerInv(r) /\ TurnInv(r)
  BY RunsAssumption
     DEF Init, RowInv, LedgerInv, TurnInv, AbsentRow, NoLedger, HistorySaved,
         CheckpointSaved, Released
<1>4. ASSUME NEW t \in Tasks PROVE TaskInv(t)
  BY DEF Init, TaskInv, At, NoTask
<1> QED  BY <1>2, <1>3, <1>4 DEF Inv

\* Every step keeps the invariant.
LEMMA NextInv ==
  ASSUME Inv, [Next]_vars
  PROVE  Inv'
<1>1. ASSUME NEW t \in Tasks, NEW r \in Runs,
             \/ StartTurn(t, r)
             \/ \E streams \in BOOLEAN : Resume(t, r, streams)
             \/ RefuseReply(t, r)
             \/ Reconcile(t, r)
      PROVE  Inv'
  BY <1>1, StartTurnKeeps, ResumeKeeps, RefuseReplyKeeps, ReconcileKeeps
<1>2. ASSUME NEW t \in Tasks, Loop(t)
      PROVE  Inv'
  BY <1>2, WorkKeeps, PauseKeeps, SaveIntentKeeps, ReloadKeeps, CloseAgainKeeps,
     PrepareKeeps DEF Loop
<1>3. ASSUME NEW t \in Tasks, Drive(t)
      PROVE  Inv'
  BY <1>3, SaveHistoryKeeps, SaveCheckpointKeeps, ReleaseActiveRunKeeps, FinishUpKeeps,
     AdvanceKeeps, ReturnKeeps DEF Drive
<1>4. ASSUME NEW t \in Tasks, Cleanup(t)
      PROVE  Inv'
  BY <1>4, CleanupLoadKeeps, CleanupCheckKeeps, CleanupSaveKeeps, CleanupFinishKeeps
     DEF Cleanup
<1>5. ASSUME NEW t \in Tasks, Serve(t) \/ Fail(t) \/ Crash(t)
      PROVE  Inv'
  BY <1>2, <1>3, <1>4, <1>5, CreateRunKeeps, FailKeeps DEF Serve
<1> QED  BY <1>1, <1>5, DeleteConversationKeeps, StutterKeeps DEF Next

\* The inductive invariant holds for any number of requests, runs and troubles.
THEOREM Invariant == Spec => []Inv
<1> QED  BY InitInv, NextInv, PTL DEF Spec

\* Only the run that holds the conversation has an open turn.
THEOREM OneOpenTurn == Spec => []OpenTurnIsActive
<1>1. Inv => OpenTurnIsActive
  BY DEF Inv, TurnInv, OpenTurnIsActive, Open
<1> QED  BY <1>1, Invariant, PTL

\* The history shows the outcome the ledger locked.
THEOREM HistoryShowsLockedOutcome == Spec => []HistoryIsLocked
<1>1. Inv => HistoryIsLocked
  BY DEF Inv, TurnInv, LedgerInv, HistoryIsLocked
<1> QED  BY <1>1, Invariant, PTL

\* A run whose ledger says released is over and does not hold the conversation.
THEOREM ReleasedMeansOver == Spec => []ReleasedRunsAreOver
<1>1. Inv => ReleasedRunsAreOver
  <2> SUFFICES ASSUME Inv, NEW r \in Runs, ledger[r].stage >= Released
               PROVE  active # r /\ row[r].status \in TerminalStatus
    BY DEF ReleasedRunsAreOver
  <2>1. ledger[r].stage \in Nat /\ LedgerInv(r)
    BY DEF Inv, TypeOK, NoLedger, Completed
  <2> QED  BY <2>1 DEF LedgerInv, CheckpointSaved, Released
<1> QED  BY <1>1, Invariant, PTL

(***************************************************************************)
(* As long as no reply was refused.                                        *)
(***************************************************************************)

\* What a step of request t keeps that writes at most the row and the ledger of
\* run r.
LEMMA CalmKeeps ==
  ASSUME Inv, Calm, NEW t \in Tasks, NEW r \in Runs,
         \A u \in Tasks \ {t} : task'[u] = task[u],
         \A q \in Runs \ {r} : row'[q] = row[q] /\ ledger'[q] = ledger[q],
         OwnerInv(t)', RowAgrees(r)',
         row'[r].status = "waiting_confirmation" =>
           \/ row[r].status = "waiting_confirmation"
           \/ \A u \in Tasks \ {t} : Owner(u) => task[u].run # r,
         ledger'[r].stage # NoLedger =>
           \/ ledger[r].stage # NoLedger
           \/ \A u \in Tasks \ {t} : Owner(u) => task[u].run # r,
         \/ ledger[r].stage = NoLedger
         \/ row'[r].status = row[r].status /\ ledger'[r].status = ledger[r].status
         \/ row'[r].status = ledger'[r].status
  PROVE  Calm'
<1>1. ASSUME NEW q \in Runs PROVE RowAgrees(q)'
  BY DEF Calm, RowAgrees
<1>2. ASSUME NEW u \in Tasks \ {t} PROVE OwnerInv(u)'
  <2>1. OwnerInv(u) /\ task'[u] = task[u] /\ (Owner(u)' <=> Owner(u))
        /\ (~At(u, "idle") => task[u].run \in Runs)
    BY <1>2 DEF Calm, Owner, Inv, TaskInv
  <2>2. Owner(u) => task[u].run \in Runs
    BY <2>1 DEF Owner, At, Inv, TaskInv, NoTask
  <2>3. Owner(u)' => row'[task[u].run].status # "waiting_confirmation"
    BY <2>1, <2>2 DEF OwnerInv
  <2>4. ASSUME NEW v \in Tasks \ {u}, Owner(u)', Owner(v)'
        PROVE  task'[v].run # task'[u].run
    <3>1. CASE v = t
      BY <2>1, <2>4, <3>1 DEF OwnerInv
    <3>2. CASE v # t
      BY <2>1, <2>4, <3>2 DEF OwnerInv, Owner
    <3> QED  BY <3>1, <3>2
  <2>5. At(u, "save_failure") => ledger'[task[u].run].stage = NoLedger
    BY <2>1, <2>2 DEF OwnerInv, Owner, At
  <2>6. At(u, "advance") /\ task[u].stage = HistorySaved =>
          row'[task[u].run].status = ledger'[task[u].run].status
    <3>1. SUFFICES ASSUME At(u, "advance"), task[u].stage = HistorySaved
                   PROVE  row'[task[u].run].status = ledger'[task[u].run].status
      OBVIOUS
    <3>2. /\ row[task[u].run].status = ledger[task[u].run].status
          /\ task[u].run \in Runs /\ DriverInv(u)
      BY <2>1, <3>1 DEF OwnerInv, At, Inv, TaskInv
    <3>3. ledger[task[u].run].stage # NoLedger
      BY <3>2 DEF DriverInv, Prepared, NoLedger, Inv, TypeOK
    <3> QED  BY <3>2, <3>3
  <2> QED  BY <2>1, <2>3, <2>4, <2>5, <2>6 DEF OwnerInv, At
<1> QED  BY <1>1, <1>2 DEF Calm

\* A step that moves one request and writes neither a row nor a ledger.
LEMMA CalmMoves ==
  ASSUME Inv, Calm, NEW t \in Tasks, NEW x, task' = [task EXCEPT ![t] = x],
         UNCHANGED <<row, ledger>>,
         x.run = task[t].run \/ ~Owner(t)',
         Owner(t)' => Owner(t),
         x.pc = "save_failure" => ledger[task[t].run].stage = NoLedger,
         x.pc # "advance" \/ x.stage # HistorySaved
  PROVE  Calm'
<1>1. task'[t] = x /\ \A u \in Tasks \ {t} : task'[u] = task[u]
  BY DEF Inv, TypeOK
<1>2. OwnerInv(t)
  BY DEF Calm
<1>3. x.pc = "save_failure" => Owner(t)'
  BY <1>1 DEF Owner
<1>4. OwnerInv(t)'
  BY <1>1, <1>2, <1>3 DEF OwnerInv, Owner, At
<1>5. ASSUME NEW u \in Tasks \ {t} PROVE OwnerInv(u)'
  <2>1. OwnerInv(u) /\ task'[u] = task[u]
    BY <1>1, <1>5 DEF Calm
  <2>2. Owner(u)' <=> Owner(u)
    BY <2>1 DEF Owner
  <2>3. ASSUME NEW v \in Tasks \ {u}, Owner(u)', Owner(v)'
        PROVE  task'[v].run # task'[u].run
    <3>1. CASE v = t
      BY <1>1, <1>4, <2>1, <2>3, <3>1 DEF OwnerInv
    <3>2. CASE v # t
      <4>1. task'[v] = task[v]
        BY <1>1, <3>2
      <4> QED  BY <2>1, <2>2, <2>3, <4>1 DEF OwnerInv, Owner
    <3> QED  BY <3>1, <3>2
  <2> QED  BY <2>1, <2>2, <2>3 DEF OwnerInv, At
<1> QED  BY <1>4, <1>5 DEF Calm, RowAgrees

\* A request that ends.
LEMMA CalmQuits ==
  ASSUME Inv, Calm, NEW t \in Tasks, Quit(t), UNCHANGED <<row, ledger>>
  PROVE  Calm'
<1>1. task' = [task EXCEPT ![t] = NoTask] /\ task'[t] = NoTask
  BY DEF Quit, Inv, TypeOK
<1>2. ~Owner(t)' /\ NoTask.pc = "idle"
  BY <1>1 DEF Owner, NoTask
<1> QED  BY <1>1, <1>2, CalmMoves

\* A request that goes on without writing a row or a ledger.
LEMMA CalmGoes ==
  ASSUME Inv, Calm, NEW t \in Tasks, NEW pc \in PC, Goto(t, pc), UNCHANGED <<row, ledger>>,
         \/ pc \in {"cleanup", "finish", "save_failure", "check"} /\ Owner(t)
         \/ pc = "advance" /\ task[t].stage # HistorySaved,
         pc = "save_failure" => ledger[task[t].run].stage = NoLedger
  PROVE  Calm'
<1>1. PICK x \in Request :
        /\ task' = [task EXCEPT ![t] = x]
        /\ task'[t] = x /\ x.pc = pc /\ x.stage = task[t].stage
        /\ x.run = task[t].run /\ x.cleans = task[t].cleans
  BY GotoIs DEF Inv
<1>2. Owner(t)' => Owner(t)
  BY <1>1 DEF Owner
<1> QED  BY <1>1, <1>2, CalmMoves

\* An exception that leaves the controller.
LEMMA CalmRaises ==
  ASSUME Inv, Calm, NEW t \in Tasks, Raise(t), UNCHANGED <<row, ledger>>
  PROVE  Calm'
BY CalmGoes, CalmQuits DEF Raise, Owner, PC

\* A step that moves one request and writes the row of its run.
LEMMA CalmWrites ==
  ASSUME Inv, Calm, NEW t \in Tasks, NEW x, task' = [task EXCEPT ![t] = x],
         task[t].run \in Runs, NEW n, row' = [row EXCEPT ![task[t].run] = n],
         UNCHANGED ledger, x.run = task[t].run, Owner(t)' => Owner(t),
         x.pc # "save_failure", n.status # "waiting_confirmation",
         x.pc = "advance" /\ x.stage = HistorySaved =>
           n.status = ledger[task[t].run].status,
         ledger[task[t].run].stage # NoLedger =>
           /\ n.phase = "finalization"
           /\ n.status \in {row[task[t].run].status, ledger[task[t].run].status}
  PROVE  Calm'
<1> DEFINE r == task[t].run
<1>1. task'[t] = x /\ \A u \in Tasks \ {t} : task'[u] = task[u]
  BY DEF Inv, TypeOK
<1>2. row'[r] = n /\ \A q \in Runs \ {r} : row'[q] = row[q] /\ ledger'[q] = ledger[q]
  BY DEF Inv, TypeOK
<1>3. RowAgrees(r)'
  BY <1>2 DEF Calm, RowAgrees, NoLedger, CheckpointSaved
<1>4. OwnerInv(t)'
  <2>1. OwnerInv(t)
    BY DEF Calm
  <2>2. ASSUME Owner(t)', NEW u \in Tasks \ {t}, Owner(u)'
        PROVE  task'[u].run # task'[t].run
    <3>1. Owner(u)
      BY <1>1, <2>2 DEF Owner
    <3> QED  BY <1>1, <2>1, <2>2, <3>1 DEF OwnerInv
  <2> QED  BY <1>1, <1>2, <2>2 DEF OwnerInv, At
<1>5. \/ ledger[r].stage = NoLedger
      \/ row'[r].status = row[r].status /\ ledger'[r].status = ledger[r].status
      \/ row'[r].status = ledger'[r].status
  BY <1>2
<1> QED  BY <1>1, <1>2, <1>3, <1>4, <1>5, CalmKeeps

\* The row is created by the only request of the run, before anything is locked.
LEMMA CalmCreateRun ==
  ASSUME Inv, Calm, NEW t \in Tasks, CreateRun(t)
  PROVE  Calm'
<1> DEFINE r == task[t].run
           s == [AbsentRow EXCEPT !.status = "running"]
<1>1. /\ At(t, "create") /\ row' = [row EXCEPT ![r] = s] /\ Continue(t, "loop", s)
      /\ UNCHANGED ledger
  BY DEF CreateRun
<1>2. s = [status |-> "running", phase |-> "start_run", intent |-> NoIntent,
           pending |-> NoPending, version |-> 0]
  BY CreatedRow
<1> HIDE DEF s
<1>3. s \in RowState /\ s.status = "running"
  BY <1>2 DEF RowState, HarnessStatus, LoopPhase, Intent, NoIntent, NoPending
<1>4. r \in Runs /\ ledger[r].stage = NoLedger /\ Owner(t)
  BY <1>1 DEF Inv, TaskInv, LedgerInv, AbsentRow, At, Owner
<1>5. PICK x \in Request :
        /\ task' = [task EXCEPT ![t] = x]
        /\ task'[t] = x /\ x.pc = "loop" /\ x.run = r
  BY <1>1, <1>3, ContinueIs DEF Inv, PC
<1> QED  BY <1>1, <1>3, <1>4, <1>5, CalmWrites

\* A save by a loop.
LEMMA CalmSaves ==
  ASSUME Inv, Calm, NEW t \in Tasks, At(t, "loop") \/ At(t, "close"),
         NEW pc \in {"loop", "prepare"},
         NEW n \in RowState, SaveRow(t, pc, n), UNCHANGED ledger,
         n.version = task[t].state.version + 1,
         n.status = "running", ~IsTerminal(task[t].state),
         task[t].state.phase = "finalization" => n.phase = "finalization"
  PROVE  Calm'
<1> DEFINE r == task[t].run
           s == task[t].state
<1>1. KnowsRow(t) /\ r \in Runs /\ row[r].status # "absent" /\ Owner(t)
  BY AtWork DEF At, Owner
<1>2. row[r].status # "waiting_confirmation" /\ RowAgrees(r) /\ row[r] \in RowState
  BY <1>1 DEF Calm, OwnerInv, Inv, TypeOK
<1>3. CASE CanSave(row[r], n)
  <2>1. row' = [row EXCEPT ![r] = n] /\ Continue(t, pc, n)
    BY <1>3 DEF SaveRow
  <2>2. \/ n = row[r]
        \/ s = row[r] /\ n.version = row[r].version + 1
    BY <1>1, <1>3, SavedFromRow DEF Inv
  <2>3. ledger[r].stage # NoLedger =>
          n.phase = "finalization" /\ n.status \in {row[r].status, ledger[r].status}
    BY <1>1, <1>2, <2>2 DEF RowAgrees, RowState, HarnessStatus, IsTerminal
  <2>4. PICK x \in Request :
          /\ task' = [task EXCEPT ![t] = x]
          /\ task'[t] = x /\ x.pc = pc /\ x.run = r
    BY <2>1, ContinueIs DEF Inv, PC
  <2> QED  BY <1>1, <2>1, <2>3, <2>4, CalmWrites
<1>4. CASE ~CanSave(row[r], n)
  BY <1>4, CalmRaises DEF SaveRow
<1> QED  BY <1>3, <1>4

\* A loop that works saves a running row; on a closing row its save changes nothing.
LEMMA CalmWork ==
  ASSUME Inv, Calm, NEW t \in Tasks, Work(t)
  PROVE  Calm'
<1> DEFINE s == task[t].state
           n == [s EXCEPT !.phase = "validate_action", !.version = @ + 1]
<1>1. /\ At(t, "loop") /\ s.phase \in {"start_run", "restore_run"}
      /\ SaveRow(t, "loop", n) /\ UNCHANGED ledger
  BY DEF Work
<1>2. s \in RowState
  BY DEF Inv, TypeOK
<1>3. n = [status |-> s.status, phase |-> "validate_action", intent |-> s.intent,
           pending |-> s.pending, version |-> s.version + 1]
  BY <1>2, WithPhase
<1>4. n \in RowState /\ n.version = s.version + 1 /\ n.status = s.status
  BY <1>2, <1>3 DEF RowState, LoopPhase
<1> HIDE DEF n
<1>5. CASE s.status = "running"
  BY <1>1, <1>4, <1>5, CalmSaves DEF IsTerminal, TerminalStatus
<1>6. CASE s.status # "running"
  <2> DEFINE r == task[t].run
  <2>1. /\ KnowsRow(t) /\ r \in Runs /\ row[r].status # "absent" /\ Owner(t)
        /\ ValidCombination(row[r]) /\ row[r] \in RowState
    BY <1>1, AtWork DEF At, Owner
  <2>2. row[r].status # "waiting_confirmation"
    BY <2>1 DEF Calm, OwnerInv
  <2>3. CASE CanSave(row[r], n)
    <3>1. \/ n = row[r]
          \/ s = row[r] /\ n.version = row[r].version + 1
      BY <1>4, <2>1, <2>3, SavedFromRow DEF Inv
    <3>2. IsTerminal(row[r])
      BY <1>4, <1>6, <2>1, <2>2, <3>1 DEF IsTerminal, RowState, HarnessStatus
    <3>3. row[r].phase = "finalization"
      BY <2>1, <3>2 DEF ValidCombination
    <3> QED  BY <1>1, <1>3, <3>1, <3>3
  <2>4. CASE ~CanSave(row[r], n)
    BY <1>1, <2>4, CalmRaises DEF SaveRow
  <2> QED  BY <2>3, <2>4
<1> QED  BY <1>5, <1>6

\* The intended outcome is saved by the run's only owner.
LEMMA CalmSaveIntent ==
  ASSUME Inv, Calm, NEW t \in Tasks, NEW outcome \in Outcomes, SaveIntent(t, outcome)
  PROVE  Calm'
<1> DEFINE s == task[t].state
           n == Transition(s, "running", "finalization", outcome)
<1>1. /\ At(t, "loop") /\ CanTransition(s, "running", "finalization", outcome)
      /\ SaveRow(t, "prepare", n) /\ UNCHANGED ledger
  BY DEF SaveIntent
<1>2. s \in RowState
  BY DEF Inv, TypeOK
<1>3. outcome \in Intent /\ "running" \in HarnessStatus /\ "finalization" \in LoopPhase
  BY OutcomesAssumption DEF Intent, HarnessStatus, LoopPhase
<1>4. ~IsTerminal(s)
  BY <1>1 DEF CanTransition, IsTerminal, TerminalStatus
<1>5. /\ n \in RowState /\ n.status = "running" /\ n.phase = "finalization"
      /\ n.version = s.version + 1
  BY <1>1, <1>2, <1>3, <1>4, TransitionReturns
<1> HIDE DEF n
<1> QED  BY <1>1, <1>4, <1>5, CalmSaves

\* A run that asks is not locked, and its only owner ends.
LEMMA CalmPause ==
  ASSUME Inv, Calm, NEW t \in Tasks, Pause(t)
  PROVE  Calm'
<1> DEFINE r == task[t].run
           s == task[t].state
           asking == [s EXCEPT !.pending = used.pauses + 1]
           n == Transition(asking, "waiting_confirmation", "wait_confirmation", NoIntent)
<1>1. /\ At(t, "loop") /\ UNCHANGED ledger
      /\ CanTransition(asking, "waiting_confirmation", "wait_confirmation", NoIntent)
      /\ IF CanSave(row[r], n)
         THEN row' = [row EXCEPT ![r] = n] /\ Quit(t)
         ELSE Raise(t) /\ UNCHANGED row
  BY DEF Pause
<1>2. /\ KnowsRow(t) /\ r \in Runs /\ row[r].status # "absent"
      /\ ValidCombination(row[r]) /\ s \in RowState /\ Owner(t)
  BY <1>1, AtWork DEF At, Owner
<1>3. OwnerInv(t) /\ RowAgrees(r) /\ row[r].status # "waiting_confirmation"
  BY <1>2 DEF Calm, OwnerInv
<1>4. /\ asking = [status |-> s.status, phase |-> s.phase, intent |-> s.intent,
                   pending |-> used.pauses + 1, version |-> s.version]
      /\ asking \in RowState
  <2>1. used.pauses + 1 \in Nat
    BY DEF Inv, TypeOK
  <2>2. asking = [status |-> s.status, phase |-> s.phase, intent |-> s.intent,
                  pending |-> used.pauses + 1, version |-> s.version]
    BY <1>2, WithPending
  <2> HIDE DEF asking
  <2> QED  BY <1>2, <2>1, <2>2 DEF RowState
<1> HIDE DEF asking
<1>5. ~IsTerminal(asking) /\ s.phase # "finalization"
  BY <1>1, <1>4 DEF CanTransition, IsTerminal, TerminalStatus, PhaseTransitions, LoopPhase
<1>6. /\ n \in RowState /\ n.status = "waiting_confirmation" /\ n.phase = "wait_confirmation"
      /\ n.version = s.version + 1
  <2>1. /\ "waiting_confirmation" \in HarnessStatus /\ "wait_confirmation" \in LoopPhase
        /\ NoIntent \in Intent
    BY DEF HarnessStatus, LoopPhase, Intent
  <2> QED  BY <1>1, <1>4, <1>5, <2>1, TransitionReturns
<1> HIDE DEF n
<1>7. CASE CanSave(row[r], n)
  <2>1. row' = [row EXCEPT ![r] = n] /\ task' = [task EXCEPT ![t] = NoTask]
    BY <1>1, <1>7 DEF Quit
  <2>2. n = row[r] \/ s = row[r]
    BY <1>2, <1>6, <1>7, SavedFromRow DEF Inv
  <2>3. ledger[r].stage = NoLedger
    BY <1>3, <1>5, <1>6, <2>2 DEF RowAgrees
  <2>4. /\ task'[t] = NoTask /\ \A u \in Tasks \ {t} : task'[u] = task[u]
        /\ row'[r] = n
        /\ \A q \in Runs \ {r} : row'[q] = row[q] /\ ledger'[q] = ledger[q]
    BY <1>1, <1>2, <2>1 DEF Inv, TypeOK
  <2>5. OwnerInv(t)'
    BY <2>4 DEF OwnerInv, Owner, At, NoTask
  <2>6. PICK q \in Runs : q = r
    BY <1>2
  <2>7. \A u \in Tasks \ {t} : Owner(u) => task[u].run # q
    BY <1>2, <1>3, <2>6 DEF OwnerInv
  <2>8. ledger'[q] = ledger[q] /\ ledger[q].stage = NoLedger
    BY <1>1, <2>3, <2>6
  <2>9. RowAgrees(q)'
    BY <2>8 DEF RowAgrees, NoLedger, CheckpointSaved
  <2>10. \A p \in Runs \ {q} : row'[p] = row[p] /\ ledger'[p] = ledger[p]
    BY <2>4, <2>6
  <2> HIDE DEF r
  <2> QED  BY <2>4, <2>5, <2>7, <2>8, <2>9, <2>10, CalmKeeps
<1>8. CASE ~CanSave(row[r], n)
  BY <1>1, <1>8, CalmRaises
<1> QED  BY <1>7, <1>8

\* A request that reads the row again stays the owner of its run.
LEMMA CalmReload ==
  ASSUME Inv, Calm, NEW t \in Tasks, Reload(t)
  PROVE  Calm'
<1>1. /\ task[t].pc \in {"loop", "prepare"} /\ UNCHANGED <<row, ledger>>
      /\ Continue(t, "close", row[task[t].run])
  BY DEF Reload, db
<1>2. row[task[t].run] \in RowState /\ Owner(t)
  BY <1>1, AtWork DEF Owner
<1>3. PICK x \in Request :
        /\ task' = [task EXCEPT ![t] = x]
        /\ task'[t] = x /\ x.pc = "close" /\ x.run = task[t].run
  BY <1>1, <1>2, ContinueIs DEF Inv, PC
<1> QED  BY <1>1, <1>2, <1>3, CalmMoves

\* The second close leaves the run running, in finalization.
LEMMA CalmCloseAgain ==
  ASSUME Inv, Calm, NEW t \in Tasks, CloseAgain(t)
  PROVE  Calm'
<1> DEFINE s == task[t].state
           n == Transition(s, "running", "finalization", "failed")
<1>1. /\ At(t, "close") /\ UNCHANGED ledger
      /\ IF s.status = "running" /\ CanTransition(s, "running", "finalization", "failed")
         THEN SaveRow(t, "prepare", n)
         ELSE Raise(t) /\ UNCHANGED row
  BY DEF CloseAgain
<1>2. s \in RowState
  BY DEF Inv, TypeOK
<1>3. CASE s.status = "running" /\ CanTransition(s, "running", "finalization", "failed")
  <2>1. "failed" \in Intent /\ "running" \in HarnessStatus /\ "finalization" \in LoopPhase
    BY DEF Intent, HarnessStatus, LoopPhase, TerminalStatus
  <2>2. ~IsTerminal(s)
    BY <1>3 DEF IsTerminal, TerminalStatus
  <2>3. /\ n \in RowState /\ n.status = "running" /\ n.phase = "finalization"
        /\ n.version = s.version + 1
    BY <1>2, <1>3, <2>1, <2>2, TransitionReturns
  <2>4. SaveRow(t, "prepare", n)
    BY <1>1, <1>3
  <2> HIDE DEF n
  <2> QED  BY <1>1, <2>2, <2>3, <2>4, CalmSaves
<1>4. CASE ~(s.status = "running" /\ CanTransition(s, "running", "finalization", "failed"))
  BY <1>1, <1>4, CalmRaises
<1> QED  BY <1>3, <1>4

\* The checkpoint has the locked status.
LEMMA CalmSaveCheckpoint ==
  ASSUME Inv, Calm, NEW t \in Tasks, SaveCheckpoint(t)
  PROVE  Calm'
<1> DEFINE r == task[t].run
           s == task[t].state
           outcome == ledger[r].status
           n == Transition(s, outcome, "finalization", outcome)
<1>1. /\ At(t, "work") /\ task[t].stage = HistorySaved /\ UNCHANGED ledger
      /\ IF CanTransition(s, outcome, "finalization", outcome)
         THEN SaveRow(t, "advance", n) ELSE Raise(t) /\ UNCHANGED row
  BY DEF SaveCheckpoint, Working
<1>2. /\ r \in Runs /\ DriverInv(t) /\ s \in RowState
  BY <1>1, AtWork DEF At
<1>3. CASE CanTransition(s, outcome, "finalization", outcome) /\ CanSave(row[r], n)
  <2>1. row' = [row EXCEPT ![r] = n] /\ Continue(t, "advance", n)
    BY <1>1, <1>3 DEF SaveRow
  <2>2. outcome \in TerminalStatus
    <3>1. ledger[r].stage # NoLedger
      BY <1>2 DEF DriverInv, Inv, TypeOK, NoLedger, Prepared
    <3> QED  BY <1>2, <3>1 DEF Inv, LedgerInv
  <2>3. outcome \in HarnessStatus /\ outcome \in Intent /\ "finalization" \in LoopPhase
    BY <2>2 DEF HarnessStatus, Intent, LoopPhase
  <2>4. n \in RowState /\ n.status = outcome /\ n.phase = "finalization"
    <3>1. /\ n \in RowState /\ n.status = outcome
          /\ ~IsTerminal(s) => n.phase = "finalization"
      BY <1>2, <1>3, <2>3, TransitionReturns
    <3>2. CASE IsTerminal(s)
      <4>1. n = s /\ (n = row[r] \/ s = row[r])
        <5>1. n = s
          BY <3>2 DEF Transition
        <5> QED  BY <1>1, <1>2, <1>3, <3>1, <5>1, AtWork, SavedFromRow DEF Inv, At
      <4>2. ValidCombination(row[r])
        BY <1>1, AtWork DEF At
      <4> QED  BY <3>1, <3>2, <4>1, <4>2 DEF ValidCombination
    <3> QED  BY <3>1, <3>2
  <2> HIDE DEF n
  <2>5. PICK x \in Request :
          /\ task' = [task EXCEPT ![t] = x]
          /\ task'[t] = x /\ x.pc = "advance" /\ x.run = r /\ x.cleans = task[t].cleans
    BY <2>1, <2>4, ContinueIs DEF Inv, PC
  <2>6. Owner(t)' => Owner(t)
    BY <2>5 DEF Owner
  <2>7. n.status # "waiting_confirmation"
    BY <2>2, <2>4 DEF TerminalStatus
  <2> QED  BY <1>1, <1>2, <2>1, <2>4, <2>5, <2>6, <2>7, CalmWrites
<1>4. CASE ~(CanTransition(s, outcome, "finalization", outcome) /\ CanSave(row[r], n))
  BY <1>1, <1>4, CalmRaises DEF SaveRow
<1> QED  BY <1>3, <1>4

\* The other requests of a run have no part in it while one of them prepares.
LEMMA CalmPrepare ==
  ASSUME Inv, Calm, NEW t \in Tasks, Prepare(t)
  PROVE  Calm'
<1> DEFINE r == task[t].run
           outcome == task[t].state.intent
<1>1. At(t, "prepare") /\ UNCHANGED row
  BY DEF Prepare
<1>2. /\ r \in Runs /\ row[r].status # "absent" /\ row[r] \in RowState /\ Owner(t)
      /\ ValidCombination(row[r])
  BY <1>1, AtWork DEF At, Owner
<1>3. OwnerInv(t)
  BY DEF Calm
<1>4. ASSUME \/ row[r].status = "running" /\ row[r].intent = outcome
             \/ row[r].status = outcome,
             ledger' = [ledger EXCEPT ![r] = [stage |-> Prepared, status |-> outcome]],
             ledger[r].stage = NoLedger,
             WorksOn(t, row[r], Prepared)
      PROVE  Calm'
  <2>1. PICK x \in Request :
          /\ task' = [task EXCEPT ![t] = x]
          /\ task'[t] = x /\ x.pc = "work" /\ x.stage = Prepared
          /\ x.run = r /\ x.cleans = task[t].cleans
    <3>1. TypeOK /\ Prepared \in NoLedger..Completed
      BY DEF Inv, Prepared, NoLedger, Completed
    <3> QED  BY <1>2, <1>4, <3>1, StageIs
  <2>2. /\ \A u \in Tasks \ {t} : task'[u] = task[u]
        /\ \A q \in Runs \ {r} : row'[q] = row[q] /\ ledger'[q] = ledger[q]
        /\ row'[r] = row[r] /\ ledger'[r] = [stage |-> Prepared, status |-> outcome]
    BY <1>1, <1>2, <1>4, <2>1 DEF Inv, TypeOK
  <2>3. \A u \in Tasks \ {t} : Owner(u) => task[u].run # r
    BY <1>2, <1>3 DEF OwnerInv
  <2>4. OwnerInv(t)'
    <3>1. Owner(t)' => \A u \in Tasks \ {t} : Owner(u)' => task'[u].run # r
      BY <2>2, <2>3 DEF Owner
    <3> QED  BY <1>2, <1>3, <2>1, <2>2, <3>1 DEF OwnerInv, At
  <2>5. outcome \in TerminalStatus
    <3>1. outcome \in Intent
      BY DEF Inv, TypeOK, RowState
    <3>2. outcome # NoIntent
      BY <1>1 DEF Inv, TaskInv
    <3> QED  BY <3>1, <3>2 DEF Intent
  <2>6. row[r].phase = "finalization"
    BY <1>2, <1>4, <2>5 DEF ValidCombination, IsTerminal, NoIntent, TerminalStatus
  <2>7. PICK q \in Runs : q = r
    BY <1>2
  <2>8. /\ row'[q] = row[q] /\ ledger'[q] = [stage |-> Prepared, status |-> outcome]
        /\ row[q].phase = "finalization" /\ row[q].status # "waiting_confirmation"
        /\ ledger[q].stage = NoLedger
    BY <1>2, <1>3, <1>4, <2>2, <2>6, <2>7 DEF OwnerInv
  <2>9. RowAgrees(q)'
    BY <2>8 DEF RowAgrees, Prepared, CheckpointSaved
  <2>10. /\ \A p \in Runs \ {q} : row'[p] = row[p] /\ ledger'[p] = ledger[p]
         /\ \A u \in Tasks \ {t} : Owner(u) => task[u].run # q
    BY <2>2, <2>3, <2>7
  <2> HIDE DEF r
  <2> QED  BY <2>2, <2>4, <2>8, <2>9, <2>10, CalmKeeps
<1>5. ASSUME WorksOn(t, row[r], ledger[r].stage), UNCHANGED ledger
      PROVE  Calm'
  <2>1. PICK x \in Request :
          /\ task' = [task EXCEPT ![t] = x]
          /\ task'[t] = x /\ x.pc = "work" /\ x.run = r /\ x.cleans = task[t].cleans
    <3>1. TypeOK /\ ledger[r].stage \in NoLedger..Completed
      BY <1>2 DEF Inv, TypeOK
    <3> QED  BY <1>2, <1>5, <3>1, StageIs
  <2>2. x.run = task[t].run
    BY <2>1
  <2> QED  BY <1>1, <1>2, <1>5, <2>1, <2>2, CalmMoves
<1>6. CASE Raise(t) /\ UNCHANGED ledger
  BY <1>1, <1>6, CalmRaises
<1> QED
  <2>1. CASE ~(\/ row[r].status = "running" /\ row[r].intent = outcome
               \/ row[r].status = outcome)
    BY <1>6, <2>1 DEF Prepare
  <2>2. CASE \/ row[r].status = "running" /\ row[r].intent = outcome
             \/ row[r].status = outcome
    <3>1. CASE ledger[r].stage = NoLedger
      BY <1>4, <2>2, <3>1 DEF Prepare, WorksOn
    <3>2. CASE ledger[r].stage # NoLedger
      BY <1>5, <1>6, <2>2, <3>2 DEF Prepare, WorksOn
    <3> QED  BY <3>1, <3>2
  <2> QED  BY <2>1, <2>2

\* A run whose turn was never started has no request.
LEMMA FreshRun ==
  ASSUME Inv, NEW r \in Runs, turn[r].status = "none", NEW u \in Tasks
  PROVE  task[u].run # r
<1>1. CASE At(u, "idle")
  BY <1>1, RunsAssumption DEF Inv, TaskInv, NoTask
<1>2. CASE ~At(u, "idle")
  BY <1>2 DEF Inv, TaskInv
<1> QED  BY <1>1, <1>2

\* A start owns a run nobody else knows.
LEMMA CalmStartTurn ==
  ASSUME Inv, Calm, NEW t \in Tasks, NEW r \in Runs, StartTurn(t, r)
  PROVE  Calm'
<1> DEFINE x == [pc |-> "create", run |-> r, state |-> AbsentRow, stage |-> NoLedger,
                 cleans |-> TRUE]
<1>1. /\ turn[r].status = "none" /\ task' = [task EXCEPT ![t] = x]
      /\ UNCHANGED <<row, ledger>>
  BY DEF StartTurn, Accept
<1>2. x.pc = "create" /\ x.run = r
  OBVIOUS
<1> HIDE DEF x
<1>3. task'[t] = x /\ \A u \in Tasks \ {t} : task'[u] = task[u]
  BY <1>1 DEF Inv, TypeOK
<1>4. \A u \in Tasks : task[u].run # r
  BY <1>1, FreshRun
<1>5. row[r].status = "absent" /\ ledger[r].stage = NoLedger
  BY <1>1 DEF Inv, RowInv, LedgerInv
<1>6. OwnerInv(t)'
  BY <1>1, <1>2, <1>3, <1>4, <1>5 DEF OwnerInv, At
<1>7. RowAgrees(r)'
  BY <1>1 DEF Calm, RowAgrees
<1> QED  BY <1>1, <1>3, <1>4, <1>5, <1>6, <1>7, CalmKeeps

\* reconcile owns nothing.
LEMMA CalmReconcile ==
  ASSUME Inv, Calm, NEW t \in Tasks, NEW r \in Runs, Reconcile(t, r)
  PROVE  Calm'
<1> DEFINE x == [pc |-> "work", run |-> r, state |-> row[r], stage |-> ledger[r].stage,
                 cleans |-> FALSE]
<1>1. task' = [task EXCEPT ![t] = x] /\ UNCHANGED <<row, ledger>>
  BY DEF Reconcile, Accept, db
<1>2. x.pc = "work" /\ ~x.cleans
  OBVIOUS
<1> HIDE DEF x
<1>3. task'[t] = x
  BY <1>1 DEF Inv, TypeOK
<1>4. ~Owner(t)'
  BY <1>2, <1>3 DEF Owner
<1> QED  BY <1>1, <1>2, <1>4, CalmMoves

\* The drive's steps that write neither a row nor a ledger.
LEMMA CalmDrive ==
  ASSUME Inv, Calm, NEW t \in Tasks,
         SaveHistory(t) \/ ReleaseActiveRun(t) \/ FinishUp(t) \/ Return(t)
  PROVE  Calm'
<1>1. /\ UNCHANGED <<row, ledger>>
      /\ \/ Goto(t, "advance") /\ task[t].stage # HistorySaved
         \/ Raise(t)
         \/ Quit(t)
  BY DEF SaveHistory, ReleaseActiveRun, FinishUp, Return, Working, db, Prepared,
         HistorySaved, CheckpointSaved, Released, FormationSubmitted
<1> QED  BY <1>1, CalmGoes, CalmRaises, CalmQuits DEF PC

\* The ledger says checkpointed only after the driver saw the row agree.
LEMMA CalmAdvance ==
  ASSUME Inv, Calm, NEW t \in Tasks, Advance(t)
  PROVE  Calm'
<1> DEFINE g == task[t].stage
<1>1. At(t, "advance") /\ UNCHANGED row
  BY DEF Advance
<1>2. PICK r \in Runs : r = task[t].run
  BY <1>1, AtWork DEF At
<1>3. /\ DriverInv(t) /\ OwnerInv(t) /\ RowAgrees(r)
      /\ g \in Prepared..FormationSubmitted /\ ledger[r].stage \in NoLedger..Completed
  <2>1. DriverInv(t)
    BY <1>1, AtWork DEF At
  <2> QED  BY <1>1, <1>2, <2>1
           DEF Calm, DriverInv, Inv, TypeOK, NoLedger, Prepared, FormationSubmitted, Completed
<1>4. CASE ledger[r].stage = g
  <2>1. /\ ledger' = [ledger EXCEPT ![r].stage = g + 1]
        /\ WorksOn(t, task[t].state, g + 1)
    BY <1>2, <1>4 DEF Advance, WorksOn, Inv, TypeOK
  <2>2. PICK x \in Request :
          /\ task' = [task EXCEPT ![t] = x]
          /\ task'[t] = x /\ x.pc = "work" /\ x.run = r /\ x.cleans = task[t].cleans
    <3>1. task[t].state \in RowState /\ g + 1 \in NoLedger..Completed /\ TypeOK
      BY <1>3 DEF Inv, TypeOK, NoLedger, Prepared, FormationSubmitted, Completed
    <3> QED  BY <1>2, <2>1, <3>1, StageIs
  <2>3. /\ \A u \in Tasks \ {t} : task'[u] = task[u]
        /\ \A q \in Runs \ {r} : row'[q] = row[q] /\ ledger'[q] = ledger[q]
        /\ row'[r] = row[r]
        /\ ledger'[r].stage = g + 1 /\ ledger'[r].status = ledger[r].status
    BY <1>1, <2>1, <2>2 DEF Inv, TypeOK
  <2>4. ledger[r].stage # NoLedger
    BY <1>3, <1>4 DEF NoLedger, Prepared
  <2>5. RowAgrees(r)'
    BY <1>1, <1>2, <1>3, <1>4, <2>3, <2>4
       DEF RowAgrees, OwnerInv, Prepared, HistorySaved, CheckpointSaved, FormationSubmitted
  <2>6. OwnerInv(t)'
    <3>1. Owner(t)' => Owner(t) /\ \A u \in Tasks \ {t} : Owner(u)' <=> Owner(u)
      BY <2>2, <2>3 DEF Owner
    <3> QED  BY <1>2, <1>3, <2>2, <2>3, <3>1 DEF OwnerInv, At
  <2>7. row[r].status # "waiting_confirmation"
    <3>1. row[r].phase = "finalization" /\ row[r].status # "absent"
      BY <1>3, <2>4 DEF RowAgrees, Inv, LedgerInv
    <3> QED  BY <3>1 DEF Inv, RowInv, ValidCombination
  <2> QED  BY <2>3, <2>4, <2>5, <2>6, <2>7, CalmKeeps
<1>5. CASE ledger[r].stage # g
  BY <1>1, <1>2, <1>5, CalmRaises DEF Advance
<1> QED  BY <1>4, <1>5

\* A run that waits has no owner, and its outcome is not locked.
LEMMA CalmResume ==
  ASSUME Inv, Calm, NEW t \in Tasks, NEW r \in Runs, NEW streams \in BOOLEAN,
         Resume(t, r, streams)
  PROVE  Calm'
<1> DEFINE n == Transition(row[r], "running", "restore_run", NoIntent)
           x == [pc |-> "loop", run |-> r, state |-> n, stage |-> NoLedger,
                 cleans |-> streams]
<1>1. /\ row[r].status = "waiting_confirmation"
      /\ CanTransition(row[r], "running", "restore_run", NoIntent)
      /\ row' = [row EXCEPT ![r] = n] /\ task' = [task EXCEPT ![t] = x]
      /\ UNCHANGED ledger
  BY DEF Resume, Accept
<1>2. ~IsTerminal(row[r]) /\ row[r] \in RowState
  BY <1>1 DEF IsTerminal, TerminalStatus, Inv, TypeOK
<1>3. n.status = "running"
  <2>1. "running" \in HarnessStatus /\ "restore_run" \in LoopPhase /\ NoIntent \in Intent
    BY DEF HarnessStatus, LoopPhase, Intent
  <2> QED  BY <1>1, <1>2, <2>1, TransitionReturns
<1>4. x.pc = "loop" /\ x.run = r
  OBVIOUS
<1> HIDE DEF n, x
<1>5. /\ task'[t] = x /\ \A u \in Tasks \ {t} : task'[u] = task[u]
      /\ row'[r] = n /\ \A q \in Runs \ {r} : row'[q] = row[q] /\ ledger'[q] = ledger[q]
  BY <1>1 DEF Inv, TypeOK
<1>6. ledger[r].stage = NoLedger
  <2>1. row[r].phase # "finalization"
    BY <1>1 DEF Inv, RowInv, ValidCombination
  <2> QED  BY <2>1 DEF Calm, RowAgrees
<1>7. \A u \in Tasks : Owner(u) => task[u].run # r
  BY <1>1 DEF Calm, OwnerInv
<1>8. OwnerInv(t)'
  <2>1. \A u \in Tasks \ {t} : Owner(u)' => task'[u].run # r
    BY <1>5, <1>7 DEF Owner
  <2> QED  BY <1>3, <1>4, <1>5, <2>1 DEF OwnerInv, At
<1>9. RowAgrees(r)'
  BY <1>1, <1>6 DEF RowAgrees, NoLedger, CheckpointSaved
<1> QED  BY <1>1, <1>5, <1>6, <1>7, <1>8, <1>9, CalmKeeps

\* The cleanup's steps that write neither a row nor a ledger.
LEMMA CalmCleanup ==
  ASSUME Inv, Calm, NEW t \in Tasks, CleanupLoad(t) \/ CleanupCheck(t) \/ CleanupFinish(t)
  PROVE  Calm'
<1>1. UNCHANGED <<row, ledger>>
  BY DEF CleanupLoad, CleanupCheck, CleanupFinish, db
<1>2. CASE CleanupLoad(t)
  <2> DEFINE r == task[t].run
  <2>1. At(t, "cleanup") /\ Owner(t)
    BY <1>2 DEF CleanupLoad, At, Owner
  <2>2. CASE row[r].status = "running"
    <3>1. Continue(t, "check", row[r]) /\ row[r] \in RowState
      BY <1>2, <2>1, <2>2 DEF CleanupLoad, Inv, TaskInv, At, TypeOK
    <3>2. PICK x \in Request :
            /\ task' = [task EXCEPT ![t] = x]
            /\ task'[t] = x /\ x.pc = "check" /\ x.run = r
      BY <3>1, ContinueIs DEF Inv, PC
    <3> QED  BY <1>1, <2>1, <3>2, CalmMoves
  <2>3. CASE row[r].status # "running"
    <3>1. Goto(t, "finish") \/ Quit(t)
      BY <1>2, <2>3 DEF CleanupLoad
    <3> QED  BY <1>1, <2>1, <3>1, CalmGoes, CalmQuits DEF PC
  <2> QED  BY <2>2, <2>3
<1>3. CASE CleanupCheck(t)
  <2>1. /\ Owner(t)
        /\ \/ Quit(t)
           \/ Goto(t, "save_failure") /\ ledger[task[t].run].stage = NoLedger
    BY <1>3 DEF CleanupCheck, At, Owner
  <2> QED  BY <1>1, <2>1, CalmGoes, CalmQuits DEF PC
<1>4. CASE CleanupFinish(t)
  BY <1>1, <1>4, CalmQuits DEF CleanupFinish
<1> QED  BY <1>2, <1>3, <1>4

\* The cleanup overwrites only the row of a run it owns and that is not locked: nobody
\* can lock it in between.
LEMMA CalmCleanupSave ==
  ASSUME Inv, Calm, NEW t \in Tasks, CleanupSave(t)
  PROVE  Calm'
<1> DEFINE r == task[t].run
           s == task[t].state
           closing == Transition(s, "running", "finalization", "failed")
           failed == Transition(closing, "failed", "finalization", NoIntent)
<1>1. /\ At(t, "save_failure") /\ Goto(t, "finish") /\ UNCHANGED ledger
      /\ row' = IF /\ CanTransition(s, "running", "finalization", "failed")
                   /\ CanTransition(closing, "failed", "finalization", NoIntent)
                   /\ CanSave(row[r], failed)
                THEN [row EXCEPT ![r] = failed] ELSE row
  BY DEF CleanupSave
<1>2. r \in Runs /\ s \in RowState /\ s.status = "running" /\ Owner(t)
  BY <1>1, AtWork DEF At, Inv, TaskInv, Owner
<1>3. ledger[r].stage = NoLedger
  BY <1>1 DEF Calm, OwnerInv
<1>4. PICK x \in Request :
        /\ task' = [task EXCEPT ![t] = x]
        /\ task'[t] = x /\ x.pc = "finish" /\ x.run = r
  BY <1>1, GotoIs DEF Inv, PC
<1>5. CASE UNCHANGED row
  BY <1>1, <1>2, <1>4, <1>5, CalmMoves
<1>6. ASSUME CanTransition(s, "running", "finalization", "failed"),
             CanTransition(closing, "failed", "finalization", NoIntent),
             row' = [row EXCEPT ![r] = failed]
      PROVE  Calm'
  <2>1. /\ {"running", "failed"} \subseteq HarnessStatus /\ "finalization" \in LoopPhase
        /\ {"failed", NoIntent} \subseteq Intent
    BY DEF HarnessStatus, TerminalStatus, LoopPhase, Intent
  <2>2. ~IsTerminal(s)
    BY <1>2 DEF IsTerminal, TerminalStatus
  <2>3. closing \in RowState /\ closing.status = "running"
    BY <1>2, <1>6, <2>1, <2>2, TransitionReturns
  <2>4. ~IsTerminal(closing)
    BY <2>3 DEF IsTerminal, TerminalStatus
  <2> HIDE DEF closing
  <2>5. failed.status = "failed"
    BY <1>6, <2>1, <2>3, <2>4, TransitionReturns
  <2> HIDE DEF failed
  <2> QED  BY <1>1, <1>2, <1>3, <1>4, <1>6, <2>5, CalmWrites
<1> QED  BY <1>1, <1>5, <1>6

\* A fault moves one request and nothing else.
LEMMA CalmFail ==
  ASSUME Inv, Calm, NEW t \in Tasks, Fail(t) \/ Crash(t)
  PROVE  Calm'
<1>1. UNCHANGED <<row, ledger>>
  BY DEF Fail, Crash, db
<1>2. \/ Goto(t, "finish") /\ Owner(t)
      \/ Quit(t)
      \/ Raise(t)
  BY DEF Fail, Crash, Owner, At
<1> QED  BY <1>1, <1>2, CalmGoes, CalmQuits, CalmRaises DEF PC

\* Every step keeps what holds as long as no reply was refused.
LEMMA CalmStep ==
  ASSUME Inv, CalmInv, [Next]_vars
  PROVE  CalmInv'
<1> SUFFICES ASSUME used'.refused = 0 PROVE Calm'
  BY DEF CalmInv
<1>1. Inv'
  BY NextInv
<1>2. /\ used'.refused = used.refused
      /\ \A t \in Tasks, r \in Runs : ~RefuseReply(t, r)
  <2>1. used \in Bounds
    BY DEF Inv, TypeOK, Bounds
  <2>2. ASSUME NEW b \in {"faults", "pauses", "deletes"}, Use(b)
        PROVE  used'.refused = used.refused
    BY <2>1, <2>2 DEF Use, Bounds
  <2>3. ~Use("refused")
    BY <2>1 DEF Use, Bounds
  <2>4. \A t \in Tasks, r \in Runs : ~RefuseReply(t, r)
    BY <2>3 DEF RefuseReply
  <2>5. UNCHANGED used \/ Use("faults") \/ Use("pauses") \/ Use("deletes")
    BY <2>4, ZenonT(60) DEF Next, StartTurn, Resume, Reconcile, Serve, Fail, Crash, DeleteConversation,
                CreateRun, Loop, Work, Pause, SaveIntent, Reload, CloseAgain, Prepare, Drive,
                SaveHistory, SaveCheckpoint, ReleaseActiveRun, FinishUp, Advance, Return,
                Cleanup, CleanupLoad, CleanupCheck, CleanupSave, CleanupFinish, vars
  <2> QED  BY <2>2, <2>4, <2>5
<1>3. Calm
  BY <1>2 DEF CalmInv
<1>4. ASSUME NEW t \in Tasks, NEW r \in Runs,
             \/ StartTurn(t, r)
             \/ \E streams \in BOOLEAN : Resume(t, r, streams)
             \/ RefuseReply(t, r)
             \/ Reconcile(t, r)
      PROVE  Calm'
  BY <1>2, <1>3, <1>4, CalmStartTurn, CalmResume, CalmReconcile
<1>5. ASSUME NEW t \in Tasks, Loop(t)
      PROVE  Calm'
  BY <1>3, <1>5, CalmWork, CalmPause, CalmSaveIntent, CalmReload, CalmCloseAgain,
     CalmPrepare DEF Loop
<1>6. ASSUME NEW t \in Tasks, Drive(t)
      PROVE  Calm'
  BY <1>3, <1>6, CalmDrive, CalmSaveCheckpoint, CalmAdvance DEF Drive
<1>7. ASSUME NEW t \in Tasks, Cleanup(t)
      PROVE  Calm'
  BY <1>3, <1>7, CalmCleanup, CalmCleanupSave DEF Cleanup
<1>8. ASSUME NEW t \in Tasks, Serve(t) \/ Fail(t) \/ Crash(t)
      PROVE  Calm'
  BY <1>3, <1>5, <1>6, <1>7, <1>8, CalmCreateRun, CalmFail DEF Serve
<1>9. CASE DeleteConversation \/ UNCHANGED vars
  BY <1>3, <1>9 DEF DeleteConversation, vars, Calm, OwnerInv, RowAgrees, Owner, At
<1> QED  BY <1>4, <1>8, <1>9 DEF Next

\* Ledger, row and turn agree on what the ledger calls checkpointed, as long as
\* no reply was refused.
THEOREM LedgerRowAndTurnAgree == Spec => []CheckpointsAgree
<1>1. Init => CalmInv
  BY DEF Init, CalmInv, Calm, OwnerInv, RowAgrees, Owner, At, NoTask, NoLedger,
         CheckpointSaved
<1>2. Inv /\ CalmInv /\ [Next]_vars => Inv' /\ CalmInv'
  BY NextInv, CalmStep
<1>3. Inv /\ CalmInv => CheckpointsAgree
  <2> SUFFICES ASSUME Inv, CalmInv, used.refused = 0,
                      NEW r \in Runs, ledger[r].stage >= CheckpointSaved
               PROVE  /\ row[r].status = ledger[r].status
                      /\ turn[r].status \in {ledger[r].status, "deleted"}
    BY DEF CheckpointsAgree
  <2>1. ledger[r].stage \in Nat /\ LedgerInv(r) /\ RowAgrees(r)
    BY DEF Inv, TypeOK, NoLedger, Completed, CalmInv, Calm
  <2> QED  BY <2>1 DEF LedgerInv, RowAgrees, HistorySaved, CheckpointSaved
<1> QED  BY InitInv, <1>1, <1>2, <1>3, PTL DEF Spec

(***************************************************************************)
(* What a step never does.                                                 *)
(***************************************************************************)

\* The turns are written by four actions: a start, the save of the history, the
\* end of a cleanup and the deletion.
LEMMA TurnWriters ==
  ASSUME [Next]_vars
  PROVE  \/ UNCHANGED turn
         \/ \E t \in Tasks, r \in Runs : StartTurn(t, r)
         \/ \E t \in Tasks : SaveHistory(t) \/ CleanupFinish(t)
         \/ DeleteConversation
BY ZenonT(60) DEF Next, Resume, RefuseReply, Reconcile, Serve, Fail, Crash, CreateRun, Loop, Work, Pause,
       SaveIntent, Reload, CloseAgain, Prepare, Drive, SaveCheckpoint, ReleaseActiveRun, FinishUp,
       Advance, Return, Cleanup, CleanupLoad, CleanupCheck, CleanupSave, db, vars

\* The conversation changes hands in three actions: a start, a release and the
\* deletion.
LEMMA ActiveWriters ==
  ASSUME [Next]_vars
  PROVE  \/ UNCHANGED active
         \/ \E t \in Tasks, r \in Runs : StartTurn(t, r)
         \/ \E t \in Tasks : ReleaseActiveRun(t)
         \/ DeleteConversation
BY ZenonT(60) DEF Next, Resume, RefuseReply, Reconcile, Serve, Fail, Crash, CreateRun, Loop, Work, Pause,
       SaveIntent, Reload, CloseAgain, Prepare, Drive, SaveCheckpoint, SaveHistory, FinishUp,
       Advance, Return, Cleanup, CleanupLoad, CleanupCheck, CleanupSave, CleanupFinish,
       db, vars

\* finish_turn leaves a closed turn alone.
LEMMA ClosedIsNotFinished ==
  ASSUME TypeOK, NEW r \in Runs, Closed(r), NEW q \in Runs, NEW status, NEW shown,
         FinishTurn(q, status, shown)
  PROVE  turn'[r] = turn[r]
<1>1. ~Open(r)
  BY DEF Open, Closed, TerminalStatus
<1> QED  BY <1>1 DEF FinishTurn, TypeOK

\* A closed turn is never written again, but by the deletion.
THEOREM ClosedTurnsStay == Spec => ClosedTurnIsFinal
<1>1. ASSUME Inv, [Next]_vars, NEW r \in Runs, Closed(r)
      PROVE  turn'[r] = turn[r] \/ turn'[r].status = "deleted"
  <2>1. turn \in [Runs -> [status : TurnStatus, shown : Shown]]
    BY <1>1 DEF Inv, TypeOK
  <2>2. CASE \E t \in Tasks, q \in Runs : StartTurn(t, q)
    <3>1. PICK q \in Runs : /\ turn[q].status = "none"
                            /\ turn' = [TurnsTakenOver EXCEPT ![q].status = "running"]
      BY <2>2 DEF StartTurn
    <3>2. q # r /\ ~Open(r)
      BY <1>1, <3>1 DEF Closed, Open, TerminalStatus
    <3> QED  BY <3>1, <3>2 DEF TurnsTakenOver
  <2>3. ASSUME NEW t \in Tasks, SaveHistory(t) \/ CleanupFinish(t)
        PROVE  turn'[r] = turn[r]
    <3>1. task[t].run \in Runs
      BY <1>1, <2>3 DEF SaveHistory, CleanupFinish, Working, At, Inv, TaskInv
    <3>2. \/ UNCHANGED turn
          \/ FinishTurn(task[t].run, ledger[task[t].run].status, "answer")
          \/ FinishTurn(task[t].run, "failed", "start_failure")
      BY <2>3 DEF SaveHistory, CleanupFinish
    <3> QED  BY <1>1, <3>1, <3>2, ClosedIsNotFinished DEF Inv
  <2>4. CASE DeleteConversation
    BY <1>1, <2>4 DEF DeleteConversation, Closed, TerminalStatus
  <2> QED  BY <1>1, <2>2, <2>3, <2>4, TurnWriters
<1>2. Inv /\ [Next]_vars =>
        \A r \in Runs : Closed(r) => turn'[r] = turn[r] \/ turn'[r].status = "deleted"
  BY <1>1
<1> QED  BY <1>2, InitInv, NextInv, PTL DEF Spec, ClosedTurnIsFinal

\* A run that runs or waits loses its conversation only by deletion.
THEOREM LiveRunsKeepTheirConversation == Spec => LiveRunKeepsConversation
<1>1. ASSUME Inv, [Next]_vars, NEW r \in Runs, active = r, Live(r)
      PROVE  active' = r \/ ~exists'
  <2>1. CASE \E t \in Tasks, q \in Runs : StartTurn(t, q)
    BY <1>1, <2>1 DEF StartTurn, MayTakeOver
  <2>2. ASSUME NEW t \in Tasks, ReleaseActiveRun(t)
        PROVE  active' = r
    <3>1. At(t, "work") /\ task[t].stage = CheckpointSaved
      BY <2>2 DEF ReleaseActiveRun, Working
    <3>2. DriverInv(t) /\ task[t].run \in Runs
      BY <1>1, <3>1, AtWork DEF At
    <3>3. row[task[t].run].status \in TerminalStatus
      <4>1. ledger[task[t].run].stage \in Nat /\ ledger[task[t].run].stage >= CheckpointSaved
        BY <1>1, <3>1, <3>2 DEF DriverInv, Inv, TypeOK, NoLedger, Completed, CheckpointSaved
      <4> QED  BY <1>1, <3>2, <4>1 DEF Inv, LedgerInv
    <3>4. task[t].run # r
      BY <1>1, <3>3 DEF Live, TerminalStatus
    <3>5. ~MayRelease(task[t].run)
      BY <1>1, <3>4, RunsAssumption DEF MayRelease
    <3> QED  BY <1>1, <2>2, <3>5 DEF ReleaseActiveRun
  <2>3. CASE DeleteConversation
    BY <2>3 DEF DeleteConversation
  <2> QED  BY <1>1, <2>1, <2>2, <2>3, ActiveWriters
<1>2. Inv /\ [Next]_vars =>
        \A r \in Runs : active = r /\ Live(r) => active' = r \/ ~exists'
  BY <1>1
<1> QED  BY <1>2, InitInv, NextInv, PTL DEF Spec, LiveRunKeepsConversation
=============================================================================
