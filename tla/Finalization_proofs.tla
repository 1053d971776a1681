------------------------ MODULE Finalization_proofs ------------------------
(***************************************************************************)
(* Proofs about Finalization for any number of reconcilers, any set of     *)
(* outcomes and any bounds.                                                *)
(***************************************************************************)
EXTENDS Finalization, TLAPS


\* The snapshot a transition builds is a row with the requested status and the
\* next state_version.
LEMMA CandidateIsRow ==
  ASSUME NEW s \in RowState, NEW status \in HarnessStatus,
         NEW phase \in LoopPhase, NEW intent \in Intent
  PROVE  /\ Candidate(s, status, phase, intent) \in RowState
         /\ Candidate(s, status, phase, intent).status = status
         /\ Candidate(s, status, phase, intent).version = s.version + 1
<1> DEFINE a == [s EXCEPT !.status = status]
           b == [a EXCEPT !.phase = phase]
           c == [b EXCEPT !.intent = EffectiveIntent(s, intent)]
           d == [c EXCEPT !.version = s.version + 1]
           p == IF s.status = "waiting_confirmation" /\ status = "running"
                THEN NoPending ELSE s.pending
           e == [d EXCEPT !.pending = p]
<1>1. a \in RowState /\ a.status = status
  BY DEF RowState
<1> HIDE DEF a
<1>2. b \in RowState /\ b.status = status
  BY <1>1 DEF RowState
<1> HIDE DEF b
<1>3. EffectiveIntent(s, intent) \in Intent
  BY DEF EffectiveIntent, RowState
<1>4. c \in RowState /\ c.status = status
  BY <1>2, <1>3 DEF RowState
<1> HIDE DEF c
<1>5. s.version + 1 \in Nat /\ p \in Nat
  BY DEF RowState, NoPending
<1>6. d \in RowState /\ d.status = status /\ d.version = s.version + 1
  BY <1>4, <1>5 DEF RowState
<1> HIDE DEF d
<1>7. e \in RowState /\ e.status = status /\ e.version = s.version + 1
  BY <1>5, <1>6 DEF RowState
<1> QED  BY <1>7 DEF a, b, c, d, e, p, Candidate

\* A terminal transition of a control state gives the requested status and
\* either is the identity or raises state_version by one.
LEMMA TerminalTransition ==
  ASSUME NEW s \in RowState, NEW status \in TerminalStatus,
         CanTransition(s, status, "finalization", status)
  PROVE  /\ Transition(s, status, "finalization", status) \in RowState
         /\ Transition(s, status, "finalization", status).status = status
         /\ IF s.status \in TerminalStatus
            THEN Transition(s, status, "finalization", status) = s
            ELSE Transition(s, status, "finalization", status).version = s.version + 1
<1>1. CASE s.status \in TerminalStatus
  BY <1>1 DEF CanTransition, Transition, IsTerminal
<1>2. CASE s.status \notin TerminalStatus
  <2>1. Transition(s, status, "finalization", status) =
          Candidate(s, status, "finalization", status)
    BY <1>2 DEF Transition, IsTerminal
  <2>2. status \in HarnessStatus /\ "finalization" \in LoopPhase /\ status \in Intent
    BY DEF HarnessStatus, LoopPhase, Intent
  <2> QED  BY <1>2, <2>1, <2>2, CandidateIsRow
<1> QED  BY <1>1, <1>2

\* A transition to running/finalization leaves a run that is not terminal.
LEMMA IntentTransition ==
  ASSUME NEW s \in RowState, NEW v \in Values, v.status \in TerminalStatus,
         CanTransition(s, "running", "finalization", v.status)
  PROVE  LET t == [Transition(s, "running", "finalization", v.status)
                     EXCEPT !.answer = v] IN
         /\ t \in RowState
         /\ s.status \notin TerminalStatus
         /\ t.status = "running"
         /\ t.version = s.version + 1
<1>1. s.status \notin TerminalStatus
  BY DEF CanTransition, IsTerminal, TerminalStatus
<1> DEFINE w == Transition(s, "running", "finalization", v.status)
<1>2. w = Candidate(s, "running", "finalization", v.status)
  BY <1>1 DEF Transition, IsTerminal
<1>3. "running" \in HarnessStatus /\ "finalization" \in LoopPhase /\ v.status \in Intent
  BY DEF HarnessStatus, LoopPhase, Intent
<1>4. w \in RowState /\ w.status = "running" /\ w.version = s.version + 1
  BY <1>2, <1>3, CandidateIsRow
<1> HIDE DEF w
<1>5. [w EXCEPT !.answer = v] \in RowState
  BY <1>4 DEF RowState
<1>6. [w EXCEPT !.answer = v].status = "running"
  BY <1>4 DEF RowState
<1>7. [w EXCEPT !.answer = v].version = s.version + 1
  BY <1>4 DEF RowState
<1> QED  BY <1>1, <1>5, <1>6, <1>7 DEF w

\* What every step keeps for every driver, whoever takes it: the lock, the
\* stages reached and the effects they stand for are never taken back.
Monotone ==
  /\ ledger'.stage >= ledger.stage
  /\ ledger.stage # NoLedger => ledger'.value = ledger.value
  /\ turn.shown # NoValue => turn' = turn
  /\ IsTerminal(row) => row' = row
  /\ row' = row \/ row'.version > row.version
  /\ ~active => ~active'
  /\ formation => formation'
  /\ formation' => formation \/ ledger.value.status = "completed"

\* A driver that does not move keeps its part of the invariant.
LEMMA OthersKeep ==
  ASSUME TypeOK, TypeOK', Monotone, NEW e \in Drivers,
         task'[e] = task[e], DriverInv(e)
  PROVE  DriverInv(e)'
<1> USE DEF DriverInv
<1>1. /\ ledger.stage \in Nat /\ ledger'.stage \in Nat
      /\ row.version \in Nat /\ row'.version \in Nat
      /\ task[e].state.version \in Nat /\ task[e].stage \in Nat
      /\ formation \in BOOLEAN /\ formation' \in BOOLEAN
  BY DEF TypeOK, TaskState, RowState, NoLedger, Completed
<1>2. FollowsLedger(e)'
  BY <1>1 DEF FollowsLedger, Monotone, NoLedger, Prepared
<1>3. WorksBeforeAdvancing(e)'
  <2>1. SUFFICES ASSUME task[e].pc = "advance"
                 PROVE  task[e].stage # Completed /\ Done(task[e].stage + 1)'
    BY DEF WorksBeforeAdvancing
  <2>2. task[e].stage # Completed /\ Done(task[e].stage + 1)
    BY <2>1 DEF WorksBeforeAdvancing
  <2>3. ledger.stage # NoLedger
    BY <2>1 DEF FollowsLedger
  <2> DEFINE k == task[e].stage + 1
  <2>4. k = HistorySaved => turn'.shown # NoValue
    BY <2>2 DEF Done, Monotone
  <2>5. k = CheckpointSaved => IsTerminal(row)'
    BY <2>2 DEF Done, Monotone
  <2>6. k = Released => ~active'
    BY <2>2 DEF Done, Monotone
  <2>7. k = FormationSubmitted => (formation' <=> ledger'.value.status = "completed")
    BY <1>1, <2>2, <2>3, Zenon DEF Done, Monotone
  <2> QED  BY <2>1, <2>2, <2>4, <2>5, <2>6, <2>7 DEF Done
<1>4. ReadsOrLags(e)'
  BY <1>1 DEF ReadsOrLags, Monotone
<1>5. IntentIsNextOrLags(e)'
  BY <1>1 DEF IntentIsNextOrLags, Monotone, IsTerminal
<1>6. HoldsOutcome(e)'
  BY DEF HoldsOutcome
<1> QED  BY <1>2, <1>3, <1>4, <1>5, <1>6

\* A run whose worker is about to close it.
LEMMA InitIInv == Init => IInv
<1> SUFFICES ASSUME Init PROVE IInv
  OBVIOUS
<1>1. InitialRow \in RowState /\ ~IsTerminal(InitialRow)
  BY DEF InitialRow, RowState, HarnessStatus, TerminalStatus, LoopPhase, Intent,
         NoIntent, NoPending, IsTerminal
<1>2. TypeOK
  <2>1. ledger \in [stage : NoLedger..Completed, value : Values \cup {NoValue},
                    attempts : Nat]
    BY DEF Init, NoLedger, Completed
  <2>2. task \in [Drivers -> TaskState]
    BY <1>1 DEF Init, NoLedger, Completed, PC, TaskState
  <2> QED  BY <1>1, <2>1, <2>2 DEF Init, TypeOK
<1>3. ReleasedOnlyWhenOver /\ ShownIsLocked /\ EndedAsLocked /\ FormationLast
  BY <1>1 DEF Init, ReleasedOnlyWhenOver, ShownIsLocked, EndedAsLocked, FormationLast
<1>4. LedgerTellsTheTruth /\ LockInv
  BY DEF Init, LedgerTellsTheTruth, LockInv, NoLedger, HistorySaved,
         CheckpointSaved, Released, FormationSubmitted
<1>5. ASSUME NEW d \in Drivers PROVE DriverInv(d)
  BY DEF Init, DriverInv, FollowsLedger, WorksBeforeAdvancing, ReadsOrLags,
         IntentIsNextOrLags, HoldsOutcome
<1> QED  BY <1>2, <1>3, <1>4, <1>5 DEF IInv

(***************************************************************************)
(* Frames                                                                  *)
(***************************************************************************)
Global ==
  /\ ReleasedOnlyWhenOver
  /\ ShownIsLocked
  /\ EndedAsLocked
  /\ LedgerTellsTheTruth
  /\ FormationLast
  /\ LockInv

\* Where a driver has nothing to keep.
Resting == {"idle", "stopped", "done", "raised", "cancelled"}

\* A move of one program counter.
LEMMA GotoMoves ==
  ASSUME TypeOK, NEW d \in Drivers, NEW pc \in PC, Goto(d, pc)
  PROVE  /\ task' \in [Drivers -> TaskState]
         /\ task'[d].pc = pc
         /\ task'[d].value = task[d].value
         /\ task'[d].state = task[d].state
         /\ task'[d].stage = task[d].stage
         /\ \A e \in Drivers \ {d} : task'[e] = task[e]
<1> DEFINE t == [task[d] EXCEPT !.pc = pc]
<1>1. task[d] \in TaskState
  BY DEF TypeOK
<1>2. t \in TaskState /\ t.pc = pc /\ t.value = task[d].value
      /\ t.state = task[d].state /\ t.stage = task[d].stage
  BY <1>1 DEF TaskState
<1>3. task' = [task EXCEPT ![d] = t]
  BY DEF Goto
<1> HIDE DEF t
<1> QED  BY <1>2, <1>3 DEF TypeOK

\* The invariant after a step of one driver.
LEMMA OneMoves ==
  ASSUME IInv, TypeOK', Monotone, Global', NEW d \in Drivers, DriverInv(d)',
         \A e \in Drivers \ {d} : task'[e] = task[e]
  PROVE  IInv'
<1>1. ASSUME NEW e \in Drivers \ {d} PROVE DriverInv(e)'
  BY OthersKeep DEF IInv
<1> QED  BY <1>1 DEF IInv, Global

\* A step that leaves the database alone takes nothing back.
LEMMA SameDatabase ==
  ASSUME IInv, UNCHANGED db
  PROVE  Monotone /\ Global'
<1>1. /\ row' = row /\ ledger' = ledger /\ turn' = turn
      /\ active' = active /\ formation' = formation
  BY DEF db
<1>2. Monotone
  BY <1>1 DEF Monotone, IInv, TypeOK, NoLedger, Completed
<1>3. Global'
  BY <1>1 DEF Global, IInv, ReleasedOnlyWhenOver, ShownIsLocked, EndedAsLocked,
              LedgerTellsTheTruth, FormationLast, LockInv, IsTerminal
<1> QED  BY <1>2, <1>3

\* A driver that stops, is cancelled or raises.
LEMMA Rests ==
  ASSUME IInv, NEW d \in Drivers, NEW pc \in Resting, Goto(d, pc),
         UNCHANGED db, tries' \in Nat, faults' \in Nat
  PROVE  IInv' /\ Monotone
<1>1. pc \in PC /\ TypeOK
  BY DEF Resting, PC, IInv
<1>2. TypeOK'
  BY <1>1, GotoMoves DEF TypeOK, db
<1>3. DriverInv(d)'
  BY <1>1, GotoMoves DEF Resting, DriverInv, FollowsLedger, WorksBeforeAdvancing,
                         ReadsOrLags, IntentIsNextOrLags, HoldsOutcome
<1>4. Monotone /\ Global'
  BY SameDatabase
<1> QED  BY <1>1, <1>2, <1>3, <1>4, GotoMoves, OneMoves

\* An exception takes a driver to rest and leaves the database as it is.
LEMMA RaiseRests ==
  ASSUME IInv, NEW d \in Drivers, Raise(d), UNCHANGED db,
         tries' \in Nat, faults' \in Nat
  PROVE  IInv' /\ Monotone
<1>1. PICK pc \in Resting : Goto(d, pc)
  BY DEF Raise, Resting
<1> QED  BY <1>1, Rests

\* A move to a given local state.
LEMMA SetMoves ==
  ASSUME TypeOK, NEW d \in Drivers, NEW t \in TaskState,
         task' = [task EXCEPT ![d] = t]
  PROVE  /\ task' \in [Drivers -> TaskState]
         /\ task'[d] = t
         /\ \A e \in Drivers \ {d} : task'[e] = task[e]
BY DEF TypeOK

\* A move that also learns a state of the row and a stage.
LEMMA MoveMoves ==
  ASSUME TypeOK, NEW d \in Drivers, NEW pc \in PC, NEW s \in RowState,
         NEW g \in NoLedger..Completed, Move(d, pc, s, g)
  PROVE  /\ task' \in [Drivers -> TaskState]
         /\ task'[d].pc = pc
         /\ task'[d].value = task[d].value
         /\ task'[d].state = s
         /\ task'[d].stage = g
         /\ \A e \in Drivers \ {d} : task'[e] = task[e]
<1> DEFINE t == [pc |-> pc, value |-> task[d].value, state |-> s, stage |-> g]
<1>1. task[d] \in TaskState
  BY DEF TypeOK
<1>2. t \in TaskState /\ t.pc = pc /\ t.value = task[d].value
      /\ t.state = s /\ t.stage = g
  BY <1>1 DEF TaskState
<1>3. task' = [task EXCEPT ![d] = t]
  BY DEF Move
<1> HIDE DEF t
<1> QED  BY <1>2, <1>3, SetMoves

(***************************************************************************)
(* The controller before it reaches the ledger                             *)
(***************************************************************************)
LEMMA BeginFinalizeKeeps ==
  ASSUME IInv, NEW v \in Values, BeginFinalize(v)
  PROVE  IInv' /\ Monotone
<1> DEFINE d == Controller
           t == [pc |-> "save", value |-> v, stage |-> NoLedger,
                 state |-> [Transition(row, "running", "finalization", v.status)
                              EXCEPT !.answer = v]]
<1>1. d \in Drivers /\ TypeOK /\ UNCHANGED db
  BY DEF Drivers, BeginFinalize, IInv
<1>2. tries' \in Nat /\ faults' \in Nat
  BY <1>1 DEF BeginFinalize, TypeOK, CallsOfFinalize
<1>3. CASE CanTransition(row, "running", "finalization", v.status)
  <2>1. task' = [task EXCEPT ![d] = t]
    BY <1>3 DEF BeginFinalize
  <2>2. /\ t.state \in RowState
        /\ ~IsTerminal(row)
        /\ t.state.status = "running"
        /\ t.state.version = row.version + 1
    BY <1>1, <1>3, ValuesAssumption, IntentTransition DEF TypeOK, IsTerminal
  <2>3. t.pc = "save" /\ t.value = v /\ t.stage = NoLedger
    OBVIOUS
  <2>4. t \in TaskState
    BY <2>2 DEF TaskState, PC, NoLedger, Completed
  <2> HIDE DEF t
  <2>5. /\ task' \in [Drivers -> TaskState]
        /\ task'[d] = t
        /\ \A e \in Drivers \ {d} : task'[e] = task[e]
    BY <1>1, <2>1, <2>4, SetMoves
  <2>6. TypeOK'
    BY <1>1, <1>2, <2>5 DEF TypeOK, db
  <2>7. row.version \in Nat
    BY <1>1 DEF TypeOK, RowState
  <2>8. IntentIsNextOrLags(d)'
    BY <1>1, <2>2, <2>5, <2>7 DEF IntentIsNextOrLags, db, IsTerminal
  <2>9. DriverInv(d)'
    BY <2>3, <2>5, <2>8 DEF DriverInv, FollowsLedger, WorksBeforeAdvancing,
                            ReadsOrLags, HoldsOutcome
  <2>10. Monotone /\ Global'
    BY <1>1, SameDatabase
  <2> QED  BY <1>1, <2>5, <2>6, <2>9, <2>10, OneMoves
<1>4. CASE ~CanTransition(row, "running", "finalization", v.status)
  <2>1. Goto(d, "stopped") /\ "stopped" \in Resting
    BY <1>4 DEF BeginFinalize, Resting
  <2> QED  BY <1>1, <1>2, <2>1, Rests
<1> QED  BY <1>3, <1>4

\* An intent is saved only over the row it was computed from: not over a
\* terminal one.
LEMMA SaveIntentKeeps == IInv /\ SaveIntent => IInv' /\ Monotone
<1> SUFFICES ASSUME IInv, SaveIntent PROVE IInv' /\ Monotone
  OBVIOUS
<1> DEFINE d == Controller
<1>1. /\ d \in Drivers /\ TypeOK /\ DriverInv(d) /\ Global
      /\ tries' = tries /\ faults' = faults /\ At(d, "save")
      /\ ledger' = ledger /\ turn' = turn /\ active' = active
      /\ formation' = formation
  BY DEF Drivers, SaveIntent, IInv, Global, counts
<1>2. CASE ~CanSave(row, task[d].state)
  <2>1. Raise(d) /\ UNCHANGED db
    BY <1>1, <1>2 DEF SaveIntent, db
  <2> QED  BY <1>1, <2>1, RaiseRests DEF TypeOK
<1>3. CASE CanSave(row, task[d].state)
  <2>1. row' = task[d].state /\ Goto(d, "load") /\ "load" \in PC
    BY <1>3 DEF SaveIntent, PC
  <2>2. /\ task' \in [Drivers -> TaskState]
        /\ task'[d].pc = "load" /\ task'[d].value = task[d].value
        /\ \A e \in Drivers \ {d} : task'[e] = task[e]
    BY <1>1, <2>1, GotoMoves
  <2>3. task[d].state \in RowState /\ row \in RowState
    BY <1>1 DEF TypeOK, TaskState
  <2>4. row.version \in Nat /\ task[d].state.version \in Nat
    BY <2>3 DEF RowState
  <2>5. /\ task[d].state.status = "running"
        /\ task[d].state.version = row.version + 1 => ~IsTerminal(row)
    BY <1>1 DEF DriverInv, IntentIsNextOrLags, At
  <2>6. ~IsTerminal(row) /\ (row' = row \/ row'.version > row.version)
        /\ ~IsTerminal(row')
    BY <1>3, <2>1, <2>4, <2>5 DEF CanSave, IsTerminal, TerminalStatus
  <2>7. TypeOK'
    BY <1>1, <2>1, <2>2, <2>3 DEF TypeOK
  <2>8. Monotone
    BY <1>1, <2>6 DEF Monotone, TypeOK, NoLedger, Completed
  <2>9. Global'
    BY <1>1, <2>6, Zenon DEF Global, ReleasedOnlyWhenOver, ShownIsLocked, EndedAsLocked,
              LedgerTellsTheTruth, FormationLast, LockInv, IsTerminal
  <2>10. DriverInv(d)'
    BY <1>1, <2>2 DEF At, DriverInv, FollowsLedger, WorksBeforeAdvancing, ReadsOrLags,
                      IntentIsNextOrLags, HoldsOutcome
  <2> QED  BY <1>1, <2>2, <2>7, <2>8, <2>9, <2>10, OneMoves
<1> QED  BY <1>2, <1>3

\* finalize() loads the row, and keeps it when it may close the run.
LEMMA LoadRowKeeps == IInv /\ LoadRow => IInv' /\ Monotone
<1> SUFFICES ASSUME IInv, LoadRow PROVE IInv' /\ Monotone
  OBVIOUS
<1> DEFINE d == Controller
<1>1. /\ d \in Drivers /\ TypeOK /\ DriverInv(d) /\ UNCHANGED db
      /\ tries' = tries /\ faults' = faults /\ At(d, "load")
  BY DEF Drivers, LoadRow, IInv, counts
<1>2. CASE Raise(d)
  BY <1>1, <1>2, RaiseRests DEF TypeOK
<1>3. CASE ~Raise(d)
  <2>1. /\ Move(d, "prepare", row, NoLedger)
        /\ "prepare" \in PC /\ row \in RowState /\ NoLedger \in NoLedger..Completed
    BY <1>1, <1>3 DEF LoadRow, PC, TypeOK, NoLedger, Completed
  <2>2. /\ task' \in [Drivers -> TaskState]
        /\ task'[d].pc = "prepare" /\ task'[d].value = task[d].value
        /\ task'[d].state = row
        /\ \A e \in Drivers \ {d} : task'[e] = task[e]
    BY <1>1, <2>1, MoveMoves
  <2>3. TypeOK'
    BY <1>1, <2>2 DEF TypeOK, db
  <2>4. row.version \in Nat /\ row' = row
    BY <1>1 DEF TypeOK, RowState, db
  <2>5. DriverInv(d)'
    BY <1>1, <2>2, <2>4 DEF At, DriverInv, FollowsLedger, WorksBeforeAdvancing,
                            ReadsOrLags, IntentIsNextOrLags, HoldsOutcome
  <2> QED  BY <1>1, <2>2, <2>3, <2>5, SameDatabase, OneMoves
<1> QED  BY <1>2, <1>3

\* The first value is locked; a call with another one raises.
LEMMA PrepareLedgerKeeps == IInv /\ PrepareLedger => IInv' /\ Monotone
<1> SUFFICES ASSUME IInv, PrepareLedger PROVE IInv' /\ Monotone
  OBVIOUS
<1> DEFINE d == Controller
<1>1. /\ d \in Drivers /\ TypeOK /\ DriverInv(d) /\ Global
      /\ row' = row /\ turn' = turn /\ active' = active /\ formation' = formation
      /\ tries' = tries /\ faults' = faults /\ At(d, "prepare")
  BY DEF Drivers, PrepareLedger, IInv, counts, Global
<1>2. CASE Raise(d) /\ ledger' = ledger
  BY <1>1, <1>2, RaiseRests DEF TypeOK, db
<1> DEFINE value == task[d].value
           stage == IF ledger.stage = NoLedger THEN Prepared ELSE ledger.stage
<1>3. CASE ~(Raise(d) /\ ledger' = ledger)
  <2>1. /\ Move(d, "work", task[d].state, stage)
        /\ IF ledger.stage = NoLedger
           THEN ledger' = [ledger EXCEPT !.stage = Prepared, !.value = value]
           ELSE ledger' = ledger /\ ledger.value = value
    BY <1>3 DEF PrepareLedger
  <2>2. /\ "work" \in PC /\ task[d].state \in RowState /\ value \in Values
        /\ stage \in NoLedger..Completed /\ stage # NoLedger
        /\ ledger.stage \in NoLedger..Completed
    BY <1>1 DEF PC, TypeOK, TaskState, NoLedger, Completed, Prepared, DriverInv,
                HoldsOutcome, At
  <2>3. /\ ledger'.stage = stage /\ ledger'.value = value
        /\ ledger' \in [stage : NoLedger..Completed, value : Values \cup {NoValue},
                        attempts : Nat]
    BY <1>1, <2>1, <2>2 DEF TypeOK
  <2>4. /\ task' \in [Drivers -> TaskState]
        /\ task'[d].pc = "work" /\ task'[d].value = value
        /\ task'[d].state = task[d].state /\ task'[d].stage = stage
        /\ \A e \in Drivers \ {d} : task'[e] = task[e]
    BY <1>1, <2>1, <2>2, MoveMoves
  <2>5. TypeOK'
    BY <1>1, <2>3, <2>4 DEF TypeOK
  <2>6. ledger'.stage >= ledger.stage /\ (ledger.stage # NoLedger => ledger' = ledger)
    BY <2>1, <2>2, <2>3 DEF NoLedger, Completed, Prepared
  <2>7. Monotone
    BY <1>1, <2>6 DEF Monotone
  <2>8. ledger.stage = NoLedger => /\ turn.shown = NoValue /\ ~IsTerminal(row)
                                   /\ active /\ ~formation
    BY <1>1, ValuesAssumption DEF Global, LockInv, ShownIsLocked, EndedAsLocked,
         ReleasedOnlyWhenOver, FormationLast, TypeOK
  <2>9. Global'
    <3>1. CASE ledger.stage # NoLedger
      <4>1. UNCHANGED db
        BY <1>1, <2>6, <3>1 DEF db
      <4> QED  BY <4>1, SameDatabase
    <3>2. CASE ledger.stage = NoLedger
      <4>1. ledger'.stage = Prepared /\ ledger'.value # NoValue
        BY <2>2, <2>3, <3>2, ValuesAssumption
      <4> QED  BY <1>1, <2>8, <3>2, <4>1
               DEF Global, LockInv, ShownIsLocked, EndedAsLocked, ReleasedOnlyWhenOver,
                   FormationLast, LedgerTellsTheTruth, IsTerminal, NoLedger, Prepared,
                   HistorySaved, CheckpointSaved, Released, FormationSubmitted
    <3> QED  BY <3>1, <3>2
  <2>10. FollowsLedger(d)'
    BY <2>2, <2>3, <2>4 DEF FollowsLedger, NoLedger, Prepared, Completed
  <2>11. DriverInv(d)'
    BY <1>1, <2>4, <2>10 DEF At, DriverInv, WorksBeforeAdvancing, ReadsOrLags,
                             IntentIsNextOrLags, HoldsOutcome
  <2> QED  BY <1>1, <2>4, <2>5, <2>7, <2>9, <2>11, OneMoves
<1> QED  BY <1>2, <1>3

(***************************************************************************)
(* reconcile                                                               *)
(***************************************************************************)
LEMMA BeginReconcileKeeps ==
  ASSUME IInv, NEW d \in Drivers, BeginReconcile(d)
  PROVE  IInv' /\ Monotone
<1> DEFINE t == [pc |-> "mark", value |-> ledger.value, stage |-> ledger.stage,
                 state |-> task[d].state]
<1>1. /\ TypeOK /\ UNCHANGED db /\ tries' = tries /\ faults' = faults
      /\ ledger.stage # NoLedger
  BY DEF BeginReconcile, IInv, counts
<1>2. t.pc = "mark" /\ t.value = ledger.value /\ t.stage = ledger.stage
  OBVIOUS
<1>3. t \in TaskState
  BY <1>1 DEF TypeOK, TaskState, PC
<1>4. task' = [task EXCEPT ![d] = t]
  BY DEF BeginReconcile
<1> HIDE DEF t
<1>5. /\ task' \in [Drivers -> TaskState]
      /\ task'[d] = t
      /\ \A e \in Drivers \ {d} : task'[e] = task[e]
  BY <1>1, <1>3, <1>4, SetMoves
<1>6. TypeOK'
  BY <1>1, <1>5 DEF TypeOK, db
<1>7. FollowsLedger(d)'
  BY <1>1, <1>2, <1>5 DEF FollowsLedger, db, TypeOK, NoLedger, Prepared, Completed
<1>8. DriverInv(d)'
  BY <1>2, <1>5, <1>7 DEF DriverInv, WorksBeforeAdvancing, ReadsOrLags,
                          IntentIsNextOrLags, HoldsOutcome
<1> QED  BY <1>1, <1>5, <1>6, <1>8, SameDatabase, OneMoves

\* An attempt is counted in the ledger.
LEMMA MarkAttemptKeeps ==
  ASSUME IInv, NEW d \in Drivers, MarkAttempt(d)
  PROVE  IInv' /\ Monotone
<1>1. /\ TypeOK /\ tries' = tries /\ faults' = faults /\ DriverInv(d) /\ Global
      /\ row' = row /\ turn' = turn /\ active' = active /\ formation' = formation
      /\ At(d, "mark") /\ Goto(d, "reload") /\ "reload" \in PC
  BY DEF MarkAttempt, IInv, counts, PC, Global
<1>2. /\ ledger' \in [stage : NoLedger..Completed, value : Values \cup {NoValue},
                      attempts : Nat]
      /\ ledger'.stage = ledger.stage /\ ledger'.value = ledger.value
  <2> DEFINE n == IF ledger.attempts < MaxAttempts THEN ledger.attempts + 1
                  ELSE ledger.attempts
  <2>1. n \in Nat
    BY <1>1 DEF TypeOK
  <2>2. ledger' = [ledger EXCEPT !.attempts = n]
    BY DEF MarkAttempt
  <2> HIDE DEF n
  <2> QED  BY <1>1, <2>1, <2>2 DEF TypeOK
<1>3. /\ task' \in [Drivers -> TaskState]
      /\ task'[d].pc = "reload" /\ task'[d].value = task[d].value
      /\ task'[d].stage = task[d].stage
      /\ \A e \in Drivers \ {d} : task'[e] = task[e]
  BY <1>1, GotoMoves
<1>4. TypeOK'
  BY <1>1, <1>2, <1>3 DEF TypeOK
<1>5. Monotone
  BY <1>1, <1>2 DEF Monotone, TypeOK, NoLedger, Completed
<1>6. Global'
  BY <1>1, <1>2 DEF Global, LockInv, ShownIsLocked, EndedAsLocked,
       ReleasedOnlyWhenOver, FormationLast, LedgerTellsTheTruth, IsTerminal
<1>7. DriverInv(d)'
  BY <1>1, <1>2, <1>3 DEF At, DriverInv, FollowsLedger, WorksBeforeAdvancing,
                          ReadsOrLags, IntentIsNextOrLags, HoldsOutcome
<1> QED  BY <1>3, <1>4, <1>5, <1>6, <1>7, OneMoves

\* The driver works on the row as it is by now.
LEMMA ReloadRowKeeps ==
  ASSUME IInv, NEW d \in Drivers, ReloadRow(d)
  PROVE  IInv' /\ Monotone
<1>1. /\ TypeOK /\ UNCHANGED db /\ tries' = tries /\ faults' = faults
      /\ DriverInv(d) /\ At(d, "reload")
      /\ Move(d, "work", row, task[d].stage)
      /\ "work" \in PC /\ row \in RowState /\ task[d].stage \in NoLedger..Completed
  BY DEF ReloadRow, IInv, counts, PC, TypeOK, TaskState
<1>2. /\ task' \in [Drivers -> TaskState]
      /\ task'[d].pc = "work" /\ task'[d].value = task[d].value
      /\ task'[d].state = row /\ task'[d].stage = task[d].stage
      /\ \A e \in Drivers \ {d} : task'[e] = task[e]
  BY <1>1, MoveMoves
<1>3. TypeOK'
  BY <1>1, <1>2 DEF TypeOK, db
<1>4. row' = row /\ ledger' = ledger /\ row.version \in Nat
  BY <1>1 DEF db, RowState
<1>5. DriverInv(d)'
  BY <1>1, <1>2, <1>4 DEF At, DriverInv, FollowsLedger, WorksBeforeAdvancing,
                          ReadsOrLags, IntentIsNextOrLags, HoldsOutcome
<1> QED  BY <1>1, <1>2, <1>3, <1>5, SameDatabase, OneMoves

(***************************************************************************)
(* The stages                                                              *)
(***************************************************************************)

\* One assistant message is shown, and it is the locked one.
LEMMA SaveHistoryKeeps ==
  ASSUME IInv, NEW d \in Drivers, SaveHistory(d)
  PROVE  IInv' /\ Monotone
<1>1. /\ TypeOK /\ tries' = tries /\ faults' = faults /\ DriverInv(d) /\ Global
      /\ row' = row /\ ledger' = ledger /\ active' = active /\ formation' = formation
      /\ At(d, "work") /\ task[d].stage = Prepared
  BY DEF SaveHistory, IInv, counts, Global, Working
<1>2. CASE Raise(d) /\ turn' = turn
  BY <1>1, <1>2, RaiseRests DEF TypeOK, db
<1>3. CASE ~(Raise(d) /\ turn' = turn)
  <2>1. /\ Goto(d, "advance") /\ "advance" \in PC
        /\ IF turn.shown = NoValue
           THEN turn' = [shown |-> task[d].value, messages |-> turn.messages + 1]
           ELSE turn' = turn
    BY <1>3 DEF SaveHistory, PC
  <2>2. /\ task' \in [Drivers -> TaskState]
        /\ task'[d].pc = "advance" /\ task'[d].value = task[d].value
        /\ task'[d].state = task[d].state /\ task'[d].stage = Prepared
        /\ \A e \in Drivers \ {d} : task'[e] = task[e]
    BY <1>1, <2>1, GotoMoves
  <2>3. /\ task[d].value = ledger.value /\ ledger.value # NoValue
        /\ ledger.value \in Values
    BY <1>1 DEF DriverInv, FollowsLedger, At, Global, LockInv, TypeOK
  <2>4. /\ turn' \in [shown : Values \cup {NoValue}, messages : Nat]
        /\ turn'.shown # NoValue
        /\ turn'.shown = ledger.value /\ turn'.messages = 1
    BY <1>1, <2>1, <2>3 DEF TypeOK, Global, LockInv, ShownIsLocked
  <2>5. TypeOK'
    BY <1>1, <2>2, <2>4 DEF TypeOK
  <2>6. Monotone
    BY <1>1, <2>1 DEF Monotone, TypeOK, NoLedger, Completed
  <2>7. Global'
    BY <1>1, <2>4 DEF Global, LockInv, ShownIsLocked, EndedAsLocked,
         ReleasedOnlyWhenOver, FormationLast, LedgerTellsTheTruth, IsTerminal
  <2>8. Done(Prepared + 1)'
    BY <2>4 DEF Done, Prepared, HistorySaved, CheckpointSaved, Released,
                FormationSubmitted
  <2>9. DriverInv(d)'
    BY <1>1, <2>2, <2>8 DEF At, DriverInv, FollowsLedger, WorksBeforeAdvancing,
          ReadsOrLags, IntentIsNextOrLags, HoldsOutcome, Prepared, Completed
  <2> QED  BY <2>2, <2>5, <2>6, <2>7, <2>9, OneMoves
<1> QED  BY <1>2, <1>3

\* The checkpoint carries the locked status and is saved over the row it was
\* computed from; a terminal row it meets is left as it is.
LEMMA SaveCheckpointKeeps ==
  ASSUME IInv, NEW d \in Drivers, SaveCheckpoint(d)
  PROVE  IInv' /\ Monotone
<1> DEFINE v == task[d].value
           s == task[d].state
           terminal == Transition(s, v.status, "finalization", v.status)
<1>1. /\ TypeOK /\ tries' = tries /\ faults' = faults /\ DriverInv(d) /\ Global
      /\ ledger' = ledger /\ turn' = turn /\ active' = active /\ formation' = formation
      /\ At(d, "work") /\ task[d].stage = HistorySaved
  BY DEF SaveCheckpoint, IInv, counts, Global, Working
<1>2. CASE Raise(d) /\ row' = row
  BY <1>1, <1>2, RaiseRests DEF TypeOK, db
<1>3. CASE ~(Raise(d) /\ row' = row)
  <2>1. /\ CanTransition(s, v.status, "finalization", v.status)
        /\ CanSave(row, terminal)
        /\ row' = terminal
        /\ Move(d, "advance", terminal, HistorySaved)
    BY <1>3 DEF SaveCheckpoint
  <2>2. /\ v = ledger.value /\ ledger.value \in Values
        /\ ledger.stage >= HistorySaved
    BY <1>1 DEF DriverInv, FollowsLedger, At, Global, LockInv, TypeOK, NoLedger,
                HistorySaved, Completed
  <2>3. /\ v.status \in TerminalStatus
        /\ s \in RowState /\ row \in RowState
    BY <1>1, <2>2, ValuesAssumption DEF TypeOK, TaskState
  <2>4. /\ terminal \in RowState
        /\ terminal.status = v.status
        /\ IF s.status \in TerminalStatus THEN terminal = s
           ELSE terminal.version = s.version + 1
    BY <2>1, <2>3, TerminalTransition
  <2>5. /\ s.version <= row.version
        /\ s.version = row.version => s = row
        /\ s.version \in Nat /\ row.version \in Nat
    BY <1>1, <2>3 DEF DriverInv, ReadsOrLags, At, RowState
  <2> HIDE DEF s, v, terminal
  <2>6. /\ IsTerminal(row) => row' = row
        /\ row' = row \/ row'.version > row.version
    <3>1. CASE terminal = row
      BY <2>1, <2>5, <3>1
    <3>2. CASE terminal # row
      <4>1. terminal.version = row.version + 1
        BY <2>1, <3>2 DEF CanSave
      <4>2. s.status \notin TerminalStatus /\ s = row
        BY <2>4, <2>5, <4>1
      <4> QED  BY <2>1, <2>5, <4>1, <4>2 DEF IsTerminal
    <3> QED  BY <3>1, <3>2
  <2>7. "advance" \in PC /\ HistorySaved \in NoLedger..Completed
    BY DEF PC, HistorySaved, NoLedger, Completed
  <2>8. /\ task' \in [Drivers -> TaskState]
        /\ task'[d].pc = "advance" /\ task'[d].value = task[d].value
        /\ task'[d].state = terminal /\ task'[d].stage = HistorySaved
        /\ \A e \in Drivers \ {d} : task'[e] = task[e]
    BY <1>1, <2>1, <2>4, <2>7, MoveMoves
  <2>9. IsTerminal(row)' /\ row'.status = ledger.value.status
    BY <2>1, <2>2, <2>3, <2>4 DEF IsTerminal
  <2>10. turn.shown # NoValue
    BY <1>1, <2>2 DEF Global, LedgerTellsTheTruth
  <2>11. TypeOK'
    BY <1>1, <2>1, <2>4, <2>8 DEF TypeOK
  <2>12. Monotone
    BY <1>1, <2>6 DEF Monotone, TypeOK, NoLedger, Completed
  <2>13. Global'
    BY <1>1, <2>9, <2>10 DEF Global, LockInv, ShownIsLocked, EndedAsLocked,
         ReleasedOnlyWhenOver, FormationLast, LedgerTellsTheTruth
  <2>14. Done(HistorySaved + 1)'
    BY <2>9 DEF Done, HistorySaved, CheckpointSaved, Released, FormationSubmitted
  <2>15. ReadsOrLags(d)'
    BY <2>1, <2>4, <2>8 DEF ReadsOrLags, RowState
  <2>16. DriverInv(d)'
    BY <1>1, <2>8, <2>14, <2>15 DEF At, DriverInv, FollowsLedger, WorksBeforeAdvancing,
          IntentIsNextOrLags, HoldsOutcome, HistorySaved, Completed
  <2> QED  BY <2>8, <2>11, <2>12, <2>13, <2>16, OneMoves
<1> QED  BY <1>2, <1>3

\* The conversation is released once the checkpoint is saved.
LEMMA ReleaseActiveRunKeeps ==
  ASSUME IInv, NEW d \in Drivers, ReleaseActiveRun(d)
  PROVE  IInv' /\ Monotone
<1>1. /\ TypeOK /\ tries' = tries /\ faults' = faults /\ DriverInv(d) /\ Global
      /\ row' = row /\ ledger' = ledger /\ turn' = turn /\ formation' = formation
      /\ active' = FALSE
      /\ At(d, "work") /\ task[d].stage = CheckpointSaved
      /\ Goto(d, "advance") /\ "advance" \in PC
  BY DEF ReleaseActiveRun, IInv, counts, Global, Working, PC
<1>2. /\ task' \in [Drivers -> TaskState]
      /\ task'[d].pc = "advance" /\ task'[d].value = task[d].value
      /\ task'[d].state = task[d].state /\ task'[d].stage = CheckpointSaved
      /\ \A e \in Drivers \ {d} : task'[e] = task[e]
  BY <1>1, GotoMoves
<1>3. ledger.stage >= CheckpointSaved
  BY <1>1 DEF DriverInv, FollowsLedger, At, TypeOK, NoLedger, CheckpointSaved, Completed
<1>4. IsTerminal(row) /\ turn.shown # NoValue
  BY <1>1, <1>3 DEF Global, LedgerTellsTheTruth, EndedAsLocked
<1>5. TypeOK'
  BY <1>1, <1>2 DEF TypeOK
<1>6. Monotone
  BY <1>1 DEF Monotone, TypeOK, NoLedger, Completed
<1>7. Global'
  BY <1>1, <1>4 DEF Global, LockInv, ShownIsLocked, EndedAsLocked,
       ReleasedOnlyWhenOver, FormationLast, LedgerTellsTheTruth, IsTerminal
<1>8. Done(CheckpointSaved + 1)'
  BY <1>1 DEF Done, HistorySaved, CheckpointSaved, Released, FormationSubmitted
<1>9. DriverInv(d)'
  BY <1>1, <1>2, <1>8 DEF At, DriverInv, FollowsLedger, WorksBeforeAdvancing,
        ReadsOrLags, IntentIsNextOrLags, HoldsOutcome, CheckpointSaved, Completed
<1> QED  BY <1>2, <1>5, <1>6, <1>7, <1>9, OneMoves

\* Memory formation is submitted once the conversation is released.
LEMMA SubmitFormationKeeps ==
  ASSUME IInv, NEW d \in Drivers, SubmitFormation(d)
  PROVE  IInv' /\ Monotone
<1> DEFINE completed == ledger.value.status = "completed"
<1>1. /\ TypeOK /\ tries' = tries /\ faults' = faults /\ DriverInv(d) /\ Global
      /\ row' = row /\ ledger' = ledger /\ turn' = turn /\ active' = active
      /\ At(d, "work") /\ task[d].stage = Released
      /\ Goto(d, "advance") /\ "advance" \in PC
  BY DEF SubmitFormation, IInv, counts, Global, Working, PC
<1>2. /\ task' \in [Drivers -> TaskState]
      /\ task'[d].pc = "advance" /\ task'[d].value = task[d].value
      /\ task'[d].state = task[d].state /\ task'[d].stage = Released
      /\ \A e \in Drivers \ {d} : task'[e] = task[e]
  BY <1>1, GotoMoves
<1>3. task[d].value = ledger.value /\ ledger.stage >= Released
  BY <1>1 DEF DriverInv, FollowsLedger, At, TypeOK, NoLedger, Released, Completed
<1>4. formation' = (formation \/ task[d].value.status = "completed")
  BY DEF SubmitFormation
<1>5. formation => completed
  BY <1>1 DEF Global, FormationLast
<1>6. formation' = completed /\ formation' \in BOOLEAN
  <2>1. formation' = (formation \/ completed)
    BY <1>3, <1>4
  <2>2. formation \in BOOLEAN
    BY <1>1 DEF TypeOK
  <2>3. CASE formation
    BY <1>5, <2>1, <2>3
  <2>4. CASE ~formation
    BY <2>1, <2>4
  <2> QED  BY <2>3, <2>4
<1>7. ~active
  BY <1>1, <1>3 DEF Global, LedgerTellsTheTruth
<1>8. TypeOK'
  BY <1>1, <1>2, <1>6 DEF TypeOK
<1>9. Monotone
  BY <1>1, <1>5, <1>6 DEF Monotone, TypeOK, NoLedger, Completed
<1>10. Global'
  BY <1>1, <1>6, <1>7 DEF Global, LockInv, ShownIsLocked, EndedAsLocked,
       ReleasedOnlyWhenOver, FormationLast, LedgerTellsTheTruth, IsTerminal
<1>11. Done(Released + 1)'
  <2>1. formation' <=> ledger'.value.status = "completed"
    BY <1>1, <1>6
  <2>2. Released + 1 = FormationSubmitted /\ FormationSubmitted # HistorySaved
        /\ FormationSubmitted # CheckpointSaved /\ FormationSubmitted # Released
    BY DEF HistorySaved, CheckpointSaved, Released, FormationSubmitted
  <2> QED  BY <2>1, <2>2, Zenon DEF Done
<1>12. DriverInv(d)'
  BY <1>1, <1>2, <1>11 DEF At, DriverInv, FollowsLedger, WorksBeforeAdvancing,
        ReadsOrLags, IntentIsNextOrLags, HoldsOutcome, Released, Completed
<1> QED  BY <1>2, <1>8, <1>9, <1>10, <1>12, OneMoves

\* A driver goes on to complete once the formation is submitted.
LEMMA BeginCompleteKeeps ==
  ASSUME IInv, NEW d \in Drivers, BeginComplete(d)
  PROVE  IInv' /\ Monotone
<1>1. /\ TypeOK /\ tries' = tries /\ faults' = faults /\ DriverInv(d) /\ UNCHANGED db
      /\ At(d, "work") /\ task[d].stage = FormationSubmitted
      /\ Goto(d, "advance") /\ "advance" \in PC
  BY DEF BeginComplete, IInv, counts, Working, PC
<1>2. /\ task' \in [Drivers -> TaskState]
      /\ task'[d].pc = "advance" /\ task'[d].value = task[d].value
      /\ task'[d].state = task[d].state /\ task'[d].stage = FormationSubmitted
      /\ \A e \in Drivers \ {d} : task'[e] = task[e]
  BY <1>1, GotoMoves
<1>3. TypeOK'
  BY <1>1, <1>2 DEF TypeOK, db
<1>4. Done(FormationSubmitted + 1)'
  BY DEF Done, HistorySaved, CheckpointSaved, Released, FormationSubmitted
<1>5. DriverInv(d)'
  BY <1>1, <1>2, <1>4 DEF At, DriverInv, FollowsLedger, WorksBeforeAdvancing,
        ReadsOrLags, IntentIsNextOrLags, HoldsOutcome, FormationSubmitted, Completed, db
<1> QED  BY <1>1, <1>2, <1>3, <1>5, SameDatabase, OneMoves

\* The stage is taken from the ledger's own next one, whose effect is there.
LEMMA AdvanceKeeps ==
  ASSUME IInv, NEW d \in Drivers, Advance(d)
  PROVE  IInv' /\ Monotone
<1> DEFINE k == task[d].stage
<1>1. /\ TypeOK /\ tries' = tries /\ faults' = faults /\ DriverInv(d) /\ Global
      /\ row' = row /\ turn' = turn /\ active' = active /\ formation' = formation
      /\ At(d, "advance")
  BY DEF Advance, IInv, counts, Global
<1>2. CASE Raise(d) /\ ledger' = ledger
  BY <1>1, <1>2, RaiseRests DEF TypeOK, db
<1>3. CASE ~(Raise(d) /\ ledger' = ledger)
  <2> DEFINE n == IF k + 1 = Completed /\ ledger.attempts < MaxAttempts
                  THEN ledger.attempts + 1 ELSE ledger.attempts
             l == [ledger EXCEPT !.stage = k + 1]
  <2>1. /\ ledger.stage = k
        /\ ledger' = [l EXCEPT !.attempts = n]
        /\ Move(d, "work", task[d].state, k + 1)
    BY <1>1, <1>3 DEF Advance, TypeOK
  <2>2. n \in Nat
    BY <1>1 DEF TypeOK
  <2>3. k \in Prepared..Completed /\ k # Completed /\ Done(k + 1)
        /\ task[d].value = ledger.value /\ ledger.stage # NoLedger
    BY <1>1, <2>1 DEF DriverInv, FollowsLedger, WorksBeforeAdvancing, At, TypeOK,
                NoLedger, Prepared, Completed
  <2>4. k + 1 \in NoLedger..Completed /\ k \in Nat /\ k >= Prepared
    BY <2>3 DEF NoLedger, Prepared, Completed
  <2> HIDE DEF n, k
  <2>5. /\ l \in [stage : NoLedger..Completed, value : Values \cup {NoValue},
                 attempts : Nat]
        /\ l.stage = k + 1 /\ l.value = ledger.value
    BY <1>1, <2>4 DEF TypeOK
  <2> HIDE DEF l
  <2>6. /\ ledger' \in [stage : NoLedger..Completed, value : Values \cup {NoValue},
                        attempts : Nat]
        /\ ledger'.stage = k + 1 /\ ledger'.value = ledger.value
    BY <2>1, <2>2, <2>5
  <2>7. task[d].state \in RowState /\ "work" \in PC
    BY <1>1 DEF TypeOK, TaskState, PC
  <2>8. /\ task' \in [Drivers -> TaskState]
        /\ task'[d].pc = "work" /\ task'[d].value = task[d].value
        /\ task'[d].state = task[d].state /\ task'[d].stage = k + 1
        /\ \A e \in Drivers \ {d} : task'[e] = task[e]
    BY <1>1, <2>1, <2>4, <2>7, MoveMoves
  <2>9. TypeOK'
    BY <1>1, <2>6, <2>8 DEF TypeOK
  <2>10. Monotone
    BY <1>1, <2>1, <2>4, <2>6 DEF Monotone
  <2>11. LedgerTellsTheTruth'
    <3>1. /\ k + 1 >= HistorySaved => turn.shown # NoValue
          /\ k + 1 >= CheckpointSaved => IsTerminal(row)
          /\ k + 1 >= Released => ~active
          /\ k + 1 >= FormationSubmitted =>
               (formation <=> ledger.value.status = "completed")
      BY <1>1, <2>1, <2>3, <2>4 DEF Done, Global, LedgerTellsTheTruth, HistorySaved,
           CheckpointSaved, Released, FormationSubmitted
    <3> QED  BY <1>1, <2>6, <3>1 DEF LedgerTellsTheTruth, IsTerminal
  <2>12. Global'
    BY <1>1, <2>3, <2>4, <2>6, <2>11 DEF Global, LockInv, ShownIsLocked, EndedAsLocked,
       ReleasedOnlyWhenOver, FormationLast, IsTerminal, NoLedger
  <2>13. DriverInv(d)'
    BY <1>1, <2>3, <2>4, <2>6, <2>8 DEF At, DriverInv, FollowsLedger,
         WorksBeforeAdvancing, ReadsOrLags, IntentIsNextOrLags, HoldsOutcome,
         Prepared, NoLedger
  <2> QED  BY <2>8, <2>9, <2>10, <2>12, <2>13, OneMoves
<1> QED  BY <1>2, <1>3

\* One step of a driver, whichever stage it is at.
LEMMA DriveKeeps ==
  ASSUME IInv, NEW d \in Drivers, Drive(d)
  PROVE  IInv' /\ Monotone
<1>1. CASE Return(d)
  <2>1. /\ Goto(d, "done") /\ "done" \in Resting /\ UNCHANGED db
        /\ tries' \in Nat /\ faults' \in Nat
    BY <1>1 DEF Return, Resting, counts, IInv, TypeOK
  <2> QED  BY <2>1, Rests
<1> QED  BY <1>1, SaveHistoryKeeps, SaveCheckpointKeeps, ReleaseActiveRunKeeps,
            SubmitFormationKeeps, BeginCompleteKeeps, AdvanceKeeps DEF Drive

(***************************************************************************)
(* Every step                                                              *)
(***************************************************************************)
LEMMA NextKeeps == IInv /\ [Next]_vars => IInv' /\ Monotone
<1> SUFFICES ASSUME IInv, [Next]_vars PROVE IInv' /\ Monotone
  OBVIOUS
<1>1. Controller \in Drivers /\ Reconcilers \subseteq Drivers /\ TypeOK
  BY DEF Drivers, IInv
<1>2. ASSUME NEW v \in Values, BeginFinalize(v) PROVE IInv' /\ Monotone
  BY <1>2, BeginFinalizeKeeps
<1>3. CASE ControllerStep
  BY <1>1, <1>3, SaveIntentKeeps, LoadRowKeeps, PrepareLedgerKeeps, DriveKeeps
     DEF ControllerStep
<1>4. ASSUME NEW d \in Reconcilers, ReconcilerStep(d) PROVE IInv' /\ Monotone
  BY <1>1, <1>4, BeginReconcileKeeps, MarkAttemptKeeps, ReloadRowKeeps, DriveKeeps
     DEF ReconcilerStep
<1>5. ASSUME NEW d \in Drivers, Stop(d) PROVE IInv' /\ Monotone
  <2>1. /\ Goto(d, "stopped") /\ "stopped" \in Resting /\ UNCHANGED db
        /\ tries' \in Nat /\ faults' \in Nat
    BY <1>1, <1>5 DEF Stop, Resting, TypeOK
  <2> QED  BY <2>1, Rests
<1>6. CASE Cancel
  <2>1. /\ Goto(Controller, "cancelled") /\ "cancelled" \in Resting /\ UNCHANGED db
        /\ tries' \in Nat /\ faults' \in Nat
    BY <1>1, <1>6 DEF Cancel, Resting, TypeOK
  <2> QED  BY <1>1, <2>1, Rests
<1>7. CASE Fail
  <2>1. Raise(Controller) /\ UNCHANGED db /\ tries' \in Nat /\ faults' \in Nat
    BY <1>1, <1>7 DEF Fail, TypeOK
  <2> QED  BY <1>1, <2>1, RaiseRests
<1>8. CASE UNCHANGED vars
  <2>1. UNCHANGED db /\ task' = task /\ tries' = tries /\ faults' = faults
    BY <1>8 DEF vars, db
  <2>2. Monotone /\ Global'
    BY <2>1, SameDatabase
  <2>3. TypeOK'
    BY <1>1, <2>1 DEF TypeOK, db
  <2>4. ASSUME NEW e \in Drivers PROVE DriverInv(e)'
    BY <1>1, <2>1, <2>2, <2>3, OthersKeep DEF IInv
  <2> QED  BY <2>2, <2>3, <2>4 DEF IInv, Global
<1> QED  BY <1>2, <1>3, <1>4, <1>5, <1>6, <1>7, <1>8 DEF Next

\* The inductive invariant holds for ever.
LEMMA Invariant == Spec => []IInv
<1>1. IInv /\ [Next]_vars => IInv'
  BY NextKeeps
<1> QED  BY <1>1, InitIInv, PTL DEF Spec

(***************************************************************************)
(* Safety                                                                  *)
(***************************************************************************)

\* Every variable stays in its type, with any number of drivers.
THEOREM TypeCorrect == Spec => []TypeOK
<1>1. IInv => TypeOK
  BY DEF IInv
<1> QED  BY <1>1, Invariant, PTL

\* A free conversation has a terminal run whose answer is in the history
\* (order of the stages in _drive).
THEOREM ReleaseIsSafe == Spec => []ReleasedOnlyWhenOver
<1>1. IInv => ReleasedOnlyWhenOver
  BY DEF IInv
<1> QED  BY <1>1, Invariant, PTL

\* One assistant message is shown, the locked one (finish_turn, prepare).
THEOREM OneAnswer == Spec => []ShownIsLocked
<1>1. IInv => ShownIsLocked
  BY DEF IInv
<1> QED  BY <1>1, Invariant, PTL

\* A terminal run has the locked status and a visible answer (_drive).
THEOREM EndsAsLocked == Spec => []EndedAsLocked
<1>1. IInv => EndedAsLocked
  BY DEF IInv
<1> QED  BY <1>1, Invariant, PTL

\* The effect of every stage the ledger claims is in the database: a reconcile
\* may start at any of them (advance comes after the stage's work).
THEOREM LedgerIsTrue == Spec => []LedgerTellsTheTruth
<1>1. IInv => LedgerTellsTheTruth
  BY DEF IInv
<1> QED  BY <1>1, Invariant, PTL

\* Memory is formed from completed runs and after the release (_submit_formation).
THEOREM FormationIsLast == Spec => []FormationLast
<1>1. IInv => FormationLast
  BY DEF IInv
<1> QED  BY <1>1, Invariant, PTL

\* No driver, late or stale, rewrites a terminal run (_assert_version,
\* transition_harness_state).
THEOREM TerminalStays == Spec => TerminalIsFinal
<1>1. IInv /\ [Next]_vars => [IsTerminal(row) => row' = row]_row
  BY NextKeeps DEF Monotone
<1> QED  BY <1>1, Invariant, PTL DEF Spec, TerminalIsFinal

\* What a step may do to the ledger.
LEMMA LedgerStep ==
  ASSUME IInv, Next
  PROVE  ledger' = ledger \/ ledger'.stage \in {ledger.stage, ledger.stage + 1}
<1>1. ASSUME NEW l, l = ledger, NEW k \in Nat, NEW n,
             ledger' = [l EXCEPT !.stage = k, !.attempts = n]
      PROVE  ledger'.stage = k
  BY <1>1 DEF IInv, TypeOK
<1>2. CASE \E v \in Values : BeginFinalize(v)
  BY <1>2 DEF BeginFinalize, db
<1>3. CASE PrepareLedger
  <2>1. CASE ledger' # ledger
    <3>1. /\ ledger.stage = NoLedger
          /\ ledger' = [ledger EXCEPT !.stage = Prepared,
                                     !.value = task[Controller].value]
      BY <1>3, <2>1 DEF PrepareLedger
    <3>2. Prepared = NoLedger + 1 /\ ledger'.stage = Prepared
      BY <3>1 DEF IInv, TypeOK, NoLedger, Prepared
    <3> QED  BY <3>1, <3>2
  <2> QED  BY <2>1
<1>4. ASSUME NEW d \in Drivers, Drive(d)
      PROVE  ledger' = ledger \/ ledger'.stage \in {ledger.stage, ledger.stage + 1}
  <2>1. CASE Advance(d)
    <3>1. ledger.stage + 1 \in Nat
      BY DEF IInv, TypeOK, NoLedger, Completed
    <3> QED  BY <1>1, <2>1, <3>1, ZenonT(60) DEF Advance
  <2> QED  BY <1>4, <2>1 DEF Drive, SaveHistory, SaveCheckpoint, ReleaseActiveRun,
                             SubmitFormation, BeginComplete, Return, db
<1>5. CASE ControllerStep
  <2>1. Controller \in Drivers
    BY DEF Drivers
  <2> QED  BY <1>3, <1>4, <1>5, <2>1 DEF ControllerStep, SaveIntent, LoadRow, db
<1>6. ASSUME NEW d \in Reconcilers, ReconcilerStep(d)
      PROVE  ledger' = ledger \/ ledger'.stage \in {ledger.stage, ledger.stage + 1}
  <2>1. d \in Drivers
    BY DEF Drivers
  <2>2. CASE MarkAttempt(d)
    BY <2>2 DEF MarkAttempt, IInv, TypeOK
  <2> QED  BY <1>4, <1>6, <2>1, <2>2 DEF ReconcilerStep, BeginReconcile, ReloadRow, db
<1>7. CASE (\E d \in Drivers : Stop(d)) \/ Cancel \/ Fail
  BY <1>7 DEF Stop, Cancel, Fail, db
<1> QED  BY <1>2, <1>5, <1>6, <1>7 DEF Next

\* The lock is never replaced, the ledger moves one stage at a time and never
\* back (prepare, advance).
THEOREM LedgerAdvances == Spec => LedgerOnlyAdvances
<1> DEFINE A == /\ ledger.stage' \in {ledger.stage, ledger.stage + 1}
                /\ ledger.value # NoValue => ledger'.value = ledger.value
<1>1. IInv /\ [Next]_vars => [A]_ledger
  <2> SUFFICES ASSUME IInv, [Next]_vars, ledger' # ledger PROVE A
    OBVIOUS
  <2>1. Next
    BY DEF vars
  <2>2. ledger.value # NoValue => ledger'.value = ledger.value
    BY NextKeeps DEF Monotone, IInv, LockInv
  <2> QED  BY <2>1, <2>2, LedgerStep
<1> QED  BY <1>1, Invariant, PTL DEF Spec, LedgerOnlyAdvances

(***************************************************************************)
(* Refinement: every step of the code is one step of the promise, or none. *)
(***************************************************************************)

\* What the promise sees of a state.
LEMMA PromiseStutters ==
  ASSUME IInv, UNCHANGED <<row, ledger, turn, active, formation>>
  PROVE  UNCHANGED Promise!vars
BY DEF Promise!vars, IsTerminal

\* A step of a driver is a step of the promise, or changes nothing it is about.
LEMMA PromiseDrive ==
  ASSUME IInv, IInv', Monotone, NEW d \in Drivers, Drive(d)
  PROVE  [Promise!Next]_(Promise!vars)
<1>1. DriverInv(d) /\ TypeOK /\ Global
  BY DEF IInv, Global
<1>2. CASE SaveHistory(d)
  <2>1. /\ row' = row /\ ledger' = ledger /\ active' = active /\ formation' = formation
        /\ task[d].pc = "work"
    BY <1>2 DEF SaveHistory, Working, At
  <2>2. task[d].value = ledger.value /\ ledger.value # NoValue
    BY <1>1, <2>1 DEF DriverInv, FollowsLedger, Global, LockInv
  <2>3. CASE turn' = turn
    BY <2>1, <2>3, PromiseStutters
  <2>4. CASE turn' # turn
    <3>1. turn.shown = NoValue /\ turn'.shown = ledger.value
      BY <1>2, <2>2, <2>4 DEF SaveHistory
    <3> QED  BY <2>1, <2>2, <3>1 DEF Promise!Next, Promise!Publish, IsTerminal
  <2> QED  BY <2>3, <2>4
<1>3. CASE SaveCheckpoint(d)
  <2>1. /\ ledger' = ledger /\ turn' = turn /\ active' = active /\ formation' = formation
        /\ task[d].pc = "work" /\ task[d].stage = HistorySaved
    BY <1>3 DEF SaveCheckpoint, Working, At
  <2>2. turn.shown # NoValue
    BY <1>1, <2>1 DEF DriverInv, FollowsLedger, Global, LedgerTellsTheTruth, TypeOK,
                      HistorySaved, NoLedger, Completed
  <2>3. IsTerminal(row) => IsTerminal(row)'
    BY DEF Monotone, IsTerminal
  <2>4. CASE IsTerminal(row) <=> IsTerminal(row)'
    BY <2>1, <2>4 DEF Promise!vars, IsTerminal
  <2>5. CASE ~IsTerminal(row) /\ IsTerminal(row)'
    <3>1. (IsTerminal(row)) = FALSE /\ (IsTerminal(row))' = TRUE
      BY <2>5 DEF IsTerminal
    <3> QED  BY <2>1, <2>2, <3>1 DEF Promise!Next, Promise!End
  <2> QED  BY <2>3, <2>4, <2>5
<1>4. CASE ReleaseActiveRun(d)
  <2>1. /\ row' = row /\ ledger' = ledger /\ turn' = turn /\ formation' = formation
        /\ active' = FALSE /\ active \in BOOLEAN
    BY <1>1, <1>4 DEF ReleaseActiveRun, TypeOK
  <2>2. IsTerminal(row)
    BY <2>1 DEF IInv, ReleasedOnlyWhenOver, IsTerminal
  <2>3. CASE active = FALSE
    BY <2>1, <2>3, PromiseStutters
  <2>4. CASE active = TRUE
    BY <2>1, <2>2, <2>4 DEF Promise!Next, Promise!Free, IsTerminal
  <2> QED  BY <2>1, <2>3, <2>4
<1>5. CASE SubmitFormation(d)
  <2>1. /\ row' = row /\ ledger' = ledger /\ turn' = turn /\ active' = active
        /\ task[d].pc = "work" /\ task[d].stage = Released
        /\ formation \in BOOLEAN /\ formation' \in BOOLEAN
    BY <1>1, <1>5 DEF SubmitFormation, TypeOK, Working, At, IInv
  <2>2. ~active
    BY <1>1, <2>1 DEF DriverInv, FollowsLedger, Global, LedgerTellsTheTruth, TypeOK,
                      Released, NoLedger, Completed
  <2>3. CASE formation' = formation
    BY <2>1, <2>3, PromiseStutters
  <2>4. CASE formation' # formation
    <3>1. formation = FALSE /\ formation' = TRUE
      BY <2>1, <2>4 DEF Monotone
    <3>2. ledger.value.status = "completed"
      BY <3>1 DEF Monotone
    <3> QED  BY <2>1, <2>2, <3>1, <3>2 DEF Promise!Next, Promise!Learn, IsTerminal
  <2> QED  BY <2>3, <2>4
<1>6. CASE BeginComplete(d) \/ Return(d)
  <2>1. UNCHANGED <<row, ledger, turn, active, formation>>
    BY <1>6 DEF BeginComplete, Return, db
  <2> QED  BY <2>1, PromiseStutters
<1>7. CASE Advance(d)
  <2>1. row' = row /\ turn' = turn /\ active' = active /\ formation' = formation
        /\ task[d].pc = "advance"
    BY <1>7 DEF Advance, At
  <2>2. ledger'.value = ledger.value
    BY <1>1, <2>1 DEF Monotone, DriverInv, FollowsLedger
  <2> QED  BY <2>1, <2>2 DEF Promise!vars, IsTerminal
<1> QED  BY <1>2, <1>3, <1>4, <1>5, <1>6, <1>7 DEF Drive

\* A step of the closing is a step of the promise, or changes nothing it is about.
LEMMA PromiseStep ==
  ASSUME IInv, [Next]_vars
  PROVE  [Promise!Next]_(Promise!vars)
<1>1. IInv' /\ Monotone
  BY NextKeeps
<1>2. Controller \in Drivers /\ Reconcilers \subseteq Drivers
  BY DEF Drivers
<1>3. CASE SaveIntent
  <2>1. /\ ledger' = ledger /\ turn' = turn /\ active' = active /\ formation' = formation
        /\ task[Controller].pc = "save"
        /\ row' = row \/ row' = task[Controller].state
    BY <1>3 DEF SaveIntent, At
  <2>2. task[Controller].state.status = "running"
    BY <1>2, <2>1 DEF IInv, DriverInv, IntentIsNextOrLags
  <2>3. IsTerminal(row)' <=> IsTerminal(row)
    BY <1>1, <2>1, <2>2 DEF Monotone, IsTerminal, TerminalStatus
  <2> QED  BY <2>1, <2>3 DEF Promise!vars, IsTerminal
<1>4. CASE PrepareLedger
  <2>1. row' = row /\ turn' = turn /\ active' = active /\ formation' = formation
        /\ task[Controller].pc = "prepare"
    BY <1>4 DEF PrepareLedger, At
  <2>2. CASE ledger' = ledger
    BY <2>1, <2>2, PromiseStutters
  <2>3. CASE ledger' # ledger
    <3>1. /\ ledger.stage = NoLedger
          /\ ledger' = [ledger EXCEPT !.stage = Prepared,
                                     !.value = task[Controller].value]
      BY <1>4, <2>3 DEF PrepareLedger
    <3>2. ledger'.value = task[Controller].value /\ ledger.value = NoValue
      BY <3>1 DEF IInv, LockInv, TypeOK
    <3>3. task[Controller].value \in Values
      BY <1>2, <2>1 DEF IInv, DriverInv, HoldsOutcome
    <3> QED  BY <2>1, <3>2, <3>3 DEF Promise!Next, Promise!Choose, IsTerminal
  <2> QED  BY <2>2, <2>3
<1>5. CASE \/ \E v \in Values : BeginFinalize(v)
           \/ LoadRow
           \/ \E d \in Reconcilers : BeginReconcile(d) \/ ReloadRow(d)
           \/ \E d \in Drivers : Stop(d)
           \/ Cancel
           \/ Fail
           \/ UNCHANGED vars
  <2>1. UNCHANGED <<row, ledger, turn, active, formation>>
    BY <1>5 DEF BeginFinalize, LoadRow, BeginReconcile, ReloadRow, Stop, Cancel, Fail,
                db, vars
  <2> QED  BY <2>1, PromiseStutters
<1>6. ASSUME NEW d \in Reconcilers, MarkAttempt(d)
      PROVE  [Promise!Next]_(Promise!vars)
  <2>1. row' = row /\ turn' = turn /\ active' = active /\ formation' = formation
        /\ task[d].pc = "mark"
    BY <1>6 DEF MarkAttempt, At
  <2>2. ledger'.value = ledger.value
    BY <1>1, <1>2, <2>1 DEF Monotone, IInv, DriverInv, FollowsLedger
  <2> QED  BY <2>1, <2>2 DEF Promise!vars, IsTerminal
<1>7. CASE Drive(Controller)
  BY <1>1, <1>2, <1>7, PromiseDrive
<1>8. ASSUME NEW d \in Reconcilers, Drive(d) PROVE [Promise!Next]_(Promise!vars)
  BY <1>1, <1>2, <1>8, PromiseDrive
<1> QED  BY <1>3, <1>4, <1>5, <1>6, <1>7, <1>8 DEF Next, ControllerStep, ReconcilerStep

\* Closing a run, with every crash, race and replay, implements the promise.
THEOREM Refinement == Spec => KeepsPromise
<1>1. Init => Promise!Init
  <2>1. ~IsTerminal(InitialRow)
    BY DEF InitialRow, IsTerminal, TerminalStatus
  <2> QED  BY <2>1 DEF Init, Promise!Init, IsTerminal
<1>2. IInv /\ [Next]_vars => [Promise!Next]_(Promise!vars)
  BY PromiseStep
<1> QED  BY <1>1, <1>2, Invariant, PTL DEF Spec, KeepsPromise, Promise!Spec
=============================================================================
