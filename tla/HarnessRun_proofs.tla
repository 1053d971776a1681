-------------------------- MODULE HarnessRun_proofs --------------------------
(***************************************************************************)
(* Proofs about HarnessRun for any number of workers, requests, questions, *)
(* retries, iterations, confirmations, interruptions and dead processes.   *)
(***************************************************************************)
EXTENDS HarnessRun, FiniteSetTheorems, TLAPS

(***************************************************************************)
(* The inductive invariant.                                                *)
(***************************************************************************)

\* The worker executes the loop.
Runner(w) == task[w].pc \in Loop \ {"paused"}

Waiting == row.status = "waiting_confirmation"
Closing == row.phase = "finalization"

\* The requests of the first n actions that failed are in a state's memory.
Remembers(s, n) ==
  \A i \in DOMAIN actions :
    i <= n /\ actions[i].outcome \in Failure => actions[i].action.request \in s.failed

AnsweredQuestions ==
  {i \in DOMAIN confirmations : confirmations[i].status \in {"confirmed", "rejected"}}

AskedQuestions == {i \in DOMAIN confirmations : confirmations[i].status # "none"}

\* A run that waits goes on from its row, so the row remembers everything.
WaitingRow ==
  Waiting =>
    /\ row.phase = "wait_confirmation"
    /\ Remembers(row, Len(actions))
    /\ row.attempts < MaxConfirmations
    /\ row.iteration < MaxIterations
    /\ Len(actions) <= row.iteration + row.attempts + 1

ClosingRow == IsTerminal(row) \/ locked # NoIntent => Closing

\* attempts counts the answers, until another worker's copy of the row closes it.
AnswersCounted == ~Closing => Cardinality(AnsweredQuestions) = row.attempts

\* The last action is the final answer, and the loop is over.
Answered ==
  /\ actions # <<>>
  /\ actions[Len(actions)].action.kind = "final"
  /\ \A w \in Workers : ~Runner(w)
  /\ ~Waiting

CompletedInv == row.status = "completed" \/ locked = "completed" => Answered

\* What the worker in the loop knows: the whole log, and the row unless somebody
\* else is closing it.
RunnerKnows(w) ==
  LET s == task[w].state IN
  /\ s.status = "running"
  /\ s.phase # "finalization"
  /\ s.actionSeq = Len(actions)
  /\ s.version <= row.version
  /\ s.version = row.version <=> ~Closing
  /\ ~Waiting
  /\ ~Closing => s.attempts = row.attempts
  /\ s.iteration < MaxIterations
  /\ s.attempts <= MaxConfirmations

\* The action the worker in the loop is busy with, at each point of its way.
RunnerActs(w) ==
  LET s == task[w].state
      a == task[w].action
      n == Len(actions) IN
  /\ task[w].pc \in {"begin", "build", "plan", "commit", "rebuild"} =>
       n <= s.iteration + s.attempts /\ Remembers(s, n)
  /\ task[w].pc \in {"dispatch", "execute", "retry", "handle", "observe", "ask"} =>
       n > 0 /\ n <= s.iteration + s.attempts + 1 /\ Remembers(s, n - 1)
  /\ task[w].pc \in {"observe", "ask"} => Remembers(s, n)
  /\ At(w, "commit") => a \in Actions
  /\ task[w].pc \in {"dispatch", "execute", "retry", "handle"} =>
       a.kind = "tool" /\ actions[n].action = a
  /\ At(w, "dispatch") => actions[n].runs = 0 /\ s.toolRetries = 0
  /\ At(w, "execute") =>
       /\ actions[n].runs <= s.toolRetries /\ s.toolRetries <= MaxToolRetries
       /\ s.toolRetries > 0 => a.request \in Idempotent
  /\ At(w, "retry") =>
       /\ actions[n].runs <= s.toolRetries + 1 /\ s.toolRetries < MaxToolRetries
       /\ a.request \in Idempotent
  /\ At(w, "ask") => \/ a.kind = "tool"
                     \/ a.kind = "ask" /\ s.attempts < MaxConfirmations

\* The worker that closes the run has a copy of the row: an old one, this one, or
\* the next one of a run that waits, woken up in memory only.
CloserInv(w) ==
  LET s == task[w].state IN
  /\ s.status # "waiting_confirmation"
  /\ s.version <= row.version + 1
  /\ s.version = row.version + 1 => Waiting /\ s.status = "running"
  /\ s.version = row.version => s.status = row.status
  /\ s.actionSeq <= Len(actions)

WorkerInv(w) ==
  /\ Runner(w) => RunnerKnows(w) /\ RunnerActs(w)
  /\ At(w, "close") => CloserInv(w)
  /\ task[w].pc \in {"interrupted", "close", "finalize"} =>
       /\ task[w].close \in TerminalStatus
       /\ task[w].close = "completed" => Answered

Inv ==
  /\ TypeOK
  /\ LogMatchesRow /\ WaitingMeansOpenQuestion /\ OneRunner
  /\ ToolRunsAreBounded /\ FailedIsNotRepeated /\ LoopIsBounded
  /\ WaitingRow /\ ClosingRow /\ AnswersCounted /\ CompletedInv
  /\ \A w \in Workers : WorkerInv(w)

(***************************************************************************)
(* Lemmas about the control state.                                         *)
(***************************************************************************)

Worker == [pc : Busy \cup {"idle", "dead"}, state : ControlState,
           action : Actions \cup {NoAction}, close : Intent, guarded : BOOLEAN]

\* A running state in another phase: the next version, and all else as it was.
LEMMA EnterIs ==
  ASSUME NEW s \in ControlState, s.status = "running", NEW phase \in LoopPhase,
         NEW n, n = Enter(s, phase)
  PROVE  /\ n \in ControlState
         /\ n = [status |-> "running", phase |-> phase, intent |-> s.intent,
                 pending |-> s.pending, version |-> s.version + 1,
                 actionSeq |-> s.actionSeq, iteration |-> s.iteration,
                 plannerRetries |-> s.plannerRetries, toolRetries |-> s.toolRetries,
                 failed |-> s.failed, attempts |-> s.attempts,
                 lastQuestion |-> s.lastQuestion]
<1>1. ~IsTerminal(s) /\ "running" \in HarnessStatus
  BY DEF IsTerminal, TerminalStatus, HarnessStatus
<1>2. n = [s EXCEPT !.status = "running", !.phase = phase, !.intent = s.intent,
                    !.version = s.version + 1, !.pending = s.pending]
  BY <1>1 DEF Enter, Transition, Candidate, EffectiveIntent
<1>3. n = [status |-> "running", phase |-> phase, intent |-> s.intent,
           pending |-> s.pending, version |-> s.version + 1,
           actionSeq |-> s.actionSeq, iteration |-> s.iteration,
           plannerRetries |-> s.plannerRetries, toolRetries |-> s.toolRetries,
           failed |-> s.failed, attempts |-> s.attempts,
           lastQuestion |-> s.lastQuestion]
  BY <1>2 DEF ControlState
<1>4. n \in ControlState
  BY <1>1, <1>3 DEF ControlState
<1> QED  BY <1>3, <1>4

\* What Transition returns for a state that is not terminal.
LEMMA CandidateIs ==
  ASSUME NEW s \in ControlState, ~IsTerminal(s), NEW status \in HarnessStatus,
         NEW phase \in LoopPhase, NEW intent \in Intent,
         NEW n, n = Transition(s, status, phase, intent)
  PROVE  /\ n \in ControlState
         /\ n.status = status /\ n.phase = phase /\ n.version = s.version + 1
         /\ n.actionSeq = s.actionSeq /\ n.iteration = s.iteration
         /\ n.failed = s.failed /\ n.attempts = s.attempts
         /\ s.status # "waiting_confirmation" => n.pending = s.pending
<1> DEFINE i == EffectiveIntent(s, intent)
           p == IF s.status = "waiting_confirmation" /\ status = "running"
                THEN NoPending ELSE s.pending
<1>1. i \in Intent /\ p \in Nat
  BY DEF EffectiveIntent, ControlState, NoPending
<1>2. n = [s EXCEPT !.status = status, !.phase = phase, !.intent = i,
                    !.version = s.version + 1, !.pending = p]
  BY DEF Transition, Candidate
<1>3. s.status # "waiting_confirmation" => p = s.pending
  OBVIOUS
<1> HIDE DEF i, p
<1>4. n = [status |-> status, phase |-> phase, intent |-> i, pending |-> p,
           version |-> s.version + 1, actionSeq |-> s.actionSeq,
           iteration |-> s.iteration, plannerRetries |-> s.plannerRetries,
           toolRetries |-> s.toolRetries, failed |-> s.failed, attempts |-> s.attempts,
           lastQuestion |-> s.lastQuestion]
  BY <1>2 DEF ControlState
<1>5. n \in ControlState
  BY <1>1, <1>4 DEF ControlState
<1> QED  BY <1>3, <1>4, <1>5

(***************************************************************************)
(* Steps that move one worker.                                             *)
(***************************************************************************)

BoundsOK ==
  expired \in BOOLEAN /\ interrupts \in 0..MaxInterrupts /\ crashes \in 0..MaxCrashes

\* A step that moves one worker, not into the loop, and nothing else.
LEMMA TaskMoves ==
  ASSUME Inv, NEW w \in Workers, NEW x \in Worker, task' = [task EXCEPT ![w] = x],
         UNCHANGED <<row, actions, confirmations, locked>>, BoundsOK',
         x.pc \in Loop \ {"paused"} => Runner(w),
         WorkerInv(w)'
  PROVE  Inv'
<1>1. task'[w] = x /\ \A v \in Workers \ {w} : task'[v] = task[v]
  BY DEF Inv, TypeOK
<1>2. TypeOK'
  BY DEF Inv, TypeOK, Worker, BoundsOK
<1>3. \A v \in Workers : Runner(v)' => Runner(v)
  BY <1>1 DEF Runner
<1>4. OneRunner'
  BY <1>3 DEF Inv, OneRunner, Runner
<1>5. Answered => Answered'
  BY <1>3 DEF Answered, Waiting
<1>6. ASSUME NEW v \in Workers \ {w} PROVE WorkerInv(v)'
  <2>1. WorkerInv(v) /\ task'[v] = task[v] /\ (Runner(v)' <=> Runner(v))
    BY <1>1 DEF Inv, Runner
  <2>2. RunnerKnows(v) => RunnerKnows(v)'
    BY <2>1 DEF RunnerKnows, Closing, Waiting
  <2>3. RunnerActs(v) => RunnerActs(v)'
    BY <2>1 DEF RunnerActs, Remembers, At
  <2>4. CloserInv(v) => CloserInv(v)'
    BY <2>1 DEF CloserInv, Waiting
  <2> QED  BY <1>5, <2>1, <2>2, <2>3, <2>4 DEF WorkerInv, At
<1>7. /\ LogMatchesRow' /\ WaitingMeansOpenQuestion' /\ ToolRunsAreBounded'
      /\ FailedIsNotRepeated' /\ LoopIsBounded' /\ WaitingRow' /\ ClosingRow'
      /\ AnswersCounted' /\ CompletedInv'
  <2>1. LogMatchesRow' /\ WaitingMeansOpenQuestion' /\ ToolRunsAreBounded'
        /\ FailedIsNotRepeated' /\ LoopIsBounded'
    BY DEF Inv, LogMatchesRow, WaitingMeansOpenQuestion, ToolRunsAreBounded,
           FailedIsNotRepeated, LoopIsBounded
  <2>2. WaitingRow' /\ ClosingRow' /\ AnswersCounted'
    BY DEF Inv, WaitingRow, ClosingRow, AnswersCounted, Waiting, Closing, Remembers,
           AnsweredQuestions, IsTerminal
  <2>3. CompletedInv'
    BY <1>5 DEF Inv, CompletedInv
  <2> QED  BY <2>1, <2>2, <2>3
<1> QED  BY <1>2, <1>4, <1>6, <1>7, WorkerInv(w)' DEF Inv

\* The state of a new run is a control state.
LEMMA NewStateTyped ==
  NewState \in ControlState
BY DEF NewState, ControlState, HarnessStatus, LoopPhase, Intent, NoIntent, NoPending

\* A task that enters the loop, and one that has ended.
LEMMA EnteringTyped ==
  ASSUME NEW s \in ControlState
  PROVE  Entering(s) \in Worker /\ Entering(s).pc = "begin" /\ Entering(s).state = s
<1>1. "begin" \in Busy /\ NoIntent \in Intent
  BY DEF Busy, Loop, Intent
<1> QED  BY <1>1 DEF Entering, Worker

\* A task that has ended, and one that died on its way to close the run.
LEMMA GoneTyped ==
  /\ Gone \in Worker /\ Gone.pc = "idle"
  /\ \A close \in Intent :
       LET x == [Gone EXCEPT !.pc = "dead", !.close = close] IN
       x \in Worker /\ x.pc = "dead"
<1>1. Entering(NewState) \in Worker
  BY NewStateTyped, EnteringTyped
<1>2. Gone = [Entering(NewState) EXCEPT !.pc = "idle"]
  BY DEF Gone
<1>3. Gone \in Worker /\ Gone.pc = "idle"
  BY <1>1, <1>2 DEF Worker
<1>4. ASSUME NEW close \in Intent, NEW x, x = [Gone EXCEPT !.pc = "dead", !.close = close]
      PROVE  x \in Worker /\ x.pc = "dead"
  BY <1>3, <1>4 DEF Worker
<1> QED  BY <1>3, <1>4

\* A worker that is caught is in its handler or dead.
LEMMA CaughtIs ==
  ASSUME TypeOK, NEW w \in Workers, NEW status \in TerminalStatus, Caught(w, status)
  PROVE  \E x \in Worker :
           /\ task' = [task EXCEPT ![w] = x]
           /\ task'[w] = x
           /\ x.pc \in {"interrupted", "dead"}
           /\ x.pc = "interrupted" => x.close = status
<1> DEFINE old == task[w]
           x == IF old.guarded
                THEN [old EXCEPT !.pc = "interrupted", !.close = status, !.action = NoAction]
                ELSE [Gone EXCEPT !.pc = "dead", !.close = old.close]
<1>1. task' = [task EXCEPT ![w] = x] /\ task'[w] = x
  BY DEF Caught, Set, TypeOK
<1>2. old \in Worker
  BY DEF TypeOK, Worker
<1> HIDE DEF old
<1>3. CASE old.guarded
  <2>1. status \in Intent /\ "interrupted" \in Busy
    BY DEF Intent, Busy
  <2>2. x = [old EXCEPT !.pc = "interrupted", !.close = status, !.action = NoAction]
    BY <1>3
  <2> HIDE DEF x
  <2>3. x = [pc |-> "interrupted", state |-> old.state, action |-> NoAction,
             close |-> status, guarded |-> old.guarded]
    BY <1>2, <2>2 DEF Worker
  <2>4. x \in Worker /\ x.pc = "interrupted" /\ x.close = status
    BY <1>2, <2>1, <2>3 DEF Worker
  <2> QED  BY <1>1, <2>4
<1>4. CASE ~old.guarded
  <2>1. old.close \in Intent
    BY <1>2 DEF Worker
  <2>2. x \in Worker /\ x.pc = "dead"
    BY <1>4, <2>1, GoneTyped
  <2> HIDE DEF x
  <2> QED  BY <1>1, <2>2
<1> QED  BY <1>3, <1>4

\* An exception that is caught touches nothing but the worker.
LEMMA CaughtKeeps ==
  ASSUME Inv, NEW w \in Workers, NEW status \in TerminalStatus \ {"completed"},
         Caught(w, status), UNCHANGED <<row, actions, confirmations, locked>>, BoundsOK'
  PROVE  Inv'
<1>1. PICK x \in Worker :
        /\ task' = [task EXCEPT ![w] = x]
        /\ task'[w] = x
        /\ x.pc \in {"interrupted", "dead"}
        /\ x.pc = "interrupted" => x.close = status
  BY CaughtIs DEF Inv
<1>2. x.pc \notin Loop \ {"paused"}
  BY <1>1 DEF Loop
<1>3. WorkerInv(w)'
  BY <1>1, <1>2 DEF WorkerInv, Runner, At
<1> QED  BY <1>1, <1>2, <1>3, TaskMoves

\* A task that ends.
LEMMA GoneKeeps ==
  ASSUME Inv, NEW w \in Workers, Set(w, Gone),
         UNCHANGED <<row, actions, confirmations, locked>>, BoundsOK'
  PROVE  Inv'
<1>1. task' = [task EXCEPT ![w] = Gone] /\ task'[w] = Gone
  BY DEF Set, Inv, TypeOK
<1>2. WorkerInv(w)'
  BY <1>1, GoneTyped DEF WorkerInv, Runner, At, Loop
<1>3. Gone.pc \notin Loop \ {"paused"}
  BY GoneTyped DEF Loop
<1> QED  BY <1>1, <1>2, <1>3, GoneTyped, TaskMoves

\* The worker in the loop goes on to close the run, with what it knows.
LEMMA CloseKeeps ==
  ASSUME Inv, NEW w \in Workers, Runner(w), Close(w, task[w].state, "failed"),
         UNCHANGED <<row, actions, confirmations, locked>>, BoundsOK'
  PROVE  Inv'
<1> DEFINE old == task[w]
           x == [old EXCEPT !.pc = "close", !.state = old.state, !.close = "failed",
                            !.action = NoAction]
<1>1. task' = [task EXCEPT ![w] = x] /\ task'[w] = x
  BY DEF Close, Set, Inv, TypeOK
<1>2. x \in Worker /\ x.pc = "close" /\ x.state = old.state /\ x.close = "failed"
  <2>1. old \in Worker /\ "failed" \in Intent /\ "close" \in Busy
    BY DEF Inv, TypeOK, Worker, Intent, TerminalStatus, Busy
  <2>2. x = [old EXCEPT !.pc = "close", !.state = old.state, !.close = "failed",
                        !.action = NoAction]
    OBVIOUS
  <2> HIDE DEF x, old
  <2>3. x = [pc |-> "close", state |-> old.state, action |-> NoAction,
             close |-> "failed", guarded |-> old.guarded]
    BY <2>1, <2>2 DEF Worker
  <2> QED  BY <2>1, <2>3 DEF Worker
<1> HIDE DEF x
<1>3. x.pc \notin Loop \ {"paused"} /\ "failed" \in TerminalStatus
  BY <1>2 DEF Loop, TerminalStatus
<1>4. CloserInv(w)'
  <2>1. RunnerKnows(w) /\ row \in ControlState /\ old.state \in ControlState
    BY DEF Inv, WorkerInv, TypeOK
  <2>2. row.status \in HarnessStatus /\ row.version \in Nat /\ old.state.version \in Nat
    BY <2>1 DEF ControlState
  <2>3. ~Closing => row.status = "running"
    BY <2>1, <2>2 DEF RunnerKnows, Inv, ClosingRow, Closing, Waiting, IsTerminal, HarnessStatus
  <2>4. Len(actions) \in Nat
    BY DEF Inv, TypeOK
  <2>5. task'[w].state = task[w].state
    BY <1>1, <1>2
  <2> QED  BY <2>1, <2>2, <2>3, <2>4, <2>5 DEF CloserInv, RunnerKnows, Waiting
<1>5. WorkerInv(w)'
  BY <1>1, <1>2, <1>3, <1>4 DEF WorkerInv, Runner, At
<1> QED  BY <1>1, <1>2, <1>3, <1>5, TaskMoves

(***************************************************************************)
(* Steps of the worker in the loop that save the row.                      *)
(***************************************************************************)

\* What is plain of the worker in the loop.
LEMMA RunnerFacts ==
  ASSUME Inv, NEW w \in Workers, Runner(w)
  PROVE  /\ RunnerKnows(w) /\ RunnerActs(w)
         /\ task[w] \in Worker /\ task[w].state \in ControlState /\ row \in ControlState
         /\ row.version \in Nat /\ task[w].state.version \in Nat
         /\ Len(actions) \in Nat /\ Len(confirmations) = Len(actions)
         /\ ~Closing => row.status = "running" /\ locked = NoIntent
         /\ \A v \in Workers \ {w} : ~Runner(v)
<1>1. RunnerKnows(w) /\ RunnerActs(w) /\ \A v \in Workers \ {w} : ~Runner(v)
  BY DEF Inv, WorkerInv, OneRunner, Runner
<1>2. /\ task[w] \in Worker /\ task[w].state \in ControlState /\ row \in ControlState
      /\ Len(actions) \in Nat /\ Len(confirmations) = Len(actions)
  BY DEF Inv, TypeOK, Worker, LogMatchesRow
<1>3. /\ row.version \in Nat /\ task[w].state.version \in Nat /\ row.status \in HarnessStatus
  BY <1>2 DEF ControlState
<1>4. ~Closing => row.status = "running" /\ locked = NoIntent
  BY <1>1, <1>3 DEF RunnerKnows, Inv, ClosingRow, Waiting, IsTerminal, HarnessStatus
<1> QED  BY <1>1, <1>2, <1>3, <1>4

\* The save of the worker in the loop is taken only while nobody closes the run.
LEMMA RunnerSaves ==
  ASSUME Inv, NEW w \in Workers, Runner(w), NEW t \in ControlState,
         t.version = task[w].state.version + 1, t.phase # "finalization",
         CanSave(row, t)
  PROVE  ~Closing /\ row.version = task[w].state.version /\ t.version = row.version + 1
<1>1. /\ RunnerKnows(w) /\ row.version \in Nat /\ task[w].state.version \in Nat
  BY RunnerFacts
<1>2. t.version = row.version + 1 \/ t = row
  BY DEF CanSave
<1>3. t = row => ~Closing
  BY DEF Closing
<1> QED  BY <1>1, <1>2, <1>3 DEF RunnerKnows

\* What a worker that does not run the loop knows stays true when the worker in
\* the loop moves the row on.
LEMMA OthersKeep ==
  ASSUME Inv, NEW w \in Workers, Runner(w), ~Closing, row'.version >= row.version,
         row'.version = row.version => row'.status = row.status,
         row'.version \in Nat, Len(actions') >= Len(actions), Len(actions') \in Nat,
         NEW v \in Workers \ {w}, task'[v] = task[v]
  PROVE  WorkerInv(v)' /\ ~Runner(v)'
<1>1. ~Runner(v) /\ ~Runner(v)' /\ WorkerInv(v) /\ ~Waiting
  BY RunnerFacts DEF Runner, Inv, RunnerKnows
<1>2. CloserInv(v) => CloserInv(v)'
  <2>1. /\ task[v].state.version \in Nat /\ task[v].state.actionSeq \in Nat
        /\ row.version \in Nat /\ Len(actions) \in Nat
    <3>1. task[v].state \in ControlState /\ row \in ControlState /\ Len(actions) \in Nat
      BY DEF Inv, TypeOK
    <3> QED  BY <3>1 DEF ControlState
  <2> QED  BY <1>1, <2>1 DEF CloserInv, Waiting
<1>3. ~Answered
  BY DEF Answered
<1> QED  BY <1>1, <1>2, <1>3 DEF WorkerInv, At

\* A save of the worker in the loop moves the row and the worker on together, or the
\* worker is caught.
LEMMA SaveKeeps ==
  ASSUME Inv, NEW w \in Workers, Runner(w), NEW t \in ControlState, NEW x \in Worker,
         Save(w, t, x),
         t.version = task[w].state.version + 1, t.status = "running",
         t.phase # "finalization", t.actionSeq = task[w].state.actionSeq,
         t.attempts = task[w].state.attempts,
         x.pc \in Loop \ {"paused"} \/ x.pc = "close",
         x.state.status = "running", x.state.phase # "finalization",
         x.state.version = t.version, x.state.actionSeq = t.actionSeq,
         x.state.attempts = t.attempts,
         x.pc # "close" => x.state.iteration < MaxIterations,
         x.pc = "close" => x.close \in TerminalStatus \ {"completed"},
         task'[w] = x => RunnerActs(w)',
         UNCHANGED <<actions, confirmations, locked>>, BoundsOK'
  PROVE  Inv'
<1>1. CASE ~CanSave(row, t)
  <2>1. "failed" \in TerminalStatus \ {"completed"}
    BY DEF TerminalStatus
  <2> QED  BY <1>1, <2>1, CaughtKeeps DEF Save
<1>2. CASE CanSave(row, t)
  <2>1. row' = t /\ task' = [task EXCEPT ![w] = x]
    BY <1>2 DEF Save, Set
  <2>2. /\ ~Closing /\ row.version = task[w].state.version /\ t.version = row.version + 1
    BY <1>2, RunnerSaves
  <2>3. /\ RunnerKnows(w) /\ row.status = "running" /\ locked = NoIntent
        /\ row.version \in Nat /\ Len(actions) \in Nat /\ Len(confirmations) = Len(actions)
    BY <2>2, RunnerFacts
  <2>4. task'[w] = x /\ \A v \in Workers \ {w} : task'[v] = task[v]
    BY <2>1 DEF Inv, TypeOK
  <2>5. TypeOK'
    BY <2>1 DEF Inv, TypeOK, Worker, BoundsOK
  <2>6. \A v \in Workers \ {w} : WorkerInv(v)' /\ ~Runner(v)'
    BY <2>1, <2>2, <2>3, <2>4, OthersKeep
  <2>7. OneRunner'
    BY <2>6 DEF OneRunner, Runner
  <2>8. LogMatchesRow'
    BY <2>1, <2>3 DEF LogMatchesRow, RunnerKnows
  <2>9. WaitingMeansOpenQuestion'
    BY <2>1, <2>3 DEF Inv, WaitingMeansOpenQuestion
  <2>10. ToolRunsAreBounded' /\ FailedIsNotRepeated' /\ LoopIsBounded'
    BY DEF Inv, ToolRunsAreBounded, FailedIsNotRepeated, LoopIsBounded
  <2>11. WaitingRow' /\ ClosingRow' /\ CompletedInv'
    BY <2>1, <2>3
       DEF WaitingRow, ClosingRow, CompletedInv, Waiting, IsTerminal, TerminalStatus, NoIntent
  <2>12. AnswersCounted'
    BY <2>1, <2>2, <2>3 DEF Inv, AnswersCounted, RunnerKnows, Closing, AnsweredQuestions
  <2>13. WorkerInv(w)'
    <3>1. x.pc # "close" => RunnerKnows(w)'
      <4>1. t.version \in Nat
        BY DEF ControlState
      <4> QED  BY <2>1, <2>2, <2>3, <2>4, <4>1 DEF RunnerKnows, Closing, Waiting
    <3>2. x.pc = "close" => CloserInv(w)'
      <4>1. t.version \in Nat
        BY DEF ControlState
      <4> QED  BY <2>1, <2>3, <2>4, <4>1 DEF CloserInv, RunnerKnows
    <3>3. x.pc = "close" => ~Runner(w)'
      BY <2>4 DEF Runner, Loop
    <3>4. x.pc # "close" => x.pc \notin {"interrupted", "close", "finalize"}
      BY DEF Loop
    <3> QED  BY <2>4, <3>1, <3>2, <3>3, <3>4 DEF WorkerInv, At
  <2> QED  BY <2>5, <2>6, <2>7, <2>8, <2>9, <2>10, <2>11, <2>12, <2>13 DEF Inv
<1> QED  BY <1>1, <1>2

(***************************************************************************)
(* _run: one lemma per action.                                             *)
(***************************************************************************)

\* A worker that goes on at another point with another state, as a record.
LEMMA MovesTo ==
  ASSUME NEW old \in Worker, NEW pc \in Busy, NEW s \in ControlState, NEW x,
         x = [old EXCEPT !.pc = pc, !.state = s]
  PROVE  /\ x \in Worker
         /\ x = [pc |-> pc, state |-> s, action |-> old.action, close |-> old.close,
                 guarded |-> old.guarded]
<1>1. x = [pc |-> pc, state |-> s, action |-> old.action, close |-> old.close,
           guarded |-> old.guarded]
  BY DEF Worker
<1> QED  BY <1>1 DEF Worker

\* A save that changes no more than the phase and counters the run is not closed by:
\* what has to be shown is that the action at the new point fits.
LEMMA SaveRunningKeeps ==
  ASSUME Inv, NEW w \in Workers, Runner(w), NEW s \in ControlState,
         NEW phase \in LoopPhase \ {"finalization"}, NEW pc \in Loop \ {"paused"},
         SaveRunning(w, s, phase, pc),
         s.status = "running", s.version = task[w].state.version,
         s.actionSeq = task[w].state.actionSeq, s.attempts = task[w].state.attempts,
         s.iteration < MaxIterations,
         /\ task'[w].pc = pc
         /\ task'[w].action = task[w].action
         /\ task'[w].state.iteration = s.iteration
         /\ task'[w].state.attempts = s.attempts
         /\ task'[w].state.toolRetries = s.toolRetries
         /\ task'[w].state.failed = s.failed
         /\ actions' = actions
         => RunnerActs(w)',
         UNCHANGED <<actions, confirmations, locked>>, BoundsOK'
  PROVE  Inv'
<1> DEFINE t == Enter(s, phase)
           x == [task[w] EXCEPT !.pc = pc, !.state = t]
<1>1. Save(w, t, x)
  BY DEF SaveRunning
<1>2. /\ t \in ControlState
      /\ t = [status |-> "running", phase |-> phase, intent |-> s.intent,
              pending |-> s.pending, version |-> s.version + 1,
              actionSeq |-> s.actionSeq, iteration |-> s.iteration,
              plannerRetries |-> s.plannerRetries, toolRetries |-> s.toolRetries,
              failed |-> s.failed, attempts |-> s.attempts,
              lastQuestion |-> s.lastQuestion]
  BY EnterIs
<1> HIDE DEF t
<1>3. /\ x \in Worker
      /\ x = [pc |-> pc, state |-> t, action |-> task[w].action, close |-> task[w].close,
              guarded |-> task[w].guarded]
  <2>1. task[w] \in Worker /\ pc \in Busy
    BY RunnerFacts DEF Busy
  <2> QED  BY <1>2, <2>1, MovesTo, ZenonT(60)
<1> HIDE DEF x
<1>4. /\ t.version = task[w].state.version + 1 /\ t.status = "running"
      /\ t.phase # "finalization" /\ t.actionSeq = task[w].state.actionSeq
      /\ t.attempts = task[w].state.attempts /\ t.iteration = s.iteration
      /\ t.toolRetries = s.toolRetries /\ t.failed = s.failed
  BY <1>2
<1>5. x.pc = pc /\ x.state = t /\ x.action = task[w].action /\ x.pc # "close"
  BY <1>3 DEF Loop
<1>6. task'[w] = x => RunnerActs(w)'
  BY <1>4, <1>5
<1> QED  BY <1>1, <1>2, <1>3, <1>4, <1>5, <1>6, SaveKeeps

\* The steps that take the row one phase on, with the state the worker has.
LEMMA PhaseKeeps ==
  ASSUME Inv, NEW w \in Workers, Begin(w) \/ BuildContext(w) \/ Dispatch(w) \/ Rebuild(w)
  PROVE  Inv'
<1> DEFINE s == task[w].state
<1>1. /\ UNCHANGED <<actions, confirmations, locked>> /\ BoundsOK'
      /\ \/ At(w, "begin") /\ SaveRunning(w, s, "build_context", "build")
         \/ At(w, "build") /\ SaveRunning(w, s, "plan", "plan")
         \/ At(w, "dispatch") /\ SaveRunning(w, s, "execute_tool", "execute")
         \/ At(w, "rebuild") /\ SaveRunning(w, s, "build_context", "build")
  BY DEF Begin, BuildContext, Dispatch, Rebuild, Ready, bounds, BoundsOK, Inv, TypeOK
<1>2. Runner(w)
  BY <1>1 DEF Runner, At, Loop
<1>3. /\ RunnerKnows(w) /\ RunnerActs(w) /\ s \in ControlState /\ s.status = "running"
      /\ s.iteration < MaxIterations
  BY <1>2, RunnerFacts DEF RunnerKnows
<1>4. /\ {"build_context", "plan", "execute_tool"} \subseteq LoopPhase \ {"finalization"}
      /\ {"build", "plan", "execute"} \subseteq Loop \ {"paused"}
  BY DEF LoopPhase, Loop
<1>5. CASE At(w, "begin") /\ SaveRunning(w, s, "build_context", "build")
  BY <1>1, <1>2, <1>3, <1>4, <1>5, SaveRunningKeeps DEF RunnerActs, Remembers, At
<1>6. CASE At(w, "build") /\ SaveRunning(w, s, "plan", "plan")
  BY <1>1, <1>2, <1>3, <1>4, <1>6, SaveRunningKeeps DEF RunnerActs, Remembers, At
<1>7. CASE At(w, "rebuild") /\ SaveRunning(w, s, "build_context", "build")
  BY <1>1, <1>2, <1>3, <1>4, <1>7, SaveRunningKeeps DEF RunnerActs, Remembers, At
<1>8. CASE At(w, "dispatch") /\ SaveRunning(w, s, "execute_tool", "execute")
  BY <1>1, <1>2, <1>3, <1>4, <1>8, SaveRunningKeeps, RunAssumption, SMTT(30) DEF RunnerActs, Remembers, At
<1> QED  BY <1>1, <1>5, <1>6, <1>7, <1>8

\* A step that only counts, as a control state.
LEMMA CountsOn ==
  ASSUME NEW s \in ControlState, NEW k \in Nat, NEW n,
         \/ n = [s EXCEPT !.plannerRetries = k]
         \/ n = [s EXCEPT !.toolRetries = k]
         \/ n = [s EXCEPT !.iteration = k]
         \/ n = [s EXCEPT !.pending = k]
  PROVE  /\ n \in ControlState /\ n.status = s.status /\ n.phase = s.phase
         /\ n.intent = s.intent /\ n.version = s.version /\ n.actionSeq = s.actionSeq
         /\ n.failed = s.failed /\ n.attempts = s.attempts
         /\ n.lastQuestion = s.lastQuestion
         /\ n = [s EXCEPT !.plannerRetries = k] =>
              n.iteration = s.iteration /\ n.toolRetries = s.toolRetries
         /\ n = [s EXCEPT !.toolRetries = k] =>
              n.iteration = s.iteration /\ n.toolRetries = k
         /\ n = [s EXCEPT !.iteration = k] =>
              n.iteration = k /\ n.toolRetries = s.toolRetries
         /\ n = [s EXCEPT !.pending = k] =>
              n.iteration = s.iteration /\ n.toolRetries = s.toolRetries /\ n.pending = k
BY DEF ControlState

\* The steps that end the loop by an exception that is caught.
LEMMA TroubleKeeps ==
  ASSUME Inv, NEW w \in Workers,
         \/ BudgetExceeded(w)
         \/ Timeout(w)
         \/ \E status \in {"failed", "cancelled"} : Interrupt(w, status)
  PROVE  Inv'
<1>1. /\ UNCHANGED <<row, actions, confirmations, locked>> /\ BoundsOK'
      /\ \E status \in {"budget_exceeded", "timeout", "failed", "cancelled"} :
           Caught(w, status)
  <2>1. CASE BudgetExceeded(w) \/ Timeout(w)
    BY <2>1 DEF BudgetExceeded, Timeout, bounds, BoundsOK, Inv, TypeOK
  <2>2. CASE \E status \in {"failed", "cancelled"} : Interrupt(w, status)
    BY <2>2, RunAssumption DEF Interrupt, BoundsOK, Inv, TypeOK
  <2> QED  BY <2>1, <2>2
<1>2. {"budget_exceeded", "timeout", "failed", "cancelled"} \subseteq
        TerminalStatus \ {"completed"}
  BY DEF TerminalStatus
<1> QED  BY <1>1, <1>2, CaughtKeeps

\* The planner issues an action: the whole log is remembered.
LEMMA PlanKeeps ==
  ASSUME Inv, NEW w \in Workers, NEW a \in Actions, Plan(w, a)
  PROVE  Inv'
<1> DEFINE s == task[w].state
           old == task[w]
           s0 == [s EXCEPT !.plannerRetries = 0]
           t == Enter(s0, "validate_action")
           x == [old EXCEPT !.pc = "commit", !.state = t, !.action = a]
<1>1. /\ At(w, "plan") /\ Save(w, t, x) /\ BoundsOK'
      /\ UNCHANGED <<actions, confirmations, locked>>
  BY DEF Plan, Ready, bounds, BoundsOK, Inv, TypeOK
<1>2. Runner(w)
  BY <1>1 DEF Runner, At, Loop
<1>3. /\ RunnerKnows(w) /\ RunnerActs(w) /\ s \in ControlState /\ old \in Worker
  BY <1>2, RunnerFacts
<1>4. /\ s0 \in ControlState /\ s0.status = s.status /\ s0.version = s.version
      /\ s0.actionSeq = s.actionSeq /\ s0.failed = s.failed /\ s0.attempts = s.attempts
      /\ s0.iteration = s.iteration /\ s0.toolRetries = s.toolRetries
  BY <1>3, CountsOn
<1> HIDE DEF s0
<1>5. /\ t \in ControlState /\ t.status = "running" /\ t.phase = "validate_action"
      /\ t.version = s.version + 1 /\ t.actionSeq = s.actionSeq /\ t.attempts = s.attempts
      /\ t.iteration = s.iteration /\ t.failed = s.failed
  <2>1. s0.status = "running" /\ "validate_action" \in LoopPhase
    BY <1>3, <1>4 DEF RunnerKnows, LoopPhase
  <2> QED  BY <1>4, <2>1, EnterIs
<1> HIDE DEF t
<1>6. x \in Worker /\ x.pc = "commit" /\ x.state = t /\ x.action = a
  <2>1. "commit" \in Busy
    BY DEF Busy, Loop
  <2>2. x = [pc |-> "commit", state |-> t, action |-> a, close |-> old.close,
             guarded |-> old.guarded]
    <3>1. x = [old EXCEPT !.pc = "commit", !.state = t, !.action = a]
      OBVIOUS
    <3> HIDE DEF x, old
    <3> QED  BY <1>3, <3>1 DEF Worker
  <2> HIDE DEF x, old
  <2> QED  BY <1>3, <1>5, <2>1, <2>2 DEF Worker
<1> HIDE DEF x
<1>7. task'[w] = x => RunnerActs(w)'
  BY <1>1, <1>3, <1>5, <1>6 DEF RunnerActs, Remembers, At
<1>8. x.pc \in Loop \ {"paused"} /\ x.pc # "close" /\ s.iteration < MaxIterations
  BY <1>3, <1>6 DEF Loop, RunnerKnows
<1> QED  BY <1>1, <1>2, <1>5, <1>6, <1>7, <1>8, SaveKeeps

\* The planner fails: it is tried again, or the run is closed.
LEMMA PlannerFailsKeeps ==
  ASSUME Inv, NEW w \in Workers, NEW retryable \in BOOLEAN, PlannerFails(w, retryable)
  PROVE  Inv'
<1> DEFINE s == task[w].state
           s0 == [s EXCEPT !.plannerRetries = s.plannerRetries + 1]
<1>1. /\ At(w, "plan") /\ BoundsOK' /\ UNCHANGED <<actions, confirmations, locked>>
      /\ \/ SaveRunning(w, s0, "plan", "plan")
         \/ Close(w, s, "failed") /\ UNCHANGED row
  BY DEF PlannerFails, Ready, bounds, BoundsOK, Inv, TypeOK
<1>2. Runner(w)
  BY <1>1 DEF Runner, At, Loop
<1>3. CASE SaveRunning(w, s0, "plan", "plan")
  <2>1. RunnerKnows(w) /\ RunnerActs(w) /\ s \in ControlState
    BY <1>2, RunnerFacts
  <2>2. s.plannerRetries + 1 \in Nat
    BY <2>1 DEF ControlState
  <2>3. /\ s0 \in ControlState /\ s0.status = s.status /\ s0.version = s.version
        /\ s0.actionSeq = s.actionSeq /\ s0.failed = s.failed /\ s0.attempts = s.attempts
        /\ s0.iteration = s.iteration /\ s0.toolRetries = s.toolRetries
    BY <2>1, <2>2, CountsOn
  <2> HIDE DEF s0
  <2>4. "plan" \in LoopPhase \ {"finalization"} /\ "plan" \in Loop \ {"paused"}
    BY DEF LoopPhase, Loop
  <2>5. s0.status = "running" /\ s0.iteration < MaxIterations
    BY <2>1, <2>3 DEF RunnerKnows
  <2>6. /\ task'[w].pc = "plan"
        /\ task'[w].state.iteration = s0.iteration
        /\ task'[w].state.attempts = s0.attempts
        /\ task'[w].state.failed = s0.failed
        /\ actions' = actions
        => RunnerActs(w)'
    BY <1>1, <2>1, <2>3 DEF RunnerActs, Remembers, At
  <2> QED  BY <1>1, <1>2, <1>3, <2>3, <2>4, <2>5, <2>6, SaveRunningKeeps
<1>4. CASE Close(w, s, "failed") /\ UNCHANGED row
  BY <1>1, <1>2, <1>4, CloseKeeps
<1> QED  BY <1>1, <1>3, <1>4

\* What the run refuses to do closes it.
LEMMA RefuseKeeps ==
  ASSUME Inv, NEW w \in Workers,
         RefuseAction(w) \/ \E question \in Questions : RefuseQuestion(w, question)
  PROVE  Inv'
<1>1. /\ At(w, "commit") \/ At(w, "ask")
      /\ Close(w, task[w].state, "failed")
      /\ UNCHANGED <<row, actions, confirmations, locked>> /\ BoundsOK'
  BY DEF RefuseAction, RefuseQuestion, bounds, BoundsOK, Inv, TypeOK
<1>2. Runner(w)
  BY <1>1 DEF Runner, At, Loop
<1> QED  BY <1>1, <1>2, CloseKeeps

\* A retry is one of those the limit allows.
LEMMA RetryToolKeeps ==
  ASSUME Inv, NEW w \in Workers, RetryTool(w)
  PROVE  Inv'
<1> DEFINE s == task[w].state
           s0 == [s EXCEPT !.toolRetries = s.toolRetries + 1]
<1>1. /\ At(w, "retry") /\ BoundsOK' /\ UNCHANGED <<actions, confirmations, locked>>
      /\ SaveRunning(w, s0, "execute_tool", "execute")
  BY DEF RetryTool, Ready, bounds, BoundsOK, Inv, TypeOK
<1>2. Runner(w)
  BY <1>1 DEF Runner, At, Loop
<1>3. RunnerKnows(w) /\ RunnerActs(w) /\ s \in ControlState
  BY <1>2, RunnerFacts
<1>4. s.toolRetries \in Nat /\ s.toolRetries + 1 \in Nat
  BY <1>3 DEF ControlState
<1>5. /\ s0 \in ControlState /\ s0.status = s.status /\ s0.version = s.version
      /\ s0.actionSeq = s.actionSeq /\ s0.failed = s.failed /\ s0.attempts = s.attempts
      /\ s0.iteration = s.iteration /\ s0.toolRetries = s.toolRetries + 1
  BY <1>3, <1>4, CountsOn
<1> HIDE DEF s0
<1>6. "execute_tool" \in LoopPhase \ {"finalization"} /\ "execute" \in Loop \ {"paused"}
  BY DEF LoopPhase, Loop
<1>7. s0.status = "running" /\ s0.iteration < MaxIterations
  BY <1>3, <1>5 DEF RunnerKnows
<1>8. /\ task'[w].pc = "execute"
      /\ task'[w].action = task[w].action
      /\ task'[w].state.iteration = s0.iteration
      /\ task'[w].state.attempts = s0.attempts
      /\ task'[w].state.toolRetries = s0.toolRetries
      /\ task'[w].state.failed = s0.failed
      /\ actions' = actions
      => RunnerActs(w)'
  BY <1>1, <1>3, <1>4, <1>5, RunAssumption DEF RunnerActs, Remembers, At
<1> QED  BY <1>1, <1>2, <1>5, <1>6, <1>7, <1>8, SaveRunningKeeps

\* A failed request enters the memory of the run with its observation.
LEMMA Observes ==
  ASSUME NEW s \in ControlState, NEW failed \in SUBSET Requests, NEW n,
         n = [s EXCEPT !.failed = failed]
  PROVE  /\ n \in ControlState /\ n.status = s.status /\ n.phase = s.phase
         /\ n.version = s.version /\ n.actionSeq = s.actionSeq /\ n.failed = failed
         /\ n.attempts = s.attempts /\ n.iteration = s.iteration
         /\ n.toolRetries = s.toolRetries
BY DEF ControlState

\* The result of the tool is observed: a failed request is remembered from now on.
LEMMA HandleResultKeeps ==
  ASSUME Inv, NEW w \in Workers, HandleResult(w)
  PROVE  Inv'
<1> DEFINE s == task[w].state
           old == task[w]
           outcome == actions[s.actionSeq].outcome
           t == Enter(s, "handle_tool_result")
           failed == IF outcome \in Failure
                     THEN t.failed \cup {old.action.request} ELSE t.failed
           observed == [t EXCEPT !.failed = failed]
           pc == IF outcome = "needs_user" THEN "ask" ELSE "observe"
           x == [old EXCEPT !.state = observed, !.pc = pc]
<1>1. /\ At(w, "handle") /\ Save(w, t, x) /\ BoundsOK'
      /\ UNCHANGED <<actions, confirmations, locked>>
  BY DEF HandleResult, Ready, bounds, BoundsOK, Inv, TypeOK
<1>2. Runner(w)
  BY <1>1 DEF Runner, At, Loop
<1>3. /\ RunnerKnows(w) /\ RunnerActs(w) /\ s \in ControlState /\ old \in Worker
      /\ Len(actions) \in Nat
  BY <1>2, RunnerFacts
<1>4. /\ s.actionSeq = Len(actions) /\ s.iteration < MaxIterations
      /\ Len(actions) > 0 /\ Len(actions) <= s.iteration + s.attempts + 1
      /\ Remembers(s, Len(actions) - 1) /\ old.action.kind = "tool"
      /\ actions[Len(actions)].action = old.action
  BY <1>1, <1>3 DEF RunnerKnows, RunnerActs, At
<1>5. /\ t \in ControlState /\ t.status = "running" /\ t.phase = "handle_tool_result"
      /\ t.version = s.version + 1 /\ t.actionSeq = s.actionSeq /\ t.attempts = s.attempts
      /\ t.iteration = s.iteration /\ t.failed = s.failed
  <2>1. s.status = "running" /\ "handle_tool_result" \in LoopPhase
    BY <1>3 DEF RunnerKnows, LoopPhase
  <2> QED  BY <1>3, <2>1, EnterIs
<1> HIDE DEF t
<1>6. old.action.request \in Requests
  <2>1. old.action \in Actions \cup {NoAction}
    BY <1>3 DEF Worker
  <2> QED  BY <1>4, <2>1 DEF Actions, NoAction
<1>7. failed \in SUBSET Requests
  BY <1>5, <1>6 DEF ControlState
<1>8. \A i \in DOMAIN actions :
         i <= Len(actions) /\ actions[i].outcome \in Failure =>
           actions[i].action.request \in failed
  <2> SUFFICES ASSUME NEW i \in DOMAIN actions, i <= Len(actions),
                      actions[i].outcome \in Failure
               PROVE  actions[i].action.request \in failed
    OBVIOUS
  <2>1. i \in Nat
    BY DEF Inv, TypeOK
  <2>2. CASE i = Len(actions)
    BY <1>4, <2>2
  <2>3. CASE i # Len(actions)
    <3>1. actions[i].action.request \in s.failed
      BY <1>3, <1>4, <2>1, <2>3 DEF Remembers
    <3> QED  BY <1>5, <3>1
  <2> QED  BY <2>2, <2>3
<1> HIDE DEF failed
<1>9. /\ observed \in ControlState /\ observed.status = "running"
      /\ observed.phase = "handle_tool_result" /\ observed.version = t.version
      /\ observed.actionSeq = t.actionSeq /\ observed.attempts = t.attempts
      /\ observed.iteration = t.iteration /\ observed.failed = failed
  BY <1>5, <1>7, Observes
<1> HIDE DEF observed
<1>10. /\ x \in Worker /\ x.pc = pc /\ x.state = observed /\ x.action = old.action
  <2>1. pc \in Busy
    BY DEF Busy, Loop
  <2>2. x = [old EXCEPT !.pc = pc, !.state = observed]
    <3>1. x = [old EXCEPT !.state = observed, !.pc = pc]
      OBVIOUS
    <3> HIDE DEF x, old, pc
    <3> QED  BY <1>3, <3>1 DEF Worker
  <2> HIDE DEF x, old, pc
  <2>3. old \in Worker /\ observed \in ControlState
    BY <1>3, <1>9
  <2>4. x = [pc |-> pc, state |-> observed, action |-> old.action, close |-> old.close,
             guarded |-> old.guarded]
    BY <2>2, <2>3 DEF Worker
  <2> QED  BY <2>1, <2>3, <2>4 DEF Worker
<1> HIDE DEF x
<1>11. task'[w] = x => RunnerActs(w)'
  <2> SUFFICES ASSUME task'[w] = x PROVE RunnerActs(w)'
    OBVIOUS
  <2>1. actions' = actions /\ task'[w].state.failed = failed
    BY <1>1, <1>9, <1>10
  <2>2. Remembers(task[w].state, Len(actions))'
    BY <1>8, <2>1 DEF Remembers
  <2>3. Remembers(task[w].state, Len(actions) - 1)'
    <3>1. \A i \in DOMAIN actions : i <= Len(actions) - 1 => i <= Len(actions)
      BY <1>3 DEF Inv, TypeOK
    <3> QED  BY <1>8, <2>1, <3>1 DEF Remembers
  <2>4. /\ task'[w].pc = "ask" \/ task'[w].pc = "observe"
        /\ task'[w].state.iteration = s.iteration /\ task'[w].state.attempts = s.attempts
        /\ task'[w].action = old.action
    BY <1>5, <1>9, <1>10
  <2> HIDE DEF s, old, pc
  <2> QED  BY <1>4, <2>1, <2>2, <2>3, <2>4 DEF RunnerActs, At
<1>12. x.pc \in Loop \ {"paused"} /\ x.pc # "close"
  BY <1>10 DEF Loop
<1> QED  BY <1>1, <1>2, <1>4, <1>5, <1>9, <1>10, <1>11, <1>12, SaveKeeps

\* An observation is counted; at the limit the run is closed.
LEMMA RecordObservationKeeps ==
  ASSUME Inv, NEW w \in Workers, RecordObservation(w)
  PROVE  Inv'
<1> DEFINE s == task[w].state
           old == task[w]
           s0 == [s EXCEPT !.iteration = s.iteration + 1]
           t == Enter(s0, "record_observation")
           next == [old EXCEPT !.state = t, !.action = NoAction]
           x == IF t.iteration >= MaxIterations
                THEN [next EXCEPT !.pc = "close", !.close = "timeout"]
                ELSE [next EXCEPT !.pc = "rebuild"]
<1>1. /\ At(w, "observe") /\ Save(w, t, x) /\ BoundsOK'
      /\ UNCHANGED <<actions, confirmations, locked>>
  BY DEF RecordObservation, Ready, bounds, BoundsOK, Inv, TypeOK
<1>2. Runner(w)
  BY <1>1 DEF Runner, At, Loop
<1>3. /\ RunnerKnows(w) /\ RunnerActs(w) /\ s \in ControlState /\ old \in Worker
      /\ Len(actions) \in Nat
  BY <1>2, RunnerFacts
<1>4. s.iteration \in Nat /\ s.iteration + 1 \in Nat
  BY <1>3, SMTT(30) DEF ControlState
<1>5. /\ s0 \in ControlState /\ s0.status = s.status /\ s0.version = s.version
      /\ s0.actionSeq = s.actionSeq /\ s0.failed = s.failed /\ s0.attempts = s.attempts
      /\ s0.iteration = s.iteration + 1
  BY <1>3, <1>4, CountsOn
<1> HIDE DEF s0
<1>6. /\ t \in ControlState /\ t.status = "running" /\ t.phase = "record_observation"
      /\ t.version = s.version + 1 /\ t.actionSeq = s.actionSeq /\ t.attempts = s.attempts
      /\ t.iteration = s.iteration + 1 /\ t.failed = s.failed
  <2>1. s0.status = "running" /\ "record_observation" \in LoopPhase
    BY <1>3, <1>5 DEF RunnerKnows, LoopPhase
  <2> QED  BY <1>5, <2>1, EnterIs
<1> HIDE DEF t
<1>7. /\ x \in Worker /\ x.state = t
      /\ IF t.iteration >= MaxIterations THEN x.pc = "close" /\ x.close = "timeout"
                                         ELSE x.pc = "rebuild"
  <2>1. /\ {"close", "rebuild"} \subseteq Busy /\ "timeout" \in Intent
    BY DEF Busy, Loop, Intent, TerminalStatus
  <2> HIDE DEF old
  <2>2. /\ next \in Worker /\ next.state = t
    BY <1>3, <1>6 DEF Worker
  <2> HIDE DEF next
  <2>3. CASE t.iteration >= MaxIterations
    <3>1. x = [next EXCEPT !.pc = "close", !.close = "timeout"]
      BY <2>3
    <3> HIDE DEF x
    <3> QED  BY <2>1, <2>2, <2>3, <3>1 DEF Worker
  <2>4. CASE ~(t.iteration >= MaxIterations)
    <3>1. x = [next EXCEPT !.pc = "rebuild"]
      BY <2>4
    <3> HIDE DEF x
    <3> QED  BY <2>1, <2>2, <2>4, <3>1 DEF Worker
  <2> QED  BY <2>3, <2>4
<1> HIDE DEF x
<1>8. task'[w] = x => RunnerActs(w)'
  <2>1. CASE x.pc = "close"
    BY <2>1 DEF RunnerActs, At
  <2>2. CASE x.pc = "rebuild"
    <3>1. s.attempts \in Nat
      BY <1>3 DEF ControlState
    <3>2. task'[w] = x => Remembers(task[w].state, Len(actions))'
      BY <1>1, <1>3, <1>6, <1>7 DEF RunnerActs, Remembers, At
    <3>3. Len(actions) <= s.iteration + s.attempts + 1
      BY <1>1, <1>3 DEF RunnerActs, At
    <3>4. Len(actions) <= t.iteration + t.attempts
      BY <1>3, <1>4, <1>6, <3>1, <3>3
    <3>5. task'[w] = x => /\ task'[w].pc = "rebuild" /\ task'[w].state = t
                          /\ actions' = actions
      BY <1>1, <1>7, <2>2
    <3> HIDE DEF s, old
    <3> QED  BY <3>2, <3>4, <3>5 DEF RunnerActs, At
  <2> QED  BY <1>7, <2>1, <2>2
<1>9. /\ x.pc \in Loop \ {"paused"} \/ x.pc = "close"
      /\ x.pc # "close" => t.iteration < MaxIterations
      /\ x.pc = "close" => x.close \in TerminalStatus \ {"completed"}
  <2>1. MaxIterations \in Nat
    BY RunAssumption
  <2> QED  BY <1>4, <1>6, <1>7, <2>1 DEF Loop, TerminalStatus
<1> QED  BY <1>1, <1>2, <1>6, <1>7, <1>8, <1>9, SaveKeeps

Entry == [action : Actions, runs : Nat, outcome : Outcome]

\* The tool runs once more than the worker has retried it.
LEMMA ExecuteToolKeeps ==
  ASSUME Inv, NEW w \in Workers, NEW outcome \in Outcome \ {"none"}, ExecuteTool(w, outcome)
  PROVE  Inv'
<1> DEFINE s == task[w].state
           old == task[w]
           n == Len(actions)
           pc == IF CanRetry(s, old.action, outcome) THEN "retry" ELSE "handle"
           x == [old EXCEPT !.pc = pc]
<1>1. /\ At(w, "execute") /\ BoundsOK' /\ UNCHANGED <<row, confirmations, locked>>
      /\ actions' = [actions EXCEPT ![s.actionSeq].runs = @ + 1,
                                    ![s.actionSeq].outcome = outcome]
      /\ task' = [task EXCEPT ![w] = x]
  BY DEF ExecuteTool, Ready, bounds, BoundsOK, Set, Inv, TypeOK
<1>2. Runner(w)
  BY <1>1 DEF Runner, At, Loop
<1>3. /\ RunnerKnows(w) /\ RunnerActs(w) /\ s \in ControlState /\ old \in Worker
      /\ Len(actions) \in Nat /\ row \in ControlState /\ row.version \in Nat
      /\ Len(confirmations) = Len(actions)
  BY <1>2, RunnerFacts
<1>4. /\ s.actionSeq = n /\ n > 0 /\ n <= s.iteration + s.attempts + 1
      /\ Remembers(s, n - 1) /\ old.action.kind = "tool" /\ actions[n].action = old.action
      /\ actions[n].runs <= s.toolRetries /\ s.toolRetries <= MaxToolRetries
      /\ s.toolRetries > 0 => old.action.request \in Idempotent
  BY <1>1, <1>3 DEF RunnerKnows, RunnerActs, At
<1>5. actions \in Seq(Entry) /\ DOMAIN actions = 1..n /\ n \in DOMAIN actions
  BY <1>3, <1>4 DEF Inv, TypeOK, Entry
<1>6. /\ actions' \in Seq(Entry) /\ Len(actions') = n /\ DOMAIN actions' = 1..n
      /\ \A i \in 1..n : i # n => actions'[i] = actions[i]
      /\ \A i \in 1..n : actions'[i].action = actions[i].action
      /\ actions'[n].runs = actions[n].runs + 1 /\ actions'[n].outcome = outcome
  <2>1. PICK e : e = [actions[n] EXCEPT !.runs = @ + 1, !.outcome = outcome]
    OBVIOUS
  <2>2. actions' = [actions EXCEPT ![n] = e]
    BY <1>1, <1>4, <1>5, <2>1
  <2>3. actions[n] \in Entry
    BY <1>5
  <2>4. e = [action |-> actions[n].action, runs |-> actions[n].runs + 1, outcome |-> outcome]
    BY <2>1, <2>3 DEF Entry
  <2>5. e \in Entry
    BY <2>3, <2>4 DEF Entry
  <2> QED  BY <1>5, <2>2, <2>4, <2>5
<1>7. /\ x \in Worker /\ x.pc = pc /\ x.state = s /\ x.action = old.action
      /\ task'[w] = x /\ \A v \in Workers \ {w} : task'[v] = task[v]
  <2>1. pc \in Busy
    BY DEF Busy, Loop
  <2>2. x \in Worker /\ x.pc = pc /\ x.state = s /\ x.action = old.action
    BY <1>3, <2>1 DEF Worker
  <2> QED  BY <1>1, <2>2 DEF Inv, TypeOK
<1> HIDE DEF x
<1>8. TypeOK'
  BY <1>1, <1>6, <1>7 DEF Inv, TypeOK, Worker, BoundsOK, Entry
<1>9. \A v \in Workers \ {w} : ~Runner(v)' /\ ~Runner(v)
  BY <1>2, <1>7, RunnerFacts DEF Runner
<1>10. ~Answered /\ ~Waiting
  BY <1>2, <1>3 DEF Answered, RunnerKnows
<1>11. LogMatchesRow' /\ WaitingMeansOpenQuestion' /\ OneRunner' /\ LoopIsBounded'
  <2>1. LogMatchesRow' /\ WaitingMeansOpenQuestion' /\ LoopIsBounded'
    BY <1>1, <1>6 DEF Inv, LogMatchesRow, WaitingMeansOpenQuestion, LoopIsBounded
  <2>2. OneRunner'
    BY <1>9 DEF OneRunner, Runner
  <2> QED  BY <2>1, <2>2
<1>12. /\ s.toolRetries \in Nat /\ actions[n].runs \in Nat
       /\ actions'[n].runs = actions[n].runs + 1 /\ actions'[n].outcome = outcome
       /\ actions[n].runs <= s.toolRetries /\ s.toolRetries <= MaxToolRetries
       /\ s.toolRetries > 0 => old.action.request \in Idempotent
       /\ actions'[n].action = old.action /\ actions[n].action = old.action
  <2>1. s.toolRetries \in Nat
    BY <1>3 DEF ControlState
  <2>2. actions[n] \in Entry
    BY <1>5
  <2>3. actions'[n].runs = actions[n].runs + 1 /\ actions'[n].outcome = outcome
    BY <1>6
  <2>4. actions'[n].action = actions[n].action
    BY <1>5, <1>6
  <2>5. actions[n].runs \in Nat
    BY <2>2 DEF Entry
  <2> HIDE DEF s, old, n
  <2> QED  BY <1>4, <2>1, <2>3, <2>4, <2>5
<1>13. ToolRunsAreBounded'
  <2>1. actions'[n].runs <= IF actions'[n].action.request \in Idempotent
                            THEN 1 + MaxToolRetries ELSE 1
    <3>1. MaxToolRetries \in Nat
      BY RunAssumption
    <3> HIDE DEF s, old, n
    <3> QED  BY <1>12, <3>1
  <2> QED  BY <1>5, <1>6, <2>1 DEF Inv, ToolRunsAreBounded
<1>14. FailedIsNotRepeated'
  BY <1>3, <1>5, <1>6 DEF Inv, FailedIsNotRepeated
<1>15. WaitingRow' /\ ClosingRow' /\ AnswersCounted' /\ CompletedInv'
  BY <1>1, <1>10
     DEF Inv, WaitingRow, ClosingRow, AnswersCounted, CompletedInv, Waiting, Closing,
         AnsweredQuestions, IsTerminal
<1>16. ASSUME NEW v \in Workers \ {w} PROVE WorkerInv(v)'
  BY <1>1, <1>6, <1>7, <1>9, <1>10, <1>16, ZenonT(60)
     DEF Inv, WorkerInv, CloserInv, Waiting, At
<1>17. RunnerKnows(w)'
  BY <1>1, <1>3, <1>6, <1>7 DEF RunnerKnows, Closing, Waiting
<1>18. RunnerActs(w)'
  <2>1. Remembers(task[w].state, Len(actions) - 1)'
    BY <1>3, <1>4, <1>5, <1>6, <1>7 DEF Remembers
  <2>2. CanRetry(s, old.action, outcome) =>
          s.toolRetries < MaxToolRetries /\ old.action.request \in Idempotent
    BY DEF CanRetry
  <2>3. /\ pc = "retry" \/ pc = "handle"
        /\ pc = "retry" => CanRetry(s, old.action, outcome)
    OBVIOUS
  <2>4. actions'[n].runs <= s.toolRetries + 1
    <3> HIDE DEF s, old, n
    <3> QED  BY <1>12
  <2>5. /\ task'[w].pc = pc /\ task'[w].state = s /\ task'[w].action = old.action
        /\ actions'[n].action = old.action /\ Len(actions') = n
    BY <1>4, <1>5, <1>6, <1>7
  <2>6. n > 0 /\ n <= s.iteration + s.attempts + 1 /\ old.action.kind = "tool"
    BY <1>4
  <2> HIDE DEF pc, s, old, n
  <2>7. /\ Len(actions') > 0
        /\ Len(actions') <= task'[w].state.iteration + task'[w].state.attempts + 1
    BY <2>5, <2>6
  <2> QED  BY <2>1, <2>2, <2>3, <2>4, <2>5, <2>6, <2>7 DEF RunnerActs, At
<1>19. WorkerInv(w)'
  BY <1>7, <1>17, <1>18 DEF WorkerInv, At
<1> QED  BY <1>8, <1>11, <1>13, <1>14, <1>15, <1>16, <1>19 DEF Inv

\* The control state of a run, or of a worker, that has taken the next action.
LEMMA TakesAction ==
  ASSUME NEW s \in ControlState, NEW seq \in Nat
  PROVE  LET n == [s EXCEPT !.actionSeq = seq, !.toolRetries = 0] IN
         /\ n \in ControlState /\ n.status = s.status /\ n.phase = s.phase
         /\ n.version = s.version /\ n.actionSeq = seq /\ n.failed = s.failed
         /\ n.attempts = s.attempts /\ n.iteration = s.iteration /\ n.toolRetries = 0
BY DEF ControlState

\* The next action enters the log: no request in it has failed before, and the
\* limits on iterations and answers leave room for it.
LEMMA CommitActionKeeps ==
  ASSUME Inv, NEW w \in Workers, CommitAction(w)
  PROVE  Inv'
<1> DEFINE s == task[w].state
           old == task[w]
           a == old.action
           n == Len(actions)
           pc == AfterCommit(a)
           s1 == [s EXCEPT !.actionSeq = s.actionSeq + 1, !.toolRetries = 0]
           close == IF a.kind = "final" THEN "completed" ELSE old.close
           x == [old EXCEPT !.pc = pc, !.state = s1, !.close = close]
           e == [action |-> a, runs |-> 0, outcome |-> "none"]
<1>1. At(w, "commit") /\ ~Refused(s, a) /\ UNCHANGED locked /\ BoundsOK'
  BY DEF CommitAction, Ready, bounds, BoundsOK, Inv, TypeOK
<1>2. Runner(w)
  BY <1>1 DEF Runner, At, Loop
<1>3. /\ RunnerKnows(w) /\ RunnerActs(w) /\ s \in ControlState /\ old \in Worker
      /\ n \in Nat /\ row \in ControlState /\ row.version \in Nat
      /\ Len(confirmations) = n
  BY <1>2, RunnerFacts
<1>4. /\ s.actionSeq = n /\ n <= s.iteration + s.attempts /\ Remembers(s, n)
      /\ a \in Actions /\ s.status = "running" /\ s.phase # "finalization"
      /\ s.iteration < MaxIterations /\ s.attempts <= MaxConfirmations
      /\ s.version = row.version <=> ~Closing
  BY <1>1, <1>3 DEF RunnerKnows, RunnerActs, At
<1>5. s.iteration \in Nat /\ s.attempts \in Nat /\ row.actionSeq \in Nat /\ s.version \in Nat
  BY <1>3 DEF ControlState
<1>6. row.actionSeq <= n
  BY DEF Inv, LogMatchesRow
<1>7. CASE Caught(w, "failed") /\ UNCHANGED <<row, actions, confirmations>>
  BY <1>1, <1>7, CaughtKeeps DEF TerminalStatus
<1>8. ASSUME ~(Caught(w, "failed") /\ UNCHANGED <<row, actions, confirmations>>)
      PROVE  /\ s.version = row.version
             /\ actions' = Append(actions, e)
             /\ confirmations' = Append(confirmations, NoConfirmation)
             /\ row' = [row EXCEPT !.actionSeq = s.actionSeq + 1, !.toolRetries = 0]
             /\ task' = [task EXCEPT ![w] = x]
  <2>1. ~(s.actionSeq + 1 <= row.actionSeq)
    BY <1>3, <1>4, <1>5, <1>6
  <2> QED  BY <1>8, <2>1 DEF CommitAction, Set
<1>9. CASE ~(Caught(w, "failed") /\ UNCHANGED <<row, actions, confirmations>>)
  <2>1. /\ s.version = row.version /\ ~Closing
        /\ actions' = Append(actions, e)
        /\ confirmations' = Append(confirmations, NoConfirmation)
        /\ row' = [row EXCEPT !.actionSeq = n + 1, !.toolRetries = 0]
        /\ task' = [task EXCEPT ![w] = x]
    BY <1>4, <1>8, <1>9
  <2>2. /\ row.status = "running" /\ locked = NoIntent /\ ~Waiting /\ s.attempts = row.attempts
    BY <1>2, <1>3, <2>1, RunnerFacts DEF RunnerKnows
  <2>3. /\ row' \in ControlState /\ row'.status = "running" /\ row'.phase = row.phase
        /\ row'.version = row.version /\ row'.actionSeq = n + 1
        /\ row'.attempts = row.attempts
    <3>1. PICK q : q = row'
      OBVIOUS
    <3>2. n + 1 \in Nat /\ q = [row EXCEPT !.actionSeq = n + 1, !.toolRetries = 0]
      BY <1>3, <2>1, <3>1
    <3> HIDE DEF n, s
    <3>3. /\ q \in ControlState /\ q.status = row.status /\ q.phase = row.phase
          /\ q.version = row.version /\ q.actionSeq = n + 1 /\ q.attempts = row.attempts
      BY <1>3, <3>2, TakesAction, Zenon
    <3> QED  BY <2>2, <3>1, <3>3
  <2>4. /\ s1 \in ControlState /\ s1.status = "running" /\ s1.phase # "finalization"
        /\ s1.version = row.version /\ s1.actionSeq = n + 1 /\ s1.failed = s.failed
        /\ s1.attempts = s.attempts /\ s1.iteration = s.iteration /\ s1.toolRetries = 0
    <3>1. s1 = [s EXCEPT !.actionSeq = n + 1, !.toolRetries = 0]
      BY <1>4
    <3>2. n + 1 \in Nat
      BY <1>3
    <3> HIDE DEF n, s, s1
    <3>3. /\ s1 \in ControlState /\ s1.status = s.status /\ s1.phase = s.phase
          /\ s1.version = s.version /\ s1.actionSeq = n + 1 /\ s1.failed = s.failed
          /\ s1.attempts = s.attempts /\ s1.iteration = s.iteration /\ s1.toolRetries = 0
      BY <1>3, <3>1, <3>2, TakesAction, Zenon
    <3> QED  BY <1>4, <2>1, <3>3
  <2>5. \/ a.kind = "tool" /\ pc = "dispatch"
        \/ a.kind = "ask" /\ pc = "ask"
        \/ a.kind = "final" /\ pc = "close"
    BY <1>4 DEF Actions, AfterCommit
  <2>6. pc \in Busy /\ close \in Intent
    BY <1>3, <2>5 DEF Busy, Loop, Intent, TerminalStatus, Worker
  <2>7. a.kind = "final" => close = "completed"
    OBVIOUS
  <2> HIDE DEF s1, pc, close
  <2>8. x \in Worker /\ x.pc = pc /\ x.state = s1 /\ x.action = a /\ x.close = close
    <3>1. x = [old EXCEPT !.pc = pc, !.state = s1, !.close = close]
      OBVIOUS
    <3> HIDE DEF x, old, s
    <3>2. old \in Worker /\ s1 \in ControlState
      BY <1>3, <2>4
    <3>3. x = [pc |-> pc, state |-> s1, action |-> old.action, close |-> close,
               guarded |-> old.guarded]
      BY <3>1, <3>2 DEF Worker
    <3> QED  BY <2>6, <3>2, <3>3 DEF Worker
  <2> HIDE DEF x
  <2>9. task'[w] = x /\ \A v \in Workers \ {w} : task'[v] = task[v]
    BY <2>1 DEF Inv, TypeOK
  <2>10. /\ e \in Entry /\ e.action = a /\ e.runs = 0 /\ e.outcome = "none"
    BY <1>4 DEF Entry, Outcome
  <2> HIDE DEF e
  <2>11. /\ actions' \in Seq(Entry) /\ Len(actions') = n + 1 /\ DOMAIN actions' = 1..n + 1
         /\ DOMAIN actions = 1..n
         /\ \A i \in 1..n : actions'[i] = actions[i]
         /\ actions'[n + 1] = e
    <3>1. actions \in Seq(Entry)
      BY DEF Inv, TypeOK, Entry
    <3> QED  BY <1>3, <2>1, <2>10, <3>1
  <2>12. /\ Len(confirmations') = n + 1 /\ DOMAIN confirmations' = 1..n + 1
         /\ DOMAIN confirmations = 1..n
         /\ confirmations' \in Seq([status : {"none", "pending", "confirmed", "rejected"},
                                    question : Questions \cup {NoQuestion}])
         /\ \A i \in 1..n : confirmations'[i] = confirmations[i]
         /\ confirmations'[n + 1].status = "none"
    <3>1. confirmations \in Seq([status : {"none", "pending", "confirmed", "rejected"},
                                 question : Questions \cup {NoQuestion}])
      BY DEF Inv, TypeOK
    <3>2. /\ NoConfirmation \in [status : {"none", "pending", "confirmed", "rejected"},
                                 question : Questions \cup {NoQuestion}]
          /\ NoConfirmation.status = "none"
      BY DEF NoConfirmation
    <3> QED  BY <1>3, <2>1, <3>1, <3>2
  <2>13. TypeOK'
    BY <1>1, <2>1, <2>3, <2>8, <2>11, <2>12 DEF Inv, TypeOK, Worker, BoundsOK, Entry
  <2>14. \A v \in Workers \ {w} : WorkerInv(v)' /\ ~Runner(v)'
    BY <1>2, <1>3, <2>1, <2>2, <2>3, <2>9, <2>11, OthersKeep
  <2>15. OneRunner'
    BY <2>14 DEF OneRunner, Runner
  <2>16. LogMatchesRow'
    BY <1>3, <2>3, <2>11, <2>12 DEF LogMatchesRow
  <2>17. WaitingMeansOpenQuestion'
    BY <1>3, <2>2, <2>3, <2>12 DEF Inv, WaitingMeansOpenQuestion
  <2>18. ToolRunsAreBounded'
    <3>1. MaxToolRetries \in Nat
      BY RunAssumption
    <3>2. \A i \in 1..n : i \in DOMAIN actions /\ actions'[i] = actions[i]
      BY <2>11
    <3>3. \A i \in 1..n : actions'[i].runs <= IF actions'[i].action.request \in Idempotent
                                              THEN 1 + MaxToolRetries ELSE 1
      BY <3>2 DEF Inv, ToolRunsAreBounded
    <3>4. actions'[n + 1].runs <= IF actions'[n + 1].action.request \in Idempotent
                                  THEN 1 + MaxToolRetries ELSE 1
      BY <2>10, <2>11, <3>1
    <3>5. \A i \in 1..n + 1 : i \in 1..n \/ i = n + 1
      BY <1>3
    <3> QED  BY <2>11, <3>3, <3>4, <3>5 DEF ToolRunsAreBounded
  <2>19. FailedIsNotRepeated'
    <3>1. a.request \notin s.failed
      BY <1>1, <1>3, <1>4, RunAssumption DEF Refused, Actions, ControlState
    <3>2. \A i \in 1..n : actions[i].outcome \in Failure => actions[i].action.request # a.request
      BY <1>4, <2>11, <3>1 DEF Remembers
    <3>3. SUFFICES ASSUME NEW i \in 1..n + 1, NEW j \in 1..n + 1, i < j,
                          actions'[i].outcome \in Failure
                   PROVE  actions'[j].action.request # actions'[i].action.request
      BY <2>11 DEF FailedIsNotRepeated
    <3>4. i \in 1..n /\ actions'[i] = actions[i]
      BY <1>3, <2>11, <3>3
    <3>5. CASE j = n + 1
      BY <2>10, <2>11, <3>2, <3>3, <3>4, <3>5
    <3>6. CASE j # n + 1
      <4>1. j \in 1..n /\ actions'[j] = actions[j]
        BY <1>3, <2>11, <3>6
      <4> QED  BY <2>11, <3>3, <3>4, <4>1 DEF Inv, FailedIsNotRepeated
    <3> QED  BY <3>5, <3>6
  <2>20. LoopIsBounded'
    <3>1. MaxIterations \in Nat /\ MaxConfirmations \in Nat
      BY RunAssumption
    <3> HIDE DEF s, n
    <3> QED  BY <1>3, <1>4, <1>5, <2>11, <3>1 DEF LoopIsBounded
  <2>21. WaitingRow' /\ ClosingRow' /\ CompletedInv'
    BY <1>1, <2>2, <2>3
       DEF WaitingRow, ClosingRow, CompletedInv, Waiting, IsTerminal, TerminalStatus, NoIntent
  <2>22. AnswersCounted'
    <3>1. AnsweredQuestions' = AnsweredQuestions
      BY <1>3, <2>12 DEF AnsweredQuestions
    <3> QED  BY <2>1, <2>3, <3>1 DEF Inv, AnswersCounted, Closing
  <2>23. WorkerInv(w)'
    <3>1. pc # "close" => RunnerKnows(w)'
      <4>1. ~Closing' /\ ~Waiting'
        BY <2>1, <2>3 DEF Closing, Waiting
      <4>2. task'[w].state = s1
        BY <2>8, <2>9
      <4>3. row'.version \in Nat
        BY <1>3, <2>3
      <4> HIDE DEF s, n
      <4> QED  BY <1>4, <2>2, <2>3, <2>4, <2>11, <4>1, <4>2, <4>3 DEF RunnerKnows
    <3>2. Remembers(task[w].state, Len(actions) - 1)' /\ Remembers(task[w].state, Len(actions))'
      <4>1. task'[w].state.failed = s.failed
        BY <2>4, <2>8, <2>9
      <4>2. \A i \in 1..n + 1 : actions'[i].outcome \in Failure
                                => actions'[i].action.request \in s.failed
        BY <1>3, <1>4, <2>10, <2>11 DEF Remembers, Failure
      <4> QED  BY <2>11, <4>1, <4>2 DEF Remembers
    <3>3. RunnerActs(w)'
      <4>1. /\ task'[w].pc = pc /\ task'[w].action = a
            /\ task'[w].state.iteration = s.iteration /\ task'[w].state.attempts = s.attempts
            /\ task'[w].state.toolRetries = 0
        BY <2>4, <2>8, <2>9
      <4>2. actions'[n + 1].action = a /\ actions'[n + 1].runs = 0
        BY <2>10, <2>11
      <4>3. /\ Len(actions') - 1 = n /\ Len(actions') = n + 1 /\ Len(actions') > 0
            /\ Len(actions') <= s.iteration + s.attempts + 1
        BY <1>3, <1>4, <1>5, <2>11
      <4>4. a.kind = "ask" => s.attempts < MaxConfirmations
        <5>1. MaxConfirmations \in Nat
          BY RunAssumption
        <5> QED  BY <1>1, <1>5, <5>1 DEF Refused, Repeated
      <4> HIDE DEF s, old, n, a
      <4> QED  BY <2>5, <3>2, <4>1, <4>2, <4>3, <4>4 DEF RunnerActs, At
    <3>4. pc = "close" => CloserInv(w)'
      <4>1. task'[w].state = s1
        BY <2>8, <2>9
      <4> HIDE DEF s, n
      <4> QED  BY <1>3, <2>3, <2>4, <2>11, <4>1 DEF CloserInv
    <3>5. pc = "close" => Answered' /\ close \in TerminalStatus /\ ~Runner(w)'
      <4>1. ASSUME pc = "close" PROVE ~Runner(w)'
        BY <2>8, <2>9, <4>1 DEF Runner, Loop
      <4>2. ASSUME pc = "close" PROVE a.kind = "final" /\ close \in TerminalStatus
        BY <2>5, <2>7, <4>2 DEF TerminalStatus
      <4>3. actions' # <<>> /\ actions'[Len(actions')].action = a
        BY <1>3, <2>10, <2>11
      <4>4. ~Waiting'
        BY <2>3 DEF Waiting
      <4> QED  BY <2>14, <4>1, <4>2, <4>3, <4>4 DEF Answered
    <3>6. pc # "close" => pc \notin {"interrupted", "close", "finalize"}
      BY <2>5
    <3>7. task'[w].pc = pc /\ task'[w].close = close
      BY <2>8, <2>9
    <3>8. pc = "close" => pc # "finalize" /\ pc # "interrupted"
      OBVIOUS
    <3> QED  BY <3>1, <3>3, <3>4, <3>5, <3>6, <3>7 DEF WorkerInv, At
  <2> QED  BY <2>13, <2>14, <2>15, <2>16, <2>17, <2>18, <2>19, <2>20, <2>21, <2>22, <2>23 DEF Inv
<1> QED  BY <1>7, <1>9

Confirmation == [status : {"none", "pending", "confirmed", "rejected"},
                 question : Questions \cup {NoQuestion}]

\* A pause opens the question of the last action, while nobody closes the run.
LEMMA PauseIs ==
  ASSUME Inv, NEW w \in Workers, NEW question \in Questions, Pause(w, question),
         ~(Caught(w, "failed") /\ UNCHANGED <<row, confirmations>>)
  PROVE  LET n == Len(actions) IN
         /\ Runner(w) /\ ~Closing /\ UNCHANGED <<actions, locked>>
         /\ row' \in ControlState /\ row'.status = "waiting_confirmation"
         /\ row'.phase = "wait_confirmation" /\ row'.version = row.version + 1
         /\ row'.pending = n /\ row'.actionSeq = n /\ row'.attempts = row.attempts
         /\ row'.failed = task[w].state.failed /\ row'.iteration = task[w].state.iteration
         /\ row.attempts < MaxConfirmations
         /\ n \in DOMAIN confirmations /\ confirmations[n].status = "none"
         /\ \E c \in Confirmation :
              c.status = "pending" /\ confirmations' = [confirmations EXCEPT ![n] = c]
         /\ \E x \in Worker : x.pc = "paused" /\ task' = [task EXCEPT ![w] = x]
<1> DEFINE s == task[w].state
           old == task[w]
           n == Len(actions)
           s0 == [s EXCEPT !.pending = s.actionSeq]
           t == Transition(s0, "waiting_confirmation", "wait_confirmation", NoIntent)
           x == [old EXCEPT !.pc = "paused", !.state = t, !.action = NoAction]
           c == [status |-> "pending", question |-> question]
<1>1. /\ At(w, "ask") /\ UNCHANGED <<actions, locked>>
      /\ IF old.action.kind = "ask" THEN question = old.action.question
                                    ELSE ~Repeated(s, question)
      /\ CanSave(row, t) /\ confirmations[s.actionSeq] = NoConfirmation
      /\ row' = t
      /\ confirmations' = [confirmations EXCEPT ![s.actionSeq] = c]
      /\ task' = [task EXCEPT ![w] = x]
  BY DEF Pause, Ready, Set
<1>2. Runner(w)
  BY <1>1 DEF Runner, At, Loop
<1>3. /\ RunnerKnows(w) /\ RunnerActs(w) /\ s \in ControlState /\ old \in Worker
      /\ n \in Nat /\ row \in ControlState /\ row.version \in Nat
      /\ Len(confirmations) = n
  BY <1>2, RunnerFacts
<1>4. /\ s.actionSeq = n /\ n > 0 /\ s.status = "running"
      /\ ~Closing => s.attempts = row.attempts
  BY <1>1, <1>3 DEF RunnerKnows, RunnerActs, At
<1>5. s.attempts \in Nat /\ s.actionSeq \in Nat /\ MaxConfirmations \in Nat
  BY <1>3, RunAssumption DEF ControlState
<1>6. s.attempts < MaxConfirmations
  <2>1. \/ old.action.kind = "tool"
        \/ old.action.kind = "ask" /\ s.attempts < MaxConfirmations
    BY <1>1, <1>3 DEF RunnerActs, At
  <2> QED  BY <1>1, <1>5, <2>1 DEF Repeated
<1>7. /\ s0 \in ControlState /\ s0.status = s.status /\ s0.version = s.version
      /\ s0.actionSeq = s.actionSeq /\ s0.failed = s.failed /\ s0.attempts = s.attempts
      /\ s0.iteration = s.iteration /\ s0.pending = s.actionSeq
  BY <1>3, <1>5, CountsOn
<1> HIDE DEF s0
<1>8. /\ t \in ControlState /\ t.status = "waiting_confirmation"
      /\ t.phase = "wait_confirmation" /\ t.version = s.version + 1 /\ t.actionSeq = n
      /\ t.iteration = s.iteration /\ t.failed = s.failed /\ t.attempts = s.attempts
      /\ t.pending = n
  <2>1. /\ ~IsTerminal(s0) /\ "waiting_confirmation" \in HarnessStatus
        /\ "wait_confirmation" \in LoopPhase /\ NoIntent \in Intent
        /\ s0.status # "waiting_confirmation"
    BY <1>4, <1>7 DEF IsTerminal, TerminalStatus, HarnessStatus, LoopPhase, Intent
  <2> QED  BY <1>4, <1>7, <2>1, CandidateIs
<1> HIDE DEF t
<1>9. /\ ~Closing /\ row.version = s.version
  BY <1>1, <1>2, <1>8, RunnerSaves
<1>10. n \in DOMAIN confirmations /\ confirmations[n].status = "none"
  <2>1. DOMAIN confirmations = 1..n
    BY <1>3 DEF Inv, TypeOK
  <2> QED  BY <1>1, <1>3, <1>4, <2>1 DEF NoConfirmation
<1>11. c \in Confirmation /\ c.status = "pending"
  BY DEF Confirmation
<1>12. x \in Worker /\ x.pc = "paused"
  <2>1. x = [old EXCEPT !.pc = "paused", !.state = t, !.action = NoAction]
    OBVIOUS
  <2> HIDE DEF x, old
  <2>2. x = [pc |-> "paused", state |-> t, action |-> NoAction, close |-> old.close,
             guarded |-> old.guarded]
    BY <1>3, <2>1 DEF Worker
  <2> QED  BY <1>3, <1>8, <2>2 DEF Worker, Busy, Loop
<1> HIDE DEF x, c
<1> QED  BY <1>1, <1>2, <1>4, <1>6, <1>8, <1>9, <1>10, <1>11, <1>12

\* The run waits with everything it has to remember in its row.
LEMMA PauseKeeps ==
  ASSUME Inv, NEW w \in Workers, NEW question \in Questions, Pause(w, question)
  PROVE  Inv'
<1> DEFINE s == task[w].state
           n == Len(actions)
<1>1. CASE Caught(w, "failed") /\ UNCHANGED <<row, confirmations>>
  <2>1. UNCHANGED <<actions, locked>> /\ BoundsOK'
    BY DEF Pause, bounds, BoundsOK, Inv, TypeOK
  <2> QED  BY <1>1, <2>1, CaughtKeeps DEF TerminalStatus
<1>2. CASE ~(Caught(w, "failed") /\ UNCHANGED <<row, confirmations>>)
  <2>1. /\ Runner(w) /\ ~Closing /\ UNCHANGED <<actions, locked>>
        /\ row' \in ControlState /\ row'.status = "waiting_confirmation"
        /\ row'.phase = "wait_confirmation" /\ row'.version = row.version + 1
        /\ row'.pending = n /\ row'.actionSeq = n /\ row'.attempts = row.attempts
        /\ row'.failed = s.failed /\ row'.iteration = s.iteration
        /\ row.attempts < MaxConfirmations
        /\ n \in DOMAIN confirmations /\ confirmations[n].status = "none"
    BY <1>2, PauseIs
  <2>2. PICK c \in Confirmation :
          c.status = "pending" /\ confirmations' = [confirmations EXCEPT ![n] = c]
    BY <1>2, PauseIs
  <2>3. PICK x \in Worker : x.pc = "paused" /\ task' = [task EXCEPT ![w] = x]
    BY <1>2, PauseIs
  <2>4. /\ RunnerKnows(w) /\ RunnerActs(w) /\ s \in ControlState
        /\ n \in Nat /\ row.version \in Nat /\ Len(confirmations) = n
        /\ row.status = "running" /\ locked = NoIntent
    BY <2>1, RunnerFacts
  <2>5. task'[w] = x /\ \A v \in Workers \ {w} : task'[v] = task[v]
    BY <2>3 DEF Inv, TypeOK
  <2>6. /\ confirmations' \in Seq(Confirmation) /\ Len(confirmations') = n
        /\ DOMAIN confirmations' = 1..n /\ DOMAIN confirmations = 1..n
        /\ \A i \in 1..n : i # n => confirmations'[i] = confirmations[i]
        /\ confirmations'[n].status = "pending"
    <3>1. confirmations \in Seq(Confirmation)
      BY DEF Inv, TypeOK, Confirmation
    <3> QED  BY <2>1, <2>2, <2>4, <3>1
  <2>7. TypeOK'
    <3>1. BoundsOK'
      BY DEF Pause, bounds, BoundsOK, Inv, TypeOK
    <3> QED  BY <2>1, <2>3, <2>6, <3>1 DEF Inv, TypeOK, Worker, Confirmation, BoundsOK
  <2>8. \A v \in Workers \ {w} : WorkerInv(v)' /\ ~Runner(v)'
    BY <2>1, <2>4, <2>5, OthersKeep
  <2>9. ~Runner(w)' /\ WorkerInv(w)'
    BY <2>3, <2>5 DEF Runner, WorkerInv, At
  <2>10. OneRunner'
    BY <2>8, <2>9 DEF OneRunner, Runner
  <2>11. LogMatchesRow'
    BY <2>1, <2>4, <2>6 DEF LogMatchesRow
  <2>12. WaitingMeansOpenQuestion'
    <3>1. \A i \in 1..n : confirmations[i].status # "pending"
      BY <2>4, <2>6 DEF Inv, WaitingMeansOpenQuestion
    <3> HIDE DEF n, s
    <3> QED  BY <2>1, <2>6, <3>1 DEF WaitingMeansOpenQuestion
  <2>13. ToolRunsAreBounded' /\ FailedIsNotRepeated' /\ LoopIsBounded'
    BY <2>1 DEF Inv, ToolRunsAreBounded, FailedIsNotRepeated, LoopIsBounded
  <2>14. WaitingRow'
    <3>1. /\ Remembers(s, n) /\ n <= s.iteration + s.attempts + 1
          /\ s.iteration < MaxIterations /\ s.attempts = row.attempts
      <4>1. At(w, "ask")
        BY DEF Pause, Ready
      <4> QED  BY <2>1, <2>4, <4>1 DEF RunnerKnows, RunnerActs, At
    <3>2. Remembers(row, Len(actions))'
      BY <2>1, <3>1 DEF Remembers
    <3>3. Len(actions') <= row'.iteration + row'.attempts + 1
      BY <2>1, <3>1
    <3> QED  BY <2>1, <3>1, <3>2, <3>3 DEF WaitingRow
  <2>15. ClosingRow' /\ CompletedInv'
    BY <2>1, <2>4 DEF ClosingRow, CompletedInv, IsTerminal, TerminalStatus, NoIntent
  <2>16. AnswersCounted'
    <3>1. AnsweredQuestions' = AnsweredQuestions
      BY <2>1, <2>6 DEF AnsweredQuestions
    <3> QED  BY <2>1, <3>1 DEF Inv, AnswersCounted
  <2> QED  BY <2>7, <2>8, <2>9, <2>10, <2>11, <2>12, <2>13, <2>14, <2>15, <2>16 DEF Inv
<1> QED  BY <1>1, <1>2

\* The client has the question; the task is over.
LEMMA ReturnPausedKeeps ==
  ASSUME Inv, NEW w \in Workers, ReturnPaused(w)
  PROVE  Inv'
BY GoneKeeps DEF ReturnPaused, bounds, BoundsOK, Inv, TypeOK

\* A reply to the open question takes the row to running: one more answer, no
\* question left, and nobody in the loop or closing with the state of that row.
LEMMA ResumeIs ==
  ASSUME Inv, NEW w \in Workers, NEW seq \in DOMAIN actions,
         NEW decision \in {"confirmed", "rejected"}, Resume(w, seq, decision)
  PROVE  /\ Waiting /\ ~Closing /\ UNCHANGED <<actions, locked>>
         /\ row' \in ControlState /\ row'.status = "running" /\ row'.phase = "restore_run"
         /\ row'.version = row.version + 1 /\ row'.actionSeq = row.actionSeq
         /\ row'.attempts = row.attempts + 1 /\ row'.failed = row.failed
         /\ row'.iteration = row.iteration
         /\ row.pending = seq /\ seq \in DOMAIN confirmations
         /\ confirmations[seq].status = "pending"
         /\ \E c \in Confirmation :
              c.status = decision /\ confirmations' = [confirmations EXCEPT ![seq] = c]
         /\ \E x \in Worker :
              /\ x.state = row' /\ task' = [task EXCEPT ![w] = x]
              /\ \/ x.pc = "begin"
                 \/ x.pc = "close" /\ x.close = "cancelled"
<1> DEFINE q == confirmations[seq]
           r == [row EXCEPT !.attempts = row.attempts + 1, !.lastQuestion = q.question]
           s == Transition(r, "running", "restore_run", NoIntent)
           x == IF decision = "confirmed"
                THEN Entering(s)
                ELSE [Entering(s) EXCEPT !.pc = "close", !.close = "cancelled",
                                         !.guarded = FALSE]
           c == [status |-> decision, question |-> q.question]
<1>1. /\ q.status = "pending" /\ row.status = "waiting_confirmation" /\ row.pending = seq
      /\ confirmations' = [confirmations EXCEPT ![seq].status = decision]
      /\ row' = s /\ task' = [task EXCEPT ![w] = x] /\ UNCHANGED <<actions, locked>>
  BY DEF Resume, Set
<1>2. Waiting /\ ~Closing
  BY <1>1 DEF Inv, WaitingRow, Waiting, Closing
<1>3. seq \in DOMAIN confirmations /\ q \in Confirmation
  <2>1. confirmations \in Seq(Confirmation) /\ Len(confirmations) = Len(actions)
        /\ DOMAIN actions = 1..Len(actions)
    BY DEF Inv, TypeOK, Confirmation, LogMatchesRow
  <2> QED  BY <2>1
<1>4. row \in ControlState /\ row.attempts \in Nat /\ q.question \in Questions \cup {NoQuestion}
  BY <1>3 DEF Inv, TypeOK, ControlState, Confirmation
<1>5. /\ r \in ControlState /\ r.status = row.status /\ r.version = row.version
      /\ r.actionSeq = row.actionSeq /\ r.failed = row.failed
      /\ r.attempts = row.attempts + 1 /\ r.iteration = row.iteration
  <2>1. row.attempts + 1 \in Nat
    BY <1>4
  <2>2. PICK question \in Questions \cup {NoQuestion} : question = q.question
    BY <1>4
  <2>3. r = [row EXCEPT !.attempts = row.attempts + 1, !.lastQuestion = question]
    BY <2>2
  <2> HIDE DEF q, r
  <2>4. LET t == [row EXCEPT !.attempts = row.attempts + 1, !.lastQuestion = question] IN
        /\ t \in ControlState /\ t.status = row.status /\ t.version = row.version
        /\ t.actionSeq = row.actionSeq /\ t.failed = row.failed
        /\ t.attempts = row.attempts + 1 /\ t.iteration = row.iteration
    <3>1. row \in ControlState
      BY <1>4
    <3> QED  BY <2>1, <3>1 DEF ControlState
  <2> QED  BY <2>3, <2>4, Zenon
<1> HIDE DEF r
<1>6. /\ s \in ControlState /\ s.status = "running" /\ s.phase = "restore_run"
      /\ s.version = row.version + 1 /\ s.actionSeq = row.actionSeq
      /\ s.attempts = row.attempts + 1 /\ s.failed = row.failed
      /\ s.iteration = row.iteration
  <2>1. /\ ~IsTerminal(r) /\ "running" \in HarnessStatus /\ "restore_run" \in LoopPhase
        /\ NoIntent \in Intent
    BY <1>1, <1>5 DEF IsTerminal, TerminalStatus, HarnessStatus, LoopPhase, Intent
  <2> QED  BY <1>5, <2>1, CandidateIs
<1> HIDE DEF s
<1>7. c \in Confirmation /\ c.status = decision
      /\ confirmations' = [confirmations EXCEPT ![seq] = c]
  <2>1. c \in Confirmation /\ c.status = decision
    BY <1>4 DEF Confirmation
  <2>2. [q EXCEPT !.status = decision] = c
    BY <1>3 DEF Confirmation
  <2> HIDE DEF c
  <2> QED  BY <1>1, <2>1, <2>2
<1>8. /\ x \in Worker /\ x.state = s
      /\ \/ x.pc = "begin"
         \/ x.pc = "close" /\ x.close = "cancelled"
  <2>1. /\ Entering(s) \in Worker /\ Entering(s).pc = "begin" /\ Entering(s).state = s
    BY <1>6, EnteringTyped
  <2>2. "close" \in Busy /\ "cancelled" \in Intent
    BY DEF Busy, Intent, TerminalStatus
  <2> QED  BY <2>1, <2>2 DEF Worker
<1> HIDE DEF x, c
<1> QED  BY <1>1, <1>2, <1>3, <1>6, <1>7, <1>8

\* The answer wakes one worker up, with the state the row has kept.
LEMMA ResumeKeeps ==
  ASSUME Inv, NEW w \in Workers, NEW seq \in DOMAIN actions,
         NEW decision \in {"confirmed", "rejected"}, Resume(w, seq, decision)
  PROVE  Inv'
<1> DEFINE n == Len(actions)
<1>1. /\ Waiting /\ ~Closing /\ UNCHANGED <<actions, locked>>
      /\ row' \in ControlState /\ row'.status = "running" /\ row'.phase = "restore_run"
      /\ row'.version = row.version + 1 /\ row'.actionSeq = row.actionSeq
      /\ row'.attempts = row.attempts + 1 /\ row'.failed = row.failed
      /\ row'.iteration = row.iteration
      /\ row.pending = seq /\ seq \in DOMAIN confirmations
      /\ confirmations[seq].status = "pending"
  BY ResumeIs
<1>2. PICK c \in Confirmation :
        c.status = decision /\ confirmations' = [confirmations EXCEPT ![seq] = c]
  BY ResumeIs
<1>3. PICK x \in Worker :
        /\ x.state = row' /\ task' = [task EXCEPT ![w] = x]
        /\ \/ x.pc = "begin"
           \/ x.pc = "close" /\ x.close = "cancelled"
  BY ResumeIs
<1>4. task'[w] = x /\ \A v \in Workers \ {w} : task'[v] = task[v]
  BY <1>3 DEF Inv, TypeOK
<1>5. /\ n \in Nat /\ row.version \in Nat /\ row.attempts \in Nat /\ row.iteration \in Nat
      /\ row.actionSeq = n /\ locked = NoIntent
      /\ Remembers(row, n) /\ row.attempts < MaxConfirmations /\ row.iteration < MaxIterations
      /\ n <= row.iteration + row.attempts + 1
  <2>1. row \in ControlState /\ n \in Nat
    BY DEF Inv, TypeOK
  <2>2. row.version \in Nat /\ row.attempts \in Nat /\ row.iteration \in Nat
    BY <2>1 DEF ControlState
  <2>3. row.actionSeq = n /\ locked = NoIntent
    BY <1>1 DEF Inv, LogMatchesRow, ClosingRow, Closing
  <2>4. /\ Remembers(row, n) /\ row.attempts < MaxConfirmations
        /\ row.iteration < MaxIterations /\ n <= row.iteration + row.attempts + 1
    BY <1>1 DEF Inv, WaitingRow
  <2> QED  BY <2>1, <2>2, <2>3, <2>4
<1>6. \A v \in Workers : ~Runner(v)
  BY <1>1 DEF Inv, WorkerInv, RunnerKnows
<1>7. ~Answered
  BY <1>1 DEF Answered
<1>8. /\ confirmations' \in Seq(Confirmation) /\ Len(confirmations') = Len(confirmations)
      /\ DOMAIN confirmations' = DOMAIN confirmations
      /\ \A i \in DOMAIN confirmations : i # seq => confirmations'[i] = confirmations[i]
      /\ confirmations'[seq].status = decision
  <2>1. confirmations \in Seq(Confirmation)
    BY DEF Inv, TypeOK, Confirmation
  <2> QED  BY <1>1, <1>2, <2>1
<1>9. TypeOK'
  <2>1. BoundsOK'
    BY DEF Resume, bounds, BoundsOK, Inv, TypeOK
  <2> QED  BY <1>1, <1>3, <1>8, <2>1 DEF Inv, TypeOK, Worker, Confirmation, BoundsOK
<1>10. ASSUME NEW v \in Workers \ {w} PROVE WorkerInv(v)' /\ ~Runner(v)'
  <2>1. WorkerInv(v) /\ ~Runner(v) /\ task'[v] = task[v]
    BY <1>4, <1>6 DEF Inv
  <2>2. ~Runner(v)'
    BY <2>1 DEF Runner
  <2>3. CloserInv(v) => CloserInv(v)'
    <3>1. task[v].state.version \in Nat
      BY DEF Inv, TypeOK, ControlState
    <3> QED  BY <1>1, <1>5, <2>1, <3>1, SMTT(30) DEF CloserInv, Waiting
  <2> QED  BY <1>7, <2>1, <2>2, <2>3 DEF WorkerInv, At
<1>11. OneRunner'
  BY <1>10 DEF OneRunner, Runner
<1>12. LogMatchesRow'
  BY <1>1, <1>8 DEF Inv, LogMatchesRow, Closing
<1>13. WaitingMeansOpenQuestion'
  <2>1. \A i \in DOMAIN confirmations : confirmations'[i].status # "pending"
    BY <1>1, <1>8 DEF Inv, WaitingMeansOpenQuestion
  <2> QED  BY <1>1, <1>8, <2>1 DEF WaitingMeansOpenQuestion
<1>14. ToolRunsAreBounded' /\ FailedIsNotRepeated' /\ LoopIsBounded'
  BY <1>1 DEF Inv, ToolRunsAreBounded, FailedIsNotRepeated, LoopIsBounded
<1>15. WaitingRow' /\ ClosingRow' /\ CompletedInv'
  BY <1>1, <1>5
     DEF WaitingRow, ClosingRow, CompletedInv, Waiting, IsTerminal, TerminalStatus, NoIntent
<1>16. AnswersCounted'
  <2>1. AnsweredQuestions' = AnsweredQuestions \cup {seq}
    BY <1>1, <1>8 DEF AnsweredQuestions
  <2>2. seq \notin AnsweredQuestions
    BY <1>1 DEF AnsweredQuestions
  <2>3. IsFiniteSet(AnsweredQuestions)
    <3>1. AnsweredQuestions \subseteq 1..Len(confirmations) /\ Len(confirmations) \in Nat
      BY DEF AnsweredQuestions, Inv, TypeOK
    <3>2. IsFiniteSet(1..Len(confirmations))
      BY <3>1, FS_Interval
    <3> QED  BY <3>1, <3>2, FS_Subset
  <2>4. Cardinality(AnsweredQuestions') = Cardinality(AnsweredQuestions) + 1
    BY <2>1, <2>2, <2>3, FS_AddElement
  <2>5. Cardinality(AnsweredQuestions) = row.attempts
    BY <1>1 DEF Inv, AnswersCounted
  <2> QED  BY <1>1, <2>4, <2>5 DEF AnswersCounted
<1>17. WorkerInv(w)'
  <2>1. task'[w].state = row' /\ ~Closing' /\ ~Waiting'
    BY <1>1, <1>3, <1>4 DEF Closing, Waiting
  <2>2. CASE x.pc = "begin"
    <3>1. RunnerKnows(w)'
      <4>1. MaxConfirmations \in Nat
        BY RunAssumption
      <4> QED  BY <1>1, <1>5, <2>1, <4>1 DEF RunnerKnows
    <3>2. RunnerActs(w)'
      <4>1. Remembers(task[w].state, Len(actions))'
        BY <1>1, <1>5, <2>1 DEF Remembers
      <4>2. Len(actions') <= row'.iteration + row'.attempts
        BY <1>1, <1>5
      <4>3. task'[w].pc = "begin"
        BY <1>4, <2>2
      <4> QED  BY <2>1, <4>1, <4>2, <4>3 DEF RunnerActs, At
    <3> QED  BY <1>4, <2>2, <3>1, <3>2 DEF WorkerInv, At
  <2>3. CASE x.pc = "close" /\ x.close = "cancelled"
    <3>1. CloserInv(w)'
      BY <1>1, <1>5, <2>1 DEF CloserInv
    <3> QED  BY <1>4, <2>3, <3>1 DEF WorkerInv, At, Runner, Loop, TerminalStatus
  <2> QED  BY <1>3, <2>2, <2>3
<1> QED
  BY <1>9, <1>10, <1>11, <1>12, <1>13, <1>14, <1>15, <1>16, <1>17 DEF Inv

(***************************************************************************)
(* Closing: one lemma per action, and what they have in common.            *)
(***************************************************************************)

\* A step that leaves the row closing, as it was or in its next version, and takes
\* workers nowhere but out, into their handler, or from close to finalize.
LEMMA ClosesRow ==
  ASSUME Inv, TypeOK', UNCHANGED <<actions, confirmations>>,
         row.status # "waiting_confirmation",
         row'.phase = "finalization", row'.status # "waiting_confirmation",
         row'.actionSeq <= Len(actions),
         \/ row' = row
         \/ row.status = "running" /\ row'.version = row.version + 1,
         row'.status = "completed" \/ locked' = "completed" => Answered,
         \A v \in Workers :
           \/ task'[v] = task[v]
           \/ task'[v].pc \in {"idle", "dead"}
           \/ /\ task'[v].pc = "interrupted"
              /\ task'[v].close \in TerminalStatus \ {"completed"}
           \/ /\ At(v, "close") /\ task'[v].pc = "finalize"
              /\ task'[v].close = task[v].close
  PROVE  Inv'
<1>1. /\ row \in ControlState /\ row.version \in Nat /\ Len(actions) \in Nat
      /\ ~Waiting /\ ~Waiting' /\ Closing'
  <2>1. row \in ControlState /\ Len(actions) \in Nat
    BY DEF Inv, TypeOK
  <2> QED  BY <2>1 DEF ControlState, Waiting, Closing
<1>2. \A v \in Workers : Runner(v)' => Runner(v) /\ task'[v] = task[v]
  BY DEF Runner, Loop
<1>3. Answered => Answered'
  BY <1>1, <1>2 DEF Answered
<1>4. LogMatchesRow'
  BY <1>1 DEF Inv, LogMatchesRow, Closing
<1>5. WaitingMeansOpenQuestion'
  BY DEF Inv, WaitingMeansOpenQuestion
<1>6. OneRunner'
  BY <1>2 DEF Inv, OneRunner, Runner
<1>7. ToolRunsAreBounded' /\ FailedIsNotRepeated' /\ LoopIsBounded'
  BY DEF Inv, ToolRunsAreBounded, FailedIsNotRepeated, LoopIsBounded
<1>8. WaitingRow' /\ ClosingRow' /\ AnswersCounted' /\ CompletedInv'
  BY <1>1, <1>3 DEF WaitingRow, ClosingRow, AnswersCounted, CompletedInv
<1>9. ASSUME NEW v \in Workers PROVE WorkerInv(v)'
  <2>1. CASE task'[v] = task[v]
    <3>1. WorkerInv(v) /\ task[v].state.version \in Nat
      BY DEF Inv, TypeOK, ControlState
    <3>2. RunnerKnows(v) => RunnerKnows(v)'
      <4>1. row' = row \/ row'.version = row.version + 1
        OBVIOUS
      <4> QED  BY <1>1, <2>1, <3>1, <4>1 DEF RunnerKnows, Closing
    <3>3. RunnerActs(v) => RunnerActs(v)'
      BY <2>1 DEF RunnerActs, Remembers, At
    <3>4. CloserInv(v) => CloserInv(v)'
      <4>1. \/ row' = row
            \/ row.status = "running" /\ row'.version = row.version + 1
        OBVIOUS
      <4> QED  BY <1>1, <2>1, <3>1, <4>1 DEF CloserInv
    <3> QED  BY <1>2, <1>3, <2>1, <3>1, <3>2, <3>3, <3>4 DEF WorkerInv, At
  <2>2. CASE task'[v].pc \in {"idle", "dead"}
    BY <2>2 DEF WorkerInv, At, Runner, Loop
  <2>3. CASE /\ task'[v].pc = "interrupted"
             /\ task'[v].close \in TerminalStatus \ {"completed"}
    BY <2>3 DEF WorkerInv, At, Runner, Loop
  <2>4. CASE /\ At(v, "close") /\ task'[v].pc = "finalize"
             /\ task'[v].close = task[v].close
    BY <1>3, <2>4 DEF Inv, WorkerInv, At, Runner, Loop
  <2> QED  BY <2>1, <2>2, <2>3, <2>4
<1> QED  BY <1>4, <1>5, <1>6, <1>7, <1>8, <1>9 DEF Inv

\* The handler starts again from the row, a waiting one woken up in memory.
LEMMA PrepareInterruptionKeeps ==
  ASSUME Inv, NEW w \in Workers, PrepareInterruption(w)
  PROVE  Inv'
<1> DEFINE old == task[w]
           s == IF row.status = "waiting_confirmation"
                THEN Transition(row, "running", "restore_run", NoIntent) ELSE row
           x == [old EXCEPT !.pc = "close", !.state = s, !.guarded = FALSE]
<1>1. /\ At(w, "interrupted") /\ task' = [task EXCEPT ![w] = x]
      /\ UNCHANGED <<row, actions, confirmations, locked>> /\ BoundsOK'
  BY DEF PrepareInterruption, Set, bounds, BoundsOK, Inv, TypeOK
<1>2. /\ old \in Worker /\ row \in ControlState /\ row.version \in Nat
      /\ row.actionSeq <= Len(actions)
  BY DEF Inv, TypeOK, Worker, ControlState, LogMatchesRow
<1>3. /\ s \in ControlState /\ s.actionSeq = row.actionSeq
      /\ \/ Waiting /\ s.status = "running" /\ s.version = row.version + 1
         \/ ~Waiting /\ s = row
  <2>1. CASE ~Waiting
    BY <1>2, <2>1 DEF Waiting
  <2>2. CASE Waiting
    <3>1. /\ ~IsTerminal(row) /\ "running" \in HarnessStatus
          /\ "restore_run" \in LoopPhase /\ NoIntent \in Intent
      BY <2>2 DEF Waiting, IsTerminal, TerminalStatus, HarnessStatus, LoopPhase, Intent
    <3>2. s = Transition(row, "running", "restore_run", NoIntent)
      BY <2>2 DEF Waiting
    <3> HIDE DEF s
    <3> QED  BY <1>2, <2>2, <3>1, <3>2, CandidateIs
  <2> QED  BY <2>1, <2>2
<1> HIDE DEF s
<1>4. x \in Worker /\ x.pc = "close" /\ x.state = s /\ x.close = old.close
  <2>1. x = [old EXCEPT !.pc = "close", !.state = s, !.guarded = FALSE]
    OBVIOUS
  <2> HIDE DEF x, old
  <2>2. x = [pc |-> "close", state |-> s, action |-> old.action, close |-> old.close,
             guarded |-> FALSE]
    BY <1>2, <2>1 DEF Worker
  <2> QED  BY <1>2, <1>3, <2>2 DEF Worker, Busy
<1> HIDE DEF x
<1>5. task'[w] = x /\ x.pc \notin Loop \ {"paused"}
      /\ \A v \in Workers \ {w} : task'[v] = task[v]
  BY <1>1, <1>4 DEF Inv, TypeOK, Loop
<1>6. ~Runner(w)'
  BY <1>5 DEF Runner
<1>7. Answered => Answered'
  BY <1>1, <1>5, <1>6 DEF Answered, Runner, Waiting
<1>8. CloserInv(w)'
  <2>1. task'[w].state = s /\ row' = row /\ actions' = actions /\ (Waiting' <=> Waiting)
    BY <1>1, <1>4, <1>5 DEF Waiting
  <2> QED  BY <1>2, <1>3, <2>1 DEF CloserInv, Waiting
<1>9. WorkerInv(w)'
  <2>1. old.close \in TerminalStatus /\ (old.close = "completed" => Answered)
    BY <1>1 DEF Inv, WorkerInv, At
  <2> QED  BY <1>4, <1>5, <1>6, <1>7, <1>8, <2>1 DEF WorkerInv, At
<1> QED  BY <1>1, <1>4, <1>5, <1>9, TaskMoves

\* The intent is saved only by a worker that has the row's own state, or its next.
LEMMA SaveIntentKeeps ==
  ASSUME Inv, NEW w \in Workers, SaveIntent(w)
  PROVE  Inv'
<1> DEFINE old == task[w]
           s == old.state
           t == Transition(s, "running", "finalization", old.close)
           x == [old EXCEPT !.pc = "finalize", !.state = t]
<1>1. /\ At(w, "close") /\ UNCHANGED <<actions, confirmations, locked>> /\ BoundsOK'
      /\ \/ /\ CanTransition(s, "running", "finalization", old.close)
            /\ CanSave(row, t) /\ row' = t /\ task' = [task EXCEPT ![w] = x]
         \/ Caught(w, "failed") /\ UNCHANGED row
  BY DEF SaveIntent, Set, bounds, BoundsOK, Inv, TypeOK
<1>2. CASE Caught(w, "failed") /\ UNCHANGED row
  BY <1>1, <1>2, CaughtKeeps DEF TerminalStatus
<1>3. CASE /\ CanTransition(s, "running", "finalization", old.close)
           /\ CanSave(row, t) /\ row' = t /\ task' = [task EXCEPT ![w] = x]
  <2>1. /\ CloserInv(w) /\ old \in Worker /\ s \in ControlState /\ row \in ControlState
        /\ old.close \in TerminalStatus /\ s.version \in Nat /\ row.version \in Nat
    <3>1. CloserInv(w) /\ old.close \in TerminalStatus
      BY <1>1 DEF Inv, WorkerInv, At
    <3>2. old \in Worker /\ s \in ControlState /\ row \in ControlState
      BY DEF Inv, TypeOK, Worker
    <3> QED  BY <3>1, <3>2 DEF ControlState
  <2>2. ~IsTerminal(s) /\ s.status = "running"
    <3>1. ~IsTerminal(s)
      BY <1>3 DEF CanTransition, IsTerminal, TerminalStatus
    <3> QED  BY <2>1, <3>1 DEF CloserInv, IsTerminal, ControlState, HarnessStatus
  <2>3. /\ t \in ControlState /\ t.status = "running" /\ t.phase = "finalization"
        /\ t.version = s.version + 1 /\ t.actionSeq = s.actionSeq
    <3>1. /\ "running" \in HarnessStatus /\ "finalization" \in LoopPhase
          /\ old.close \in Intent
      BY <2>1 DEF HarnessStatus, LoopPhase, Intent
    <3> QED  BY <2>1, <2>2, <3>1, CandidateIs
  <2> HIDE DEF t
  <2>4. /\ row.status # "waiting_confirmation"
        /\ \/ t = row
           \/ row.status = "running" /\ t.version = row.version + 1
    <3>1. CASE t = row
      BY <2>3, <3>1
    <3>2. CASE t.version = row.version + 1
      <4>1. s.version = row.version
        BY <2>1, <2>3, <3>2
      <4> QED  BY <2>1, <2>2, <3>2, <4>1 DEF CloserInv
    <3> QED  BY <1>3, <3>1, <3>2 DEF CanSave
  <2>5. x \in Worker /\ x.pc = "finalize" /\ x.close = old.close
    <3>1. x = [old EXCEPT !.pc = "finalize", !.state = t] /\ "finalize" \in Busy
      BY DEF Busy
    <3>2. old \in Worker /\ t \in ControlState
      BY <2>1, <2>3
    <3> HIDE DEF x, old
    <3>3. x = [pc |-> "finalize", state |-> t, action |-> old.action, close |-> old.close,
               guarded |-> old.guarded]
      BY <3>1, <3>2 DEF Worker
    <3> QED  BY <3>1, <3>2, <3>3 DEF Worker
  <2> HIDE DEF x
  <2>6. TypeOK'
    BY <1>1, <1>3, <2>3, <2>5 DEF Inv, TypeOK, Worker, BoundsOK
  <2>7. task'[w] = x /\ \A v \in Workers \ {w} : task'[v] = task[v]
    BY <1>3 DEF Inv, TypeOK
  <2>8. row'.status = "completed" \/ locked' = "completed" => Answered
    BY <1>1, <1>3, <2>3 DEF Inv, CompletedInv
  <2>9. row'.actionSeq <= Len(actions)
    BY <1>3, <2>1, <2>3 DEF CloserInv
  <2>10. \A v \in Workers :
           \/ task'[v] = task[v]
           \/ /\ At(v, "close") /\ task'[v].pc = "finalize"
              /\ task'[v].close = task[v].close
    BY <1>1, <2>5, <2>7
  <2> QED  BY <1>1, <1>3, <2>3, <2>4, <2>6, <2>8, <2>9, <2>10, ClosesRow
<1> QED  BY <1>1, <1>2, <1>3

\* What ending the run with a status makes of a row that is closing.
LEMMA EndedIs ==
  ASSUME Inv, Closing, NEW status \in TerminalStatus
  PROVE  /\ row.status # "waiting_confirmation"
         /\ Ended(status) \in ControlState /\ Ended(status).phase = "finalization"
         /\ Ended(status).status # "waiting_confirmation"
         /\ Ended(status).actionSeq = row.actionSeq
         /\ \/ Ended(status) = row
            \/ /\ row.status = "running" /\ Ended(status).version = row.version + 1
               /\ Ended(status).status = status
<1> DEFINE t == Transition(row, status, "finalization", status)
<1>1. Ended(status) = t
  BY DEF Ended
<1>2. row \in ControlState /\ row.status # "waiting_confirmation" /\ row.phase = "finalization"
  BY DEF Inv, TypeOK, WaitingRow, Waiting, Closing
<1>3. CASE IsTerminal(row)
  BY <1>1, <1>2, <1>3 DEF Transition
<1>4. CASE ~IsTerminal(row)
  <2>1. row.status = "running"
    BY <1>2, <1>4 DEF IsTerminal, ControlState, HarnessStatus
  <2>2. /\ status \in HarnessStatus /\ "finalization" \in LoopPhase /\ status \in Intent
        /\ status # "waiting_confirmation"
    BY DEF HarnessStatus, LoopPhase, Intent, TerminalStatus
  <2> HIDE DEF t
  <2>3. t = Transition(row, status, "finalization", status)
    BY DEF t
  <2>4. /\ t \in ControlState /\ t.status = status /\ t.phase = "finalization"
        /\ t.version = row.version + 1 /\ t.actionSeq = row.actionSeq
    BY <1>2, <1>4, <2>2, <2>3, CandidateIs
  <2> QED  BY <1>1, <1>2, <2>1, <2>2, <2>4
<1> QED  BY <1>3, <1>4

\* The run ends with the status the worker closes it with.
LEMMA FinalizeKeeps ==
  ASSUME Inv, NEW w \in Workers, Finalize(w)
  PROVE  Inv'
<1> DEFINE status == task[w].close
<1>1. /\ At(w, "finalize") /\ Closing /\ locked' = status /\ row' = Ended(status)
      /\ task' = [task EXCEPT ![w] = Gone] /\ UNCHANGED <<actions, confirmations>>
      /\ BoundsOK'
  BY DEF Finalize, Finalizable, Closing, Set, bounds, BoundsOK, Inv, TypeOK
<1>2. status \in TerminalStatus /\ (status = "completed" => Answered)
  BY <1>1 DEF Inv, WorkerInv, At
<1>3. /\ row.status # "waiting_confirmation"
      /\ row' \in ControlState /\ row'.phase = "finalization"
      /\ row'.status # "waiting_confirmation" /\ row'.actionSeq = row.actionSeq
      /\ \/ row' = row
         \/ /\ row.status = "running" /\ row'.version = row.version + 1
            /\ row'.status = status
  BY <1>1, <1>2, EndedIs
<1>4. row'.status = "completed" \/ locked' = "completed" => Answered
  BY <1>1, <1>2, <1>3 DEF Inv, CompletedInv
<1>5. row'.actionSeq <= Len(actions)
  BY <1>3 DEF Inv, LogMatchesRow
<1>6. \A v \in Workers : task'[v] = task[v] \/ task'[v].pc \in {"idle", "dead"}
  BY <1>1, GoneTyped DEF Inv, TypeOK
<1>7. TypeOK'
  BY <1>1, <1>2, <1>3, GoneTyped DEF Inv, TypeOK, Worker, BoundsOK, Intent
<1> QED  BY <1>1, <1>3, <1>4, <1>5, <1>6, <1>7, ClosesRow

\* The status is locked, the run is still open, the worker is dead or in its handler.
LEMMA FinalizeFailsKeeps ==
  ASSUME Inv, NEW w \in Workers, FinalizeFails(w)
  PROVE  Inv'
<1> DEFINE status == task[w].close
           dead == [Gone EXCEPT !.pc = "dead", !.close = status]
<1>1. /\ At(w, "finalize") /\ Closing /\ locked' = status
      /\ UNCHANGED <<row, actions, confirmations>> /\ BoundsOK'
      /\ \/ task' = [task EXCEPT ![w] = dead]
         \/ Caught(w, "cancelled")
  BY RunAssumption
     DEF FinalizeFails, Finalizable, Closing, Set, BoundsOK, Inv, TypeOK
<1>2. status \in TerminalStatus /\ (status = "completed" => Answered)
  BY <1>1 DEF Inv, WorkerInv, At
<1>3. PICK x \in Worker :
        /\ task' = [task EXCEPT ![w] = x] /\ task'[w] = x
        /\ \/ x.pc = "dead"
           \/ x.pc = "interrupted" /\ x.close = "cancelled"
  <2>1. CASE Caught(w, "cancelled")
    <3>1. "cancelled" \in TerminalStatus
      BY DEF TerminalStatus
    <3> QED  BY <2>1, <3>1, CaughtIs DEF Inv
  <2>2. CASE task' = [task EXCEPT ![w] = dead]
    <3>1. dead \in Worker /\ dead.pc = "dead"
      BY <1>2, GoneTyped DEF Intent
    <3> QED  BY <2>2, <3>1 DEF Inv, TypeOK
  <2> QED  BY <1>1, <2>1, <2>2
<1>4. row.status # "waiting_confirmation" /\ row.phase = "finalization"
  BY <1>1 DEF Inv, WaitingRow, Waiting, Closing
<1>5. row'.status = "completed" \/ locked' = "completed" => Answered
  BY <1>1, <1>2 DEF Inv, CompletedInv
<1>6. row'.actionSeq <= Len(actions)
  BY <1>1 DEF Inv, LogMatchesRow
<1>7. \A v \in Workers :
        \/ task'[v] = task[v]
        \/ task'[v].pc \in {"idle", "dead"}
        \/ /\ task'[v].pc = "interrupted"
           /\ task'[v].close \in TerminalStatus \ {"completed"}
  BY <1>3 DEF Inv, TypeOK, TerminalStatus
<1>8. TypeOK'
  BY <1>1, <1>2, <1>3 DEF Inv, TypeOK, Worker, BoundsOK, Intent
<1> QED  BY <1>1, <1>4, <1>5, <1>6, <1>7, <1>8, ClosesRow

\* A worker that may not end the run is caught.
LEMMA FinalizeRefusedKeeps ==
  ASSUME Inv, NEW w \in Workers, FinalizeRefused(w)
  PROVE  Inv'
<1>1. /\ Caught(w, "failed") /\ UNCHANGED <<row, actions, confirmations, locked>>
      /\ BoundsOK' /\ "failed" \in TerminalStatus \ {"completed"}
  BY DEF FinalizeRefused, bounds, BoundsOK, Inv, TypeOK, TerminalStatus
<1> QED  BY <1>1, CaughtKeeps

\* The run ends with the status that was locked.
LEMMA ReconcileKeeps ==
  ASSUME Inv, Reconcile
  PROVE  Inv'
<1>1. /\ locked \in TerminalStatus /\ Closing /\ row' = Ended(locked)
      /\ UNCHANGED <<actions, confirmations, locked, task>> /\ BoundsOK'
  BY DEF Reconcile, Inv, TypeOK, ClosingRow, Intent, bounds, BoundsOK
<1>2. /\ row.status # "waiting_confirmation"
      /\ row' \in ControlState /\ row'.phase = "finalization"
      /\ row'.status # "waiting_confirmation" /\ row'.actionSeq = row.actionSeq
      /\ \/ row' = row
         \/ /\ row.status = "running" /\ row'.version = row.version + 1
            /\ row'.status = locked
  BY <1>1, EndedIs
<1>3. row'.status = "completed" \/ locked' = "completed" => Answered
  BY <1>1, <1>2 DEF Inv, CompletedInv
<1>4. row'.actionSeq <= Len(actions)
  BY <1>2 DEF Inv, LogMatchesRow
<1>5. TypeOK'
  BY <1>1, <1>2 DEF Inv, TypeOK, BoundsOK
<1> QED  BY <1>1, <1>2, <1>3, <1>4, <1>5, ClosesRow

\* A dead process leaves the row and the log as they are.
LEMMA CrashKeeps ==
  ASSUME Inv, NEW w \in Workers, Crash(w)
  PROVE  Inv'
<1>1. /\ Set(w, Gone) /\ UNCHANGED <<row, actions, confirmations, locked>> /\ BoundsOK'
  BY RunAssumption DEF Crash, BoundsOK, Inv, TypeOK
<1> QED  BY <1>1, GoneKeeps

\* The deadline passes, or nothing happens.
LEMMA NothingMoves ==
  ASSUME Inv, UNCHANGED <<row, actions, confirmations, locked, task>>, BoundsOK'
  PROVE  Inv'
<1>1. TypeOK'
  BY DEF Inv, TypeOK, BoundsOK
<1>2. /\ LogMatchesRow' /\ WaitingMeansOpenQuestion' /\ OneRunner'
      /\ ToolRunsAreBounded' /\ FailedIsNotRepeated' /\ LoopIsBounded'
  BY DEF Inv, LogMatchesRow, WaitingMeansOpenQuestion, OneRunner, ToolRunsAreBounded,
         FailedIsNotRepeated, LoopIsBounded
<1>3. Answered => Answered'
  BY DEF Answered, Runner, Waiting
<1>4. WaitingRow' /\ ClosingRow' /\ AnswersCounted' /\ CompletedInv'
  BY <1>3 DEF Inv, WaitingRow, ClosingRow, AnswersCounted, CompletedInv, Waiting, Closing,
              Remembers, AnsweredQuestions, IsTerminal
<1>5. ASSUME NEW w \in Workers PROVE WorkerInv(w)'
  <2>1. WorkerInv(w) /\ (Runner(w)' <=> Runner(w))
    BY DEF Inv, Runner
  <2>2. RunnerKnows(w) => RunnerKnows(w)'
    BY DEF RunnerKnows, Closing, Waiting
  <2>3. RunnerActs(w) => RunnerActs(w)'
    BY DEF RunnerActs, Remembers, At
  <2>4. CloserInv(w) => CloserInv(w)'
    BY DEF CloserInv, Waiting
  <2> QED  BY <1>3, <2>1, <2>2, <2>3, <2>4 DEF WorkerInv, At
<1> QED  BY <1>1, <1>2, <1>4, <1>5 DEF Inv

(***************************************************************************)
(* The invariant of the specification.                                     *)
(***************************************************************************)

\* A run that was just created.
LEMMA InitInv ==
  Init => Inv
<1> SUFFICES ASSUME Init PROVE Inv
  OBVIOUS
<1>1. /\ row = NewState /\ actions = <<>> /\ confirmations = <<>> /\ locked = NoIntent
      /\ task = [w \in Workers |-> IF w = Starter THEN Entering(NewState) ELSE Gone]
      /\ expired = FALSE /\ interrupts = 0 /\ crashes = 0
  BY DEF Init
<1>2. /\ NewState \in ControlState
      /\ Entering(NewState) \in Worker /\ Entering(NewState).pc = "begin"
      /\ Entering(NewState).state = NewState
      /\ Gone \in Worker /\ Gone.pc = "idle"
  BY NewStateTyped, EnteringTyped, GoneTyped
<1>3. /\ NewState.status = "running" /\ NewState.phase = "start_run"
      /\ NewState.version = 0 /\ NewState.actionSeq = 0 /\ NewState.iteration = 0
      /\ NewState.attempts = 0
  BY DEF NewState
<1>4. /\ task \in [Workers -> Worker]
      /\ \A w \in Workers : task[w] = IF w = Starter THEN Entering(NewState) ELSE Gone
  BY <1>1, <1>2
<1>5. Len(actions) = 0 /\ DOMAIN actions = {} /\ Len(confirmations) = 0
      /\ DOMAIN confirmations = {}
  BY <1>1
<1>6. MaxConfirmations \in Nat /\ MaxIterations \in Nat \ {0} /\ MaxInterrupts \in Nat
      /\ MaxCrashes \in Nat
  BY RunAssumption
<1>7. TypeOK
  <2>1. interrupts \in 0..MaxInterrupts /\ crashes \in 0..MaxCrashes /\ expired \in BOOLEAN
    <3>1. interrupts = 0 /\ crashes = 0
      BY <1>1
    <3>2. interrupts \in 0..MaxInterrupts /\ crashes \in 0..MaxCrashes
      BY <1>6, <3>1
    <3> QED  BY <1>1, <3>2
  <2>2. actions \in Seq(Entry) /\ confirmations \in Seq(Confirmation)
    BY <1>1
  <2>3. row \in ControlState /\ locked \in Intent
    BY <1>1, <1>2 DEF Intent
  <2> QED  BY <1>4, <2>1, <2>2, <2>3 DEF TypeOK, Worker, Entry, Confirmation
<1>8. \A w \in Workers : Runner(w) => w = Starter
  BY <1>2, <1>4 DEF Runner, Loop
<1>9. OneRunner
  BY <1>8 DEF OneRunner, Runner
<1>10. /\ LogMatchesRow /\ WaitingMeansOpenQuestion /\ ToolRunsAreBounded
       /\ FailedIsNotRepeated /\ LoopIsBounded
  BY <1>1, <1>3, <1>5, <1>6
     DEF LogMatchesRow, WaitingMeansOpenQuestion, ToolRunsAreBounded, FailedIsNotRepeated,
         LoopIsBounded
<1>11. ~Waiting /\ ~Closing /\ ~IsTerminal(row)
  BY <1>1, <1>3 DEF Waiting, Closing, IsTerminal, TerminalStatus
<1>12. WaitingRow /\ ClosingRow /\ CompletedInv
  BY <1>1, <1>3, <1>11 DEF WaitingRow, ClosingRow, CompletedInv, NoIntent
<1>13. AnswersCounted
  <2>1. AnsweredQuestions = {}
    BY <1>5 DEF AnsweredQuestions
  <2> QED  BY <1>1, <1>3, <2>1, FS_EmptySet DEF AnswersCounted
<1>14. ASSUME NEW w \in Workers PROVE WorkerInv(w)
  <2>1. CASE w = Starter
    <3>1. task[w].pc = "begin" /\ task[w].state = NewState
      BY <1>2, <1>4, <2>1
    <3>2. RunnerKnows(w)
      BY <1>1, <1>3, <1>5, <1>6, <1>11, <3>1 DEF RunnerKnows
    <3>3. RunnerActs(w)
      BY <1>3, <1>5, <3>1 DEF RunnerActs, Remembers, At
    <3> QED  BY <3>1, <3>2, <3>3 DEF WorkerInv, At
  <2>2. CASE w # Starter
    BY <1>2, <1>4, <2>2 DEF WorkerInv, At, Runner, Loop
  <2> QED  BY <2>1, <2>2
<1> QED
  BY <1>7, <1>9, <1>10, <1>12, <1>13, <1>14 DEF Inv

\* One step of a worker that goes on.
LEMMA RunningKeeps ==
  ASSUME Inv, NEW w \in Workers, Running(w)
  PROVE  Inv'
<1>1. CASE Begin(w) \/ BuildContext(w) \/ Dispatch(w) \/ Rebuild(w)
  BY <1>1, PhaseKeeps
<1>2. CASE BudgetExceeded(w) \/ Timeout(w)
  BY <1>2, TroubleKeeps
<1>3. CASE \E a \in Actions : Plan(w, a)
  BY <1>3, PlanKeeps
<1>4. CASE \E retryable \in BOOLEAN : PlannerFails(w, retryable)
  BY <1>4, PlannerFailsKeeps
<1>5. CASE RefuseAction(w) \/ \E question \in Questions : RefuseQuestion(w, question)
  BY <1>5, RefuseKeeps
<1>6. CASE CommitAction(w)
  BY <1>6, CommitActionKeeps
<1>7. CASE RetryTool(w)
  BY <1>7, RetryToolKeeps
<1>8. CASE \E outcome \in Outcome \ {"none"} : ExecuteTool(w, outcome)
  BY <1>8, ExecuteToolKeeps
<1>9. CASE HandleResult(w)
  BY <1>9, HandleResultKeeps
<1>10. CASE RecordObservation(w)
  BY <1>10, RecordObservationKeeps
<1>11. CASE \E question \in Questions : Pause(w, question)
  BY <1>11, PauseKeeps
<1>12. CASE ReturnPaused(w)
  BY <1>12, ReturnPausedKeeps
<1>13. CASE PrepareInterruption(w)
  BY <1>13, PrepareInterruptionKeeps
<1>14. CASE SaveIntent(w)
  BY <1>14, SaveIntentKeeps
<1>15. CASE Finalize(w) \/ FinalizeRefused(w)
  BY <1>15, FinalizeKeeps, FinalizeRefusedKeeps
<1> QED
  BY <1>1, <1>2, <1>3, <1>4, <1>5, <1>6, <1>7, <1>8, <1>9, <1>10, <1>11, <1>12, <1>13,
     <1>14, <1>15 DEF Running

\* Every step keeps the invariant.
LEMMA NextInv ==
  Inv /\ [Next]_vars => Inv'
<1> SUFFICES ASSUME Inv, [Next]_vars PROVE Inv'
  OBVIOUS
<1>1. CASE \E w \in Workers : Running(w)
  BY <1>1, RunningKeeps
<1>2. CASE \E w \in Workers : \E seq \in DOMAIN actions :
             \E decision \in {"confirmed", "rejected"} : Resume(w, seq, decision)
  BY <1>2, ResumeKeeps
<1>3. CASE \E w \in Workers : FinalizeFails(w) \/ Crash(w)
  BY <1>3, FinalizeFailsKeeps, CrashKeeps
<1>4. CASE \E w \in Workers : \E status \in {"failed", "cancelled"} : Interrupt(w, status)
  BY <1>4, TroubleKeeps
<1>5. CASE Reconcile
  BY <1>5, ReconcileKeeps
<1>6. CASE Expire
  <2>1. UNCHANGED <<row, actions, confirmations, locked, task>> /\ BoundsOK'
    BY <1>6 DEF Expire, BoundsOK, Inv, TypeOK
  <2> QED  BY <2>1, NothingMoves
<1>7. CASE UNCHANGED vars
  <2>1. UNCHANGED <<row, actions, confirmations, locked, task>> /\ BoundsOK'
    BY <1>7 DEF vars, BoundsOK, Inv, TypeOK
  <2> QED  BY <2>1, NothingMoves
<1> QED  BY <1>1, <1>2, <1>3, <1>4, <1>5, <1>6, <1>7 DEF Next

\* In every reachable state the log, the row, the questions and what each worker
\* believes of them fit together.
THEOREM Invariant == Spec => []Inv
BY InitInv, NextInv, PTL DEF Spec

\* Until somebody closes the run, the row's action_seq is the length of the log.
THEOREM LogAndRowAgree == Spec => []LogMatchesRow
<1>1. Inv => LogMatchesRow
  BY DEF Inv
<1> QED  BY <1>1, Invariant, PTL

\* A run waits exactly when it has one open question, its own.
THEOREM WaitsForItsQuestion == Spec => []WaitingMeansOpenQuestion
<1>1. Inv => WaitingMeansOpenQuestion
  BY DEF Inv
<1> QED  BY <1>1, Invariant, PTL

\* Whatever replies race for a confirmation, one worker at most runs the loop.
THEOREM AtMostOneRunner == Spec => []OneRunner
<1>1. Inv => OneRunner
  BY DEF Inv
<1> QED  BY <1>1, Invariant, PTL

\* A committed call of a tool that is not idempotent runs at most once, of an
\* idempotent one at most once more than the retry limit.
THEOREM ToolsRunAsOftenAsAllowed == Spec => []ToolRunsAreBounded
<1>1. Inv => ToolRunsAreBounded
  BY DEF Inv
<1> QED  BY <1>1, Invariant, PTL

\* A request that failed is never committed again, also after pauses and resumes.
THEOREM FailedRequestsStayOut == Spec => []FailedIsNotRepeated
<1>1. Inv => FailedIsNotRepeated
  BY DEF Inv
<1> QED  BY <1>1, Invariant, PTL

\* The iteration limit and the confirmation limit together bound the log.
THEOREM LogIsBounded == Spec => []LoopIsBounded
<1>1. Inv => LoopIsBounded
  BY DEF Inv
<1> QED  BY <1>1, Invariant, PTL

\* A run that is completed has a committed final answer as its last action.
THEOREM CompletedRunsAreAnswered == Spec => []CompletedWithAnswer
<1>1. Inv => CompletedWithAnswer
  BY DEF Inv, CompletedInv, Answered, CompletedWithAnswer
<1> QED  BY <1>1, Invariant, PTL

(***************************************************************************)
(* Steps: what a closing run no longer does, and the life a client sees.   *)
(***************************************************************************)

\* An action enters the log only while nobody closes the run.
LEMMA CommitIs ==
  ASSUME Inv, NEW w \in Workers, CommitAction(w)
  PROVE  /\ UNCHANGED locked /\ row'.status = row.status
         /\ \/ UNCHANGED <<row, actions, confirmations>>
            \/ ~Closing /\ confirmations' = Append(confirmations, NoConfirmation)
<1> DEFINE s == task[w].state
<1>1. At(w, "commit") /\ UNCHANGED locked
  BY DEF CommitAction, Ready
<1>2. Runner(w)
  BY <1>1 DEF Runner, At, Loop
<1>3. RunnerKnows(w) /\ row \in ControlState
  BY <1>2, RunnerFacts
<1>4. CASE UNCHANGED <<row, actions, confirmations>>
  BY <1>1, <1>4
<1>5. CASE ~UNCHANGED <<row, actions, confirmations>>
  <2>1. /\ s.version = row.version
        /\ confirmations' = Append(confirmations, NoConfirmation)
        /\ row' = [row EXCEPT !.actionSeq = s.actionSeq + 1, !.toolRetries = 0]
    BY <1>5 DEF CommitAction
  <2>2. row'.status = row.status
    BY <1>3, <2>1 DEF ControlState
  <2> QED  BY <1>1, <1>3, <2>1, <2>2 DEF RunnerKnows
<1> QED  BY <1>4, <1>5

\* Where the actions and the questions change, nobody closes the run.
LEMMA LogStep ==
  ASSUME Inv, Closing, [Next]_vars
  PROVE  Len(actions') = Len(actions) /\ confirmations' = confirmations
<1>1. CASE \E w \in Workers : CommitAction(w)
  BY <1>1, CommitIs
<1>2. CASE \E w \in Workers : \E question \in Questions : Pause(w, question)
  BY <1>2, PauseIs DEF Pause
<1>3. CASE \E w \in Workers : \E seq \in DOMAIN actions :
             \E decision \in {"confirmed", "rejected"} : Resume(w, seq, decision)
  BY <1>3, ResumeIs
<1>4. CASE \E w \in Workers : \E outcome \in Outcome \ {"none"} : ExecuteTool(w, outcome)
  BY <1>4 DEF ExecuteTool, Inv, TypeOK
<1>5. CASE UNCHANGED <<actions, confirmations>>
  BY <1>5
<1>6. CASE \E w \in Workers : Running(w)
  <2>1. PICK w \in Workers : Running(w)
    BY <1>6
  <2>2. \/ CommitAction(w) \/ \E question \in Questions : Pause(w, question)
        \/ \E outcome \in Outcome \ {"none"} : ExecuteTool(w, outcome)
        \/ UNCHANGED <<actions, confirmations>>
    BY <2>1
       DEF Running, Begin, BuildContext, BudgetExceeded, Plan, PlannerFails, RefuseAction,
           Dispatch, RetryTool, HandleResult, RecordObservation, Rebuild, RefuseQuestion,
           ReturnPaused, Timeout, PrepareInterruption, SaveIntent, Finalize, FinalizeRefused
  <2> QED  BY <1>1, <1>2, <1>4, <1>5, <2>2
<1>7. CASE \/ \E w \in Workers : FinalizeFails(w) \/ Crash(w)
           \/ \E w \in Workers : \E status \in {"failed", "cancelled"} : Interrupt(w, status)
           \/ Reconcile \/ Expire \/ UNCHANGED vars
  BY <1>5, <1>7 DEF FinalizeFails, Crash, Interrupt, Reconcile, Expire, vars
<1> QED  BY <1>3, <1>6, <1>7 DEF Next

\* Once a run is closing, no worker left over commits an action, asks or answers.
THEOREM ClosingRunStandsStill == Spec => NothingCommittedAfterClosing
<1>1. Inv /\ [Next]_vars =>
        [row.phase = "finalization" =>
           Len(actions') = Len(actions) /\ confirmations' = confirmations]_vars
  BY LogStep DEF Closing
<1> QED  BY <1>1, Invariant, PTL DEF Spec, NothingCommittedAfterClosing

\* A save of the worker in the loop leaves the run running.
LEMMA EnteringKeepsStatus ==
  ASSUME Inv, NEW w \in Workers, Runner(w), NEW q \in ControlState,
         q.status = task[w].state.status, q.version = task[w].state.version,
         NEW phase \in LoopPhase \ {"finalization"},
         row' = Enter(q, phase), CanSave(row, Enter(q, phase))
  PROVE  row'.status = row.status
<1> DEFINE t == Enter(q, phase)
<1>1. q.status = "running"
  BY RunnerFacts DEF RunnerKnows
<1>2. /\ t \in ControlState /\ t.version = q.version + 1 /\ t.status = "running"
      /\ t.phase = phase
  BY <1>1, EnterIs
<1>3. row' = t /\ CanSave(row, t)
  OBVIOUS
<1> HIDE DEF t
<1>4. ~Closing
  BY <1>2, <1>3, RunnerSaves
<1> QED  BY <1>2, <1>3, <1>4, RunnerFacts

\* The questions that were asked are those that were answered, unless the run waits.
LEMMA Counts ==
  ASSUME Inv
  PROVE  /\ IsFiniteSet(AskedQuestions) /\ IsFiniteSet(AnsweredQuestions)
         /\ ~Waiting => AskedQuestions = AnsweredQuestions
<1>1. /\ confirmations \in Seq(Confirmation) /\ Len(confirmations) \in Nat
      /\ DOMAIN confirmations = 1..Len(confirmations)
  BY DEF Inv, TypeOK, Confirmation
<1>2. IsFiniteSet(1..Len(confirmations))
  BY <1>1, FS_Interval
<1>3. IsFiniteSet(AskedQuestions) /\ IsFiniteSet(AnsweredQuestions)
  <2>1. /\ AskedQuestions \subseteq 1..Len(confirmations)
        /\ AnsweredQuestions \subseteq 1..Len(confirmations)
    BY <1>1 DEF AskedQuestions, AnsweredQuestions
  <2> QED  BY <1>2, <2>1, FS_Subset
<1>4. ASSUME ~Waiting PROVE AskedQuestions = AnsweredQuestions
  <2>1. \A i \in DOMAIN confirmations :
          /\ confirmations[i].status \in {"none", "pending", "confirmed", "rejected"}
          /\ confirmations[i].status # "pending"
    <3>1. \A i \in DOMAIN confirmations : confirmations[i] \in Confirmation
      BY <1>1
    <3>2. \A i \in DOMAIN confirmations : confirmations[i].status # "pending"
      BY <1>4 DEF Inv, WaitingMeansOpenQuestion, Waiting
    <3> QED  BY <3>1, <3>2 DEF Confirmation
  <2> QED  BY <2>1 DEF AskedQuestions, AnsweredQuestions
<1> QED  BY <1>3, <1>4

\* An action is committed without a question.
LEMMA CommitAsksNothing ==
  ASSUME Inv, confirmations' = Append(confirmations, NoConfirmation)
  PROVE  AskedQuestions' = AskedQuestions /\ AnsweredQuestions' = AnsweredQuestions
<1> DEFINE n == Len(confirmations)
<1>1. confirmations \in Seq(Confirmation) /\ n \in Nat /\ DOMAIN confirmations = 1..n
  BY DEF Inv, TypeOK, Confirmation
<1>2. NoConfirmation \in Confirmation /\ NoConfirmation.status = "none"
  BY DEF NoConfirmation, Confirmation
<1>3. /\ DOMAIN confirmations' = 1..n + 1 /\ confirmations'[n + 1].status = "none"
      /\ \A i \in 1..n : confirmations'[i] = confirmations[i]
  BY <1>1, <1>2
<1>4. \A i \in 1..n + 1 : i \in 1..n \/ i = n + 1
  BY <1>1
<1>5. \A i \in 1..n : i \in 1..n + 1
  BY <1>1
<1> HIDE DEF n
<1> QED  BY <1>1, <1>3, <1>4, <1>5 DEF AskedQuestions, AnsweredQuestions

\* The steps a client does not see.
Unseen == /\ row'.status = row.status
          /\ AskedQuestions' = AskedQuestions /\ AnsweredQuestions' = AnsweredQuestions

\* The steps of the loop that save a phase or a counter.
LEMMA RunnerUnseen ==
  ASSUME Inv, NEW w \in Workers,
         \/ Begin(w) \/ BuildContext(w) \/ Dispatch(w) \/ Rebuild(w)
         \/ \E a \in Actions : Plan(w, a)
         \/ \E retryable \in BOOLEAN : PlannerFails(w, retryable)
         \/ RetryTool(w) \/ HandleResult(w) \/ RecordObservation(w)
  PROVE  Unseen
<1> DEFINE s == task[w].state
<1>1. /\ UNCHANGED confirmations
      /\ \/ UNCHANGED row
         \/ /\ Runner(w)
            /\ \E k \in Nat :
                 \E q \in {s, [s EXCEPT !.plannerRetries = k], [s EXCEPT !.toolRetries = k],
                           [s EXCEPT !.iteration = k]} :
                   \E phase \in LoopPhase \ {"finalization"} :
                     row' = Enter(q, phase) /\ CanSave(row, Enter(q, phase))
  <2>1. /\ s.plannerRetries + 1 \in Nat /\ s.toolRetries + 1 \in Nat
        /\ s.iteration + 1 \in Nat /\ 0 \in Nat
    <3>1. s \in ControlState
      BY DEF Inv, TypeOK
    <3> QED  BY <3>1 DEF ControlState
  <2>2. {"build_context", "plan", "validate_action", "execute_tool", "handle_tool_result",
         "record_observation"} \subseteq LoopPhase \ {"finalization"}
    BY DEF LoopPhase
  <2> HIDE DEF s
  <2>3. CASE Begin(w) \/ BuildContext(w) \/ Dispatch(w) \/ Rebuild(w)
    BY <2>1, <2>2, <2>3
       DEF Begin, BuildContext, Dispatch, Rebuild, Ready, At, Runner, Loop, SaveRunning, Save, s
  <2>4. CASE \E a \in Actions : Plan(w, a)
    BY <2>1, <2>2, <2>4 DEF Plan, Ready, At, Runner, Loop, Save, s
  <2>5. CASE \E retryable \in BOOLEAN : PlannerFails(w, retryable)
    BY <2>1, <2>2, <2>5 DEF PlannerFails, Ready, At, Runner, Loop, SaveRunning, Save, s
  <2>6. CASE RetryTool(w)
    BY <2>1, <2>2, <2>6 DEF RetryTool, Ready, At, Runner, Loop, SaveRunning, Save, s
  <2>7. CASE HandleResult(w)
    BY <2>1, <2>2, <2>7 DEF HandleResult, Ready, At, Runner, Loop, Save, s
  <2>8. CASE RecordObservation(w)
    BY <2>1, <2>2, <2>8 DEF RecordObservation, Ready, At, Runner, Loop, Save, s
  <2> QED  BY <2>3, <2>4, <2>5, <2>6, <2>7, <2>8
<1>2. ASSUME NEW k \in Nat,
             NEW q \in {s, [s EXCEPT !.plannerRetries = k], [s EXCEPT !.toolRetries = k],
                        [s EXCEPT !.iteration = k]},
             NEW phase \in LoopPhase \ {"finalization"}, Runner(w),
             row' = Enter(q, phase), CanSave(row, Enter(q, phase))
      PROVE  row'.status = row.status
  <2>1. s \in ControlState
    BY DEF Inv, TypeOK
  <2>2. q \in ControlState /\ q.status = s.status /\ q.version = s.version
    <3> HIDE DEF s
    <3>1. CASE q = s
      BY <2>1, <3>1
    <3>2. CASE q # s
      BY <2>1, <3>2, CountsOn
    <3> QED  BY <3>1, <3>2
  <2> QED  BY <1>2, <2>2, EnteringKeepsStatus
<1>3. row'.status = row.status
  BY <1>1, <1>2
<1> QED  BY <1>1, <1>3 DEF Unseen, AskedQuestions, AnsweredQuestions

\* Asking: the question of the last action, while there are questions left to ask.
LEMMA PauseAsks ==
  ASSUME Inv, NEW w \in Workers, NEW question \in Questions, Pause(w, question)
  PROVE  Unseen \/ Lifecycle!Ask
<1> DEFINE n == Len(actions)
<1>1. CASE Caught(w, "failed") /\ UNCHANGED <<row, confirmations>>
  BY <1>1 DEF Unseen, AskedQuestions, AnsweredQuestions
<1>2. CASE ~(Caught(w, "failed") /\ UNCHANGED <<row, confirmations>>)
  <2>1. /\ Runner(w) /\ ~Closing /\ row'.status = "waiting_confirmation"
        /\ row.attempts < MaxConfirmations
        /\ n \in DOMAIN confirmations /\ confirmations[n].status = "none"
    BY <1>2, PauseIs
  <2>2. PICK c \in Confirmation :
          c.status = "pending" /\ confirmations' = [confirmations EXCEPT ![n] = c]
    BY <1>2, PauseIs
  <2>3. row.status = "running" /\ ~Waiting
    BY <2>1, RunnerFacts DEF Waiting
  <2>4. /\ AskedQuestions' = AskedQuestions \cup {n} /\ n \notin AskedQuestions
        /\ AnsweredQuestions' = AnsweredQuestions
    <3> HIDE DEF n
    <3> QED  BY <2>1, <2>2 DEF AskedQuestions, AnsweredQuestions
  <2>5. Cardinality(AskedQuestions') = Cardinality(AskedQuestions) + 1
    BY <2>4, Counts, FS_AddElement
  <2>6. Cardinality(AskedQuestions) < MaxConfirmations
    BY <2>1, <2>3, Counts DEF Inv, AnswersCounted
  <2> QED
    BY <2>1, <2>3, <2>4, <2>5, <2>6 DEF Lifecycle!Ask, AskedQuestions, AnsweredQuestions
<1> QED  BY <1>1, <1>2

\* Answering: the open question, which wakes the run up.
LEMMA ResumeAnswers ==
  ASSUME Inv, NEW w \in Workers, NEW seq \in DOMAIN actions,
         NEW decision \in {"confirmed", "rejected"}, Resume(w, seq, decision)
  PROVE  Lifecycle!Answer
<1>1. /\ Waiting /\ row'.status = "running"
      /\ seq \in DOMAIN confirmations /\ confirmations[seq].status = "pending"
  BY ResumeIs
<1>2. PICK c \in Confirmation :
        c.status = decision /\ confirmations' = [confirmations EXCEPT ![seq] = c]
  BY ResumeIs
<1>3. /\ AskedQuestions' = AskedQuestions
      /\ AnsweredQuestions' = AnsweredQuestions \cup {seq} /\ seq \notin AnsweredQuestions
  BY <1>1, <1>2 DEF AskedQuestions, AnsweredQuestions
<1>4. Cardinality(AnsweredQuestions') = Cardinality(AnsweredQuestions) + 1
  BY <1>3, Counts, FS_AddElement
<1> QED
  BY <1>1, <1>3, <1>4 DEF Lifecycle!Answer, Waiting, AskedQuestions, AnsweredQuestions

\* Ending: only a run that is closing, which asks nothing any more.
LEMMA EndEnds ==
  ASSUME Inv, Closing, NEW status \in TerminalStatus, row' = Ended(status),
         UNCHANGED confirmations
  PROVE  Unseen \/ Lifecycle!End
<1>1. /\ row.status # "waiting_confirmation"
      /\ \/ row' = row
         \/ row.status = "running" /\ row'.status = status
  BY EndedIs
<1>2. CASE row' = row
  BY <1>2 DEF Unseen, AskedQuestions, AnsweredQuestions
<1>3. CASE row.status = "running" /\ row'.status = status
  <2>1. AskedQuestions = AnsweredQuestions
    BY <1>1, Counts DEF Waiting
  <2> QED
    BY <1>3, <2>1
       DEF Lifecycle!End, Lifecycle!TerminalStatus, TerminalStatus, AskedQuestions,
           AnsweredQuestions
<1> QED  BY <1>1, <1>2, <1>3

\* Saving the intent leaves the run running, or the row as it is.
LEMMA SaveIntentUnseen ==
  ASSUME Inv, NEW w \in Workers, SaveIntent(w)
  PROVE  Unseen
<1> DEFINE s == task[w].state
           t == Transition(s, "running", "finalization", task[w].close)
<1>1. /\ At(w, "close") /\ UNCHANGED confirmations
      /\ \/ /\ CanTransition(s, "running", "finalization", task[w].close)
            /\ CanSave(row, t) /\ row' = t
         \/ UNCHANGED row
  BY DEF SaveIntent
<1>2. CASE /\ CanTransition(s, "running", "finalization", task[w].close)
           /\ CanSave(row, t) /\ row' = t
  <2>1. /\ CloserInv(w) /\ s \in ControlState /\ task[w].close \in TerminalStatus
        /\ s.version \in Nat /\ row.version \in Nat
    <3>1. CloserInv(w) /\ task[w].close \in TerminalStatus
      BY <1>1 DEF Inv, WorkerInv, At
    <3>2. s \in ControlState /\ row \in ControlState
      BY DEF Inv, TypeOK
    <3> QED  BY <3>1, <3>2 DEF ControlState
  <2>2. ~IsTerminal(s) /\ s.status = "running"
    <3>1. ~IsTerminal(s)
      BY <1>2 DEF CanTransition, IsTerminal, TerminalStatus
    <3> QED  BY <2>1, <3>1 DEF CloserInv, IsTerminal, ControlState, HarnessStatus
  <2>3. t.status = "running" /\ t.version = s.version + 1
    <3>1. /\ "running" \in HarnessStatus /\ "finalization" \in LoopPhase
          /\ task[w].close \in Intent
      BY <2>1 DEF HarnessStatus, LoopPhase, Intent
    <3> QED  BY <2>1, <2>2, <3>1, CandidateIs
  <2> HIDE DEF t
  <2>4. CASE t = row
    BY <1>1, <1>2, <2>4 DEF Unseen, AskedQuestions, AnsweredQuestions
  <2>5. CASE t.version = row.version + 1
    <3>1. row.status = "running"
      BY <2>1, <2>2, <2>3, <2>5 DEF CloserInv
    <3> QED  BY <1>1, <1>2, <2>3, <3>1 DEF Unseen, AskedQuestions, AnsweredQuestions
  <2> QED  BY <1>2, <2>4, <2>5 DEF CanSave
<1>3. CASE UNCHANGED row
  BY <1>1, <1>3 DEF Unseen, AskedQuestions, AnsweredQuestions
<1> QED  BY <1>1, <1>2, <1>3

\* Every step of the run is a step of its life, or one the client does not see.
LEMMA LifecycleStep ==
  ASSUME Inv, [Next]_vars
  PROVE  [Lifecycle!Next]_(Lifecycle!vars)
<1>1. CASE Unseen
  BY <1>1 DEF Unseen, Lifecycle!vars, AskedQuestions, AnsweredQuestions
<1>2. CASE UNCHANGED <<row, confirmations>>
  BY <1>1, <1>2 DEF Unseen, AskedQuestions, AnsweredQuestions
<1>3. CASE \E w \in Workers : Running(w)
  <2>1. PICK w \in Workers : Running(w)
    BY <1>3
  <2>2. CASE \/ Begin(w) \/ BuildContext(w) \/ Dispatch(w) \/ Rebuild(w)
             \/ \E a \in Actions : Plan(w, a)
             \/ \E retryable \in BOOLEAN : PlannerFails(w, retryable)
             \/ RetryTool(w) \/ HandleResult(w) \/ RecordObservation(w)
    BY <1>1, <2>2, RunnerUnseen
  <2>3. CASE \/ BudgetExceeded(w) \/ RefuseAction(w)
             \/ \E outcome \in Outcome \ {"none"} : ExecuteTool(w, outcome)
             \/ \E question \in Questions : RefuseQuestion(w, question)
             \/ ReturnPaused(w) \/ Timeout(w) \/ PrepareInterruption(w)
             \/ FinalizeRefused(w)
    BY <1>2, <2>3
       DEF BudgetExceeded, RefuseAction, ExecuteTool, RefuseQuestion, ReturnPaused, Timeout,
           PrepareInterruption, FinalizeRefused
  <2>4. CASE CommitAction(w)
    <3>1. Unseen
      BY <2>4, CommitIs, CommitAsksNothing DEF Unseen, AskedQuestions, AnsweredQuestions
    <3> QED  BY <1>1, <3>1
  <2>5. CASE \E question \in Questions : Pause(w, question)
    BY <1>1, <2>5, PauseAsks DEF Lifecycle!Next
  <2>6. CASE SaveIntent(w)
    BY <1>1, <2>6, SaveIntentUnseen
  <2>7. CASE Finalize(w)
    <3>1. /\ Closing /\ row' = Ended(task[w].close) /\ UNCHANGED confirmations
          /\ task[w].close \in TerminalStatus
      BY <2>7 DEF Finalize, Finalizable, Closing, Inv, WorkerInv, At
    <3> QED  BY <1>1, <3>1, EndEnds DEF Lifecycle!Next
  <2> QED  BY <2>1, <2>2, <2>3, <2>4, <2>5, <2>6, <2>7 DEF Running
<1>4. CASE \E w \in Workers : \E seq \in DOMAIN actions :
             \E decision \in {"confirmed", "rejected"} : Resume(w, seq, decision)
  BY <1>4, ResumeAnswers DEF Lifecycle!Next
<1>5. CASE Reconcile
  <2>1. /\ Closing /\ row' = Ended(locked) /\ UNCHANGED confirmations
        /\ locked \in TerminalStatus
    BY <1>5 DEF Reconcile, Inv, TypeOK, ClosingRow, Intent
  <2> QED  BY <1>1, <2>1, EndEnds DEF Lifecycle!Next
<1>6. CASE \/ \E w \in Workers : FinalizeFails(w) \/ Crash(w)
           \/ \E w \in Workers : \E status \in {"failed", "cancelled"} : Interrupt(w, status)
           \/ Expire \/ UNCHANGED vars
  BY <1>2, <1>6 DEF FinalizeFails, Crash, Interrupt, Expire, vars
<1> QED  BY <1>3, <1>4, <1>5, <1>6 DEF Next

\* What a client sees of a run is the life of RunLifecycle: it asks at most as often
\* as it may, is woken by the answer only, and ends once, with no question open.
THEOREM Refinement == Spec => FollowsLifecycle
<1>1. Init => Lifecycle!Init
  <2> SUFFICES ASSUME Init PROVE Lifecycle!Init
    OBVIOUS
  <2>1. row.status = "running" /\ confirmations = <<>>
    BY DEF Init, NewState
  <2>2. AskedQuestions = {} /\ AnsweredQuestions = {}
    BY <2>1 DEF AskedQuestions, AnsweredQuestions
  <2>3. Cardinality(AskedQuestions) = 0 /\ Cardinality(AnsweredQuestions) = 0
    BY <2>2, FS_EmptySet
  <2> QED  BY <2>1, <2>3 DEF Lifecycle!Init, AskedQuestions, AnsweredQuestions
<1>2. Inv /\ [Next]_vars => [Lifecycle!Next]_(Lifecycle!vars)
  BY LifecycleStep
<1> QED  BY <1>1, <1>2, Invariant, PTL DEF Spec, FollowsLifecycle, Lifecycle!Spec
=============================================================================
