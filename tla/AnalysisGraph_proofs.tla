------------------------ MODULE AnalysisGraph_proofs ------------------------
(***************************************************************************)
(* Proofs about AnalysisGraph for any tasks, plans and catalog, whatever   *)
(* retrieval finds and the models choose.                                  *)
(***************************************************************************)
EXTENDS AnalysisGraph, WellFoundedInduction, TLAPS

(***************************************************************************)
(* The inductive invariant.                                                *)
(***************************************************************************)

Entry == [id : Tasks, needs : Seq(Tasks)]
Decided == {"success", "failed"}
Working == {"depend", "resolve", "query", "rows", "calculate"}

\* The plan is there from when it is accepted.
PlanInv ==
  /\ input \in Inputs
  /\ plan = <<>> \/ (plan \in Seq(Entry) /\ ValidPlan(plan))
  /\ phase = "planning" => plan = <<>>
  /\ phase \in {"running", "done"} => plan # <<>>

\* A layer has only tasks whose dependencies are completed; who has not failed goes on only
\* because they all succeeded.
TaskInv(t) ==
  /\ {"pc", "query"} \subseteq DOMAIN task[t]
  /\ t \in Completed => t \in Planned /\ results[t].status \in Decided
  /\ t \notin Completed /\ t \notin layer => task[t].pc = "idle"
  /\ t \in layer =>
       /\ t \in Pending /\ Needs(t) \subseteq Completed
       /\ task[t].pc \in Working \cup {"ended"}
       /\ task[t].pc = "ended" => Outcome(t).status \in Decided
       /\ task[t].pc # "depend" /\ ~(task[t].pc = "ended" /\ Outcome(t).status = "failed") =>
            \A u \in Needs(t) : results[u].status = "success"

Inv ==
  /\ PlanInv
  /\ DOMAIN task = Tasks
  /\ Completed \subseteq Tasks /\ layer \subseteq Tasks
  /\ \A t \in Tasks : TaskInv(t)

(***************************************************************************)
(* The plan.                                                               *)
(***************************************************************************)

\* A plan that is accepted is about tasks, and each needs tasks of the plan.
LEMMA PlanIs ==
  ASSUME NEW p \in Seq(Entry), ValidPlan(p)
  PROVE  LET all == {p[n].id : n \in DOMAIN p}
         IN  /\ p # <<>> /\ all # {} /\ all \subseteq Tasks
             /\ \A t \in all : UNION {ToSet(p[n].needs) : n \in {k \in DOMAIN p : p[k].id = t}}
                                \subseteq all
<1>0. PICK all : all = {p[n].id : n \in DOMAIN p}
  OBVIOUS
<1>1. /\ Len(p) \in Nat /\ Len(p) >= 1 /\ DOMAIN p = 1..Len(p)
      /\ \A n \in DOMAIN p : p[n] \in Entry
  BY DEF ValidPlan
<1>2. \A n \in DOMAIN p : p[n].id \in Tasks
  BY <1>1 DEF Entry
<1>3. 1 \in DOMAIN p
  BY <1>1
<1>4. \A n \in DOMAIN p : ToSet(p[n].needs) \subseteq all
  <2>1. \A n \in DOMAIN p : 1..(n - 1) \subseteq DOMAIN p
    BY <1>1
  <2>2. ASSUME NEW n \in DOMAIN p, NEW x \in ToSet(p[n].needs) PROVE x \in all
    <3>1. x \in {p[k].id : k \in 1..(n - 1)}
      BY <2>2 DEF ValidPlan
    <3>2. PICK k \in 1..(n - 1) : x = p[k].id
      BY <3>1
    <3> QED  BY <1>0, <2>1, <2>2, <3>2
  <2> QED  BY <2>2
<1>5. \A t \in all : UNION {ToSet(p[n].needs) : n \in {k \in DOMAIN p : p[k].id = t}}
                     \subseteq all
  BY <1>4
<1>6. p # <<>>
  BY <1>1
<1> QED  BY <1>0, <1>2, <1>3, <1>5, <1>6, ZenonT(60)

\* The same of the plan carried out.
LEMMA PlanFacts ==
  ASSUME plan \in Seq(Entry), ValidPlan(plan)
  PROVE  /\ plan # <<>> /\ Planned # {} /\ Planned \subseteq Tasks
         /\ \A t \in Planned : Needs(t) \subseteq Planned
BY PlanIs DEF Planned, Needs

\* Without a plan nothing is planned.
LEMMA NoPlanFacts ==
  ASSUME plan = <<>>
  PROVE  Planned = {}
<1>1. DOMAIN <<>> = {}
  OBVIOUS
<1> QED  BY <1>1 DEF Planned

(***************************************************************************)
(* The steps of one task.                                                  *)
(***************************************************************************)

\* What a step of task t may make of it.
Advances(t, new) ==
  /\ phase = "running" /\ t \in layer /\ task[t].pc \notin {"idle", "ended"}
  /\ {"pc", "query"} \subseteq DOMAIN new
  /\ task' = [task EXCEPT ![t] = new]
  /\ \/ new.pc \in Working \ {"depend"}
     \/ new.pc = "ended" /\ new.outcome.status \in Decided
  /\ ~(new.pc = "ended" /\ new.outcome.status = "failed") =>
       \A u \in Needs(t) : results[u].status = "success"

\* A task that fails may do so at any time.
LEMMA FailingAdvances ==
  ASSUME Inv, NEW t \in Tasks, NEW pc \in Working, At(t, pc), Failing(t)
  PROVE  \E new : Advances(t, new)
<1>1. PICK new : new = [pc |-> "ended", query |-> task[t].query,
         outcome |-> [status |-> "failed", truncated |-> task[t].query.truncated,
                      unmapped |-> task[t].query.unmapped,
                      described |-> task[t].query.described]]
  OBVIOUS
<1>2. task' = [task EXCEPT ![t] = new]
  BY <1>1 DEF Failing, End
<1>3. {"pc", "query"} \subseteq DOMAIN new /\ new.pc = "ended" /\ new.outcome.status = "failed"
  BY <1>1
<1> QED  BY <1>2, <1>3 DEF Advances, Working, Decided, At

\* A task that goes on after its dependencies.
LEMMA GotoAdvances ==
  ASSUME Inv, NEW t \in Tasks, NEW pc \in Working, At(t, pc),
         NEW next \in Working \ {"depend"}, Goto(t, next),
         pc = "depend" => \A u \in Needs(t) : results[u].status = "success"
  PROVE  \E new : Advances(t, new)
<1>1. PICK new : new = [task[t] EXCEPT !.pc = next]
  OBVIOUS
<1>2. task' = [task EXCEPT ![t] = new]
  BY <1>1 DEF Goto
<1>3. TaskInv(t) /\ task[t].pc = pc /\ t \in layer
  BY DEF Inv, At
<1>4. {"pc", "query"} \subseteq DOMAIN new /\ new.pc = next
  BY <1>1, <1>3 DEF TaskInv
<1>5. \A u \in Needs(t) : results[u].status = "success"
  BY <1>3 DEF TaskInv, Working
<1>6. pc \notin {"idle", "ended"} /\ next # "ended"
  BY DEF Working
<1> QED  BY <1>2, <1>3, <1>4, <1>5, <1>6 DEF Advances, At

\* Only a task whose dependencies all succeeded goes on from checking them.
LEMMA CheckAdvances ==
  ASSUME Inv, NEW t \in Tasks, CheckDependencies(t)
  PROVE  \E new : Advances(t, new)
<1>1. At(t, "depend") /\ "depend" \in Working /\ {"query", "resolve"} \subseteq Working \ {"depend"}
  BY DEF CheckDependencies, Working
<1>2. CASE Failing(t)
  BY <1>1, <1>2, FailingAdvances
<1>3. CASE ~(\E u \in Needs(t) : results[u].status # "success")
  <2>1. Goto(t, "query") \/ Goto(t, "resolve")
    BY <1>3 DEF CheckDependencies
  <2> QED  BY <1>1, <1>3, <2>1, GotoAdvances
<1> QED  BY <1>2, <1>3 DEF CheckDependencies

\* A task goes on from what the model answers, or fails.
LEMMA AskAdvances ==
  ASSUME Inv, NEW t \in Tasks, ResolveQuestion(t) \/ WriteCode(t)
  PROVE  \E new : Advances(t, new)
<1>1. {"resolve", "rows"} \subseteq Working /\ {"query", "calculate"} \subseteq Working \ {"depend"}
  BY DEF Working
<1>2. CASE Failing(t) /\ (At(t, "resolve") \/ At(t, "rows"))
  BY <1>1, <1>2, FailingAdvances
<1>3. CASE At(t, "resolve") /\ Goto(t, "query")
  BY <1>1, <1>3, GotoAdvances
<1>4. CASE At(t, "rows") /\ Goto(t, "calculate")
  BY <1>1, <1>4, GotoAdvances
<1> QED  BY <1>2, <1>3, <1>4 DEF ResolveQuestion, WriteCode, AskModel

\* A calculation ends the task either way.
LEMMA CalculateAdvances ==
  ASSUME Inv, NEW t \in Tasks, Calculate(t)
  PROVE  \E new : Advances(t, new)
<1>1. At(t, "calculate") /\ "calculate" \in Working
  BY DEF Calculate, Working
<1>2. CASE Failing(t)
  BY <1>1, <1>2, FailingAdvances
<1>3. CASE End(t, "success")
  <2>1. PICK new : new = [pc |-> "ended", query |-> task[t].query,
           outcome |-> [status |-> "success", truncated |-> task[t].query.truncated,
                        unmapped |-> task[t].query.unmapped,
                        described |-> task[t].query.described]]
    OBVIOUS
  <2>2. task' = [task EXCEPT ![t] = new]
    BY <1>3, <2>1 DEF End
  <2>3. {"pc", "query"} \subseteq DOMAIN new /\ new.pc = "ended" /\ new.outcome.status = "success"
    BY <2>1
  <2>4. \A u \in Needs(t) : results[u].status = "success"
    BY <1>1 DEF Inv, TaskInv, At
  <2> QED  BY <1>1, <2>2, <2>3, <2>4 DEF Advances, Decided, At
<1> QED  BY <1>2, <1>3 DEF Calculate

\* A node goes on with the query or ends its task.
LEMMA NodeAdvances ==
  ASSUME Inv, NEW t \in Tasks, NodeEnds(t) \/ NodeFails(t)
  PROVE  \E new : Advances(t, new)
<1>1. At(t, "query") /\ TaskInv(t) /\ t \in layer /\ task[t].pc = "query"
  BY DEF NodeEnds, NodeFails, Inv, At
<1>2. \A u \in Needs(t) : results[u].status = "success"
  BY <1>1 DEF TaskInv
<1>3. CASE NodeFails(t)
  <2>1. PICK new : new = [pc |-> "ended", query |-> NoQuery,
          outcome |-> [status |-> "failed", truncated |-> FALSE, unmapped |-> FALSE,
                       described |-> << >>]]
    OBVIOUS
  <2>2. task' = [task EXCEPT ![t] = new]
    BY <1>3, <2>1 DEF NodeFails
  <2>3. {"pc", "query"} \subseteq DOMAIN new /\ new.pc = "ended" /\ new.outcome.status = "failed"
    BY <2>1
  <2> QED  BY <1>1, <2>2, <2>3 DEF Advances, Decided, At
<1>4. CASE NodeEnds(t)
  <2>1. PICK query, pc : /\ task' = [task EXCEPT ![t].query = query, ![t].pc = pc]
                         /\ pc \in {"rows", "query"}
    BY <1>4 DEF NodeEnds
  <2>2. PICK new : new = [task[t] EXCEPT !.query = query, !.pc = pc]
    OBVIOUS
  <2>3. task' = [task EXCEPT ![t] = new]
    BY <1>1, <2>1, <2>2
  <2>4. {"pc", "query"} \subseteq DOMAIN new /\ new.pc = pc
    BY <1>1, <2>2 DEF TaskInv
  <2>5. pc \in Working \ {"depend"} /\ pc # "ended"
    BY <2>1 DEF Working
  <2> QED  BY <1>1, <1>2, <2>3, <2>4, <2>5 DEF Advances, At
<1> QED  BY <1>3, <1>4

(***************************************************************************)
(* The invariant.                                                          *)
(***************************************************************************)

\* A step of one task leaves the others and what is completed alone.
LEMMA AdvanceKeeps ==
  ASSUME Inv, NEW t \in Tasks, NEW new, Advances(t, new),
         UNCHANGED <<input, phase, plan, layer, results, evidence>>
  PROVE  Inv'
<1>1. /\ DOMAIN task' = Tasks /\ task'[t] = new
      /\ \A u \in Tasks \ {t} : task'[u] = task[u]
  BY DEF Inv, Advances
<1>2. PlanInv'
  BY DEF Inv, PlanInv
<1>3. /\ Planned' = Planned /\ Completed' = Completed /\ Pending' = Pending
      /\ \A u : Needs(u)' = Needs(u)
  BY DEF Planned, Completed, Pending, Needs
<1>4. ASSUME NEW u \in Tasks \ {t} PROVE TaskInv(u)'
  BY <1>1, <1>3, <1>4 DEF Inv, TaskInv, Outcome
<1>5. TaskInv(t)'
  <2>1. TaskInv(t) /\ t \in layer
    BY DEF Inv, Advances
  <2>2. t \in Pending /\ t \notin Completed /\ Needs(t) \subseteq Completed
    BY <2>1 DEF TaskInv, Pending
  <2>3. /\ {"pc", "query"} \subseteq DOMAIN new
        /\ \/ new.pc \in Working \ {"depend"}
           \/ new.pc = "ended" /\ new.outcome.status \in Decided
        /\ ~(new.pc = "ended" /\ new.outcome.status = "failed") =>
             \A u \in Needs(t) : results[u].status = "success"
    BY DEF Advances
  <2>4. "ended" \notin Working
    BY DEF Working
  <2> QED  BY <1>1, <1>3, <2>1, <2>2, <2>3, <2>4 DEF TaskInv, Outcome
<1> QED  BY <1>1, <1>2, <1>3, <1>4, <1>5 DEF Inv

\* Accepting a plan, or none.
LEMMA PlanKeeps ==
  ASSUME Inv, PlanAnalysis
  PROVE  Inv'
<1>1. phase = "planning" /\ plan = <<>> /\ Planned = {}
  BY NoPlanFacts DEF PlanAnalysis, Inv, PlanInv
<1>2. Completed = {} /\ layer = {}
  BY <1>1 DEF Inv, TaskInv, Pending
<1>3. /\ phase' \in {"running", "failed"}
      /\ \/ plan' = plan
         \/ plan' \in Seq(Entry) /\ ValidPlan(plan')
      /\ phase' = "running" => plan' \in Seq(Entry) /\ ValidPlan(plan')
  BY InputsAssumption DEF PlanAnalysis, Inv, PlanInv, Entry
<1>4. phase' = "running" => plan' # <<>>
  <2>1. ASSUME plan' \in Seq(Entry), ValidPlan(plan') PROVE plan' # <<>>
    BY <2>1 DEF ValidPlan
  <2> QED  BY <1>3, <2>1
<1>5. PlanInv'
  BY <1>1, <1>3, <1>4 DEF PlanAnalysis, Inv, PlanInv
<1>6. Completed' = {} /\ layer' = {} /\ task' = task
  BY <1>2 DEF PlanAnalysis, Completed
<1>7. \A t \in Tasks : TaskInv(t)'
  BY <1>2, <1>6 DEF Inv, TaskInv
<1> QED  BY <1>5, <1>6, <1>7 DEF Inv

\* A layer begins with tasks all of whose dependencies are completed.
LEMMA StartKeeps ==
  ASSUME Inv, StartLayer
  PROVE  Inv'
<1>1. /\ phase = "running" /\ layer = {} /\ UNCHANGED <<input, plan, results, evidence>>
      /\ Planned' = Planned /\ Completed' = Completed /\ Pending' = Pending
      /\ \A u : Needs(u)' = Needs(u)
  BY DEF StartLayer, Planned, Completed, Pending, Needs
<1>2. phase' \in {"running", "failed"}
  BY <1>1 DEF StartLayer
<1>3. PlanInv'
  BY <1>1, <1>2 DEF Inv, PlanInv
<1>4. Ready \subseteq Tasks
  <2>1. plan \in Seq(Entry) /\ ValidPlan(plan)
    BY <1>1 DEF Inv, PlanInv
  <2> QED  BY <2>1, PlanFacts DEF Ready, Pending
<1>5. CASE UNCHANGED <<layer, task>>
  BY <1>1, <1>3, <1>5 DEF Inv, TaskInv, Outcome
<1>6. CASE /\ layer' = Ready
           /\ task' = [t \in Tasks |-> IF t \in Ready THEN [task[t] EXCEPT !.pc = "depend"]
                                                      ELSE task[t]]
  <2>1. ASSUME NEW t \in Ready PROVE TaskInv(t)'
    <3>1. t \in Tasks /\ TaskInv(t)
      BY <1>4 DEF Inv
    <3>2. task'[t] = [task[t] EXCEPT !.pc = "depend"]
      BY <1>6, <3>1
    <3>3. task'[t].pc = "depend" /\ {"pc", "query"} \subseteq DOMAIN task'[t]
      BY <3>1, <3>2 DEF TaskInv
    <3>4. t \in Pending /\ Needs(t) \subseteq Completed /\ t \notin Completed
      BY DEF Ready, Pending
    <3> QED  BY <1>1, <1>6, <3>1, <3>3, <3>4 DEF TaskInv, Working
  <2>2. ASSUME NEW t \in Tasks \ Ready PROVE TaskInv(t)'
    <3>1. TaskInv(t) /\ task'[t] = task[t] /\ t \notin layer'
      BY <1>6, <2>2 DEF Inv
    <3> QED  BY <1>1, <3>1 DEF TaskInv
  <2> QED  BY <1>1, <1>3, <1>4, <1>6, <2>1, <2>2 DEF Inv
<1> QED  BY <1>5, <1>6 DEF StartLayer

\* The outcomes of a layer become results.
LEMMA EndKeeps ==
  ASSUME Inv, EndLayer
  PROVE  Inv'
<1>1. /\ Planned' = Planned /\ \A u : Needs(u)' = Needs(u)
      /\ layer' = {} /\ task' = task /\ Completed' = Completed \cup layer
      /\ \A t \in layer : task[t].pc = "ended" /\ results'[t] = Outcome(t)
      /\ \A t \in Completed \ layer : results'[t] = results[t]
  BY DEF EndLayer, Planned, Needs, Completed
<1>2. PlanInv'
  BY DEF EndLayer, Inv, PlanInv
<1>3. ASSUME NEW t \in Tasks PROVE TaskInv(t)'
  <2>1. TaskInv(t)
    BY DEF Inv
  <2>2. CASE t \in layer
    <3>1. t \in Planned /\ Outcome(t).status \in Decided
      BY <1>1, <2>1, <2>2 DEF TaskInv, Pending
    <3> QED  BY <1>1, <2>1, <2>2, <3>1 DEF TaskInv
  <2>3. CASE t \notin layer
    BY <1>1, <2>1, <2>3 DEF TaskInv
  <2> QED  BY <2>2, <2>3
<1> QED  BY <1>1, <1>2, <1>3 DEF Inv

\* The steps that only end the analysis.
LEMMA PhaseKeeps ==
  ASSUME Inv, UNCHANGED <<input, plan, layer, task, results>>,
         (phase' = "done" /\ phase = "running") \/ phase' = "cancelled"
  PROVE  Inv'
<1>1. PlanInv'
  BY DEF Inv, PlanInv
<1>2. /\ Planned' = Planned /\ Completed' = Completed /\ Pending' = Pending
      /\ \A u : Needs(u)' = Needs(u)
  BY DEF Planned, Completed, Pending, Needs
<1> QED  BY <1>1, <1>2 DEF Inv, TaskInv, Outcome

\* The invariant holds before anything is planned.
LEMMA InitInv ==
  ASSUME Init
  PROVE  Inv
<1>1. DOMAIN << >> = {}
  OBVIOUS
<1>2. Completed = {} /\ layer = {} /\ DOMAIN task = Tasks
  BY <1>1 DEF Init, Completed
<1>3. \A t \in Tasks : task[t].pc = "idle" /\ {"pc", "query"} \subseteq DOMAIN task[t]
  BY DEF Init, Idle
<1>4. PlanInv
  BY DEF Init, PlanInv
<1> QED  BY <1>2, <1>3, <1>4 DEF Inv, TaskInv

\* What every step of a task is.
LEMMA TaskStepIs ==
  ASSUME Inv, NEW t \in Tasks, TaskStep(t)
  PROVE  /\ UNCHANGED <<input, phase, plan, layer, results, evidence>>
         /\ \E new : Advances(t, new)
<1>1. CASE CheckDependencies(t)
  BY <1>1, CheckAdvances DEF TaskStep
<1>2. CASE ResolveQuestion(t) \/ WriteCode(t)
  BY <1>2, AskAdvances DEF TaskStep
<1>3. CASE NodeEnds(t) \/ NodeFails(t)
  BY <1>3, NodeAdvances DEF TaskStep
<1>4. CASE Calculate(t)
  BY <1>4, CalculateAdvances DEF TaskStep
<1> QED  BY <1>1, <1>2, <1>3, <1>4 DEF TaskStep

\* Every step of the analysis.
LEMMA NextInv ==
  ASSUME Inv, [Next]_vars
  PROVE  Inv'
<1>1. CASE UNCHANGED vars
  <2>1. /\ Planned' = Planned /\ Completed' = Completed /\ Pending' = Pending
        /\ \A u : Needs(u)' = Needs(u)
    BY <1>1 DEF vars, Planned, Completed, Pending, Needs
  <2> QED  BY <1>1, <2>1 DEF vars, Inv, PlanInv, TaskInv, Outcome
<1>2. CASE PlanAnalysis
  BY <1>2, PlanKeeps
<1>3. CASE StartLayer
  BY <1>3, StartKeeps
<1>4. CASE EndLayer
  BY <1>4, EndKeeps
<1>5. CASE PublishEvidence
  BY <1>5, PhaseKeeps DEF PublishEvidence
<1>6. CASE Cancel
  BY <1>6, PhaseKeeps DEF Cancel
<1>7. ASSUME NEW t \in Tasks, TaskStep(t) PROVE Inv'
  BY <1>7, TaskStepIs, AdvanceKeeps
<1> QED  BY <1>1, <1>2, <1>3, <1>4, <1>5, <1>6, <1>7 DEF Next, Work

\* The inductive invariant: layers follow the dependencies of an accepted plan.
THEOREM Invariant == Spec => []Inv
<1>1. Init => Inv
  BY InitInv
<1>2. Inv /\ [Next]_vars => Inv'
  BY NextInv
<1> QED  BY <1>1, <1>2, PTL DEF Spec

(***************************************************************************)
(* Refinement: every step is one step of the promise, or none.             *)
(***************************************************************************)

\* The outcome the promise sees of a task.
Seen(t) == IF t \in Completed THEN results[t].status
           ELSE IF task[t].pc = "ended" THEN Outcome(t).status ELSE "open"

Reported == CASE phase = "done" -> evidence.status
              [] phase \in {"failed", "cancelled"} -> "aborted"
              [] OTHER -> "none"

\* What is seen of a task is open until it is decided.
LEMMA SeenFacts ==
  ASSUME Inv, NEW t \in Tasks
  PROVE  /\ t \in Completed => Seen(t) = results[t].status /\ Seen(t) # "open"
         /\ Seen(t) \in Decided \cup {"open"}
         /\ t \in layer /\ task[t].pc # "ended" => Seen(t) = "open"
         /\ t \in layer => t \in Planned
<1>1. TaskInv(t)
  BY DEF Inv
<1> QED  BY <1>1 DEF TaskInv, Seen, Decided, Pending

\* A step that changes no plan, outcome or report.
LEMMA PromiseStutters ==
  ASSUME Inv, plan' = plan, \A t \in Tasks : Seen(t)' = Seen(t), Reported' = Reported
  PROVE  UNCHANGED Promise!vars
<1>1. Planned' = Planned /\ \A t : Needs(t)' = Needs(t)
  BY DEF Planned, Needs
<1>2. \A t \in Tasks :
        (IF t \in Completed' THEN results'[t].status
         ELSE IF task'[t].pc = "ended" THEN Outcome(t)'.status ELSE "open") =
        (IF t \in Completed THEN results[t].status
         ELSE IF task[t].pc = "ended" THEN Outcome(t).status ELSE "open")
  BY DEF Seen
<1> QED  BY <1>1, <1>2 DEF Promise!vars, Reported

\* A task that ends is decided on what it needs; any other step of it is not seen.
LEMMA AdvancePromise ==
  ASSUME Inv, Inv', NEW t \in Tasks, NEW new, Advances(t, new),
         UNCHANGED <<input, phase, plan, layer, results, evidence>>
  PROVE  [Promise!Next]_(Promise!vars)
<1>1. /\ task'[t] = new /\ \A u \in Tasks \ {t} : task'[u] = task[u]
  BY DEF Inv, Advances
<1>2. /\ Planned' = Planned /\ Completed' = Completed /\ \A u : Needs(u)' = Needs(u)
      /\ Reported' = Reported /\ Reported = "none"
  BY DEF Planned, Completed, Needs, Reported, Advances
<1>3. \A u \in Tasks \ {t} : Seen(u)' = Seen(u)
  BY <1>1, <1>2 DEF Seen, Outcome
<1>4. /\ t \in layer /\ t \in Planned /\ t \notin Completed /\ Seen(t) = "open"
      /\ Needs(t) \subseteq Completed /\ plan # <<>>
  BY SeenFacts DEF Advances, Inv, TaskInv, Pending, PlanInv
<1>5. Seen(t)' = IF new.pc = "ended" THEN new.outcome.status ELSE "open"
  BY <1>1, <1>2, <1>4 DEF Seen, Outcome
<1>6. CASE new.pc # "ended"
  BY <1>2, <1>3, <1>4, <1>5, <1>6, PromiseStutters
<1>7. CASE new.pc = "ended"
  <2>1. \A u \in Needs(t) : u \in Tasks /\ Seen(u) = results[u].status /\ Seen(u) # "open"
    BY <1>4, SeenFacts DEF Inv
  <2>2. \/ Seen(t)' = "failed"
        \/ Seen(t)' = "success" /\ \A u \in Needs(t) : Seen(u) = "success"
    BY <1>5, <1>7, <2>1 DEF Advances, Decided, Working
  <2>3. Promise!Decide(t)
    BY <1>2, <1>3, <1>4, <2>1, <2>2 DEF Promise!Decide, Seen, Reported
  <2> QED  BY <2>3 DEF Promise!Next
<1> QED  BY <1>6, <1>7

\* An accepted plan is the promise's plan; a refused one is given up.
LEMMA PlanPromise ==
  ASSUME Inv, Inv', PlanAnalysis
  PROVE  [Promise!Next]_(Promise!vars)
<1>1. phase = "planning" /\ plan = <<>> /\ Planned = {} /\ Reported = "none"
  BY NoPlanFacts DEF PlanAnalysis, Inv, PlanInv, Reported
<1>2. \A t \in Tasks : Seen(t)' = Seen(t)
  BY DEF PlanAnalysis, Seen, Completed, Outcome
<1>3. CASE phase' = "failed" /\ plan' = plan
  <2>1. Reported' = "aborted"
    BY <1>3 DEF Reported
  <2>2. Planned' = Planned /\ \A t : Needs(t)' = Needs(t)
    BY <1>3 DEF Planned, Needs
  <2>3. Promise!Abort
    BY <1>1, <1>2, <1>3, <2>1, <2>2 DEF Promise!Abort, Seen, Reported
  <2> QED  BY <2>3 DEF Promise!Next
<1>4. CASE phase' = "running"
  <2>1. plan' \in Seq(Entry) /\ ValidPlan(plan')
    BY <1>4 DEF Inv, PlanInv
  <2>2. /\ plan' # <<>> /\ Planned' # {} /\ Planned' \subseteq Tasks
        /\ \A t \in Planned' : Needs(t)' \subseteq Planned'
    <3>1. ASSUME NEW p \in Seq(Entry), ValidPlan(p), p = plan'
          PROVE  /\ p # <<>> /\ {p[n].id : n \in DOMAIN p} # {}
                 /\ {p[n].id : n \in DOMAIN p} \subseteq Tasks
                 /\ \A t \in {p[n].id : n \in DOMAIN p} :
                      UNION {ToSet(p[n].needs) : n \in {k \in DOMAIN p : p[k].id = t}}
                        \subseteq {p[n].id : n \in DOMAIN p}
      BY <3>1, PlanIs
    <3> QED  BY <2>1, <3>1 DEF Planned, Needs
  <2>3. Reported' = "none"
    BY <1>4 DEF Reported
  <2>4. Promise!Accept
    BY <1>1, <1>2, <2>2, <2>3 DEF Promise!Accept, Seen, Reported
  <2> QED  BY <2>4 DEF Promise!Next
<1> QED  BY <1>3, <1>4 DEF PlanAnalysis

\* Starting a layer decides nothing.
LEMMA StartPromise ==
  ASSUME Inv, Inv', StartLayer
  PROVE  [Promise!Next]_(Promise!vars)
<1>1. /\ phase = "running" /\ layer = {} /\ plan # <<>> /\ plan' = plan
      /\ results' = results /\ Completed' = Completed /\ Reported = "none"
  BY DEF StartLayer, Completed, Inv, PlanInv, Reported
<1>2. CASE /\ phase' = "failed" /\ task' = task
  <2>1. \A t \in Tasks : Seen(t)' = Seen(t)
    BY <1>1, <1>2 DEF Seen, Outcome
  <2>2. Planned' = Planned /\ \A t : Needs(t)' = Needs(t)
    BY <1>1 DEF Planned, Needs
  <2>3. Reported' = "aborted"
    BY <1>2 DEF Reported
  <2>4. Promise!Abort
    BY <1>1, <2>1, <2>2, <2>3 DEF Promise!Abort, Seen, Reported
  <2> QED  BY <2>4 DEF Promise!Next
<1>3. CASE /\ phase' = phase
           /\ task' = [t \in Tasks |-> IF t \in Ready THEN [task[t] EXCEPT !.pc = "depend"]
                                                      ELSE task[t]]
  <2>1. ASSUME NEW t \in Tasks \ Completed PROVE Seen(t) = "open" /\ Seen(t)' = "open"
    <3>1. task[t].pc = "idle" /\ {"pc", "query"} \subseteq DOMAIN task[t]
      BY <1>1 DEF Inv, TaskInv
    <3>2. task'[t].pc \in {"idle", "depend"}
      BY <1>3, <3>1
    <3> QED  BY <1>1, <3>1, <3>2 DEF Seen
  <2>2. \A t \in Completed : Seen(t)' = Seen(t)
    BY <1>1 DEF Seen
  <2>3. Reported' = Reported
    BY <1>1, <1>3 DEF Reported
  <2> QED  BY <1>1, <2>1, <2>2, <2>3, PromiseStutters
<1> QED  BY <1>2, <1>3 DEF StartLayer

\* The results of a layer are what was decided in it.
LEMMA EndPromise ==
  ASSUME Inv, EndLayer
  PROVE  UNCHANGED Promise!vars
<1>1. /\ layer' = {} /\ task' = task /\ Completed' = Completed \cup layer
      /\ \A t \in layer : task[t].pc = "ended" /\ results'[t] = Outcome(t)
      /\ \A t \in Completed \ layer : results'[t] = results[t]
      /\ plan' = plan /\ phase = "running" /\ phase' = phase
  BY DEF EndLayer, Completed
<1>2. \A t \in layer : t \notin Completed
  BY DEF Inv, TaskInv, Pending
<1>3. \A t \in Tasks : Seen(t)' = Seen(t)
  BY <1>1, <1>2 DEF Seen, Outcome
<1>4. Reported' = Reported
  BY <1>1 DEF Reported
<1> QED  BY <1>1, <1>3, <1>4, PromiseStutters

\* The evidence is the verdict on all outcomes.
LEMMA PublishPromise ==
  ASSUME Inv, PublishEvidence
  PROVE  Promise!Next
<1>1. /\ phase = "running" /\ phase' = "done" /\ plan # <<>> /\ plan' = plan /\ Pending = {}
      /\ Reported = "none" /\ Reported' = evidence'.status
      /\ Planned' = Planned /\ \A t : Needs(t)' = Needs(t)
  BY DEF PublishEvidence, Inv, PlanInv, Reported, Planned, Needs
<1>2. \A t \in Tasks : Seen(t)' = Seen(t)
  BY DEF PublishEvidence, Seen, Completed, Outcome
<1>3. plan \in Seq(Entry) /\ ValidPlan(plan)
  BY <1>1 DEF Inv, PlanInv
<1>4. Planned # {} /\ Planned \subseteq Tasks
  BY <1>3, PlanFacts
<1>5. Planned = Completed
  BY <1>1 DEF Pending, Inv, TaskInv
<1>6. \A t \in Planned : Seen(t) = results[t].status /\ Seen(t) \in Decided
  BY <1>4, <1>5, SeenFacts DEF Decided
<1>7. Promise!Verdict = evidence'.status
  <2>1. PICK all : all = {Seen(t) : t \in Planned}
    OBVIOUS
  <2>2. evidence'.status = IF Counted("failed") = {} THEN "success"
                           ELSE IF Counted("success") # {} THEN "partial" ELSE "failed"
    BY DEF PublishEvidence
  <2>3. Counted("failed") = {} <=> "failed" \notin all
    BY <1>5, <1>6, <2>1 DEF Counted
  <2>4. Counted("success") = {} <=> "success" \notin all
    BY <1>5, <1>6, <2>1 DEF Counted
  <2>5. all \subseteq {"success", "failed"} /\ all # {}
    BY <1>4, <1>6, <2>1 DEF Decided
  <2>6. evidence'.status = CASE all = {"success"} -> "success"
                             [] all = {"failed"} -> "failed"
                             [] OTHER -> "partial"
    <3>1. "failed" \notin all <=> all = {"success"}
      BY <2>5
    <3>2. "success" \notin all <=> all = {"failed"}
      BY <2>5
    <3> QED  BY <2>2, <2>3, <2>4, <3>1, <3>2
  <2>7. Promise!Verdict = CASE all = {"success"} -> "success"
                            [] all = {"failed"} -> "failed"
                            [] OTHER -> "partial"
    <3>1. {(IF t \in Completed THEN results[t].status
            ELSE IF task[t].pc = "ended" THEN Outcome(t).status ELSE "open") : t \in Planned} = all
      BY <2>1 DEF Seen
    <3> QED  BY <1>1, <1>4, <3>1, ZenonT(60) DEF Promise!Verdict
  <2> QED  BY <2>6, <2>7
<1>8. Promise!Report
  BY <1>1, <1>2, <1>4, <1>6, <1>7 DEF Promise!Report, Decided, Seen, Reported
<1> QED  BY <1>8 DEF Promise!Next

\* A cancelled analysis reports nothing.
LEMMA CancelPromise ==
  ASSUME Inv, Cancel
  PROVE  Promise!Next
<1>1. /\ Reported = "none" /\ Reported' = "aborted" /\ plan' = plan
      /\ Planned' = Planned /\ \A t : Needs(t)' = Needs(t)
  BY DEF Cancel, Reported, Planned, Needs
<1>2. \A t \in Tasks : Seen(t)' = Seen(t)
  BY DEF Cancel, Seen, Completed, Outcome
<1>3. Promise!Abort
  BY <1>1, <1>2 DEF Promise!Abort, Seen, Reported
<1> QED  BY <1>3 DEF Promise!Next

\* The promise begins where the analysis does.
LEMMA PromiseInit ==
  ASSUME Init
  PROVE  Promise!Init
<1>1. DOMAIN << >> = {}
  OBVIOUS
<1> QED  BY <1>1 DEF Init, Promise!Init, Completed, Idle

\* Every step of the analysis.
LEMMA PromiseStep ==
  ASSUME Inv, Inv', [Next]_vars
  PROVE  [Promise!Next]_(Promise!vars)
<1>1. CASE UNCHANGED vars
  <2>1. plan' = plan /\ Reported' = Reported /\ \A t \in Tasks : Seen(t)' = Seen(t)
    BY <1>1 DEF vars, Reported, Seen, Completed, Outcome
  <2> QED  BY <2>1, PromiseStutters
<1>2. CASE PlanAnalysis
  BY <1>2, PlanPromise
<1>3. CASE StartLayer
  BY <1>3, StartPromise
<1>4. CASE EndLayer
  BY <1>4, EndPromise
<1>5. CASE PublishEvidence
  BY <1>5, PublishPromise
<1>6. CASE Cancel
  BY <1>6, CancelPromise
<1>7. ASSUME NEW t \in Tasks, TaskStep(t) PROVE [Promise!Next]_(Promise!vars)
  BY <1>7, TaskStepIs, AdvancePromise
<1> QED  BY <1>1, <1>2, <1>3, <1>4, <1>5, <1>6, <1>7 DEF Next, Work

\* An analysis of any plan keeps its promise: each task is decided once, after what it
\* depends on, succeeds only on successes, and the evidence counts what was decided.
THEOREM Refinement == Spec => KeepsAnalysisPromise
<1>1. Init => Promise!Init
  BY PromiseInit
<1>2. Inv /\ Inv' /\ [Next]_vars => [Promise!Next]_(Promise!vars)
  BY PromiseStep
<1> QED  BY <1>1, <1>2, Invariant, PTL DEF Spec, KeepsAnalysisPromise, Promise!Spec

(***************************************************************************)
(* The search for joins.                                                   *)
(***************************************************************************)

\* A set of numbers has a least one.
LEMMA LeastIs ==
  ASSUME NEW T \in SUBSET Nat, T # {}
  PROVE  \E m \in T : \A k \in T : m <= k
<1>1. PICK R : R = OpToRel(<, Nat)
  OBVIOUS
<1>2. \A x, y \in Nat : x < y => <<x, y>> \in R
  BY <1>1 DEF OpToRel
<1>3. IsWellFoundedOn(R, Nat)
  BY <1>1, NatLessThanWellFounded
<1>4. PICK m \in T : \A k \in T : <<k, m>> \notin R
  BY <1>3, WFMin
<1>5. m \in Nat /\ \A k \in T : k \in Nat
  OBVIOUS
<1>6. \A k \in T : ~(k < m)
  BY <1>2, <1>4, <1>5
<1> QED  BY <1>5, <1>6

Visited == [table : Tables, path : SUBSET Relationships]

\* A way leads from start to the table by relationships of the context: what holds start and
\* whatever these join holds it all.  It joins a fact to the dates by one that is meant.
IsWay(w, start, ctx, asked) ==
  /\ w.path \subseteq ctx.relationships
  /\ \A part : start \in part /\ (\A l \in w.path : l.from \in part <=> l.to \in part) =>
       w.table \in part /\ \A l \in w.path : l.from \in part
  /\ \A l \in w.path : l.to = DateTable /\ Meant(l.from, asked) # {} => l.fromCol \in Meant(l.from, asked)

IsQueue(queue, start, ctx, asked) ==
  queue \in Seq(Visited) /\ \A i \in DOMAIN queue : IsWay(queue[i], start, ctx, asked)

\* What the search knows of the context it searches: it has every join of its tables.
HasItsJoins(ctx) ==
  /\ ctx.columns = ColumnsOf(ctx.tables)
  /\ ctx.relationships = {l \in Relationships : {l.from, l.to} \subseteq ctx.tables}

\* Relationships, by their place.
LEMMA RelationshipIs ==
  /\ Len(RelationshipOrder) \in Nat /\ DOMAIN RelationshipOrder = 1..Len(RelationshipOrder)
  /\ \A n \in DOMAIN RelationshipOrder : RelationshipOrder[n] \in Relationships
  /\ \A l \in Relationships : \E n \in DOMAIN RelationshipOrder : RelationshipOrder[n] = l
  /\ Relationships \subseteq Relationship
<1>1. RelationshipOrder \in Seq(Relationship)
  BY CatalogAssumption
<1>2. Relationships = {RelationshipOrder[n] : n \in DOMAIN RelationshipOrder}
  BY DEF Relationships, ToSet
<1> QED  BY <1>1, <1>2

\* What a date that is meant is: one of the fact's own, and the default or named.
LEMMA MeantIs ==
  ASSUME NEW fact, NEW asked, NEW c
  PROVE  c \in Meant(fact, asked) <=>
           /\ \E d \in Relationships : d.from = fact /\ d.to = DateTable /\ d.fromCol = c
           /\ IF asked = {} THEN c \in DefaultDates ELSE c \in asked
BY DEF Meant

\* A fact is not joined to the dates by another date than one that is meant.
LEMMA FirstIsMeant ==
  ASSUME NEW ctx, HasItsJoins(ctx), NEW selected, NEW queue, queue \in Seq(Visited), NEW asked,
         NEW o \in Openings(queue, ctx),
         \A p \in Openings(queue, ctx) : p = o \/ Sooner(o, p, selected, asked),
         NEW l, l = RelationshipOrder[o[2]], l.to = DateTable, Meant(l.from, asked) # {}
  PROVE  l.fromCol \in Meant(l.from, asked)
<1> SUFFICES ASSUME l.fromCol \notin Meant(l.from, asked) PROVE FALSE
  OBVIOUS
<1>1. PICK t : t = queue[o[1]].table
  OBVIOUS
<1>2. /\ o[1] \in DOMAIN queue /\ o[2] \in DOMAIN RelationshipOrder /\ o = <<o[1], o[2]>>
      /\ l \in ctx.relationships /\ t \in {l.from, l.to}
      /\ \A k \in DOMAIN queue : queue[k].table # OtherEnd(l, t)
  BY <1>1 DEF Openings
<1>3. l \in Relationships /\ l.to = DateTable /\ {l.from, l.to} \subseteq ctx.tables
  BY <1>1, <1>2 DEF HasItsJoins
<1>4. PICK d \in Relationships :
        d.from = l.from /\ d.to = DateTable /\ d.fromCol \in Meant(l.from, asked)
  BY MeantIs
<1>5. PICK n \in DOMAIN RelationshipOrder : RelationshipOrder[n] = d
  BY RelationshipIs
<1>6. d \in ctx.relationships /\ d.from = l.from /\ d.to = l.to
  BY <1>3, <1>4 DEF HasItsJoins
<1>7. OtherEnd(d, t) = OtherEnd(l, t)
  BY <1>6 DEF OtherEnd
<1>8. PICK p : p = <<o[1], n>>
  OBVIOUS
<1>9. p[1] = o[1] /\ p[2] = n /\ p \in (DOMAIN queue) \X (DOMAIN RelationshipOrder)
  BY <1>2, <1>8
<1>10. p \in Openings(queue, ctx)
  BY <1>1, <1>2, <1>5, <1>6, <1>7, <1>9 DEF Openings
<1>11. Priority(d, selected, asked) = 0
  <2>1. IF asked = {} THEN d.fromCol \in DefaultDates ELSE d.fromCol \in asked
    BY <1>4, MeantIs
  <2> QED  BY <1>4, <2>1 DEF Priority
<1>12. Priority(l, selected, asked) \in {1, 2, 3}
  <2>1. ~(IF asked = {} THEN l.fromCol \in DefaultDates ELSE l.fromCol \in asked)
    BY <1>3, MeantIs
  <2> QED  BY <1>3, <2>1 DEF Priority
<1>13. p # o
  BY <1>1, <1>4, <1>5, <1>9
<1>14. o[1] = p[1] /\ Sooner(o, p, selected, asked)
  BY <1>9, <1>10, <1>13
<1>15. o[1] \in Nat
  BY <1>2
<1> QED  BY <1>5, <1>9, <1>11, <1>12, <1>14, <1>15 DEF Sooner

\* What visiting a table adds is a way to it.
LEMMA VisitIs ==
  ASSUME NEW start, NEW ctx, HasItsJoins(ctx), NEW selected, NEW asked,
         NEW queue, IsQueue(queue, start, ctx, asked),
         NEW next \in Visit(queue, ctx, selected, asked)
  PROVE  IsQueue(next, start, ctx, asked)
<1>1. CASE next = queue
  BY <1>1
<1>2. CASE next # queue
  <2>1. PICK o \in Openings(queue, ctx) :
          /\ \A p \in Openings(queue, ctx) : p = o \/ Sooner(o, p, selected, asked)
          /\ next = Append(queue,
               [table |-> OtherEnd(RelationshipOrder[o[2]], queue[o[1]].table),
                path |-> queue[o[1]].path \cup {RelationshipOrder[o[2]]}])
    BY <1>2 DEF Visit
  <2>2. PICK w, l, e :
          /\ w = queue[o[1]] /\ l = RelationshipOrder[o[2]]
          /\ e = [table |-> OtherEnd(l, w.table), path |-> w.path \cup {l}]
    OBVIOUS
  <2>3. /\ o[1] \in DOMAIN queue /\ o[2] \in DOMAIN RelationshipOrder
        /\ l \in ctx.relationships /\ w.table \in {l.from, l.to}
    BY <2>2 DEF Openings
  <2>4. w \in Visited /\ IsWay(w, start, ctx, asked) /\ queue \in Seq(Visited)
    BY <2>2, <2>3 DEF IsQueue
  <2>5. l \in Relationships /\ l.from \in Tables /\ l.to \in Tables
    BY <2>2, <2>3, RelationshipIs DEF Relationship
  <2>6. e.table = OtherEnd(l, w.table) /\ e.path = w.path \cup {l} /\ e.table \in {l.from, l.to}
    BY <2>2 DEF OtherEnd
  <2>7. e \in Visited
    BY <2>2, <2>4, <2>5, <2>6 DEF Visited
  <2>8. IsWay(e, start, ctx, asked)
    <3>1. e.path \subseteq ctx.relationships
      BY <2>3, <2>4, <2>6 DEF IsWay
    <3>2. ASSUME NEW part, start \in part, \A k \in e.path : k.from \in part <=> k.to \in part
          PROVE  e.table \in part /\ \A k \in e.path : k.from \in part
      <4>1. w.table \in part /\ \A k \in w.path : k.from \in part
        BY <2>4, <2>6, <3>2 DEF IsWay
      <4>2. l.from \in part /\ l.to \in part
        BY <2>3, <2>6, <3>2, <4>1
      <4> QED  BY <2>6, <4>1, <4>2
    <3>3. ASSUME NEW k \in e.path, k.to = DateTable, Meant(k.from, asked) # {}
          PROVE  k.fromCol \in Meant(k.from, asked)
      <4>1. CASE k \in w.path
        BY <2>4, <3>3, <4>1 DEF IsWay
      <4>2. CASE k = l
        BY <2>1, <2>2, <2>4, <3>3, <4>2, FirstIsMeant
      <4> QED  BY <2>6, <4>1, <4>2
    <3> QED  BY <3>1, <3>2, <3>3 DEF IsWay
  <2>9. next = Append(queue, e)
    BY <2>1, <2>2
  <2>10. next \in Seq(Visited)
    BY <2>4, <2>7, <2>9
  <2>11. ASSUME NEW i \in DOMAIN next PROVE IsWay(next[i], start, ctx, asked)
    <3>1. (i \in DOMAIN queue /\ next[i] = queue[i]) \/ next[i] = e
      BY <2>4, <2>7, <2>9
    <3> QED  BY <2>8, <3>1 DEF IsQueue
  <2> QED  BY <2>10, <2>11 DEF IsQueue
<1> QED  BY <1>1, <1>2

\* The search as it goes on: what it has after so many tables.
IsSearch(visited, n, start, ctx, selected, asked) ==
  visited = [i \in 0..n |->
    IF i = 0 THEN {<<[table |-> start, path |-> {}]>>}
    ELSE UNION {Visit(queue, ctx, selected, asked) : queue \in visited[i - 1]}]

\* It can go on as long as there are relationships.
LEMMA SearchGoesOn ==
  ASSUME NEW N \in Nat, NEW start, NEW ctx, NEW selected, NEW asked
  PROVE  \E visited : IsSearch(visited, N, start, ctx, selected, asked)
<1> DEFINE Stuck == {n \in 0..N : ~\E visited : IsSearch(visited, n, start, ctx, selected, asked)}
<1>1. SUFFICES ASSUME Stuck # {} PROVE FALSE
  <2>1. N \in 0..N
    OBVIOUS
  <2> QED  BY <2>1
<1>2. PICK m \in Stuck : \A k \in Stuck : m <= k
  <2>1. Stuck \in SUBSET Nat
    OBVIOUS
  <2> HIDE DEF Stuck
  <2> QED  BY <1>1, <2>1, LeastIs
<1>3. m \in 0..N /\ ~\E visited : IsSearch(visited, m, start, ctx, selected, asked)
  OBVIOUS
<1>4. CASE m = 0
  <2>1. PICK visited : visited = [i \in 0..0 |-> {<<[table |-> start, path |-> {}]>>}]
    OBVIOUS
  <2>2. IsSearch(visited, 0, start, ctx, selected, asked)
    BY <2>1 DEF IsSearch
  <2> QED  BY <1>3, <1>4, <2>2
<1>5. CASE m # 0
  <2>1. m - 1 \in 0..N /\ ~(m <= m - 1)
    BY <1>3, <1>5
  <2>2. m - 1 \notin Stuck
    BY <1>2, <2>1
  <2>3. PICK before : IsSearch(before, m - 1, start, ctx, selected, asked)
    BY <2>1, <2>2
  <2>4. PICK visited :
          visited = [i \in 0..m |->
            IF i = m THEN UNION {Visit(queue, ctx, selected, asked) : queue \in before[m - 1]}
            ELSE before[i]]
    OBVIOUS
  <2>5. \A i \in 0..(m - 1) : visited[i] = before[i]
    BY <1>3, <2>4
  <2>6. ASSUME NEW i \in 0..m
        PROVE  visited[i] =
                 IF i = 0 THEN {<<[table |-> start, path |-> {}]>>}
                 ELSE UNION {Visit(queue, ctx, selected, asked) : queue \in visited[i - 1]}
    <3>1. CASE i = m
      <4>1. visited[m - 1] = before[m - 1]
        BY <1>3, <1>5, <2>5
      <4> QED  BY <1>3, <1>5, <2>4, <3>1, <4>1
    <3>2. CASE i # m
      <4>1. i \in 0..(m - 1) /\ (i # 0 => i - 1 \in 0..(m - 1))
        BY <1>3, <3>2
      <4>2. visited[i] = before[i] /\ (i # 0 => visited[i - 1] = before[i - 1])
        BY <2>5, <4>1
      <4> QED  BY <2>3, <4>1, <4>2 DEF IsSearch
    <3> QED  BY <3>1, <3>2
  <2>7. IsSearch(visited, m, start, ctx, selected, asked)
    BY <2>4, <2>6 DEF IsSearch
  <2> QED  BY <1>3, <2>7
<1> QED  BY <1>4, <1>5

\* Every queue of the search has ways from where it starts.
LEMMA SearchIs ==
  ASSUME NEW start \in Tables, NEW ctx, HasItsJoins(ctx), NEW selected, NEW asked,
         NEW queue \in Search(start, ctx, selected, asked)
  PROVE  IsQueue(queue, start, ctx, asked)
<1>1. PICK N : N = Len(RelationshipOrder) /\ N \in Nat
  BY RelationshipIs
<1>2. PICK visited : /\ IsSearch(visited, N, start, ctx, selected, asked)
                     /\ Search(start, ctx, selected, asked) = visited[N]
  <2>1. PICK visited : visited = CHOOSE v : IsSearch(v, N, start, ctx, selected, asked)
    OBVIOUS
  <2>2. IsSearch(visited, N, start, ctx, selected, asked)
    BY <1>1, <2>1, SearchGoesOn
  <2>3. Search(start, ctx, selected, asked) = visited[N]
    BY <1>1, <2>1 DEF Search, IsSearch
  <2> QED  BY <2>2, <2>3
<1> DEFINE Off == {n \in 0..N : \E q \in visited[n] : ~IsQueue(q, start, ctx, asked)}
<1>3. SUFFICES ASSUME Off # {} PROVE FALSE
  BY <1>1, <1>2
<1>4. PICK m \in Off : \A k \in Off : m <= k
  <2>1. Off \in SUBSET Nat
    OBVIOUS
  <2> HIDE DEF Off
  <2> QED  BY <1>3, <2>1, LeastIs
<1>5. PICK q \in visited[m] : ~IsQueue(q, start, ctx, asked)
  OBVIOUS
<1>6. m \in 0..N
  OBVIOUS
<1>7. CASE m = 0
  <2>1. q = <<[table |-> start, path |-> {}]>>
    BY <1>2, <1>5, <1>6, <1>7 DEF IsSearch
  <2>2. PICK w : w = [table |-> start, path |-> {}]
    OBVIOUS
  <2>3. w \in Visited /\ w.path = {} /\ w.table = start
    BY <2>2 DEF Visited
  <2>4. IsWay(w, start, ctx, asked)
    BY <2>3 DEF IsWay
  <2>5. q \in Seq(Visited) /\ \A i \in DOMAIN q : q[i] = w
    BY <2>1, <2>2, <2>3
  <2> QED  BY <1>5, <2>4, <2>5 DEF IsQueue
<1>8. CASE m # 0
  <2>1. m - 1 \in 0..N /\ ~(m <= m - 1)
    BY <1>1, <1>6, <1>8
  <2>2. m - 1 \notin Off
    BY <1>4, <2>1
  <2>3. PICK r \in visited[m - 1] : q \in Visit(r, ctx, selected, asked)
    <3>1. visited[m] = UNION {Visit(r, ctx, selected, asked) : r \in visited[m - 1]}
      BY <1>2, <1>6, <1>8 DEF IsSearch
    <3> QED  BY <1>5, <3>1
  <2>4. IsQueue(r, start, ctx, asked)
    BY <2>1, <2>2, <2>3
  <2> QED  BY <1>5, <2>3, <2>4, VisitIs
<1> QED  BY <1>7, <1>8

(***************************************************************************)
(* The context SQL is generated from.                                      *)
(***************************************************************************)

\* Some of a sequence's places have a first and a last one.
LEMMA EndsAre ==
  ASSUME NEW n \in Nat, NEW S \in SUBSET (1..n), S # {}
  PROVE  Min(S) \in S /\ Max(S) \in S
<1>1. S \in SUBSET Nat
  OBVIOUS
<1>2. PICK m \in S : \A k \in S : m <= k
  BY <1>1, LeastIs
<1>3. Min(S) \in S
  BY <1>2 DEF Min
<1>4. PICK T : T = {n - i : i \in S}
  OBVIOUS
<1>5. T \in SUBSET Nat /\ T # {}
  <2>1. \A i \in S : n - i \in Nat
    OBVIOUS
  <2>2. \E i \in S : n - i \in T
    BY <1>4
  <2> QED  BY <1>4, <2>1, <2>2
<1>6. PICK d \in T : \A k \in T : d <= k
  BY <1>5, LeastIs
<1>7. PICK i \in S : d = n - i
  BY <1>4
<1>8. \A k \in S : i >= k
  <2>1. ASSUME NEW k \in S PROVE i >= k
    <3>1. n - i <= n - k
      BY <1>4, <1>6, <1>7
    <3> QED  BY <3>1
  <2> QED  BY <2>1
<1>9. Max(S) \in S
  BY <1>8 DEF Max
<1> QED  BY <1>3, <1>9

\* All that ContextIsUsable says of one context.
Usable(c, asked) ==
  /\ MetricsAreComputable(c) /\ FiltersAreKept(c) /\ JoinsAreComplete(c)
  /\ TablesAreJoined(c) /\ DatesAreMeant(c, asked)

\* A metric's table is one of the tables.
LEMMA BaseIs ==
  ASSUME NEW m \in Metrics
  PROVE  Base[m] \in Tables /\ \E d \in Uses[m] : d \in Columns /\ TableOf[d] = Base[m]
BY CatalogAssumption

\* The way to a table that is sought is one from the table of a chosen metric.
LEMMA PathsAre ==
  ASSUME NEW chosen, NEW ctx, HasItsJoins(ctx), chosen.metrics \subseteq Metrics, NEW asked,
         NEW t \in Sought(chosen, ctx), NEW path \in PathsTo(t, chosen, ctx, asked)
  PROVE  \E m \in chosen.metrics, w \in Visited :
           w.table = t /\ w.path = path /\ IsWay(w, Base[m], ctx, asked)
<1>1. PICK S : S = From(t, chosen)
  OBVIOUS
<1>2. S # {} /\ S \subseteq DOMAIN MetricOrder
      /\ \A n \in S : MetricOrder[n] \in chosen.metrics
  BY <1>1 DEF Sought, From
<1>3. DOMAIN MetricOrder = 1..Len(MetricOrder) /\ Len(MetricOrder) \in Nat
  BY CatalogAssumption
<1>4. Min(S) \in S
  BY <1>2, <1>3, EndsAre
<1>5. PICK m \in chosen.metrics : m = MetricOrder[Min(S)]
  BY <1>2, <1>4
<1>6. PICK queue \in Search(Base[m], ctx, Selected(chosen, ctx), asked) :
        path \in {queue[n].path : n \in {k \in DOMAIN queue : queue[k].table = t}}
  BY <1>1, <1>5 DEF PathsTo
<1>7. PICK n \in DOMAIN queue : queue[n].table = t /\ path = queue[n].path
  BY <1>6
<1>8. Base[m] \in Tables
  BY BaseIs
<1>9. IsQueue(queue, Base[m], ctx, asked)
  BY <1>6, <1>8, SearchIs
<1>10. queue[n] \in Visited /\ IsWay(queue[n], Base[m], ctx, asked)
  BY <1>9 DEF IsQueue
<1> QED  BY <1>7, <1>10

Choice == [name : DOMAIN Denotes, columns : SUBSET DOMAIN TableOf]

\* The columns chosen of a table are its own.
LEMMA ChosenColumnsAre ==
  ASSUME NEW chosen, chosen.tables \in Seq(Choice), NEW ctx, ChoiceIsKnown(chosen, ctx),
         NEW t, NEW c \in ChosenColumns(t, chosen, ctx)
  PROVE  TableOf[c] = t
<1>1. PICK mine : mine = {n \in DOMAIN chosen.tables : Resolved(chosen.tables[n].name, ctx) = {t}}
  OBVIOUS
<1>2. mine # {} /\ c \in chosen.tables[Max(mine)].columns
  BY <1>1 DEF ChosenColumns
<1>3. DOMAIN chosen.tables = 1..Len(chosen.tables) /\ Len(chosen.tables) \in Nat
  OBVIOUS
<1>4. mine \in SUBSET (1..Len(chosen.tables))
  BY <1>1, <1>3
<1>5. Max(mine) \in mine
  BY <1>2, <1>3, <1>4, EndsAre
<1>6. PICK n \in DOMAIN chosen.tables : n = Max(mine) /\ Resolved(chosen.tables[n].name, ctx) = {t}
  BY <1>1, <1>5
<1>7. chosen.tables[n].columns \subseteq ColumnsOf({t})
  BY <1>6 DEF ChoiceIsKnown
<1> QED  BY <1>2, <1>6, <1>7 DEF ColumnsOf

\* The table of a selected column is required.
LEMMA SelectedIs ==
  ASSUME NEW chosen, chosen.tables \in Seq(Choice), chosen.metrics \subseteq Metrics,
         NEW ctx, ChoiceIsKnown(chosen, ctx), NEW c \in Selected(chosen, ctx)
  PROVE  TableOf[c] \in RequiredTables(chosen, ctx)
<1>1. \/ \E t \in ChosenTables(chosen, ctx) : c \in ChosenColumns(t, chosen, ctx)
      \/ \E m \in chosen.metrics : c \in Uses[m]
      \/ c \in ctx.exact
  BY DEF Selected
<1>2. CASE \E t \in ChosenTables(chosen, ctx) : c \in ChosenColumns(t, chosen, ctx)
  BY <1>2, ChosenColumnsAre DEF RequiredTables
<1>3. CASE \E m \in chosen.metrics : c \in Uses[m]
  <2>1. PICK m \in chosen.metrics : c \in Uses[m]
    BY <1>3
  <2>2. TableOf[c] = Base[m]
    BY <2>1, CatalogAssumption
  <2> QED  BY <2>2 DEF RequiredTables
<1>4. CASE c \in ctx.exact
  BY <1>4 DEF RequiredTables
<1> QED  BY <1>1, <1>2, <1>3, <1>4

\* Whatever is chosen, a context that is completed is usable.
LEMMA ReconcileIs ==
  ASSUME NEW chosen, chosen.tables \in Seq(Choice), NEW ctx, HasItsJoins(ctx),
         ctx.metrics \subseteq Metrics, NEW asked, NEW c \in Reconcile(chosen, ctx, asked)
  PROVE  Usable(c, asked) /\ c.metrics = chosen.metrics
<1>1. ChoiceIsKnown(chosen, ctx) /\ chosen.metrics \subseteq Metrics
  BY DEF Reconcile, ChoiceIsKnown
<1>2. PICK ways, related :
        /\ ways = Paths(chosen, ctx, asked) /\ Sought(chosen, ctx) \subseteq {w[1] : w \in ways}
        /\ related = UNION {w[2] : w \in ways} /\ c = Filtered(chosen, ctx, related)
  BY DEF Reconcile
<1>3. PICK joins, columns :
        /\ joins = UNION {{l.fromCol, l.toCol} : l \in related}
        /\ columns = Selected(chosen, ctx) \cup (joins \cap ctx.columns)
  OBVIOUS
<1>4. /\ c.tables = {TableOf[d] : d \in columns} /\ c.columns = columns
      /\ c.metrics = chosen.metrics /\ c.exact = ctx.exact
      /\ c.relationships = {l \in related : {l.from, l.to} \subseteq c.tables}
  BY <1>2, <1>3 DEF Filtered
<1>5. ASSUME NEW way \in ways
      PROVE  \E t \in Sought(chosen, ctx), m \in chosen.metrics, w \in Visited :
               way = <<t, w.path>> /\ w.table = t /\ IsWay(w, Base[m], ctx, asked)
  <2>0. PICK t \in Sought(chosen, ctx) :
          way \in {<<t, path>> : path \in PathsTo(t, chosen, ctx, asked)}
    BY <1>2 DEF Paths
  <2>1. PICK path \in PathsTo(t, chosen, ctx, asked) : way = <<t, path>>
    BY <2>0
  <2>2. PICK m \in chosen.metrics, w \in Visited :
          w.table = t /\ w.path = path /\ IsWay(w, Base[m], ctx, asked)
    BY <1>1, PathsAre
  <2> QED  BY <2>1, <2>2
<1>6. ASSUME NEW l \in related
      PROVE  /\ l \in ctx.relationships /\ l \in Relationships
             /\ l.to = DateTable /\ Meant(l.from, asked) # {} => l.fromCol \in Meant(l.from, asked)
             /\ TableOf[l.fromCol] = l.from /\ TableOf[l.toCol] = l.to
             /\ {l.fromCol, l.toCol} \subseteq columns /\ l \in c.relationships
  <2>1. PICK way \in ways : l \in way[2]
    BY <1>2
  <2>2. PICK t, m, w : way = <<t, w.path>> /\ IsWay(w, Base[m], ctx, asked)
    BY <1>5
  <2>3. l \in w.path
    BY <2>1, <2>2
  <2>4. /\ l \in ctx.relationships
        /\ l.to = DateTable /\ Meant(l.from, asked) # {} => l.fromCol \in Meant(l.from, asked)
    BY <2>2, <2>3 DEF IsWay
  <2>5. l \in Relationships /\ {l.from, l.to} \subseteq ctx.tables
    BY <2>4 DEF HasItsJoins
  <2>6. {l.fromCol, l.toCol} \subseteq Columns /\ TableOf[l.fromCol] = l.from /\ TableOf[l.toCol] = l.to
    BY <2>5, CatalogAssumption
  <2>7. {l.fromCol, l.toCol} \subseteq ctx.columns
    BY <2>5, <2>6 DEF HasItsJoins, ColumnsOf
  <2>8. {l.fromCol, l.toCol} \subseteq columns
    BY <1>3, <2>7
  <2>9. {l.from, l.to} \subseteq c.tables
    BY <1>4, <2>6, <2>8
  <2> QED  BY <1>4, <2>4, <2>5, <2>6, <2>8, <2>9
<1>7. MetricsAreComputable(c) /\ FiltersAreKept(c)
  <2>1. ctx.exact \subseteq columns /\ \A m \in chosen.metrics : Uses[m] \subseteq columns
    BY <1>3 DEF Selected
  <2>2. \A m \in chosen.metrics : Base[m] \in c.tables
    BY <1>1, <1>4, <2>1, BaseIs
  <2> QED  BY <1>4, <2>1, <2>2 DEF MetricsAreComputable, FiltersAreKept
<1>8. JoinsAreComplete(c) /\ DatesAreMeant(c, asked)
  BY <1>4, <1>6 DEF JoinsAreComplete, DatesAreMeant
<1>9. ASSUME NEW part \in SUBSET c.tables, c.metrics # {}, {Base[m] : m \in c.metrics} \subseteq part,
             \A l \in c.relationships : l.from \in part <=> l.to \in part
      PROVE  part = c.tables
  <2>1. ASSUME NEW way \in ways
        PROVE  way[1] \in part /\ \A l \in way[2] : l.from \in part /\ l.to \in part
    <3>1. PICK t \in Sought(chosen, ctx), m \in chosen.metrics, w \in Visited :
            way = <<t, w.path>> /\ w.table = t /\ IsWay(w, Base[m], ctx, asked)
      BY <1>5
    <3>2. Base[m] \in part
      BY <1>4, <1>9, <3>1
    <3>3. \A l \in w.path : l \in c.relationships
      BY <1>2, <1>6, <3>1
    <3>4. t \in part /\ \A l \in w.path : l.from \in part
      BY <1>9, <3>1, <3>2, <3>3 DEF IsWay
    <3> QED  BY <1>9, <3>1, <3>3, <3>4
  <2>2. ASSUME NEW t \in RequiredTables(chosen, ctx) PROVE t \in part
    <3>1. CASE t \in Sought(chosen, ctx)
      BY <1>2, <2>1, <3>1
    <3>2. CASE t \notin Sought(chosen, ctx)
      <4>1. From(t, chosen) = {}
        BY <3>2 DEF Sought
      <4>2. PICK m \in chosen.metrics : TRUE
        BY <1>4, <1>9
      <4>3. PICK n \in DOMAIN MetricOrder : MetricOrder[n] = m
        BY <1>1 DEF Metrics, ToSet
      <4>4. Base[m] = t
        BY <4>1, <4>3 DEF From
      <4> QED  BY <1>4, <1>9, <4>4
    <3> QED  BY <3>1, <3>2
  <2>3. ASSUME NEW d \in columns PROVE TableOf[d] \in part
    <3>1. CASE d \in Selected(chosen, ctx)
      BY <1>1, <2>2, <3>1, SelectedIs
    <3>2. CASE d \in joins
      <4>1. PICK l \in related : d \in {l.fromCol, l.toCol}
        BY <1>3, <3>2
      <4>2. l.from \in part /\ l.to \in part
        BY <1>2, <2>1
      <4> QED  BY <1>6, <4>1, <4>2
    <3> QED  BY <1>3, <3>1, <3>2
  <2> QED  BY <1>4, <2>3
<1>10. TablesAreJoined(c)
  BY <1>9 DEF TablesAreJoined
<1> QED  BY <1>4, <1>7, <1>8, <1>10 DEF Usable

(***************************************************************************)
(* The supersteps of the query graph, in their order.                      *)
(***************************************************************************)

Retrievers ==
  {"retrieve_columns", "retrieve_tables", "retrieve_metrics", "retrieve_dimension_values"}
Filters == {"filter_metric", "filter_table"}

BeforeMerge == {{"extract_keywords"}, Retrievers, {"merge_retrieved_info"}}
BeforeReconcile == {Filters, {"reconcile_filtered_context"}}
Reconciled ==
  {{"add_extra_context"}, {"generate_sql"}, {"execute_sql"}, {"enrich_query_result"}}
Supersteps == BeforeMerge \cup BeforeReconcile \cup Reconciled

\* The edges, each by where it begins.
LEMMA EdgeIs ==
  ASSUME NEW m, NEW n
  PROVE  <<m, n>> \in Edges <=>
           \/ m = "extract_keywords" /\ n \in Retrievers
           \/ m \in Retrievers /\ n = "merge_retrieved_info"
           \/ m = "merge_retrieved_info" /\ n \in Filters
           \/ m \in Filters /\ n = "reconcile_filtered_context"
           \/ m = "reconcile_filtered_context" /\ n = "add_extra_context"
           \/ m = "add_extra_context" /\ n = "generate_sql"
           \/ m = "generate_sql" /\ n = "execute_sql"
           \/ m = "execute_sql" /\ n = "enrich_query_result"
BY DEF Edges, Retrievers, Filters

\* The nodes a superstep triggers.
LEMMA AfterIs ==
  ASSUME NEW nodes, NEW n
  PROVE  n \in After(nodes) <=>
           \/ "extract_keywords" \in nodes /\ n \in Retrievers
           \/ nodes \cap Retrievers # {} /\ n = "merge_retrieved_info"
           \/ "merge_retrieved_info" \in nodes /\ n \in Filters
           \/ nodes \cap Filters # {} /\ n = "reconcile_filtered_context"
           \/ "reconcile_filtered_context" \in nodes /\ n = "add_extra_context"
           \/ "add_extra_context" \in nodes /\ n = "generate_sql"
           \/ "generate_sql" \in nodes /\ n = "execute_sql"
           \/ "execute_sql" \in nodes /\ n = "enrich_query_result"
<1>1. ASSUME NEW m, <<m, n>> \in Edges PROVE n \in {e[2] : e \in Edges}
  <2>1. <<m, n>>[2] = n
    OBVIOUS
  <2> QED  BY <1>1, <2>1
<1>2. n \in After(nodes) <=> \E m \in nodes : <<m, n>> \in Edges
  BY <1>1 DEF After
<1>3. \A m : <<m, n>> \in Edges <=>
           \/ m = "extract_keywords" /\ n \in Retrievers
           \/ m \in Retrievers /\ n = "merge_retrieved_info"
           \/ m = "merge_retrieved_info" /\ n \in Filters
           \/ m \in Filters /\ n = "reconcile_filtered_context"
           \/ m = "reconcile_filtered_context" /\ n = "add_extra_context"
           \/ m = "add_extra_context" /\ n = "generate_sql"
           \/ m = "generate_sql" /\ n = "execute_sql"
           \/ m = "execute_sql" /\ n = "enrich_query_result"
  BY EdgeIs, Zenon
<1>4. n \in After(nodes) <=> \E m \in nodes :
           \/ m = "extract_keywords" /\ n \in Retrievers
           \/ m \in Retrievers /\ n = "merge_retrieved_info"
           \/ m = "merge_retrieved_info" /\ n \in Filters
           \/ m \in Filters /\ n = "reconcile_filtered_context"
           \/ m = "reconcile_filtered_context" /\ n = "add_extra_context"
           \/ m = "add_extra_context" /\ n = "generate_sql"
           \/ m = "generate_sql" /\ n = "execute_sql"
           \/ m = "execute_sql" /\ n = "enrich_query_result"
  BY <1>2, <1>3, Zenon
<1>5. nodes \cap Retrievers # {} <=> \E m \in nodes : m \in Retrievers
  OBVIOUS
<1>6. nodes \cap Filters # {} <=> \E m \in nodes : m \in Filters
  OBVIOUS
<1> HIDE DEF Retrievers, Filters
<1> QED  BY <1>4, <1>5, <1>6, SMT

\* Each superstep triggers the next one.
LEMMA SuperstepsFollow ==
  /\ After({"extract_keywords"}) = Retrievers
  /\ After(Retrievers) = {"merge_retrieved_info"}
  /\ After({"merge_retrieved_info"}) = Filters
  /\ After(Filters) = {"reconcile_filtered_context"}
  /\ After({"reconcile_filtered_context"}) = {"add_extra_context"}
  /\ After({"add_extra_context"}) = {"generate_sql"}
  /\ After({"generate_sql"}) = {"execute_sql"}
  /\ After({"execute_sql"}) = {"enrich_query_result"}
  /\ After({"enrich_query_result"}) = {}
<1>1. After({"extract_keywords"}) = Retrievers
  <2>1. ASSUME NEW n PROVE n \in After({"extract_keywords"}) <=> n \in Retrievers
    BY AfterIs DEF Retrievers, Filters
  <2> QED  BY <2>1
<1>2. After(Retrievers) = {"merge_retrieved_info"}
  <2>1. ASSUME NEW n PROVE n \in After(Retrievers) <=> n \in {"merge_retrieved_info"}
    BY AfterIs DEF Retrievers, Filters
  <2> QED  BY <2>1
<1>3. After({"merge_retrieved_info"}) = Filters
  <2>1. ASSUME NEW n PROVE n \in After({"merge_retrieved_info"}) <=> n \in Filters
    BY AfterIs DEF Retrievers, Filters
  <2> QED  BY <2>1
<1>4. After(Filters) = {"reconcile_filtered_context"}
  <2>1. ASSUME NEW n PROVE n \in After(Filters) <=> n \in {"reconcile_filtered_context"}
    BY AfterIs DEF Retrievers, Filters
  <2> QED  BY <2>1
<1>5. After({"reconcile_filtered_context"}) = {"add_extra_context"}
  <2>1. ASSUME NEW n PROVE n \in After({"reconcile_filtered_context"}) <=> n \in {"add_extra_context"}
    BY AfterIs DEF Retrievers, Filters
  <2> QED  BY <2>1
<1>6. After({"add_extra_context"}) = {"generate_sql"}
  <2>1. ASSUME NEW n PROVE n \in After({"add_extra_context"}) <=> n \in {"generate_sql"}
    BY AfterIs DEF Retrievers, Filters
  <2> QED  BY <2>1
<1>7. After({"generate_sql"}) = {"execute_sql"}
  <2>1. ASSUME NEW n PROVE n \in After({"generate_sql"}) <=> n \in {"execute_sql"}
    BY AfterIs DEF Retrievers, Filters
  <2> QED  BY <2>1
<1>8. After({"execute_sql"}) = {"enrich_query_result"}
  <2>1. ASSUME NEW n PROVE n \in After({"execute_sql"}) <=> n \in {"enrich_query_result"}
    BY AfterIs DEF Retrievers, Filters
  <2> QED  BY <2>1
<1>9. After({"enrich_query_result"}) = {}
  <2>1. ASSUME NEW n PROVE n \in After({"enrich_query_result"}) <=> n \in {}
    BY AfterIs DEF Retrievers, Filters
  <2> QED  BY <2>1
<1> QED  BY <1>1, <1>2, <1>3, <1>4, <1>5, <1>6, <1>7, <1>8, <1>9

\* What a query holds apart from the context.
QueryShape(q) ==
  /\ DOMAIN q = DOMAIN NoQuery
  /\ "metrics" \in DOMAIN q.found /\ q.found.metrics \subseteq Metrics
  /\ DOMAIN q.chosen = {"metrics", "tables"} /\ q.chosen.tables \in Seq(Choice)

\* Its context is what the supersteps up to now make of it, and nothing is described yet.
QueryInv(q) ==
  /\ QueryShape(q) /\ DOMAIN q.described = {}
  /\ q.running # {} /\ (q.running \cup q.ended) \in Supersteps
  /\ (q.running \cup q.ended) \in BeforeReconcile => HasItsJoins(q.ctx) /\ q.ctx.metrics \subseteq Metrics
  /\ (q.running \cup q.ended) \in Reconciled =>
       Usable(q.ctx, input.asked) /\ q.ctx.metrics = q.chosen.metrics

\* Merging gives the context every join of its tables.
LEMMA MergeIs ==
  ASSUME NEW found
  PROVE  HasItsJoins(Merge(found)) /\ Merge(found).metrics = found.metrics
BY DEF Merge, HasItsJoins

\* What a node may write.
LEMMA WritesIs ==
  ASSUME input \in Inputs, NEW q, QueryInv(q), NEW n \in q.running, NEW p \in Writes(n, q)
  PROVE  /\ QueryShape(p) /\ p.running = q.running /\ p.ended = q.ended
         /\ n # "enrich_query_result" => DOMAIN p.described = {}
         /\ n \notin {"merge_retrieved_info", "reconcile_filtered_context"} => p.ctx = q.ctx
         /\ n \notin Filters => p.chosen = q.chosen
         /\ n = "merge_retrieved_info" => HasItsJoins(p.ctx) /\ p.ctx.metrics \subseteq Metrics
         /\ n = "reconcile_filtered_context" =>
              Usable(p.ctx, input.asked) /\ p.ctx.metrics = p.chosen.metrics
<1> DEFINE Fields == {"running", "ended", "ran", "ctx", "found", "chosen", "answer", "rows",
                      "truncated", "unmapped", "described"}
           Goal == /\ DOMAIN p = Fields
                   /\ "metrics" \in DOMAIN p.found /\ p.found.metrics \subseteq Metrics
                   /\ DOMAIN p.chosen = {"metrics", "tables"} /\ p.chosen.tables \in Seq(Choice)
                   /\ p.running = q.running /\ p.ended = q.ended
                   /\ n # "enrich_query_result" => DOMAIN p.described = {}
                   /\ n \notin {"merge_retrieved_info", "reconcile_filtered_context"} => p.ctx = q.ctx
                   /\ n \notin Filters => p.chosen = q.chosen
                   /\ n = "merge_retrieved_info" => HasItsJoins(p.ctx) /\ p.ctx.metrics \subseteq Metrics
                   /\ n = "reconcile_filtered_context" =>
                        Usable(p.ctx, input.asked) /\ p.ctx.metrics = p.chosen.metrics
<1>0. DOMAIN NoQuery = Fields
  BY DEF NoQuery
<1> SUFFICES Goal
  BY <1>0 DEF QueryShape
<1>1. /\ DOMAIN q = Fields /\ "metrics" \in DOMAIN q.found /\ q.found.metrics \subseteq Metrics
      /\ DOMAIN q.chosen = {"metrics", "tables"} /\ q.chosen.tables \in Seq(Choice)
      /\ DOMAIN q.described = {}
  BY <1>0 DEF QueryInv, QueryShape
<1>2. CASE n = "retrieve_columns"
  BY <1>1, <1>2 DEF Writes, RetrieveColumns
<1>3. CASE n = "retrieve_tables"
  BY <1>1, <1>3 DEF Writes, RetrieveTables
<1>4. CASE n = "retrieve_metrics"
  BY <1>1, <1>4, InputsAssumption DEF Writes, RetrieveMetrics
<1>5. CASE n = "retrieve_dimension_values"
  BY <1>1, <1>5 DEF Writes, RetrieveDimensionValues
<1>6. CASE n = "merge_retrieved_info"
  <2>1. p = [q EXCEPT !.ctx = Merge(q.found)]
    BY <1>6 DEF Writes, MergeRetrievedInfo
  <2> QED  BY <1>1, <1>6, <2>1, MergeIs
<1>7. CASE n = "filter_metric"
  BY <1>1, <1>7 DEF Writes, FilterMetric, Filters
<1>8. CASE n = "filter_table"
  <2>1. PICK tables : p = [q EXCEPT !.chosen.tables = tables]
                      /\ tables \in {<<>>} \cup input.chosenTables
    BY <1>8 DEF Writes, FilterTable
  <2>2. tables \in Seq(Choice)
    <3>1. input.chosenTables \subseteq Seq(Choice)
      BY InputsAssumption, Zenon DEF Choice
    <3>2. <<>> \in Seq(Choice)
      OBVIOUS
    <3> QED  BY <2>1, <3>1, <3>2, Zenon
  <2> QED  BY <1>1, <1>8, <2>1, <2>2 DEF Filters
<1>9. CASE n = "reconcile_filtered_context"
  <2>1. PICK c \in Reconcile(q.chosen, q.ctx, input.asked) : p = [q EXCEPT !.ctx = c]
    BY <1>9 DEF Writes, ReconcileFilteredContext
  <2>2. (q.running \cup q.ended) \in BeforeReconcile
    BY <1>9 DEF QueryInv, Supersteps, BeforeMerge, BeforeReconcile, Reconciled, Retrievers, Filters
  <2>3. HasItsJoins(q.ctx) /\ q.ctx.metrics \subseteq Metrics
    BY <2>2 DEF QueryInv
  <2>4. Usable(c, input.asked) /\ c.metrics = q.chosen.metrics
    BY <1>1, <2>1, <2>3, ReconcileIs
  <2> QED  BY <1>1, <1>9, <2>1, <2>4
<1>10. CASE n = "generate_sql"
  BY <1>1, <1>10 DEF Writes, GenerateSql
<1>11. CASE n = "execute_sql"
  BY <1>1, <1>11 DEF Writes, ExecuteSql
<1>12. CASE n = "enrich_query_result"
  BY <1>1, <1>12 DEF Writes, EnrichQueryResult
<1>13. CASE n \in {"extract_keywords", "add_extra_context"}
  BY <1>1, <1>13 DEF Writes
<1>14. n \in UNION Supersteps
  BY DEF QueryInv
<1> HIDE DEF Goal
<1> QED  BY <1>2, <1>3, <1>4, <1>5, <1>6, <1>7, <1>8, <1>9, <1>10, <1>11, <1>12, <1>13, <1>14
         DEF Supersteps, BeforeMerge, BeforeReconcile, Reconciled, Retrievers, Filters

\* The three kinds of supersteps are apart.
LEMMA Apart ==
  /\ BeforeMerge \cap BeforeReconcile = {} /\ BeforeMerge \cap Reconciled = {}
  /\ BeforeReconcile \cap Reconciled = {}
BY DEF BeforeMerge, BeforeReconcile, Reconciled, Retrievers, Filters

\* The last node of a superstep to end makes the next one begin.
LEMMA NodeEndsIs ==
  ASSUME input \in Inputs, NEW q, QueryInv(q), NEW n \in q.running, NEW p \in Writes(n, q),
         NEW left, left = p.running \ {n}, NEW ended, ended = p.ended \cup {n}, NEW r,
         \/ left # {} /\ r = [p EXCEPT !.running = left, !.ended = ended]
         \/ /\ left = {} /\ After(ended) # {}
            /\ r = [p EXCEPT !.running = After(ended), !.ended = {}, !.ran = @ \cup ended]
  PROVE  QueryInv(r)
<1> DEFINE Fields == {"running", "ended", "ran", "ctx", "found", "chosen", "answer", "rows",
                      "truncated", "unmapped", "described"}
<1>1. PICK w : w = q.running \cup q.ended
  OBVIOUS
<1>2. /\ w \in Supersteps
      /\ w \in BeforeReconcile => HasItsJoins(q.ctx) /\ q.ctx.metrics \subseteq Metrics
      /\ w \in Reconciled => Usable(q.ctx, input.asked) /\ q.ctx.metrics = q.chosen.metrics
      /\ n \in w
  BY <1>1 DEF QueryInv
<1>3. /\ QueryShape(p) /\ p.running = q.running /\ p.ended = q.ended
      /\ n # "enrich_query_result" => DOMAIN p.described = {}
      /\ n \notin {"merge_retrieved_info", "reconcile_filtered_context"} => p.ctx = q.ctx
      /\ n \notin Filters => p.chosen = q.chosen
      /\ n = "merge_retrieved_info" => HasItsJoins(p.ctx) /\ p.ctx.metrics \subseteq Metrics
      /\ n = "reconcile_filtered_context" =>
           Usable(p.ctx, input.asked) /\ p.ctx.metrics = p.chosen.metrics
  BY WritesIs
<1>31. DOMAIN p = Fields
  BY <1>3 DEF QueryShape, NoQuery
<1>32. n # "enrich_query_result"
  <2>1. SUFFICES ASSUME n = "enrich_query_result" PROVE FALSE
    OBVIOUS
  <2>2. w = {n}
    BY <1>2, <2>1 DEF Supersteps, BeforeMerge, BeforeReconcile, Reconciled, Retrievers, Filters
  <2>3. left = {} /\ ended = w
    BY <1>1, <1>3, <2>2
  <2> QED  BY <2>1, <2>2, <2>3, SuperstepsFollow
<1>4. /\ DOMAIN r = Fields /\ r.found = p.found /\ r.ctx = p.ctx /\ r.chosen = p.chosen
      /\ r.described = p.described
  BY <1>31
<1>41. QueryShape(r) /\ DOMAIN r.described = {}
  BY <1>3, <1>4, <1>31, <1>32 DEF QueryShape
<1>5. CASE left # {}
  <2>1. r.running = left /\ r.ended = ended
    BY <1>31, <1>5
  <2>2. r.running # {} /\ r.running \cup r.ended = w
    BY <1>1, <1>3, <1>5, <2>1
  <2>3. \E m \in w : m # n
    BY <1>1, <1>3, <1>5
  <2>4. w \in {Retrievers, Filters}
    BY <1>2, <2>3 DEF Supersteps, BeforeMerge, BeforeReconcile, Reconciled
  <2>5. n \notin {"merge_retrieved_info", "reconcile_filtered_context"} /\ w \notin Reconciled
    BY <1>2, <2>4 DEF Retrievers, Filters, Reconciled
  <2>6. r.ctx = q.ctx
    BY <1>3, <1>4, <2>5
  <2> QED  BY <1>2, <1>41, <2>2, <2>5, <2>6 DEF QueryInv
<1>6. CASE left = {}
  <2>1. r.running = After(ended) /\ r.ended = {} /\ After(ended) # {}
    BY <1>31, <1>6
  <2>2. ended = w
    BY <1>1, <1>3, <1>6
  <2>3. r.running \cup r.ended = After(w) /\ r.running # {}
    BY <2>1, <2>2
  <2>4. /\ After(w) \in Supersteps
        /\ After(w) \in BeforeReconcile => HasItsJoins(r.ctx) /\ r.ctx.metrics \subseteq Metrics
        /\ After(w) \in Reconciled =>
             Usable(r.ctx, input.asked) /\ r.ctx.metrics = r.chosen.metrics
    <3>1. CASE w = {"extract_keywords"} \/ w = Retrievers
      <4>1. After(w) \in BeforeMerge
        BY <3>1, SuperstepsFollow DEF BeforeMerge
      <4>2. After(w) \notin BeforeReconcile /\ After(w) \notin Reconciled
        BY <4>1, Apart
      <4> QED  BY <4>1, <4>2 DEF Supersteps
    <3>2. CASE w = {"merge_retrieved_info"}
      <4>1. After(w) \in BeforeReconcile
        BY <3>2, SuperstepsFollow DEF BeforeReconcile
      <4>2. After(w) \notin Reconciled
        BY <4>1, Apart
      <4>3. HasItsJoins(r.ctx) /\ r.ctx.metrics \subseteq Metrics
        BY <1>2, <1>3, <1>4, <3>2
      <4> QED  BY <4>1, <4>2, <4>3 DEF Supersteps
    <3>3. CASE w = Filters
      <4>1. After(w) \in BeforeReconcile
        BY <3>3, SuperstepsFollow DEF BeforeReconcile
      <4>2. After(w) \notin Reconciled
        BY <4>1, Apart
      <4>3. w \in BeforeReconcile /\ n \notin {"merge_retrieved_info", "reconcile_filtered_context"}
        BY <1>2, <3>3 DEF Filters, BeforeReconcile
      <4>4. HasItsJoins(r.ctx) /\ r.ctx.metrics \subseteq Metrics
        BY <1>2, <1>3, <1>4, <4>3
      <4> QED  BY <4>1, <4>2, <4>4 DEF Supersteps
    <3>4. CASE w = {"reconcile_filtered_context"}
      <4>1. After(w) \in Reconciled
        BY <3>4, SuperstepsFollow DEF Reconciled
      <4>2. After(w) \notin BeforeReconcile
        BY <4>1, Apart
      <4>3. n = "reconcile_filtered_context"
        BY <1>2, <3>4
      <4>4. Usable(r.ctx, input.asked) /\ r.ctx.metrics = r.chosen.metrics
        BY <1>3, <1>4, <4>3
      <4> QED  BY <4>1, <4>2, <4>4 DEF Supersteps
    <3>5. CASE w \in Reconciled
      <4>1. After(w) \in Reconciled
        BY <2>1, <2>2, <3>5, SuperstepsFollow DEF Reconciled
      <4>2. After(w) \notin BeforeReconcile
        BY <4>1, Apart
      <4>3. n \notin {"merge_retrieved_info", "reconcile_filtered_context"} /\ n \notin Filters
        BY <1>2, <3>5 DEF Reconciled, Filters
      <4>4. Usable(r.ctx, input.asked) /\ r.ctx.metrics = r.chosen.metrics
        BY <1>2, <1>3, <1>4, <3>5, <4>3
      <4> QED  BY <4>1, <4>2, <4>4 DEF Supersteps
    <3> QED  BY <1>2, <3>1, <3>2, <3>3, <3>4, <3>5
             DEF Supersteps, BeforeMerge, BeforeReconcile
  <2> QED  BY <1>41, <2>3, <2>4 DEF QueryInv
<1> QED  BY <1>5, <1>6

(***************************************************************************)
(* The queries of all tasks.                                               *)
(***************************************************************************)

\* What ResultIsTraceable says of one query.
Traceable(q) ==
  \A k \in DOMAIN q.described :
    q.described[k].role = "metric" /\ q.described[k].lineage = "matched" =>
      LET m == q.described[k].metric
          says == Declaring(k, q.answer)
          last == q.answer.columns[Max(says)]
      IN  /\ m \in q.chosen.metrics
          /\ says = {} \/ (last.metric = m /\ last.role # "derived_metric")

\* A result that is described as a metric is one the context confirms.
LEMMA DescribeIs ==
  ASSUME NEW k, NEW answer, NEW ctx, NEW d, d = Describe(k, Declared(answer), ctx),
         d.role = "metric", d.lineage = "matched"
  PROVE  LET says == Declaring(k, answer)
             last == answer.columns[Max(says)]
         IN  /\ d.metric \in ctx.metrics
             /\ says = {} \/ (last.metric = d.metric /\ last.role # "derived_metric")
<1>1. PICK declared, column, metric, role :
        /\ declared = Declared(answer)
        /\ column = SourceColumn(k, declared, ctx) /\ metric = SourceMetric(k, declared, ctx)
        /\ role = IF k \in DOMAIN declared THEN declared[k].role ELSE "unknown"
  OBVIOUS
<1>2. role # "derived_metric" /\ column = NoColumn /\ metric # NoMetric /\ d.metric = metric
  BY <1>1 DEF Describe
<1>3. PICK says, last : says = Declaring(k, answer) /\ last = answer.columns[Max(says)]
  OBVIOUS
<1>4. k \in DOMAIN declared <=> says # {}
  BY <1>1, <1>3 DEF Declared, Declaring
<1>5. CASE k \in DOMAIN declared
  <2>1. metric = declared[k].metric /\ metric \in ctx.metrics
    BY <1>1, <1>2, <1>5 DEF SourceMetric
  <2>2. declared[k] = Recovered(last)
    BY <1>1, <1>3, <1>5 DEF Declared
  <2>3. last.form \in {"valid", "bad filters"}
    <3>1. last.form \notin {"valid", "bad filters"} => declared[k] = Undeclared
      BY <2>2 DEF Recovered
    <3>2. Undeclared.metric = NoMetric
      BY DEF Undeclared
    <3> QED  BY <1>2, <2>1, <3>1, <3>2
  <2>4. last.metric = metric /\ last.role = role
    <3>1. declared[k] = [role |-> last.role, column |-> last.column, metric |-> last.metric]
      BY <2>2, <2>3 DEF Recovered
    <3>2. declared[k].role = last.role /\ declared[k].metric = last.metric
      BY <3>1
    <3> QED  BY <1>1, <1>5, <2>1, <3>2
  <2> QED  BY <1>2, <1>3, <2>1, <2>4
<1>6. CASE k \notin DOMAIN declared
  <2>1. metric \in ctx.metrics
    BY <1>1, <1>2, <1>6 DEF SourceMetric
  <2> QED  BY <1>2, <1>3, <1>4, <1>6, <2>1
<1> QED  BY <1>5, <1>6

\* Before the last node nothing is described; what the last one describes can be traced.
LEMMA WritesAreTraceable ==
  ASSUME input \in Inputs, NEW q, QueryInv(q), NEW n \in q.running, NEW p \in Writes(n, q)
  PROVE  Traceable(p)
<1>1. CASE n # "enrich_query_result"
  <2>1. DOMAIN p.described = {}
    BY <1>1, WritesIs
  <2> QED  BY <2>1 DEF Traceable
<1>2. CASE n = "enrich_query_result"
  <2>1. q.ctx.metrics = q.chosen.metrics
    <3>1. (q.running \cup q.ended) \in Reconciled
      BY <1>2 DEF QueryInv, Supersteps, BeforeMerge, BeforeReconcile, Retrievers, Filters
    <3> QED  BY <3>1 DEF QueryInv
  <2>2. "described" \in DOMAIN q
    BY DEF QueryInv, QueryShape, NoQuery
  <2>3. PICK unmapped : p = [q EXCEPT !.unmapped = unmapped, !.described = ResultColumns(q)]
    BY <1>2 DEF Writes, EnrichQueryResult
  <2>4. /\ p.described = ResultColumns(q)
        /\ p.chosen = q.chosen /\ p.answer = q.answer
    BY <2>2, <2>3
  <2>5. ASSUME NEW k \in DOMAIN p.described, p.described[k].role = "metric",
               p.described[k].lineage = "matched"
        PROVE  LET m == p.described[k].metric
                   says == Declaring(k, p.answer)
                   last == p.answer.columns[Max(says)]
               IN  /\ m \in p.chosen.metrics
                   /\ says = {} \/ (last.metric = m /\ last.role # "derived_metric")
    <3>1. p.described[k] = Describe(k, Declared(q.answer), q.ctx)
      BY <2>4, <2>5 DEF ResultColumns
    <3> QED  BY <2>1, <2>4, <2>5, <3>1, DescribeIs
  <2> QED  BY <2>5 DEF Traceable
<1> QED  BY <1>1, <1>2

\* Where a task is: before its query it has none, during it the query is sound; what its
\* query describes can be traced ever after.
AskInv(t) ==
  /\ task[t].pc \in {"idle", "depend", "resolve"} => task[t].query = NoQuery
  /\ task[t].pc = "query" => QueryInv(task[t].query)
  /\ Traceable(task[t].query)

QueriesInv == \A t \in Tasks : AskInv(t)

\* A query begins with nothing found.
LEMMA NoQueryIs == QueryInv(NoQuery) /\ Traceable(NoQuery)
<1>1. /\ NoQuery.running = {"extract_keywords"} /\ NoQuery.ended = {}
      /\ NoQuery.found.metrics = {} /\ "metrics" \in DOMAIN NoQuery.found
      /\ DOMAIN NoQuery.chosen = {"metrics", "tables"} /\ NoQuery.chosen.tables = <<>>
      /\ NoQuery.described = << >>
  BY DEF NoQuery
<1>2. {"extract_keywords"} \in BeforeMerge
  BY DEF BeforeMerge
<1>3. {"extract_keywords"} \notin BeforeReconcile /\ {"extract_keywords"} \notin Reconciled
  BY <1>2, Apart
<1>4. NoQuery.running \cup NoQuery.ended = {"extract_keywords"} /\ NoQuery.running # {}
  BY <1>1
<1>5. << >> \in Seq(Choice) /\ DOMAIN << >> = {}
  OBVIOUS
<1>6. QueryShape(NoQuery)
  BY <1>1, <1>5 DEF QueryShape
<1> QED  BY <1>1, <1>2, <1>3, <1>4, <1>5, <1>6 DEF QueryInv, Supersteps, Traceable

\* A step of one task changes that task's query only.
LEMMA AskKeeps ==
  ASSUME Inv, QueriesInv, NEW t \in Tasks, NEW new, task' = [task EXCEPT ![t] = new],
         UNCHANGED input,
         new.pc \in {"idle", "depend", "resolve"} => new.query = NoQuery,
         new.pc = "query" => QueryInv(new.query), Traceable(new.query)
  PROVE  QueriesInv'
<1>1. \A u \in Tasks : task'[u] = IF u = t THEN new ELSE task[u]
  BY DEF Inv
<1>2. ASSUME NEW u \in Tasks PROVE AskInv(u)'
  <2>1. \A q : QueryInv(q)' <=> QueryInv(q)
    BY DEF QueryInv, QueryShape
  <2>2. \A q : Traceable(q)' <=> Traceable(q)
    BY DEF Traceable
  <2> QED  BY <1>1, <2>1, <2>2 DEF QueriesInv, AskInv
<1> QED  BY <1>2 DEF QueriesInv

\* A task that ends has no query under way.
LEMMA EndingAsks ==
  ASSUME Inv, QueriesInv, UNCHANGED input, NEW t \in Tasks, NEW status, End(t, status)
  PROVE  QueriesInv'
<1>1. PICK new : new = [pc |-> "ended", query |-> task[t].query,
         outcome |-> [status |-> status, truncated |-> task[t].query.truncated,
                      unmapped |-> task[t].query.unmapped,
                      described |-> task[t].query.described]]
  OBVIOUS
<1>2. task' = [task EXCEPT ![t] = new]
  BY <1>1 DEF End
<1>3. new.pc = "ended" /\ new.query = task[t].query
  BY <1>1
<1>4. Traceable(new.query)
  BY <1>3 DEF QueriesInv, AskInv
<1> QED  BY <1>2, <1>3, <1>4, AskKeeps

\* A task that goes on keeps its query, which is none where the query begins.
LEMMA GotoAsks ==
  ASSUME Inv, QueriesInv, UNCHANGED input, NEW t \in Tasks, NEW pc, Goto(t, pc),
         \/ pc \in {"resolve", "query"} /\ task[t].pc \in {"depend", "resolve"}
         \/ pc = "calculate"
  PROVE  QueriesInv'
<1>1. PICK new : new = [task[t] EXCEPT !.pc = pc]
  OBVIOUS
<1>2. task' = [task EXCEPT ![t] = new]
  BY <1>1 DEF Goto
<1>3. {"pc", "query"} \subseteq DOMAIN task[t] /\ AskInv(t)
  BY DEF Inv, TaskInv, QueriesInv
<1>4. new.pc = pc /\ new.query = task[t].query
  BY <1>1, <1>3
<1>5. pc # "calculate" => new.query = NoQuery
  BY <1>3, <1>4 DEF AskInv
<1>6. Traceable(new.query)
  BY <1>3, <1>4 DEF AskInv
<1> QED  BY <1>2, <1>4, <1>5, <1>6, AskKeeps, NoQueryIs

\* A node of the query graph ends.
LEMMA NodeEndsAsks ==
  ASSUME Inv, QueriesInv, UNCHANGED input, NEW t \in Tasks, NodeEnds(t)
  PROVE  QueriesInv'
<1>1. PICK old : old = task[t].query
  OBVIOUS
<1>2. QueryInv(old) /\ {"pc", "query"} \subseteq DOMAIN task[t] /\ input \in Inputs
  BY <1>1 DEF NodeEnds, At, QueriesInv, AskInv, Inv, TaskInv, PlanInv
<1>0. PICK n \in old.running : \E q \in Writes(n, old) :
        LET left == q.running \ {n}
            ended == q.ended \cup {n}
            next == After(ended)
        IN  task' = [task EXCEPT
              ![t].query = IF left # {} THEN [q EXCEPT !.running = left, !.ended = ended]
                           ELSE [q EXCEPT !.running = next, !.ended = {}, !.ran = @ \cup ended],
              ![t].pc = IF left = {} /\ next = {} THEN "rows" ELSE "query"]
  BY <1>1 DEF NodeEnds
<1>3. PICK q \in Writes(n, old) :
        LET left == q.running \ {n}
            ended == q.ended \cup {n}
            next == After(ended)
        IN  task' = [task EXCEPT
              ![t].query = IF left # {} THEN [q EXCEPT !.running = left, !.ended = ended]
                           ELSE [q EXCEPT !.running = next, !.ended = {}, !.ran = @ \cup ended],
              ![t].pc = IF left = {} /\ next = {} THEN "rows" ELSE "query"]
  BY <1>0
<1>4. PICK left, ended : left = q.running \ {n} /\ ended = q.ended \cup {n}
  OBVIOUS
<1>5. PICK query, pc :
        /\ query = IF left # {} THEN [q EXCEPT !.running = left, !.ended = ended]
                   ELSE [q EXCEPT !.running = After(ended), !.ended = {}, !.ran = @ \cup ended]
        /\ pc = IF left = {} /\ After(ended) = {} THEN "rows" ELSE "query"
  OBVIOUS
<1>6. task' = [task EXCEPT ![t].query = query, ![t].pc = pc]
  BY <1>3, <1>4, <1>5
<1>7. PICK new : new = [task[t] EXCEPT !.query = query, !.pc = pc]
  OBVIOUS
<1>8. task' = [task EXCEPT ![t] = new]
  BY <1>6, <1>7 DEF Inv
<1>9. new.pc = pc /\ new.query = query
  BY <1>2, <1>7
<1>10. pc \in {"rows", "query"}
  BY <1>5
<1>11. ASSUME pc = "query" PROVE QueryInv(query)
  <2>1. left # {} \/ After(ended) # {}
    BY <1>5, <1>11
  <2>2. CASE left # {}
    BY <1>2, <1>4, <1>5, <2>2, NodeEndsIs
  <2>3. CASE left = {}
    BY <1>2, <1>4, <1>5, <2>1, <2>3, NodeEndsIs
  <2> QED  BY <2>2, <2>3
<1>12. Traceable(query)
  <2>1. Traceable(q)
    BY <1>2, <1>3, WritesAreTraceable
  <2>2. DOMAIN q = DOMAIN NoQuery
    BY <1>2, <1>3, WritesIs DEF QueryShape
  <2>3. query.described = q.described /\ query.chosen = q.chosen /\ query.answer = q.answer
    BY <1>5, <2>2 DEF NoQuery
  <2> QED  BY <2>1, <2>3 DEF Traceable
<1> QED  BY <1>8, <1>9, <1>10, <1>11, <1>12, AskKeeps

\* A layer begins with tasks that have no query yet.
LEMMA StartAsks ==
  ASSUME Inv, QueriesInv, UNCHANGED input, StartLayer
  PROVE  QueriesInv'
<1>0. \A q : (QueryInv(q)' <=> QueryInv(q)) /\ (Traceable(q)' <=> Traceable(q))
  BY DEF QueryInv, QueryShape, Traceable
<1>1. CASE UNCHANGED task
  BY <1>0, <1>1 DEF QueriesInv, AskInv
<1>2. CASE task' = [t \in Tasks |-> IF t \in Ready THEN [task[t] EXCEPT !.pc = "depend"]
                                                   ELSE task[t]]
  <2>1. ASSUME NEW t \in Tasks, t \in Ready PROVE AskInv(t)'
    <3>1. task[t].pc = "idle" /\ {"pc", "query"} \subseteq DOMAIN task[t]
      BY <2>1 DEF StartLayer, Inv, TaskInv, Ready, Pending
    <3>2. task'[t] = [task[t] EXCEPT !.pc = "depend"]
      BY <1>2, <2>1
    <3>3. task'[t].pc = "depend" /\ task'[t].query = task[t].query
      BY <3>1, <3>2
    <3> QED  BY <1>0, <2>1, <3>1, <3>3 DEF QueriesInv, AskInv
  <2>2. ASSUME NEW t \in Tasks, t \notin Ready PROVE AskInv(t)'
    <3>1. task'[t] = task[t]
      BY <1>2, <2>2
    <3> QED  BY <1>0, <3>1 DEF QueriesInv, AskInv
  <2> QED  BY <2>1, <2>2 DEF QueriesInv
<1> QED  BY <1>1, <1>2 DEF StartLayer

\* Every step of the analysis.
LEMMA QueriesStep ==
  ASSUME Inv, QueriesInv, [Next]_vars
  PROVE  QueriesInv'
<1>0. UNCHANGED input
  BY DEF Next, Work, vars, PlanAnalysis, StartLayer, EndLayer, PublishEvidence, TaskStep, Cancel
<1>1. CASE UNCHANGED task
  <2>1. \A q : (QueryInv(q)' <=> QueryInv(q)) /\ (Traceable(q)' <=> Traceable(q))
    BY <1>0 DEF QueryInv, QueryShape, Traceable
  <2> QED  BY <1>1, <2>1 DEF QueriesInv, AskInv
<1>2. CASE UNCHANGED vars
  BY <1>1, <1>2 DEF vars
<1>3. CASE PlanAnalysis \/ EndLayer \/ PublishEvidence \/ Cancel
  BY <1>1, <1>3 DEF PlanAnalysis, EndLayer, PublishEvidence, Cancel
<1>4. CASE StartLayer
  BY <1>0, <1>4, StartAsks
<1>5. ASSUME NEW t \in Tasks, TaskStep(t) PROVE QueriesInv'
  <2>1. CASE CheckDependencies(t)
    <3>1. task[t].pc = "depend"
      BY <2>1 DEF CheckDependencies, At
    <3>2. End(t, "failed") \/ Goto(t, "query") \/ Goto(t, "resolve")
      BY <2>1 DEF CheckDependencies, Failing
    <3> QED  BY <1>0, <3>1, <3>2, EndingAsks, GotoAsks
  <2>2. CASE ResolveQuestion(t)
    <3>1. task[t].pc = "resolve" /\ (End(t, "failed") \/ Goto(t, "query"))
      BY <2>2 DEF ResolveQuestion, AskModel, At, Failing
    <3> QED  BY <1>0, <3>1, EndingAsks, GotoAsks
  <2>3. CASE NodeEnds(t)
    BY <1>0, <2>3, NodeEndsAsks
  <2>4. CASE NodeFails(t)
    <3>1. PICK new : new = [pc |-> "ended", query |-> NoQuery,
            outcome |-> [status |-> "failed", truncated |-> FALSE, unmapped |-> FALSE,
                         described |-> << >>]]
      OBVIOUS
    <3>2. task' = [task EXCEPT ![t] = new]
      BY <2>4, <3>1 DEF NodeFails
    <3>3. new.pc = "ended" /\ new.query = NoQuery
      BY <3>1
    <3> QED  BY <1>0, <3>2, <3>3, AskKeeps, NoQueryIs
  <2>5. CASE WriteCode(t)
    <3>1. End(t, "failed") \/ Goto(t, "calculate")
      BY <2>5 DEF WriteCode, AskModel, Failing
    <3> QED  BY <1>0, <3>1, EndingAsks, GotoAsks
  <2>6. CASE Calculate(t)
    <3>1. End(t, "failed") \/ End(t, "success")
      BY <2>6 DEF Calculate, Failing
    <3> QED  BY <1>0, <3>1, EndingAsks
  <2> QED  BY <1>5, <2>1, <2>2, <2>3, <2>4, <2>5, <2>6 DEF TaskStep
<1> QED  BY <1>1, <1>2, <1>3, <1>4, <1>5 DEF Next, Work

\* The queries keep their invariant.
LEMMA QueriesInvariant == Spec => []QueriesInv
<1>1. Init => QueriesInv
  BY NoQueryIs DEF Init, Idle, QueriesInv, AskInv
<1>2. Inv /\ QueriesInv /\ [Next]_vars => QueriesInv'
  BY QueriesStep
<1> QED  BY <1>1, <1>2, Invariant, PTL DEF Spec

\* Whatever retrieval found and the models chose of it, the context SQL is generated from
\* can compute each chosen metric, keeps every exact filter value, has the columns of its
\* joins, joins every table to a metric's, and a fact to the dates by one that is meant.
THEOREM GeneratedFromUsable == Spec => []ContextIsUsable
<1>1. QueriesInv => ContextIsUsable
  <2>1. ASSUME QueriesInv, NEW t \in Tasks, task[t].pc = "query",
               task[t].query.running = {"generate_sql"}
        PROVE  Usable(task[t].query.ctx, input.asked)
    <3>1. PICK q : q = task[t].query
      OBVIOUS
    <3>2. QueryInv(q) /\ "generate_sql" \in q.running \cup q.ended
      BY <2>1, <3>1 DEF QueriesInv, AskInv
    <3>3. q.running \cup q.ended \in Reconciled
      BY <3>2 DEF QueryInv, Supersteps, BeforeMerge, BeforeReconcile, Retrievers, Filters
    <3> QED  BY <3>1, <3>2, <3>3 DEF QueryInv
  <2> QED  BY <2>1 DEF ContextIsUsable, Generates, Usable
<1> QED  BY <1>1, QueriesInvariant, PTL

\* Whatever the model declares and however it names its columns, a result passes for a
\* catalog metric only if that metric was chosen and the SQL declared it, or nothing.
THEOREM MetricsAreTraceable == Spec => []ResultIsTraceable
<1>1. QueriesInv => ResultIsTraceable
  BY DEF QueriesInv, AskInv, Traceable, ResultIsTraceable
<1> QED  BY <1>1, QueriesInvariant, PTL
=============================================================================
