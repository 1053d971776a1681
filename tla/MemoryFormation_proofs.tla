----------------------- MODULE MemoryFormation_proofs -----------------------
(***************************************************************************)
(* Proofs about MemoryFormation for any number of turns, callers and       *)
(* faults, whatever the LLM proposes.                                      *)
(***************************************************************************)
EXTENDS MemoryFormation, TLAPS

(***************************************************************************)
(* The inductive invariant.                                                *)
(***************************************************************************)

Busy(c) == caller[c].pc # "idle"

Named(decisions) == {decisions[i].id : i \in DOMAIN decisions} \ {0}
Flawless(decisions) == \A i \in DOMAIN decisions : decisions[i].action # "failed"

\* A task works on a turn that is claimed and wanted.  Its decisions name what the
\* turn has left so far.  When the record is over, it only has to be closed.
TaskInv(c) ==
  Busy(c) =>
    /\ form[Turn(c)] # NoForm
    /\ Trigger(input[Turn(c)]) # "skipped"
    /\ Status(Turn(c)) \in Over =>
         At(c, "failed") /\ form[Turn(c)].decisions = caller[c].decisions
    /\ Named(caller[c].decisions) \subseteq Formed(Turn(c))
    /\ Flawless(caller[c].decisions) => Formed(Turn(c)) = Named(caller[c].decisions)
    /\ At(c, "write") => caller[c].todo # <<>> /\ Candidate(c).fit

\* One task per turn: the claim.
OneTask ==
  \A c, d \in Callers : Busy(c) /\ Busy(d) /\ Turn(c) = Turn(d) => c = d

\* A turn that is not claimed has left nothing; one that is over, what its record says.
FormInv(t) ==
  /\ form[t] = NoForm => Formed(t) = {}
  /\ Status(t) \in Over => Named(form[t].decisions) \subseteq Formed(t)
  /\ Status(t) \in {"completed", "skipped"} => Formed(t) = Named(form[t].decisions)

Inv ==
  /\ TypeOK
  /\ OneTask
  /\ OnlyWhatMayBeStored
  /\ \A c \in Callers : TaskInv(c)
  /\ \A t \in Turns : FormInv(t)

\* What a step may not do to a turn that is over.
Kept(t) ==
  Status(t) \in Over =>
    /\ Status(t)' \in Over
    /\ form'[t].decisions = form[t].decisions
    /\ Formed(t)' = Formed(t)

\* A step of one task, on one turn.
LEMMA StepOf ==
  ASSUME Inv, NEW c \in Callers, NEW t \in Turns,
         TypeOK', input' = input,
         \A d \in Callers \ {c} : caller'[d] = caller[d],
         \A d \in Callers \ {c} : Busy(d) => Turn(d) # t,
         \A u \in Turns \ {t} : form'[u] = form[u] /\ Formed(u)' = Formed(u),
         Busy(c)' => Turn(c)' = t,
         TaskInv(c)', FormInv(t)', OnlyWhatMayBeStored', Kept(t)
  PROVE  Inv' /\ \A u \in Turns : Kept(u)
<1>1. ASSUME NEW d \in Callers \ {c} PROVE TaskInv(d)'
  <2>1. TaskInv(d) /\ caller'[d] = caller[d] /\ (Busy(d)' <=> Busy(d))
    BY DEF Inv, Busy
  <2>2. CASE Busy(d)
    <3>1. Turn(d) \in Turns \ {t} /\ Turn(d)' = Turn(d)
      <4>1. caller[d] \in Task
        BY <2>2 DEF Inv, TypeOK, Busy, Idle
      <4> QED  BY <2>1, <2>2, <4>1 DEF Task, Turn
    <3>2. form'[Turn(d)] = form[Turn(d)] /\ Formed(Turn(d))' = Formed(Turn(d))
      BY <3>1 DEF Formed
    <3> QED  BY <2>1, <3>1, <3>2 DEF TaskInv, Status, Candidate, At
  <2> QED  BY <2>1, <2>2 DEF TaskInv
<1>2. OneTask'
  BY DEF Inv, OneTask, Busy, Turn
<1>3. ASSUME NEW u \in Turns \ {t} PROVE FormInv(u)' /\ Kept(u)
  BY DEF Inv, FormInv, Kept, Status
<1> QED  BY <1>1, <1>2, <1>3 DEF Inv

(***************************************************************************)
(* The claim.                                                              *)
(***************************************************************************)

\* The record of a claim.
LEMMA NewFormIs ==
  ASSUME NEW in
  PROVE  /\ NewForm(in) \in Form /\ NewForm(in).decisions = <<>>
         /\ NewForm(in).status \in Over <=> Trigger(in) = "skipped"
         /\ NewForm(in).status # "completed"
<1>1. NewForm(in).status \in Statuses /\ <<>> \in Seq(Decision)
  BY DEF NewForm, Statuses
<1> QED  BY <1>1 DEF NewForm, Form, Over

\* A claim begins a task that has decided nothing, or none.
LEMMA ClaimKeeps ==
  ASSUME Inv, NEW c \in Callers, NEW t \in Turns, At(c, "idle"), form[t] = NoForm,
         form' = [form EXCEPT ![t] = NewForm(input[t])],
         \/ caller' = caller
         \/ caller' = [caller EXCEPT ![c] =
              IF Trigger(input[t]) = "skipped" THEN Idle ELSE Begin(t)],
         UNCHANGED <<input, rows, sources>>,
         lost' \subseteq Turns /\ deleted' \in BOOLEAN
  PROVE  Inv' /\ \A u \in Turns : Kept(u)
<1>1. \A d \in Callers : Busy(d) => Turn(d) # t
  BY DEF Inv, TaskInv
<1>2. /\ form' \in [Turns -> Form \cup {NoForm}] /\ form'[t] = NewForm(input[t])
      /\ \A u \in Turns \ {t} : form'[u] = form[u]
  BY NewFormIs DEF Inv, TypeOK
<1>3. Begin(t) \in Task /\ Begin(t).pc = "begin" /\ Begin(t).turn = t
      /\ Begin(t).decisions = <<>>
  <2>1. <<>> \in Seq(Said) /\ <<>> \in Seq(Decision)
    OBVIOUS
  <2> QED  BY <2>1 DEF Begin, Task
<1>4. /\ caller' \in [Callers -> Task \cup {Idle}]
      /\ \A d \in Callers \ {c} : caller'[d] = caller[d]
      /\ \/ caller'[c].pc = "idle"
         \/ caller'[c] = Begin(t) /\ Trigger(input[t]) # "skipped"
  BY <1>3, SMTT(60) DEF Inv, TypeOK, Idle, At
<1>5. TypeOK'
  BY <1>2, <1>4 DEF Inv, TypeOK
<1>6. \A u \in Turns : Formed(u)' = Formed(u)
  BY DEF Formed
<1>7. Formed(t)' = {}
  BY <1>6 DEF Inv, FormInv
<1>8. Named(<<>>) = {}
  BY DEF Named
<1>9. NewForm(input[t]) # NoForm
  BY NewFormIs, FormationAssumption
<1>10. TaskInv(c)'
  <2>1. CASE caller'[c].pc = "idle"
    BY <2>1 DEF TaskInv, Busy
  <2>2. CASE caller'[c] = Begin(t) /\ Trigger(input[t]) # "skipped"
    BY <1>2, <1>3, <1>7, <1>8, <1>9, <2>2, NewFormIs, ZenonT(60) DEF TaskInv, Turn, At, Status
  <2> QED  BY <1>4, <2>1, <2>2
<1>11. FormInv(t)'
  BY <1>2, <1>7, <1>8, <1>9, NewFormIs DEF FormInv, Status
<1>12. OnlyWhatMayBeStored'
  BY ZenonT(60) DEF Inv, OnlyWhatMayBeStored
<1>13. Kept(t)
  BY DEF Kept, Status, Over
<1>14. Busy(c)' => Turn(c)' = t
  BY <1>3, <1>4 DEF Busy, Turn
<1> QED  BY <1>1, <1>2, <1>4, <1>5, <1>6, <1>10, <1>11, <1>12, <1>13, <1>14, StepOf

(***************************************************************************)
(* The task: one lemma per step.                                           *)
(***************************************************************************)

\* What is plain of a task.
LEMMA TaskFacts ==
  ASSUME Inv, NEW c \in Callers, Busy(c)
  PROVE  /\ caller[c] \in Task /\ Turn(c) \in Turns
         /\ form[Turn(c)] \in Form /\ form[Turn(c)] # NoForm
         /\ Trigger(input[Turn(c)]) # "skipped"
         /\ Status(Turn(c)) \in Over =>
              At(c, "failed") /\ form[Turn(c)].decisions = caller[c].decisions
         /\ Named(caller[c].decisions) \subseteq Formed(Turn(c))
         /\ Flawless(caller[c].decisions) => Formed(Turn(c)) = Named(caller[c].decisions)
         /\ At(c, "write") => caller[c].todo # <<>> /\ Candidate(c).fit
         /\ \A d \in Callers \ {c} : Busy(d) => Turn(d) # Turn(c)
<1>1. caller[c] \in Task
  BY DEF Inv, TypeOK, Busy, Idle
<1>2. Turn(c) \in Turns
  BY <1>1 DEF Task, Turn
<1>3. TaskInv(c) /\ form[Turn(c)] \in Form \cup {NoForm}
  BY <1>2 DEF Inv, TypeOK
<1> QED  BY <1>1, <1>2, <1>3 DEF TaskInv, Inv, OneTask

\* What a step of t's task may make of it and of the record: nothing more is named than
\* t has left, and a record that is over stays.
Agree(t, x, f) ==
  /\ x.pc # "idle" =>
       /\ x.turn = t
       /\ f.status \in Over => x.pc = "failed" /\ f.decisions = x.decisions
       /\ Named(x.decisions) \subseteq Formed(t)
       /\ Flawless(x.decisions) => Formed(t) = Named(x.decisions)
       /\ x.pc = "write" => x.todo # <<>> /\ Head(x.todo).fit
  /\ f.status \in Over => Named(f.decisions) \subseteq Formed(t)
  /\ f.status \in {"completed", "skipped"} => Formed(t) = Named(f.decisions)
  /\ Status(t) \in Over => f.status \in Over /\ f.decisions = form[t].decisions

\* A step of a task that stores nothing.
LEMMA TaskMoves ==
  ASSUME Inv, NEW c \in Callers, Busy(c), NEW t, t = Turn(c),
         NEW x \in Task \cup {Idle}, NEW f \in Form,
         caller' = [caller EXCEPT ![c] = x], form' = [form EXCEPT ![t] = f],
         UNCHANGED <<input, rows, sources>>,
         lost' \subseteq Turns /\ deleted' \in BOOLEAN, Agree(t, x, f)
  PROVE  Inv' /\ \A u \in Turns : Kept(u)
<1>1. /\ t \in Turns /\ form[t] # NoForm /\ Trigger(input[t]) # "skipped"
      /\ \A d \in Callers \ {c} : Busy(d) => Turn(d) # t
  BY TaskFacts
<1>2. /\ form'[t] = f /\ form' \in [Turns -> Form \cup {NoForm}]
      /\ \A u \in Turns \ {t} : form'[u] = form[u]
  BY <1>1 DEF Inv, TypeOK
<1>3. /\ caller'[c] = x /\ caller' \in [Callers -> Task \cup {Idle}]
      /\ \A d \in Callers \ {c} : caller'[d] = caller[d]
  BY DEF Inv, TypeOK
<1>4. TypeOK'
  BY <1>2, <1>3 DEF Inv, TypeOK
<1>5. f # NoForm
  BY FormationAssumption
<1>6. \A u \in Turns : Formed(u)' = Formed(u)
  BY DEF Formed
<1>7. Busy(c)' => Turn(c)' = t
  BY <1>3 DEF Busy, Turn, Agree
<1>8. Turn(c)' = t => Formed(Turn(c))' = Formed(t)
  BY <1>1, <1>6 DEF Formed
<1>9. TaskInv(c)'
  <2>1. CASE x.pc = "idle"
    BY <1>3, <2>1 DEF TaskInv, Busy
  <2>2. CASE x.pc # "idle"
    <3>1. Turn(c)' = t /\ Candidate(c)' = Head(x.todo) /\ caller'[c].decisions = x.decisions
      BY <1>3, <2>2 DEF Turn, Candidate, Agree
    <3>2. form'[t].status \in Over => x.pc = "failed" /\ form'[t].decisions = x.decisions
      BY <1>2, <2>2 DEF Agree
    <3> QED  BY <1>1, <1>2, <1>3, <1>5, <1>8, <2>2, <3>1, <3>2 DEF TaskInv, At, Status, Agree
  <2> QED  BY <2>1, <2>2
<1>10. FormInv(t)'
  <2>1. Formed(t)' = Formed(t)
    BY <1>1, <1>6
  <2> QED  BY <1>2, <1>5, <2>1 DEF FormInv, Status, Agree
<1>11. OnlyWhatMayBeStored'
  BY DEF Inv, OnlyWhatMayBeStored
<1>12. Kept(t)
  BY <1>1, <1>2, <1>5, <1>6 DEF Kept, Status, Agree
<1> QED  BY <1>1, <1>2, <1>3, <1>4, <1>6, <1>7, <1>9, <1>10, <1>11, <1>12, StepOf

\* A step that only takes the task on, as a record.
LEMMA GoesTo ==
  ASSUME Inv, NEW c \in Callers, Busy(c), NEW pc \in {"extract", "candidates", "write", "failed"},
         Go(c, pc)
  PROVE  \E x \in Task :
           /\ caller' = [caller EXCEPT ![c] = x]
           /\ x.pc = pc /\ x.turn = Turn(c) /\ x.todo = caller[c].todo
           /\ x.decisions = caller[c].decisions
<1>1. PICK old : old = caller[c]
  OBVIOUS
<1>2. old \in Task /\ old.turn = Turn(c)
  BY <1>1, TaskFacts DEF Turn
<1>3. PICK x : x = [old EXCEPT !.pc = pc]
  OBVIOUS
<1>4. x \in Task
  BY <1>2, <1>3 DEF Task
<1>5. x.pc = pc /\ x.turn = old.turn /\ x.todo = old.todo /\ x.decisions = old.decisions
  BY <1>2, <1>3 DEF Task
<1> QED  BY <1>1, <1>2, <1>3, <1>4, <1>5 DEF Go

\* The same with the candidates the extractor found.
LEMMA ExtractedIs ==
  ASSUME Inv, NEW c \in Callers, Busy(c), NEW todo \in Seq(Said), Extracted(c, todo)
  PROVE  \E x \in Task :
           /\ caller' = [caller EXCEPT ![c] = x]
           /\ x.pc = "candidates" /\ x.turn = Turn(c) /\ x.todo = todo
           /\ x.decisions = caller[c].decisions
<1>1. PICK old : old = caller[c]
  OBVIOUS
<1>2. old \in Task /\ old.turn = Turn(c)
  BY <1>1, TaskFacts DEF Turn
<1>3. PICK x : x = [old EXCEPT !.pc = "candidates", !.todo = todo]
  OBVIOUS
<1>4. x \in Task
  BY <1>2, <1>3 DEF Task
<1>5. x.pc = "candidates" /\ x.turn = old.turn /\ x.todo = todo /\ x.decisions = old.decisions
  BY <1>2, <1>3 DEF Task
<1> QED  BY <1>1, <1>2, <1>3, <1>4, <1>5 DEF Extracted

\* The record as it is.
LEMMA SameForm ==
  ASSUME Inv, NEW t \in Turns, form' = form
  PROVE  form' = [form EXCEPT ![t] = form[t]]
BY DEF Inv, TypeOK

\* The record of a task that begins shows that it is worked on.
LEMMA ProcessKeeps ==
  ASSUME Inv, NEW c \in Callers, Process(c)
  PROVE  Inv' /\ \A u \in Turns : Kept(u)
<1>1. PICK t : t = Turn(c)
  OBVIOUS
<1>2. /\ Busy(c) /\ At(c, "begin") /\ Go(c, "extract")
      /\ form' = [form EXCEPT ![t].status = "processing"]
      /\ UNCHANGED <<input, rows, sources>>
      /\ lost' \subseteq Turns /\ deleted' \in BOOLEAN
  BY <1>1 DEF Process, At, Busy, Inv, TypeOK
<1>3. /\ t \in Turns /\ form[t] \in Form
      /\ Status(t) \notin Over
      /\ Named(caller[c].decisions) \subseteq Formed(t)
      /\ Flawless(caller[c].decisions) => Formed(t) = Named(caller[c].decisions)
  BY <1>1, <1>2, TaskFacts DEF At
<1>4. PICK x \in Task :
        /\ caller' = [caller EXCEPT ![c] = x]
        /\ x.pc = "extract" /\ x.turn = Turn(c) /\ x.todo = caller[c].todo
        /\ x.decisions = caller[c].decisions
  BY <1>2, GoesTo, Zenon
<1>5. PICK f : f = [form[t] EXCEPT !.status = "processing"]
  OBVIOUS
<1>6. f \in Form /\ f.status = "processing"
  BY <1>3, <1>5 DEF Form, Statuses
<1>7. form' = [form EXCEPT ![t] = f]
  BY <1>2, <1>5
<1>8. Agree(t, x, f)
  BY <1>1, <1>3, <1>4, <1>6 DEF Agree, Over
<1> QED  BY <1>1, <1>2, <1>4, <1>6, <1>7, <1>8, TaskMoves

\* A step that only takes a task on whose record is not over.
LEMMA TaskGoesOn ==
  ASSUME Inv, NEW c \in Callers, Busy(c), ~At(c, "failed"),
         NEW x \in Task, caller' = [caller EXCEPT ![c] = x],
         x.turn = Turn(c), x.decisions = caller[c].decisions,
         x.pc = "write" => x.todo # <<>> /\ Head(x.todo).fit,
         form' = form, UNCHANGED <<input, rows, sources>>,
         lost' \subseteq Turns /\ deleted' \in BOOLEAN
  PROVE  Inv' /\ \A u \in Turns : Kept(u)
<1>1. PICK t : t = Turn(c)
  OBVIOUS
<1>2. /\ t \in Turns /\ form[t] \in Form /\ form[t] # NoForm
      /\ Status(t) \notin Over
      /\ Named(caller[c].decisions) \subseteq Formed(t)
      /\ Flawless(caller[c].decisions) => Formed(t) = Named(caller[c].decisions)
  BY <1>1, TaskFacts
<1>3. PICK f : f = form[t]
  OBVIOUS
<1>4. form' = [form EXCEPT ![t] = f]
  BY <1>2, <1>3, SameForm
<1>5. f.status \notin Over
  BY <1>2, <1>3 DEF Status
<1>6. Agree(t, x, f)
  BY <1>1, <1>2, <1>5 DEF Agree, Over
<1> QED  BY <1>1, <1>2, <1>3, <1>4, <1>6, TaskMoves

\* What the extractor can give is a sequence of candidates.
LEMMA FallbackIs ==
  ASSUME NEW t \in Turns, NEW proposed \in Seq(Said)
  PROVE  Fallback(t, proposed) \in Seq(Said)
<1>1. PICK own : own = (IF proposed = <<>> THEN Plain(t) ELSE proposed)
  OBVIOUS
<1>2. PICK more : more = (IF input[t].scan THEN Attachment(t) ELSE <<>>)
  OBVIOUS
<1>3. <<>> \in Seq(Said)
  OBVIOUS
<1>4. own \in Seq(Said)
  BY <1>1, FormationAssumption
<1>5. more \in Seq(Said)
  BY <1>2, <1>3, FormationAssumption
<1>6. own \o more \in Seq(Said)
  BY <1>4, <1>5
<1> QED  BY <1>1, <1>2, <1>6 DEF Fallback

\* Extraction yields candidates, or the task fails.
LEMMA ExtractionIs ==
  ASSUME Inv, NEW c \in Callers, Extract(c)
  PROVE  (\E todo \in Seq(Said) : Extracted(c, todo)) \/ Go(c, "failed")
<1>1. Turn(c) \in Turns
  BY TaskFacts DEF Extract, At, Busy
<1>2. <<>> \in Seq(Said)
  OBVIOUS
<1>3. Fallback(Turn(c), <<>>) \in Seq(Said)
  BY <1>1, <1>2, FallbackIs
<1>4. \A proposed \in Proposals :
        proposed \in Seq(Said) /\ Fallback(Turn(c), proposed) \in Seq(Said)
  BY <1>1, FallbackIs, FormationAssumption
<1> QED  BY <1>3, <1>4 DEF Extract

\* So it keeps what holds of the task.
LEMMA ExtractKeeps ==
  ASSUME Inv, NEW c \in Callers, Extract(c)
  PROVE  Inv' /\ \A u \in Turns : Kept(u)
<1>1. /\ Busy(c) /\ ~At(c, "failed") /\ Turn(c) \in Turns
      /\ form' = form /\ UNCHANGED <<input, rows, sources>>
      /\ lost' \subseteq Turns /\ deleted' \in BOOLEAN
  BY TaskFacts DEF Extract, At, Busy, Inv, TypeOK
<1>2. (\E todo \in Seq(Said) : Extracted(c, todo)) \/ Go(c, "failed")
  BY ExtractionIs
<1>3. CASE \E todo \in Seq(Said) : Extracted(c, todo)
  <2>1. PICK todo \in Seq(Said) : Extracted(c, todo)
    BY <1>3
  <2>2. PICK x \in Task :
          /\ caller' = [caller EXCEPT ![c] = x]
          /\ x.pc = "candidates" /\ x.turn = Turn(c) /\ x.todo = todo
          /\ x.decisions = caller[c].decisions
    BY <1>1, <2>1, ExtractedIs, Zenon
  <2> QED  BY <1>1, <2>2, TaskGoesOn
<1>4. CASE Go(c, "failed")
  <2>1. PICK x \in Task :
          /\ caller' = [caller EXCEPT ![c] = x]
          /\ x.pc = "failed" /\ x.turn = Turn(c) /\ x.todo = caller[c].todo
          /\ x.decisions = caller[c].decisions
    BY <1>1, <1>4, GoesTo, Zenon
  <2> QED  BY <1>1, <2>1, TaskGoesOn
<1> QED  BY <1>2, <1>3, <1>4

\* One more decision.
LEMMA Appended ==
  ASSUME NEW ds \in Seq(Decision), NEW one \in Decision
  PROVE  /\ Append(ds, one) \in Seq(Decision)
         /\ Named(Append(ds, one)) = (Named(ds) \cup {one.id}) \ {0}
         /\ Flawless(Append(ds, one)) <=> Flawless(ds) /\ one.action # "failed"
<1>1. PICK more : more = Append(ds, one)
  OBVIOUS
<1>2. /\ more \in Seq(Decision) /\ Len(ds) \in Nat /\ DOMAIN ds = 1..Len(ds)
      /\ DOMAIN more = 1..(Len(ds) + 1)
      /\ more[Len(ds) + 1] = one /\ \A i \in 1..Len(ds) : more[i] = ds[i]
  BY <1>1
<1>3. /\ DOMAIN more = DOMAIN ds \cup {Len(ds) + 1}
      /\ more[Len(ds) + 1] = one /\ \A i \in DOMAIN ds : more[i] = ds[i]
  BY <1>2
<1>4. Named(more) = (Named(ds) \cup {one.id}) \ {0}
  BY <1>3 DEF Named
<1>5. Flawless(more) <=> Flawless(ds) /\ one.action # "failed"
  BY <1>3 DEF Flawless
<1> QED  BY <1>1, <1>2, <1>4, <1>5

\* The task after a decision about its next candidate.
LEMMA DecidedIs ==
  ASSUME Inv, NEW c \in Callers, Busy(c), caller[c].todo # <<>>,
         NEW action \in Actions \cup {"rejected", "failed"}, NEW id \in Nat,
         Decided(c, action, id)
  PROVE  \E x \in Task :
           /\ caller' = [caller EXCEPT ![c] = x]
           /\ x.pc = "candidates" /\ x.turn = Turn(c)
           /\ Named(x.decisions) = (Named(caller[c].decisions) \cup {id}) \ {0}
           /\ Flawless(x.decisions) <=>
                Flawless(caller[c].decisions) /\ action # "failed"
<1>1. PICK old : old = caller[c]
  OBVIOUS
<1>2. old \in Task /\ old.turn = Turn(c)
  BY <1>1, TaskFacts DEF Turn
<1>3. old.todo \in Seq(Said) /\ old.decisions \in Seq(Decision)
  BY <1>2 DEF Task
<1>4. PICK rest : rest = Tail(old.todo)
  OBVIOUS
<1>5. rest \in Seq(Said)
  BY <1>1, <1>3, <1>4
<1>6. PICK one : one = [action |-> action, id |-> id]
  OBVIOUS
<1>7. one \in Decision /\ one.action = action /\ one.id = id
  BY <1>6 DEF Decision
<1>8. PICK ds : ds = Append(old.decisions, one)
  OBVIOUS
<1>9. /\ ds \in Seq(Decision)
      /\ Named(ds) = (Named(old.decisions) \cup {id}) \ {0}
      /\ Flawless(ds) <=> Flawless(old.decisions) /\ action # "failed"
  BY <1>3, <1>7, <1>8, Appended
<1>10. PICK x : x = [old EXCEPT !.todo = rest, !.pc = "candidates", !.decisions = ds]
  OBVIOUS
<1>11. x \in Task
  BY <1>2, <1>5, <1>9, <1>10 DEF Task
<1>12. x.pc = "candidates" /\ x.turn = old.turn /\ x.decisions = ds
  BY <1>2, <1>10 DEF Task
<1>13. caller' = [caller EXCEPT ![c] = x]
  BY <1>1, <1>4, <1>6, <1>8, <1>10 DEF Decided
<1> QED  BY <1>1, <1>2, <1>9, <1>11, <1>12, <1>13

\* A decision that stores nothing.
LEMMA NothingDecided ==
  ASSUME Inv, NEW c \in Callers, Busy(c), ~At(c, "failed"), caller[c].todo # <<>>,
         NEW action \in {"rejected", "failed"}, Decided(c, action, 0),
         form' = form, UNCHANGED <<input, rows, sources>>,
         lost' \subseteq Turns /\ deleted' \in BOOLEAN
  PROVE  Inv' /\ \A u \in Turns : Kept(u)
<1>1. PICK t : t = Turn(c)
  OBVIOUS
<1>2. PICK ds : ds = caller[c].decisions
  OBVIOUS
<1>3. /\ t \in Turns /\ form[t] \in Form /\ form[t] # NoForm /\ Status(t) \notin Over
      /\ Named(ds) \subseteq Formed(t)
      /\ Flawless(ds) => Formed(t) = Named(ds)
  BY <1>1, <1>2, TaskFacts
<1>4. PICK x \in Task :
        /\ caller' = [caller EXCEPT ![c] = x]
        /\ x.pc = "candidates" /\ x.turn = Turn(c)
        /\ Named(x.decisions) = (Named(caller[c].decisions) \cup {0}) \ {0}
        /\ Flawless(x.decisions) <=> Flawless(caller[c].decisions) /\ action # "failed"
  <2>1. 0 \in Nat /\ action \in Actions \cup {"rejected", "failed"}
    OBVIOUS
  <2>2. \A a \in Actions \cup {"rejected", "failed"}, i \in Nat :
          Decided(c, a, i) =>
            \E x \in Task :
              /\ caller' = [caller EXCEPT ![c] = x]
              /\ x.pc = "candidates" /\ x.turn = Turn(c)
              /\ Named(x.decisions) = (Named(caller[c].decisions) \cup {i}) \ {0}
              /\ Flawless(x.decisions) <=> Flawless(caller[c].decisions) /\ a # "failed"
    BY DecidedIs, Zenon
  <2> QED  BY <2>1, <2>2
<1>5. Named(x.decisions) = Named(ds)
  BY <1>2, <1>4 DEF Named
<1>6. PICK f : f = form[t]
  OBVIOUS
<1>7. form' = [form EXCEPT ![t] = f]
  BY <1>3, <1>6, SameForm
<1>8. f.status \notin Over
  BY <1>3, <1>6 DEF Status
<1>9. Agree(t, x, f)
  BY <1>1, <1>2, <1>3, <1>4, <1>5, <1>8 DEF Agree, Over
<1> QED  BY <1>1, <1>3, <1>4, <1>6, <1>7, <1>9, TaskMoves

\* Governance decides on one candidate.
LEMMA GovernKeeps ==
  ASSUME Inv, NEW c \in Callers, Govern(c)
  PROVE  Inv' /\ \A u \in Turns : Kept(u)
<1>1. /\ Busy(c) /\ ~At(c, "failed") /\ caller[c].todo # <<>>
      /\ form' = form /\ UNCHANGED <<input, rows, sources>>
      /\ lost' \subseteq Turns /\ deleted' \in BOOLEAN
  BY DEF Govern, At, Busy, Inv, TypeOK
<1>2. CASE Candidate(c).fit /\ Go(c, "write")
  <2>1. PICK x \in Task :
          /\ caller' = [caller EXCEPT ![c] = x]
          /\ x.pc = "write" /\ x.turn = Turn(c) /\ x.todo = caller[c].todo
          /\ x.decisions = caller[c].decisions
    BY <1>1, <1>2, GoesTo, Zenon
  <2>2. x.todo # <<>> /\ Head(x.todo).fit
    BY <1>1, <1>2, <2>1 DEF Candidate
  <2> QED  BY <1>1, <2>1, <2>2, TaskGoesOn
<1>3. CASE Decided(c, "rejected", 0)
  BY <1>1, <1>3, NothingDecided
<1> QED  BY <1>2, <1>3 DEF Govern

\* Governance raises: the candidate is decided as failed.
LEMMA GovernRaisesKeeps ==
  ASSUME Inv, NEW c \in Callers, GovernRaises(c)
  PROVE  Inv' /\ \A u \in Turns : Kept(u)
<1>1. /\ Busy(c) /\ ~At(c, "failed") /\ caller[c].todo # <<>>
      /\ form' = form /\ UNCHANGED <<input, rows, sources>>
      /\ lost' \subseteq Turns /\ deleted' \in BOOLEAN
      /\ Decided(c, "failed", 0)
  BY DEF GovernRaises, At, Busy, Inv, TypeOK
<1> QED  BY <1>1, NothingDecided

\* The verdict says whether a candidate failed.
LEMMA VerdictIs ==
  ASSUME NEW ds
  PROVE  /\ Verdict(ds) \in {"completed", "partial"}
         /\ Verdict(ds) = "completed" => Flawless(ds)
BY DEF Verdict, Flawless

\* The record an audit writes.
LEMMA AuditIs ==
  ASSUME Inv, NEW c \in Callers, Busy(c), NEW status \in Statuses, Audited(c, status)
  PROVE  \E f \in Form :
           /\ form' = [form EXCEPT ![Turn(c)] = f]
           /\ f.status = status /\ f.decisions = caller[c].decisions
<1>1. caller[c].decisions \in Seq(Decision)
  BY TaskFacts DEF Task
<1>2. PICK f : f = [status |-> status, decisions |-> caller[c].decisions]
  OBVIOUS
<1>3. f \in Form /\ f.status = status /\ f.decisions = caller[c].decisions
  BY <1>1, <1>2 DEF Form
<1> QED  BY <1>2, <1>3 DEF Audited

\* The decisions of a finished task are those its record tells.
LEMMA FinishKeeps ==
  ASSUME Inv, NEW c \in Callers, Finish(c)
  PROVE  Inv' /\ \A u \in Turns : Kept(u)
<1>1. PICK t : t = Turn(c)
  OBVIOUS
<1>2. PICK ds : ds = caller[c].decisions
  OBVIOUS
<1>3. /\ Busy(c) /\ caller' = [caller EXCEPT ![c] = Idle]
      /\ UNCHANGED <<input, rows, sources>>
      /\ lost' \subseteq Turns /\ deleted' \in BOOLEAN
  BY DEF Finish, At, Busy, Inv, TypeOK
<1>4. /\ Status(t) \in Over => form[t].decisions = ds
      /\ Named(ds) \subseteq Formed(t)
      /\ Flawless(ds) => Formed(t) = Named(ds)
  BY <1>1, <1>2, <1>3, TaskFacts
<1>5. PICK status : /\ Audited(c, status) /\ status \in {"completed", "partial", "failed"}
                    /\ status = "completed" => Flawless(ds)
  BY <1>2, VerdictIs DEF Finish
<1>6. status \in Statuses
  BY <1>5 DEF Statuses
<1>7. PICK f \in Form : /\ form' = [form EXCEPT ![t] = f]
                        /\ f.status = status /\ f.decisions = ds
  BY <1>1, <1>2, <1>3, <1>5, <1>6, AuditIs
<1>8. Agree(t, Idle, f)
  BY <1>4, <1>5, <1>7 DEF Agree, Idle, Over
<1> QED  BY <1>1, <1>3, <1>7, <1>8, TaskMoves

\* An update of the record raises: the task has failed.
LEMMA AuditRaisesKeeps ==
  ASSUME Inv, NEW c \in Callers, AuditRaises(c)
  PROVE  Inv' /\ \A u \in Turns : Kept(u)
<1>1. PICK t : t = Turn(c)
  OBVIOUS
<1>2. PICK ds : ds = caller[c].decisions
  OBVIOUS
<1>3. /\ Busy(c) /\ ~At(c, "failed") /\ Go(c, "failed")
      /\ UNCHANGED <<input, rows, sources>>
      /\ lost' \subseteq Turns /\ deleted' \in BOOLEAN
  BY DEF AuditRaises, At, Busy, Inv, TypeOK
<1>4. /\ t \in Turns /\ form[t] \in Form /\ form[t] # NoForm /\ Status(t) \notin Over
      /\ Named(ds) \subseteq Formed(t)
      /\ Flawless(ds) => Formed(t) = Named(ds)
  BY <1>1, <1>2, <1>3, TaskFacts
<1>5. PICK x \in Task :
        /\ caller' = [caller EXCEPT ![c] = x]
        /\ x.pc = "failed" /\ x.turn = Turn(c) /\ x.todo = caller[c].todo
        /\ x.decisions = caller[c].decisions
  BY <1>3, GoesTo, Zenon
<1>6. \E f \in Form :
        /\ form' = [form EXCEPT ![t] = f]
        /\ f.status \in Over => f.decisions = ds
        /\ f.status \in {"completed", "skipped"} => Flawless(ds)
  <2>1. CASE form' = form
    BY <1>4, <2>1, SameForm DEF Status, Over
  <2>2. CASE form' = [form EXCEPT ![t].status = "processing"]
    <3>1. PICK f : f = [form[t] EXCEPT !.status = "processing"]
      OBVIOUS
    <3>2. f \in Form /\ f.status = "processing"
      BY <1>4, <3>1 DEF Form, Statuses
    <3> QED  BY <2>2, <3>1, <3>2 DEF Over
  <2>3. CASE Audited(c, Verdict(ds))
    <3>1. /\ Verdict(ds) \in Statuses /\ Verdict(ds) # "skipped"
          /\ Verdict(ds) = "completed" => Flawless(ds)
      BY VerdictIs DEF Statuses
    <3>2. PICK f \in Form : /\ form' = [form EXCEPT ![t] = f]
                            /\ f.status = Verdict(ds) /\ f.decisions = ds
      BY <1>1, <1>2, <1>3, <2>3, <3>1, AuditIs
    <3> QED  BY <3>1, <3>2
  <2> QED  BY <1>1, <1>2, <2>1, <2>2, <2>3 DEF AuditRaises
<1>7. PICK f \in Form :
        /\ form' = [form EXCEPT ![t] = f]
        /\ f.status \in Over => f.decisions = ds
        /\ f.status \in {"completed", "skipped"} => Flawless(ds)
  BY <1>6
<1>8. Agree(t, x, f)
  BY <1>1, <1>2, <1>4, <1>5, <1>7 DEF Agree, Over
<1> QED  BY <1>1, <1>3, <1>5, <1>7, <1>8, TaskMoves

\* A task that is lost leaves its claim and its memories.
LEMMA VanishKeeps ==
  ASSUME Inv, NEW c \in Callers, Vanish(c)
  PROVE  Inv' /\ \A u \in Turns : Kept(u)
<1>1. PICK t : t = Turn(c)
  OBVIOUS
<1>2. /\ Busy(c) /\ caller' = [caller EXCEPT ![c] = Idle] /\ form' = form
      /\ UNCHANGED <<input, rows, sources>>
  BY DEF Vanish, At, Busy
<1>3. t \in Turns /\ form[t] \in Form /\ form[t] # NoForm
  BY <1>1, <1>2, TaskFacts
<1>4. lost' \subseteq Turns /\ deleted' \in BOOLEAN
  BY <1>1, <1>3 DEF Vanish, Inv, TypeOK
<1>5. PICK f : f = form[t]
  OBVIOUS
<1>6. form' = [form EXCEPT ![t] = f]
  BY <1>2, <1>3, <1>5, SameForm
<1>7. FormInv(t) /\ Status(t) = f.status
  BY <1>3, <1>5 DEF Inv, Status
<1>8. Agree(t, Idle, f)
  BY <1>5, <1>7 DEF Agree, Idle, FormInv
<1> QED  BY <1>1, <1>2, <1>3, <1>4, <1>5, <1>6, <1>8, TaskMoves

\* A turn is claimed, and worked on or lost.
LEMMA ClaimsKeep ==
  ASSUME Inv, NEW c \in Callers, NEW t \in Turns, Submit(c, t) \/ ClaimIsLost(c, t)
  PROVE  Inv' /\ \A u \in Turns : Kept(u)
<1>1. lost' \subseteq Turns /\ deleted' \in BOOLEAN
  BY DEF Inv, TypeOK, Submit, ClaimIsLost
<1> QED  BY <1>1, ClaimKeeps DEF Submit, ClaimIsLost

(***************************************************************************)
(* The write.                                                              *)
(***************************************************************************)

\* The memory of a candidate governance let pass.
Stored(row) == \E p \in Said : p.fit /\ \A f \in DOMAIN p.request : row[f] = p.request[f]

\* The row of a new memory holds what was asked.
LEMMA NewRowIs ==
  ASSUME NEW p \in Said, p.fit, NEW version \in Nat, NEW prev \in Nat
  PROVE  /\ NewRow(p.request, version, prev) \in Row
         /\ Stored(NewRow(p.request, version, prev))
<1>1. PICK m : m = p.request
  OBVIOUS
<1>2. m \in [kind : Asked("kind"), key : Asked("key"), when : Asked("when"),
             text : Asked("text"), value : Asked("value"), scope : Asked("scope")]
  BY <1>1, FormationAssumption
<1>3. NewRow(m, version, prev) \in Row
  BY <1>2 DEF NewRow, Row
<1>4. DOMAIN m = {"kind", "key", "when", "text", "value", "scope"}
  BY <1>2
<1>5. \A f \in DOMAIN m : NewRow(m, version, prev)[f] = m[f]
  BY <1>4 DEF NewRow
<1> QED  BY <1>1, <1>3, <1>5 DEF Stored

\* A memory that is replaced keeps what it holds.
LEMMA SupersededIs ==
  ASSUME NEW row \in Row
  PROVE  /\ [row EXCEPT !.status = "superseded"] \in Row
         /\ Stored(row) => Stored([row EXCEPT !.status = "superseded"])
<1>1. PICK new : new = [row EXCEPT !.status = "superseded"]
  OBVIOUS
<1>2. new \in Row
  BY <1>1 DEF Row
<1>3. \A f \in {"kind", "key", "when", "text", "value", "scope"} : new[f] = row[f]
  BY <1>1 DEF Row
<1>4. \A p \in Said : DOMAIN p.request = {"kind", "key", "when", "text", "value", "scope"}
  BY FormationAssumption
<1>5. Stored(row) => Stored(new)
  BY <1>3, <1>4 DEF Stored
<1> QED  BY <1>1, <1>2, <1>5

\* One more element.
LEMMA OneMore ==
  ASSUME NEW S, NEW s \in Seq(S), NEW one \in S, NEW r, r = Append(s, one)
  PROVE  /\ r \in Seq(S) /\ Len(r) = Len(s) + 1
         /\ DOMAIN r = DOMAIN s \cup {Len(r)} /\ Len(r) \notin DOMAIN s
         /\ r[Len(r)] = one /\ \A i \in DOMAIN s : r[i] = s[i]
<1>1. /\ r \in Seq(S) /\ Len(s) \in Nat /\ DOMAIN s = 1..Len(s) /\ Len(r) = Len(s) + 1
      /\ DOMAIN r = 1..(Len(s) + 1)
  OBVIOUS
<1>2. r[Len(s) + 1] = one /\ \A i \in 1..Len(s) : r[i] = s[i]
  OBVIOUS
<1>3. DOMAIN r = DOMAIN s \cup {Len(r)} /\ Len(r) \notin DOMAIN s
  BY <1>1
<1> QED  BY <1>1, <1>2, <1>3

\* One element changed.
LEMMA OneChanged ==
  ASSUME NEW S, NEW s \in Seq(S), NEW i \in DOMAIN s, NEW one \in S,
         NEW r, r = [s EXCEPT ![i] = one]
  PROVE  /\ r \in Seq(S) /\ Len(r) = Len(s) /\ DOMAIN r = DOMAIN s
         /\ r[i] = one /\ \A j \in DOMAIN s \ {i} : r[j] = s[j]
OBVIOUS

\* One more row.
LEMMA NewSource ==
  ASSUME NEW s \in Seq(TurnSet), NEW t \in Turns
  PROVE  LET r == Append(s, {t})
         IN  /\ r \in Seq(TurnSet) /\ Len(r) = Len(s) + 1
             /\ DOMAIN r = DOMAIN s \cup {Len(r)} /\ Len(r) \notin DOMAIN s
             /\ r[Len(r)] = {t} /\ \A i \in DOMAIN s : r[i] = s[i]
<1>1. {t} \in TurnSet
  BY DEF TurnSet
<1> QED  BY <1>1, OneMore

\* A row that gains a source.
LEMMA AddedSource ==
  ASSUME NEW s \in Seq(TurnSet), NEW t \in Turns, NEW i \in DOMAIN s
  PROVE  LET r == [s EXCEPT ![i] = @ \cup {t}]
         IN  /\ r \in Seq(TurnSet) /\ Len(r) = Len(s) /\ DOMAIN r = DOMAIN s
             /\ r[i] = s[i] \cup {t} /\ \A j \in DOMAIN s \ {i} : r[j] = s[j]
<1>1. s[i] \in TurnSet
  OBVIOUS
<1>2. s[i] \cup {t} \in TurnSet
  BY <1>1 DEF TurnSet
<1> QED  BY <1>2, OneChanged

\* One memory more comes from turn t, new or not, and all are what may be stored.
Grown(t, id) ==
  /\ rows' \in Seq(Row) /\ sources' \in Seq(TurnSet)
  /\ Len(sources') = Len(rows') /\ id \in Nat \ {0}
  /\ Formed(t)' = Formed(t) \cup {id}
  /\ \A u \in Turns \ {t} : Formed(u)' = Formed(u)
  /\ OnlyWhatMayBeStored'

\* The same, from where Formed is told by one formula.
LEMMA GrownIs ==
  ASSUME NEW t \in Turns, NEW id \in Nat \ {0},
         rows' \in Seq(Row), sources' \in Seq(TurnSet),
         Len(sources') = Len(rows'),
         \A u \in Turns : Formed(u)' = Formed(u) \cup {i \in {id} : u = t},
         OnlyWhatMayBeStored'
  PROVE  Grown(t, id)
<1>1. {i \in {id} : t = t} = {id}
  OBVIOUS
<1>2. \A u \in Turns \ {t} : {i \in {id} : u = t} = {}
  OBVIOUS
<1>3. Formed(t)' = Formed(t) \cup {id}
  BY <1>1
<1>4. \A u \in Turns \ {t} : Formed(u)' = Formed(u)
  BY <1>2
<1> QED  BY <1>3, <1>4 DEF Grown

\* What a write does.
LEMMA WrittenIs ==
  ASSUME Inv, NEW c \in Callers, Busy(c), At(c, "write"),
         NEW action \in Actions, NEW id, Written(c, action, id), input' = input,
         NEW t, t = Turn(c)
  PROVE  Grown(t, id)
<1>2. PICK p : p = Candidate(c)
  OBVIOUS
<1>3. t \in Turns /\ p \in Said /\ p.fit
  <2>1. caller[c].todo \in Seq(Said) /\ caller[c].todo # <<>>
    BY TaskFacts DEF Task
  <2>2. Head(caller[c].todo) \in Said
    BY <2>1
  <2> QED  BY <1>2, <2>2, TaskFacts DEF Candidate
<1>4. input[t].status \in {"completed", "partial"} /\ input[t].intent # "do not"
  BY TaskFacts DEF Trigger
<1>5. /\ rows \in Seq(Row) /\ sources \in Seq(TurnSet)
      /\ Len(sources) = Len(rows) /\ Len(rows) \in Nat
      /\ DOMAIN rows = 1..Len(rows) /\ DOMAIN sources = 1..Len(rows)
  BY DEF Inv, TypeOK
<1>6. \A i \in DOMAIN rows :
        /\ \A u \in sources[i] : input[u].status \in {"completed", "partial"}
                                 /\ input[u].intent # "do not"
        /\ Stored(rows[i])
  BY DEF Inv, OnlyWhatMayBeStored, Stored
<1>7. ASSUME NEW q \in Seq(Row), Len(q) = Len(rows), \A i \in DOMAIN q : Stored(q[i]),
             NEW n \in Row, Stored(n),
             rows' = Append(q, n), sources' = Append(sources, {t}), id = Len(rows) + 1
      PROVE  Grown(t, id)
  <2>1. /\ rows' \in Seq(Row) /\ Len(rows') = Len(rows) + 1 /\ DOMAIN rows' = 1..Len(rows')
        /\ rows'[Len(rows) + 1] = n /\ \A i \in 1..Len(rows) : rows'[i] = q[i]
    BY <1>5, <1>7
  <2>2. /\ sources' \in Seq(TurnSet) /\ Len(sources') = Len(sources) + 1
        /\ DOMAIN sources' = DOMAIN sources \cup {Len(sources')}
        /\ Len(sources') \notin DOMAIN sources
        /\ sources'[Len(sources')] = {t} /\ \A i \in DOMAIN sources : sources'[i] = sources[i]
    <3>1. LET r == Append(sources, {t})
          IN  /\ r \in Seq(TurnSet) /\ Len(r) = Len(sources) + 1
              /\ DOMAIN r = DOMAIN sources \cup {Len(r)} /\ Len(r) \notin DOMAIN sources
              /\ r[Len(r)] = {t} /\ \A i \in DOMAIN sources : r[i] = sources[i]
      BY <1>3, <1>5, NewSource, Zenon
    <3> QED  BY <1>7, <3>1, Zenon
  <2>3. id = Len(sources') /\ id \in Nat \ {0} /\ Len(sources') = Len(rows')
    BY <1>5, <1>7, <2>1, <2>2
  <2>4. \A u \in Turns : Formed(u)' = Formed(u) \cup {i \in {id} : u = t}
    BY <2>2, <2>3 DEF Formed
  <2>5. \A i \in DOMAIN rows' : Stored(rows'[i])
    <3>1. DOMAIN q = 1..Len(rows)
      BY <1>7
    <3> QED  BY <1>5, <1>7, <2>1, <3>1
  <2>6. \A i \in DOMAIN rows' : \A u \in sources'[i] :
          input[u].status \in {"completed", "partial"} /\ input[u].intent # "do not"
    <3>1. DOMAIN rows' = DOMAIN sources'
      BY <1>5, <2>1, <2>2
    <3>2. \A i \in DOMAIN sources' : i \in DOMAIN rows \/ i = Len(sources')
      BY <1>5, <2>2
    <3>3. ASSUME NEW i \in DOMAIN rows', NEW u \in sources'[i]
          PROVE  input[u].status \in {"completed", "partial"} /\ input[u].intent # "do not"
      <4>1. CASE i \in DOMAIN rows
        <5>1. u \in sources[i]
          BY <1>5, <2>2, <3>3, <4>1
        <5> QED  BY <1>6, <4>1, <5>1
      <4>2. CASE i = Len(sources')
        BY <1>4, <2>2, <3>3, <4>2
      <4> QED  BY <3>1, <3>2, <3>3, <4>1, <4>2
    <3> QED  BY <3>3
  <2>7. OnlyWhatMayBeStored'
    BY <2>5, <2>6 DEF OnlyWhatMayBeStored, Stored
  <2> QED  BY <1>3, <2>1, <2>2, <2>3, <2>4, <2>7, GrownIs
<1>8. CASE /\ <<action, id>> = <<"created", Len(rows) + 1>>
           /\ rows' = Create(rows, p.request) /\ sources' = Append(sources, {t})
  <2>1. NewRow(p.request, 1, 0) \in Row /\ Stored(NewRow(p.request, 1, 0))
    BY <1>3, NewRowIs
  <2>2. id = Len(rows) + 1
    BY <1>8
  <2> QED  BY <1>5, <1>6, <1>7, <1>8, <2>1, <2>2 DEF Create
<1>9. ASSUME NEW cur \in DOMAIN rows, <<action, id>> = <<"replaced", Len(rows) + 1>>,
             rows' = Replace(rows, p.request, cur), sources' = Append(sources, {t})
      PROVE  Grown(t, id)
  <2>1. rows[cur] \in Row /\ rows[cur].version + 1 \in Nat /\ cur \in Nat
    <3>1. rows[cur] \in Row
      BY <1>5, <1>9
    <3>2. rows[cur].version \in Nat
      BY <3>1 DEF Row
    <3> QED  BY <1>5, <1>9, <3>1, <3>2
  <2>2. PICK n : n = NewRow(p.request, rows[cur].version + 1, cur)
    OBVIOUS
  <2>3. n \in Row /\ Stored(n)
    BY <1>3, <2>1, <2>2, NewRowIs
  <2>4. PICK old : old = [rows[cur] EXCEPT !.status = "superseded"]
    OBVIOUS
  <2>5. old \in Row /\ Stored(old)
    BY <1>6, <2>1, <2>4, SupersededIs
  <2>6. PICK q : q = [rows EXCEPT ![cur] = old]
    OBVIOUS
  <2>7. q \in Seq(Row) /\ Len(q) = Len(rows) /\ DOMAIN q = DOMAIN rows
    BY <1>5, <1>9, <2>5, <2>6
  <2>8. \A i \in DOMAIN q : Stored(q[i])
    BY <1>6, <2>5, <2>6, <2>7
  <2>9. rows' = Append(q, n)
    BY <1>9, <2>2, <2>4, <2>6 DEF Replace
  <2>10. id = Len(rows) + 1
    BY <1>9
  <2> QED  BY <1>7, <1>9, <2>3, <2>7, <2>8, <2>9, <2>10
<1>10. ASSUME NEW cur \in DOMAIN rows, <<action, id>> = <<"duplicate", cur>>,
              sources' = [sources EXCEPT ![cur] = @ \cup {t}], rows' = rows
       PROVE  Grown(t, id)
  <2>1. /\ sources' \in Seq(TurnSet) /\ Len(sources') = Len(sources)
        /\ DOMAIN sources' = DOMAIN sources
        /\ sources'[cur] = sources[cur] \cup {t}
        /\ \A j \in DOMAIN sources \ {cur} : sources'[j] = sources[j]
    <3>1. cur \in DOMAIN sources
      BY <1>5, <1>10
    <3> QED  BY <1>3, <1>5, <1>10, <3>1, AddedSource, Zenon
  <2>2. id = cur /\ id \in Nat \ {0} /\ cur \in DOMAIN sources
    BY <1>5, <1>10
  <2>3. \A u \in Turns : Formed(u)' = Formed(u) \cup {i \in {id} : u = t}
    BY <2>1, <2>2 DEF Formed
  <2>4. \A i \in DOMAIN rows : \A u \in sources'[i] :
          input[u].status \in {"completed", "partial"} /\ input[u].intent # "do not"
    BY <1>4, <1>5, <1>6, <2>1
  <2>5. OnlyWhatMayBeStored'
    BY <1>6, <1>10, <2>4, ZenonT(60) DEF OnlyWhatMayBeStored, Stored
  <2> QED  BY <1>3, <1>5, <1>10, <2>1, <2>2, <2>3, <2>5, GrownIs, ZenonT(60)
<1>11. \A cur \in Newest(rows, Found(rows, p.request)) : cur \in DOMAIN rows
  BY DEF Newest, Found
<1> QED  BY <1>2, <1>8, <1>9, <1>10, <1>11 DEF Written

\* What a write leaves alone, and the type of what it changes.
LEMMA WrittenTypes ==
  ASSUME Inv, NEW c \in Callers, NEW t, NEW id, Grown(t, id),
         NEW x \in Task, caller' = [caller EXCEPT ![c] = x],
         form' = form, input' = input, lost' \subseteq Turns /\ deleted' \in BOOLEAN
  PROVE  TypeOK'
BY DEF Inv, TypeOK, Grown

\* The write and the decision about it, which may be that it failed.
LEMMA WriteMoves ==
  ASSUME Inv, NEW c \in Callers, Busy(c), At(c, "write"),
         NEW t, t = Turn(c), NEW id, Grown(t, id),
         NEW x \in Task, caller' = [caller EXCEPT ![c] = x],
         x.pc = "candidates", x.turn = Turn(c),
         \/ /\ Named(x.decisions) = (Named(caller[c].decisions) \cup {id}) \ {0}
            /\ Flawless(x.decisions) => Flawless(caller[c].decisions)
         \/ /\ Named(x.decisions) = Named(caller[c].decisions)
            /\ ~Flawless(x.decisions),
         form' = form, input' = input, lost' \subseteq Turns /\ deleted' \in BOOLEAN
  PROVE  Inv' /\ \A u \in Turns : Kept(u)
<1>2. PICK ds : ds = caller[c].decisions
  OBVIOUS
<1>3. /\ t \in Turns /\ form[t] # NoForm /\ Status(t) \notin Over
      /\ Trigger(input[t]) # "skipped"
      /\ Named(ds) \subseteq Formed(t)
      /\ Flawless(ds) => Formed(t) = Named(ds)
      /\ \A d \in Callers \ {c} : Busy(d) => Turn(d) # t
  BY <1>2, TaskFacts DEF At
<1>4. /\ id \in Nat \ {0} /\ Formed(t)' = Formed(t) \cup {id}
      /\ \A u \in Turns \ {t} : Formed(u)' = Formed(u)
      /\ OnlyWhatMayBeStored'
  BY DEF Grown
<1>5. TypeOK'
  BY WrittenTypes
<1>6. /\ caller'[c] = x /\ \A d \in Callers \ {c} : caller'[d] = caller[d]
  BY DEF Inv, TypeOK
<1>7. Busy(c)' /\ Turn(c)' = t /\ At(c, "candidates")'
  BY <1>6 DEF Busy, Turn, At
<1>8. Named(x.decisions) \subseteq Formed(t) \cup {id}
  BY <1>2, <1>3
<1>9. Flawless(x.decisions) => Formed(t) \cup {id} = Named(x.decisions)
  <2>1. 0 \notin Named(ds)
    BY DEF Named
  <2> QED  BY <1>2, <1>3, <1>4, <2>1
<1>10. Formed(Turn(c))' = Formed(t) \cup {id}
  BY <1>4, <1>7 DEF Formed
<1>11. TaskInv(c)'
  <2>1. form'[t] # NoForm /\ Trigger(input'[t]) # "skipped" /\ Status(t)' \notin Over
    BY <1>3 DEF Status
  <2> QED  BY <1>6, <1>7, <1>8, <1>9, <1>10, <2>1 DEF TaskInv, At, Status
<1>12. FormInv(t)'
  BY <1>3 DEF FormInv, Status, Over
<1>13. Kept(t)
  BY <1>3 DEF Kept
<1> QED  BY <1>3, <1>4, <1>5, <1>6, <1>7, <1>11, <1>12, <1>13, StepOf

\* A governed candidate is written.
LEMMA WriteKeeps ==
  ASSUME Inv, NEW c \in Callers, Write(c)
  PROVE  Inv' /\ \A u \in Turns : Kept(u)
<1>1. /\ Busy(c) /\ At(c, "write") /\ form' = form /\ input' = input
      /\ lost' \subseteq Turns /\ deleted' \in BOOLEAN
  BY DEF Write, At, Busy, Inv, TypeOK
<1>2. PICK action \in Actions, id \in 1..(Len(rows) + 1) :
        Written(c, action, id) /\ Decided(c, action, id)
  BY DEF Write
<1>0. PICK t : t = Turn(c)
  OBVIOUS
<1>3. Grown(t, id)
  BY <1>0, <1>1, <1>2, WrittenIs
<1>4. id \in Nat /\ action \in Actions \cup {"rejected", "failed"} /\ action # "failed"
  BY <1>2 DEF Actions
<1>5. caller[c].todo # <<>>
  BY <1>1, TaskFacts
<1>6. PICK x \in Task :
        /\ caller' = [caller EXCEPT ![c] = x]
        /\ x.pc = "candidates" /\ x.turn = Turn(c)
        /\ Named(x.decisions) = (Named(caller[c].decisions) \cup {id}) \ {0}
        /\ Flawless(x.decisions) <=> Flawless(caller[c].decisions) /\ action # "failed"
  <2>1. Busy(c) /\ Decided(c, action, id) /\ caller[c].todo # <<>>
    BY <1>1, <1>2, <1>5
  <2>2. id \in Nat /\ action \in Actions \cup {"rejected", "failed"}
    BY <1>4
  <2>3. \A a \in Actions \cup {"rejected", "failed"}, i \in Nat :
          Decided(c, a, i) =>
            \E x \in Task :
              /\ caller' = [caller EXCEPT ![c] = x]
              /\ x.pc = "candidates" /\ x.turn = Turn(c)
              /\ Named(x.decisions) = (Named(caller[c].decisions) \cup {i}) \ {0}
              /\ Flawless(x.decisions) <=> Flawless(caller[c].decisions) /\ a # "failed"
    BY <1>1, <1>5, DecidedIs, Zenon
  <2> QED  BY <2>1, <2>2, <2>3
<1> QED  BY <1>0, <1>1, <1>3, <1>6, WriteMoves

\* A write raises, before or after it is committed.
LEMMA WriteRaisesKeeps ==
  ASSUME Inv, NEW c \in Callers, WriteRaises(c)
  PROVE  Inv' /\ \A u \in Turns : Kept(u)
<1>1. /\ Busy(c) /\ At(c, "write") /\ form' = form /\ input' = input
      /\ lost' \subseteq Turns /\ deleted' \in BOOLEAN
      /\ Decided(c, "failed", 0)
  BY DEF WriteRaises, At, Busy, Inv, TypeOK
<1>2. caller[c].todo # <<>>
  BY <1>1, TaskFacts
<1>3. CASE UNCHANGED <<rows, sources>>
  BY <1>1, <1>2, <1>3, NothingDecided DEF At
<1>4. CASE \E action \in Actions, id \in 1..(Len(rows) + 1) : Written(c, action, id)
  <2>1. PICK action \in Actions, id \in 1..(Len(rows) + 1) : Written(c, action, id)
    BY <1>4
  <2>0. PICK t : t = Turn(c)
    OBVIOUS
  <2>2. Grown(t, id)
    BY <1>1, <2>0, <2>1, WrittenIs
  <2>3. 0 \in Nat /\ "failed" \in Actions \cup {"rejected", "failed"}
    OBVIOUS
  <2>4. PICK x \in Task :
          /\ caller' = [caller EXCEPT ![c] = x]
          /\ x.pc = "candidates" /\ x.turn = Turn(c)
          /\ Named(x.decisions) = (Named(caller[c].decisions) \cup {0}) \ {0}
          /\ Flawless(x.decisions) <=> Flawless(caller[c].decisions) /\ "failed" # "failed"
    BY <1>1, <1>2, <2>3, DecidedIs, Zenon
  <2>5. Named(x.decisions) = Named(caller[c].decisions) /\ ~Flawless(x.decisions)
    BY <2>4 DEF Named
  <2> QED  BY <1>1, <2>0, <2>2, <2>4, <2>5, WriteMoves
<1> QED  BY <1>3, <1>4 DEF WriteRaises

(***************************************************************************)
(* The specification.                                                      *)
(***************************************************************************)

\* At first nothing is claimed, stored or worked on.
LEMMA InitInv ==
  ASSUME Init
  PROVE  Inv
<1>1. \A c \in Callers : ~Busy(c)
  BY DEF Init, Busy, Idle
<1>2. <<>> \in Seq(Row) /\ <<>> \in Seq(TurnSet) /\ DOMAIN <<>> = {}
  OBVIOUS
<1>3. TypeOK
  BY <1>2 DEF Init, TypeOK
<1>4. \A t \in Turns : Formed(t) = {} /\ Status(t) = "none"
  BY <1>2 DEF Init, Formed, Status
<1>5. \A t \in Turns : FormInv(t)
  BY <1>4 DEF FormInv, Over
<1>6. OnlyWhatMayBeStored
  BY <1>2 DEF Init, OnlyWhatMayBeStored
<1> QED  BY <1>1, <1>3, <1>5, <1>6 DEF Inv, OneTask, TaskInv

\* Nothing changes but what the invariant does not look at.
LEMMA SameRest ==
  ASSUME Inv, UNCHANGED <<input, form, caller, rows, sources, lost>>, deleted' \in BOOLEAN
  PROVE  Inv' /\ \A u \in Turns : Kept(u)
<1>1. TypeOK' /\ OneTask' /\ OnlyWhatMayBeStored'
  BY DEF Inv, TypeOK, OneTask, Busy, Turn, OnlyWhatMayBeStored
<1>2. ASSUME NEW c \in Callers PROVE TaskInv(c)'
  BY DEF Inv, TaskInv, Busy, Turn, Status, Formed, At, Candidate
<1>3. ASSUME NEW t \in Turns PROVE FormInv(t)' /\ Kept(t)
  BY DEF Inv, FormInv, Kept, Status, Formed
<1> QED  BY <1>1, <1>2, <1>3 DEF Inv

\* No step breaks the invariant or touches a formation that is over.
LEMMA NextInv ==
  ASSUME Inv, [Next]_vars
  PROVE  Inv' /\ \A u \in Turns : Kept(u)
<1>1. CASE UNCHANGED vars
  <2>1. UNCHANGED <<input, form, caller, rows, sources, lost>> /\ deleted' \in BOOLEAN
    BY <1>1 DEF vars, Inv, TypeOK
  <2> QED  BY <2>1, SameRest
<1>2. CASE \E c \in Callers : \E t \in Turns : Submit(c, t) \/ ClaimIsLost(c, t)
  BY <1>2, ClaimsKeep
<1>3. CASE \E c \in Callers : Process(c)
  BY <1>3, ProcessKeeps
<1>4. CASE \E c \in Callers : Extract(c)
  BY <1>4, ExtractKeeps
<1>5. CASE \E c \in Callers : Govern(c)
  BY <1>5, GovernKeeps
<1>6. CASE \E c \in Callers : Write(c)
  BY <1>6, WriteKeeps
<1>7. CASE \E c \in Callers : Finish(c)
  BY <1>7, FinishKeeps
<1>8. CASE \E c \in Callers : GovernRaises(c)
  BY <1>8, GovernRaisesKeeps
<1>9. CASE \E c \in Callers : WriteRaises(c)
  BY <1>9, WriteRaisesKeeps
<1>10. CASE \E c \in Callers : AuditRaises(c)
  BY <1>10, AuditRaisesKeeps
<1>11. CASE \E c \in Callers : Vanish(c)
  BY <1>11, VanishKeeps
<1>12. CASE DeleteConversation
  <2>1. UNCHANGED <<input, form, caller, rows, sources, lost>> /\ deleted' \in BOOLEAN
    BY <1>12 DEF DeleteConversation
  <2> QED  BY <2>1, SameRest
<1> QED
  BY <1>1, <1>2, <1>3, <1>4, <1>5, <1>6, <1>7, <1>8, <1>9, <1>10, <1>11, <1>12
  DEF Next, Step, Advance

\* The inductive invariant: one task per claimed turn, and what it has decided is what
\* the turn has left, as far as nothing failed.
THEOREM Invariant == Spec => []Inv
<1>1. Init => Inv
  BY InitInv
<1>2. Inv /\ [Next]_vars => Inv'
  BY NextInv
<1> QED  BY <1>1, <1>2, PTL DEF Spec

\* The audit of any number of formations names only memories that come from the turn,
\* and all of them unless a candidate failed or the task was lost.
THEOREM AuditIsTrue == Spec => []AuditTellsTheTruth
<1>1. Inv => AuditTellsTheTruth
  BY DEF Inv, FormInv, AuditTellsTheTruth, Named, Formed
<1> QED  BY <1>1, Invariant, PTL

\* No memory comes from a turn that failed or that the user wanted forgotten, and none
\* holds what governance refused, whatever the extractor proposes and whatever raises.
THEOREM RefusedIsNotStored == Spec => []OnlyWhatMayBeStored
<1>1. Inv => OnlyWhatMayBeStored
  BY DEF Inv
<1> QED  BY <1>1, Invariant, PTL

\* A formation that is over is never taken up again: neither its decisions nor the
\* memories of its turn change, however often the turn is submitted.
THEOREM NoSecondFormation == Spec => FormedOnce
<1>1. Inv /\ [Next]_vars =>
        [\A t \in Turns : Status(t) \in Over =>
           /\ Status(t)' \in Over
           /\ form'[t].decisions = form[t].decisions
           /\ Formed(t)' = Formed(t)]_vars
  BY NextInv DEF Kept
<1> QED  BY <1>1, Invariant, PTL DEF Spec, FormedOnce

(***************************************************************************)
(* The deleted conversation.                                               *)
(***************************************************************************)

\* What a step may do once the conversation is deleted.
Taught ==
  /\ Passed' \subseteq Passed
  /\ \A t \in Turns : Formed(t)' # Formed(t) => t \in Passed \ Passed'

\* A step of one task, which has no candidate to write after it.
Rests(c) ==
  /\ \A d \in Callers \ {c} : caller'[d] = caller[d]
  /\ caller'[c].pc # "write"

\* The task as a record.
LEMMA RestsIs ==
  ASSUME Inv, NEW c \in Callers, NEW x, x.pc # "write", caller' = [caller EXCEPT ![c] = x]
  PROVE  Rests(c)
BY DEF Inv, TypeOK, Rests

\* A step that stores nothing.
LEMMA TaughtNothing ==
  ASSUME NEW c \in Callers, Rests(c), sources' = sources
  PROVE  Taught
BY DEF Rests, Taught, Passed, Formed, At, Turn

\* A step that stores the candidate that had passed: no other task is about its turn.
LEMMA TaughtOne ==
  ASSUME Inv, NEW c \in Callers, At(c, "write"), Rests(c), NEW t, t = Turn(c),
         NEW id, Grown(t, id)
  PROVE  Taught
<1>1. Busy(c)
  BY DEF At, Busy
<1>2. \A d \in Callers \ {c} : Busy(d) => Turn(d) # t
  BY <1>1, TaskFacts
<1>3. \A d \in Callers : At(d, "write")' => d # c /\ At(d, "write") /\ Turn(d)' = Turn(d)
  BY DEF Rests, At, Turn
<1>4. Passed' \subseteq Passed
  BY <1>3 DEF Passed
<1>5. t \in Passed
  BY DEF Passed
<1>6. t \notin Passed'
  <2>1. \A d \in Callers : At(d, "write")' => Turn(d)' # t
    BY <1>2, <1>3 DEF At, Busy
  <2> QED  BY <2>1 DEF Passed
<1>7. \A u \in Turns \ {t} : Formed(u)' = Formed(u)
  BY DEF Grown
<1> QED  BY <1>4, <1>5, <1>6, <1>7 DEF Taught

\* A step that takes the task on, but not to a write.
LEMMA GoesToRest ==
  ASSUME Inv, NEW c \in Callers, Busy(c), NEW pc \in {"extract", "candidates", "failed"},
         Go(c, pc)
  PROVE  Rests(c)
<1>1. pc \in {"extract", "candidates", "write", "failed"}
  OBVIOUS
<1>2. PICK x \in Task :
        /\ caller' = [caller EXCEPT ![c] = x]
        /\ x.pc = pc /\ x.turn = Turn(c) /\ x.todo = caller[c].todo
        /\ x.decisions = caller[c].decisions
  BY <1>1, GoesTo, Zenon
<1>3. x.pc # "write"
  BY <1>2
<1> QED  BY <1>2, <1>3, RestsIs

\* Neither is a write left after a decision.
LEMMA DecidedRests ==
  ASSUME Inv, NEW c \in Callers, Busy(c), caller[c].todo # <<>>,
         NEW action \in Actions \cup {"rejected", "failed"}, NEW id \in Nat,
         Decided(c, action, id)
  PROVE  Rests(c)
<1>1. PICK x \in Task :
        /\ caller' = [caller EXCEPT ![c] = x]
        /\ x.pc = "candidates" /\ x.turn = Turn(c)
        /\ Named(x.decisions) = (Named(caller[c].decisions) \cup {id}) \ {0}
        /\ Flawless(x.decisions) <=> Flawless(caller[c].decisions) /\ action # "failed"
  <2>1. \A a \in Actions \cup {"rejected", "failed"}, i \in Nat :
          Decided(c, a, i) =>
            \E x \in Task :
              /\ caller' = [caller EXCEPT ![c] = x]
              /\ x.pc = "candidates" /\ x.turn = Turn(c)
              /\ Named(x.decisions) = (Named(caller[c].decisions) \cup {i}) \ {0}
              /\ Flawless(x.decisions) <=> Flawless(caller[c].decisions) /\ a # "failed"
    BY DecidedIs, Zenon
  <2> QED  BY <2>1
<1>2. x.pc # "write"
  BY <1>1
<1> QED  BY <1>1, <1>2, RestsIs

\* The steps of a submit call and of a task, once the conversation is deleted.
LEMMA StepTeaches ==
  ASSUME Inv, NEW c \in Callers, deleted, Step(c)
  PROVE  Taught
<1>1. CASE \E t \in Turns : Submit(c, t)
  <2>1. PICK t \in Turns : Submit(c, t)
    BY <1>1
  <2>2. PICK x : x = (IF Trigger(input[t]) = "skipped" THEN Idle ELSE Begin(t))
    OBVIOUS
  <2>3. x.pc # "write"
    BY <2>2 DEF Idle, Begin
  <2>4. caller' = [caller EXCEPT ![c] = x] /\ sources' = sources
    BY <2>1, <2>2 DEF Submit
  <2> QED  BY <2>3, <2>4, RestsIs, TaughtNothing
<1>2. CASE \E t \in Turns : ClaimIsLost(c, t)
  <2>1. caller' = caller /\ sources' = sources
    BY <1>2 DEF ClaimIsLost
  <2> QED  BY <2>1 DEF Taught, Passed, Formed, At, Turn
<1>3. CASE Finish(c) \/ Vanish(c)
  <2>1. caller' = [caller EXCEPT ![c] = Idle] /\ sources' = sources
    BY <1>3 DEF Finish, Vanish
  <2>2. Idle.pc # "write"
    BY DEF Idle
  <2> QED  BY <2>1, <2>2, RestsIs, TaughtNothing
<1>4. CASE Process(c) \/ AuditRaises(c)
  <2>1. Busy(c) /\ sources' = sources
    BY <1>4 DEF Process, AuditRaises, At, Busy
  <2>2. Go(c, "extract") \/ Go(c, "failed")
    BY <1>4 DEF Process, AuditRaises
  <2> QED  BY <2>1, <2>2, GoesToRest, TaughtNothing
<1>5. CASE Extract(c)
  <2>1. Busy(c) /\ sources' = sources /\ Turn(c) \in Turns
    BY <1>5, TaskFacts DEF Extract, At, Busy
  <2>2. CASE Go(c, "failed")
    BY <2>1, <2>2, GoesToRest, TaughtNothing
  <2>3. CASE \E todo \in Seq(Said) : Extracted(c, todo)
    <3>1. PICK todo \in Seq(Said) : Extracted(c, todo)
      BY <2>3
    <3>2. PICK x \in Task :
            /\ caller' = [caller EXCEPT ![c] = x]
            /\ x.pc = "candidates" /\ x.turn = Turn(c) /\ x.todo = todo
            /\ x.decisions = caller[c].decisions
      BY <2>1, <3>1, ExtractedIs, Zenon
    <3>3. x.pc # "write"
      BY <3>2
    <3> QED  BY <2>1, <3>2, <3>3, RestsIs, TaughtNothing
  <2> QED  BY <1>5, <2>2, <2>3, ExtractionIs
<1>6. CASE Govern(c) \/ GovernRaises(c)
  <2>1. Busy(c) /\ caller[c].todo # <<>> /\ sources' = sources
    BY <1>6 DEF Govern, GovernRaises, At, Busy
  <2>2. Decided(c, "rejected", 0) \/ Decided(c, "failed", 0)
    BY <1>6 DEF Govern, GovernRaises
  <2>3. 0 \in Nat /\ {"rejected", "failed"} \subseteq Actions \cup {"rejected", "failed"}
    OBVIOUS
  <2> QED  BY <2>1, <2>2, <2>3, DecidedRests, TaughtNothing
<1>7. CASE Write(c) \/ WriteRaises(c)
  <2>0. PICK t : t = Turn(c)
    OBVIOUS
  <2>1. Busy(c) /\ At(c, "write") /\ input' = input
    BY <1>7 DEF Write, WriteRaises, At, Busy
  <2>2. caller[c].todo # <<>>
    BY <2>1, TaskFacts
  <2>3. Rests(c)
    <3>1. CASE Write(c)
      <4>1. PICK action \in Actions, id \in 1..(Len(rows) + 1) : Decided(c, action, id)
        BY <3>1 DEF Write
      <4>2. id \in Nat /\ action \in Actions \cup {"rejected", "failed"}
        OBVIOUS
      <4> QED  BY <2>1, <2>2, <4>1, <4>2, DecidedRests
    <3>2. CASE WriteRaises(c)
      <4>1. Decided(c, "failed", 0)
        BY <3>2 DEF WriteRaises
      <4>2. 0 \in Nat /\ "failed" \in Actions \cup {"rejected", "failed"}
        OBVIOUS
      <4> QED  BY <2>1, <2>2, <4>1, <4>2, DecidedRests
    <3> QED  BY <1>7, <3>1, <3>2
  <2>4. CASE sources' = sources
    BY <2>3, <2>4, TaughtNothing
  <2>5. CASE \E action \in Actions, id \in 1..(Len(rows) + 1) : Written(c, action, id)
    <3>1. PICK action \in Actions, id \in 1..(Len(rows) + 1) : Written(c, action, id)
      BY <2>5
    <3>2. Grown(t, id)
      BY <2>0, <2>1, <3>1, WrittenIs
    <3> QED  BY <2>0, <2>1, <2>3, <3>2, TaughtOne
  <2> QED  BY <1>7, <2>4, <2>5 DEF Write, WriteRaises
<1> QED  BY <1>1, <1>2, <1>3, <1>4, <1>5, <1>6, <1>7 DEF Step, Advance

\* However many tasks are under way when the conversation is deleted, none stores more
\* than the one candidate whose sources had been checked before.
THEOREM DeletedIsNotLearned == Spec => DeletedTeachesNothing
<1>1. ASSUME Inv, [Next]_vars PROVE [deleted => Taught]_vars
  <2>1. CASE UNCHANGED vars
    BY <2>1
  <2>2. CASE \E c \in Callers : Step(c)
    BY <1>1, <2>2, StepTeaches
  <2>3. CASE DeleteConversation
    BY <2>3 DEF DeleteConversation
  <2> QED  BY <1>1, <2>1, <2>2, <2>3 DEF Next
<1>2. Inv /\ [Next]_vars =>
        [deleted =>
           /\ Passed' \subseteq Passed
           /\ \A t \in Turns : Formed(t)' # Formed(t) => t \in Passed \ Passed']_vars
  BY <1>1 DEF Taught
<1> QED  BY <1>2, Invariant, PTL DEF Spec, DeletedTeachesNothing
=============================================================================
