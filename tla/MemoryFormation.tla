-------------------------- MODULE MemoryFormation --------------------------
(***************************************************************************)
(* What a finished turn leaves in long-term memory: eligibility, the claim *)
(* of the formation, extraction, governance, the writes and their audit    *)
(* (app/agent/memory/formation_service.py and what it calls).              *)
(*                                                                         *)
(* Finalization calls submit when it closes a turn and again when it       *)
(* reconciles one, in this process or another; a caller is one such call   *)
(* and the background task it may start.  The turns are those of one       *)
(* conversation, which its user may delete meanwhile.  A write is one step *)
(* here, MemoryStore takes it apart.                                       *)
(***************************************************************************)
EXTENDS MemoryIdentity, SequencesExt

CONSTANTS Turns,
          Callers,
          Inputs,       \* what a turn may be: [status, intent, answer, scan]
          Proposals,    \* what the LLM may propose: sequences of candidates
          Plain(_),     \* the candidate made of what the user said in a turn
          Attachment(_),\* the candidate made of the turn's attachment
          HasLLM,
          NoForm,
          MaxFaults     \* bound: raising transactions, lost tasks

\* The candidates there can be, each for one write request.
Said == UNION ({ToSet(s) : s \in Proposals}
               \cup {ToSet(Plain(t)) \cup ToSet(Attachment(t)) : t \in Turns})

Asked(field) == {p.request[field] : p \in Said}

Statuses == {"pending", "processing", "completed", "partial", "skipped", "failed"}
Over == {"completed", "partial", "skipped", "failed"}
Actions == {"created", "duplicate", "replaced"}

Decision == [action : Actions \cup {"rejected", "failed"}, id : Nat]
Form == [status : Statuses, decisions : Seq(Decision)]

ASSUME FormationAssumption ==
  /\ Proposals \subseteq Seq(Said)
  /\ \A t \in Turns : Plain(t) \in Seq(Said) /\ Attachment(t) \in Seq(Said)
  /\ \A p \in Said :
       p.request \in [kind : Asked("kind"), key : Asked("key"), when : Asked("when"),
                     text : Asked("text"), value : Asked("value"), scope : Asked("scope")]
  /\ NoForm \notin Form

VARIABLES
  input,    \* the ledger's TurnMemoryInput of each turn
  form,     \* memory_formation_runs by formation key, which names the turn
  caller,   \* running submit calls and background tasks
  rows,     \* agent_memories
  sources,  \* memory_sources: the turns each row comes from
  faults,
  lost,     \* history: turns whose task was lost or could not be audited
  deleted   \* the conversation is deleted, and the rows of its turns with it

vars == <<input, form, caller, rows, sources, faults, lost, deleted>>

Idle == [pc |-> "idle"]

Init ==
  /\ input \in [Turns -> Inputs]
  /\ form = [t \in Turns |-> NoForm]
  /\ caller = [c \in Callers |-> Idle]
  /\ rows = <<>>
  /\ sources = <<>>
  /\ faults = 0
  /\ lost = {}
  /\ deleted = FALSE

At(c, pc) == caller[c].pc = pc
Turn(c) == caller[c].turn

Fault ==
  /\ faults < MaxFaults
  /\ faults' = faults + 1

\* MemoryEligibilityEvaluator.evaluate; the text decides the intent.
Trigger(in) ==
  IF in.status \notin {"completed", "partial"} \/ in.intent = "do not" THEN "skipped"
  ELSE IF in.intent = "remember" THEN "explicit_request"
  ELSE IF HasLLM /\ in.answer THEN "automatic"
  ELSE "skipped"

NewForm(in) ==
  [status |-> IF Trigger(in) = "skipped" THEN "skipped" ELSE "pending",
   decisions |-> <<>>]

Begin(t) == [pc |-> "begin", turn |-> t, todo |-> <<>>, decisions |-> <<>>]

\* Mutant of Submit: the claim is not asked for.
SubmitAgain(c, t) ==
  /\ At(c, "idle")
  /\ form' = [form EXCEPT ![t] = NewForm(input[t])]
  /\ caller' = [caller EXCEPT ![c] =
       IF Trigger(input[t]) = "skipped" THEN Idle ELSE Begin(t)]
  /\ UNCHANGED <<input, rows, sources, faults, lost, deleted>>

\* The first call claims the formation key; later ones return the record as
\* it is, finished or not.
Submit(c, t) ==
  /\ At(c, "idle")
  /\ form[t] = NoForm
  /\ form' = [form EXCEPT ![t] = NewForm(input[t])]
  /\ caller' = [caller EXCEPT ![c] =
       IF Trigger(input[t]) = "skipped" THEN Idle ELSE Begin(t)]
  /\ UNCHANGED <<input, rows, sources, faults, lost, deleted>>

\* The claim raises although it is committed: nobody works on it.
ClaimIsLost(c, t) ==
  /\ At(c, "idle")
  /\ form[t] = NoForm
  /\ Fault
  /\ form' = [form EXCEPT ![t] = NewForm(input[t])]
  /\ lost' = lost \cup {t}
  /\ UNCHANGED <<input, caller, rows, sources, deleted>>

(* process: every transaction may raise.                                    *)

Go(c, pc) == caller' = [caller EXCEPT ![c].pc = pc]

\* The record shows that somebody works on it.
Process(c) ==
  /\ At(c, "begin")
  /\ form' = [form EXCEPT ![Turn(c)].status = "processing"]
  /\ Go(c, "extract")
  /\ UNCHANGED <<input, rows, sources, faults, lost, deleted>>

Extracted(c, candidates) ==
  caller' = [caller EXCEPT ![c].pc = "candidates", ![c].todo = candidates]

\* What an explicit request falls back to, with the attachment it names.
Fallback(t, proposed) ==
  (IF proposed = <<>> THEN Plain(t) ELSE proposed)
    \o (IF input[t].scan THEN Attachment(t) ELSE <<>>)

\* _extract: an LLM that raises costs an automatic formation, not an
\* explicit one; an attachment that cannot be read costs either.
Extract(c) ==
  /\ At(c, "extract")
  /\ LET t == Turn(c)
         explicit == Trigger(input[t]) = "explicit_request"
     IN  \/ /\ HasLLM
            /\ \E proposed \in Proposals :
                 Extracted(c, IF explicit THEN Fallback(t, proposed) ELSE proposed)
         \/ /\ explicit
            /\ Extracted(c, Fallback(t, <<>>))
         \/ /\ explicit => input[t].scan
            /\ Go(c, "failed")
  /\ UNCHANGED <<input, form, rows, sources, faults, lost, deleted>>

Decided(c, action, id) ==
  caller' = [caller EXCEPT ![c].todo = Tail(@), ![c].pc = "candidates",
               ![c].decisions = Append(@, [action |-> action, id |-> id])]

Candidate(c) == Head(caller[c].todo)

\* Mutant of Govern: a refusal is only noted.
GovernLeniently(c) ==
  /\ At(c, "candidates") /\ caller[c].todo # <<>>
  /\ Go(c, "write")
  /\ UNCHANGED <<input, form, rows, sources, faults, lost, deleted>>

\* Mutant of Govern: the turn is taken for what the ledger says of it.
GovernFromLedger(c) ==
  /\ At(c, "candidates") /\ caller[c].todo # <<>>
  /\ IF Candidate(c).fit THEN Go(c, "write") ELSE Decided(c, "rejected", 0)
  /\ UNCHANGED <<input, form, rows, sources, faults, lost, deleted>>

\* governance.govern: length, secrets, confidence, declared sources and scope,
\* and that the turn is there to come from.
Govern(c) ==
  /\ At(c, "candidates") /\ caller[c].todo # <<>>
  /\ IF Candidate(c).fit /\ ~deleted THEN Go(c, "write") ELSE Decided(c, "rejected", 0)
  /\ UNCHANGED <<input, form, rows, sources, faults, lost, deleted>>

\* A source cannot be looked up: the other candidates go on.
GovernRaises(c) ==
  /\ At(c, "candidates") /\ caller[c].todo # <<>>
  /\ Fault
  /\ Decided(c, "failed", 0)
  /\ UNCHANGED <<input, form, rows, sources, lost, deleted>>

\* write_managed for the next candidate; the turn is always its source.
Written(c, action, id) ==
  LET m == Candidate(c).request
      ids == Found(rows, m)
      AddSource(s, i) == [s EXCEPT ![i] = @ \cup {Turn(c)}]
  IN  IF ids = {}
      THEN /\ <<action, id>> = <<"created", Len(rows) + 1>>
           /\ rows' = Create(rows, m)
           /\ sources' = Append(sources, {Turn(c)})
      ELSE \E cur \in Newest(rows, ids) :
             IF SamePayload(m, rows[cur])
             THEN /\ <<action, id>> = <<"duplicate", cur>>
                  /\ sources' = AddSource(sources, cur)
                  /\ UNCHANGED rows
             ELSE /\ <<action, id>> = <<"replaced", Len(rows) + 1>>
                  /\ rows' = Replace(rows, m, cur)
                  /\ sources' = Append(sources, {Turn(c)})

Write(c) ==
  /\ At(c, "write")
  /\ \E action \in Actions, id \in 1..(Len(rows) + 1) :
       Written(c, action, id) /\ Decided(c, action, id)
  /\ UNCHANGED <<input, form, faults, lost, deleted>>

\* The write raises; its transaction may have been committed all the same.
WriteRaises(c) ==
  /\ At(c, "write")
  /\ Fault
  /\ \/ UNCHANGED <<rows, sources>>
     \/ \E action \in Actions, id \in 1..(Len(rows) + 1) : Written(c, action, id)
  /\ Decided(c, "failed", 0)
  /\ UNCHANGED <<input, form, lost, deleted>>

\* Mutant of Verdict: failed candidates do not count.
AlwaysCompleted(decisions) == "completed"

Verdict(decisions) ==
  IF \E i \in DOMAIN decisions : decisions[i].action = "failed"
  THEN "partial" ELSE "completed"

Audited(c, status) ==
  form' = [form EXCEPT ![Turn(c)] =
             [status |-> status, decisions |-> caller[c].decisions]]

\* Mutant of Finish: a failed extraction is not recorded.
FinishCandidates(c) ==
  /\ At(c, "candidates") /\ caller[c].todo = <<>>
  /\ Audited(c, Verdict(caller[c].decisions))
  /\ caller' = [caller EXCEPT ![c] = Idle]
  /\ UNCHANGED <<input, rows, sources, faults, lost, deleted>>

\* The decisions are recorded with the status, and the call or the task ends.
Finish(c) ==
  /\ \/ /\ At(c, "candidates") /\ caller[c].todo = <<>>
        /\ Audited(c, Verdict(caller[c].decisions))
     \/ /\ At(c, "failed")
        /\ Audited(c, "failed")
  /\ caller' = [caller EXCEPT ![c] = Idle]
  /\ UNCHANGED <<input, rows, sources, faults, lost, deleted>>

\* An update of the record raises: the formation is recorded as failed, with
\* the decisions it has.
AuditRaises(c) ==
  /\ At(c, "begin") \/ (At(c, "candidates") /\ caller[c].todo = <<>>)
  /\ Fault
  /\ \/ UNCHANGED form
     \/ At(c, "begin") /\ form' = [form EXCEPT ![Turn(c)].status = "processing"]
     \/ At(c, "candidates") /\ Audited(c, Verdict(caller[c].decisions))
  /\ Go(c, "failed")
  /\ UNCHANGED <<input, rows, sources, lost, deleted>>

\* The task is lost with its process, or cannot even record its failure.
\* Nothing takes it up again: the claim stays.
Vanish(c) ==
  /\ ~At(c, "idle")
  /\ Fault
  /\ lost' = lost \cup {Turn(c)}
  /\ caller' = [caller EXCEPT ![c] = Idle]
  /\ UNCHANGED <<input, form, rows, sources, deleted>>

\* delete_conversation, whatever is being formed from its turns.
DeleteConversation ==
  /\ ~deleted
  /\ deleted' = TRUE
  /\ UNCHANGED <<input, form, caller, rows, sources, faults, lost>>

Advance(c) == Process(c) \/ Extract(c) \/ Govern(c) \/ Write(c) \/ Finish(c)

Step(c) ==
  \/ \E t \in Turns : Submit(c, t) \/ ClaimIsLost(c, t)
  \/ Advance(c)
  \/ GovernRaises(c) \/ WriteRaises(c) \/ AuditRaises(c) \/ Vanish(c)

Next == (\E c \in Callers : Step(c)) \/ DeleteConversation

Spec == Init /\ [][Next]_vars

\* The extractor and the database answer.
FairSpec == Spec /\ \A c \in Callers : WF_vars(Advance(c))
-----------------------------------------------------------------------------
Status(t) == IF form[t] = NoForm THEN "none" ELSE form[t].status

Task == [pc : {"begin", "extract", "candidates", "write", "failed"}, turn : Turns,
         todo : Seq(Said), decisions : Seq(Decision)]

Row == [kind : Asked("kind"), key : Asked("key"), when : Asked("when"),
        text : Asked("text"), value : Asked("value"), scope : Asked("scope"),
        status : {"active", "superseded"}, version : Nat, prev : Nat, expiry : {"never"}]

TurnSet == (SUBSET Turns) \ {{}}

\* The types of the variables.
TypeOK ==
  /\ input \in [Turns -> Inputs]
  /\ form \in [Turns -> Form \cup {NoForm}]
  /\ caller \in [Callers -> Task \cup {Idle}]
  /\ rows \in Seq(Row)
  /\ sources \in Seq(TurnSet)
  /\ Len(sources) = Len(rows)
  /\ lost \subseteq Turns
  /\ deleted \in BOOLEAN

\* The memories that come from a turn.
Formed(t) == {i \in DOMAIN sources : t \in sources[i]}

\* A formation is worked on once: after it is over no memory gains or loses
\* the turn as a source and no decision changes, whoever submits it again.
FormedOnce ==
  [][\A t \in Turns : Status(t) \in Over =>
       /\ Status(t)' \in Over
       /\ form'[t].decisions = form[t].decisions
       /\ Formed(t)' = Formed(t)]_vars

\* The audit tells the truth: the memories it names come from the turn, and
\* unless something failed or got lost they are all that do.
AuditTellsTheTruth ==
  \A t \in Turns :
    LET named == {form[t].decisions[i].id : i \in DOMAIN form[t].decisions} \ {0}
    IN  Status(t) \in Over =>
          /\ named \subseteq Formed(t)
          /\ Status(t) \in {"completed", "skipped"} => Formed(t) = named

\* Nothing is stored from a turn that failed or that the user did not want
\* remembered, and nothing governance has refused.
OnlyWhatMayBeStored ==
  \A i \in DOMAIN rows :
    /\ \A t \in sources[i] : input[t].status \in {"completed", "partial"}
                             /\ input[t].intent # "do not"
    /\ \E p \in Said : p.fit /\ \A f \in DOMAIN p.request : rows[i][f] = p.request[f]

\* The turns with a candidate that governance has let through and that is not
\* stored yet.
Passed == {Turn(c) : c \in {d \in Callers : At(d, "write")}}

\* From a deleted conversation nothing more is learned: of each of its turns a
\* memory may still come of the one candidate whose sources were checked before
\* (governance.py:48), and no other candidate passes.
DeletedTeachesNothing ==
  [][deleted =>
       /\ Passed' \subseteq Passed
       /\ \A t \in Turns : Formed(t)' # Formed(t) => t \in Passed \ Passed']_vars

\* A claimed formation ends, unless its task is lost.
FormationEnds ==
  \A t \in Turns :
    Status(t) \in {"pending", "processing"} ~> (Status(t) \in Over \/ t \in lost)
=============================================================================
