---------------------------- MODULE ContextBuild ----------------------------
(***************************************************************************)
(* Building the context of a run: the conversation's messages, the         *)
(* incremental summary that every build may extend, what is chosen for the *)
(* model and the build's audit row (app/agent/context_engine/engine.py,    *)
(* history.py, app/repositories/context_repository.py).                    *)
(*                                                                         *)
(* The turns of one conversation run here, MaxLive at a time: a run whose  *)
(* place was freed while it still works overlaps its successor, as         *)
(* ConversationRuns shows.  A message is its index in the conversation.    *)
(***************************************************************************)
EXTENDS ContextSelection

CONSTANTS Turns, AnswerSizes, Bases,
          Requests,       \* what a turn may begin with: [size, assets]
          Recalled,       \* what recall may return: sets of items
          SummaryMax,
          NoSummary,
          MaxLive,        \* bound: runs of the conversation at work
          MaxBuilds,      \* bound: contexts built, all turns together
          MaxFaults       \* bound: failed and interrupted builds

Summary == [text : SUBSET Nat, from : Nat, through : Nat, count : Nat, size : Nat]

\* An attachment is named once, and only attachments are direct; what is
\* recalled is no part of the conversation.
ASSUME ItemsAssumption ==
  /\ NoSummary \notin Summary
  /\ AnswerSizes \cup Bases \subseteq Nat /\ SummaryMax \in Nat
  /\ \A r \in Requests :
       /\ r.size \in Nat /\ IsFiniteSet(r.assets)
       /\ r.assets \subseteq {i \in Item : i.required /\ i.direct /\ ~IsHistory(i)}
       /\ \A a, b \in r.assets : a.key = b.key => a = b
       /\ \A recalled \in Recalled : \A i, j \in r.assets \cup recalled :
            i.id = j.id \/ i.rank = j.rank => i = j
  /\ \A recalled \in Recalled :
       /\ IsFiniteSet(recalled)
       /\ recalled \subseteq {i \in Item : ~i.direct /\ ~IsHistory(i)}

VARIABLES
  messages,  \* conversation_messages: [turn, size], by created_at
  turn,      \* conversation_turns: [status, assets]
  summary,   \* context_conversation_summaries
  build,     \* the build at work in each turn
  audit,     \* context_build_runs of each turn: their status, the last one current
  faults

vars == <<messages, turn, summary, build, audit, faults>>

NoBuild == [pc |-> "idle"]

Init ==
  /\ messages = <<>>
  /\ turn = [t \in Turns |-> [status |-> "new", assets |-> {}]]
  /\ summary = NoSummary
  /\ build = [t \in Turns |-> NoBuild]
  /\ audit = [t \in Turns |-> <<>>]
  /\ faults = 0

At(t, pc) == build[t].pc = pc
Running(t) == turn[t].status = "running"
Excluded(i) == turn[messages[i].turn].status = "budget_exceeded"
Size(i) == messages[i].size

StartTurn(t) ==
  /\ turn[t].status = "new"
  /\ Cardinality({u \in Turns : Running(u)}) < MaxLive
  /\ \E r \in Requests :
       /\ messages' = Append(messages, [turn |-> t, size |-> r.size])
       /\ turn' = [turn EXCEPT ![t] = [status |-> "running", assets |-> r.assets]]
  /\ UNCHANGED <<summary, build, audit, faults>>

\* The next start_turn may close the turn of a run that failed or never began
\* without an answer; every run that reaches finish_turn has one.
Unanswered(t) == At(t, "failed") \/ audit[t] = <<>>

\* finish_turn: the answer, unless it is empty, is a message like any other, but
\* the messages of a turn that ran out of budget are withdrawn, and the summary
\* with them.
FinishTurn(t) ==
  /\ Running(t) /\ build[t].pc \in {"idle", "failed", "exceeded"}
  /\ LET status == CASE At(t, "failed") -> "failed"
                     [] At(t, "exceeded") -> "budget_exceeded"
                     [] OTHER -> "completed"
     IN  /\ turn' = [turn EXCEPT ![t].status = status]
         /\ summary' = IF status = "budget_exceeded" THEN NoSummary ELSE summary
  /\ \/ \E n \in AnswerSizes :
          messages' = Append(messages, [turn |-> t, size |-> n])
     \/ Unanswered(t) /\ UNCHANGED messages
  /\ build' = [build EXCEPT ![t] = NoBuild]
  /\ UNCHANGED <<audit, faults>>

Close(t, status) == audit' = [audit EXCEPT ![t] = Append(Front(@), status)]

Fault ==
  /\ faults < MaxFaults
  /\ faults' = faults + 1

\* An exception leaves _build; the attempt to close the row may fail too.
Raise(t, pc) ==
  /\ build' = [build EXCEPT ![t] = [pc |-> pc]]
  /\ \/ Close(t, "failed") /\ UNCHANGED faults
     \/ Fault /\ UNCHANGED audit
  /\ UNCHANGED <<messages, turn, summary>>

StartBuild(t) ==
  /\ Running(t) /\ At(t, "idle")
  /\ FoldSet(LAMBDA u, n : Len(audit[u]) + n, 0, Turns) < MaxBuilds
  /\ audit' = [audit EXCEPT ![t] = Append(@, "pending")]
  /\ \E base \in Bases :
       build' = [build EXCEPT ![t] =
         [pc |-> IF base > TokenBudget THEN "refuse" ELSE "load", base |-> base]]
  /\ UNCHANGED <<messages, turn, summary, faults>>

Refuse(t) ==
  /\ At(t, "refuse")
  /\ Raise(t, "exceeded")

\* WorkingMemory.load numbers the messages before it leaves any out.
Loaded == {i \in 1..Len(messages) : ~Excluded(i)}

\* The working memory is read, the references are resolved (a turn's own
\* attachments: stored messages name none) and the retrieval is planned.
Load(t) ==
  /\ At(t, "load")
  /\ \E plansWorking \in BOOLEAN :
       LET history == plansWorking /\ CandidateBudget(build[t].base) > 0
       IN  build' = [build EXCEPT ![t] =
             [pc |-> IF history THEN "read summary" ELSE "gather", base |-> @.base,
              loaded |-> IF history THEN Loaded ELSE {}, summary |-> NoSummary,
              recent |-> {}, older |-> {}]]
  /\ UNCHANGED <<messages, turn, summary, audit, faults>>

\* Split the messages the summary does not cover: the recent window stays,
\* what is older goes into the summary.
Uncovered(b, existing) ==
  {i \in b.loaded : existing = NoSummary \/ i > existing.through}

ReadSummary(t) ==
  /\ At(t, "read summary")
  /\ LET b == build[t]
         uncovered == Uncovered(b, summary)
         recent == Recent([i \in uncovered |-> Size(i)],
                          WindowBudget(HistoryBudget(CandidateBudget(b.base))))
         older == uncovered \ recent
     IN  build' = [build EXCEPT ![t] =
           [pc |-> IF older = {} THEN "gather" ELSE "summarise", base |-> b.base,
            loaded |-> b.loaded, summary |-> summary, recent |-> recent, older |-> older]]
  /\ UNCHANGED <<messages, turn, summary, audit, faults>>

\* Mutant of Extended: the earlier summary is not carried over.
Rewritten(existing, older) ==
  [text |-> older, from |-> Min(older), through |-> Max(older),
   count |-> Cardinality(older), size |-> SummaryMax]

\* _update_summary; a summary of many batches still covers them all, the
\* fallback when the model fails included.
Extended(existing, older) ==
  LET had == existing # NoSummary
  IN  [text |-> older \cup (IF had THEN existing.text ELSE {}),
       from |-> IF had THEN existing.from ELSE Min(older),
       through |-> Max(older),
       count |-> Cardinality(older) + (IF had THEN existing.count ELSE 0),
       size |-> SummaryMax]

\* save_summary replaces a summary that covers less.
Replaces(new) == summary = NoSummary \/ new.through > summary.through

SaveSummary(t) ==
  /\ At(t, "summarise")
  /\ LET new == Extended(build[t].summary, build[t].older)
     IN  IF Replaces(new)
         THEN /\ summary' = new
              /\ build' = [build EXCEPT ![t].summary = new, ![t].pc = "gather", ![t].older = {}]
         ELSE /\ build' = [build EXCEPT ![t].summary = NoSummary, ![t].pc = "reread"]
              /\ UNCHANGED summary
  /\ UNCHANGED <<messages, turn, audit, faults>>

\* The row that won is read in a transaction of its own; it may be gone.
Reread(t) ==
  /\ At(t, "reread")
  /\ \/ /\ summary # NoSummary
        /\ build' = [build EXCEPT ![t].summary = summary, ![t].pc = "gather"]
        /\ UNCHANGED <<messages, turn, summary, audit, faults>>
     \/ /\ summary = NoSummary
        /\ Raise(t, "failed")

SummaryItem(s) ==
  [id |-> 0, kind |-> "summary", size |-> s.size, score |-> 75, required |-> FALSE,
   direct |-> FALSE, rank |-> 0, key |-> "", body |-> "summary", index |-> 0]

WorkingItem(i, position) ==
  [id |-> i, kind |-> "working", size |-> Size(i), score |-> 50 + position,
   required |-> FALSE, direct |-> FALSE, rank |-> 0, key |-> "", body |-> "message",
   index |-> i]

\* What is remembered of an attachment of the turn is as required as that.
Marked(i, assets) == [i EXCEPT !.required = \E a \in assets : a.key = i.key]

Candidates(b, recalled, assets) ==
  (IF b.summary = NoSummary THEN {} ELSE {SummaryItem(b.summary)})
    \cup {WorkingItem(i, Cardinality({j \in b.recent : j <= i})) : i \in b.recent}
    \cup {Marked(i, assets) : i \in recalled} \cup assets

\* Recall, deduplication, selection and the final fit; the trace and the
\* compiled messages come of the same items.
Compile(t) ==
  /\ At(t, "gather")
  /\ \E recalled \in Recalled :
       LET b == build[t]
           candidates == Deduplicate(Candidates(b, recalled, turn[t].assets))
           selection == Select(candidates, CandidateBudget(b.base))
           items == FitCompiled(b.base, selection.chosen)
           tokens == CompiledTokens(b.base, items)
       IN  IF selection.failed \/ tokens > TokenBudget
           THEN Raise(t, "exceeded")
           ELSE /\ build' = [build EXCEPT ![t] =
                     [pc |-> "compiled", base |-> b.base, loaded |-> b.loaded,
                      summary |-> b.summary, recent |-> b.recent, older |-> b.older,
                      items |-> items,
                      dropped |-> selection.chosen \ items]]
                /\ UNCHANGED <<messages, turn, summary, audit, faults>>

FinishBuild(t) ==
  /\ At(t, "compiled")
  /\ Close(t, "completed")
  /\ build' = [build EXCEPT ![t] = NoBuild]
  /\ UNCHANGED <<messages, turn, summary, faults>>

Building(t) == build[t].pc \notin {"idle", "failed", "exceeded"}

\* A read, a write, the retriever or an attachment's check fails.
Fail(t) ==
  /\ Building(t) /\ Fault
  /\ Close(t, "failed")
  /\ build' = [build EXCEPT ![t] = [pc |-> "failed"]]
  /\ UNCHANGED <<messages, turn, summary>>

\* Cancellation or the deadline of the loop: no handler closes the row.
Cancel(t) ==
  /\ Building(t) /\ Fault
  /\ build' = [build EXCEPT ![t] = [pc |-> "failed"]]
  /\ UNCHANGED <<messages, turn, summary, audit>>

Step(t) ==
  \/ StartTurn(t) \/ FinishTurn(t)
  \/ StartBuild(t) \/ Refuse(t) \/ Load(t) \/ ReadSummary(t) \/ SaveSummary(t) \/ Reread(t)
  \/ Compile(t) \/ FinishBuild(t) \/ Fail(t) \/ Cancel(t)

Finished == \A t \in Turns : turn[t].status \notin {"new", "running"}

Next == (\E t \in Turns : Step(t)) \/ (Finished /\ UNCHANGED vars)

Spec == Init /\ [][Next]_vars

-----------------------------------------------------------------------------
TypeOK ==
  /\ messages \in Seq([turn : Turns, size : {r.size : r \in Requests} \cup AnswerSizes])
  /\ \A t \in Turns :
       turn[t].status \in {"new", "running", "completed", "failed", "budget_exceeded"}
  /\ summary # NoSummary =>
       /\ 1 <= summary.from /\ summary.from <= summary.through /\ summary.through <= Len(messages)
       /\ summary.count = Cardinality(summary.text)
  /\ audit \in [Turns -> Seq({"pending", "completed", "failed"})]

\* Whatever builds extended the summary, in whatever order they read and wrote
\* it, it tells every message up to where it says it reaches, the withdrawn
\* ones excepted: a build leaves those messages out of its window.
SummaryHasNoGap ==
  summary # NoSummary =>
    \A i \in 1..summary.through : Excluded(i) \/ i \in summary.text

\* What lets a policy keep the conversation: a summary and messages it does
\* not reject as irrelevant and does not cut to nothing.
RoomForHistory(b) ==
  LET history == HistoryBudget(CandidateBudget(b.base))
  IN  /\ (history * RecentPercent) \div 100 >= MinCompression
      /\ SummaryBudget(history) >= MinCompression
      /\ MaxItem >= MinCompression /\ MinScore <= 50

\* Of each message that was read: it is there in full or cut down, it is told
\* by the summary that is there, or it has been withdrawn.
ConversationIsRead(b) ==
  \A i \in b.loaded :
    \/ Excluded(i)
    \/ \E item \in b.items : item.kind = "working" /\ item.id = i
    \/ /\ b.summary # NoSummary /\ i \in b.summary.text
       /\ \E item \in b.items : item.kind = "summary"

\* A build with room for history that has a window and no attachments, and has
\* not lost anything to the final fit.
ReadsHistory(t) ==
  /\ At(t, "compiled") /\ build[t].recent # {}
  /\ turn[t].assets = {} /\ build[t].dropped = {} /\ RoomForHistory(build[t])

\* The build's summary was refused for one that covers as much, and before
\* it read that one, a turn was withdrawn with it and another build wrote one
\* that covers less.
Outrun(b) == \E i \in b.older : i > b.summary.through

\* The window the history manager keeps out of the summary is what the
\* selector, with budgets of its own, lets through: unless attachments, a
\* tiny budget or the final fit take the room, the model reads every message
\* of the conversation, in the summary or in full.
ModelReadsTheConversation ==
  \A t \in Turns : ReadsHistory(t) /\ ~Outrun(build[t]) => ConversationIsRead(build[t])

\* save_summary returns the summary that a build goes on with, its own or the
\* one that has won.  The latter may be gone and replaced by then.
SummaryMeetsTheWindow ==
  \A t \in Turns : ReadsHistory(t) => ConversationIsRead(build[t])

\* A build that has room for candidates at all gives the model the text of
\* each of the attachments of the turn, cut down if need be, or it fails: no
\* memory about an attachment takes its place.
AttachmentsKept(t) ==
  \A a \in turn[t].assets : \E i \in build[t].items : i.body = a.body

AttachmentsReachTheModel ==
  \A t \in Turns :
    At(t, "compiled") /\ CandidateBudget(build[t].base) > 0 => AttachmentsKept(t)

\* selector.py:43 promises the attachments first, whatever the budget; with
\* nothing left after the instructions they are rejected like the others.
AttachmentsAlwaysReachTheModel ==
  \A t \in Turns : At(t, "compiled") => AttachmentsKept(t)
=============================================================================
