------------------------ MODULE ContextBuild_proofs ------------------------
(***************************************************************************)
(* What a conversation gives the model, for any number of overlapping      *)
(* builds, turns and messages, any policy and any sizes                    *)
(* (app/agent/context_engine, app/repositories/context_repository.py).     *)
(*                                                                         *)
(* The incremental summary skips no message.  A build reads the messages,  *)
(* then the summary, and writes a summary it has made of both, each in a   *)
(* transaction of its own.  What it writes is without a gap already when   *)
(* it is only meant: that is GapInv, and it holds whatever the other       *)
(* builds do in between, because messages are only added and withdrawn     *)
(* ones stay so.                                                           *)
(*                                                                         *)
(* What the selection keeps: it goes over the items place by place, each   *)
(* step adding a place, cut or not, to what there is, so what a fold       *)
(* returns is had from what one place may add.  Attachments have their     *)
(* share before anything else; the window leaves the summary its room.     *)
(*                                                                         *)
(* What a build gives the model.  ReadInv carries a build's window and     *)
(* what it leaves out of it from the reading of the summary, through its   *)
(* being written, refused and read again, to the compiled context.         *)
(***************************************************************************)
EXTENDS ContextBuild, FiniteSetTheorems, WellFoundedInduction, TLAPS

Message == [turn : Turns, size : {r.size : r \in Requests} \cup AnswerSizes]

\* A summary tells every message up to where it reaches, the withdrawn ones excepted.
NoGap(s) ==
  /\ s.through \in 1..Len(messages)
  /\ \A i \in 1..s.through : Excluded(i) \/ i \in s.text

\* What was read of the conversation is all that had not been withdrawn.
Whole(loaded) ==
  /\ loaded \subseteq 1..Len(messages)
  /\ \A i \in loaded : \A j \in 1..i : j \in loaded \/ Excluded(j)

\* What a build has read, and what it means to write, as it should be.
BuildOK(b) ==
  /\ "pc" \in DOMAIN b
  /\ b.pc = "read summary" => Whole(b.loaded)
  /\ b.pc = "summarise" => NoGap(Extended(b.summary, b.older))

Typed == messages \in Seq(Message) /\ DOMAIN turn = Turns /\ DOMAIN build = Turns

GapInv ==
  /\ Typed
  /\ summary # NoSummary => NoGap(summary)
  /\ \A t \in Turns : BuildOK(build[t])

\* A set of numbers has a least one.
LEMMA LeastIs ==
  ASSUME NEW T \in SUBSET Nat, T # {}
  PROVE  \E m \in T : \A k \in T : m <= k
<1>1. PICK R : R = OpToRel(<, Nat)
  OBVIOUS
<1>2. \A x, y \in Nat : x < y => <<x, y>> \in R
  BY <1>1 DEF OpToRel
<1>3. IsWellFoundedOn(R, Nat)
  BY <1>1, NatLessThanWellFounded
<1>4. PICK m \in T : \A k \in T : <<k, m>> \notin R
  BY <1>3, WFMin
<1>5. m \in Nat /\ \A k \in T : k \in Nat
  OBVIOUS
<1>6. \A k \in T : ~(k < m)
  BY <1>2, <1>4, <1>5
<1> QED  BY <1>5, <1>6

\* Numbers have a last one, the least number none of them exceeds.
LEMMA MaxIs ==
  ASSUME NEW n \in Nat, NEW S, S \subseteq 0..n, S # {}
  PROVE  Max(S) \in S /\ \A i \in S : i <= Max(S)
<1>1. PICK T : T = {m \in Nat : \A i \in S : i <= m}
  OBVIOUS
<1>2. n \in T /\ T \in SUBSET Nat
  BY <1>1
<1>3. PICK m \in T : \A k \in T : m <= k
  BY <1>2, LeastIs
<1>4. m \in Nat /\ \A i \in S : i \in Nat /\ i <= m
  BY <1>1, <1>3
<1>5. m \in S
  <2>1. SUFFICES ASSUME m \notin S PROVE FALSE
    OBVIOUS
  <2>2. \A i \in S : i <= m - 1
    BY <1>4, <2>1
  <2>3. m - 1 \in Nat
    <3>1. PICK i \in S : TRUE
      OBVIOUS
    <3> QED  BY <1>4, <2>2, <3>1
  <2>4. m - 1 \in T
    BY <1>1, <2>2, <2>3
  <2> QED  BY <1>3, <1>4, <2>3, <2>4
<1>6. \E x \in S : \A i \in S : x >= i
  BY <1>4, <1>5
<1>7. Max(S) \in S /\ \A i \in S : Max(S) >= i
  BY <1>6 DEF Max
<1> QED  BY <1>4, <1>7

\* The window is what is newest.
LEMMA RecentIsNewest ==
  ASSUME NEW size, DOMAIN size \subseteq Nat, NEW budget,
         NEW i \in Recent(size, budget), NEW j \in DOMAIN size, i <= j
  PROVE  j \in Recent(size, budget)
<1>1. i \in DOMAIN size /\ \A k \in DOMAIN size : k >= j => k >= i
  BY DEF Recent
<1> QED  BY <1>1 DEF Recent

\* A summary extended by what is older than the window has no gap.
LEMMA ExtendedHasNoGap ==
  ASSUME messages \in Seq(Message), NEW b, Whole(b.loaded),
         NEW existing, existing # NoSummary => NoGap(existing),
         NEW size, DOMAIN size = Uncovered(b, existing), NEW budget,
         NEW older, older = Uncovered(b, existing) \ Recent(size, budget), older # {}
  PROVE  NoGap(Extended(existing, older))
<1>1. PICK U, n : U = Uncovered(b, existing) /\ n = Len(messages)
  OBVIOUS
<1>2. n \in Nat /\ U \subseteq b.loaded /\ b.loaded \subseteq 1..n
  BY <1>1 DEF Uncovered, Whole
<1>3. PICK last : last = Max(older)
  OBVIOUS
<1>4. last \in older /\ \A i \in older : i <= last
  <2>1. older \subseteq 0..n
    BY <1>1, <1>2
  <2> QED  BY <1>2, <1>3, <2>1, MaxIs
<1>5. ASSUME NEW j \in U, j <= last PROVE j \in older
  <2>1. last \in U /\ last \notin Recent(size, budget)
    BY <1>1, <1>4
  <2>2. DOMAIN size = U /\ U \subseteq Nat
    BY <1>1, <1>2
  <2>3. j \notin Recent(size, budget)
    BY <1>5, <2>1, <2>2, RecentIsNewest
  <2> QED  BY <1>1, <1>5, <2>3
<1>6. PICK s : s = Extended(existing, older)
  OBVIOUS
<1>7. /\ s.through = last /\ older \subseteq s.text
      /\ existing # NoSummary => existing.text \subseteq s.text
  BY <1>3, <1>6 DEF Extended
<1>8. last \in 1..n /\ last \in b.loaded
  BY <1>1, <1>2, <1>4
<1>9. ASSUME NEW i \in 1..last PROVE Excluded(i) \/ i \in s.text
  <2>1. i \in b.loaded \/ Excluded(i)
    BY <1>8, <1>9 DEF Whole
  <2>2. CASE i \in U
    BY <1>5, <1>7, <1>8, <1>9, <2>2
  <2>3. CASE i \in b.loaded /\ i \notin U
    <3>1. existing # NoSummary /\ ~(i > existing.through)
      BY <1>1, <2>3 DEF Uncovered
    <3>2. existing.through \in 1..n /\ NoGap(existing)
      BY <1>1, <3>1 DEF NoGap
    <3>3. i \in 1..existing.through
      BY <1>8, <1>9, <3>1, <3>2
    <3> QED  BY <1>7, <3>1, <3>2, <3>3 DEF NoGap
  <2> QED  BY <2>1, <2>2, <2>3
<1> QED  BY <1>1, <1>6, <1>7, <1>8, <1>9 DEF NoGap

\* Messages are only added, and withdrawn ones stay so: what had no gap has none.
Grows ==
  /\ messages' \in Seq(Message) /\ Len(messages) <= Len(messages')
  /\ \A i \in 1..Len(messages) : messages'[i] = messages[i]
  /\ \A i \in 1..Len(messages) : Excluded(i) => Excluded(i)'

\* What had no gap has none when messages are added or withdrawn, and what was whole is.
LEMMA GrowIs ==
  ASSUME Typed, Grows
  PROVE  /\ \A s : NoGap(s) => NoGap(s)'
         /\ \A loaded : Whole(loaded) => Whole(loaded)'
<1>1. PICK n, m : n = Len(messages) /\ m = Len(messages')
  OBVIOUS
<1>2. n \in Nat /\ m \in Nat /\ n <= m
  BY <1>1 DEF Typed, Grows
<1>3. 1..n \subseteq 1..m /\ \A k \in 1..n : 1..k \subseteq 1..n
  BY <1>2
<1>4. \A i \in 1..n : Excluded(i) => Excluded(i)'
  BY <1>1 DEF Grows
<1>5. ASSUME NEW s, NoGap(s) PROVE NoGap(s)'
  <2>1. s.through \in 1..n /\ \A i \in 1..s.through : Excluded(i) \/ i \in s.text
    BY <1>1, <1>5 DEF NoGap
  <2>2. s.through \in 1..m /\ \A i \in 1..s.through : Excluded(i)' \/ i \in s.text
    BY <1>3, <1>4, <2>1
  <2> QED  BY <1>1, <2>2 DEF NoGap
<1>6. ASSUME NEW loaded, Whole(loaded) PROVE Whole(loaded)'
  <2>1. loaded \subseteq 1..n /\ \A i \in loaded : \A j \in 1..i : j \in loaded \/ Excluded(j)
    BY <1>1, <1>6 DEF Whole
  <2>2. loaded \subseteq 1..m /\ \A i \in loaded : \A j \in 1..i : j \in loaded \/ Excluded(j)'
    BY <1>3, <1>4, <2>1
  <2> QED  BY <1>1, <2>2 DEF Whole
<1> QED  BY <1>5, <1>6

\* A turn adds a message; its own were not withdrawn before, and no other turn changes.
LEMMA AddedIs ==
  ASSUME Typed, NEW t \in Turns, NEW message \in Message, messages' = Append(messages, message),
         DOMAIN turn' = Turns, \A u \in Turns \ {t} : turn'[u] = turn[u],
         turn[t].status # "budget_exceeded"
  PROVE  Grows
<1>1. messages \in Seq(Message)
  BY DEF Typed
<1>2. PICK n : n = Len(messages)
  OBVIOUS
<1>3. /\ messages' \in Seq(Message) /\ n \in Nat /\ Len(messages') = n + 1
      /\ \A i \in 1..n : messages'[i] = messages[i] /\ messages[i] \in Message
  BY <1>1, <1>2
<1>4. ASSUME NEW i \in 1..n, Excluded(i) PROVE Excluded(i)'
  <2>1. messages[i].turn \in Turns /\ messages[i].turn # t /\ messages'[i] = messages[i]
    BY <1>3, <1>4 DEF Excluded, Message
  <2> QED  BY <1>4, <2>1 DEF Excluded
<1> QED  BY <1>2, <1>3, <1>4 DEF Grows

\* Nothing is added: what is withdrawn stays withdrawn.
LEMMA NothingAdded ==
  ASSUME Typed, NEW t \in Turns, messages' = messages,
         DOMAIN turn' = Turns, \A u \in Turns \ {t} : turn'[u] = turn[u],
         turn[t].status # "budget_exceeded"
  PROVE  Grows
<1>1. Len(messages) \in Nat /\ messages \in Seq(Message)
  BY DEF Typed
<1>2. ASSUME NEW i \in 1..Len(messages), Excluded(i) PROVE Excluded(i)'
  <2>1. messages[i] \in Message
    BY <1>1, <1>2
  <2>2. messages[i].turn \in Turns /\ messages[i].turn # t /\ messages'[i] = messages[i]
    BY <1>2, <2>1 DEF Excluded, Message
  <2> QED  BY <1>2, <2>2 DEF Excluded
<1> QED  BY <1>1, <1>2 DEF Grows

\* Nothing is added.
LEMMA SameMessages ==
  ASSUME Typed, UNCHANGED <<messages, turn>>
  PROVE  Grows
<1>1. Len(messages) \in Nat /\ messages \in Seq(Message)
  BY DEF Typed
<1> QED  BY <1>1 DEF Grows, Excluded

\* One build goes on, with what it has read or means to write as it should be.
LEMMA BuildGoesOn ==
  ASSUME GapInv, Grows, DOMAIN turn' = Turns,
         NEW s, summary' = s, s # NoSummary => NoGap(s)',
         NEW t \in Turns, NEW b, build' = [build EXCEPT ![t] = b], BuildOK(b)'
  PROVE  GapInv'
<1>1. /\ DOMAIN build' = Turns /\ build'[t] = b
      /\ \A u \in Turns \ {t} : build'[u] = build[u]
  BY DEF GapInv, Typed
<1>2. Typed'
  BY <1>1 DEF Typed, Grows
<1>3. \A c : BuildOK(c) => BuildOK(c)'
  <2>1. /\ \A x : NoGap(x) => NoGap(x)'
        /\ \A loaded : Whole(loaded) => Whole(loaded)'
    BY GrowIs DEF GapInv
  <2> QED  BY <2>1 DEF BuildOK, Extended
<1>4. ASSUME NEW u \in Turns PROVE \E c : c = build'[u] /\ BuildOK(c)'
  BY <1>1, <1>3 DEF GapInv
<1>5. \A u \in Turns : BuildOK(build[u])'
  BY <1>4 DEF BuildOK
<1>6. (summary # NoSummary => NoGap(summary))'
  BY DEF NoGap
<1> QED  BY <1>2, <1>5, <1>6 DEF GapInv

\* Building leaves the conversation alone, and a build that is not about to summarise has
\* nothing to be wrong about.
LEMMA BuildStep ==
  ASSUME GapInv, UNCHANGED <<messages, turn>>, NEW s, summary' = s, s # NoSummary => NoGap(s),
         NEW t \in Turns, NEW b, build' = [build EXCEPT ![t] = b], BuildOK(b)
  PROVE  GapInv'
<1>1. Grows /\ DOMAIN turn' = Turns
  BY SameMessages DEF GapInv, Typed
<1>2. /\ \A x : NoGap(x) => NoGap(x)'
      /\ \A loaded : Whole(loaded) => Whole(loaded)'
  BY <1>1, GrowIs DEF GapInv
<1>3. BuildOK(b)' /\ (s # NoSummary => NoGap(s)')
  BY <1>2 DEF BuildOK, Extended
<1> QED  BY <1>1, <1>3, BuildGoesOn

\* A build that raises means to write nothing.
LEMMA RaiseStep ==
  ASSUME GapInv, NEW t \in Turns, NEW pc \in {"failed", "exceeded"}, Raise(t, pc)
  PROVE  GapInv'
<1>1. PICK b, s : b = [pc |-> pc] /\ s = summary
  OBVIOUS
<1>2. BuildOK(b)
  BY <1>1 DEF BuildOK
<1>3. build' = [build EXCEPT ![t] = b] /\ UNCHANGED <<messages, turn, summary>>
  BY <1>1 DEF Raise
<1> QED  BY <1>1, <1>2, <1>3, BuildStep DEF GapInv

\* A turn that begins adds its message after all that were read.
LEMMA StartTurnStep ==
  ASSUME GapInv, NEW t \in Turns, StartTurn(t)
  PROVE  GapInv'
<1>1. PICK r \in Requests : messages' = Append(messages, [turn |-> t, size |-> r.size])
  BY DEF StartTurn
<1>2. /\ DOMAIN turn' = Turns /\ \A u \in Turns \ {t} : turn'[u] = turn[u]
      /\ turn[t].status = "new" /\ build' = build /\ summary' = summary
  BY DEF StartTurn, GapInv, Typed
<1>3. Grows
  <2>1. [turn |-> t, size |-> r.size] \in Message
    BY DEF Message
  <2> QED  BY <1>1, <1>2, <2>1, AddedIs DEF GapInv
<1>4. /\ \A x : NoGap(x) => NoGap(x)'
      /\ \A loaded : Whole(loaded) => Whole(loaded)'
  BY <1>3, GrowIs DEF GapInv
<1>5. \A b : BuildOK(b) => BuildOK(b)'
  BY <1>4 DEF BuildOK, Extended
<1>6. Typed'
  BY <1>2, <1>3 DEF GapInv, Typed, Grows
<1>7. PICK c, s : c = build /\ s = summary
  OBVIOUS
<1>8. (\A u \in Turns : BuildOK(c[u])') /\ (s # NoSummary => NoGap(s)')
  BY <1>4, <1>5, <1>7 DEF GapInv
<1>9. build' = c /\ summary' = s
  BY <1>2, <1>7
<1> QED  BY <1>6, <1>8, <1>9 DEF GapInv, BuildOK, NoGap

\* A turn that is withdrawn takes the summary with it.
LEMMA FinishTurnStep ==
  ASSUME GapInv, NEW t \in Turns, FinishTurn(t)
  PROVE  GapInv'
<1>1. \/ \E n \in AnswerSizes : messages' = Append(messages, [turn |-> t, size |-> n])
      \/ messages' = messages
  BY DEF FinishTurn
<1>2. /\ DOMAIN turn' = Turns /\ \A u \in Turns \ {t} : turn'[u] = turn[u]
      /\ turn[t].status = "running" /\ build' = [build EXCEPT ![t] = NoBuild]
      /\ summary' = NoSummary \/ summary' = summary
  BY DEF FinishTurn, Running, GapInv, Typed
<1>3. Grows
  <2>1. \A n \in AnswerSizes : [turn |-> t, size |-> n] \in Message
    BY DEF Message
  <2>2. Typed
    BY DEF GapInv
  <2>3. CASE messages' = messages
    BY <1>2, <2>2, <2>3, NothingAdded
  <2>4. CASE messages' # messages
    BY <1>1, <1>2, <2>1, <2>2, <2>4, AddedIs
  <2> QED  BY <2>3, <2>4
<1>4. \A x : NoGap(x) => NoGap(x)'
  BY <1>3, GrowIs DEF GapInv
<1>5. PICK s : s = summary'
  OBVIOUS
<1>6. s # NoSummary => NoGap(s)'
  BY <1>2, <1>4, <1>5 DEF GapInv
<1>7. PICK b : b = NoBuild
  OBVIOUS
<1>8. BuildOK(b)'
  BY <1>7 DEF BuildOK, NoBuild
<1> QED  BY <1>2, <1>3, <1>5, <1>6, <1>7, <1>8, BuildGoesOn

\* What a build reads is everything that has not been withdrawn.
LEMMA LoadStep ==
  ASSUME GapInv, NEW t \in Turns, Load(t)
  PROVE  GapInv'
<1>1. Whole(Loaded)
  <2>1. Len(messages) \in Nat
    BY DEF GapInv, Typed
  <2> QED  BY <2>1 DEF Whole, Loaded
<1>2. Whole({})
  BY DEF Whole
<1>3. PICK history, b :
        /\ history \in BOOLEAN /\ build' = [build EXCEPT ![t] = b]
        /\ b = [pc |-> IF history THEN "read summary" ELSE "gather", base |-> build[t].base,
                loaded |-> IF history THEN Loaded ELSE {}, summary |-> NoSummary,
                recent |-> {}, older |-> {}]
  BY DEF Load, GapInv, Typed
<1>4. /\ "pc" \in DOMAIN b /\ b.pc \in {"read summary", "gather"}
      /\ b.loaded \in {Loaded, {}}
  BY <1>3
<1>5. BuildOK(b)
  BY <1>1, <1>2, <1>4 DEF BuildOK
<1>6. PICK s : s = summary
  OBVIOUS
<1>7. UNCHANGED <<messages, turn, summary>>
  BY DEF Load
<1> QED  BY <1>3, <1>5, <1>6, <1>7, BuildStep DEF GapInv

\* What it means to write after it has read the summary has no gap.
LEMMA ReadSummaryStep ==
  ASSUME GapInv, NEW t \in Turns, ReadSummary(t)
  PROVE  GapInv'
<1>0. PICK c, s : c = build[t] /\ s = summary
  OBVIOUS
<1>1. PICK size, budget, recent, older :
        /\ size = [i \in Uncovered(c, s) |-> Size(i)]
        /\ budget = WindowBudget(HistoryBudget(CandidateBudget(c.base)))
        /\ recent = Recent(size, budget) /\ older = Uncovered(c, s) \ recent
  OBVIOUS
<1>2. PICK b :
        /\ build' = [build EXCEPT ![t] = b]
        /\ b = [pc |-> IF older = {} THEN "gather" ELSE "summarise", base |-> c.base,
                loaded |-> c.loaded, summary |-> s, recent |-> recent, older |-> older]
  BY <1>0, <1>1 DEF ReadSummary
<1>3. /\ "pc" \in DOMAIN b /\ b.pc \in {"gather", "summarise"}
      /\ b.pc = "summarise" => older # {} /\ b.summary = s /\ b.older = older
  BY <1>2
<1>4. Whole(c.loaded) /\ (s # NoSummary => NoGap(s)) /\ messages \in Seq(Message)
  BY <1>0 DEF ReadSummary, At, GapInv, BuildOK, Typed
<1>5. older # {} => NoGap(Extended(s, older))
  <2>1. DOMAIN size = Uncovered(c, s)
    BY <1>1
  <2> QED  BY <1>1, <1>4, <2>1, ExtendedHasNoGap
<1>6. BuildOK(b)
  BY <1>3, <1>5 DEF BuildOK
<1>7. UNCHANGED <<messages, turn, summary>>
  BY DEF ReadSummary
<1> QED  BY <1>0, <1>2, <1>4, <1>6, <1>7, BuildStep

\* What is written is that, or what another build has written.
LEMMA SaveSummaryStep ==
  ASSUME GapInv, NEW t \in Turns, SaveSummary(t)
  PROVE  GapInv'
<1>1. PICK c, new, s : /\ c = build[t] /\ new = Extended(c.summary, c.older)
                       /\ s = summary'
  OBVIOUS
<1>2. c.pc = "summarise" /\ "pc" \in DOMAIN c /\ NoGap(new)
  BY <1>1 DEF SaveSummary, At, GapInv, BuildOK
<1>3. s \in {summary, new}
  BY <1>1 DEF SaveSummary
<1>4. s # NoSummary => NoGap(s)
  BY <1>2, <1>3 DEF GapInv
<1>5. PICK b : /\ build' = [build EXCEPT ![t] = b] /\ DOMAIN b = DOMAIN c
               /\ b.pc \in {"gather", "reread"}
  <2>1. CASE Replaces(new)
    <3>1. PICK b : b = [c EXCEPT !.summary = new, !.pc = "gather", !.older = {}]
      OBVIOUS
    <3>2. build' = [build EXCEPT ![t] = b]
      BY <1>1, <2>1, <3>1 DEF SaveSummary, GapInv, Typed
    <3>3. DOMAIN b = DOMAIN c /\ b.pc = "gather"
      BY <1>2, <3>1
    <3> QED  BY <3>2, <3>3
  <2>2. CASE ~Replaces(new)
    <3>1. PICK b : b = [c EXCEPT !.summary = NoSummary, !.pc = "reread"]
      OBVIOUS
    <3>2. build' = [build EXCEPT ![t] = b]
      BY <1>1, <2>2, <3>1 DEF SaveSummary, GapInv, Typed
    <3>3. DOMAIN b = DOMAIN c /\ b.pc = "reread"
      BY <1>2, <3>1
    <3> QED  BY <3>2, <3>3
  <2> QED  BY <2>1, <2>2
<1>6. BuildOK(b)
  BY <1>2, <1>5 DEF BuildOK
<1>7. UNCHANGED <<messages, turn>>
  BY DEF SaveSummary
<1> QED  BY <1>1, <1>4, <1>5, <1>6, <1>7, BuildStep

\* Every step keeps the summary, and what the builds mean to make of it, without a gap.
LEMMA GapStep ==
  ASSUME GapInv, [Next]_vars
  PROVE  GapInv'
<1>0. PICK s : s = summary
  OBVIOUS
<1>1. ASSUME NEW t \in Turns, NEW b, build' = [build EXCEPT ![t] = b], "pc" \in DOMAIN b,
             b.pc \notin {"read summary", "summarise"}, UNCHANGED <<messages, turn, summary>>
      PROVE  GapInv'
  BY <1>0, <1>1, BuildStep DEF GapInv, BuildOK
<1>2. CASE UNCHANGED vars
  <2>1. UNCHANGED <<messages, turn, build, summary>> /\ Grows
    BY <1>2, SameMessages DEF vars, GapInv
  <2> QED  BY <2>1 DEF GapInv, Typed, BuildOK, NoGap, Whole, Excluded, Extended
<1>3. ASSUME NEW t \in Turns, StartBuild(t) PROVE GapInv'
  <2>1. PICK base \in Bases : build' = [build EXCEPT ![t] =
          [pc |-> IF base > TokenBudget THEN "refuse" ELSE "load", base |-> base]]
    BY <1>3 DEF StartBuild
  <2>2. PICK b : b = [pc |-> IF base > TokenBudget THEN "refuse" ELSE "load", base |-> base]
    OBVIOUS
  <2>3. "pc" \in DOMAIN b /\ b.pc \notin {"read summary", "summarise"}
    BY <2>2
  <2> QED  BY <1>1, <1>3, <2>1, <2>2, <2>3 DEF StartBuild
<1>4. ASSUME NEW t \in Turns, Reread(t) PROVE GapInv'
  <2>1. CASE Raise(t, "failed")
    BY <2>1, RaiseStep
  <2>2. CASE ~Raise(t, "failed")
    <3>1. PICK c, b : /\ c = build[t] /\ build' = [build EXCEPT ![t] = b]
                      /\ b = [c EXCEPT !.summary = summary, !.pc = "gather"]
      BY <1>4, <2>2 DEF Reread, GapInv, Typed
    <3>2. "pc" \in DOMAIN c
      BY <3>1 DEF GapInv, BuildOK
    <3>3. DOMAIN b = DOMAIN c /\ b.pc = "gather"
      BY <3>1, <3>2
    <3> QED  BY <1>1, <1>4, <2>2, <3>1, <3>2, <3>3 DEF Reread
  <2> QED  BY <2>1, <2>2
<1>5. ASSUME NEW t \in Turns, Compile(t) PROVE GapInv'
  <2>1. CASE Raise(t, "exceeded")
    BY <2>1, RaiseStep
  <2>2. CASE ~Raise(t, "exceeded")
    <3>1. PICK c, items, dropped :
            /\ UNCHANGED <<messages, turn, summary>>
            /\ build' = [build EXCEPT ![t] =
                 [pc |-> "compiled", base |-> c.base, loaded |-> c.loaded,
                  summary |-> c.summary, recent |-> c.recent, older |-> c.older,
                  items |-> items, dropped |-> dropped]]
      BY <1>5, <2>2 DEF Compile
    <3>2. PICK b : b = [pc |-> "compiled", base |-> c.base, loaded |-> c.loaded,
                        summary |-> c.summary, recent |-> c.recent, older |-> c.older,
                        items |-> items, dropped |-> dropped]
      OBVIOUS
    <3>3. "pc" \in DOMAIN b /\ b.pc = "compiled"
      BY <3>2
    <3> QED  BY <1>1, <3>1, <3>2, <3>3
  <2> QED  BY <2>1, <2>2
<1>6. ASSUME NEW t \in Turns, FinishBuild(t) \/ Fail(t) \/ Cancel(t) PROVE GapInv'
  <2>1. /\ build' = [build EXCEPT ![t] = NoBuild] \/ build' = [build EXCEPT ![t] = [pc |-> "failed"]]
        /\ UNCHANGED <<messages, turn, summary>>
    BY <1>6 DEF FinishBuild, Fail, Cancel
  <2>2. /\ "pc" \in DOMAIN NoBuild /\ NoBuild.pc = "idle"
        /\ "pc" \in DOMAIN [pc |-> "failed"] /\ [pc |-> "failed"].pc = "failed"
    BY DEF NoBuild
  <2> QED  BY <1>1, <2>1, <2>2
<1>7. ASSUME NEW t \in Turns, Step(t) PROVE GapInv'
  BY <1>3, <1>4, <1>5, <1>6, <1>7, StartTurnStep, FinishTurnStep, LoadStep, ReadSummaryStep,
     SaveSummaryStep, RaiseStep DEF Step, Refuse
<1> QED  BY <1>2, <1>7 DEF Next

\* Whatever builds extended the summary, in whatever order they read and wrote it, it tells
\* every message up to where it says it reaches, the withdrawn ones excepted.
THEOREM SummarySkipsNothing == Spec => []SummaryHasNoGap
<1>1. Init => GapInv
  <2>1. ASSUME Init
        PROVE  /\ messages = <<>> /\ DOMAIN turn = Turns /\ DOMAIN build = Turns
               /\ summary = NoSummary /\ \A t \in Turns : build[t] = NoBuild
    BY <2>1 DEF Init
  <2>2. "pc" \in DOMAIN NoBuild /\ NoBuild.pc = "idle"
    BY DEF NoBuild
  <2>3. ASSUME Init PROVE Typed
    BY <2>1, <2>3 DEF Typed
  <2>4. BuildOK(NoBuild)
    BY <2>2 DEF BuildOK
  <2> QED  BY <2>1, <2>3, <2>4, Zenon DEF GapInv
<1>2. GapInv => SummaryHasNoGap
  BY DEF GapInv, NoGap, SummaryHasNoGap
<1> QED  BY <1>1, <1>2, GapStep, PTL DEF Spec

-----------------------------------------------------------------------------
\* The numbers of the policy.
LEMMA PolicyIs ==
  /\ TokenBudget \in Nat /\ FormatReserve \in Nat
  /\ MaxItem \in Nat /\ MinCompression \in Nat /\ MinCompression > 0 /\ MinScore \in Nat
  /\ HistoryPercent \in Nat /\ RecentPercent \in Nat /\ HistoryPercent <= 100 /\ RecentPercent <= 100
  /\ MessageCost \in Nat /\ SplitCost \in Nat
<1>1. /\ {TokenBudget, MaxItem, MinCompression} \subseteq Nat \ {0}
      /\ FormatReserve \in 0..(TokenBudget - 1)
      /\ HistoryPercent \in 1..100 /\ RecentPercent \in 1..100
      /\ {MinScore, MessageCost, SplitCost} \subseteq Nat
  BY PolicyAssumption, Zenon
<1> QED  BY <1>1

\* The texts of what a build makes itself.
LEMMA TextsAre == "" \in Texts /\ "summary" \in Texts /\ "message" \in Texts
<1>1. {"", "summary", "message"} \subseteq Texts
  BY PolicyAssumption, Zenon
<1> QED  BY <1>1

\* What a build makes of a summary and of a message is an item.
LEMMA ItemIs ==
  ASSUME NEW id \in Nat, NEW kind \in {"summary", "working"}, NEW size \in Nat, NEW score \in Nat,
         NEW body \in {"summary", "message"}, NEW index \in Nat,
         NEW item, item = [id |-> id, kind |-> kind, size |-> size, score |-> score,
                           required |-> FALSE, direct |-> FALSE, rank |-> 0, key |-> "",
                           body |-> body, index |-> index]
  PROVE  item \in Item
<1>1. \A k, t \in Texts :
        [id |-> id, kind |-> kind, size |-> size, score |-> score, required |-> FALSE,
         direct |-> FALSE, rank |-> 0, key |-> k, body |-> t, index |-> index] \in Item
  <2>1. kind \in {"summary", "working", "asset", "memory"}
    OBVIOUS
  <2> QED  BY <2>1 DEF Item
<1>2. "" \in Texts /\ body \in Texts
  BY TextsAre
<1> QED  BY <1>1, <1>2, Zenon

\* None or one item.
LEMMA TokensOfOne ==
  /\ Tokens({}) = 0
  /\ \A i : i.size \in Int => Tokens({i}) = i.size
<1>1. ASSUME NEW i, i.size \in Int PROVE Tokens({i}) = i.size
  <2>1. PICK g : g = [s \in SUBSET {i} |-> IF s = {} THEN 0 ELSE i.size]
    OBVIOUS
  <2>2. g = [s \in SUBSET {i} |-> IF s = {} THEN 0
                ELSE (CHOOSE x \in s : TRUE).size + g[s \ {CHOOSE x \in s : TRUE}]]
    <3>1. \A s \in SUBSET {i} : s # {} => s = {i} /\ (CHOOSE x \in s : TRUE) = i
      OBVIOUS
    <3>2. ASSUME NEW s \in SUBSET {i}, s # {} PROVE g[s] = (CHOOSE x \in s : TRUE).size + g[s \ {CHOOSE x \in s : TRUE}]
      <4>1. s = {i} /\ (CHOOSE x \in s : TRUE) = i
        BY <3>1, <3>2
      <4>2. s \ {i} = {} /\ {} \in SUBSET {i}
        BY <4>1
      <4>3. g[{}] = 0 /\ g[s] = i.size
        BY <2>1, <3>2, <4>2
      <4> QED  BY <1>1, <4>1, <4>2, <4>3
    <3>3. \A s \in SUBSET {i} : s = {} => g[s] = 0
      BY <2>1
    <3> QED  BY <2>1, <3>2, <3>3
  <2>3. PICK f : f = CHOOSE sum :
          sum = [some \in SUBSET {i} |->
                   IF some = {} THEN 0
                   ELSE LET j == CHOOSE j \in some : TRUE
                        IN  j.size + sum[some \ {j}]]
    OBVIOUS
  <2>4. f = [s \in SUBSET {i} |->
               IF s = {} THEN 0
               ELSE LET j == CHOOSE j \in s : TRUE
                    IN  j.size + f[s \ {j}]]
    BY <2>2, <2>3
  <2>5. f[{}] = 0
    BY <2>4
  <2>6. f[{i}] = i.size + f[{}]
    <3>1. (CHOOSE j \in {i} : TRUE) = i /\ {i} \ {i} = {} /\ {i} \in SUBSET {i} /\ {i} # {}
      OBVIOUS
    <3> QED  BY <2>4, <3>1
  <2>7. Tokens({i}) = f[{i}]
    BY <2>3 DEF Tokens
  <2> QED  BY <1>1, <2>5, <2>6, <2>7
<1> QED  BY <1>1, ZenonT(40) DEF Tokens
\* Induction over the places of a sequence.
LEMMA PlaceByPlace ==
  ASSUME NEW n \in Nat, NEW P \in SUBSET (0..n), 0 \in P,
         \A i \in 1..n : i - 1 \in P => i \in P
  PROVE  P = 0..n
<1> DEFINE Left == (0..n) \ P
<1>1. SUFFICES ASSUME Left # {} PROVE FALSE
  OBVIOUS
<1>2. Left \subseteq Nat
  OBVIOUS
<1>3. PICK m \in Left : \A k \in Left : ~(<<k, m>> \in OpToRel(<, Nat))
  BY <1>1, <1>2, NatLessThanWellFounded, WFMin
<1>4. \A k \in Left : ~(k < m)
  BY <1>2, <1>3 DEF OpToRel
<1>5. m \in 1..n
  OBVIOUS
<1>6. m - 1 \notin Left
  BY <1>4, <1>5
<1>7. m - 1 \in P
  BY <1>5, <1>6
<1> QED  BY <1>5, <1>7

\* A function that begins with base and goes on by step from place to place.
GoesBy(f, n, S, base, step) ==
  /\ f \in [0..n -> S]
  /\ f[0] = base
  /\ \A i \in 1..n : f[i] = step[<<i, f[i - 1]>>]

\* There is one as long as the steps lead somewhere.
LEMMA GoesOn ==
  ASSUME NEW n \in Nat, NEW S, NEW base \in S, NEW step,
         \A i \in 1..n : \A x \in S : step[<<i, x>>] \in S
  PROVE  \E f : GoesBy(f, n, S, base, step)
<1> DEFINE P == {k \in 0..n : \E f : GoesBy(f, k, S, base, step)}
<1>1. 0 \in P
  <2>1. PICK f : f = [i \in 0..0 |-> base]
    OBVIOUS
  <2>2. GoesBy(f, 0, S, base, step)
    BY <2>1 DEF GoesBy
  <2> QED  BY <2>2
<1>2. ASSUME NEW k \in 1..n, k - 1 \in P
      PROVE  k \in P
  <2>1. PICK f : GoesBy(f, k - 1, S, base, step)
    BY <1>2
  <2>2. PICK g : g = [i \in 0..k |-> IF i = k THEN step[<<k, f[k - 1]>>] ELSE f[i]]
    OBVIOUS
  <2>3. step[<<k, f[k - 1]>>] \in S
    <3>1. f[k - 1] \in S
      BY <2>1 DEF GoesBy
    <3> QED  BY <3>1
  <2>4. g \in [0..k -> S] /\ g[0] = base
    BY <2>1, <2>2, <2>3 DEF GoesBy
  <2>5. ASSUME NEW i \in 1..k
        PROVE  g[i] = step[<<i, g[i - 1]>>]
    <3>1. i - 1 \in 0..k /\ i - 1 # k /\ g[i - 1] = f[i - 1]
      BY <2>2
    <3>2. CASE i = k
      BY <2>2, <3>1, <3>2
    <3>3. CASE i # k
      <4>1. i \in 1..(k - 1) /\ g[i] = f[i]
        BY <2>2, <3>3
      <4> QED  BY <2>1, <3>1, <4>1 DEF GoesBy
    <3> QED  BY <3>2, <3>3
  <2>6. GoesBy(g, k, S, base, step)
    BY <2>4, <2>5 DEF GoesBy
  <2> QED  BY <2>6
<1>3. P = 0..n
  <2>1. P \in SUBSET (0..n)
    OBVIOUS
  <2> HIDE DEF P
  <2> QED  BY <1>1, <1>2, <2>1, PlaceByPlace
<1>4. n \in P
  BY <1>3
<1> QED  BY <1>4

\* What a selection is as it goes on, and the places of its items.
Acc == [chosen : {c \in SUBSET Item : IsFiniteSet(c)}, left : Int, failed : BOOLEAN]
Places == {p \in SUBSET Item : \A i, j \in p : i = j}

\* An item is left out, or it is kept as large as it may be, else as it was.
LEMMA CutIs ==
  ASSUME NEW i \in Item, NEW most \in Int
  PROVE  \/ Cut(i, most) = {}
         \/ \E n \in Nat : /\ [i EXCEPT !.size = n] \in Item
                           /\ Cut(i, most) = {[i EXCEPT !.size = n]}
                           /\ n <= i.size /\ n <= most
<1>1. PICK n : n = Least(most, MaxItem)
  OBVIOUS
<1>2. n \in Int /\ n <= most /\ MinCompression \in Nat /\ i.size \in Nat
  BY <1>1, PolicyIs DEF Least, Item
<1>3. [i EXCEPT !.size = i.size] = i
  BY DEF Item
<1>4. \A m \in Nat : [i EXCEPT !.size = m] \in Item
  BY DEF Item
<1>6. CASE Cut(i, most) = {[i EXCEPT !.size = n]} /\ i.size > n /\ n >= MinCompression
  <2>1. n \in Nat /\ n <= i.size /\ n <= most
    BY <1>2, <1>6
  <2> QED  BY <1>4, <1>6, <2>1
<1>7. CASE Cut(i, most) = {i} /\ i.size <= n
  BY <1>2, <1>3, <1>7
<1>8. \/ Cut(i, most) = {} \/ (Cut(i, most) = {i} /\ i.size <= n)
      \/ (Cut(i, most) = {[i EXCEPT !.size = n]} /\ i.size > n /\ n >= MinCompression)
  BY <1>1, <1>2 DEF Cut
<1> QED  BY <1>6, <1>7, <1>8

\* What the item of a place adds to a selection.
Adds(acc, place, most, cut) ==
  /\ Keep(acc, place, most) \in Acc
  /\ Keep(acc, place, most).chosen = acc.chosen \cup cut
  /\ Keep(acc, place, most).failed = acc.failed
  /\ Keep(acc, place, most).left = acc.left - Tokens(cut)
  /\ Tokens(cut) \in Nat
  /\ \A i \in place : cut = Cut(i, most)
  /\ \A c \in cut : \E i \in place : \E n \in Nat :
       c = [i EXCEPT !.size = n] /\ n <= i.size /\ n <= most /\ Tokens(cut) = n

\* The item of a place is added to what is chosen, and its tokens are taken.
LEMMA KeepIs ==
  ASSUME NEW acc \in Acc, NEW place \in Places, NEW most \in Int
  PROVE  \E cut \in SUBSET Item : Adds(acc, place, most, cut)
<1>1. PICK cut : cut = UNION {Cut(i, most) : i \in place}
  OBVIOUS
<1>0. acc.chosen \in SUBSET Item /\ IsFiniteSet(acc.chosen) /\ acc.left \in Int
  BY DEF Acc
<1>10. PICK C, m : C = acc.chosen \cup cut /\ m = acc.left - Tokens(cut)
  OBVIOUS
<1>11. Keep(acc, place, most) = [acc EXCEPT !.chosen = C, !.left = m]
  BY <1>1, <1>10 DEF Keep
<1>12. ASSUME C \in SUBSET Item, IsFiniteSet(C), m \in Int
       PROVE  /\ Keep(acc, place, most) \in Acc
              /\ Keep(acc, place, most).chosen = C
              /\ Keep(acc, place, most).failed = acc.failed
              /\ Keep(acc, place, most).left = m
  <2>1. PICK new : new = Keep(acc, place, most)
    OBVIOUS
  <2>2. new = [chosen |-> C, left |-> m, failed |-> acc.failed]
    BY <1>11, <2>1 DEF Acc
  <2>3. acc.failed \in BOOLEAN
    BY DEF Acc
  <2>4. new \in Acc
    BY <1>12, <2>2, <2>3 DEF Acc
  <2> QED  BY <2>1, <2>2, <2>4
<1>2. CASE place = {}
  <2>1. cut = {} /\ Tokens(cut) = 0
    BY <1>1, <1>2, TokensOfOne
  <2>2. C = acc.chosen /\ m \in Int
    BY <1>0, <1>10, <2>1
  <2>3. IsFiniteSet(C) /\ C \in SUBSET Item
    BY <1>0, <2>2
  <2> QED  BY <1>2, <1>10, <1>12, <2>1, <2>2, <2>3 DEF Adds
<1>3. CASE place # {}
  <2>1. PICK i : i \in place
    BY <1>3
  <2>2. place = {i} /\ i \in Item
    BY <2>1 DEF Places
  <2>3. cut = Cut(i, most)
    BY <1>1, <2>2
  <2>4. /\ cut \in SUBSET Item /\ IsFiniteSet(cut) /\ Tokens(cut) \in Nat
        /\ \A c \in cut : \E n \in Nat :
             c = [i EXCEPT !.size = n] /\ n <= i.size /\ n <= most /\ Tokens(cut) = n
    <3>1. CASE cut = {}
      BY <3>1, TokensOfOne, FS_EmptySet
    <3>2. CASE cut # {}
      <4>1. PICK n \in Nat : /\ [i EXCEPT !.size = n] \in Item
                             /\ cut = {[i EXCEPT !.size = n]} /\ n <= i.size /\ n <= most
        BY <2>2, <2>3, <3>2, CutIs
      <4>2. PICK c : c = [i EXCEPT !.size = n]
        OBVIOUS
      <4>3. c.size \in Nat /\ c.size = n
        BY <2>2, <4>1, <4>2 DEF Item
      <4>4. Tokens({c}) = c.size
        BY <4>3, TokensOfOne
      <4> QED  BY <4>1, <4>2, <4>3, <4>4, FS_Singleton
    <3> QED  BY <3>1, <3>2
  <2>5. IsFiniteSet(acc.chosen \cup cut)
    BY <1>0, <2>4, FS_Union
  <2>6. C \in SUBSET Item /\ IsFiniteSet(C) /\ m \in Int
    BY <1>0, <1>10, <2>4, <2>5
  <2> QED  BY <1>10, <1>12, <2>2, <2>3, <2>4, <2>6 DEF Adds
<1> QED  BY <1>2, <1>3

\* Items with ids of their own are in order of their scores: each has its place.
LEMMA ByScoreIs ==
  ASSUME NEW items \in SUBSET Item, IsFiniteSet(items),
         \A i, j \in items : i.id = j.id => i = j
  PROVE  /\ ByScore(items) \in Seq(Places)
         /\ Cardinality(items) \in Nat /\ Len(ByScore(items)) = Cardinality(items)
         /\ \A n \in 1..Cardinality(items) : ByScore(items)[n] \subseteq items
         /\ \A i \in items : \E n \in 1..Cardinality(items) : ByScore(items)[n] = {i}
<1>1. PICK E : E = [i \in items |-> {j \in items : Before(j, i)}]
  OBVIOUS
<1>2. PICK N : N = Cardinality(items) /\ N \in Nat
  BY FS_CardinalityType
<1>3. ASSUME NEW i \in items
      PROVE  E[i] \in SUBSET items /\ IsFiniteSet(E[i]) /\ Cardinality(E[i]) \in 0..(N - 1)
  <2>1. i.score \in Nat /\ i.id \in Nat
    BY DEF Item
  <2>2. E[i] \in SUBSET items /\ i \notin E[i]
    BY <1>1, <2>1 DEF Before
  <2>3. IsFiniteSet(E[i]) /\ Cardinality(E[i]) <= N /\ (N = Cardinality(E[i]) => items = E[i])
    BY <1>2, <2>2, FS_Subset
  <2>4. Cardinality(E[i]) \in Nat
    BY <2>3, FS_CardinalityType
  <2> QED  BY <1>2, <2>2, <2>3, <2>4
<1>4. ASSUME NEW i \in items, NEW j \in items, Before(i, j)
      PROVE  Cardinality(E[i]) # Cardinality(E[j])
  <2>1. \A k \in items : k.score \in Nat /\ k.id \in Nat
    BY DEF Item
  <2>2. \A k \in items : Before(k, i) => Before(k, j)
    BY <1>4, <2>1 DEF Before
  <2>3. E[i] \in SUBSET E[j] /\ i \in E[j] /\ i \notin E[i]
    BY <1>1, <1>4, <2>1, <2>2 DEF Before
  <2> QED  BY <1>3, <2>3, FS_Subset
<1>5. ASSUME NEW i \in items, NEW j \in items, Cardinality(E[i]) = Cardinality(E[j])
      PROVE  i = j
  <2>1. i.score \in Nat /\ i.id \in Nat /\ j.score \in Nat /\ j.id \in Nat
    BY DEF Item
  <2>2. CASE i.id # j.id
    <3>1. Before(i, j) \/ Before(j, i)
      BY <2>1, <2>2 DEF Before
    <3> QED  BY <1>4, <1>5, <3>1
  <2> QED  BY <2>2
<1>6. PICK s : s = ByScore(items)
  OBVIOUS
<1>7. s = [n \in 1..N |-> {i \in items : Cardinality(E[i]) = n - 1}]
  <2>1. \A i \in items : E[i] = {j \in items : Before(j, i)}
    BY <1>1
  <2> QED  BY <1>2, <1>6, <2>1 DEF ByScore
<1>8. ASSUME NEW n \in 1..N PROVE s[n] \in Places /\ s[n] \subseteq items
  <2>1. s[n] = {i \in items : Cardinality(E[i]) = n - 1}
    BY <1>7
  <2> QED  BY <1>5, <2>1 DEF Places
<1>9. s \in Seq(Places) /\ Len(s) = N
  BY <1>2, <1>7, <1>8
<1>10. ASSUME NEW i \in items PROVE \E n \in 1..N : s[n] = {i}
  <2>1. PICK n : n = Cardinality(E[i]) + 1
    OBVIOUS
  <2>2. n \in 1..N /\ n - 1 = Cardinality(E[i])
    BY <1>2, <1>3, <2>1
  <2>3. s[n] = {j \in items : Cardinality(E[j]) = n - 1}
    BY <1>7, <2>2
  <2>4. s[n] = {i}
    BY <1>5, <2>2, <2>3
  <2> QED  BY <2>2, <2>4
<1> QED  BY <1>2, <1>6, <1>8, <1>9, <1>10

\* What an item may take of its class's share.
MostOf(acc, a, share) == Least(a.left, Most(0, share - (acc.left - a.left)))

\* How a selection goes on when a class fills its share.
FillsBy(f, acc, places, share) ==
  /\ f \in [0..Len(places) -> Acc]
  /\ f[0] = acc
  /\ \A n \in 1..Len(places) :
       f[n] = Keep(f[n - 1], places[n], MostOf(acc, f[n - 1], share))

\* Filling a share goes so, and ends where its last place leaves it.
LEMMA FillGoes ==
  ASSUME NEW acc \in Acc, NEW places \in Seq(Places), NEW share \in Int
  PROVE  \E f : FillsBy(f, acc, places, share) /\ Fill(acc, places, share) = f[Len(places)]
<1> DEFINE n == Len(places)
           step == [p \in (1..n) \X Acc |-> Keep(p[2], places[p[1]], MostOf(acc, p[2], share))]
           Is(f) == f = [i \in 0..n |->
                      IF i = 0 THEN acc
                      ELSE LET a == f[i - 1]
                           IN  Keep(a, places[i], Least(a.left, Most(0, share - (acc.left - a.left))))]
<1>1. n \in Nat /\ \A i \in 1..n : places[i] \in Places
  OBVIOUS
<1>2. ASSUME NEW i \in 1..n, NEW a \in Acc
      PROVE  /\ step[<<i, a>>] = Keep(a, places[i], MostOf(acc, a, share))
             /\ step[<<i, a>>] \in Acc
  <2>1. step[<<i, a>>] = Keep(a, places[i], MostOf(acc, a, share))
    OBVIOUS
  <2>2. MostOf(acc, a, share) \in Int
    BY DEF MostOf, Acc, Least, Most
  <2>3. Keep(a, places[i], MostOf(acc, a, share)) \in Acc
    BY <1>1, <2>2, KeepIs DEF Adds
  <2> QED  BY <2>1, <2>3
<1>3. PICK f : GoesBy(f, n, Acc, acc, step)
  <2> HIDE DEF step, n
  <2> QED  BY <1>1, <1>2, GoesOn
<1>4. ASSUME NEW i \in 1..n
      PROVE  f[i] = Keep(f[i - 1], places[i], MostOf(acc, f[i - 1], share))
  <2>1. i - 1 \in 0..n
    BY <1>1
  <2> HIDE DEF step, n
  <2>2. f[i - 1] \in Acc /\ f[i] = step[<<i, f[i - 1]>>]
    BY <1>3, <2>1 DEF GoesBy
  <2> QED  BY <1>2, <2>2
<1>5. FillsBy(f, acc, places, share)
  BY <1>3, <1>4 DEF FillsBy, GoesBy
<1>6. \E g : Is(g)
  <2>1. PICK g : g = f /\ g = [i \in 0..n |-> g[i]]
    BY <1>3 DEF GoesBy
  <2>2. ASSUME NEW i \in 0..n
        PROVE  g[i] = IF i = 0 THEN acc
                      ELSE LET a == g[i - 1]
                           IN  Keep(a, places[i], Least(a.left, Most(0, share - (acc.left - a.left))))
    <3>1. CASE i = 0
      BY <1>3, <2>1, <3>1 DEF GoesBy
    <3>2. CASE i # 0
      <4>1. i \in 1..n
        BY <1>1, <3>2
      <4>2. g[i] = Keep(g[i - 1], places[i], MostOf(acc, g[i - 1], share))
        BY <1>4, <2>1, <4>1
      <4> QED  BY <3>2, <4>2 DEF MostOf
    <3> QED  BY <3>1, <3>2
  <2>3. Is(g)
    BY <2>1, <2>2
  <2> HIDE DEF Is
  <2> QED  BY <2>3
<1>7. PICK g : Is(g) /\ Fill(acc, places, share) = g[n]
  <2>1. PICK g : g = CHOOSE h : Is(h)
    OBVIOUS
  <2>2. Is(g)
    BY <1>6, <2>1
  <2>3. Fill(acc, places, share) = g[n]
    BY <2>1 DEF Fill
  <2> QED  BY <2>2, <2>3
<1>8. g = f
  <2> DEFINE P == {k \in 0..n : g[k] = f[k]}
  <2>1. 0 \in P
    BY <1>1, <1>3, <1>7 DEF GoesBy
  <2>2. ASSUME NEW k \in 1..n, k - 1 \in P PROVE k \in P
    <3>1. k \in 0..n /\ k # 0 /\ g[k - 1] = f[k - 1]
      BY <1>1, <2>2
    <3>2. g[k] = Keep(g[k - 1], places[k], MostOf(acc, g[k - 1], share))
      <4> HIDE DEF n
      <4> QED  BY <1>7, <3>1 DEF MostOf
    <3> QED  BY <1>4, <3>1, <3>2
  <2>3. P \in SUBSET (0..n)
    OBVIOUS
  <2> HIDE DEF P, n
  <2>4. P = 0..n
    BY <1>1, <2>1, <2>2, <2>3, PlaceByPlace
  <2>5. \A k \in 0..n : g[k] = f[k]
    BY <2>4 DEF P
  <2>6. g = [i \in 0..n |-> g[i]] /\ f = [i \in 0..n |-> f[i]]
    BY <1>3, <1>7 DEF GoesBy
  <2> QED  BY <2>5, <2>6
<1> QED  BY <1>5, <1>7, <1>8

\* What has been chosen stays chosen when a class fills its share.
LEMMA FillIs ==
  ASSUME NEW acc \in Acc, NEW places \in Seq(Places), NEW share \in Int
  PROVE  /\ Fill(acc, places, share) \in Acc
         /\ acc.chosen \subseteq Fill(acc, places, share).chosen
         /\ Fill(acc, places, share).failed = acc.failed
<1>1. PICK f : FillsBy(f, acc, places, share) /\ Fill(acc, places, share) = f[Len(places)]
  BY FillGoes
<1>2. PICK n : n = Len(places) /\ n \in Nat
  OBVIOUS
<1> DEFINE P == {k \in 0..n : acc.chosen \subseteq f[k].chosen /\ f[k].failed = acc.failed}
<1>3. 0 \in P
  BY <1>1, <1>2 DEF FillsBy
<1>4. ASSUME NEW k \in 1..n, k - 1 \in P PROVE k \in P
  <2>1. k - 1 \in 0..n /\ places[k] \in Places
    BY <1>2
  <2>2. PICK a, most : a = f[k - 1] /\ most = MostOf(acc, a, share)
    OBVIOUS
  <2>3. a \in Acc /\ f[k] = Keep(a, places[k], most)
    BY <1>1, <1>2, <2>1, <2>2 DEF FillsBy
  <2>4. most \in Int
    BY <2>2, <2>3 DEF MostOf, Acc, Least, Most
  <2>5. PICK cut \in SUBSET Item : Adds(a, places[k], most, cut)
    BY <2>1, <2>3, <2>4, KeepIs
  <2>6. acc.chosen \subseteq a.chosen /\ a.failed = acc.failed
    BY <1>4, <2>2
  <2> QED  BY <2>3, <2>5, <2>6 DEF Adds
<1>5. P \in SUBSET (0..n)
  OBVIOUS
<1>6. n \in P
  <2> HIDE DEF P
  <2>1. P = 0..n
    BY <1>2, <1>3, <1>4, <1>5, PlaceByPlace
  <2> QED  BY <1>2, <2>1
<1>7. f[n] \in Acc
  BY <1>1, <1>2 DEF FillsBy
<1> QED  BY <1>1, <1>2, <1>6, <1>7

\* How the required items share what is there.
FairlyBy(f, acc, places) ==
  /\ f \in [0..Len(places) -> Acc]
  /\ f[0] = acc
  /\ \A n \in 1..Len(places) :
       \E b : /\ b = Keep(f[n - 1], places[n], f[n - 1].left \div (Len(places) - n + 1))
              /\ f[n] = [chosen |-> b.chosen, left |-> b.left,
                         failed |-> b.failed \/ b.chosen = f[n - 1].chosen]

\* The required items are taken so, and what there is then is what the last one leaves.
LEMMA RequiredGoes ==
  ASSUME NEW acc \in Acc, NEW items, ByScore(items) \in Seq(Places)
  PROVE  \E f : FairlyBy(f, acc, ByScore(items)) /\ Required(acc, items) = f[Len(ByScore(items))]
<1>0. PICK places : places = ByScore(items)
  OBVIOUS
<1> DEFINE n == Len(places)
           Next2(i, a) == [Keep(a, places[i], a.left \div (n - i + 1)) EXCEPT !.failed =
                      @ \/ Keep(a, places[i], a.left \div (n - i + 1)).chosen = a.chosen]
           step == [p \in (1..n) \X Acc |-> Next2(p[1], p[2])]
           Is(f) == f = [i \in 0..n |->
                      IF i = 0 THEN acc
                      ELSE LET a == f[i - 1]
                               b == Keep(a, places[i], a.left \div (n - i + 1))
                           IN  [b EXCEPT !.failed = @ \/ b.chosen = a.chosen]]
<1>1. n \in Nat /\ \A i \in 1..n : places[i] \in Places
  BY <1>0
<1>2. ASSUME NEW i \in 1..n, NEW a \in Acc
      PROVE  /\ step[<<i, a>>] = Next2(i, a)
             /\ step[<<i, a>>] \in Acc
             /\ \E b : /\ b = Keep(a, places[i], a.left \div (n - i + 1))
                       /\ Next2(i, a) = [chosen |-> b.chosen, left |-> b.left,
                                         failed |-> b.failed \/ b.chosen = a.chosen]
  <2>1. step[<<i, a>>] = Next2(i, a)
    OBVIOUS
  <2>2. PICK most : most = a.left \div (n - i + 1)
    OBVIOUS
  <2>3. most \in Int
    BY <1>1, <2>2 DEF Acc
  <2>4. PICK b : b = Keep(a, places[i], most)
    OBVIOUS
  <2>5. b \in Acc
    BY <1>1, <2>3, <2>4, KeepIs DEF Adds
  <2>6. Next2(i, a) = [b EXCEPT !.failed = @ \/ b.chosen = a.chosen]
    BY <2>2, <2>4
  <2>7. Next2(i, a) = [chosen |-> b.chosen, left |-> b.left,
                       failed |-> b.failed \/ b.chosen = a.chosen]
    BY <2>5, <2>6 DEF Acc
  <2>8. Next2(i, a) \in Acc
    BY <2>5, <2>7 DEF Acc
  <2> QED  BY <2>1, <2>2, <2>4, <2>7, <2>8
<1>3. PICK f : GoesBy(f, n, Acc, acc, step)
  <2> HIDE DEF step, n
  <2> QED  BY <1>1, <1>2, GoesOn
<1>4. ASSUME NEW i \in 1..n
      PROVE  f[i - 1] \in Acc /\ f[i] = Next2(i, f[i - 1])
  <2>1. i - 1 \in 0..n
    BY <1>1
  <2> HIDE DEF step, n, Next2
  <2>2. f[i - 1] \in Acc /\ f[i] = step[<<i, f[i - 1]>>]
    BY <1>3, <2>1 DEF GoesBy
  <2> QED  BY <1>2, <2>2
<1>5. FairlyBy(f, acc, places)
  <2>1. ASSUME NEW i \in 1..n
        PROVE  \E b : /\ b = Keep(f[i - 1], places[i], f[i - 1].left \div (n - i + 1))
                      /\ f[i] = [chosen |-> b.chosen, left |-> b.left,
                                 failed |-> b.failed \/ b.chosen = f[i - 1].chosen]
    <3> HIDE DEF n, Next2, step
    <3>1. PICK a \in Acc : a = f[i - 1]
      BY <1>4
    <3>2. f[i] = Next2(i, a)
      BY <1>4, <3>1
    <3>3. PICK b : /\ b = Keep(a, places[i], a.left \div (n - i + 1))
                   /\ Next2(i, a) = [chosen |-> b.chosen, left |-> b.left,
                                     failed |-> b.failed \/ b.chosen = a.chosen]
      BY <1>2
    <3> QED  BY <3>1, <3>2, <3>3
  <2>2. f \in [0..n -> Acc] /\ f[0] = acc
    BY <1>3 DEF GoesBy
  <2> QED  BY <2>1, <2>2 DEF FairlyBy
<1>6. \E g : Is(g)
  <2>1. PICK g : g = f /\ g = [i \in 0..n |-> g[i]]
    BY <1>3 DEF GoesBy
  <2>2. ASSUME NEW i \in 0..n
        PROVE  g[i] = IF i = 0 THEN acc
                      ELSE LET a == g[i - 1]
                               b == Keep(a, places[i], a.left \div (n - i + 1))
                           IN  [b EXCEPT !.failed = @ \/ b.chosen = a.chosen]
    <3>1. CASE i = 0
      BY <1>3, <2>1, <3>1 DEF GoesBy
    <3>2. CASE i # 0
      <4>1. i \in 1..n
        BY <1>1, <3>2
      <4>2. g[i] = Next2(i, g[i - 1])
        BY <1>4, <2>1, <4>1
      <4> QED  BY <3>2, <4>2
    <3> QED  BY <3>1, <3>2
  <2>3. Is(g)
    BY <2>1, <2>2
  <2> HIDE DEF Is
  <2> QED  BY <2>3
<1>7. PICK g : Is(g) /\ Required(acc, items) = g[n]
  <2>1. PICK g : g = CHOOSE h : Is(h)
    OBVIOUS
  <2>2. Is(g)
    BY <1>6, <2>1
  <2>3. Required(acc, items) = g[n]
    BY <1>0, <2>1 DEF Required
  <2> QED  BY <2>2, <2>3
<1>8. g = f
  <2> DEFINE P == {k \in 0..n : g[k] = f[k]}
  <2>1. 0 \in P
    BY <1>1, <1>3, <1>7 DEF GoesBy
  <2>2. ASSUME NEW k \in 1..n, k - 1 \in P PROVE k \in P
    <3>1. k \in 0..n /\ k # 0 /\ g[k - 1] = f[k - 1]
      BY <1>1, <2>2
    <3>2. g[k] = Next2(k, g[k - 1])
      <4> HIDE DEF n
      <4> QED  BY <1>7, <3>1
    <3> HIDE DEF Next2
    <3> QED  BY <1>4, <3>1, <3>2
  <2>3. P \in SUBSET (0..n)
    OBVIOUS
  <2> HIDE DEF P, n
  <2>4. P = 0..n
    BY <1>1, <2>1, <2>2, <2>3, PlaceByPlace
  <2>5. \A k \in 0..n : g[k] = f[k]
    BY <2>4 DEF P
  <2>6. g = [i \in 0..n |-> g[i]] /\ f = [i \in 0..n |-> f[i]]
    BY <1>3, <1>7 DEF GoesBy
  <2> QED  BY <2>5, <2>6
<1> QED  BY <1>0, <1>5, <1>7, <1>8

\* The item is there, cut down if need be.
IsOf(c, i) == c.id = i.id /\ c.kind = i.kind /\ c.required = i.required /\ c.body = i.body
Holds(chosen, i) == \E c \in chosen : IsOf(c, i)

\* What a place adds is its item.
LEMMA CutHolds ==
  ASSUME NEW acc \in Acc, NEW place \in Places, NEW most \in Int, NEW cut \in SUBSET Item,
         Adds(acc, place, most, cut), cut # {}
  PROVE  \A i \in place : Holds(cut, i)
<1>1. PICK c \in cut : TRUE
  OBVIOUS
<1>2. PICK i \in place : \E n \in Nat : c = [i EXCEPT !.size = n]
  BY <1>1 DEF Adds
<1>3. PICK n \in Nat : c = [i EXCEPT !.size = n]
  BY <1>2
<1>4. i \in Item /\ \A j \in place : j = i
  BY <1>2 DEF Places
<1>5. IsOf(c, i)
  BY <1>3, <1>4 DEF IsOf, Item
<1> QED  BY <1>1, <1>4, <1>5 DEF Holds

\* Either every required item is there, or the selection has failed.
LEMMA RequiredIs ==
  ASSUME NEW acc \in Acc, NEW items \in SUBSET Item, IsFiniteSet(items),
         \A i, j \in items : i.id = j.id => i = j
  PROVE  /\ Required(acc, items) \in Acc
         /\ Required(acc, items).failed \/ \A i \in items : Holds(Required(acc, items).chosen, i)
<1>1. PICK places : places = ByScore(items)
  OBVIOUS
<1>2. /\ places \in Seq(Places)
      /\ \A i \in items : \E k \in 1..Len(places) : places[k] = {i}
  BY <1>1, ByScoreIs
<1>3. PICK f : FairlyBy(f, acc, places) /\ Required(acc, items) = f[Len(places)]
  BY <1>1, <1>2, RequiredGoes
<1>4. PICK n : n = Len(places) /\ n \in Nat
  BY <1>2
<1> DEFINE Has(k) == \A j \in 1..k : \A i \in places[j] : Holds(f[k].chosen, i)
           P == {k \in 0..n : f[k].failed \/ Has(k)}
<1>5. 0 \in P
  BY <1>4
<1>6. ASSUME NEW k \in 1..n, k - 1 \in P PROVE k \in P
  <2>1. k - 1 \in 0..n /\ places[k] \in Places
    BY <1>2, <1>4
  <2>2. PICK a, most : a = f[k - 1] /\ most = a.left \div (n - k + 1)
    OBVIOUS
  <2>3. a \in Acc
    BY <1>3, <1>4, <2>1, <2>2 DEF FairlyBy
  <2>4. most \in Int
    BY <1>4, <2>2, <2>3 DEF Acc
  <2>5. PICK b : /\ b = Keep(a, places[k], most)
                 /\ f[k] = [chosen |-> b.chosen, left |-> b.left,
                            failed |-> b.failed \/ b.chosen = a.chosen]
    BY <1>3, <1>4, <2>2 DEF FairlyBy
  <2>6. PICK cut \in SUBSET Item : Adds(a, places[k], most, cut)
    BY <2>1, <2>3, <2>4, KeepIs
  <2>7. /\ b.failed = a.failed /\ f[k].chosen = a.chosen \cup cut
        /\ f[k].failed = (a.failed \/ b.chosen = a.chosen) /\ b.chosen = a.chosen \cup cut
    BY <2>5, <2>6 DEF Adds
  <2>8. CASE a.failed
    <3>1. f[k].failed
      BY <2>7, <2>8, Zenon
    <3> QED  BY <1>4, <3>1
  <2>9. CASE ~a.failed /\ cut = {}
    BY <2>7, <2>9
  <2>10. CASE ~a.failed /\ cut # {}
    <3>1. Has(k - 1) /\ ~f[k - 1].failed
      BY <1>6, <2>2, <2>10
    <3>2. \A i \in places[k] : Holds(cut, i)
      BY <2>1, <2>3, <2>4, <2>6, <2>10, CutHolds
    <3>3. ASSUME NEW j \in 1..k, NEW i \in places[j] PROVE Holds(f[k].chosen, i)
      <4>1. CASE j = k
        BY <2>7, <3>2, <4>1 DEF Holds
      <4>2. CASE j # k
        <5>1. j \in 1..(k - 1)
          BY <4>2
        <5>2. Holds(a.chosen, i)
          BY <2>2, <3>1, <5>1
        <5> QED  BY <2>7, <5>2 DEF Holds
      <4> QED  BY <4>1, <4>2
    <3> QED  BY <3>3
  <2> QED  BY <2>8, <2>9, <2>10
<1>7. P \in SUBSET (0..n)
  OBVIOUS
<1>8. n \in P
  <2> HIDE DEF P
  <2>1. P = 0..n
    BY <1>4, <1>5, <1>6, <1>7, PlaceByPlace
  <2> QED  BY <1>4, <2>1
<1>9. f[n] \in Acc
  BY <1>3, <1>4 DEF FairlyBy
<1>10. ASSUME ~f[n].failed, NEW i \in items PROVE Holds(f[n].chosen, i)
  <2>1. PICK k \in 1..n : places[k] = {i}
    BY <1>2, <1>4
  <2> QED  BY <1>8, <1>10, <2>1
<1> QED  BY <1>3, <1>4, <1>9, <1>10

\* The places of the messages, one index each.
LEMMA NewestFirstIs ==
  ASSUME NEW items \in SUBSET Item, \A i, j \in items : i.index = j.index => i = j,
         Max({0} \cup {i.index : i \in items}) \in Nat
  PROVE  NewestFirst(items) \in Seq(Places)
<1>1. PICK last \in Nat : last = Max({0} \cup {i.index : i \in items})
  OBVIOUS
<1>2. PICK s : s = [n \in 1..last |-> {i \in items : i.index = last + 1 - n}]
  OBVIOUS
<1>3. \A n \in 1..last : s[n] \in Places
  BY <1>2 DEF Places
<1>4. s = [n \in 1..last |-> s[n]]
  BY <1>2
<1>5. s \in Seq(Places)
  BY <1>3, <1>4
<1> QED  BY <1>1, <1>2, <1>5 DEF NewestFirst

\* Of finitely many, some are before no other; ahead[i] are those ahead of i.
LEMMA ForemostIs ==
  ASSUME NEW S, IsFiniteSet(S), S # {}, NEW ahead \in [S -> SUBSET S],
         \A i \in S : \A j \in ahead[i] : ahead[j] \subseteq ahead[i] \ {j}
  PROVE  \E i \in S : ahead[i] = {}
<1>1. \A i \in S : IsFiniteSet(ahead[i]) /\ Cardinality(ahead[i]) \in Nat
  BY FS_Subset, FS_CardinalityType
<1>2. PICK T : T = {Cardinality(ahead[i]) : i \in S}
  OBVIOUS
<1>3. PICK m \in T : \A k \in T : m <= k
  <2>1. T \in SUBSET Nat /\ T # {}
    BY <1>1, <1>2
  <2> QED  BY <2>1, LeastIs
<1>4. PICK i \in S : m = Cardinality(ahead[i])
  BY <1>2, <1>3
<1>5. SUFFICES ASSUME NEW j \in ahead[i] PROVE FALSE
  BY <1>4
<1>6. j \in S /\ ahead[j] \in SUBSET ahead[i] /\ j \notin ahead[j]
  BY <1>4, <1>5
<1>7. Cardinality(ahead[j]) <= m /\ Cardinality(ahead[j]) # m
  BY <1>1, <1>4, <1>5, <1>6, FS_Subset
<1>8. m <= Cardinality(ahead[j])
  BY <1>2, <1>3, <1>6
<1> QED  BY <1>1, <1>4, <1>6, <1>7, <1>8

\* The item that goes is one of them.
LEMMA VictimIs ==
  ASSUME NEW S \in SUBSET Item, IsFiniteSet(S), S # {}
  PROVE  Victim(S) \in S
<1> DEFINE Sooner(j, i) == j.score < i.score \/ (j.score = i.score /\ j.size > i.size)
<1>1. ASSUME NEW i \in S, NEW j \in S
      PROVE  /\ ~Sooner(i, i)
             /\ ~Sooner(j, i) => i.score < j.score \/ (i.score = j.score /\ i.size >= j.size)
             /\ \A k \in S : Sooner(j, i) /\ Sooner(k, j) => Sooner(k, i)
  BY DEF Item
<1>2. \E i \in S : \A j \in S : ~Sooner(j, i)
  <2> HIDE DEF Sooner
  <2>1. PICK ahead : ahead = [i \in S |-> {j \in S : Sooner(j, i)}]
    OBVIOUS
  <2>2. ahead \in [S -> SUBSET S]
    BY <2>1
  <2>3. ASSUME NEW i \in S, NEW j \in ahead[i] PROVE ahead[j] \subseteq ahead[i] \ {j}
    BY <1>1, <2>1
  <2>4. PICK i \in S : ahead[i] = {}
    BY <2>2, <2>3, ForemostIs
  <2>5. ahead[i] = {j \in S : Sooner(j, i)}
    BY <2>1
  <2> QED  BY <2>4, <2>5
<1>3. PICK i \in S : \A j \in S : ~Sooner(j, i)
  BY <1>2
<1>4. \A j \in S : i.score < j.score \/ (i.score = j.score /\ i.size >= j.size)
  BY <1>1, <1>3
<1> QED  BY <1>4 DEF Victim

\* The final fit leaves the required items where they are.
LEMMA FitIs ==
  ASSUME NEW base, NEW items \in SUBSET Item, IsFiniteSet(items)
  PROVE  /\ FitCompiled(base, items) \subseteq items
         /\ \A i \in items : i.required => i \in FitCompiled(base, items)
<1> DEFINE n == Cardinality(items)
           Optional(some) == {i \in some : ~i.required}
           Less(some) ==
             IF CompiledTokens(base, some) <= TokenBudget \/ Optional(some) = {} THEN some
             ELSE some \ {Victim(Optional(some))}
           step == [p \in (1..n) \X SUBSET items |-> Less(p[2])]
           Is(f) == f = [k \in 0..n |->
                      IF k = 0 THEN items
                      ELSE LET some == f[k - 1]
                           IN  IF CompiledTokens(base, some) <= TokenBudget \/ Optional(some) = {} THEN some
                               ELSE some \ {Victim(Optional(some))}]
<1>1. n \in Nat
  BY FS_CardinalityType
<1>2. ASSUME NEW some \in SUBSET items
      PROVE  /\ Less(some) \in SUBSET items
             /\ \A i \in some : i.required => i \in Less(some)
  <2>1. CASE Less(some) = some
    BY <2>1
  <2>2. CASE Less(some) # some
    <3>1. Optional(some) # {} /\ Less(some) = some \ {Victim(Optional(some))}
      BY <2>2
    <3>2. Optional(some) \in SUBSET items /\ IsFiniteSet(Optional(some))
      BY FS_Subset
    <3>3. Victim(Optional(some)) \in Optional(some)
      BY <3>1, <3>2, VictimIs
    <3> QED  BY <3>1, <3>3
  <2> QED  BY <2>1, <2>2
<1>3. ASSUME NEW k \in 1..n, NEW some \in SUBSET items
      PROVE  step[<<k, some>>] = Less(some) /\ step[<<k, some>>] \in SUBSET items
  <2>1. step[<<k, some>>] = Less(some)
    OBVIOUS
  <2> HIDE DEF step, Less
  <2> QED  BY <1>2, <2>1
<1>4. PICK f : GoesBy(f, n, SUBSET items, items, step)
  <2> HIDE DEF step, n
  <2> QED  BY <1>1, <1>3, GoesOn
<1>5. ASSUME NEW k \in 1..n PROVE f[k - 1] \in SUBSET items /\ f[k] = Less(f[k - 1])
  <2>1. k - 1 \in 0..n
    BY <1>1
  <2> HIDE DEF step, n, Less
  <2>2. f[k - 1] \in SUBSET items /\ f[k] = step[<<k, f[k - 1]>>]
    BY <1>4, <2>1 DEF GoesBy
  <2> QED  BY <1>3, <2>2
<1>6. \E g : Is(g)
  <2>1. f = [k \in 0..n |-> f[k]]
    BY <1>4 DEF GoesBy
  <2>2. ASSUME NEW k \in 0..n
        PROVE  f[k] = IF k = 0 THEN items
                      ELSE LET some == f[k - 1]
                           IN  IF CompiledTokens(base, some) <= TokenBudget \/ Optional(some) = {} THEN some
                               ELSE some \ {Victim(Optional(some))}
    <3>1. CASE k = 0
      BY <1>4, <3>1 DEF GoesBy
    <3>2. CASE k # 0
      <4>1. k \in 1..n
        BY <1>1, <3>2
      <4> HIDE DEF n, Optional
      <4> QED  BY <1>5, <3>2, <4>1
    <3> QED  BY <3>1, <3>2
  <2>3. Is(f)
    <3> HIDE DEF n, Optional
    <3> QED  BY <2>1, <2>2
  <2> HIDE DEF Is
  <2> QED  BY <2>3
<1>7. PICK g : Is(g) /\ FitCompiled(base, items) = g[n]
  <2>1. PICK g : g = CHOOSE h : Is(h)
    OBVIOUS
  <2>2. Is(g)
    BY <1>6, <2>1
  <2>3. FitCompiled(base, items) = g[n]
    BY <2>1 DEF FitCompiled
  <2> QED  BY <2>2, <2>3
<1> DEFINE P == {k \in 0..n : /\ g[k] \in SUBSET items
                              /\ \A i \in items : i.required => i \in g[k]}
<1>8. 0 \in P
  BY <1>1, <1>7
<1>9. ASSUME NEW k \in 1..n, k - 1 \in P PROVE k \in P
  <2>1. k \in 0..n /\ k # 0 /\ g[k - 1] \in SUBSET items
        /\ \A i \in items : i.required => i \in g[k - 1]
    BY <1>1, <1>9
  <2>2. g[k] = Less(g[k - 1])
    <3> HIDE DEF n, Optional
    <3> QED  BY <1>7, <2>1
  <2> HIDE DEF Less, n
  <2> QED  BY <1>2, <2>1, <2>2
<1>10. P \in SUBSET (0..n)
  OBVIOUS
<1>11. n \in P
  <2> HIDE DEF P, n
  <2>1. P = 0..n
    BY <1>1, <1>8, <1>9, <1>10, PlaceByPlace
  <2> QED  BY <1>1, <2>1
<1> QED  BY <1>7, <1>11

\* Candidates as a build gathers them: the messages and the summary are told apart by
\* their ids, the rest are too, and no message needs to be kept.
Gathered(items, n) ==
  /\ items \in SUBSET Item /\ IsFiniteSet(items)
  /\ \A i, j \in items : i.id = j.id /\ IsHistory(i) = IsHistory(j) => i = j
  /\ \A i \in items : IsHistory(i) => ~i.required
  /\ \A i \in items : i.kind = "working" => i.index \in 1..n
  /\ \A i, j \in items : i.kind = "working" /\ j.kind = "working" /\ i.index = j.index => i = j

\* The places of the messages of a build.
LEMMA WorkingPlaces ==
  ASSUME NEW n \in Nat, NEW items, Gathered(items, n),
         NEW working, working \subseteq {i \in items : i.kind = "working"}
  PROVE  NewestFirst(working) \in Seq(Places)
<1>1. PICK S : S = {0} \cup {i.index : i \in working}
  OBVIOUS
<1>2. S \subseteq 0..n /\ S # {}
  BY <1>1 DEF Gathered
<1>3. Max(S) \in Nat
  <2>1. PICK m : m = Max(S)
    OBVIOUS
  <2>2. m \in S
    BY <1>2, <2>1, MaxIs
  <2> QED  BY <1>2, <2>1, <2>2
<1> QED  BY <1>1, <1>3, NewestFirstIs DEF Gathered

\* The stages of a selection.
Selects(items, budget, required, withHistory, all) ==
  /\ required = Required([chosen |-> {}, left |-> budget, failed |-> FALSE],
                         {i \in items : i.required})
  /\ withHistory = History(required, {i \in items : i.kind = "summary" /\ ~i.required},
                           {i \in items : i.kind = "working" /\ ~i.required},
                           Least(required.left, HistoryBudget(budget)))
  /\ all = Fill(withHistory, ByScore({i \in items : ~i.required /\ ~IsHistory(i)}),
                withHistory.left)

\* What is selected when there is a budget.
LEMMA SelectionIs ==
  ASSUME NEW items, NEW budget, ~(budget <= 0), NEW required, NEW withHistory, NEW all,
         Selects(items, budget, required, withHistory, all)
  PROVE  Select(items, budget) = IF required.failed THEN required ELSE all
BY DEF Selects, Select

\* What is selected: all that is required, or the selection has failed.
LEMMA SelectIs ==
  ASSUME NEW n \in Nat, NEW items, Gathered(items, n), NEW budget \in Nat, budget > 0
  PROVE  /\ Select(items, budget) \in Acc
         /\ \/ Select(items, budget).failed
            \/ \A i \in items : i.required => Holds(Select(items, budget).chosen, i)
<1>1. PICK start : start = [chosen |-> {}, left |-> budget, failed |-> FALSE]
  OBVIOUS
<1>2. start \in Acc
  BY <1>1, FS_EmptySet DEF Acc
<1>3. PICK needed, told, working, others :
        /\ needed = {i \in items : i.required}
        /\ told = {i \in items : i.kind = "summary" /\ ~i.required}
        /\ working = {i \in items : i.kind = "working" /\ ~i.required}
        /\ others = {i \in items : ~i.required /\ ~IsHistory(i)}
  OBVIOUS
<1>4. ASSUME NEW some \in {needed, told, others}
      PROVE  /\ some \in SUBSET Item /\ IsFiniteSet(some)
             /\ \A i, j \in some : i.id = j.id => i = j
  <2>1. some \in SUBSET items /\ \A i, j \in some : IsHistory(i) = IsHistory(j)
    BY <1>3 DEF Gathered, IsHistory
  <2> QED  BY <2>1, FS_Subset DEF Gathered
<1>5. PICK required : required = Required(start, needed)
  OBVIOUS
<1>6. required \in Acc /\ (required.failed \/ \A i \in needed : Holds(required.chosen, i))
  BY <1>2, <1>4, <1>5, RequiredIs
<1>7. PICK history, withSummary, withHistory, all, share :
        /\ history = Least(required.left, HistoryBudget(budget))
        /\ withSummary = Fill(required, ByScore(told), SummaryBudget(history))
        /\ share = history - (required.left - withSummary.left)
        /\ withHistory = Fill(withSummary, NewestFirst(working), share)
        /\ all = Fill(withHistory, ByScore(others), withHistory.left)
  OBVIOUS
<1>8. history \in Int /\ SummaryBudget(history) \in Int
  BY <1>6, <1>7, PolicyIs DEF Acc, Least, HistoryBudget, SummaryBudget
<1>9. withSummary \in Acc
  <2>1. ByScore(told) \in Seq(Places)
    BY <1>4, ByScoreIs
  <2> QED  BY <1>6, <1>7, <1>8, <2>1, FillIs
<1>10. withHistory \in Acc /\ required.chosen \subseteq withHistory.chosen
  <2>1. NewestFirst(working) \in Seq(Places) /\ ByScore(told) \in Seq(Places)
    BY <1>3, <1>4, WorkingPlaces, ByScoreIs
  <2>2. share \in Int
    BY <1>6, <1>7, <1>8, <1>9 DEF Acc
  <2> QED  BY <1>6, <1>7, <1>8, <1>9, <2>1, <2>2, FillIs
<1>11. all \in Acc /\ required.chosen \subseteq all.chosen /\ all.failed = withHistory.failed
  <2>1. ByScore(others) \in Seq(Places)
    BY <1>4, ByScoreIs
  <2>2. PICK left \in Int : left = withHistory.left
    BY <1>10 DEF Acc
  <2>3. all = Fill(withHistory, ByScore(others), left)
    BY <1>7, <2>2
  <2> QED  BY <1>10, <2>1, <2>2, <2>3, FillIs
<1>12. Select(items, budget) = IF required.failed THEN required ELSE all
  <2>1. ~(budget <= 0)
    OBVIOUS
  <2>2. required = Required([chosen |-> {}, left |-> budget, failed |-> FALSE],
                            {i \in items : i.required})
    BY <1>1, <1>3, <1>5
  <2>3. withHistory = History(required, told, working, history)
    BY <1>7 DEF History
  <2>4. withHistory = History(required, {i \in items : i.kind = "summary" /\ ~i.required},
                              {i \in items : i.kind = "working" /\ ~i.required},
                              Least(required.left, HistoryBudget(budget)))
    BY <1>3, <1>7, <2>3
  <2>5. all = Fill(withHistory, ByScore({i \in items : ~i.required /\ ~IsHistory(i)}),
                   withHistory.left)
    BY <1>3, <1>7
  <2>6. Selects(items, budget, required, withHistory, all)
    BY <2>2, <2>4, <2>5 DEF Selects
  <2> QED  BY <2>1, <2>6, SelectionIs
<1>13. CASE required.failed
  BY <1>6, <1>12, <1>13
<1>14. CASE ~required.failed
  <2>1. \A i \in needed : Holds(all.chosen, i)
    BY <1>6, <1>11, <1>14 DEF Holds
  <2> QED  BY <1>3, <1>11, <1>12, <1>14, <2>1
<1> QED  BY <1>13, <1>14

IsImage(T, f, S) == \A x : x \in T <=> \E i \in S : x = f[i]

\* What finitely many are mapped to is finite.
LEMMA ImageIs ==
  ASSUME NEW S, IsFiniteSet(S), NEW U, NEW f \in [S -> U],
         NEW T, IsImage(T, f, S)
  PROVE  IsFiniteSet(T)
<1>1. f \in [S -> T]
  BY DEF IsImage
<1>2. f \in Surjection(S, T)
  BY <1>1 DEF Surjection, IsImage
<1> QED  BY <1>2, FS_Surjection

\* A build's window and summary can be read.
Readable(b) ==
  /\ b.recent \subseteq 1..Len(messages)
  /\ b.summary # NoSummary => b.summary.size \in Nat

\* A message of the window as an item.
IsMessage(w, i) ==
  /\ w \in Item /\ w.kind = "working" /\ w.required = FALSE /\ w.direct = FALSE /\ w.key = ""
  /\ w.id = i /\ w.index = i /\ w.score >= 50 /\ w.size = Size(i)

\* What is made of the window, and of the summary.
WorkingItems(b) == {WorkingItem(i, Cardinality({j \in b.recent : j <= i})) : i \in b.recent}
Told(b) == IF b.summary = NoSummary THEN {} ELSE {SummaryItem(b.summary)}

\* The messages of the window are items with an id and an index of their own.
LEMMA WorkingItemsAre ==
  ASSUME messages \in Seq(Message), NEW b, Readable(b),
         NEW working, working = WorkingItems(b)
  PROVE  /\ working \in SUBSET Item /\ IsFiniteSet(working)
         /\ \A w \in working : \E i \in b.recent : IsMessage(w, i)
         /\ \A v, w \in working : v.id = w.id => v = w
         /\ \A i \in b.recent : \E w \in working : IsMessage(w, i)
<1>1. PICK n : n = Len(messages) /\ n \in Nat
  OBVIOUS
<1>2. IsFiniteSet(b.recent) /\ b.recent \in SUBSET (1..n)
  <2>1. IsFiniteSet(1..n)
    BY <1>1, FS_Interval
  <2>2. b.recent \in SUBSET (1..n)
    BY <1>1 DEF Readable
  <2> QED  BY <2>1, <2>2, FS_Subset
<1>3. PICK place : place = [i \in b.recent |-> Cardinality({j \in b.recent : j <= i})]
  OBVIOUS
<1>4. ASSUME NEW i \in b.recent PROVE place[i] \in Nat
  <2>1. {j \in b.recent : j <= i} \in SUBSET b.recent
    OBVIOUS
  <2>2. Cardinality({j \in b.recent : j <= i}) \in Nat
    BY <1>2, <2>1, FS_Subset, FS_CardinalityType
  <2> QED  BY <1>3, <2>2
<1>5. PICK f : f = [i \in b.recent |-> WorkingItem(i, place[i])]
  OBVIOUS
<1>6. ASSUME NEW i \in b.recent
      PROVE  IsMessage(f[i], i)
  <2>1. messages[i] \in Message
    BY <1>1, <1>2
  <2>2. messages[i].size \in Nat
    BY <2>1, ItemsAssumption DEF Message
  <2>3. PICK w, score, size : w = f[i] /\ score = 50 + place[i] /\ size = Size(i)
    OBVIOUS
  <2>4. w = [id |-> i, kind |-> "working", size |-> size, score |-> score, required |-> FALSE,
             direct |-> FALSE, rank |-> 0, key |-> "", body |-> "message", index |-> i]
    BY <1>5, <2>3 DEF WorkingItem
  <2>5. i \in Nat /\ score \in Nat /\ score >= 50 /\ size \in Nat
    BY <1>2, <1>4, <2>2, <2>3 DEF Size
  <2>6. w \in Item
    BY <2>4, <2>5, ItemIs
  <2>7. /\ w.kind = "working" /\ w.required = FALSE /\ w.direct = FALSE /\ w.key = ""
        /\ w.id = i /\ w.index = i /\ w.score = score /\ w.size = size
    BY <2>4
  <2>8. w.score >= 50 /\ w.size = Size(i)
    BY <2>3, <2>5, <2>7
  <2> QED  BY <2>3, <2>6, <2>7, <2>8, Zenon DEF IsMessage
<1>7. working \in SUBSET Item /\ IsFiniteSet(working) /\ \A w : w \in working <=> \E i \in b.recent : w = f[i]
  <2>1. \A w : w \in working <=> \E i \in b.recent : w = f[i]
    BY <1>3, <1>5 DEF WorkingItems
  <2>2. f \in [b.recent -> Item]
    BY <1>5, <1>6 DEF IsMessage
  <2>3. IsFiniteSet(working)
    <3>1. IsImage(working, f, b.recent)
      BY <2>1 DEF IsImage
    <3> QED  BY <1>2, <2>2, <3>1, ImageIs
  <2> QED  BY <2>1, <2>2, <2>3
<1>8. ASSUME NEW w \in working
      PROVE  \E i \in b.recent : w = f[i] /\ w.id = i
  <2>1. PICK i \in b.recent : w = f[i]
    BY <1>7
  <2>2. IsMessage(w, i)
    BY <1>6, <2>1, Zenon
  <2> QED  BY <2>1, <2>2 DEF IsMessage
<1>9. \A v, w \in working : v.id = w.id => v = w
  BY <1>8
<1> QED  BY <1>6, <1>7, <1>8, <1>9

\* What is gathered for the model.
LEMMA CandidatesAre ==
  ASSUME messages \in Seq(Message), NEW b, Readable(b),
         NEW r \in Requests, NEW recalled \in Recalled
  PROVE  Gathered(Candidates(b, recalled, r.assets), Len(messages))
<1>0. PICK assets : assets = r.assets
  OBVIOUS
<1>1. PICK told, working, marked :
        /\ told = Told(b) /\ working = WorkingItems(b)
        /\ marked = {Marked(i, assets) : i \in recalled}
  BY Zenon
<1>2. PICK all : all = Candidates(b, recalled, assets) /\ all = told \cup working \cup marked \cup assets
  BY <1>1 DEF Candidates, Told, WorkingItems
<1>3. /\ told \in SUBSET Item /\ IsFiniteSet(told)
      /\ \A i \in told : i.kind = "summary" /\ i.id = 0 /\ ~i.required
      /\ \A i, j \in told : i = j
  <2>1. CASE told = {}
    BY <2>1, FS_EmptySet
  <2>2. CASE told # {}
    <3>1. b.summary.size \in Nat /\ told = {SummaryItem(b.summary)}
      BY <1>1, <2>2 DEF Readable, Told
    <3>2. PICK i, size : i = SummaryItem(b.summary) /\ size = b.summary.size
      OBVIOUS
    <3>3. i = [id |-> 0, kind |-> "summary", size |-> size, score |-> 75, required |-> FALSE,
               direct |-> FALSE, rank |-> 0, key |-> "", body |-> "summary", index |-> 0]
      BY <3>2 DEF SummaryItem
    <3>4. i.kind = "summary" /\ i.id = 0 /\ ~i.required
      BY <3>3
    <3>5. i \in Item
      BY <3>1, <3>2, <3>3, ItemIs
    <3> QED  BY <3>1, <3>2, <3>4, <3>5, FS_Singleton
  <2> QED  BY <2>1, <2>2
<1>4. /\ working \in SUBSET Item /\ IsFiniteSet(working)
      /\ \A w \in working : w.kind = "working" /\ ~w.required /\ w.id \in 1..Len(messages) /\ w.index = w.id
      /\ \A v, w \in working : v.id = w.id => v = w
  <2>1. \A i \in b.recent : i \in 1..Len(messages)
    BY DEF Readable
  <2>2. /\ working \in SUBSET Item /\ IsFiniteSet(working)
        /\ \A w \in working : \E i \in b.recent : IsMessage(w, i)
        /\ \A v, w \in working : v.id = w.id => v = w
    BY <1>1, WorkingItemsAre
  <2> QED  BY <2>1, <2>2 DEF IsMessage
<1>5. /\ assets \in SUBSET Item /\ IsFiniteSet(assets)
      /\ \A i \in assets : ~IsHistory(i) /\ i.required /\ i.direct
  BY <1>0, ItemsAssumption
<1>6. /\ recalled \in SUBSET Item /\ IsFiniteSet(recalled)
      /\ \A i \in recalled : ~IsHistory(i) /\ ~i.direct
  BY ItemsAssumption
<1>7. ASSUME NEW i \in recalled
      PROVE  Marked(i, assets) \in Item /\ Marked(i, assets).id = i.id /\ ~IsHistory(Marked(i, assets))
  <2>1. PICK p \in BOOLEAN : p = \E a \in assets : a.key = i.key
    OBVIOUS
  <2>2. Marked(i, assets) = [i EXCEPT !.required = p]
    BY <2>1 DEF Marked
  <2>3. i \in Item /\ ~IsHistory(i)
    BY <1>6
  <2> QED  BY <2>2, <2>3 DEF Item, IsHistory
<1>8. /\ marked \in SUBSET Item /\ IsFiniteSet(marked)
      /\ \A i \in marked : ~IsHistory(i) /\ \E j \in recalled : i.id = j.id /\ i = Marked(j, assets)
  <2>1. PICK f : f = [i \in recalled |-> Marked(i, assets)]
    OBVIOUS
  <2>2. \A x : x \in marked <=> \E i \in recalled : x = f[i]
    BY <1>1, <2>1
  <2>3. f \in [recalled -> Item]
    BY <1>7, <2>1
  <2>4. IsFiniteSet(marked)
    <3>1. IsImage(marked, f, recalled)
      BY <2>2 DEF IsImage
    <3> QED  BY <1>6, <2>3, <3>1, ImageIs
  <2> QED  BY <1>1, <1>7, <2>4
<1>9. \A i, j \in assets \cup recalled : i.id = j.id => i = j
  BY <1>0, ItemsAssumption
<1>10. ASSUME NEW i \in assets \cup marked, NEW j \in assets \cup marked, i.id = j.id PROVE i = j
  <2>1. CASE i \in assets /\ j \in assets
    BY <1>9, <1>10, <2>1
  <2>2. ASSUME NEW x \in assets, NEW y \in marked, x.id = y.id PROVE FALSE
    <3>1. PICK z \in recalled : y.id = z.id
      BY <1>8
    <3>2. x = z
      BY <1>9, <2>2, <3>1
    <3> QED  BY <1>5, <1>6, <3>2
  <2>3. CASE i \in marked /\ j \in marked
    <3>1. PICK x \in recalled : i.id = x.id /\ i = Marked(x, assets)
      BY <1>8, <2>3
    <3>2. PICK y \in recalled : j.id = y.id /\ j = Marked(y, assets)
      BY <1>8, <2>3
    <3> QED  BY <1>9, <1>10, <3>1, <3>2
  <2> QED  BY <1>10, <2>1, <2>2, <2>3
<1>11. all \in SUBSET Item /\ IsFiniteSet(all)
  <2>1. IsFiniteSet(told \cup working)
    BY <1>3, <1>4, FS_Union
  <2>2. IsFiniteSet(told \cup working \cup marked)
    BY <1>8, <2>1, FS_Union
  <2>3. IsFiniteSet(all)
    BY <1>2, <1>5, <2>2, FS_Union
  <2> QED  BY <1>2, <1>3, <1>4, <1>5, <1>8, <2>3
<1>12. /\ \A i \in told \cup working : IsHistory(i) /\ ~i.required
       /\ \A i \in assets \cup marked : ~IsHistory(i)
  BY <1>3, <1>4, <1>5, <1>8 DEF IsHistory
<1>13. ASSUME NEW i \in told \cup working, NEW j \in told \cup working, i.id = j.id PROVE i = j
  BY <1>3, <1>4, <1>13
<1>14. \A i \in all : i.kind = "working" => i \in working
  BY <1>2, <1>3, <1>12 DEF IsHistory
<1>15. \A i, j \in all : i.id = j.id /\ IsHistory(i) = IsHistory(j) => i = j
  BY <1>2, <1>10, <1>12, <1>13
<1> QED  BY <1>0, <1>2, <1>4, <1>11, <1>12, <1>14, <1>15 DEF Gathered

\* A summary and messages are history, and have no identity.
LEMMA HistoryIs ==
  ASSUME NEW b, NEW i \in Told(b) \cup WorkingItems(b)
  PROVE  i.key = "" /\ IsHistory(i) /\ ~i.direct
<1>1. \A s : /\ SummaryItem(s).key = "" /\ SummaryItem(s).direct = FALSE
            /\ SummaryItem(s).kind = "summary"
  BY DEF SummaryItem
<1>2. \A k, p : /\ WorkingItem(k, p).key = "" /\ WorkingItem(k, p).direct = FALSE
               /\ WorkingItem(k, p).kind = "working"
  BY DEF WorkingItem
<1>3. (\E s : i = SummaryItem(s)) \/ (\E k, p : i = WorkingItem(k, p))
  BY Zenon DEF Told, WorkingItems
<1> QED  BY <1>1, <1>2, <1>3 DEF IsHistory

\* Of what is gathered, deduplication keeps the history and leaves each attachment one
\* that says the same.
LEMMA DeduplicateIs ==
  ASSUME messages \in Seq(Message), NEW b, Readable(b),
         NEW r \in Requests, NEW recalled \in Recalled,
         NEW items, items = Candidates(b, recalled, r.assets)
  PROVE  /\ Gathered(Deduplicate(items), Len(messages))
         /\ Told(b) \cup WorkingItems(b) \subseteq Deduplicate(items)
         /\ \A a \in r.assets : \E i \in Deduplicate(items) : i.body = a.body /\ i.required
<1>1. PICK n : n = Len(messages) /\ Gathered(items, n)
  BY CandidatesAre
<1>2. PICK assets : assets = r.assets
  OBVIOUS
<1>3. PICK one, two : one = Best(items, SameObject) /\ two = Best(one, SameText)
  OBVIOUS
<1>4. /\ one = {i \in items : ~\E j \in items : SameObject(i, j) /\ Outranks(j, i)}
      /\ two = {i \in one : ~\E j \in one : SameText(i, j) /\ Outranks(j, i)}
      /\ Deduplicate(items) = two
  BY <1>3 DEF Best, Deduplicate
<1>5. two \in SUBSET items /\ one \in SUBSET items
  BY <1>4
<1>6. Gathered(two, n)
  <2>1. IsFiniteSet(two)
    BY <1>1, <1>5, FS_Subset DEF Gathered
  <2> QED  BY <1>1, <1>5, <2>1 DEF Gathered
<1>7. Told(b) \cup WorkingItems(b) \subseteq two
  <2>1. Told(b) \cup WorkingItems(b) \subseteq items
    BY DEF Candidates, Told, WorkingItems
  <2>2. \A i \in Told(b) \cup WorkingItems(b) : i.key = "" /\ IsHistory(i)
    BY HistoryIs
  <2> QED  BY <1>4, <2>1, <2>2 DEF SameObject, SameText
<1>8. /\ assets \in SUBSET items
      /\ \A i \in items : i.direct => i \in assets
      /\ \A i \in assets : i.required = TRUE /\ i.direct = TRUE /\ ~IsHistory(i)
      /\ \A i, j \in assets : i.key = j.key => i = j
      /\ IsFiniteSet(assets) /\ \A i \in assets : i.rank \in Nat
  <2>1. /\ \A i \in assets : i \in Item /\ i.required = TRUE /\ i.direct = TRUE /\ ~IsHistory(i)
        /\ \A i, j \in assets : i.key = j.key => i = j
        /\ IsFiniteSet(assets)
    <3>1. /\ \A i \in assets : i \in Item /\ i.required /\ i.direct /\ ~IsHistory(i)
          /\ \A i, j \in assets : i.key = j.key => i = j
          /\ IsFiniteSet(assets)
      BY <1>2, ItemsAssumption
    <3>2. \A i \in assets : i.required \in BOOLEAN /\ i.direct \in BOOLEAN
      BY <3>1 DEF Item
    <3> QED  BY <3>1, <3>2
  <2>2. \A i \in recalled : i \in Item /\ ~i.direct
    BY ItemsAssumption
  <2>3. \A i \in Told(b) \cup WorkingItems(b) : ~i.direct
    BY HistoryIs
  <2>4. items = Told(b) \cup WorkingItems(b) \cup {Marked(i, assets) : i \in recalled} \cup assets
    BY <1>2 DEF Candidates, Told, WorkingItems
  <2>5. ASSUME NEW i \in recalled PROVE ~Marked(i, assets).direct
    BY <2>2 DEF Marked, Item
  <2>6. \A i \in assets : i.rank \in Nat
    BY <2>1 DEF Item
  <2> QED  BY <2>1, <2>3, <2>4, <2>5, <2>6
<1>9. assets \in SUBSET one
  <2>1. ASSUME NEW a \in assets, NEW j \in items, SameObject(a, j), Outranks(j, a) PROVE FALSE
    <3>1. a.rank \in Nat /\ a.required = TRUE /\ a.direct = TRUE
      BY <1>8
    <3>2. j.direct
      BY <2>1, <3>1 DEF Outranks
    <3>3. j = a
      BY <1>8, <2>1, <3>2 DEF SameObject
    <3> QED  BY <2>1, <3>1, <3>3 DEF Outranks
  <2> QED  BY <1>4, <1>8, <2>1
<1>10. ASSUME NEW a \in assets PROVE \E i \in two : i.body = a.body /\ i.required
  <2>1. PICK S : S = {i \in assets : i.body = a.body}
    OBVIOUS
  <2>2. S \in SUBSET assets /\ S # {} /\ IsFiniteSet(S)
    BY <1>8, <2>1, FS_Subset
  <2>3. PICK ahead : ahead = [i \in S |-> {j \in S : j.rank > i.rank}]
    OBVIOUS
  <2>4. \A i \in S : i.rank \in Nat
    BY <1>8, <2>2
  <2>5. PICK i \in S : ahead[i] = {}
    <3>1. ahead \in [S -> SUBSET S]
      BY <2>3
    <3>2. ASSUME NEW i \in S, NEW j \in ahead[i] PROVE ahead[j] \subseteq ahead[i] \ {j}
      BY <2>3, <2>4
    <3> QED  BY <2>2, <3>1, <3>2, ForemostIs
  <2>6. ASSUME NEW j \in one, SameText(i, j), Outranks(j, i) PROVE FALSE
    <3>1. i.required = TRUE /\ i.direct = TRUE /\ i.body = a.body
      BY <1>8, <2>1, <2>2
    <3>2. j.direct /\ j.rank > i.rank
      BY <1>5, <1>8, <2>6, <3>1 DEF Outranks
    <3>3. j \in S
      BY <1>5, <1>8, <2>1, <2>6, <3>1, <3>2 DEF SameText
    <3> QED  BY <2>3, <2>5, <3>2, <3>3
  <2>7. i \in two
    BY <1>4, <1>9, <2>2, <2>6
  <2> QED  BY <1>8, <2>1, <2>2, <2>7
<1> QED  BY <1>1, <1>2, <1>4, <1>6, <1>7, <1>10

\* The text of every attachment is there.
Attached(items, assets) == \A a \in assets : \E i \in items : i.body = a.body

\* An attachment that is required is still there when the context is compiled.
LEMMA CompiledIs ==
  ASSUME messages \in Seq(Message), NEW b, Readable(b),
         NEW r \in Requests, NEW recalled \in Recalled,
         NEW budget \in Nat, budget > 0,
         NEW selection, selection = Select(Deduplicate(Candidates(b, recalled, r.assets)), budget),
         ~selection.failed, NEW base
  PROVE  /\ IsFiniteSet(selection.chosen) /\ selection.chosen \in SUBSET Item
         /\ Attached(FitCompiled(base, selection.chosen), r.assets)
<1>1. PICK items, n : items = Deduplicate(Candidates(b, recalled, r.assets)) /\ n = Len(messages)
  OBVIOUS
<1>2. n \in Nat /\ Gathered(items, n)
      /\ \A a \in r.assets : \E i \in items : i.body = a.body /\ i.required
  BY <1>1, DeduplicateIs
<1>3. selection \in Acc /\ \A i \in items : i.required => Holds(selection.chosen, i)
  BY <1>1, <1>2, SelectIs
<1>4. IsFiniteSet(selection.chosen) /\ selection.chosen \in SUBSET Item
  BY <1>3 DEF Acc
<1>5. ASSUME NEW a \in r.assets PROVE \E i \in FitCompiled(base, selection.chosen) : i.body = a.body
  <2>1. PICK i \in items : i.body = a.body /\ i.required
    BY <1>2
  <2>2. PICK c \in selection.chosen : c.required = i.required /\ c.body = i.body
    BY <1>3, <2>1 DEF Holds, IsOf
  <2>3. c.required
    BY <2>1, <2>2
  <2>4. c \in FitCompiled(base, selection.chosen)
    BY <1>4, <2>3, FitIs
  <2> QED  BY <2>1, <2>2, <2>4
<1> QED  BY <1>4, <1>5 DEF Attached

\* What the newest messages take, one after the other.
SpendsBy(used, size, last) ==
  /\ used \in [0..last -> Nat] /\ used[0] = 0
  /\ \A n \in 1..last :
       used[n] = used[n - 1] + IF last + 1 - n \in DOMAIN size
                               THEN size[last + 1 - n] + SplitCost ELSE 0

FitsIn(used, recent, last, budget) ==
  \A k \in recent : k = last \/ used[last + 1 - k] <= budget

\* The window: its messages fit the budget together with all that are newer, the last
\* one excepted, which is always there.
LEMMA RecentIs ==
  ASSUME NEW n \in Nat, NEW U \in SUBSET (1..n), NEW size \in [U -> Nat], NEW budget,
         NEW last, last = Max({0} \cup U)
  PROVE  /\ last \in 0..n /\ \A k \in U : k <= last
         /\ U # {} => last \in Recent(size, budget)
         /\ \E used : /\ SpendsBy(used, size, last)
                      /\ FitsIn(used, Recent(size, budget), last, budget)
<1>1. last \in {0} \cup U /\ \A k \in U : k <= last
  <2>1. PICK S : S = {0} \cup U
    OBVIOUS
  <2>2. S \subseteq 0..n /\ S # {}
    BY <2>1
  <2>3. last \in S /\ \A k \in S : k <= last
    BY <2>1, <2>2, MaxIs
  <2> QED  BY <2>1, <2>3
<1>2. last \in 0..n /\ last \in Nat /\ DOMAIN size = U
  BY <1>1
<1> DEFINE Takes(k) == IF last + 1 - k \in U THEN size[last + 1 - k] + SplitCost ELSE 0
           step == [p \in (1..last) \X Nat |-> p[2] + Takes(p[1])]
           Is(f) == f = [k \in 0..last |->
                      IF k = 0 THEN 0
                      ELSE f[k - 1] + IF last + 1 - k \in U THEN size[last + 1 - k] + SplitCost ELSE 0]
<1>3. ASSUME NEW k \in 1..last PROVE Takes(k) \in Nat
  <2>1. CASE last + 1 - k \in U
    <3>1. size[last + 1 - k] \in Nat
      BY <2>1
    <3> QED  BY <2>1, <3>1, PolicyIs
  <2>2. CASE last + 1 - k \notin U
    BY <2>2
  <2> QED  BY <2>1, <2>2
<1>4. ASSUME NEW k \in 1..last, NEW m \in Nat
      PROVE  step[<<k, m>>] = m + Takes(k) /\ step[<<k, m>>] \in Nat
  <2>1. step[<<k, m>>] = m + Takes(k)
    OBVIOUS
  <2> HIDE DEF step, Takes
  <2> QED  BY <1>3, <2>1
<1>5. PICK f : GoesBy(f, last, Nat, 0, step)
  <2> HIDE DEF step
  <2> QED  BY <1>2, <1>4, GoesOn
<1>6. ASSUME NEW k \in 1..last PROVE f[k] = f[k - 1] + Takes(k)
  <2>1. k - 1 \in 0..last
    BY <1>2
  <2> HIDE DEF step, Takes
  <2>2. f[k - 1] \in Nat /\ f[k] = step[<<k, f[k - 1]>>]
    BY <1>5, <2>1 DEF GoesBy
  <2> QED  BY <1>4, <2>2
<1>7. \E g : Is(g)
  <2>1. f = [k \in 0..last |-> f[k]]
    BY <1>5 DEF GoesBy
  <2>2. ASSUME NEW k \in 0..last
        PROVE  f[k] = IF k = 0 THEN 0
                      ELSE f[k - 1] + IF last + 1 - k \in U THEN size[last + 1 - k] + SplitCost ELSE 0
    <3>1. CASE k = 0
      BY <1>5, <3>1 DEF GoesBy
    <3>2. CASE k # 0
      <4>1. k \in 1..last
        BY <1>2, <3>2
      <4> QED  BY <1>6, <3>2, <4>1
    <3> QED  BY <3>1, <3>2
  <2>3. Is(f)
    BY <2>1, <2>2
  <2> HIDE DEF Is
  <2> QED  BY <2>3
<1>8. PICK used : Is(used) /\ Recent(size, budget) =
        {k \in U : \A j \in U : j >= k => j = last \/ used[last + 1 - j] <= budget}
  <2>1. PICK g : g = CHOOSE h : Is(h)
    OBVIOUS
  <2>2. Is(g)
    BY <1>7, <2>1
  <2>3. Recent(size, budget) = {k \in U : \A j \in U : j >= k => j = last \/ g[last + 1 - j] <= budget}
    BY <1>2, <2>1 DEF Recent
  <2> QED  BY <2>2, <2>3
<1> DEFINE P == {k \in 0..last : used[k] \in Nat}
<1>9. 0 \in P
  BY <1>2, <1>8
<1>10. ASSUME NEW k \in 1..last PROVE used[k] = used[k - 1] + Takes(k)
  <2>1. k \in 0..last /\ k # 0
    BY <1>2
  <2> QED  BY <1>8, <2>1
<1>11. ASSUME NEW k \in 1..last, k - 1 \in P PROVE k \in P
  <2> HIDE DEF Takes
  <2> QED  BY <1>2, <1>3, <1>10, <1>11
<1>12. \A k \in 0..last : used[k] \in Nat
  <2>1. P \in SUBSET (0..last)
    OBVIOUS
  <2> HIDE DEF P
  <2>2. P = 0..last
    BY <1>2, <1>9, <1>11, <2>1, PlaceByPlace
  <2> QED  BY <2>2 DEF P
<1>13. SpendsBy(used, size, last)
  <2>1. used \in [0..last -> Nat] /\ used[0] = 0
    <3>1. used = [k \in 0..last |-> used[k]] /\ used[0] = 0
      BY <1>2, <1>8
    <3> QED  BY <1>12, <3>1
  <2> QED  BY <1>2, <1>10, <2>1 DEF SpendsBy
<1>14. \A k \in Recent(size, budget) : k = last \/ used[last + 1 - k] <= budget
  <2>1. ASSUME NEW k \in Recent(size, budget) PROVE k = last \/ used[last + 1 - k] <= budget
    <3>1. k \in U /\ \A j \in U : j >= k => j = last \/ used[last + 1 - j] <= budget
      BY <1>8, <2>1
    <3>2. k >= k
      BY <3>1
    <3> QED  BY <3>1, <3>2
  <2> QED  BY <2>1
<1>15. U # {} => last \in Recent(size, budget)
  <2>1. ASSUME U # {} PROVE last \in U
    <3>1. PICK k : k \in U
      BY <2>1
    <3>2. k \in 1..n /\ k <= last
      BY <1>1, <3>1
    <3>3. last # 0
      BY <3>2
    <3> QED  BY <1>1, <3>3
  <2>2. \A j \in U : j >= last => j = last
    BY <1>1, <1>2
  <2> QED  BY <1>8, <2>1, <2>2
<1> QED  BY <1>1, <1>2, <1>13, <1>14, <1>15 DEF FitsIn

\* The policy leaves history something.
Lenient == MaxItem >= MinCompression /\ MinScore <= 50

\* An item with room to be cut down to, or to fit into, stays.
LEMMA CutReaches ==
  ASSUME NEW i \in Item, NEW most \in Int, Lenient, i.score >= 50,
         most >= MinCompression \/ most >= i.size
  PROVE  Cut(i, most) # {}
<1>1. PICK n : n = Least(most, MaxItem)
  OBVIOUS
<1>2. i.score \in Nat /\ i.size \in Nat /\ i.score >= MinScore
  BY PolicyIs DEF Item, Lenient
<1>3. n \in Int /\ (n >= MinCompression \/ i.size <= n)
  BY <1>1, <1>2, PolicyIs DEF Least, Lenient
<1>4. ~(~i.required /\ i.score < MinScore) /\ (i.size <= n \/ ~(n < MinCompression))
  BY <1>2, <1>3, PolicyIs
<1> QED  BY <1>1, <1>4 DEF Cut

\* The summary is there, and takes no more than its share.
LEMMA SummaryReaches ==
  ASSUME NEW acc \in Acc, NEW told \in SUBSET Item, \A i, j \in told : i = j,
         \A i \in told : i.score >= 50, Lenient,
         NEW share \in Nat, share >= MinCompression, share <= acc.left,
         NEW filled, filled = Fill(acc, ByScore(told), share)
  PROVE  /\ filled \in Acc /\ filled.left <= acc.left /\ acc.left - share <= filled.left
         /\ \A i \in told : Holds(filled.chosen, i)
<1>1. PICK places : places = ByScore(told)
  OBVIOUS
<1>2. IsFiniteSet(told) /\ (told = {} => Cardinality(told) = 0) /\ (told # {} => Cardinality(told) = 1)
  <2>1. CASE told = {}
    BY <2>1, FS_EmptySet
  <2>2. CASE told # {}
    <3>1. PICK i : told = {i}
      BY <2>2
    <3> QED  BY <3>1, FS_Singleton
  <2> QED  BY <2>1, <2>2
<1>3. places \in Seq(Places) /\ Len(places) = Cardinality(told)
      /\ \A i \in told : \E n \in 1..Cardinality(told) : places[n] = {i}
  BY <1>1, <1>2, ByScoreIs
<1>4. PICK f : FillsBy(f, acc, places, share) /\ filled = f[Len(places)]
  BY <1>1, <1>3, FillGoes
<1>5. acc.left \in Int
  BY DEF Acc
<1>6. CASE told = {}
  <2>1. filled = acc
    BY <1>2, <1>3, <1>4, <1>6 DEF FillsBy
  <2> QED  BY <1>5, <1>6, <2>1
<1>7. CASE told # {}
  <2>1. PICK i : i \in told
    BY <1>7
  <2>2. Len(places) = 1 /\ places[1] = {i} /\ i \in Item /\ i.score >= 50
    BY <1>2, <1>3, <1>7, <2>1
  <2>3. filled \in Acc /\ f[1] = Keep(f[1 - 1], places[1], MostOf(acc, f[1 - 1], share)) /\ f[0] = acc
    BY <1>4, <2>2 DEF FillsBy
  <2>4. MostOf(acc, acc, share) = share
    BY <1>5 DEF MostOf, Least, Most
  <2>5. filled = Keep(acc, places[1], share)
    BY <1>4, <2>2, <2>3, <2>4
  <2>6. places[1] \in Places
    BY <2>2 DEF Places
  <2>7. PICK cut \in SUBSET Item : Adds(acc, places[1], share, cut)
    BY <2>6, KeepIs
  <2>8. cut = Cut(i, share)
    BY <2>2, <2>7 DEF Adds
  <2>9. cut # {}
    BY <2>2, <2>8, CutReaches
  <2>10. Holds(cut, i)
    BY <2>2, <2>6, <2>7, <2>9, CutHolds
  <2>11. /\ filled.chosen = acc.chosen \cup cut /\ filled.left = acc.left - Tokens(cut)
         /\ Tokens(cut) \in Nat
    BY <2>5, <2>7 DEF Adds
  <2>12. Tokens(cut) <= share
    BY <2>7, <2>9 DEF Adds
  <2>13. \A j \in told : Holds(filled.chosen, j)
    BY <2>1, <2>10, <2>11 DEF Holds
  <2>14. PICK l, m, tokens : l = acc.left /\ m = filled.left /\ tokens = Tokens(cut)
    OBVIOUS
  <2>15. m <= l /\ l - share <= m
    BY <1>5, <2>11, <2>12, <2>14
  <2> QED  BY <2>3, <2>13, <2>14, <2>15
<1> QED  BY <1>6, <1>7

WindowOf(U, window) == Recent([i \in U |-> Size(i)], window)

\* The window the history manager keeps is what the selector lets through: its messages are
\* all there, however they are cut down, as long as the share is no smaller than the window's.
LEMMA WindowReaches ==
  ASSUME messages \in Seq(Message), NEW b, Readable(b), b.recent # {}, Lenient,
         NEW U \in SUBSET (1..Len(messages)), NEW window \in Int, window >= MinCompression,
         b.recent = WindowOf(U, window),
         NEW acc \in Acc, NEW share \in Int, share >= window, acc.left >= share,
         NEW filled, filled = Fill(acc, NewestFirst(WorkingItems(b)), share)
  PROVE  filled \in Acc /\ \A w \in WorkingItems(b) : Holds(filled.chosen, w)
<1>1. PICK n, size, working, recent :
        /\ n = Len(messages) /\ size = [i \in U |-> Size(i)]
        /\ working = WorkingItems(b) /\ recent = b.recent
  OBVIOUS
<1>2. /\ n \in Nat /\ working \in SUBSET Item /\ IsFiniteSet(working)
      /\ \A w \in working : \E i \in recent : IsMessage(w, i)
      /\ \A v, w \in working : v.id = w.id => v = w
      /\ \A i \in recent : \E w \in working : IsMessage(w, i)
  BY <1>1, WorkingItemsAre
<1>3. size \in [U -> Nat]
  <2>1. ASSUME NEW i \in U PROVE Size(i) \in Nat
    <3>1. messages[i] \in Message
      BY <1>2
    <3> QED  BY <3>1, ItemsAssumption DEF Message, Size
  <2> QED  BY <1>1, <2>1
<1>4. PICK last : last = Max({0} \cup U)
  OBVIOUS
<1>5. /\ last \in 0..n /\ (\A k \in U : k <= last) /\ (U # {} => last \in recent)
      /\ \E used : SpendsBy(used, size, last) /\ FitsIn(used, recent, last, window)
  <2>1. recent = Recent(size, window) /\ U \in SUBSET (1..n)
    BY <1>1 DEF WindowOf
  <2> QED  BY <1>2, <1>3, <1>4, <2>1, RecentIs
<1>6. PICK used : /\ SpendsBy(used, size, last)
                  /\ \A k \in recent : k = last \/ used[last + 1 - k] <= window
  BY <1>5 DEF FitsIn
<1>7. recent \subseteq U /\ U \subseteq 1..n /\ last \in recent /\ last \in 1..n
  <2>1. recent \subseteq U
    BY <1>1, <1>3 DEF Recent, WindowOf
  <2> QED  BY <1>1, <1>5, <2>1
<1>8. ASSUME NEW k \in recent PROVE k \in 1..last
  <2>1. k \in U /\ k \in 1..n /\ k <= last
    BY <1>5, <1>7
  <2> QED  BY <1>7, <2>1
<1>9. PICK S : S = {0} \cup {w.index : w \in working}
  OBVIOUS
<1>10. Max(S) = last
  <2>1. S = {0} \cup recent
    <3>1. \A w \in working : w.index \in recent
      BY <1>2, ZenonT(40) DEF IsMessage
    <3>2. \A i \in recent : \E w \in working : w.index = i
      BY <1>2 DEF IsMessage
    <3> QED  BY <1>9, <3>1, <3>2
  <2>2. S \subseteq 0..n /\ S # {}
    <3>1. recent \subseteq 1..n
      BY <1>7
    <3>2. recent \subseteq 0..n /\ 0 \in 0..n
      BY <1>2, <3>1
    <3> QED  BY <2>1, <3>2
  <2>3. PICK m : m = Max(S)
    OBVIOUS
  <2>4. m \in S /\ \A k \in S : k <= m
    BY <1>2, <2>2, <2>3, MaxIs
  <2>5. last \in S /\ \A k \in S : k <= last
    <3>1. \A k \in recent : k <= last
      BY <1>5, <1>7
    <3>2. 0 <= last
      BY <1>7
    <3> QED  BY <1>7, <2>1, <3>1, <3>2
  <2>6. m \in Int /\ last \in Int /\ m <= last /\ last <= m
    BY <1>7, <2>2, <2>4, <2>5
  <2> QED  BY <2>3, <2>6
<1>11. PICK places : places = NewestFirst(working)
  OBVIOUS
<1>12. /\ places \in Seq(Places) /\ Len(places) = last
       /\ \A k \in 1..last : places[k] = {w \in working : w.index = last + 1 - k}
  <2>1. places = [k \in 1..last |-> {w \in working : w.index = last + 1 - k}]
    BY <1>9, <1>10, <1>11 DEF NewestFirst
  <2>2. ASSUME NEW k \in 1..last PROVE places[k] \in Places
    <3>1. places[k] = {w \in working : w.index = last + 1 - k}
      BY <2>1
    <3>2. ASSUME NEW w \in working PROVE w.index = w.id
      <4>1. PICK i \in recent : IsMessage(w, i)
        BY <1>2
      <4> QED  BY <4>1 DEF IsMessage
    <3> QED  BY <1>2, <3>1, <3>2 DEF Places
  <2>3. places = [k \in 1..last |-> places[k]]
    BY <2>1
  <2>4. places \in Seq(Places) /\ Len(places) = last
    BY <1>7, <2>2, <2>3
  <2> QED  BY <2>1, <2>4
<1>13. PICK f : FillsBy(f, acc, places, share) /\ filled = f[last]
  BY <1>1, <1>11, <1>12, FillGoes
<1>14. /\ f \in [0..last -> Acc] /\ f[0] = acc
       /\ \A k \in 1..last : f[k] = Keep(f[k - 1], places[k], MostOf(acc, f[k - 1], share))
  BY <1>12, <1>13 DEF FillsBy
<1>15. PICK l \in Int : l = acc.left
  BY DEF Acc
<1> DEFINE Spent(k) == l - f[k].left
           Reached(k) == \A j \in 1..k : \A w \in places[j] : Holds(f[k].chosen, w)
           P == {k \in 0..last : Spent(k) \in 0..used[k] /\ Reached(k)}
<1>16. 0 \in P
  BY <1>6, <1>7, <1>14, <1>15 DEF SpendsBy
<1>17. ASSUME NEW k \in 1..last, k - 1 \in P PROVE k \in P
  <2>1. PICK a, x, most, before, after, spent :
          /\ a = f[k - 1] /\ x = last + 1 - k /\ most = MostOf(acc, a, share)
          /\ before = used[k - 1] /\ after = used[k] /\ spent = l - a.left
    OBVIOUS
  <2>2. k - 1 \in 0..last /\ k \in 0..last /\ x \in 1..last
    BY <1>7, <2>1
  <2>3. a \in Acc /\ f[k] = Keep(a, places[k], most) /\ a.left \in Int
    BY <1>14, <2>1, <2>2 DEF Acc
  <2>4. /\ before \in Nat /\ after \in Nat
        /\ after = before + IF x \in U THEN size[x] + SplitCost ELSE 0
        /\ after >= before
    <3>1. before \in Nat /\ after \in Nat
      BY <1>6, <2>1, <2>2 DEF SpendsBy
    <3>2. after = before + IF x \in U THEN size[x] + SplitCost ELSE 0
      BY <1>3, <1>6, <2>1 DEF SpendsBy
    <3>3. CASE x \in U
      <4>1. size[x] \in Nat
        BY <1>3, <3>3
      <4> QED  BY <3>1, <3>2, <3>3, <4>1, PolicyIs
    <3>4. CASE x \notin U
      BY <3>1, <3>2, <3>4
    <3> QED  BY <3>1, <3>2, <3>3, <3>4
  <2>5. spent \in Int /\ 0 <= spent /\ spent <= before /\ Reached(k - 1)
    BY <1>17, <2>1, <2>3, <2>4
  <2>6. most \in Int /\ most >= share - spent
    <3>1. PICK left \in Int : left = a.left
      BY <2>3
    <3>2. most = Least(left, Most(0, share - spent)) /\ left = l - spent /\ l >= share
      BY <1>15, <2>1, <3>1 DEF MostOf
    <3> QED  BY <2>5, <3>2 DEF Least, Most
  <2>7. PICK place \in Places : place = places[k] /\ place = {w \in working : w.index = x}
    BY <1>12, <2>1
  <2>8. PICK cut \in SUBSET Item : Adds(a, place, most, cut)
    BY <2>3, <2>6, <2>7, KeepIs
  <2>9. PICK tokens \in Nat : tokens = Tokens(cut)
    BY <2>8 DEF Adds
  <2>10. f[k].left = a.left - tokens /\ f[k].chosen = a.chosen \cup cut
    BY <2>3, <2>7, <2>8, <2>9 DEF Adds
  <2>11. Spent(k) = spent + tokens
    BY <1>15, <2>1, <2>3, <2>9, <2>10, SMTT(30)
  <2>12. ASSUME NEW j \in 1..(k - 1), NEW w \in places[j] PROVE Holds(f[k].chosen, w)
    <3>1. Holds(a.chosen, w)
      BY <2>1, <2>5, <2>12
    <3> QED  BY <2>10, <3>1 DEF Holds
  <2>13. CASE place = {}
    <3>1. cut = {}
      BY <2>8, <2>13 DEF Adds
    <3>2. tokens = 0
      BY <2>9, <3>1, TokensOfOne
    <3>3. Spent(k) \in 0..after
      BY <2>4, <2>5, <2>11, <3>2
    <3>4. Reached(k)
      <4>1. ASSUME NEW j \in 1..k, NEW v \in places[j] PROVE j \in 1..(k - 1)
        <5>1. CASE j = k
          BY <2>7, <2>13, <4>1, <5>1
        <5>2. CASE j # k
          BY <4>1, <5>2
        <5> QED  BY <5>1, <5>2
      <4> QED  BY <2>12, <4>1
    <3> QED  BY <2>1, <2>2, <3>3, <3>4
  <2>14. CASE place # {}
    <3>1. PICK w : w \in place
      BY <2>14
    <3>2. place = {w} /\ w \in working /\ w \in Item /\ w.index = x
      BY <1>2, <2>7, <3>1 DEF Places
    <3>3. x \in recent /\ IsMessage(w, x)
      <4>1. PICK i \in recent : IsMessage(w, i)
        BY <1>2, <3>2
      <4>2. i = x
        BY <3>2, <4>1 DEF IsMessage
      <4> QED  BY <4>1, <4>2
    <3>4. x \in U /\ w.size = size[x] /\ size[x] \in Nat /\ w.score >= 50
      BY <1>1, <1>3, <1>7, <3>3 DEF IsMessage
    <3>5. after = before + size[x] + SplitCost
      <4>1. after = before + (size[x] + SplitCost)
        BY <2>4, <3>4
      <4> QED  BY <2>4, <3>4, <4>1, PolicyIs
    <3>6. most >= MinCompression \/ most >= w.size
      <4>1. CASE x = last
        <5>1. k = 1
          BY <1>7, <2>1, <4>1
        <5>2. before = 0
          BY <1>6, <2>1, <5>1 DEF SpendsBy
        <5> QED  BY <2>5, <2>6, <5>2, PolicyIs
      <4>2. CASE x # last
        <5>1. after <= window
          <6>1. last + 1 - x = k
            BY <1>7, <2>1
          <6> QED  BY <1>6, <2>1, <3>3, <4>2, <6>1
        <5> QED  BY <2>4, <2>5, <2>6, <3>4, <3>5, <5>1, PolicyIs
      <4> QED  BY <4>1, <4>2
    <3>7. cut # {}
      <4>1. cut = Cut(w, most)
        BY <2>8, <3>1 DEF Adds
      <4> QED  BY <2>6, <3>2, <3>4, <3>6, <4>1, CutReaches
    <3>8. \A v \in place : Holds(cut, v)
      BY <2>3, <2>6, <2>8, <3>7, CutHolds
    <3>9. tokens <= w.size
      BY <2>8, <2>9, <3>2, <3>7 DEF Adds
    <3>10. Spent(k) \in 0..after
      <4>1. PICK room \in Nat : room = size[x]
        BY <3>4
      <4>2. tokens <= room /\ after = before + room + SplitCost
        BY <3>4, <3>5, <3>9, <4>1
      <4>3. spent + tokens \in 0..after
        BY <2>4, <2>5, <2>9, <4>2, PolicyIs
      <4> QED  BY <2>11, <4>3
    <3>11. Reached(k)
      <4>1. ASSUME NEW j \in 1..k, NEW v \in places[j] PROVE Holds(f[k].chosen, v)
        <5>1. CASE j = k
          BY <2>7, <2>10, <3>8, <4>1, <5>1 DEF Holds
        <5>2. CASE j # k
          BY <2>12, <4>1, <5>2
        <5> QED  BY <5>1, <5>2
      <4> QED  BY <4>1
    <3> QED  BY <2>1, <2>2, <3>10, <3>11
  <2> QED  BY <2>13, <2>14
<1>18. last \in P
  <2>1. P \in SUBSET (0..last)
    OBVIOUS
  <2> HIDE DEF P
  <2>2. P = 0..last
    BY <1>7, <1>16, <1>17, <2>1, PlaceByPlace
  <2> QED  BY <1>7, <2>2
<1>19. f[last] \in Acc
  BY <1>7, <1>14
<1>20. ASSUME NEW w \in working PROVE Holds(filled.chosen, w)
  <2>1. PICK i \in recent : IsMessage(w, i)
    BY <1>2
  <2>2. PICK k : k = last + 1 - i
    OBVIOUS
  <2>3. k \in 1..last /\ last + 1 - k = i
    BY <1>7, <1>8, <2>2
  <2>4. w \in places[k]
    BY <1>12, <2>1, <2>3 DEF IsMessage
  <2> QED  BY <1>13, <1>18, <2>3, <2>4
<1> QED  BY <1>1, <1>13, <1>19, <1>20

\* What is left of the budget, of it for history, and of that for the summary and the window.
LEMMA BudgetsAre ==
  ASSUME NEW base \in Nat,
         NEW budget, budget = CandidateBudget(base),
         NEW history, history = HistoryBudget(budget),
         (history * RecentPercent) \div 100 >= MinCompression
  PROVE  /\ budget \in Nat /\ budget > 0 /\ history \in Nat /\ history <= budget
         /\ SummaryBudget(history) \in Nat
         /\ WindowBudget(history) \in Nat /\ WindowBudget(history) >= MinCompression
         /\ SummaryBudget(history) + WindowBudget(history) <= history
<1>1. budget \in Nat
  BY PolicyIs DEF CandidateBudget, Most
<1>2. history \in Nat /\ history <= budget
  <2>1. PICK p \in 0..100 : p = HistoryPercent
    BY PolicyIs
  <2>2. PICK q : q = budget * p
    OBVIOUS
  <2>3. q \in Nat /\ q <= budget * 100
    BY <1>1, <2>1, <2>2
  <2>4. history = q \div 100
    BY <2>1, <2>2 DEF HistoryBudget
  <2> QED  BY <1>1, <2>3, <2>4
<1>3. PICK p \in 0..100 : p = RecentPercent
  BY PolicyIs
<1>4. PICK x, y : x = history * p /\ y = history * (100 - p)
  OBVIOUS
<1>5. x \in Nat /\ y \in Nat /\ x + y = 100 * history
  BY <1>2, <1>3, <1>4
<1>6. x \div 100 \in Nat /\ y \div 100 \in Nat /\ x \div 100 + y \div 100 <= history
  BY <1>2, <1>5
<1>7. SummaryBudget(history) = y \div 100 /\ x \div 100 >= MinCompression
  BY <1>3, <1>4 DEF SummaryBudget
<1>8. WindowBudget(history) = x \div 100
  BY <1>3, <1>4, <1>6, <1>7, PolicyIs DEF WindowBudget, Most
<1>9. budget > 0
  BY <1>1, <1>2, <1>6, <1>7, PolicyIs
<1> QED  BY <1>1, <1>2, <1>6, <1>7, <1>8, <1>9

\* With nothing required, nothing is taken.
LEMMA NoneRequired ==
  ASSUME NEW acc \in Acc
  PROVE  Required(acc, {}) = acc
<1>1. {} \in SUBSET Item /\ IsFiniteSet({}) /\ Cardinality({}) = 0
  BY FS_EmptySet
<1>2. PICK places : places = ByScore({})
  OBVIOUS
<1>3. places \in Seq(Places) /\ Len(places) = 0
  BY <1>1, <1>2, ByScoreIs
<1>4. PICK f : FairlyBy(f, acc, places) /\ Required(acc, {}) = f[Len(places)]
  BY <1>2, <1>3, RequiredGoes
<1> QED  BY <1>3, <1>4 DEF FairlyBy

OnlyHistory(items, b) ==
  /\ Told(b) = {i \in items : i.kind = "summary" /\ ~i.required}
  /\ WorkingItems(b) = {i \in items : i.kind = "working" /\ ~i.required}
  /\ {} = {i \in items : i.required}

\* Of what is gathered for a turn without attachments, nothing is required.
LEMMA NothingAttached ==
  ASSUME messages \in Seq(Message), NEW b, Readable(b),
         NEW r \in Requests, r.assets = {}, NEW recalled \in Recalled,
         NEW items, items = Deduplicate(Candidates(b, recalled, r.assets))
  PROVE  OnlyHistory(items, b)
<1>1. PICK all : all = Candidates(b, recalled, r.assets)
  OBVIOUS
<1>2. items \subseteq all
  BY <1>1 DEF Deduplicate, Best
<1>3. Told(b) \cup WorkingItems(b) \subseteq items
  BY DeduplicateIs
<1>4. all = Told(b) \cup WorkingItems(b) \cup {Marked(i, {}) : i \in recalled}
  BY <1>1 DEF Candidates, Told, WorkingItems
<1>5. ASSUME NEW i \in recalled PROVE Marked(i, {}).required = FALSE /\ ~IsHistory(Marked(i, {}))
  <2>1. i \in Item /\ ~IsHistory(i)
    BY ItemsAssumption
  <2>2. (\E a \in {} : a.key = i.key) = FALSE
    OBVIOUS
  <2>3. Marked(i, {}) = [i EXCEPT !.required = FALSE]
    BY <2>2 DEF Marked
  <2> QED  BY <2>1, <2>3 DEF Item, IsHistory
<1>6. ASSUME NEW i \in Told(b) PROVE i.kind = "summary" /\ i.required = FALSE
  <2>1. PICK s : i = SummaryItem(s)
    BY <1>6, Zenon DEF Told
  <2> QED  BY <2>1 DEF SummaryItem
<1>7. ASSUME NEW i \in WorkingItems(b) PROVE i.kind = "working" /\ i.required = FALSE
  <2>1. PICK k, p : i = WorkingItem(k, p)
    BY <1>7, Zenon DEF WorkingItems
  <2> QED  BY <2>1 DEF WorkingItem
<1>8. ASSUME NEW i \in items
      PROVE  /\ ~i.required
             /\ i.kind = "summary" => i \in Told(b)
             /\ i.kind = "working" => i \in WorkingItems(b)
  <2>1. i \in Told(b) \/ i \in WorkingItems(b) \/ \E j \in recalled : i = Marked(j, {})
    BY <1>2, <1>4
  <2> QED  BY <1>5, <1>6, <1>7, <2>1 DEF IsHistory
<1> QED  BY <1>3, <1>6, <1>7, <1>8 DEF OnlyHistory

\* What the conversation leaves a build: room permitting, the summary and all messages of the
\* window are selected.
LEMMA HistoryReaches ==
  ASSUME messages \in Seq(Message), NEW b, Readable(b), b.recent # {}, b.base \in Nat,
         RoomForHistory(b), NEW U \in SUBSET (1..Len(messages)),
         b.recent = WindowOf(U, WindowBudget(HistoryBudget(CandidateBudget(b.base)))),
         NEW r \in Requests, r.assets = {}, NEW recalled \in Recalled,
         NEW selection,
         selection = Select(Deduplicate(Candidates(b, recalled, r.assets)), CandidateBudget(b.base))
  PROVE  \A i \in Told(b) \cup WorkingItems(b) : Holds(selection.chosen, i)
<1>1. PICK budget, history, window, least :
        /\ budget = CandidateBudget(b.base) /\ history = HistoryBudget(budget)
        /\ window = WindowBudget(history) /\ least = SummaryBudget(history)
  OBVIOUS
<1>2. /\ (history * RecentPercent) \div 100 >= MinCompression /\ least >= MinCompression /\ Lenient
  BY <1>1 DEF RoomForHistory, Lenient
<1>3. /\ budget \in Nat /\ budget > 0 /\ history \in Nat /\ history <= budget
      /\ least \in Nat /\ window \in Nat /\ window >= MinCompression /\ least + window <= history
  BY <1>1, <1>2, BudgetsAre
<1>4. PICK items, n, told, working, others :
        /\ items = Deduplicate(Candidates(b, recalled, r.assets)) /\ n = Len(messages)
        /\ told = Told(b) /\ working = WorkingItems(b)
        /\ others = {i \in items : ~i.required /\ ~IsHistory(i)}
  OBVIOUS
<1>5. n \in Nat /\ Gathered(items, n) /\ told \cup working \subseteq items
  <2>1. PICK all : all = Candidates(b, recalled, r.assets) /\ items = Deduplicate(all)
    BY <1>4
  <2>2. Gathered(items, n) /\ Told(b) \cup WorkingItems(b) \subseteq items
    BY <1>4, <2>1, DeduplicateIs
  <2> QED  BY <1>4, <2>2
<1>6. /\ told = {i \in items : i.kind = "summary" /\ ~i.required}
      /\ working = {i \in items : i.kind = "working" /\ ~i.required}
      /\ {} = {i \in items : i.required}
  <2>1. OnlyHistory(items, b)
    BY <1>4, NothingAttached
  <2> QED  BY <1>4, <2>1 DEF OnlyHistory
<1>7. PICK start : start = [chosen |-> {}, left |-> budget, failed |-> FALSE]
  OBVIOUS
<1>8. start \in Acc /\ Required(start, {}) = start /\ start.left = budget /\ ~start.failed
  <2>1. start \in Acc
    BY <1>3, <1>7, FS_EmptySet DEF Acc
  <2> QED  BY <1>7, <2>1, NoneRequired
<1>9. PICK withSummary, withHistory, share, last :
        /\ withSummary = Fill(start, ByScore(told), least)
        /\ share = history - (budget - withSummary.left)
        /\ withHistory = Fill(withSummary, NewestFirst(working), share)
        /\ last = Fill(withHistory, ByScore(others), withHistory.left)
  OBVIOUS
<1>10. Least(budget, history) = history
  BY <1>3 DEF Least
<1>11. selection = last
  <2>1. ~(budget <= 0)
    BY <1>3
  <2>2. start = Required([chosen |-> {}, left |-> budget, failed |-> FALSE],
                         {i \in items : i.required})
    BY <1>6, <1>7, <1>8
  <2>3. withHistory = History(start, told, working, history)
    BY <1>1, <1>8, <1>9 DEF History
  <2>4. history = Least(start.left, HistoryBudget(budget))
    BY <1>1, <1>8, <1>10
  <2>5. withHistory = History(start, {i \in items : i.kind = "summary" /\ ~i.required},
                              {i \in items : i.kind = "working" /\ ~i.required},
                              Least(start.left, HistoryBudget(budget)))
    BY <1>6, <2>3, <2>4
  <2>6. last = Fill(withHistory, ByScore({i \in items : ~i.required /\ ~IsHistory(i)}),
                    withHistory.left)
    BY <1>4, <1>9
  <2>7. Selects(items, budget, start, withHistory, last)
    BY <2>2, <2>5, <2>6 DEF Selects
  <2>8. Select(items, budget) = last
    BY <1>8, <2>1, <2>7, SelectionIs
  <2> QED  BY <1>1, <1>4, <2>8
<1>12. /\ withSummary \in Acc /\ withSummary.left <= budget /\ budget - least <= withSummary.left
       /\ \A i \in told : Holds(withSummary.chosen, i)
  <2>1. told \in SUBSET Item /\ \A i, j \in told : i = j
    BY <1>4, <1>5 DEF Gathered, Told
  <2>2. \A i \in told : i.score >= 50
    <3>1. ASSUME NEW i \in told PROVE i.score >= 50
      <4>1. PICK s : i = SummaryItem(s)
        BY <1>4, <3>1, Zenon DEF Told
      <4>2. i.score = 75
        BY <4>1 DEF SummaryItem
      <4> QED  BY <4>2
    <3> QED  BY <3>1
  <2> QED  BY <1>2, <1>3, <1>8, <1>9, <2>1, <2>2, SummaryReaches, SMTT(30)
<1>13. share \in Int /\ share >= window /\ withSummary.left >= share
  <2>1. PICK left \in Int : left = withSummary.left
    BY <1>12 DEF Acc
  <2> QED  BY <1>3, <1>9, <1>12, <2>1
<1>14. withHistory \in Acc /\ \A i \in working : Holds(withHistory.chosen, i)
  <2>1. b.recent = WindowOf(U, window)
    BY <1>1
  <2>2. withHistory = Fill(withSummary, NewestFirst(WorkingItems(b)), share)
    BY <1>4, <1>9
  <2>3. window \in Int /\ window >= MinCompression /\ Lenient
    BY <1>2, <1>3
  <2>4. withSummary \in Acc /\ share \in Int /\ share >= window /\ withSummary.left >= share
    BY <1>12, <1>13
  <2>5. withHistory \in Acc /\ \A w \in WorkingItems(b) : Holds(withHistory.chosen, w)
    BY <2>1, <2>2, <2>3, <2>4, WindowReaches, Zenon
  <2> QED  BY <1>4, <2>5
<1>15. withSummary.chosen \subseteq withHistory.chosen
  <2>1. NewestFirst(working) \in Seq(Places)
    BY <1>5, <1>6, WorkingPlaces
  <2> QED  BY <1>9, <1>12, <1>13, <2>1, FillIs
<1>16. withHistory.chosen \subseteq last.chosen
  <2>1. others \in SUBSET items /\ \A i, j \in others : IsHistory(i) = IsHistory(j)
    BY <1>4 DEF IsHistory
  <2>2. others \in SUBSET Item /\ IsFiniteSet(others) /\ \A i, j \in others : i.id = j.id => i = j
    BY <1>5, <2>1, FS_Subset DEF Gathered
  <2>3. PICK left \in Int : left = withHistory.left
    BY <1>14 DEF Acc
  <2>4. ByScore(others) \in Seq(Places)
    BY <2>2, ByScoreIs
  <2> QED  BY <1>9, <1>14, <2>3, <2>4, FillIs
<1> QED  BY <1>4, <1>11, <1>12, <1>14, <1>15, <1>16 DEF Holds

-----------------------------------------------------------------------------
\* What a summary is when there is one.
Stored(s) == s # NoSummary => s \in Summary

\* The window of a build is one of some messages, for the budget the build has.
Windowed(b) ==
  b.recent # {} =>
    \E U \in SUBSET (1..Len(messages)) :
      b.recent = WindowOf(U, WindowBudget(HistoryBudget(CandidateBudget(b.base))))

\* Before a build writes, the messages it leaves out of its window are no newer than what
\* it means to write.
Behind(b) ==
  b.older # {} /\ \A i \in b.loaded \ b.recent : \E o \in b.older : i <= o

\* After it has written, or read what has won, its summary tells them.
Covered(b) ==
  \A i \in b.loaded \ b.recent :
    Excluded(i) \/ (b.summary # NoSummary /\ i \in b.summary.text) \/ Outrun(b)

\* A build that writes and reads again changes these of its fields.
Shaped(b) == {"pc", "summary", "older"} \subseteq DOMAIN b

\* What a build holds on its way.
Holding(b) ==
  /\ b.pc \in {"refuse", "load"} => b.base \in Nat
  /\ b.pc = "read summary" => b.base \in Nat /\ b.loaded \subseteq 1..Len(messages)
  /\ b.pc \in {"summarise", "reread", "gather", "compiled"} =>
       /\ b.base \in Nat /\ b.loaded \subseteq 1..Len(messages)
       /\ b.recent \subseteq 1..Len(messages) /\ b.older \subseteq 1..Len(messages)
       /\ Windowed(b) /\ Stored(b.summary)
  /\ b.pc \in {"summarise", "reread"} => Shaped(b) /\ Behind(b)
  /\ b.pc \in {"gather", "compiled"} => Covered(b)

\* What a compiled context gives the model.
Answers(b, assets) ==
  b.pc = "compiled" =>
    /\ CandidateBudget(b.base) > 0 => \A a \in assets : \E i \in b.items : i.body = a.body
    /\ b.recent # {} /\ assets = {} /\ b.dropped = {} /\ RoomForHistory(b) =>
         /\ \A i \in b.recent : \E item \in b.items : item.kind = "working" /\ item.id = i
         /\ b.summary # NoSummary => \E item \in b.items : item.kind = "summary"

\* A turn that has begun has the attachments of its request.
Begun(t) ==
  /\ turn[t].status # "new" => \E r \in Requests : turn[t].assets = r.assets
  /\ build[t].pc # "idle" => turn[t].status # "new"

\* What is said of the build of a turn, whatever record that is.
Goes(t) == \E b, assets : /\ b = build[t] /\ assets = turn[t].assets
                         /\ Holding(b) /\ Answers(b, assets)

ReadInv ==
  /\ Stored(summary)
  /\ \A t \in Turns : Begun(t) /\ Goes(t)

\* The set a window is taken from stays what it was.
LEMMA WindowStays ==
  ASSUME Typed, Grows, NEW U \in SUBSET (1..Len(messages)), NEW window
  PROVE  WindowOf(U, window)' = WindowOf(U, window)
<1>1. PICK old, new : old = messages /\ new = messages'
  OBVIOUS
<1>2. \A i \in U : new[i].size = old[i].size
  BY <1>1 DEF Grows
<1>3. [i \in U |-> new[i].size] = [i \in U |-> old[i].size]
  BY <1>2
<1> QED  BY <1>1, <1>3 DEF WindowOf, Size

\* What a build holds stays true when messages are added or withdrawn.
LEMMA HoldingStays ==
  ASSUME Typed, Grows, NEW b, Holding(b)
  PROVE  Holding(b)'
<1>1. PICK n, m : n = Len(messages) /\ m = Len(messages') /\ n \in Nat /\ m \in Nat /\ n <= m
  BY DEF Typed, Grows
<1>2. 1..n \subseteq 1..m /\ \A i \in 1..n : Excluded(i) => Excluded(i)'
  BY <1>1 DEF Grows
<1>3. ASSUME Windowed(b) PROVE Windowed(b)'
  <2>1. ASSUME b.recent # {}
        PROVE  \E U \in SUBSET (1..m) :
                 b.recent = WindowOf(U, WindowBudget(HistoryBudget(CandidateBudget(b.base))))'
    <3>1. PICK U \in SUBSET (1..n) :
            b.recent = WindowOf(U, WindowBudget(HistoryBudget(CandidateBudget(b.base))))
      BY <1>1, <1>3, <2>1 DEF Windowed
    <3>2. PICK window : window = WindowBudget(HistoryBudget(CandidateBudget(b.base)))
      OBVIOUS
    <3>3. WindowOf(U, window)' = WindowOf(U, window)
      BY <1>1, WindowStays
    <3>4. b.recent = WindowOf(U, window)'
      BY <3>1, <3>2, <3>3
    <3>5. U \in SUBSET (1..m)
      BY <1>2
    <3> QED  BY <3>2, <3>4, <3>5
  <2> QED  BY <1>1, <2>1 DEF Windowed
<1>4. ASSUME Covered(b), b.loaded \subseteq 1..n PROVE Covered(b)'
  BY <1>2, <1>4 DEF Covered, Outrun
<1>5. Behind(b)' = Behind(b) /\ Stored(b.summary)' = Stored(b.summary)
  BY DEF Behind, Stored
<1> QED  BY <1>1, <1>2, <1>3, <1>4, <1>5 DEF Holding

\* What a context gives the model stays there.
LEMMA AnswersStay ==
  ASSUME NEW b, NEW assets, Answers(b, assets)
  PROVE  Answers(b, assets)'
BY DEF Answers, RoomForHistory

\* One build goes on.
LEMMA OneGoesOn ==
  ASSUME GapInv, ReadInv, Grows,
         NEW s, summary' = s, Stored(s),
         NEW t \in Turns, \A u \in Turns \ {t} : turn'[u] = turn[u],
         NEW b, build'[t] = b, \A u \in Turns \ {t} : build'[u] = build[u], Holding(b)',
         NEW assets, turn'[t].assets = assets, Answers(b, assets)', Begun(t)'
  PROVE  ReadInv'
<1>1. Typed
  BY DEF GapInv
<1>2. ASSUME NEW u \in Turns \ {t}
      PROVE  Begun(u)' /\ Goes(u)'
  <2>1. PICK c, a : c = build[u] /\ a = turn[u].assets /\ Holding(c) /\ Answers(c, a)
    BY DEF ReadInv, Goes
  <2>2. Holding(c)' /\ Answers(c, a)'
    BY <1>1, <2>1, HoldingStays, AnswersStay
  <2>3. build'[u] = c /\ turn'[u].assets = a
    BY <2>1
  <2>4. Begun(u)'
    BY DEF Begun, ReadInv
  <2> QED  BY <2>2, <2>3, <2>4 DEF Goes
<1>3. Goes(t)'
  BY DEF Goes
<1>4. Stored(summary)'
  BY DEF Stored
<1> QED  BY <1>2, <1>3, <1>4 DEF ReadInv

\* A build goes on by itself: the conversation is left alone, its turn has begun.
LEMMA BuildGoes ==
  ASSUME GapInv, ReadInv, UNCHANGED <<messages, turn>>,
         NEW s, summary' = s, Stored(s),
         NEW t \in Turns, build[t].pc # "idle" \/ turn[t].status # "new",
         NEW b, build' = [build EXCEPT ![t] = b], Holding(b), Answers(b, turn[t].assets)
  PROVE  ReadInv'
<1>1. Grows /\ Typed /\ \A u \in Turns \ {t} : turn'[u] = turn[u]
  BY SameMessages DEF GapInv
<1>2. PICK assets : assets = turn[t].assets
  OBVIOUS
<1>3. Holding(b)' /\ Answers(b, assets)' /\ turn'[t].assets = assets
  BY <1>1, <1>2, HoldingStays, AnswersStay
<1>4. turn[t].status # "new" /\ \E r \in Requests : turn[t].assets = r.assets
  BY DEF ReadInv, Begun
<1>5. Begun(t)'
  BY <1>4 DEF Begun
<1>6. build'[t] = b /\ \A u \in Turns \ {t} : build'[u] = build[u]
  BY <1>1 DEF Typed
<1> QED  BY <1>1, <1>3, <1>5, <1>6, OneGoesOn

\* A build that ends, or has not read anything, holds nothing.
LEMMA NothingHeld ==
  ASSUME NEW b, b.pc \in {"idle", "failed", "exceeded"}, NEW assets
  PROVE  Holding(b) /\ Answers(b, assets)
BY DEF Holding, Answers

\* What is there of the build that takes a step.
LEMMA HeldIs ==
  ASSUME GapInv, ReadInv, NEW t \in Turns, NEW c, c = build[t]
  PROVE  /\ Holding(c) /\ BuildOK(c) /\ Stored(summary) /\ messages \in Seq(Message)
         /\ Answers(c, turn[t].assets)
         /\ summary # NoSummary => NoGap(summary)
BY DEF GapInv, ReadInv, Goes, Typed

\* A build that raises keeps nothing.
LEMMA RaiseKeeps ==
  ASSUME GapInv, ReadInv, NEW t \in Turns, NEW pc \in {"failed", "exceeded"}, Raise(t, pc),
         build[t].pc # "idle"
  PROVE  ReadInv'
<1>1. PICK b, s : b = [pc |-> pc] /\ s = summary
  OBVIOUS
<1>2. Holding(b) /\ Answers(b, turn[t].assets)
  BY <1>1, NothingHeld
<1>3. Stored(s)
  BY <1>1 DEF ReadInv
<1>4. build' = [build EXCEPT ![t] = b] /\ UNCHANGED <<messages, turn>> /\ summary' = s
  BY <1>1 DEF Raise
<1> QED  BY <1>2, <1>3, <1>4, BuildGoes

\* A turn begins: it has no build yet.
LEMMA StartTurnKeeps ==
  ASSUME GapInv, ReadInv, NEW t \in Turns, StartTurn(t)
  PROVE  ReadInv'
<1>1. PICK r \in Requests :
        /\ messages' = Append(messages, [turn |-> t, size |-> r.size])
        /\ turn' = [turn EXCEPT ![t] = [status |-> "running", assets |-> r.assets]]
  BY DEF StartTurn
<1>2. DOMAIN turn = Turns /\ DOMAIN build = Turns /\ Typed
  BY DEF GapInv, Typed
<1>3. /\ DOMAIN turn' = Turns /\ \A u \in Turns \ {t} : turn'[u] = turn[u]
      /\ turn'[t].assets = r.assets /\ turn'[t].status = "running"
      /\ turn[t].status = "new" /\ build' = build /\ summary' = summary
  BY <1>1, <1>2 DEF StartTurn
<1>4. Grows
  <2>1. [turn |-> t, size |-> r.size] \in Message
    BY DEF Message
  <2> QED  BY <1>1, <1>2, <1>3, <2>1, AddedIs
<1>5. PICK b, s, a : b = build[t] /\ s = summary /\ a = r.assets
  OBVIOUS
<1>6. b.pc = "idle"
  BY <1>3, <1>5 DEF ReadInv, Begun
<1>7. build'[t] = b /\ \A u \in Turns \ {t} : build'[u] = build[u]
  BY <1>3, <1>5
<1>8. Holding(b) /\ Answers(b, a)
  BY <1>6, NothingHeld
<1>9. Holding(b)' /\ Answers(b, a)'
  BY <1>2, <1>4, <1>8, HoldingStays, AnswersStay
<1>10. Begun(t)'
  BY <1>3 DEF Begun
<1>11. Stored(s) /\ summary' = s /\ turn'[t].assets = a
  BY <1>3, <1>5 DEF ReadInv
<1> QED  BY <1>3, <1>4, <1>7, <1>9, <1>10, <1>11, OneGoesOn

\* A turn ends, and its build with it.
LEMMA FinishTurnKeeps ==
  ASSUME GapInv, ReadInv, NEW t \in Turns, FinishTurn(t)
  PROVE  ReadInv'
<1>1. \/ \E n \in AnswerSizes : messages' = Append(messages, [turn |-> t, size |-> n])
      \/ messages' = messages
  BY DEF FinishTurn
<1>2. DOMAIN turn = Turns /\ DOMAIN build = Turns /\ Typed
  BY DEF GapInv, Typed
<1>3. PICK status : turn' = [turn EXCEPT ![t].status = status]
  BY DEF FinishTurn
<1>4. /\ DOMAIN turn' = Turns /\ \A u \in Turns \ {t} : turn'[u] = turn[u]
      /\ turn'[t].assets = turn[t].assets
      /\ turn[t].status = "running" /\ build' = [build EXCEPT ![t] = NoBuild]
      /\ summary' = NoSummary \/ summary' = summary
  BY <1>2, <1>3 DEF FinishTurn, Running
<1>5. Grows
  <2>1. \A n \in AnswerSizes : [turn |-> t, size |-> n] \in Message
    BY DEF Message
  <2>2. turn[t].status # "budget_exceeded"
    BY <1>4
  <2>3. CASE messages' = messages
    BY <1>2, <1>4, <2>2, <2>3, NothingAdded
  <2>4. CASE messages' # messages
    BY <1>1, <1>2, <1>4, <2>1, <2>2, <2>4, AddedIs
  <2> QED  BY <2>3, <2>4
<1>6. PICK b, s, a : b = NoBuild /\ s = summary' /\ a = turn[t].assets
  OBVIOUS
<1>7. Stored(s)
  BY <1>4, <1>6 DEF ReadInv, Stored
<1>8. Holding(b) /\ Answers(b, a) /\ b.pc = "idle"
  <2>1. b.pc = "idle"
    BY <1>6 DEF NoBuild
  <2> QED  BY <2>1, NothingHeld
<1>9. Holding(b)' /\ Answers(b, a)'
  BY <1>2, <1>5, <1>8, HoldingStays, AnswersStay
<1>10. Begun(t)'
  <2>1. \E r \in Requests : turn[t].assets = r.assets
    BY <1>4 DEF ReadInv, Begun
  <2>2. build'[t].pc = "idle"
    BY <1>2, <1>4, <1>6, <1>8
  <2> QED  BY <1>4, <2>1, <2>2 DEF Begun
<1>11. build'[t] = b /\ \A u \in Turns \ {t} : build'[u] = build[u]
  BY <1>2, <1>4, <1>6
<1> QED  BY <1>4, <1>5, <1>6, <1>7, <1>9, <1>10, <1>11, OneGoesOn

\* What a build has loaded is part of the conversation.
LEMMA LoadKeeps ==
  ASSUME GapInv, ReadInv, NEW t \in Turns, Load(t)
  PROVE  ReadInv'
<1>1. PICK c, s : c = build[t] /\ s = summary
  OBVIOUS
<1>2. c.pc = "load" /\ c.base \in Nat /\ Stored(s) /\ Typed
  BY <1>1, HeldIs DEF Load, At, Holding, GapInv
<1>3. PICK history, b :
        /\ history \in BOOLEAN /\ build' = [build EXCEPT ![t] = b]
        /\ b = [pc |-> IF history THEN "read summary" ELSE "gather", base |-> c.base,
                loaded |-> IF history THEN Loaded ELSE {}, summary |-> NoSummary,
                recent |-> {}, older |-> {}]
  BY <1>1, <1>2 DEF Load, Typed
<1>4. Loaded \subseteq 1..Len(messages)
  BY DEF Loaded
<1>5. CASE history
  <2>1. b.pc = "read summary" /\ b.base = c.base /\ b.loaded = Loaded
    BY <1>3, <1>5
  <2>2. Holding(b) /\ Answers(b, turn[t].assets)
    BY <1>2, <1>4, <2>1 DEF Holding, Answers
  <2> QED  BY <1>1, <1>2, <1>3, <2>2, BuildGoes DEF Load
<1>6. CASE ~history
  <2>1. /\ b.pc = "gather" /\ b.base = c.base /\ b.loaded = {} /\ b.recent = {} /\ b.older = {}
        /\ b.summary = NoSummary
    BY <1>3, <1>6
  <2>2. Holding(b) /\ Answers(b, turn[t].assets)
    BY <1>2, <2>1 DEF Holding, Answers, Windowed, Stored, Covered
  <2> QED  BY <1>1, <1>2, <1>3, <2>2, BuildGoes DEF Load
<1> QED  BY <1>3, <1>5, <1>6

\* The messages a window leaves out are numbers, the last of them being older's last.
LEMMA OlderIs ==
  ASSUME NEW n \in Nat, NEW older, older \subseteq 1..n, older # {}
  PROVE  /\ Max(older) \in Nat /\ \A i \in older : i <= Max(older)
         /\ Min(older) \in Nat /\ Cardinality(older) \in Nat
<1>1. PICK last : last = Max(older)
  OBVIOUS
<1>2. older \subseteq 0..n /\ older \in SUBSET Nat
  OBVIOUS
<1>3. last \in older /\ \A i \in older : i <= last
  BY <1>1, <1>2, MaxIs
<1>4. PICK m \in older : \A i \in older : m <= i
  BY <1>2, LeastIs
<1>5. PICK least : least = Min(older)
  OBVIOUS
<1>6. least \in older
  BY <1>4, <1>5 DEF Min
<1>7. Cardinality(older) \in Nat
  <2>1. IsFiniteSet(1..n)
    BY FS_Interval
  <2>2. older \in SUBSET (1..n)
    OBVIOUS
  <2> QED  BY <2>1, <2>2, FS_Subset, FS_CardinalityType
<1> QED  BY <1>1, <1>2, <1>3, <1>5, <1>6, <1>7

\* What a build writes is a summary.
LEMMA ExtendedIs ==
  ASSUME NEW n \in Nat, NEW older, older \subseteq 1..n, older # {},
         NEW existing, Stored(existing)
  PROVE  Extended(existing, older) \in Summary
<1>1. PICK had \in BOOLEAN : had = (existing # NoSummary)
  OBVIOUS
<1>2. PICK text, from, through, count :
        /\ text = older \cup (IF had THEN existing.text ELSE {})
        /\ from = IF had THEN existing.from ELSE Min(older)
        /\ through = Max(older)
        /\ count = Cardinality(older) + (IF had THEN existing.count ELSE 0)
  OBVIOUS
<1>3. had => existing.text \in SUBSET Nat /\ existing.from \in Nat /\ existing.count \in Nat
  BY <1>1 DEF Stored, Summary
<1>4. text \in SUBSET Nat
  <2>1. older \in SUBSET Nat
    OBVIOUS
  <2>2. CASE had
    BY <1>2, <1>3, <2>1, <2>2
  <2>3. CASE ~had
    BY <1>2, <2>1, <2>3
  <2> QED  BY <2>2, <2>3
<1>5. from \in Nat /\ through \in Nat
  BY <1>2, <1>3, OlderIs
<1>6. count \in Nat
  <2>1. Cardinality(older) \in Nat
    BY OlderIs
  <2> QED  BY <1>2, <1>3, <2>1
<1>7. Extended(existing, older) =
        [text |-> text, from |-> from, through |-> through, count |-> count, size |-> SummaryMax]
  BY <1>1, <1>2 DEF Extended
<1>8. SummaryMax \in Nat
  BY ItemsAssumption
<1> QED  BY <1>4, <1>5, <1>6, <1>7, <1>8 DEF Summary

\* A build that reads the summary has all it leaves out of its window told or in hand.
LEMMA ReadSummaryKeeps ==
  ASSUME GapInv, ReadInv, NEW t \in Turns, ReadSummary(t)
  PROVE  ReadInv'
<1>0. PICK c, s, n : c = build[t] /\ s = summary /\ n = Len(messages)
  OBVIOUS
<1>1. PICK U, recent, older, window :
        /\ U = Uncovered(c, s) /\ window = WindowBudget(HistoryBudget(CandidateBudget(c.base)))
        /\ recent = WindowOf(U, window) /\ older = U \ recent
  OBVIOUS
<1>2. PICK b :
        /\ build' = [build EXCEPT ![t] = b]
        /\ b = [pc |-> IF older = {} THEN "gather" ELSE "summarise", base |-> c.base,
                loaded |-> c.loaded, summary |-> s, recent |-> recent, older |-> older]
  BY <1>0, <1>1 DEF ReadSummary, WindowOf
<1>3. /\ c.pc = "read summary" /\ c.base \in Nat /\ c.loaded \subseteq 1..n /\ n \in Nat
      /\ Stored(s) /\ (s # NoSummary => NoGap(s))
  <2>1. Holding(c) /\ Stored(s) /\ (s # NoSummary => NoGap(s)) /\ messages \in Seq(Message)
    BY <1>0, HeldIs
  <2>2. c.pc = "read summary"
    BY <1>0 DEF ReadSummary, At
  <2>3. c.base \in Nat /\ c.loaded \subseteq 1..n
    BY <1>0, <2>1, <2>2 DEF Holding
  <2>4. n \in Nat
    BY <1>0, <2>1
  <2> QED  BY <2>1, <2>2, <2>3, <2>4
<1>4. /\ U \subseteq c.loaded /\ recent \subseteq U /\ older \subseteq 1..n /\ recent \subseteq 1..n
      /\ \A i \in c.loaded \ recent : i \in older \/ (s # NoSummary /\ i <= s.through)
      /\ \A i \in older : s # NoSummary => i > s.through
  <2>1. recent \subseteq U
    BY <1>1 DEF WindowOf, Recent
  <2>2. U \subseteq c.loaded
    BY <1>1 DEF Uncovered
  <2>3. \A i \in c.loaded : i \in U <=> s = NoSummary \/ i > s.through
    BY <1>1 DEF Uncovered
  <2>4. s # NoSummary => s.through \in Nat
    BY <1>3 DEF Stored, Summary
  <2>5. \A i \in c.loaded : i \in Nat
    <3>1. c.loaded \subseteq 1..n
      BY <1>3
    <3> QED  BY <3>1
  <2>6. \A i \in c.loaded \ recent : i \in older \/ (s # NoSummary /\ i <= s.through)
    BY <1>1, <2>3, <2>4, <2>5
  <2>7. \A i \in older : s # NoSummary => i > s.through
    BY <1>1, <2>2, <2>3
  <2> QED  BY <1>1, <1>3, <2>1, <2>2, <2>6, <2>7
<1>5. /\ b.base = c.base /\ b.loaded = c.loaded /\ b.summary = s /\ b.recent = recent
      /\ b.older = older /\ b.pc = IF older = {} THEN "gather" ELSE "summarise"
  BY <1>2
<1>6. Windowed(b)
  <2>1. U \in SUBSET (1..n)
    BY <1>3, <1>4
  <2> QED  BY <1>0, <1>1, <1>5, <2>1 DEF Windowed
<1>7. ASSUME older = {} PROVE Covered(b)
  <2>1. ASSUME NEW i \in c.loaded \ recent
        PROVE  Excluded(i) \/ (s # NoSummary /\ i \in s.text)
    <3>1. s # NoSummary /\ i <= s.through
      BY <1>4, <1>7, <2>1
    <3>2. NoGap(s) /\ s.through \in Nat /\ i \in 1..n
      BY <1>3, <2>1, <3>1 DEF Stored, Summary
    <3>3. i \in 1..s.through
      BY <3>1, <3>2
    <3> QED  BY <3>1, <3>2, <3>3 DEF NoGap
  <2> QED  BY <1>5, <2>1 DEF Covered
<1>8. ASSUME older # {} PROVE Behind(b)
  <2>1. PICK o : o \in older
    BY <1>8
  <2>2. ASSUME NEW i \in c.loaded \ recent PROVE \E x \in older : i <= x
    <3>0. i \in Nat /\ o \in Nat
      <4>1. c.loaded \subseteq 1..n /\ older \subseteq 1..n
        BY <1>3, <1>4
      <4> QED  BY <2>1, <2>2, <4>1
    <3>1. CASE i \in older
      BY <3>0, <3>1
    <3>2. CASE s # NoSummary /\ i <= s.through
      <4>1. o > s.through /\ s.through \in Nat
        BY <1>3, <1>4, <2>1, <3>2 DEF Stored, Summary
      <4>2. i <= o
        BY <3>0, <3>2, <4>1
      <4> QED  BY <2>1, <4>2
    <3> QED  BY <1>4, <2>2, <3>1, <3>2
  <2> QED  BY <1>5, <1>8, <2>2 DEF Behind
<1>9. Holding(b) /\ Answers(b, turn[t].assets)
  <2>1. CASE older = {}
    <3>1. b.pc = "gather"
      BY <1>5, <2>1
    <3> QED  BY <1>0, <1>3, <1>4, <1>5, <1>6, <1>7, <2>1, <3>1 DEF Holding, Answers
  <2>2. CASE older # {}
    <3>1. b.pc = "summarise"
      BY <1>5, <2>2
    <3>2. Shaped(b)
      BY <1>2 DEF Shaped
    <3> QED  BY <1>0, <1>3, <1>4, <1>5, <1>6, <1>8, <2>2, <3>1, <3>2 DEF Holding, Answers
  <2> QED  BY <2>1, <2>2
<1>10. UNCHANGED <<messages, turn>> /\ summary' = s
  BY <1>0 DEF ReadSummary
<1>11. build[t].pc # "idle"
  BY <1>0, <1>3
<1> QED  BY <1>2, <1>3, <1>9, <1>10, <1>11, BuildGoes

\* What is behind a summary that reaches as far as what is older is told by it.
LEMMA BehindIsTold ==
  ASSUME messages \in Seq(Message), NEW c, Behind(c), c.loaded \subseteq 1..Len(messages),
         c.older \subseteq 1..Len(messages), NEW s, NoGap(s),
         \A o \in c.older : o <= s.through
  PROVE  \A i \in c.loaded \ c.recent : Excluded(i) \/ i \in s.text
<1>1. PICK n : n = Len(messages) /\ n \in Nat
  OBVIOUS
<1>2. s.through \in Nat
  BY <1>1 DEF NoGap
<1> SUFFICES ASSUME NEW i \in c.loaded \ c.recent PROVE Excluded(i) \/ i \in s.text
  OBVIOUS
<1>3. PICK o \in c.older : i <= o
  BY DEF Behind
<1>4. i \in 1..n /\ o \in 1..n /\ o <= s.through
  BY <1>1
<1>5. i \in 1..s.through
  BY <1>1, <1>2, <1>3, <1>4
<1> QED  BY <1>5 DEF NoGap

\* What a build has written tells what it leaves out of its window.
LEMMA SaveSummaryKeeps ==
  ASSUME GapInv, ReadInv, NEW t \in Turns, SaveSummary(t)
  PROVE  ReadInv'
<1>1. PICK c, n, new, s : /\ c = build[t] /\ n = Len(messages)
                          /\ new = Extended(c.summary, c.older) /\ s = summary'
  OBVIOUS
<1>2. c.pc = "summarise"
  BY <1>1 DEF SaveSummary, At
<1>3. Holding(c) /\ BuildOK(c) /\ messages \in Seq(Message) /\ Stored(summary)
  BY <1>1, HeldIs
<1>4. /\ c.base \in Nat /\ c.loaded \subseteq 1..n
      /\ c.recent \subseteq 1..n /\ c.older \subseteq 1..n
      /\ Windowed(c) /\ Stored(c.summary) /\ Shaped(c) /\ Behind(c)
  BY <1>1, <1>2, <1>3 DEF Holding
<1>5. n \in Nat
  BY <1>1, <1>3
<1>6. new \in Summary /\ new # NoSummary
  <2>1. c.older # {}
    BY <1>4 DEF Behind
  <2>2. new \in Summary
    BY <1>1, <1>4, <1>5, <2>1, ExtendedIs
  <2> QED  BY <2>2, ItemsAssumption
<1>7. Stored(s)
  BY <1>1, <1>3, <1>6 DEF SaveSummary, Stored
<1>8. UNCHANGED <<messages, turn>>
  BY DEF SaveSummary
<1>9. CASE Replaces(new)
  <2>1. PICK b : b = [c EXCEPT !.summary = new, !.pc = "gather", !.older = {}]
    OBVIOUS
  <2>2. build' = [build EXCEPT ![t] = b]
    BY <1>1, <1>9, <2>1 DEF SaveSummary, GapInv, Typed
  <2>3. /\ b.pc = "gather" /\ b.summary = new /\ b.older = {}
        /\ b.base = c.base /\ b.loaded = c.loaded /\ b.recent = c.recent
    BY <1>4, <2>1 DEF Shaped
  <2>4. Windowed(b)
    BY <1>4, <2>3 DEF Windowed
  <2>5. \A i \in c.loaded \ c.recent : Excluded(i) \/ i \in new.text
    <3>1. NoGap(new)
      BY <1>1, <1>2, <1>3 DEF BuildOK
    <3>2. \A o \in c.older : o <= new.through
      <4>1. c.older # {}
        BY <1>4 DEF Behind
      <4>2. \A o \in c.older : o <= Max(c.older)
        BY <1>4, <1>5, <4>1, OlderIs
      <4>3. new.through = Max(c.older)
        BY <1>1 DEF Extended
      <4> QED  BY <4>2, <4>3
    <3> QED  BY <1>1, <1>3, <1>4, <3>1, <3>2, BehindIsTold
  <2>6. Covered(b)
    BY <1>6, <2>3, <2>5 DEF Covered
  <2>7. Stored(b.summary)
    BY <1>6, <2>3 DEF Stored
  <2>8. Holding(b) /\ Answers(b, turn[t].assets)
    BY <1>1, <1>4, <2>3, <2>4, <2>6, <2>7 DEF Holding, Answers
  <2> QED  BY <1>1, <1>2, <1>7, <1>8, <2>2, <2>8, BuildGoes
<1>10. CASE ~Replaces(new)
  <2>1. PICK b : b = [c EXCEPT !.summary = NoSummary, !.pc = "reread"]
    OBVIOUS
  <2>2. build' = [build EXCEPT ![t] = b]
    BY <1>1, <1>10, <2>1 DEF SaveSummary, GapInv, Typed
  <2>3. /\ b.pc = "reread" /\ b.summary = NoSummary /\ b.older = c.older
        /\ b.base = c.base /\ b.loaded = c.loaded /\ b.recent = c.recent
    BY <1>4, <2>1 DEF Shaped
  <2>4. Windowed(b) /\ Behind(b) /\ Stored(b.summary)
    BY <1>4, <2>3 DEF Windowed, Behind, Stored
  <2>5. Shaped(b)
    BY <1>4, <2>1 DEF Shaped
  <2>6. Holding(b) /\ Answers(b, turn[t].assets)
    BY <1>1, <1>4, <2>3, <2>4, <2>5 DEF Holding, Answers
  <2> QED  BY <1>1, <1>2, <1>7, <1>8, <2>2, <2>6, BuildGoes
<1> QED  BY <1>9, <1>10

\* The summary that has won tells it too, unless it reaches less far.
LEMMA RereadKeeps ==
  ASSUME GapInv, ReadInv, NEW t \in Turns, Reread(t)
  PROVE  ReadInv'
<1>1. PICK c, n, s : c = build[t] /\ n = Len(messages) /\ s = summary
  OBVIOUS
<1>2. c.pc = "reread"
  BY <1>1 DEF Reread, At
<1>3. CASE Raise(t, "failed")
  BY <1>1, <1>2, <1>3, RaiseKeeps
<1>4. CASE ~Raise(t, "failed")
  <2>1. /\ s # NoSummary /\ UNCHANGED <<messages, turn>> /\ summary' = s
        /\ build' = [build EXCEPT ![t].summary = s, ![t].pc = "gather"]
    BY <1>1, <1>4 DEF Reread
  <2>2. Holding(c) /\ messages \in Seq(Message) /\ Stored(s) /\ NoGap(s)
    BY <1>1, <2>1, HeldIs
  <2>3. /\ c.base \in Nat /\ c.loaded \subseteq 1..n
        /\ c.recent \subseteq 1..n /\ c.older \subseteq 1..n
        /\ Windowed(c) /\ Shaped(c) /\ Behind(c)
    BY <1>1, <1>2, <2>2 DEF Holding
  <2>4. PICK b : b = [c EXCEPT !.summary = s, !.pc = "gather"]
    OBVIOUS
  <2>5. build' = [build EXCEPT ![t] = b]
    BY <1>1, <2>1, <2>4 DEF GapInv, Typed
  <2>6. /\ b.pc = "gather" /\ b.summary = s /\ b.older = c.older
        /\ b.base = c.base /\ b.loaded = c.loaded /\ b.recent = c.recent
    BY <2>3, <2>4 DEF Shaped
  <2>7. Windowed(b)
    BY <2>3, <2>6 DEF Windowed
  <2>8. ASSUME ~Outrun(b)
        PROVE  \A i \in c.loaded \ c.recent : Excluded(i) \/ i \in s.text
    <3>1. n \in Nat /\ s.through \in 1..n
      BY <1>1, <2>2 DEF NoGap
    <3>2. \A o \in c.older : o \in Nat /\ ~(o > s.through)
      <4>1. \A o \in c.older : ~(o > s.through)
        BY <2>6, <2>8 DEF Outrun
      <4> QED  BY <2>3, <4>1
    <3>3. \A o \in c.older : o <= s.through
      BY <3>1, <3>2
    <3> QED  BY <1>1, <2>2, <2>3, <3>3, BehindIsTold
  <2>9. Covered(b)
    BY <2>1, <2>6, <2>8 DEF Covered
  <2>10. Holding(b) /\ Answers(b, turn[t].assets)
    BY <1>1, <2>2, <2>3, <2>6, <2>7, <2>9 DEF Holding, Answers
  <2> QED  BY <1>1, <1>2, <2>1, <2>2, <2>5, <2>10, BuildGoes
<1> QED  BY <1>3, <1>4

\* What the compiled context gives the model: the attachments, and with none and nothing
\* lost to the final fit, the window and the summary.
LEMMA CompiledAnswers ==
  ASSUME messages \in Seq(Message), NEW c, Readable(c), Windowed(c), c.base \in Nat,
         NEW r \in Requests, NEW recalled \in Recalled,
         NEW selection, ~selection.failed,
         selection = Select(Deduplicate(Candidates(c, recalled, r.assets)), CandidateBudget(c.base)),
         NEW b, b.base = c.base, b.summary = c.summary, b.recent = c.recent,
         b.items = FitCompiled(c.base, selection.chosen),
         b.dropped = selection.chosen \ b.items
  PROVE  Answers(b, r.assets)
<1>1. PICK budget : budget = CandidateBudget(c.base)
  OBVIOUS
<1>2. ASSUME budget > 0
      PROVE  \A a \in r.assets : \E i \in b.items : i.body = a.body
  <2>1. budget \in Nat
    BY <1>1, PolicyIs DEF CandidateBudget, Most
  <2>2. PICK base : base = c.base
    OBVIOUS
  <2>3. selection = Select(Deduplicate(Candidates(c, recalled, r.assets)), budget)
    BY <1>1
  <2>4. Attached(FitCompiled(base, selection.chosen), r.assets)
    BY <1>2, <2>1, <2>3, CompiledIs
  <2>5. b.items = FitCompiled(base, selection.chosen)
    BY <2>2
  <2> QED  BY <2>4, <2>5 DEF Attached
<1>3. ASSUME b.recent # {}, r.assets = {}, b.dropped = {}, RoomForHistory(b)
      PROVE  /\ \A i \in b.recent : \E item \in b.items : item.kind = "working" /\ item.id = i
             /\ b.summary # NoSummary => \E item \in b.items : item.kind = "summary"
  <2>1. PICK window : window = WindowBudget(HistoryBudget(CandidateBudget(c.base)))
    OBVIOUS
  <2>2. PICK U \in SUBSET (1..Len(messages)) : c.recent = WindowOf(U, window)
    BY <1>3, <2>1 DEF Windowed
  <2>3. RoomForHistory(c)
    BY <1>3 DEF RoomForHistory
  <2>4. \A i \in Told(c) \cup WorkingItems(c) : Holds(selection.chosen, i)
    BY <1>3, <2>1, <2>2, <2>3, HistoryReaches
  <2>5. \A k \in selection.chosen : k \in b.items
    BY <1>3
  <2>6. \A i \in Told(c) \cup WorkingItems(c) :
          \E k \in b.items : k.id = i.id /\ k.kind = i.kind
    BY <2>4, <2>5 DEF Holds, IsOf
  <2>7. \A i \in b.recent : \E item \in b.items : item.kind = "working" /\ item.id = i
    <3>1. ASSUME NEW i \in c.recent
          PROVE  \E item \in b.items : item.kind = "working" /\ item.id = i
      <4>1. PICK w \in WorkingItems(c) : IsMessage(w, i)
        BY WorkingItemsAre
      <4>2. w.kind = "working" /\ w.id = i
        BY <4>1 DEF IsMessage
      <4> QED  BY <2>6, <4>2
    <3> QED  BY <3>1
  <2>8. ASSUME c.summary # NoSummary PROVE \E item \in b.items : item.kind = "summary"
    <3>1. PICK told : told = SummaryItem(c.summary)
      OBVIOUS
    <3>2. told \in Told(c)
      BY <2>8, <3>1 DEF Told
    <3>3. told.kind = "summary"
      BY <3>1 DEF SummaryItem
    <3> QED  BY <2>6, <3>2, <3>3
  <2> QED  BY <2>7, <2>8
<1> QED  BY <1>1, <1>2, <1>3 DEF Answers

\* A build gives the model what it has, or raises.
LEMMA CompileKeeps ==
  ASSUME GapInv, ReadInv, NEW t \in Turns, Compile(t)
  PROVE  ReadInv'
<1>1. PICK c, n, s : c = build[t] /\ n = Len(messages) /\ s = summary
  OBVIOUS
<1>2. c.pc = "gather"
  BY <1>1 DEF Compile, At
<1>3. CASE Raise(t, "exceeded")
  BY <1>1, <1>2, <1>3, RaiseKeeps
<1>4. CASE ~Raise(t, "exceeded")
  <2>1. PICK r \in Requests : turn[t].assets = r.assets
    BY <1>1, <1>2 DEF ReadInv, Begun
  <2>2. PICK recalled, selection, items :
          /\ recalled \in Recalled
          /\ selection = Select(Deduplicate(Candidates(c, recalled, r.assets)),
                                CandidateBudget(c.base))
          /\ items = FitCompiled(c.base, selection.chosen)
          /\ ~selection.failed
          /\ build' = [build EXCEPT ![t] =
               [pc |-> "compiled", base |-> c.base, loaded |-> c.loaded,
                summary |-> c.summary, recent |-> c.recent, older |-> c.older,
                items |-> items, dropped |-> selection.chosen \ items]]
          /\ UNCHANGED <<messages, turn, summary>>
    BY <1>1, <1>4, <2>1 DEF Compile
  <2>3. PICK b : b = [pc |-> "compiled", base |-> c.base, loaded |-> c.loaded,
                      summary |-> c.summary, recent |-> c.recent, older |-> c.older,
                      items |-> items, dropped |-> selection.chosen \ items]
    OBVIOUS
  <2>4. Holding(c) /\ messages \in Seq(Message) /\ Stored(s)
    BY <1>1, HeldIs
  <2>5. /\ c.base \in Nat /\ c.loaded \subseteq 1..n
        /\ c.recent \subseteq 1..n /\ c.older \subseteq 1..n
        /\ Windowed(c) /\ Stored(c.summary) /\ Covered(c)
    BY <1>1, <1>2, <2>4 DEF Holding
  <2>6. /\ b.pc = "compiled" /\ b.base = c.base /\ b.loaded = c.loaded /\ b.summary = c.summary
        /\ b.recent = c.recent /\ b.older = c.older
        /\ b.items = items /\ b.dropped = selection.chosen \ items
    BY <2>3
  <2>7. Windowed(b) /\ Stored(b.summary) /\ Covered(b)
    BY <2>5, <2>6 DEF Windowed, Stored, Covered, Outrun
  <2>8. Readable(c)
    BY <1>1, <2>5 DEF Readable, Stored, Summary
  <2>9. Answers(b, r.assets)
    BY <2>2, <2>4, <2>5, <2>6, <2>8, CompiledAnswers
  <2>10. Holding(b)
    BY <1>1, <2>5, <2>6, <2>7 DEF Holding
  <2> QED  BY <1>1, <1>2, <2>1, <2>2, <2>3, <2>4, <2>9, <2>10, BuildGoes
<1> QED  BY <1>3, <1>4

\* Every step keeps it.
LEMMA ReadStep ==
  ASSUME GapInv, ReadInv, [Next]_vars
  PROVE  ReadInv'
<1>1. PICK s : s = summary /\ Stored(s)
  BY DEF ReadInv
<1>2. CASE UNCHANGED vars
  <2>1. UNCHANGED <<messages, turn, build, summary>>
    BY <1>2 DEF vars
  <2>2. Grows /\ Typed
    BY <2>1, SameMessages DEF GapInv
  <2>3. ASSUME NEW t \in Turns PROVE Begun(t)' /\ Goes(t)'
    <3>1. PICK b, a : b = build[t] /\ a = turn[t].assets /\ Holding(b) /\ Answers(b, a)
      BY DEF ReadInv, Goes
    <3>2. Holding(b)' /\ Answers(b, a)'
      BY <2>2, <3>1, HoldingStays, AnswersStay
    <3>3. build'[t] = b /\ turn'[t].assets = a
      BY <2>1, <3>1
    <3>4. Begun(t)'
      BY <2>1 DEF Begun, ReadInv
    <3> QED  BY <3>2, <3>3, <3>4 DEF Goes
  <2> QED  BY <1>1, <2>1, <2>3 DEF ReadInv, Stored
<1>3. ASSUME NEW t \in Turns, StartBuild(t) PROVE ReadInv'
  <2>1. PICK base \in Bases : build' = [build EXCEPT ![t] =
          [pc |-> IF base > TokenBudget THEN "refuse" ELSE "load", base |-> base]]
    BY <1>3 DEF StartBuild
  <2>2. PICK b : b = [pc |-> IF base > TokenBudget THEN "refuse" ELSE "load", base |-> base]
    OBVIOUS
  <2>3. base \in Nat
    BY ItemsAssumption
  <2>4. b.pc \in {"refuse", "load"} /\ b.base = base
    BY <2>2
  <2>5. Holding(b) /\ Answers(b, turn[t].assets)
    BY <2>3, <2>4 DEF Holding, Answers
  <2>6. turn[t].status # "new" /\ UNCHANGED <<messages, turn>> /\ summary' = s
    BY <1>1, <1>3 DEF StartBuild, Running
  <2> QED  BY <1>1, <2>1, <2>2, <2>5, <2>6, BuildGoes
<1>4. ASSUME NEW t \in Turns, FinishBuild(t) \/ Fail(t) \/ Cancel(t) PROVE ReadInv'
  <2>1. PICK b : /\ build' = [build EXCEPT ![t] = b]
                 /\ b \in {NoBuild, [pc |-> "failed"]}
    BY <1>4 DEF FinishBuild, Fail, Cancel
  <2>2. b.pc \in {"idle", "failed"}
    BY <2>1 DEF NoBuild
  <2>3. Holding(b) /\ Answers(b, turn[t].assets)
    BY <2>2, NothingHeld
  <2>4. build[t].pc # "idle" /\ UNCHANGED <<messages, turn>> /\ summary' = s
    BY <1>1, <1>4 DEF FinishBuild, Fail, Cancel, Building, At
  <2> QED  BY <1>1, <2>1, <2>3, <2>4, BuildGoes
<1>5. ASSUME NEW t \in Turns, Refuse(t) PROVE ReadInv'
  BY <1>5, RaiseKeeps DEF Refuse, At
<1>6. ASSUME NEW t \in Turns, Step(t) PROVE ReadInv'
  BY <1>3, <1>4, <1>5, <1>6, StartTurnKeeps, FinishTurnKeeps, LoadKeeps, ReadSummaryKeeps,
     SaveSummaryKeeps, RereadKeeps, CompileKeeps DEF Step
<1> QED  BY <1>2, <1>6 DEF Next

\* At first there is nothing.
LEMMA ReadInit == Init => GapInv /\ ReadInv
<1> SUFFICES ASSUME Init PROVE GapInv /\ ReadInv
  OBVIOUS
<1>1. /\ messages = <<>> /\ DOMAIN turn = Turns /\ DOMAIN build = Turns
      /\ summary = NoSummary /\ \A t \in Turns : build[t] = NoBuild /\ turn[t].status = "new"
  BY DEF Init
<1>2. "pc" \in DOMAIN NoBuild /\ NoBuild.pc = "idle"
  BY DEF NoBuild
<1>3. Typed
  BY <1>1 DEF Typed
<1>4. BuildOK(NoBuild)
  BY <1>2 DEF BuildOK
<1>5. GapInv
  BY <1>1, <1>3, <1>4, Zenon DEF GapInv
<1>6. ASSUME NEW t \in Turns PROVE Begun(t) /\ Goes(t)
  <2>1. build[t].pc = "idle" /\ turn[t].status = "new"
    BY <1>1, <1>2
  <2>2. PICK b, a : b = build[t] /\ a = turn[t].assets
    OBVIOUS
  <2>3. Holding(b) /\ Answers(b, a)
    BY <2>1, <2>2, NothingHeld
  <2> QED  BY <2>1, <2>2, <2>3 DEF Begun, Goes
<1>7. Stored(summary)
  BY <1>1 DEF Stored
<1> QED  BY <1>5, <1>6, <1>7 DEF ReadInv

\* A build that has room for candidates gives the model the text of every attachment of its
\* turn: neither deduplication nor the budget nor the final fit takes it away.
THEOREM AttachmentsArrive == Spec => []AttachmentsReachTheModel
<1>1. ReadInv => AttachmentsReachTheModel
  <2> SUFFICES ASSUME ReadInv, NEW t \in Turns, At(t, "compiled"),
                      CandidateBudget(build[t].base) > 0
               PROVE  AttachmentsKept(t)
    BY DEF AttachmentsReachTheModel
  <2>1. PICK b, a : b = build[t] /\ a = turn[t].assets /\ Answers(b, a)
    BY DEF ReadInv, Goes
  <2>2. \A x \in a : \E i \in b.items : i.body = x.body
    BY <2>1 DEF Answers, At
  <2> QED  BY <2>1, <2>2 DEF AttachmentsKept
<1> QED  BY <1>1, ReadInit, ReadStep, GapStep, PTL DEF Spec

\* A build with room for history, a window and no attachments that has lost nothing to the
\* final fit and has not been outrun gives the model every message of the conversation that
\* it has read, told by the summary or there itself.
THEOREM ConversationArrives == Spec => []ModelReadsTheConversation
<1>1. ReadInv => ModelReadsTheConversation
  <2> SUFFICES ASSUME ReadInv, NEW t \in Turns, ReadsHistory(t), ~Outrun(build[t])
               PROVE  ConversationIsRead(build[t])
    BY DEF ModelReadsTheConversation
  <2>1. PICK b, a : b = build[t] /\ a = turn[t].assets /\ Holding(b) /\ Answers(b, a)
    BY DEF ReadInv, Goes
  <2>2. /\ b.pc = "compiled" /\ b.recent # {} /\ a = {} /\ b.dropped = {}
        /\ RoomForHistory(b) /\ ~Outrun(b)
    BY <2>1 DEF ReadsHistory, At
  <2>3. Covered(b)
    BY <2>1, <2>2 DEF Holding
  <2>4. /\ \A i \in b.recent : \E item \in b.items : item.kind = "working" /\ item.id = i
        /\ b.summary # NoSummary => \E item \in b.items : item.kind = "summary"
    BY <2>1, <2>2 DEF Answers
  <2>5. ConversationIsRead(b)
    BY <2>2, <2>3, <2>4 DEF Covered, ConversationIsRead
  <2> QED  BY <2>1, <2>5
<1> QED  BY <1>1, ReadInit, ReadStep, GapStep, PTL DEF Spec
=============================================================================
