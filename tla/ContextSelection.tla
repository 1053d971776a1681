-------------------------- MODULE ContextSelection --------------------------
(***************************************************************************)
(* What the context engine keeps of its candidates within a token budget:  *)
(* the window of recent messages, deduplication, selection and the final   *)
(* fit (app/agent/context_engine).                                         *)
(*                                                                         *)
(* Of an item, key is its typed identity or "", body its normalised text;  *)
(* rank orders items by version, confidence, relevance, importance and     *)
(* position, which is what duplicates are compared by.                     *)
(* Sizes are tokens; the policy is a set of constants.                     *)
(***************************************************************************)
EXTENDS Integers, FiniteSets, Sequences, SequencesExt

CONSTANTS TokenBudget, FormatReserve, HistoryPercent, RecentPercent,
          MaxItem, MinCompression, MinScore,
          MessageCost,    \* tokens of one message besides its text
          SplitCost,      \* the same as the history manager estimates it
          Texts           \* the identities and the normalised texts of items

ASSUME PolicyAssumption ==
  /\ {TokenBudget, MaxItem, MinCompression} \subseteq Nat \ {0}
  /\ FormatReserve \in 0..(TokenBudget - 1)
  /\ HistoryPercent \in 1..100 /\ RecentPercent \in 1..100
  /\ {MinScore, MessageCost, SplitCost} \subseteq Nat
  /\ {"", "summary", "message"} \subseteq Texts

Item ==
  [id : Nat, kind : {"summary", "working", "asset", "memory"}, size : Nat, score : Nat,
   required : BOOLEAN, direct : BOOLEAN, rank : Nat, key : Texts, body : Texts, index : Nat]

Least(a, b) == IF a < b THEN a ELSE b
Most(a, b) == IF a < b THEN b ELSE a
Tokens(items) ==
  LET sum[some \in SUBSET items] ==
        IF some = {} THEN 0
        ELSE LET i == CHOOSE i \in some : TRUE
             IN  i.size + sum[some \ {i}]
  IN  sum[items]

CandidateBudget(base) == Most(0, TokenBudget - base - FormatReserve)
HistoryBudget(budget) == (budget * HistoryPercent) \div 100
\* Mutant of WindowBudget: nothing is set aside for the summary.
WholeHistory(history) == Most(MinCompression, history)

WindowBudget(history) == Most(MinCompression, (history * RecentPercent) \div 100)
SummaryBudget(history) == (history * (100 - RecentPercent)) \div 100

\* The recent window of the messages, size being the tokens of each: from the
\* newest back as long as they fit the budget, at least the last one.
Recent(size, budget) ==
  LET last == Max({0} \cup DOMAIN size)
      used[n \in 0..last] ==      \* by the newest messages, those from last + 1 - n on
        IF n = 0 THEN 0
        ELSE used[n - 1] + IF last + 1 - n \in DOMAIN size
                           THEN size[last + 1 - n] + SplitCost ELSE 0
  IN  {k \in DOMAIN size : \A j \in DOMAIN size : j >= k =>
         j = last \/ used[last + 1 - j] <= budget}

(***************************************************************************)
(* Deduplication: one item of each typed identity, then one of each text.  *)
(***************************************************************************)
IsHistory(i) == i.kind \in {"working", "summary"}

Outranks(i, j) ==
  \/ i.required /\ ~j.required
  \/ i.required = j.required /\ i.direct /\ ~j.direct
  \/ i.required = j.required /\ i.direct = j.direct /\ i.rank > j.rank

SameObject(i, j) == i.key # "" /\ i.key = j.key
SameText(i, j) == ~IsHistory(i) /\ ~IsHistory(j) /\ i.body = j.body

Best(items, Same(_, _)) ==
  {i \in items : ~\E j \in items : Same(i, j) /\ Outranks(j, i)}

Deduplicate(items) == Best(Best(items, SameObject), SameText)

(***************************************************************************)
(* Selection.  acc is [chosen, left, failed].  Items stand in places, one  *)
(* after the other; each gets at most what its class leaves it, cut down   *)
(* when that is worth it.                                                  *)
(***************************************************************************)
Before(i, j) == i.score > j.score \/ (i.score = j.score /\ i.id < j.id)

ByScore(items) ==
  [n \in 1..Cardinality(items) |->
     {i \in items : Cardinality({j \in items : Before(j, i)}) = n - 1}]

NewestFirst(items) ==
  LET last == Max({0} \cup {i.index : i \in items})
  IN  [n \in 1..last |-> {i \in items : i.index = last + 1 - n}]

Cut(i, most) ==
  LET n == Least(most, MaxItem)
  IN  IF ~i.required /\ i.score < MinScore THEN {}
      ELSE IF i.size <= n THEN {i}
      ELSE IF n < MinCompression THEN {}
      ELSE {[i EXCEPT !.size = n]}

Keep(acc, place, most) ==
  LET cut == UNION {Cut(i, most) : i \in place}
  IN  [acc EXCEPT !.chosen = @ \cup cut, !.left = @ - Tokens(cut)]

\* A class of items fills its share of what is left.
Fill(acc, places, share) ==
  LET kept[n \in 0..Len(places)] ==
        IF n = 0 THEN acc
        ELSE LET a == kept[n - 1]
             IN  Keep(a, places[n], Least(a.left, Most(0, share - (acc.left - a.left))))
  IN  kept[Len(places)]

\* Mutant of Required: an item that does not fit is left out silently.
RequiredIfItFits(acc, items) == Fill(acc, ByScore(items), acc.left)

\* Required items share what is there fairly; one that does not fit fails
\* the build.
Required(acc, items) ==
  LET places == ByScore(items)
      kept[n \in 0..Len(places)] ==
        IF n = 0 THEN acc
        ELSE LET a == kept[n - 1]
                 b == Keep(a, places[n], a.left \div (Len(places) - n + 1))
             IN  [b EXCEPT !.failed = @ \/ b.chosen = a.chosen]
  IN  kept[Len(places)]

\* History has its own share of the budget: the summary first, then the
\* messages from the newest on.
History(acc, summary, working, history) ==
  LET withSummary == Fill(acc, ByScore(summary), SummaryBudget(history))
  IN  Fill(withSummary, NewestFirst(working), history - (acc.left - withSummary.left))

Select(items, budget) ==
  LET Of(kind) == {i \in items : i.kind = kind /\ ~i.required}
      required == Required([chosen |-> {}, left |-> budget, failed |-> FALSE],
                           {i \in items : i.required})
      history == Least(required.left, HistoryBudget(budget))
      withHistory == History(required, Of("summary"), Of("working"), history)
      others == {i \in items : ~i.required /\ ~IsHistory(i)}
  IN  IF budget <= 0 THEN [chosen |-> {}, left |-> 0, failed |-> FALSE]
      ELSE IF required.failed THEN required
      ELSE Fill(withHistory, ByScore(others), withHistory.left)

(***************************************************************************)
(* The compiled messages are counted again; while they exceed the budget   *)
(* the optional item with the lowest score goes.                           *)
(***************************************************************************)
CompiledTokens(base, items) ==
  LET working == {i \in items : i.kind = "working"}
  IN  base + Tokens(items) + MessageCost * Cardinality(working)
       + IF items = working THEN 0 ELSE MessageCost

Victim(items) ==
  CHOOSE i \in items :
    \A j \in items : i.score < j.score \/ (i.score = j.score /\ i.size >= j.size)

\* What remains, or the required items alone when even they do not fit.
FitCompiled(base, items) ==
  LET Optional(some) == {i \in some : ~i.required}
      fit[n \in 0..Cardinality(items)] ==
        IF n = 0 THEN items
        ELSE LET some == fit[n - 1]
             IN  IF CompiledTokens(base, some) <= TokenBudget \/ Optional(some) = {} THEN some
                 ELSE some \ {Victim(Optional(some))}
  IN  fit[Cardinality(items)]
=============================================================================
