--------------------------- MODULE MCContextBuild ---------------------------
(* Small token counts: a window of about two short messages.               *)
EXTENDS ContextBuild

NewItem(id, kind, n, score, attached, rank, key, body) ==
  [id |-> id, kind |-> kind, size |-> n, score |-> score, required |-> attached,
   direct |-> attached, rank |-> rank, key |-> key, body |-> body, index |-> 0]

File == NewItem(101, "asset", 23, 80, TRUE, 1, "file", "file")
Image == NewItem(102, "asset", 6, 80, TRUE, 2, "image", "image")
FileMemory == NewItem(103, "memory", 2, 60, FALSE, 4, "file", "about the file")
Fact == NewItem(104, "memory", 4, 60, FALSE, 6, "fact", "fact")
OldFact == NewItem(105, "memory", 4, 65, FALSE, 5, "fact", "old fact")
Document == NewItem(106, "memory", 2, 40, FALSE, 3, "", "fact")

MCTexts ==
  {"", "summary", "message"}
    \cup UNION {{i.key, i.body} : i \in {File, Image, FileMemory, Fact, OldFact, Document}}
MCRequests ==
  {[size |-> 1, assets |-> {}], [size |-> 9, assets |-> {}],
   [size |-> 9, assets |-> {File, Image}]}
MCRecalled == {{FileMemory, Fact, OldFact, Document}}

\* For SummaryMeetsTheWindow: builds begin once there are four messages.
TwoRequests == {[size |-> 1, assets |-> {}], [size |-> 9, assets |-> {File, Image}]}
LateBuilds == Len(messages) < 4 => build = [t \in Turns |-> NoBuild]

TurnSymmetry == Permutations(Turns)
=============================================================================
