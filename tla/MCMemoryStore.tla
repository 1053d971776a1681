--------------------------- MODULE MCMemoryStore ---------------------------
(***************************************************************************)
(* Instances of MemoryStore for TLC: two values of one fact, the fact under *)
(* another condition, one of the texts without a key, and an attachment of *)
(* one conversation.                                                       *)
(***************************************************************************)
EXTENDS MemoryStore, TLC

CONSTANTS t1, t2, c1, c2

Fact(text, value, when) ==
  [kind |-> "semantic", key |-> "name", when |-> when, text |-> text,
   value |-> value, scope |-> User]

Old == Fact("old", "x", "always")
New == Fact("new", "y", "always")
Keyless == [Fact("old", "old", "always") EXCEPT !.key = NoKey]
Abroad == Fact("new", "x", "abroad")
Scan == [Old EXCEPT !.kind = "perceptual", !.key = "scan", !.scope = c1]

MCTasks == {t1, t2}
MCConversations == {c1, c2}
MCRequests == {Old, New, Keyless, Abroad, Scan}
MCLinked == {"y"}
Symmetry == Permutations(MCTasks)
=============================================================================
