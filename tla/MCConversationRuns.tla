------------------------- MODULE MCConversationRuns -------------------------
(***************************************************************************)
(* Instances of ConversationRuns for TLC.                                  *)
(***************************************************************************)
EXTENDS ConversationRuns, TLC

CONSTANTS t1, t2, a, b

MCTasks == {t1, t2}
MCRuns == {a, b}
MCOutcomes == {"completed", "failed"}

\* One bound for both: a run sees a refused reply or a deletion, not both.
FewTroubles == used.refused + used.deletes <= 1

Symmetry == Permutations(MCTasks) \cup Permutations(MCRuns)
=============================================================================
