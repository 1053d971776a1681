---------------------------- MODULE MCHarnessRun ----------------------------
(***************************************************************************)
(* Instances of HarnessRun for TLC.                                        *)
(***************************************************************************)
EXTENDS HarnessRun, TLC

CONSTANTS w1, w2, query, report, region, period

MCWorkers == {w1, w2}
MCRequests == {query, report}
MCIdempotent == {query}
MCQuestions == {region, period}
OneRequest == {query}
OneQuestion == {region}

QuestionSymmetry == Permutations(MCQuestions)
=============================================================================
