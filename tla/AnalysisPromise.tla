-------------------------- MODULE AnalysisPromise --------------------------
(***************************************************************************)
(* What an analysis promises: every task of the plan gets one outcome,     *)
(* after all it depends on have theirs; it succeeds only on successes; and *)
(* the report that ends the analysis counts them as they are.              *)
(***************************************************************************)
CONSTANT Tasks

VARIABLES
  needs,     \* the tasks each task of the accepted plan depends on
  outcome,   \* of each task
  report     \* "none", the verdict, or "aborted"

vars == <<needs, outcome, report>>

Init ==
  /\ needs = << >>
  /\ outcome = [t \in Tasks |-> "open"]
  /\ report = "none"

Verdict ==
  LET all == {outcome[t] : t \in DOMAIN needs}
  IN  CASE all = {"success"} -> "success"
        [] all = {"failed"} -> "failed"
        [] OTHER -> "partial"

Accept ==
  /\ report = "none" /\ DOMAIN needs = {}
  /\ \E S \in (SUBSET Tasks) \ {{}} : needs' \in [S -> SUBSET S]
  /\ UNCHANGED <<outcome, report>>

Decide(t) ==
  /\ report = "none" /\ t \in DOMAIN needs /\ outcome[t] = "open"
  /\ \A u \in needs[t] : outcome[u] # "open"
  /\ \/ outcome' = [outcome EXCEPT ![t] = "failed"]
     \/ /\ \A u \in needs[t] : outcome[u] = "success"
        /\ outcome' = [outcome EXCEPT ![t] = "success"]
  /\ UNCHANGED <<needs, report>>

Report ==
  /\ report = "none" /\ DOMAIN needs # {}
  /\ \A t \in DOMAIN needs : outcome[t] # "open"
  /\ report' = Verdict
  /\ UNCHANGED <<needs, outcome>>

Abort ==
  /\ report = "none"
  /\ report' = "aborted"
  /\ UNCHANGED <<needs, outcome>>

Next == Accept \/ (\E t \in Tasks : Decide(t)) \/ Report \/ Abort

Spec == Init /\ [][Next]_vars
=============================================================================
