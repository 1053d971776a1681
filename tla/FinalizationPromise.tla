------------------------ MODULE FinalizationPromise ------------------------
(***************************************************************************)
(* What closing a run promises its user, whatever fails and whoever        *)
(* drives it: one outcome is chosen for ever; the answer that appears in   *)
(* the conversation is that outcome; the run ends with it only after the   *)
(* answer is visible; the conversation is freed only after the run has     *)
(* ended; memory is formed only afterwards, and from a completed run only. *)
(***************************************************************************)
EXTENDS HarnessState

CONSTANTS Values,    \* the possible outcomes: records with status and answer
          NoValue    \* no outcome yet

VARIABLES outcome,   \* the chosen outcome, or NoValue
          published, \* what the conversation shows, or NoValue
          ended,     \* the run has a terminal status
          freed,     \* the conversation accepts another run
          learned    \* a memory formation was claimed for the turn

vars == <<outcome, published, ended, freed, learned>>

Init ==
  /\ outcome = NoValue
  /\ published = NoValue
  /\ ended = FALSE
  /\ freed = FALSE
  /\ learned = FALSE

Choose ==
  /\ outcome = NoValue
  /\ outcome' \in Values
  /\ UNCHANGED <<published, ended, freed, learned>>

Publish ==
  /\ outcome # NoValue
  /\ published = NoValue
  /\ published' = outcome
  /\ UNCHANGED <<outcome, ended, freed, learned>>

End ==
  /\ published # NoValue
  /\ ~ended
  /\ ended' = TRUE
  /\ UNCHANGED <<outcome, published, freed, learned>>

Free ==
  /\ ended
  /\ ~freed
  /\ freed' = TRUE
  /\ UNCHANGED <<outcome, published, ended, learned>>

Learn ==
  /\ freed
  /\ outcome.status = "completed"
  /\ ~learned
  /\ learned' = TRUE
  /\ UNCHANGED <<outcome, published, ended, freed>>

Next == Choose \/ Publish \/ End \/ Free \/ Learn

Spec == Init /\ [][Next]_vars
=============================================================================
