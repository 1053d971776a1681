--------------------------- MODULE RunLifecycle ---------------------------
(***************************************************************************)
(* The life of one Harness run as its client sees it through               *)
(* /run/status and /run/resume: it runs, it may stop to ask the user a     *)
(* bounded number of times, each question is answered once and only the    *)
(* answer wakes the run up, and it ends at most once, never while a        *)
(* question is open.                                                       *)
(***************************************************************************)
EXTENDS HarnessState

CONSTANT MaxConfirmations   \* questions per run

VARIABLES status,    \* HarnessStatus of the run
          asked,     \* questions published
          answered   \* questions answered

vars == <<status, asked, answered>>

Init ==
  /\ status = "running"
  /\ asked = 0
  /\ answered = 0

Ask ==
  /\ status = "running"
  /\ asked < MaxConfirmations
  /\ status' = "waiting_confirmation"
  /\ asked' = asked + 1
  /\ UNCHANGED answered

Answer ==
  /\ status = "waiting_confirmation"
  /\ status' = "running"
  /\ answered' = answered + 1
  /\ UNCHANGED asked

End ==
  /\ status = "running"
  /\ asked = answered
  /\ status' \in TerminalStatus
  /\ UNCHANGED <<asked, answered>>

Next == Ask \/ Answer \/ End

Spec == Init /\ [][Next]_vars
=============================================================================
