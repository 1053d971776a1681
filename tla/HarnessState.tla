--------------------------- MODULE HarnessState ---------------------------
(***************************************************************************)
(* The control state of one Harness run and its transition rules:          *)
(* app/agent/state_result_store/state.py and contracts.py.  A control      *)
(* state is any record with the fields status, phase, intent, pending and  *)
(* version; the modules that use it add the fields they need.  intent is   *)
(* terminal_intent, pending the action_seq that names the pending          *)
(* confirmation, version is state_version.                                 *)
(***************************************************************************)
EXTENDS Naturals

NoIntent == "no_intent"
NoPending == 0          \* confirmations are named by an action_seq >= 1

TerminalStatus ==
  {"completed", "failed", "budget_exceeded", "cancelled", "timeout"}

HarnessStatus == {"running", "waiting_confirmation"} \cup TerminalStatus

Intent == TerminalStatus \cup {NoIntent}

LoopPhase ==
  {"start_run", "restore_run", "build_context", "plan", "validate_action",
   "execute_tool", "handle_tool_result", "record_observation",
   "wait_confirmation", "finalization"}

\* The pairs <<current phase, next phase>> the state machine allows.
PhaseTransitions ==
  LoopPhase \X {"finalization"} \cup
  {<<"start_run", "build_context">>,
   <<"restore_run", "build_context">>,
   <<"build_context", "build_context">>,
   <<"build_context", "plan">>,
   <<"plan", "plan">>,
   <<"plan", "validate_action">>,
   <<"validate_action", "validate_action">>,
   <<"validate_action", "execute_tool">>,
   <<"validate_action", "wait_confirmation">>,
   <<"execute_tool", "execute_tool">>,
   <<"execute_tool", "handle_tool_result">>,
   <<"handle_tool_result", "record_observation">>,
   <<"handle_tool_result", "wait_confirmation">>,
   <<"record_observation", "build_context">>,
   <<"wait_confirmation", "restore_run">>}

IsTerminal(s) == s.status \in TerminalStatus

\* validate_combination: the snapshots the schema accepts.
ValidCombination(s) ==
  /\ s.status = "waiting_confirmation" =>
       /\ s.phase = "wait_confirmation"
       /\ s.intent = NoIntent
       /\ s.pending # NoPending
  /\ IsTerminal(s) =>
       /\ s.phase = "finalization"
       /\ s.intent = s.status
       /\ s.pending = NoPending
  /\ s.status = "running" =>
       /\ s.phase # "wait_confirmation"
       /\ (s.phase = "finalization") <=> (s.intent # NoIntent)

\* terminal_intent of the candidate: the argument, or the one already there.
EffectiveIntent(s, intent) == IF intent = NoIntent THEN s.intent ELSE intent

\* The snapshot transition_harness_state builds for a run that is not terminal.
Candidate(s, status, phase, intent) ==
  [s EXCEPT !.status  = status,
            !.phase   = phase,
            !.intent  = EffectiveIntent(s, intent),
            !.version = s.version + 1,
            !.pending = IF s.status = "waiting_confirmation" /\ status = "running"
                        THEN NoPending ELSE s.pending]

\* transition_harness_state returns (it raises ValueError otherwise).
CanTransition(s, status, phase, intent) ==
  IF IsTerminal(s)
  THEN status = s.status /\ phase = "finalization"
  ELSE /\ <<s.phase, phase>> \in PhaseTransitions
       /\ status \in TerminalStatus =>
            s.phase = "finalization" /\ status = EffectiveIntent(s, intent)
       /\ ValidCombination(Candidate(s, status, phase, intent))

\* What it returns: a terminal run is returned unchanged, version included.
Transition(s, status, phase, intent) ==
  IF IsTerminal(s) THEN s ELSE Candidate(s, status, phase, intent)

\* PostgresHarnessRunStore._assert_version: the row takes the candidate.  The
\* same version is taken only with the same payload.
CanSave(row, candidate) ==
  \/ candidate.version = row.version + 1
  \/ candidate = row
=============================================================================
