--------------------------- MODULE ArtifactPromise ---------------------------
(***************************************************************************)
(* What the results of a run's tool actions promise, whatever fails and    *)
(* however often a tool is retried: an action has at most one result, for  *)
(* ever; the loop is told of each action once, and of a success only with  *)
(* the result that is stored; what the conversation finally shows is the   *)
(* result of an action that was reported as a success.                     *)
(***************************************************************************)
EXTENDS Naturals

CONSTANT Slots         \* the tool actions of a run

VARIABLES result,     \* what is stored for each action: {} or one result
          told,       \* the actions the loop knows to have succeeded or failed
          trusted,    \* those it knows to have succeeded
          published   \* what the conversation shows: {} or one result

vars == <<result, told, trusted, published>>

Init ==
  /\ result = [a \in Slots |-> {}]
  /\ told = {}
  /\ trusted = {}
  /\ published = {}

Store(a) ==
  /\ a \notin told
  /\ result[a] = {}
  /\ result'[a] # {}
  /\ result' = [result EXCEPT ![a] = result'[a]]
  /\ UNCHANGED <<told, trusted, published>>

Succeed(a) ==
  /\ a \notin told
  /\ result[a] # {}
  /\ told' = told \cup {a}
  /\ trusted' = trusted \cup {a}
  /\ UNCHANGED <<result, published>>

Fail(a) ==
  /\ a \notin told
  /\ told' = told \cup {a}
  /\ UNCHANGED <<result, trusted, published>>

Publish(a) ==
  /\ published = {}
  /\ a \in trusted
  /\ published' = result[a]
  /\ UNCHANGED <<result, told, trusted>>

Next ==
  \/ \E a \in Slots : Store(a) \/ Succeed(a) \/ Fail(a) \/ Publish(a)

Spec == Init /\ [][Next]_vars
==============================================================================
