--------------------------- MODULE MemoryIdentity ---------------------------
(***************************************************************************)
(* Long-term memories and what makes two of them the same                  *)
(* (app/agent/memory/write_policy.py, postgres_memory_repository.py).      *)
(*                                                                         *)
(* A write request is a record                                             *)
(*   [kind, key, when, text, value, scope]                                 *)
(* with kind "semantic", "episodic" or "perceptual", key the fact_key, the *)
(* event_key or the pair of asset and modality (NoKey for a semantic text  *)
(* nothing was extracted from), when the conditions of a fact, and value   *)
(* what else structured data holds.  A row is a request with its life      *)
(* cycle, see NewRow.  Rows are numbered in the order they are inserted.   *)
(***************************************************************************)
EXTENDS Naturals, Sequences, FiniteSets

CONSTANTS NoKey,
          User        \* the scope of a memory every conversation sees

\* resolve_memory_write_identity: the three kinds do not share one rule.
WriteIdentity(m) ==
  IF m.kind # "semantic" THEN [type |-> m.kind, key |-> m.key]
  ELSE IF m.key # NoKey THEN [type |-> "fact", key |-> m.key, when |-> m.when]
  ELSE [type |-> "content", text |-> m.text]

\* _write_lock_identity, the key of the advisory lock of a write.
LockIdentity(m) == [scope |-> m.scope, identity |-> WriteIdentity(m)]

\* _scope_conditions, _identity_conditions and _same_type_identity.  A text
\* without a key is looked for in every semantic row, whatever its key.
Identifies(m, row) ==
  /\ row.kind = m.kind
  /\ row.scope = m.scope
  /\ IF m.key = NoKey THEN row.text = m.text
     ELSE row.key = m.key /\ (m.kind = "semantic" => row.when = m.when)

\* _same_payload: the text and all structured data.
SamePayload(m, row) ==
  /\ row.text = m.text
  /\ <<row.key, row.when, row.value>> = <<m.key, m.when, m.value>>

\* _new_memory_model.  A formation's request carries no expires_at; one is set
\* later, by update.
NewRow(m, version, prev) ==
  [kind |-> m.kind, key |-> m.key, when |-> m.when, text |-> m.text,
   value |-> m.value, scope |-> m.scope, status |-> "active",
   version |-> version, prev |-> prev, expiry |-> "never"]

\* is_memory_retrievable.
Retrievable(row) == row.status = "active" /\ row.expiry # "past"

\* The rows a write finds, and those of them with the highest version.
Found(rows, m) ==
  {i \in DOMAIN rows : Retrievable(rows[i]) /\ Identifies(m, rows[i])}

Newest(rows, ids) ==
  {i \in ids : \A j \in ids : rows[j].version <= rows[i].version}

\* A new version and the end of the one it replaces, in one transaction.
Replace(rows, m, cur) ==
  Append([rows EXCEPT ![cur].status = "superseded"],
         NewRow(m, rows[cur].version + 1, cur))

Create(rows, m) == Append(rows, NewRow(m, 1, 0))
=============================================================================
