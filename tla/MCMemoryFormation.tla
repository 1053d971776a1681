------------------------- MODULE MCMemoryFormation -------------------------
(***************************************************************************)
(* Instances of MemoryFormation for TLC: two turns that may tell the same  *)
(* or another value of one fact.                                           *)
(***************************************************************************)
EXTENDS MemoryFormation

CONSTANTS t1, t2, c1, c2

Request(key, text, value) ==
  [kind |-> "semantic", key |-> key, when |-> "always", text |-> text,
   value |-> value, scope |-> User]

Fit(request) == [request |-> request, fit |-> TRUE]

Old == Fit(Request("name", "old", "x"))
New == Fit(Request("name", "new", "y"))
Secret == [Fit(Request("pin", "1234", "1234")) EXCEPT !.fit = FALSE]

MCPlain(t) == <<Fit(Request(NoKey, "old", "old"))>>
MCAttachment(t) ==
  <<Fit([Request("scan", "text", "text") EXCEPT !.kind = "perceptual"])>>

Input(status, intent) ==
  [status |-> status, intent |-> intent, answer |-> TRUE, scan |-> intent = "remember"]

MCTurns == {t1, t2}
MCCallers == {c1, c2}
MCInputs == {Input("completed", "none"), Input("partial", "remember"),
             Input("completed", "do not"), Input("failed", "none")}
MCProposals == {<<>>, <<Old>>, <<Old, New>>, <<Secret, New>>}
=============================================================================
