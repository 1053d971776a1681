------------------------- MODULE MemoryStore_proofs -------------------------
(***************************************************************************)
(* Proofs about MemoryStore for any requests, conversations and tasks, and *)
(* whatever the bounds are.                                                *)
(***************************************************************************)
EXTENDS MemoryStore, FiniteSetTheorems, TLAPS

(***************************************************************************)
(* Sequences of steps.                                                     *)
(***************************************************************************)

Puts == {"vector put", "graph save", "graph put", "asset", "asset unindexed"}
Deletes == {"vector delete", "graph delete"}
Marks == {"forgotten", "expired"}

Steps == [do : Puts \cup Deletes \cup Marks, id : Nat]

\* The elements of a list are its first one and the rest.
LEMMA FirstAndRest ==
  ASSUME NEW S, NEW s \in Seq(S), s # <<>>
  PROVE  /\ Head(s) \in S /\ Tail(s) \in Seq(S)
         /\ ToSet(s) = {Head(s)} \cup ToSet(Tail(s))
<1>1. Len(s) \in Nat \ {0} /\ DOMAIN s = 1..Len(s) /\ \A i \in 1..Len(s) : s[i] \in S
  OBVIOUS
<1>2. Head(s) = s[1] /\ 1 \in 1..Len(s)
  BY <1>1
<1>3. /\ Tail(s) \in Seq(S) /\ Len(Tail(s)) = Len(s) - 1
      /\ DOMAIN Tail(s) = 1..(Len(s) - 1)
      /\ \A i \in 1..(Len(s) - 1) : Tail(s)[i] = s[i + 1]
  BY <1>1
<1>4. ASSUME NEW x \in ToSet(s) PROVE x = s[1] \/ x \in ToSet(Tail(s))
  <2>1. PICK i \in 1..Len(s) : x = s[i]
    BY <1>1, <1>4 DEF ToSet
  <2>2. CASE i # 1
    <3>1. PICK j \in Int : j = i - 1
      BY <2>1
    <3>2. j \in 1..(Len(s) - 1) /\ i = j + 1
      BY <1>1, <2>1, <2>2, <3>1
    <3> QED  BY <1>3, <2>1, <3>2 DEF ToSet
  <2> QED  BY <2>1, <2>2
<1>5. ASSUME NEW x \in ToSet(Tail(s)) PROVE x \in ToSet(s)
  <2>1. PICK i \in 1..(Len(s) - 1) : x = s[i + 1]
    BY <1>3, <1>5 DEF ToSet
  <2>2. i + 1 \in 1..Len(s)
    BY <1>1, <2>1
  <2> QED  BY <1>1, <2>1, <2>2 DEF ToSet
<1>6. s[1] \in ToSet(s)
  BY <1>1, <1>2 DEF ToSet
<1> QED  BY <1>1, <1>2, <1>3, <1>4, <1>5, <1>6

\* The elements of two lists one after the other.
LEMMA Together ==
  ASSUME NEW S, NEW a \in Seq(S), NEW b \in Seq(S)
  PROVE  a \o b \in Seq(S) /\ ToSet(a \o b) = ToSet(a) \cup ToSet(b)
<1>1. /\ Len(a) \in Nat /\ DOMAIN a = 1..Len(a) /\ Len(b) \in Nat /\ DOMAIN b = 1..Len(b)
      /\ a \o b \in Seq(S) /\ DOMAIN (a \o b) = 1..(Len(a) + Len(b))
      /\ \A i \in 1..Len(a) : (a \o b)[i] = a[i]
      /\ \A i \in 1..(Len(a) + Len(b)) : i > Len(a) => (a \o b)[i] = b[i - Len(a)]
  OBVIOUS
<1>2. ASSUME NEW x \in ToSet(a \o b) PROVE x \in ToSet(a) \cup ToSet(b)
  <2>1. PICK i \in 1..(Len(a) + Len(b)) : x = (a \o b)[i]
    BY <1>1, <1>2 DEF ToSet
  <2>2. CASE i \in 1..Len(a)
    BY <1>1, <2>1, <2>2 DEF ToSet
  <2>3. CASE i > Len(a)
    <3>1. i - Len(a) \in 1..Len(b)
      BY <1>1, <2>1, <2>3
    <3> QED  BY <1>1, <2>1, <2>3, <3>1 DEF ToSet
  <2> QED  BY <1>1, <2>1, <2>2, <2>3
<1>3. ASSUME NEW x \in ToSet(a) PROVE x \in ToSet(a \o b)
  <2>1. PICK i \in 1..Len(a) : x = a[i]
    BY <1>1, <1>3 DEF ToSet
  <2>2. i \in 1..(Len(a) + Len(b))
    BY <1>1, <2>1
  <2> QED  BY <1>1, <2>1, <2>2 DEF ToSet
<1>4. ASSUME NEW x \in ToSet(b) PROVE x \in ToSet(a \o b)
  <2>1. PICK i \in 1..Len(b) : x = b[i]
    BY <1>1, <1>4 DEF ToSet
  <2>2. PICK j \in Int : j = i + Len(a)
    BY <1>1, <2>1
  <2>3. j \in 1..(Len(a) + Len(b)) /\ j > Len(a) /\ i = j - Len(a)
    BY <1>1, <2>1, <2>2
  <2>4. (a \o b)[j] = b[i]
    BY <1>1, <2>3
  <2> QED  BY <1>1, <2>1, <2>3, <2>4 DEF ToSet
<1> QED  BY <1>1, <1>2, <1>3, <1>4

\* A list of one step, and none.
LEMMA OneStep ==
  ASSUME NEW s \in Steps
  PROVE  <<s>> \in Seq(Steps) /\ ToSet(<<s>>) = {s}
BY DEF ToSet

\* A list without a step.
LEMMA NoStep == <<>> \in Seq(Steps) /\ ToSet(<<>>) = {}
BY DEF ToSet

\* A step or none, after a list.
LEMMA MaybeStep ==
  ASSUME NEW s \in Steps, NEW when \in BOOLEAN
  PROVE  LET one == IF when THEN <<s>> ELSE <<>>
         IN  one \in Seq(Steps) /\ ToSet(one) = (IF when THEN {s} ELSE {})
BY OneStep, NoStep, Zenon

\* What synchronising a write does.
LEMMA SyncStepsIs ==
  ASSUME NEW m, NEW new \in Nat, NEW old \in Nat
  PROVE  /\ SyncSteps(m, new, old) \in Seq(Steps)
         /\ \A s \in ToSet(SyncSteps(m, new, old)) :
              \/ s.do \in Puts /\ s.id = new
              \/ s.do \in Deletes /\ s.id = old /\ old # 0
         /\ Step("vector put", new) \in ToSet(SyncSteps(m, new, old))
         /\ m.kind = "semantic" /\ m.value \in Linked =>
              Step("graph put", new) \in ToSet(SyncSteps(m, new, old))
<1> DEFINE S(do, id) == [do |-> do, id |-> id]
<1>0. \A x, y \in Seq(Steps) : x \o y \in Seq(Steps) /\ ToSet(x \o y) = ToSet(x) \cup ToSet(y)
  BY Together
<1>1. PICK a, b, c, d, e :
        /\ a = IF old # 0 THEN <<S("vector delete", old)>> ELSE <<>>
        /\ b = <<S("vector put", new)>>
        /\ c = IF m.kind = "semantic" /\ old # 0 THEN <<S("graph delete", old)>> ELSE <<>>
        /\ d = IF m.kind = "semantic" /\ m.value \in Linked
               THEN <<S("graph save", new), S("graph put", new)>> ELSE <<>>
        /\ e = IF m.kind = "perceptual" THEN <<S("asset", new)>> ELSE <<>>
  OBVIOUS
<1>2. \A do \in Puts : S(do, new) \in Steps
  BY DEF Steps
<1>3. \A do \in Deletes : S(do, old) \in Steps
  BY DEF Steps
<1>4. a \in Seq(Steps) /\ ToSet(a) = IF old # 0 THEN {S("vector delete", old)} ELSE {}
  BY <1>1, <1>3, OneStep, NoStep DEF Deletes
<1>5. b \in Seq(Steps) /\ ToSet(b) = {S("vector put", new)}
  BY <1>1, <1>2, OneStep DEF Puts
<1>6. /\ c \in Seq(Steps)
      /\ ToSet(c) = IF m.kind = "semantic" /\ old # 0 THEN {S("graph delete", old)} ELSE {}
  BY <1>1, <1>3, OneStep, NoStep DEF Deletes
<1>7. /\ d \in Seq(Steps)
      /\ ToSet(d) = IF m.kind = "semantic" /\ m.value \in Linked
                    THEN {S("graph save", new), S("graph put", new)} ELSE {}
  <2>1. S("graph save", new) \in Steps /\ S("graph put", new) \in Steps
    BY <1>2 DEF Puts
  <2>2. \A x, y \in Steps : <<x, y>> \in Seq(Steps) /\ ToSet(<<x, y>>) = {x, y}
    BY DEF ToSet
  <2> QED  BY <1>1, <2>1, <2>2, NoStep
<1>8. e \in Seq(Steps) /\ ToSet(e) = IF m.kind = "perceptual" THEN {S("asset", new)} ELSE {}
  BY <1>1, <1>2, OneStep, NoStep DEF Puts
<1>9. SyncSteps(m, new, old) = a \o b \o c \o d \o e
  BY <1>1 DEF SyncSteps, Step
<1>10. PICK ab : ab = a \o b
  OBVIOUS
<1>11. ab \in Seq(Steps) /\ ToSet(ab) = ToSet(a) \cup ToSet(b)
  BY <1>0, <1>4, <1>5, <1>10, Zenon
<1>12. PICK abc : abc = ab \o c
  OBVIOUS
<1>13. abc \in Seq(Steps) /\ ToSet(abc) = ToSet(ab) \cup ToSet(c)
  BY <1>0, <1>6, <1>11, <1>12, Zenon
<1>14. PICK abcd : abcd = abc \o d
  OBVIOUS
<1>15. abcd \in Seq(Steps) /\ ToSet(abcd) = ToSet(abc) \cup ToSet(d)
  BY <1>0, <1>7, <1>13, <1>14, Zenon
<1>16. PICK all : all = abcd \o e
  OBVIOUS
<1>17. all \in Seq(Steps) /\ ToSet(all) = ToSet(abcd) \cup ToSet(e)
  BY <1>0, <1>8, <1>15, <1>16, Zenon
<1>18. SyncSteps(m, new, old) = all
  BY <1>9, <1>10, <1>12, <1>14, <1>16
<1>19. ToSet(all) = ToSet(a) \cup ToSet(b) \cup ToSet(c) \cup ToSet(d) \cup ToSet(e)
  BY <1>11, <1>13, <1>15, <1>17
<1>20. /\ \A s \in ToSet(a) \cup ToSet(c) : s.do \in Deletes /\ s.id = old /\ old # 0
       /\ \A s \in ToSet(b) \cup ToSet(d) \cup ToSet(e) : s.do \in Puts /\ s.id = new
  <2>1. \A s \in ToSet(a) : old # 0 /\ s = S("vector delete", old)
    BY <1>4
  <2>2. \A s \in ToSet(c) : old # 0 /\ s = S("graph delete", old)
    BY <1>6
  <2>3. \A s \in ToSet(b) : s = S("vector put", new)
    BY <1>5
  <2>4. \A s \in ToSet(d) : s = S("graph save", new) \/ s = S("graph put", new)
    BY <1>7
  <2>5. \A s \in ToSet(e) : s = S("asset", new)
    BY <1>8
  <2>6. S("vector delete", old).do \in Deletes /\ S("graph delete", old).do \in Deletes
    BY DEF Deletes
  <2>7. /\ S("vector put", new).do \in Puts /\ S("graph save", new).do \in Puts
        /\ S("graph put", new).do \in Puts /\ S("asset", new).do \in Puts
    BY DEF Puts
  <2>8. \A do : S(do, old).id = old /\ S(do, new).id = new
    OBVIOUS
  <2> HIDE DEF S
  <2>9. \A s \in ToSet(a) \cup ToSet(c) : s.do \in Deletes /\ s.id = old /\ old # 0
    BY <2>1, <2>2, <2>6, <2>8, Zenon
  <2>10. \A s \in ToSet(b) \cup ToSet(d) \cup ToSet(e) : s.do \in Puts /\ s.id = new
    BY <2>3, <2>4, <2>5, <2>7, <2>8, Zenon
  <2> QED  BY <2>9, <2>10
<1>21. \A s \in ToSet(all) : \/ s.do \in Puts /\ s.id = new
                             \/ s.do \in Deletes /\ s.id = old /\ old # 0
  BY <1>19, <1>20, Zenon
<1>22. /\ Step("vector put", new) \in ToSet(all)
       /\ m.kind = "semantic" /\ m.value \in Linked => Step("graph put", new) \in ToSet(all)
  BY <1>5, <1>7, <1>19 DEF Step
<1> QED  BY <1>17, <1>18, <1>21, <1>22, Zenon

(***************************************************************************)
(* The rows.                                                               *)
(***************************************************************************)

\* The rows are numbered from one.
LEMMA IdsAre ==
  ASSUME rows \in Seq(Row)
  PROVE  /\ Ids = 1..Len(rows) /\ Ids \subseteq Nat /\ 0 \notin Ids
         /\ \A id \in Ids : rows[id] \in Row
BY DEF Ids

\* What never changes of a row.
SameFact(a, b) ==
  /\ a.kind = b.kind /\ a.key = b.key /\ a.when = b.when /\ a.text = b.text
  /\ a.value = b.value /\ a.scope = b.scope /\ a.version = b.version /\ a.prev = b.prev

\* A row that was written for a request.
LEMMA NewRowIs ==
  ASSUME NEW m \in Request, NEW version \in Nat, NEW prev \in Nat,
         NEW row, row = NewRow(m, version, prev)
  PROVE  /\ row \in Row /\ row.version = version /\ row.prev = prev
         /\ row.status = "active" /\ row.expiry = "never"
         /\ row.kind = m.kind /\ row.key = m.key /\ row.when = m.when /\ row.text = m.text
         /\ row.value = m.value /\ row.scope = m.scope
BY DEF Request, Row, NewRow

\* Rows with the same fact have the same identity.
LEMMA SameIdentity ==
  ASSUME NEW a, NEW b, SameFact(a, b)
  PROVE  LockIdentity(a) = LockIdentity(b) /\ \A m : Identifies(m, a) <=> Identifies(m, b)
BY DEF SameFact, LockIdentity, WriteIdentity, Identifies

\* A row whose status or expiry changes.
LEMMA StatusIs ==
  ASSUME NEW r \in Row, NEW status \in {"superseded", "forgotten", "expired"}
  PROVE  LET new == [r EXCEPT !.status = status]
         IN  new \in Row /\ SameFact(r, new) /\ new.status = status /\ new.expiry = r.expiry
<1>1. PICK new : new = [r EXCEPT !.status = status]
  OBVIOUS
<1>2. new \in Row
  BY <1>1 DEF Row
<1>3. SameFact(r, new) /\ new.status = status /\ new.expiry = r.expiry
  BY <1>1 DEF Row, SameFact
<1> QED  BY <1>1, <1>2, <1>3

\* A row of which the expiry is moved, or has passed.
LEMMA ExpiryIs ==
  ASSUME NEW r \in Row, NEW expiry \in {"later", "past"}
  PROVE  LET new == [r EXCEPT !.expiry = expiry]
         IN  new \in Row /\ SameFact(r, new) /\ new.status = r.status /\ new.expiry = expiry
<1>1. PICK new : new = [r EXCEPT !.expiry = expiry]
  OBVIOUS
<1>2. new \in Row
  BY <1>1 DEF Row
<1>3. SameFact(r, new) /\ new.status = r.status /\ new.expiry = expiry
  BY <1>1 DEF Row, SameFact
<1> QED  BY <1>1, <1>2, <1>3

\* Rows of which one changes.
LEMMA ChangeIs ==
  ASSUME NEW old \in Seq(Row), NEW id \in DOMAIN old, NEW new \in Row
  PROVE  LET r == [old EXCEPT ![id] = new]
         IN  /\ r \in Seq(Row) /\ Len(r) = Len(old) /\ DOMAIN r = DOMAIN old
             /\ r[id] = new /\ \A i \in DOMAIN old \ {id} : r[i] = old[i]
OBVIOUS

\* Rows to which one is appended.
LEMMA GrowIs ==
  ASSUME NEW old \in Seq(Row), NEW new \in Row
  PROVE  LET r == Append(old, new)
         IN  /\ r \in Seq(Row) /\ Len(r) = Len(old) + 1
             /\ DOMAIN r = DOMAIN old \cup {Len(r)} /\ Len(r) \notin DOMAIN old
             /\ r[Len(r)] = new /\ \A i \in DOMAIN old : r[i] = old[i]
<1>1. /\ DOMAIN old = 1..Len(old) /\ Len(old) \in Nat
  OBVIOUS
<1>2. PICK r : r = Append(old, new)
  OBVIOUS
<1>3. /\ r \in Seq(Row) /\ Len(r) = Len(old) + 1 /\ DOMAIN r = 1..(Len(old) + 1)
      /\ r[Len(old) + 1] = new /\ \A i \in 1..Len(old) : r[i] = old[i]
  BY <1>2
<1>4. 1..(Len(old) + 1) = 1..Len(old) \cup {Len(old) + 1}
  BY <1>1
<1> QED  BY <1>1, <1>2, <1>3, <1>4

\* What a write makes of the rows: all of them as they were, or a new one for the request,
\* and of the one it replaces only the status is another.
IsWritten(new, m, old) ==
  /\ new \in Seq(Row) /\ Len(new) \notin Ids
  /\ DOMAIN new = Ids \cup {Len(new)}
  /\ SameFact(new[Len(new)], NewRow(m, IF old = 0 THEN 1 ELSE rows[old].version + 1, old))
  /\ new[Len(new)].status = "active" /\ new[Len(new)].expiry = "never"
  /\ \A i \in Ids \ {old} : new[i] = rows[i]
  /\ old # 0 =>
       /\ old \in Ids /\ new[old].status = "superseded"
       /\ SameFact(rows[old], new[old]) /\ new[old].expiry = rows[old].expiry

\* A write leaves the rows alone, or adds a version to one it has locked or to none.
LEMMA OutcomeIs ==
  ASSUME rows \in Seq(Row), NEW m \in Request, NEW ids, ids \subseteq Ids,
         NEW out \in Outcomes(m, ids)
  PROVE  \/ out.rows = rows
         \/ /\ IsWritten(out.rows, m, out.old)
            /\ out.old \in ids \/ (ids = {} /\ out.old = 0)
<1>1. CASE ids = {}
  <2>1. out.rows = Append(rows, NewRow(m, 1, 0)) /\ out.old = 0
    BY <1>1 DEF Outcomes, Create
  <2>2. PICK row : row = NewRow(m, 1, 0)
    OBVIOUS
  <2>3. row \in Row /\ row.status = "active" /\ row.expiry = "never"
    BY <2>2, NewRowIs
  <2>4. SameFact(row, row)
    BY DEF SameFact
  <2>5. PICK new : new = out.rows
    OBVIOUS
  <2>6. new = Append(rows, row)
    BY <2>1, <2>2, <2>5
  <2>7. /\ new \in Seq(Row) /\ DOMAIN new = Ids \cup {Len(new)} /\ Len(new) \notin Ids
        /\ new[Len(new)] = row /\ \A i \in Ids : new[i] = rows[i]
    BY <2>3, <2>6, GrowIs DEF Ids
  <2>8. IsWritten(new, m, 0)
    BY <2>2, <2>3, <2>4, <2>7, IdsAre DEF IsWritten
  <2> QED  BY <1>1, <2>1, <2>5, <2>8
<1>2. CASE ids # {}
  <2>1. PICK cur \in Newest(rows, ids) :
          out = IF SamePayload(m, rows[cur]) THEN [rows |-> rows, old |-> 0]
                ELSE [rows |-> Replace(rows, m, cur), old |-> cur]
    BY <1>2 DEF Outcomes
  <2>2. CASE SamePayload(m, rows[cur])
    BY <2>1, <2>2
  <2>3. CASE ~SamePayload(m, rows[cur])
    <3>1. out.rows = Replace(rows, m, cur) /\ out.old = cur /\ cur \in ids /\ cur \in Ids
      BY <2>1, <2>3 DEF Newest
    <3>2. cur \in Nat /\ cur # 0 /\ rows[cur] \in Row
      BY <3>1, IdsAre
    <3>3. PICK was : was = [rows[cur] EXCEPT !.status = "superseded"]
      OBVIOUS
    <3>4. /\ was \in Row /\ SameFact(rows[cur], was) /\ was.status = "superseded"
          /\ was.expiry = rows[cur].expiry
      BY <3>2, <3>3, StatusIs
    <3>5. PICK mid : mid = [rows EXCEPT ![cur] = was]
      OBVIOUS
    <3>6. /\ mid \in Seq(Row) /\ DOMAIN mid = Ids /\ mid[cur] = was /\ Len(mid) = Len(rows)
          /\ \A i \in Ids \ {cur} : mid[i] = rows[i]
      <4>1. LET r == [rows EXCEPT ![cur] = was]
            IN  /\ r \in Seq(Row) /\ Len(r) = Len(rows) /\ DOMAIN r = DOMAIN rows
                /\ r[cur] = was /\ \A i \in DOMAIN rows \ {cur} : r[i] = rows[i]
        BY <3>1, <3>4, ChangeIs, Zenon DEF Ids
      <4> QED  BY <3>5, <4>1, Zenon DEF Ids
    <3>7. PICK row : row = NewRow(m, rows[cur].version + 1, cur)
      OBVIOUS
    <3>8. rows[cur].version + 1 \in Nat
      BY <3>2 DEF Row
    <3>9. row \in Row /\ row.status = "active" /\ row.expiry = "never"
      BY <3>2, <3>7, <3>8, NewRowIs
    <3>10. SameFact(row, row)
      BY DEF SameFact
    <3>11. out.rows = Append(mid, row)
      BY <3>1, <3>3, <3>5, <3>7 DEF Replace
    <3>12. PICK new : new = out.rows
      OBVIOUS
    <3>13. /\ new \in Seq(Row) /\ DOMAIN new = Ids \cup {Len(new)} /\ Len(new) \notin Ids
           /\ new[Len(new)] = row /\ \A i \in Ids : new[i] = mid[i]
      BY <3>6, <3>9, <3>11, <3>12, GrowIs
    <3>14. /\ new[cur] = was /\ \A i \in Ids \ {cur} : new[i] = rows[i]
      BY <3>1, <3>6, <3>13
    <3>15. IsWritten(new, m, cur)
      BY <3>1, <3>2, <3>4, <3>7, <3>9, <3>10, <3>13, <3>14 DEF IsWritten
    <3> QED  BY <3>1, <3>12, <3>15
  <2> QED  BY <2>2, <2>3
<1> QED  BY <1>1, <1>2

(***************************************************************************)
(* The tasks.                                                              *)
(***************************************************************************)

Writer(k) ==
  /\ DOMAIN k = {"pc", "req", "held"} /\ k.pc \in {"select", "wait", "commit"}
  /\ k.req \in Request

Syncer(k) ==
  /\ DOMAIN k = {"pc", "todo"} /\ k.pc = "sync"
  /\ k.todo \in Seq(Steps) /\ k.todo # <<>>

Reader(k) ==
  /\ DOMAIN k = {"pc", "kind", "conv", "reads", "hits", "found", "hidden"}
  /\ k.pc = "recall"

TaskOK(k) == k = Idle \/ Writer(k) \/ Syncer(k) \/ Reader(k)

TypeInv ==
  /\ rows \in Seq(Row)
  /\ DOMAIN task = Tasks /\ \A t \in Tasks : TaskOK(task[t])
  /\ \A t \in Tasks : InTransaction(t) => task[t].held \subseteq Ids

\* A task does something for which it needs no lock of rows.
Quiet(t, k) ==
  /\ task' = [task EXCEPT ![t] = k]
  /\ TaskOK(k) /\ k.pc \notin {"wait", "commit"}

\* Which kind of task it is shows where it is.
LEMMA TaskIs ==
  ASSUME NEW k, TaskOK(k)
  PROVE  /\ k.pc = "idle" => k = Idle
         /\ k.pc \in {"select", "wait", "commit"} => Writer(k)
         /\ k.pc = "sync" => Syncer(k)
         /\ k.pc = "recall" => Reader(k)
         /\ k.pc \in {"idle", "select", "wait", "commit", "sync", "recall"}
BY DEF TaskOK, Writer, Syncer, Reader, Idle

\* A task goes on with a list, or has nothing more to do.
LEMMA SyncingIs ==
  ASSUME NEW todo \in Seq(Steps)
  PROVE  /\ TaskOK(Syncing(todo)) /\ Syncing(todo).pc \notin {"wait", "commit"}
         /\ todo = <<>> => Syncing(todo).pc = "idle"
         /\ todo # <<>> => Syncing(todo).pc = "sync" /\ Syncing(todo).todo = todo
<1>1. CASE todo = <<>>
  BY <1>1 DEF Syncing, TaskOK, Idle
<1>2. CASE todo # <<>>
  <2>1. PICK k : k = [pc |-> "sync", todo |-> todo]
    OBVIOUS
  <2>2. DOMAIN k = {"pc", "todo"} /\ k.pc = "sync" /\ k.todo = todo
    BY <2>1
  <2>3. Syncing(todo) = k
    BY <1>2, <2>1 DEF Syncing
  <2> QED  BY <1>2, <2>2, <2>3 DEF TaskOK, Syncer
<1> QED  BY <1>1, <1>2

\* The next step of a task and what comes after it.
LEMMA NextStepIs ==
  ASSUME TypeInv, NEW t \in Tasks, At(t, "sync")
  PROVE  /\ Syncer(task[t])
         /\ Head(task[t].todo) \in Steps /\ Tail(task[t].todo) \in Seq(Steps)
         /\ ToSet(task[t].todo) = {Head(task[t].todo)} \cup ToSet(Tail(task[t].todo))
<1>1. Syncer(task[t])
  BY TaskIs DEF TypeInv, At
<1> QED  BY <1>1, FirstAndRest DEF Syncer

\* A step that was done is taken off the list.
LEMMA PopIs ==
  ASSUME TypeInv, NEW t \in Tasks, At(t, "sync"), Pop(t)
  PROVE  Quiet(t, Syncing(Tail(task[t].todo)))
<1>1. Tail(task[t].todo) \in Seq(Steps)
  BY NextStepIs
<1>2. task' = [task EXCEPT ![t] = Syncing(Tail(task[t].todo))]
  BY DEF Pop
<1> QED  BY <1>1, <1>2, SyncingIs DEF Quiet

\* The task of an operation that begins: it has rows to mark, or has found nothing yet.
Begins(t, k) ==
  /\ Start(t, k) /\ TaskOK(k) /\ k.pc \notin {"idle", "wait", "commit"}
  /\ k.pc = "sync" => \A s \in ToSet(k.todo) : s.do \in Marks /\ s.id \in Ids
  /\ k.pc = "recall" =>
       /\ k.found = {} /\ k.hidden \subseteq Ids
       /\ \A id \in k.hidden : ~Visible(id, k)

\* The operations that begin: what each of them gives its task.
LEMMA StartIs ==
  ASSUME TypeInv, NEW t \in Tasks,
         \/ \E m \in Requests : StartWrite(t, m)
         \/ \E id \in Ids : StartForget(t, id)
         \/ StartExpire(t)
         \/ \E kind, conv : StartRecall(t, kind, conv)
  PROVE  \E k : Begins(t, k)
<1>1. CASE \E m \in Requests : StartWrite(t, m)
  <2>0. PICK m \in Requests : StartWrite(t, m)
    BY <1>1
  <2>1. PICK k : k = [pc |-> "select", req |-> m, held |-> {}] /\ Start(t, k)
    BY <2>0 DEF StartWrite
  <2>2. DOMAIN k = {"pc", "req", "held"} /\ k.pc = "select" /\ k.req = m
    BY <2>1
  <2>3. TaskOK(k)
    BY <2>2, RequestsAssumption DEF TaskOK, Writer
  <2> QED  BY <2>1, <2>2, <2>3 DEF Begins
<1>2. CASE \E id \in Ids : StartForget(t, id)
  <2>0. PICK id \in Ids : StartForget(t, id)
    BY <1>2
  <2>1. PICK k : k = [pc |-> "sync", todo |-> <<Step("forgotten", id)>>] /\ Start(t, k)
    BY <2>0 DEF StartForget
  <2>2. Step("forgotten", id) \in Steps
    BY IdsAre DEF TypeInv, Step, Steps, Marks
  <2>3. <<Step("forgotten", id)>> \in Seq(Steps) /\ <<Step("forgotten", id)>> # <<>>
    BY <2>2
  <2>4. DOMAIN k = {"pc", "todo"} /\ k.pc = "sync" /\ k.todo = <<Step("forgotten", id)>>
    BY <2>1
  <2>5. TaskOK(k)
    BY <2>3, <2>4 DEF TaskOK, Syncer
  <2>6. \A s \in ToSet(k.todo) : s.do \in Marks /\ s.id \in Ids
    <3>1. ToSet(k.todo) = {Step("forgotten", id)}
      BY <2>4 DEF ToSet
    <3>2. Step("forgotten", id).do \in Marks /\ Step("forgotten", id).id = id
      BY DEF Step, Marks
    <3> QED  BY <3>1, <3>2
  <2> QED  BY <2>1, <2>4, <2>5, <2>6 DEF Begins
<1>3. CASE StartExpire(t)
  <2>1. PICK due : due = {id \in Ids : rows[id].status = "active" /\ rows[id].expiry = "past"}
    OBVIOUS
  <2>2. PICK order \in SetToSeqs(due) :
          /\ due # {}
          /\ Start(t, [pc |-> "sync",
                       todo |-> [i \in DOMAIN order |-> Step("expired", order[i])]])
    BY <1>3, <2>1 DEF StartExpire
  <2>3. due \subseteq Ids /\ IsFiniteSet(due)
    <3>1. Len(rows) \in Nat /\ Ids = 1..Len(rows)
      BY IdsAre DEF TypeInv
    <3>2. IsFiniteSet(1..Len(rows))
      BY <3>1, FS_Interval
    <3>3. due \subseteq 1..Len(rows)
      BY <2>1, <3>1
    <3> QED  BY <3>1, <3>2, <3>3, FS_Subset
  <2>4. Cardinality(due) \in Nat /\ Cardinality(due) # 0
    BY <2>2, <2>3, FS_CardinalityType, FS_EmptySet
  <2>5. order \in [1..Cardinality(due) -> due]
    BY <2>2 DEF SetToSeqs
  <2>6. PICK todo, k : /\ todo = [i \in DOMAIN order |-> Step("expired", order[i])]
                       /\ k = [pc |-> "sync", todo |-> todo]
    OBVIOUS
  <2>7. \A id \in Ids : Step("expired", id) \in Steps
    BY IdsAre DEF TypeInv, Step, Steps, Marks
  <2>8. todo \in [1..Cardinality(due) -> Steps]
    BY <2>3, <2>5, <2>6, <2>7
  <2>9. todo \in Seq(Steps) /\ todo # <<>>
    BY <2>4, <2>8
  <2>10. DOMAIN k = {"pc", "todo"} /\ k.pc = "sync" /\ k.todo = todo
    BY <2>6
  <2>11. TaskOK(k)
    BY <2>9, <2>10 DEF TaskOK, Syncer
  <2>12. \A s \in ToSet(todo) : s.do \in Marks /\ s.id \in Ids
    <3>1. ASSUME NEW i \in DOMAIN todo PROVE todo[i].do \in Marks /\ todo[i].id \in Ids
      <4>1. order[i] \in Ids /\ todo[i] = Step("expired", order[i])
        BY <2>3, <2>5, <2>6
      <4>2. Step("expired", order[i]).do \in Marks /\ Step("expired", order[i]).id = order[i]
        BY DEF Step, Marks
      <4> QED  BY <4>1, <4>2
    <3> QED  BY <3>1 DEF ToSet
  <2>13. Start(t, k)
    BY <2>2, <2>6
  <2> QED  BY <2>10, <2>11, <2>12, <2>13 DEF Begins
<1>4. CASE \E kind, conv : StartRecall(t, kind, conv)
  <2>0. PICK kind, conv : StartRecall(t, kind, conv)
    BY <1>4
  <2>1. PICK k :
          /\ k = [pc |-> "recall", kind |-> kind, conv |-> conv,
                  reads |-> {"lexical", "vector", "graph"}, hits |-> {}, found |-> {},
                  hidden |-> {id \in Ids : ~Visible(id, [kind |-> kind, conv |-> conv])}]
          /\ Start(t, k)
    BY <2>0 DEF StartRecall
  <2>2. /\ DOMAIN k = {"pc", "kind", "conv", "reads", "hits", "found", "hidden"}
        /\ k.pc = "recall" /\ k.kind = kind /\ k.conv = conv /\ k.found = {}
        /\ k.hidden = {id \in Ids : ~Visible(id, [kind |-> kind, conv |-> conv])}
    BY <2>1
  <2>3. TaskOK(k)
    BY <2>2 DEF TaskOK, Reader
  <2>4. \A id : Visible(id, [kind |-> kind, conv |-> conv]) <=> Visible(id, k)
    BY <2>2 DEF Visible
  <2> QED  BY <2>1, <2>2, <2>3, <2>4 DEF Begins
<1> QED  BY <1>1, <1>2, <1>3, <1>4

(***************************************************************************)
(* The steps, by what they do to the rows.                                 *)
(***************************************************************************)

\* Rows and locks stay as they are.
Stays ==
  /\ UNCHANGED <<rows, revived>>
  /\ task' = task \/ \E t \in Tasks : \E k : Quiet(t, k)

\* A write is committed.
Commits(t) ==
  /\ At(t, "commit") /\ revived' = revived
  /\ \E k : Quiet(t, k)
  /\ \E old : /\ IsWritten(rows', task[t].req, old)
              /\ old \in task[t].held \/ (task[t].held = {} /\ old = 0)

\* A row is forgotten or expired.
MarksRow(t, id) ==
  /\ At(t, "sync") /\ revived' = revived
  /\ \E k : Quiet(t, k)
  /\ id \in Ids /\ id \notin Locked(t)
  /\ \E status \in Marks : rows' = [rows EXCEPT ![id].status = status]

\* A commit, also one that nobody learns of.
LEMMA CommitIs ==
  ASSUME TypeInv, NEW t \in Tasks, Commit(t) \/ WriteIsLost(t)
  PROVE  Stays \/ Commits(t)
<1>1. ASSUME NEW k, task' = [task EXCEPT ![t] = k], TaskOK(k), k.pc \notin {"wait", "commit"},
             revived' = revived, At(t, "commit"),
             NEW out \in Outcomes(task[t].req, task[t].held), rows' = out.rows
      PROVE  Stays \/ Commits(t)
  <2>1. Quiet(t, k)
    BY <1>1 DEF Quiet
  <2>2. task[t].req \in Request /\ task[t].held \subseteq Ids
    BY <1>1, TaskIs DEF TypeInv, At, Writer, InTransaction
  <2>3. PICK m, ids : m = task[t].req /\ ids = task[t].held
    OBVIOUS
  <2>4. \/ out.rows = rows
        \/ IsWritten(out.rows, m, out.old) /\ (out.old \in ids \/ (ids = {} /\ out.old = 0))
    <3>1. m \in Request /\ ids \subseteq Ids /\ out \in Outcomes(m, ids) /\ rows \in Seq(Row)
      BY <1>1, <2>2, <2>3 DEF TypeInv
    <3> QED  BY <3>1, OutcomeIs, Zenon
  <2>5. CASE out.rows = rows
    BY <1>1, <2>1, <2>5 DEF Stays
  <2>6. CASE IsWritten(out.rows, m, out.old) /\ (out.old \in ids \/ (ids = {} /\ out.old = 0))
    <3>1. IsWritten(rows', task[t].req, out.old)
      BY <1>1, <2>3, <2>6
    <3> QED  BY <1>1, <2>1, <2>3, <2>6, <3>1 DEF Commits
  <2> QED  BY <2>4, <2>5, <2>6
<1>2. TaskOK(Idle) /\ Idle.pc \notin {"wait", "commit"}
  BY DEF TaskOK, Idle
<1>3. CASE Commit(t)
  <2>1. PICK out \in Outcomes(task[t].req, task[t].held) :
          /\ At(t, "commit") /\ Written(out) /\ revived' = revived
          /\ task' = [task EXCEPT ![t] = Syncing(Todo(task[t].req, out))]
    BY <1>3 DEF Commit
  <2>2. Todo(task[t].req, out) \in Seq(Steps)
    <3>1. task[t].req \in Request /\ task[t].held \subseteq Ids
      BY <2>1, TaskIs DEF TypeInv, At, Writer, InTransaction
    <3>2. out.rows = rows \/ (Len(out.rows) \in Nat /\ out.old \in Nat)
      BY <3>1, OutcomeIs, IdsAre DEF TypeInv, IsWritten
    <3> QED  BY <3>2, NoStep, SyncStepsIs DEF Todo
  <2> QED  BY <1>1, <2>1, <2>2, SyncingIs DEF Written
<1>4. CASE WriteIsLost(t)
  <2>1. task' = [task EXCEPT ![t] = Idle] /\ revived' = revived
    BY <1>4 DEF WriteIsLost
  <2>2. CASE UNCHANGED <<rows, saved, dropped>>
    BY <1>2, <2>1, <2>2 DEF Stays, Quiet
  <2>3. ASSUME At(t, "commit"), NEW out \in Outcomes(task[t].req, task[t].held), Written(out)
        PROVE  Stays \/ Commits(t)
    BY <1>1, <1>2, <2>1, <2>3 DEF Written
  <2> QED  BY <1>4, <2>2, <2>3 DEF WriteIsLost
<1> QED  BY <1>3, <1>4

\* Marking a row puts its removal from the indexes before what was left to do.
LEMMA MarkIs ==
  ASSUME TypeInv, NEW t \in Tasks, Mark(t)
  PROVE  /\ Stays \/ \E id : MarksRow(t, id)
         /\ \E k : /\ Quiet(t, k) /\ Syncer(k)
                   /\ \A s \in ToSet(k.todo) :
                        \/ s.do \in Deletes /\ s.id = Target(t)
                        \/ s \in ToSet(Tail(task[t].todo))
                   /\ ToSet(Tail(task[t].todo)) \subseteq ToSet(k.todo)
<1>1. At(t, "sync") /\ Head(task[t].todo).do \in Marks /\ Target(t) \notin Locked(t)
  BY DEF Mark, Does, Marks
<1>2. /\ Syncer(task[t]) /\ Head(task[t].todo) \in Steps /\ Tail(task[t].todo) \in Seq(Steps)
  BY <1>1, NextStepIs
<1>3. PICK id : id = Target(t)
  OBVIOUS
<1>4. id \in Nat
  BY <1>2, <1>3 DEF Target, Steps
<1>5. PICK a, b : /\ a = <<Step("vector delete", id)>>
                  /\ b = IF rows[id].kind = "semantic" THEN <<Step("graph delete", id)>> ELSE <<>>
  OBVIOUS
<1>6. Step("vector delete", id) \in Steps /\ Step("graph delete", id) \in Steps
  BY <1>4 DEF Step, Steps, Deletes
<1>7. a \in Seq(Steps) /\ ToSet(a) = {Step("vector delete", id)}
  BY <1>5, <1>6, OneStep, Zenon
<1>8. b \in Seq(Steps) /\ ToSet(b) \subseteq {Step("graph delete", id)}
  BY <1>5, <1>6, OneStep, NoStep
<1>9. \A x, y \in Seq(Steps) : x \o y \in Seq(Steps) /\ ToSet(x \o y) = ToSet(x) \cup ToSet(y)
  BY Together
<1>10. PICK ab, todo : ab = a \o b /\ todo = ab \o Tail(task[t].todo)
  OBVIOUS
<1>11. ab \in Seq(Steps) /\ ToSet(ab) = ToSet(a) \cup ToSet(b)
  BY <1>7, <1>8, <1>9, <1>10, Zenon
<1>12. todo \in Seq(Steps) /\ ToSet(todo) = ToSet(ab) \cup ToSet(Tail(task[t].todo))
  BY <1>2, <1>9, <1>10, <1>11, Zenon
<1>13. todo # <<>>
  <2>1. ToSet(todo) # ToSet(<<>>)
    BY <1>7, <1>11, <1>12, NoStep
  <2> QED  BY <2>1
<1>14. PICK k : k = [task[t] EXCEPT !.todo = todo]
  OBVIOUS
<1>15. DOMAIN k = {"pc", "todo"} /\ k.pc = "sync" /\ k.todo = todo
  BY <1>2, <1>14 DEF Syncer
<1>16. Unindex(id) = ab
  BY <1>5, <1>10 DEF Unindex
<1>17. task' = [task EXCEPT ![t] = k]
  <2>1. task' = [task EXCEPT ![t].todo = Unindex(Target(t)) \o Tail(@)]
    BY DEF Mark
  <2> QED  BY <1>3, <1>10, <1>14, <1>16, <2>1
<1>18. Syncer(k) /\ Quiet(t, k)
  BY <1>12, <1>13, <1>15, <1>17 DEF Syncer, Quiet, TaskOK
<1>19. /\ Step("vector delete", id).do \in Deletes /\ Step("vector delete", id).id = id
       /\ Step("graph delete", id).do \in Deletes /\ Step("graph delete", id).id = id
  BY DEF Step, Deletes
<1>20. \A s \in ToSet(k.todo) : (s.do \in Deletes /\ s.id = id) \/ s \in ToSet(Tail(task[t].todo))
  BY <1>7, <1>8, <1>11, <1>12, <1>15, <1>19, Zenon
<1>21. ToSet(Tail(task[t].todo)) \subseteq ToSet(k.todo)
  BY <1>12, <1>15
<1>22. Stays \/ MarksRow(t, id)
  <2>1. rows' = [rows EXCEPT ![id].status = Head(task[t].todo).do] /\ revived' = revived
    BY <1>3 DEF Mark
  <2>2. CASE id \in Ids
    BY <1>1, <1>3, <1>18, <2>1, <2>2 DEF MarksRow
  <2>3. CASE id \notin Ids
    <3>1. rows' = rows
      BY <2>1, <2>3 DEF Ids, TypeInv
    <3> QED  BY <1>18, <2>1, <3>1 DEF Stays
  <2> QED  BY <2>2, <2>3
<1> QED  BY <1>3, <1>18, <1>20, <1>21, <1>22

\* After a failing index the rest is tried; an asset learns that its text is not indexed.
LEMMA SyncFailsIs ==
  ASSUME TypeInv, NEW t \in Tasks, SyncFails(t)
  PROVE  \E todo \in Seq(Steps) :
           /\ Quiet(t, Syncing(todo))
           /\ \A s \in ToSet(todo) : s \in ToSet(Tail(task[t].todo)) \/ s.do = "asset unindexed"
           /\ \A s \in ToSet(todo) : s.id \in {r.id : r \in ToSet(Tail(task[t].todo))}
           /\ \A s \in ToSet(Tail(task[t].todo)) : s.do # "asset" => s \in ToSet(todo)
<1>1. At(t, "sync")
  BY DEF SyncFails, Does
<1>2. PICK rest, id, what : /\ rest = Tail(task[t].todo) /\ id = Target(t)
                            /\ what = Head(task[t].todo).do
  OBVIOUS
<1>3. rest \in Seq(Steps) /\ id \in Nat
  BY <1>1, <1>2, NextStepIs DEF Target, Steps
<1>4. PICK todo : todo = [i \in DOMAIN rest |->
                 IF rest[i] = Step("asset", id) /\ what = "vector put"
                 THEN Step("asset unindexed", id) ELSE rest[i]]
  OBVIOUS
<1>5. task' = [task EXCEPT ![t] = Syncing(todo)]
  BY <1>2, <1>4 DEF SyncFails
<1>6. Step("asset unindexed", id) \in Steps
  BY <1>3 DEF Step, Steps, Puts
<1>7. /\ DOMAIN rest = 1..Len(rest) /\ Len(rest) \in Nat
      /\ \A i \in DOMAIN rest : rest[i] \in Steps
  BY <1>3
<1>8. \A i \in DOMAIN rest : todo[i] \in Steps
  BY <1>4, <1>6, <1>7
<1>9. todo \in Seq(Steps) /\ DOMAIN todo = DOMAIN rest
  <2>1. DOMAIN todo = DOMAIN rest
    BY <1>4
  <2>2. todo \in [1..Len(rest) -> Steps]
    BY <1>4, <1>7, <1>8, <2>1
  <2>3. \A n \in Nat : \A f \in [1..n -> Steps] : f \in Seq(Steps)
    OBVIOUS
  <2> QED  BY <1>7, <2>1, <2>2, <2>3
<1>10. Quiet(t, Syncing(todo))
  BY <1>5, <1>9, SyncingIs DEF Quiet
<1>11. /\ Step("asset unindexed", id).do = "asset unindexed"
       /\ Step("asset unindexed", id).id = id
       /\ Step("asset", id).do = "asset" /\ Step("asset", id).id = id
  BY DEF Step
<1>12. \A i \in DOMAIN rest :
         /\ todo[i] = rest[i] \/ (todo[i].do = "asset unindexed" /\ todo[i].id = rest[i].id)
         /\ rest[i].do # "asset" => todo[i] = rest[i]
  BY <1>4, <1>11
<1>13. \A s \in ToSet(todo) : s \in ToSet(rest) \/ s.do = "asset unindexed"
  BY <1>9, <1>12, Zenon DEF ToSet
<1>14. \A s \in ToSet(todo) : s.id \in {r.id : r \in ToSet(rest)}
  BY <1>9, <1>12, Zenon DEF ToSet
<1>15. \A s \in ToSet(rest) : s.do # "asset" => s \in ToSet(todo)
  BY <1>9, <1>12, Zenon DEF ToSet
<1> QED  BY <1>2, <1>9, <1>10, <1>13, <1>14, <1>15

\* The steps of a recall.
Reads(t) ==
  ReadLexical(t) \/ ReadIndex(t, "vector", vectors) \/ ReadIndex(t, "graph", graph)
    \/ CheckHit(t) \/ EndRecall(t)

\* A recall finds what is visible when it looks.
LEMMA ReadsIs ==
  ASSUME TypeInv, NEW t \in Tasks, Reads(t)
  PROVE  /\ UNCHANGED <<rows, indexes, used, revived, dropped>>
         /\ \E k : /\ Quiet(t, k)
                   /\ k = Idle \/
                        /\ Reader(k) /\ k.kind = task[t].kind /\ k.conv = task[t].conv
                        /\ k.hidden = task[t].hidden
                        /\ \A id \in k.found : id \in task[t].found \/ Visible(id, task[t])
<1>1. At(t, "recall") /\ Reader(task[t])
  BY TaskIs DEF Reads, ReadLexical, ReadIndex, CheckHit, EndRecall, At, TypeInv
<1>2. UNCHANGED <<rows, indexes, used, revived, dropped>>
  BY DEF Reads, ReadLexical, ReadIndex, CheckHit, EndRecall
<1>3. CASE EndRecall(t)
  BY <1>2, <1>3 DEF EndRecall, Quiet, TaskOK, Idle
<1>4. CASE ~EndRecall(t)
  <2>1. PICK reads, hits, found :
          /\ task' = [task EXCEPT ![t] = [task[t] EXCEPT !.reads = reads, !.hits = hits,
                                                         !.found = found]]
          /\ \A id \in found : id \in task[t].found \/ Visible(id, task[t])
    <3>1. CASE ReadLexical(t)
      <4>1. PICK some \in {{}, {id \in Ids : Visible(id, task[t])}} :
              task' = [task EXCEPT ![t].reads = @ \ {"lexical"}, ![t].found = @ \cup some]
        BY <3>1 DEF ReadLexical
      <4>2. task' = [task EXCEPT ![t] = [task[t] EXCEPT !.reads = task[t].reads \ {"lexical"},
                       !.hits = task[t].hits, !.found = task[t].found \cup some]]
        BY <1>1, <4>1 DEF TypeInv, Reader
      <4>3. \A id \in task[t].found \cup some : id \in task[t].found \/ Visible(id, task[t])
        BY <4>1
      <4> QED  BY <4>2, <4>3
    <3>2. ASSUME NEW source, NEW index, ReadIndex(t, source, index)
          PROVE  \E reads, hits, found :
            /\ task' = [task EXCEPT ![t] = [task[t] EXCEPT !.reads = reads, !.hits = hits,
                                                           !.found = found]]
            /\ \A id \in found : id \in task[t].found \/ Visible(id, task[t])
      <4>1. PICK some \in {{}, Hits(index, task[t])} :
              task' = [task EXCEPT ![t].reads = @ \ {source}, ![t].hits = @ \cup some]
        BY <3>2 DEF ReadIndex
      <4>2. task' = [task EXCEPT ![t] = [task[t] EXCEPT !.reads = task[t].reads \ {source},
                       !.hits = task[t].hits \cup some, !.found = task[t].found]]
        BY <1>1, <4>1 DEF TypeInv, Reader
      <4> QED  BY <4>2
    <3>3. CASE CheckHit(t)
      <4>1. PICK id \in task[t].hits :
              task' = [task EXCEPT ![t].hits = @ \ {id},
                         ![t].found = IF Visible(id, task[t]) THEN @ \cup {id} ELSE @]
        BY <3>3 DEF CheckHit
      <4>2. PICK found : found = IF Visible(id, task[t]) THEN task[t].found \cup {id}
                                 ELSE task[t].found
        OBVIOUS
      <4>3. task' = [task EXCEPT ![t] = [task[t] EXCEPT !.reads = task[t].reads,
                       !.hits = task[t].hits \ {id}, !.found = found]]
        BY <1>1, <4>1, <4>2 DEF TypeInv, Reader
      <4>4. \A i \in found : i \in task[t].found \/ Visible(i, task[t])
        BY <4>2
      <4> QED  BY <4>3, <4>4
    <3> QED  BY <1>4, <3>1, <3>2, <3>3 DEF Reads
  <2>2. PICK k : k = [task[t] EXCEPT !.reads = reads, !.hits = hits, !.found = found]
    OBVIOUS
  <2>3. task' = [task EXCEPT ![t] = k]
    BY <2>1, <2>2
  <2>4. /\ DOMAIN k = {"pc", "kind", "conv", "reads", "hits", "found", "hidden"}
        /\ k.pc = "recall" /\ k.kind = task[t].kind /\ k.conv = task[t].conv
        /\ k.hidden = task[t].hidden /\ k.found = found
    BY <1>1, <2>2 DEF Reader
  <2>5. Reader(k) /\ Quiet(t, k)
    BY <2>3, <2>4 DEF Reader, Quiet, TaskOK
  <2> QED  BY <1>2, <2>1, <2>4, <2>5
<1> QED  BY <1>3, <1>4

\* The steps that do not touch the rows.
LEMMA StaysIs ==
  ASSUME TypeInv, NEW t \in Tasks,
         \/ SyncVector(t) \/ SaveGraph(t) \/ SyncGraph(t) \/ MarkAsset(t)
         \/ SyncFails(t) \/ Abandon(t) \/ Reads(t)
         \/ \E k : Begins(t, k)
  PROVE  Stays
<1>1. CASE SyncVector(t) \/ SaveGraph(t) \/ SyncGraph(t) \/ MarkAsset(t)
  <2>1. At(t, "sync") /\ Pop(t) /\ UNCHANGED <<rows, revived>>
    BY <1>1 DEF SyncVector, SaveGraph, SyncGraph, MarkAsset, Does
  <2> QED  BY <2>1, PopIs DEF Stays
<1>2. CASE SyncFails(t)
  BY <1>2, SyncFailsIs DEF SyncFails, Stays
<1>3. CASE Abandon(t)
  <2>1. Quiet(t, Idle)
    BY <1>3 DEF Abandon, Quiet, TaskOK, Idle
  <2> QED  BY <1>3, <2>1 DEF Abandon, Stays
<1>4. CASE Reads(t)
  BY <1>4, ReadsIs DEF Stays
<1>5. CASE \E k : Begins(t, k)
  BY <1>5 DEF Begins, Start, Stays, Quiet
<1> QED  BY <1>1, <1>2, <1>3, <1>4, <1>5

\* Every step, by what it does to the rows.
LEMMA StepIs ==
  ASSUME TypeInv, [Next]_vars
  PROVE  \/ Stays
         \/ \E t \in Tasks : Select(t) \/ LockRows(t) \/ Commits(t) \/ \E id : MarksRow(t, id)
         \/ \E id \in Ids : ExtendExpiry(id) \/ TimePasses(id)
<1>1. CASE UNCHANGED vars
  BY <1>1 DEF vars, Stays
<1>2. CASE \E id \in Ids : ExtendExpiry(id) \/ TimePasses(id)
  BY <1>2
<1>3. ASSUME NEW t \in Tasks,
             \/ \E m \in Requests : StartWrite(t, m)
             \/ \E id \in Ids : StartForget(t, id)
             \/ StartExpire(t)
             \/ \E kind \in {m.kind : m \in Requests}, conv \in Conversations :
                  StartRecall(t, kind, conv)
      PROVE  Stays
  BY <1>3, StartIs, StaysIs
<1>4. ASSUME NEW t \in Tasks, Advance(t) \/ WriteIsLost(t) \/ SyncFails(t) \/ Abandon(t)
      PROVE  Stays \/ Select(t) \/ LockRows(t) \/ Commits(t) \/ \E id : MarksRow(t, id)
  <2>1. CASE Commit(t) \/ WriteIsLost(t)
    BY <2>1, CommitIs
  <2>2. CASE Mark(t)
    BY <2>2, MarkIs
  <2>3. CASE Reads(t)
    BY <2>3, StaysIs
  <2>4. CASE \/ SyncVector(t) \/ SaveGraph(t) \/ SyncGraph(t) \/ MarkAsset(t)
             \/ SyncFails(t) \/ Abandon(t)
    BY <2>4, StaysIs
  <2> QED  BY <1>4, <2>1, <2>2, <2>3, <2>4 DEF Advance, Reads
<1> QED  BY <1>1, <1>2, <1>3, <1>4 DEF Next

(***************************************************************************)
(* Rows only age: their facts stay, and only update brings one back.       *)
(***************************************************************************)

Age ==
  /\ rows' \in Seq(Row) /\ Ids \subseteq Ids' /\ revived \subseteq revived'
  /\ \A i \in Ids :
       /\ SameFact(rows[i], rows'[i])
       /\ rows[i].status # "active" => rows'[i].status # "active"
       /\ Retrievable(rows'[i]) => Retrievable(rows[i]) \/ i \in revived'

\* The tasks that hold locks are those that did, with the same rows.
LocksStay == \A u \in Tasks : InTransaction(u)' => InTransaction(u) /\ task'[u] = task[u]

\* A task that locks nothing leaves the locks of the others as they are.
LEMMA QuietIs ==
  ASSUME TypeInv, NEW t \in Tasks, NEW k, Quiet(t, k)
  PROVE  LocksStay /\ DOMAIN task' = Tasks /\ \A u \in Tasks : TaskOK(task'[u])
<1>1. \A u \in Tasks : task'[u] = IF u = t THEN k ELSE task[u]
  BY DEF Quiet, TypeInv
<1> QED  BY <1>1 DEF Quiet, TypeInv, LocksStay, InTransaction

\* The rows age: when nothing happens to them,
LEMMA StaysAge ==
  ASSUME TypeInv, Stays
  PROVE  Age /\ DOMAIN rows' = DOMAIN rows /\ LocksStay
<1>1. rows' = rows /\ revived' = revived
  BY DEF Stays
<1>2. LocksStay
  <2>1. CASE task' = task
    BY <2>1 DEF LocksStay, InTransaction
  <2> QED  BY <2>1, QuietIs DEF Stays
<1> QED  BY <1>1, <1>2 DEF Age, TypeInv, SameFact, Ids

\* when a write is committed, which ends its locks,
LEMMA CommitsAge ==
  ASSUME TypeInv, NEW t \in Tasks, Commits(t)
  PROVE  Age /\ LocksStay /\ ~InTransaction(t)'
<1>1. PICK old : IsWritten(rows', task[t].req, old)
  BY DEF Commits
<1>2. rows' \in Seq(Row) /\ Ids \subseteq Ids' /\ revived' = revived
  BY <1>1 DEF IsWritten, Commits, Ids
<1>3. ASSUME NEW i \in Ids
      PROVE  /\ SameFact(rows[i], rows'[i])
             /\ rows[i].status # "active" => rows'[i].status # "active"
             /\ Retrievable(rows'[i]) => Retrievable(rows[i])
  <2>1. CASE i = old
    <3>1. i # 0
      BY IdsAre DEF TypeInv
    <3> QED  BY <1>1, <2>1, <3>1 DEF IsWritten, Retrievable
  <2>2. CASE i # old
    <3>1. rows'[i] = rows[i]
      BY <1>1, <2>2 DEF IsWritten
    <3> QED  BY <3>1 DEF SameFact
  <2> QED  BY <2>1, <2>2
<1>4. PICK k : Quiet(t, k)
  BY DEF Commits
<1>5. ~InTransaction(t)'
  BY <1>4 DEF Quiet, TypeInv, InTransaction
<1> QED  BY <1>2, <1>3, <1>4, <1>5, QuietIs DEF Age

\* A row of which the status or the expiry changes.
LEMMA ChangeAges ==
  ASSUME TypeInv, NEW id \in Ids, NEW new \in Row, rows' = [rows EXCEPT ![id] = new],
         SameFact(rows[id], new), revived \subseteq revived',
         rows[id].status # "active" => new.status # "active",
         Retrievable(new) => Retrievable(rows[id]) \/ id \in revived'
  PROVE  /\ Age /\ DOMAIN rows' = DOMAIN rows
         /\ rows'[id] = new /\ \A i \in Ids \ {id} : rows'[i] = rows[i]
<1>1. /\ rows' \in Seq(Row) /\ DOMAIN rows' = DOMAIN rows
      /\ rows'[id] = new /\ \A i \in Ids \ {id} : rows'[i] = rows[i]
  <2>1. LET r == [rows EXCEPT ![id] = new]
        IN  /\ r \in Seq(Row) /\ Len(r) = Len(rows) /\ DOMAIN r = DOMAIN rows
            /\ r[id] = new /\ \A i \in DOMAIN rows \ {id} : r[i] = rows[i]
    BY ChangeIs, Zenon DEF Ids, TypeInv
  <2> QED  BY <2>1, Zenon DEF Ids
<1>2. \A r : SameFact(r, r)
  BY DEF SameFact
<1> QED  BY <1>1, <1>2 DEF Age, Ids

\* when one is forgotten or expires, which no other row notices,
LEMMA MarksAge ==
  ASSUME TypeInv, NEW t \in Tasks, NEW id, MarksRow(t, id)
  PROVE  /\ Age /\ DOMAIN rows' = DOMAIN rows /\ LocksStay
         /\ \A i \in Ids \ {id} : rows'[i] = rows[i]
<1>1. PICK status \in Marks : rows' = [rows EXCEPT ![id].status = status]
  BY DEF MarksRow
<1>2. id \in Ids /\ rows[id] \in Row /\ status \in {"superseded", "forgotten", "expired"}
  BY <1>1, IdsAre DEF TypeInv, MarksRow, Marks
<1>3. PICK new : new = [rows[id] EXCEPT !.status = status]
  OBVIOUS
<1>4. new \in Row /\ SameFact(rows[id], new) /\ new.status = status
  BY <1>2, <1>3, StatusIs
<1>5. rows' = [rows EXCEPT ![id] = new]
  BY <1>1, <1>3
<1>6. new.status # "active" /\ ~Retrievable(new)
  BY <1>2, <1>4 DEF Retrievable
<1>7. LocksStay
  BY QuietIs DEF MarksRow
<1> QED  BY <1>2, <1>4, <1>5, <1>6, <1>7, ChangeAges DEF MarksRow

\* and when an expiry is moved or passes, which leaves every status as it is.
LEMMA ExpiryAges ==
  ASSUME TypeInv, NEW id \in Ids, ExtendExpiry(id) \/ TimePasses(id)
  PROVE  /\ Age /\ DOMAIN rows' = DOMAIN rows /\ LocksStay
         /\ \A i \in Ids : rows'[i].status = rows[i].status
<1>1. PICK expiry \in {"later", "past"} :
        /\ rows' = [rows EXCEPT ![id].expiry = expiry]
        /\ revived \subseteq revived'
        /\ expiry = "later" /\ rows[id].expiry = "past" => id \in revived'
  BY DEF ExtendExpiry, TimePasses
<1>2. rows[id] \in Row
  BY IdsAre DEF TypeInv
<1>3. PICK new : new = [rows[id] EXCEPT !.expiry = expiry]
  OBVIOUS
<1>4. new \in Row /\ SameFact(rows[id], new) /\ new.status = rows[id].status /\ new.expiry = expiry
  BY <1>2, <1>3, ExpiryIs
<1>5. rows' = [rows EXCEPT ![id] = new]
  BY <1>1, <1>3
<1>6. Retrievable(new) => Retrievable(rows[id]) \/ id \in revived'
  BY <1>1, <1>4 DEF Retrievable
<1>7. /\ Age /\ DOMAIN rows' = DOMAIN rows
      /\ rows'[id] = new /\ \A i \in Ids \ {id} : rows'[i] = rows[i]
  BY <1>1, <1>4, <1>5, <1>6, ChangeAges
<1>8. LocksStay
  BY DEF ExtendExpiry, TimePasses, LocksStay, InTransaction
<1> QED  BY <1>4, <1>7, <1>8

\* Selecting rows and locking them.
LEMMA LockingIs ==
  ASSUME TypeInv, NEW t \in Tasks, Select(t) \/ LockRows(t)
  PROVE  /\ UNCHANGED <<rows, indexes, used, revived, dropped>>
         /\ Writer(task[t]) /\ Writer(task'[t]) /\ task'[t].req = task[t].req
         /\ Select(t) => task'[t].pc = "wait" /\ task'[t].held = Found(rows, task[t].req)
         /\ LockRows(t) => /\ At(t, "wait") /\ task'[t].pc = "commit"
                           /\ task'[t].held = task[t].held \cap Found(rows, task[t].req)
         /\ DOMAIN task' = Tasks /\ \A u \in Tasks \ {t} : task'[u] = task[u]
<1>1. Writer(task[t]) /\ UNCHANGED <<rows, indexes, used, revived, dropped>>
  BY TaskIs DEF TypeInv, Select, LockRows, At
<1>2. PICK pc, held, k :
        /\ k = [task[t] EXCEPT !.pc = pc, !.held = held]
        /\ task' = [task EXCEPT ![t] = k]
        /\ pc \in {"wait", "commit"}
        /\ Select(t) => pc = "wait" /\ held = Found(rows, task[t].req)
        /\ LockRows(t) => pc = "commit" /\ held = task[t].held \cap Found(rows, task[t].req)
  <2>1. CASE Select(t)
    <3>1. task' = [task EXCEPT ![t] = [task[t] EXCEPT !.pc = "wait",
                                                      !.held = Found(rows, task[t].req)]]
      BY <1>1, <2>1 DEF Select, Writer, TypeInv
    <3>2. ~LockRows(t)
      BY <2>1 DEF Select, LockRows, At
    <3> QED  BY <3>1, <3>2
  <2>2. CASE LockRows(t)
    <3>1. task' = [task EXCEPT ![t] = [task[t] EXCEPT !.pc = "commit",
                     !.held = task[t].held \cap Found(rows, task[t].req)]]
      BY <1>1, <2>2 DEF LockRows, Writer, TypeInv
    <3>2. ~Select(t)
      BY <2>2 DEF Select, LockRows, At
    <3> QED  BY <3>1, <3>2
  <2> QED  BY <2>1, <2>2
<1>3. /\ DOMAIN k = {"pc", "req", "held"} /\ k.pc = pc /\ k.held = held
      /\ k.req = task[t].req
  BY <1>1, <1>2 DEF Writer
<1>4. task'[t] = k /\ DOMAIN task' = Tasks /\ \A u \in Tasks \ {t} : task'[u] = task[u]
  BY <1>2 DEF TypeInv
<1> QED  BY <1>1, <1>2, <1>3, <1>4 DEF Writer, LockRows

\* The types hold after every step.
LEMMA TypeStep ==
  ASSUME TypeInv, [Next]_vars
  PROVE  TypeInv' /\ Age
<1>0. \A t \in Tasks : \A k : Quiet(t, k) => DOMAIN task' = Tasks /\ \A u \in Tasks : TaskOK(task'[u])
  BY QuietIs
<1>1. ASSUME Age, LocksStay, DOMAIN task' = Tasks /\ \A u \in Tasks : TaskOK(task'[u])
      PROVE  TypeInv'
  BY <1>1 DEF Age, LocksStay, TypeInv, InTransaction
<1>2. CASE Stays
  <2>1. DOMAIN task' = Tasks /\ \A u \in Tasks : TaskOK(task'[u])
    BY <1>0, <1>2 DEF Stays, TypeInv
  <2> QED  BY <1>1, <1>2, <2>1, StaysAge
<1>3. ASSUME NEW t \in Tasks, Select(t) \/ LockRows(t) PROVE TypeInv' /\ Age
  <2>1. /\ rows' = rows /\ revived' = revived /\ Writer(task'[t]) /\ task'[t].req = task[t].req
        /\ task'[t].held \subseteq Found(rows, task[t].req)
        /\ DOMAIN task' = Tasks /\ \A u \in Tasks \ {t} : task'[u] = task[u]
    BY <1>3, LockingIs
  <2>2. task'[t].held \subseteq Ids
    BY <2>1 DEF Found, Ids
  <2>3. TypeInv'
    BY <2>1, <2>2 DEF TypeInv, TaskOK, InTransaction, Ids
  <2>4. Age
    BY <2>1 DEF Age, TypeInv, SameFact, Ids
  <2> QED  BY <2>3, <2>4
<1>4. ASSUME NEW t \in Tasks, Commits(t) PROVE TypeInv' /\ Age
  BY <1>0, <1>1, <1>4, CommitsAge DEF Commits
<1>5. ASSUME NEW t \in Tasks, NEW id, MarksRow(t, id) PROVE TypeInv' /\ Age
  BY <1>0, <1>1, <1>5, MarksAge DEF MarksRow
<1>6. ASSUME NEW id \in Ids, ExtendExpiry(id) \/ TimePasses(id) PROVE TypeInv' /\ Age
  <2>1. task' = task
    BY <1>6 DEF ExtendExpiry, TimePasses
  <2> QED  BY <1>1, <1>6, <2>1, ExpiryAges DEF TypeInv
<1> QED  BY <1>2, <1>3, <1>4, <1>5, <1>6, StepIs, StaysAge

(***************************************************************************)
(* The versions of a memory.                                               *)
(***************************************************************************)

\* Rows locked by different tasks are different, active, and what their task looks for.
LockInv ==
  /\ \A t \in Tasks : At(t, "commit") =>
       \A id \in task[t].held : rows[id].status = "active" /\ Identifies(task[t].req, rows[id])
  /\ \A t, u \in Tasks : t # u /\ At(t, "commit") /\ At(u, "commit") =>
       task[t].held \cap task[u].held = {}

PrevInv == \A i \in Ids : rows[i].prev # 0 => rows[i].prev \in Ids

LineInv == TypeInv /\ LockInv /\ PrevInv /\ VersionsFormALine

\* What a keyed request finds has its identity, and conversely.
LEMMA IdentityIs ==
  ASSUME NEW m, NEW r, m.kind \in {"semantic", "episodic", "perceptual"},
         r.kind \in {"semantic", "episodic", "perceptual"}, m.key # NoKey
  PROVE  /\ Identifies(m, r) <=> LockIdentity(r) = LockIdentity(m)
         /\ LockIdentity(r) = LockIdentity(m) => r.key = m.key
<1>1. ASSUME Identifies(m, r) PROVE LockIdentity(r) = LockIdentity(m)
  BY <1>1 DEF Identifies, LockIdentity, WriteIdentity
<1>2. ASSUME LockIdentity(r) = LockIdentity(m)
      PROVE  Identifies(m, r) /\ r.key = m.key
  <2>1. r.scope = m.scope /\ WriteIdentity(r) = WriteIdentity(m)
    BY <1>2 DEF LockIdentity
  <2>2. WriteIdentity(r).type = WriteIdentity(m).type
    BY <2>1
  <2>3. CASE m.kind = "semantic"
    <3>1. WriteIdentity(m).type = "fact"
      BY <2>3 DEF WriteIdentity
    <3>2. r.kind = "semantic" /\ r.key # NoKey
      BY <2>2, <3>1 DEF WriteIdentity
    <3>3. [type |-> "fact", key |-> r.key, when |-> r.when]
            = [type |-> "fact", key |-> m.key, when |-> m.when]
      BY <2>1, <2>3, <3>2 DEF WriteIdentity
    <3>4. r.key = m.key /\ r.when = m.when
      BY <3>3
    <3> QED  BY <2>1, <2>3, <3>2, <3>4 DEF Identifies
  <2>4. CASE m.kind # "semantic"
    <3>1. WriteIdentity(m).type = m.kind /\ m.kind \notin {"fact", "content"}
      BY <2>4 DEF WriteIdentity
    <3>2. r.kind = m.kind
      BY <2>2, <3>1 DEF WriteIdentity
    <3>3. [type |-> r.kind, key |-> r.key] = [type |-> m.kind, key |-> m.key]
      BY <2>1, <2>4, <3>2 DEF WriteIdentity
    <3>4. r.key = m.key
      BY <3>3
    <3> QED  BY <2>1, <2>4, <3>2, <3>4 DEF Identifies
  <2> QED  BY <2>3, <2>4
<1> QED  BY <1>1, <1>2

\* No step but a commit makes versions, and none brings a row back to life.
LEMMA AgedLine ==
  ASSUME LineInv, Age, DOMAIN rows' = DOMAIN rows
  PROVE  PrevInv' /\ VersionsFormALine'
<1>1. \A i \in Ids : SameFact(rows[i], rows'[i]) /\ LockIdentity(rows'[i]) = LockIdentity(rows[i])
  BY SameIdentity DEF Age
<1>2. Ids' = Ids
  BY DEF Ids
<1>3. PrevInv'
  BY <1>1, <1>2 DEF PrevInv, LineInv, SameFact
<1>4. ASSUME NEW i \in Ids, rows'[i].prev # 0
      PROVE  /\ rows'[i].key # NoKey =>
                  LockIdentity(rows'[i]) = LockIdentity(rows'[rows'[i].prev])
             /\ rows'[rows'[i].prev].status # "active"
             /\ rows'[i].version = rows'[rows'[i].prev].version + 1
             /\ \A j \in Ids : rows'[j].prev = rows'[i].prev => j = i
  <2>1. PICK p : p = rows[i].prev
    OBVIOUS
  <2>2. rows'[i].prev = p /\ p \in Ids /\ p # 0 /\ rows[i].prev # 0
    BY <1>1, <1>4, <2>1 DEF SameFact, LineInv, PrevInv
  <2>3. /\ rows[i].key # NoKey => LockIdentity(rows[i]) = LockIdentity(rows[p])
        /\ rows[p].status # "active" /\ rows[i].version = rows[p].version + 1
        /\ \A j \in Ids : rows[j].prev = p => j = i
    BY <2>1, <2>2 DEF LineInv, VersionsFormALine
  <2>4. rows'[p].status # "active"
    BY <2>2, <2>3 DEF Age
  <2>5. rows'[i].version = rows'[p].version + 1 /\ rows'[i].key = rows[i].key
    BY <1>1, <2>2, <2>3 DEF SameFact
  <2>6. \A j \in Ids : rows'[j].prev = rows[j].prev
    BY <1>1 DEF SameFact
  <2> QED  BY <1>1, <2>2, <2>3, <2>4, <2>5, <2>6
<1> QED  BY <1>2, <1>3, <1>4 DEF VersionsFormALine

\* A commit adds a version to the row it replaces, which nobody has replaced before.
LEMMA CommittedLine ==
  ASSUME LineInv, TypeInv', Age, NEW t \in Tasks, Commits(t)
  PROVE  PrevInv' /\ VersionsFormALine'
<1>1. PICK old : /\ IsWritten(rows', task[t].req, old)
                 /\ old \in task[t].held \/ (task[t].held = {} /\ old = 0)
  BY DEF Commits
<1>2. PICK n, m : n = Len(rows') /\ m = task[t].req
  OBVIOUS
<1>3. /\ n \notin Ids /\ Ids' = Ids \cup {n} /\ m \in Request
  <2>1. Writer(task[t])
    BY TaskIs DEF LineInv, TypeInv, Commits, At
  <2> QED  BY <1>1, <1>2, <2>1 DEF IsWritten, Ids, Writer
<1>4. old # 0 => /\ old \in Ids /\ rows[old].status = "active" /\ Identifies(m, rows[old])
                 /\ rows'[old].status = "superseded"
  BY <1>1, <1>2 DEF IsWritten, LineInv, LockInv, Commits
<1>5. \A i \in Ids : SameFact(rows[i], rows'[i]) /\ LockIdentity(rows'[i]) = LockIdentity(rows[i])
  BY SameIdentity DEF Age
<1>6. PICK version, new :
        new = NewRow(m, version, old) /\ version = IF old = 0 THEN 1 ELSE rows[old].version + 1
  OBVIOUS
<1>7. /\ new.version = version /\ new.prev = old /\ new.kind = m.kind /\ new.key = m.key
      /\ new.when = m.when /\ new.text = m.text /\ new.scope = m.scope
  BY <1>6 DEF NewRow
<1>8. SameFact(rows'[n], new)
  BY <1>1, <1>2, <1>6 DEF IsWritten
<1>9. /\ rows'[n].prev = old /\ rows'[n].version = version /\ rows'[n].key = m.key
      /\ LockIdentity(rows'[n]) = LockIdentity(m)
  <2>1. LockIdentity(new) = LockIdentity(m)
    BY <1>7 DEF LockIdentity, WriteIdentity
  <2>2. LockIdentity(rows'[n]) = LockIdentity(new)
    BY <1>8, SameIdentity
  <2> QED  BY <1>7, <1>8, <2>1, <2>2 DEF SameFact
<1>10. 0 \notin Ids /\ n # 0
  BY <1>2, <1>3, IdsAre DEF LineInv, TypeInv, Ids
<1>11. ASSUME old # 0, NEW j \in Ids PROVE rows[j].prev # old
  BY <1>4, <1>11 DEF LineInv, VersionsFormALine
<1>12. PrevInv'
  BY <1>3, <1>4, <1>5, <1>9 DEF PrevInv, LineInv, SameFact
<1>13. ASSUME NEW i \in Ids, rows'[i].prev # 0
       PROVE  /\ rows'[i].key # NoKey =>
                   LockIdentity(rows'[i]) = LockIdentity(rows'[rows'[i].prev])
              /\ rows'[rows'[i].prev].status # "active"
              /\ rows'[i].version = rows'[rows'[i].prev].version + 1
              /\ \A j \in Ids \cup {n} : rows'[j].prev = rows'[i].prev => j = i
  <2>1. PICK p : p = rows[i].prev
    OBVIOUS
  <2>2. rows'[i].prev = p /\ p \in Ids /\ p # 0 /\ rows[i].prev # 0
    BY <1>5, <1>13, <2>1 DEF SameFact, LineInv, PrevInv
  <2>3. /\ rows[i].key # NoKey => LockIdentity(rows[i]) = LockIdentity(rows[p])
        /\ rows[p].status # "active" /\ rows[i].version = rows[p].version + 1
        /\ \A j \in Ids : rows[j].prev = p => j = i
    BY <2>1, <2>2 DEF LineInv, VersionsFormALine
  <2>4. rows'[p].status # "active"
    BY <2>2, <2>3 DEF Age
  <2>5. rows'[i].version = rows'[p].version + 1 /\ rows'[i].key = rows[i].key
    BY <1>5, <2>2, <2>3 DEF SameFact
  <2>6. \A j \in Ids : rows'[j].prev = rows[j].prev
    BY <1>5 DEF SameFact
  <2>7. rows'[n].prev # p
    BY <1>9, <1>11, <2>1, <2>2
  <2> QED  BY <1>5, <2>2, <2>3, <2>4, <2>5, <2>6, <2>7
<1>14. ASSUME rows'[n].prev # 0
       PROVE  /\ rows'[n].key # NoKey =>
                   LockIdentity(rows'[n]) = LockIdentity(rows'[rows'[n].prev])
              /\ rows'[rows'[n].prev].status # "active"
              /\ rows'[n].version = rows'[rows'[n].prev].version + 1
              /\ \A j \in Ids \cup {n} : rows'[j].prev = rows'[n].prev => j = n
  <2>1. old # 0 /\ old \in Ids /\ rows'[n].prev = old /\ rows'[old].status # "active"
    BY <1>4, <1>9, <1>14
  <2>2. rows'[n].version = rows'[old].version + 1
    BY <1>5, <1>6, <1>9, <2>1 DEF SameFact
  <2>3. \A j \in Ids : rows'[j].prev # old
    BY <1>5, <1>11, <2>1 DEF SameFact
  <2>4. m.key # NoKey => LockIdentity(rows[old]) = LockIdentity(m)
    <3>1. m.kind \in {"semantic", "episodic", "perceptual"}
      BY <1>3 DEF Request
    <3>2. rows[old].kind \in {"semantic", "episodic", "perceptual"}
      BY <2>1, IdsAre DEF LineInv, TypeInv, Row
    <3> QED  BY <1>4, <2>1, <3>1, <3>2, IdentityIs
  <2> QED  BY <1>5, <1>9, <2>1, <2>2, <2>3, <2>4
<1> QED  BY <1>3, <1>12, <1>13, <1>14 DEF VersionsFormALine

\* Locks that are kept are kept on rows nobody else has changed.
LEMMA KeptLocks ==
  ASSUME LineInv, Age, LocksStay,
         \A u \in Tasks : InTransaction(u)' =>
           \A id \in task[u].held : At(u, "commit") => rows'[id].status = rows[id].status
  PROVE  LockInv'
<1>1. \A u \in Tasks : At(u, "commit")' => At(u, "commit") /\ task'[u] = task[u] /\ InTransaction(u)
  BY DEF LocksStay, InTransaction, At
<1>2. ASSUME NEW t \in Tasks, At(t, "commit")', NEW id \in task'[t].held
      PROVE  rows'[id].status = "active" /\ Identifies(task'[t].req, rows'[id])
  <2>1. At(t, "commit") /\ task'[t] = task[t] /\ InTransaction(t)' /\ id \in task[t].held
    BY <1>1, <1>2 DEF InTransaction, At
  <2>2. id \in Ids
    BY <1>1, <1>2, <2>1 DEF LineInv, TypeInv
  <2>3. rows[id].status = "active" /\ Identifies(task[t].req, rows[id])
    BY <2>1 DEF LineInv, LockInv
  <2>4. Identifies(task[t].req, rows'[id])
    BY <2>2, <2>3, SameIdentity DEF Age
  <2> QED  BY <2>1, <2>3, <2>4
<1>3. ASSUME NEW t \in Tasks, NEW u \in Tasks, t # u, At(t, "commit")', At(u, "commit")'
      PROVE  task'[t].held \cap task'[u].held = {}
  BY <1>1, <1>3 DEF LineInv, LockInv
<1> QED  BY <1>2, <1>3 DEF LockInv, At

\* A row that a task may mark or replace is locked by nobody else.
LEMMA LineStep ==
  ASSUME LineInv, [Next]_vars
  PROVE  LineInv'
<1>1. TypeInv /\ TypeInv' /\ Age
  BY TypeStep DEF LineInv
<1>2. CASE Stays
  <2>1. rows' = rows /\ LocksStay /\ DOMAIN rows' = DOMAIN rows
    BY <1>1, <1>2, StaysAge DEF Stays
  <2> QED  BY <1>1, <2>1, KeptLocks, AgedLine DEF LineInv
<1>3. ASSUME NEW t \in Tasks, Select(t) \/ LockRows(t) PROVE LineInv'
  <2>1. /\ rows' = rows /\ task'[t].req = task[t].req
        /\ Select(t) => task'[t].pc = "wait"
        /\ LockRows(t) => task'[t].held = task[t].held \cap Found(rows, task[t].req)
        /\ \A u \in Tasks \ {t} : task'[u] = task[u]
    BY <1>1, <1>3, LockingIs
  <2>2. CASE Select(t)
    <3>1. \A u \in Tasks : At(u, "commit")' => u # t /\ At(u, "commit") /\ task'[u] = task[u]
      BY <2>1, <2>2 DEF At
    <3>2. LockInv'
      BY <2>1, <3>1 DEF LineInv, LockInv
    <3> QED  BY <1>1, <2>1, <3>2, AgedLine DEF LineInv
  <2>3. CASE LockRows(t)
    <3>1. \A u \in Tasks \ {t} : (At(u, "commit")' <=> At(u, "commit")) /\ task'[u] = task[u]
      BY <2>1 DEF At
    <3>2. \A id \in task'[t].held :
            rows[id].status = "active" /\ Identifies(task[t].req, rows[id])
      BY <2>1, <2>3 DEF Found, Retrievable
    <3>3. \A u \in Tasks \ {t} : At(u, "commit") => task'[t].held \cap task[u].held = {}
      BY <2>1, <2>3 DEF LockRows, Locked
    <3>4. LockInv'
      <4>1. ASSUME NEW u \in Tasks, At(u, "commit")', NEW id \in task'[u].held
            PROVE  rows'[id].status = "active" /\ Identifies(task'[u].req, rows'[id])
        BY <2>1, <3>1, <3>2, <4>1 DEF LineInv, LockInv
      <4>2. ASSUME NEW u \in Tasks, NEW v \in Tasks, u # v, At(u, "commit")', At(v, "commit")'
            PROVE  task'[u].held \cap task'[v].held = {}
        BY <3>1, <3>3, <4>2 DEF LineInv, LockInv
      <4> QED  BY <4>1, <4>2 DEF LockInv, At
    <3> QED  BY <1>1, <2>1, <3>4, AgedLine DEF LineInv
  <2> QED  BY <1>3, <2>2, <2>3
<1>4. ASSUME NEW t \in Tasks, Commits(t) PROVE LineInv'
  <2>1. LocksStay /\ ~InTransaction(t)'
    BY <1>1, <1>4, CommitsAge
  <2>2. PICK old : /\ IsWritten(rows', task[t].req, old)
                   /\ old \in task[t].held \/ (task[t].held = {} /\ old = 0)
    BY <1>4 DEF Commits
  <2>3. ASSUME NEW u \in Tasks, InTransaction(u)', NEW id \in task[u].held, At(u, "commit")
        PROVE  rows'[id].status = rows[id].status
    <3>1. u # t /\ InTransaction(u)
      BY <2>1, <2>3 DEF LocksStay
    <3>2. id \in Ids
      BY <1>1, <2>3, <3>1 DEF TypeInv
    <3>3. id # old
      <4>1. At(t, "commit") /\ task[t].held \cap task[u].held = {}
        BY <1>4, <2>3, <3>1 DEF Commits, LineInv, LockInv
      <4>2. id # 0
        BY <1>1, <3>2, IdsAre DEF TypeInv
      <4> QED  BY <2>2, <2>3, <4>1, <4>2
    <3> QED  BY <2>2, <3>2, <3>3 DEF IsWritten
  <2>4. LockInv'
    BY <1>1, <2>1, <2>3, KeptLocks
  <2> QED  BY <1>1, <1>4, <2>4, CommittedLine DEF LineInv
<1>5. ASSUME NEW t \in Tasks, NEW id, MarksRow(t, id) PROVE LineInv'
  <2>1. LocksStay /\ DOMAIN rows' = DOMAIN rows /\ \A i \in Ids \ {id} : rows'[i] = rows[i]
    BY <1>1, <1>5, MarksAge
  <2>2. ASSUME NEW u \in Tasks, InTransaction(u)', NEW i \in task[u].held, At(u, "commit")
        PROVE  rows'[i].status = rows[i].status
    <3>1. u # t /\ InTransaction(u)
      BY <1>5, <2>1, <2>2 DEF LocksStay, MarksRow, At
    <3>2. i \in Ids
      BY <1>1, <2>2, <3>1 DEF TypeInv
    <3>3. i # id
      BY <1>5, <2>2, <3>1 DEF MarksRow, Locked
    <3> QED  BY <2>1, <3>2, <3>3
  <2>3. LockInv'
    BY <1>1, <2>1, <2>2, KeptLocks
  <2> QED  BY <1>1, <2>1, <2>3, AgedLine DEF LineInv
<1>6. ASSUME NEW id \in Ids, ExtendExpiry(id) \/ TimePasses(id) PROVE LineInv'
  <2>1. LocksStay /\ DOMAIN rows' = DOMAIN rows /\ \A i \in Ids : rows'[i].status = rows[i].status
    BY <1>1, <1>6, ExpiryAges
  <2>2. ASSUME NEW u \in Tasks, InTransaction(u)', NEW i \in task[u].held, At(u, "commit")
        PROVE  rows'[i].status = rows[i].status
    <3>1. InTransaction(u)
      BY <2>1, <2>2 DEF LocksStay
    <3>2. i \in Ids
      BY <1>1, <2>2, <3>1 DEF TypeInv
    <3> QED  BY <2>1, <3>2
  <2>3. LockInv'
    BY <1>1, <2>1, <2>2, KeptLocks
  <2> QED  BY <1>1, <2>1, <2>3, AgedLine DEF LineInv
<1> QED  BY <1>1, <1>2, <1>3, <1>4, <1>5, <1>6, StepIs

\* Nothing is stored at the beginning.
LEMMA LineInit ==
  ASSUME Init
  PROVE  LineInv
<1>1. rows \in Seq(Row) /\ Ids = {}
  BY DEF Init, Ids
<1>2. \A t \in Tasks : task[t] = Idle /\ task[t].pc = "idle" /\ DOMAIN task = Tasks
  BY DEF Init, Idle
<1>3. TypeInv
  <2>1. DOMAIN task = Tasks
    BY DEF Init
  <2> QED  BY <1>1, <1>2, <2>1 DEF TypeInv, TaskOK, InTransaction
<1> QED  BY <1>1, <1>2, <1>3 DEF LineInv, LockInv, PrevInv, VersionsFormALine, At

\* The versions of a memory form a line, whoever writes, forgets or expires at once.
THEOREM VersionsAreALine == Spec => []VersionsFormALine
<1>1. LineInv => VersionsFormALine
  BY DEF LineInv
<1> QED  BY <1>1, LineInit, LineStep, PTL DEF Spec

(***************************************************************************)
(* One retrievable memory of a key.                                        *)
(***************************************************************************)

\* A row of the identity has been brought back after it had expired.
Revived(identity) == \E k \in revived : LockIdentity(rows[k]) = identity

\* A writer with a key has the retrievable rows of its identity, and once they are locked
\* that is one at most.
WriterSees(t) ==
  InTransaction(t) /\ task[t].req.key # NoKey =>
    LET identity == LockIdentity(task[t].req)
    IN  \/ Revived(identity)
        \/ /\ \A id \in Ids : Retrievable(rows[id]) /\ LockIdentity(rows[id]) = identity =>
                id \in task[t].held
           /\ At(t, "commit") => \A i, j \in task[t].held : i = j

LocksDiffer ==
  \A t, u \in Tasks : t # u /\ InTransaction(t) /\ InTransaction(u) =>
    LockIdentity(task[t].req) # LockIdentity(task[u].req)

KeyInv ==
  /\ LineInv /\ revived \subseteq Ids
  /\ OneMemoryPerKey /\ LocksDiffer /\ \A t \in Tasks : WriterSees(t)

\* Rows stay of the same identity, and revived ones revived.
LEMMA StillRevived ==
  ASSUME KeyInv, Age
  PROVE  /\ \A i \in Ids : LockIdentity(rows'[i]) = LockIdentity(rows[i]) /\ rows'[i].key = rows[i].key
         /\ \A identity : Revived(identity) => Revived(identity)'
<1>1. \A i \in Ids : LockIdentity(rows'[i]) = LockIdentity(rows[i]) /\ rows'[i].key = rows[i].key
  BY SameIdentity DEF Age, SameFact
<1>2. ASSUME NEW identity, Revived(identity) PROVE Revived(identity)'
  <2>1. PICK k \in revived : LockIdentity(rows[k]) = identity
    BY <1>2 DEF Revived
  <2>2. k \in Ids /\ k \in revived'
    BY <2>1 DEF KeyInv, Age
  <2>3. LockIdentity(rows'[k]) = identity
    BY <1>1, <2>1, <2>2
  <2> QED  BY <2>2, <2>3 DEF Revived
<1> QED  BY <1>1, <1>2

\* What becomes retrievable is revived, so that nothing is lost as long as a new row is the
\* only retrievable one of its identity and nobody else writes for that.
LEMMA AgedKeys ==
  ASSUME KeyInv, LineInv', Age, LocksStay, revived' \subseteq Ids,
         \A n \in Ids' \ Ids :
           /\ \A u \in Tasks : InTransaction(u)' =>
                LockIdentity(task[u].req) # LockIdentity(rows'[n])
           /\ \A j \in Ids :
                /\ rows'[n].key # NoKey /\ Retrievable(rows'[j])
                /\ LockIdentity(rows'[j]) = LockIdentity(rows'[n])
                => \E k \in revived' : LockIdentity(rows'[k]) = LockIdentity(rows'[n])
           /\ \A j \in Ids' \ Ids : j = n
  PROVE  KeyInv'
<1>1. /\ \A i \in Ids : LockIdentity(rows'[i]) = LockIdentity(rows[i]) /\ rows'[i].key = rows[i].key
      /\ \A identity : Revived(identity) => Revived(identity)'
      /\ Ids \subseteq Ids'
  BY StillRevived DEF Age
<1>2. \A i \in Ids : Retrievable(rows'[i]) /\ ~Retrievable(rows[i]) =>
        \E k \in revived' : LockIdentity(rows'[k]) = LockIdentity(rows'[i])
  BY DEF Age
<1>3. ASSUME NEW i \in Ids', NEW j \in Ids', LockIdentity(rows'[i]) = LockIdentity(rows'[j]),
             rows'[i].key # NoKey
      PROVE  rows'[j].key # NoKey
  <2>1. rows'[i] \in Row /\ rows'[j] \in Row
    BY <1>3, IdsAre DEF Ids, LineInv, TypeInv
  <2> QED  BY <1>3, <2>1, IdentityIs DEF Row
<1>4. OneMemoryPerKey'
  <2>1. ASSUME NEW i \in Ids', NEW j \in Ids', i # j, rows'[i].key # NoKey,
               Retrievable(rows'[i]), Retrievable(rows'[j]),
               LockIdentity(rows'[i]) = LockIdentity(rows'[j])
        PROVE  \E k \in revived' : LockIdentity(rows'[k]) = LockIdentity(rows'[i])
    <3>1. CASE i \in Ids /\ j \in Ids /\ Retrievable(rows[i]) /\ Retrievable(rows[j])
      <4>1. PICK k \in revived : LockIdentity(rows[k]) = LockIdentity(rows[i])
        BY <1>1, <2>1, <3>1 DEF KeyInv, OneMemoryPerKey
      <4>2. k \in Ids /\ k \in revived'
        BY <4>1 DEF KeyInv, Age
      <4> QED  BY <1>1, <3>1, <4>1, <4>2
    <3>2. CASE i \in Ids /\ j \in Ids /\ ~(Retrievable(rows[i]) /\ Retrievable(rows[j]))
      BY <1>2, <2>1, <3>2
    <3>3. CASE i \notin Ids
      BY <2>1, <3>3
    <3>4. CASE i \in Ids /\ j \notin Ids
      BY <1>3, <2>1, <3>4
    <3> QED  BY <3>1, <3>2, <3>3, <3>4
  <2> QED  BY <2>1 DEF OneMemoryPerKey
<1>5. LocksDiffer'
  BY DEF LocksDiffer, LocksStay, KeyInv
<1>6. ASSUME NEW t \in Tasks, InTransaction(t)', task'[t].req.key # NoKey,
             NEW identity, identity = LockIdentity(task'[t].req), ~Revived(identity)'
      PROVE  /\ \A id \in Ids' : Retrievable(rows'[id]) /\ LockIdentity(rows'[id]) = identity =>
                  id \in task'[t].held
             /\ At(t, "commit")' => \A i, j \in task'[t].held : i = j
  <2>1. InTransaction(t) /\ task'[t] = task[t] /\ ~Revived(identity)
    BY <1>1, <1>6 DEF LocksStay
  <2>2. /\ \A id \in Ids : Retrievable(rows[id]) /\ LockIdentity(rows[id]) = identity =>
             id \in task[t].held
        /\ At(t, "commit") => \A i, j \in task[t].held : i = j
    BY <1>6, <2>1 DEF KeyInv, WriterSees
  <2>3. At(t, "commit")' <=> At(t, "commit")
    BY <2>1 DEF At
  <2>4. ASSUME NEW id \in Ids', Retrievable(rows'[id]), LockIdentity(rows'[id]) = identity
        PROVE  id \in Ids /\ Retrievable(rows[id]) /\ LockIdentity(rows[id]) = identity
    <3>1. id \in Ids
      BY <1>6, <2>1, <2>4
    <3> QED  BY <1>1, <1>2, <1>6, <2>4, <3>1 DEF Revived
  <2> QED  BY <2>1, <2>2, <2>3, <2>4
<1>7. \A t \in Tasks : WriterSees(t)'
  BY <1>6 DEF WriterSees, At
<1> QED  BY <1>1, <1>4, <1>5, <1>7 DEF KeyInv

\* Selecting rows under the advisory lock of their identity.
LEMMA SelectKeys ==
  ASSUME KeyInv, LineInv', NEW t \in Tasks, Select(t)
  PROVE  KeyInv'
<1>1. /\ rows' = rows /\ revived' = revived /\ Ids' = Ids
      /\ task'[t].req = task[t].req /\ task[t].req \in Request
      /\ task'[t].pc = "wait" /\ task'[t].held = Found(rows, task[t].req)
      /\ \A u \in Tasks \ {t} : task'[u] = task[u]
  BY LockingIs DEF KeyInv, LineInv, Writer, Ids
<1>2. \A u \in Tasks \ {t} : InTransaction(u)' <=> InTransaction(u)
  BY <1>1 DEF InTransaction
<1>3. LocksDiffer'
  <2>1. \A u \in Tasks \ {t} : InTransaction(u) => LockIdentity(task[u].req) # LockIdentity(task[t].req)
    BY DEF Select
  <2>2. ASSUME NEW u \in Tasks, NEW v \in Tasks, u # v, InTransaction(u)', InTransaction(v)'
        PROVE  LockIdentity(task'[u].req) # LockIdentity(task'[v].req)
    <3>1. CASE u = t
      BY <1>1, <1>2, <2>1, <2>2, <3>1
    <3>2. CASE v = t
      BY <1>1, <1>2, <2>1, <2>2, <3>2
    <3>3. CASE u # t /\ v # t
      BY <1>1, <1>2, <2>2, <3>3 DEF KeyInv, LocksDiffer
    <3> QED  BY <3>1, <3>2, <3>3
  <2> QED  BY <2>2 DEF LocksDiffer
<1>4. \A u \in Tasks \ {t} : WriterSees(u)'
  BY <1>1, <1>2 DEF KeyInv, WriterSees, Revived, At
<1>5. WriterSees(t)'
  <2>1. ASSUME task[t].req.key # NoKey, NEW id \in Ids, Retrievable(rows[id]),
               LockIdentity(rows[id]) = LockIdentity(task[t].req)
        PROVE  id \in Found(rows, task[t].req)
    <3>1. /\ task[t].req.kind \in {"semantic", "episodic", "perceptual"}
          /\ rows[id].kind \in {"semantic", "episodic", "perceptual"}
      BY <1>1, IdsAre DEF KeyInv, LineInv, TypeInv, Request, Row
    <3> QED  BY <2>1, <3>1, IdentityIs DEF Found, Ids
  <2>2. ~At(t, "commit")'
    BY <1>1 DEF At
  <2> QED  BY <1>1, <2>1, <2>2 DEF WriterSees
<1>6. OneMemoryPerKey'
  BY <1>1 DEF KeyInv, OneMemoryPerKey
<1> QED  BY <1>1, <1>3, <1>4, <1>5, <1>6 DEF KeyInv

\* Locking them, which drops the rows that are not what was looked for any more.
LEMMA LockKeys ==
  ASSUME KeyInv, LineInv', NEW t \in Tasks, LockRows(t)
  PROVE  KeyInv'
<1>1. /\ rows' = rows /\ revived' = revived /\ Ids' = Ids
      /\ task'[t].req = task[t].req /\ task[t].req \in Request
      /\ At(t, "wait") /\ task'[t].pc = "commit"
      /\ task'[t].held = task[t].held \cap Found(rows, task[t].req)
      /\ \A u \in Tasks \ {t} : task'[u] = task[u]
  BY LockingIs DEF KeyInv, LineInv, Writer, Ids
<1>2. /\ \A u \in Tasks \ {t} : InTransaction(u)' <=> InTransaction(u)
      /\ InTransaction(t)
  BY <1>1 DEF InTransaction, At
<1>3. LocksDiffer'
  BY <1>1, <1>2 DEF KeyInv, LocksDiffer
<1>4. \A u \in Tasks \ {t} : WriterSees(u)'
  BY <1>1, <1>2 DEF KeyInv, WriterSees, Revived, At
<1>5. WriterSees(t)'
  <2>1. SUFFICES ASSUME task[t].req.key # NoKey,
                        NEW identity, identity = LockIdentity(task[t].req), ~Revived(identity)
                 PROVE  /\ \A id \in Ids :
                             Retrievable(rows[id]) /\ LockIdentity(rows[id]) = identity =>
                               id \in task'[t].held
                        /\ \A i, j \in task'[t].held : i = j
    BY <1>1 DEF WriterSees, Revived
  <2>2. \A id \in Ids : Retrievable(rows[id]) /\ LockIdentity(rows[id]) = identity =>
          id \in task[t].held
    BY <1>2, <2>1 DEF KeyInv, WriterSees
  <2>3. ASSUME NEW id \in Ids
        PROVE  Identifies(task[t].req, rows[id]) <=> LockIdentity(rows[id]) = identity
    <3>1. /\ task[t].req.kind \in {"semantic", "episodic", "perceptual"}
          /\ rows[id].kind \in {"semantic", "episodic", "perceptual"}
      BY <1>1, IdsAre DEF KeyInv, LineInv, TypeInv, Request, Row
    <3> QED  BY <2>1, <3>1, IdentityIs
  <2>4. ASSUME NEW id \in Ids
        PROVE  id \in Found(rows, task[t].req) <=>
                 Retrievable(rows[id]) /\ LockIdentity(rows[id]) = identity
    BY <2>3 DEF Found, Ids
  <2>5. Found(rows, task[t].req) \subseteq Ids
    BY DEF Found, Ids
  <2>6. ASSUME NEW i \in task'[t].held, NEW j \in task'[t].held, i # j PROVE FALSE
    <3>1. /\ i \in Ids /\ Retrievable(rows[i]) /\ LockIdentity(rows[i]) = identity
          /\ j \in Ids /\ Retrievable(rows[j]) /\ LockIdentity(rows[j]) = identity
      BY <1>1, <2>4, <2>5
    <3>2. rows[i].key # NoKey
      <4>1. /\ task[t].req.kind \in {"semantic", "episodic", "perceptual"}
            /\ rows[i].kind \in {"semantic", "episodic", "perceptual"}
        BY <1>1, <3>1, IdsAre DEF KeyInv, LineInv, TypeInv, Request, Row
      <4> QED  BY <2>1, <3>1, <4>1, IdentityIs
    <3> QED  BY <2>1, <2>6, <3>1, <3>2 DEF KeyInv, OneMemoryPerKey, Revived
  <2> QED  BY <1>1, <2>2, <2>4, <2>6
<1>6. OneMemoryPerKey'
  BY <1>1 DEF KeyInv, OneMemoryPerKey
<1> QED  BY <1>1, <1>3, <1>4, <1>5, <1>6 DEF KeyInv

\* A commit leaves one retrievable memory of its key, the new one.
LEMMA CommitKeys ==
  ASSUME KeyInv, LineInv', Age, NEW t \in Tasks, Commits(t)
  PROVE  KeyInv'
<1>1. PICK old : /\ IsWritten(rows', task[t].req, old)
                 /\ old \in task[t].held \/ (task[t].held = {} /\ old = 0)
  BY DEF Commits
<1>2. PICK n, m : n = Len(rows') /\ m = task[t].req
  OBVIOUS
<1>3. /\ Ids' = Ids \cup {n} /\ n \notin Ids /\ m \in Request
      /\ At(t, "commit") /\ InTransaction(t) /\ revived' = revived
  <2>1. Writer(task[t]) /\ At(t, "commit")
    BY TaskIs DEF KeyInv, LineInv, TypeInv, Commits, At
  <2> QED  BY <1>1, <1>2, <2>1 DEF IsWritten, Ids, Writer, Commits, InTransaction, At
<1>4. LocksStay /\ ~InTransaction(t)'
  BY CommitsAge DEF KeyInv, LineInv
<1>5. rows'[n].key = m.key /\ LockIdentity(rows'[n]) = LockIdentity(m)
  <2>1. PICK new : new = NewRow(m, IF old = 0 THEN 1 ELSE rows[old].version + 1, old)
    OBVIOUS
  <2>2. SameFact(rows'[n], new)
    BY <1>1, <1>2, <2>1 DEF IsWritten
  <2>3. /\ new.kind = m.kind /\ new.key = m.key
        /\ new.when = m.when /\ new.text = m.text /\ new.scope = m.scope
    BY <2>1 DEF NewRow
  <2>4. LockIdentity(new) = LockIdentity(m)
    BY <2>3 DEF LockIdentity, WriteIdentity
  <2> QED  BY <2>2, <2>3, <2>4, SameIdentity DEF SameFact
<1>6. ASSUME NEW u \in Tasks, InTransaction(u)'
      PROVE  LockIdentity(task[u].req) # LockIdentity(rows'[n])
  <2>1. u # t /\ InTransaction(u)
    BY <1>4, <1>6 DEF LocksStay
  <2> QED  BY <1>2, <1>3, <1>5, <2>1 DEF KeyInv, LocksDiffer
<1>7. ASSUME NEW j \in Ids, rows'[n].key # NoKey, Retrievable(rows'[j]),
             LockIdentity(rows'[j]) = LockIdentity(rows'[n])
      PROVE  \E k \in revived' : LockIdentity(rows'[k]) = LockIdentity(rows'[n])
  <2>0. PICK identity : identity = LockIdentity(m)
    OBVIOUS
  <2>1. SUFFICES ASSUME ~Revived(identity)' PROVE FALSE
    BY <1>5, <2>0 DEF Revived
  <2>2. ~Revived(identity) /\ LockIdentity(rows[j]) = identity
    BY <1>5, <1>7, <2>0, <2>1, StillRevived
  <2>3. Retrievable(rows[j])
    <3>1. j \notin revived'
      BY <1>5, <1>7, <2>0, <2>1 DEF Revived
    <3> QED  BY <1>7, <3>1 DEF Age
  <2>4. j \in task[t].held /\ \A i, k \in task[t].held : i = k
    BY <1>2, <1>3, <1>5, <1>7, <2>0, <2>2, <2>3 DEF KeyInv, WriterSees
  <2>5. j # old
    <3>1. j # 0
      BY IdsAre DEF KeyInv, LineInv, TypeInv
    <3> QED  BY <1>1, <1>7, <3>1 DEF IsWritten, Retrievable
  <2> QED  BY <1>1, <2>4, <2>5
<1>8. revived' \subseteq Ids
  BY <1>3 DEF KeyInv
<1> QED  BY <1>3, <1>4, <1>6, <1>7, <1>8, AgedKeys

\* Every step leaves one retrievable memory of a key.
LEMMA KeyStep ==
  ASSUME KeyInv, [Next]_vars
  PROVE  KeyInv'
<1>1. TypeInv /\ LineInv /\ LineInv' /\ Age
  BY TypeStep, LineStep DEF KeyInv, LineInv
<1>2. ASSUME DOMAIN rows' = DOMAIN rows, LocksStay, revived' \subseteq Ids PROVE KeyInv'
  BY <1>1, <1>2, AgedKeys DEF Ids
<1>3. CASE Stays
  BY <1>1, <1>2, <1>3, StaysAge DEF Stays, KeyInv
<1>4. ASSUME NEW t \in Tasks, Select(t) \/ LockRows(t) PROVE KeyInv'
  BY <1>1, <1>4, SelectKeys, LockKeys
<1>5. ASSUME NEW t \in Tasks, Commits(t) PROVE KeyInv'
  BY <1>1, <1>5, CommitKeys
<1>6. ASSUME NEW t \in Tasks, NEW id, MarksRow(t, id) PROVE KeyInv'
  <2>1. revived' = revived
    BY <1>6 DEF MarksRow
  <2> QED  BY <1>1, <1>2, <1>6, <2>1, MarksAge DEF KeyInv
<1>7. ASSUME NEW id \in Ids, ExtendExpiry(id) \/ TimePasses(id) PROVE KeyInv'
  <2>1. revived' \subseteq Ids
    BY <1>7 DEF ExtendExpiry, TimePasses, KeyInv
  <2> QED  BY <1>1, <1>2, <1>7, <2>1, ExpiryAges
<1> QED  BY <1>1, <1>3, <1>4, <1>5, <1>6, <1>7, StepIs

\* One retrievable memory of a key, whoever writes for it at once.
THEOREM OneIsRetrievable == Spec => []OneMemoryPerKey
<1>1. Init => KeyInv
  <2>1. ASSUME Init PROVE /\ Ids = {} /\ revived = {} /\ \A t \in Tasks : ~InTransaction(t)
    BY <2>1 DEF Init, Ids, InTransaction, Idle
  <2> QED  BY <2>1, LineInit DEF KeyInv, OneMemoryPerKey, LocksDiffer, WriterSees
<1>2. KeyInv => OneMemoryPerKey
  BY DEF KeyInv
<1> QED  BY <1>1, <1>2, KeyStep, PTL DEF Spec

(***************************************************************************)
(* Recalls.                                                                *)
(***************************************************************************)

\* What a recall must not return is not visible to it, unless it was brought back, and the
\* recall has not found it.
RecallOK(t) ==
  At(t, "recall") =>
    /\ task[t].hidden \subseteq Ids
    /\ \A id \in task[t].hidden : id \in revived \/ ~Visible(id, task[t])
    /\ task[t].found \cap task[t].hidden \subseteq revived

RecallInv == TypeInv /\ \A t \in Tasks : RecallOK(t)

\* The steps that are not of a recall leave every recall as it is.
RecallsStay == \A u \in Tasks : At(u, "recall")' => At(u, "recall") /\ task'[u] = task[u]

\* A list of steps is no recall.
LEMMA SyncingPc ==
  ASSUME NEW todo
  PROVE  Syncing(todo).pc \in {"idle", "sync"}
BY DEF Syncing, Idle

\* A task goes on with something that is no recall.
LEMMA OtherTask ==
  ASSUME TypeInv, NEW t \in Tasks, NEW k, task' = [task EXCEPT ![t] = k], k.pc # "recall"
  PROVE  RecallsStay
<1>1. \A u \in Tasks : task'[u] = IF u = t THEN k ELSE task[u]
  BY DEF TypeInv
<1> QED  BY <1>1 DEF RecallsStay, At

\* A step leaves every recall as it is, or begins an operation, or is one of a recall.
LEMMA RecallStepIs ==
  ASSUME TypeInv, [Next]_vars
  PROVE  \/ RecallsStay
         \/ \E t \in Tasks : Reads(t) \/ \E k : Begins(t, k)
<1>0. Idle.pc # "recall"
  BY DEF Idle
<1>1. CASE UNCHANGED vars \/ \E id \in Ids : ExtendExpiry(id) \/ TimePasses(id)
  <2>1. task' = task
    BY <1>1 DEF vars, ExtendExpiry, TimePasses
  <2> QED  BY <2>1 DEF RecallsStay, At
<1>2. ASSUME NEW t \in Tasks,
             \/ \E m \in Requests : StartWrite(t, m)
             \/ \E id \in Ids : StartForget(t, id)
             \/ StartExpire(t)
             \/ \E kind \in {m.kind : m \in Requests}, conv \in Conversations :
                  StartRecall(t, kind, conv)
      PROVE  \E k : Begins(t, k)
  BY <1>2, StartIs
<1>3. ASSUME NEW t \in Tasks, Select(t) \/ LockRows(t) PROVE RecallsStay
  <2>1. Writer(task'[t]) /\ \A u \in Tasks \ {t} : task'[u] = task[u]
    BY <1>3, LockingIs
  <2> QED  BY <2>1 DEF Writer, RecallsStay, At
<1>4. ASSUME NEW t \in Tasks, Commit(t) PROVE RecallsStay
  <2>1. PICK out : task' = [task EXCEPT ![t] = Syncing(Todo(task[t].req, out))]
    BY <1>4 DEF Commit
  <2> QED  BY <2>1, SyncingPc, OtherTask
<1>5. ASSUME NEW t \in Tasks, WriteIsLost(t) \/ Abandon(t) PROVE RecallsStay
  <2>1. task' = [task EXCEPT ![t] = Idle]
    BY <1>5 DEF WriteIsLost, Abandon
  <2> QED  BY <1>0, <2>1, OtherTask
<1>6. ASSUME NEW t \in Tasks, SyncVector(t) \/ SaveGraph(t) \/ SyncGraph(t) \/ MarkAsset(t)
      PROVE  RecallsStay
  <2>1. task' = [task EXCEPT ![t] = Syncing(Tail(task[t].todo))]
    BY <1>6 DEF SyncVector, SaveGraph, SyncGraph, MarkAsset, Pop
  <2> QED  BY <2>1, SyncingPc, OtherTask
<1>7. ASSUME NEW t \in Tasks, SyncFails(t) PROVE RecallsStay
  <2>1. PICK todo \in Seq(Steps) : Quiet(t, Syncing(todo))
    BY <1>7, SyncFailsIs
  <2> QED  BY <2>1, SyncingPc, OtherTask DEF Quiet
<1>8. ASSUME NEW t \in Tasks, Mark(t) PROVE RecallsStay
  <2>1. PICK k : Quiet(t, k) /\ Syncer(k)
    BY <1>8, MarkIs
  <2> QED  BY <2>1, OtherTask DEF Quiet, Syncer
<1>9. ASSUME NEW t \in Tasks, Advance(t)
      PROVE  RecallsStay \/ Reads(t)
  BY <1>3, <1>4, <1>6, <1>8, <1>9 DEF Advance, Reads
<1> QED  BY <1>1, <1>2, <1>5, <1>7, <1>9 DEF Next

\* A row that is not visible to a recall becomes so only when it is brought back.
LEMMA StaysHidden ==
  ASSUME Age, NEW op, NEW id \in Ids, ~Visible(id, op)
  PROVE  id \in revived' \/ ~Visible(id, op)'
BY DEF Age, SameFact, Visible, InScope

\* Every step keeps what a recall has found current.
LEMMA RecallStep ==
  ASSUME RecallInv, [Next]_vars
  PROVE  RecallInv'
<1>1. TypeInv /\ TypeInv' /\ Age
  BY TypeStep DEF RecallInv
<1>2. ASSUME NEW t \in Tasks, At(t, "recall"), NEW k, k = task[t],
             NEW id \in k.hidden
      PROVE  id \in Ids /\ (id \in revived' \/ ~Visible(id, k)')
  <2>1. id \in Ids /\ (id \in revived \/ ~Visible(id, k))
    BY <1>2 DEF RecallInv, RecallOK
  <2> QED  BY <1>1, <2>1, StaysHidden DEF Age
<1>3. ASSUME NEW t \in Tasks, At(t, "recall"), task'[t] = task[t] PROVE RecallOK(t)'
  <2>1. PICK k : k = task[t]
    OBVIOUS
  <2>2. k.hidden \subseteq Ids /\ k.found \cap k.hidden \subseteq revived
    BY <1>3, <2>1 DEF RecallInv, RecallOK
  <2>3. \A id \in k.hidden : id \in Ids /\ (id \in revived' \/ ~Visible(id, k)')
    BY <1>2, <1>3, <2>1
  <2>4. task'[t] = k
    BY <1>3, <2>1
  <2> QED  BY <1>1, <2>2, <2>3, <2>4 DEF RecallOK, Age, Visible
<1>4. CASE RecallsStay
  BY <1>1, <1>3, <1>4 DEF RecallsStay, RecallInv, RecallOK, At
<1>5. ASSUME NEW t \in Tasks, NEW k, Quiet(t, k), UNCHANGED <<rows, revived>>,
             k.pc = "recall" =>
               /\ k.hidden \subseteq Ids
               /\ \A id \in k.hidden : id \in revived \/ ~Visible(id, k)
               /\ k.found \cap k.hidden \subseteq revived
      PROVE  RecallInv'
  <2>1. task'[t] = k /\ \A u \in Tasks \ {t} : task'[u] = task[u]
    BY <1>1, <1>5 DEF Quiet, TypeInv
  <2>2. RecallOK(t)'
    BY <1>5, <2>1 DEF RecallOK, At, Visible, Ids
  <2>3. \A u \in Tasks \ {t} : RecallOK(u)'
    BY <1>3, <2>1 DEF RecallOK, At
  <2> QED  BY <1>1, <2>2, <2>3 DEF RecallInv
<1>6. ASSUME NEW t \in Tasks, NEW k, Begins(t, k) PROVE RecallInv'
  <2>1. Quiet(t, k) /\ UNCHANGED <<rows, revived>>
    BY <1>6 DEF Begins, Start, Quiet
  <2> QED  BY <1>5, <1>6, <2>1 DEF Begins
<1>7. ASSUME NEW t \in Tasks, Reads(t) PROVE RecallInv'
  <2>1. At(t, "recall") /\ UNCHANGED <<rows, revived>>
    BY <1>1, <1>7, ReadsIs DEF Reads, ReadLexical, ReadIndex, CheckHit, EndRecall
  <2>2. PICK k : /\ Quiet(t, k)
                 /\ k = Idle \/
                      /\ Reader(k) /\ k.kind = task[t].kind /\ k.conv = task[t].conv
                      /\ k.hidden = task[t].hidden
                      /\ \A id \in k.found : id \in task[t].found \/ Visible(id, task[t])
    BY <1>1, <1>7, ReadsIs
  <2>3. CASE k = Idle
    BY <1>5, <2>1, <2>2, <2>3 DEF Idle
  <2>4. CASE k # Idle
    <3>1. RecallOK(t)
      BY DEF RecallInv
    <3>2. \A id : Visible(id, k) <=> Visible(id, task[t])
      BY <2>2, <2>4 DEF Visible, InScope
    <3>3. /\ k.hidden \subseteq Ids
          /\ \A id \in k.hidden : id \in revived \/ ~Visible(id, k)
      BY <2>1, <2>2, <2>4, <3>1, <3>2 DEF RecallOK
    <3>4. k.found \cap k.hidden \subseteq revived
      BY <2>1, <2>2, <2>4, <3>1 DEF RecallOK
    <3> QED  BY <1>5, <2>1, <2>2, <3>3, <3>4
  <2> QED  BY <2>3, <2>4
<1> QED  BY <1>1, <1>4, <1>6, <1>7, RecallStepIs

\* A recall never returns what was forgotten, replaced or out of its scope when it began.
THEOREM RecallsAreCurrent == Spec => []RecallIsCurrent
<1>1. Init => RecallInv
  <2>1. ASSUME Init PROVE TypeInv /\ \A t \in Tasks : ~At(t, "recall")
    BY <2>1, LineInit DEF Init, LineInv, At, Idle
  <2> QED  BY <2>1 DEF RecallInv, RecallOK
<1>2. RecallInv => RecallIsCurrent
  BY DEF RecallInv, RecallOK, RecallIsCurrent
<1> QED  BY <1>1, <1>2, RecallStep, PTL DEF Spec

(***************************************************************************)
(* The indexes.                                                            *)
(***************************************************************************)

\* A step some task has still to do, or was to do when it was lost.
Coming(step) ==
  \/ step \in dropped
  \/ \E t \in Tasks : At(t, "sync") /\ step \in ToSet(task[t].todo)

Indexed(id) ==
  /\ id \in vectors \/ <<id, "qdrant">> \in failed \/ Coming(Step("vector put", id))
  /\ rows[id].kind = "semantic" /\ rows[id].value \in Linked =>
       id \in graph \/ <<id, "neo4j">> \in failed \/ Coming(Step("graph put", id))

\* Only what is not active any more is taken out of an index.
Good(s) == s.id \in Ids /\ (s.do \in Deletes => rows[s.id].status # "active")

ListsAreGood == \A t \in Tasks : At(t, "sync") => \A s \in ToSet(task[t].todo) : Good(s)

IndexInv ==
  /\ TypeInv /\ ListsAreGood
  /\ \A id \in Ids : rows[id].status = "active" => Indexed(id)

\* The steps that were on their way are, or are among those now done.
StillComing(done) == \A s : Coming(s) => Coming(s)' \/ s \in done

\* What a step has done leaves its memory in the index, or the failure recorded.
Done(done) ==
  \A s \in done :
    /\ s.do = "vector put" => s.id \in vectors' \/ <<s.id, "qdrant">> \in failed'
    /\ s.do = "graph put" => s.id \in graph' \/ <<s.id, "neo4j">> \in failed'

\* No entry of an active memory is lost.
EntriesStay ==
  /\ failed \subseteq failed'
  /\ \A id \in Ids : rows'[id].status = "active" =>
       (id \in vectors => id \in vectors') /\ (id \in graph => id \in graph')

\* A step that loses no entry of an active memory, drops nothing that was on its way and
\* begins every new row leaves all active memories indexed, on their way or recorded.
LEMMA IndexKept ==
  ASSUME IndexInv, TypeInv', Age, ListsAreGood', EntriesStay,
         NEW done, StillComing(done), Done(done), \A n \in Ids' \ Ids : Indexed(n)'
  PROVE  IndexInv'
<1>1. ASSUME NEW id \in Ids, rows'[id].status = "active" PROVE Indexed(id)'
  <2>1. rows[id].status = "active" /\ SameFact(rows[id], rows'[id])
    BY <1>1 DEF Age
  <2>2. Indexed(id)
    BY <2>1 DEF IndexInv
  <2>3. PICK v, g : v = Step("vector put", id) /\ g = Step("graph put", id)
    OBVIOUS
  <2>4. v.do = "vector put" /\ v.id = id /\ g.do = "graph put" /\ g.id = id
    BY <2>3 DEF Step
  <2>5. Coming(v) => id \in vectors' \/ <<id, "qdrant">> \in failed' \/ Coming(v)'
    BY <2>4 DEF StillComing, Done
  <2>6. Coming(g) => id \in graph' \/ <<id, "neo4j">> \in failed' \/ Coming(g)'
    BY <2>4 DEF StillComing, Done
  <2>7. id \in vectors' \/ <<id, "qdrant">> \in failed' \/ Coming(v)'
    BY <1>1, <2>2, <2>3, <2>5 DEF Indexed, EntriesStay
  <2>8. rows'[id].kind = "semantic" /\ rows'[id].value \in Linked =>
          id \in graph' \/ <<id, "neo4j">> \in failed' \/ Coming(g)'
    BY <1>1, <2>1, <2>2, <2>3, <2>6 DEF Indexed, EntriesStay, SameFact
  <2>9. v = Step("vector put", id)' /\ g = Step("graph put", id)'
    BY <2>3 DEF Step
  <2> QED  BY <2>7, <2>8, <2>9 DEF Indexed
<1> QED  BY <1>1 DEF IndexInv

\* What was good to do stays good to do.
LEMMA StaysGood ==
  ASSUME Age, NEW s, Good(s)
  PROVE  Good(s)'
BY DEF Age, Good

\* A task goes on, and the others as before.
LEMMA TaskGoesOn ==
  ASSUME IndexInv, Age, NEW t \in Tasks, NEW k, task' = [task EXCEPT ![t] = k],
         dropped \subseteq dropped', NEW done,
         \A s : At(t, "sync") /\ s \in ToSet(task[t].todo) =>
                  s \in done \/ s \in dropped' \/ (k.pc = "sync" /\ s \in ToSet(k.todo)),
         \A s : k.pc = "sync" /\ s \in ToSet(k.todo) =>
                  (At(t, "sync") /\ s \in ToSet(task[t].todo)) \/ Good(s)'
  PROVE  StillComing(done) /\ ListsAreGood'
<1>1. task'[t] = k /\ \A u \in Tasks \ {t} : task'[u] = task[u]
  BY DEF IndexInv, TypeInv
<1>2. \A u \in Tasks : (At(u, "sync") => \A s \in ToSet(task[u].todo) : Good(s)')
  BY StaysGood DEF IndexInv, ListsAreGood
<1>3. ListsAreGood'
  BY <1>1, <1>2 DEF ListsAreGood, At
<1>4. ASSUME NEW s, Coming(s), s \notin done PROVE Coming(s)'
  <2>1. CASE s \in dropped
    BY <2>1 DEF Coming
  <2>2. ASSUME NEW u \in Tasks, At(u, "sync"), s \in ToSet(task[u].todo) PROVE Coming(s)'
    <3>1. CASE u = t
      BY <1>1, <1>4, <2>2, <3>1 DEF Coming, At
    <3>2. CASE u # t
      BY <1>1, <2>2, <3>2 DEF Coming, At
    <3> QED  BY <3>1, <3>2
  <2> QED  BY <1>4, <2>1, <2>2 DEF Coming
<1> QED  BY <1>3, <1>4 DEF StillComing

\* A write has to put its row into the indexes, and to take out only what it has replaced.
LEMMA WriteIs ==
  ASSUME TypeInv, NEW t \in Tasks, At(t, "commit"),
         NEW out \in Outcomes(task[t].req, task[t].held), Written(out),
         NEW todo, todo = Todo(task[t].req, out)
  PROVE  /\ todo \in Seq(Steps) /\ \A s \in ToSet(todo) : Good(s)'
         /\ \A n \in Ids' \ Ids :
              /\ Step("vector put", n) \in ToSet(todo)
              /\ rows'[n].kind = "semantic" /\ rows'[n].value \in Linked =>
                   Step("graph put", n) \in ToSet(todo)
<1>1. PICK m, ids, old, n :
        m = task[t].req /\ ids = task[t].held /\ old = out.old /\ n = Len(rows')
  OBVIOUS
<1>2. m \in Request /\ ids \subseteq Ids /\ out \in Outcomes(m, ids) /\ rows \in Seq(Row)
  BY <1>1, TaskIs DEF TypeInv, At, Writer, InTransaction
<1>3. \/ out.rows = rows
      \/ IsWritten(out.rows, m, out.old) /\ (out.old \in ids \/ (ids = {} /\ out.old = 0))
  BY <1>2, OutcomeIs, Zenon
<1>4. CASE out.rows = rows
  <2>1. todo = <<>> /\ rows' = rows
    BY <1>4 DEF Todo, Written
  <2> QED  BY <2>1, NoStep DEF Ids
<1>5. CASE out.rows # rows
  <2>1. rows' = out.rows
    BY DEF Written
  <2>2. IsWritten(rows', m, old) /\ (old \in ids \/ old = 0)
    BY <1>1, <1>3, <1>5, <2>1
  <2>3. todo = SyncSteps(m, n, old)
    BY <1>1, <1>5, <2>1 DEF Todo
  <2>4. old \in Nat /\ n \in Nat
    BY <1>1, <1>2, <2>2, IdsAre DEF IsWritten
  <2>5. /\ todo \in Seq(Steps)
        /\ \A s \in ToSet(todo) :
             \/ s.do \in Puts /\ s.id = n
             \/ s.do \in Deletes /\ s.id = old /\ old # 0
        /\ Step("vector put", n) \in ToSet(todo)
        /\ m.kind = "semantic" /\ m.value \in Linked => Step("graph put", n) \in ToSet(todo)
    <3>1. PICK steps : steps = SyncSteps(m, n, old)
      OBVIOUS
    <3>2. /\ steps \in Seq(Steps)
          /\ \A s \in ToSet(steps) :
               \/ s.do \in Puts /\ s.id = n
               \/ s.do \in Deletes /\ s.id = old /\ old # 0
          /\ Step("vector put", n) \in ToSet(steps)
          /\ m.kind = "semantic" /\ m.value \in Linked => Step("graph put", n) \in ToSet(steps)
      BY <2>4, <3>1, SyncStepsIs, Zenon
    <3> QED  BY <2>3, <3>1, <3>2
  <2>6. Ids' = Ids \cup {n}
    BY <1>1, <2>2 DEF IsWritten, Ids
  <2>7. rows'[n].kind = m.kind /\ rows'[n].value = m.value
    <3>1. PICK new : new = NewRow(m, IF old = 0 THEN 1 ELSE rows[old].version + 1, old)
      OBVIOUS
    <3>2. new.kind = m.kind /\ new.value = m.value
      BY <3>1 DEF NewRow
    <3>3. SameFact(rows'[n], new)
      BY <1>1, <2>2, <3>1 DEF IsWritten
    <3> QED  BY <3>2, <3>3 DEF SameFact
  <2>8. old # 0 => old \in Ids /\ rows'[old].status = "superseded"
    BY <2>2 DEF IsWritten
  <2>9. ASSUME NEW s \in ToSet(todo) PROVE Good(s)'
    <3>1. CASE s.do \in Puts /\ s.id = n
      BY <2>6, <3>1 DEF Good, Puts, Deletes
    <3>2. CASE s.do \in Deletes /\ s.id = old /\ old # 0
      BY <2>6, <2>8, <3>2 DEF Good
    <3> QED  BY <2>5, <2>9, <3>1, <3>2
  <2> QED  BY <2>5, <2>6, <2>7, <2>9
<1> QED  BY <1>4, <1>5

\* A commit, also one that nobody learns of.
LEMMA CommitIndex ==
  ASSUME IndexInv, TypeInv', Age, NEW t \in Tasks, Commit(t) \/ WriteIsLost(t)
  PROVE  IndexInv'
<1>1. ASSUME NEW done, StillComing(done), done = {}, ListsAreGood',
             \A n \in Ids' \ Ids : Indexed(n)'
      PROVE  IndexInv'
  <2>1. EntriesStay /\ Done(done)
    BY <1>1 DEF Commit, WriteIsLost, EntriesStay, Done
  <2> QED  BY <1>1, <2>1, IndexKept
<1>2. CASE Commit(t)
  <2>0. PICK out \in Outcomes(task[t].req, task[t].held) :
          /\ At(t, "commit") /\ Written(out) /\ dropped' = dropped
          /\ task' = [task EXCEPT ![t] = Syncing(Todo(task[t].req, out))]
    BY <1>2 DEF Commit
  <2>1. PICK todo, k :
          /\ At(t, "commit") /\ Written(out) /\ todo = Todo(task[t].req, out)
          /\ task' = [task EXCEPT ![t] = k] /\ k = Syncing(todo) /\ dropped' = dropped
    BY <2>0
  <2>2. /\ todo \in Seq(Steps) /\ \A s \in ToSet(todo) : Good(s)'
        /\ \A n \in Ids' \ Ids :
              /\ Step("vector put", n) \in ToSet(todo)
              /\ rows'[n].kind = "semantic" /\ rows'[n].value \in Linked =>
                   Step("graph put", n) \in ToSet(todo)
    BY <2>1, WriteIs DEF IndexInv
  <2>3. todo = <<>> \/ (k.pc = "sync" /\ k.todo = todo)
    BY <2>1, <2>2, SyncingIs
  <2>4. todo = <<>> => k.pc # "sync"
    BY <2>1, <2>2, SyncingIs
  <2>5. PICK done : done = {}
    OBVIOUS
  <2>6. StillComing(done) /\ ListsAreGood'
    <3>1. ~At(t, "sync")
      BY <2>1 DEF At
    <3>2. \A s : k.pc = "sync" /\ s \in ToSet(k.todo) => Good(s)'
      BY <2>2, <2>3, <2>4
    <3> QED  BY <2>1, <3>1, <3>2, TaskGoesOn
  <2>7. \A s \in ToSet(todo) : Coming(s)'
    <3>1. task'[t] = k
      BY <2>1 DEF IndexInv, TypeInv
    <3>2. todo # <<>> => \A s \in ToSet(todo) : Coming(s)'
      BY <2>3, <3>1 DEF Coming, At
    <3> QED  BY <3>2, NoStep
  <2>8. \A n \in Ids' \ Ids : Indexed(n)'
    BY <2>2, <2>7 DEF Indexed, Step
  <2> QED  BY <1>1, <2>5, <2>6, <2>8
<1>3. CASE WriteIsLost(t)
  <2>1. PICK done, k : done = {} /\ k = Idle
    OBVIOUS
  <2>2. /\ InTransaction(t) /\ ~At(t, "sync") /\ k.pc # "sync"
        /\ task' = [task EXCEPT ![t] = k] /\ dropped \subseteq dropped'
    BY <1>3, <2>1 DEF WriteIsLost, InTransaction, At, Idle
  <2>3. StillComing(done) /\ ListsAreGood'
    BY <2>2, TaskGoesOn
  <2>4. CASE UNCHANGED <<rows, saved, dropped>>
    BY <1>1, <2>1, <2>3, <2>4 DEF Ids
  <2>5. ASSUME At(t, "commit"), NEW out \in Outcomes(task[t].req, task[t].held), Written(out),
               NEW todo, todo = Todo(task[t].req, out), dropped' = dropped \cup ToSet(todo)
        PROVE  IndexInv'
    <3>1. \A n \in Ids' \ Ids :
              /\ Step("vector put", n) \in ToSet(todo)
              /\ rows'[n].kind = "semantic" /\ rows'[n].value \in Linked =>
                   Step("graph put", n) \in ToSet(todo)
      BY <2>5, WriteIs DEF IndexInv
    <3>2. \A s \in ToSet(todo) : Coming(s)'
      BY <2>5 DEF Coming
    <3>3. \A n \in Ids' \ Ids : Indexed(n)'
      BY <3>1, <3>2 DEF Indexed, Step
    <3> QED  BY <1>1, <2>1, <2>3, <3>3
  <2> QED  BY <1>3, <2>4, <2>5 DEF WriteIsLost
<1> QED  BY <1>2, <1>3

\* What a task that goes on with a list has to do is that list.
LEMMA SyncingHas ==
  ASSUME NEW todo \in Seq(Steps)
  PROVE  \A s : (Syncing(todo).pc = "sync" /\ s \in ToSet(Syncing(todo).todo)) <=> s \in ToSet(todo)
<1>1. PICK k : k = Syncing(todo)
  OBVIOUS
<1>2. /\ todo = <<>> => k.pc = "idle"
      /\ todo # <<>> => k.pc = "sync" /\ k.todo = todo
  BY <1>1, SyncingIs
<1>3. \A s : (k.pc = "sync" /\ s \in ToSet(k.todo)) <=> s \in ToSet(todo)
  BY <1>2, NoStep
<1> QED  BY <1>1, <1>3

\* A task has done the first step of its list and goes on with the rest of it.
LEMMA ListGoesOn ==
  ASSUME IndexInv, TypeInv', Age, Ids' = Ids, EntriesStay, dropped \subseteq dropped',
         NEW t \in Tasks, At(t, "sync"), NEW head, head = Head(task[t].todo), Done({head}),
         NEW k, task' = [task EXCEPT ![t] = k],
         \A s \in ToSet(Tail(task[t].todo)) :
           s.do = "asset" \/ (k.pc = "sync" /\ s \in ToSet(k.todo)),
         \A s : k.pc = "sync" /\ s \in ToSet(k.todo) =>
           s \in ToSet(Tail(task[t].todo)) \/ Good(s)'
  PROVE  IndexInv'
<1>1. ToSet(task[t].todo) = {head} \cup ToSet(Tail(task[t].todo))
  BY NextStepIs DEF IndexInv
<1>2. PICK done : done = {s \in ToSet(task[t].todo) : s = head \/ s.do = "asset"}
  OBVIOUS
<1>3. StillComing(done) /\ ListsAreGood'
  BY <1>1, <1>2, TaskGoesOn
<1>4. Done(done)
  BY <1>2 DEF Done
<1> QED  BY <1>3, <1>4, IndexKept

\* A row that leaves the indexes is not active by then.
LEMMA MarkIndex ==
  ASSUME IndexInv, TypeInv', Age, NEW t \in Tasks, Mark(t)
  PROVE  IndexInv'
<1>1. At(t, "sync") /\ Head(task[t].todo).do \in Marks
  BY DEF Mark, Does, Marks
<1>2. PICK head, id : head = Head(task[t].todo) /\ id = head.id /\ id = Target(t)
  BY DEF Target
<1>3. Good(head)
  BY <1>1, <1>2, NextStepIs DEF IndexInv, ListsAreGood
<1>4. rows' = [rows EXCEPT ![id].status = head.do]
  BY <1>2 DEF Mark
<1>5. id \in Ids /\ rows[id] \in Row
  BY <1>2, <1>3, IdsAre DEF Good, IndexInv, TypeInv
<1>6. rows'[id].status = head.do /\ Ids' = Ids
  <2>1. rows'[id] = [rows[id] EXCEPT !.status = head.do]
    BY <1>4, <1>5 DEF Ids
  <2>2. Ids' = Ids
    BY <1>4 DEF Ids
  <2> QED  BY <1>5, <2>1, <2>2 DEF Row
<1>7. PICK k : /\ Quiet(t, k) /\ Syncer(k)
               /\ \A s \in ToSet(k.todo) :
                    \/ s.do \in Deletes /\ s.id = id
                    \/ s \in ToSet(Tail(task[t].todo))
               /\ ToSet(Tail(task[t].todo)) \subseteq ToSet(k.todo)
  BY <1>2, MarkIs DEF IndexInv
<1>8. \A s : s.do \in Deletes /\ s.id = id => Good(s)'
  BY <1>1, <1>2, <1>5, <1>6 DEF Good, Marks
<1>9. EntriesStay /\ Done({head}) /\ dropped' = dropped
  BY <1>1, <1>2 DEF Mark, indexes, EntriesStay, Done, Marks
<1> QED  BY <1>1, <1>2, <1>6, <1>7, <1>8, <1>9, ListGoesOn DEF Quiet, Syncer

\* An entry that is deleted is not of an active memory, and one that is put is there.
LEMMA SyncIndex ==
  ASSUME IndexInv, TypeInv', Age, NEW t \in Tasks,
         SyncVector(t) \/ SaveGraph(t) \/ SyncGraph(t) \/ MarkAsset(t)
  PROVE  IndexInv'
<1>1. At(t, "sync") /\ rows' = rows /\ Pop(t) /\ dropped' = dropped /\ failed' = failed
  BY DEF SyncVector, SaveGraph, SyncGraph, MarkAsset, Does
<1>2. PICK head, rest, k :
        /\ head = Head(task[t].todo) /\ rest = Tail(task[t].todo) /\ k = Syncing(rest)
  OBVIOUS
<1>3. task' = [task EXCEPT ![t] = k] /\ rest \in Seq(Steps)
  BY <1>1, <1>2, NextStepIs DEF Pop, IndexInv
<1>4. \A s : (k.pc = "sync" /\ s \in ToSet(k.todo)) <=> s \in ToSet(rest)
  BY <1>2, <1>3, SyncingHas
<1>5. Good(head)
  BY <1>1, <1>2, NextStepIs DEF IndexInv, ListsAreGood
<1>6. EntriesStay /\ Done({head})
  <2>1. CASE SyncVector(t)
    <3>1. /\ head.do \in {"vector put", "vector delete"} /\ graph' = graph
          /\ vectors' = IF head.do = "vector put" THEN vectors \cup {head.id}
                        ELSE vectors \ {head.id}
      BY <1>1, <1>2, <2>1 DEF SyncVector, Does, Target
    <3> QED  BY <1>1, <1>5, <3>1 DEF EntriesStay, Done, Good, Deletes
  <2>2. CASE SyncGraph(t)
    <3>1. /\ head.do \in {"graph put", "graph delete"} /\ vectors' = vectors
          /\ graph' = IF head.do = "graph put" THEN graph \cup {head.id}
                      ELSE graph \ {head.id}
      BY <1>1, <1>2, <2>2 DEF SyncGraph, Does, Target
    <3> QED  BY <1>1, <1>5, <3>1 DEF EntriesStay, Done, Good, Deletes
  <2>3. CASE SaveGraph(t) \/ MarkAsset(t)
    BY <1>1, <1>2, <2>3 DEF SaveGraph, MarkAsset, Does, EntriesStay, Done
  <2> QED  BY <2>1, <2>2, <2>3
<1> QED  BY <1>1, <1>2, <1>3, <1>4, <1>6, ListGoesOn DEF Ids

\* A step that fails leaves its entry in the index, or is recorded.
LEMMA FailIndex ==
  ASSUME IndexInv, TypeInv', Age, NEW t \in Tasks, SyncFails(t)
  PROVE  IndexInv'
<1>1. At(t, "sync") /\ rows' = rows /\ dropped' = dropped
  BY DEF SyncFails, Does
<1>2. PICK head, rest : head = Head(task[t].todo) /\ rest = Tail(task[t].todo)
  OBVIOUS
<1>3. PICK todo \in Seq(Steps) :
        /\ Quiet(t, Syncing(todo))
        /\ \A s \in ToSet(todo) : s \in ToSet(rest) \/ s.do = "asset unindexed"
        /\ \A s \in ToSet(todo) : s.id \in {r.id : r \in ToSet(rest)}
        /\ \A s \in ToSet(rest) : s.do # "asset" => s \in ToSet(todo)
  BY <1>2, SyncFailsIs DEF IndexInv
<1>4. PICK k : k = Syncing(todo)
  OBVIOUS
<1>5. \A s : (k.pc = "sync" /\ s \in ToSet(k.todo)) <=> s \in ToSet(todo)
  BY <1>4, SyncingHas
<1>6. ToSet(task[t].todo) = {head} \cup ToSet(rest)
  BY <1>1, <1>2, NextStepIs DEF IndexInv
<1>7. Good(head) /\ \A r \in ToSet(rest) : Good(r)
  BY <1>1, <1>6 DEF IndexInv, ListsAreGood
<1>8. \A s \in ToSet(todo) : s \in ToSet(rest) \/ Good(s)'
  <2>1. \A s \in ToSet(todo) : s.id \in Ids
    BY <1>3, <1>7 DEF Good
  <2> QED  BY <1>1, <1>3, <2>1 DEF Good, Ids, Deletes
<1>9. /\ head.do \in {"vector put", "vector delete", "graph put", "graph delete"}
      /\ failed' = failed \cup
           {<<head.id, IF head.do \in {"vector put", "vector delete"} THEN "qdrant" ELSE "neo4j">>}
      /\ vectors' \in {vectors, IF head.do = "vector put" THEN vectors \cup {head.id} ELSE
                         IF head.do = "vector delete" THEN vectors \ {head.id} ELSE vectors}
      /\ graph' \in {graph, IF head.do = "graph put" THEN graph \cup {head.id} ELSE
                       IF head.do = "graph delete" THEN graph \ {head.id} ELSE graph}
  BY <1>1, <1>2 DEF SyncFails, Does, Target
<1>10. EntriesStay
  <2>1. \A id \in Ids : rows'[id].status = "active" /\ head.do \in Deletes => id # head.id
    BY <1>1, <1>7 DEF Good
  <2>2. \A id \in Ids : rows'[id].status = "active" /\ id \in vectors => id \in vectors'
    BY <1>9, <2>1 DEF Deletes
  <2>3. \A id \in Ids : rows'[id].status = "active" /\ id \in graph => id \in graph'
    BY <1>9, <2>1 DEF Deletes
  <2> QED  BY <1>9, <2>2, <2>3 DEF EntriesStay
<1>11. Done({head})
  BY <1>9 DEF Done
<1> QED  BY <1>1, <1>2, <1>3, <1>4, <1>5, <1>8, <1>10, <1>11, ListGoesOn DEF Ids, Quiet

\* Every step keeps the account of what the indexes do not have.
LEMMA IndexStep ==
  ASSUME IndexInv, [Next]_vars
  PROVE  IndexInv'
<1>1. TypeInv /\ TypeInv' /\ Age
  BY TypeStep DEF IndexInv
<1>2. ASSUME NEW done, done = {}, StillComing(done), ListsAreGood', Ids' = Ids,
             UNCHANGED indexes
      PROVE  IndexInv'
  <2>1. EntriesStay /\ Done(done)
    BY <1>2 DEF EntriesStay, Done, indexes
  <2> QED  BY <1>1, <1>2, <2>1, IndexKept
<1>3. CASE UNCHANGED vars \/ \E id \in Ids : ExtendExpiry(id) \/ TimePasses(id)
  <2>1. UNCHANGED <<task, dropped, indexes>> /\ Ids' = Ids
    BY <1>1, <1>3, ExpiryAges DEF vars, ExtendExpiry, TimePasses, Ids
  <2>2. PICK done : done = {}
    OBVIOUS
  <2>3. StillComing(done)
    BY <2>1 DEF StillComing, Coming, At
  <2>4. ListsAreGood'
    BY <1>1, <2>1, StaysGood DEF IndexInv, ListsAreGood, At
  <2> QED  BY <1>2, <2>1, <2>2, <2>3, <2>4
<1>4. ASSUME NEW t \in Tasks, NEW k, Begins(t, k) \/ (Quiet(t, k) /\ k.pc # "sync" /\ ~At(t, "sync")),
             UNCHANGED <<rows, indexes, dropped>>
      PROVE  IndexInv'
  <2>1. task' = [task EXCEPT ![t] = k] /\ ~At(t, "sync")
    BY <1>4 DEF Begins, Start, Quiet, At
  <2>2. \A s : k.pc = "sync" /\ s \in ToSet(k.todo) => Good(s)'
    BY <1>4 DEF Begins, Good, Marks, Deletes, Ids
  <2>3. PICK done : done = {}
    OBVIOUS
  <2>4. StillComing(done) /\ ListsAreGood'
    BY <1>1, <1>4, <2>1, <2>2, TaskGoesOn
  <2> QED  BY <1>2, <1>4, <2>3, <2>4 DEF Ids
<1>5. ASSUME NEW t \in Tasks,
             \/ \E m \in Requests : StartWrite(t, m)
             \/ \E id \in Ids : StartForget(t, id)
             \/ StartExpire(t)
             \/ \E kind \in {m.kind : m \in Requests}, conv \in Conversations :
                  StartRecall(t, kind, conv)
      PROVE  IndexInv'
  <2>1. PICK k : Begins(t, k)
    BY <1>1, <1>5, StartIs
  <2> QED  BY <1>4, <2>1 DEF Begins, Start
<1>6. ASSUME NEW t \in Tasks, Select(t) \/ LockRows(t) PROVE IndexInv'
  <2>1. /\ UNCHANGED <<rows, indexes, dropped>> /\ Writer(task[t]) /\ Writer(task'[t])
        /\ \A u \in Tasks \ {t} : task'[u] = task[u]
    BY <1>1, <1>6, LockingIs
  <2>2. \A u \in Tasks : At(u, "sync")' \/ At(u, "sync") =>
          At(u, "sync")' /\ At(u, "sync") /\ task'[u] = task[u]
    BY <2>1 DEF Writer, At
  <2>3. PICK done : done = {}
    OBVIOUS
  <2>4. StillComing(done)
    BY <2>1, <2>2 DEF StillComing, Coming
  <2>5. ListsAreGood'
    BY <1>1, <2>2, StaysGood DEF IndexInv, ListsAreGood
  <2> QED  BY <1>2, <2>1, <2>3, <2>4, <2>5 DEF Ids
<1>7. ASSUME NEW t \in Tasks, Reads(t) PROVE IndexInv'
  <2>1. ~At(t, "sync")
    BY <1>7 DEF Reads, ReadLexical, ReadIndex, CheckHit, EndRecall, At
  <2>2. UNCHANGED <<rows, indexes, dropped>> /\ \E k : Quiet(t, k) /\ (k = Idle \/ Reader(k))
    BY <1>1, <1>7, ReadsIs
  <2> QED  BY <1>4, <2>1, <2>2 DEF Idle, Reader
<1>8. ASSUME NEW t \in Tasks, Abandon(t) PROVE IndexInv'
  <2>1. /\ UNCHANGED <<rows, indexes>> /\ task' = [task EXCEPT ![t] = Idle]
        /\ dropped' = dropped \cup ToSet(task[t].todo) /\ Idle.pc # "sync"
    BY <1>8 DEF Abandon, Idle
  <2>2. PICK done : done = {}
    OBVIOUS
  <2>3. StillComing(done) /\ ListsAreGood'
    BY <1>1, <2>1, TaskGoesOn
  <2> QED  BY <1>2, <2>1, <2>2, <2>3 DEF Ids
<1>9. ASSUME NEW t \in Tasks, Advance(t) \/ WriteIsLost(t) \/ SyncFails(t) PROVE IndexInv'
  BY <1>1, <1>6, <1>7, <1>9, CommitIndex, MarkIndex, SyncIndex, FailIndex DEF Advance, Reads
<1> QED  BY <1>3, <1>5, <1>8, <1>9 DEF Next

\* What an index does not have of a retrievable memory is coming, recorded as failed, or
\* was left by a lost task.
THEOREM WhatIsMissingIsRecorded == Spec => []MissingIsRecorded
<1>1. Init => IndexInv
  <2>1. ASSUME Init PROVE TypeInv /\ Ids = {} /\ \A t \in Tasks : ~At(t, "sync")
    BY <2>1, LineInit DEF Init, LineInv, At, Idle, Ids
  <2> QED  BY <2>1 DEF IndexInv, ListsAreGood
<1>2. IndexInv => MissingIsRecorded
  BY DEF IndexInv, Indexed, Coming, MissingIsRecorded, Retrievable
<1> QED  BY <1>1, <1>2, IndexStep, PTL DEF Spec
=============================================================================
