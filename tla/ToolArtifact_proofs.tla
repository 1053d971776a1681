------------------------ MODULE ToolArtifact_proofs ------------------------
(***************************************************************************)
(* Proofs about ToolArtifact for any results the tools may return, any     *)
(* limits and any number of faults.                                        *)
(***************************************************************************)
EXTENDS ToolArtifact, FiniteSetTheorems, WellFoundedInduction, TLAPS

\* A set of positions of a sequence that is not empty has a last element:
\* _final_output always finds the report it looks for.
LEMMA LastPosition ==
  ASSUME NEW n \in Nat, NEW S \in SUBSET (1..n), S # {}
  PROVE  \E i \in S : \A j \in S : j <= i
<1> DEFINE T == {n - i : i \in S}
<1>1. T \subseteq Nat /\ T # {}
  <2>1. PICK i \in S : TRUE
    OBVIOUS
  <2>2. n - i \in T
    BY <2>1
  <2>3. \A j \in S : n - j \in Nat
    OBVIOUS
  <2> QED  BY <2>2, <2>3
<1>2. PICK m \in T : \A k \in T : ~(<<k, m>> \in OpToRel(<, Nat))
  BY <1>1, NatLessThanWellFounded, WFMin
<1>3. \A k \in T : ~(k < m)
  BY <1>1, <1>2 DEF OpToRel
<1>4. PICK i \in S : m = n - i
  BY <1>2
<1>5. \A j \in S : j <= i
  <2> SUFFICES ASSUME NEW j \in S PROVE j <= i
    OBVIOUS
  <2>1. n - j \in T
    OBVIOUS
  <2> QED  BY <1>3, <1>4, <2>1
<1> QED  BY <1>5

\* What a sequence that grows by one element holds.
LEMMA Appended ==
  ASSUME NEW s, s \in Seq(ToSet(s)), NEW e
  PROVE  /\ Append(s, e) \in Seq(ToSet(Append(s, e)))
         /\ Len(s) \in Nat /\ DOMAIN s = 1..Len(s)
         /\ Len(Append(s, e)) = Len(s) + 1
         /\ DOMAIN Append(s, e) = 1..(Len(s) + 1)
         /\ \A i \in 1..Len(s) : Append(s, e)[i] = s[i]
         /\ Append(s, e)[Len(s) + 1] = e
<1> DEFINE U == ToSet(s) \cup {e}
           t == Append(s, e)
<1>1. s \in Seq(U)
  OBVIOUS
<1>2. /\ t \in Seq(U) /\ Len(t) = Len(s) + 1 /\ Len(s) \in Nat
      /\ DOMAIN s = 1..Len(s) /\ DOMAIN t = 1..(Len(s) + 1)
      /\ \A i \in 1..Len(s) : t[i] = s[i]
      /\ t[Len(s) + 1] = e
  BY <1>1
<1> HIDE DEF t
<1>3. \A i \in 1..Len(t) : t[i] \in ToSet(t)
  BY <1>2 DEF ToSet
<1>4. t \in Seq(ToSet(t))
  BY <1>2, <1>3
<1> QED  BY <1>2, <1>4 DEF t

(***************************************************************************)
(* What the recursive definitions compute.                                 *)
(***************************************************************************)

\* Induction over the places of a sequence.
LEMMA PlaceByPlace ==
  ASSUME NEW n \in Nat, NEW P \in SUBSET (0..n), 0 \in P,
         \A i \in 1..n : i - 1 \in P => i \in P
  PROVE  P = 0..n
<1> DEFINE Left == (0..n) \ P
<1>1. SUFFICES ASSUME Left # {} PROVE FALSE
  OBVIOUS
<1>2. Left \subseteq Nat
  OBVIOUS
<1>3. PICK m \in Left : \A k \in Left : ~(<<k, m>> \in OpToRel(<, Nat))
  BY <1>1, <1>2, NatLessThanWellFounded, WFMin
<1>4. \A k \in Left : ~(k < m)
  BY <1>2, <1>3 DEF OpToRel
<1>5. m \in 1..n
  OBVIOUS
<1>6. m - 1 \notin Left
  BY <1>4, <1>5
<1>7. m - 1 \in P
  BY <1>5, <1>6
<1> QED  BY <1>5, <1>7

\* A function that begins with base and goes on by step from place to place.
GoesBy(f, n, S, base, step) ==
  /\ f \in [0..n -> S]
  /\ f[0] = base
  /\ \A i \in 1..n : f[i] = step[<<i, f[i - 1]>>]

\* There is one as long as the steps lead somewhere.
LEMMA GoesOn ==
  ASSUME NEW n \in Nat, NEW S, NEW base \in S, NEW step,
         \A i \in 1..n : \A x \in S : step[<<i, x>>] \in S
  PROVE  \E f : GoesBy(f, n, S, base, step)
<1> DEFINE P == {k \in 0..n : \E f : GoesBy(f, k, S, base, step)}
<1>1. 0 \in P
  <2>1. PICK f : f = [i \in 0..0 |-> base]
    OBVIOUS
  <2>2. GoesBy(f, 0, S, base, step)
    BY <2>1 DEF GoesBy
  <2> QED  BY <2>2
<1>2. ASSUME NEW k \in 1..n, k - 1 \in P
      PROVE  k \in P
  <2>1. PICK f : GoesBy(f, k - 1, S, base, step)
    BY <1>2
  <2>2. PICK g : g = [i \in 0..k |-> IF i = k THEN step[<<k, f[k - 1]>>] ELSE f[i]]
    OBVIOUS
  <2>3. step[<<k, f[k - 1]>>] \in S
    <3>1. f[k - 1] \in S
      BY <2>1 DEF GoesBy
    <3> QED  BY <3>1
  <2>4. g \in [0..k -> S] /\ g[0] = base
    BY <2>1, <2>2, <2>3 DEF GoesBy
  <2>5. ASSUME NEW i \in 1..k
        PROVE  g[i] = step[<<i, g[i - 1]>>]
    <3>1. i - 1 \in 0..k /\ i - 1 # k /\ g[i - 1] = f[i - 1]
      BY <2>2
    <3>2. CASE i = k
      BY <2>2, <3>1, <3>2
    <3>3. CASE i # k
      <4>1. i \in 1..(k - 1) /\ g[i] = f[i]
        BY <2>2, <3>3
      <4> QED  BY <2>1, <3>1, <4>1 DEF GoesBy
    <3> QED  BY <3>2, <3>3
  <2>6. GoesBy(g, k, S, base, step)
    BY <2>4, <2>5 DEF GoesBy
  <2> QED  BY <2>6
<1>3. P = 0..n
  <2>1. P \in SUBSET (0..n)
    OBVIOUS
  <2> HIDE DEF P
  <2> QED  BY <1>1, <1>2, <2>1, PlaceByPlace
<1>4. n \in P
  BY <1>3
<1> QED  BY <1>4

\* What Dedup makes of references: the same ones, each of them once.
LEMMA Deduplicated ==
  ASSUME NEW R, NEW refs \in Seq(R)
  PROVE  /\ Dedup(refs) \in Seq(R)
         /\ \A i, j \in DOMAIN Dedup(refs) : Dedup(refs)[i] = Dedup(refs)[j] => i = j
         /\ refs # <<>> => Dedup(refs) # <<>>
<1> DEFINE n == Len(refs)
           step == [p \in (1..n) \X Seq(R) |->
                      IF refs[p[1]] \in ToSet(p[2]) THEN p[2] ELSE Append(p[2], refs[p[1]])]
           Is(f) == f = [i \in 0..n |->
                      IF i = 0 THEN <<>>
                      ELSE IF refs[i] \in ToSet(f[i - 1]) THEN f[i - 1]
                           ELSE Append(f[i - 1], refs[i])]
<1>1. n \in Nat /\ \A i \in 1..n : refs[i] \in R
  OBVIOUS
<1>2. \E f : Is(f)
  <2>1. ASSUME NEW i \in 1..n, NEW q \in Seq(R)
        PROVE  /\ step[<<i, q>>] \in Seq(R)
               /\ step[<<i, q>>] = IF refs[i] \in ToSet(q) THEN q ELSE Append(q, refs[i])
    <3>1. refs[i] \in R
      BY <1>1
    <3> QED  BY <3>1
  <2>2. <<>> \in Seq(R)
    OBVIOUS
  <2> HIDE DEF step, n
  <2>3. PICK f : GoesBy(f, n, Seq(R), <<>>, step)
    BY <1>1, <2>1, <2>2, GoesOn
  <2>4. PICK g : g = f /\ g = [i \in 0..n |-> g[i]]
    BY <2>3 DEF GoesBy
  <2>5. ASSUME NEW i \in 0..n
        PROVE  g[i] = IF i = 0 THEN <<>>
                      ELSE IF refs[i] \in ToSet(g[i - 1]) THEN g[i - 1]
                           ELSE Append(g[i - 1], refs[i])
    <3>1. CASE i = 0
      BY <2>3, <2>4, <3>1 DEF GoesBy
    <3>2. CASE i # 0
      <4>1. i \in 1..n /\ i - 1 \in 0..n
        BY <1>1, <3>2
      <4>2. g[i - 1] \in Seq(R) /\ g[i] = step[<<i, g[i - 1]>>]
        BY <2>3, <2>4, <4>1 DEF GoesBy
      <4> QED  BY <2>1, <3>2, <4>1, <4>2
    <3> QED  BY <3>1, <3>2
  <2>6. Is(g)
    BY <2>4, <2>5
  <2> HIDE DEF Is
  <2> QED  BY <2>6
<1>3. PICK f : Is(f) /\ Dedup(refs) = f[n]
  <2>1. PICK f : f = CHOOSE g : Is(g)
    OBVIOUS
  <2>2. Is(f)
    BY <1>2, <2>1
  <2>3. Dedup(refs) = f[n]
    BY <2>1 DEF Dedup
  <2> QED  BY <2>2, <2>3
<1> DEFINE Once(q) == /\ q \in Seq(R)
                       /\ \A i, j \in DOMAIN q : q[i] = q[j] => i = j
           P == {k \in 0..n : Once(f[k]) /\ (k > 0 => f[k] # <<>>)}
<1> HIDE DEF step
<1>4. 0 \in P
  <2>1. f[0] = <<>>
    BY <1>1, <1>3
  <2>2. Once(<<>>)
    OBVIOUS
  <2>3. 0 \in 0..n /\ ~(0 > 0)
    BY <1>1
  <2> HIDE DEF Once
  <2> QED  BY <2>1, <2>2, <2>3
<1>5. ASSUME NEW k \in 1..n, k - 1 \in P
      PROVE  k \in P
  <2>1. PICK q, r : q = f[k - 1] /\ r = refs[k]
    OBVIOUS
  <2>2. Once(q) /\ r \in R
    BY <1>1, <1>5, <2>1
  <2>3. f[k] = IF r \in ToSet(q) THEN q ELSE Append(q, r)
    <3>1. k \in 0..n /\ k # 0
      BY <1>1
    <3> HIDE DEF n
    <3> QED  BY <1>3, <2>1, <3>1
  <2>4. CASE r \in ToSet(q)
    <3>1. q # <<>>
      BY <2>4 DEF ToSet
    <3> QED  BY <2>2, <2>3, <2>4, <3>1
  <2>5. CASE r \notin ToSet(q)
    <3>1. \A i \in DOMAIN q : q[i] # r
      BY <2>5 DEF ToSet
    <3>2. Once(Append(q, r)) /\ Append(q, r) # <<>>
      BY <2>2, <3>1
    <3>3. k \in 0..n
      BY <1>1
    <3> HIDE DEF Once, n
    <3> QED  BY <2>3, <2>5, <3>2, <3>3
  <2> QED  BY <2>4, <2>5
<1>6. P = 0..n
  <2>1. P \in SUBSET (0..n)
    OBVIOUS
  <2> HIDE DEF P, n
  <2> QED  BY <1>1, <1>4, <1>5, <2>1, PlaceByPlace
<1>7. n \in P
  BY <1>1, <1>6
<1> QED  BY <1>1, <1>3, <1>7
\* A set of natural numbers that is not empty has a least element.
LEMMA LeastIs ==
  ASSUME NEW S \in SUBSET Nat, S # {}
  PROVE  \E m \in S : \A k \in S : m <= k
<1>1. PICK m \in S : \A k \in S : ~(<<k, m>> \in OpToRel(<, Nat))
  BY NatLessThanWellFounded, WFMin
<1>2. \A k \in S : ~(k < m)
  BY <1>1 DEF OpToRel
<1> QED  BY <1>2

\* Another suffix makes another id.
LEMMA SuffixesDiffer ==
  ASSUME NEW id \in TaskId, NEW n \in Nat
  PROVE  /\ WithSuffix(id, n) \in TaskId
         /\ WithSuffix(id, n).name = id.name
         /\ \A k \in Nat : WithSuffix(id, k) = WithSuffix(id, n) => k = n
<1>1. PICK s : s = id.suffixes /\ s \in Seq(Nat)
  BY DEF TaskId
<1>2. ASSUME NEW k \in Nat
      PROVE  /\ WithSuffix(id, k) \in TaskId
             /\ WithSuffix(id, k).name = id.name
             /\ WithSuffix(id, k).suffixes = Append(s, k)
  <2>1. Append(s, k) \in Seq(Nat)
    BY <1>1
  <2>2. WithSuffix(id, k) = [id EXCEPT !.suffixes = Append(s, k)]
    BY <1>1 DEF WithSuffix
  <2> QED  BY <2>1, <2>2 DEF TaskId
<1>3. ASSUME NEW k \in Nat, Append(s, k) = Append(s, n)
      PROVE  k = n
  <2>1. Append(s, k)[Len(s) + 1] = k /\ Append(s, n)[Len(s) + 1] = n
    BY <1>1
  <2> QED  BY <1>3, <2>1
<1> QED  BY <1>2, <1>3

\* There is always a first suffix that is free: the loop of _unique_task_id
\* ends, having tried as many as there are ids at most.
LEMMA FreeSuffix ==
  ASSUME NEW id \in TaskId, NEW taken, IsFiniteSet(taken)
  PROVE  \E n \in 2..(Cardinality(taken) + 2) :
           /\ WithSuffix(id, n) \notin taken
           /\ \A k \in 2..(n - 1) : WithSuffix(id, k) \in taken
<1> DEFINE c == Cardinality(taken)
           tried == 2..(c + 2)
           free == {n \in tried : WithSuffix(id, n) \notin taken}
<1>1. c \in Nat /\ tried \subseteq Nat
  BY FS_CardinalityType
<1>2. free # {}
  <2> SUFFICES ASSUME \A n \in tried : WithSuffix(id, n) \in taken
               PROVE  FALSE
    OBVIOUS
  <2>1. PICK f : f = [n \in tried |-> WithSuffix(id, n)]
    OBVIOUS
  <2>2. f \in [tried -> taken]
    BY <2>1
  <2>3. IsFiniteSet(tried) /\ Cardinality(tried) = c + 1
    BY <1>1, FS_Interval
  <2>4. c < Cardinality(tried)
    BY <1>1, <2>3
  <2>5. PICK x \in tried, y \in tried : x # y /\ f[x] = f[y]
    <3> HIDE DEF tried
    <3> QED  BY <2>2, <2>3, <2>4, FS_PigeonHole
  <2>6. WithSuffix(id, x) = WithSuffix(id, y)
    <3> HIDE DEF tried
    <3> QED  BY <2>1, <2>5
  <2> QED  BY <1>1, <2>5, <2>6, SuffixesDiffer
<1>3. PICK n \in free : \A k \in free : n <= k
  <2>1. free \in SUBSET Nat
    BY <1>1
  <2> HIDE DEF free
  <2> QED  BY <1>2, <2>1, LeastIs
<1>4. ASSUME NEW k \in 2..(n - 1)
      PROVE  WithSuffix(id, k) \in taken
  BY <1>1, <1>3
<1> QED  BY <1>3, <1>4

\* The id a task gets was not taken.
LEMMA UniqueIs ==
  ASSUME NEW id \in TaskId, NEW taken, IsFiniteSet(taken)
  PROVE  /\ UniqueTaskId(id, taken) \in TaskId
         /\ UniqueTaskId(id, taken).name = id.name
         /\ UniqueTaskId(id, taken) \notin taken
<1> DEFINE n == CHOOSE n \in 2..(Cardinality(taken) + 2) :
                  /\ WithSuffix(id, n) \notin taken
                  /\ \A k \in 2..(n - 1) : WithSuffix(id, k) \in taken
<1>1. n \in Nat /\ WithSuffix(id, n) \notin taken
  <2>1. Cardinality(taken) \in Nat
    BY FS_CardinalityType
  <2>2. n \in 2..(Cardinality(taken) + 2) /\ WithSuffix(id, n) \notin taken
    BY FreeSuffix
  <2> HIDE DEF n
  <2> QED  BY <2>1, <2>2
<1>2. UniqueTaskId(id, taken) = IF id \notin taken THEN id ELSE WithSuffix(id, n)
  BY DEF UniqueTaskId
<1> HIDE DEF n
<1> QED  BY <1>1, <1>2, SuffixesDiffer

\* Tasks with ids of their own.
HaveIds(tasks) ==
  /\ tasks \in Seq(Task)
  /\ \A i, j \in DOMAIN tasks : tasks[i].id = tasks[j].id => i = j

\* A task that is added gets an id of its own and stays what it is.
LEMMA TaskAdded ==
  ASSUME NEW tasks, HaveIds(tasks), NEW task \in Task
  PROVE  \E t \in Task : /\ AddTask(tasks, task) = Append(tasks, t)
                         /\ t.id.name = task.id.name /\ t.ok = task.ok
                         /\ HaveIds(Append(tasks, t))
<1> DEFINE taken == {tasks[i].id : i \in DOMAIN tasks}
           id == UniqueTaskId(task.id, taken)
<1>1. PICK n : n = Len(tasks) /\ n \in Nat /\ DOMAIN tasks = 1..n
  BY DEF HaveIds
<1>2. IsFiniteSet(taken)
  <2>1. IsFiniteSet(1..n)
    BY <1>1, FS_Interval
  <2>2. PICK f : f = [i \in 1..n |-> tasks[i].id]
    OBVIOUS
  <2>3. f \in Surjection(1..n, taken)
    BY <1>1, <2>2 DEF Surjection
  <2> QED  BY <2>1, <2>3, FS_Surjection
<1>3. task.id \in TaskId
  BY DEF Task
<1>4. id \in TaskId /\ id.name = task.id.name /\ id \notin taken
  BY <1>2, <1>3, UniqueIs
<1>5. PICK t : t = [task EXCEPT !.id = id]
  OBVIOUS
<1> HIDE DEF id
<1>6. t \in Task /\ t.id = id /\ t.ok = task.ok
  BY <1>4, <1>5 DEF Task
<1>7. AddTask(tasks, task) = Append(tasks, t)
  BY <1>5 DEF AddTask, id
<1>8. HaveIds(Append(tasks, t))
  <2>1. \A i \in DOMAIN tasks : tasks[i].id # id
    BY <1>4
  <2> QED  BY <1>1, <1>6, <2>1 DEF HaveIds
<1> QED  BY <1>4, <1>6, <1>7, <1>8

\* q is tasks and the first k of source behind them, with ids of their own.
Holds(q, k, tasks, source) ==
  /\ HaveIds(q)
  /\ Len(q) = Len(tasks) + k
  /\ \A i \in 1..Len(tasks) : q[i] = tasks[i]
  /\ \A i \in 1..k : /\ q[Len(tasks) + i].id.name = source[i].id.name
                     /\ q[Len(tasks) + i].ok = source[i].ok

\* One more of them.
LEMMA HoldsOneMore ==
  ASSUME NEW tasks \in Seq(Task), NEW source \in Seq(Task), NEW k \in 1..Len(source),
         NEW q, Holds(q, k - 1, tasks, source)
  PROVE  Holds(AddTask(q, source[k]), k, tasks, source)
<1>1. PICK t \in Task : /\ AddTask(q, source[k]) = Append(q, t)
                        /\ t.id.name = source[k].id.name /\ t.ok = source[k].ok
                        /\ HaveIds(Append(q, t))
  <2>1. HaveIds(q) /\ source[k] \in Task
    BY DEF Holds
  <2> QED  BY <2>1, TaskAdded
<1>2. PICK r, m : r = Append(q, t) /\ m = Len(tasks)
  OBVIOUS
<1>3. m \in Nat /\ q \in Seq(Task) /\ Len(q) = m + (k - 1)
  BY <1>2 DEF Holds, HaveIds
<1>4. /\ Len(r) = m + k /\ r[m + k] = t
      /\ \A i \in 1..(m + (k - 1)) : r[i] = q[i]
  BY <1>2, <1>3
<1>5. \A i \in 1..m : r[i] = tasks[i]
  <2>1. \A i \in 1..m : q[i] = tasks[i]
    BY <1>2 DEF Holds
  <2>2. \A i \in 1..m : i \in 1..(m + (k - 1))
    BY <1>3
  <2> QED  BY <1>4, <2>1, <2>2
<1>6. ASSUME NEW i \in 1..k
      PROVE  r[m + i].id.name = source[i].id.name /\ r[m + i].ok = source[i].ok
  <2>1. CASE i = k
    BY <1>1, <1>4, <2>1
  <2>2. CASE i # k
    <3>1. m + i \in 1..(m + (k - 1)) /\ i \in 1..(k - 1)
      BY <1>3, <2>2
    <3>2. r[m + i] = q[m + i]
      BY <1>4, <3>1
    <3> QED  BY <1>2, <3>1, <3>2 DEF Holds
  <2> QED  BY <2>1, <2>2
<1> QED  BY <1>1, <1>2, <1>4, <1>5, <1>6 DEF Holds

\* What a report holds after a source: the tasks it had and those of the source.
LEMMA SourceAdded ==
  ASSUME NEW tasks, HaveIds(tasks), NEW payload, TasksOf(payload) \in Seq(Task)
  PROVE  Holds(TasksFromArtifact(tasks, payload), Len(TasksOf(payload)),
               tasks, TasksOf(payload))
<1> DEFINE source == TasksOf(payload)
           n == Len(source)
           S == {q \in Seq(Task) : HaveIds(q)}
           step == [p \in (1..n) \X S |-> AddTask(p[2], source[p[1]])]
           Is(f) == f = [i \in 0..n |-> IF i = 0 THEN tasks ELSE AddTask(f[i - 1], source[i])]
<1>1. n \in Nat /\ (\A i \in 1..n : source[i] \in Task) /\ tasks \in S
  BY DEF HaveIds
<1>2. \E f : Is(f)
  <2>1. ASSUME NEW i \in 1..n, NEW q \in S
        PROVE  step[<<i, q>>] \in S /\ step[<<i, q>>] = AddTask(q, source[i])
    <3>1. step[<<i, q>>] = AddTask(q, source[i])
      OBVIOUS
    <3>2. PICK t \in Task : AddTask(q, source[i]) = Append(q, t) /\ HaveIds(Append(q, t))
      BY <1>1, TaskAdded
    <3>3. AddTask(q, source[i]) \in S
      <4> HIDE DEF step
      <4> QED  BY <3>2 DEF HaveIds
    <3> QED  BY <3>1, <3>3
  <2> HIDE DEF step, n, S
  <2>2. PICK f : GoesBy(f, n, S, tasks, step)
    BY <1>1, <2>1, GoesOn
  <2>3. PICK g : g = f /\ g = [i \in 0..n |-> g[i]]
    BY <2>2 DEF GoesBy
  <2>4. ASSUME NEW i \in 0..n
        PROVE  g[i] = IF i = 0 THEN tasks ELSE AddTask(g[i - 1], source[i])
    <3>1. CASE i = 0
      BY <2>2, <2>3, <3>1 DEF GoesBy
    <3>2. CASE i # 0
      <4>1. i \in 1..n /\ i - 1 \in 0..n
        BY <1>1, <3>2
      <4>2. g[i - 1] \in S /\ g[i] = step[<<i, g[i - 1]>>]
        BY <2>2, <2>3, <4>1 DEF GoesBy
      <4> QED  BY <2>1, <3>2, <4>1, <4>2
    <3> QED  BY <3>1, <3>2
  <2>5. Is(g)
    BY <2>3, <2>4
  <2> HIDE DEF Is
  <2> QED  BY <2>5
<1>3. PICK f : Is(f) /\ TasksFromArtifact(tasks, payload) = f[n]
  <2>1. PICK f : f = CHOOSE g : Is(g)
    OBVIOUS
  <2>2. Is(f)
    BY <1>2, <2>1
  <2>3. TasksFromArtifact(tasks, payload) = f[n]
    BY <2>1 DEF TasksFromArtifact
  <2> QED  BY <2>2, <2>3
<1> DEFINE P == {k \in 0..n : Holds(f[k], k, tasks, source)}
<1> HIDE DEF step
<1>4. 0 \in P
  <2>1. f[0] = tasks
    BY <1>1, <1>3
  <2>2. Holds(tasks, 0, tasks, source)
    BY DEF Holds, HaveIds
  <2> QED  BY <1>1, <2>1, <2>2
<1>5. ASSUME NEW k \in 1..n, k - 1 \in P
      PROVE  k \in P
  <2>1. k \in 0..n /\ k # 0
    BY <1>1
  <2>2. f[k] = AddTask(f[k - 1], source[k])
    <3> HIDE DEF n, source
    <3> QED  BY <1>3, <2>1
  <2>3. Holds(f[k - 1], k - 1, tasks, source)
    BY <1>5
  <2>4. Holds(f[k], k, tasks, source)
    BY <1>1, <2>2, <2>3, HoldsOneMore DEF HaveIds
  <2> QED  BY <2>1, <2>4
<1>6. P = 0..n
  <2>1. P \in SUBSET (0..n)
    OBVIOUS
  <2> HIDE DEF P, n
  <2> QED  BY <1>1, <1>4, <1>5, <2>1, PlaceByPlace
<1>7. n \in P
  BY <1>1, <1>6
<1> QED  BY <1>3, <1>7

\* more are these results and one more.
OneMore(more, results, b, payload) ==
  /\ b \notin DOMAIN results /\ DOMAIN more = DOMAIN results \cup {b}
  /\ more[b] = payload
  /\ \A c \in DOMAIN results : more[c] = results[c]

\* The results a report tells of, with those of one more source.
LEMMA TellsOneMore ==
  ASSUME NEW tasks, HaveIds(tasks), NEW results, Tells(tasks, results),
         NEW payload, TasksOf(payload) \in Seq(Task),
         NEW b, NEW more, OneMore(more, results, b, payload)
  PROVE  Tells(TasksFromArtifact(tasks, payload), more)
<1> DEFINE Of(r) == UNION {{c} \X DOMAIN TasksOf(r[c]) : c \in DOMAIN r}
           source == TasksOf(payload)
<1>1. PICK n, k, r : /\ n = Len(tasks) /\ k = Len(source)
                     /\ r = TasksFromArtifact(tasks, payload)
  OBVIOUS
<1>2. /\ n \in Nat /\ k \in Nat
      /\ DOMAIN tasks = 1..n /\ DOMAIN source = 1..k /\ DOMAIN r = 1..(n + k)
      /\ \A i \in 1..n : r[i] = tasks[i]
      /\ \A i \in 1..k : r[n + i].id.name = source[i].id.name /\ r[n + i].ok = source[i].ok
  <2>1. Holds(r, k, tasks, source)
    BY <1>1, SourceAdded
  <2>2. n \in Nat /\ k \in Nat /\ DOMAIN tasks = 1..n /\ DOMAIN source = 1..k
    BY <1>1 DEF HaveIds
  <2>3. r \in Seq(Task) /\ Len(r) = n + k
    BY <1>1, <2>1 DEF Holds, HaveIds
  <2>4. DOMAIN r = 1..(n + k)
    BY <2>3
  <2> QED  BY <1>1, <2>1, <2>2, <2>4 DEF Holds
<1>3. PICK origin \in Bijection(DOMAIN tasks, Of(results)) :
        \A i \in DOMAIN tasks :
          LET task == TasksOf(results[origin[i][1]])[origin[i][2]]
          IN  tasks[i].id.name = task.id.name /\ tasks[i].ok = task.ok
  BY DEF Tells
<1>4. /\ origin \in [1..n -> Of(results)]
      /\ \A i, j \in 1..n : origin[i] = origin[j] => i = j
      /\ \A o \in Of(results) : \E i \in 1..n : origin[i] = o
  BY <1>2, <1>3 DEF Bijection, Injection, Surjection, IsInjective
<1>5. /\ b \notin DOMAIN results /\ DOMAIN more = DOMAIN results \cup {b}
      /\ more[b] = payload
      /\ \A c \in DOMAIN results : more[c] = results[c]
  BY DEF OneMore
<1>6. Of(more) = Of(results) \cup ({b} \X (1..k))
  <2>1. ASSUME NEW o
        PROVE  o \in Of(more) <=> o \in Of(results) \/ o \in {b} \X (1..k)
    <3>1. o \in Of(more) <=> \E c \in DOMAIN more : o \in {c} \X DOMAIN TasksOf(more[c])
      OBVIOUS
    <3>2. o \in Of(results)
            <=> \E c \in DOMAIN results : o \in {c} \X DOMAIN TasksOf(results[c])
      OBVIOUS
    <3>3. \A c \in DOMAIN results :
            {c} \X DOMAIN TasksOf(more[c]) = {c} \X DOMAIN TasksOf(results[c])
      BY <1>5
    <3>4. {b} \X DOMAIN TasksOf(more[b]) = {b} \X (1..k)
      BY <1>1, <1>2, <1>5
    <3> HIDE DEF Of
    <3> QED  BY <1>5, <3>1, <3>2, <3>3, <3>4, Zenon
  <2> HIDE DEF Of
  <2> QED  BY <2>1
<1>7. \A o \in Of(results) : o[1] \in DOMAIN results
  OBVIOUS
<1> HIDE DEF Of
<1>8. PICK whole : whole = [i \in 1..(n + k) |-> IF i <= n THEN origin[i] ELSE <<b, i - n>>]
  OBVIOUS
<1>9. /\ \A i \in 1..n : i \in 1..(n + k) /\ whole[i] = origin[i] /\ origin[i] \in Of(results)
      /\ \A i \in 1..k : n + i \in 1..(n + k) /\ whole[n + i] = <<b, i>>
      /\ \A i \in 1..(n + k) : i \in 1..n \/ (i - n \in 1..k /\ n + (i - n) = i)
  BY <1>2, <1>4, <1>8
<1>10. whole \in [1..(n + k) -> Of(more)]
  <2>1. ASSUME NEW i \in 1..(n + k)
        PROVE  whole[i] \in Of(more)
    <3>1. CASE i \in 1..n
      BY <1>6, <1>9, <3>1
    <3>2. CASE i \notin 1..n
      <4>1. i - n \in 1..k /\ whole[i] = <<b, i - n>>
        BY <1>9, <3>2
      <4>2. whole[i] \in {b} \X (1..k)
        BY <4>1
      <4> QED  BY <1>6, <4>2
    <3> QED  BY <3>1, <3>2
  <2> QED  BY <1>8, <2>1
<1>11. ASSUME NEW i \in 1..(n + k), NEW j \in 1..(n + k), whole[i] = whole[j]
       PROVE  i = j
  <2>1. CASE i \in 1..n /\ j \in 1..n
    BY <1>4, <1>9, <1>11, <2>1
  <2>2. CASE i \notin 1..n /\ j \notin 1..n
    <3>1. whole[i] = <<b, i - n>> /\ whole[j] = <<b, j - n>>
      BY <1>9, <2>2
    <3>2. <<b, i - n>> = <<b, j - n>>
      BY <1>11, <3>1
    <3> QED  BY <1>2, <3>2
  <2>3. CASE i \in 1..n /\ j \notin 1..n
    <3>1. whole[i] \in Of(results) /\ whole[j] = <<b, j - n>>
      BY <1>9, <2>3
    <3> QED  BY <1>5, <1>7, <1>11, <3>1
  <2>4. CASE i \notin 1..n /\ j \in 1..n
    <3>1. whole[j] \in Of(results) /\ whole[i] = <<b, i - n>>
      BY <1>9, <2>4
    <3> QED  BY <1>5, <1>7, <1>11, <3>1
  <2> QED  BY <2>1, <2>2, <2>3, <2>4
<1>12. ASSUME NEW o \in Of(more)
       PROVE  \E i \in 1..(n + k) : whole[i] = o
  <2>1. CASE o \in Of(results)
    BY <1>4, <1>9, <2>1
  <2>2. CASE o \in {b} \X (1..k)
    <3>1. PICK i \in 1..k : o = <<b, i>>
      BY <2>2
    <3> QED  BY <1>9, <3>1
  <2> QED  BY <1>6, <2>1, <2>2
<1>13. whole \in Bijection(DOMAIN r, Of(more))
  BY <1>2, <1>10, <1>11, <1>12 DEF Bijection, Injection, Surjection, IsInjective
<1>14. ASSUME NEW i \in 1..(n + k)
       PROVE  LET task == TasksOf(more[whole[i][1]])[whole[i][2]]
              IN  r[i].id.name = task.id.name /\ r[i].ok = task.ok
  <2>1. CASE i \in 1..n
    <3>1. whole[i] = origin[i] /\ origin[i][1] \in DOMAIN results
      BY <1>7, <1>9, <2>1
    <3>2. more[whole[i][1]] = results[origin[i][1]]
      BY <1>5, <3>1
    <3> QED  BY <1>2, <1>3, <2>1, <3>1, <3>2
  <2>2. CASE i \notin 1..n
    <3>1. PICK h \in 1..k : i = n + h
      BY <1>9, <2>2
    <3>2. whole[i] = <<b, h>>
      BY <1>9, <3>1
    <3> QED  BY <1>2, <1>5, <3>1, <3>2
  <2> QED  BY <2>1, <2>2
<1>15. \E o \in Bijection(DOMAIN r, Of(more)) :
         \A i \in DOMAIN r :
           LET task == TasksOf(more[o[i][1]])[o[i][2]]
           IN  r[i].id.name = task.id.name /\ r[i].ok = task.ok
  BY <1>2, <1>13, <1>14
<1> QED  BY <1>1, <1>15 DEF Tells, Of

(***************************************************************************)
(* The inductive invariant.                                                *)
(***************************************************************************)

IsArtifact(r) ==
  r = NoArtifact \/ r = [stored |-> TRUE, payload |-> r.payload, expired |-> r.expired]

\* The rows of the artifact table, and what the loop was told.
Shapes ==
  /\ artifacts = [a \in Slots |-> artifacts[a]]
  /\ \A a \in Slots : IsArtifact(artifacts[a])
  /\ observations \in Seq(ToSet(observations))
  /\ Len(observations) <= MaxActions

\* The running call: what it holds at each point.
CallShape ==
  /\ call.pc \in {"idle", "start", "run", "read", "save", "uncertain", "saved"}
  /\ call.pc \in {"start", "run", "read"} =>
       call = [pc |-> call.pc, tool |-> call.tool, refs |-> call.refs,
               left |-> call.left, tasks |-> call.tasks, retries |-> call.retries]
  /\ call.pc \in {"save", "uncertain", "saved"} =>
       call = [pc |-> call.pc, tool |-> call.tool, refs |-> call.refs,
               retries |-> call.retries, payload |-> call.payload,
               limits |-> call.limits]

\* A call works on the next free slot of an open run, and what it is about to
\* report is stored there.
CallOwnsSlot ==
  /\ call # Idle => Len(observations) < MaxActions /\ final = Open
  /\ call.pc = "saved" =>
       Stored(Action) /\ artifacts[Action].payload = call.payload

\* The locked output is a report the loop was told of.
FinalIsReported ==
  final \notin {Open, NoRef} =>
    \E a \in DOMAIN observations :
      Good(observations[a]) /\ observations[a].ref = final /\ observations[a].tool = ReportTool

Inv == Shapes /\ CallShape /\ CallOwnsSlot /\ SuccessIsStored /\ FinalIsReported

\* The invariant holds in the initial states.
LEMMA InitInv == Init => Inv
<1> SUFFICES ASSUME Init PROVE Inv
  OBVIOUS
<1>1. Shapes
  BY BoundsAssumption DEF Init, Shapes, IsArtifact, NoArtifact
<1>2. CallShape /\ CallOwnsSlot
  BY DEF Init, CallShape, CallOwnsSlot, Idle
<1>3. SuccessIsStored /\ FinalIsReported
  BY DEF Init, SuccessIsStored, FinalIsReported
<1> QED  BY <1>1, <1>2, <1>3 DEF Inv

\* What a step that only moves the call keeps.
LEMMA CallMoves ==
  ASSUME Inv, UNCHANGED <<artifacts, observations, final>>, CallShape',
         call' # Idle => call # Idle, call'.pc # "saved"
  PROVE  Inv'
BY DEF Inv, Shapes, IsArtifact, CallOwnsSlot, SuccessIsStored, FinalIsReported,
       Stored, Action, Slots, Good, Ref

\* What a step keeps that tells the loop of the result of its action.
LEMMA ObserveKeeps ==
  ASSUME Inv, call # Idle, UNCHANGED <<artifacts, final>>,
         NEW status, NEW ref, Observe(status, ref),
         status \in {"success", "partial"} =>
           Stored(Action) /\ ref = Ref(Action, artifacts[Action].payload)
  PROVE  Inv'
<1> DEFINE o == [tool |-> call.tool, status |-> status, ref |-> ref]
<1>1. /\ observations' = Append(observations, o) /\ call' = Idle
      /\ Len(observations) < MaxActions /\ final = Open
  BY DEF Observe, Inv, CallOwnsSlot
<1>2. /\ observations' \in Seq(ToSet(observations'))
      /\ Len(observations) \in Nat
      /\ DOMAIN observations = 1..Len(observations)
      /\ Len(observations') = Len(observations) + 1
      /\ DOMAIN observations' = 1..(Len(observations) + 1)
      /\ \A i \in 1..Len(observations) : observations'[i] = observations[i]
      /\ observations'[Len(observations) + 1] = o
  BY <1>1, Appended DEF Inv, Shapes
<1>3. Shapes'
  BY <1>1, <1>2, BoundsAssumption DEF Inv, Shapes, IsArtifact
<1>4. CallShape' /\ CallOwnsSlot'
  BY <1>1 DEF Idle, CallShape, CallOwnsSlot
<1>5. SuccessIsStored'
  <2> SUFFICES ASSUME NEW a \in DOMAIN observations', Good(observations'[a])
               PROVE  Stored(a) /\ observations'[a].ref = Ref(a, artifacts[a].payload)
    BY DEF SuccessIsStored, Stored
  <2>1. CASE a = Len(observations) + 1
    BY <1>2, <2>1 DEF Good, Action
  <2>2. CASE a \in 1..Len(observations)
    BY <1>2, <2>2 DEF Inv, SuccessIsStored
  <2> QED  BY <1>2, <2>1, <2>2
<1>6. FinalIsReported'
  BY <1>1 DEF FinalIsReported
<1> QED  BY <1>3, <1>4, <1>5, <1>6 DEF Inv

\* A failed action is reported without a result.
LEMMA FailedKeeps ==
  ASSUME Inv, call # Idle, UNCHANGED <<artifacts, final>>, Failed
  PROVE  Inv'
BY ObserveKeeps DEF Failed

\* The running action has a slot, and the loop was not told of it.
LEMMA RunningSlot ==
  ASSUME Inv, call # Idle
  PROVE  Action \in Slots /\ Action \notin DOMAIN observations
<1>1. Len(observations) \in Nat /\ DOMAIN observations = 1..Len(observations)
  BY Appended DEF Inv, Shapes
<1> QED  BY <1>1, BoundsAssumption DEF Inv, CallOwnsSlot, Action, Slots

\* A row that is inserted for the running action.
LEMMA StoreKeeps ==
  ASSUME Inv, call # Idle, ~Stored(Action), UNCHANGED observations,
         NEW p, artifacts' = [artifacts EXCEPT ![Action] = Artifact(p)]
  PROVE  /\ Shapes' /\ SuccessIsStored'
         /\ Action \in Slots /\ Action' = Action
         /\ Stored(Action)' /\ artifacts'[Action].payload = p
<1>1. Action \in Slots /\ Action' = Action /\ Action \notin DOMAIN observations
  BY RunningSlot DEF Action
<1>2. artifacts'[Action] = Artifact(p)
  BY <1>1 DEF Inv, Shapes
<1>3. \A a \in Slots \ {Action} : artifacts'[a] = artifacts[a]
  BY <1>1 DEF Inv, Shapes
<1>4. Shapes'
  BY <1>1, <1>2, <1>3 DEF Inv, Shapes, IsArtifact, Artifact
<1>5. SuccessIsStored'
  BY <1>1, <1>2, <1>3 DEF Inv, SuccessIsStored, Shapes, Stored, Slots, Good
<1> QED  BY <1>1, <1>2, <1>4, <1>5 DEF Stored, Artifact

\* What expiry makes of a row.
LEMMA ExpiredRow ==
  ASSUME NEW old, NEW new, NEW p, NEW e,
         old = [stored |-> TRUE, payload |-> p, expired |-> e],
         new = [old EXCEPT !.expired = TRUE]
  PROVE  new = [stored |-> TRUE, payload |-> p, expired |-> TRUE]
OBVIOUS

\* Every step keeps the invariant.
LEMMA NextInv ==
  ASSUME Inv, [Next]_vars
  PROVE  Inv'
<1>1. ASSUME NEW t \in Tools, NEW refs, Dispatch(t, refs)
      PROVE  Inv'
  <2>1. /\ call = Idle /\ final = Open /\ Len(observations) < MaxActions
        /\ call' = [pc |-> "start", tool |-> t, refs |-> refs, left |-> <<>>,
                    tasks |-> <<>>, retries |-> 0]
        /\ UNCHANGED <<artifacts, observations, final>>
    BY <1>1 DEF Dispatch, Begin
  <2>2. CallShape'
    BY <2>1 DEF CallShape
  <2> QED  BY <2>1, <2>2 DEF Inv, Shapes, IsArtifact, CallOwnsSlot, SuccessIsStored,
                             FinalIsReported, Stored, Good
<1>2. CASE Validate
  <2>1. call # Idle /\ call.pc = "start" /\ UNCHANGED <<artifacts, final>>
    BY <1>2 DEF Validate, At, Idle
  <2>2. CASE Failed
    BY <2>1, <2>2, FailedKeeps
  <2>3. CASE ~Failed
    <3>1. /\ UNCHANGED observations
          /\ call' = [call EXCEPT !.pc = IF call.tool = ReportTool THEN "read" ELSE "run",
                                  !.left = Dedup(call.refs)]
      BY <1>2, <2>3 DEF Validate
    <3>2. CallShape' /\ call'.pc # "saved"
      BY <2>1, <3>1 DEF Inv, CallShape
    <3> QED  BY <2>1, <3>1, <3>2, CallMoves
  <2> QED  BY <2>2, <2>3
<1>3. CASE QueryReturns \/ AnalyzeReturns \/ Render
  <2>1. call # Idle /\ UNCHANGED <<artifacts, observations, final>>
    <3>1. CASE QueryReturns
      BY <3>1 DEF QueryReturns, At, Idle
    <3>2. CASE AnalyzeReturns
      <4>1. call.pc = "run" /\ UNCHANGED <<artifacts, observations, final>>
        BY <3>2, Zenon DEF AnalyzeReturns, At
      <4> QED  BY <4>1 DEF Idle
    <3>3. CASE Render
      BY <3>3 DEF Render, At, Idle
    <3> QED  BY <1>3, <3>1, <3>2, <3>3
  <2>2. CallShape' /\ call'.pc # "saved"
    <3>1. ASSUME NEW payload, NEW limits, Returns(payload, limits)
          PROVE  CallShape' /\ call'.pc # "saved"
      BY <3>1 DEF Returns, CallShape
    <3>2. CASE QueryReturns
      BY <3>1, <3>2 DEF QueryReturns
    <3>3. CASE AnalyzeReturns
      BY <3>1, <3>3 DEF AnalyzeReturns
    <3>4. CASE Render
      BY <3>1, <3>4 DEF Render
    <3> QED  BY <1>3, <3>2, <3>3, <3>4
  <2> QED  BY <2>1, <2>2, CallMoves
<1>4. CASE ReadSource
  <2>1. call # Idle /\ call.pc = "read" /\ UNCHANGED <<artifacts, final>>
    BY <1>4 DEF ReadSource, At, Idle
  <2>2. CASE Failed
    BY <2>1, <2>2, FailedKeeps
  <2>3. CASE ~Failed
    <3>1. /\ UNCHANGED observations
          /\ call' = [call EXCEPT !.left = Tail(@),
                        !.tasks = TasksFromArtifact(@, Head(call.left).payload)]
      BY <1>4, <2>3 DEF ReadSource
    <3>2. CallShape' /\ call'.pc # "saved"
      BY <2>1, <3>1 DEF Inv, CallShape
    <3> QED  BY <2>1, <3>1, <3>2, CallMoves
  <2> QED  BY <2>2, <2>3
<1>5. CASE ToolFails
  BY <1>5, FailedKeeps DEF ToolFails, Idle
<1>6. CASE Save
  <2>1. /\ call # Idle /\ call.pc = "save" /\ UNCHANGED final
        /\ Len(observations) < MaxActions /\ final = Open
    BY <1>6 DEF Save, At, Idle, Inv, CallOwnsSlot
  <2>2. CASE Failed /\ UNCHANGED artifacts
    BY <2>1, <2>2, FailedKeeps
  <2>3. CASE Stored(Action) /\ Saved /\ UNCHANGED <<artifacts, observations>>
    <3>1. call' = [call EXCEPT !.pc = "saved", !.payload = artifacts[Action].payload]
      BY <2>3 DEF Saved
    <3>2. /\ CallShape' /\ call'.payload = artifacts[Action].payload
          /\ Stored(Action)' /\ Action' = Action
      BY <2>1, <2>3, <3>1 DEF Inv, CallShape, Stored, Action
    <3> QED  BY <2>1, <2>3, <3>2 DEF Inv, Shapes, IsArtifact, CallOwnsSlot,
               SuccessIsStored, FinalIsReported, Stored, Good
  <2>4. CASE /\ ~Stored(Action) /\ Saved /\ UNCHANGED observations
             /\ artifacts' = [artifacts EXCEPT ![Action] = Artifact(call.payload)]
    <3>1. call' = [call EXCEPT !.pc = "saved", !.payload = artifacts'[Action].payload]
      BY <2>4 DEF Saved
    <3>2. CallShape' /\ call'.payload = artifacts'[Action].payload
      BY <2>1, <3>1 DEF Inv, CallShape
    <3>3. Shapes' /\ SuccessIsStored' /\ Stored(Action)' /\ Action' = Action
      BY <2>1, <2>4, StoreKeeps
    <3>4. CallOwnsSlot'
      BY <2>1, <2>4, <3>2, <3>3 DEF CallOwnsSlot
    <3> QED  BY <2>1, <3>2, <3>3, <3>4 DEF Inv, FinalIsReported
  <2> QED  BY <1>6, <2>2, <2>3, <2>4 DEF Save
<1>7. CASE SaveIsUncertain
  <2>1. /\ call # Idle /\ call.pc = "save" /\ UNCHANGED <<observations, final>>
        /\ call' = [call EXCEPT !.pc = "uncertain"]
    BY <1>7 DEF SaveIsUncertain, At, Idle
  <2>2. CallShape' /\ call'.pc = "uncertain"
    BY <2>1 DEF Inv, CallShape
  <2>3. CASE UNCHANGED artifacts
    BY <2>1, <2>2, <2>3, CallMoves
  <2>4. CASE /\ ~Stored(Action)
             /\ artifacts' = [artifacts EXCEPT ![Action] = Artifact(call.payload)]
    <3>1. Shapes' /\ SuccessIsStored'
      BY <2>1, <2>4, StoreKeeps
    <3>2. CallOwnsSlot' /\ FinalIsReported'
      BY <2>1, <2>2 DEF Inv, CallOwnsSlot, FinalIsReported, Good
    <3> QED  BY <2>2, <3>1, <3>2 DEF Inv
  <2> QED  BY <1>7, <2>3, <2>4 DEF SaveIsUncertain
<1>8. CASE RetryOrReport
  <2>1. call # Idle /\ UNCHANGED <<artifacts, final>>
    BY <1>8 DEF RetryOrReport, At, Idle
  <2>2. CASE Observe("temporary_error", NoRef)
    BY <2>1, <2>2, ObserveKeeps
  <2>3. CASE /\ call' = Begin(call.tool, call.refs, call.retries + 1)
             /\ UNCHANGED observations
    <3>1. CallShape' /\ call'.pc # "saved"
      BY <2>3 DEF Begin, CallShape
    <3> QED  BY <2>1, <2>3, <3>1, CallMoves
  <2> QED  BY <1>8, <2>2, <2>3 DEF RetryOrReport
<1>9. CASE Report
  <2>1. /\ call # Idle /\ call.pc = "saved" /\ UNCHANGED <<artifacts, final>>
        /\ Stored(Action) /\ artifacts[Action].payload = call.payload
    <3>1. call.pc = "saved" /\ UNCHANGED <<artifacts, final>>
      BY <1>9 DEF Report, At
    <3> QED  BY <3>1 DEF Inv, CallOwnsSlot, Idle
  <2>2. CASE Failed
    BY <2>1, <2>2, FailedKeeps
  <2>3. CASE Observe(IF call.limits = "none" THEN "success" ELSE "partial",
                     Ref(Action, call.payload))
    BY <2>1, <2>3, ObserveKeeps
  <2> QED  BY <1>9, <2>2, <2>3 DEF Report
<1>10. CASE Lock
  <2>1. /\ call = Idle /\ UNCHANGED <<artifacts, observations, call>>
        /\ final' \in {LastReport, NoRef}
    BY <1>10 DEF Lock
  <2>2. ASSUME final' \notin {Open, NoRef}
        PROVE  \E a \in DOMAIN observations :
                 /\ Good(observations[a]) /\ observations[a].ref = final'
                 /\ observations[a].tool = ReportTool
    <3> DEFINE reports == {i \in DOMAIN observations :
                             observations[i].tool = ReportTool /\ Good(observations[i])}
               last == CHOOSE i \in reports : \A j \in reports : j <= i
    <3>1. reports # {} /\ final' = observations[last].ref
      BY <2>1, <2>2 DEF LastReport
    <3>2. Len(observations) \in Nat /\ DOMAIN observations = 1..Len(observations)
      BY Appended DEF Inv, Shapes
    <3>3. \E i \in reports : \A j \in reports : j <= i
      BY <3>1, <3>2, LastPosition
    <3>4. last \in reports
      BY <3>3
    <3> QED  BY <3>1, <3>4
  <2>3. FinalIsReported'
    BY <2>1, <2>2 DEF FinalIsReported, Good
  <2> QED  BY <2>1, <2>3 DEF Inv, Shapes, IsArtifact, CallShape, CallOwnsSlot, Idle,
                             SuccessIsStored, Stored, Good
<1>11. CASE Interrupt
  <2>1. /\ call # Idle /\ call' = Idle /\ final' = NoRef /\ UNCHANGED observations
    BY <1>11 DEF Interrupt
  <2>2. CallShape' /\ CallOwnsSlot' /\ FinalIsReported'
    BY <2>1 DEF CallShape, CallOwnsSlot, FinalIsReported, Idle
  <2>3. CASE UNCHANGED artifacts
    BY <2>1, <2>2, <2>3 DEF Inv, Shapes, IsArtifact, SuccessIsStored, Stored, Good
  <2>4. CASE /\ ~Stored(Action)
             /\ artifacts' = [artifacts EXCEPT ![Action] = Artifact(call.payload)]
    BY <2>1, <2>2, <2>4, StoreKeeps DEF Inv
  <2> QED  BY <1>11, <2>3, <2>4 DEF Interrupt
<1>12. CASE SaveHistory \/ UNCHANGED vars
  BY <1>12 DEF SaveHistory, vars, Inv, Shapes, IsArtifact, CallShape, CallOwnsSlot,
               SuccessIsStored, FinalIsReported, Stored, Good, Action
<1>13. ASSUME NEW a \in Slots, Expire(a)
       PROVE  Inv'
  <2>1. /\ artifacts' = [artifacts EXCEPT ![a].expired = TRUE]
        /\ Stored(a) /\ final # Open
        /\ UNCHANGED <<observations, call, final>>
    BY <1>13 DEF Expire
  <2>2. artifacts[a] = [stored |-> TRUE, payload |-> artifacts[a].payload,
                        expired |-> artifacts[a].expired]
    BY <2>1 DEF Inv, Shapes, IsArtifact, Stored, NoArtifact
  <2>3. artifacts'[a] = [stored |-> TRUE, payload |-> artifacts[a].payload, expired |-> TRUE]
    <3>1. artifacts'[a] = [artifacts[a] EXCEPT !.expired = TRUE]
      BY <2>1 DEF Inv, Shapes
    <3> DEFINE p == artifacts[a].payload
               e == artifacts[a].expired
               old == artifacts[a]
               new == artifacts'[a]
    <3>2. new = [old EXCEPT !.expired = TRUE]
      BY <3>1
    <3>3. old = [stored |-> TRUE, payload |-> p, expired |-> e]
      BY <2>2
    <3> HIDE DEF p, e, old, new
    <3>4. new = [stored |-> TRUE, payload |-> p, expired |-> TRUE]
      BY <3>2, <3>3, ExpiredRow
    <3> QED  BY <3>4 DEF p, new
  <2>4. \A b \in Slots : Stored(b)' = Stored(b) /\ artifacts'[b].payload = artifacts[b].payload
    BY <2>1, <2>2, <2>3 DEF Inv, Shapes, Stored
  <2>5. Shapes'
    BY <2>1, <2>3 DEF Inv, Shapes, IsArtifact
  <2>6. SuccessIsStored'
    <3>1. DOMAIN observations \subseteq Slots
      BY Appended, BoundsAssumption DEF Inv, Shapes, Slots
    <3> QED  BY <2>1, <2>4, <3>1 DEF Inv, SuccessIsStored, Good
  <2> QED  BY <2>1, <2>5, <2>6 DEF Inv, CallShape, CallOwnsSlot, FinalIsReported, Good, Idle
<1> QED  BY <1>1, <1>2, <1>3, <1>4, <1>5, <1>6, <1>7, <1>8, <1>9, <1>10, <1>11, <1>12,
            <1>13 DEF Next, CallStep, Tools


\* The inductive invariant holds for any contents, limits and faults.
THEOREM Invariant == Spec => []Inv
<1> QED  BY InitInv, NextInv, PTL DEF Spec

\* Without a persisted artifact there is no success: what the loop was told of
\* as a success is stored for its action, with the content its reference names.
THEOREM NoSuccessWithoutArtifact == Spec => []SuccessIsStored
<1> QED  BY Invariant, PTL DEF Inv

(***************************************************************************)
(* Reports are rendered from whole results.                                *)
(***************************************************************************)

\* A report's tasks are whole results the loop was told of before action a.
Whole(tasks, a) ==
  /\ HaveIds(tasks)
  /\ \E sources \in SUBSET SourcesBefore(a) :
       /\ sources # {}
       /\ Tells(tasks, [b \in sources |-> artifacts[b].payload])

\* What a tool returned for action a.
IsResult(payload, tool, a) ==
  /\ payload.tool = tool
  /\ tool = ReportTool => Whole(payload.tasks, a)
  /\ tool # ReportTool => payload \in Contents

\* Every row is the result of a tool,
RowsAreResults ==
  \A a \in Slots : Stored(a) => IsResult(artifacts[a].payload, artifacts[a].payload.tool, a)

\* and while the run is open, of an action that is over or of the running one.
RowsHaveActions ==
  \A a \in Slots :
    Stored(a) /\ a \notin DOMAIN observations =>
      \/ final # Open
      \/ a = Action /\ call # Idle /\ artifacts[a].payload.tool = call.tool

\* Only a success has a reference, and its row is a result of its tool.
ReferencesAreGood ==
  \A a \in DOMAIN observations :
    /\ observations[a].ref # NoRef => Good(observations[a])
    /\ Good(observations[a]) => artifacts[a].payload.tool = observations[a].tool

\* A call has known references; before it reads them it has no tasks.
CallStarts ==
  /\ call # Idle => call.refs \in Seq(KnownRefs)
  /\ call.pc = "start" => call.tasks = <<>>

\* What a report has read are whole results, and what is left are others.
CallReads ==
  call.pc = "read" =>
    /\ call.tool = ReportTool
    /\ HaveIds(call.tasks)
    /\ call.left \in Seq(KnownRefs)
    /\ \A i, j \in DOMAIN call.left : call.left[i] = call.left[j] => i = j
    /\ \E sources \in SUBSET SourcesBefore(Action) :
         /\ Tells(call.tasks, [b \in sources |-> artifacts[b].payload])
         /\ sources # {} \/ call.left # <<>>
         /\ \A b \in sources : \A i \in DOMAIN call.left :
              call.left[i] # observations[b].ref

\* What a call is about to store or has stored is a result of its tool.
CallReturned ==
  call.pc \in {"save", "uncertain", "saved"} => IsResult(call.payload, call.tool, Action)

ResultsInv ==
  /\ RowsAreResults /\ RowsHaveActions /\ ReferencesAreGood
  /\ CallStarts /\ CallReads /\ CallReturned

\* What every step does with rows and observations: they stay what they are.
Grows ==
  /\ \A a \in DOMAIN observations : a \in DOMAIN observations' /\ observations'[a] = observations[a]
  /\ \A a \in Slots : Stored(a) => Stored(a)' /\ artifacts'[a].payload = artifacts[a].payload

\* The one row a step may add is the result of the running call.
AddsItsOwn ==
  \A a \in Slots : Stored(a)' /\ ~Stored(a) =>
    /\ a = Action /\ call.pc = "save" /\ artifacts'[a].payload = call.payload

\* What telling the loop does to the observations.
LEMMA Observed ==
  ASSUME Inv, NEW status, NEW ref, Observe(status, ref)
  PROVE  /\ Action \in Nat /\ DOMAIN observations = 1..(Action - 1)
         /\ DOMAIN observations' = 1..Action
         /\ \A a \in DOMAIN observations : observations'[a] = observations[a]
         /\ observations'[Action] = [tool |-> call.tool, status |-> status, ref |-> ref]
         /\ call' = Idle
BY Appended DEF Observe, Inv, Shapes, Action

\* Which observations there are.
LEMMA ToldAre ==
  ASSUME Inv
  PROVE  /\ Action \in Nat /\ DOMAIN observations = 1..(Action - 1)
         /\ DOMAIN observations \subseteq Slots
BY Appended, BoundsAssumption DEF Inv, Shapes, Action, Slots

\* The row of one slot is written, or none.
LEMMA RowsStay ==
  ASSUME Inv,
         \/ UNCHANGED artifacts
         \/ \E p : /\ call.pc = "save" /\ p = call.payload /\ ~Stored(Action)
                   /\ artifacts' = [artifacts EXCEPT ![Action] = Artifact(p)]
         \/ \E a \in Slots : Stored(a) /\ artifacts' = [artifacts EXCEPT ![a].expired = TRUE]
  PROVE  /\ \A a \in Slots : Stored(a) => Stored(a)' /\ artifacts'[a].payload = artifacts[a].payload
         /\ AddsItsOwn
<1>1. CASE UNCHANGED artifacts
  BY <1>1 DEF Stored, AddsItsOwn
<1>2. CASE /\ call.pc = "save" /\ ~Stored(Action)
           /\ artifacts' = [artifacts EXCEPT ![Action] = Artifact(call.payload)]
  <2>1. Action \in Slots
    BY <1>2, RunningSlot DEF Idle
  <2>2. /\ artifacts'[Action] = Artifact(call.payload)
        /\ \A a \in Slots \ {Action} : artifacts'[a] = artifacts[a]
    BY <1>2, <2>1 DEF Inv, Shapes
  <2> QED  BY <1>2, <2>1, <2>2 DEF Stored, AddsItsOwn, Artifact
<1>3. ASSUME NEW a \in Slots, Stored(a), artifacts' = [artifacts EXCEPT ![a].expired = TRUE]
      PROVE  \A b \in Slots : /\ Stored(b)' = Stored(b)
                              /\ artifacts'[b].payload = artifacts[b].payload
  <2>1. artifacts[a] = [stored |-> TRUE, payload |-> artifacts[a].payload,
                        expired |-> artifacts[a].expired]
    BY <1>3 DEF Inv, Shapes, IsArtifact, Stored, NoArtifact
  <2> QED  BY <1>3, <2>1 DEF Inv, Shapes, Stored
<1> QED  BY <1>1, <1>2, <1>3 DEF AddsItsOwn

\* Every step lets rows and observations be, and adds its own row at most.
LEMMA NextGrows ==
  ASSUME Inv, [Next]_vars
  PROVE  Grows /\ AddsItsOwn
<1>1. \/ UNCHANGED observations
      \/ \E status, ref : Observe(status, ref)
  BY DEF Next, CallStep, Dispatch, Validate, QueryReturns, AnalyzeReturns, ReadSource, Render,
         ToolFails, Save, SaveIsUncertain, RetryOrReport, Report, Lock, Interrupt, SaveHistory,
         Expire, Failed, vars
<1>2. \A a \in DOMAIN observations : a \in DOMAIN observations' /\ observations'[a] = observations[a]
  <2>1. ASSUME NEW status, NEW ref, Observe(status, ref)
        PROVE  \A a \in DOMAIN observations :
                 a \in DOMAIN observations' /\ observations'[a] = observations[a]
    <3>1. Action \in Nat /\ DOMAIN observations = 1..(Action - 1) /\ DOMAIN observations' = 1..Action
      BY <2>1, Observed
    <3>2. \A a \in DOMAIN observations : observations'[a] = observations[a]
      BY <2>1, Observed
    <3> HIDE DEF Action
    <3> QED  BY <3>1, <3>2
  <2> QED  BY <1>1, <2>1
<1>3. \/ UNCHANGED artifacts
      \/ \E p : /\ call.pc = "save" /\ p = call.payload /\ ~Stored(Action)
                /\ artifacts' = [artifacts EXCEPT ![Action] = Artifact(p)]
      \/ \E a \in Slots : Stored(a) /\ artifacts' = [artifacts EXCEPT ![a].expired = TRUE]
  BY DEF Next, CallStep, Dispatch, Validate, QueryReturns, AnalyzeReturns, ReadSource, Render,
         ToolFails, Save, SaveIsUncertain, RetryOrReport, Report, Lock, Interrupt, SaveHistory,
         Expire, At, vars
<1> QED  BY <1>2, <1>3, RowsStay DEF Grows

\* What may be a source stays one, and so does what was made of it.
LEMMA SourcesStay ==
  ASSUME Inv, Grows, NEW a
  PROVE  /\ SourcesBefore(a) \subseteq SourcesBefore(a)'
         /\ \A b \in SourcesBefore(a) : artifacts'[b].payload = artifacts[b].payload
         /\ \A tasks : Whole(tasks, a) => Whole(tasks, a)'
<1>1. SourcesBefore(a) \subseteq SourcesBefore(a)'
  BY DEF Grows, SourcesBefore, Good
<1>2. \A b \in SourcesBefore(a) : artifacts'[b].payload = artifacts[b].payload
  BY ToldAre DEF Grows, SourcesBefore, Inv, SuccessIsStored
<1>3. ASSUME NEW tasks, Whole(tasks, a)
      PROVE  Whole(tasks, a)'
  <2>1. PICK sources \in SUBSET SourcesBefore(a) :
          sources # {} /\ Tells(tasks, [b \in sources |-> artifacts[b].payload])
    BY <1>3 DEF Whole
  <2>2. [b \in sources |-> artifacts[b].payload] = [b \in sources |-> artifacts'[b].payload]
    BY <1>2
  <2>3. Tells(tasks, [b \in sources |-> artifacts'[b].payload])
    BY <2>1, <2>2
  <2>4. sources \in SUBSET SourcesBefore(a)'
    BY <1>1
  <2>5. HaveIds(tasks)
    BY <1>3 DEF Whole
  <2> QED  BY <2>1, <2>3, <2>4, <2>5 DEF Whole, HaveIds
<1> QED  BY <1>1, <1>2, <1>3

\* A result stays one.
LEMMA ResultStays ==
  ASSUME Inv, Grows, NEW payload, NEW tool, NEW a, IsResult(payload, tool, a)
  PROVE  IsResult(payload, tool, a)'
BY SourcesStay DEF IsResult

\* The results that are stored.
LEMMA RowsAreResultsStep ==
  ASSUME Inv, ResultsInv, Grows, AddsItsOwn
  PROVE  RowsAreResults'
<1> SUFFICES ASSUME NEW a \in Slots, Stored(a)'
             PROVE  IsResult(artifacts[a].payload, artifacts[a].payload.tool, a)'
  BY DEF RowsAreResults, Stored
<1>1. CASE Stored(a)
  <2>1. IsResult(artifacts[a].payload, artifacts[a].payload.tool, a)
    BY <1>1 DEF ResultsInv, RowsAreResults
  <2>2. artifacts'[a].payload = artifacts[a].payload
    BY <1>1 DEF Grows
  <2> QED  BY <2>1, <2>2, ResultStays DEF IsResult
<1>2. CASE ~Stored(a)
  <2>1. a = Action /\ call.pc = "save" /\ artifacts'[a].payload = call.payload
    BY <1>2 DEF AddsItsOwn
  <2>2. IsResult(call.payload, call.tool, a) /\ call.payload.tool = call.tool
    BY <2>1 DEF ResultsInv, CallReturned, IsResult
  <2> QED  BY <2>1, <2>2, ResultStays DEF IsResult
<1> QED  BY <1>1, <1>2

\* What a step keeps that tells the loop of the result of its action.
LEMMA TellingKeeps ==
  ASSUME Inv, ResultsInv, Grows, AddsItsOwn, call # Idle, UNCHANGED <<artifacts, final>>,
         NEW status, NEW ref, Observe(status, ref),
         status \in {"success", "partial"} \/ ref = NoRef,
         status \in {"success", "partial"} => call.pc = "saved"
  PROVE  ResultsInv'
<1> DEFINE o == [tool |-> call.tool, status |-> status, ref |-> ref]
<1>1. /\ DOMAIN observations' = DOMAIN observations \cup {Action}
      /\ \A a \in DOMAIN observations : observations'[a] = observations[a]
      /\ observations'[Action] = o
      /\ call' = Idle
  <2>1. PICK n : n = Action
    OBVIOUS
  <2>2. n \in Nat /\ DOMAIN observations = 1..(n - 1) /\ DOMAIN observations' = 1..n
    BY <2>1, Observed
  <2>3. DOMAIN observations' = DOMAIN observations \cup {n}
    <3>1. n >= 1
      BY <2>1, Appended DEF Action, Inv, Shapes
    <3> QED  BY <2>2, <3>1
  <2> QED  BY <2>1, <2>3, Observed
<1>2. RowsAreResults'
  BY RowsAreResultsStep
<1>3. RowsHaveActions'
  BY <1>1 DEF ResultsInv, RowsHaveActions, Stored
<1>4. ReferencesAreGood'
  <2> SUFFICES ASSUME NEW a \in DOMAIN observations'
               PROVE  /\ observations'[a].ref # NoRef => Good(observations'[a])
                      /\ Good(observations'[a]) =>
                           artifacts'[a].payload.tool = observations'[a].tool
    BY DEF ReferencesAreGood, Good
  <2>1. CASE a \in DOMAIN observations
    BY <1>1, <2>1 DEF ResultsInv, ReferencesAreGood
  <2>2. CASE a = Action
    <3>1. Good(o) => artifacts[Action].payload = call.payload /\ call.payload.tool = call.tool
      BY DEF Good, Inv, CallOwnsSlot, ResultsInv, CallReturned, IsResult
    <3> QED  BY <1>1, <2>2, <3>1 DEF Good
  <2> QED  BY <1>1, <2>1, <2>2
<1>5. CallStarts' /\ CallReads' /\ CallReturned'
  BY <1>1 DEF CallStarts, CallReads, CallReturned, Idle
<1> QED  BY <1>2, <1>3, <1>4, <1>5 DEF ResultsInv

\* Known references stay known as long as nothing new is told.
LEMMA RefsStay ==
  ASSUME UNCHANGED observations
  PROVE  KnownRefs' = KnownRefs /\ Action' = Action
BY DEF KnownRefs, Action

\* Observations and rows go on to agree when nothing new is told.
LEMMA ReferencesStay ==
  ASSUME Inv, ResultsInv, Grows, UNCHANGED observations
  PROVE  ReferencesAreGood'
<1> SUFFICES ASSUME NEW a \in DOMAIN observations
             PROVE  /\ observations[a].ref # NoRef => Good(observations[a])
                    /\ Good(observations[a]) => artifacts'[a].payload.tool = observations[a].tool
  BY DEF ReferencesAreGood, Good
<1>1. Good(observations[a]) => artifacts'[a].payload = artifacts[a].payload
  BY ToldAre DEF Inv, SuccessIsStored, Grows
<1> QED  BY <1>1 DEF ResultsInv, ReferencesAreGood

\* What a step keeps that takes the running call further.
LEMMA WorkingKeeps ==
  ASSUME Inv, ResultsInv, Grows, AddsItsOwn, UNCHANGED <<observations, final>>,
         call # Idle, call' # Idle, call'.tool = call.tool, call'.refs = call.refs,
         call'.pc = "start" => call'.tasks = <<>>, CallReads', CallReturned'
  PROVE  ResultsInv'
<1>1. RowsAreResults'
  BY RowsAreResultsStep
<1>2. RowsHaveActions'
  <2> SUFFICES ASSUME NEW a \in Slots, Stored(a)', a \notin DOMAIN observations, final = Open
               PROVE  a = Action /\ artifacts'[a].payload.tool = call.tool
    BY RefsStay DEF RowsHaveActions, Stored
  <2>1. CASE Stored(a)
    BY <2>1 DEF ResultsInv, RowsHaveActions, Grows
  <2>2. CASE ~Stored(a)
    <3>1. a = Action /\ call.pc = "save" /\ artifacts'[a].payload = call.payload
      BY <2>2 DEF AddsItsOwn
    <3> QED  BY <3>1 DEF ResultsInv, CallReturned, IsResult
  <2> QED  BY <2>1, <2>2
<1>3. ReferencesAreGood'
  BY ReferencesStay
<1>4. CallStarts'
  BY RefsStay DEF ResultsInv, CallStarts
<1> QED  BY <1>1, <1>2, <1>3, <1>4 DEF ResultsInv

\* What a step keeps after which no call runs.
LEMMA RestingKeeps ==
  ASSUME Inv, ResultsInv, Grows, AddsItsOwn, UNCHANGED observations,
         call' = Idle, RowsHaveActions'
  PROVE  ResultsInv'
<1>1. RowsAreResults' /\ ReferencesAreGood'
  BY RowsAreResultsStep, ReferencesStay
<1>2. CallStarts' /\ CallReads' /\ CallReturned'
  BY DEF CallStarts, CallReads, CallReturned, Idle
<1> QED  BY <1>1, <1>2 DEF ResultsInv

\* No references, no tasks.
LEMMA NothingRead == HaveIds(<<>>) /\ \A f : Tells(<<>>, [b \in {} |-> f[b]])
<1>1. HaveIds(<<>>)
  BY DEF HaveIds
<1>2. ASSUME NEW f
      PROVE  Tells(<<>>, [b \in {} |-> f[b]])
  <2>1. PICK r : r = [b \in {} |-> f[b]]
    OBVIOUS
  <2>2. UNION {{b} \X DOMAIN TasksOf(r[b]) : b \in DOMAIN r} = {}
    BY <2>1
  <2>3. PICK origin : origin = [i \in {} |-> i]
    OBVIOUS
  <2>4. DOMAIN <<>> = {}
    OBVIOUS
  <2>5. origin \in Bijection({}, {})
    BY <2>3 DEF Bijection, Injection, Surjection, IsInjective
  <2>6. \E o \in Bijection(DOMAIN <<>>, UNION {{b} \X DOMAIN TasksOf(r[b]) : b \in DOMAIN r}) :
          \A i \in DOMAIN <<>> :
            LET task == TasksOf(r[o[i][1]])[o[i][2]]
            IN  <<>>[i].id.name = task.id.name /\ <<>>[i].ok = task.ok
    BY <2>2, <2>4, <2>5
  <2> QED  BY <2>1, <2>6 DEF Tells
<1> QED  BY <1>1, <1>2

\* The tasks of a stored result that is no report.
LEMMA TasksOfResults ==
  ASSUME NEW payload \in Contents
  PROVE  TasksOf(payload) \in Seq(Task)
<1>1. CASE payload.tool = QueryTool
  <2>1. PICK t : t = [id |-> [name |-> "query", suffixes |-> <<>>], ok |-> payload.rows # {}]
    OBVIOUS
  <2>2. "query" \in Names
    BY DEF Names
  <2>3. <<>> \in Seq(Nat)
    OBVIOUS
  <2>4. t \in Task
    BY <2>1, <2>2, <2>3 DEF Task, TaskId
  <2>5. TasksOf(payload) = <<t>>
    BY <1>1, <2>1 DEF TasksOf
  <2> QED  BY <2>4, <2>5
<1>2. CASE payload.tool # QueryTool
  BY <1>2, ContentsAssumption DEF TasksOf
<1> QED  BY <1>1, <1>2

\* What a known reference refers to.
LEMMA KnownRefIs ==
  ASSUME Inv, ResultsInv, NEW ref \in KnownRefs, Readable(ref),
         artifacts[ref.action].payload.tool # ReportTool
  PROVE  \E b \in SourcesBefore(Action) :
           /\ observations[b].ref = ref
           /\ ref.payload = artifacts[b].payload /\ ref.payload \in Contents
<1>1. PICK b \in DOMAIN observations : observations[b].ref = ref /\ ref # NoRef
  BY DEF KnownRefs, Readable
<1>2. Good(observations[b])
  BY <1>1 DEF ResultsInv, ReferencesAreGood
<1>3. Stored(b) /\ ref = Ref(b, artifacts[b].payload) /\ b \in Slots
  BY <1>1, <1>2, ToldAre DEF Inv, SuccessIsStored
<1>4. ref.action = b /\ ref.payload = artifacts[b].payload
  BY <1>3 DEF Ref
<1>5. observations[b].tool # ReportTool
  BY <1>2, <1>4 DEF ResultsInv, ReferencesAreGood
<1>6. b < Action
  <2>1. PICK n : n = Action
    OBVIOUS
  <2>2. n \in Nat /\ b \in 1..(n - 1)
    BY <2>1, ToldAre
  <2> QED  BY <2>1, <2>2
<1>7. artifacts[b].payload \in Contents
  BY <1>3, <1>4 DEF ResultsInv, RowsAreResults, IsResult
<1> QED  BY <1>1, <1>2, <1>4, <1>5, <1>6, <1>7 DEF SourcesBefore

\* A report starts to read: it has nothing yet.
LEMMA ReadingStarts ==
  ASSUME Inv, ResultsInv, Validate, ~Failed, call.tool = ReportTool
  PROVE  CallReads'
<1>1. /\ call.pc = "start" /\ call # Idle /\ Len(call.refs) \in 1..MaxRefs
      /\ call' = [call EXCEPT !.pc = "read", !.left = Dedup(call.refs)]
      /\ UNCHANGED <<artifacts, observations>>
  BY DEF Validate, At, Idle
<1>2. call'.tool = ReportTool /\ call'.tasks = <<>> /\ call'.left = Dedup(call.refs)
  BY <1>1 DEF Inv, CallShape, ResultsInv, CallStarts
<1>3. call.refs \in Seq(KnownRefs) /\ call.refs # <<>>
  <2>1. call.refs \in Seq(KnownRefs)
    BY <1>1 DEF ResultsInv, CallStarts
  <2> QED  BY <1>1, <2>1
<1>4. PICK left : left = call'.left /\ left \in Seq(KnownRefs) /\ left # <<>>
                  /\ \A i, j \in DOMAIN left : left[i] = left[j] => i = j
  BY <1>2, <1>3, Deduplicated
<1>5. PICK sources : sources = {}
  OBVIOUS
<1>6. /\ sources \in SUBSET SourcesBefore(Action)'
      /\ Tells(call'.tasks, [b \in sources |-> artifacts'[b].payload])
      /\ sources # {} \/ left # <<>>
      /\ \A b \in sources : \A i \in DOMAIN left : left[i] # observations'[b].ref
  <2>1. Tells(<<>>, [b \in {} |-> [c \in {} |-> artifacts'[c].payload][b]])
    BY NothingRead
  <2>2. [b \in {} |-> [c \in {} |-> artifacts'[c].payload][b]]
          = [b \in sources |-> artifacts'[b].payload]
    BY <1>5
  <2> QED  BY <1>2, <1>4, <1>5, <2>1, <2>2
<1>7. HaveIds(call'.tasks) /\ left \in Seq(KnownRefs')
  BY <1>1, <1>2, <1>4, NothingRead, RefsStay
<1> QED  BY <1>2, <1>4, <1>6, <1>7 DEF CallReads, HaveIds

\* A report has read one more source.
LEMMA ReadingGoesOn ==
  ASSUME Inv, ResultsInv, ReadSource, ~Failed
  PROVE  CallReads'
<1>1. PICK ref : ref = Head(call.left)
  OBVIOUS
<1>2. /\ call.pc = "read" /\ call # Idle /\ call.left # <<>>
      /\ Readable(ref) /\ artifacts[ref.action].payload.tool # ReportTool
      /\ call' = [call EXCEPT !.left = Tail(@), !.tasks = TasksFromArtifact(@, ref.payload)]
      /\ UNCHANGED <<artifacts, observations>>
  BY <1>1 DEF ReadSource, At, Idle
<1>3. /\ call'.tool = call.tool /\ call'.left = Tail(call.left)
      /\ call'.tasks = TasksFromArtifact(call.tasks, ref.payload)
  BY <1>2 DEF Inv, CallShape
<1>4. PICK left : /\ left = call.left /\ left \in Seq(KnownRefs) /\ left # <<>>
                  /\ \A i, j \in DOMAIN left : left[i] = left[j] => i = j
  BY <1>2 DEF ResultsInv, CallReads
<1>5. PICK tasks, sources :
        /\ tasks = call.tasks /\ HaveIds(tasks)
        /\ sources \in SUBSET SourcesBefore(Action)
        /\ Tells(tasks, [b \in sources |-> artifacts[b].payload])
        /\ \A b \in sources : \A i \in DOMAIN left : left[i] # observations[b].ref
  <2>1. HaveIds(call.tasks)
    BY <1>2 DEF ResultsInv, CallReads
  <2>2. PICK sources \in SUBSET SourcesBefore(Action) :
          /\ Tells(call.tasks, [b \in sources |-> artifacts[b].payload])
          /\ sources # {} \/ call.left # <<>>
          /\ \A b \in sources : \A i \in DOMAIN call.left :
               call.left[i] # observations[b].ref
    <3>1. CallReads /\ call.pc = "read"
      BY <1>2 DEF ResultsInv
    <3> QED  BY <3>1, Zenon DEF CallReads
  <2>3. PICK tasks : tasks = call.tasks
    OBVIOUS
  <2>4. /\ HaveIds(tasks) /\ Tells(tasks, [b \in sources |-> artifacts[b].payload])
        /\ \A b \in sources : \A i \in DOMAIN left : left[i] # observations[b].ref
    BY <1>4, <2>1, <2>2, <2>3
  <2> QED  BY <2>3, <2>4, Zenon
<1>6. /\ ref \in KnownRefs /\ 1 \in DOMAIN left /\ left[1] = ref
      /\ Tail(left) \in Seq(KnownRefs)
      /\ \A i \in DOMAIN Tail(left) : i + 1 \in DOMAIN left /\ Tail(left)[i] = left[i + 1]
      /\ \A i \in DOMAIN Tail(left) : i \in Nat /\ i + 1 # 1
  BY <1>1, <1>4
<1>7. PICK b \in SourcesBefore(Action) :
        /\ observations[b].ref = ref
        /\ ref.payload = artifacts[b].payload /\ ref.payload \in Contents
  BY <1>2, <1>6, KnownRefIs
<1>8. b \notin sources
  BY <1>5, <1>6, <1>7
<1>9. TasksOf(ref.payload) \in Seq(Task)
  BY <1>7, TasksOfResults
<1>10. PICK more : more = [c \in sources \cup {b} |-> artifacts[c].payload]
  OBVIOUS
<1>11. Tells(TasksFromArtifact(tasks, ref.payload), more)
  <2>1. PICK results : results = [c \in sources |-> artifacts[c].payload]
    OBVIOUS
  <2>2. DOMAIN results = sources
    BY <2>1
  <2>3. /\ DOMAIN more = DOMAIN results \cup {b} /\ more[b] = ref.payload
        /\ \A c \in DOMAIN results : more[c] = results[c]
    BY <1>7, <1>10, <2>1, <2>2
  <2>4. HaveIds(tasks) /\ Tells(tasks, results)
    BY <1>5, <2>1
  <2>5. PICK payload : payload = ref.payload /\ TasksOf(payload) \in Seq(Task)
    BY <1>9
  <2>6. OneMore(more, results, b, payload)
    BY <1>8, <2>2, <2>3, <2>5 DEF OneMore
  <2>7. Tells(TasksFromArtifact(tasks, payload), more)
    BY <2>4, <2>5, <2>6, TellsOneMore
  <2> QED  BY <2>5, <2>7
<1>12. HaveIds(TasksFromArtifact(tasks, ref.payload))
  BY <1>5, <1>9, SourceAdded DEF Holds
<1>13. /\ \A i, j \in DOMAIN Tail(left) : Tail(left)[i] = Tail(left)[j] => i = j
       /\ \A c \in sources \cup {b} : \A i \in DOMAIN Tail(left) :
            Tail(left)[i] # observations[c].ref
  <2>1. ASSUME NEW i \in DOMAIN Tail(left), NEW j \in DOMAIN Tail(left),
               Tail(left)[i] = Tail(left)[j]
        PROVE  i = j
    <3>1. i + 1 = j + 1
      BY <1>4, <1>6, <2>1
    <3> QED  BY <1>6, <3>1
  <2>2. ASSUME NEW i \in DOMAIN Tail(left)
        PROVE  Tail(left)[i] # ref
    BY <1>4, <1>6
  <2>3. ASSUME NEW i \in DOMAIN Tail(left), NEW c \in sources
        PROVE  Tail(left)[i] # observations[c].ref
    BY <1>5, <1>6
  <2> QED  BY <1>7, <2>1, <2>2, <2>3
<1>14. call.tool = ReportTool
  BY <1>2 DEF ResultsInv, CallReads
<1>15. PICK all : all = sources \cup {b} /\ all # {} /\ all \in SUBSET SourcesBefore(Action)
  BY <1>5
<1>16. SourcesBefore(Action)' = SourcesBefore(Action) /\ KnownRefs' = KnownRefs
  BY <1>2 DEF SourcesBefore, Good, KnownRefs, Action
<1>17. /\ all \in SUBSET SourcesBefore(Action)'
       /\ Tells(call'.tasks, [c \in all |-> artifacts'[c].payload])
       /\ \A c \in all : \A i \in DOMAIN call'.left : call'.left[i] # observations'[c].ref
  BY <1>2, <1>3, <1>4, <1>5, <1>10, <1>11, <1>13, <1>15, <1>16
<1>18. /\ call'.tool = ReportTool /\ HaveIds(call'.tasks)
       /\ call'.left \in Seq(KnownRefs')
       /\ \A i, j \in DOMAIN call'.left : call'.left[i] = call'.left[j] => i = j
  BY <1>3, <1>4, <1>5, <1>6, <1>12, <1>13, <1>14, <1>16
<1> QED  BY <1>15, <1>17, <1>18 DEF CallReads, HaveIds

\* What a tool returns is a result of it.
LEMMA ReturnsResult ==
  ASSUME Inv, ResultsInv, QueryReturns \/ AnalyzeReturns \/ Render
  PROVE  /\ call # Idle /\ call'.pc = "save"
         /\ call'.tool = call.tool /\ call'.refs = call.refs
         /\ IsResult(call'.payload, call.tool, Action)
<1>1. CASE QueryReturns \/ AnalyzeReturns
  <2>1. PICK c \in Contents, l \in Limits :
          /\ call.pc = "run" /\ c.tool = call.tool /\ call.tool \in {QueryTool, AnalyzeTool}
          /\ Returns(c, l)
    BY <1>1 DEF QueryReturns, AnalyzeReturns, At
  <2>2. IsResult(c, call.tool, Action)
    BY <2>1, ContentsAssumption DEF IsResult
  <2> QED  BY <2>1, <2>2 DEF Returns, Idle
<1>2. CASE Render
  <2>1. PICK l, p :
          /\ call.pc = "read" /\ call.left = <<>>
          /\ p = [tool |-> ReportTool, rows |-> {}, tasks |-> call.tasks]
          /\ Returns(p, l)
    BY <1>2 DEF Render, At
  <2>2. call.tool = ReportTool /\ Whole(call.tasks, Action)
    BY <2>1 DEF ResultsInv, CallReads, Whole
  <2>3. IsResult(p, call.tool, Action)
    BY <2>1, <2>2 DEF IsResult
  <2> QED  BY <2>1, <2>3 DEF Returns, Idle
<1> QED  BY <1>1, <1>2

\* The results of the initial states: none.
LEMMA InitResults == Init => ResultsInv
BY DEF Init, ResultsInv, RowsAreResults, RowsHaveActions, ReferencesAreGood, CallStarts,
       CallReads, CallReturned, Stored, NoArtifact, Idle

\* Every step keeps what is known of the results.
LEMMA NextResults ==
  ASSUME Inv, ResultsInv, [Next]_vars
  PROVE  ResultsInv'
<1>0. Grows /\ AddsItsOwn
  BY NextGrows
<1>1. ASSUME call # Idle, Failed, UNCHANGED <<artifacts, final>>
      PROVE  ResultsInv'
  BY <1>0, <1>1, TellingKeeps DEF Failed
<1>2. ASSUME NEW t \in Tools, NEW refs \in Seq(KnownRefs), Dispatch(t, refs)
      PROVE  ResultsInv'
  <2>1. /\ call = Idle /\ final = Open /\ call' = Begin(t, refs, 0)
        /\ UNCHANGED <<artifacts, observations, final>>
    BY <1>2 DEF Dispatch
  <2>2. RowsAreResults' /\ ReferencesAreGood'
    BY <1>0, <2>1, RowsAreResultsStep, ReferencesStay
  <2>3. RowsHaveActions'
    BY <2>1 DEF ResultsInv, RowsHaveActions, Stored
  <2>4. CallStarts' /\ CallReads' /\ CallReturned'
    BY <2>1, RefsStay DEF CallStarts, CallReads, CallReturned, Begin
  <2> QED  BY <2>2, <2>3, <2>4 DEF ResultsInv
<1>3. CASE Validate
  <2>1. /\ call # Idle /\ call.pc = "start" /\ UNCHANGED <<artifacts, final>>
    BY <1>3 DEF Validate, At, Idle
  <2>2. CASE ~Failed
    <3>1. /\ UNCHANGED observations
          /\ call' = [call EXCEPT !.pc = IF call.tool = ReportTool THEN "read" ELSE "run",
                                  !.left = Dedup(call.refs)]
      BY <1>3, <2>2 DEF Validate
    <3>2. /\ call'.tool = call.tool /\ call'.refs = call.refs
          /\ call'.pc = IF call.tool = ReportTool THEN "read" ELSE "run"
      BY <2>1, <3>1 DEF Inv, CallShape
    <3>3. CallReads'
      BY <1>3, <2>2, <3>2, ReadingStarts DEF CallReads
    <3>4. CallReturned' /\ call' # Idle /\ call'.pc # "start"
      BY <3>2 DEF CallReturned, Idle
    <3> QED  BY <1>0, <2>1, <3>1, <3>2, <3>3, <3>4, WorkingKeeps
  <2> QED  BY <1>1, <2>1, <2>2
<1>4. CASE QueryReturns \/ AnalyzeReturns \/ Render
  <2>1. UNCHANGED <<artifacts, observations, final>>
    BY <1>4 DEF QueryReturns, AnalyzeReturns, Render
  <2>2. /\ call # Idle /\ call'.pc = "save"
        /\ call'.tool = call.tool /\ call'.refs = call.refs
        /\ IsResult(call'.payload, call.tool, Action)
    BY <1>4, ReturnsResult
  <2>3. CallReturned'
    <3>1. Action' = Action
      BY <2>1, RefsStay
    <3>2. PICK p, t, a : p = call'.payload /\ t = call.tool /\ a = Action
      OBVIOUS
    <3>3. IsResult(p, t, a)'
      BY <1>0, <2>2, <3>2, ResultStays
    <3> QED  BY <2>2, <3>1, <3>2, <3>3 DEF CallReturned, IsResult
  <2>4. CallReads' /\ call' # Idle
    BY <2>2 DEF CallReads, Idle
  <2> QED  BY <1>0, <2>1, <2>2, <2>3, <2>4, WorkingKeeps
<1>5. CASE ReadSource
  <2>1. /\ call # Idle /\ call.pc = "read" /\ UNCHANGED <<artifacts, final>>
    BY <1>5 DEF ReadSource, At, Idle
  <2>2. CASE ~Failed
    <3>1. /\ UNCHANGED observations
          /\ call' = [call EXCEPT !.left = Tail(@),
                        !.tasks = TasksFromArtifact(@, Head(call.left).payload)]
      BY <1>5, <2>2 DEF ReadSource
    <3>2. call'.tool = call.tool /\ call'.refs = call.refs /\ call'.pc = "read"
      BY <2>1, <3>1 DEF Inv, CallShape
    <3>3. CallReads'
      BY <1>5, <2>2, ReadingGoesOn
    <3>4. CallReturned' /\ call' # Idle
      BY <3>2 DEF CallReturned, Idle
    <3> QED  BY <1>0, <2>1, <3>1, <3>2, <3>3, <3>4, WorkingKeeps
  <2> QED  BY <1>1, <2>1, <2>2
<1>6. CASE ToolFails
  BY <1>1, <1>6 DEF ToolFails, Idle
<1>7. CASE Save \/ SaveIsUncertain
  <2>1. call # Idle /\ call.pc = "save" /\ UNCHANGED final
    BY <1>7 DEF Save, SaveIsUncertain, At, Idle
  <2>2. CASE Failed /\ UNCHANGED artifacts
    BY <1>1, <2>1, <2>2
  <2>3. CASE /\ UNCHANGED observations
             /\ \/ call' = [call EXCEPT !.pc = "uncertain"]
                \/ /\ call' = [call EXCEPT !.pc = "saved", !.payload = artifacts'[Action].payload]
                   /\ \/ artifacts'[Action].payload = call.payload
                      \/ artifacts' = [artifacts EXCEPT ![Action] = Artifact(call.payload)]
    <3>1. Action \in Slots
      BY <2>1, RunningSlot
    <3>2. artifacts' = [artifacts EXCEPT ![Action] = Artifact(call.payload)]
            => artifacts'[Action].payload = call.payload
      BY <3>1 DEF Inv, Shapes, Artifact
    <3>3. /\ call'.pc \in {"uncertain", "saved"} /\ call'.tool = call.tool
          /\ call'.refs = call.refs /\ call'.payload = call.payload
      BY <2>1, <2>3, <3>2 DEF Inv, CallShape
    <3>4. IsResult(call.payload, call.tool, Action)
      BY <2>1 DEF ResultsInv, CallReturned
    <3>5. CallReturned'
      <4>1. PICK p, t, a : p = call.payload /\ t = call.tool /\ a = Action
        OBVIOUS
      <4>2. IsResult(p, t, a)'
        BY <1>0, <3>4, <4>1, ResultStays
      <4>3. Action' = Action
        BY <2>3, RefsStay
      <4> QED  BY <3>3, <4>1, <4>2, <4>3 DEF CallReturned, IsResult
    <3>6. CallReads' /\ call' # Idle /\ call'.pc # "start"
      BY <3>3 DEF CallReads, Idle
    <3> QED  BY <1>0, <2>1, <2>3, <3>3, <3>5, <3>6, WorkingKeeps
  <2>4. \/ Failed /\ UNCHANGED artifacts
        \/ /\ UNCHANGED observations
           /\ \/ call' = [call EXCEPT !.pc = "uncertain"]
              \/ /\ call' = [call EXCEPT !.pc = "saved", !.payload = artifacts'[Action].payload]
                 /\ \/ artifacts'[Action].payload = call.payload
                    \/ artifacts' = [artifacts EXCEPT ![Action] = Artifact(call.payload)]
    BY <1>7 DEF Save, SaveIsUncertain, Saved
  <2> QED  BY <2>2, <2>3, <2>4
<1>8. CASE RetryOrReport
  <2>1. /\ call # Idle /\ call.pc = "uncertain" /\ UNCHANGED <<artifacts, final>>
    BY <1>8 DEF RetryOrReport, At, Idle
  <2>2. CASE Observe("temporary_error", NoRef)
    BY <1>0, <2>1, <2>2, TellingKeeps
  <2>3. CASE /\ call' = Begin(call.tool, call.refs, call.retries + 1)
             /\ UNCHANGED observations
    <3>1. /\ call' # Idle /\ call'.tool = call.tool /\ call'.refs = call.refs
          /\ call'.pc = "start" /\ call'.tasks = <<>>
      BY <2>3 DEF Begin, Idle
    <3>2. CallReads' /\ CallReturned'
      BY <3>1 DEF CallReads, CallReturned
    <3> QED  BY <1>0, <2>1, <2>3, <3>1, <3>2, WorkingKeeps
  <2> QED  BY <1>8, <2>2, <2>3 DEF RetryOrReport
<1>9. CASE Report
  <2>1. /\ call # Idle /\ call.pc = "saved" /\ UNCHANGED <<artifacts, final>>
    <3>1. call.pc = "saved" /\ UNCHANGED <<artifacts, final>>
      BY <1>9 DEF Report, At
    <3> QED  BY <3>1 DEF Idle
  <2>2. CASE Observe(IF call.limits = "none" THEN "success" ELSE "partial",
                     Ref(Action, call.payload))
    BY <1>0, <2>1, <2>2, TellingKeeps
  <2> QED  BY <1>1, <1>9, <2>1, <2>2 DEF Report
<1>10. CASE Lock
  <2>1. /\ call = Idle /\ final = Open /\ UNCHANGED <<artifacts, observations, call>>
    BY <1>10 DEF Lock
  <2>2. RowsHaveActions'
    BY <2>1 DEF ResultsInv, RowsHaveActions, Stored
  <2> QED  BY <1>0, <2>1, <2>2, RestingKeeps
<1>11. CASE Interrupt
  <2>1. call' = Idle /\ final' = NoRef /\ UNCHANGED observations
    BY <1>11 DEF Interrupt
  <2>2. RowsHaveActions'
    BY <2>1, OpenAssumption DEF RowsHaveActions
  <2> QED  BY <1>0, <2>1, <2>2, RestingKeeps
<1>12. CASE SaveHistory \/ \E a \in Slots : Expire(a)
  <2>1. final # Open /\ UNCHANGED <<observations, call, final>>
    BY <1>12 DEF SaveHistory, Expire
  <2>2. call = Idle
    BY <2>1 DEF Inv, CallOwnsSlot
  <2>3. RowsHaveActions'
    BY <2>1 DEF RowsHaveActions
  <2> QED  BY <1>0, <2>1, <2>2, <2>3, RestingKeeps
<1>13. CASE UNCHANGED vars
  <2>1. UNCHANGED <<artifacts, observations, call, final>>
    BY <1>13 DEF vars
  <2>2. RowsAreResults' /\ ReferencesAreGood'
    BY <1>0, <2>1, RowsAreResultsStep, ReferencesStay
  <2>3. RowsHaveActions' /\ CallStarts'
    BY <2>1, RefsStay DEF ResultsInv, RowsHaveActions, CallStarts, Stored
  <2>4. SourcesBefore(Action)' = SourcesBefore(Action) /\ KnownRefs' = KnownRefs
    BY <2>1 DEF SourcesBefore, Good, KnownRefs, Action
  <2>5. CallReads'
    BY <2>1, <2>4, SMTT(30) DEF ResultsInv, CallReads, HaveIds
  <2>6. CallReturned'
    <3>1. PICK p, t, a : p = call.payload /\ t = call.tool /\ a = Action
      OBVIOUS
    <3>2. IsResult(p, t, a) => IsResult(p, t, a)'
      BY <1>0, ResultStays
    <3>3. Action' = Action
      BY <2>1, RefsStay
    <3> QED  BY <2>1, <3>1, <3>2, <3>3 DEF ResultsInv, CallReturned, IsResult
  <2> QED  BY <2>2, <2>3, <2>5, <2>6 DEF ResultsInv
<1>14. \A refs \in SeqOf(KnownRefs, MaxRefs + 1) : refs \in Seq(KnownRefs)
  BY DEF SeqOf
<1>15. <<>> \in Seq(KnownRefs) /\ ReportTool \in Tools
  BY DEF Tools
<1> QED  BY <1>2, <1>3, <1>4, <1>5, <1>6, <1>7, <1>8, <1>9, <1>10, <1>11, <1>12, <1>13,
            <1>14, <1>15 DEF Next, CallStep, Tools

\* The results are sound for any contents, limits and faults.
LEMMA ResultsInvariant == Spec => []ResultsInv
<1>1. Init => ResultsInv
  BY InitResults
<1>2. Inv /\ ResultsInv /\ [Next]_vars => ResultsInv'
  BY NextResults
<1> QED  BY <1>1, <1>2, Invariant, PTL DEF Spec

\* A stored report is rendered from whole results the loop was told of before
\* it, each of them once (_tasks_from_artifact, dict.fromkeys).
THEOREM ReportsAreWhole == Spec => []ReportIsWhole
<1>1. ResultsInv => ReportIsWhole
  BY DEF ResultsInv, RowsAreResults, IsResult, Whole, ReportIsWhole
<1> QED  BY <1>1, ResultsInvariant, PTL

\* Two tasks of a report never share an id, whatever names analyses give their
\* tasks (_unique_task_id).
THEOREM TasksHaveIds == Spec => []TaskIdsAreUnique
<1>1. ResultsInv => TaskIdsAreUnique
  BY DEF ResultsInv, RowsAreResults, IsResult, Whole, HaveIds, TaskIdsAreUnique
<1> QED  BY <1>1, ResultsInvariant, PTL

\* The output a run is closed with is a report that was told of and is stored as it was
\* told, whenever the deadline falls and whichever commit is lost.
THEOREM LockedReportsAreThere == Spec => []LockedReportIsThere
<1>1. ASSUME Inv, ResultsInv, final \notin {Open, NoRef}
      PROVE  LockedReportIsThere
  <2>1. PICK a \in DOMAIN observations :
          /\ Good(observations[a]) /\ observations[a].ref = final
          /\ observations[a].tool = ReportTool
    BY <1>1 DEF Inv, FinalIsReported
  <2>2. Stored(a) /\ final = Ref(a, artifacts[a].payload)
    BY <1>1, <2>1 DEF Inv, SuccessIsStored
  <2>3. final.action = a /\ final.payload = artifacts[a].payload
    BY <2>2 DEF Ref
  <2>4. final.payload.tool = ReportTool
    BY <1>1, <2>1, <2>3 DEF ResultsInv, ReferencesAreGood
  <2> QED  BY <2>1, <2>2, <2>3, <2>4 DEF LockedReportIsThere
<1>2. Inv /\ ResultsInv => LockedReportIsThere
  BY <1>1 DEF LockedReportIsThere
<1> QED  BY <1>2, Invariant, ResultsInvariant, PTL

(***************************************************************************)
(* Refinement: every step is one step of the promise, or none.             *)
(***************************************************************************)

\* What the promise sees of a state.
LEMMA PromiseStutters ==
  ASSUME UNCHANGED <<artifacts, observations, shown>>
  PROVE  UNCHANGED Promise!vars
BY DEF Promise!vars, Stored, Good

\* Telling the loop of an action is Succeed or Fail.
LEMMA PromiseObserve ==
  ASSUME Inv, call # Idle, UNCHANGED <<artifacts, shown>>,
         NEW status, NEW ref, Observe(status, ref),
         status \in {"success", "partial"} => Stored(Action)
  PROVE  Promise!Next
<1> DEFINE o == [tool |-> call.tool, status |-> status, ref |-> ref]
           told == DOMAIN observations
           trusted == {a \in DOMAIN observations : Good(observations[a])}
<1>1. observations' = Append(observations, o) /\ Len(observations) < MaxActions
  BY DEF Observe, Inv, CallOwnsSlot
<1>2. /\ Len(observations) \in Nat
      /\ DOMAIN observations = 1..Len(observations)
      /\ DOMAIN observations' = 1..(Len(observations) + 1)
      /\ \A i \in 1..Len(observations) : observations'[i] = observations[i]
      /\ observations'[Len(observations) + 1] = o
  BY <1>1, Appended DEF Inv, Shapes
<1>3. /\ Action \in Slots /\ Action \notin told
      /\ told' = told \cup {Action}
  BY <1>1, <1>2, BoundsAssumption DEF Action, Slots
<1>4. trusted' = IF Good(o) THEN trusted \cup {Action} ELSE trusted
  BY <1>2 DEF Good, Action
<1>5. UNCHANGED <<[a \in Slots |-> IF Stored(a) THEN {artifacts[a].payload} ELSE {}],
                  IF shown \in {NoRef, Text} THEN {} ELSE {shown.payload}>>
  BY DEF Stored
<1>6. CASE Good(o)
  <2>1. Stored(Action)
    BY <1>6 DEF Good
  <2> QED  BY <1>3, <1>4, <1>5, <1>6, <2>1 DEF Promise!Next, Promise!Succeed
<1>7. CASE ~Good(o)
  BY <1>3, <1>4, <1>5, <1>7 DEF Promise!Next, Promise!Fail
<1> QED  BY <1>6, <1>7

\* Inserting the row of the running action is Store.
LEMMA PromiseStore ==
  ASSUME Inv, call # Idle, ~Stored(Action), UNCHANGED <<observations, shown>>,
         NEW p, artifacts' = [artifacts EXCEPT ![Action] = Artifact(p)]
  PROVE  Promise!Next
<1> DEFINE result == [a \in Slots |-> IF Stored(a) THEN {artifacts[a].payload} ELSE {}]
<1>1. Action \in Slots /\ Action \notin DOMAIN observations
  BY RunningSlot
<1>2. artifacts'[Action] = Artifact(p)
  BY <1>1 DEF Inv, Shapes
<1>3. \A a \in Slots \ {Action} : artifacts'[a] = artifacts[a]
  BY <1>1 DEF Inv, Shapes
<1>4. result[Action] = {} /\ result'[Action] = {p}
  BY <1>1, <1>2 DEF Stored, Artifact
<1>5. result' = [result EXCEPT ![Action] = result'[Action]]
  BY <1>1, <1>3, <1>4 DEF Stored
<1>6. UNCHANGED <<DOMAIN observations,
                  {a \in DOMAIN observations : Good(observations[a])},
                  IF shown \in {NoRef, Text} THEN {} ELSE {shown.payload}>>
  BY DEF Good
<1> HIDE DEF result
<1>7. result'[Action] # {}
  BY <1>4
<1> QED  BY <1>1, <1>4, <1>5, <1>6, <1>7 DEF Promise!Next, Promise!Store, result

\* Every step is one step of the promise, or none.
LEMMA PromiseStep ==
  ASSUME Inv, [Next]_vars
  PROVE  [Promise!Next]_(Promise!vars)
<1>1. CASE \/ \E t \in Tools : \E refs : Dispatch(t, refs)
           \/ QueryReturns \/ AnalyzeReturns \/ Render \/ Lock \/ UNCHANGED vars
  BY <1>1, PromiseStutters
     DEF Dispatch, QueryReturns, AnalyzeReturns, Render, Lock, vars
<1>2. CASE /\ call # Idle /\ UNCHANGED <<artifacts, shown>>
           /\ Failed \/ Observe("temporary_error", NoRef)
  BY <1>2, PromiseObserve DEF Failed
<1>3. CASE Validate \/ ReadSource \/ ToolFails \/ RetryOrReport
  <2>1. /\ call # Idle /\ UNCHANGED <<artifacts, shown>>
        /\ Failed \/ Observe("temporary_error", NoRef) \/ UNCHANGED observations
    BY <1>3 DEF Validate, ReadSource, ToolFails, RetryOrReport, At, Idle
  <2> QED  BY <1>2, <2>1, PromiseStutters
<1>4. CASE Save \/ SaveIsUncertain \/ Interrupt
  <2>1. /\ call # Idle /\ UNCHANGED shown
        /\ \/ UNCHANGED artifacts /\ Failed
           \/ UNCHANGED <<artifacts, observations>>
           \/ /\ ~Stored(Action) /\ UNCHANGED observations
              /\ artifacts' = [artifacts EXCEPT ![Action] = Artifact(call.payload)]
    BY <1>4 DEF Save, SaveIsUncertain, Interrupt, At, Idle
  <2> QED  BY <1>2, <2>1, PromiseStutters, PromiseStore
<1>5. CASE Report
  <2>1. /\ call.pc = "saved" /\ UNCHANGED <<artifacts, shown>>
        /\ \/ Failed
           \/ Observe(IF call.limits = "none" THEN "success" ELSE "partial",
                      Ref(Action, call.payload))
    BY <1>5 DEF Report, At
  <2>2. call # Idle /\ Stored(Action)
    BY <2>1 DEF Inv, CallOwnsSlot, Idle
  <2> QED  BY <1>2, <2>1, <2>2, PromiseObserve
<1>6. CASE SaveHistory
  <2>1. final # Open /\ shown = NoRef /\ UNCHANGED <<artifacts, observations>>
    BY <1>6 DEF SaveHistory
  <2>2. CASE final = NoRef \/ final \in {NoRef, Text}
    BY <1>6, <2>1, <2>2 DEF SaveHistory, Promise!vars, Stored, Good
  <2>3. CASE final \notin {NoRef, Text}
    <3>1. shown' = final
      BY <1>6, <2>3 DEF SaveHistory
    <3>2. PICK a \in DOMAIN observations :
            Good(observations[a]) /\ observations[a].ref = final
      BY <2>1, <2>3 DEF Inv, FinalIsReported
    <3>3. Stored(a) /\ final = Ref(a, artifacts[a].payload) /\ a \in Slots
      <4>1. DOMAIN observations \subseteq Slots
        BY Appended, BoundsAssumption DEF Inv, Shapes, Slots
      <4> QED  BY <3>2, <4>1 DEF Inv, SuccessIsStored
    <3>4. final.payload = artifacts[a].payload
      BY <3>3 DEF Ref
    <3> QED  BY <2>1, <2>3, <3>1, <3>2, <3>3, <3>4
             DEF Promise!Next, Promise!Publish, Stored, Good
  <2> QED  BY <2>2, <2>3
<1>7. ASSUME NEW a \in Slots, Expire(a)
      PROVE  [Promise!Next]_(Promise!vars)
  <2>1. /\ artifacts' = [artifacts EXCEPT ![a].expired = TRUE]
        /\ Stored(a) /\ UNCHANGED <<observations, shown>>
    BY <1>7 DEF Expire
  <2>2. artifacts[a] = [stored |-> TRUE, payload |-> artifacts[a].payload,
                        expired |-> artifacts[a].expired]
    BY <2>1 DEF Inv, Shapes, IsArtifact, Stored, NoArtifact
  <2>3. \A b \in Slots : Stored(b)' = Stored(b) /\ artifacts'[b].payload = artifacts[b].payload
    BY <2>1, <2>2 DEF Inv, Shapes, Stored
  <2> QED  BY <2>1, <2>3 DEF Promise!vars, Good
<1> QED  BY <1>1, <1>3, <1>4, <1>5, <1>6, <1>7 DEF Next, CallStep, Tools

\* The tool calls of a run, with every retry, lost commit, cancellation and
\* expiry, implement the promise.
THEOREM Refinement == Spec => KeepsArtifactPromise
<1>1. Init => Promise!Init
  BY DEF Init, Promise!Init, Stored, NoArtifact, Good
<1>2. Inv /\ [Next]_vars => [Promise!Next]_(Promise!vars)
  BY PromiseStep
<1> QED  BY <1>1, <1>2, Invariant, PTL DEF Spec, KeepsArtifactPromise, Promise!Spec
=============================================================================
