--------------------------- MODULE SchedulerQueue ---------------------------
(***************************************************************************)
(* Lemmas about the scheduler's queue as a sequence: what is in it, and    *)
(* that it stays without duplicates, when a task is appended or removed,   *)
(* its first tasks are taken, or a list of other tasks is added.           *)
(***************************************************************************)
EXTENDS Scheduler, TLAPS

\* Removing a task from a queue without duplicates removes exactly that task.
LEMMA RetainRemoves ==
  ASSUME NEW q \in Seq(Task), NEW t \in Task, Distinct(q)
  PROVE  /\ Retain(q, t) \in Seq(Task)
         /\ Len(Retain(q, t)) <= Len(q)
         /\ Distinct(Retain(q, t))
         /\ \A u \in Task : In(Retain(q, t), u) <=> u # t /\ In(q, u)
<1> DEFINE r == Retain(q, t)
<1>1. CASE ~In(q, t)
  <2>1. r = q
    BY <1>1 DEF Retain
  <2> QED
    BY <1>1, <2>1
<1>2. CASE In(q, t)
  <2> DEFINE k == CHOOSE i \in 1 .. Len(q) : q[i] = t
  <2>1. k \in 1 .. Len(q) /\ q[k] = t
    BY <1>2 DEF In
  <2>2. r = [i \in 1 .. (Len(q) - 1) |-> IF i < k THEN q[i] ELSE q[i + 1]]
    BY <1>2 DEF Retain
  <2> HIDE DEF k, r
  <2>3. Len(q) \in Nat /\ Len(q) - 1 \in Nat
    BY <2>1
  <2>4. r \in Seq(Task) /\ Len(r) = Len(q) - 1
    BY <2>1, <2>2, <2>3
  <2>5. \A i \in 1 .. Len(r) : r[i] = IF i < k THEN q[i] ELSE q[i + 1]
    BY <2>2, <2>4, Zenon
  <2>6. Distinct(r)
    BY <2>1, <2>3, <2>4, <2>5 DEF Distinct
  <2>7. ASSUME NEW u \in Task
        PROVE  In(r, u) <=> u # t /\ In(q, u)
    <3>1. ASSUME NEW i \in 1 .. Len(r), r[i] = u
          PROVE  u # t /\ In(q, u)
      BY <2>1, <2>3, <2>4, <2>5, <3>1 DEF In, Distinct
    <3>2. ASSUME u # t, NEW i \in 1 .. Len(q), q[i] = u
          PROVE  \E j \in 1 .. Len(r) : r[j] = u
      <4>1. CASE i < k
        BY <2>1, <2>3, <2>4, <2>5, <3>2, <4>1
      <4>2. CASE i > k
        <5>1. i - 1 \in 1 .. Len(r) /\ r[i - 1] = u
          BY <2>1, <2>3, <2>4, <2>5, <3>2, <4>2
        <5> QED
          BY <5>1
      <4> QED
        BY <2>1, <3>2, <4>1, <4>2
    <3> QED
      BY <3>1, <3>2 DEF In
  <2>8. Len(r) <= Len(q)
    BY <2>3, <2>4
  <2> QED
    BY <2>4, <2>6, <2>7, <2>8 DEF r
<1> QED
  BY <1>1, <1>2

\* Appending a task that is not in the queue.
LEMMA AppendAdds ==
  ASSUME NEW q \in Seq(Task), NEW t \in Task, Distinct(q), ~In(q, t)
  PROVE  /\ Append(q, t) \in Seq(Task)
         /\ Len(Append(q, t)) = Len(q) + 1
         /\ Distinct(Append(q, t))
         /\ \A u \in Task : In(Append(q, t), u) <=> u = t \/ In(q, u)
BY DEF In, Distinct

\* The queue behind its first k tasks.
LEMMA SuffixDrops ==
  ASSUME NEW q \in Seq(Task), NEW k \in 0 .. Len(q), Distinct(q)
  PROVE  /\ SubSeq(q, k + 1, Len(q)) \in Seq(Task)
         /\ Len(SubSeq(q, k + 1, Len(q))) = Len(q) - k
         /\ Distinct(SubSeq(q, k + 1, Len(q)))
         /\ \A u \in Task : In(SubSeq(q, k + 1, Len(q)), u)
                              <=> In(q, u) /\ u \notin {q[i] : i \in 1 .. k}
<1> DEFINE r == SubSeq(q, k + 1, Len(q))
<1>1. r \in Seq(Task) /\ Len(r) = Len(q) - k /\ \A i \in 1 .. Len(r) : r[i] = q[i + k]
  OBVIOUS
<1> HIDE DEF r
<1>2. Len(q) \in Nat /\ k \in Nat /\ k <= Len(q)
  OBVIOUS
<1>3. ASSUME NEW i \in 1 .. Len(r), NEW j \in 1 .. Len(r), r[i] = r[j] PROVE i = j
  <2>1. i + k \in 1 .. Len(q) /\ j + k \in 1 .. Len(q) /\ q[i + k] = q[j + k]
    BY <1>1, <1>2, <1>3
  <2>2. i + k = j + k
    BY <2>1 DEF Distinct
  <2> QED
    BY <1>2, <2>2
<1>4. ASSUME NEW u \in Task
      PROVE  In(r, u) <=> In(q, u) /\ u \notin {q[i] : i \in 1 .. k}
  <2>1. ASSUME NEW i \in 1 .. Len(r), r[i] = u
        PROVE  In(q, u) /\ u \notin {q[j] : j \in 1 .. k}
    <3>1. i + k \in 1 .. Len(q) /\ q[i + k] = u
      BY <1>1, <1>2, <2>1
    <3>2. \A j \in 1 .. k : j \in 1 .. Len(q) /\ j # i + k
      BY <1>1, <1>2
    <3> QED
      BY <3>1, <3>2, Zenon DEF In, Distinct
  <2>2. ASSUME NEW i \in 1 .. Len(q), q[i] = u, u \notin {q[j] : j \in 1 .. k}
        PROVE  \E j \in 1 .. Len(r) : r[j] = u
    <3>1. i \notin 1 .. k
      BY <2>2
    <3>2. i - k \in 1 .. Len(r) /\ r[i - k] = u
      BY <1>1, <1>2, <2>2, <3>1
    <3> QED
      BY <3>2
  <2> QED
    BY <2>1, <2>2, Zenon DEF In
<1>5. Distinct(r)
  BY <1>3 DEF Distinct
<1> QED
  BY <1>1, <1>4, <1>5, Zenon DEF r

\* Adding a list of other tasks to a queue.
LEMMA ConcatAdds ==
  ASSUME NEW q \in Seq(Task), NEW r \in Seq(Task), Distinct(q), Distinct(r),
         \A t \in Task : ~(In(q, t) /\ In(r, t))
  PROVE  /\ q \o r \in Seq(Task)
         /\ Len(q \o r) = Len(q) + Len(r)
         /\ Distinct(q \o r)
         /\ \A u \in Task : In(q \o r, u) <=> In(q, u) \/ In(r, u)
<1> DEFINE c == q \o r
<1>1. c \in Seq(Task) /\ Len(c) = Len(q) + Len(r) /\ Len(q) \in Nat /\ Len(r) \in Nat
  OBVIOUS
<1>2. /\ \A i \in 1 .. Len(q) : c[i] = q[i] /\ q[i] \in Task
      /\ \A i \in 1 .. Len(r) : c[Len(q) + i] = r[i] /\ r[i] \in Task
  OBVIOUS
<1> HIDE DEF c
<1>3. \A i \in 1 .. Len(c) : i \in 1 .. Len(q) \/ i - Len(q) \in 1 .. Len(r)
  BY <1>1
<1>4. \A i \in 1 .. Len(c) : Len(q) + (i - Len(q)) = i
  BY <1>1
<1>5. \A i \in 1 .. Len(c) : i - Len(q) \in 1 .. Len(r) => c[i] = r[i - Len(q)]
  BY <1>2, <1>4
<1>6. \A i \in 1 .. Len(q), j \in 1 .. Len(r) : q[i] # r[j]
  BY <1>2, Zenon DEF In
<1>7. ASSUME NEW i \in 1 .. Len(c), NEW j \in 1 .. Len(c), c[i] = c[j] PROVE i = j
  <2>1. CASE i \in 1 .. Len(q) /\ j \in 1 .. Len(q)
    BY <1>2, <1>7, <2>1, Zenon DEF Distinct
  <2>2. CASE i - Len(q) \in 1 .. Len(r) /\ j - Len(q) \in 1 .. Len(r)
    <3>1. r[i - Len(q)] = r[j - Len(q)]
      BY <1>5, <1>7, <2>2
    <3>2. i - Len(q) = j - Len(q)
      BY <2>2, <3>1, Zenon DEF Distinct
    <3> QED
      BY <1>4, <3>2, Zenon
  <2>3. CASE i \in 1 .. Len(q) /\ j - Len(q) \in 1 .. Len(r)
    BY <1>2, <1>5, <1>6, <1>7, <2>3, ZenonT(30)
  <2>4. CASE i - Len(q) \in 1 .. Len(r) /\ j \in 1 .. Len(q)
    BY <1>2, <1>5, <1>6, <1>7, <2>4, ZenonT(30)
  <2> QED
    BY <1>3, <2>1, <2>2, <2>3, <2>4, Zenon
<1>8. ASSUME NEW u \in Task
      PROVE  In(c, u) <=> In(q, u) \/ In(r, u)
  <2>1. \A i \in 1 .. Len(q) : i \in 1 .. Len(c) /\ c[i] = q[i]
    BY <1>1, <1>2
  <2>2. \A i \in 1 .. Len(r) : Len(q) + i \in 1 .. Len(c) /\ c[Len(q) + i] = r[i]
    BY <1>1, <1>2
  <2> QED
    BY <1>3, <1>5, <2>1, <2>2, ZenonT(30) DEF In
<1>9. Distinct(c)
  BY <1>7, Zenon DEF Distinct
<1> QED
  BY <1>1, <1>8, <1>9, Zenon DEF c

====
