-------------------------- MODULE SchedulerSafety --------------------------
(***************************************************************************)
(* The remaining methods keep a sound record, and from that the safety     *)
(* theorems of Scheduler.                                                  *)
(***************************************************************************)
EXTENDS SchedulerProofs

LEMMA PutBackSound ==
  ASSUME NEW s, Sound(s), NEW k \in 0 .. Len(s.queue), NEW now \in Time, k < Len(s.queue)
  PROVE  Sound(PutBack(s, k, now))
<1> DEFINE u == Taken(s, k, now, None)
           t == s.queue[k + 1]
           r == SubSeq(s.queue, k + 2, Len(s.queue))
           q == Append(r, t)
<1>1. s.queue \in Seq(Task) /\ Len(s.queue) \in Nat /\ Len(s.queue) <= capacity
      /\ Distinct(s.queue)
  BY SoundFields
<1>2. Sound(u)
  BY TakenSound
<1>3. u.queue = SubSeq(s.queue, k + 1, Len(s.queue))
  BY SMTT(30) DEF Taken
<1>4. PutBack(s, k, now) = [queue |-> q, state |-> u.state, deadline |-> u.deadline,
                            claims |-> u.claims, generations |-> u.generations]
  BY DEF PutBack
<1> HIDE DEF u
<1>5. k \in Nat /\ k + 1 \in 1 .. Len(s.queue) /\ (k + 1) + 1 = k + 2
      /\ k + 1 \in 0 .. Len(s.queue) /\ t \in Task
  BY <1>1
<1> DEFINE n == k + 1
<1>6. /\ r \in Seq(Task) /\ Len(r) = Len(s.queue) - n /\ Distinct(r)
      /\ \A v \in Task : In(r, v) <=> In(s.queue, v) /\ v \notin {s.queue[i] : i \in 1 .. n}
  <2> HIDE DEF n
  <2>1. n \in 0 .. Len(s.queue) /\ n + 1 = k + 2 /\ s.queue \in Seq(Task) /\ Distinct(s.queue)
    BY <1>1, <1>5 DEF n
  <2>2. r = SubSeq(s.queue, n + 1, Len(s.queue))
    BY <2>1, SMTT(30)
  <2> QED
    BY <2>1, <2>2, SuffixDrops, ZenonT(30)
<1>7. \A v \in Task : In(u.queue, v) <=> In(s.queue, v) /\ v \notin {s.queue[i] : i \in 1 .. k}
  <2> DEFINE w == SubSeq(s.queue, k + 1, Len(s.queue))
  <2>1. \A v \in Task : In(w, v) <=> In(s.queue, v) /\ v \notin {s.queue[i] : i \in 1 .. k}
    BY <1>1, SuffixDrops
  <2>2. w = u.queue
    BY <1>3
  <2> HIDE DEF w
  <2> QED
    BY <2>1, <2>2
<1>8. t \notin {s.queue[i] : i \in 1 .. k} /\ In(s.queue, t) /\ t \in {s.queue[i] : i \in 1 .. n}
  BY <1>1, <1>5 DEF Distinct, In
<1>9. \A v \in Task : v \in {s.queue[i] : i \in 1 .. n}
                        <=> v = t \/ v \in {s.queue[i] : i \in 1 .. k}
  BY <1>5
<1> HIDE DEF r, t, n
<1>10. ~In(r, t)
  BY <1>5, <1>6, <1>8, Zenon
<1>11. /\ q \in Seq(Task) /\ Len(q) = Len(r) + 1 /\ Distinct(q)
       /\ \A v \in Task : In(q, v) <=> v = t \/ In(r, v)
  BY <1>5, <1>6, <1>10, AppendAdds
<1> HIDE DEF q
<1>12. Len(q) <= capacity
  BY <1>1, <1>5, <1>6, <1>11, SchedulerAssumption DEF n
<1>13. \A v \in Task : In(q, v) <=> In(u.queue, v)
  BY <1>5, <1>6, <1>7, <1>8, <1>9, <1>11, Zenon
<1>14. /\ u.state \in [Task -> TaskState \cup {"Absent"}]
       /\ u.deadline \in [Task -> Deadline] /\ u.claims \in [Task -> Claim \cup {None}]
       /\ u.generations \in [Task -> 0 .. MaxGeneration]
       /\ \A v \in Task : u.state[v] = "Queued" <=> In(u.queue, v)
       /\ \A v \in Task : u.claims[v] # None =>
            u.state[v] \in {"Running", "WaitingIo"} /\ u.claims[v].generation = u.generations[v]
  BY <1>2, SoundFields
<1>15. \A v \in Task : u.state[v] = "Queued" <=> In(q, v)
  BY <1>13, <1>14, Zenon
<1>16. Sound([queue |-> q, state |-> u.state, deadline |-> u.deadline,
              claims |-> u.claims, generations |-> u.generations])
  BY <1>11, <1>12, <1>14, <1>15, SoundRecord, ZenonT(30)
<1> QED
  BY <1>4, <1>16

LEMMA RequeuedSound ==
  ASSUME NEW s, Sound(s), NEW now \in Time, NEW batch \in SUBSET Task, NEW r \in Seq(Task),
         \A t \in batch : s.claims[t] # None,
         \A i \in 1 .. Len(r) : r[i] \in batch \ Overdue(s, batch, now),
         Distinct(r), Len(r) <= remaining_capacity(s)
  PROVE  Sound(Requeued(s, batch, r, now))
<1> DEFINE lapsed == Overdue(s, batch, now)
           queued == {r[i] : i \in 1 .. Len(r)}
           q == s.queue \o r
           st == [t \in Task |-> IF t \in lapsed THEN "TimedOut"
                                 ELSE IF t \in queued THEN "Queued"
                                 ELSE s.state[t]]
           cl == [t \in Task |-> IF t \in lapsed \cup queued THEN None
                                 ELSE s.claims[t]]
<1>1. /\ s.queue \in Seq(Task) /\ s.state \in [Task -> TaskState \cup {"Absent"}]
      /\ s.deadline \in [Task -> Deadline] /\ s.claims \in [Task -> Claim \cup {None}]
      /\ s.generations \in [Task -> 0 .. MaxGeneration]
      /\ Len(s.queue) \in Nat /\ Len(s.queue) <= capacity /\ Distinct(s.queue)
  BY SoundFields
<1>2. /\ \A t \in Task : s.state[t] = "Queued" <=> In(s.queue, t)
      /\ \A t \in Task : s.claims[t] # None =>
           s.state[t] \in {"Running", "WaitingIo"} /\ s.claims[t].generation = s.generations[t]
  BY SoundFields
<1>3. Requeued(s, batch, r, now) = [queue |-> q, state |-> st, deadline |-> s.deadline,
                                    claims |-> cl, generations |-> s.generations]
  BY DEF Requeued
<1>4. lapsed \subseteq batch /\ queued \subseteq batch \ lapsed
  BY DEF Overdue
<1>5. \A t \in Task : In(r, t) <=> t \in queued
  BY DEF In
<1> HIDE DEF lapsed, queued
<1>6. \A t \in Task : ~(In(s.queue, t) /\ In(r, t))
  BY <1>4, <1>5, QueuedUnclaimed
<1>7. /\ q \in Seq(Task) /\ Len(q) = Len(s.queue) + Len(r) /\ Distinct(q)
      /\ \A t \in Task : In(q, t) <=> In(s.queue, t) \/ In(r, t)
  BY <1>1, <1>6, ConcatAdds
<1>8. Len(q) <= capacity
  <2> HIDE DEF q
  <2>1. Len(r) \in Nat
    OBVIOUS
  <2> QED
    BY <1>1, <1>7, <2>1, SchedulerAssumption DEF remaining_capacity, Full
<1>9. \A t \in batch : ~In(s.queue, t)
  BY QueuedUnclaimed
<1> HIDE DEF q
<1>10. \A t \in Task : st[t] = "Queued" <=> In(q, t)
  BY <1>2, <1>4, <1>5, <1>7, <1>9
<1>11. st \in [Task -> TaskState \cup {"Absent"}] /\ cl \in [Task -> Claim \cup {None}]
  BY <1>1 DEF TaskState
<1>12. \A t \in Task : cl[t] # None =>
         st[t] \in {"Running", "WaitingIo"} /\ cl[t].generation = s.generations[t]
  BY <1>2
<1> HIDE DEF st, cl
<1>13. Sound([queue |-> q, state |-> st, deadline |-> s.deadline,
              claims |-> cl, generations |-> s.generations])
  BY <1>1, <1>7, <1>8, <1>10, <1>11, <1>12, SoundRecord, ZenonT(30)
<1> QED
  BY <1>3, <1>13

LEMMA RenewedSound ==
  ASSUME NEW s, Sound(s), NEW t \in Task, s.claims[t] # None, NEW until \in Until
  PROVE  Sound(Renewed(s, t, until))
<1> DEFINE cl == [s.claims EXCEPT ![t] = [generation |-> @.generation, owner |-> @.owner,
                                          until |-> until]]
<1>1. /\ s.queue \in Seq(Task) /\ s.state \in [Task -> TaskState \cup {"Absent"}]
      /\ s.deadline \in [Task -> Deadline] /\ s.claims \in [Task -> Claim \cup {None}]
      /\ s.generations \in [Task -> 0 .. MaxGeneration]
      /\ Len(s.queue) \in Nat /\ Len(s.queue) <= capacity /\ Distinct(s.queue)
  BY SoundFields
<1>2. /\ \A u \in Task : s.state[u] = "Queued" <=> In(s.queue, u)
      /\ \A u \in Task : s.claims[u] # None =>
           s.state[u] \in {"Running", "WaitingIo"} /\ s.claims[u].generation = s.generations[u]
  BY SoundFields
<1>3. cl \in [Task -> Claim \cup {None}]
  BY <1>1 DEF Claim
<1>4. \A u \in Task : cl[u] # None =>
        s.state[u] \in {"Running", "WaitingIo"} /\ cl[u].generation = s.generations[u]
  BY <1>1, <1>2
<1>5. Renewed(s, t, until) = [queue |-> s.queue, state |-> s.state, deadline |-> s.deadline,
                              claims |-> cl, generations |-> s.generations]
  BY DEF Renewed
<1> HIDE DEF cl
<1>6. Sound([queue |-> s.queue, state |-> s.state, deadline |-> s.deadline,
             claims |-> cl, generations |-> s.generations])
  BY <1>1, <1>2, <1>3, <1>4, SoundRecord, ZenonT(30)
<1> QED
  BY <1>5, <1>6

-----------------------------------------------------------------------------
(* What no method may do to a task: take back a generation, bring back an  *)
(* old claim, or change how the task ended.                                *)

Keeps(s, u) ==
  \A t \in Task :
    /\ s.generations[t] <= u.generations[t]
    /\ u.claims[t] # None =>
         \/ u.claims[t].generation > s.generations[t]
         \/ /\ s.claims[t] # None
            /\ u.claims[t].generation = s.claims[t].generation
            /\ u.claims[t].owner = s.claims[t].owner
    /\ s.state[t] \in Terminal => u.state[t] = s.state[t]

LEMMA KeepsTransitive ==
  ASSUME NEW s, NEW u, NEW v, Sound(s), Sound(u), Sound(v), Keeps(s, u), Keeps(u, v)
  PROVE  Keeps(s, v)
<1>1. \A t \in Task : s.generations[t] \in Int /\ u.generations[t] \in Int /\ v.generations[t] \in Int
  BY SoundFields
<1>2. \A t \in Task : v.claims[t] # None => v.claims[t].generation = v.generations[t]
  BY SoundFields
<1> QED
  BY <1>1, <1>2 DEF Keeps

LEMMA MovedKeeps ==
  ASSUME NEW s, Sound(s), NEW t \in Task, NEW next \in TaskState, CanMove(s, t, next)
  PROVE  Keeps(s, Moved(s, t, next))
<1> DEFINE u == Moved(s, t, next)
<1>1. /\ s.state \in [Task -> TaskState \cup {"Absent"}]
      /\ s.claims \in [Task -> Claim \cup {None}]
      /\ \A v \in Task : s.generations[v] \in Int
  BY SoundFields
<1>2. /\ u.state = [s.state EXCEPT ![t] = next] /\ u.generations = s.generations
      /\ \A v \in Task : u.claims[v] \in {s.claims[v], None}
  BY <1>1 DEF Moved
<1>3. s.state[t] \notin Terminal
  BY DEF CanMove, can_transition_to, Terminal
<1> HIDE DEF u
<1>4. Keeps(s, u)
  BY <1>1, <1>2, <1>3 DEF Keeps
<1> QED
  BY <1>4 DEF u

LEMMA EnqueuedKeeps ==
  ASSUME NEW s, Sound(s), NEW t \in Task, NEW d \in Deadline, s.state[t] = "Absent"
  PROVE  Keeps(s, Enqueued(s, t, d))
<1> DEFINE u == Enqueued(s, t, d)
<1>1. /\ s.state \in [Task -> TaskState \cup {"Absent"}]
      /\ \A v \in Task : s.generations[v] \in Int
  BY SoundFields
<1>2. /\ u.state = [s.state EXCEPT ![t] = "Queued"] /\ u.generations = s.generations
      /\ u.claims = s.claims
  BY DEF Enqueued
<1> HIDE DEF u
<1>3. Keeps(s, u)
  BY <1>1, <1>2 DEF Keeps, Terminal
<1> QED
  BY <1>3 DEF u

LEMMA TakenKeeps ==
  ASSUME NEW s, Sound(s), NEW k \in 0 .. Len(s.queue), NEW now, NEW lease
  PROVE  Keeps(s, Taken(s, k, now, lease))
<1> DEFINE u == Taken(s, k, now, lease)
           heads == {s.queue[i] : i \in 1 .. k}
<1>1. s.queue \in Seq(Task) /\ \A v \in Task : s.generations[v] \in Int
  BY SoundFields
<1>2. \A v \in Task : v \in heads => s.state[v] = "Queued" /\ s.claims[v] = None
  <2>1. \A v \in heads : In(s.queue, v)
    BY <1>1, SMTT(30) DEF In
  <2> HIDE DEF heads
  <2> QED
    BY <2>1, QueuedUnclaimed, Zenon
<1>3. \A v \in Task :
        /\ u.generations[v] \in {s.generations[v], s.generations[v] + 1}
        /\ v \notin heads => u.state[v] = s.state[v]
        /\ u.claims[v] # None => u.claims[v] = s.claims[v]
                                 \/ u.claims[v].generation = s.generations[v] + 1
  BY DEF Taken
<1> HIDE DEF u, heads
<1>4. Keeps(s, u)
  BY <1>1, <1>2, <1>3 DEF Keeps, Terminal
<1> QED
  BY <1>4 DEF u

LEMMA RequeuedKeeps ==
  ASSUME NEW s, Sound(s), NEW now, NEW batch \in SUBSET Task, NEW r \in Seq(Task),
         \A t \in batch : s.claims[t] # None,
         \A i \in 1 .. Len(r) : r[i] \in batch
  PROVE  Keeps(s, Requeued(s, batch, r, now))
<1> DEFINE u == Requeued(s, batch, r, now)
<1>1. \A v \in Task : s.generations[v] \in Int
  BY SoundFields
<1>2. \A v \in batch : s.state[v] \notin Terminal
  BY SoundFields DEF Terminal
<1>3. /\ u.generations = s.generations
      /\ \A v \in Task : /\ u.claims[v] \in {s.claims[v], None}
                         /\ v \notin batch => u.state[v] = s.state[v]
  BY DEF Requeued, Overdue
<1> HIDE DEF u
<1>4. Keeps(s, u)
  BY <1>1, <1>2, <1>3 DEF Keeps
<1> QED
  BY <1>4 DEF u

LEMMA RenewedKeeps ==
  ASSUME NEW s, Sound(s), NEW t \in Task, s.claims[t] # None, NEW until
  PROVE  Keeps(s, Renewed(s, t, until))
<1> DEFINE u == Renewed(s, t, until)
<1>1. s.claims \in [Task -> Claim \cup {None}] /\ \A v \in Task : s.generations[v] \in Int
  BY SoundFields
<1>2. /\ u.generations = s.generations /\ u.state = s.state
      /\ u.claims = [s.claims EXCEPT ![t] = [generation |-> s.claims[t].generation,
                                             owner |-> s.claims[t].owner, until |-> until]]
  BY <1>1 DEF Renewed
<1> HIDE DEF u
<1>3. Keeps(s, u)
  BY <1>1, <1>2 DEF Keeps
<1> QED
  BY <1>3 DEF u

LEMMA PutBackKeeps ==
  ASSUME NEW s, Sound(s), NEW k \in 0 .. Len(s.queue), NEW now
  PROVE  Keeps(s, PutBack(s, k, now))
<1> DEFINE u == Taken(s, k, now, None)
           v == PutBack(s, k, now)
<1>1. Keeps(s, u)
  BY TakenKeeps
<1>2. v.state = u.state /\ v.claims = u.claims /\ v.generations = u.generations
  BY DEF PutBack
<1> HIDE DEF u, v
<1>3. Keeps(s, v)
  BY <1>1, <1>2 DEF Keeps
<1> QED
  BY <1>3 DEF v

-----------------------------------------------------------------------------
(* The actions.                                                            *)

LEMMA LeaseStep ==
  ASSUME Sound(sch), issued \subseteq Token, clock \in Time,
         NEW o \in Owner, NEW ms \in 1 .. MaxLease, claim_with_lease(o, ms)
  PROVE  /\ Sound(sch') /\ Keeps(sch, sch') /\ clock' = clock
         /\ \/ issued' = issued
            \/ \E t \in Task :
                 /\ issued' = issued \cup {[task |-> t, owner |-> o,
                                            generation |-> sch.generations[t] + 1]}
                 /\ sch'.generations[t] = sch.generations[t] + 1
                 /\ sch.generations[t] + 1 \in 1 .. MaxGeneration
<1> DEFINE lease == [owner |-> o, until |-> clock + ms]
<1>1. PICK k \in 0 .. Len(sch.queue) :
        /\ Lapsed(sch, clock, k) /\ k < Len(sch.queue)
        /\ \/ /\ ~Exhausted(sch, sch.queue[k + 1])
              /\ sch' = Taken(sch, k + 1, clock, lease)
              /\ issued' = issued \cup {[task |-> sch.queue[k + 1], owner |-> o,
                                         generation |-> sch.generations[sch.queue[k + 1]] + 1]}
           \/ /\ Exhausted(sch, sch.queue[k + 1])
              /\ sch' = PutBack(sch, k, clock)
              /\ UNCHANGED issued
        /\ UNCHANGED clock
  BY DEF claim_with_lease
<1> DEFINE t == sch.queue[k + 1]
<1>2. /\ sch.queue \in Seq(Task) /\ Len(sch.queue) \in Nat /\ Distinct(sch.queue)
      /\ sch.generations \in [Task -> 0 .. MaxGeneration]
  BY SoundFields
<1>3. k + 1 \in 0 .. Len(sch.queue) /\ k + 1 \in 1 .. (k + 1) /\ t \in Task
  BY <1>1, <1>2
<1>4. lease \in Lease /\ lease # None
  <2>1. lease \in Lease
    BY SchedulerAssumption DEF Time, Until, Lease
  <2> QED
    BY <2>1, SchedulerAssumption
<1>5. CASE Exhausted(sch, t)
  <2>1. sch' = PutBack(sch, k, clock) /\ issued' = issued /\ clock' = clock
    BY <1>1, <1>5
  <2> QED
    BY <1>1, <2>1, PutBackSound, PutBackKeeps
<1>6. CASE ~Exhausted(sch, t)
  <2> DEFINE n == k + 1
  <2>1. \A i \in 1 .. n : deadline_reached(sch, sch.queue[i], clock)
                          \/ ~Exhausted(sch, sch.queue[i])
    BY <1>1, <1>6 DEF Lapsed
  <2>2. /\ sch' = Taken(sch, n, clock, lease) /\ clock' = clock
        /\ issued' = issued \cup {[task |-> t, owner |-> o,
                                   generation |-> sch.generations[t] + 1]}
    BY <1>1, <1>6
  <2>3. ~deadline_reached(sch, t, clock)
    BY <1>1 DEF Lapsed
  <2>4. sch.generations[t] + 1 \in 1 .. MaxGeneration
    <3>1. sch.generations[t] \in 0 .. MaxGeneration /\ sch.generations[t] # MaxGeneration
      BY <1>2, <1>3, <1>6, SMTT(30) DEF Exhausted
    <3> HIDE DEF t
    <3> QED
      BY <3>1, SchedulerAssumption
  <2>5. t \in {sch.queue[i] : i \in 1 .. n}
    BY <1>3
  <2>6. sch'.generations[t] = sch.generations[t] + 1
    <3> HIDE DEF lease, n, t
    <3> QED
      BY <1>3, <1>4, <2>2, <2>3, <2>5 DEF Taken
  <2>7. n \in 0 .. Len(sch.queue)
    BY <1>3
  <2> HIDE DEF lease, n, t
  <2>8. Sound(sch') /\ Keeps(sch, sch')
    BY <1>4, <2>1, <2>2, <2>7, TakenSound, TakenKeeps
  <2> QED
    BY <1>3, <2>2, <2>4, <2>6, <2>8
<1> QED
  BY <1>5, <1>6

LEMMA RequeueStep ==
  ASSUME Sound(sch), clock \in Time, NEW ids \in SUBSET Task, NEW limit,
         \A t \in ids : sch.claims[t] # None, requeue_claims(ids, limit)
  PROVE  Sound(sch') /\ Keeps(sch, sch')
<1> DEFINE batch == Batch(ids, limit)
<1>1. PICK r \in Listing :
        /\ FirstOf(r, batch \ Overdue(sch, batch, clock), remaining_capacity(sch))
        /\ sch' = Requeued(sch, batch, r, clock)
  BY DEF requeue_claims
<1>2. batch \in SUBSET Task /\ \A t \in batch : sch.claims[t] # None
  BY DEF Batch
<1> HIDE DEF batch
<1>3. r \in Seq(Task)
  BY SchedulerAssumption DEF Listing
<1>4. /\ \A i \in 1 .. Len(r) : r[i] \in batch \ Overdue(sch, batch, clock)
      /\ Len(r) <= remaining_capacity(sch)
  BY <1>1 DEF FirstOf
<1>5. Distinct(r)
  <2>1. \A i \in 1 .. Len(r) : r[i] \in Nat
    BY <1>3, SchedulerAssumption
  <2>2. \A i, j \in 1 .. Len(r) : i < j => r[i] < r[j]
    BY <1>1 DEF FirstOf
  <2>3. Len(r) \in Nat
    BY <1>3
  <2> QED
    BY <2>1, <2>2, <2>3 DEF Distinct
<1> QED
  BY <1>1, <1>2, <1>3, <1>4, <1>5, RequeuedSound, RequeuedKeeps, ZenonT(30)

LEMMA ReleaseStep ==
  ASSUME Sound(sch), NEW t \in Task, NEW now, sch.claims[t] # None,
         deadline_reached(sch, t, now) \/ ~Full(sch)
  PROVE  Sound(Released(sch, t, now)) /\ Keeps(sch, Released(sch, t, now))
<1>1. sch.state[t] \in {"Running", "WaitingIo"}
  BY SoundFields
<1>2. CASE deadline_reached(sch, t, now)
  <2>1. CanMove(sch, t, "TimedOut") /\ "TimedOut" \in TaskState
    BY <1>1 DEF CanMove, can_transition_to, Terminal, TaskState
  <2> QED
    BY <1>1, <1>2, <2>1, MovedSound, MovedKeeps DEF Released
<1>3. CASE ~deadline_reached(sch, t, now)
  <2> DEFINE u == Moved(sch, t, "Retrying")
  <2>1. CanMove(sch, t, "Retrying") /\ "Retrying" \in TaskState
    BY <1>1 DEF CanMove, can_transition_to, TaskState
  <2>2. Sound(u) /\ Keeps(sch, u)
    BY <1>1, <2>1, MovedSound, MovedKeeps
  <2>3. u.state[t] = "Retrying" /\ u.queue = sch.queue
    BY SoundFields DEF Moved, Terminal
  <2> HIDE DEF u
  <2>4. CanMove(u, t, "Queued") /\ "Queued" \in TaskState
    BY <1>3, <2>3 DEF CanMove, can_transition_to, Full, TaskState
  <2>5. Sound(Moved(u, t, "Queued")) /\ Keeps(u, Moved(u, t, "Queued"))
    BY <2>2, <2>3, <2>4, MovedSound, MovedKeeps
  <2>6. Keeps(sch, Moved(u, t, "Queued"))
    BY <2>2, <2>5, KeepsTransitive
  <2>7. Released(sch, t, now) = Moved(u, t, "Queued")
    BY <1>3, ZenonT(30) DEF Released, u
  <2> QED
    BY <2>5, <2>6, <2>7
<1> QED
  BY <1>2, <1>3

\* What every step keeps, and the only way a claim comes to be issued.
LEMMA StepKeeps ==
  ASSUME Sound(sch), issued \subseteq Token, clock \in Time, Next
  PROVE  /\ Sound(sch') /\ Keeps(sch, sch') /\ clock' \in Time
         /\ \/ issued' = issued
            \/ \E t \in Task, o \in Owner :
                 /\ issued' = issued \cup {[task |-> t, owner |-> o,
                                            generation |-> sch.generations[t] + 1]}
                 /\ sch'.generations[t] = sch.generations[t] + 1
                 /\ sch.generations[t] + 1 \in 1 .. MaxGeneration
<1>1. ASSUME NEW t \in Task, NEW d \in Deadline, enqueue(t, d)
      PROVE  Sound(sch') /\ Keeps(sch, sch') /\ UNCHANGED <<issued, clock>>
  BY <1>1, EnqueuedSound, EnqueuedKeeps DEF enqueue
<1>2. ASSUME peek_runnable
      PROVE  Sound(sch') /\ Keeps(sch, sch') /\ UNCHANGED <<issued, clock>>
  BY <1>2, TakenSound, TakenKeeps DEF peek_runnable
<1>3. ASSUME claim
      PROVE  Sound(sch') /\ Keeps(sch, sch') /\ UNCHANGED <<issued, clock>>
  <2>1. PICK k \in 0 .. Len(sch.queue) :
          k < Len(sch.queue) /\ sch' = Taken(sch, k + 1, clock, None)
    BY <1>3 DEF claim
  <2>2. Len(sch.queue) \in Nat
    BY SoundFields
  <2>3. k + 1 \in 0 .. Len(sch.queue)
    BY <2>1, <2>2
  <2> DEFINE n == k + 1
  <2>4. n \in 0 .. Len(sch.queue) /\ sch' = Taken(sch, n, clock, None)
    BY <2>1, <2>3
  <2> HIDE DEF n
  <2>5. Sound(sch') /\ Keeps(sch, sch')
    BY <2>4, TakenSound, TakenKeeps
  <2> QED
    BY <1>3, <2>5 DEF claim
<1>4. ASSUME NEW c \in issued, NEW ms \in 1 .. MaxLease, renew_claim(c, ms)
      PROVE  Sound(sch') /\ Keeps(sch, sch') /\ UNCHANGED <<issued, clock>>
  <2>1. c.task \in Task /\ sch.claims[c.task] # None
    BY <1>4 DEF Token, renew_claim, require_live_claim, Holds
  <2>2. clock + ms \in Until
    BY SchedulerAssumption DEF Time, Until
  <2> QED
    BY <1>4, <2>1, <2>2, RenewedSound, RenewedKeeps DEF renew_claim
<1>5. ASSUME NEW c \in issued, NEW next \in ClaimOutcome, finish_claim(c, next)
      PROVE  Sound(sch') /\ Keeps(sch, sch') /\ UNCHANGED <<issued, clock>>
  <2>1. c.task \in Task /\ next \in TaskState /\ next # "Running"
    BY DEF Token, ClaimOutcome, TaskState
  <2> QED
    BY <1>5, <2>1, MovedSound, MovedKeeps DEF finish_claim
<1>6. ASSUME NEW c \in issued, release_claim(c)
      PROVE  Sound(sch') /\ Keeps(sch, sch') /\ UNCHANGED <<issued, clock>>
  <2>1. c.task \in Task /\ sch.claims[c.task] # None
    BY <1>6 DEF Token, release_claim, require_live_claim, Holds
  <2> QED
    BY <1>6, <2>1, ReleaseStep DEF release_claim
<1>7. ASSUME NEW limit \in 0 .. MaxLimit, requeue_expired(limit)
      PROVE  Sound(sch') /\ Keeps(sch, sch') /\ UNCHANGED <<issued, clock>>
  <2>1. /\ ExpiredClaims(sch, clock) \in SUBSET Task
        /\ \A t \in ExpiredClaims(sch, clock) : sch.claims[t] # None
    BY DEF ExpiredClaims
  <2>2. UNCHANGED <<issued, clock>>
    BY <1>7 DEF requeue_expired, requeue_claims
  <2> QED
    BY <1>7, <2>1, <2>2, RequeueStep DEF requeue_expired
<1>8. ASSUME NEW o \in Owner, NEW limit \in 0 .. MaxLimit, requeue_owner_claims(o, limit)
      PROVE  Sound(sch') /\ Keeps(sch, sch') /\ UNCHANGED <<issued, clock>>
  <2>1. /\ OwnedClaims(sch, o) \in SUBSET Task
        /\ \A t \in OwnedClaims(sch, o) : sch.claims[t] # None
    BY DEF OwnedClaims
  <2>2. UNCHANGED <<issued, clock>>
    BY <1>8 DEF requeue_owner_claims, requeue_claims
  <2> QED
    BY <1>8, <2>1, <2>2, RequeueStep DEF requeue_owner_claims
<1>9. ASSUME NEW t \in Task, NEW next \in TaskState, transition(t, next)
      PROVE  Sound(sch') /\ Keeps(sch, sch') /\ UNCHANGED <<issued, clock>>
  BY <1>9, MovedSound, MovedKeeps DEF transition
<1>10. ASSUME NEW t \in Task, cancel(t)
       PROVE  Sound(sch') /\ Keeps(sch, sch') /\ UNCHANGED <<issued, clock>>
  <2>1. "Canceled" \in TaskState
    BY DEF TaskState
  <2> QED
    BY <1>10, <2>1, MovedSound, MovedKeeps DEF cancel
<1>11. ASSUME ClockStep
       PROVE  Sound(sch') /\ Keeps(sch, sch') /\ issued' = issued /\ clock' \in Time
  <2>1. sch' = sch /\ issued' = issued /\ clock' \in Time
    BY <1>11 DEF ClockStep
  <2>2. \A t \in Task : sch.generations[t] \in Int
    BY SoundFields
  <2>3. Keeps(sch, sch)
    BY <2>2 DEF Keeps
  <2> QED
    BY <2>1, <2>3
<1> QED
  BY <1>1, <1>2, <1>3, <1>4, <1>5, <1>6, <1>7, <1>8, <1>9, <1>10, <1>11, LeaseStep, SMTT(30) DEF Next

-----------------------------------------------------------------------------
(* The theorems.                                                           *)

\* The inductive invariant: a sound record, and claims whose generations are
\* all behind the scheduler's count and never shared.
Inv ==
  /\ Sound(sch)
  /\ issued \subseteq Token
  /\ clock \in Time
  /\ GenerationsAreFresh

LEMMA InvInit == Init => Inv
<1> SUFFICES ASSUME Init PROVE Inv
  OBVIOUS
<1>1. issued = {} /\ clock \in Time /\ sch = new
  BY SchedulerAssumption DEF Init, Time
<1>2. \A t \in Task : ~In(<<>>, t)
  BY DEF In
<1>3. Distinct(<<>>) /\ Len(<<>>) <= capacity /\ <<>> \in Seq(Task)
  BY SchedulerAssumption DEF Distinct
<1>4. Sound(new)
  <2>1. /\ [t \in Task |-> "Absent"] \in [Task -> TaskState \cup {"Absent"}]
        /\ [t \in Task |-> None] \in [Task -> Deadline]
        /\ [t \in Task |-> None] \in [Task -> Claim \cup {None}]
        /\ [t \in Task |-> 0] \in [Task -> 0 .. MaxGeneration]
    BY SchedulerAssumption DEF Deadline
  <2> QED
    BY <1>2, <1>3, <2>1, SoundRecord, ZenonT(30) DEF new
<1> QED
  BY <1>1, <1>4 DEF Inv, GenerationsAreFresh

LEMMA InvStep == Inv /\ [Next]_vars => Inv'
<1> SUFFICES ASSUME Inv, [Next]_vars PROVE Inv'
  OBVIOUS
<1>1. CASE UNCHANGED vars
  BY <1>1 DEF Inv, vars, GenerationsAreFresh
<1>2. CASE Next
  <2>1. Sound(sch) /\ issued \subseteq Token /\ clock \in Time
    BY DEF Inv
  <2>2. /\ Sound(sch') /\ Keeps(sch, sch') /\ clock' \in Time
        /\ \/ issued' = issued
           \/ \E t \in Task, o \in Owner :
                /\ issued' = issued \cup {[task |-> t, owner |-> o,
                                           generation |-> sch.generations[t] + 1]}
                /\ sch'.generations[t] = sch.generations[t] + 1
                /\ sch.generations[t] + 1 \in 1 .. MaxGeneration
    BY <1>2, <2>1, StepKeeps
  <2>3. /\ \A t \in Task : /\ sch.generations[t] \in Int /\ sch'.generations[t] \in Int
                           /\ sch.generations[t] <= sch'.generations[t]
        /\ \A c \in issued : c.task \in Task /\ c.generation \in Int
    <3>1. \A t \in Task : sch.generations[t] \in Int /\ sch'.generations[t] \in Int
      BY <2>1, <2>2, SoundFields
    <3> QED
      BY <2>1, <2>2, <3>1 DEF Keeps, Token
  <2>4. /\ \A c \in issued : c.generation <= sch.generations[c.task]
        /\ \A c, d \in issued : c.task = d.task /\ c.generation = d.generation => c = d
    BY DEF Inv, GenerationsAreFresh
  <2>5. CASE issued' = issued
    BY <2>1, <2>2, <2>3, <2>4, <2>5, SMTT(30) DEF Inv, GenerationsAreFresh
  <2>6. ASSUME NEW t \in Task, NEW o \in Owner,
               issued' = issued \cup {[task |-> t, owner |-> o,
                                       generation |-> sch.generations[t] + 1]},
               sch'.generations[t] = sch.generations[t] + 1,
               sch.generations[t] + 1 \in 1 .. MaxGeneration
        PROVE  Inv'
    <3> DEFINE e == [task |-> t, owner |-> o, generation |-> sch.generations[t] + 1]
    <3>1. e \in Token /\ e.task = t /\ e.generation = sch.generations[t] + 1
          /\ issued' = issued \cup {e}
      BY <2>6 DEF Token
    <3> HIDE DEF e
    <3>2. \A c \in issued : c.task = t => c.generation < e.generation
      BY <2>3, <2>4, <3>1
    <3>3. \A c \in issued' : c.generation <= sch'.generations[c.task]
      BY <2>3, <2>4, <2>6, <3>1
    <3>4. \A c, d \in issued' : c.task = d.task /\ c.generation = d.generation => c = d
      BY <2>3, <2>4, <3>1, <3>2
    <3> QED
      BY <2>1, <2>2, <3>1, <3>3, <3>4 DEF Inv, GenerationsAreFresh
  <2> QED
    BY <2>2, <2>5, <2>6
<1> QED
  BY <1>1, <1>2

LEMMA InvHolds == Spec => []Inv
  BY InvInit, InvStep, PTL DEF Spec

\* The scheduler's data stay well typed whatever order its methods are called in.
THEOREM SchedulerTypeCorrect == Spec => []TypeOK
<1>1. Inv => TypeOK
  BY DEF Inv, TypeOK, Sound
<1> QED
  BY <1>1, InvHolds, PTL

\* The queue of tysel-scheduler holds exactly the queued tasks, once each and
\* within the capacity, for any number of tasks and owners.
THEOREM QueueExactness == Spec => []QueueIsExact
<1>1. Inv => QueueIsExact
  BY DEF Inv, QueueIsExact, Sound, QueueExact
<1> QED
  BY <1>1, InvHolds, PTL

\* A lease belongs to a running task and to its newest generation.
THEOREM LeasesOfRunning == Spec => []ClaimsAreOfRunning
<1>1. Inv => ClaimsAreOfRunning
  BY DEF Inv, ClaimsAreOfRunning, Sound, ClaimsRunning
<1> QED
  BY <1>1, InvHolds, PTL

\* Among all claims a task ever had, at most one is live.
THEOREM AtMostOneHolder == Spec => []OneHolder
<1>1. Inv => OneHolder
  BY DEF Inv, OneHolder, GenerationsAreFresh, require_live_claim, Holds
<1> QED
  BY <1>1, InvHolds, PTL

\* A claim that finish_claim, renew_claim or release_claim once refused as
\* fenced is refused for ever.
THEOREM FencingIsPermanent == Spec => FencedForGood
<1>1. Inv /\ [Next]_vars => [\A c \in issued : ~Holds(sch, c) => ~Holds(sch', c)]_vars
  <2> SUFFICES ASSUME Inv, Next, NEW c \in issued, ~Holds(sch, c)
               PROVE  ~Holds(sch', c)
    BY DEF vars, Holds
  <2>1. Sound(sch) /\ issued \subseteq Token /\ clock \in Time
    BY DEF Inv
  <2>2. Keeps(sch, sch')
    BY <2>1, StepKeeps
  <2>3. c.task \in Task /\ c.generation \in Int /\ c.generation <= sch.generations[c.task]
        /\ sch.generations[c.task] \in Int
    <3>1. c.task \in Task /\ c.generation \in Int
      BY <2>1 DEF Token
    <3>2. sch.generations[c.task] \in Int
      BY <2>1, <3>1, SoundFields
    <3> QED
      BY <3>1, <3>2 DEF Inv, GenerationsAreFresh
  <2> QED
    BY <2>2, <2>3 DEF Keeps, Holds
<1> QED
  BY <1>1, InvHolds, PTL DEF Spec, FencedForGood

\* No later call changes how a task ended.
THEOREM EndsAreFinal == Spec => TerminalIsFinal
<1>1. Inv /\ [Next]_vars =>
        [\A t \in Task : sch.state[t] \in Terminal => sch'.state[t] = sch.state[t]]_vars
  <2> SUFFICES ASSUME Inv, Next, NEW t \in Task, sch.state[t] \in Terminal
               PROVE  sch'.state[t] = sch.state[t]
    BY DEF vars
  <2>1. Keeps(sch, sch')
    BY StepKeeps DEF Inv
  <2> QED
    BY <2>1 DEF Keeps
<1> QED
  BY <1>1, InvHolds, PTL DEF Spec, TerminalIsFinal

====
