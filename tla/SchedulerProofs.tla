-------------------------- MODULE SchedulerProofs --------------------------
(***************************************************************************)
(* Proofs about Scheduler, for every set of tasks and owners, every        *)
(* capacity and every bound.  `Sound` collects what each method keeps of   *)
(* the record; one lemma per method shows that it does.                    *)
(***************************************************************************)
EXTENDS SchedulerQueue

QueueExact(s) ==
  /\ Len(s.queue) <= capacity
  /\ Distinct(s.queue)
  /\ \A t \in Task : s.state[t] = "Queued" <=> In(s.queue, t)

ClaimsRunning(s) ==
  \A t \in Task : s.claims[t] # None =>
    /\ s.state[t] \in {"Running", "WaitingIo"}
    /\ s.claims[t].generation = s.generations[t]

Sound(s) == s \in SchedulerType /\ QueueExact(s) /\ ClaimsRunning(s)

LEMMA SoundFields ==
  ASSUME NEW s, Sound(s)
  PROVE  /\ s.queue \in Seq(Task) /\ s.state \in [Task -> TaskState \cup {"Absent"}]
         /\ s.deadline \in [Task -> Deadline] /\ s.claims \in [Task -> Claim \cup {None}]
         /\ s.generations \in [Task -> 0 .. MaxGeneration]
         /\ Len(s.queue) \in Nat /\ Len(s.queue) <= capacity /\ Distinct(s.queue)
         /\ \A t \in Task : s.state[t] = "Queued" <=> In(s.queue, t)
         /\ \A t \in Task : s.claims[t] # None =>
              s.state[t] \in {"Running", "WaitingIo"} /\ s.claims[t].generation = s.generations[t]
<1>1. /\ s.queue \in Seq(Task) /\ s.state \in [Task -> TaskState \cup {"Absent"}]
      /\ s.deadline \in [Task -> Deadline] /\ s.claims \in [Task -> Claim \cup {None}]
      /\ s.generations \in [Task -> 0 .. MaxGeneration]
  BY DEF Sound, SchedulerType
<1>2. Len(s.queue) \in Nat
  BY <1>1
<1> QED
  BY <1>1, <1>2, Zenon DEF Sound, QueueExact, ClaimsRunning

\* The parts of Sound, for a record given by its fields.
LEMMA SoundRecord ==
  ASSUME NEW q \in Seq(Task), NEW st \in [Task -> TaskState \cup {"Absent"}],
         NEW dl \in [Task -> Deadline], NEW cl \in [Task -> Claim \cup {None}],
         NEW gn \in [Task -> 0 .. MaxGeneration],
         Len(q) <= capacity, Distinct(q),
         \A t \in Task : st[t] = "Queued" <=> In(q, t),
         \A t \in Task : cl[t] # None =>
           st[t] \in {"Running", "WaitingIo"} /\ cl[t].generation = gn[t]
  PROVE  Sound([queue |-> q, state |-> st, deadline |-> dl, claims |-> cl, generations |-> gn])
<1> DEFINE m == [queue |-> q, state |-> st, deadline |-> dl, claims |-> cl, generations |-> gn]
<1>1. m \in SchedulerType
  BY DEF SchedulerType
<1>2. /\ m.queue = q /\ m.state = st /\ m.claims = cl /\ m.generations = gn
  OBVIOUS
<1> HIDE DEF m
<1>3. QueueExact(m) /\ ClaimsRunning(m)
  BY <1>2, Zenon DEF QueueExact, ClaimsRunning
<1> QED
  BY <1>1, <1>3 DEF Sound, m

-----------------------------------------------------------------------------

LEMMA MovedSound ==
  ASSUME NEW s, Sound(s), NEW t \in Task, NEW next \in TaskState,
         CanMove(s, t, next), ~(s.state[t] = "Queued" /\ next = "Running")
  PROVE  Sound(Moved(s, t, next))
<1> DEFINE st == [s.state EXCEPT ![t] = next]
           cl == IF next \in {"Running", "WaitingIo"} THEN s.claims
                 ELSE [s.claims EXCEPT ![t] = None]
           q == IF next = "Queued" THEN Append(s.queue, t)
                ELSE IF next \in Terminal THEN Retain(s.queue, t)
                ELSE s.queue
<1>1. /\ s.queue \in Seq(Task) /\ s.state \in [Task -> TaskState \cup {"Absent"}]
      /\ s.deadline \in [Task -> Deadline] /\ s.claims \in [Task -> Claim \cup {None}]
      /\ s.generations \in [Task -> 0 .. MaxGeneration]
      /\ Len(s.queue) \in Nat /\ Len(s.queue) <= capacity /\ Distinct(s.queue)
  BY SoundFields
<1>2. /\ \A u \in Task : s.state[u] = "Queued" <=> In(s.queue, u)
      /\ \A u \in Task : s.claims[u] # None =>
           s.state[u] \in {"Running", "WaitingIo"} /\ s.claims[u].generation = s.generations[u]
  BY SoundFields
<1>3. /\ s.state[t] # next
      /\ next \notin Terminal \cup {"Queued"} => s.state[t] # "Queued"
  BY DEF CanMove, can_transition_to, Terminal
<1>4. st \in [Task -> TaskState \cup {"Absent"}] /\ cl \in [Task -> Claim \cup {None}]
  BY <1>1
<1>5. \A u \in Task : cl[u] # None =>
        st[u] \in {"Running", "WaitingIo"} /\ cl[u].generation = s.generations[u]
  BY <1>1, <1>2
<1>6. q \in Seq(Task) /\ Len(q) <= capacity /\ Distinct(q)
      /\ \A u \in Task : st[u] = "Queued" <=> In(q, u)
  <2>1. CASE next = "Queued"
    <3>1. q = Append(s.queue, t) /\ ~In(s.queue, t)
      BY <1>2, <1>3, <2>1
    <3> HIDE DEF q
    <3>2. /\ q \in Seq(Task) /\ Len(q) = Len(s.queue) + 1 /\ Distinct(q)
          /\ \A u \in Task : In(q, u) <=> u = t \/ In(s.queue, u)
      <4>1. s.queue \in Seq(Task) /\ Distinct(s.queue)
        BY <1>1
      <4> QED
        BY <4>1, <3>1, AppendAdds
    <3>3. Len(s.queue) < capacity
      BY <1>1, <2>1, SchedulerAssumption DEF CanMove, Full
    <3>4. \A u \in Task : st[u] = "Queued" <=> u = t \/ s.state[u] = "Queued"
      BY <1>1, <2>1
    <3> HIDE DEF q, st
    <3> QED
      BY <1>1, <1>2, <3>2, <3>3, <3>4, SchedulerAssumption
  <2>2. CASE next \in Terminal
    <3>1. q = Retain(s.queue, t) /\ next # "Queued"
      BY <2>2 DEF Terminal
    <3> HIDE DEF q
    <3>2. /\ q \in Seq(Task) /\ Len(q) <= Len(s.queue) /\ Distinct(q)
          /\ \A u \in Task : In(q, u) <=> u # t /\ In(s.queue, u)
      <4>1. s.queue \in Seq(Task) /\ Distinct(s.queue)
        BY <1>1
      <4> QED
        BY <4>1, <3>1, RetainRemoves, ZenonT(30)
    <3>3. \A u \in Task : st[u] = "Queued" <=> u # t /\ s.state[u] = "Queued"
      BY <1>1, <3>1
    <3>4. Len(q) \in Nat
      BY <3>2
    <3> HIDE DEF q, st
    <3> QED
      BY <1>1, <1>2, <3>2, <3>3, <3>4, SchedulerAssumption
  <2>3. CASE next # "Queued" /\ next \notin Terminal
    <3>1. q = s.queue
      BY <2>3
    <3>2. \A u \in Task : st[u] = "Queued" <=> s.state[u] = "Queued"
      BY <1>1, <1>3, <2>3
    <3> HIDE DEF q, st
    <3> QED
      BY <1>1, <1>2, <3>1, <3>2
  <2> HIDE DEF q, st
  <2> QED
    BY <2>1, <2>2, <2>3
<1>7. Moved(s, t, next) = [queue |-> q, state |-> st, deadline |-> s.deadline,
                           claims |-> cl, generations |-> s.generations]
  BY DEF Moved
<1> HIDE DEF q, st, cl
<1>8. Sound([queue |-> q, state |-> st, deadline |-> s.deadline,
             claims |-> cl, generations |-> s.generations])
  BY <1>1, <1>4, <1>5, <1>6, SoundRecord, ZenonT(30)
<1> QED
  BY <1>7, <1>8

LEMMA EnqueuedSound ==
  ASSUME NEW s, Sound(s), NEW t \in Task, NEW d \in Deadline,
         s.state[t] = "Absent", ~Full(s)
  PROVE  Sound(Enqueued(s, t, d))
<1> DEFINE q == Append(s.queue, t)
           st == [s.state EXCEPT ![t] = "Queued"]
           dl == [s.deadline EXCEPT ![t] = d]
<1>1. /\ s.queue \in Seq(Task) /\ s.state \in [Task -> TaskState \cup {"Absent"}]
      /\ s.deadline \in [Task -> Deadline] /\ s.claims \in [Task -> Claim \cup {None}]
      /\ s.generations \in [Task -> 0 .. MaxGeneration]
      /\ Len(s.queue) \in Nat /\ Len(s.queue) <= capacity /\ Distinct(s.queue)
  BY SoundFields
<1>2. /\ \A u \in Task : s.state[u] = "Queued" <=> In(s.queue, u)
      /\ \A u \in Task : s.claims[u] # None =>
           s.state[u] \in {"Running", "WaitingIo"} /\ s.claims[u].generation = s.generations[u]
  BY SoundFields
<1>3. ~In(s.queue, t) /\ Len(s.queue) < capacity
  BY <1>1, <1>2, SchedulerAssumption DEF Full
<1>4. /\ q \in Seq(Task) /\ Len(q) = Len(s.queue) + 1 /\ Distinct(q)
      /\ \A u \in Task : In(q, u) <=> u = t \/ In(s.queue, u)
  BY <1>1, <1>3, AppendAdds
<1>5. /\ st \in [Task -> TaskState \cup {"Absent"}]
      /\ dl \in [Task -> Deadline]
      /\ \A u \in Task : st[u] = "Queued" <=> u = t \/ s.state[u] = "Queued"
  BY <1>1 DEF TaskState
<1>6. \A u \in Task : s.claims[u] # None =>
        st[u] \in {"Running", "WaitingIo"} /\ s.claims[u].generation = s.generations[u]
  BY <1>1, <1>2
<1>7. Enqueued(s, t, d) = [queue |-> q, state |-> st, deadline |-> dl,
                           claims |-> s.claims, generations |-> s.generations]
  BY DEF Enqueued
<1> HIDE DEF q, st, dl
<1>8. Len(q) <= capacity
  BY <1>1, <1>3, <1>4, SchedulerAssumption
<1>9. \A u \in Task : st[u] = "Queued" <=> In(q, u)
  BY <1>2, <1>4, <1>5, Zenon
<1>10. Sound([queue |-> q, state |-> st, deadline |-> dl,
              claims |-> s.claims, generations |-> s.generations])
  BY <1>1, <1>4, <1>5, <1>6, <1>8, <1>9, SoundRecord, ZenonT(30)
<1> QED
  BY <1>7, <1>10

-----------------------------------------------------------------------------

\* A queued task has no lease.
LEMMA QueuedUnclaimed ==
  ASSUME NEW s, Sound(s), NEW t \in Task, In(s.queue, t)
  PROVE  s.state[t] = "Queued" /\ s.claims[t] = None
<1>1. s.state[t] = "Queued"
  BY SoundFields, Zenon
<1> QED
  BY <1>1, SoundFields

LEMMA TakenSound ==
  ASSUME NEW s, Sound(s), NEW k \in 0 .. Len(s.queue), NEW now \in Time,
         NEW lease \in Lease \cup {None},
         lease # None => \A i \in 1 .. k :
           deadline_reached(s, s.queue[i], now) \/ ~Exhausted(s, s.queue[i])
  PROVE  Sound(Taken(s, k, now, lease))
<1> DEFINE heads == {s.queue[i] : i \in 1 .. k}
           lapsed == {t \in heads : deadline_reached(s, t, now)}
           leased == IF lease = None THEN {} ELSE heads \ lapsed
           q == SubSeq(s.queue, k + 1, Len(s.queue))
           st == [t \in Task |-> IF t \in lapsed THEN "TimedOut"
                                 ELSE IF t \in heads THEN "Running"
                                 ELSE s.state[t]]
           cl == [t \in Task |-> IF t \in leased
                                 THEN [generation |-> s.generations[t] + 1,
                                       owner |-> lease.owner, until |-> lease.until]
                                 ELSE IF t \in lapsed THEN None
                                 ELSE s.claims[t]]
           gn == [t \in Task |-> IF t \in leased THEN s.generations[t] + 1
                                 ELSE s.generations[t]]
<1>1. /\ s.queue \in Seq(Task) /\ s.state \in [Task -> TaskState \cup {"Absent"}]
      /\ s.deadline \in [Task -> Deadline] /\ s.claims \in [Task -> Claim \cup {None}]
      /\ s.generations \in [Task -> 0 .. MaxGeneration]
      /\ Len(s.queue) \in Nat /\ Len(s.queue) <= capacity /\ Distinct(s.queue)
  BY SoundFields
<1>2. /\ \A t \in Task : s.state[t] = "Queued" <=> In(s.queue, t)
      /\ \A t \in Task : s.claims[t] # None =>
           s.state[t] \in {"Running", "WaitingIo"} /\ s.claims[t].generation = s.generations[t]
  BY SoundFields
<1>3. heads \subseteq Task /\ \A t \in heads : In(s.queue, t)
  BY <1>1 DEF In
<1>4. /\ q \in Seq(Task) /\ Len(q) = Len(s.queue) - k /\ Distinct(q)
      /\ \A t \in Task : In(q, t) <=> In(s.queue, t) /\ t \notin heads
  <2>1. s.queue \in Seq(Task) /\ Distinct(s.queue)
    BY <1>1
  <2> QED
    BY <2>1, SuffixDrops, ZenonT(30)
<1>5. Len(q) <= capacity
  <2> HIDE DEF q
  <2> QED
    BY <1>1, <1>4, SchedulerAssumption
<1>6. lapsed \subseteq heads /\ leased \subseteq heads /\ lapsed \cap leased = {}
      /\ (lease = None => leased = {})
  OBVIOUS
<1>7. \A t \in leased : s.generations[t] + 1 \in 1 .. MaxGeneration
  <2> SUFFICES ASSUME NEW t \in leased
               PROVE  s.generations[t] + 1 \in 1 .. MaxGeneration
    OBVIOUS
  <2>1. lease # None /\ t \in heads /\ ~deadline_reached(s, t, now)
    OBVIOUS
  <2>2. PICK i \in 1 .. k : t = s.queue[i]
    BY <2>1
  <2>3. ~Exhausted(s, t) /\ t \in Task
    BY <1>3, <2>1, <2>2
  <2> QED
    BY <1>1, <2>3, SchedulerAssumption DEF Exhausted
<1>8. lease # None => lease.owner \in Owner /\ lease.until \in Until
  BY DEF Lease
<1>9. Taken(s, k, now, lease) = [queue |-> q, state |-> st, deadline |-> s.deadline,
                                 claims |-> cl, generations |-> gn]
  BY DEF Taken
<1> HIDE DEF heads, lapsed, leased, q
<1>10. st \in [Task -> TaskState \cup {"Absent"}]
  BY <1>1 DEF TaskState
<1>11. gn \in [Task -> 0 .. MaxGeneration]
  BY <1>1, <1>7, SchedulerAssumption
<1>12. cl \in [Task -> Claim \cup {None}]
  <2> SUFFICES ASSUME NEW t \in Task
               PROVE  cl[t] \in Claim \cup {None}
    BY Zenon
  <2>1. CASE t \in leased
    BY <1>6, <1>7, <1>8, <2>1 DEF Claim
  <2>2. CASE t \notin leased
    BY <1>1, <2>2
  <2> QED
    BY <2>1, <2>2
<1>13. \A t \in Task : st[t] = "Queued" <=> In(q, t)
  BY <1>2, <1>3, <1>4, <1>6
<1>14. \A t \in Task : cl[t] # None =>
         st[t] \in {"Running", "WaitingIo"} /\ cl[t].generation = gn[t]
  <2> SUFFICES ASSUME NEW t \in Task, cl[t] # None
               PROVE  st[t] \in {"Running", "WaitingIo"} /\ cl[t].generation = gn[t]
    OBVIOUS
  <2>1. CASE t \in leased
    BY <1>6, <2>1
  <2>2. CASE t \notin leased
    <3>1. t \notin lapsed /\ cl[t] = s.claims[t] /\ gn[t] = s.generations[t]
      BY <2>2
    <3>2. s.claims[t] # None
      BY <3>1
    <3>3. t \notin heads
      BY <1>3, <3>2, QueuedUnclaimed
    <3> QED
      BY <1>2, <3>1, <3>2, <3>3
  <2> QED
    BY <2>1, <2>2
<1> HIDE DEF st, cl, gn
<1>15. Sound([queue |-> q, state |-> st, deadline |-> s.deadline,
              claims |-> cl, generations |-> gn])
  BY <1>1, <1>4, <1>5, <1>10, <1>11, <1>12, <1>13, <1>14, SoundRecord, ZenonT(30)
<1> QED
  BY <1>9, <1>15

====
