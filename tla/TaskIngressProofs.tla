------------------------- MODULE TaskIngressProofs -------------------------
(***************************************************************************)
(* The cron poller of TaskIngress queues every due handler once and in     *)
(* order, skips none, and stays inside its window, for every set of        *)
(* registrations, window, queue capacity and range of ids.                 *)
(*                                                                         *)
(* The inductive invariant is about the frontier: the position the poll    *)
(* has reached, or the cursor between polls.  What was queued lies before  *)
(* it and everything due before it was queued.  A poll that fails puts the *)
(* frontier back behind tasks already queued; that is harmless only        *)
(* because the ids are then used up for good, which Ahead says.            *)
(***************************************************************************)
EXTENDS TaskIngress, TLAPS

Fired == [minute : Minute, registration : DOMAIN Cron, now : Minute]

(* The handler r of minute m comes before position p. *)
Before(m, r, p) == m < p.minute \/ (m = p.minute /\ r < p.registration)

AllBefore(f, p) ==
  \A i \in DOMAIN f : Before(f[i].minute, f[i].registration, p)

Has(f, m, r) == \E i \in DOMAIN f : f[i].minute = m /\ f[i].registration = r

Covers(f, s, p) ==
  \A r \in DOMAIN Cron : \A m \in Cron[r].minutes :
    (s <= m /\ Before(m, r, p)) => Has(f, m, r)

Typed ==
  /\ minute \in Minute
  /\ next_id \in Nat
  /\ cursor \in Position \cup {None}
  /\ poll \in Poll \cup {None}
  /\ since \in Minute \cup {None}
  /\ fired \in Seq(Fired)

Ahead ==
  \/ Exhausted
  \/ /\ poll # None => AllBefore(fired, poll.position)
     /\ (poll = None /\ cursor # None) => AllBefore(fired, cursor)
     /\ (poll = None /\ cursor = None) => fired = <<>>

Covered ==
  /\ cursor # None => since # None /\ Covers(fired, since, cursor)
  /\ poll # None => since # None /\ Covers(fired, since, poll.position)

InWindow == poll # None => poll.now - poll.position.minute < CatchUp

Inv ==
  /\ Typed
  /\ Ahead
  /\ Covered
  /\ InWindow
  /\ FiredInOrderOnce
  /\ CatchUpIsBounded

-----------------------------------------------------------------------------
LEMMA InvInit == Init => Inv
<1> SUFFICES ASSUME Init PROVE Inv
  OBVIOUS
<1>1. Typed
  BY IngressAssumption DEF Init, Typed
<1>2. fired = <<>> /\ DOMAIN fired = {}
  BY DEF Init
<1> QED BY <1>1, <1>2 DEF Init, Inv, Ahead, Covered, InWindow, FiredInOrderOnce, CatchUpIsBounded

(* No registration's trigger is too long: the name and the expression are  *)
(* bounded before they get here.                                           *)
LEMMA TriggersFit ==
  ASSUME NEW r \in DOMAIN Cron
  PROVE  TriggerFits(Cron[r])
<1>1. Cron[r].name_bytes \in 1 .. 128 /\ Cron[r].expression_bytes \in 1 .. 128
  BY IngressAssumption, Zenon DEF MAX_TASK_NAME_BYTES, MAX_CRON_BYTES
<1>2. \A a, b \in 1 .. 128 : a + b <= 256
  BY SMT
<1>3. Cron[r].name_bytes + Cron[r].expression_bytes <= 256
  BY <1>1, <1>2, Zenon
<1> QED BY <1>3, Zenon DEF TriggerFits, MAX_TASK_TRIGGER_BYTES

LEMMA PositionFields ==
  ASSUME NEW p \in Position
  PROVE  /\ p # None
         /\ p.minute \in 0 .. LastMinute + 1
         /\ p.registration \in 1 .. Len(Cron) + 1
BY IngressAssumption DEF Position

LEMMA PollFields ==
  ASSUME NEW q \in Poll
  PROVE  /\ q # None
         /\ q.now \in Minute
         /\ q.position \in Position
BY IngressAssumption DEF Poll

LEMMA MovedPoll ==
  ASSUME NEW n \in Minute, NEW m \in 0 .. LastMinute + 1, NEW r \in 1 .. Len(Cron) + 1
  PROVE  /\ At(m, r) \in Position
         /\ At(m, r).minute = m
         /\ At(m, r).registration = r
         /\ [now |-> n, position |-> At(m, r)] \in Poll
         /\ [now |-> n, position |-> At(m, r)] # None
BY IngressAssumption DEF Poll, Position, At

LEMMA FiredFields ==
  ASSUME NEW f \in Seq(Fired), NEW i \in DOMAIN f
  PROVE  /\ f[i].minute \in Int
         /\ f[i].registration \in Int
         /\ f[i].now \in Int
<1>1. f[i] \in Fired
  OBVIOUS
<1>2. DOMAIN Cron \subseteq Int /\ Minute \subseteq Int
  BY IngressAssumption DEF Minute
<1> QED BY <1>1, <1>2, ZenonT(30) DEF Fired

(* A later position covers nothing less. *)
LEMMA LaterIsAhead ==
  ASSUME NEW f \in Seq(Fired), NEW p \in Position, NEW q \in Position,
         p.minute < q.minute \/ (p.minute = q.minute /\ p.registration <= q.registration),
         AllBefore(f, p)
  PROVE  AllBefore(f, q)
<1> SUFFICES ASSUME NEW i \in DOMAIN f
             PROVE  Before(f[i].minute, f[i].registration, q)
  BY DEF AllBefore
<1>1. f[i].minute \in Int /\ f[i].registration \in Int
  BY FiredFields
<1>2. Before(f[i].minute, f[i].registration, p)
  BY DEF AllBefore
<1> QED BY <1>1, <1>2, PositionFields, IngressAssumption, SMTT(30) DEF Before

-----------------------------------------------------------------------------
(* Steps that leave the cron state alone, except that ids may be taken.    *)
LEMMA OthersKeep ==
  ASSUME Inv, minute' \in Minute, UNCHANGED ingress,
         next_id' \in Nat, Exhausted => next_id' = next_id
  PROVE  Inv'
<1>1. Exhausted => Exhausted'
  BY DEF Exhausted
<1>2. Typed'
  BY DEF Inv, Typed, ingress
<1>3. Ahead'
  BY <1>1 DEF Inv, Ahead, AllBefore, Before, ingress
<1>4. Covered'
  BY DEF Inv, Covered, Covers, Has, Before, ingress
<1>5. InWindow' /\ FiredInOrderOnce' /\ CatchUpIsBounded'
  BY DEF Inv, InWindow, FiredInOrderOnce, CatchUpIsBounded, ingress
<1> QED BY <1>2, <1>3, <1>4, <1>5 DEF Inv

LEMMA PollBegins == ASSUME Inv, enqueue_due_cron PROVE Inv'
<1> DEFINE p == first_position
<1>0. /\ minute \in Nat /\ minute <= LastMinute /\ minute \in Minute
      /\ CatchUp \in Nat /\ CatchUp > 0 /\ Len(Cron) \in Nat /\ LastMinute \in Nat
  BY IngressAssumption DEF Inv, Typed, Minute
<1>1. /\ oldest_minute \in Minute
      /\ minute - oldest_minute < CatchUp
  BY <1>0 DEF oldest_minute, Minute
<1>2. /\ p \in Position
      /\ p.minute <= minute
      /\ minute - p.minute < CatchUp
      /\ cursor # None =>
           cursor.minute < p.minute \/ (cursor.minute = p.minute /\ cursor.registration <= p.registration)
  <2>1. CASE cursor = None
    <3>1. p = At(minute, 1)
      BY <2>1 DEF first_position
    <3>2. minute \in 0 .. LastMinute + 1 /\ 1 \in 1 .. Len(Cron) + 1
      BY <1>0
    <3>3. At(minute, 1) \in Position /\ At(minute, 1).minute = minute
      BY <3>2, <1>0, MovedPoll, ZenonT(30)
    <3> QED BY <2>1, <3>1, <3>3, <1>0
  <2>2. CASE cursor # None /\ cursor.minute >= oldest_minute
    <3>1. p = cursor /\ cursor \in Position
      BY <2>2 DEF first_position, Inv, Typed
    <3> QED BY <2>2, <3>1, <1>0, <1>1, PositionFields DEF enqueue_due_cron, Minute
  <2>3. CASE cursor # None /\ ~(cursor.minute >= oldest_minute)
    <3>1. p = At(oldest_minute, 1) /\ cursor \in Position
      BY <2>3 DEF first_position, Inv, Typed
    <3>2. oldest_minute <= minute
      BY <1>0 DEF oldest_minute
    <3>3. oldest_minute \in 0 .. LastMinute + 1 /\ 1 \in 1 .. Len(Cron) + 1
      BY <1>0, <1>1 DEF Minute
    <3>4. At(oldest_minute, 1) \in Position /\ At(oldest_minute, 1).minute = oldest_minute
      BY <3>3, <1>0, MovedPoll, ZenonT(30)
    <3>5. cursor.minute < oldest_minute
      BY <2>3, <3>1, <3>3, PositionFields, <1>0
    <3> QED BY <2>3, <3>1, <3>2, <3>4, <3>5, <1>1
  <2> QED BY <2>1, <2>2, <2>3
<1> HIDE DEF p
<1>3. poll' = [now |-> minute, position |-> p] /\ poll' \in Poll /\ poll' # None
  BY <1>0, <1>2, IngressAssumption DEF enqueue_due_cron, p, Poll
<1>4. poll'.position = p /\ poll'.now = minute
  BY <1>3
<1>5. /\ since' \in Minute /\ since' # None
      /\ UNCHANGED <<cursor, fired, minute, next_id>>
  BY <1>0, <1>1, IngressAssumption DEF enqueue_due_cron, Inv, Typed, Covered
<1>6. Typed'
  BY <1>3, <1>5 DEF Inv, Typed
<1>7. Ahead'
  <2>1. SUFFICES ASSUME ~Exhausted PROVE AllBefore(fired, p)
    BY <1>3, <1>4, <1>5 DEF Ahead, Exhausted
  <2>2. CASE cursor = None
    BY <2>1, <2>2 DEF Inv, Ahead, AllBefore, enqueue_due_cron
  <2>3. CASE cursor # None
    <3>1. AllBefore(fired, cursor) /\ cursor \in Position /\ fired \in Seq(Fired)
      BY <2>1, <2>3 DEF Inv, Ahead, Typed, enqueue_due_cron
    <3> QED BY <2>3, <3>1, <1>2, LaterIsAhead
  <2> QED BY <2>2, <2>3
<1>8. Covered'
  <2>1. CASE cursor # None /\ cursor.minute >= oldest_minute
    <3>1. p = cursor /\ since' = since
      BY <2>1 DEF first_position, p, enqueue_due_cron
    <3> QED BY <2>1, <3>1, <1>3, <1>4, <1>5 DEF Inv, Covered
  <2>2. CASE ~(cursor # None /\ cursor.minute >= oldest_minute)
    <3>1. p = At(since', 1) /\ since' \in 0 .. LastMinute + 1
      <4>1. CASE cursor = None
        <5>1. p = At(minute, 1) /\ since' = minute
          BY <4>1 DEF first_position, p, enqueue_due_cron
        <5> QED BY <5>1, <1>0
      <4>2. CASE cursor # None
        <5>1. p = At(oldest_minute, 1) /\ since' = oldest_minute
          BY <2>2, <4>2 DEF first_position, p, enqueue_due_cron
        <5> QED BY <5>1, <1>0, <1>1 DEF Minute
      <4> QED BY <4>1, <4>2
    <3>2. p.minute = since' /\ p.registration = 1
      BY <3>1 DEF At
    <3>3. ASSUME cursor # None PROVE cursor.minute < since'
      BY <2>2, <3>3, <1>0, <1>1, PositionFields DEF enqueue_due_cron, Inv, Typed, Minute
    <3>4. Covers(fired, since', p)
      BY <3>2, IngressAssumption, <1>5 DEF Covers, Before, Minute
    <3>5. ASSUME cursor # None PROVE Covers(fired, since', cursor)
      BY <3>3, <3>5, IngressAssumption, <1>5, PositionFields DEF Covers, Before, Inv, Typed, Minute
    <3> QED BY <3>4, <3>5, <1>3, <1>4, <1>5 DEF Covered
  <2> QED BY <2>1, <2>2
<1>9. InWindow' /\ FiredInOrderOnce' /\ CatchUpIsBounded'
  BY <1>2, <1>4, <1>5 DEF Inv, InWindow, FiredInOrderOnce, CatchUpIsBounded
<1> QED BY <1>6, <1>7, <1>8, <1>9 DEF Inv

-----------------------------------------------------------------------------
(* Steps of a poll.  What every one of them may assume: *)
LEMMA InPoll ==
  ASSUME Inv, poll # None
  PROVE  /\ poll \in Poll /\ poll.now \in Minute /\ position \in Position
         /\ position.minute \in Nat /\ position.registration \in Nat
         /\ position.minute \in 0 .. LastMinute + 1
         /\ position.registration \in 1 .. Len(Cron) + 1
         /\ since \in Minute /\ since # None
         /\ Covers(fired, since, position)
         /\ poll.now - position.minute < CatchUp
<1>1. poll \in Poll /\ since \in Minute /\ since # None
  BY DEF Inv, Typed, Covered
<1>2. poll.now \in Minute /\ position \in Position
  BY <1>1, PollFields DEF position
<1>3. /\ position.minute \in 0 .. LastMinute + 1
      /\ position.registration \in 1 .. Len(Cron) + 1
  BY <1>2, PositionFields
<1>4. position.minute \in Nat /\ position.registration \in Nat
  BY <1>3, IngressAssumption
<1> QED BY <1>1, <1>2, <1>3, <1>4 DEF Inv, Covered, InWindow, position

(* A poll moves past a handler that is not due, or past the end of a minute. *)
LEMMA MovesOn ==
  ASSUME Inv, poll # None, NEW m \in 0 .. LastMinute + 1, NEW r \in 1 .. Len(Cron) + 1,
         MoveTo(m, r), UNCHANGED <<minute, next_id, cursor, since, fired>>,
         position.minute < m \/ (position.minute = m /\ position.registration <= r),
         Covers(fired, since, At(m, r))
  PROVE  Inv'
<1>0. /\ poll \in Poll /\ poll.now \in Minute /\ position \in Position
      /\ position.minute \in Nat
      /\ poll.now - position.minute < CatchUp
  BY InPoll
<1>1. /\ At(m, r) \in Position /\ At(m, r).minute = m /\ At(m, r).registration = r
      /\ poll' \in Poll /\ poll' # None
  BY <1>0, MovedPoll DEF MoveTo
<1>2. poll'.position = At(m, r) /\ poll'.now = poll.now
  BY DEF MoveTo
<1>3. Typed'
  BY <1>1 DEF Inv, Typed
<1>4. Ahead'
  <2>1. SUFFICES ASSUME ~Exhausted PROVE AllBefore(fired, At(m, r))
    BY <1>1, <1>2 DEF Ahead, Exhausted
  <2>2. AllBefore(fired, position) /\ fired \in Seq(Fired)
    BY <2>1 DEF Inv, Ahead, Typed, position
  <2> QED BY <2>2, <1>0, <1>1, LaterIsAhead
<1>5. Covered'
  BY <1>1, <1>2 DEF Inv, Covered
<1>6. InWindow'
  <2>1. poll.now - m < CatchUp
    BY <1>0, IngressAssumption DEF Minute
  <2> QED BY <1>1, <1>2, <2>1 DEF InWindow
<1>7. FiredInOrderOnce' /\ CatchUpIsBounded'
  BY DEF Inv, FiredInOrderOnce, CatchUpIsBounded
<1> QED BY <1>3, <1>4, <1>5, <1>6, <1>7 DEF Inv

LEMMA NotDueStep == ASSUME Inv, cron_not_due PROVE Inv'
<1> DEFINE m == position.minute
           r == position.registration
<1>1. /\ poll # None
      /\ m \in 0 .. LastMinute + 1 /\ r \in Nat /\ m \in Nat
      /\ r \in DOMAIN Cron /\ m \notin Cron[r].minutes
      /\ Covers(fired, since, position)
  BY InPoll DEF cron_not_due
<1>2. r + 1 \in 1 .. Len(Cron) + 1 /\ DOMAIN Cron \subseteq Int
  BY <1>1, IngressAssumption
<1>3. Covers(fired, since, At(m, r + 1))
  <2> SUFFICES ASSUME NEW q \in DOMAIN Cron, NEW n \in Cron[q].minutes, since <= n,
                      Before(n, q, At(m, r + 1))
               PROVE  Has(fired, n, q)
    BY DEF Covers
  <2>1. n \in Int /\ q \in Int
    BY <1>2, IngressAssumption
  <2>2. At(m, r + 1).minute = m /\ At(m, r + 1).registration = r + 1
    BY DEF At
  <2>3. n < m \/ (n = m /\ q < r + 1)
    BY <2>2 DEF Before
  <2>4. ~(n = m /\ q = r)
    BY <1>1
  <2>5. n < m \/ (n = m /\ q < r)
    BY <2>1, <2>3, <2>4, <1>1
  <2> QED BY <2>5, <1>1 DEF Covers, Before
<1>4. /\ MoveTo(m, r + 1) /\ UNCHANGED <<minute, next_id, cursor, since, fired>>
      /\ m = m /\ r <= r + 1
  BY <1>1 DEF cron_not_due
<1> QED BY <1>1, <1>2, <1>3, <1>4, MovesOn

LEMMA NextMinuteStep == ASSUME Inv, cron_next_minute PROVE Inv'
<1> DEFINE m == position.minute
           r == position.registration
<1>1. /\ poll # None
      /\ m \in Nat /\ m <= poll.now /\ poll.now \in Minute
      /\ r \in 1 .. Len(Cron) + 1 /\ r \notin DOMAIN Cron
      /\ Covers(fired, since, position)
  BY InPoll DEF cron_next_minute
<1>2. m + 1 \in 0 .. LastMinute + 1 /\ 1 \in 1 .. Len(Cron) + 1 /\ m < m + 1
  BY <1>1, IngressAssumption DEF Minute
<1>3. r = Len(Cron) + 1
  BY <1>1, IngressAssumption
<1>4. Covers(fired, since, At(m + 1, 1))
  <2> SUFFICES ASSUME NEW q \in DOMAIN Cron, NEW n \in Cron[q].minutes, since <= n,
                      Before(n, q, At(m + 1, 1))
               PROVE  Has(fired, n, q)
    BY DEF Covers
  <2>1. n \in Int /\ q \in 1 .. Len(Cron)
    BY IngressAssumption
  <2>2. At(m + 1, 1).minute = m + 1 /\ At(m + 1, 1).registration = 1
    BY DEF At
  <2>3. n < m + 1 \/ (n = m + 1 /\ q < 1)
    BY <2>2 DEF Before
  <2>4. n < m \/ (n = m /\ q < r)
    BY <2>1, <2>3, <1>1, <1>3, IngressAssumption
  <2> QED BY <2>4, <1>1 DEF Covers, Before
<1>5. MoveTo(m + 1, 1) /\ UNCHANGED <<minute, next_id, cursor, since, fired>>
  BY DEF cron_next_minute
<1> QED BY <1>1, <1>2, <1>4, <1>5, MovesOn

(* A poll ends and saves its position. *)
LEMMA SavesPosition ==
  ASSUME Inv, poll # None, cursor' = position, poll' = None,
         UNCHANGED <<minute, next_id, since, fired>>
  PROVE  Inv'
<1>0. position \in Position /\ since # None /\ Covers(fired, since, position)
  BY InPoll
<1>1. cursor' # None
  BY <1>0, PositionFields
<1>2. Typed'
  BY <1>0 DEF Inv, Typed
<1>3. Ahead'
  BY <1>1 DEF Inv, Ahead, Exhausted, position
<1>4. Covered'
  BY <1>0, <1>1 DEF Inv, Covered
<1>5. InWindow' /\ FiredInOrderOnce' /\ CatchUpIsBounded'
  BY DEF Inv, InWindow, FiredInOrderOnce, CatchUpIsBounded
<1> QED BY <1>2, <1>3, <1>4, <1>5 DEF Inv

(* A poll fails: the ids are used up. *)
LEMMA FailedStep == ASSUME Inv, cron_failed PROVE Inv'
<1>1. poll # None /\ position.registration \in DOMAIN Cron
  BY DEF cron_failed, Due
<1>2. Exhausted /\ next_id' = next_id
  BY <1>1, TriggersFit DEF cron_failed
<1>3. poll' = None /\ UNCHANGED <<minute, cursor, since, fired>>
  BY DEF cron_failed
<1>4. Typed'
  BY <1>2, <1>3 DEF Inv, Typed
<1>5. Ahead'
  BY <1>2 DEF Ahead, Exhausted
<1>6. Covered'
  BY <1>3 DEF Inv, Covered
<1>7. InWindow' /\ FiredInOrderOnce' /\ CatchUpIsBounded'
  BY <1>3 DEF Inv, InWindow, FiredInOrderOnce, CatchUpIsBounded
<1> QED BY <1>4, <1>5, <1>6, <1>7 DEF Inv

(* What one more task at the end of the sequence changes. *)
LEMMA Appended ==
  ASSUME NEW f \in Seq(Fired), NEW x \in Fired
  PROVE  /\ Append(f, x) \in Seq(Fired)
         /\ DOMAIN f = 1 .. Len(f) /\ Len(f) \in Nat
         /\ DOMAIN Append(f, x) = 1 .. Len(f) + 1
         /\ \A i \in 1 .. Len(f) : Append(f, x)[i] = f[i]
         /\ Append(f, x)[Len(f) + 1] = x
BY DEF Fired

LEMMA StillHas ==
  ASSUME NEW f \in Seq(Fired), NEW x \in Fired, NEW s, NEW p,
         Covers(f, s, p)
  PROVE  Covers(Append(f, x), s, p)
<1> SUFFICES ASSUME NEW q \in DOMAIN Cron, NEW n \in Cron[q].minutes, s <= n, Before(n, q, p)
             PROVE  Has(Append(f, x), n, q)
  BY DEF Covers
<1>1. PICK i \in DOMAIN f : f[i].minute = n /\ f[i].registration = q
  BY DEF Covers, Has
<1>2. i \in DOMAIN Append(f, x) /\ Append(f, x)[i] = f[i]
  BY Appended
<1> QED BY <1>1, <1>2 DEF Has

LEMMA EnqueueStep == ASSUME Inv, cron_enqueue PROVE Inv'
<1> DEFINE m == position.minute
           r == position.registration
           x == [minute |-> m, now |-> poll.now, registration |-> r]
           f == Append(fired, x)
<1>0. /\ poll # None /\ poll \in Poll /\ poll.now \in Minute /\ position \in Position
      /\ m \in Nat /\ m <= poll.now /\ m \in 0 .. LastMinute + 1
      /\ r \in DOMAIN Cron /\ r \in Nat /\ r \in 1 .. Len(Cron)
      /\ since \in Minute /\ since # None
      /\ Covers(fired, since, position)
      /\ poll.now - m < CatchUp
  BY InPoll, IngressAssumption DEF cron_enqueue, Due
<1>1. /\ ~Exhausted /\ next_id' \in Nat
      /\ fired' = f /\ UNCHANGED <<minute, cursor, since>>
      /\ MoveTo(m, r + 1)
      /\ fired \in Seq(Fired)
  BY DEF cron_enqueue, reserve_task_id, Inv, Typed
<1>2. m \in Minute /\ x \in Fired /\ r + 1 \in 1 .. Len(Cron) + 1
  <2>1. m \in Minute
    <3>1. LastMinute \in Nat
      BY IngressAssumption
    <3> QED BY <1>0, <3>1 DEF Minute
  <2>2. x \in Fired
    <3> HIDE DEF m, r
    <3> QED BY <1>0, <2>1 DEF Fired
  <2>3. r + 1 \in 1 .. Len(Cron) + 1
    <3>1. Len(Cron) \in Nat
      BY IngressAssumption
    <3> HIDE DEF r
    <3> QED BY <1>0, <3>1
  <2> QED BY <2>1, <2>2, <2>3
<1>3. x.minute = m /\ x.now = poll.now /\ x.registration = r
  OBVIOUS
<1>4. AllBefore(fired, position)
  BY <1>0, <1>1 DEF Inv, Ahead, position
<1> DEFINE p == At(m, r + 1)
<1>5. /\ p \in Position /\ p.minute = m /\ p.registration = r + 1
      /\ poll' \in Poll /\ poll' # None
  BY <1>0, <1>1, <1>2, MovedPoll DEF MoveTo
<1>6. poll'.position = p /\ poll'.now = poll.now
  BY <1>1 DEF MoveTo
<1> HIDE DEF x, p
<1>7. /\ f \in Seq(Fired) /\ DOMAIN f = 1 .. Len(fired) + 1
      /\ DOMAIN fired = 1 .. Len(fired) /\ Len(fired) \in Nat
      /\ \A i \in 1 .. Len(fired) : f[i] = fired[i]
      /\ f[Len(fired) + 1] = x
  BY <1>1, <1>2, Appended
<1> HIDE DEF f
<1>8. \A i \in DOMAIN f : (i \in DOMAIN fired /\ f[i] = fired[i]) \/ f[i] = x
  BY <1>7
<1>9. Typed'
  BY <1>1, <1>5, <1>7 DEF Inv, Typed
<1>10. AllBefore(f, p)
  <2> SUFFICES ASSUME NEW i \in DOMAIN f PROVE Before(f[i].minute, f[i].registration, p)
    BY DEF AllBefore
  <2>1. CASE i \in DOMAIN fired /\ f[i] = fired[i]
    <3>1. Before(fired[i].minute, fired[i].registration, position)
      BY <2>1, <1>4 DEF AllBefore
    <3> QED BY <2>1, <3>1, <1>0, <1>1, <1>5, FiredFields DEF Before
  <2>2. CASE f[i] = x
    BY <2>2, <1>0, <1>3, <1>5 DEF Before
  <2> QED BY <2>1, <2>2, <1>8
<1>11. Ahead'
  BY <1>1, <1>5, <1>6, <1>10 DEF Ahead
<1>12. Covers(f, since, p)
  <2> SUFFICES ASSUME NEW q \in DOMAIN Cron, NEW n \in Cron[q].minutes, since <= n, Before(n, q, p)
               PROVE  Has(f, n, q)
    BY DEF Covers
  <2>1. n \in Int /\ q \in Int
    BY IngressAssumption
  <2>2. CASE n = m /\ q = r
    BY <2>2, <1>3, <1>7 DEF Has
  <2>3. CASE ~(n = m /\ q = r)
    <3>1. n < m \/ (n = m /\ q < r + 1)
      BY <1>5 DEF Before
    <3>2. Before(n, q, position)
      BY <2>1, <2>3, <3>1, <1>0 DEF Before
    <3>3. Covers(f, since, position)
      BY <1>0, <1>1, <1>2, StillHas DEF f
    <3> QED BY <3>2, <3>3 DEF Covers
  <2> QED BY <2>2, <2>3
<1>13. Covered'
  <2>1. ASSUME cursor # None PROVE Covers(f, since, cursor)
    BY <2>1, <1>1, <1>2, StillHas DEF f, Inv, Covered
  <2> QED BY <2>1, <1>0, <1>1, <1>5, <1>6, <1>12 DEF Covered
<1>14. InWindow'
  BY <1>0, <1>5, <1>6 DEF InWindow
<1>15. FiredInOrderOnce'
  <2> SUFFICES ASSUME NEW i \in DOMAIN f, NEW j \in DOMAIN f, i < j
               PROVE  \/ f[i].minute < f[j].minute
                      \/ f[i].minute = f[j].minute /\ f[i].registration < f[j].registration
    BY <1>1 DEF FiredInOrderOnce
  <2>1. i \in DOMAIN fired /\ f[i] = fired[i]
    BY <1>7
  <2>2. CASE j \in DOMAIN fired /\ f[j] = fired[j]
    BY <2>1, <2>2 DEF Inv, FiredInOrderOnce
  <2>3. CASE f[j] = x
    <3>1. Before(fired[i].minute, fired[i].registration, position)
      BY <2>1, <1>4 DEF AllBefore
    <3> QED BY <2>1, <2>3, <3>1, <1>3 DEF Before
  <2> QED BY <2>2, <2>3, <1>8
<1>16. CatchUpIsBounded'
  <2> SUFFICES ASSUME NEW i \in DOMAIN f
               PROVE  f[i].minute <= f[i].now /\ f[i].now - f[i].minute < CatchUp
    BY <1>1 DEF CatchUpIsBounded
  <2>1. CASE i \in DOMAIN fired /\ f[i] = fired[i]
    BY <2>1 DEF Inv, CatchUpIsBounded
  <2>2. CASE f[i] = x
    BY <2>2, <1>0, <1>3
  <2> QED BY <2>1, <2>2, <1>8
<1> QED BY <1>9, <1>11, <1>13, <1>14, <1>15, <1>16 DEF Inv

-----------------------------------------------------------------------------
LEMMA InvStep == Inv /\ [Next]_vars => Inv'
<1> SUFFICES ASSUME Inv, [Next]_vars PROVE Inv'
  OBVIOUS
<1>0. minute \in Minute /\ next_id \in Nat
  BY DEF Inv, Typed
<1>1. CASE enqueue_due_cron
  BY <1>1, PollBegins
<1>2. CASE cron_not_due
  BY <1>2, NotDueStep
<1>3. CASE cron_full \/ cron_return
  <2>1. /\ poll # None /\ cursor' = position /\ poll' = None
        /\ UNCHANGED <<minute, next_id, since, fired>>
    BY <1>3 DEF cron_full, cron_return, Due
  <2> QED BY <2>1, SavesPosition
<1>4. CASE cron_failed
  BY <1>4, FailedStep
<1>5. CASE cron_enqueue
  BY <1>5, EnqueueStep
<1>6. CASE cron_next_minute
  BY <1>6, NextMinuteStep
<1>7. CASE expire \/ take \/ finish \/ give_back
  <2>1. UNCHANGED <<minute, next_id, ingress>>
    BY <1>7 DEF expire, take, finish, give_back
  <2> QED BY <2>1, <1>0, OthersKeep
<1>8. ASSUME NEW p \in Producer, NEW kib \in Size, reserve_message(p, kib) PROVE Inv'
  <2>1. /\ UNCHANGED <<minute, ingress>> /\ ~Exhausted /\ next_id' = next_id + 1
    BY <1>8 DEF reserve_message, reserve_task_id
  <2> QED BY <2>1, <1>0, OthersKeep
<1>9. ASSUME NEW p \in Producer, enqueue_message(p) PROVE Inv'
  <2>1. UNCHANGED <<minute, next_id, ingress>>
    BY <1>9 DEF enqueue_message
  <2> QED BY <2>1, <1>0, OthersKeep
<1>10. ASSUME NEW m \in Minute, set_clock(m) PROVE Inv'
  <2>1. minute' \in Minute /\ UNCHANGED <<next_id, ingress>>
    BY <1>10 DEF set_clock
  <2> QED BY <2>1, <1>0, OthersKeep
<1>11. CASE UNCHANGED vars
  <2>1. UNCHANGED <<minute, next_id, ingress>>
    BY <1>11 DEF vars
  <2> QED BY <2>1, <1>0, OthersKeep
<1> QED BY <1>1, <1>2, <1>3, <1>4, <1>5, <1>6, <1>7, <1>8, <1>9, <1>10, <1>11 DEF Next, Walk

LEMMA InvHolds == Spec => []Inv
BY InvInit, InvStep, PTL DEF Spec

(* One handler is queued at most once for a minute, and in order, whatever *)
(* stops or fails a poll of enqueue_due_cron and wherever the clock is set.*)
THEOREM CronOnceInOrder == Spec => []FiredInOrderOnce
<1>1. Inv => FiredInOrderOnce
  BY DEF Inv
<1> QED BY <1>1, InvHolds, PTL

(* enqueue_due_cron never goes past a due handler without queueing it.     *)
THEOREM CronSkipsNothing == Spec => []NothingSkipped
<1>1. Inv => NothingSkipped
  BY DEF Inv, Covered, Covers, Before, Has, NothingSkipped
<1> QED BY <1>1, InvHolds, PTL

(* Catch-up of enqueue_due_cron stays inside its window and the past.      *)
THEOREM CronStaysInWindow == Spec => []CatchUpIsBounded
<1>1. Inv => CatchUpIsBounded
  BY DEF Inv
<1> QED BY <1>1, InvHolds, PTL
=============================================================================
