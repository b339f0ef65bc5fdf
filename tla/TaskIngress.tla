---------------------------- MODULE TaskIngress ----------------------------
(***************************************************************************)
(* TaskIngress of crates/tysel-runtime/src/task_ingress.rs: the cron       *)
(* poller with its catch-up cursor, and the queue and MCP producers, all   *)
(* of them feeding the one bounded broker and drawing task ids from one    *)
(* counter.                                                                *)
(*                                                                         *)
(* The poller holds the cursor's and the broker's lock for a whole poll,   *)
(* so a poll is a walk of steps during which no producer gets at the       *)
(* broker; ids are taken without a lock, so producers may take some in     *)
(* between.  The minutes an expression matches are given per registration  *)
(* (module Cron is about them).  The broker is its runnable queue: what    *)
(* workers do to it is that tasks leave it and return to it.               *)
(***************************************************************************)
EXTENDS Integers, Sequences, FiniteSets

CONSTANTS
  Cron,           \* registrations in the order of their names:
                  \* [name_bytes, expression_bytes, minutes]
  Producer,       \* concurrent callers of enqueue_queue and enqueue_mcp
  Capacity,       \* of the broker's queue
  CatchUp,        \* MAX_CRON_CATCH_UP_MINUTES
  FirstId, LastId,\* task ids: the seed, and the end of the u64 range
  LastMinute,     \* bound on the wall clock
  Size,           \* sizes of a queue message, in KiB
  None

MAX_TASK_NAME_BYTES == 128
MAX_CRON_BYTES == 128
MAX_TASK_TRIGGER_BYTES == 256
MAX_TASK_INPUT_KIB == 32

Minute == 0 .. LastMinute
Position == [minute : 0 .. LastMinute + 1, registration : 1 .. Len(Cron) + 1]
Poll == [now : Minute, position : Position]

ASSUME IngressAssumption ==
  /\ Capacity \in Nat \ {0}
  /\ CatchUp \in Nat \ {0}
  /\ FirstId \in Nat \ {0} /\ LastId \in Nat
  /\ LastMinute \in Nat
  /\ Len(Cron) \in Nat /\ DOMAIN Cron = 1 .. Len(Cron)
  /\ None \notin Minute \cup Position \cup Poll
  /\ \A i \in DOMAIN Cron :
       /\ Cron[i].name_bytes \in 1 .. MAX_TASK_NAME_BYTES
       /\ Cron[i].expression_bytes \in 1 .. MAX_CRON_BYTES
       /\ Cron[i].minutes \subseteq Nat

VARIABLES
  minute,     \* the wall clock, which may be set
  next_id,
  cursor,     \* next_cron_position
  poll,       \* the poll in progress: [now, position], or None
  queued,     \* tasks in the broker's queue
  running,    \* tasks that workers have taken from it
  calls,      \* the message each producer holds an id for (KiB), or None
  refused,    \* sizes of messages refused for their size; history
  since,      \* the first minute the poller answers for, or None; history
  fired       \* the cron tasks queued, in order: [minute, registration, now]; history

ingress == <<cursor, poll, since, fired>>
broker  == <<queued, running>>
vars == <<minute, next_id, ingress, broker, calls, refused>>

Task == 0 .. LastId - FirstId

TypeOK ==
  /\ minute \in Minute
  /\ next_id \in FirstId .. LastId
  /\ cursor \in Position \cup {None}
  /\ poll \in Poll \cup {None}
  /\ queued \in 0 .. Capacity
  /\ running \in Task
  /\ calls \in [Producer -> Size \cup {None}]
  /\ refused \subseteq Size
  /\ since \in Minute \cup {None}
  /\ \A i \in DOMAIN fired :
       fired[i] \in [minute : Minute, registration : DOMAIN Cron, now : Minute]

Init ==
  /\ minute \in Minute
  /\ next_id = FirstId
  /\ cursor = None /\ poll = None
  /\ queued = 0 /\ running = 0
  /\ calls = [p \in Producer |-> None]
  /\ refused = {}
  /\ since = None /\ fired = <<>>

-----------------------------------------------------------------------------
(* The broker, its workers and the ids. *)

remaining_capacity == Capacity - queued

(* WireTaskTrigger::validate for a cron trigger: name and expression        *)
(* together.  The mutant's limit leaves no room for the longest of both.   *)
TriggerFits_below(registration) ==
  registration.name_bytes + registration.expression_bytes < MAX_TASK_TRIGGER_BYTES

TriggerFits(registration) ==
  registration.name_bytes + registration.expression_bytes <= MAX_TASK_TRIGGER_BYTES

(* TaskDescriptor::validate, for an input of this many KiB. *)
InputFits(kib) == kib <= MAX_TASK_INPUT_KIB

(* reserve_task_ids(1) fails for good at the end of the range. *)
Exhausted == next_id = LastId

reserve_task_id == ~Exhausted /\ next_id' = next_id + 1

(* A task leaves the queue overdue or cancelled, or for a worker, which    *)
(* ends it or gives it back.                                               *)
expire ==
  /\ poll = None
  /\ queued > 0
  /\ queued' = queued - 1
  /\ UNCHANGED <<minute, next_id, ingress, running, calls, refused>>

take ==
  /\ poll = None
  /\ queued > 0
  /\ queued' = queued - 1 /\ running' = running + 1
  /\ UNCHANGED <<minute, next_id, ingress, calls, refused>>

finish ==
  /\ poll = None
  /\ running > 0
  /\ running' = running - 1
  /\ UNCHANGED <<minute, next_id, ingress, queued, calls, refused>>

give_back ==
  /\ poll = None
  /\ running > 0 /\ remaining_capacity > 0
  /\ running' = running - 1 /\ queued' = queued + 1
  /\ UNCHANGED <<minute, next_id, ingress, calls, refused>>

-----------------------------------------------------------------------------
(* enqueue_queue and enqueue_mcp, for a registered name: an id first, then *)
(* the broker's lock.  A message that is refused has used its id up.       *)

reserve_message(p, kib) ==
  /\ calls[p] = None
  /\ reserve_task_id
  /\ calls' = [calls EXCEPT ![p] = kib]
  /\ UNCHANGED <<minute, ingress, broker, refused>>

(* The mutant does not ask for room. *)
enqueue_message_unbounded(p) ==
  /\ calls[p] # None
  /\ poll = None
  /\ calls' = [calls EXCEPT ![p] = None]
  /\ queued' = IF InputFits(calls[p]) THEN queued + 1 ELSE queued
  /\ refused' = IF InputFits(calls[p]) THEN refused ELSE refused \cup {calls[p]}
  /\ UNCHANGED <<minute, next_id, ingress, running>>

enqueue_message(p) ==
  /\ calls[p] # None
  /\ poll = None
  /\ calls' = [calls EXCEPT ![p] = None]
  /\ queued' = IF InputFits(calls[p]) /\ remaining_capacity > 0
               THEN queued + 1 ELSE queued
  /\ refused' = IF InputFits(calls[p]) THEN refused ELSE refused \cup {calls[p]}
  /\ UNCHANGED <<minute, next_id, ingress, running>>

-----------------------------------------------------------------------------
(* enqueue_due_cron.  The poll begins where the cursor stands, unless that *)
(* is further back than the catch-up window; a cursor ahead of the clock   *)
(* (the clock was set back) makes the call return at once.                 *)

At(m, r) == [minute |-> m, registration |-> r]

(* The mutant goes back to the beginning. *)
oldest_minute_zero == 0

oldest_minute == IF minute < CatchUp THEN 0 ELSE minute - (CatchUp - 1)

(* The mutant falls back to the present when the cursor is too old. *)
first_position_now ==
  IF cursor # None /\ cursor.minute >= oldest_minute THEN cursor ELSE At(minute, 1)

first_position ==
  IF cursor = None THEN At(minute, 1)
  ELSE IF cursor.minute >= oldest_minute THEN cursor
  ELSE At(oldest_minute, 1)

enqueue_due_cron ==
  /\ poll = None
  /\ cursor # None => cursor.minute <= minute
  /\ poll' = [now |-> minute, position |-> first_position]
  /\ since' = IF cursor = None THEN minute
              ELSE IF cursor.minute >= oldest_minute THEN since
              ELSE oldest_minute
  /\ UNCHANGED <<minute, next_id, cursor, fired, broker, calls, refused>>

position == poll.position

MoveTo(m, r) == poll' = [now |-> poll.now, position |-> At(m, r)]

(* The poll stands at a registration that is due in the minute it is at. *)
Due ==
  /\ poll # None
  /\ position.minute <= poll.now
  /\ position.registration \in DOMAIN Cron
  /\ position.minute \in Cron[position.registration].minutes

cron_not_due ==
  /\ poll # None
  /\ position.minute <= poll.now
  /\ position.registration \in DOMAIN Cron
  /\ position.minute \notin Cron[position.registration].minutes
  /\ MoveTo(position.minute, position.registration + 1)
  /\ UNCHANGED <<minute, next_id, cursor, since, fired, broker, calls, refused>>

cron_full ==
  /\ Due
  /\ remaining_capacity = 0
  /\ cursor' = position
  /\ poll' = None
  /\ UNCHANGED <<minute, next_id, since, fired, broker, calls, refused>>

(* The call fails: no id is left, or the broker refuses the task.  The     *)
(* cursor stays where the poll found it.                                   *)
cron_failed ==
  /\ Due
  /\ remaining_capacity > 0
  /\ Exhausted \/ ~TriggerFits(Cron[position.registration])
  /\ next_id' = IF Exhausted THEN next_id ELSE next_id + 1
  /\ poll' = None
  /\ UNCHANGED <<minute, cursor, since, fired, broker, calls, refused>>

cron_enqueue ==
  /\ Due
  /\ remaining_capacity > 0
  /\ reserve_task_id
  /\ TriggerFits(Cron[position.registration])
  /\ queued' = queued + 1
  /\ fired' = Append(fired, [minute |-> position.minute, now |-> poll.now,
                             registration |-> position.registration])
  /\ MoveTo(position.minute, position.registration + 1)
  /\ UNCHANGED <<minute, cursor, since, running, calls, refused>>

cron_next_minute ==
  /\ poll # None
  /\ position.minute <= poll.now
  /\ position.registration \notin DOMAIN Cron
  /\ MoveTo(position.minute + 1, 1)
  /\ UNCHANGED <<minute, next_id, cursor, since, fired, broker, calls, refused>>

cron_return ==
  /\ poll # None
  /\ position.minute > poll.now
  /\ cursor' = position
  /\ poll' = None
  /\ UNCHANGED <<minute, next_id, since, fired, broker, calls, refused>>

(* SystemTime: it goes on, and an operator or a time service may set it. *)
set_clock(m) ==
  /\ m # minute
  /\ minute' = m
  /\ UNCHANGED <<next_id, ingress, broker, calls, refused>>

Walk ==
  \/ cron_not_due \/ cron_full \/ cron_failed \/ cron_enqueue
  \/ cron_next_minute \/ cron_return

Next ==
  \/ enqueue_due_cron \/ Walk
  \/ expire \/ take \/ finish \/ give_back
  \/ \E p \in Producer :
       (\E kib \in Size : reserve_message(p, kib)) \/ enqueue_message(p)
  \/ \E m \in Minute : set_clock(m)

Spec == Init /\ [][Next]_vars

(* A poll that began goes on, the interval makes another one begin, and    *)
(* the worker loop takes and ends what is queued.                          *)
Fairness ==
  /\ WF_vars(Walk)
  /\ WF_vars(enqueue_due_cron)
  /\ SF_vars(take)
  /\ SF_vars(finish)

FairSpec == Spec /\ Fairness

-----------------------------------------------------------------------------
(* Cron tasks are queued in the order of their minutes, within a minute in *)
(* the order of the names, and one handler at most once for a minute,      *)
(* however polls stop at a full queue, fail or see the clock set back:     *)
(* the deduplication the guide promises.                                   *)
FiredInOrderOnce ==
  \A i, j \in DOMAIN fired : i < j =>
    \/ fired[i].minute < fired[j].minute
    \/ /\ fired[i].minute = fired[j].minute
       /\ fired[i].registration < fired[j].registration

(* What the cursor has passed was queued: between two polls no due handler *)
(* of an earlier position, back to the first minute polled or to the last  *)
(* catch-up window that was exceeded, is missing.                          *)
NothingSkipped ==
  (poll = None /\ cursor # None) =>
    \A r \in DOMAIN Cron : \A m \in Cron[r].minutes :
      ( /\ since <= m
        /\ m < cursor.minute \/ (m = cursor.minute /\ r < cursor.registration) )
      => \E i \in DOMAIN fired : fired[i].minute = m /\ fired[i].registration = r

(* No task is queued before its minute, nor for a minute outside the       *)
(* window of MAX_CRON_CATCH_UP_MINUTES that ends with the present one.     *)
CatchUpIsBounded ==
  \A i \in DOMAIN fired :
    fired[i].minute <= fired[i].now /\ fired[i].now - fired[i].minute < CatchUp

(* A handler that is due is queued in the end, if the clock does not go    *)
(* back, the window does not pass it by and ids remain: a full queue only  *)
(* delays it.  (Without other producers: they may take every place that    *)
(* becomes free before the next poll.)                                     *)
DueIsQueued ==
  \A r \in DOMAIN Cron : \A m \in Cron[r].minutes \cap Minute :
    (since # None /\ since <= m /\ m <= minute)
      ~> \/ \E i \in DOMAIN fired : fired[i].minute = m /\ fired[i].registration = r
         \/ minute < m \/ (since # None /\ since > m) \/ Exhausted

(* The guide's limit of a queue message: "limited to 1 MiB each". *)
DocumentedMessageLimit == \A kib \in refused : kib > 1024
=============================================================================
