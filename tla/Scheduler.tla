----------------------------- MODULE Scheduler -----------------------------
(***************************************************************************)
(* The bounded task queue of tysel-scheduler over the task lifecycle of    *)
(* tysel-task.  The scheduler is a plain value behind a lock, so it is one *)
(* record, `sch`, and each method is an operator from the record before to *)
(* the record after; the brokers that compose several methods under one    *)
(* lock compose these operators.  The actions of this module are the       *)
(* public methods, called by anybody who ever received a claim, at any     *)
(* time: a worker that lost its lease keeps its TaskClaim for ever.        *)
(*                                                                         *)
(* A task keeps its id, state and deadline.  Its metadata, trigger, input  *)
(* and attempt counter (which saturates and decides nothing) are left out. *)
(***************************************************************************)
EXTENDS Integers, Sequences, FiniteSets

CONSTANTS Task,            \* task ids, compared when claims are requeued
          Owner,           \* lease owners
          None,            \* no deadline; no claim
          capacity,        \* Scheduler::capacity
          MaxGeneration,   \* the largest claim generation (u64::MAX)
          MaxTime,         \* the clock stops here
          MaxLease,        \* lease durations are 1..MaxLease
          MaxLimit         \* requeueing limits are 0..MaxLimit

VARIABLES sch,      \* the Scheduler
          issued,   \* every TaskClaim ever returned, as its fencing token
          clock     \* milliseconds, as its callers read them

vars == <<sch, issued, clock>>

TaskState == {"Created", "Queued", "Running", "WaitingIo", "Suspended",
              "Retrying", "Completed", "Failed", "Canceled", "TimedOut"}

Terminal == {"Completed", "Failed", "Canceled", "TimedOut"}

can_transition_to_after_timeout(from, to) ==
  CASE from = "Created"   -> to \in {"Queued", "Canceled"}
    [] from = "Queued"    -> to \in {"Running", "Canceled", "TimedOut"}
    [] from = "Running"   -> to \in Terminal \cup {"WaitingIo", "Suspended", "Retrying"}
    [] from = "WaitingIo" -> to \in (Terminal \ {"Completed"})
                                      \cup {"Running", "Suspended", "Retrying"}
    [] from \in {"Suspended", "Retrying", "TimedOut"} -> to \in {"Queued", "Canceled", "TimedOut"}
    [] OTHER -> FALSE

\* The allowed lifecycle edges of a task.
can_transition_to(from, to) ==
  CASE from = "Created"   -> to \in {"Queued", "Canceled"}
    [] from = "Queued"    -> to \in {"Running", "Canceled", "TimedOut"}
    [] from = "Running"   -> to \in Terminal \cup {"WaitingIo", "Suspended", "Retrying"}
    [] from = "WaitingIo" -> to \in (Terminal \ {"Completed"})
                                      \cup {"Running", "Suspended", "Retrying"}
    [] from \in {"Suspended", "Retrying"} -> to \in {"Queued", "Canceled", "TimedOut"}
    [] OTHER -> FALSE

Time == 0 .. MaxTime
Until == 0 .. (MaxTime + MaxLease)
Deadline == Time \cup {None}

Lease == [owner : Owner, until : Until]
Claim == [generation : 1 .. MaxGeneration, owner : Owner, until : Until]
Token == [task : Task, generation : 1 .. MaxGeneration, owner : Owner]

ASSUME SchedulerAssumption ==
  /\ Task \subseteq Nat
  /\ capacity \in Nat \ {0}
  /\ MaxGeneration \in Nat
  /\ MaxTime \in Nat
  /\ MaxLease \in Nat \ {0}
  /\ MaxLimit \in Nat
  /\ None \notin Time
  /\ None \notin Claim \cup Lease

(* "Absent" is a task id that the map of tasks does not hold. *)
SchedulerType ==
  [queue : Seq(Task), state : [Task -> TaskState \cup {"Absent"}],
   deadline : [Task -> Deadline], claims : [Task -> Claim \cup {None}],
   generations : [Task -> 0 .. MaxGeneration]]

new == [queue |-> <<>>, state |-> [t \in Task |-> "Absent"],
        deadline |-> [t \in Task |-> None], claims |-> [t \in Task |-> None],
        generations |-> [t \in Task |-> 0]]

Full(s) == Len(s.queue) >= capacity
remaining_capacity(s) == IF Full(s) THEN 0 ELSE capacity - Len(s.queue)

deadline_reached(s, t, now) == s.deadline[t] # None /\ now >= s.deadline[t]

In(q, t) == \E i \in 1 .. Len(q) : q[i] = t
Distinct(q) == \A i, j \in 1 .. Len(q) : q[i] = q[j] => i = j

\* q without the entry for t; a task is queued at most once (QueueIsExact).
Retain(q, t) ==
  IF In(q, t)
  THEN LET k == CHOOSE i \in 1 .. Len(q) : q[i] = t
       IN  [i \in 1 .. (Len(q) - 1) |-> IF i < k THEN q[i] ELSE q[i + 1]]
  ELSE q

-----------------------------------------------------------------------------
(* The methods, as operators on the record.                                *)

\* Scheduler::transition, where the lifecycle and the queue's room allow it.
CanMove(s, t, next) ==
  /\ s.state[t] # "Absent"
  /\ next = "Queued" => ~Full(s)
  /\ can_transition_to(s.state[t], next)

Moved_keep_queue(s, t, next) ==
  [s EXCEPT
     !.state[t] = next,
     !.queue = IF next = "Queued" THEN Append(@, t) ELSE @,
     !.claims[t] = IF next \in {"Running", "WaitingIo"} THEN @ ELSE None]

Moved_keep_claim(s, t, next) ==
  [s EXCEPT
     !.state[t] = next,
     !.queue = IF next = "Queued" THEN Append(@, t)
               ELSE IF next \in Terminal THEN Retain(@, t) ELSE @,
     !.claims[t] = IF next \in Terminal THEN None ELSE @]

Moved(s, t, next) ==
  [queue |-> IF next = "Queued" THEN Append(s.queue, t)
             ELSE IF next \in Terminal THEN Retain(s.queue, t)
             ELSE s.queue,
   state |-> [s.state EXCEPT ![t] = next],
   deadline |-> s.deadline,
   claims |-> IF next \in {"Running", "WaitingIo"} THEN s.claims
              ELSE [s.claims EXCEPT ![t] = None],
   generations |-> s.generations]

Enqueued(s, t, deadline) ==
  [queue |-> Append(s.queue, t),
   state |-> [s.state EXCEPT ![t] = "Queued"],
   deadline |-> [s.deadline EXCEPT ![t] = deadline],
   claims |-> s.claims,
   generations |-> s.generations]

\* k is the number of overdue tasks at the head of the queue: the ones that
\* peek_runnable finalizes before it answers.
Lapsed(s, now, k) ==
  /\ k \in 0 .. Len(s.queue)
  /\ \A i \in 1 .. k : deadline_reached(s, s.queue[i], now)
  /\ k < Len(s.queue) => ~deadline_reached(s, s.queue[k + 1], now)

Taken_restart_generations(s, k, now, lease) ==
  LET heads  == {s.queue[i] : i \in 1 .. k}
      lapsed == {t \in heads : deadline_reached(s, t, now)}
      leased == IF lease = None THEN {} ELSE heads \ lapsed
  IN  [s EXCEPT
         !.queue = SubSeq(@, k + 1, Len(@)),
         !.state = [t \in Task |-> IF t \in lapsed THEN "TimedOut"
                                   ELSE IF t \in heads THEN "Running" ELSE @[t]],
         !.claims = [t \in Task |-> IF t \in leased
                                    THEN [generation |-> 1, owner |-> lease.owner,
                                          until |-> lease.until]
                                    ELSE @[t]]]

\* The first k tasks leave the queue: the overdue ones time out, the others
\* begin an attempt and get what `lease` gives them.
Taken(s, k, now, lease) ==
  LET heads  == {s.queue[i] : i \in 1 .. k}
      lapsed == {t \in heads : deadline_reached(s, t, now)}
      leased == IF lease = None THEN {} ELSE heads \ lapsed
  IN  [queue |-> SubSeq(s.queue, k + 1, Len(s.queue)),
       state |-> [t \in Task |-> IF t \in lapsed THEN "TimedOut"
                                 ELSE IF t \in heads THEN "Running"
                                 ELSE s.state[t]],
       deadline |-> s.deadline,
       claims |-> [t \in Task |-> IF t \in leased
                                  THEN [generation |-> s.generations[t] + 1,
                                        owner |-> lease.owner, until |-> lease.until]
                                  ELSE IF t \in lapsed THEN None
                                  ELSE s.claims[t]],
       generations |-> [t \in Task |-> IF t \in leased THEN s.generations[t] + 1
                                       ELSE s.generations[t]]]

Exhausted_past_the_end(s, t) == s.generations[t] > MaxGeneration

\* The claim on a task whose generations are used up: the attempt is undone
\* and the task goes to the end of the queue.
Exhausted(s, t) == s.generations[t] = MaxGeneration

PutBack(s, k, now) ==
  LET u == Taken(s, k, now, None)
  IN  [queue |-> Append(SubSeq(s.queue, k + 2, Len(s.queue)), s.queue[k + 1]),
       state |-> u.state, deadline |-> u.deadline, claims |-> u.claims,
       generations |-> u.generations]

Holds_any_generation(s, c) ==
  /\ s.claims[c.task] # None
  /\ s.claims[c.task].owner = c.owner

\* require_live_claim: the exact claim, before its lease ends.
Holds(s, c) ==
  /\ s.claims[c.task] # None
  /\ s.claims[c.task].generation = c.generation
  /\ s.claims[c.task].owner = c.owner

require_live_claim(s, c, now) == Holds(s, c) /\ s.claims[c.task].until > now

Renewed(s, t, until) ==
  [queue |-> s.queue, state |-> s.state, deadline |-> s.deadline,
   claims |-> [s.claims EXCEPT ![t] = [generation |-> @.generation, owner |-> @.owner,
                                       until |-> until]],
   generations |-> s.generations]

\* r lists the k smallest ids of S, or all of S, in increasing order.
FirstOf(r, S, k) ==
  /\ Len(r) <= k
  /\ \A i \in 1 .. Len(r) : r[i] \in S
  /\ \A i, j \in 1 .. Len(r) : i < j => r[i] < r[j]
  /\ \A t \in S : ~In(r, t) => Len(r) = k /\ \A i \in 1 .. Len(r) : r[i] < t

Listing == UNION {[1 .. n -> Task] : n \in 0 .. capacity}

\* requeue_claims takes the `limit` smallest ids; the overdue tasks among them
\* time out, the others go back to the queue, r, as far as it has room.
Batch(ids, limit) == {t \in ids : Cardinality({u \in ids : u < t}) < limit}

Overdue(s, ids, now) == {t \in ids : deadline_reached(s, t, now)}

Requeued_first(s, batch, r, now) ==
  LET lapsed == Overdue(s, batch, now)
      queued == {r[i] : i \in 1 .. Len(r)}
  IN  [s EXCEPT
         !.queue = r \o @,
         !.state = [t \in Task |-> IF t \in lapsed THEN "TimedOut"
                                   ELSE IF t \in queued THEN "Queued" ELSE @[t]],
         !.claims = [t \in Task |-> IF t \in lapsed \cup queued THEN None ELSE @[t]]]

Requeued(s, batch, r, now) ==
  LET lapsed == Overdue(s, batch, now)
      queued == {r[i] : i \in 1 .. Len(r)}
  IN  [queue |-> s.queue \o r,
       state |-> [t \in Task |-> IF t \in lapsed THEN "TimedOut"
                                 ELSE IF t \in queued THEN "Queued"
                                 ELSE s.state[t]],
       deadline |-> s.deadline,
       claims |-> [t \in Task |-> IF t \in lapsed \cup queued THEN None
                                  ELSE s.claims[t]],
       generations |-> s.generations]

ExpiredClaims(s, now) == {t \in Task : s.claims[t] # None /\ s.claims[t].until <= now}
OwnedClaims(s, o) == {t \in Task : s.claims[t] # None /\ s.claims[t].owner = o}

-----------------------------------------------------------------------------
(* The public methods.  `now` is the clock at the call.                    *)

Init == sch = new /\ issued = {} /\ clock = 0

enqueue(t, deadline) ==
  /\ sch.state[t] = "Absent"
  /\ ~Full(sch)
  /\ sch' = Enqueued(sch, t, deadline)
  /\ UNCHANGED <<issued, clock>>

peek_runnable ==
  /\ \E k \in 0 .. Len(sch.queue) :
       Lapsed(sch, clock, k) /\ sch' = Taken(sch, k, clock, None)
  /\ UNCHANGED <<issued, clock>>

claim ==
  /\ \E k \in 0 .. Len(sch.queue) :
       /\ Lapsed(sch, clock, k)
       /\ k < Len(sch.queue)
       /\ sch' = Taken(sch, k + 1, clock, None)
  /\ UNCHANGED <<issued, clock>>

claim_with_lease(o, ms) ==
  \E k \in 0 .. Len(sch.queue) :
    /\ Lapsed(sch, clock, k)
    /\ k < Len(sch.queue)
    /\ LET t == sch.queue[k + 1]
       IN  \/ /\ ~Exhausted(sch, t)
              /\ sch' = Taken(sch, k + 1, clock, [owner |-> o, until |-> clock + ms])
              /\ issued' = issued \cup {[task |-> t, owner |-> o,
                                         generation |-> sch.generations[t] + 1]}
           \/ /\ Exhausted(sch, t)
              /\ sch' = PutBack(sch, k, clock)
              /\ UNCHANGED issued
    /\ UNCHANGED clock

renew_claim(c, ms) ==
  /\ require_live_claim(sch, c, clock)
  /\ sch' = Renewed(sch, c.task, clock + ms)
  /\ UNCHANGED <<issued, clock>>

ClaimOutcome == {"Suspended", "Completed", "Failed", "Canceled", "TimedOut"}

finish_claim(c, next) ==
  /\ require_live_claim(sch, c, clock)
  /\ CanMove(sch, c.task, next)
  /\ sch' = Moved(sch, c.task, next)
  /\ UNCHANGED <<issued, clock>>

\* The effect of release_claim; without room the claim stays as it is.
Released(s, t, now) ==
  IF deadline_reached(s, t, now) THEN Moved(s, t, "TimedOut")
  ELSE Moved(Moved(s, t, "Retrying"), t, "Queued")

release_claim(c) ==
  /\ require_live_claim(sch, c, clock)
  /\ deadline_reached(sch, c.task, clock) \/ ~Full(sch)
  /\ sch' = Released(sch, c.task, clock)
  /\ UNCHANGED <<issued, clock>>

requeue_claims(ids, limit) ==
  /\ LET batch == Batch(ids, limit)
     IN  \E r \in Listing :
           /\ FirstOf(r, batch \ Overdue(sch, batch, clock), remaining_capacity(sch))
           /\ sch' = Requeued(sch, batch, r, clock)
  /\ UNCHANGED <<issued, clock>>

requeue_expired(limit) == requeue_claims(ExpiredClaims(sch, clock), limit)

requeue_owner_claims(o, limit) == requeue_claims(OwnedClaims(sch, o), limit)

\* Callers leave the step from Queued to Running to the claims: `transition`
\* would leave the running task in the queue.
transition(t, next) ==
  /\ CanMove(sch, t, next)
  /\ ~(sch.state[t] = "Queued" /\ next = "Running")
  /\ sch' = Moved(sch, t, next)
  /\ UNCHANGED <<issued, clock>>

cancel(t) ==
  /\ sch.state[t] \notin Terminal
  /\ CanMove(sch, t, "Canceled")
  /\ sch' = Moved(sch, t, "Canceled")
  /\ UNCHANGED <<issued, clock>>

\* The callers read the system clock, which may be set back.
ClockStep ==
  /\ clock' \in Time
  /\ UNCHANGED <<sch, issued>>

Next ==
  \/ \E t \in Task, d \in Deadline : enqueue(t, d)
  \/ peek_runnable
  \/ claim
  \/ \E o \in Owner, ms \in 1 .. MaxLease : claim_with_lease(o, ms)
  \/ \E c \in issued, ms \in 1 .. MaxLease : renew_claim(c, ms)
  \/ \E c \in issued, next \in ClaimOutcome : finish_claim(c, next)
  \/ \E c \in issued : release_claim(c)
  \/ \E limit \in 0 .. MaxLimit : requeue_expired(limit)
  \/ \E o \in Owner, limit \in 0 .. MaxLimit : requeue_owner_claims(o, limit)
  \/ \E t \in Task, next \in TaskState : transition(t, next)
  \/ \E t \in Task : cancel(t)
  \/ ClockStep

Spec == Init /\ [][Next]_vars

-----------------------------------------------------------------------------
(* Properties.                                                             *)

\* The scheduler keeps well-typed data, and its callers' claims are tokens.
TypeOK ==
  /\ sch \in SchedulerType
  /\ issued \subseteq Token
  /\ clock \in Time

\* The queue holds exactly the queued tasks, each of them once, and never more
\* than its capacity: no method loses a task that may run, keeps one that has
\* ended, or queues one twice, whichever order the calls come in.
QueueIsExact ==
  /\ Len(sch.queue) <= capacity
  /\ Distinct(sch.queue)
  /\ \A t \in Task : sch.state[t] = "Queued" <=> In(sch.queue, t)

\* A lease is held only on a task that is running, and only under the newest
\* generation of that task: requeueing, suspending and ending a task drop the
\* lease in the same step.
ClaimsAreOfRunning ==
  \A t \in Task : sch.claims[t] # None =>
    /\ sch.state[t] \in {"Running", "WaitingIo"}
    /\ sch.claims[t].generation = sch.generations[t]

\* Claims of one task never share a generation, and none is ahead of the
\* scheduler's count, so a later claim is always new.
GenerationsAreFresh ==
  /\ \A c \in issued : c.generation <= sch.generations[c.task]
  /\ \A c, d \in issued :
       c.task = d.task /\ c.generation = d.generation => c = d

\* Of all the claims ever handed out for a task at most one still passes
\* require_live_claim, even when one owner claimed the task several times.
OneHolder ==
  \A c, d \in issued :
    /\ c.task = d.task
    /\ require_live_claim(sch, c, clock)
    /\ require_live_claim(sch, d, clock)
    => c = d

\* A worker whose claim was fenced off can never act on the task again: no
\* later call makes an issued claim match once it does not.
FencedForGood ==
  [][\A c \in issued : ~Holds(sch, c) => ~Holds(sch', c)]_vars

\* A task that ended keeps its result, whatever late releases, cancellations
\* and requeueings arrive.
TerminalIsFinal ==
  [][\A t \in Task : sch.state[t] \in Terminal => sch'.state[t] = sch.state[t]]_vars

\* A queued task is never overtaken: whoever is ahead of it after a step was
\* ahead of it before.  Only the end of a task's generations sends it back.
Before(q, t, u) == \E i, j \in 1 .. Len(q) : i < j /\ q[i] = t /\ q[j] = u

NoOvertaking ==
  [][\A t, u \in Task :
       sch.state[t] = "Queued" /\ ~Exhausted(sch, t) /\ Before(sch'.queue, u, t)
         => Before(sch.queue, u, t)]_vars

====
