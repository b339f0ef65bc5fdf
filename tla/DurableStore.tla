---------------------------- MODULE DurableStore ----------------------------
(***************************************************************************)
(* The durable store of crate tysel-durable: programs, replay histories,   *)
(* timers, signals, completions and the leased executions that fence them. *)
(*                                                                         *)
(* Every public operation runs in one IMMEDIATE transaction, so it is one  *)
(* action here.  An operation that returns an error rolls back, which is   *)
(* the absence of a step.  Claims are never taken away from a caller: a    *)
(* claim stays in `claims` for ever and its holder may use it at any later *)
(* moment.  That is how a slow, partitioned or crashed-and-resumed runner  *)
(* looks to the store.                                                     *)
(***************************************************************************)
EXTENDS Integers, Sequences, FiniteSets

CONSTANTS
  Task,      \* task identifiers
  Source,    \* program text together with its input (a module's request hash)
  Name,      \* signal names
  Key,       \* signal idempotency keys
  Worker,    \* lease owners of the low-level, caller-owned wakeup API
  None,      \* SQL NULL, an absent row, an absent argument
  MAX_DURABLE_PROGRAMS,
  MAX_HISTORY_EVENTS,
  MAX_PENDING_SIGNALS,
  Lease,     \* lease duration in clock units
  MaxTime,   \* bound on the clock
  MaxToken,  \* bound on the number of execution claims issued
  MaxSignal, \* bound on the number of signals accepted
  MaxWakeupClaims \* bound on the number of low-level wakeup claims issued

ASSUME BoundsAssumption ==
  /\ MAX_DURABLE_PROGRAMS \in Nat
  /\ MAX_HISTORY_EVENTS \in Nat \ {0}
  /\ MAX_PENDING_SIGNALS \in Nat
  /\ Lease \in Nat \ {0}
  /\ MaxTime \in Nat
  /\ MaxToken \in Nat
  /\ MaxSignal \in Nat
  /\ MaxWakeupClaims \in Nat

ASSUME TasksAssumption == IsFiniteSet(Task)

ASSUME NullAssumption ==
  /\ None \notin Source
  /\ None \notin Nat
  /\ None \notin Worker
  /\ Worker \cap Nat = {}

VARIABLES
  clock,       \* the wall clock the transactions read
  program,     \* durable_programs: task -> source
  history,     \* durable_events: task -> sequence of events
  wakeup,      \* durable_wakeups: task -> timer row with its lease
  wait,        \* durable_signal_waits: task -> suspended signal boundary
  inbox,       \* durable_signal_inbox: task -> set of undelivered rows
  receipts,    \* durable_signal_receipts: task -> set of keyed requests
  completion,  \* durable_completions: task -> terminal result
  exec,        \* durable_executions: task -> lifecycle row
  activeCount, \* durable_program_stats.active_count
  nextSignal,  \* AUTOINCREMENT of the inbox
  nextToken,   \* next unused ownership token (they are random in the code)
  claims,      \* execution claims issued so far
  wclaims,     \* low-level wakeup claims issued so far
  sent,        \* history variable: ids accepted for this incarnation of a task
  born         \* history variable: nextToken when the task was last erased

catalog  == <<program, activeCount>>
signals  == <<inbox, receipts, sent, nextSignal>>
runs     == <<exec, claims, nextToken>>
vars     == <<clock, catalog, history, wakeup, wait, completion, signals, runs,
              wclaims, born>>

-----------------------------------------------------------------------------
Time  == 0 .. MaxTime
Token == 1 .. MaxToken
Until == 0 .. MaxTime + Lease

\* An inbox row.  `key` is the idempotency key of the request, None if unkeyed.
Signal == [id : Nat, name : Name, key : Key \cup {None}]

\* `by` is the token of the execution that wrote the event, 0 for a caller that
\* holds no execution claim.  It is not stored by the code.
Event == [kind : {"step", "sleep"}, by : 0 .. MaxToken]
           \cup [kind : {"signal"}, by : 0 .. MaxToken, row : Signal]

Wakeup == [seq : Nat, at : Time, owner : Worker \cup Token \cup {None},
           until : Until \cup {None}]

Wait == [seq : Nat, name : Name]

WakeupClaim == [task : Task, seq : Nat, at : Time, owner : Worker \cup Token,
                until : Until]

ExecutionClaim == [task : Task, owner : Token, gen : Nat, until : Until,
                   wakeup : WakeupClaim \cup {None}]

Execution == [state : {"ready", "running", "suspended", "failed", "completed"},
              gen : Nat, owner : Token \cup {None}, until : Until \cup {None},
              request : Source \cup {None}]

Completion == [next : Nat, by : 0 .. MaxToken, at : Time]

Receipt == [key : Key, name : Name, id : Nat]

ASSUME NullRowAssumption ==
  /\ None \notin Wakeup
  /\ None \notin Wait
  /\ None \notin WakeupClaim
  /\ None \notin ExecutionClaim
  /\ None \notin Execution
  /\ None \notin Completion

TypeOK ==
  /\ clock \in Time
  /\ program \in [Task -> Source \cup {None}]
  /\ history \in [Task -> Seq(Event)]
  /\ wakeup \in [Task -> Wakeup \cup {None}]
  /\ wait \in [Task -> Wait \cup {None}]
  /\ inbox \in [Task -> SUBSET Signal]
  /\ receipts \in [Task -> SUBSET Receipt]
  /\ completion \in [Task -> Completion \cup {None}]
  /\ exec \in [Task -> Execution \cup {None}]
  /\ activeCount \in Int
  /\ nextSignal \in 1 .. MaxSignal + 1
  /\ nextToken \in 1 .. MaxToken + 1
  /\ claims \subseteq ExecutionClaim
  /\ wclaims \subseteq WakeupClaim
  /\ sent \in [Task -> SUBSET Nat]
  /\ born \in [Task -> 1 .. MaxToken + 1]

Init ==
  /\ clock = 0
  /\ program = [t \in Task |-> None]
  /\ history = [t \in Task |-> <<>>]
  /\ wakeup = [t \in Task |-> None]
  /\ wait = [t \in Task |-> None]
  /\ inbox = [t \in Task |-> {}]
  /\ receipts = [t \in Task |-> {}]
  /\ completion = [t \in Task |-> None]
  /\ exec = [t \in Task |-> None]
  /\ activeCount = 0
  /\ nextSignal = 1
  /\ nextToken = 1
  /\ claims = {}
  /\ wclaims = {}
  /\ sent = [t \in Task |-> {}]
  /\ born = [t \in Task |-> 1]

-----------------------------------------------------------------------------
(* Checks and writes shared by the operations.                             *)

\* A NULL or elapsed lease does not exclude a new owner.
Elapsed(until, now) == until # None => until <= now

\* A caller passes a `now_ms` it read before the transaction began.
CallerClock == 0 .. clock

ensure_open(t) == completion[t] = None

next_sequence(t) == Len(history[t])

\* Mutation: the fence compares generations but not ownership tokens.
guard_execution_without_owner(c, t) ==
  c # None =>
    /\ c.task = t
    /\ exec[t] # None
    /\ exec[t].state = "running"
    /\ exec[t].gen = c.gen
    /\ exec[t].until > clock

\* The fence of a scoped store handle.  `c` is an execution claim, or None for
\* the unscoped store.  It is evaluated before the first write and again before
\* the commit; the transaction is atomic here, so once.
guard_execution(c, t) ==
  c # None =>
    /\ c.task = t
    /\ exec[t] # None
    /\ exec[t].state = "running"
    /\ exec[t].owner = c.owner
    /\ exec[t].gen = c.gen
    /\ exec[t].until > clock

Writer(c) == IF c = None THEN 0 ELSE c.owner

insert_event(t, expected, e) ==
  /\ ensure_open(t)
  /\ Len(history[t]) < MAX_HISTORY_EVENTS
  /\ expected = next_sequence(t)
  /\ history' = [history EXCEPT ![t] = Append(@, e)]

upsert_wakeup(t, seq, at) ==
  wakeup' = [wakeup EXCEPT ![t] =
               [seq |-> seq, at |-> at, owner |-> None, until |-> None]]

\* A wakeup row, or an execution row, under another lease.
Leased(row, owner, until) == [row EXCEPT !.owner = owner, !.until = until]

\* The wakeup rows with the lease of task `t`, if it has a timer, replaced.
LeaseWakeup(t, owner, until) ==
  [wakeup EXCEPT ![t] = IF @ = None THEN None ELSE Leased(@, owner, until)]

\* An execution row whose run has ended in `state`.
Ended(row, state) == [row EXCEPT !.state = state, !.owner = None, !.until = None]

\* The wakeup row is the one the claim was issued for, under the same lease.
ExactWakeup(wc) ==
  /\ wakeup[wc.task] # None
  /\ wakeup[wc.task].seq = wc.seq
  /\ wakeup[wc.task].at = wc.at
  /\ wakeup[wc.task].owner = wc.owner
  /\ wakeup[wc.task].until = wc.until

\* Rows that sort first by their time, up to a caller's limit: a LIMIT over
\* ORDER BY time, task.
Batch(rows, at) ==
  {b \in SUBSET rows : \A t \in b, u \in rows \ b : at[t] <= at[u]}

-----------------------------------------------------------------------------
(* Programs and admission.                                                 *)

\* Mutation: a known task is counted again when it registers again.
put_program_recount(t, s) ==
  /\ ensure_open(t)
  /\ activeCount < MAX_DURABLE_PROGRAMS
  /\ program' = [program EXCEPT ![t] = s]
  /\ activeCount' = activeCount + 1
  /\ UNCHANGED <<clock, history, wakeup, wait, completion, signals, runs,
                 wclaims, born>>

\* Registering the same source again is acknowledged without a write; another
\* source is a conflict.
put_program(t, s) ==
  /\ ensure_open(t)
  /\ program[t] = None
  /\ activeCount < MAX_DURABLE_PROGRAMS
  /\ program' = [program EXCEPT ![t] = s]
  /\ activeCount' = activeCount + 1
  /\ UNCHANGED <<clock, history, wakeup, wait, completion, signals, runs,
                 wclaims, born>>

\* Mutation: recorded events do not keep a program registered.
InUse_without_history(t) ==
  wakeup[t] # None \/ inbox[t] # {} \/ wait[t] # None

InUse(t) ==
  history[t] # <<>> \/ wakeup[t] # None \/ inbox[t] # {} \/ wait[t] # None

\* The execution row of the task stays behind.
remove_program(t) ==
  /\ ensure_open(t)
  /\ program[t] # None
  /\ ~InUse(t)
  /\ program' = [program EXCEPT ![t] = None]
  /\ activeCount' = activeCount - 1
  /\ UNCHANGED <<clock, history, wakeup, wait, completion, signals, runs,
                 wclaims, born>>

\* A task id is the digest of its admission key, so a row's key and request hash
\* agree with a repeated request exactly when the source does: that request is
\* acknowledged without a write, any other is a conflict.
admit(t, s) ==
  /\ exec[t] = None
  /\ program[t] = None
  /\ activeCount < MAX_DURABLE_PROGRAMS
  /\ program' = [program EXCEPT ![t] = s]
  /\ activeCount' = activeCount + 1
  /\ insert_event(t, 0, [kind |-> "step", by |-> 0])
  /\ exec' = [exec EXCEPT ![t] = [state |-> "ready", gen |-> 0, owner |-> None,
                                  until |-> None, request |-> s]]
  /\ UNCHANGED <<clock, wakeup, wait, completion, signals, claims, nextToken,
                 wclaims, born>>

-----------------------------------------------------------------------------
(* Leased executions.                                                      *)

\* Mutation: a live execution lease does not exclude another claim.
Claimable_over_live_lease(t) ==
  /\ completion[t] = None
  /\ program[t] # None
  /\ exec[t] # None => exec[t].state \notin {"completed", "failed"}
  /\ wakeup[t] # None => wakeup[t].at <= clock
  /\ wakeup[t] = None => wait[t] = None

Claimable(t) ==
  /\ completion[t] = None
  /\ program[t] # None
  /\ exec[t] # None => /\ exec[t].state \notin {"completed", "failed"}
                       /\ Elapsed(exec[t].until, clock)
  /\ wakeup[t] # None => /\ wakeup[t].at <= clock
                         /\ Elapsed(wakeup[t].until, clock)
  /\ wakeup[t] = None => wait[t] = None

\* Mutation: the lease is stored twice as long as the one handed out.
NewExecution_longer_lease(t) ==
  [state   |-> "running",
   gen     |-> IF exec[t] = None THEN 1 ELSE exec[t].gen + 1,
   owner   |-> nextToken,
   until   |-> clock + 2 * Lease,
   request |-> IF exec[t] = None THEN None ELSE exec[t].request]

\* The claim a runner would get: a fresh token and the next generation.  The
\* admission identity of an existing row is kept.
NewExecution(t) ==
  [state   |-> "running",
   gen     |-> IF exec[t] = None THEN 1 ELSE exec[t].gen + 1,
   owner   |-> nextToken,
   until   |-> clock + Lease,
   request |-> IF exec[t] = None THEN None ELSE exec[t].request]

NewClaim(t) ==
  [task |-> t, owner |-> nextToken, gen |-> NewExecution(t).gen,
   until |-> clock + Lease,
   wakeup |-> IF wakeup[t] = None THEN None
              ELSE [task |-> t, seq |-> wakeup[t].seq, at |-> wakeup[t].at,
                    owner |-> nextToken, until |-> clock + Lease]]

claim_run(t) ==
  /\ nextToken <= MaxToken
  /\ Claimable(t)
  /\ exec' = [exec EXCEPT ![t] = NewExecution(t)]
  /\ claims' = claims \cup {NewClaim(t)}
  /\ nextToken' = nextToken + 1
  /\ wakeup' = LeaseWakeup(t, nextToken, clock + Lease)
  /\ UNCHANGED <<clock, catalog, history, wait, completion, signals, wclaims,
                 born>>

\* finish_execution: suspend, or fail for good.  Whatever lease the wakeup row
\* carries is cleared with it.
release_run(c, failed) ==
  /\ guard_execution(c, c.task)
  /\ exec' = [exec EXCEPT ![c.task] =
                Ended(@, IF failed THEN "failed" ELSE "suspended")]
  /\ wakeup' = LeaseWakeup(c.task, None, None)
  /\ UNCHANGED <<clock, catalog, history, wait, completion, signals, claims,
                 nextToken, wclaims, born>>

\* Under a lease the completion is stamped inside the transaction; an unscoped
\* caller passes its own timestamp.
completion_time(c, now) == IF c = None THEN now ELSE clock

\* A task completes once, with nothing suspended and at the sequence its runner
\* has reached.  Repeating the recorded outcome is acknowledged without a write.
finish_task(c, t, expected, now) ==
  /\ completion[t] = None
  /\ guard_execution(c, t)
  /\ program[t] # None
  /\ expected = next_sequence(t)
  /\ wakeup[t] = None
  /\ wait[t] = None
  /\ completion' = [completion EXCEPT ![t] =
                      [next |-> expected, by |-> Writer(c),
                       at |-> completion_time(c, now)]]
  /\ activeCount' = activeCount - 1
  /\ exec' = [exec EXCEPT ![t] = IF @ = None THEN None ELSE Ended(@, "completed")]
  /\ UNCHANGED <<clock, program, history, wakeup, wait, signals, claims,
                 nextToken, wclaims, born>>

\* Mutation: the execution rows survive the pruning of their tasks.
prune_completed_keep_executions(before) ==
  LET erased == {t \in Task : completion[t] # None /\ completion[t].at < before}
  IN /\ erased # {}
     /\ program' = [t \in Task |-> IF t \in erased THEN None ELSE program[t]]
     /\ history' = [t \in Task |-> IF t \in erased THEN <<>> ELSE history[t]]
     /\ inbox' = [t \in Task |-> IF t \in erased THEN {} ELSE inbox[t]]
     /\ receipts' = [t \in Task |-> IF t \in erased THEN {} ELSE receipts[t]]
     /\ completion' = [t \in Task |-> IF t \in erased THEN None ELSE completion[t]]
     /\ sent' = [t \in Task |-> IF t \in erased THEN {} ELSE sent[t]]
     /\ UNCHANGED <<clock, activeCount, wakeup, wait, nextSignal, runs, wclaims,
                    born>>

\* Erase a batch of completions older than `before`.  The byte budget may end a
\* batch early, so any batch can be the one taken.  Timers and waits are not
\* deleted: a task that still had one would be skipped.
prune_completed(before) ==
  LET aged == {t \in Task : completion[t] # None /\ completion[t].at < before}
  IN \E batch \in Batch(aged, [t \in aged |-> completion[t].at]) :
       LET erased == {t \in batch : wakeup[t] = None /\ wait[t] = None}
       IN /\ erased # {}
          /\ program' = [t \in Task |-> IF t \in erased THEN None ELSE program[t]]
          /\ history' = [t \in Task |-> IF t \in erased THEN <<>> ELSE history[t]]
          /\ inbox' = [t \in Task |-> IF t \in erased THEN {} ELSE inbox[t]]
          /\ receipts' = [t \in Task |-> IF t \in erased THEN {} ELSE receipts[t]]
          /\ completion' = [t \in Task |-> IF t \in erased THEN None
                                           ELSE completion[t]]
          /\ exec' = [t \in Task |-> IF t \in erased THEN None ELSE exec[t]]
          /\ sent' = [t \in Task |-> IF t \in erased THEN {} ELSE sent[t]]
          /\ born' = [t \in Task |-> IF t \in erased THEN nextToken ELSE born[t]]
          /\ UNCHANGED <<clock, activeCount, wakeup, wait, nextSignal, claims,
                         nextToken, wclaims>>

-----------------------------------------------------------------------------
(* Histories.                                                              *)

\* append_event, append_event_at, append_event_json_at.
append_event(c, t, expected) ==
  /\ guard_execution(c, t)
  /\ insert_event(t, expected, [kind |-> "step", by |-> Writer(c)])
  /\ UNCHANGED <<clock, catalog, wakeup, wait, completion, signals, runs,
                 wclaims, born>>

\* The sleep boundary and its timer in one transaction.
append_event_with_wakeup(c, t, expected, at) ==
  /\ guard_execution(c, t)
  /\ insert_event(t, expected, [kind |-> "sleep", by |-> Writer(c)])
  /\ upsert_wakeup(t, expected, at)
  /\ UNCHANGED <<clock, catalog, wait, completion, signals, runs, wclaims, born>>

-----------------------------------------------------------------------------
(* Timers under the low-level contract: leases named by the caller.        *)

\* Mutation: a timer can be set for a completed task.
schedule_wakeup_without_open(t, seq, at) ==
  /\ upsert_wakeup(t, seq, at)
  /\ UNCHANGED <<clock, catalog, history, wait, completion, signals, runs,
                 wclaims, born>>

schedule_wakeup(t, seq, at) ==
  /\ ensure_open(t)
  /\ upsert_wakeup(t, seq, at)
  /\ UNCHANGED <<clock, catalog, history, wait, completion, signals, runs,
                 wclaims, born>>

\* Mutation: a leased timer can be claimed.
DueWakeups_over_live_lease(now) ==
  {t \in Task : wakeup[t] # None /\ wakeup[t].at <= now}

DueWakeups(now) ==
  {t \in Task : /\ wakeup[t] # None
                /\ wakeup[t].at <= now
                /\ Elapsed(wakeup[t].until, now)}

\* Neither low-level claim looks at the execution row of the task.
claim_due_wakeups(w, now) ==
  LET due == DueWakeups(now)
  IN \E batch \in Batch(due, [t \in due |-> wakeup[t].at]) \ {{}} :
       /\ Cardinality(wclaims) < MaxWakeupClaims
       /\ wakeup' = [t \in Task |->
                       IF t \in batch
                       THEN Leased(wakeup[t], w, now + Lease)
                       ELSE wakeup[t]]
       /\ wclaims' = wclaims \cup
                       {[task |-> t, seq |-> wakeup[t].seq, at |-> wakeup[t].at,
                         owner |-> w, until |-> now + Lease] : t \in batch}
       /\ UNCHANGED <<clock, catalog, history, wait, completion, signals, runs,
                      born>>

claim_wakeup(t, w, now) ==
  /\ Cardinality(wclaims) < MaxWakeupClaims
  /\ t \in DueWakeups(now)
  /\ wakeup' = LeaseWakeup(t, w, now + Lease)
  /\ wclaims' = wclaims \cup
                  {[task |-> t, seq |-> wakeup[t].seq, at |-> wakeup[t].at,
                    owner |-> w, until |-> now + Lease]}
  /\ UNCHANGED <<clock, catalog, history, wait, completion, signals, runs, born>>

\* Delete the timer at `seq`: under the lease of `owner`, or unleased if the
\* caller names none.
complete_wakeup(c, t, seq, owner, now) ==
  /\ guard_execution(c, t)
  /\ wakeup[t] # None
  /\ wakeup[t].seq = seq
  /\ wakeup[t].owner = owner
  /\ owner # None => wakeup[t].until > now
  /\ wakeup' = [wakeup EXCEPT ![t] = None]
  /\ UNCHANGED <<clock, catalog, history, wait, completion, signals, runs,
                 wclaims, born>>

renew_wakeup_claim(wc, now) ==
  /\ Cardinality(wclaims) < MaxWakeupClaims
  /\ ExactWakeup(wc)
  /\ wc.until > now
  /\ wakeup' = LeaseWakeup(wc.task, wc.owner, now + Lease)
  /\ wclaims' = wclaims \cup {[wc EXCEPT !.until = now + Lease]}
  /\ UNCHANGED <<clock, catalog, history, wait, completion, signals, runs, born>>

release_wakeup_claim(wc) ==
  /\ ExactWakeup(wc)
  /\ wakeup' = LeaseWakeup(wc.task, None, None)
  /\ UNCHANGED <<clock, catalog, history, wait, completion, signals, runs,
                 wclaims, born>>

-----------------------------------------------------------------------------
(* Signals.                                                                *)

\* Mutation: the receipts are not consulted.
KeyedRequestAccepted_without_dedup(t, k) ==
  k # None => /\ Cardinality(receipts[t]) < MAX_HISTORY_EVENTS
              /\ program[t] # None

\* A keyed request needs a program and is refused once the receipts are full.
\* A repeated key is acknowledged (same name and payload) or a conflict: no
\* write either way.
KeyedRequestAccepted(t, k) ==
  k # None => /\ \A r \in receipts[t] : r.key # k
              /\ Cardinality(receipts[t]) < MAX_HISTORY_EVENTS
              /\ program[t] # None

send_signal(t, n, k, now) ==
  LET row == [id |-> nextSignal, name |-> n, key |-> k]
  IN /\ nextSignal <= MaxSignal
     /\ KeyedRequestAccepted(t, k)
     /\ ensure_open(t)
     /\ Cardinality(inbox[t]) < MAX_PENDING_SIGNALS
     /\ inbox' = [inbox EXCEPT ![t] = @ \cup {row}]
     /\ wakeup' = IF wait[t] # None /\ wait[t].name = n /\ wakeup[t] = None
                  THEN [wakeup EXCEPT ![t] = [seq |-> wait[t].seq, at |-> now,
                                              owner |-> None, until |-> None]]
                  ELSE wakeup
     /\ receipts' = IF k = None THEN receipts
                    ELSE [receipts EXCEPT ![t] =
                            @ \cup {[key |-> k, name |-> n, id |-> nextSignal]}]
     /\ nextSignal' = nextSignal + 1
     /\ sent' = [sent EXCEPT ![t] = @ \cup {nextSignal}]
     /\ UNCHANGED <<clock, catalog, history, wait, completion, runs, wclaims,
                    born>>

Queued(t, n) == {r \in inbox[t] : r.name = n}

\* Mutation: the inbox is read in the wrong order.
Oldest_is_newest(rows) == {r \in rows : \A q \in rows : r.id >= q.id}

\* The row ORDER BY id LIMIT 1 selects, as a set.
Oldest(rows) == {r \in rows : \A q \in rows : r.id <= q.id}

\* What poll_signal checks before it looks at the inbox.
AtSignalBoundary(c, t, expected, n) ==
  /\ guard_execution(c, t)
  /\ ensure_open(t)
  /\ expected = next_sequence(t)
  /\ wait[t] # None => wait[t] = [seq |-> expected, name |-> n]

\* poll_signal with nothing queued under the name: suspend.
register_signal_wait(c, t, expected, n) ==
  /\ AtSignalBoundary(c, t, expected, n)
  /\ Queued(t, n) = {}
  /\ wait' = [wait EXCEPT ![t] = [seq |-> expected, name |-> n]]
  /\ UNCHANGED <<clock, catalog, history, wakeup, completion, signals, runs,
                 wclaims, born>>

\* A task that had suspended consumes only under the claim of its wakeup, which
\* is used up; one that had not must have no timer at all.
ConsumeWakeup(t, expected, now, wc) ==
  \/ /\ wc # None
     /\ wait[t] # None
     /\ wc.task = t
     /\ wc.seq = expected
     /\ ExactWakeup(wc)
     /\ wc.until > now
     /\ wakeup' = [wakeup EXCEPT ![t] = None]
  \/ /\ wc = None
     /\ wait[t] = None
     /\ wakeup[t] = None
     /\ wakeup' = wakeup

\* Mutation: the consumed row is left in the inbox.
poll_signal_keep_row(c, t, expected, n, now, wc) ==
  \E row \in Oldest(Queued(t, n)) :
     /\ AtSignalBoundary(c, t, expected, n)
     /\ ConsumeWakeup(t, expected, now, wc)
     /\ insert_event(t, expected,
                     [kind |-> "signal", by |-> Writer(c), row |-> row])
     /\ wait' = [wait EXCEPT ![t] = None]
     /\ UNCHANGED <<clock, catalog, completion, signals, runs, wclaims, born>>

\* poll_signal with a queued row: consume the oldest.
poll_signal(c, t, expected, n, now, wc) ==
  \E row \in Oldest(Queued(t, n)) :
     /\ AtSignalBoundary(c, t, expected, n)
     /\ ConsumeWakeup(t, expected, now, wc)
     /\ insert_event(t, expected,
                     [kind |-> "signal", by |-> Writer(c), row |-> row])
     /\ inbox' = [inbox EXCEPT ![t] = @ \ {row}]
     /\ wait' = [wait EXCEPT ![t] = None]
     /\ UNCHANGED <<clock, catalog, completion, receipts, sent, nextSignal, runs,
                    wclaims, born>>

-----------------------------------------------------------------------------
(* Any caller may make any call at any time.                               *)

\* Store handles: one scoped to each claim issued, and the unscoped store of the
\* low-level callers, if there are any.
Scope == claims \cup {None : w \in Worker}

Sequence == 0 .. MAX_HISTORY_EVENTS

\* The lease owners and wakeup claims a holder of scope `c` knows of.
OwnersOf(c) == {None} \cup (IF c = None THEN Worker ELSE {c.owner})

WakeupClaimsOf(c) == {None} \cup (IF c = None THEN wclaims ELSE {c.wakeup})

Tick == /\ clock < MaxTime
        /\ clock' = clock + 1
        /\ UNCHANGED <<catalog, history, wakeup, wait, completion, signals, runs,
                       wclaims, born>>

Next ==
  \/ Tick
  \/ \E t \in Task, s \in Source : put_program(t, s) \/ admit(t, s)
  \/ \E t \in Task : remove_program(t) \/ claim_run(t)
  \/ \E c \in claims, failed \in BOOLEAN : release_run(c, failed)
  \/ \E before \in CallerClock : prune_completed(before)
  \/ \E c \in Scope, t \in Task, expected \in Sequence :
       \/ append_event(c, t, expected)
       \/ \E at \in Time : append_event_with_wakeup(c, t, expected, at)
       \/ \E now \in CallerClock : finish_task(c, t, expected, now)
       \/ \E now \in CallerClock, owner \in OwnersOf(c) :
            complete_wakeup(c, t, expected, owner, now)
       \/ \E n \in Name : register_signal_wait(c, t, expected, n)
       \/ \E n \in Name, now \in CallerClock, wc \in WakeupClaimsOf(c) :
            poll_signal(c, t, expected, n, now, wc)
  \/ \E t \in Task, n \in Name, k \in Key \cup {None}, now \in CallerClock :
       send_signal(t, n, k, now)
  \/ \E w \in Worker, t \in Task, seq \in Sequence, at \in Time :
       schedule_wakeup(t, seq, at)
  \/ \E w \in Worker, now \in CallerClock : claim_due_wakeups(w, now)
  \/ \E w \in Worker, t \in Task, now \in CallerClock : claim_wakeup(t, w, now)
  \/ \E wc \in wclaims, now \in CallerClock : renew_wakeup_claim(wc, now)
  \/ \E wc \in wclaims : release_wakeup_claim(wc)

Spec == Init /\ [][Next]_vars

-----------------------------------------------------------------------------
(* Safety.                                                                 *)

\* A completed task is at rest: its program is retained, its history is exactly
\* the one its runner had replayed, nothing is suspended, and its execution row,
\* if it has one, is terminal.  A terminal row in turn has its result.  No call
\* with a stale view (a late signal, a late append, a late timer) may reopen it.
CompletedIsQuiescent ==
  \A t \in Task :
    /\ completion[t] # None =>
         /\ program[t] # None
         /\ completion[t].next = Len(history[t])
         /\ wakeup[t] = None
         /\ wait[t] = None
         /\ exec[t] # None => exec[t].state = "completed"
    /\ exec[t] # None /\ exec[t].state = "completed" => completion[t] # None

\* Tokens of the scoped writers of a task's history, completion included.
Writers(t) ==
  {history[t][i].by : i \in 1 .. Len(history[t])}
    \cup (IF completion[t] = None THEN {} ELSE {completion[t].by})

\* The fence of guard_execution: events written under execution claims appear in
\* the order the claims were issued, the completion last, and none comes from a
\* claim issued before the task was last pruned.  A superseded runner therefore
\* never writes after its successor, nor into a later task with the same id,
\* although the generation counter of that task starts again.
WritersInClaimOrder ==
  \A t \in Task :
    /\ \A i, j \in 1 .. Len(history[t]) :
         i < j /\ history[t][j].by # 0 => history[t][i].by <= history[t][j].by
    /\ completion[t] # None /\ completion[t].by # 0 =>
         \A w \in Writers(t) : w <= completion[t].by
    /\ \A w \in Writers(t) : w = 0 \/ w >= born[t]

\* Why the fence holds: tokens are never reused, and the token in an execution row
\* is younger than the last erasure of the task and no older than any writer of
\* its history.  WritersInClaimOrder is inductive together with this.
TokensFence ==
  /\ \A c \in claims : c.owner < nextToken
  /\ \A c, d \in claims : c.owner = d.owner => c = d
  /\ \A t \in Task :
       /\ born[t] <= nextToken
       /\ \A w \in Writers(t) : w < nextToken
       /\ exec[t] # None /\ exec[t].owner # None =>
            /\ born[t] <= exec[t].owner
            /\ exec[t].owner < nextToken
            /\ \A w \in Writers(t) : w <= exec[t].owner

\* At any moment at most one of the claims ever issued for a task passes the
\* guard of the scoped store.
SingleRunner ==
  \A c, d \in claims :
    c.task = d.task /\ guard_execution(c, c.task) /\ guard_execution(d, d.task)
      => c = d

\* The quota counter that put_program, remove_program, admit, finish_task and
\* prune_completed maintain by increments is the number of unfinished programs.
ActiveCountExact ==
  activeCount = Cardinality({t \in Task : program[t] # None /\ completion[t] = None})

\* admit acknowledges a repeated request from the execution row alone.  The row
\* is right to vouch for the task: its program is the one requested and its input
\* event is recorded.
AdmissionIsTruthful ==
  \A t \in Task :
    exec[t] # None /\ exec[t].request # None =>
      program[t] = exec[t].request /\ history[t] # <<>>

ConsumedAt(t) == {i \in 1 .. Len(history[t]) : history[t][i].kind = "signal"}

\* Every accepted signal of a task is either still in its inbox or recorded by
\* exactly one event of its history, never both and never neither, whichever
\* runners polled, crashed or lost their lease in between.
SignalsConserved ==
  \A t \in Task :
    LET queued   == {r.id : r \in inbox[t]}
        consumed == {history[t][i].row.id : i \in ConsumedAt(t)}
    IN /\ queued \cup consumed = sent[t]
       /\ queued \cap consumed = {}
       /\ \A i, j \in ConsumedAt(t) :
            history[t][i].row.id = history[t][j].row.id => i = j

\* Signals of one name are consumed in the order they were accepted, and those
\* still queued are younger than every consumed one.
SignalFifo ==
  \A t \in Task : \A i \in ConsumedAt(t) :
    /\ \A j \in ConsumedAt(t) :
         /\ i < j
         /\ history[t][i].row.name = history[t][j].row.name
         => history[t][i].row.id < history[t][j].row.id
    /\ \A r \in inbox[t] :
         r.name = history[t][i].row.name => history[t][i].row.id < r.id

Accepted(t) == inbox[t] \cup {history[t][i].row : i \in ConsumedAt(t)}

\* send_signal_once: a key is accepted at most once per task, also after the
\* signal was consumed or the task completed, because every accepted keyed signal
\* keeps its receipt.
SignalOncePerKey ==
  \A t \in Task :
    /\ \A r, q \in Accepted(t) : r.key # None /\ r.key = q.key => r = q
    /\ \A r \in Accepted(t) :
         r.key # None => [key |-> r.key, name |-> r.name, id |-> r.id] \in receipts[t]

-----------------------------------------------------------------------------
(* What a step may never do.                                               *)

\* Everything the store keeps under the task id is gone after the step.
Erased(t) ==
  /\ completion[t] # None
  /\ completion'[t] = None
  /\ program'[t] = None
  /\ history'[t] = <<>>
  /\ exec'[t] = None
  /\ inbox'[t] = {}
  /\ receipts'[t] = {}
  /\ wakeup'[t] = None
  /\ wait'[t] = None

\* A recorded event or result is never changed: a history grows by one event at a
\* time and a completion stays, until prune_completed erases the finished task
\* with everything stored under its id.
RecordsAreImmutable ==
  [][\A t \in Task :
       \/ Erased(t)
       \/ /\ \/ history'[t] = history[t]
             \/ /\ Len(history'[t]) = Len(history[t]) + 1
                /\ SubSeq(history'[t], 1, Len(history[t])) = history[t]
          /\ completion[t] # None => completion'[t] = completion[t]]_vars

\* A lease that has not run out is not handed to another owner: neither the
\* execution lease nor the wakeup lease of a task changes from one owner to
\* another in a step while it is live.
LeaseIsExclusive ==
  [][\A t \in Task :
       /\ exec[t] # None /\ exec'[t] # None =>
            exec[t].owner = None \/ exec'[t].owner \in {exec[t].owner, None}
              \/ exec[t].until <= clock
       /\ wakeup[t] # None /\ wakeup'[t] # None =>
            wakeup[t].owner = None \/ wakeup'[t].owner \in {wakeup[t].owner, None}
              \/ wakeup[t].until <= clock]_vars
=============================================================================
