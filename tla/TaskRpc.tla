------------------------------ MODULE TaskRpc ------------------------------
(***************************************************************************)
(* The TaskRPC broker and the Unix server in front of it (task_rpc.rs of   *)
(* tysel-runtime).  Every connection is a task of its own; the broker and  *)
(* the set of connected worker ids are each behind a lock, and the two are *)
(* never held together, so a connection is observable between them.        *)
(*                                                                         *)
(* A broker call is one step, except `claim`, which makes several calls of *)
(* the scheduler: `busy` is the claim that holds the broker's lock.  The   *)
(* clock is read once per call, under the lock, so it stands still while   *)
(* the lock is held.                                                       *)
(*                                                                         *)
(* A client is any program that speaks the protocol: it may send each of   *)
(* the lease tokens ever issued to its worker id, at any time.  Refused    *)
(* requests change nothing and are left out, and a failed write of an      *)
(* answer is a step of `leave` after the request.                          *)
(***************************************************************************)
EXTENDS Integers, Sequences, FiniteSets

CONSTANTS Task, Owner, None, capacity, MaxGeneration, MaxTime, MaxLease, MaxLimit,
          Conn,       \* connection tasks of the server
          MaxBatch    \* MAX_CLAIM_BATCH

VARIABLES sch, issued, clock,   \* the broker's scheduler: see Scheduler
          outcomes,             \* TaskRpcBroker::outcomes
          busy,                 \* the claim in progress under the broker's lock
          conn,                 \* per connection: where it is, and its worker id
          active_workers,       \* ids of the connected workers
          server                \* the listener loop

S == INSTANCE Scheduler

vars == <<sch, issued, clock, outcomes, busy, conn, active_workers, server>>

ASSUME TaskRpcAssumption ==
  /\ MaxBatch \in 1 .. MaxLimit
  /\ Cardinality(Task) <= MaxLimit
  /\ None \notin Owner

\* A result is told apart by the attempt (the claim's generation) that sent it.
Outcome == [status : {"Completed", "Failed"}, attempt : 1 .. MaxGeneration]
             \cup [status : {"Canceled", "TimedOut"}, attempt : {0}]

Ended(status) == [status |-> status, attempt |-> 0]

Connection == [at : {"Closed", "Open", "Joining", "Closing", "Leaving"},
               worker : Owner \cup {None}]

Call == [conn : Conn, ms : 1 .. MaxLease, limit : 1 .. MaxBatch,
         leases : 0 .. MaxBatch, step : {"Peek", "Lease"}]

closed == [at |-> "Closed", worker |-> None]

Init ==
  /\ S!Init
  /\ outcomes = [t \in Task |-> None]
  /\ busy = None
  /\ conn = [c \in Conn |-> closed]
  /\ active_workers = {}
  /\ server = "Serving"

Free == busy = None

\* The connection waits for its next request.
Reading(c) == conn[c].at = "Open" /\ (busy # None => busy.conn # c)

SchedulerUnchanged == UNCHANGED <<sch, issued, clock>>

-----------------------------------------------------------------------------
(* The broker, called in process.                                          *)

enqueue(t, deadline) ==
  /\ Free
  /\ S!enqueue(t, deadline)
  /\ UNCHANGED <<outcomes, busy, conn, active_workers, server>>

requeue_expired(limit) ==
  /\ Free
  /\ S!requeue_expired(limit)
  /\ UNCHANGED <<outcomes, busy, conn, active_workers, server>>

cancel_overwrites(t) ==
  /\ Free
  /\ sch.state[t] # "Absent"
  /\ \/ S!cancel(t)
     \/ sch.state[t] \in S!Terminal /\ SchedulerUnchanged
  /\ outcomes' = [outcomes EXCEPT ![t] = Ended("Canceled")]
  /\ UNCHANGED <<busy, conn, active_workers, server>>

\* Canceling again, or after another end, changes nothing.
cancel(t) ==
  /\ Free
  /\ S!cancel(t)
  /\ outcomes' = [outcomes EXCEPT ![t] = Ended("Canceled")]
  /\ UNCHANGED <<busy, conn, active_workers, server>>

-----------------------------------------------------------------------------
(* Requests of a connected worker.  Its session lets only tokens of its    *)
(* own worker id through.                                                  *)

Owns(c, token) == Reading(c) /\ conn[c].worker # None /\ token.owner = conn[c].worker

renew(c, token, ms) ==
  /\ Free /\ Owns(c, token)
  /\ S!renew_claim(token, ms)
  /\ UNCHANGED <<outcomes, busy, conn, active_workers, server>>

Recorded_before_end(t, result) == outcomes' = [outcomes EXCEPT ![t] = result]

\* The outcome that a commit leaves for a task that has just ended: an overdue
\* task timed out, whatever its worker reports.
Recorded(t, result) ==
  LET state == sch'.state[t]
  IN  outcomes' = [outcomes EXCEPT ![t] =
                     CASE state \in {"TimedOut", "Canceled"} -> Ended(state)
                       [] state \in {"Completed", "Failed"}  -> result
                       [] OTHER -> @]

release(c, token) ==
  /\ Free /\ Owns(c, token)
  /\ S!release_claim(token)
  /\ UNCHANGED <<outcomes, busy, conn, active_workers, server>>

commit_without_lease(c, token, outcome) ==
  /\ Free /\ Owns(c, token)
  /\ \E next \in S!ClaimOutcome : S!CanMove(sch, token.task, next) /\ next = outcome
       /\ sch' = S!Moved(sch, token.task, next)
  /\ UNCHANGED <<issued, clock>>
  /\ Recorded(token.task, [status |-> outcome, attempt |-> token.generation])
  /\ UNCHANGED <<busy, conn, active_workers, server>>

\* "Retry" is a failure that the worker reports as retryable.
commit(c, token, outcome) ==
  /\ Free /\ Owns(c, token)
  /\ IF outcome = "Retry" THEN S!release_claim(token) ELSE S!finish_claim(token, outcome)
  /\ Recorded(token.task, [status |-> outcome, attempt |-> token.generation])
  /\ UNCHANGED <<busy, conn, active_workers, server>>

-----------------------------------------------------------------------------
(* A claim: expired leases go back to the queue, then tasks are previewed  *)
(* and leased one by one until the limit, the end of the queue or the end  *)
(* of the answer's frame.                                                  *)

claim(c, ms, limit) ==
  /\ Free /\ Reading(c) /\ conn[c].worker # None
  /\ S!requeue_expired(limit)
  /\ busy' = [conn |-> c, ms |-> ms, limit |-> limit, leases |-> 0, step |-> "Peek"]
  /\ UNCHANGED <<outcomes, conn, active_workers, server>>

\* The frame has room for the first lease (`enqueue` made sure of it), and may
\* have none for a later one.
claim_preview ==
  /\ busy # None /\ busy.step = "Peek"
  /\ S!peek_runnable
  /\ \/ sch'.queue # <<>> /\ busy' = [busy EXCEPT !.step = "Lease"]
     \/ (sch'.queue = <<>> \/ busy.leases > 0) /\ busy' = None
  /\ UNCHANGED <<outcomes, conn, active_workers, server>>

claim_lease_skips_exhausted ==
  /\ busy # None /\ busy.step = "Lease"
  /\ S!claim_with_lease(conn[busy.conn].worker, busy.ms)
  /\ busy' = IF issued' = issued THEN [busy EXCEPT !.step = "Peek"]
             ELSE IF busy.leases + 1 = busy.limit THEN None
             ELSE [busy EXCEPT !.leases = @ + 1, !.step = "Peek"]
  /\ UNCHANGED <<outcomes, conn, active_workers, server>>

claim_lease ==
  /\ busy # None /\ busy.step = "Lease"
  /\ S!claim_with_lease(conn[busy.conn].worker, busy.ms)
  /\ busy' = IF issued' = issued \/ busy.leases + 1 = busy.limit THEN None
             ELSE [busy EXCEPT !.leases = @ + 1, !.step = "Peek"]
  /\ UNCHANGED <<outcomes, conn, active_workers, server>>

-----------------------------------------------------------------------------
(* Connections and the listener.                                           *)

accept_while_draining(c) ==
  /\ server # "Stopped" /\ conn[c].at = "Closed"
  /\ conn' = [conn EXCEPT ![c] = [at |-> "Open", worker |-> None]]
  /\ SchedulerUnchanged /\ UNCHANGED <<outcomes, busy, active_workers, server>>

accept(c) ==
  /\ server = "Serving" /\ conn[c].at = "Closed"
  /\ conn' = [conn EXCEPT ![c] = [at |-> "Open", worker |-> None]]
  /\ SchedulerUnchanged /\ UNCHANGED <<outcomes, busy, active_workers, server>>

\* A first hello registers the id; the id of a connected worker is refused, and
\* the connection may try another.
hello(c, w) ==
  /\ Reading(c) /\ conn[c].worker = None
  /\ w \notin active_workers
  /\ conn' = [conn EXCEPT ![c] = [at |-> "Joining", worker |-> w]]
  /\ active_workers' = active_workers \cup {w}
  /\ SchedulerUnchanged /\ UNCHANGED <<outcomes, busy, server>>

\* Then the session takes the identity, under the broker's lock.
hello_handled(c) ==
  /\ Free /\ conn[c].at = "Joining"
  /\ conn' = [conn EXCEPT ![c].at = "Open"]
  /\ SchedulerUnchanged /\ UNCHANGED <<outcomes, busy, active_workers, server>>

\* End of stream, an invalid frame, a failed write, or the shutdown.
leave(c) ==
  /\ Reading(c)
  /\ conn' = [conn EXCEPT ![c].at = "Closing"]
  /\ SchedulerUnchanged /\ UNCHANGED <<outcomes, busy, active_workers, server>>

disconnect_past_capacity(c) ==
  /\ Free /\ conn[c].at = "Closing"
  /\ LET mine == S!OwnedClaims(sch, conn[c].worker)
     IN  \E r \in S!Listing :
           /\ S!FirstOf(r, mine, Cardinality(mine))
           /\ sch' = S!Requeued(sch, mine, r, clock)
  /\ conn' = [conn EXCEPT ![c].at = IF conn[c].worker = None THEN "Closed" ELSE "Leaving"]
  /\ UNCHANGED <<issued, clock, outcomes, busy, active_workers, server>>

disconnect_drops_overflow(c) ==
  /\ Free /\ conn[c].at = "Closing"
  /\ LET mine == S!OwnedClaims(sch, conn[c].worker)
     IN  sch' = [sch EXCEPT !.claims = [t \in Task |-> IF t \in mine THEN None ELSE @[t]]]
  /\ conn' = [conn EXCEPT ![c].at = IF conn[c].worker = None THEN "Closed" ELSE "Leaving"]
  /\ UNCHANGED <<issued, clock, outcomes, busy, active_workers, server>>

\* The session gives up its worker's claims, as far as the queue has room.
disconnect(c) ==
  /\ Free /\ conn[c].at = "Closing"
  /\ \/ conn[c].worker = None /\ SchedulerUnchanged
        /\ conn' = [conn EXCEPT ![c] = closed]
     \/ conn[c].worker # None /\ S!requeue_owner_claims(conn[c].worker, MaxLimit)
        /\ conn' = [conn EXCEPT ![c].at = "Leaving"]
  /\ UNCHANGED <<outcomes, busy, active_workers, server>>

unregister_early(c) ==
  /\ conn[c].at \in {"Closing", "Leaving"} /\ conn[c].worker # None
  /\ IF conn[c].at = "Leaving" THEN conn' = [conn EXCEPT ![c] = closed] ELSE UNCHANGED conn
  /\ active_workers' = active_workers \ {conn[c].worker}
  /\ SchedulerUnchanged /\ UNCHANGED <<outcomes, busy, server>>

\* The id becomes free only after its claims were given up.
unregister(c) ==
  /\ conn[c].at = "Leaving"
  /\ conn' = [conn EXCEPT ![c] = closed]
  /\ active_workers' = active_workers \ {conn[c].worker}
  /\ SchedulerUnchanged /\ UNCHANGED <<outcomes, busy, server>>

\* The owner's shutdown or a listener error ends the loop, which then joins
\* every connection.
shutdown ==
  /\ server = "Serving" /\ server' = "Draining"
  /\ SchedulerUnchanged /\ UNCHANGED <<outcomes, busy, conn, active_workers>>

stop ==
  /\ server = "Draining" /\ \A c \in Conn : conn[c].at = "Closed"
  /\ server' = "Stopped"
  /\ SchedulerUnchanged /\ UNCHANGED <<outcomes, busy, conn, active_workers>>

ClockStep ==
  /\ Free
  /\ S!ClockStep
  /\ UNCHANGED <<outcomes, busy, conn, active_workers, server>>

Reply == S!ClaimOutcome \cup {"Retry"}

Next ==
  \/ \E t \in Task, d \in S!Deadline : enqueue(t, d)
  \/ \E limit \in 0 .. MaxLimit : requeue_expired(limit)
  \/ \E t \in Task : cancel(t)
  \/ \E c \in Conn, token \in issued, ms \in 1 .. MaxLease : renew(c, token, ms)
  \/ \E c \in Conn, token \in issued : release(c, token)
  \/ \E c \in Conn, token \in issued, r \in Reply : commit(c, token, r)
  \/ \E c \in Conn, ms \in 1 .. MaxLease, limit \in 1 .. MaxBatch : claim(c, ms, limit)
  \/ claim_preview
  \/ claim_lease
  \/ \E c \in Conn : accept(c)
  \/ \E c \in Conn, w \in Owner : hello(c, w)
  \/ \E c \in Conn : hello_handled(c)
  \/ \E c \in Conn : leave(c)
  \/ \E c \in Conn : disconnect(c)
  \/ \E c \in Conn : unregister(c)
  \/ shutdown
  \/ stop
  \/ ClockStep

Spec == Init /\ [][Next]_vars

\* Tokio's mutex serves its waiters in order and a ready branch of a select is
\* taken eventually: strong fairness for the steps that wait for the broker's
\* lock and for seeing the shutdown; the others just run.
Fairness ==
  /\ WF_vars(claim_preview) /\ WF_vars(claim_lease) /\ WF_vars(stop)
  /\ \A c \in Conn :
       /\ SF_vars(hello_handled(c)) /\ SF_vars(disconnect(c)) /\ WF_vars(unregister(c))
       /\ SF_vars(server = "Draining" /\ leave(c))

FairSpec == Spec /\ Fairness

-----------------------------------------------------------------------------
(* Properties.                                                             *)

\* The plane keeps well-typed data.
TypeOK ==
  /\ S!TypeOK
  /\ outcomes \in [Task -> Outcome \cup {None}]
  /\ busy \in Call \cup {None}
  /\ conn \in [Conn -> Connection]
  /\ active_workers \subseteq Owner
  /\ server \in {"Serving", "Draining", "Stopped"}

\* Every call of the broker is a call of the scheduler, with one reading of the
\* clock, so what Scheduler guarantees of its callers' claims holds here.
SchedulerSpec == S!Spec

\* No task is ever stranded: one that has not ended is queued, suspended, or
\* under a lease that its worker, its disconnection or the clock will end.
NoLostTask ==
  \A t \in Task : \/ sch.state[t] \in {"Absent", "Queued", "Suspended"} \cup S!Terminal
                  \/ sch.claims[t] # None

\* The outcome a waiting caller is given is how the task really ended, and a
\* result comes from the task's newest attempt.  Only a timeout that the
\* scheduler itself notices leaves no outcome.
OutcomesAgree ==
  \A t \in Task :
    /\ outcomes[t] # None => /\ outcomes[t].status = sch.state[t]
                             /\ outcomes[t].attempt \in {0, sch.generations[t]}
    /\ sch.state[t] \in {"Completed", "Failed", "Canceled"} => outcomes[t] # None

\* An outcome that was once visible never changes, whatever late commits and
\* cancellations arrive.
OutcomeIsFinal ==
  [][\A t \in Task : outcomes[t] # None => outcomes'[t] = outcomes[t]]_vars

\* At most one connection has a worker id, from its registration until its
\* claims were given up, and exactly the ids in use are refused.
OneConnectionPerWorker ==
  /\ \A c, d \in Conn : conn[c].worker # None /\ conn[c].worker = conn[d].worker => c = d
  /\ active_workers = {conn[c].worker : c \in Conn} \ {None}

\* A connection that ends takes nothing from a worker that is connected, even
\* if the worker has just reconnected under the same id.
DisconnectIsOwn ==
  [][\A c, d \in Conn :
       /\ c # d /\ conn[c].at \in {"Open", "Joining"}
       /\ conn[d].at = "Closing" /\ conn'[d].at = "Leaving"
       => \A t \in Task : sch.claims[t] # None /\ sch.claims[t].owner = conn[c].worker
                            => sch'.claims[t] = sch.claims[t]]_vars

\* A shutdown ends: the server joins all of its connections.
ServerStops == server = "Draining" ~> server = "Stopped"

\* A connection that ended frees its worker's id, so that the worker can
\* reconnect: no claim of another connection holds the broker for ever.
DepartureEnds == \A c \in Conn : conn[c].at = "Closing" ~> conn[c].at = "Closed"

====
