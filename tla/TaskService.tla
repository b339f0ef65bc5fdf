---------------------------- MODULE TaskService ----------------------------
(***************************************************************************)
(* ModuleTaskService of crates/tysel-runtime/src/task_service.rs: one      *)
(* process runs the TaskRPC server, a module worker connected to it over a *)
(* Unix socket, and the cron loop; MCP calls enter tasks and wait for      *)
(* their outcomes.  A shutdown flag, which the owner and every failing     *)
(* part may set, stops all of them, and a watch tells the owner why.       *)
(*                                                                         *)
(* The broker is seen through the one worker it has here: a task is        *)
(* queued, leased to the worker, or ended; TaskRpc models its other        *)
(* clients.  What a poll of the cron loop does is module TaskIngress's.    *)
(***************************************************************************)
EXTENDS Integers, FiniteSets

CONSTANTS Call,      \* MCP tool calls, each with a task of its own
          Capacity,  \* of the broker's queue
          None

ASSUME TaskServiceAssumption == Capacity \in Nat \ {0}

VARIABLES
  many,       \* the runtime has several threads; fixed
  cancelled,  \* the shutdown flag
  failure,    \* the failure watch: None, "server" or "worker"
  server,     \* "serving", "draining", "failing" (draining after an error),
              \* "stopped", "failed"
  conn,       \* the worker's connection: "open", "closed", or a request
              \* "claim" or "commit" that the server has not answered
  worker,     \* "ready", "claiming", "running", "committing", "lost" (its commit
              \* was not accepted), "stopped", "failed"
  polled,     \* the worker's select, being polled, has seen the flag unset
  lease,      \* the task the broker has leased to the worker, or None
  live,       \* the lease has not run out
  task,       \* per call: "none", "queued", "running", "suspended", "ended"
  outcome,    \* per call: what the broker shows, or None
  result,     \* what the handler made of the task in the worker's hands
  call,       \* per call: "new", "waiting", or its answer
  cron,       \* the cron loop: "ticking" or "stopped"
  owner,      \* "up", "joining", "ok", "error", "dropped"
  socket,     \* the socket file exists
  faults      \* faults of the environment so far; history

plane == <<many, cancelled, failure, server, conn, worker, polled, cron, owner, socket>>
work  == <<lease, live, task, outcome, result>>
vars  == <<plane, work, call, faults>>

Terminal == {"completed", "failed", "canceled", "timed_out"}
Result == Terminal \cup {"suspended", "retryable"}

TypeOK ==
  /\ many \in BOOLEAN /\ cancelled \in BOOLEAN /\ socket \in BOOLEAN /\ live \in BOOLEAN /\ polled \in BOOLEAN
  /\ failure \in {None, "server", "worker"}
  /\ server \in {"serving", "draining", "failing", "stopped", "failed"}
  /\ conn \in {"open", "closed", "claim", "commit"}
  /\ worker \in {"ready", "claiming", "running", "committing", "lost",
                "stopped", "failed"}
  /\ lease \in Call \cup {None}
  /\ task \in [Call -> {"none", "queued", "running", "suspended", "ended"}]
  /\ outcome \in [Call -> Terminal \cup {None}]
  /\ result \in Result \cup {None}
  /\ call \in [Call -> {"new", "waiting", "refused", "gave_up"} \cup Terminal]
  /\ cron \in {"ticking", "stopped"}
  /\ owner \in {"up", "joining", "ok", "error", "dropped"}
  /\ faults \subseteq {"listener", "late", "backpressure"}

(* start_prepared has bound the socket, and the worker is connected. *)
Init ==
  /\ many \in BOOLEAN
  /\ cancelled = FALSE /\ failure = None
  /\ server = "serving" /\ conn = "open" /\ worker = "ready" /\ polled = FALSE
  /\ lease = None /\ live = FALSE
  /\ task = [c \in Call |-> "none"] /\ outcome = [c \in Call |-> None]
  /\ result = None
  /\ call = [c \in Call |-> "new"]
  /\ cron = "ticking" /\ owner = "up" /\ socket = TRUE
  /\ faults = {}

-----------------------------------------------------------------------------
(* McpTaskEndpoint::handle_dispatch. *)

Queued == {c \in Call : task[c] = "queued"}
Full == Cardinality(Queued) >= Capacity

call_tool(c) ==
  /\ call[c] = "new"
  /\ IF Full
     THEN call' = [call EXCEPT ![c] = "refused"] /\ UNCHANGED task
     ELSE /\ call' = [call EXCEPT ![c] = "waiting"]
          /\ task' = [task EXCEPT ![c] = "queued"]
  /\ UNCHANGED <<plane, lease, live, outcome, result, faults>>

(* wait_for_outcome finds the outcome. *)
answer(c) ==
  /\ call[c] = "waiting"
  /\ outcome[c] # None
  /\ call' = [call EXCEPT ![c] = outcome[c]]
  /\ UNCHANGED <<plane, work, faults>>

(* Its timeout passes first. *)
give_up(c) ==
  /\ call[c] = "waiting"
  /\ call' = [call EXCEPT ![c] = "gave_up"]
  /\ UNCHANGED <<plane, work, faults>>

-----------------------------------------------------------------------------
(* The worker's requests.  The queue's order is the scheduler's affair. *)

(* run_worker's select is biased: a poll looks at the flag, then polls     *)
(* run_once.  Other threads may set the flag, and even close the           *)
(* connection, between the two; on a single thread they cannot.            *)
look ==
  /\ ~polled /\ ~cancelled
  /\ worker \notin {"stopped", "failed"}
  /\ polled' = TRUE
  /\ UNCHANGED <<many, cancelled, failure, server, conn, worker, cron, owner, socket, work, call,
                 faults>>

rest ==
  /\ polled
  /\ polled' = FALSE
  /\ UNCHANGED <<many, cancelled, failure, server, conn, worker, cron, owner, socket, work, call,
                 faults>>

RunOnce == polled /\ (many \/ ~cancelled)

(* run_once asks for one task. *)
claim ==
  /\ RunOnce
  /\ worker = "ready"
  /\ worker' = "claiming"
  /\ conn' = IF conn = "open" THEN "claim" ELSE conn
  /\ UNCHANGED <<many, polled, cancelled, failure, server, cron, owner, socket, work, call,
                 faults>>

(* The broker times overdue tasks out, and leases one of the others if     *)
(* there is one.  The worker may have gone meanwhile.                      *)
serve_claim ==
  /\ conn = "claim"
  /\ conn' = "open"
  /\ \E overdue \in SUBSET Queued :
       LET ended == [c \in Call |-> IF c \in overdue THEN "ended" ELSE task[c]]
       IN \/ \E c \in Queued \ overdue :
               /\ lease' = c /\ live' = TRUE
               /\ task' = [ended EXCEPT ![c] = "running"]
               /\ worker' = IF worker = "claiming" THEN "running" ELSE worker
          \/ /\ Queued = overdue
             /\ task' = ended
             /\ worker' = IF worker = "claiming" THEN "ready" ELSE worker
             /\ UNCHANGED <<lease, live>>
  /\ UNCHANGED <<many, polled, cancelled, failure, server, cron, owner, socket, outcome, result,
                 call, faults>>

(* execute_module_lease: the handler returns, fails, is interrupted or     *)
(* suspends; a panic of its thread is a retryable failure.                 *)
execute(r) ==
  /\ RunOnce
  /\ worker = "running"
  /\ worker' = "committing"
  /\ result' = r
  /\ conn' = IF conn = "open" THEN "commit" ELSE conn
  /\ UNCHANGED <<many, polled, cancelled, failure, server, cron, owner, socket, lease, live, task,
                 outcome, call, faults>>

(* The handler takes longer than its lease. *)
lapse ==
  /\ lease # None /\ live
  /\ live' = FALSE
  /\ faults' = faults \cup {"late"}
  /\ UNCHANGED <<plane, lease, task, outcome, result, call>>

(* TaskRpcBroker::commit.  A retryable failure of an overdue task ends it, *)
(* of another one needs a place in the queue.                              *)
Committed(next, shown) ==
  /\ live
  /\ task' = [task EXCEPT ![lease] = next]
  /\ outcome' = [outcome EXCEPT ![lease] = shown]
  /\ lease' = None /\ live' = FALSE
  /\ worker' = IF worker = "committing" THEN "ready" ELSE worker
  /\ UNCHANGED faults

NotAccepted ==
  /\ ~live \/ (result = "retryable" /\ Full)
  /\ faults' = IF live THEN faults \cup {"backpressure"} ELSE faults
  /\ worker' = IF worker = "committing" THEN "lost" ELSE worker
  /\ UNCHANGED <<task, outcome, lease, live>>

(* A mutant that keeps every outcome it is told. *)
serve_commit_keeps_all ==
  /\ conn = "commit"
  /\ conn' = "open"
  /\ result' = None
  /\ \/ result \in Terminal /\ Committed("ended", result)
     \/ result = "suspended" /\ Committed("suspended", result)
     \/ result = "retryable" /\ ~Full /\ Committed("queued", "failed")
     \/ NotAccepted
  /\ UNCHANGED <<many, polled, cancelled, failure, server, cron, owner, socket, call>>

serve_commit ==
  /\ conn = "commit"
  /\ conn' = "open"
  /\ result' = None
  /\ \/ result \in Terminal /\ Committed("ended", result)
     \/ result = "suspended" /\ Committed("suspended", None)
     \/ result = "retryable" /\ Committed("ended", "timed_out")
     \/ result = "retryable" /\ ~Full /\ Committed("queued", None)
     \/ NotAccepted
  /\ UNCHANGED <<many, polled, cancelled, failure, server, cron, owner, socket, call>>

-----------------------------------------------------------------------------
(* The loops and how they end. *)

(* run_worker returns: well for the flag, with an error for what run_once  *)
(* returned.  The mutant polls run_once without a look at the flag.        *)
worker_stops ==
  /\ worker \notin {"stopped", "failed"}
  /\ cancelled /\ ~polled
  /\ worker' = "stopped"
  /\ UNCHANGED <<many, cancelled, failure, server, conn, polled, cron, owner, socket, work, call,
                 faults>>

worker_fails_unbiased ==
  /\ worker = "lost" \/ (conn = "closed" /\ worker \in {"claiming", "committing"})
  /\ worker' = "failed" /\ failure' = "worker" /\ cancelled' = TRUE
  /\ polled' = FALSE
  /\ UNCHANGED <<many, server, conn, cron, owner, socket, work, call, faults>>

worker_fails ==
  /\ RunOnce
  /\ worker = "lost" \/ (conn = "closed" /\ worker \in {"claiming", "committing"})
  /\ worker' = "failed" /\ failure' = "worker" /\ cancelled' = TRUE
  /\ polled' = FALSE
  /\ UNCHANGED <<many, server, conn, cron, owner, socket, work, call, faults>>

(* run_cron. *)
cron_ends ==
  /\ cron = "ticking" /\ cancelled
  /\ cron' = "stopped"
  /\ UNCHANGED <<many, polled, cancelled, failure, server, conn, worker, owner, socket, work,
                 call, faults>>

(* serve_task_rpc_unix leaves its loop: for the flag, or for an error,     *)
(* which sets the flag before the connections are joined.                  *)
server_drains ==
  /\ server = "serving" /\ cancelled
  /\ server' = "draining"
  /\ UNCHANGED <<many, polled, cancelled, failure, conn, worker, cron, owner, socket, work,
                 call, faults>>

listener_error ==
  /\ server = "serving"
  /\ server' = "failing"
  /\ cancelled' = TRUE
  /\ faults' = faults \cup {"listener"}
  /\ UNCHANGED <<many, polled, failure, conn, worker, cron, owner, socket, work, call>>

(* serve_task_rpc_connection ends, for the flag or because the worker has  *)
(* gone, and gives the worker's task back.  The mutant forgets to.         *)
connection_ends_keeping ==
  /\ conn # "closed"
  /\ cancelled \/ worker \in {"stopped", "failed"}
  /\ conn' = "closed"
  /\ UNCHANGED <<many, polled, work, cancelled, failure, server, worker, cron, owner, socket,
                 call, faults>>

connection_ends ==
  /\ conn # "closed"
  /\ cancelled \/ worker \in {"stopped", "failed"}
  /\ conn' = "closed"
  /\ \/ lease = None /\ UNCHANGED <<lease, live, task>>
     \/ /\ lease # None
        /\ \/ task' = [task EXCEPT ![lease] = "ended"]
           \/ ~Full /\ task' = [task EXCEPT ![lease] = "queued"]
        /\ lease' = None /\ live' = FALSE
     \/ lease # None /\ Full /\ UNCHANGED <<lease, live, task>>
  /\ UNCHANGED <<many, polled, cancelled, failure, server, worker, cron, owner, socket,
                 outcome, result,
                 call, faults>>

(* The server's task ends; an error is published then.  The mutant's error *)
(* is only returned.                                                       *)
server_ends_silently ==
  /\ server \in {"draining", "failing"}
  /\ conn = "closed"
  /\ server' = IF server = "failing" THEN "failed" ELSE "stopped"
  /\ UNCHANGED <<many, polled, failure, cancelled, conn, worker, cron, owner, socket, work,
                 call, faults>>

server_ends ==
  /\ server \in {"draining", "failing"}
  /\ conn = "closed"
  /\ IF server = "failing"
     THEN server' = "failed" /\ failure' = "server" /\ cancelled' = TRUE
     ELSE server' = "stopped" /\ UNCHANGED <<failure, cancelled>>
  /\ UNCHANGED <<many, polled, conn, worker, cron, owner, socket, work, call, faults>>

(* The owner: it may shut the plane down at any time, does so when failed  *)
(* resolves, or drops it.                                                  *)
shutdown ==
  /\ owner = "up"
  /\ owner' = "joining" /\ cancelled' = TRUE
  /\ UNCHANGED <<many, polled, failure, server, conn, worker, cron, socket, work, call, faults>>

failed == failure # None /\ shutdown

drop ==
  /\ owner = "up"
  /\ owner' = "dropped" /\ cancelled' = TRUE /\ socket' = FALSE
  /\ UNCHANGED <<many, polled, failure, server, conn, worker, cron, work, call, faults>>

Ended ==
  server \in {"stopped", "failed"} /\ worker \in {"stopped", "failed"} /\ cron = "stopped"

joined ==
  /\ owner = "joining"
  /\ Ended
  /\ owner' = IF "failed" \in {server, worker} THEN "error" ELSE "ok"
  /\ socket' = FALSE
  /\ UNCHANGED <<many, polled, cancelled, failure, server, conn, worker, cron, work, call,
                 faults>>

Plane ==
  \/ serve_claim \/ serve_commit \/ worker_stops \/ worker_fails \/ cron_ends \/ server_drains
  \/ connection_ends \/ server_ends \/ joined

Next ==
  \/ \E c \in Call : call_tool(c) \/ answer(c) \/ give_up(c)
  \/ look \/ rest \/ claim \/ (\E r \in Result : execute(r)) \/ lapse
  \/ Plane
  \/ listener_error \/ shutdown \/ failed \/ drop

Spec == Init /\ [][Next]_vars

(* Every part of the plane that can go on does, and the owner reacts to a  *)
(* failure; nothing makes clients call or handlers end.                    *)
FairSpec ==
  /\ Spec
  /\ WF_vars(server_drains) /\ WF_vars(connection_ends) /\ WF_vars(server_ends)
  /\ WF_vars(rest) /\ WF_vars(worker_stops) /\ WF_vars(cron_ends)
  /\ WF_vars(joined) /\ WF_vars(failed)

-----------------------------------------------------------------------------
(* On one thread a part of the plane fails only because of a fault: the    *)
(* listener's for the server, a late or refused commit for the worker.  In *)
(* particular a requested shutdown, which closes the connection under the  *)
(* worker's request, is never reported as a failure.                       *)
FailuresHaveCauses ==
  /\ server = "failed" => "listener" \in faults
  /\ worker = "failed" /\ ~many => faults \cap {"late", "backpressure"} # {}

(* What the service's tests say of shutdown, service.shutdown().await      *)
(* .unwrap(): without a fault it succeeds.  With several threads it need   *)
(* not: the poll that began before the flag was set may find the           *)
(* connection closed.                                                      *)
ShutdownIsClean == owner = "error" => faults # {}

(* When the worker's connection has ended, its task is queued again or     *)
(* ended, unless the queue had no room for it: run_worker drops run_once   *)
(* in the middle of whatever it did.                                       *)
NoTaskHeld == \A c \in Call : (conn = "closed" /\ task[c] = "running") => Full

(* An MCP call that is answered with an outcome shows the outcome that the *)
(* broker keeps for the task, and the task has ended.                      *)
AnswersAreFinal ==
  \A c \in Call : call[c] \in Terminal => outcome[c] = call[c] /\ task[c] = "ended"

(* Once the flag is set, by whomever, every loop ends and the owner learns *)
(* of it: shutdown returns and the socket file is gone.  A failure that is *)
(* not published would leave the owner serving without a task plane.       *)
PlaneStops ==
  cancelled ~> Ended /\ ~socket /\ owner \in {"ok", "error", "dropped"}
=============================================================================
