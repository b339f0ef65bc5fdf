------------------------- MODULE DurableStoreFence --------------------------
(* The fence of guard_execution, for every value of the constants:            *)
(* WritersInClaimOrder is inductive together with TokensFence.                *)
EXTENDS DurableStoreTypes

USE DEF Time, Token, Until

(* What a task contributes to the fence, as a predicate of its own rows.      *)
TaskFence(t) ==
  /\ born[t] <= nextToken
  /\ \A w \in Writers(t) : w < nextToken
  /\ exec[t] # None /\ exec[t].owner # None =>
       /\ born[t] <= exec[t].owner
       /\ exec[t].owner < nextToken
       /\ \A w \in Writers(t) : w <= exec[t].owner
  /\ \A i, j \in 1 .. Len(history[t]) :
       i < j /\ history[t][j].by # 0 => history[t][i].by <= history[t][j].by
  /\ completion[t] # None /\ completion[t].by # 0 =>
       \A w \in Writers(t) : w <= completion[t].by
  /\ \A w \in Writers(t) : w = 0 \/ w >= born[t]

TokensFresh ==
  /\ \A c \in claims : c.owner < nextToken
  /\ \A c, d \in claims : c.owner = d.owner => c = d

(* The fence is one condition on the claims and one on each task.             *)
LEMMA FenceByTask ==
  TokensFence /\ WritersInClaimOrder <=> TokensFresh /\ \A t \in Task : TaskFence(t)
BY Zenon DEF TokensFence, WritersInClaimOrder, TokensFresh, TaskFence

(* Writers are tokens or 0.                                                  *)
LEMMA WritersTyped ==
  ASSUME TypeOK, NEW t \in Task
  PROVE  Writers(t) \subseteq 0 .. MaxToken
<1>1. \A e \in Event : e.by \in 0 .. MaxToken
  BY DEF Event
<1>2. \A i \in 1 .. Len(history[t]) : history[t][i] \in Event
  <2>1. history[t] \in Seq(Event)
    BY DEF TypeOK
  <2> QED
    BY <2>1
<1>3. completion[t] # None => completion[t].by \in 0 .. MaxToken
  BY DEF TypeOK, Completion
<1> QED
  BY <1>1, <1>2, <1>3 DEF Writers

(* A step that writes no record of the task, and at most clears the owner of its
   execution, keeps its part of the fence.                                   *)
LEMMA NoRecordWritten ==
  ASSUME NEW t \in Task, TypeOK, TaskFence(t), nextToken' \in Nat,
         nextToken' >= nextToken,
         history'[t] = history[t], completion'[t] = completion[t],
         exec'[t] = exec[t] \/ exec'[t].owner = None, born'[t] = born[t]
  PROVE  TaskFence(t)'
<1>1. Writers(t)' = Writers(t)
  BY DEF Writers
<1>2. \A w \in Writers(t) : w \in Nat
  BY WritersTyped, BoundsAssumption
<1>3. nextToken \in Nat /\ born[t] \in Nat
  BY BoundsAssumption DEF TypeOK
<1>4. exec[t] # None /\ exec[t].owner # None => exec[t].owner \in Nat
  BY BoundsAssumption DEF TypeOK, Execution
<1> QED
  BY <1>1, <1>2, <1>3, <1>4 DEF TaskFence

(* A writer that passes the guard is no older than any earlier writer.       *)
LEMMA GuardedWriter ==
  ASSUME NEW t \in Task, TypeOK, TaskFence(t), NEW c \in claims \cup {None},
         guard_execution(c, t)
  PROVE  /\ Writer(c) \in Nat
         /\ Writer(c) < nextToken
         /\ Writer(c) # 0 =>
              /\ exec[t] # None
              /\ Writer(c) = exec[t].owner
              /\ Writer(c) >= born[t]
              /\ \A w \in Writers(t) : w <= Writer(c)
<1>1. CASE c = None
  BY <1>1 DEF Writer, TypeOK
<1>2. CASE c # None
  <2>1. c.owner \in Token
    BY <1>2 DEF TypeOK, ExecutionClaim
  <2>2. exec[t] # None /\ exec[t].owner = c.owner
    BY <1>2 DEF guard_execution
  <2>3. exec[t].owner # None
    BY <2>1, <2>2, NullAssumption
  <2> QED
    BY <1>2, <2>1, <2>2, <2>3 DEF Writer, TaskFence
<1> QED
  BY <1>1, <1>2

(* Appending an event of a guarded writer keeps the fence of the task.       *)
LEMMA GuardedAppend ==
  ASSUME NEW t \in Task, TypeOK, TaskFence(t), NEW c \in claims \cup {None},
         guard_execution(c, t), NEW e \in Event, e.by = Writer(c),
         completion[t] = None, history'[t] = Append(history[t], e),
         completion'[t] = None, born'[t] = born[t], nextToken' = nextToken,
         exec'[t] = exec[t] \/ exec'[t].owner = None
  PROVE  TaskFence(t)'
<1> DEFINE n == Len(history[t])
<1>1. /\ history[t] \in Seq(Event)
      /\ n \in Nat
      /\ Len(history'[t]) = n + 1
      /\ \A i \in 1 .. n : history'[t][i] = history[t][i]
      /\ history'[t][n + 1] = e
  BY DEF TypeOK
<1>2. Writers(t)' = Writers(t) \cup {e.by}
  BY <1>1 DEF Writers
<1>3. \A i \in 1 .. n : history[t][i].by \in Writers(t)
  BY DEF Writers
<1>4. \A i, j \in 1 .. n + 1 :
        i < j /\ history'[t][j].by # 0 => history'[t][i].by <= history'[t][j].by
  <2> SUFFICES ASSUME NEW i \in 1 .. n + 1, NEW j \in 1 .. n + 1,
                      i < j, history'[t][j].by # 0
               PROVE  history'[t][i].by <= history'[t][j].by
    OBVIOUS
  <2>1. CASE j \in 1 .. n
    BY <1>1, <2>1 DEF TaskFence
  <2>2. CASE j = n + 1
    BY <1>1, <1>3, <2>2, GuardedWriter
  <2> QED
    BY <1>1, <2>1, <2>2
<1> HIDE DEF n
<1>5. \A w \in Writers(t)' :
         w < nextToken' /\ (w = 0 \/ w >= born[t])
           /\ (exec[t] # None /\ exec[t].owner # None => w <= exec[t].owner)
  <2>1. \A w \in Writers(t) :
          w < nextToken /\ (w = 0 \/ w >= born[t])
            /\ (exec[t] # None /\ exec[t].owner # None => w <= exec[t].owner)
    BY DEF TaskFence
  <2>2. exec[t] # None /\ exec[t].owner # None => exec[t].owner \in Token
    BY DEF TypeOK, Execution
  <2>3. e.by < nextToken /\ (e.by = 0 \/ e.by >= born[t])
          /\ (exec[t] # None /\ exec[t].owner # None => e.by <= exec[t].owner)
    BY <2>2, GuardedWriter
  <2> QED
    BY <1>2, <2>1, <2>3
<1> QED
  BY <1>1, <1>4, <1>5 DEF TaskFence, TypeOK

(* The records and claims that the fence is about.                            *)
fenced == <<history, completion, born, runs>>

(* Every step keeps the fence.  Six actions write records or move leases; the
   others leave all of `fenced` alone.                                        *)
LEMMA FenceStep ==
  ASSUME TypeOK, TypeOK', TokensFresh, \A t \in Task : TaskFence(t), [Next]_vars
  PROVE  TokensFresh' /\ (\A t \in Task : TaskFence(t)')
<1> USE DEF catalog, signals, runs, fenced
<1>0. nextToken \in Nat /\ nextToken' \in Nat
  BY BoundsAssumption DEF TypeOK
<1>1. ASSUME UNCHANGED fenced
      PROVE  TokensFresh' /\ (\A t \in Task : TaskFence(t)')
  BY <1>0, <1>1, NoRecordWritten DEF TokensFresh
<1>2. ASSUME NEW t \in Task, NEW s \in Source, admit(t, s)
      PROVE  TokensFresh' /\ (\A u \in Task : TaskFence(u)')
  <2>1. TaskFence(t)'
    <3>1. [kind |-> "step", by |-> 0] \in Event
      BY BoundsAssumption DEF Event
    <3>2. guard_execution(None, t) /\ Writer(None) = 0
      BY DEF guard_execution, Writer
    <3>3. /\ completion[t] = None /\ completion'[t] = None
          /\ history'[t] = Append(history[t], [kind |-> "step", by |-> 0])
          /\ exec'[t].owner = None
          /\ born'[t] = born[t] /\ nextToken' = nextToken
      BY <1>2 DEF admit, insert_event, ensure_open, TypeOK
    <3> QED
      BY <3>1, <3>2, <3>3, GuardedAppend
  <2>2. ASSUME NEW u \in Task, u # t PROVE TaskFence(u)'
    <3>1. /\ history'[u] = history[u] /\ completion'[u] = completion[u]
          /\ exec'[u] = exec[u] /\ born'[u] = born[u]
          /\ nextToken' >= nextToken
      BY <1>0, <1>2, <2>2 DEF admit, insert_event, TypeOK
    <3> QED
      BY <1>0, <3>1, NoRecordWritten
  <2> QED
    BY <1>2, <2>1, <2>2 DEF admit, TokensFresh
<1>3. ASSUME NEW t \in Task, claim_run(t)
      PROVE  TokensFresh' /\ (\A u \in Task : TaskFence(u)')
  <2>1. TaskFence(t)'
    <3>1. Writers(t)' = Writers(t)
      BY <1>3 DEF claim_run, Writers
    <3>2. exec'[t].owner = nextToken /\ nextToken' = nextToken + 1
      BY <1>3 DEF claim_run, NewExecution, TypeOK
    <3> QED
      <4>1. UNCHANGED <<history, completion, born>>
        BY <1>3 DEF claim_run
      <4>2. born[t] \in Nat /\ \A w \in Writers(t) : w \in Nat
        BY WritersTyped, BoundsAssumption DEF TypeOK
      <4> QED
        BY <1>0, <3>1, <3>2, <4>1, <4>2 DEF TaskFence
  <2>2. ASSUME NEW u \in Task, u # t PROVE TaskFence(u)'
    <3>1. /\ history'[u] = history[u] /\ completion'[u] = completion[u]
          /\ exec'[u] = exec[u] /\ born'[u] = born[u]
          /\ nextToken' >= nextToken
      BY <1>0, <1>3, <2>2 DEF claim_run, TypeOK
    <3> QED
      BY <1>0, <3>1, NoRecordWritten
  <2>3. TokensFresh'
    <3>1. NewClaim(t).owner = nextToken
      BY DEF NewClaim
    <3>2. \A c \in claims : c.owner \in Nat
      BY DEF TypeOK, ExecutionClaim
    <3> QED
      BY <1>0, <1>3, <3>1, <3>2 DEF claim_run, TokensFresh
  <2> QED
    BY <2>1, <2>2, <2>3
<1>4. ASSUME NEW c \in claims, NEW failed \in BOOLEAN, release_run(c, failed)
      PROVE  TokensFresh' /\ (\A u \in Task : TaskFence(u)')
  <2>1. c.task \in Task
    BY DEF TypeOK, ExecutionClaim
  <2>2. c # None
    BY NullRowAssumption DEF TypeOK
  <2>3. exec[c.task] \in Execution
    BY <1>4, <2>1, <2>2 DEF release_run, guard_execution, TypeOK
  <2>4. exec'[c.task].owner = None
    BY <1>4, <2>1, <2>3, Zenon DEF release_run, Ended, TypeOK, Execution
  <2>5. ASSUME NEW u \in Task PROVE TaskFence(u)'
    <3>1. /\ history'[u] = history[u] /\ completion'[u] = completion[u]
          /\ born'[u] = born[u] /\ nextToken' >= nextToken
          /\ exec'[u] = exec[u] \/ exec'[u].owner = None
      BY <1>0, <1>4, <2>4, SMTT(30) DEF release_run, TypeOK
    <3> QED
      BY <1>0, <3>1, NoRecordWritten
  <2> QED
    BY <1>4, <2>5 DEF release_run, TokensFresh
<1>5. ASSUME NEW before \in CallerClock, prune_completed(before)
      PROVE  TokensFresh' /\ (\A u \in Task : TaskFence(u)')
  <2>1. PICK erased \in SUBSET Task :
          /\ history' = [t \in Task |-> IF t \in erased THEN <<>> ELSE history[t]]
          /\ completion' = [t \in Task |-> IF t \in erased THEN None
                                           ELSE completion[t]]
          /\ exec' = [t \in Task |-> IF t \in erased THEN None ELSE exec[t]]
          /\ born' = [t \in Task |-> IF t \in erased THEN nextToken ELSE born[t]]
    BY <1>5, Zenon DEF prune_completed, Batch
  <2>2. ASSUME NEW u \in erased PROVE TaskFence(u)'
    <3>1. Writers(u)' = {}
      BY <2>1, <2>2 DEF Writers
    <3> QED
      BY <1>0, <1>5, <2>1, <2>2, <3>1, SMTT(30) DEF TaskFence, prune_completed
  <2>3. ASSUME NEW u \in Task \ erased PROVE TaskFence(u)'
    BY <1>0, <1>5, <2>1, <2>3, NoRecordWritten DEF prune_completed
  <2> QED
    BY <1>5, <2>2, <2>3, SMTT(30) DEF prune_completed, TokensFresh
<1>6. ASSUME NEW c \in Scope, NEW t \in Task, NEW expected, NEW e \in Event,
             guard_execution(c, t), e.by = Writer(c), insert_event(t, expected, e),
             UNCHANGED <<completion, born, runs>>
      PROVE  TokensFresh' /\ (\A u \in Task : TaskFence(u)')
  <2>1. TaskFence(t)'
    <3>1. c \in claims \cup {None}
      BY ScopeTyped
    <3>2. /\ completion[t] = None
          /\ history'[t] = Append(history[t], e)
      BY <1>6, SMTT(30) DEF insert_event, ensure_open, TypeOK
    <3> QED
      BY <1>6, <3>1, <3>2, GuardedAppend
  <2>2. ASSUME NEW u \in Task, u # t PROVE TaskFence(u)'
    <3>1. /\ history'[u] = history[u] /\ completion'[u] = completion[u]
          /\ exec'[u] = exec[u] /\ born'[u] = born[u]
          /\ nextToken' >= nextToken
      BY <1>0, <1>6, <2>2 DEF insert_event, TypeOK
    <3> QED
      BY <1>0, <3>1, NoRecordWritten
  <2> QED
    BY <1>6, <2>1, <2>2 DEF TokensFresh
<1>7. ASSUME NEW c \in Scope, NEW t \in Task, NEW expected \in Sequence,
             append_event(c, t, expected)
      PROVE  TokensFresh' /\ (\A u \in Task : TaskFence(u)')
  <2>1. [kind |-> "step", by |-> Writer(c)] \in Event
    BY ScopeTyped, SMTT(30) DEF Event
  <2> QED
    BY <1>6, <1>7, <2>1 DEF append_event
<1>8. ASSUME NEW c \in Scope, NEW t \in Task, NEW expected \in Sequence,
             NEW at \in Time, append_event_with_wakeup(c, t, expected, at)
      PROVE  TokensFresh' /\ (\A u \in Task : TaskFence(u)')
  <2>1. [kind |-> "sleep", by |-> Writer(c)] \in Event
    BY ScopeTyped, SMTT(30) DEF Event
  <2> QED
    BY <1>6, <1>8, <2>1 DEF append_event_with_wakeup
<1>9. ASSUME NEW c \in Scope, NEW t \in Task, NEW expected \in Sequence,
             NEW n \in Name, NEW now \in CallerClock, NEW wc \in WakeupClaimsOf(c),
             poll_signal(c, t, expected, n, now, wc)
      PROVE  TokensFresh' /\ (\A u \in Task : TaskFence(u)')
  <2>1. PICK row \in Oldest(Queued(t, n)) :
          insert_event(t, expected, [kind |-> "signal", by |-> Writer(c), row |-> row])
    BY <1>9 DEF poll_signal
  <2>2. [kind |-> "signal", by |-> Writer(c), row |-> row] \in Event
    BY ScopeTyped, Zenon DEF Event, Oldest, Queued, TypeOK
  <2>3. guard_execution(c, t) /\ UNCHANGED <<completion, born, runs>>
    BY <1>9, SMTT(30) DEF poll_signal, AtSignalBoundary
  <2> QED
    BY <1>6, <2>1, <2>2, <2>3
<1>10. ASSUME NEW c \in Scope, NEW t \in Task, NEW expected \in Sequence,
              NEW now \in CallerClock, finish_task(c, t, expected, now)
       PROVE  TokensFresh' /\ (\A u \in Task : TaskFence(u)')
  <2>1. TaskFence(t)'
    <3>1. /\ completion[t] = None
          /\ completion'[t] # None
          /\ completion'[t].by = Writer(c)
      <4>1. completion'[t] = [next |-> expected, by |-> Writer(c),
                              at |-> completion_time(c, now)]
        BY <1>10, SMTT(30) DEF finish_task, TypeOK
      <4> QED
        BY <1>10, <4>1, CompletionIsARow, SMTT(30) DEF finish_task
    <3>2. Writers(t)' = Writers(t) \cup {Writer(c)}
      BY <1>10, <3>1 DEF Writers, finish_task
    <3>3. exec'[t] = None \/ exec'[t].owner = None
      BY <1>10 DEF finish_task, Ended, TypeOK, Execution
    <3>4. c \in claims \cup {None} /\ guard_execution(c, t)
      BY <1>10, ScopeTyped, SMTT(30) DEF finish_task
    <3>5. \A w \in Writers(t)' : /\ w < nextToken /\ (w = 0 \/ w >= born[t])
                                 /\ Writer(c) # 0 => w <= Writer(c)
      BY <3>2, <3>4, GuardedWriter DEF TaskFence
    <3> QED
      BY <1>10, <3>1, <3>3, <3>5, SMTT(30) DEF TaskFence, finish_task
  <2>2. ASSUME NEW u \in Task, u # t PROVE TaskFence(u)'
    <3>1. /\ history'[u] = history[u] /\ completion'[u] = completion[u]
          /\ exec'[u] = exec[u] /\ born'[u] = born[u]
          /\ nextToken' >= nextToken
      <4>1. /\ completion \in [Task -> Completion \cup {None}]
            /\ exec \in [Task -> Execution \cup {None}]
        BY Zenon DEF TypeOK
      <4> QED
        BY <1>0, <1>10, <2>2, <4>1 DEF finish_task
    <3> QED
      BY <1>0, <3>1, NoRecordWritten, SMTT(30)
  <2> QED
    BY <1>10, <2>1, <2>2, SMTT(30) DEF finish_task, TokensFresh
<1>11. CASE UNCHANGED vars
  BY <1>1, <1>11 DEF vars
<1>12. CASE Tick
  BY <1>1, <1>12, SMTT(30) DEF Tick
<1>13. ASSUME NEW t \in Task,
              \/ \E s \in Source : put_program(t, s)
              \/ remove_program(t)
              \/ \E n \in Name, k \in Key \cup {None}, now \in CallerClock :
                   send_signal(t, n, k, now)
              \/ \E seq \in Sequence, at \in Time : schedule_wakeup(t, seq, at)
       PROVE  UNCHANGED fenced
  BY <1>13, SMTT(30) DEF put_program, remove_program, send_signal, schedule_wakeup
<1>14. ASSUME NEW c \in Scope, NEW t \in Task, NEW expected \in Sequence,
              \/ \E now \in CallerClock, owner \in OwnersOf(c) :
                   complete_wakeup(c, t, expected, owner, now)
              \/ \E n \in Name : register_signal_wait(c, t, expected, n)
       PROVE  UNCHANGED fenced
  BY <1>14 DEF complete_wakeup, register_signal_wait
<1>15. ASSUME NEW w \in Worker, NEW now \in CallerClock,
              claim_due_wakeups(w, now) \/ \E t \in Task : claim_wakeup(t, w, now)
       PROVE  UNCHANGED fenced
  BY <1>15, Zenon DEF claim_due_wakeups, claim_wakeup
<1>16. ASSUME NEW wc \in wclaims,
              \/ \E now \in CallerClock : renew_wakeup_claim(wc, now)
              \/ release_wakeup_claim(wc)
       PROVE  UNCHANGED fenced
  BY <1>16 DEF renew_wakeup_claim, release_wakeup_claim
<1> HIDE DEF fenced
<1> QED
  BY <1>1, <1>2, <1>3, <1>4, <1>5, <1>7, <1>8, <1>9, <1>10, <1>11, <1>12, <1>13,
     <1>14, <1>15, <1>16 DEF Next

(* The inductive invariant behind the two theorems that follow.               *)
LEMMA FenceInvariant == Spec => [](TypeOK /\ TokensFence /\ WritersInClaimOrder)
<1>1. Init => TokensFresh /\ \A t \in Task : TaskFence(t)
  BY BoundsAssumption DEF Init, TokensFresh, TaskFence, Writers
<1>2. TypeOK /\ TypeOK' /\ TokensFence /\ WritersInClaimOrder /\ [Next]_vars
        => TokensFence' /\ WritersInClaimOrder'
  <2> SUFFICES ASSUME TypeOK, TypeOK', TokensFence /\ WritersInClaimOrder, [Next]_vars
               PROVE  TokensFence' /\ WritersInClaimOrder'
    OBVIOUS
  <2>1. TokensFresh' /\ (\A t \in Task : TaskFence(t)')
    BY FenceByTask, FenceStep
  <2>2. (TokensFence /\ WritersInClaimOrder
           <=> TokensFresh /\ \A t \in Task : TaskFence(t))'
    BY FenceByTask, PTL
  <2> QED
    BY <2>1, <2>2
<1>3. Init => TokensFence /\ WritersInClaimOrder
  BY <1>1, FenceByTask
<1> QED
  BY <1>2, <1>3, TypeCorrect, PTL DEF Spec

(* The fence of guard_execution, for any number of tasks, claims and events:
   records are written in the order the claims were issued.                   *)
THEOREM WritersAreFenced == Spec => []WritersInClaimOrder
BY FenceInvariant, PTL

(* Of all the claims ever issued for a task at most one passes guard_execution,
   for any number of runners that keep using their claims for any time.       *)
THEOREM OneRunner == Spec => []SingleRunner
<1>1. TypeOK /\ TokensFence => SingleRunner
  <2> SUFFICES ASSUME TypeOK, TokensFence, NEW c \in claims, NEW d \in claims,
                      c.task = d.task, guard_execution(c, c.task),
                      guard_execution(d, d.task)
               PROVE  c = d
    BY DEF SingleRunner
  <2>1. c # None /\ d # None
    BY NullRowAssumption DEF TypeOK
  <2>2. c.owner = d.owner
    BY <2>1 DEF guard_execution
  <2> QED
    BY <2>2 DEF TokensFence
<1> QED
  BY <1>1, FenceInvariant, PTL
=============================================================================
