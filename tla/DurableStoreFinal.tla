------------------------- MODULE DurableStoreFinal --------------------------
(* What completion leaves behind, for every value of the constants.           *)
EXTENDS DurableStoreTypes

USE DEF Time, Token, Until

(* Every step keeps completed tasks at rest.                                  *)
LEMMA QuiescentStep ==
  ASSUME TypeOK, CompletedIsQuiescent, [Next]_vars
  PROVE  CompletedIsQuiescent'
<1> USE DEF catalog, signals, runs
<1>1. CASE Tick
  BY <1>1 DEF Tick, CompletedIsQuiescent
<1>2. ASSUME NEW t \in Task, NEW s \in Source, put_program(t, s)
      PROVE  CompletedIsQuiescent'
  BY <1>2, NullAssumption DEF put_program, ensure_open, TypeOK, CompletedIsQuiescent
<1>3. ASSUME NEW t \in Task, NEW s \in Source, admit(t, s)
      PROVE  CompletedIsQuiescent'
  BY <1>3, NullAssumption
     DEF admit, insert_event, ensure_open, TypeOK, CompletedIsQuiescent
<1>4. ASSUME NEW t \in Task, remove_program(t)
      PROVE  CompletedIsQuiescent'
  BY <1>4 DEF remove_program, ensure_open, TypeOK, CompletedIsQuiescent
<1>5. ASSUME NEW t \in Task, claim_run(t)
      PROVE  CompletedIsQuiescent'
  <2>1. NewExecution(t).state = "running"
    BY DEF NewExecution
  <2> QED
    BY <1>5, <2>1
       DEF claim_run, Claimable, LeaseWakeup, TypeOK, CompletedIsQuiescent
<1>6. ASSUME NEW c \in claims, NEW failed \in BOOLEAN, release_run(c, failed)
      PROVE  CompletedIsQuiescent'
  <2>1. c.task \in Task /\ c # None
    BY NullRowAssumption DEF TypeOK, ExecutionClaim
  <2>2. exec[c.task] # None /\ exec[c.task].state = "running"
    BY <1>6, <2>1 DEF release_run, guard_execution
  <2>3. completion[c.task] = None
    BY <2>1, <2>2 DEF CompletedIsQuiescent
  <2>4. Ended(exec[c.task], IF failed THEN "failed" ELSE "suspended").state
          \in {"failed", "suspended"}
    BY <2>1, <2>2, Zenon DEF Ended, TypeOK, Execution
  <2> QED
    BY <1>6, <2>1, <2>3, <2>4
       DEF release_run, LeaseWakeup, TypeOK, CompletedIsQuiescent
<1>7. ASSUME NEW before \in CallerClock, prune_completed(before)
      PROVE  CompletedIsQuiescent'
  BY <1>7 DEF prune_completed, CompletedIsQuiescent
<1>8. ASSUME NEW t \in Task, completion[t] = None,
             \A u \in Task \ {t} : history'[u] = history[u] /\ wakeup'[u] = wakeup[u]
                                    /\ wait'[u] = wait[u],
             UNCHANGED <<program, completion, exec>>
      PROVE  CompletedIsQuiescent'
  BY <1>8 DEF CompletedIsQuiescent
<1>9. ASSUME NEW c \in Scope, NEW t \in Task, NEW expected \in Sequence,
             \/ append_event(c, t, expected)
             \/ \E at \in Time : append_event_with_wakeup(c, t, expected, at)
             \/ \E n \in Name : register_signal_wait(c, t, expected, n)
      PROVE  CompletedIsQuiescent'
  BY <1>8, <1>9
     DEF append_event, append_event_with_wakeup, register_signal_wait, insert_event,
         upsert_wakeup, ensure_open, AtSignalBoundary, TypeOK
<1>10. ASSUME NEW c \in Scope, NEW t \in Task, NEW expected \in Sequence,
              NEW n \in Name, NEW now \in CallerClock, NEW wc \in WakeupClaimsOf(c),
              poll_signal(c, t, expected, n, now, wc)
       PROVE  CompletedIsQuiescent'
  <2>1. completion[t] = None
    BY <1>10 DEF poll_signal, insert_event, ensure_open
  <2>2. \A u \in Task \ {t} : history'[u] = history[u] /\ wakeup'[u] = wakeup[u]
                               /\ wait'[u] = wait[u]
    BY <1>10 DEF poll_signal, insert_event, ConsumeWakeup, TypeOK
  <2>3. UNCHANGED <<program, completion, exec>>
    BY <1>10 DEF poll_signal
  <2> QED
    BY <1>8, <2>1, <2>2, <2>3
<1>11. ASSUME NEW t \in Task,
              \/ \E n \in Name, k \in Key \cup {None}, now \in CallerClock :
                   send_signal(t, n, k, now)
              \/ \E seq \in Sequence, at \in Time : schedule_wakeup(t, seq, at)
       PROVE  CompletedIsQuiescent'
  BY <1>8, <1>11 DEF send_signal, schedule_wakeup, upsert_wakeup, ensure_open, TypeOK
<1>12. ASSUME NEW c \in Scope, NEW t \in Task, NEW expected \in Sequence,
              NEW now \in CallerClock, NEW owner \in OwnersOf(c),
              complete_wakeup(c, t, expected, owner, now)
       PROVE  CompletedIsQuiescent'
  BY <1>12 DEF complete_wakeup, TypeOK, CompletedIsQuiescent
<1>13. ASSUME \A t \in Task : wakeup[t] = None => wakeup'[t] = None,
              UNCHANGED <<program, history, wait, completion, exec>>
       PROVE  CompletedIsQuiescent'
  BY <1>13, SMTT(30) DEF CompletedIsQuiescent
<1>14. ASSUME NEW w \in Worker, NEW now \in CallerClock,
              claim_due_wakeups(w, now) \/ \E t \in Task : claim_wakeup(t, w, now)
       PROVE  CompletedIsQuiescent'
  BY <1>13, <1>14
     DEF claim_due_wakeups, claim_wakeup, Batch, DueWakeups, LeaseWakeup, TypeOK
<1>15. ASSUME NEW wc \in wclaims,
              \/ \E now \in CallerClock : renew_wakeup_claim(wc, now)
              \/ release_wakeup_claim(wc)
       PROVE  CompletedIsQuiescent'
  BY <1>13, <1>15 DEF renew_wakeup_claim, release_wakeup_claim, LeaseWakeup, TypeOK
<1>16. ASSUME NEW c \in Scope, NEW t \in Task, NEW expected \in Sequence,
              NEW now \in CallerClock, finish_task(c, t, expected, now)
       PROVE  CompletedIsQuiescent'
  <2>1. completion'[t] = [next |-> expected, by |-> Writer(c),
                          at |-> completion_time(c, now)]
    BY <1>16 DEF finish_task, TypeOK
  <2>2. exec'[t] # None => exec'[t].state = "completed"
    BY <1>16, SMTT(30) DEF finish_task, Ended, TypeOK, Execution
  <2>3. completion'[t] # None
    BY <1>16, <2>1, CompletionIsARow DEF finish_task
  <2>4. \A u \in Task \ {t} : completion'[u] = completion[u] /\ exec'[u] = exec[u]
    BY <1>16, SMTT(30) DEF finish_task, TypeOK
  <2> QED
    <3>1. /\ program[t] # None /\ wakeup[t] = None /\ wait[t] = None
          /\ expected = Len(history[t])
          /\ UNCHANGED <<program, history, wakeup, wait>>
      BY <1>16 DEF finish_task, next_sequence
    <3>2. completion'[t].next = expected
      BY <2>1
    <3> QED
      BY <2>2, <2>3, <2>4, <3>1, <3>2 DEF CompletedIsQuiescent
<1>17. CASE UNCHANGED vars
  BY <1>17 DEF vars, CompletedIsQuiescent
<1> QED
  BY <1>1, <1>2, <1>3, <1>4, <1>5, <1>6, <1>7, <1>9, <1>10, <1>11, <1>12, <1>14,
     <1>15, <1>16, <1>17 DEF Next

(* A completed task stays at rest whatever late calls arrive, for any number of
   tasks and callers.                                                         *)
THEOREM CompletionIsFinal == Spec => []CompletedIsQuiescent
<1>1. Init => CompletedIsQuiescent
  BY DEF Init, CompletedIsQuiescent
<1> QED
  BY <1>1, QuiescentStep, TypeCorrect, PTL DEF Spec
=============================================================================
