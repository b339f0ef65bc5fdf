------------------------- MODULE DurableStoreTypes --------------------------
(* Type correctness of DurableStore, for every value of its constants.         *)
EXTENDS DurableStore, TLAPS

USE DEF Time, Token, Until

(* The clock a caller passes is in range.                                  *)
LEMMA CallerClockInTime ==
  ASSUME TypeOK
  PROVE  CallerClock \subseteq Time
BY BoundsAssumption DEF TypeOK, CallerClock

(* A scope is an issued claim or the unscoped store.                       *)
LEMMA ScopeTyped ==
  ASSUME TypeOK, NEW c \in Scope
  PROVE  /\ c \in claims \cup {None}
         /\ Writer(c) \in 0 .. MaxToken
BY BoundsAssumption DEF TypeOK, Scope, Writer, ExecutionClaim

(* A wakeup claim that a caller can present is typed.                      *)
LEMMA WakeupClaimTyped ==
  ASSUME TypeOK, NEW c \in Scope, NEW wc \in WakeupClaimsOf(c)
  PROVE  wc \in WakeupClaim \cup {None}
BY ScopeTyped DEF TypeOK, WakeupClaimsOf, ExecutionClaim

(* Appending one event keeps the histories typed.                          *)
LEMMA InsertEventTyped ==
  ASSUME TypeOK, NEW t \in Task, NEW expected, NEW e \in Event,
         insert_event(t, expected, e)
  PROVE  history' \in [Task -> Seq(Event)]
BY DEF TypeOK, insert_event

(* Replacing the lease of a timer keeps the timer rows typed.              *)
LEMMA LeaseWakeupTyped ==
  ASSUME TypeOK, NEW t \in Task,
         NEW owner \in Worker \cup Token \cup {None}, NEW until \in Until \cup {None}
  PROVE  LeaseWakeup(t, owner, until) \in [Task -> Wakeup \cup {None}]
<1>1. ASSUME NEW row \in Wakeup PROVE Leased(row, owner, until) \in Wakeup
  BY Zenon DEF Leased, Wakeup
<1> QED
  BY <1>1 DEF LeaseWakeup, TypeOK

(* Ending a run keeps its execution row typed.                             *)
LEMMA EndedTyped ==
  ASSUME NEW row \in Execution,
         NEW state \in {"suspended", "failed", "completed"}
  PROVE  Ended(row, state) \in Execution
BY Zenon DEF Ended, Execution

(* Setting a timer keeps the timer rows typed.                             *)
LEMMA UpsertWakeupTyped ==
  ASSUME TypeOK, NEW t \in Task, NEW seq \in Nat, NEW at \in Time,
         upsert_wakeup(t, seq, at)
  PROVE  wakeup' \in [Task -> Wakeup \cup {None}]
BY DEF TypeOK, upsert_wakeup, Wakeup

(* The row that finish_task inserts is a completion, not an absent row.       *)
LEMMA CompletionIsARow ==
  ASSUME TypeOK, NEW c \in Scope, NEW expected \in Sequence, NEW now \in CallerClock
  PROVE  [next |-> expected, by |-> Writer(c), at |-> completion_time(c, now)] # None
<1>1. expected \in Nat /\ completion_time(c, now) \in Time
  BY BoundsAssumption, CallerClockInTime DEF Sequence, completion_time, TypeOK
<1>2. [next |-> expected, by |-> Writer(c), at |-> completion_time(c, now)]
        \in Completion
  BY <1>1, ScopeTyped DEF Completion
<1> QED
  BY <1>2, NullRowAssumption

(* The empty store is typed.                                               *)
LEMMA InitTyped == Init => TypeOK
BY BoundsAssumption DEF Init, TypeOK

(* One step per action of Next, each typed.                                *)
LEMMA NextTyped == TypeOK /\ [Next]_vars => TypeOK'
<1> SUFFICES ASSUME TypeOK, [Next]_vars PROVE TypeOK'
  OBVIOUS
<1> USE DEF catalog, signals, runs
<1>1. CASE Tick
  BY <1>1, BoundsAssumption DEF Tick, TypeOK
<1>2. ASSUME NEW t \in Task, NEW s \in Source, put_program(t, s)
      PROVE  TypeOK'
  BY <1>2 DEF put_program, TypeOK
<1>3. ASSUME NEW t \in Task, NEW s \in Source, admit(t, s)
      PROVE  TypeOK'
  <2>1. [kind |-> "step", by |-> 0] \in Event
    BY BoundsAssumption DEF Event
  <2>2. history' \in [Task -> Seq(Event)]
    BY <1>3, <2>1, InsertEventTyped DEF admit
  <2>3. exec' \in [Task -> Execution \cup {None}]
    BY <1>3 DEF admit, TypeOK, Execution
  <2> QED
    BY <1>3, <2>2, <2>3 DEF admit, TypeOK
<1>4. ASSUME NEW t \in Task, remove_program(t)
      PROVE  TypeOK'
  BY <1>4 DEF remove_program, TypeOK
<1>5. ASSUME NEW t \in Task, claim_run(t)
      PROVE  TypeOK'
  <2>1. /\ nextToken \in Token
        /\ clock + Lease \in Until
    BY <1>5, BoundsAssumption DEF claim_run, TypeOK
  <2>2. NewExecution(t) \in Execution
    BY <2>1 DEF NewExecution, TypeOK, Execution
  <2>3. NewClaim(t) \in ExecutionClaim
    <3>1. NewExecution(t).gen \in Nat
      BY <2>2 DEF Execution
    <3>2. CASE wakeup[t] = None
      BY <2>1, <3>1, <3>2 DEF NewClaim, ExecutionClaim
    <3>3. CASE wakeup[t] # None
      <4>1. wakeup[t] \in Wakeup
        BY <3>3 DEF TypeOK
      <4>2. [task |-> t, seq |-> wakeup[t].seq, at |-> wakeup[t].at,
             owner |-> nextToken, until |-> clock + Lease] \in WakeupClaim
        BY <4>1, <2>1 DEF Wakeup, WakeupClaim
      <4> QED
        BY <2>1, <3>1, <3>3, <4>2 DEF NewClaim, ExecutionClaim
    <3> QED
      BY <3>2, <3>3
  <2>4. wakeup' \in [Task -> Wakeup \cup {None}]
    BY <1>5, <2>1, LeaseWakeupTyped DEF claim_run
  <2>5. exec' \in [Task -> Execution \cup {None}]
    BY <1>5, <2>2 DEF claim_run, TypeOK
  <2>6. claims' \subseteq ExecutionClaim
    BY <1>5, <2>3 DEF claim_run, TypeOK
  <2>7. nextToken' \in 1 .. MaxToken + 1
    BY <1>5, <2>1, BoundsAssumption DEF claim_run
  <2> QED
    BY <1>5, <2>4, <2>5, <2>6, <2>7 DEF claim_run, TypeOK
<1>6. ASSUME NEW c \in claims, NEW failed \in BOOLEAN, release_run(c, failed)
      PROVE  TypeOK'
  <2>1. c.task \in Task
    BY DEF TypeOK, ExecutionClaim
  <2>2. exec[c.task] \in Execution
    <3>1. c # None => exec[c.task] # None
      BY <1>6 DEF release_run, guard_execution
    <3>2. c # None
      BY NullRowAssumption DEF TypeOK
    <3> QED
      BY <2>1, <3>1, <3>2 DEF TypeOK
  <2>3. wakeup' \in [Task -> Wakeup \cup {None}]
    BY <1>6, <2>1, LeaseWakeupTyped, Zenon DEF release_run
  <2>4. exec' \in [Task -> Execution \cup {None}]
    <3>1. Ended(exec[c.task], IF failed THEN "failed" ELSE "suspended") \in Execution
      BY <2>2, EndedTyped
    <3> QED
      BY <1>6, <2>1, <3>1 DEF release_run, TypeOK
  <2> QED
    BY <1>6, <2>3, <2>4 DEF release_run, TypeOK
<1>7. ASSUME NEW before \in CallerClock, prune_completed(before)
      PROVE  TypeOK'
  BY <1>7 DEF prune_completed, TypeOK
<1>8. ASSUME NEW c \in Scope, NEW t \in Task, NEW expected \in Sequence,
             append_event(c, t, expected)
      PROVE  TypeOK'
  <2>1. [kind |-> "step", by |-> Writer(c)] \in Event
    BY ScopeTyped DEF Event
  <2>2. history' \in [Task -> Seq(Event)]
    BY <1>8, <2>1, InsertEventTyped DEF append_event
  <2> QED
    BY <1>8, <2>2 DEF append_event, TypeOK
<1>9. ASSUME NEW c \in Scope, NEW t \in Task, NEW expected \in Sequence,
             NEW at \in Time, append_event_with_wakeup(c, t, expected, at)
      PROVE  TypeOK'
  <2>1. [kind |-> "sleep", by |-> Writer(c)] \in Event
    BY ScopeTyped DEF Event
  <2>2. history' \in [Task -> Seq(Event)]
    BY <1>9, <2>1, InsertEventTyped DEF append_event_with_wakeup
  <2>3. expected \in Nat
    BY BoundsAssumption DEF Sequence
  <2>4. wakeup' \in [Task -> Wakeup \cup {None}]
    BY <1>9, <2>3, UpsertWakeupTyped, SMTT(30) DEF append_event_with_wakeup
  <2> QED
    BY <1>9, <2>2, <2>4 DEF append_event_with_wakeup, TypeOK
<1>10. ASSUME NEW c \in Scope, NEW t \in Task, NEW expected \in Sequence,
              NEW now \in CallerClock, finish_task(c, t, expected, now)
       PROVE  TypeOK'
  <2>1. /\ expected \in Nat
        /\ completion_time(c, now) \in Time
    BY BoundsAssumption, CallerClockInTime DEF Sequence, completion_time, TypeOK
  <2>2. completion' \in [Task -> Completion \cup {None}]
    BY <1>10, <2>1, ScopeTyped, SMTT(30) DEF finish_task, TypeOK, Completion
  <2>3. exec' \in [Task -> Execution \cup {None}]
    <3>1. exec[t] # None => Ended(exec[t], "completed") \in Execution
      BY EndedTyped DEF TypeOK
    <3> QED
      BY <1>10, <3>1 DEF finish_task, TypeOK
  <2> QED
    BY <1>10, <2>2, <2>3 DEF finish_task, TypeOK
<1>11. ASSUME NEW c \in Scope, NEW t \in Task, NEW expected \in Sequence,
              NEW now \in CallerClock, NEW owner \in OwnersOf(c),
              complete_wakeup(c, t, expected, owner, now)
       PROVE  TypeOK'
  BY <1>11, SMTT(30) DEF complete_wakeup, TypeOK
<1>12. ASSUME NEW c \in Scope, NEW t \in Task, NEW expected \in Sequence,
              NEW n \in Name, register_signal_wait(c, t, expected, n)
       PROVE  TypeOK'
  BY <1>12, BoundsAssumption DEF register_signal_wait, TypeOK, Wait, Sequence
<1>13. ASSUME NEW c \in Scope, NEW t \in Task, NEW expected \in Sequence,
              NEW n \in Name, NEW now \in CallerClock,
              NEW wc \in WakeupClaimsOf(c),
              poll_signal(c, t, expected, n, now, wc)
       PROVE  TypeOK'
  <2>1. PICK row \in Oldest(Queued(t, n)) :
          /\ ConsumeWakeup(t, expected, now, wc)
          /\ insert_event(t, expected,
                          [kind |-> "signal", by |-> Writer(c), row |-> row])
          /\ inbox' = [inbox EXCEPT ![t] = @ \ {row}]
    BY <1>13, Zenon DEF poll_signal
  <2>2. [kind |-> "signal", by |-> Writer(c), row |-> row] \in Event
    BY ScopeTyped DEF Event, Oldest, Queued, TypeOK
  <2>3. history' \in [Task -> Seq(Event)]
    BY <2>1, <2>2, InsertEventTyped
  <2>4. wakeup' \in [Task -> Wakeup \cup {None}]
    BY <2>1, Zenon DEF ConsumeWakeup, TypeOK
  <2>5. inbox' \in [Task -> SUBSET Signal]
    BY <2>1, SMTT(30) DEF TypeOK
  <2> QED
    BY <1>13, <2>3, <2>4, <2>5, SMTT(30) DEF poll_signal, TypeOK
<1>14. ASSUME NEW t \in Task, NEW n \in Name, NEW k \in Key \cup {None},
              NEW now \in CallerClock, send_signal(t, n, k, now)
       PROVE  TypeOK'
  <2>1. nextSignal \in Nat /\ nextSignal' \in 1 .. MaxSignal + 1
    BY <1>14, BoundsAssumption, SMTT(30) DEF send_signal, TypeOK
  <2>2. inbox' \in [Task -> SUBSET Signal]
    BY <1>14, <2>1 DEF send_signal, TypeOK, Signal
  <2>3. receipts' \in [Task -> SUBSET Receipt]
    BY <1>14, <2>1, SMTT(30) DEF send_signal, TypeOK, Receipt
  <2>4. wakeup' \in [Task -> Wakeup \cup {None}]
    BY <1>14, CallerClockInTime DEF send_signal, TypeOK, Wait, Wakeup
  <2>5. sent' \in [Task -> SUBSET Nat]
    BY <1>14, <2>1, SMTT(30) DEF send_signal, TypeOK
  <2> QED
    BY <1>14, <2>1, <2>2, <2>3, <2>4, <2>5 DEF send_signal, TypeOK
<1>15. ASSUME NEW t \in Task, NEW seq \in Sequence, NEW at \in Time,
              schedule_wakeup(t, seq, at)
       PROVE  TypeOK'
  <2>1. seq \in Nat
    BY BoundsAssumption DEF Sequence
  <2>2. wakeup' \in [Task -> Wakeup \cup {None}]
    BY <1>15, <2>1, UpsertWakeupTyped, SMTT(30) DEF schedule_wakeup
  <2> QED
    BY <1>15, <2>2 DEF schedule_wakeup, TypeOK
<1>16. ASSUME NEW w \in Worker, NEW now \in CallerClock,
              claim_due_wakeups(w, now)
       PROVE  TypeOK'
  <2>1. now + Lease \in Until
    BY CallerClockInTime, BoundsAssumption
  <2>2. \A t \in DueWakeups(now) :
          /\ Leased(wakeup[t], w, now + Lease) \in Wakeup
          /\ [task |-> t, seq |-> wakeup[t].seq, at |-> wakeup[t].at,
              owner |-> w, until |-> now + Lease] \in WakeupClaim
    BY <2>1, Zenon DEF DueWakeups, Leased, TypeOK, Wakeup, WakeupClaim
  <2>3. PICK batch \in SUBSET DueWakeups(now) :
          /\ wakeup' = [t \in Task |->
                          IF t \in batch THEN Leased(wakeup[t], w, now + Lease)
                          ELSE wakeup[t]]
          /\ wclaims' = wclaims \cup
                          {[task |-> t, seq |-> wakeup[t].seq, at |-> wakeup[t].at,
                            owner |-> w, until |-> now + Lease] : t \in batch}
    BY <1>16, ZenonT(30) DEF claim_due_wakeups, Batch
  <2>4. wakeup' \in [Task -> Wakeup \cup {None}]
    BY <2>2, <2>3, Zenon DEF TypeOK
  <2>5. wclaims' \subseteq WakeupClaim
    BY <2>2, <2>3 DEF TypeOK
  <2> QED
    BY <1>16, <2>4, <2>5 DEF claim_due_wakeups, TypeOK
<1>17. ASSUME NEW w \in Worker, NEW t \in Task, NEW now \in CallerClock,
              claim_wakeup(t, w, now)
       PROVE  TypeOK'
  <2>1. now + Lease \in Until
    BY CallerClockInTime, BoundsAssumption
  <2>2. wakeup' \in [Task -> Wakeup \cup {None}]
    BY <1>17, <2>1, LeaseWakeupTyped DEF claim_wakeup
  <2>3. wakeup[t] \in Wakeup
    BY <1>17, SMTT(30) DEF claim_wakeup, DueWakeups, TypeOK
  <2>4. wclaims' \subseteq WakeupClaim
    BY <1>17, <2>1, <2>3 DEF claim_wakeup, TypeOK, Wakeup, WakeupClaim
  <2> QED
    BY <1>17, <2>2, <2>4 DEF claim_wakeup, TypeOK
<1>18. ASSUME NEW wc \in wclaims, NEW now \in CallerClock,
              renew_wakeup_claim(wc, now)
       PROVE  TypeOK'
  <2>1. now + Lease \in Until /\ wc \in WakeupClaim
    BY CallerClockInTime, BoundsAssumption DEF TypeOK
  <2>2. wakeup' \in [Task -> Wakeup \cup {None}]
    BY <1>18, <2>1, LeaseWakeupTyped DEF renew_wakeup_claim, WakeupClaim
  <2>3. [wc EXCEPT !.until = now + Lease] \in WakeupClaim
    BY <2>1 DEF WakeupClaim
  <2>4. wclaims' \subseteq WakeupClaim
    BY <1>18, <2>3, Zenon DEF renew_wakeup_claim, TypeOK
  <2> QED
    BY <1>18, <2>2, <2>4 DEF renew_wakeup_claim, TypeOK
<1>19. ASSUME NEW wc \in wclaims, release_wakeup_claim(wc)
       PROVE  TypeOK'
  <2>1. wc.task \in Task
    BY DEF TypeOK, WakeupClaim
  <2>2. wakeup' \in [Task -> Wakeup \cup {None}]
    BY <1>19, <2>1, LeaseWakeupTyped, Zenon DEF release_wakeup_claim
  <2> QED
    BY <1>19, <2>2 DEF release_wakeup_claim, TypeOK
<1>20. CASE UNCHANGED vars
  BY <1>20 DEF vars, TypeOK
<1> QED
  BY <1>1, <1>2, <1>3, <1>4, <1>5, <1>6, <1>7, <1>8, <1>9, <1>10, <1>11, <1>12,
     <1>13, <1>14, <1>15, <1>16, <1>17, <1>18, <1>19, <1>20 DEF Next

(* Every reachable store is well typed: no row, lease, token or counter leaves
   its domain, whatever calls are made in whatever order.                    *)
THEOREM TypeCorrect == Spec => []TypeOK
BY InitTyped, NextTyped, PTL DEF Spec
=============================================================================
