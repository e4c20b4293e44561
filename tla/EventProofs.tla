----------------------------- MODULE EventProofs -----------------------------
(***************************************************************************)
(* Theorems about Event, for any number of setters and waiters.            *)
(***************************************************************************)
EXTENDS Event, TLAPS

(* Every variable of an Event stays in its range; in particular only        *)
(* WaitFor() ever expires (Event.h, WaitFor).                               *)
THEOREM TypeCorrect == Spec => []TypeOK
<1> USE DEF TypeOK, SetterPC, WaiterPC, Threads
<1>1. Init => TypeOK
  BY ThreadsAssumption DEF Init
<1>2. TypeOK /\ [Next]_vars => TypeOK'
  <2> SUFFICES ASSUME TypeOK, [Next]_vars PROVE TypeOK'
    OBVIOUS
  <2> USE ThreadsAssumption DEF Goto, AcquireMutex, TestAndSet, TestAndClear
  <2>1. ASSUME NEW s \in Setters, SetFlag(s) PROVE TypeOK'
    BY <2>1 DEF SetFlag, vars
  <2>2. ASSUME NEW s \in Setters, SetLock(s) PROVE TypeOK'
    BY <2>2 DEF SetLock
  <2>3. ASSUME NEW s \in Setters, SetNotify(s) PROVE TypeOK'
    BY <2>3 DEF SetNotify
  <2>4. ASSUME NEW s \in Setters, Reset(s) PROVE TypeOK'
    BY <2>4 DEF Reset
  <2>5. ASSUME NEW w \in Waiters, WaitFast(w) PROVE TypeOK'
    BY <2>5 DEF WaitFast
  <2>6. ASSUME NEW w \in Waiters, WaitLock(w) PROVE TypeOK'
    BY <2>6 DEF WaitLock
  <2>7. ASSUME NEW w \in Waiters, WaitCheck(w) PROVE TypeOK'
    BY <2>7 DEF WaitCheck
  <2>8. ASSUME NEW w \in Waiters, WaitSleep(w) PROVE TypeOK'
    BY <2>8 DEF WaitSleep
  <2>9. ASSUME NEW w \in Waiters, WakeSpuriously(w) PROVE TypeOK'
    BY <2>9 DEF WakeSpuriously
  <2>10. ASSUME NEW w \in Waiters, Timeout(w) PROVE TypeOK'
    BY <2>10 DEF Timeout
  <2>11. CASE UNCHANGED vars
    BY <2>11 DEF vars
  <2> QED
    BY <2>1, <2>2, <2>3, <2>4, <2>5, <2>6, <2>7, <2>8, <2>9, <2>10, <2>11
    DEF Next, SetterStep, WaiterStep
<1> QED
  BY <1>1, <1>2, PTL DEF Spec, SafetySpec

(* The threads past an acquisition of m_mutex are exactly its owner, so at  *)
(* most one thread notifies, checks the predicate or is about to sleep.     *)
LEMMA MutexCorrect == Spec => []MutexInv
<1> USE DEF TypeOK, SetterPC, WaiterPC, Threads, MutexInv
<1>1. Init => MutexInv
  BY ThreadsAssumption DEF Init
<1>2. TypeOK /\ MutexInv /\ [Next]_vars => MutexInv'
  <2> SUFFICES ASSUME TypeOK, MutexInv, [Next]_vars PROVE MutexInv'
    OBVIOUS
  <2> USE ThreadsAssumption DEF Goto, AcquireMutex, TestAndSet, TestAndClear
  <2>1. ASSUME NEW s \in Setters, SetFlag(s) PROVE MutexInv'
    BY <2>1 DEF SetFlag, vars
  <2>2. ASSUME NEW s \in Setters, SetLock(s) PROVE MutexInv'
    BY <2>2 DEF SetLock
  <2>3. ASSUME NEW s \in Setters, SetNotify(s) PROVE MutexInv'
    BY <2>3 DEF SetNotify
  <2>4. ASSUME NEW s \in Setters, Reset(s) PROVE MutexInv'
    BY <2>4 DEF Reset
  <2>5. ASSUME NEW w \in Waiters, WaitFast(w) PROVE MutexInv'
    BY <2>5 DEF WaitFast
  <2>6. ASSUME NEW w \in Waiters, WaitLock(w) PROVE MutexInv'
    BY <2>6 DEF WaitLock
  <2>7. ASSUME NEW w \in Waiters, WaitCheck(w) PROVE MutexInv'
    BY <2>7 DEF WaitCheck
  <2>8. ASSUME NEW w \in Waiters, WaitSleep(w) PROVE MutexInv'
    BY <2>8 DEF WaitSleep
  <2>9. ASSUME NEW w \in Waiters, WakeSpuriously(w) PROVE MutexInv'
    BY <2>9 DEF WakeSpuriously
  <2>10. ASSUME NEW w \in Waiters, Timeout(w) PROVE MutexInv'
    BY <2>10 DEF Timeout
  <2>11. CASE UNCHANGED vars
    BY <2>11 DEF vars
  <2> QED
    BY <2>1, <2>2, <2>3, <2>4, <2>5, <2>6, <2>7, <2>8, <2>9, <2>10, <2>11
    DEF Next, SetterStep, WaiterStep
<1> QED
  BY <1>1, <1>2, TypeCorrect, PTL DEF Spec, SafetySpec

(* Set() raises the flag before it takes the mutex, skips the notification  *)
(* on a raised flag and wakes one thread only: no waiter is ever left       *)
(* asleep on a raised flag that nobody will look at again.  The mutex makes *)
(* "false predicate, then sleep" one step for the notifier.                 *)
THEOREM LostWakeupFree == Spec => []NoLostWakeup
<1> USE DEF TypeOK, SetterPC, WaiterPC, Threads, NoLostWakeup, WakeupPending
<1>1. Init => NoLostWakeup
  BY ThreadsAssumption DEF Init
<1>2. TypeOK /\ MutexInv /\ NoLostWakeup /\ [Next]_vars => NoLostWakeup'
  <2> SUFFICES ASSUME TypeOK, MutexInv, NoLostWakeup, [Next]_vars
               PROVE  NoLostWakeup'
    OBVIOUS
  <2> USE ThreadsAssumption DEF Goto, AcquireMutex, TestAndSet, TestAndClear
  <2>1. ASSUME NEW s \in Setters, SetFlag(s) PROVE NoLostWakeup'
    BY <2>1 DEF SetFlag, vars
  <2>2. ASSUME NEW s \in Setters, SetLock(s) PROVE NoLostWakeup'
    BY <2>2 DEF SetLock
  <2>3. ASSUME NEW s \in Setters, SetNotify(s) PROVE NoLostWakeup'
    <3>1. CASE \E w \in Waiters : pc[w] = "asleep"
      \* The sleeper that is woken up is on its way to the predicate.
      <4>1. PICK w \in Waiters : pc' = [pc EXCEPT ![s] = "idle", ![w] = "lock"]
        BY <2>3, <3>1 DEF SetNotify
      <4> QED
        BY <4>1
    <3>2. CASE \A w \in Waiters : pc[w] # "asleep"
      \* The notifier owns the mutex, so nobody else is about to sleep.
      <4>1. \A w \in Waiters : pc[w] # "sleep" /\ pc'[w] = pc[w]
        BY <2>3, <3>2 DEF SetNotify, MutexInv
      <4> QED
        BY <4>1, <3>2
    <3> QED
      BY <3>1, <3>2
  <2>4. ASSUME NEW s \in Setters, Reset(s) PROVE NoLostWakeup'
    BY <2>4 DEF Reset
  <2>5. ASSUME NEW w \in Waiters, WaitFast(w) PROVE NoLostWakeup'
    BY <2>5 DEF WaitFast
  <2>6. ASSUME NEW w \in Waiters, WaitLock(w) PROVE NoLostWakeup'
    BY <2>6 DEF WaitLock
  <2>7. ASSUME NEW w \in Waiters, WaitCheck(w) PROVE NoLostWakeup'
    BY <2>7 DEF WaitCheck
  <2>8. ASSUME NEW w \in Waiters, WaitSleep(w) PROVE NoLostWakeup'
    BY <2>8 DEF WaitSleep
  <2>9. ASSUME NEW w \in Waiters, WakeSpuriously(w) PROVE NoLostWakeup'
    BY <2>9 DEF WakeSpuriously
  <2>10. ASSUME NEW w \in Waiters, Timeout(w) PROVE NoLostWakeup'
    BY <2>10 DEF Timeout
  <2>11. CASE UNCHANGED vars
    BY <2>11 DEF vars
  <2> QED
    BY <2>1, <2>2, <2>3, <2>4, <2>5, <2>6, <2>7, <2>8, <2>9, <2>10, <2>11
    DEF Next, SetterStep, WaiterStep
<1> QED
  BY <1>1, <1>2, TypeCorrect, MutexCorrect, PTL DEF Spec, SafetySpec

(* Event implements the safety part of AutoResetEvent: every step of the    *)
(* mutex-and-condition-variable code is a step of the abstract event, or    *)
(* none, as its users see it.                                               *)
THEOREM Implementation == Spec => Abs!SafetySpec
<1> USE DEF TypeOK, SetterPC, WaiterPC, Threads, waiting
<1>1. Init => Abs!Init
  BY ThreadsAssumption DEF Init, Abs!Init
<1>2. TypeOK /\ [Next]_vars => [Abs!Next]_(Abs!vars)
  <2> SUFFICES ASSUME TypeOK, [Next]_vars PROVE [Abs!Next]_(Abs!vars)
    OBVIOUS
  <2> USE ThreadsAssumption DEF Goto, AcquireMutex, TestAndSet, TestAndClear, Abs!vars
  \* What no user sees: the steps after the flag is up, and those between
  \* the fast path of a wait and its return.
  <2>1. ASSUME NEW s \in Setters, SetLock(s) \/ SetNotify(s) PROVE UNCHANGED Abs!vars
    BY <2>1 DEF SetLock, SetNotify
  <2>2. ASSUME NEW w \in Waiters,
               WaitLock(w) \/ WaitSleep(w) \/ WakeSpuriously(w) \/ Timeout(w)
        PROVE  UNCHANGED Abs!vars
    BY <2>2 DEF WaitLock, WaitSleep, WakeSpuriously, Timeout
  \* What they do see.
  <2>3. ASSUME NEW s \in Setters, SetFlag(s) PROVE Abs!Set \/ UNCHANGED Abs!vars
    <3>1. waiting' = waiting
      BY <2>3 DEF SetFlag, vars
    <3> QED
      BY <2>3, <3>1 DEF SetFlag, Abs!Set, vars
  <2>4. ASSUME NEW s \in Setters, Reset(s) PROVE Abs!Reset
    <3>1. waiting' = waiting
      BY <2>4 DEF Reset
    <3> QED
      BY <2>4, <3>1 DEF Reset, Abs!Reset
  <2>5. ASSUME NEW w \in Waiters, WaitFast(w)
        PROVE  Abs!TakeAtOnce(w) \/ Abs!BeginWait(w)
    <3>1. CASE m_flag
      <4>1. waiting' = waiting /\ w \notin waiting
        BY <2>5, <3>1 DEF WaitFast
      <4> QED
        BY <2>5, <3>1, <4>1 DEF WaitFast, Abs!TakeAtOnce
    <3>2. CASE ~ m_flag
      <4>1. waiting' = waiting \cup {w} /\ w \notin waiting
        BY <2>5, <3>2 DEF WaitFast
      <4> QED
        BY <2>5, <3>2, <4>1 DEF WaitFast, Abs!BeginWait
    <3> QED
      BY <3>1, <3>2
  <2>6. ASSUME NEW w \in Waiters, WaitCheck(w)
        PROVE  Abs!Take(w) \/ Abs!GiveUp(w) \/ UNCHANGED Abs!vars
    <3>1. w \in waiting
      BY <2>6 DEF WaitCheck
    <3>2. CASE m_flag
      <4>1. waiting' = waiting \ {w}
        BY <2>6, <3>2 DEF WaitCheck
      <4> QED
        BY <2>6, <3>1, <3>2, <4>1 DEF WaitCheck, Abs!Take
    <3>3. CASE ~ m_flag /\ expired[w]
      <4>1. waiting' = waiting \ {w}
        BY <2>6, <3>3 DEF WaitCheck
      <4> QED
        BY <2>6, <3>1, <3>3, <4>1 DEF WaitCheck, Abs!GiveUp
    <3>4. CASE ~ m_flag /\ ~ expired[w]
      BY <2>6, <3>4 DEF WaitCheck
    <3> QED
      BY <3>2, <3>3, <3>4
  <2>7. CASE UNCHANGED vars
    BY <2>7 DEF vars
  <2> QED
    BY <2>1, <2>2, <2>3, <2>4, <2>5, <2>6, <2>7
    DEF Next, SetterStep, WaiterStep, Abs!Next
<1> QED
  BY <1>1, <1>2, TypeCorrect, PTL DEF Spec, SafetySpec, Abs!SafetySpec

=============================================================================
