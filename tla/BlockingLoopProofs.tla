-------------------------- MODULE BlockingLoopProofs --------------------------
(***************************************************************************)
(* Proofs about BlockingLoop: type correctness, that Wait() returns only   *)
(* when the work is done, that no wakeup is lost, and that a blocking      *)
(* Stop() returns when the worker is out.  The last three need that nobody *)
(* gives up on the worker, that is, declares the loop stopped while it may *)
(* be running (StopMode kBlockAndGiveUp), the last one also that one       *)
(* thread does all the stopping.                                           *)
(***************************************************************************)
EXTENDS BlockingLoop, TLAPS

(* The state is only decremented where it is not STATE_SLEEPING.            *)
Counting == {"decNeed", "decLast", "setDone", "testSleep", "decDone"}
TypeInv == TypeOK /\ (pc[Worker] \in Counting => m_running_state # STATE_SLEEPING)

LEMMA TypeInit == Init => TypeInv
<1> SUFFICES ASSUME Init PROVE TypeInv
  OBVIOUS
<1>1. pc[Worker] = "out" /\ \A c \in Clients : pc[c] = "idle"
  BY LoopAssumption DEF Init, Threads
<1>2. pc \in [Threads -> ClientPC \cup WorkerPC]
  BY DEF Init, ClientPC, WorkerPC
<1>3. m_running_state \in STATE_SLEEPING..STATE_NEED_EXECUTION
  BY DEF Init, STATE_SLEEPING, STATE_NEED_EXECUTION
<1> QED
  BY <1>1, <1>2, <1>3 DEF Init, TypeInv, TypeOK, ClientPC, WorkerPC, Counting

LEMMA TypeStepPrepare ==
  ASSUME TypeInv, NEW t \in Threads, Prepare(t)
  PROVE  TypeInv'
<1> USE LoopAssumption DEF TypeInv, TypeOK, Goto, Branch, Call, data, flags, events, locks,
   Threads,
        ClientPC, WorkerPC, PreparePC, WaitCalls, AllStopModes,
        STATE_SLEEPING, STATE_DONE, STATE_LAST_EXECUTION, STATE_NEED_EXECUTION, Counting,
           AfterPrepare
<1>1. CASE PrepareLock(t)
  BY <1>1 DEF PrepareLock
<1>2. CASE PrepareTest(t)
  <2>1. CASE m_stopped
    BY <1>2, <2>1 DEF PrepareTest
  <2>2. CASE ~ m_stopped
    <3>1. /\ pc[t] = "prepareTest"
          /\ pc' = [pc EXCEPT ![t] = IF t = Worker THEN "loop" ELSE "idle"]
          /\ m_prepare_lock' = NoThread
          /\ m_stopped' = FALSE
          /\ UNCHANGED <<m_running_state, m_shutdown, m_may_sleep, m_new_work_event,
                        m_done_event, m_wait_lock, call, work>>
      BY <1>2, <2>2 DEF PrepareTest
    <3>2. CASE t = Worker
      <4>1. pc' = [pc EXCEPT ![Worker] = "loop"]
        BY <3>1, <3>2
      <4>2. pc'[Worker] = "loop" /\ \A c \in Clients : pc'[c] = pc[c]
        BY <4>1
      <4>3. pc' \in [Threads -> ClientPC \cup WorkerPC]
        BY <4>1
      <4> QED
        BY <3>1, <4>2, <4>3
    <3>3. CASE t # Worker
      BY <3>1, <3>3
    <3> QED
      BY <3>2, <3>3
  <2> QED
    BY <2>1, <2>2
<1>3. CASE PrepareState(t)
  BY <1>3 DEF PrepareState
<1>4. CASE PrepareShutdown(t)
  BY <1>4 DEF PrepareShutdown
<1>5. CASE PrepareSleep(t)
  BY <1>5 DEF PrepareSleep
<1> QED
  BY <1>1, <1>2, <1>3, <1>4, <1>5 DEF Prepare

LEMMA TypeStepClient ==
  ASSUME TypeInv, NEW c \in Clients, ClientCall(c) \/ ClientStep(c)
  PROVE  TypeInv'
<1>100. CASE Prepare(c)
  BY <1>100, TypeStepPrepare DEF Threads
<1> USE LoopAssumption DEF TypeInv, TypeOK, Goto, Branch, Call, data, flags, events, locks,
   Threads,
        ClientPC, WorkerPC, PreparePC, WaitCalls, AllStopModes,
        STATE_SLEEPING, STATE_DONE, STATE_LAST_EXECUTION, STATE_NEED_EXECUTION, Counting,
           AfterWakeup
<1>1. CASE CallWakeup(c)
  BY <1>1 DEF CallWakeup
<1>2. CASE WakeLoad(c)
  BY <1>2 DEF WakeLoad
<1>3. CASE WakeExchange(c)
  BY <1>3 DEF WakeExchange
<1>4. CASE WakeSet(c)
  BY <1>4 DEF WakeSet
<1>5. CASE CallWait(c)
  BY <1>5 DEF CallWait
<1>6. CASE FastStopped(c)
  BY <1>6 DEF FastStopped
<1>7. CASE FastState(c)
  BY <1>7 DEF FastState
<1>8. CASE WaitLock(c)
  BY <1>8 DEF WaitLock
<1>9. CASE IsStopped(c)
  BY <1>9 DEF IsStopped
<1>10. CASE IsDone(c)
  BY <1>10 DEF IsDone
<1>11. CASE WaitDone(c)
  BY <1>11, ZenonT(90) DEF WaitDone
<1>12. CASE WaitExpired(c)
  BY <1>12 DEF WaitExpired
<1>13. CASE GiveUp(c)
  BY <1>13 DEF GiveUp
<1>14. CASE AllowSleepAndReturn(c)
  BY <1>14 DEF AllowSleepAndReturn
<1>15. CASE AllowSleep(c)
  BY <1>15 DEF AllowSleep
<1>16. CASE CallStop(c)
  BY <1>16 DEF CallStop
<1>17. CASE StopTest(c)
  BY <1>17 DEF StopTest
<1>18. CASE StopShutdown(c)
  BY <1>18 DEF StopShutdown
<1>19. CASE CallPrepare(c)
  BY <1>19 DEF CallPrepare
<1> QED
  BY <1>100, <1>1, <1>2, <1>3, <1>4, <1>5, <1>6, <1>7, <1>8, <1>9, <1>10, <1>11, <1>12, <1>13,
     <1>14, <1>15, <1>16, <1>17, <1>18, <1>19 DEF ClientCall, ClientStep

LEMMA TypeStepWorker ==
  ASSUME TypeInv, CallRun \/ WorkerStep
  PROVE  TypeInv'
<1>100. CASE Prepare(Worker)
  BY <1>100, TypeStepPrepare DEF Threads
<1> USE LoopAssumption DEF TypeInv, TypeOK, Goto, Branch, Call, data, flags, events, locks,
   Threads,
        ClientPC, WorkerPC, PreparePC, WaitCalls, AllStopModes,
        STATE_SLEEPING, STATE_DONE, STATE_LAST_EXECUTION, STATE_NEED_EXECUTION, Counting,
           Decrement
<1>1. CASE CallRun
  BY <1>1 DEF CallRun
<1>2. CASE LoopTest
  BY <1>2 DEF LoopTest
<1>3. CASE PayloadBegin
  BY <1>3 DEF PayloadBegin
<1>4. CASE PayloadEnd
  BY <1>4 DEF PayloadEnd
<1>5. CASE Switch
  BY <1>5 DEF Switch
<1>6. CASE DecNeed
  BY <1>6 DEF DecNeed
<1>7. CASE DecLast
  BY <1>7 DEF DecLast
<1>8. CASE DecDone
  BY <1>8 DEF DecDone
<1>9. CASE SetDone
  BY <1>9 DEF SetDone
<1>10. CASE TestSleep
  BY <1>10 DEF TestSleep
<1>11. CASE WakeUpWorker
  BY <1>11 DEF WakeUpWorker
<1>12. CASE SleepExpired
  BY <1>12 DEF SleepExpired
<1>13. CASE EndState
  BY <1>13 DEF EndState
<1>14. CASE EndStopped
  BY <1>14 DEF EndStopped
<1>15. CASE EndDone
  BY <1>15 DEF EndDone
<1> QED
  BY <1>100, <1>1, <1>2, <1>3, <1>4, <1>5, <1>6, <1>7, <1>8, <1>9, <1>10, <1>11, <1>12, <1>13,
     <1>14, <1>15 DEF WorkerStep

LEMMA TypeStep == TypeInv /\ [Next]_vars => TypeInv'
<1> SUFFICES ASSUME TypeInv, [Next]_vars PROVE TypeInv'
  OBVIOUS
<1>1. CASE UNCHANGED vars
  BY <1>1 DEF vars, data, flags, events, locks, TypeInv, TypeOK
<1>2. CASE Next
  BY <1>2, TypeStepClient, TypeStepWorker DEF Next
<1> QED
  BY <1>1, <1>2

(* The loop keeps its types; m_running_state stays a RUNNING_TYPE although  *)
(* two threads count it up and down without a lock.                         *)
THEOREM TypeCorrect == SafetySpec => []TypeOK
<1>1. TypeInv => TypeOK
  BY DEF TypeInv
<1> QED
  BY <1>1, TypeInit, TypeStep, PTL DEF SafetySpec

-----------------------------------------------------------------------------
(* The inductive invariant behind WaitMeansDone and NoLostWakeup.           *)
(* Nobody declares the loop stopped from outside.                           *)
NoGiveUp == \A c \in Clients : call[c] # "kBlockAndGiveUp" /\ pc[c] # "giveUp"

(* Prepare() is exclusive, and the one who prepares has cleared m_stopped.  *)
Preparing(t) == pc[t] \in {"prepareState", "prepareShutdown", "prepareSleep"}
PrepareHeld ==
  \A t \in Threads :
    /\ pc[t] \in PreparePC \ {"prepareLock"} => m_prepare_lock = t
    /\ Preparing(t) => ~ m_stopped
    /\ pc[t] = "prepareShutdown"
         => m_running_state \in {STATE_LAST_EXECUTION, STATE_NEED_EXECUTION}

(* Nobody prepares the loop while it runs, so a shutdown is not withdrawn   *)
(* between the loop's last test of m_shutdown and its end.                  *)
Active == pc[Worker] \in WorkerPC \ (PreparePC \cup {"out", "endDone"})
LoopAlone ==
  /\ Active => ~ m_stopped /\ \A t \in Threads : ~ Preparing(t)
  /\ pc[Worker] \in {"endState", "endStopped"} => m_shutdown

(* What the worker knows of the state after its switch: since then it can   *)
(* only have been set to STATE_NEED_EXECUTION.                              *)
StateInLoop ==
  /\ pc[Worker] = "decNeed" => m_running_state = STATE_NEED_EXECUTION
  /\ pc[Worker] = "decLast"
       => m_running_state \in {STATE_LAST_EXECUTION, STATE_NEED_EXECUTION}
  /\ pc[Worker] \in {"setDone", "testSleep", "decDone"}
       => m_running_state \in {STATE_DONE, STATE_NEED_EXECUTION}
  /\ pc[Worker] = "sleep" => m_running_state \in {STATE_SLEEPING, STATE_NEED_EXECUTION}

(* Work is taken only inside a payload run.                                 *)
TakenInside == \A c \in Clients : work[c] = "taken" => pc[Worker] = "inPayload"

(* Work whose Wakeup() has reached the state keeps the state from falling   *)
(* to STATE_DONE: a whole payload run is still to begin, or it is under way.*)
Counted(c) == pc[c] \notin {"wakeLoad", "wakeExchange"}
Scheduled ==
  \/ m_running_state = STATE_NEED_EXECUTION
  \/ /\ m_running_state = STATE_LAST_EXECUTION
     /\ pc[Worker] \in {"out", "endDone", "loop", "payload"} \cup PreparePC
PendingCounts ==
  ~ m_shutdown =>
    \A c \in Clients : Counted(c) =>
      /\ work[c] = "published" => Scheduled
      /\ work[c] = "taken"
           => m_running_state \in {STATE_LAST_EXECUTION, STATE_NEED_EXECUTION}

(* A sleeping worker that was woken up has its event, or is about to.       *)
SleepSeen ==
  pc[Worker] = "sleep" /\ m_running_state = STATE_NEED_EXECUTION =>
    m_new_work_event \/ \E d \in Clients : pc[d] = "wakeSet"

SInv ==
  NoGiveUp /\ PrepareHeld /\ LoopAlone /\ StateInLoop /\ TakenInside /\ PendingCounts
  /\ SleepSeen

LEMMA SafeInit == Init => SInv
<1> SUFFICES ASSUME Init PROVE SInv
  OBVIOUS
<1>1. pc[Worker] = "out" /\ \A c \in Clients : pc[c] = "idle"
  BY LoopAssumption DEF Init, Threads
<1>2. \A t \in Threads : pc[t] \in {"out", "idle"}
  BY <1>1 DEF Threads
<1> QED
  BY <1>1, <1>2 DEF Init, SInv, NoGiveUp, PrepareHeld, Preparing, LoopAlone, Active,
     StateInLoop,
     TakenInside, PendingCounts, Counted, Scheduled, SleepSeen, WorkerPC, PreparePC

LEMMA SafeStepPrepare ==
  ASSUME TypeInv, SInv, NEW t \in Threads, Prepare(t)
  PROVE  SInv'
<1> USE LoopAssumption DEF TypeInv, TypeOK, Goto, Branch, Call, data, flags, events, locks,
   Threads,
        ClientPC, WorkerPC, PreparePC, WaitCalls, AllStopModes,
        STATE_SLEEPING, STATE_DONE, STATE_LAST_EXECUTION, STATE_NEED_EXECUTION,
        SInv, NoGiveUp, PrepareHeld, Preparing, LoopAlone, Active, StateInLoop,
        TakenInside, PendingCounts, Counted, Scheduled, SleepSeen, AfterPrepare
<1>1. CASE PrepareLock(t)
  BY <1>1 DEF PrepareLock
<1>2. CASE PrepareTest(t)
  BY <1>2 DEF PrepareTest
<1>3. CASE PrepareState(t)
  BY <1>3 DEF PrepareState
<1>4. CASE PrepareShutdown(t)
  BY <1>4 DEF PrepareShutdown
<1>5. CASE PrepareSleep(t)
  BY <1>5 DEF PrepareSleep
<1> QED
  BY <1>1, <1>2, <1>3, <1>4, <1>5 DEF Prepare

LEMMA SafeStepClient ==
  ASSUME TypeInv, SInv, "kBlockAndGiveUp" \notin StopModes,
         NEW c \in Clients, ClientCall(c) \/ ClientStep(c)
  PROVE  SInv'
<1>100. CASE Prepare(c)
  BY <1>100, SafeStepPrepare DEF Threads
<1> USE LoopAssumption DEF TypeInv, TypeOK, Goto, Branch, Call, data, flags, events, locks,
   Threads,
        ClientPC, WorkerPC, PreparePC, WaitCalls, AllStopModes,
        STATE_SLEEPING, STATE_DONE, STATE_LAST_EXECUTION, STATE_NEED_EXECUTION,
        SInv, NoGiveUp, PrepareHeld, Preparing, LoopAlone, Active, StateInLoop,
        TakenInside, PendingCounts, Counted, Scheduled, SleepSeen, AfterWakeup
<1>1. CASE CallWakeup(c)
  BY <1>1 DEF CallWakeup
<1>2. CASE WakeLoad(c)
  BY <1>2 DEF WakeLoad
<1>3. CASE WakeExchange(c)
  BY <1>3 DEF WakeExchange
<1>4. CASE WakeSet(c)
  BY <1>4 DEF WakeSet
<1>5. CASE CallWait(c)
  BY <1>5 DEF CallWait
<1>6. CASE FastStopped(c)
  BY <1>6 DEF FastStopped
<1>7. CASE FastState(c)
  BY <1>7 DEF FastState
<1>8. CASE WaitLock(c)
  BY <1>8 DEF WaitLock
<1>9. CASE IsStopped(c)
  BY <1>9 DEF IsStopped
<1>10. CASE IsDone(c)
  BY <1>10 DEF IsDone
<1>11. CASE WaitDone(c)
  BY <1>11 DEF WaitDone
<1>12. CASE WaitExpired(c)
  BY <1>12 DEF WaitExpired
<1>13. CASE GiveUp(c)
  BY <1>13 DEF GiveUp
<1>14. CASE AllowSleepAndReturn(c)
  BY <1>14 DEF AllowSleepAndReturn
<1>15. CASE AllowSleep(c)
  BY <1>15 DEF AllowSleep
<1>16. CASE CallStop(c)
  BY <1>16 DEF CallStop
<1>17. CASE StopTest(c)
  BY <1>17 DEF StopTest
<1>18. CASE StopShutdown(c)
  BY <1>18 DEF StopShutdown
<1>19. CASE CallPrepare(c)
  BY <1>19 DEF CallPrepare
<1> QED
  BY <1>100, <1>1, <1>2, <1>3, <1>4, <1>5, <1>6, <1>7, <1>8, <1>9, <1>10, <1>11, <1>12, <1>13,
     <1>14, <1>15, <1>16, <1>17, <1>18, <1>19 DEF ClientCall, ClientStep

LEMMA SafeStepWorker ==
  ASSUME TypeInv, SInv, CallRun \/ WorkerStep
  PROVE  SInv'
<1>100. CASE Prepare(Worker)
  BY <1>100, SafeStepPrepare DEF Threads
<1> USE LoopAssumption DEF TypeInv, TypeOK, Goto, Branch, Call, data, flags, events, locks,
   Threads,
        ClientPC, WorkerPC, PreparePC, WaitCalls, AllStopModes,
        STATE_SLEEPING, STATE_DONE, STATE_LAST_EXECUTION, STATE_NEED_EXECUTION,
        SInv, NoGiveUp, PrepareHeld, Preparing, LoopAlone, Active, StateInLoop,
        TakenInside, PendingCounts, Counted, Scheduled, SleepSeen, Decrement
<1>1. CASE CallRun
  BY <1>1 DEF CallRun
<1>2. CASE LoopTest
  BY <1>2 DEF LoopTest
<1>3. CASE PayloadBegin
  BY <1>3 DEF PayloadBegin
<1>4. CASE PayloadEnd
  BY <1>4 DEF PayloadEnd
<1>5. CASE Switch
  BY <1>5 DEF Switch
<1>6. CASE DecNeed
  BY <1>6 DEF DecNeed
<1>7. CASE DecLast
  BY <1>7 DEF DecLast
<1>8. CASE DecDone
  BY <1>8 DEF DecDone
<1>9. CASE SetDone
  BY <1>9 DEF SetDone
<1>10. CASE TestSleep
  BY <1>10 DEF TestSleep
<1>11. CASE WakeUpWorker
  BY <1>11 DEF WakeUpWorker
<1>12. CASE SleepExpired
  BY <1>12 DEF SleepExpired
<1>13. CASE EndState
  BY <1>13 DEF EndState
<1>14. CASE EndStopped
  BY <1>14 DEF EndStopped
<1>15. CASE EndDone
  BY <1>15 DEF EndDone
<1> QED
  BY <1>100, <1>1, <1>2, <1>3, <1>4, <1>5, <1>6, <1>7, <1>8, <1>9, <1>10, <1>11, <1>12, <1>13,
     <1>14, <1>15 DEF WorkerStep

LEMMA SafeStep ==
  ASSUME "kBlockAndGiveUp" \notin StopModes
  PROVE  TypeInv /\ SInv /\ [Next]_vars => SInv'
<1> SUFFICES ASSUME TypeInv, SInv, [Next]_vars PROVE SInv'
  OBVIOUS
<1>1. CASE UNCHANGED vars
  BY <1>1 DEF vars, data, flags, events, locks, SInv, NoGiveUp, PrepareHeld, Preparing,
     LoopAlone,
     Active, StateInLoop, TakenInside, PendingCounts, Counted, Scheduled, SleepSeen
<1>2. CASE Next
  BY <1>2, SafeStepClient, SafeStepWorker DEF Next
<1> QED
  BY <1>1, <1>2

LEMMA SafeCorrect ==
  ASSUME "kBlockAndGiveUp" \notin StopModes
  PROVE  SafetySpec => [](TypeInv /\ SInv)
<1>1. TypeInv /\ SInv /\ [Next]_vars => TypeInv' /\ SInv'
  BY TypeStep, SafeStep
<1> QED
  BY <1>1, TypeInit, SafeInit, PTL DEF SafetySpec

(* A client that Wait() is about to let go finds its work done: the state   *)
(* is above STATE_DONE as long as any counted work is pending.              *)
THEOREM WaitCorrect ==
  ASSUME "kBlockAndGiveUp" \notin StopModes
  PROVE  SafetySpec => []WaitMeansDone
<1>1. TypeInv /\ SInv => WaitMeansDone
  BY DEF TypeInv, TypeOK, SInv, PendingCounts, Counted, Scheduled, WaitMeansDone, FindsDone,
     Pending, InWakeup, STATE_DONE, STATE_LAST_EXECUTION, STATE_NEED_EXECUTION
<1> QED
  BY <1>1, SafeCorrect, PTL

(* The worker does not sleep on work it was woken up for.                   *)
THEOREM WakeupCorrect ==
  ASSUME "kBlockAndGiveUp" \notin StopModes
  PROVE  SafetySpec => []NoLostWakeup
<1>1. TypeInv /\ SInv => NoLostWakeup
  BY DEF TypeInv, TypeOK, SInv, TakenInside, PendingCounts, Counted, Scheduled, SleepSeen,
     NoLostWakeup, Pending, InWakeup, PreparePC
<1> QED
  BY <1>1, SafeCorrect, PTL

-----------------------------------------------------------------------------
(* The inductive invariant behind StopMeansQuit, for one thread that stops  *)
(* the loop.  With two of them it fails: the request that stands when the   *)
(* first Stop() returns may be the other's, made after a Prepare() withdrew *)
(* the first, and not yet counted.                                          *)
OneStopper == \A c, d \in Stoppers : c = d

(* Only stoppers stop.                                                      *)
OnlyStoppers ==
  \A c \in Clients :
    call[c] = "kBlock" \/ pc[c] \in {"stopTest", "stopShutdown"} => c \in Stoppers

(* Once the Wakeup() of a blocking Stop() has reached the state, and until  *)
(* the request is withdrawn or the worker has seen it, the worker cannot    *)
(* count the state down to STATE_DONE: it first comes past its test of      *)
(* m_shutdown.                                                              *)
PastWakeup == {"wakeSet", "fastStopped", "fastState", "waitLock", "isStopped", "isDone",
               "waitDone"}
Requested(c) ==
  /\ call[c] = "kBlock" /\ pc[c] \in PastWakeup
  /\ m_shutdown /\ ~ m_stopped
  /\ pc[Worker] \notin {"endState", "endStopped"}
  /\ \A t \in Threads : pc[t] \notin {"prepareState", "prepareShutdown"}
TestAhead ==
  \/ m_running_state = STATE_NEED_EXECUTION
  \/ /\ m_running_state = STATE_LAST_EXECUTION
     /\ pc[Worker] \in {"out", "endDone", "loop"} \cup PreparePC
StopCounts == \A c \in Clients : Requested(c) => TestAhead

QInv == OnlyStoppers /\ StopCounts

LEMMA QuitInit == Init => QInv
<1> SUFFICES ASSUME Init PROVE QInv
  OBVIOUS
<1>1. \A c \in Clients : pc[c] = "idle" /\ call[c] = "none"
  BY LoopAssumption DEF Init, Threads
<1> QED
  BY <1>1 DEF Init, QInv, OnlyStoppers, StopCounts, Requested

LEMMA QuitStepPrepare ==
  ASSUME TypeInv, SInv, QInv, NEW t \in Threads, Prepare(t)
  PROVE  QInv'
<1> USE LoopAssumption DEF TypeInv, TypeOK, Goto, Branch, Call, data, flags, events, locks,
        Threads, ClientPC, WorkerPC, PreparePC, WaitCalls, AllStopModes,
        STATE_SLEEPING, STATE_DONE, STATE_LAST_EXECUTION, STATE_NEED_EXECUTION,
        QInv, OnlyStoppers, StopCounts, Requested, PastWakeup, TestAhead, AfterPrepare
<1>1. CASE PrepareLock(t)
  BY <1>1 DEF PrepareLock
<1>2. CASE PrepareTest(t)
  BY <1>2 DEF PrepareTest
<1>3. CASE PrepareState(t)
  BY <1>3 DEF PrepareState
<1>4. CASE PrepareShutdown(t)
  BY <1>4 DEF PrepareShutdown
<1>5. CASE PrepareSleep(t)
  BY <1>5 DEF PrepareSleep
<1> QED
  BY <1>1, <1>2, <1>3, <1>4, <1>5 DEF Prepare

LEMMA QuitStepClient ==
  ASSUME OneStopper, TypeInv, SInv, QInv, NEW c \in Clients, ClientCall(c) \/ ClientStep(c)
  PROVE  QInv'
<1>100. CASE Prepare(c)
  BY <1>100, QuitStepPrepare DEF Threads
<1> USE LoopAssumption DEF TypeInv, TypeOK, Goto, Branch, Call, data, flags, events, locks,
        Threads, ClientPC, WorkerPC, PreparePC, WaitCalls, AllStopModes,
        STATE_SLEEPING, STATE_DONE, STATE_LAST_EXECUTION, STATE_NEED_EXECUTION,
        QInv, OnlyStoppers, StopCounts, Requested, PastWakeup, TestAhead, AfterWakeup
<1>1. CASE CallWakeup(c)
  BY <1>1 DEF CallWakeup
<1>2. CASE WakeLoad(c)
  BY <1>2 DEF WakeLoad
<1>3. CASE WakeExchange(c)
  BY <1>3 DEF WakeExchange
<1>4. CASE WakeSet(c)
  BY <1>4 DEF WakeSet
<1>5. CASE CallWait(c)
  BY <1>5 DEF CallWait
<1>6. CASE FastStopped(c)
  BY <1>6 DEF FastStopped
<1>7. CASE FastState(c)
  BY <1>7 DEF FastState
<1>8. CASE WaitLock(c)
  BY <1>8 DEF WaitLock
<1>9. CASE IsStopped(c)
  BY <1>9 DEF IsStopped
<1>10. CASE IsDone(c)
  BY <1>10 DEF IsDone
<1>11. CASE WaitDone(c)
  BY <1>11 DEF WaitDone
<1>12. CASE WaitExpired(c)
  BY <1>12 DEF WaitExpired
<1>13. CASE GiveUp(c)
  BY <1>13 DEF GiveUp
<1>14. CASE AllowSleepAndReturn(c)
  BY <1>14 DEF AllowSleepAndReturn
<1>15. CASE AllowSleep(c)
  BY <1>15 DEF AllowSleep
<1>16. CASE CallStop(c)
  BY <1>16 DEF CallStop
<1>17. CASE StopTest(c)
  BY <1>17 DEF StopTest
<1>18. CASE StopShutdown(c)
  BY <1>18 DEF StopShutdown, OneStopper
<1>19. CASE CallPrepare(c)
  BY <1>19 DEF CallPrepare
<1> QED
  BY <1>100, <1>1, <1>2, <1>3, <1>4, <1>5, <1>6, <1>7, <1>8, <1>9, <1>10, <1>11, <1>12, <1>13,
     <1>14, <1>15, <1>16, <1>17, <1>18, <1>19 DEF ClientCall, ClientStep

LEMMA QuitStepWorker ==
  ASSUME TypeInv, SInv, QInv, CallRun \/ WorkerStep
  PROVE  QInv'
<1>100. CASE Prepare(Worker)
  BY <1>100, QuitStepPrepare DEF Threads
<1> USE LoopAssumption DEF TypeInv, TypeOK, Goto, Branch, Call, data, flags, events, locks,
        Threads, ClientPC, WorkerPC, PreparePC, WaitCalls, AllStopModes,
        STATE_SLEEPING, STATE_DONE, STATE_LAST_EXECUTION, STATE_NEED_EXECUTION,
        SInv, LoopAlone, Active, Preparing,
        QInv, OnlyStoppers, StopCounts, Requested, PastWakeup, TestAhead, Decrement
<1>1. CASE CallRun
  BY <1>1 DEF CallRun
<1>2. CASE LoopTest
  BY <1>2 DEF LoopTest
<1>3. CASE PayloadBegin
  BY <1>3 DEF PayloadBegin
<1>4. CASE PayloadEnd
  BY <1>4 DEF PayloadEnd
<1>5. CASE Switch
  BY <1>5 DEF Switch
<1>6. CASE DecNeed
  BY <1>6 DEF DecNeed
<1>7. CASE DecLast
  BY <1>7 DEF DecLast
<1>8. CASE DecDone
  BY <1>8 DEF DecDone
<1>9. CASE SetDone
  BY <1>9 DEF SetDone
<1>10. CASE TestSleep
  BY <1>10 DEF TestSleep
<1>11. CASE WakeUpWorker
  BY <1>11 DEF WakeUpWorker
<1>12. CASE SleepExpired
  BY <1>12 DEF SleepExpired
<1>13. CASE EndState
  BY <1>13 DEF EndState
<1>14. CASE EndStopped
  BY <1>14 DEF EndStopped
<1>15. CASE EndDone
  BY <1>15 DEF EndDone
<1> QED
  BY <1>100, <1>1, <1>2, <1>3, <1>4, <1>5, <1>6, <1>7, <1>8, <1>9, <1>10, <1>11, <1>12, <1>13,
     <1>14, <1>15 DEF WorkerStep

LEMMA QuitStep ==
  ASSUME OneStopper
  PROVE  TypeInv /\ SInv /\ QInv /\ [Next]_vars => QInv'
<1> SUFFICES ASSUME TypeInv, SInv, QInv, [Next]_vars PROVE QInv'
  OBVIOUS
<1>1. CASE UNCHANGED vars
  BY <1>1 DEF vars, data, flags, events, locks, QInv, OnlyStoppers, StopCounts, Requested,
     TestAhead
<1>2. CASE Next
  BY <1>2, QuitStepClient, QuitStepWorker DEF Next
<1> QED
  BY <1>1, <1>2

(* A blocking Stop() that returns on its own request has seen the worker    *)
(* leave the loop, whatever Wakeup(), Wait() and Prepare() calls came in    *)
(* between, as long as one thread does all the stopping.                    *)
THEOREM StopCorrect ==
  ASSUME "kBlockAndGiveUp" \notin StopModes, OneStopper
  PROVE  SafetySpec => []StopMeansQuit
<1>1. TypeInv /\ SInv /\ QInv => StopMeansQuit
  <2> SUFFICES ASSUME TypeInv, SInv, QInv, NEW c \in Clients, call[c] = "kBlock", m_shutdown,
                      FindsDone(c) \/ FindsStopped(c), InLoop
               PROVE  FALSE
    BY DEF StopMeansQuit
  <2>1. Active
    BY DEF InLoop, Active
  <2>2. ~ m_stopped /\ \A t \in Threads : pc[t] \notin {"prepareState", "prepareShutdown"}
    BY <2>1 DEF SInv, LoopAlone, Preparing
  <2>3. FindsDone(c)
    BY <2>2 DEF FindsStopped
  <2>4. Requested(c)
    BY <2>2, <2>3 DEF Requested, FindsDone, PastWakeup, InLoop
  <2> QED
    BY <2>3, <2>4 DEF QInv, StopCounts, TestAhead, FindsDone, STATE_DONE, STATE_LAST_EXECUTION,
       STATE_NEED_EXECUTION
<1>2. TypeInv /\ SInv /\ QInv /\ [Next]_vars => QInv'
  BY QuitStep
<1> QED
  BY <1>1, <1>2, SafeCorrect, QuitInit, PTL DEF SafetySpec

=============================================================================
