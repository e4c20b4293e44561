------------------------------- MODULE Event --------------------------------
(***************************************************************************)
(* Common::Event (Source/Core/Common/Event.h): a Flag, a mutex and a       *)
(* condition variable.  Every atomic access to the flag, every acquisition *)
(* of the mutex and every operation on the condition variable is a step of *)
(* its own, because Set() raises the flag BEFORE it takes the mutex and    *)
(* the fast path of Wait() never takes it at all.                          *)
(* The users of the class see AutoResetEvent.                              *)
(*                                                                         *)
(* std::mutex and std::condition_variable are modelled by what C++         *)
(* guarantees: wait() releases the mutex and falls asleep in one step, may *)
(* return spuriously, and reacquires the mutex before the predicate runs.  *)
(***************************************************************************)


CONSTANTS
  Setters,        \* threads that call Set() and Reset()
  Waiters,        \* threads that call Wait() or WaitFor()
  TimedWaiters,   \* the waiters whose call is WaitFor()
  NoThread        \* "nobody owns the mutex"

ASSUME ThreadsAssumption ==
  /\ Setters \cap Waiters = {}
  /\ TimedWaiters \subseteq Waiters
  /\ NoThread \notin Setters \cup Waiters

VARIABLES
  m_flag,         \* Flag m_flag
  m_mutex,        \* the thread that owns m_mutex, or NoThread
  pc,             \* where each thread is inside the object
  expired         \* the timeout of this thread's WaitFor() has passed

vars == <<m_flag, m_mutex, pc, expired>>

Threads == Setters \cup Waiters

SetterPC == {"idle", "lock", "notify"}
WaiterPC == {"idle", "lock", "check", "sleep", "asleep"}

TypeOK ==
  /\ m_flag \in BOOLEAN
  /\ m_mutex \in Threads \cup {NoThread}
  /\ pc \in [Threads -> SetterPC \cup WaiterPC]
  /\ \A s \in Setters : pc[s] \in SetterPC
  /\ \A w \in Waiters : pc[w] \in WaiterPC
  /\ expired \in [Waiters -> BOOLEAN]
  /\ \A w \in Waiters : expired[w] => w \in TimedWaiters

Init ==
  /\ m_flag = FALSE
  /\ m_mutex = NoThread
  /\ pc = [t \in Threads |-> "idle"]
  /\ expired = [w \in Waiters |-> FALSE]

Goto(t, from, to) ==
  /\ pc[t] = from
  /\ pc' = [pc EXCEPT ![t] = to]

-----------------------------------------------------------------------------
\* Flag::TestAndSet(): the compare-exchange succeeds when the flag is down.
TestAndSet ==
  /\ ~ m_flag
  /\ m_flag' = TRUE

\* Flag::TestAndClear(): the compare-exchange succeeds when the flag is up.
TestAndClear ==
  /\ m_flag
  /\ m_flag' = FALSE

AcquireMutex(t) ==
  /\ m_mutex = NoThread
  /\ m_mutex' = t

-----------------------------------------------------------------------------
\* Set(): whoever raises the flag has to notify; a flag already up is left to
\* the thread that raised it.
SetFlag(s) ==
  \/ /\ TestAndSet
     /\ Goto(s, "idle", "lock")
     /\ UNCHANGED <<m_mutex, expired>>
  \/ /\ pc[s] = "idle"
     /\ m_flag
     /\ UNCHANGED vars

\* Variant: notify_one() without the lock_guard.
SetLock_NoMutex(s) ==
  /\ Goto(s, "lock", "notify")
  /\ UNCHANGED <<m_flag, m_mutex, expired>>

SetLock(s) ==
  /\ Goto(s, "lock", "notify")
  /\ AcquireMutex(s)
  /\ UNCHANGED <<m_flag, expired>>

\* notify_one() wakes at most one sleeper, which has to reacquire the mutex;
\* then the lock_guard goes out of scope.
SetNotify(s) ==
  /\ pc[s] = "notify"
  /\ m_mutex' = NoThread
  /\ LET asleep == {w \in Waiters : pc[w] = "asleep"}
     IN  \/ /\ asleep = {}
            /\ pc' = [pc EXCEPT ![s] = "idle"]
         \/ \E w \in asleep : pc' = [pc EXCEPT ![s] = "idle", ![w] = "lock"]
  /\ UNCHANGED <<m_flag, expired>>

Reset(s) ==
  /\ pc[s] = "idle"
  /\ m_flag' = FALSE
  /\ UNCHANGED <<m_mutex, pc, expired>>

-----------------------------------------------------------------------------
\* Wait() and WaitFor(): the attempt before the mutex.
WaitFast(w) ==
  \/ /\ pc[w] = "idle"
     /\ TestAndClear
     /\ UNCHANGED <<m_mutex, pc, expired>>
  \/ /\ ~ m_flag
     /\ Goto(w, "idle", "lock")
     /\ expired' = [expired EXCEPT ![w] = FALSE]
     /\ UNCHANGED <<m_flag, m_mutex>>

\* unique_lock's constructor, and the reacquisition at the end of each wait.
WaitLock(w) ==
  /\ Goto(w, "lock", "check")
  /\ AcquireMutex(w)
  /\ UNCHANGED <<m_flag, expired>>

\* Variant: the predicate is IsSet(), so the event is not consumed.
WaitCheck_KeepFlag(w) ==
  /\ m_flag
  /\ Goto(w, "check", "idle")
  /\ m_mutex' = NoThread
  /\ UNCHANGED <<m_flag, expired>>

\* The predicate, evaluated under the mutex.  An expired WaitFor() returns
\* whatever the predicate says; otherwise a false predicate leads to sleep.
WaitCheck(w) ==
  /\ UNCHANGED expired
  /\ \/ /\ TestAndClear
        /\ Goto(w, "check", "idle")
        /\ m_mutex' = NoThread
     \/ /\ ~ m_flag
        /\ expired[w]
        /\ Goto(w, "check", "idle")
        /\ m_mutex' = NoThread
        /\ UNCHANGED m_flag
     \/ /\ ~ m_flag
        /\ ~ expired[w]
        /\ Goto(w, "check", "sleep")
        /\ UNCHANGED <<m_flag, m_mutex>>

\* condition_variable::wait() releases the mutex and sleeps in one step.
WaitSleep(w) ==
  /\ Goto(w, "sleep", "asleep")
  /\ m_mutex' = NoThread
  /\ UNCHANGED <<m_flag, expired>>

\* A condition variable may wake up with nobody having notified it.
WakeSpuriously(w) ==
  /\ Goto(w, "asleep", "lock")
  /\ UNCHANGED <<m_flag, m_mutex, expired>>

\* Variant: Wait() implemented with a timeout as well.
Timeout_Always(w) ==
  /\ Goto(w, "asleep", "lock")
  /\ expired' = [expired EXCEPT ![w] = TRUE]
  /\ UNCHANGED <<m_flag, m_mutex>>

Timeout(w) ==
  /\ w \in TimedWaiters
  /\ Goto(w, "asleep", "lock")
  /\ expired' = [expired EXCEPT ![w] = TRUE]
  /\ UNCHANGED <<m_flag, m_mutex>>

-----------------------------------------------------------------------------
SetterStep(s) == SetFlag(s) \/ SetLock(s) \/ SetNotify(s) \/ Reset(s)

WaiterStep(w) ==
  \/ WaitFast(w) \/ WaitLock(w) \/ WaitCheck(w) \/ WaitSleep(w)
  \/ WakeSpuriously(w) \/ Timeout(w)

Next ==
  \/ \E s \in Setters : SetterStep(s)
  \/ \E w \in Waiters : WaiterStep(w)

SafetySpec == Init /\ [][Next]_vars

\* A thread inside Set() or Wait() keeps running; nobody is obliged to call
\* either of them, and spurious wakeups and timeouts may never come.
Fairness ==
  /\ \A s \in Setters : WF_vars(SetLock(s)) /\ WF_vars(SetNotify(s))
  /\ \A w \in Waiters :
       WF_vars(WaitLock(w)) /\ WF_vars(WaitCheck(w)) /\ WF_vars(WaitSleep(w))

Spec == SafetySpec /\ Fairness

-----------------------------------------------------------------------------
\* Whoever is past its acquisition of the mutex, and only they, own it.
MutexInv ==
  \A t \in Threads : pc[t] \in {"notify", "check", "sleep"} <=> m_mutex = t

\* Somebody will still look at the flag: a setter that has to notify, or a
\* waiter on its way to the predicate.
WakeupPending ==
  \/ \E s \in Setters : pc[s] \in {"lock", "notify"}
  \/ \E w \in Waiters : pc[w] \in {"lock", "check"}

(* No lost wakeup.  Set() raises the flag outside the mutex and skips the   *)
(* notification when the flag is up already, and a notification wakes one   *)
(* thread only; still no waiter is asleep, or about to be, on a raised flag *)
(* that everybody else is done with.                                        *)
NoLostWakeup ==
  m_flag /\ (\E w \in Waiters : pc[w] \in {"sleep", "asleep"}) => WakeupPending

-----------------------------------------------------------------------------
\* The threads that AutoResetEvent sees inside Wait() or WaitFor().
waiting == {w \in Waiters : pc[w] # "idle"}

Abs == INSTANCE AutoResetEvent WITH flag <- m_flag

(* Event implements the auto-reset event its users rely on: one Set() lets  *)
(* at most one Wait() return, only WaitFor() returns empty-handed, and an   *)
(* event that stays set does not leave its waiters asleep.                  *)
ImplementsAutoResetEvent == Abs!Spec

=============================================================================
