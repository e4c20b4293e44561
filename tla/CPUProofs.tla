----------------------------- MODULE CPUProofs -----------------------------
(***************************************************************************)
(* Proofs about CPU: type correctness, the exclusive access of a host that *)
(* holds the lock, that no step event is lost, and, as long as no store at *)
(* a breakpoint has overtaken another, that a Break() holds and that the   *)
(* FIFO and the audio run along with the CPU.                              *)
(***************************************************************************)
EXTENDS CPU, TLAPS

Locking == {"lockIdle", "locked", "frozen", "unlock"}

(* Who may do what: a host that pauses or locks owns the stepping lock, and *)
(* the CPU is paused while a host locks it; a host that did not give the    *)
(* lock back owns it for ever.  While a host holds the lock the CPU thread  *)
(* is not active.                                                           *)
LockInv ==
  /\ \A h \in Hosts : pc[h] \in Locking \cup {"pauseIdle"} => s_stepping_lock = h
  /\ \A h \in Hosts : pc[h] \in Locking => s_state_paused_and_locked
  /\ s_state_paused_and_locked => s_stepping_lock \in Hosts /\ pc[s_stepping_lock] # "pauseIdle"
ActiveInv == \A h \in Hosts : Holds(h) => ~ s_state_cpu_thread_active

(* What may be set running, unless a store at a breakpoint has overtaken    *)
(* another: nothing while a host pauses, locks or stops the CPU, and a      *)
(* Break() during a lock that found the CPU running is noted.  While the    *)
(* CPU thread steps over a breakpoint, nobody has asked for anything.       *)
RunInv ==
  /\ s_state_paused_and_locked => s_state # "Running"
  /\ \A h \in Hosts : pc[h] = "pauseIdle" => s_state # "Running"
  /\ \A h \in Hosts : pc[h] = "stopIdle" => s_state = "PowerDown"
BreakpointInv ==
  cpu = "bpStep" =>
    /\ s_state = "Stepping"
    /\ ~ s_state_paused_and_locked
    /\ ~ broken
    /\ adjacent \/ s_is_stopping
    /\ \A h \in Hosts : pc[h] \notin {"pauseIdle", "stopIdle"}
BreakInv ==
  \A h \in Hosts :
    pc[h] \in Locking /\ was_unpaused[h] /\ broken => s_state_system_request_stepping

-----------------------------------------------------------------------------
(* Where the CPU thread gets to when it goes on: it executes only if no     *)
(* host locks it.                                                           *)
Active == {"bpCheck", "singleStep"}
Landing == {"off", "waitPaused", "waitStep"} \cup Active
MayLand(p) == p \in Landing /\ (s_state_paused_and_locked => p \notin Active)

LEMMA Places ==
  ASSUME s_state \in States, s_state_paused_and_locked \in BOOLEAN, NEW b \in BOOLEAN
  PROVE  MayLand(AtTop(b)) /\ (~ s_state_paused_and_locked => MayLand(AtSwitch(b)))
BY DEF AtTop, AtSwitch, MayLand, Landing, Active, States

LEMMA PlacesConst ==
  ASSUME TypeOK
  PROVE  MayLand(AtTop(TRUE)) /\ MayLand(AtTop(FALSE)) /\ MayLand("waitPaused") /\ MayLand("waitStep")
<1>1. TRUE \in BOOLEAN /\ FALSE \in BOOLEAN
  OBVIOUS
<1>2. MayLand(AtTop(TRUE)) /\ MayLand(AtTop(FALSE))
  BY <1>1, Places DEF TypeOK
<1>3. MayLand("waitPaused") /\ MayLand("waitStep")
  BY DEF MayLand, Landing, Active
<1> QED
  BY <1>2, <1>3

(* What a step of the CPU thread does to what the hosts see.                *)
Untouched == UNCHANGED outside
Lands == UNCHANGED state /\ \E p \in Landing : MayLand(p) /\ GoOn(p)
Executes ==
  /\ cpu \in Executing \cup {"bpCheck"}
  /\ cpu' \in Executing \cup {"relock", "relockStep"}
  /\ UNCHANGED s_state_cpu_thread_active
  /\ \/ cpu' # "bpStep" /\ UNCHANGED state
     \/ AtBreakpoint
     \/ AfterBreakpoint
  /\ s_state' \in States
  /\ overtaken' \in BOOLEAN
WakesUp ==
  /\ cpu \in Asleep
  /\ cpu' \in {"testPaused", "testStep"}
  /\ UNCHANGED <<state, s_state_cpu_thread_active>>

LEMMA CpuMoves ==
  ASSUME TypeOK, CpuStep \/ SpuriousWakeup
  PROVE  Untouched /\ (Lands \/ Executes \/ WakesUp)
<1> USE DEF Untouched
<1>1. ASSUME NEW p, MayLand(p), GoOn(p), UNCHANGED state PROVE Lands
  BY <1>1 DEF Lands, MayLand
<1>2. CASE CpuStart \/ Relock
  BY <1>1, <1>2, Places DEF CpuStart, Relock, TypeOK
<1>3. CASE TestPaused
  BY <1>1, <1>3, Places, PlacesConst DEF TestPaused, TypeOK
<1>4. CASE TestStep
  <2>1. GoOn("waitStep") \/ GoOn(AtTop(TRUE))
    BY <1>4 DEF TestStep, TypeOK
  <2>2. Untouched /\ UNCHANGED state
    BY <1>4 DEF TestStep
  <2> QED
    BY <1>1, <2>1, <2>2, PlacesConst
<1>5. CASE ModeChanged \/ RelockStep
  <2>1. Untouched /\ GoOn(AtTop(FALSE)) /\ UNCHANGED state
    BY <1>5 DEF ModeChanged, RelockStep
  <2> QED
    BY <1>1, <2>1, PlacesConst
<1>6. CASE NoBreakpointHere \/ RunLoopReturns \/ SingleStepReturns
  BY <1>6 DEF NoBreakpointHere, RunLoopReturns, SingleStepReturns, state, Executes, Executing, TypeOK
<1>8. CASE AtBreakpoint
  BY <1>8 DEF AtBreakpoint, Executes, Executing, TypeOK, States
<1>9. CASE AfterBreakpoint
  BY <1>9 DEF AfterBreakpoint, Executes, Executing, TypeOK, States
<1>7. CASE SpuriousWakeup
  BY <1>7 DEF SpuriousWakeup, NotifyCpu, Asleep, WakesUp
<1> QED
  BY <1>2, <1>3, <1>4, <1>5, <1>6, <1>7, <1>8, <1>9 DEF CpuStep

(* The bookkeeping of single steps that goes on beside it.                  *)
LEMMA StepTypes ==
  ASSUME TypeOK, CpuStep \/ SpuriousWakeup
  PROVE  /\ s_state_cpu_step_instruction' \in BOOLEAN
         /\ s_state_cpu_step_instruction_sync' \in Hosts \cup {NoHost}
         /\ waiting' \subseteq Hosts
<1>1. UNCHANGED step \/ FlushStepSyncEventLocked
  BY DEF CpuStep, SpuriousWakeup, CpuStart, TestPaused, TestStep, ModeChanged, NoBreakpointHere,
     AtBreakpoint, AfterBreakpoint, RunLoopReturns, Relock, SingleStepReturns, RelockStep
<1> QED
  BY <1>1 DEF TypeOK, FlushStepSyncEventLocked, step

LEMMA GoOnTypes ==
  ASSUME NEW p, GoOn(p)
  PROVE  cpu' = p /\ s_state_cpu_thread_active' \in BOOLEAN
         /\ (s_state_cpu_thread_active' <=> p \in Active)
<1>1. cpu' = p /\ s_state_cpu_thread_active' = (p \in Active)
  BY Zenon DEF GoOn, Active
<1>2. CASE p \in Active
  BY <1>1, <1>2, Zenon
<1>3. CASE p \notin Active
  <2>1. (p \in Active) = FALSE
    BY <1>3
  <2>2. s_state_cpu_thread_active' = FALSE
    BY <1>1, <2>1, Zenon
  <2> QED
    BY <1>1, <1>3, <2>2
<1> QED
  BY <1>2, <1>3

\* Notifying the CPU thread does not make it active.
LEMMA NotifyTypes ==
  ASSUME TypeOK, NotifyCpu
  PROVE  /\ cpu' \in CpuPC
         /\ cpu' \in ActivePC <=> cpu \in ActivePC
         /\ cpu' = "bpStep" <=> cpu = "bpStep"
BY DEF NotifyCpu, TypeOK, CpuPC, ActivePC, Asleep, Executing

LEMMA StoreTypes ==
  ASSUME TypeOK, NEW s \in States, SetStateLocked(s) \/ Store(s)
  PROVE  s_state' \in States /\ overtaken' \in BOOLEAN
BY DEF SetStateLocked, Store, TypeOK, state

(* One step of the CPU thread, of an emulated system or of the session      *)
(* keeps the types.                                                         *)
LEMMA TypeStepInside ==
  ASSUME TypeOK, CpuStep \/ SpuriousWakeup \/ Break \/ Boot \/ EmuThreadEnds
  PROVE  TypeOK'
<1> USE DEF state, session
<1>1. CASE CpuStep \/ SpuriousWakeup
  <2>1. Untouched /\ (Lands \/ Executes \/ WakesUp)
    BY <1>1, CpuMoves
  <2>2. /\ cpu' \in CpuPC /\ s_state_cpu_thread_active' \in BOOLEAN
        /\ s_state_cpu_thread_active' <=> cpu' \in ActivePC
        /\ s_state' \in States /\ overtaken' \in BOOLEAN
    <3>1. CASE Lands
      BY <3>1, GoOnTypes DEF Lands, Landing, Active, ActivePC, CpuPC, Executing, Asleep, TypeOK
    <3>2. CASE Executes
      BY <3>2 DEF Executes, ActivePC, CpuPC, Executing, TypeOK
    <3>3. CASE WakesUp
      BY <3>3 DEF WakesUp, ActivePC, CpuPC, Executing, Asleep, TypeOK
    <3> QED
      BY <2>1, <3>1, <3>2, <3>3
  <2> QED
    BY <1>1, <2>1, <2>2, StepTypes DEF Untouched, TypeOK, outside, locking, fake
<1>2. CASE Break
  <2>1. s_state' \in States /\ overtaken' \in BOOLEAN
    BY <1>2, StoreTypes DEF Break, States, TypeOK
  <2> QED
    BY <1>2, <2>1 DEF Break, RunAdjacentSystems, TypeOK, thread, step, fake
<1>3. CASE Boot
  BY <1>3 DEF Boot, TypeOK, States, CpuPC, ActivePC, Executing, step, locking, fake
<1>4. CASE EmuThreadEnds
  BY <1>4, StoreTypes DEF EmuThreadEnds, RunAdjacentSystems, FlushStepSyncEventLocked, TypeOK,
     States, thread, locking, fake
<1> QED
  BY <1>1, <1>2, <1>3, <1>4

(* So does one step of a host.                                              *)
LEMMA TypeStepHost ==
  ASSUME TypeOK, NEW h \in Hosts, HostCall(h) \/ HostStep(h)
  PROVE  TypeOK'
<1> DEFINE Kept == s_state' \in States /\ overtaken' \in BOOLEAN
<1> USE CpuAssumption DEF state, step, fake, locking, session, thread, outside, Move, HostPC
<1>1. CASE EnableStepping(h)
  <2>1. Kept
    BY <1>1, StoreTypes DEF EnableStepping, States
  <2> QED
    BY <1>1, <2>1 DEF EnableStepping, RunAdjacentSystems, TypeOK
<1>2. CASE SteppingEnabled(h)
  BY <1>2 DEF SteppingEnabled, RunAdjacentSystems, TypeOK
<1>3. CASE DisableStepping(h)
  <2>1. Kept
    BY <1>3, StoreTypes DEF DisableStepping, States
  <2>2. cpu' \in CpuPC /\ (cpu' \in ActivePC <=> cpu \in ActivePC)
    BY <1>3, NotifyTypes DEF DisableStepping
  <2> QED
    BY <1>3, <2>1, <2>2 DEF DisableStepping, RunAdjacentSystems, TypeOK
<1>4. ASSUME NEW s \in Styles, CallPauseAndLock(h, s) PROVE TypeOK'
  BY <1>4 DEF CallPauseAndLock, TypeOK
<1>5. CASE PauseAndLock(h)
  <2>1. Kept
    BY <1>5, StoreTypes DEF PauseAndLock, States
  <2> QED
    BY <1>5, <2>1 DEF PauseAndLock, DeclareAsCPUThread, TypeOK
<1>6. CASE PausedAndLocked(h)
  BY <1>6 DEF PausedAndLocked, DeclareAsCPUThread, TypeOK
<1>7. CASE FreezeAdjacentSystems(h) \/ MayUnlock(h) \/ CoreStop(h)
  <2>1. CASE FreezeAdjacentSystems(h)
    BY <2>1 DEF FreezeAdjacentSystems, RunAdjacentSystems, TypeOK
  <2>2. CASE MayUnlock(h)
    BY <2>2 DEF MayUnlock, TypeOK
  <2>3. CASE CoreStop(h)
    BY <2>3 DEF CoreStop, TypeOK
  <2> QED
    BY <1>7, <2>1, <2>2, <2>3
<1>8. CASE Unlock(h)
  <2>1. PICK u \in BOOLEAN, c \in BOOLEAN : UnlockWith(h, u, c)
    BY <1>8 DEF Unlock, TypeOK
  <2>2. Kept
    BY <2>1, StoreTypes DEF UnlockWith, States, TypeOK
  <2>3. cpu' \in CpuPC /\ (cpu' \in ActivePC <=> cpu \in ActivePC)
    BY <2>1, NotifyTypes DEF UnlockWith
  <2>4. adjacent' \in BOOLEAN
    BY <2>1 DEF UnlockWith, RunAdjacentSystems, TypeOK
  <2> QED
    BY <2>1, <2>2, <2>3, <2>4 DEF UnlockWith, UndeclareAsCPUThread, TypeOK
<1>9. CASE Stop(h)
  <2>1. Kept
    BY <1>9, StoreTypes DEF Stop, States
  <2>2. cpu' \in CpuPC /\ (cpu' \in ActivePC <=> cpu \in ActivePC)
    BY <1>9, NotifyTypes DEF Stop
  <2> QED
    BY <1>9, <2>1, <2>2 DEF Stop, FlushStepSyncEventLocked, RunAdjacentSystems, TypeOK
<1>10. CASE Stopped(h)
  BY <1>10 DEF Stopped, FlushStepSyncEventLocked, RunAdjacentSystems, TypeOK
<1>11. CASE StepPointless(h)
  BY <1>11 DEF StepPointless, TypeOK
<1>12. ASSUME NEW e \in {h, NoHost}, StepOpcode(h, e) PROVE TypeOK'
  <2>1. cpu' \in CpuPC /\ (cpu' \in ActivePC <=> cpu \in ActivePC)
    BY <1>12, NotifyTypes DEF StepOpcode
  <2> QED
    BY <1>12, <2>1 DEF StepOpcode, Superseded, TypeOK
<1> QED
  BY <1>1, <1>2, <1>3, <1>4, <1>5, <1>6, <1>7, <1>8, <1>9, <1>10, <1>11, <1>12
     DEF HostCall, HostStep

LEMMA TypeInit == Init => TypeOK
BY CpuAssumption DEF Init, TypeOK, States, CpuPC, ActivePC, Executing, HostPC, Styles

LEMMA TypeStep == TypeOK /\ [Next]_vars => TypeOK'
<1> SUFFICES ASSUME TypeOK, [Next]_vars PROVE TypeOK'
  OBVIOUS
<1>1. CASE UNCHANGED vars
  BY <1>1 DEF vars, state, thread, step, outside, locking, fake, session, TypeOK
<1>2. CASE Next
  BY <1>2, TypeStepInside, TypeStepHost DEF Next
<1> QED
  BY <1>1, <1>2

(* The state of CPU.cpp keeps its types.                                    *)
THEOREM TypeCorrect == SafetySpec => []TypeOK
BY TypeInit, TypeStep, PTL DEF SafetySpec

-----------------------------------------------------------------------------
LEMMA LockInit == Init => LockInv /\ ActiveInv
BY CpuAssumption DEF Init, LockInv, ActiveInv, Locking, Holds

LEMMA LockStepInside ==
  ASSUME TypeOK, LockInv, ActiveInv,
         CpuStep \/ SpuriousWakeup \/ Break \/ Boot \/ EmuThreadEnds
  PROVE  LockInv' /\ ActiveInv'
<1> USE DEF thread, outside, locking
<1>1. CASE CpuStep \/ SpuriousWakeup
  <2>1. Untouched /\ (Lands \/ Executes \/ WakesUp)
    BY <1>1, CpuMoves
  <2>2. LockInv'
    BY <2>1 DEF Untouched, LockInv
  <2>3. pc' = pc
    BY <2>1 DEF Untouched
  <2>4. CASE Lands
    <3>1. PICK p \in Landing : MayLand(p) /\ GoOn(p)
      BY <2>4 DEF Lands
    <3>2. \A h \in Hosts : Holds(h) => p \notin Active
      BY <3>1 DEF MayLand, LockInv, Holds, Locking
    <3>3. s_state_cpu_thread_active' <=> p \in Active
      BY <3>1, GoOnTypes
    <3> QED
      BY <2>2, <2>3, <3>2, <3>3 DEF ActiveInv, Holds
  <2>5. CASE Executes \/ WakesUp
    BY <2>2, <2>3, <2>5 DEF Executes, WakesUp, ActiveInv, Holds
  <2> QED
    BY <2>1, <2>2, <2>4, <2>5
<1>2. CASE Break
  BY <1>2 DEF Break, LockInv, ActiveInv, Holds
<1>3. CASE Boot \/ EmuThreadEnds
  <2>1. CASE Boot
    BY <1>3, <2>1 DEF Boot, LockInv, ActiveInv, Holds, Locking
  <2>2. CASE EmuThreadEnds
    BY <1>3, <2>2 DEF EmuThreadEnds, LockInv, ActiveInv, Holds
  <2> QED
    BY <1>3, <2>1, <2>2
<1> QED
  BY <1>1, <1>2, <1>3

LEMMA LockStepHost ==
  ASSUME TypeOK, LockInv, ActiveInv, NEW h \in Hosts, HostCall(h) \/ HostStep(h)
  PROVE  LockInv' /\ ActiveInv'
<1> USE CpuAssumption DEF TypeOK, thread, step, locking, outside, Move, LockInv, ActiveInv, Locking, Holds, HostPC
<1>1. CASE EnableStepping(h)
  BY <1>1, ZenonT(90) DEF EnableStepping
<1>2. CASE SteppingEnabled(h)
  BY <1>2 DEF SteppingEnabled
<1>3. CASE DisableStepping(h)
  BY <1>3 DEF DisableStepping
<1>4. ASSUME NEW s \in Styles, CallPauseAndLock(h, s) PROVE LockInv' /\ ActiveInv'
  BY <1>4 DEF CallPauseAndLock
<1>5. CASE PauseAndLock(h)
  BY <1>5 DEF PauseAndLock
<1>6. CASE PausedAndLocked(h)
  BY <1>6 DEF PausedAndLocked
<1>7. CASE FreezeAdjacentSystems(h) \/ MayUnlock(h) \/ CoreStop(h)
  <2>1. CASE FreezeAdjacentSystems(h)
    BY <2>1 DEF FreezeAdjacentSystems
  <2>2. CASE MayUnlock(h)
    BY <2>2 DEF MayUnlock
  <2>3. CASE CoreStop(h)
    BY <2>3 DEF CoreStop
  <2> QED
    BY <1>7, <2>1, <2>2, <2>3
<1>8. CASE Unlock(h)
  BY <1>8 DEF Unlock, UnlockWith, UndeclareAsCPUThread, MayResume
<1>9. CASE Stop(h)
  BY <1>9 DEF Stop
<1>10. CASE Stopped(h)
  BY <1>10 DEF Stopped
<1>11. CASE StepPointless(h)
  BY <1>11 DEF StepPointless
<1>12. ASSUME NEW e \in {h, NoHost}, StepOpcode(h, e) PROVE LockInv' /\ ActiveInv'
  BY <1>12 DEF StepOpcode
<1> QED
  BY <1>1, <1>2, <1>3, <1>4, <1>5, <1>6, <1>7, <1>8, <1>9, <1>10, <1>11, <1>12
     DEF HostCall, HostStep

LEMMA LockStep ==
  TypeOK /\ LockInv /\ ActiveInv /\ [Next]_vars => LockInv' /\ ActiveInv'
<1> SUFFICES ASSUME TypeOK, LockInv, ActiveInv, [Next]_vars PROVE LockInv' /\ ActiveInv'
  OBVIOUS
<1>1. CASE UNCHANGED vars
  BY <1>1 DEF vars, thread, step, outside, locking, fake, LockInv, ActiveInv, Holds
<1>2. CASE Next
  BY <1>2, LockStepInside, LockStepHost DEF Next
<1> QED
  BY <1>1, <1>2

(* The bookkeeping of CPU.cpp.                                              *)
THEOREM LockCorrect == SafetySpec => [](LockInv /\ ActiveInv)
BY TypeInit, TypeStep, LockInit, LockStep, PTL DEF SafetySpec

(* "While this lock is held, the CPU Thread will not perform any action",   *)
(* and only one host holds it (PauseAndLock, CPU.h).                        *)
THEOREM ExclusiveAccessCorrect == SafetySpec => []ExclusiveAccess
<1>1. TypeOK /\ LockInv /\ ActiveInv => ExclusiveAccess
  BY DEF TypeOK, ActivePC, LockInv, ActiveInv, ExclusiveAccess, Holds, Locking
<1> QED
  BY <1>1, TypeCorrect, LockCorrect, PTL

-----------------------------------------------------------------------------
(* As long as no store at a breakpoint overtakes another, the following is  *)
(* inductive together with LockInv.                                         *)
Undisturbed == RunInv /\ BreakpointInv /\ BreakInv /\ BreakHolds /\ AdjacentsRun
ControlInv == ~ overtaken => Undisturbed

LEMMA ControlInit == Init => ControlInv
BY DEF Init, ControlInv, Undisturbed, RunInv, BreakpointInv, BreakInv, BreakHolds, AdjacentsRun,
   Locking

\* A store that is not overtaken happens elsewhere than at a breakpoint.
LEMMA Stored ==
  ASSUME TypeOK, NEW s \in States, SetStateLocked(s) \/ Store(s), ~ overtaken'
  PROVE  /\ ~ overtaken
         /\ s_state # "PowerDown" => cpu # "bpStep" /\ s_state' = s
         /\ s_state = "PowerDown" => s_state' \in {"PowerDown", s}
BY DEF SetStateLocked, Store, TypeOK, state

LEMMA ControlStepInside ==
  ASSUME TypeOK, LockInv, ControlInv,
         CpuStep \/ SpuriousWakeup \/ Break \/ Boot \/ EmuThreadEnds
  PROVE  ControlInv'
<1> SUFFICES ASSUME ~ overtaken' PROVE Undisturbed'
  BY DEF ControlInv
<1> USE DEF state, thread, outside, locking, session, RunInv, BreakpointInv, BreakInv,
        BreakHolds, AdjacentsRun, Undisturbed, ControlInv
<1>1. CASE CpuStep \/ SpuriousWakeup
  <2>1. Untouched /\ (Lands \/ Executes \/ WakesUp)
    BY <1>1, CpuMoves
  <2>2. CASE AtBreakpoint
    <3>1. ~ overtaken /\ s_state = "Running" /\ s_state' = "Stepping"
      BY <2>2 DEF AtBreakpoint, TypeOK
    <3> QED
      BY <2>1, <3>1 DEF Untouched
  <2>3. CASE AfterBreakpoint
    BY <2>1, <2>3 DEF AfterBreakpoint, Untouched
  <2>4. CASE cpu' # "bpStep" /\ UNCHANGED state
    BY <2>1, <2>4 DEF Untouched
  <2>5. CASE Lands \/ WakesUp
    <3>1. cpu' # "bpStep" /\ UNCHANGED state
      BY <2>5, GoOnTypes DEF Lands, Landing, Active, WakesUp
    <3> QED
      BY <2>4, <3>1
  <2> QED
    BY <2>1, <2>2, <2>3, <2>4, <2>5 DEF Executes
<1>2. CASE Break
  <2>1. CASE s_state_paused_and_locked
    BY <1>2, <2>1 DEF Break, LockInv, Locking, SetStateLocked, Store
  <2>2. CASE ~ s_state_paused_and_locked
    BY <1>2, <2>2 DEF Break, SetStateLocked, Store, RunAdjacentSystems, TypeOK, LockInv
  <2> QED
    BY <2>1, <2>2
<1>3. CASE Boot
  BY <1>3 DEF Boot, LockInv, Locking
<1>4. CASE EmuThreadEnds
  BY <1>4 DEF EmuThreadEnds, Store, RunAdjacentSystems, LockInv, Locking
<1> QED
  BY <1>1, <1>2, <1>3, <1>4

LEMMA ControlStepHost ==
  ASSUME TypeOK, LockInv, ActiveInv, ControlInv, NEW h \in Hosts, HostCall(h) \/ HostStep(h)
  PROVE  ControlInv'
<1> SUFFICES ASSUME ~ overtaken' PROVE Undisturbed'
  BY DEF ControlInv
<1>a. cpu = "bpStep" => s_state_cpu_thread_active
  BY DEF TypeOK, ActivePC, Executing
<1> USE CpuAssumption, <1>a DEF TypeOK, state, thread, step, locking, session, outside, Move,
        LockInv, ActiveInv, Holds, Locking, HostPC, RunInv, BreakpointInv, BreakInv, BreakHolds,
        AdjacentsRun, Undisturbed, ControlInv, SetStateLocked, Store, RunAdjacentSystems
<1>1. CASE EnableStepping(h)
  BY <1>1 DEF EnableStepping
<1>2. CASE SteppingEnabled(h)
  BY <1>2 DEF SteppingEnabled
<1>3. CASE DisableStepping(h)
  BY <1>3, NotifyTypes DEF DisableStepping
<1>4. ASSUME NEW s \in Styles, CallPauseAndLock(h, s) PROVE Undisturbed'
  BY <1>4 DEF CallPauseAndLock
<1>5. CASE PauseAndLock(h)
  BY <1>5 DEF PauseAndLock
<1>6. CASE PausedAndLocked(h)
  BY <1>6 DEF PausedAndLocked
<1>7. CASE FreezeAdjacentSystems(h) \/ MayUnlock(h) \/ CoreStop(h)
  BY <1>7 DEF FreezeAdjacentSystems, MayUnlock, CoreStop
<1>8. CASE Unlock(h)
  BY <1>8, NotifyTypes DEF Unlock, UnlockWith, UndeclareAsCPUThread, MayResume
<1>9. CASE Stop(h)
  BY <1>9, NotifyTypes DEF Stop
<1>10. CASE Stopped(h)
  BY <1>10 DEF Stopped
<1>11. CASE StepPointless(h)
  BY <1>11 DEF StepPointless
<1>12. ASSUME NEW e \in {h, NoHost}, StepOpcode(h, e) PROVE Undisturbed'
  BY <1>12, NotifyTypes DEF StepOpcode
<1> QED
  BY <1>1, <1>2, <1>3, <1>4, <1>5, <1>6, <1>7, <1>8, <1>9, <1>10, <1>11, <1>12
     DEF HostCall, HostStep

LEMMA ControlStep ==
  TypeOK /\ LockInv /\ ActiveInv /\ ControlInv /\ [Next]_vars => ControlInv'
<1> SUFFICES ASSUME TypeOK, LockInv, ActiveInv, ControlInv, [Next]_vars PROVE ControlInv'
  OBVIOUS
<1>1. CASE UNCHANGED vars
  BY <1>1 DEF vars, state, thread, step, outside, locking, fake, session, ControlInv, Undisturbed,
     RunInv, BreakpointInv, BreakInv, BreakHolds, AdjacentsRun
<1>2. CASE Next
  BY <1>2, ControlStepInside, ControlStepHost DEF Next
<1> QED
  BY <1>1, <1>2

LEMMA ControlCorrect == SafetySpec => []ControlInv
BY TypeInit, TypeStep, LockInit, LockStep, ControlInit, ControlStep, PTL DEF SafetySpec

(* Break() is undone only by EnableStepping(false), whatever locks and      *)
(* unlocks the hosts do meanwhile, or by a store at a breakpoint.           *)
THEOREM BreakHoldsCorrect == SafetySpec => []BreakHolds
<1>1. ControlInv => BreakHolds
  BY DEF ControlInv, Undisturbed, BreakHolds
<1> QED
  BY <1>1, ControlCorrect, PTL

(* While the CPU is running, so are the FIFO and the audio, until           *)
(* Core::Stop() begins.                                                     *)
THEOREM AdjacentsRunCorrect == SafetySpec => []AdjacentsRun
<1>1. ControlInv => AdjacentsRun
  BY DEF ControlInv, Undisturbed, AdjacentsRun
<1> QED
  BY <1>1, ControlCorrect, PTL

-----------------------------------------------------------------------------
(* The Event that StepOpcode() is given.                                    *)
LEMMA EventsSettled ==
  ASSUME NoEventLost, FlushStepSyncEventLocked
  PROVE  NoEventLost'
BY DEF NoEventLost, FlushStepSyncEventLocked

LEMMA EventsKept ==
  ASSUME NoEventLost, UNCHANGED step
  PROVE  NoEventLost'
BY DEF NoEventLost, step

LEMMA EventStep ==
  NoEventLost /\ [Next]_vars => NoEventLost'
<1> SUFFICES ASSUME NoEventLost, [Next]_vars PROVE NoEventLost'
  OBVIOUS
<1>1. CASE UNCHANGED vars \/ Boot \/ Break
  BY <1>1, EventsKept DEF vars, Boot, Break
<1>2. CASE CpuStep \/ SpuriousWakeup \/ EmuThreadEnds
  <2>1. UNCHANGED step \/ FlushStepSyncEventLocked
    BY <1>2 DEF CpuStep, SpuriousWakeup, CpuStart, TestPaused, TestStep, ModeChanged,
       NoBreakpointHere, AtBreakpoint, AfterBreakpoint, RunLoopReturns, Relock,
       SingleStepReturns, RelockStep, EmuThreadEnds
  <2> QED
    BY <2>1, EventsKept, EventsSettled
<1>3. ASSUME NEW h \in Hosts, HostCall(h) \/ HostStep(h) PROVE NoEventLost'
  <2>1. CASE StepPointless(h)
    BY <2>1 DEF StepPointless, NoEventLost
  <2>2. ASSUME NEW e \in {h, NoHost}, StepOpcode(h, e) PROVE NoEventLost'
    BY <2>2 DEF StepOpcode, Superseded, NoEventLost
  <2>3. CASE Stop(h) \/ Stopped(h)
    BY <2>3, EventsKept, EventsSettled DEF Stop, Stopped, step
  <2>4. CASE \/ EnableStepping(h) \/ DisableStepping(h) \/ CoreStop(h)
             \/ \E s \in Styles : CallPauseAndLock(h, s)
             \/ SteppingEnabled(h) \/ PauseAndLock(h) \/ PausedAndLocked(h)
             \/ FreezeAdjacentSystems(h) \/ MayUnlock(h) \/ Unlock(h)
    BY <2>4, EventsKept DEF EnableStepping, DisableStepping, CoreStop, CallPauseAndLock,
       PauseAndLock, SteppingEnabled, PausedAndLocked, FreezeAdjacentSystems, MayUnlock, Unlock,
       UnlockWith
  <2> QED
    BY <1>3, <2>1, <2>2, <2>3, <2>4 DEF HostCall, HostStep
<1> QED
  BY <1>1, <1>2, <1>3 DEF Next

(* Whoever steps, supersedes another's step, stops or changes the mode: the *)
(* Event given to StepOpcode() is set, or is the one the CPU still holds    *)
(* (s_state_cpu_step_instruction_sync).                                     *)
THEOREM NoEventLostCorrect == SafetySpec => []NoEventLost
<1>1. Init => NoEventLost
  BY DEF Init, NoEventLost
<1> QED
  BY <1>1, EventStep, PTL DEF SafetySpec
=============================================================================
