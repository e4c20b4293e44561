-------------------------------- MODULE CPU --------------------------------
(***************************************************************************)
(* The control of the emulated CPU (Source/Core/Core/HW/CPU.cpp): the CPU  *)
(* thread's loop CPU::Run, the calls by which host threads pause, resume,  *)
(* step, lock and stop it, and the Break by which an emulated system stops *)
(* it from the inside; around it, what Core::Stop and Core::PauseAndLock   *)
(* (Core.cpp) do before and after they call it.                            *)
(*                                                                         *)
(* All of CPU.cpp runs under s_state_change_lock, but for the stretches in *)
(* which the CPU thread executes instructions, so a stretch between two    *)
(* acquisitions of that lock is one step here.  A wait on a condition      *)
(* variable releases the lock: the CPU thread then sleeps until it is      *)
(* notified, a host tests s_state_cpu_thread_active again every 100 ms.    *)
(***************************************************************************)
EXTENDS Integers

CONSTANTS
  Hosts,            \* threads that control the CPU from outside
  CpuThread,        \* the thread that calls Run()
  Steppers,         \* hosts that call StepOpcode()
  NoHost            \* "no host"; also the null Event pointer

ASSUME CpuAssumption ==
  /\ CpuThread \notin Hosts
  /\ NoHost \notin Hosts
  /\ Steppers \subseteq Hosts

VARIABLES
  s_state,
  s_state_cpu_thread_active,
  s_state_paused_and_locked,
  s_state_system_request_stepping,
  s_state_cpu_step_instruction,
  s_state_cpu_step_instruction_sync,   \* the host whose Event is to be set
  s_stepping_lock,                     \* the owner of the mutex
  s_have_fake_cpu_thread,
  isCpuThread,      \* tls_is_cpu_thread: the threads it is true of (Core.cpp)
  s_is_stopping,    \* Core::Stop() has begun (Core.cpp)
  s_hardware_initialized,   \* EmuThread is between HW::Init and HW::Shutdown
  adjacent,         \* the FIFO is running, and with it the audio stream
  cpu,              \* where the CPU thread is in Run()
  pc,               \* what each host is doing
  style,            \* which PauseAndLock(true) each host made last
  was_unpaused,     \* what it returned
  waiting,          \* ghost: hosts whose Event, passed to StepOpcode(), is not set yet
  broken,           \* ghost: a Break() has not been answered by a resume
  overtaken         \* ghost: this session, the CPU thread's stores at a breakpoint
                    \* overwrite what another thread has stored under the lock

state == <<s_state, overtaken>>
thread == <<cpu, s_state_cpu_thread_active>>
step == <<s_state_cpu_step_instruction, s_state_cpu_step_instruction_sync, waiting>>
fake == <<s_have_fake_cpu_thread, isCpuThread>>
locking == <<s_state_paused_and_locked, s_state_system_request_stepping, fake, style,
             was_unpaused>>
session == <<s_is_stopping, s_hardware_initialized>>
outside == <<s_stepping_lock, locking, session, adjacent, pc, broken>>
vars == <<state, thread, step, outside>>

States == {"Running", "Stepping", "PowerDown"}
Asleep == {"waitPaused", "waitStep"}
Executing == {"bpStep", "runLoop", "singleStep"}
ActivePC == Executing \cup {"bpCheck", "relock", "relockStep"}
CpuPC == {"off", "start", "testPaused", "testStep", "bpCheck", "relock", "relockStep"}
           \cup Asleep \cup Executing
Styles == {"core", "debugger"}
HostPC == {"idle", "pauseIdle", "lock", "lockIdle", "locked", "frozen", "unlock",
           "stop", "stopIdle"}

(* Types; with them, that s_state_cpu_thread_active, for which hosts wait,  *)
(* tells whether the CPU thread is between taking and giving back the CPU.  *)
TypeOK ==
  /\ s_state \in States
  /\ s_state_cpu_thread_active \in BOOLEAN
  /\ s_state_paused_and_locked \in BOOLEAN
  /\ s_state_system_request_stepping \in BOOLEAN
  /\ s_state_cpu_step_instruction \in BOOLEAN
  /\ s_state_cpu_step_instruction_sync \in Hosts \cup {NoHost}
  /\ s_stepping_lock \in Hosts \cup {NoHost}
  /\ s_have_fake_cpu_thread \in BOOLEAN
  /\ isCpuThread \subseteq Hosts \cup {CpuThread}
  /\ s_is_stopping \in BOOLEAN
  /\ s_hardware_initialized \in BOOLEAN
  /\ adjacent \in BOOLEAN
  /\ cpu \in CpuPC
  /\ s_state_cpu_thread_active <=> cpu \in ActivePC
  /\ pc \in [Hosts -> HostPC]
  /\ style \in [Hosts -> Styles]
  /\ was_unpaused \in [Hosts -> BOOLEAN]
  /\ waiting \subseteq Hosts
  /\ broken \in BOOLEAN
  /\ overtaken \in BOOLEAN

Init ==
  /\ s_state = "PowerDown"
  /\ s_state_cpu_thread_active = FALSE
  /\ s_state_paused_and_locked = FALSE
  /\ s_state_system_request_stepping = FALSE
  /\ s_state_cpu_step_instruction = FALSE
  /\ s_state_cpu_step_instruction_sync = NoHost
  /\ s_stepping_lock = NoHost
  /\ s_have_fake_cpu_thread = FALSE
  /\ isCpuThread = {CpuThread}
  /\ s_is_stopping = FALSE
  /\ s_hardware_initialized = FALSE
  /\ adjacent = FALSE
  /\ cpu = "off"
  /\ pc = [h \in Hosts |-> "idle"]
  /\ style = [h \in Hosts |-> "core"]
  /\ was_unpaused = [h \in Hosts |-> FALSE]
  /\ waiting = {}
  /\ broken = FALSE
  /\ overtaken = FALSE

IsStepping == s_state = "Stepping"

\* Core::IsRunning()
IsRunning == s_hardware_initialized /\ ~ s_is_stopping

\* A store under the lock.  Where the CPU thread steps over a breakpoint, it
\* will store Running without looking.
Store(s) ==
  /\ s_state' = s
  /\ overtaken' = (overtaken \/ cpu = "bpStep")

\* PowerDown is final.
SetStateLocked(s) == IF s_state = "PowerDown" THEN UNCHANGED state ELSE Store(s)

\* Variant: the notification is left out.
NotifyCpu_Lost == UNCHANGED cpu

\* s_state_cpu_cvar.notify_one(): only the CPU thread ever waits there.
NotifyCpu ==
  cpu' = CASE cpu = "waitPaused" -> "testPaused"
           [] cpu = "waitStep" -> "testStep"
           [] OTHER -> cpu

FlushStepSyncEventLocked ==
  /\ waiting' = waiting \ {s_state_cpu_step_instruction_sync}
  /\ s_state_cpu_step_instruction_sync' = NoHost
  /\ s_state_cpu_step_instruction' = FALSE

RunAdjacentSystems(running) == adjacent' = running

-----------------------------------------------------------------------------
(* A session: CPU::Init() while nothing runs, then a new CPU thread.        *)
Boot ==
  /\ cpu = "off"
  /\ ~ s_hardware_initialized
  /\ \A h \in Hosts : pc[h] = "idle"
  /\ s_state' = "Stepping"
  /\ cpu' = "start"
  /\ s_hardware_initialized' = TRUE
  /\ broken' = FALSE
  /\ overtaken' = FALSE
  /\ UNCHANGED <<s_state_cpu_thread_active, step, s_stepping_lock, locking, s_is_stopping,
                 adjacent, pc>>

(* EmuThread has joined the CPU thread: HW::Shutdown() calls CPU::Stop()    *)
(* once more, and the next session may be booted.                           *)
EmuThreadEnds ==
  /\ cpu = "off"
  /\ s_hardware_initialized
  /\ Store("PowerDown")
  /\ RunAdjacentSystems(FALSE)
  /\ FlushStepSyncEventLocked
  /\ s_hardware_initialized' = FALSE
  /\ s_is_stopping' = FALSE
  /\ UNCHANGED <<thread, s_stepping_lock, locking, pc, broken>>

(* Run(): where the CPU thread gets to before it next releases the lock,    *)
(* from the switch and from the top of the loop; stepping is the value of   *)
(* s_state_cpu_step_instruction by then.                                    *)
AtSwitch(stepping) ==
  CASE s_state = "Running" -> "bpCheck"
    [] s_state = "Stepping" -> IF stepping THEN "singleStep" ELSE "waitStep"
    [] s_state = "PowerDown" -> "off"

AtTop(stepping) ==
  CASE s_state = "PowerDown" -> "off"
    [] s_state # "PowerDown" /\ s_state_paused_and_locked -> "waitPaused"
    [] OTHER -> AtSwitch(stepping)

\* Variant: the CPU thread does not tell when it is idle.
GoOn_Busy(p) ==
  /\ cpu' = p
  /\ s_state_cpu_thread_active' = (s_state_cpu_thread_active \/ p \in {"bpCheck", "singleStep"})

\* The CPU thread goes on to p, and is active if it is to execute there.
GoOn(p) ==
  /\ cpu' = p
  /\ s_state_cpu_thread_active' = (p \in {"bpCheck", "singleStep"})

CpuStart ==
  /\ cpu = "start"
  /\ GoOn(AtTop(s_state_cpu_step_instruction))
  /\ UNCHANGED <<state, step, outside>>

TestPaused ==
  /\ cpu = "testPaused"
  /\ GoOn(IF s_state_paused_and_locked THEN "waitPaused"
          ELSE AtSwitch(s_state_cpu_step_instruction))
  /\ UNCHANGED <<state, step, outside>>

\* The predicate of the wait for a step command, and what follows it.
TestStep ==
  /\ cpu = "testStep"
  /\ IsStepping
  /\ GoOn(CASE ~ s_state_cpu_step_instruction -> "waitStep"
            [] s_state_cpu_step_instruction -> AtTop(TRUE))
  /\ UNCHANGED <<state, step, outside>>

ModeChanged ==
  /\ cpu = "testStep"
  /\ ~ IsStepping
  /\ FlushStepSyncEventLocked
  /\ GoOn(AtTop(FALSE))
  /\ UNCHANGED <<state, outside>>

\* The condition variable may wake the thread up without a notification.
SpuriousWakeup ==
  /\ cpu \in Asleep
  /\ NotifyCpu
  /\ UNCHANGED <<state, s_state_cpu_thread_active, step, outside>>

(* case State::Running, without the lock.  At a breakpoint s_state is       *)
(* written twice, around the instruction that is stepped over.              *)
NoBreakpointHere ==
  /\ cpu = "bpCheck"
  /\ cpu' = "runLoop"
  /\ UNCHANGED <<state, s_state_cpu_thread_active, step, outside>>

AtBreakpoint ==
  /\ cpu = "bpCheck"
  /\ cpu' = "bpStep"
  /\ s_state' = "Stepping"
  /\ overtaken' = (overtaken \/ s_state # "Running")
  /\ UNCHANGED <<s_state_cpu_thread_active, step, outside>>

AfterBreakpoint ==
  /\ cpu = "bpStep"
  /\ cpu' = "runLoop"
  /\ s_state' = "Running"
  /\ UNCHANGED <<overtaken, s_state_cpu_thread_active, step, outside>>

\* PowerPC::RunLoop() runs while the state is Running.
RunLoopReturns ==
  /\ cpu = "runLoop"
  /\ s_state # "Running"
  /\ cpu' = "relock"
  /\ UNCHANGED <<state, s_state_cpu_thread_active, step, outside>>

Relock ==
  /\ cpu = "relock"
  /\ GoOn(AtTop(s_state_cpu_step_instruction))
  /\ UNCHANGED <<state, step, outside>>

SingleStepReturns ==
  /\ cpu = "singleStep"
  /\ cpu' = "relockStep"
  /\ UNCHANGED <<state, s_state_cpu_thread_active, step, outside>>

RelockStep ==
  /\ cpu = "relockStep"
  /\ FlushStepSyncEventLocked
  /\ GoOn(AtTop(FALSE))
  /\ UNCHANGED <<state, outside>>

CpuStep ==
  \/ CpuStart \/ TestPaused \/ TestStep \/ ModeChanged
  \/ NoBreakpointHere \/ AtBreakpoint \/ AfterBreakpoint
  \/ RunLoopReturns \/ Relock \/ SingleStepReturns \/ RelockStep

-----------------------------------------------------------------------------
Move(h, from, to) ==
  /\ pc[h] = from
  /\ pc' = [pc EXCEPT ![h] = to]

(* EnableStepping(true): the stepping lock is held while the host waits for *)
(* the CPU thread to become idle.                                           *)
EnableStepping(h) ==
  /\ s_stepping_lock = NoHost
  /\ SetStateLocked("Stepping")
  /\ IF s_state_cpu_thread_active
     THEN Move(h, "idle", "pauseIdle") /\ s_stepping_lock' = h /\ UNCHANGED adjacent
     ELSE Move(h, "idle", "idle") /\ RunAdjacentSystems(FALSE) /\ UNCHANGED s_stepping_lock
  /\ UNCHANGED <<thread, step, locking, session, broken>>

SteppingEnabled(h) ==
  /\ Move(h, "pauseIdle", "idle")
  /\ ~ s_state_cpu_thread_active
  /\ RunAdjacentSystems(FALSE)
  /\ s_stepping_lock' = NoHost
  /\ UNCHANGED <<state, thread, step, locking, session, broken>>

(* EnableStepping(false)                                                    *)
DisableStepping(h) ==
  /\ pc[h] = "idle"
  /\ s_stepping_lock = NoHost
  /\ s_state # "PowerDown"
  /\ SetStateLocked("Running")
  /\ NotifyCpu
  /\ RunAdjacentSystems(TRUE)
  /\ broken' = FALSE
  /\ UNCHANGED <<s_state_cpu_thread_active, step, s_stepping_lock, locking, session, pc>>

(* Break(), called by an emulated system on whichever thread runs it.       *)
Break ==
  /\ broken' = (broken \/ s_state # "PowerDown")
  /\ \/ /\ s_state_paused_and_locked
        /\ s_state_system_request_stepping' = TRUE
        /\ UNCHANGED <<state, adjacent>>
     \/ /\ ~ s_state_paused_and_locked
        /\ SetStateLocked("Stepping")
        /\ RunAdjacentSystems(FALSE)
        /\ UNCHANGED s_state_system_request_stepping
  /\ UNCHANGED <<thread, step, s_stepping_lock, s_state_paused_and_locked, fake, style,
                 was_unpaused, session, pc>>

(* PauseAndLock(true, ..): every caller leaves control_adjacent FALSE.      *)
DeclareAsCPUThread(h) ==
  /\ s_have_fake_cpu_thread' = (s_have_fake_cpu_thread \/ h \notin isCpuThread)
  /\ isCpuThread' = isCpuThread \cup {h}

\* Core::PauseAndLock() does nothing when the core is not running; the debugger
\* calls CPU::PauseAndLock() itself.
CallPauseAndLock(h, s) ==
  /\ s = "core" => IsRunning
  /\ Move(h, "idle", "lock")
  /\ style' = [style EXCEPT ![h] = s]
  /\ UNCHANGED <<state, thread, step, s_stepping_lock, s_state_paused_and_locked,
                 s_state_system_request_stepping, fake, was_unpaused, session, adjacent, broken>>

PauseAndLock(h) ==
  /\ s_stepping_lock = NoHost
  /\ s_stepping_lock' = h
  /\ s_state_paused_and_locked' = TRUE
  /\ was_unpaused' = [was_unpaused EXCEPT ![h] = (s_state = "Running")]
  /\ SetStateLocked("Stepping")
  /\ IF s_state_cpu_thread_active
     THEN Move(h, "lock", "lockIdle") /\ UNCHANGED fake
     ELSE Move(h, "lock", "locked") /\ DeclareAsCPUThread(h)
  /\ UNCHANGED <<thread, step, s_state_system_request_stepping, style, session, adjacent, broken>>

\* Variant: the caller does not wait for the CPU thread.
PausedAndLocked_NoWait(h) ==
  /\ Move(h, "lockIdle", "locked")
  /\ DeclareAsCPUThread(h)
  /\ UNCHANGED <<state, thread, step, s_stepping_lock, s_state_paused_and_locked,
                 s_state_system_request_stepping, style, was_unpaused, session, adjacent, broken>>

PausedAndLocked(h) ==
  /\ Move(h, "lockIdle", "locked")
  /\ ~ s_state_cpu_thread_active
  /\ DeclareAsCPUThread(h)
  /\ UNCHANGED <<state, thread, step, s_stepping_lock, s_state_paused_and_locked,
                 s_state_system_request_stepping, style, was_unpaused, session, adjacent, broken>>

(* Core::PauseAndLock(true) goes on to pause the DSP and the FIFO.          *)
FreezeAdjacentSystems(h) ==
  /\ Move(h, "locked", "frozen")
  /\ style[h] = "core"
  /\ RunAdjacentSystems(FALSE)
  /\ UNCHANGED <<state, thread, step, s_stepping_lock, locking, session, broken>>

(* PauseAndLock(false, unpause_on_unlock, control_adjacent)                 *)
UndeclareAsCPUThread(h) ==
  /\ s_have_fake_cpu_thread' = FALSE
  /\ isCpuThread' = IF s_have_fake_cpu_thread THEN isCpuThread \ {h} ELSE isCpuThread

\* Variant: a Break() during the lock is forgotten.
MayResume_Always == TRUE

MayResume == ~ s_state_system_request_stepping

UnlockWith(h, unpause_on_unlock, control_adjacent) ==
  /\ Move(h, pc[h], "idle")
  /\ UndeclareAsCPUThread(h)
  /\ s_state_system_request_stepping' = FALSE
  /\ IF MayResume /\ unpause_on_unlock THEN SetStateLocked("Running") ELSE UNCHANGED state
  /\ s_state_paused_and_locked' = FALSE
  /\ NotifyCpu
  /\ IF control_adjacent THEN RunAdjacentSystems(s_state' = "Running") ELSE UNCHANGED adjacent
  /\ s_stepping_lock' = NoHost
  /\ UNCHANGED <<s_state_cpu_thread_active, step, style, was_unpaused, session, broken>>

(* Core::PauseAndLock(false) looks at IsRunning() too: once Core::Stop() has *)
(* begun, the lock is never given back.                                     *)
MayUnlock(h) ==
  /\ Move(h, "frozen", IF IsRunning THEN "unlock" ELSE "idle")
  /\ UNCHANGED <<state, thread, step, s_stepping_lock, locking, session, adjacent, broken>>

\* Variant: the adjacent systems are left to someone else.
Unlock_NoAdjacent(h) ==
  \/ pc[h] = "unlock" /\ UnlockWith(h, was_unpaused[h], FALSE)
  \/ pc[h] = "locked" /\ style[h] = "debugger" /\ UnlockWith(h, FALSE, FALSE)

\* Core::RunAsCPUThread() resumes a CPU that it found running; the debugger's
\* "step out" leaves the CPU stopped.
Unlock(h) ==
  \/ pc[h] = "unlock" /\ UnlockWith(h, was_unpaused[h], TRUE)
  \/ pc[h] = "locked" /\ style[h] = "debugger" /\ UnlockWith(h, FALSE, FALSE)

(* Core::Stop() stops the FIFO first, and then calls CPU::Stop().           *)
CoreStop(h) ==
  /\ s_hardware_initialized
  /\ ~ s_is_stopping
  /\ s_is_stopping' = TRUE
  /\ adjacent' = FALSE
  /\ Move(h, "idle", "stop")
  /\ UNCHANGED <<state, thread, step, s_stepping_lock, locking, s_hardware_initialized,
                 broken>>

Stop(h) ==
  /\ Store("PowerDown")
  /\ NotifyCpu
  /\ IF s_state_cpu_thread_active
     THEN Move(h, "stop", "stopIdle") /\ UNCHANGED <<adjacent, step>>
     ELSE Move(h, "stop", "idle") /\ RunAdjacentSystems(FALSE) /\ FlushStepSyncEventLocked
  /\ UNCHANGED <<s_state_cpu_thread_active, s_stepping_lock, locking, session, broken>>

Stopped(h) ==
  /\ Move(h, "stopIdle", "idle")
  /\ ~ s_state_cpu_thread_active
  /\ RunAdjacentSystems(FALSE)
  /\ FlushStepSyncEventLocked
  /\ UNCHANGED <<state, thread, s_stepping_lock, locking, session, broken>>

(* StepOpcode(e), e being an Event of the host or null.                     *)
StepPointless(h) ==
  /\ h \in Steppers
  /\ pc[h] = "idle"
  /\ ~ IsStepping
  /\ waiting' = waiting \ {h}
  /\ UNCHANGED <<state, thread, s_state_cpu_step_instruction,
                 s_state_cpu_step_instruction_sync, outside>>

\* Variant: a step that was not serviced yet is forgotten.
Superseded_Lost(e) == waiting

\* A step that was not serviced yet is answered by the one that replaces it.
Superseded(e) ==
  IF s_state_cpu_step_instruction_sync = e THEN waiting
  ELSE waiting \ {s_state_cpu_step_instruction_sync}

StepOpcode(h, e) ==
  /\ h \in Steppers
  /\ pc[h] = "idle"
  /\ IsStepping
  /\ waiting' = Superseded(e) \cup ({e} \ {NoHost})
  /\ s_state_cpu_step_instruction' = TRUE
  /\ s_state_cpu_step_instruction_sync' = e
  /\ NotifyCpu
  /\ UNCHANGED <<state, s_state_cpu_thread_active, outside>>

-----------------------------------------------------------------------------
HostCall(h) ==
  \/ EnableStepping(h) \/ DisableStepping(h) \/ CoreStop(h)
  \/ \E s \in Styles : CallPauseAndLock(h, s)
  \/ StepPointless(h)
  \/ \E e \in {h, NoHost} : StepOpcode(h, e)

\* What a host inside a call, or holding the lock, goes on to do.
HostStep(h) ==
  \/ SteppingEnabled(h) \/ PauseAndLock(h) \/ PausedAndLocked(h)
  \/ FreezeAdjacentSystems(h) \/ MayUnlock(h) \/ Unlock(h)
  \/ Stop(h) \/ Stopped(h)

Next ==
  \/ Boot
  \/ EmuThreadEnds
  \/ CpuStep
  \/ SpuriousWakeup
  \/ Break
  \/ \E h \in Hosts : HostCall(h) \/ HostStep(h)

SafetySpec == Init /\ [][Next]_vars

\* The CPU thread gets on while it is awake (its RunLoop notices a change of
\* s_state), a waiting host looks again, and whoever locked goes on to unlock.
Fairness ==
  /\ WF_vars(CpuStep)
  /\ \A h \in Hosts : WF_vars(HostStep(h))

Spec == SafetySpec /\ Fairness

-----------------------------------------------------------------------------
Holds(h) == pc[h] \in {"locked", "frozen", "unlock"}

(* "While this lock is held, the CPU Thread will not perform any action so  *)
(* it is safe to access PowerPC::ppcState, CoreTiming, etc." (CPU.h).       *)
ExclusiveAccess ==
  /\ \A h, i \in Hosts : Holds(h) /\ Holds(i) => h = i
  /\ (\E h \in Hosts : Holds(h)) => cpu \notin Executing \cup {"bpCheck"}

(* A Break() is undone only by an explicit resume: neither the unlock of a  *)
(* PauseAndLock that found the CPU running, nor the CPU thread itself, sets *)
(* the CPU running again, unless the latter steps over a breakpoint at that *)
(* very moment (CPU.cpp:97).                                                *)
BreakHolds == broken /\ ~ overtaken => s_state # "Running"

(* The FIFO runs whenever the CPU does, until Core::Stop() begins: otherwise *)
(* the CPU thread may wait for a GPU thread that is told to do nothing.     *)
AdjacentsRun == s_state = "Running" /\ ~ s_is_stopping /\ ~ overtaken => adjacent

(* The Event of a StepOpcode() call that is not set yet is the one the CPU  *)
(* knows: a call that takes another's place answers it first.               *)
NoEventLost == waiting \subseteq {s_state_cpu_step_instruction_sync}

(* Every wait of a host for the CPU thread ends, if nobody keeps asking it  *)
(* for single steps and no pause, lock or stop was overwritten.             *)
StepsCease == <>[][\A h \in Hosts, e \in Hosts \cup {NoHost} : ~ StepOpcode(h, e)]_vars
WaitsEnd ==
  StepsCease /\ [](~ overtaken) =>
    \A h \in Hosts : pc[h] \in {"pauseIdle", "lockIdle", "stopIdle"} ~>
                      pc[h] \notin {"pauseIdle", "lockIdle", "stopIdle"}

(* A CPU set running executes, or is stopped again first: no notification   *)
(* of the CPU thread is lost.                                               *)
RunningRuns == s_state = "Running" ~> cpu = "runLoop" \/ s_state # "Running"

(* "Causes shutdown ... (waits for CPU::Run to exit)" (CPU.h): Stop() ends  *)
(* the CPU thread, also one that sleeps or that is locked, if debuggers do  *)
(* not keep locking it, and every host gives the lock back.  One that holds *)
(* it when Core::Stop() begins never does, as Core::PauseAndLock(false)     *)
(* finds that the core is not running (Core.cpp:779): the CPU thread then   *)
(* sleeps for ever.                                                         *)
LocksCease == <>[][\A h \in Hosts : ~ CallPauseAndLock(h, "debugger")]_vars
Abandoned == \E h \in Hosts : s_stepping_lock = h /\ pc[h] = "idle"
CpuStops ==
  LocksCease /\ [](~ Abandoned /\ ~ overtaken) => (s_state = "PowerDown" ~> cpu = "off")

=============================================================================
