----------------------------- MODULE CoreTiming -----------------------------
(***************************************************************************)
(* The scheduler of the emulated machine (Core/CoreTiming.cpp).  Events    *)
(* run at a time counted in CPU cycles.  The CPU thread executes the guest *)
(* in slices: Advance() runs the events that are due and sets the          *)
(* downcount that ends the next slice; scheduling an event from the CPU    *)
(* thread may end the slice early.  Other threads hand their events over   *)
(* in a queue that Advance() empties.  A savestate stores the clock and    *)
(* the events, first measuring, then writing them.                         *)
(***************************************************************************)
EXTENDS Integers, Sequences, FiniteSets

CONSTANTS
  Types,             \* event types
  Others,            \* threads other than the CPU thread that schedule events
  Delays,            \* cycles_into_future, from the CPU thread
  OtherDelays,       \* cycles_into_future, from the others
  MAX_SLICE_LENGTH,  \* 20000 in the code
  Factors,           \* overclocking factors, in percent
  BlockCycles,       \* what a block of guest code takes off the downcount
  MaxEvents,         \* bound: events ever scheduled
  MaxTime,           \* bound: no block starts after this time
  NoThread, NoEvent, NoState

VARIABLES
  global_timer,          \* g.global_timer: the time when the slice began
  slice_length,          \* g.slice_length
  downcount,             \* PowerPC::ppcState.downcount
  s_last_OC_factor,
  m_OCFactor,            \* what the user has configured
  s_cpu_core_clock,      \* the clock of the emulated CPU, in MHz
  s_is_global_timer_sane,
  s_event_queue,
  is_heap,               \* FALSE if equal times may have been taken out of order
  s_event_fifo_id,
  s_ts_queue,
  s_ts_write_lock,       \* the owner, or NoThread
  cpu,                   \* where the CPU thread is
  stepping,              \* it executes a single step
  evt,                   \* the event whose callback it is in, or NoEvent
  pending,               \* the event another thread is about to push
  saved,                 \* the last savestate, or NoState
  added                  \* ghost: how many events were ever added to the queue

WiiClock == 729
GCClock == 486

clock == <<global_timer, slice_length, downcount, s_is_global_timer_sane>>
factors == <<s_last_OC_factor, m_OCFactor, s_cpu_core_clock>>
queue == <<s_event_queue, is_heap, s_event_fifo_id, added>>
shared == <<s_ts_queue, s_ts_write_lock, pending>>
control == <<cpu, stepping, evt>>
vars == <<clock, factors, queue, shared, control, saved>>

(* fifo_order is 0 until the event is in s_event_queue.  "delay", "from"   *)
(* and "added" are ghosts: the arguments of ScheduleEvent(), and the rank  *)
(* of the event among all that were ever added to s_event_queue.           *)
Event == [time : Int, fifo_order : Nat, type : Types,
          delay : Int, from : Others \cup {"CPU"}, added : Nat]

SavedState == [global_timer : Int, slice_length : 0..MAX_SLICE_LENGTH, downcount : Int,
               s_last_OC_factor : Factors, s_event_fifo_id : Nat,
               s_event_queue : SUBSET Event]

ASSUME TimingAssumption ==
  /\ Delays \subseteq Int
  /\ OtherDelays \subseteq Int
  /\ MAX_SLICE_LENGTH \in Nat \ {0}
  /\ Factors \subseteq Nat \ {0}
  /\ BlockCycles \subseteq Nat
  /\ MaxEvents \in Nat
  /\ MaxTime \in Nat
  /\ NoThread \notin Others
  /\ "CPU" \notin Others
  /\ NoState \notin SavedState

TypeOK ==
  /\ global_timer \in Int
  /\ slice_length \in 0..MAX_SLICE_LENGTH
  /\ downcount \in Int
  /\ s_last_OC_factor \in Factors
  /\ m_OCFactor \in Factors
  /\ s_cpu_core_clock \in {WiiClock, GCClock}
  /\ s_is_global_timer_sane \in BOOLEAN
  /\ s_event_queue \in SUBSET Event
  /\ is_heap \in BOOLEAN
  /\ s_event_fifo_id \in Nat
  /\ s_ts_queue \in Seq(Event)
  /\ s_ts_write_lock \in Others \cup {NoThread}
  /\ cpu \in {"paused", "measured", "advance", "timer", "callbacks", "execute",
              "block", "fifoWait"}
  /\ stepping \in BOOLEAN
  /\ evt \in Event \cup {NoEvent}
  /\ pending \in [Others -> Event \cup {NoEvent}]
  /\ saved \in SavedState \cup {NoState}
  /\ added \in Nat

-----------------------------------------------------------------------------
\* static_cast<int> of a quotient: towards zero.
Quotient(a, b) == IF a >= 0 THEN a \div b ELSE - ((- a) \div b)

DowncountToCycles(d, factor) == Quotient(d * 100, factor)
CyclesToDowncount(cycles, factor) == Quotient(cycles * factor, 100)

\* The cycles left in the slice.
Remaining == DowncountToCycles(downcount, s_last_OC_factor)

GetTicks == global_timer + (IF s_is_global_timer_sane THEN 0 ELSE slice_length - Remaining)

AtLeast0(n) == IF n > 0 THEN n ELSE 0
Least(a, b) == IF a < b THEN a ELSE b

\* Variant: an event at the very end of the slice is taken to be in it.
ForceExceptionCheck_Late(cycles) ==
  IF Remaining > AtLeast0(cycles) + 1
  THEN /\ slice_length' = slice_length - (Remaining - AtLeast0(cycles))
       /\ downcount' = CyclesToDowncount(AtLeast0(cycles), s_last_OC_factor)
  ELSE UNCHANGED <<slice_length, downcount>>

ForceExceptionCheck(cycles) ==
  IF Remaining > AtLeast0(cycles)
  THEN /\ slice_length' = slice_length - (Remaining - AtLeast0(cycles))
       /\ downcount' = CyclesToDowncount(AtLeast0(cycles), s_last_OC_factor)
  ELSE UNCHANGED <<slice_length, downcount>>

\* Variant: of two events at the same time the later one goes first.
Precedes_Lifo(e, f) ==
  \/ e.time < f.time
  \/ e.time = f.time /\ (is_heap => e.fifo_order >= f.fifo_order)

\* operator<, as far as the heap still keeps to it.
Precedes(e, f) ==
  \/ e.time < f.time
  \/ e.time = f.time /\ (is_heap => e.fifo_order <= f.fifo_order)

Front(e) == e \in s_event_queue /\ \A f \in s_event_queue : Precedes(e, f)

\* The events of s_ts_queue as MoveEvents() adds them to s_event_queue.
Moved ==
  {[s_ts_queue[i] EXCEPT !.fifo_order = s_event_fifo_id + i - 1,
                         !.added = added + i] : i \in 1..Len(s_ts_queue)}

MoveEvents ==
  /\ s_event_queue' = s_event_queue \cup Moved
  /\ s_event_fifo_id' = s_event_fifo_id + Len(s_ts_queue)
  /\ added' = added + Len(s_ts_queue)
  /\ s_ts_queue' = << >>

-----------------------------------------------------------------------------
Init ==
  /\ global_timer = 0
  /\ slice_length = MAX_SLICE_LENGTH
  /\ m_OCFactor \in Factors
  /\ s_last_OC_factor = m_OCFactor
  /\ downcount = CyclesToDowncount(MAX_SLICE_LENGTH, s_last_OC_factor)
  /\ s_cpu_core_clock = WiiClock
  /\ s_is_global_timer_sane = TRUE
  /\ s_event_queue = {}
  /\ is_heap = TRUE
  /\ s_event_fifo_id = 0
  /\ s_ts_queue = << >>
  /\ s_ts_write_lock = NoThread
  /\ cpu = "paused"
  /\ stepping = FALSE
  /\ evt = NoEvent
  /\ pending = [t \in Others |-> NoEvent]
  /\ saved = NoState
  /\ added = 0

\* ScheduleEvent() would exceed the bound.
Exhausted ==
  added + Len(s_ts_queue) + Cardinality({t \in Others : pending[t] # NoEvent}) >= MaxEvents

\* The CPU thread is in code that may call the scheduler.
InBlock == cpu = "block" /\ evt = NoEvent
InCallback == evt # NoEvent

ScheduleEvent(type, cycles) ==
  /\ InBlock \/ InCallback
  /\ ~ Exhausted
  /\ IF s_is_global_timer_sane THEN UNCHANGED <<slice_length, downcount>>
                               ELSE ForceExceptionCheck(cycles)
  /\ s_event_queue' = s_event_queue \cup
       {[time |-> GetTicks + cycles, fifo_order |-> s_event_fifo_id, type |-> type,
         delay |-> cycles, from |-> "CPU", added |-> added + 1]}
  /\ s_event_fifo_id' = s_event_fifo_id + 1
  /\ added' = added + 1
  /\ UNCHANGED <<global_timer, s_is_global_timer_sane, is_heap, factors, shared, control, saved>>

\* erase() and make_heap(), if there is anything to erase.
RemoveFrom(events, type) ==
  /\ s_event_queue' = {e \in events : e.type # type}
  /\ is_heap' = (is_heap \/ s_event_queue' # events)

RemoveEvent(type) ==
  /\ InBlock \/ InCallback
  /\ RemoveFrom(s_event_queue, type)
  /\ UNCHANGED <<clock, factors, s_event_fifo_id, added, shared, control, saved>>

\* RemoveAllEvents() is called where the emulated IOS goes away.
RemoveAllEvents(type) ==
  /\ InCallback
  /\ RemoveFrom(s_event_queue \cup Moved, type)
  /\ s_event_fifo_id' = s_event_fifo_id + Len(s_ts_queue)
  /\ added' = added + Len(s_ts_queue)
  /\ s_ts_queue' = << >>
  /\ UNCHANGED <<clock, factors, s_ts_write_lock, pending, control, saved>>

\* ChangePPCClock(), when the guest boots MIOS, and AdjustEventQueueTimes().
\* The heap is left as it is, though times may have become equal.
Rescaled(time, new, old) == global_timer + Quotient((time - global_timer) * new, old)

ChangePPCClock ==
  LET Time(e) == Rescaled(e.time, GCClock, s_cpu_core_clock)
  IN  /\ InCallback
      /\ s_cpu_core_clock' = GCClock
      /\ s_event_queue' = {[e EXCEPT !.time = Time(e)] : e \in s_event_queue}
      /\ is_heap' = (is_heap /\ \A e, f \in s_event_queue :
                       e.time < f.time /\ Time(e) = Time(f) => e.fifo_order < f.fifo_order)
      /\ UNCHANGED <<clock, s_last_OC_factor, m_OCFactor, s_event_fifo_id, added, shared,
                     control, saved>>

-----------------------------------------------------------------------------
(* Another thread: ScheduleEvent() takes the lock and reads the timer, then *)
(* pushes.  The CPU thread may advance the timer in between.                *)

\* Variant: the lock only protects the push.
ReadTimer_NoLock(t, type, cycles) ==
  /\ pending[t] = NoEvent
  /\ ~ Exhausted
  /\ pending' = [pending EXCEPT ![t] =
       [time |-> global_timer + cycles, fifo_order |-> 0, type |-> type,
        delay |-> cycles, from |-> t, added |-> 0]]
  /\ UNCHANGED <<s_ts_write_lock, clock, factors, queue, s_ts_queue, control, saved>>

ReadTimer(t, type, cycles) ==
  /\ s_ts_write_lock = NoThread
  /\ s_ts_write_lock' = t
  /\ pending[t] = NoEvent
  /\ ~ Exhausted
  /\ pending' = [pending EXCEPT ![t] =
       [time |-> global_timer + cycles, fifo_order |-> 0, type |-> type,
        delay |-> cycles, from |-> t, added |-> 0]]
  /\ UNCHANGED <<clock, factors, queue, s_ts_queue, control, saved>>

Push(t) ==
  /\ pending[t] # NoEvent
  /\ s_ts_queue' = Append(s_ts_queue, pending[t])
  /\ pending' = [pending EXCEPT ![t] = NoEvent]
  /\ s_ts_write_lock' = NoThread
  /\ UNCHANGED <<clock, factors, queue, control, saved>>

SetOCFactor ==
  /\ m_OCFactor' \in Factors \ {m_OCFactor}
  /\ UNCHANGED <<clock, s_last_OC_factor, s_cpu_core_clock, queue, shared, control, saved>>

-----------------------------------------------------------------------------
(* Advance()                                                                *)
AdvanceMove ==
  /\ cpu = "advance"
  /\ MoveEvents
  /\ cpu' = "timer"
  /\ UNCHANGED <<is_heap, clock, factors, s_ts_write_lock, pending, stepping, evt, saved>>

\* Variant: the new clock factor is taken for the old slice already.
AdvanceTimer_NewFactor ==
  /\ cpu = "timer"
  /\ cpu' = "callbacks"
  /\ global_timer' = global_timer + (slice_length - DowncountToCycles(downcount, m_OCFactor))
  /\ s_last_OC_factor' = m_OCFactor
  /\ slice_length' = MAX_SLICE_LENGTH
  /\ s_is_global_timer_sane' = TRUE
  /\ UNCHANGED <<downcount, m_OCFactor, s_cpu_core_clock, queue, shared, stepping, evt, saved>>

AdvanceTimer ==
  /\ cpu = "timer"
  /\ cpu' = "callbacks"
  /\ global_timer' = global_timer + (slice_length - Remaining)
  /\ s_last_OC_factor' = m_OCFactor
  /\ slice_length' = MAX_SLICE_LENGTH
  /\ s_is_global_timer_sane' = TRUE
  /\ UNCHANGED <<downcount, m_OCFactor, s_cpu_core_clock, queue, shared, stepping, evt, saved>>

\* A due event is popped, and its callback called.
RunEvent(e) ==
  /\ cpu \in {"callbacks", "fifoWait"}
  /\ evt = NoEvent
  /\ Front(e)
  /\ e.time <= global_timer
  /\ s_event_queue' = s_event_queue \ {e}
  /\ is_heap' = (is_heap \/ \A f, g \in s_event_queue' : f = g)
  /\ evt' = e
  /\ UNCHANGED <<clock, factors, s_event_fifo_id, added, shared, cpu, stepping, saved>>

CallbackReturns ==
  /\ InCallback
  /\ evt' = NoEvent
  /\ UNCHANGED <<clock, factors, queue, shared, cpu, stepping, saved>>

NoneDue == \A e \in s_event_queue : e.time > global_timer

\* Variant: an event in the far future makes a long slice.
SliceUntil_NoLimit(e) == e.time - global_timer

SliceUntil(e) == Least(e.time - global_timer, MAX_SLICE_LENGTH)

BeginSlice(length) ==
  /\ slice_length' = length
  /\ downcount' = CyclesToDowncount(length, s_last_OC_factor)

AdvanceEnd ==
  /\ cpu = "callbacks"
  /\ evt = NoEvent
  /\ NoneDue
  /\ s_is_global_timer_sane' = FALSE
  /\ \/ s_event_queue = {} /\ BeginSlice(slice_length)
     \/ \E e \in s_event_queue : Front(e) /\ BeginSlice(SliceUntil(e))
  /\ cpu' = IF stepping THEN "block" ELSE "execute"
  /\ UNCHANGED <<global_timer, factors, queue, shared, stepping, evt, saved>>

-----------------------------------------------------------------------------
(* What executes the guest.                                                 *)
StartBlock ==
  /\ cpu = "execute"
  /\ downcount > 0
  /\ GetTicks <= MaxTime
  /\ cpu' = "block"
  /\ UNCHANGED <<clock, factors, queue, shared, stepping, evt, saved>>

Idle ==
  /\ InBlock
  /\ downcount' = 0
  /\ UNCHANGED <<global_timer, slice_length, s_is_global_timer_sane, factors, queue, shared,
                 control, saved>>

EndBlock(cycles) ==
  /\ InBlock
  /\ ~ stepping
  /\ downcount' = downcount - cycles
  /\ cpu' = "execute"
  /\ UNCHANGED <<global_timer, slice_length, s_is_global_timer_sane, factors, queue, shared,
                 stepping, evt, saved>>

\* Interpreter::SingleStep() counts one cycle whatever the instruction took.
EndStep ==
  /\ InBlock
  /\ stepping
  /\ slice_length' = 1
  /\ downcount' = 0
  /\ cpu' = "paused"
  /\ UNCHANGED <<global_timer, s_is_global_timer_sane, factors, queue, shared, stepping, evt,
                 saved>>

SliceOver ==
  /\ cpu = "execute"
  /\ downcount <= 0
  /\ cpu' = "advance"
  /\ UNCHANGED <<clock, factors, queue, shared, stepping, evt, saved>>

\* Run() ends, at the end of a slice or at a breakpoint.
Pause ==
  /\ cpu = "execute"
  /\ cpu' = "paused"
  /\ UNCHANGED <<clock, factors, queue, shared, stepping, evt, saved>>

\* Run() and SingleStep() begin with Advance().
Resume ==
  /\ cpu = "paused"
  /\ GetTicks <= MaxTime
  /\ cpu' = "advance"
  /\ stepping' \in BOOLEAN
  /\ UNCHANGED <<clock, factors, queue, shared, evt, saved>>

\* ProcessFifoWaitEvents(), in the middle of a slice.
FifoWait ==
  /\ InBlock
  /\ MoveEvents
  /\ cpu' = "fifoWait"
  /\ UNCHANGED <<is_heap, clock, factors, s_ts_write_lock, pending, stepping, evt, saved>>

FifoWaitEnd ==
  /\ cpu = "fifoWait"
  /\ evt = NoEvent
  /\ NoneDue
  /\ cpu' = "block"
  /\ UNCHANGED <<clock, factors, queue, shared, stepping, evt, saved>>

-----------------------------------------------------------------------------
(* DoState(), while the CPU thread is paused: MODE_MEASURE, MODE_WRITE and  *)
(* MODE_READ.  The lock is free between measuring and writing.              *)
Measure ==
  /\ cpu = "paused"
  /\ s_ts_write_lock = NoThread
  /\ MoveEvents
  /\ cpu' = "measured"
  /\ UNCHANGED <<is_heap, clock, factors, s_ts_write_lock, pending, stepping, evt, saved>>

\* s_event_fifo_id is written before the events are moved.
Write ==
  /\ cpu = "measured"
  /\ s_ts_write_lock = NoThread
  /\ MoveEvents
  /\ saved' = [global_timer |-> global_timer, slice_length |-> slice_length,
               downcount |-> downcount, s_last_OC_factor |-> s_last_OC_factor,
               s_event_fifo_id |-> s_event_fifo_id, s_event_queue |-> s_event_queue']
  /\ cpu' = "paused"
  /\ UNCHANGED <<is_heap, clock, factors, s_ts_write_lock, pending, stepping, evt>>

\* The events moved here are overwritten by those of the state.
Read ==
  /\ cpu = "paused"
  /\ s_ts_write_lock = NoThread
  /\ saved # NoState
  /\ global_timer' = saved.global_timer
  /\ slice_length' = saved.slice_length
  /\ downcount' = saved.downcount
  /\ s_last_OC_factor' = saved.s_last_OC_factor
  /\ s_event_queue' = saved.s_event_queue
  /\ is_heap' = TRUE
  /\ s_event_fifo_id' = saved.s_event_fifo_id + Len(s_ts_queue)
  /\ added' = added + Len(s_ts_queue)
  /\ s_ts_queue' = << >>
  /\ UNCHANGED <<s_is_global_timer_sane, m_OCFactor, s_cpu_core_clock, s_ts_write_lock,
                 pending, control, saved>>

-----------------------------------------------------------------------------
Scheduling ==
  \/ \E type \in Types, cycles \in Delays : ScheduleEvent(type, cycles)
  \/ \E type \in Types : RemoveEvent(type) \/ RemoveAllEvents(type)
  \/ ChangePPCClock

Advance ==
  \/ AdvanceMove \/ AdvanceTimer
  \/ \E e \in s_event_queue : RunEvent(e)
  \/ CallbackReturns
  \/ AdvanceEnd

Execution ==
  \/ StartBlock \/ Idle \/ (\E cycles \in BlockCycles : EndBlock(cycles)) \/ EndStep
  \/ SliceOver \/ Pause \/ Resume \/ FifoWait \/ FifoWaitEnd

OtherThread ==
  \/ \E t \in Others, type \in Types, cycles \in OtherDelays : ReadTimer(t, type, cycles)
  \/ \E t \in Others : Push(t)
  \/ SetOCFactor

DoState == Measure \/ Write \/ Read

Next == Scheduling \/ Advance \/ Execution \/ OtherThread \/ DoState

Spec == Init /\ [][Next]_vars

-----------------------------------------------------------------------------
(* The emulated clock has not been changed, and no savestate was made that  *)
(* could be loaded.                                                         *)
ClockKept == s_cpu_core_clock = WiiClock
Undisturbed == ClockKept /\ saved = NoState

(* "The slice lengths and the downcount will be reduced whenever an event   *)
(* is scheduled earlier than the current values": while there are cycles    *)
(* left in the slice, the slice does not reach beyond any event that the    *)
(* CPU thread has scheduled, whatever the overclocking factor.              *)
SliceCoversEvents ==
  ClockKept /\ cpu \in {"execute", "block"} /\ Remaining > 0 =>
    \A e \in s_event_queue : e.from = "CPU" => global_timer + slice_length <= e.time

(* "Sort by time, unless the times are the same, in which case sort by the  *)
(* order added to the queue": the event that runs is the earliest one, and  *)
(* of those the one that was added first.                                   *)
RunsInOrder ==
  [][\A e \in s_event_queue : Undisturbed /\ RunEvent(e) =>
       \A f \in s_event_queue \ {e} :
         e.time < f.time \/ (e.time = f.time /\ e.added < f.added)]_vars

(* Other threads' events that ask for the same delay run in the order in    *)
(* which they were pushed, although the timer these threads read may be     *)
(* stale: it never goes back, and they read it under the lock.              *)
OtherThreadOrder ==
  [][\A e \in s_event_queue : Undisturbed /\ RunEvent(e) /\ e.from # "CPU" =>
       \A f \in s_event_queue \ {e} :
         f.from # "CPU" /\ f.delay = e.delay => e.added < f.added]_vars

(* The time the guest can read never goes back, except where a savestate is *)
(* loaded or a single step is counted as one cycle.                         *)
TicksAdvance == [][Read \/ EndStep \/ GetTicks' >= GetTicks]_vars

=============================================================================
