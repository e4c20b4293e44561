--------------------------- MODULE CoreTimingProofs ---------------------------
(***************************************************************************)
(* Proofs about CoreTiming: type correctness (with it, that the length of  *)
(* a slice stays within its bounds), that a slice never reaches beyond an  *)
(* event the CPU thread has scheduled, that time does not go back, and     *)
(* that events run in order, those of other threads too.                   *)
(* They hold for every overclocking factor and slice length: what they     *)
(* need of the two conversions between cycles and downcount is that the    *)
(* one from downcount is monotonic and that going there and back again     *)
(* gains nothing.                                                          *)
(***************************************************************************)
EXTENDS CoreTiming, TLAPS

-----------------------------------------------------------------------------
(* Quotients                                                                *)
LEMMA DivFacts ==
  ASSUME NEW a \in Nat, NEW n \in Nat \ {0}
  PROVE  /\ a \div n \in Nat
         /\ n * (a \div n) <= a
         /\ a < n * (a \div n) + n
BY Z3

LEMMA MulMono ==
  ASSUME NEW n \in Nat \ {0}, NEW x \in Int, NEW y \in Int, n * x < n * y + n
  PROVE  x <= y
<1> SUFFICES ASSUME x >= y + 1 PROVE FALSE
  OBVIOUS
<1>1. n * x >= n * (y + 1)
  BY Z3
<1>2. n * (y + 1) = n * y + n
  BY Z3
<1> QED
  BY <1>1, <1>2

LEMMA DivMono ==
  ASSUME NEW a \in Nat, NEW b \in Nat, NEW n \in Nat \ {0}, a <= b
  PROVE  a \div n <= b \div n
<1>1. n * (a \div n) <= a /\ b < n * (b \div n) + n
  BY DivFacts
<1>2. a \div n \in Int /\ b \div n \in Int
  BY DivFacts
<1>3. n * (a \div n) \in Int /\ n * (b \div n) \in Int
  BY <1>2
<1>4. n * (a \div n) < n * (b \div n) + n
  BY <1>1, <1>3
<1> QED
  BY <1>2, <1>4, MulMono

LEMMA QuotientFacts ==
  ASSUME NEW a \in Int, NEW n \in Nat \ {0}
  PROVE  /\ Quotient(a, n) \in Int
         /\ a >= 0 => Quotient(a, n) >= 0
         /\ a <= 0 => Quotient(a, n) <= 0
<1>1. CASE a >= 0
  <2>1. a \div n \in Nat
    BY <1>1, DivFacts
  <2>2. a = 0 => a \div n <= 0
    <3> SUFFICES ASSUME a = 0 PROVE a \div n <= 0
      OBVIOUS
    <3>1. n * (a \div n) <= 0
      BY DivFacts
    <3>2. n * (a \div n) < n * 0 + n
      BY <3>1
    <3> QED
      BY <3>2, <2>1, MulMono
  <2> QED
    BY <1>1, <2>1, <2>2 DEF Quotient
<1>2. CASE a < 0
  <2>1. (- a) \div n \in Nat
    BY <1>2, DivFacts
  <2> QED
    BY <1>2, <2>1 DEF Quotient
<1> QED
  BY <1>1, <1>2

LEMMA QuotientMono ==
  ASSUME NEW a \in Int, NEW b \in Int, NEW n \in Nat \ {0}, a <= b
  PROVE  Quotient(a, n) <= Quotient(b, n)
<1>1. CASE a >= 0
  BY <1>1, DivMono DEF Quotient
<1>2. CASE a < 0 /\ b >= 0
  BY <1>2, QuotientFacts
<1>3. CASE b < 0
  <2>1. (- b) \div n <= (- a) \div n
    BY <1>3, DivMono
  <2>2. (- b) \div n \in Int /\ (- a) \div n \in Int
    BY <1>3, DivFacts
  <2> QED
    BY <1>3, <2>1, <2>2 DEF Quotient
<1> QED
  BY <1>1, <1>2, <1>3

LEMMA RoundTrip ==
  ASSUME NEW cycles \in Nat, NEW factor \in Nat \ {0}
  PROVE  /\ CyclesToDowncount(cycles, factor) \in Nat
         /\ DowncountToCycles(CyclesToDowncount(cycles, factor), factor) <= cycles
<1> DEFINE d == (cycles * factor) \div 100
           c == (d * 100) \div factor
<1>1. cycles * factor \in Nat
  OBVIOUS
<1>2. d \in Nat /\ 100 * d <= cycles * factor
  BY <1>1, DivFacts
<1>3. c \in Nat /\ factor * c <= d * 100
  <2>1. d * 100 \in Nat
    BY <1>2
  <2> QED
    BY <2>1, DivFacts
<1>4. c <= cycles
  <2> HIDE DEF c, d
  <2>1. factor * c \in Int /\ factor * cycles \in Int /\ factor * cycles = cycles * factor
    BY <1>3
  <2>2. factor * c < factor * cycles + factor
    BY <1>2, <1>3, <2>1
  <2> QED
    BY <1>3, <2>2, MulMono
<1>5. CyclesToDowncount(cycles, factor) = d
  BY <1>1 DEF CyclesToDowncount, Quotient
<1>6. DowncountToCycles(d, factor) = c
  BY <1>2 DEF DowncountToCycles, Quotient
<1> QED
  BY <1>2, <1>4, <1>5, <1>6
-----------------------------------------------------------------------------
(* What the slice's variables have to do with each other.                   *)
Executing == cpu \in {"execute", "block", "fifoWait"}

SliceInv ==
  /\ Executing => ~ s_is_global_timer_sane
  /\ cpu = "callbacks" => s_is_global_timer_sane /\ slice_length = MAX_SLICE_LENGTH
  /\ cpu # "callbacks" => Remaining <= slice_length
  /\ cpu \in {"block", "fifoWait"} => downcount >= 0
  /\ evt # NoEvent => cpu \in {"callbacks", "fifoWait"}
  /\ saved # NoState =>
       DowncountToCycles(saved.downcount, saved.s_last_OC_factor) <= saved.slice_length

IInv == TypeOK /\ SliceInv

LEMMA RemainingFacts ==
  ASSUME NEW d \in Int, NEW factor \in Nat \ {0}
  PROVE  /\ DowncountToCycles(d, factor) \in Int
         /\ d >= 0 => DowncountToCycles(d, factor) >= 0
         /\ d <= 0 => DowncountToCycles(d, factor) <= 0
BY QuotientFacts DEF DowncountToCycles

LEMMA RemainingMono ==
  ASSUME NEW c \in Int, NEW d \in Int, NEW factor \in Nat \ {0}, c <= d
  PROVE  DowncountToCycles(c, factor) <= DowncountToCycles(d, factor)
BY QuotientMono DEF DowncountToCycles

LEMMA MovedType == ASSUME TypeOK PROVE Moved \subseteq Event
<1> SUFFICES ASSUME NEW i \in 1..Len(s_ts_queue)
             PROVE  [s_ts_queue[i] EXCEPT !.fifo_order = s_event_fifo_id + i - 1,
                                          !.added = added + i] \in Event
  BY DEF Moved
<1>1. s_ts_queue[i] \in Event /\ i \in Nat /\ i >= 1
  BY DEF TypeOK
<1>2. s_event_fifo_id + i - 1 \in Nat /\ added + i \in Nat
  BY <1>1 DEF TypeOK
<1> QED
  BY <1>1, <1>2 DEF Event

(* Sums of times.                                                           *)
LEMMA LaterTime ==
  ASSUME NEW g \in Int, NEW a \in Int, NEW b \in Int, NEW c \in Int, NEW d \in Int,
         c - d >= a - b, NEW t, NEW u, t = g + (a - b), u = g + (c - d)
  PROVE  u >= t
OBVIOUS

LEMMA LessRemaining ==
  ASSUME NEW g \in Int, NEW a \in Int, NEW b \in Int, NEW d \in Int,
         d <= b, NEW t, NEW u, t = g + (a - b), u = g + (a - d)
  PROVE  u >= t
OBVIOUS

LEMMA NotBeforeBegin ==
  ASSUME NEW g \in Int, NEW c \in Int, NEW d \in Int, d <= c, NEW u, u = g + (c - d)
  PROVE  u >= g
OBVIOUS

LEMMA SliceEnd ==
  ASSUME NEW g \in Int, NEW a \in Int, NEW b \in Int, NEW c \in Int, NEW s \in Int,
         s <= a - b + c
  PROVE  g + s <= g + (a - b) + c
OBVIOUS

(* ForceExceptionCheck() keeps the slice in its bounds, and only shortens it*)
(* to as many cycles from now on as it is given.                            *)
LEMMA ForceFacts ==
  ASSUME TypeOK, Remaining <= slice_length, NEW cycles \in Int, ForceExceptionCheck(cycles)
  PROVE  /\ slice_length' \in 0..MAX_SLICE_LENGTH
         /\ downcount' \in Int
         /\ downcount >= 0 => downcount' >= 0
         /\ DowncountToCycles(downcount', s_last_OC_factor) <= slice_length'
         /\ slice_length' - DowncountToCycles(downcount', s_last_OC_factor)
              >= slice_length - Remaining
         /\ slice_length' <= slice_length
         /\ DowncountToCycles(downcount', s_last_OC_factor) > 0 =>
              /\ slice_length' <= slice_length - Remaining + cycles
              /\ Remaining > 0
<1>1. /\ s_last_OC_factor \in Nat \ {0} /\ downcount \in Int /\ slice_length \in Int
      /\ MAX_SLICE_LENGTH \in Nat
  BY TimingAssumption DEF TypeOK
<1>2. Remaining \in Int
  BY <1>1, RemainingFacts DEF Remaining
<1>3. CASE Remaining > AtLeast0(cycles)
  <2> DEFINE n == AtLeast0(cycles)
             d == CyclesToDowncount(n, s_last_OC_factor)
  <2>1. n \in Nat /\ n >= cycles /\ (cycles >= 0 => n = cycles) /\ (cycles < 0 => n = 0)
    BY DEF AtLeast0
  <2>2. slice_length' = slice_length - (Remaining - n) /\ downcount' = d
    BY <1>3 DEF ForceExceptionCheck
  <2>3. d \in Nat /\ DowncountToCycles(d, s_last_OC_factor) <= n
    BY <1>1, <2>1, RoundTrip
  <2>4. DowncountToCycles(d, s_last_OC_factor) \in Int
    BY <1>1, <2>3, RemainingFacts
  <2>5. Remaining > n
    BY <1>3
  <2> HIDE DEF n, d
  <2> QED
    BY <1>1, <1>2, <2>1, <2>2, <2>3, <2>4, <2>5 DEF TypeOK
<1>4. CASE ~ (Remaining > AtLeast0(cycles))
  <2>1. slice_length' = slice_length /\ downcount' = downcount
    BY <1>4 DEF ForceExceptionCheck
  <2>2. Remaining > 0 => cycles >= Remaining
    BY <1>2, <1>4 DEF AtLeast0
  <2>3. DowncountToCycles(downcount', s_last_OC_factor) = Remaining
    BY <2>1 DEF Remaining
  <2> QED
    BY <1>1, <1>2, <2>1, <2>2, <2>3 DEF TypeOK
<1> QED
  BY <1>3, <1>4

-----------------------------------------------------------------------------
LEMMA IInvInit == Init => IInv
<1> SUFFICES ASSUME Init PROVE IInv
  OBVIOUS
<1>1. s_last_OC_factor \in Nat \ {0} /\ MAX_SLICE_LENGTH \in Nat \ {0}
  BY TimingAssumption DEF Init
<1>2. downcount \in Nat /\ Remaining <= slice_length
  BY <1>1, RoundTrip DEF Init, Remaining
<1>3. TypeOK
  <2>1. /\ global_timer \in Int /\ slice_length \in 0..MAX_SLICE_LENGTH /\ downcount \in Int
        /\ s_last_OC_factor \in Factors /\ m_OCFactor \in Factors
        /\ s_cpu_core_clock \in {WiiClock, GCClock} /\ s_is_global_timer_sane \in BOOLEAN
    BY <1>1, <1>2 DEF Init
  <2>2. /\ s_event_queue \in SUBSET Event /\ is_heap \in BOOLEAN /\ s_event_fifo_id \in Nat
        /\ s_ts_queue \in Seq(Event) /\ s_ts_write_lock \in Others \cup {NoThread}
        /\ added \in Nat
    BY DEF Init
  <2>3. /\ cpu \in {"paused"} /\ stepping \in BOOLEAN /\ evt \in Event \cup {NoEvent}
        /\ pending \in [Others -> Event \cup {NoEvent}] /\ saved \in SavedState \cup {NoState}
    BY DEF Init
  <2> QED
    BY <2>1, <2>2, <2>3 DEF TypeOK
<1>4. SliceInv
  BY <1>2 DEF Init, SliceInv, Executing
<1> QED
  BY <1>3, <1>4 DEF IInv

(* The actions that leave the time of the slice and the events alone.       *)
LEMMA IInvQuiet ==
  ASSUME IInv,
         \/ CallbackReturns \/ StartBlock \/ SliceOver \/ Pause \/ Resume \/ FifoWaitEnd
         \/ SetOCFactor \/ (\E t \in Others : Push(t))
         \/ (\E t \in Others, type \in Types, cycles \in OtherDelays :
               ReadTimer(t, type, cycles))
  PROVE  IInv'
<1> USE DEF IInv, TypeOK, SliceInv, Executing, Remaining, clock, factors, queue, shared,
            control
<1>1. CASE CallbackReturns
  BY <1>1 DEF CallbackReturns
<1>2. CASE StartBlock
  BY <1>2 DEF StartBlock
<1>3. CASE SliceOver
  BY <1>3 DEF SliceOver
<1>4. CASE Pause
  BY <1>4 DEF Pause
<1>5. CASE Resume
  BY <1>5, TimingAssumption DEF Resume
<1>6. CASE FifoWaitEnd
  BY <1>6 DEF FifoWaitEnd
<1>7. CASE SetOCFactor
  BY <1>7 DEF SetOCFactor
<1>8. ASSUME NEW t \in Others, Push(t) PROVE IInv'
  <2>1. pending[t] \in Event
    BY <1>8 DEF Push
  <2>2. s_ts_queue' \in Seq(Event)
    BY <1>8, <2>1 DEF Push
  <2> QED
    BY <1>8, <2>2 DEF Push
<1>9. ASSUME NEW t \in Others, NEW type \in Types, NEW cycles \in OtherDelays,
             ReadTimer(t, type, cycles)
      PROVE  IInv'
  <2>1. cycles \in Int
    BY TimingAssumption
  <2>2. [time |-> global_timer + cycles, fifo_order |-> 0, type |-> type, delay |-> cycles,
         from |-> t, added |-> 0] \in Event
    BY <2>1 DEF Event
  <2> QED
    BY <1>9, <2>2 DEF ReadTimer
<1> QED
  BY <1>1, <1>2, <1>3, <1>4, <1>5, <1>6, <1>7, <1>8, <1>9

(* The actions that only change the events.                                 *)
LEMMA IInvEvents ==
  ASSUME IInv,
         \/ AdvanceMove \/ FifoWait \/ (\E e \in s_event_queue : RunEvent(e))
         \/ (\E type \in Types : RemoveEvent(type) \/ RemoveAllEvents(type))
         \/ ChangePPCClock \/ Measure \/ Write
  PROVE  IInv'
<1>0. Moved \subseteq Event
  BY MovedType DEF IInv
<1>00. Len(s_ts_queue) \in Nat
  BY DEF IInv, TypeOK
<1> USE DEF IInv, TypeOK, SliceInv, Executing, Remaining, clock, factors, queue, shared,
            control
<1>1. CASE AdvanceMove
  BY <1>1, <1>0, <1>00 DEF AdvanceMove, MoveEvents
<1>2. CASE FifoWait
  BY <1>2, <1>0, <1>00 DEF FifoWait, MoveEvents, InBlock
<1>3. ASSUME NEW e \in s_event_queue, RunEvent(e) PROVE IInv'
  BY <1>3 DEF RunEvent
<1>4. ASSUME NEW type \in Types, RemoveEvent(type) PROVE IInv'
  BY <1>4 DEF RemoveEvent, RemoveFrom
<1>5. ASSUME NEW type \in Types, RemoveAllEvents(type) PROVE IInv'
  BY <1>5, <1>0, <1>00 DEF RemoveAllEvents, RemoveFrom
<1>6. CASE ChangePPCClock
  <2>1. ASSUME NEW e \in s_event_queue
        PROVE  [e EXCEPT !.time = Rescaled(e.time, GCClock, s_cpu_core_clock)] \in Event
    <3>1. e \in Event /\ e.time \in Int
      BY DEF Event
    <3>2. s_cpu_core_clock \in Nat \ {0} /\ GCClock \in Int
      BY DEF WiiClock, GCClock
    <3>3. (e.time - global_timer) * GCClock \in Int
      BY <3>1, <3>2 DEF GCClock
    <3>4. Quotient((e.time - global_timer) * GCClock, s_cpu_core_clock) \in Int
      BY <3>2, <3>3, QuotientFacts
    <3>5. Rescaled(e.time, GCClock, s_cpu_core_clock) \in Int
      BY <3>4 DEF Rescaled
    <3> QED
      BY <3>1, <3>5 DEF Event
  <2>2. s_event_queue' \in SUBSET Event
    BY <1>6, <2>1 DEF ChangePPCClock
  <2>3. is_heap' \in BOOLEAN
    BY <1>6 DEF ChangePPCClock
  <2> QED
    BY <1>6, <2>2, <2>3 DEF ChangePPCClock
<1>7. CASE Measure
  BY <1>7, <1>0, <1>00 DEF Measure, MoveEvents
<1>8. CASE Write
  <2>1. s_event_queue' \in SUBSET Event
    BY <1>8, <1>0 DEF Write, MoveEvents
  <2>2. saved' \in SavedState
    BY <1>8, <2>1 DEF Write, SavedState
  <2>3. DowncountToCycles(saved'.downcount, saved'.s_last_OC_factor) <= saved'.slice_length
    BY <1>8 DEF Write
  <2> QED
    BY <1>8, <1>00, <2>1, <2>2, <2>3 DEF Write, MoveEvents
<1> QED
  BY <1>1, <1>2, <1>3, <1>4, <1>5, <1>6, <1>7, <1>8

LEMMA EndBlockFacts ==
  ASSUME IInv, downcount' \in Int, downcount' <= downcount,
         s_last_OC_factor' = s_last_OC_factor
  PROVE  Remaining' <= Remaining
BY RemainingMono, TimingAssumption DEF IInv, TypeOK, Remaining

(* The actions that change the time of the slice.                           *)
LEMMA IInvSlice ==
  ASSUME IInv,
         \/ AdvanceTimer \/ AdvanceEnd \/ Idle \/ (\E cycles \in BlockCycles : EndBlock(cycles))
         \/ EndStep \/ Read
         \/ (\E type \in Types, cycles \in Delays : ScheduleEvent(type, cycles))
  PROVE  IInv'
<1>0. /\ s_last_OC_factor \in Nat \ {0} /\ m_OCFactor \in Nat \ {0}
      /\ MAX_SLICE_LENGTH \in Nat \ {0} /\ Remaining \in Int
  BY TimingAssumption, RemainingFacts DEF IInv, TypeOK, Remaining
<1> USE DEF IInv, TypeOK, clock, factors, queue, shared, control
<1>1. CASE AdvanceTimer
  BY <1>1, <1>0 DEF AdvanceTimer, SliceInv, Executing
<1>2. CASE AdvanceEnd
  <2>1. slice_length' \in 1..MAX_SLICE_LENGTH
        /\ downcount' = CyclesToDowncount(slice_length', s_last_OC_factor)
    <3>1. CASE BeginSlice(slice_length)
      BY <1>0, <1>2, <3>1 DEF AdvanceEnd, BeginSlice, SliceInv
    <3>2. ASSUME NEW e \in s_event_queue, BeginSlice(SliceUntil(e))
          PROVE  slice_length' \in 1..MAX_SLICE_LENGTH
                 /\ downcount' = CyclesToDowncount(slice_length', s_last_OC_factor)
      <4>1. e.time \in Int /\ e.time > global_timer
        BY <1>2 DEF AdvanceEnd, NoneDue, Event
      <4> QED
        BY <1>0, <3>2, <4>1 DEF BeginSlice, SliceUntil, Least
    <3> QED
      BY <1>2, <3>1, <3>2 DEF AdvanceEnd
  <2>2. downcount' \in Nat /\ DowncountToCycles(downcount', s_last_OC_factor) <= slice_length'
    BY <1>0, <2>1, RoundTrip
  <2>3. s_last_OC_factor' = s_last_OC_factor
    BY <1>2 DEF AdvanceEnd
  <2>4. cpu' \in {"block", "execute"} /\ ~ s_is_global_timer_sane' /\ evt' = NoEvent
    BY <1>2 DEF AdvanceEnd
  <2>5. TypeOK'
    <3>1. UNCHANGED <<global_timer, factors, queue, shared, stepping, saved>>
          /\ s_is_global_timer_sane' \in BOOLEAN
      BY <1>2 DEF AdvanceEnd
    <3>2. slice_length' \in 0..MAX_SLICE_LENGTH /\ downcount' \in Int
      BY <1>0, <2>1, <2>2
    <3> QED
      BY <2>4, <3>1, <3>2
  <2>6. Remaining' <= slice_length'
    BY <2>2, <2>3 DEF Remaining
  <2>7. SliceInv'
    BY <1>2, <2>2, <2>4, <2>6 DEF AdvanceEnd, SliceInv, Executing
  <2> QED
    BY <2>5, <2>7
<1>3. CASE Idle
  <2>1. downcount' <= downcount /\ downcount' \in Int
    BY <1>3 DEF Idle, InBlock, SliceInv
  <2>2. Remaining' <= Remaining /\ Remaining' \in Int
    BY <1>0, <1>3, <2>1, EndBlockFacts, RemainingFacts DEF Idle, Remaining
  <2> QED
    BY <1>0, <1>3, <2>1, <2>2 DEF Idle, InBlock, SliceInv, Executing
<1>4. ASSUME NEW cycles \in BlockCycles, EndBlock(cycles) PROVE IInv'
  <2>1. downcount' <= downcount /\ downcount' \in Int
    BY <1>4, TimingAssumption DEF EndBlock
  <2>2. Remaining' <= Remaining /\ Remaining' \in Int
    BY <1>0, <1>4, <2>1, EndBlockFacts, RemainingFacts DEF EndBlock, Remaining
  <2> QED
    BY <1>0, <1>4, <2>1, <2>2 DEF EndBlock, InBlock, SliceInv, Executing
<1>5. CASE EndStep
  <2>1. Remaining' <= 0 /\ Remaining' \in Int
    BY <1>0, <1>5, RemainingFacts DEF EndStep, Remaining
  <2> QED
    BY <1>0, <1>5, <2>1 DEF EndStep, InBlock, SliceInv, Executing
<1>6. CASE Read
  <2>1. saved \in SavedState
    BY <1>6 DEF Read
  <2>2. Len(s_ts_queue) \in Nat
    OBVIOUS
  <2> QED
    BY <1>6, <2>1, <2>2 DEF Read, SavedState, SliceInv, Executing, Remaining
<1>7. ASSUME NEW type \in Types, NEW cycles \in Delays, ScheduleEvent(type, cycles)
      PROVE  IInv'
  <2>1. cycles \in Int
    BY TimingAssumption
  <2>2. GetTicks \in Int
    BY <1>0 DEF GetTicks
  <2>3. [time |-> GetTicks + cycles, fifo_order |-> s_event_fifo_id, type |-> type,
         delay |-> cycles, from |-> "CPU", added |-> added + 1] \in Event
    BY <2>1, <2>2 DEF Event
  <2>4. s_event_queue' \in SUBSET Event
    BY <1>7, <2>3 DEF ScheduleEvent
  <2>5. CASE s_is_global_timer_sane
    <3>1. slice_length' = slice_length /\ downcount' = downcount
      BY <1>7, <2>5 DEF ScheduleEvent
    <3> QED
      BY <1>7, <2>4, <3>1 DEF ScheduleEvent, SliceInv, Executing, Remaining
  <2>6. CASE ~ s_is_global_timer_sane
    <3>1. ForceExceptionCheck(cycles) /\ Remaining <= slice_length
      BY <1>7, <2>6 DEF ScheduleEvent, SliceInv
    <3>2. /\ slice_length' \in 0..MAX_SLICE_LENGTH /\ downcount' \in Int
          /\ downcount >= 0 => downcount' >= 0
          /\ DowncountToCycles(downcount', s_last_OC_factor) <= slice_length'
      BY <2>1, <3>1, ForceFacts
    <3> QED
      BY <1>7, <2>4, <2>6, <3>2 DEF ScheduleEvent, SliceInv, Executing, Remaining
  <2> QED
    BY <2>5, <2>6
<1> QED
  BY <1>1, <1>2, <1>3, <1>4, <1>5, <1>6, <1>7

LEMMA IInvStep == IInv /\ [Next]_vars => IInv'
<1> SUFFICES ASSUME IInv, [Next]_vars PROVE IInv'
  OBVIOUS
<1>1. CASE UNCHANGED vars
  BY <1>1 DEF vars, IInv, TypeOK, SliceInv, Executing, Remaining, clock, factors, queue, shared,
     control
<1>2. CASE Next
  BY <1>2, IInvQuiet, IInvEvents, IInvSlice
     DEF Next, Scheduling, Advance, Execution, OtherThread, DoState
<1> QED
  BY <1>1, <1>2

(* The scheduler keeps its types; in particular a slice is never longer     *)
(* than MAX_SLICE_LENGTH, nor of negative length.                           *)
THEOREM TypeCorrect == Spec => []TypeOK
<1>1. IInv => TypeOK
  BY DEF IInv
<1> QED
  BY <1>1, IInvInit, IInvStep, PTL DEF Spec

-----------------------------------------------------------------------------
(* The slice does not reach beyond an event of the CPU thread.  A change of *)
(* the clock by a callback that ProcessFifoWaitEvents() runs rescales the   *)
(* times of the events inside a slice, which breaks that: hence ClockKept.  *)

(* Other threads' events are on their way under their own name. *)
OthersOwn ==
  /\ \A i \in 1..Len(s_ts_queue) : s_ts_queue[i].from # "CPU"
  /\ \A t \in Others : pending[t] # NoEvent => pending[t].from # "CPU"

Covered ==
  Executing /\ Remaining > 0 =>
    \A e \in s_event_queue : e.from = "CPU" => global_timer + slice_length <= e.time

CInv == IInv /\ OthersOwn /\ (ClockKept => Covered)

LEMMA OthersOwnStep ==
  ASSUME IInv, OthersOwn, Next
  PROVE  OthersOwn'
<1>1. ASSUME UNCHANGED <<s_ts_queue, pending>> PROVE OthersOwn'
  BY <1>1 DEF OthersOwn
<1>2. ASSUME s_ts_queue' = << >>, pending' = pending PROVE OthersOwn'
  BY <1>2 DEF OthersOwn
<1>3. ASSUME NEW t \in Others, Push(t) PROVE OthersOwn'
  <2>1. pending[t] \in Event /\ pending[t].from # "CPU"
    BY <1>3 DEF Push, OthersOwn, IInv, TypeOK
  <2>2. s_ts_queue \in Seq(Event) /\ s_ts_queue' = Append(s_ts_queue, pending[t])
    BY <1>3 DEF Push, IInv, TypeOK
  <2>3. ASSUME NEW i \in 1..Len(s_ts_queue') PROVE s_ts_queue'[i].from # "CPU"
    BY <2>1, <2>2 DEF OthersOwn
  <2>4. pending' = [pending EXCEPT ![t] = NoEvent] /\ pending \in [Others -> Event \cup {NoEvent}]
    BY <1>3 DEF Push, IInv, TypeOK
  <2>5. ASSUME NEW u \in Others, pending'[u] # NoEvent PROVE pending'[u].from # "CPU"
    BY <2>4, <2>5 DEF OthersOwn
  <2> QED
    BY <2>3, <2>5 DEF OthersOwn
<1>4. ASSUME NEW t \in Others, NEW type \in Types, NEW cycles \in OtherDelays,
             ReadTimer(t, type, cycles)
      PROVE  OthersOwn'
  <2> DEFINE e == [time |-> global_timer + cycles, fifo_order |-> 0, type |-> type,
                   delay |-> cycles, from |-> t, added |-> 0]
  <2>1. e.from # "CPU"
    BY TimingAssumption
  <2>2. /\ pending' = [pending EXCEPT ![t] = e] /\ s_ts_queue' = s_ts_queue
        /\ pending \in [Others -> Event \cup {NoEvent}]
    BY <1>4 DEF ReadTimer, IInv, TypeOK
  <2> HIDE DEF e
  <2> QED
    BY <2>1, <2>2 DEF OthersOwn
<1>5. CASE Scheduling
  BY <1>5, <1>1, <1>2 DEF Scheduling, ScheduleEvent, RemoveEvent, RemoveAllEvents, ChangePPCClock,
     shared
<1>6. CASE Advance
  BY <1>6, <1>1, <1>2 DEF Advance, AdvanceMove, MoveEvents, AdvanceTimer, RunEvent,
     CallbackReturns, AdvanceEnd, shared
<1>7. CASE Execution
  BY <1>7, <1>1, <1>2 DEF Execution, StartBlock, Idle, EndBlock, EndStep, SliceOver, Pause,
     Resume, FifoWait, FifoWaitEnd, MoveEvents, shared
<1>8. CASE SetOCFactor
  BY <1>8, <1>1 DEF SetOCFactor, shared
<1>9. CASE DoState
  BY <1>9, <1>1, <1>2 DEF DoState, Measure, Write, Read, MoveEvents
<1> QED
  BY <1>3, <1>4, <1>5, <1>6, <1>7, <1>8, <1>9 DEF Next, OtherThread

LEMMA MovedFrom ==
  ASSUME IInv, OthersOwn, NEW e \in Moved
  PROVE  e.from # "CPU"
<1>1. PICK i \in 1..Len(s_ts_queue) :
        e = [s_ts_queue[i] EXCEPT !.fifo_order = s_event_fifo_id + i - 1, !.added = added + i]
  BY DEF Moved
<1>2. s_ts_queue[i] \in Event /\ s_ts_queue[i].from # "CPU"
  BY DEF IInv, TypeOK, OthersOwn
<1>3. e.from = s_ts_queue[i].from
  BY <1>1, <1>2 DEF Event
<1> QED
  BY <1>2, <1>3

(* A step that adds nothing of the CPU thread's, keeps the slice and leaves *)
(* no more cycles than there were. *)
LEMMA CoveredQuiet ==
  ASSUME CInv, ClockKept, Executing' => Executing, UNCHANGED <<global_timer, slice_length>>,
         Remaining' <= Remaining, Remaining \in Int, Remaining' \in Int,
         \A e \in s_event_queue' : e \in s_event_queue \/ e.from # "CPU"
  PROVE  Covered'
BY DEF CInv, Covered

LEMMA CoveredSchedule ==
  ASSUME CInv, ClockKept, NEW type \in Types, NEW cycles \in Delays,
         ScheduleEvent(type, cycles)
  PROVE  Covered'
<1> SUFFICES ASSUME Executing', Remaining' > 0,
                    NEW e \in s_event_queue', e.from = "CPU"
             PROVE  global_timer' + slice_length' <= e.time
  BY DEF Covered
<1>0. cycles \in Int /\ global_timer \in Int /\ slice_length \in Int /\ TypeOK
  BY TimingAssumption DEF CInv, IInv, TypeOK
<1>1. /\ Executing /\ ~ s_is_global_timer_sane /\ Remaining <= slice_length
      /\ global_timer' = global_timer
  BY DEF ScheduleEvent, control, Executing, CInv, IInv, SliceInv
<1>2. ForceExceptionCheck(cycles) /\ s_last_OC_factor' = s_last_OC_factor
  BY <1>1 DEF ScheduleEvent, factors
<1>3. Remaining' = DowncountToCycles(downcount', s_last_OC_factor)
  BY <1>2 DEF Remaining
<1>4. /\ slice_length' \in Int /\ slice_length' <= slice_length
      /\ slice_length' <= slice_length - Remaining + cycles /\ Remaining > 0
  BY <1>0, <1>1, <1>2, <1>3, ForceFacts
<1>5. Remaining \in Int
  BY RemainingFacts, TimingAssumption DEF Remaining, CInv, IInv, TypeOK
<1>6. CASE e \in s_event_queue
  <2>1. global_timer + slice_length <= e.time /\ e.time \in Int
    BY <1>0, <1>1, <1>4, <1>6 DEF CInv, Covered, TypeOK, Event
  <2> QED
    BY <1>0, <1>1, <1>4, <2>1
<1>7. CASE e \notin s_event_queue
  <2>1. e.time = GetTicks + cycles
    BY <1>7 DEF ScheduleEvent
  <2>2. GetTicks = global_timer + (slice_length - Remaining)
    BY <1>1 DEF GetTicks
  <2>3. e.time = global_timer + (slice_length - Remaining) + cycles
    BY <2>1, <2>2
  <2>4. global_timer' = global_timer
    BY <1>1
  <2>5. global_timer + slice_length' <= global_timer + (slice_length - Remaining) + cycles
    BY <1>0, <1>4, <1>5, SliceEnd
  <2> QED
    BY <2>3, <2>4, <2>5
<1> QED
  BY <1>6, <1>7

LEMMA CoveredBegin == ASSUME CInv, AdvanceEnd PROVE Covered'
<1> SUFFICES ASSUME NEW f \in s_event_queue PROVE global_timer + slice_length' <= f.time
  BY DEF Covered, AdvanceEnd, queue
<1>1. PICK e \in s_event_queue : Front(e) /\ BeginSlice(SliceUntil(e))
  BY DEF AdvanceEnd
<1>2. /\ e.time \in Int /\ f.time \in Int /\ global_timer \in Int /\ MAX_SLICE_LENGTH \in Int
      /\ e.time <= f.time
  <2>1. e \in Event /\ f \in Event /\ global_timer \in Int
    BY <1>1 DEF CInv, IInv, TypeOK
  <2>2. e.time \in Int /\ f.time \in Int /\ MAX_SLICE_LENGTH \in Int
    BY <2>1, TimingAssumption DEF Event
  <2> QED
    BY <1>1, <2>1, <2>2 DEF Front, Precedes
<1> QED
  BY <1>1, <1>2 DEF BeginSlice, SliceUntil, Least

(* Nothing sets the clock back, and nothing forgets a savestate.            *)
LEMMA ClockBefore == ASSUME IInv, [Next]_vars, ClockKept' PROVE ClockKept
<1> USE DEF ClockKept, clock, factors, queue, shared, control
<1>1. CASE UNCHANGED vars
  BY <1>1 DEF vars
<1>2. CASE Scheduling
  BY <1>2 DEF Scheduling, ScheduleEvent, RemoveEvent, RemoveAllEvents, ChangePPCClock, WiiClock,
     GCClock
<1>3. CASE Advance
  BY <1>3 DEF Advance, AdvanceMove, AdvanceTimer, RunEvent, CallbackReturns, AdvanceEnd
<1>4. CASE Execution
  BY <1>4 DEF Execution, StartBlock, Idle, EndBlock, EndStep, SliceOver, Pause, Resume, FifoWait,
     FifoWaitEnd
<1>5. CASE OtherThread
  BY <1>5 DEF OtherThread, ReadTimer, Push, SetOCFactor
<1>6. CASE DoState
  BY <1>6 DEF DoState, Measure, Write, Read
<1> QED
  BY <1>1, <1>2, <1>3, <1>4, <1>5, <1>6 DEF Next

LEMMA WriteDisturbs == ASSUME IInv, Write PROVE saved' # NoState
<1>1. saved' \in SavedState
  <2>1. s_event_queue' \in SUBSET Event
    BY MovedType DEF Write, MoveEvents, IInv, TypeOK
  <2> QED
    BY <2>1 DEF Write, SavedState, IInv, TypeOK
<1> QED
  BY <1>1, TimingAssumption

LEMMA UndisturbedBefore == ASSUME IInv, [Next]_vars, Undisturbed' PROVE Undisturbed
<1>0. ClockKept
  BY ClockBefore DEF Undisturbed
<1> SUFFICES saved = NoState
  BY <1>0 DEF Undisturbed
<1>1. ASSUME saved' = saved PROVE saved = NoState
  BY <1>1 DEF Undisturbed
<1>2. CASE UNCHANGED vars
  BY <1>1, <1>2 DEF vars
<1>3. CASE Scheduling
  BY <1>1, <1>3 DEF Scheduling, ScheduleEvent, RemoveEvent, RemoveAllEvents, ChangePPCClock
<1>4. CASE Advance
  BY <1>1, <1>4 DEF Advance, AdvanceMove, AdvanceTimer, RunEvent, CallbackReturns, AdvanceEnd
<1>5. CASE Execution
  BY <1>1, <1>5 DEF Execution, StartBlock, Idle, EndBlock, EndStep, SliceOver, Pause, Resume,
     FifoWait, FifoWaitEnd
<1>6. CASE OtherThread
  BY <1>1, <1>6 DEF OtherThread, ReadTimer, Push, SetOCFactor
<1>7. CASE Measure \/ Read
  BY <1>1, <1>7 DEF Measure, Read
<1>8. CASE Write
  BY <1>8, WriteDisturbs DEF Undisturbed
<1> QED
  BY <1>2, <1>3, <1>4, <1>5, <1>6, <1>7, <1>8 DEF Next, DoState

LEMMA CInvStep ==
  ASSUME CInv, [Next]_vars
  PROVE  CInv'
<1>1. IInv'
  BY IInvStep DEF CInv
<1>2. OthersOwn'
  BY OthersOwnStep DEF CInv, OthersOwn, vars, shared
<1> SUFFICES ASSUME ClockKept' PROVE Covered'
  BY <1>1, <1>2 DEF CInv
<1>0. ClockKept
  BY ClockBefore DEF CInv
<1>3. Remaining \in Int /\ Remaining' \in Int
  BY <1>1, RemainingFacts, TimingAssumption DEF Remaining, CInv, IInv, TypeOK
<1>4. ASSUME ~ Executing' PROVE Covered'
  BY <1>4 DEF Covered
<1>5. ASSUME Executing' => Executing,
             UNCHANGED <<global_timer, slice_length, downcount, s_last_OC_factor>>,
             \A e \in s_event_queue' : e \in s_event_queue \/ e.from # "CPU"
      PROVE  Covered'
  <2>1. Remaining' = Remaining
    BY <1>5 DEF Remaining
  <2>2. Remaining' <= Remaining
    BY <1>3, <2>1
  <2> QED
    BY <1>0, <1>3, <1>5, <2>2, CoveredQuiet
<1>6. CASE UNCHANGED vars
  BY <1>5, <1>6 DEF vars, clock, factors, queue, control, Executing
<1>7. CASE Scheduling
  <2>1. ASSUME NEW type \in Types, RemoveEvent(type) PROVE Covered'
    BY <1>5, <2>1 DEF RemoveEvent, RemoveFrom, clock, factors, control, Executing
  <2>2. ASSUME NEW type \in Types, RemoveAllEvents(type) PROVE Covered'
    <3>1. \A e \in s_event_queue' : e \in s_event_queue \/ e.from # "CPU"
      BY <2>2, MovedFrom DEF RemoveAllEvents, RemoveFrom, CInv
    <3> QED
      BY <1>5, <2>2, <3>1 DEF RemoveAllEvents, clock, factors, control, Executing
  <2>3. CASE ChangePPCClock
    BY <2>3 DEF ChangePPCClock, ClockKept, WiiClock, GCClock
  <2> QED
    BY <1>0, <1>7, <2>1, <2>2, <2>3, CoveredSchedule DEF Scheduling
<1>8. CASE Advance
  <2>1. ASSUME NEW e \in s_event_queue, RunEvent(e) PROVE Covered'
    BY <1>5, <2>1 DEF RunEvent, clock, factors, control, Executing
  <2>2. CASE CallbackReturns
    BY <1>5, <2>2 DEF CallbackReturns, clock, factors, queue, Executing
  <2>3. CASE AdvanceMove \/ AdvanceTimer
    BY <1>4, <2>3 DEF AdvanceMove, AdvanceTimer, Executing
  <2> QED
    BY <1>8, <2>1, <2>2, <2>3, CoveredBegin DEF Advance
<1>9. CASE Execution
  <2>1. CASE StartBlock \/ FifoWaitEnd
    BY <1>5, <2>1 DEF StartBlock, FifoWaitEnd, clock, factors, queue, Executing
  <2>2. CASE SliceOver \/ Pause \/ Resume \/ EndStep
    BY <1>4, <2>2 DEF SliceOver, Pause, Resume, EndStep, Executing
  <2>3. CASE Idle
    <3>1. downcount' \in Int /\ downcount' <= downcount
      BY <2>3 DEF Idle, InBlock, CInv, IInv, TypeOK, SliceInv
    <3>2. Remaining' <= Remaining
      BY <2>3, <3>1, EndBlockFacts DEF Idle, factors, CInv
    <3> QED
      BY <1>0, <1>3, <2>3, <3>2, CoveredQuiet DEF Idle, queue, control, Executing
  <2>4. ASSUME NEW cycles \in BlockCycles, EndBlock(cycles) PROVE Covered'
    <3>1. downcount' \in Int /\ downcount' <= downcount
      BY <2>4, TimingAssumption DEF EndBlock, CInv, IInv, TypeOK
    <3>2. Remaining' <= Remaining
      BY <2>4, <3>1, EndBlockFacts DEF EndBlock, factors, CInv
    <3> QED
      BY <1>0, <1>3, <2>4, <3>2, CoveredQuiet DEF EndBlock, InBlock, queue, Executing
  <2>5. CASE FifoWait
    <3>1. \A e \in s_event_queue' : e \in s_event_queue \/ e.from # "CPU"
      BY <2>5, MovedFrom DEF FifoWait, MoveEvents, CInv
    <3> QED
      BY <1>5, <2>5, <3>1 DEF FifoWait, InBlock, clock, factors, Executing
  <2> QED
    BY <1>9, <2>1, <2>2, <2>3, <2>4, <2>5 DEF Execution
<1>10. CASE OtherThread
  BY <1>5, <1>10 DEF OtherThread, ReadTimer, Push, SetOCFactor, clock, factors, queue, control,
     Executing
<1>11. CASE DoState
  BY <1>4, <1>11 DEF DoState, Measure, Write, Read, control, Executing
<1> QED
  BY <1>6, <1>7, <1>8, <1>9, <1>10, <1>11 DEF Next

(* While there are cycles left, the slice ends no later than the earliest   *)
(* event that the CPU thread has scheduled: ForceExceptionCheck() shortens  *)
(* it enough, and counts its cycles down at the right rate, savestates that *)
(* are loaded included, as long as the emulated clock has not been changed. *)
THEOREM SliceCorrect == Spec => []SliceCoversEvents
<1>1. Init => CInv
  <2> SUFFICES ASSUME Init PROVE CInv
    OBVIOUS
  <2> QED
    BY IInvInit DEF CInv, OthersOwn, Covered, Init
<1>2. CInv /\ [Next]_vars => CInv'
  BY CInvStep
<1>3. CInv => SliceCoversEvents
  BY DEF CInv, Covered, SliceCoversEvents, Executing
<1> QED
  BY <1>1, <1>2, <1>3, PTL DEF Spec

-----------------------------------------------------------------------------
(* Time does not go back.                                                   *)
LEMMA TicksKept ==
  ASSUME IInv, UNCHANGED <<global_timer, slice_length, downcount, s_is_global_timer_sane,
                       s_last_OC_factor>>
  PROVE  GetTicks' >= GetTicks
<1>1. GetTicks' = GetTicks
  BY DEF GetTicks, Remaining, clock
<1>2. Remaining \in Int
  BY RemainingFacts, TimingAssumption DEF Remaining, IInv, TypeOK
<1>3. GetTicks \in Int
  BY <1>2 DEF GetTicks, IInv, TypeOK
<1> QED
  BY <1>1, <1>3

LEMMA TicksStep ==
  ASSUME IInv, Next
  PROVE  Read \/ EndStep \/ GetTicks' >= GetTicks
<1>0. TypeOK /\ IInv'
  BY IInvStep DEF IInv
<1>00. /\ global_timer \in Int /\ slice_length \in Int /\ Remaining \in Int
       /\ global_timer' \in Int /\ slice_length' \in Int /\ Remaining' \in Int
  BY <1>0, RemainingFacts, TimingAssumption DEF Remaining, IInv, TypeOK
<1>1. ASSUME NEW type \in Types, NEW cycles \in Delays, ScheduleEvent(type, cycles)
      PROVE  GetTicks' >= GetTicks
  <2>1. CASE s_is_global_timer_sane
    BY <1>1, <2>1, TicksKept DEF ScheduleEvent, clock, factors
  <2>2. CASE ~ s_is_global_timer_sane
    <3>1. cycles \in Int
      BY TimingAssumption
    <3>2. /\ ForceExceptionCheck(cycles) /\ s_last_OC_factor' = s_last_OC_factor
          /\ global_timer' = global_timer /\ ~ s_is_global_timer_sane'
      BY <1>1, <2>2 DEF ScheduleEvent, clock, factors
    <3>3. Remaining <= slice_length
      BY <1>1, <2>2 DEF ScheduleEvent, InBlock, InCallback, IInv, SliceInv
    <3>4. slice_length' - Remaining' >= slice_length - Remaining
      BY <1>0, <3>1, <3>2, <3>3, ForceFacts DEF Remaining
    <3>5. GetTicks = global_timer + (slice_length - Remaining)
      BY <2>2 DEF GetTicks
    <3>6. GetTicks' = global_timer + (slice_length' - Remaining')
      BY <3>2 DEF GetTicks
    <3> QED
      BY <1>00, <3>4, <3>5, <3>6, LaterTime
  <2> QED
    BY <2>1, <2>2
<1>2. CASE AdvanceTimer
  <2>1. Remaining <= slice_length
    BY <1>2 DEF AdvanceTimer, IInv, SliceInv
  <2>2. global_timer' = global_timer + (slice_length - Remaining) /\ s_is_global_timer_sane'
    BY <1>2 DEF AdvanceTimer
  <2>3. GetTicks' = global_timer + (slice_length - Remaining)
    BY <1>00, <2>2 DEF GetTicks
  <2>4. GetTicks = global_timer \/ GetTicks = global_timer + (slice_length - Remaining)
    BY <1>00 DEF GetTicks
  <2> QED
    BY <1>00, <2>1, <2>3, <2>4
<1>3. CASE AdvanceEnd
  <2>1. s_is_global_timer_sane /\ global_timer' = global_timer /\ Remaining' <= slice_length'
    BY <1>0, <1>3 DEF AdvanceEnd, IInv, SliceInv
  <2>2. GetTicks = global_timer
    BY <1>00, <2>1 DEF GetTicks
  <2>3. GetTicks' = global_timer + (slice_length' - Remaining')
    <3>1. ~ s_is_global_timer_sane'
      BY <1>3 DEF AdvanceEnd
    <3> QED
      BY <2>1, <3>1 DEF GetTicks
  <2> QED
    BY <1>00, <2>1, <2>2, <2>3, NotBeforeBegin
<1>4. ASSUME downcount' <= downcount, downcount' \in Int,
             UNCHANGED <<global_timer, slice_length, s_is_global_timer_sane, s_last_OC_factor>>
      PROVE  GetTicks' >= GetTicks
  <2>1. Remaining' <= Remaining
    BY <1>4, EndBlockFacts
  <2>2. CASE s_is_global_timer_sane
    BY <1>00, <1>4, <2>2 DEF GetTicks
  <2>3. CASE ~ s_is_global_timer_sane
    <3>1. GetTicks = global_timer + (slice_length - Remaining)
      BY <2>3 DEF GetTicks
    <3>2. GetTicks' = global_timer + (slice_length - Remaining')
      BY <1>4, <2>3 DEF GetTicks
    <3> QED
      BY <1>00, <2>1, <3>1, <3>2, LessRemaining
  <2> QED
    BY <2>2, <2>3
<1>5. CASE Idle
  BY <1>4, <1>5 DEF Idle, InBlock, IInv, TypeOK, SliceInv, clock, factors
<1>6. ASSUME NEW cycles \in BlockCycles, EndBlock(cycles) PROVE GetTicks' >= GetTicks
  BY <1>4, <1>6, TimingAssumption DEF EndBlock, IInv, TypeOK, clock, factors
<1>7. CASE UNCHANGED <<global_timer, slice_length, downcount, s_is_global_timer_sane,
                       s_last_OC_factor>>
  BY <1>7, TicksKept
<1>8. CASE Scheduling
  BY <1>1, <1>7, <1>8 DEF Scheduling, RemoveEvent, RemoveAllEvents, ChangePPCClock, clock, factors
<1>9. CASE Advance
  BY <1>2, <1>3, <1>7, <1>9 DEF Advance, AdvanceMove, RunEvent, CallbackReturns, clock, factors
<1>10. CASE Execution
  BY <1>5, <1>6, <1>7, <1>10 DEF Execution, StartBlock, SliceOver, Pause, Resume, FifoWait,
     FifoWaitEnd, clock, factors
<1>11. CASE OtherThread
  BY <1>7, <1>11 DEF OtherThread, ReadTimer, Push, SetOCFactor, clock, factors
<1>12. CASE DoState
  BY <1>7, <1>12 DEF DoState, Measure, Write, clock, factors
<1> QED
  BY <1>8, <1>9, <1>10, <1>11, <1>12 DEF Next

(* Whatever the overclocking factor and whenever it changes, the guest      *)
(* never reads an earlier time than before, except after a savestate was    *)
(* loaded or a single step was counted as one cycle.                        *)
THEOREM TicksCorrect == Spec => TicksAdvance
<1>1. IInv /\ [Next]_vars => [Read \/ EndStep \/ GetTicks' >= GetTicks]_vars
  BY TicksStep
<1> QED
  BY <1>1, IInvInit, IInvStep, PTL DEF Spec, TicksAdvance

-----------------------------------------------------------------------------
(* The order of the events.  As long as no time was rescaled and there is   *)
(* no state to load, the heap is one, and fifo_order counts the events as   *)
(* they are added.                                                          *)
RankInv ==
  /\ is_heap
  /\ s_event_fifo_id = added
  /\ \A e \in s_event_queue : e.fifo_order = e.added - 1 /\ e.added <= added
  /\ \A e, f \in s_event_queue : e.added = f.added => e = f

LEMMA MovedEvent ==
  ASSUME TypeOK, NEW e \in Moved
  PROVE  \E i \in 1..Len(s_ts_queue) :
           /\ e = [s_ts_queue[i] EXCEPT !.fifo_order = s_event_fifo_id + i - 1,
                                        !.added = added + i]
           /\ e.time = s_ts_queue[i].time /\ e.delay = s_ts_queue[i].delay
           /\ e.fifo_order = s_event_fifo_id + i - 1 /\ e.added = added + i
<1>1. PICK i \in 1..Len(s_ts_queue) :
        e = [s_ts_queue[i] EXCEPT !.fifo_order = s_event_fifo_id + i - 1, !.added = added + i]
  BY DEF Moved
<1>2. s_ts_queue[i] \in Event
  BY DEF TypeOK
<1> QED
  BY <1>1, <1>2 DEF Event

(* A step that adds events under new ranks, each under its own.             *)
LEMMA RanksAdded ==
  ASSUME TypeOK, RankInv, NEW new,
         \A e \in new : /\ e.added \in Int /\ added < e.added /\ e.added <= added'
                        /\ e.fifo_order = e.added - 1,
         \A e, f \in new : e.added = f.added => e = f,
         s_event_queue' \subseteq s_event_queue \cup new,
         s_event_fifo_id' = added', added' \in Int, added <= added', is_heap'
  PROVE  RankInv'
<1>1. \A e \in s_event_queue : e.added \in Int /\ e.added <= added
  BY DEF TypeOK, Event, RankInv
<1>2. added \in Int
  BY DEF TypeOK
<1>3. ASSUME NEW e \in s_event_queue' PROVE e.fifo_order = e.added - 1 /\ e.added <= added'
  BY <1>1, <1>2, <1>3 DEF RankInv
<1>4. ASSUME NEW e \in s_event_queue', NEW f \in s_event_queue', e.added = f.added PROVE e = f
  BY <1>1, <1>2, <1>4 DEF RankInv
<1> QED
  BY <1>3, <1>4 DEF RankInv

LEMMA RanksKept ==
  ASSUME TypeOK, RankInv, s_event_queue' \subseteq s_event_queue,
         UNCHANGED <<s_event_fifo_id, added>>, is_heap'
  PROVE  RankInv'
<1>1. s_event_fifo_id' = added' /\ added' \in Int /\ added <= added'
  BY DEF TypeOK, RankInv
<1> DEFINE new == {}
<1>2. s_event_queue' \subseteq s_event_queue \cup new
  OBVIOUS
<1>3. /\ \A e \in new : /\ e.added \in Int /\ added < e.added /\ e.added <= added'
                       /\ e.fifo_order = e.added - 1
      /\ \A e, f \in new : e.added = f.added => e = f
  OBVIOUS
<1> HIDE DEF new
<1> QED
  BY <1>1, <1>2, <1>3, RanksAdded

LEMMA RanksMoved ==
  ASSUME TypeOK, RankInv, s_event_queue' \subseteq s_event_queue \cup Moved,
         s_event_fifo_id' = s_event_fifo_id + Len(s_ts_queue),
         added' = added + Len(s_ts_queue), is_heap'
  PROVE  RankInv'
<1>1. Len(s_ts_queue) \in Nat /\ added \in Nat /\ s_event_fifo_id = added
  BY DEF TypeOK, RankInv
<1>2. ASSUME NEW e \in Moved
      PROVE  /\ e.added \in Int /\ added < e.added /\ e.added <= added'
             /\ e.fifo_order = e.added - 1
  <2>1. PICK i \in 1..Len(s_ts_queue) :
          e.fifo_order = s_event_fifo_id + i - 1 /\ e.added = added + i
    BY <1>2, MovedEvent
  <2> QED
    BY <1>1, <2>1
<1>3. ASSUME NEW e \in Moved, NEW f \in Moved, e.added = f.added PROVE e = f
  <2>1. PICK i \in 1..Len(s_ts_queue) :
          /\ e = [s_ts_queue[i] EXCEPT !.fifo_order = s_event_fifo_id + i - 1,
                                       !.added = added + i]
          /\ e.added = added + i
    BY <1>3, MovedEvent
  <2>2. PICK j \in 1..Len(s_ts_queue) :
          /\ f = [s_ts_queue[j] EXCEPT !.fifo_order = s_event_fifo_id + j - 1,
                                       !.added = added + j]
          /\ f.added = added + j
    BY <1>3, MovedEvent
  <2>3. i = j
    BY <1>1, <1>3, <2>1, <2>2
  <2> QED
    BY <2>1, <2>2, <2>3
<1>4. s_event_fifo_id' = added' /\ added' \in Int /\ added <= added'
  BY <1>1
<1> QED
  BY <1>2, <1>3, <1>4, RanksAdded

LEMMA RankStep ==
  ASSUME IInv, RankInv, [Next]_vars, Undisturbed, Undisturbed'
  PROVE  RankInv'
<1> USE DEF IInv, clock, factors, queue, shared, control
<1>1. CASE UNCHANGED vars
  BY <1>1, RanksKept DEF vars, RankInv
<1>2. ASSUME NEW type \in Types, NEW cycles \in Delays, ScheduleEvent(type, cycles)
      PROVE  RankInv'
  <2> DEFINE e == [time |-> GetTicks + cycles, fifo_order |-> s_event_fifo_id, type |-> type,
                   delay |-> cycles, from |-> "CPU", added |-> added + 1]
  <2>1. /\ s_event_queue' = s_event_queue \cup {e}
        /\ s_event_fifo_id' = s_event_fifo_id + 1 /\ added' = added + 1
        /\ UNCHANGED is_heap
    BY <1>2 DEF ScheduleEvent
  <2>2. e.added = added + 1 /\ e.fifo_order = s_event_fifo_id
    OBVIOUS
  <2>3. added \in Nat /\ s_event_fifo_id = added
    BY DEF TypeOK, RankInv
  <2> HIDE DEF e
  <2>4. \A f \in {e} : /\ f.added \in Int /\ added < f.added /\ f.added <= added'
                       /\ f.fifo_order = f.added - 1
    BY <2>1, <2>2, <2>3
  <2>5. /\ s_event_fifo_id' = added' /\ added' \in Int /\ added <= added'
        /\ is_heap'
    BY <2>1, <2>3 DEF RankInv
  <2>6. s_event_queue' \subseteq s_event_queue \cup {e}
    BY <2>1
  <2> QED
    BY <2>4, <2>5, <2>6, RanksAdded
<1>3. ASSUME NEW type \in Types, RemoveEvent(type) PROVE RankInv'
  BY <1>3, RanksKept DEF RemoveEvent, RemoveFrom, RankInv
<1>4. ASSUME NEW type \in Types, RemoveAllEvents(type) PROVE RankInv'
  BY <1>4, RanksMoved DEF RemoveAllEvents, RemoveFrom, RankInv
<1>5. CASE ChangePPCClock
  BY <1>5 DEF ChangePPCClock, Undisturbed, ClockKept, WiiClock, GCClock
<1>6. CASE AdvanceMove
  BY <1>6, RanksMoved DEF AdvanceMove, MoveEvents, RankInv
<1>7. CASE AdvanceTimer \/ CallbackReturns \/ AdvanceEnd
  BY <1>7, RanksKept DEF AdvanceTimer, CallbackReturns, AdvanceEnd, RankInv
<1>8. ASSUME NEW e \in s_event_queue, RunEvent(e) PROVE RankInv'
  BY <1>8, RanksKept DEF RunEvent, RankInv
<1>9. CASE FifoWait
  BY <1>9, RanksMoved DEF FifoWait, MoveEvents, RankInv
<1>10. CASE StartBlock \/ Idle \/ (\E cycles \in BlockCycles : EndBlock(cycles)) \/ EndStep
            \/ SliceOver \/ Pause \/ Resume \/ FifoWaitEnd
  BY <1>10, RanksKept DEF StartBlock, Idle, EndBlock, EndStep, SliceOver, Pause, Resume,
     FifoWaitEnd, RankInv
<1>11. CASE OtherThread
  BY <1>11, RanksKept DEF OtherThread, ReadTimer, Push, SetOCFactor, RankInv
<1>12. CASE Measure
  BY <1>12, RanksMoved DEF Measure, MoveEvents, RankInv
<1>13. CASE Write
  BY <1>13, WriteDisturbs DEF Undisturbed
<1>14. CASE Read
  BY <1>14 DEF Read, Undisturbed
<1> QED
  BY <1>1, <1>2, <1>3, <1>4, <1>5, <1>6, <1>7, <1>8, <1>9, <1>10, <1>11, <1>12, <1>13, <1>14
     DEF Next, Scheduling, Advance, Execution, DoState

LEMMA RankCorrect == Spec => [](IInv /\ (Undisturbed => RankInv))
<1>1. Init => IInv /\ RankInv
  BY IInvInit DEF Init, RankInv
<1>2. IInv /\ (Undisturbed => RankInv) /\ [Next]_vars => IInv' /\ (Undisturbed' => RankInv')
  BY IInvStep, UndisturbedBefore, RankStep
<1> QED
  BY <1>1, <1>2, PTL DEF Spec

LEMMA FrontIsFirst ==
  ASSUME TypeOK, RankInv, NEW e \in s_event_queue, NEW f \in s_event_queue, Front(e), f # e
  PROVE  e.time < f.time \/ (e.time = f.time /\ e.added < f.added)
<1>1. e \in Event /\ f \in Event
  BY DEF TypeOK
<1>2. e.added \in Int /\ f.added \in Int /\ e.time \in Int /\ f.time \in Int
  BY <1>1 DEF Event
<1>3. e.added # f.added /\ e.fifo_order = e.added - 1 /\ f.fifo_order = f.added - 1
  BY DEF RankInv
<1>4. e.time < f.time \/ (e.time = f.time /\ e.fifo_order <= f.fifo_order)
  BY DEF Front, Precedes, RankInv
<1> QED
  BY <1>2, <1>3, <1>4

(* The event that runs is the earliest one in the queue, and of those the   *)
(* one that was added first, by whatever thread, whatever was removed in    *)
(* between: until the emulated clock is changed, which does not repair the  *)
(* heap, or there is a state to load, which hands out ranks again.          *)
THEOREM RunsInOrderCorrect == Spec => RunsInOrder
<1>1. IInv /\ (Undisturbed => RankInv) /\ [Next]_vars =>
        [\A e \in s_event_queue : Undisturbed /\ RunEvent(e) =>
           \A f \in s_event_queue \ {e} :
             e.time < f.time \/ (e.time = f.time /\ e.added < f.added)]_vars
  BY FrontIsFirst DEF IInv, RunEvent
<1> QED
  BY <1>1, RankCorrect, PTL DEF Spec, RunsInOrder

-----------------------------------------------------------------------------
(* Events of other threads with the same delay.  The timer never goes back, *)
(* and its reader holds the lock until the event is in the queue: so the    *)
(* times of such events are in the order of the queues that they go         *)
(* through, and none is further ahead of the timer than its delay.          *)
NoLater(e, f) == e.delay = f.delay => e.time <= f.time
InTime(e, now) == e.time <= now + e.delay

OthersInv ==
  /\ \A t \in Others : pending[t] # NoEvent =>
       s_ts_write_lock = t /\ InTime(pending[t], global_timer)
  /\ \A i \in 1..Len(s_ts_queue) :
       /\ InTime(s_ts_queue[i], global_timer)
       /\ \A j \in 1..Len(s_ts_queue) : i < j => NoLater(s_ts_queue[i], s_ts_queue[j])
       /\ \A t \in Others : pending[t] # NoEvent => NoLater(s_ts_queue[i], pending[t])
  /\ \A e \in s_event_queue : e.from # "CPU" =>
       /\ InTime(e, global_timer)
       /\ \A f \in s_event_queue : f.from # "CPU" /\ e.added < f.added => NoLater(e, f)
       /\ \A i \in 1..Len(s_ts_queue) : NoLater(e, s_ts_queue[i])
       /\ \A t \in Others : pending[t] # NoEvent => NoLater(e, pending[t])

LEMMA StillInTime ==
  ASSUME NEW e \in Event, NEW now \in Int, NEW later \in Int, now <= later, InTime(e, now)
  PROVE  InTime(e, later)
BY DEF InTime, Event

LEMMA ReadInTime ==
  ASSUME NEW e \in Event, NEW f \in Event, NEW now \in Int, InTime(e, now),
         f.time = now + f.delay
  PROVE  NoLater(e, f)
BY DEF InTime, NoLater, Event

\* No event of another thread comes into a queue.
LEMMA OthersQuiet ==
  ASSUME TypeOK, OthersInv, UNCHANGED <<s_ts_queue, pending, s_ts_write_lock>>,
         \A e \in s_event_queue' : e \in s_event_queue \/ e.from = "CPU",
         global_timer' \in Int, global_timer <= global_timer'
  PROVE  OthersInv'
<1>1. global_timer \in Int /\ s_ts_queue \in Seq(Event) /\ s_event_queue \in SUBSET Event
      /\ pending \in [Others -> Event \cup {NoEvent}]
  BY DEF TypeOK
<1>2. ASSUME NEW e \in Event, InTime(e, global_timer) PROVE InTime(e, global_timer')
  BY <1>1, <1>2, StillInTime
<1>3. \A t \in Others : pending[t] # NoEvent => InTime(pending[t], global_timer')
  BY <1>1, <1>2 DEF OthersInv
<1>4. \A i \in 1..Len(s_ts_queue) : InTime(s_ts_queue[i], global_timer')
  BY <1>1, <1>2 DEF OthersInv
<1>5. \A e \in s_event_queue : e.from # "CPU" => InTime(e, global_timer')
  BY <1>1, <1>2 DEF OthersInv
<1> QED
  BY <1>3, <1>4, <1>5 DEF OthersInv

\* MoveEvents() keeps the order of the queue.
LEMMA OthersMoved ==
  ASSUME TypeOK, RankInv, OthersInv, s_event_queue' \subseteq s_event_queue \cup Moved,
         s_ts_queue' = << >>, UNCHANGED <<pending, s_ts_write_lock, global_timer>>
  PROVE  OthersInv'
<1>1. /\ s_ts_queue \in Seq(Event) /\ Len(s_ts_queue) \in Nat /\ added \in Nat
      /\ \A e \in s_event_queue : e.added \in Int /\ e.added <= added
  BY DEF TypeOK, RankInv, Event
<1>2. ASSUME NEW e \in Moved
      PROVE  \E i \in 1..Len(s_ts_queue) :
               /\ e.time = s_ts_queue[i].time /\ e.delay = s_ts_queue[i].delay
               /\ e.added = added + i
  BY <1>2, MovedEvent
<1>3. ASSUME NEW e \in Moved
      PROVE  /\ InTime(e, global_timer)
             /\ \A t \in Others : pending[t] # NoEvent => NoLater(e, pending[t])
  <2>1. PICK i \in 1..Len(s_ts_queue) :
          e.time = s_ts_queue[i].time /\ e.delay = s_ts_queue[i].delay
    BY <1>2, <1>3
  <2> QED
    BY <2>1 DEF OthersInv, InTime, NoLater
<1>4. ASSUME NEW e \in Moved, NEW f \in Moved, e.added < f.added PROVE NoLater(e, f)
  <2>1. PICK i \in 1..Len(s_ts_queue) :
          /\ e.time = s_ts_queue[i].time /\ e.delay = s_ts_queue[i].delay
          /\ e.added = added + i
    BY <1>2, <1>4
  <2>2. PICK j \in 1..Len(s_ts_queue) :
          /\ f.time = s_ts_queue[j].time /\ f.delay = s_ts_queue[j].delay
          /\ f.added = added + j
    BY <1>2, <1>4
  <2>3. i < j
    BY <1>1, <1>4, <2>1, <2>2
  <2>4. NoLater(s_ts_queue[i], s_ts_queue[j])
    BY <2>3 DEF OthersInv
  <2> QED
    BY <2>1, <2>2, <2>4 DEF NoLater
<1>5. ASSUME NEW e \in s_event_queue, e.from # "CPU", NEW f \in Moved PROVE NoLater(e, f)
  <2>1. PICK i \in 1..Len(s_ts_queue) :
          f.time = s_ts_queue[i].time /\ f.delay = s_ts_queue[i].delay
    BY <1>2, <1>5
  <2>2. NoLater(e, s_ts_queue[i])
    BY <1>5 DEF OthersInv
  <2> QED
    BY <2>1, <2>2 DEF NoLater
<1>6. ASSUME NEW e \in Moved, NEW f \in s_event_queue PROVE ~ (e.added < f.added)
  <2>1. PICK i \in 1..Len(s_ts_queue) : e.added = added + i
    BY <1>2, <1>6
  <2> QED
    BY <1>1, <2>1
<1>7. ASSUME NEW e \in s_event_queue', e.from # "CPU"
      PROVE  /\ InTime(e, global_timer)
             /\ \A f \in s_event_queue' : f.from # "CPU" /\ e.added < f.added => NoLater(e, f)
             /\ \A t \in Others : pending[t] # NoEvent => NoLater(e, pending[t])
  <2>1. CASE e \in s_event_queue
    <3>1. ASSUME NEW f \in s_event_queue', f.from # "CPU", e.added < f.added PROVE NoLater(e, f)
      BY <1>5, <1>7, <2>1, <3>1 DEF OthersInv
    <3> QED
      BY <1>7, <2>1, <3>1 DEF OthersInv
  <2>2. CASE e \in Moved
    BY <1>3, <1>4, <1>6, <2>2
  <2> QED
    BY <1>7, <2>1, <2>2
<1>8. 1..Len(s_ts_queue') = {}
  OBVIOUS
<1> QED
  BY <1>7, <1>8 DEF OthersInv

LEMMA OthersPush ==
  ASSUME TypeOK, OthersInv, NEW t \in Others, Push(t)
  PROVE  OthersInv'
<1> DEFINE e == pending[t]
<1>1. /\ s_ts_queue \in Seq(Event) /\ e \in Event
      /\ pending \in [Others -> Event \cup {NoEvent}]
  BY DEF TypeOK, Push
<1>2. /\ s_ts_queue' = Append(s_ts_queue, e) /\ pending' = [pending EXCEPT ![t] = NoEvent]
      /\ UNCHANGED <<s_event_queue, global_timer>>
  BY DEF Push, queue, clock
<1>3. \A u \in Others : pending[u] # NoEvent => u = t
  BY DEF OthersInv, Push
<1>4. \A u \in Others : pending'[u] = NoEvent
  BY <1>1, <1>2, <1>3
<1>5. pending[t] # NoEvent
  BY DEF Push
<1> DEFINE n == Len(s_ts_queue)
<1>6. /\ n \in Nat /\ Len(s_ts_queue') = n + 1
      /\ \A i \in 1..n : s_ts_queue'[i] = s_ts_queue[i]
      /\ s_ts_queue'[n + 1] = e
  BY <1>1, <1>2
<1>7. /\ InTime(e, global_timer)
      /\ \A i \in 1..n : NoLater(s_ts_queue[i], e)
      /\ \A f \in s_event_queue : f.from # "CPU" => NoLater(f, e)
  BY <1>5 DEF OthersInv
<1>8. \A i \in 1..n : /\ InTime(s_ts_queue[i], global_timer)
                      /\ \A j \in 1..n : i < j => NoLater(s_ts_queue[i], s_ts_queue[j])
  BY DEF OthersInv
<1> HIDE DEF e, n
<1>9. \A i \in 1..n + 1 : i \in 1..n \/ i = n + 1
  BY <1>6
<1>10. ASSUME NEW i \in 1..Len(s_ts_queue')
       PROVE  /\ InTime(s_ts_queue'[i], global_timer')
              /\ \A j \in 1..Len(s_ts_queue') : i < j => NoLater(s_ts_queue'[i], s_ts_queue'[j])
  <2>1. CASE i \in 1..n
    BY <1>2, <1>6, <1>7, <1>8, <1>9, <2>1
  <2>2. CASE i = n + 1
    BY <1>2, <1>6, <1>7, <2>2
  <2> QED
    BY <1>6, <1>9, <2>1, <2>2
<1>11. ASSUME NEW f \in s_event_queue, f.from # "CPU", NEW i \in 1..Len(s_ts_queue')
       PROVE  NoLater(f, s_ts_queue'[i])
  <2>1. CASE i \in 1..n
    BY <1>6, <1>11, <2>1 DEF OthersInv, n
  <2>2. CASE i = n + 1
    BY <1>6, <1>7, <1>11, <2>2
  <2> QED
    BY <1>6, <1>9, <2>1, <2>2
<1> QED
  BY <1>2, <1>4, <1>10, <1>11 DEF OthersInv

LEMMA OthersReadTimer ==
  ASSUME TypeOK, OthersInv, NEW t \in Others, NEW type \in Types, NEW cycles \in OtherDelays,
         ReadTimer(t, type, cycles)
  PROVE  OthersInv'
<1> DEFINE e == [time |-> global_timer + cycles, fifo_order |-> 0, type |-> type,
                 delay |-> cycles, from |-> t, added |-> 0]
<1>1. cycles \in Int /\ global_timer \in Int
  BY TimingAssumption DEF TypeOK
<1>2. e \in Event /\ e.time = global_timer + e.delay
  BY <1>1 DEF Event
<1> HIDE DEF e
<1>3. /\ s_ts_write_lock = NoThread /\ s_ts_write_lock' = t
      /\ pending' = [pending EXCEPT ![t] = e]
      /\ UNCHANGED <<s_event_queue, s_ts_queue, global_timer>>
  BY DEF ReadTimer, queue, clock, e
<1>4. \A u \in Others : pending[u] = NoEvent
  BY <1>3, TimingAssumption DEF OthersInv
<1>5. pending \in [Others -> Event \cup {NoEvent}] /\ s_event_queue \in SUBSET Event
      /\ s_ts_queue \in Seq(Event)
  BY DEF TypeOK
<1>6. \A u \in Others : pending'[u] # NoEvent => u = t /\ pending'[u] = e
  BY <1>3, <1>4, <1>5
<1>7. InTime(e, global_timer)
  BY <1>1, <1>2 DEF InTime, Event
<1>8. \A i \in 1..Len(s_ts_queue) : NoLater(s_ts_queue[i], e)
  BY <1>1, <1>2, <1>5, ReadInTime DEF OthersInv
<1>9. \A f \in s_event_queue : f.from # "CPU" => NoLater(f, e)
  BY <1>1, <1>2, <1>5, ReadInTime DEF OthersInv
<1> QED
  BY <1>3, <1>6, <1>7, <1>8, <1>9 DEF OthersInv

LEMMA OthersStep ==
  ASSUME IInv, RankInv, OthersInv, [Next]_vars, Undisturbed, Undisturbed'
  PROVE  OthersInv'
<1> USE DEF IInv, clock, factors, queue, shared, control
<1>0. global_timer \in Int /\ global_timer <= global_timer
  BY DEF TypeOK
<1>1. CASE UNCHANGED vars
  BY <1>0, <1>1, OthersQuiet DEF vars
<1>2. CASE Scheduling
  <2>1. ASSUME NEW type \in Types, NEW cycles \in Delays, ScheduleEvent(type, cycles)
        PROVE  OthersInv'
    <3>1. \A e \in s_event_queue' : e \in s_event_queue \/ e.from = "CPU"
      BY <2>1 DEF ScheduleEvent
    <3> QED
      BY <1>0, <2>1, <3>1, OthersQuiet DEF ScheduleEvent
  <2>2. ASSUME NEW type \in Types, RemoveEvent(type) PROVE OthersInv'
    BY <1>0, <2>2, OthersQuiet DEF RemoveEvent, RemoveFrom
  <2>3. ASSUME NEW type \in Types, RemoveAllEvents(type) PROVE OthersInv'
    BY <2>3, OthersMoved DEF RemoveAllEvents, RemoveFrom
  <2>4. CASE ChangePPCClock
    BY <2>4 DEF ChangePPCClock, Undisturbed, ClockKept, WiiClock, GCClock
  <2> QED
    BY <1>2, <2>1, <2>2, <2>3, <2>4 DEF Scheduling
<1>3. CASE Advance
  <2>1. CASE AdvanceMove
    BY <2>1, OthersMoved DEF AdvanceMove, MoveEvents
  <2>2. CASE AdvanceTimer
    <3>1. Remaining <= slice_length
      BY <2>2 DEF AdvanceTimer, SliceInv
    <3>2. Remaining \in Int /\ slice_length \in Int
      BY RemainingFacts, TimingAssumption DEF Remaining, TypeOK
    <3>3. global_timer' = global_timer + (slice_length - Remaining)
      BY <2>2 DEF AdvanceTimer
    <3>4. global_timer' \in Int /\ global_timer <= global_timer'
      BY <1>0, <3>1, <3>2, <3>3
    <3> QED
      BY <2>2, <3>4, OthersQuiet DEF AdvanceTimer
  <2>3. ASSUME NEW e \in s_event_queue, RunEvent(e) PROVE OthersInv'
    BY <1>0, <2>3, OthersQuiet DEF RunEvent
  <2>4. CASE CallbackReturns \/ AdvanceEnd
    BY <1>0, <2>4, OthersQuiet DEF CallbackReturns, AdvanceEnd
  <2> QED
    BY <1>3, <2>1, <2>2, <2>3, <2>4 DEF Advance
<1>4. CASE Execution
  <2>1. CASE FifoWait
    BY <2>1, OthersMoved DEF FifoWait, MoveEvents
  <2>2. CASE StartBlock \/ Idle \/ (\E cycles \in BlockCycles : EndBlock(cycles)) \/ EndStep
             \/ SliceOver \/ Pause \/ Resume \/ FifoWaitEnd
    BY <1>0, <2>2, OthersQuiet DEF StartBlock, Idle, EndBlock, EndStep, SliceOver, Pause, Resume,
       FifoWaitEnd
  <2> QED
    BY <1>4, <2>1, <2>2 DEF Execution
<1>5. CASE SetOCFactor
  BY <1>0, <1>5, OthersQuiet DEF SetOCFactor
<1>6. CASE DoState
  <2>1. CASE Measure
    BY <2>1, OthersMoved DEF Measure, MoveEvents
  <2>2. CASE Write
    BY <2>2, WriteDisturbs DEF Undisturbed
  <2>3. CASE Read
    BY <2>3 DEF Read, Undisturbed
  <2> QED
    BY <1>6, <2>1, <2>2, <2>3 DEF DoState
<1> QED
  BY <1>1, <1>2, <1>3, <1>4, <1>5, <1>6, OthersPush, OthersReadTimer DEF Next, OtherThread

(* Events that other threads schedule with the same delay run in the order  *)
(* in which they were pushed, whichever threads they come from, although    *)
(* the timer they are based on is that of the slice's beginning; again      *)
(* until the clock is changed or there is a state to load.                  *)
THEOREM OtherThreadOrderCorrect == Spec => OtherThreadOrder
<1>1. Init => OthersInv
  BY DEF Init, OthersInv
<1>2. IInv /\ (Undisturbed => RankInv) /\ (Undisturbed => OthersInv) /\ [Next]_vars =>
        (Undisturbed' => OthersInv')
  BY UndisturbedBefore, OthersStep
<1>3. ASSUME IInv, RankInv, OthersInv, NEW e \in s_event_queue, RunEvent(e), e.from # "CPU",
             NEW f \in s_event_queue \ {e}, f.from # "CPU", f.delay = e.delay
      PROVE  e.added < f.added
  <2>0. e.added # f.added
    BY <1>3 DEF RankInv
  <2>1. e.added \in Int /\ f.added \in Int /\ e.time \in Int /\ f.time \in Int
    BY <1>3 DEF IInv, TypeOK, Event
  <2>2. e.time < f.time \/ (e.time = f.time /\ e.added < f.added)
    BY <1>3, FrontIsFirst DEF IInv, RunEvent
  <2>3. f.added < e.added => f.time <= e.time
    BY <1>3 DEF OthersInv, NoLater
  <2> QED
    BY <2>0, <2>1, <2>2, <2>3
<1>4. IInv /\ (Undisturbed => RankInv) /\ (Undisturbed => OthersInv) /\ [Next]_vars =>
        [\A e \in s_event_queue : Undisturbed /\ RunEvent(e) /\ e.from # "CPU" =>
           \A f \in s_event_queue \ {e} :
             f.from # "CPU" /\ f.delay = e.delay => e.added < f.added]_vars
  BY <1>3
<1> QED
  BY <1>1, <1>2, <1>4, RankCorrect, PTL DEF Spec, OtherThreadOrder

=============================================================================
