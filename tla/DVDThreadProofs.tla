--------------------------- MODULE DVDThreadProofs ---------------------------
(***************************************************************************)
(* Proofs about DVDThread: type correctness; that waiting until idle does  *)
(* what it says; that every read gets its own result, and exists once      *)
(* until then.  Any number of discs, reads in flight, savestates and       *)
(* launches.                                                               *)
(***************************************************************************)
EXTENDS DVDThread, FiniteSetTheorems, TLAPS

\* What a queue holds.
Items(q) == {q[i] : i \in DOMAIN q}

LEMMA NoItems == Items(<< >>) = {}
BY DEF Items

LEMMA AppendItems ==
  ASSUME NEW S, NEW q \in Seq(S), NEW e \in S
  PROVE  Append(q, e) \in Seq(S) /\ Items(Append(q, e)) = Items(q) \cup {e}
<1>1. Append(q, e) \in Seq(S)
  OBVIOUS
<1>2. DOMAIN Append(q, e) = 1..Len(q) + 1 /\ DOMAIN q = 1..Len(q) /\ Len(q) \in Nat
  OBVIOUS
<1>3. \A i \in 1..Len(q) : Append(q, e)[i] = q[i]
  OBVIOUS
<1>4. Append(q, e)[Len(q) + 1] = e
  OBVIOUS
<1> HIDE DEF Items
<1>5. ASSUME NEW x \in Items(Append(q, e)) PROVE x \in Items(q) \cup {e}
  BY <1>2, <1>3, <1>4, <1>5 DEF Items
<1>6. ASSUME NEW x \in Items(q) PROVE x \in Items(Append(q, e))
  BY <1>2, <1>3, <1>6 DEF Items
<1>7. e \in Items(Append(q, e))
  BY <1>2, <1>4 DEF Items
<1> QED
  BY <1>1, <1>5, <1>6, <1>7

LEMMA TailItems ==
  ASSUME NEW S, NEW q \in Seq(S), q # << >>
  PROVE  /\ Head(q) \in S /\ Tail(q) \in Seq(S)
         /\ Head(q) \in Items(q)
         /\ \A x \in Items(Tail(q)) : x \in Items(q)
<1>1. Head(q) \in S /\ Tail(q) \in Seq(S)
  OBVIOUS
<1>2. Len(q) \in Nat \ {0} /\ DOMAIN q = 1..Len(q) /\ DOMAIN Tail(q) = 1..Len(q) - 1
  OBVIOUS
<1>3. Head(q) = q[1] /\ \A i \in 1..Len(q) - 1 : Tail(q)[i] = q[i + 1]
  OBVIOUS
<1>4. Head(q) \in Items(q)
  BY <1>2, <1>3 DEF Items
<1>5. ASSUME NEW x \in Items(Tail(q)) PROVE x \in Items(q)
  <2>1. PICK i \in 1..Len(q) - 1 : x = Tail(q)[i]
    BY <1>2, <1>5 DEF Items
  <2>2. i + 1 \in DOMAIN q /\ x = q[i + 1]
    BY <1>2, <1>3, <2>1
  <2> QED
    BY <2>2 DEF Items
<1> QED
  BY <1>1, <1>4, <1>5

LEMMA ItemTypes ==
  ASSUME NEW S, NEW q \in Seq(S)
  PROVE  \A x \in Items(q) : x \in S
BY DEF Items

(* What is popped into s_result_map comes from the queue, and ids stay      *)
(* unique.                                                                  *)
UniqueIds(map) == \A r, q \in map : r.request.id = q.request.id => r = q

LEMMA EmplaceAllFacts ==
  ASSUME NEW map \in SUBSET ReadResult, UniqueIds(map), NEW q \in Seq(ReadResult)
  PROVE  /\ EmplaceAll(map, q) \in SUBSET ReadResult
         /\ UniqueIds(EmplaceAll(map, q))
         /\ \A r \in EmplaceAll(map, q) : r \in map \/ r \in Items(q)
<1> DEFINE In(r) == \E p \in map : p.request.id = r.request.id
           New(i) == /\ ~ In(q[i])
                     /\ ~ \E j \in 1..i-1 : q[j].request.id = q[i].request.id
<1>1. DOMAIN q = 1..Len(q) /\ Len(q) \in Nat
  OBVIOUS
<1>2. ASSUME NEW r
      PROVE  r \in EmplaceAll(map, q) <=> r \in map \/ \E i \in DOMAIN q : New(i) /\ r = q[i]
  BY DEF EmplaceAll
<1>3. EmplaceAll(map, q) \in SUBSET ReadResult
  BY <1>1, <1>2
<1>4. \A r \in EmplaceAll(map, q) : r \in map \/ r \in Items(q)
  BY <1>2 DEF Items
<1>5. ASSUME NEW r \in EmplaceAll(map, q), NEW p \in EmplaceAll(map, q),
             r.request.id = p.request.id
      PROVE  r = p
  <2>1. CASE r \in map /\ p \in map
    BY <1>5, <2>1 DEF UniqueIds
  <2>2. CASE r \in map /\ p \notin map
    BY <1>2, <1>5, <2>2
  <2>3. CASE r \notin map /\ p \in map
    BY <1>2, <1>5, <2>3
  <2>4. CASE r \notin map /\ p \notin map
    <3>1. PICK i \in DOMAIN q : New(i) /\ r = q[i]
      BY <1>2, <2>4
    <3>2. PICK j \in DOMAIN q : New(j) /\ p = q[j]
      BY <1>2, <2>4
    <3>3. i \in Nat /\ j \in Nat /\ 1 <= i /\ 1 <= j
      BY <1>1
    <3>4. ~ (i \in 1..j-1) /\ ~ (j \in 1..i-1)
      BY <1>5, <3>1, <3>2
    <3>5. i = j
      BY <3>3, <3>4
    <3> QED
      BY <3>1, <3>2, <3>5
  <2> QED
    BY <2>1, <2>2, <2>3, <2>4
<1> QED
  BY <1>3, <1>4, <1>5 DEF UniqueIds

LEMMA EmplaceFacts ==
  ASSUME NEW map \in SUBSET ReadResult, UniqueIds(map), NEW r \in ReadResult
  PROVE  /\ Emplace(map, r) \in SUBSET ReadResult
         /\ UniqueIds(Emplace(map, r))
         /\ \A q \in Emplace(map, r) : q \in map \/ q = r
BY DEF Emplace, UniqueIds

-----------------------------------------------------------------------------
TypeInv ==
  /\ TypeOK
  /\ goal.do = "read" => saved # NoState
  /\ saved # NoState => UniqueIds(saved.s_result_map)
  /\ cpu = "off" => dvd = "off"

LEMMA TypeInit == Init => TypeInv
<1> SUFFICES ASSUME Init PROVE TypeInv
  OBVIOUS
<1>1. s_request_queue \in Seq(ReadRequest) /\ s_result_queue \in Seq(ReadResult)
  BY DEF Init
<1>2. UniqueIds(s_result_map) /\ s_result_map \in SUBSET ReadResult /\ events \in SUBSET ReadRequest
  BY DEF Init, UniqueIds
<1>3. cpu = "off" /\ dvd = "off" /\ goal = NoGoal /\ saved = NoState
  BY DEF Init
<1>4. goal.do # "read"
  BY <1>3 DEF NoGoal
<1> QED
  BY <1>1, <1>2, <1>3, <1>4 DEF Init, TypeInv, TypeOK, InFinishRead, UniqueIds

\* Everything but the program counters of the two threads.
LEMMA TypeUnchanged ==
  ASSUME TypeInv, UNCHANGED vars
  PROVE  TypeInv'
BY DEF TypeInv, TypeOK, vars, queues, flags, store, thread, caller, ghosts, UniqueIds

LEMMA TypeDvdStep ==
  ASSUME TypeInv, DvdStep
  PROVE  TypeInv'
<1> USE DEF TypeInv, TypeOK, queues, flags, store, thread, caller, ghosts, DvdGoto, InFinishRead,
           InWaitUntilIdle, InStop
<1>1. CASE DvdWait
  <2>1. dvd' = "woken" /\ UNCHANGED <<hand, s_request_queue, s_result_queue, s_result_map,
          s_next_id, s_disc, events, saved, started, cpu, goal, result, finishing>>
    BY <1>1, Zenon DEF DvdWait
  <2>2. {s_request_queue_expanded', s_result_queue_expanded', s_dvd_thread_exiting', popped',
       raced', leftover'} \subseteq BOOLEAN
    BY <1>1, Zenon DEF DvdWait
  <2>3. dvd = "wait"
    BY <1>1, Zenon DEF DvdWait
  <2> QED
    BY <2>1, <2>2, <2>3
<1>2. CASE DvdWoken
  BY <1>2 DEF DvdWoken
<1>3. CASE DvdPop
  <2>1. s_request_queue # << >> =>
          Head(s_request_queue) \in ReadRequest /\ Tail(s_request_queue) \in Seq(ReadRequest)
    BY TailItems
  <2>2. CASE s_request_queue = << >>
    BY <1>3, <2>2 DEF DvdPop
  <2>3. CASE s_request_queue # << >>
    <3>1. /\ dvd' = "read" /\ hand' = Head(s_request_queue)
          /\ s_request_queue' = Tail(s_request_queue)
          /\ {popped', raced', leftover'} \subseteq BOOLEAN
      BY <1>3, <2>3 DEF DvdPop
    <3>2. hand' \in ReadRequest /\ s_request_queue' \in Seq(ReadRequest)
      BY <2>1, <2>3, <3>1
    <3> QED
      BY <1>3, <3>1, <3>2 DEF DvdPop
  <2> QED
    BY <2>2, <2>3
<1>4. CASE DvdRead
  <2>1. [request |-> hand, disc |-> s_disc] \in ReadResult
    BY <1>4 DEF DvdRead, ReadResult
  <2> QED
    BY <1>4, <2>1 DEF DvdRead
<1>5. CASE DvdPush
  <2>1. Append(s_result_queue, hand) \in Seq(ReadResult)
    BY <1>5, AppendItems DEF DvdPush
  <2> QED
    BY <1>5, <2>1 DEF DvdPush
<1>6. CASE DvdSet
  BY <1>6 DEF DvdSet
<1>7. CASE DvdNext
  BY <1>7 DEF DvdNext
<1> QED
  BY <1>1, <1>2, <1>3, <1>4, <1>5, <1>6, <1>7 DEF DvdStep

LEMMA TypeCpuCall ==
  ASSUME TypeInv, CpuCall
  PROVE  TypeInv'
<1> USE DEF TypeInv, TypeOK, queues, flags, store, thread, caller, ghosts, Goto, InFinishRead,
           InWaitUntilIdle, InStop
<1>1. CASE Start
  <2>1. s_request_queue' \in Seq(ReadRequest) /\ s_result_queue' \in Seq(ReadResult)
    BY <1>1 DEF Start
  <2>2. cpu' = "run" /\ dvd' = "wait" /\ s_next_id' \in Nat
    BY <1>1 DEF Start
  <2> QED
    BY <1>1, <2>1, <2>2 DEF Start
<1>2. CASE StartRead
  <2> DEFINE request == [id |-> s_next_id, serial |-> started + 1, disc |-> s_disc]
  <2>1. request \in ReadRequest
    BY DEF ReadRequest
  <2>2. Append(s_request_queue, request) \in Seq(ReadRequest)
    BY <2>1, AppendItems
  <2> HIDE DEF request
  <2>3. s_request_queue' = Append(s_request_queue, request) /\ finishing' = request
    BY <1>2 DEF StartRead, request
  <2>4. s_request_queue' \in Seq(ReadRequest) /\ finishing' \in ReadRequest
    BY <2>1, <2>2, <2>3
  <2> QED
    BY <1>2, <2>4 DEF StartRead
<1>3. ASSUME NEW event \in events, FinishRead(event) PROVE TypeInv'
  BY <1>3 DEF FinishRead
<1>4. ASSUME NEW g \in Goals, WaitUntilIdle(g) PROVE TypeInv'
  BY <1>4 DEF WaitUntilIdle
<1> QED
  BY <1>1, <1>2, <1>3, <1>4 DEF CpuCall

LEMMA TypeCpuStep ==
  ASSUME TypeInv, CpuStep
  PROVE  TypeInv'
<1> USE DEF TypeInv, TypeOK, queues, flags, store, thread, caller, ghosts, Goto, InFinishRead,
           InWaitUntilIdle, InStop
<1>1. CASE StartReadSet
  BY <1>1 DEF StartReadSet
<1>2. CASE FinishPop
  <2>1. CASE s_result_queue = << >>
    BY <1>2, <2>1 DEF FinishPop
  <2>2. CASE s_result_queue # << >>
    <3> DEFINE r == Head(s_result_queue)
    <3>1. r \in ReadResult /\ Tail(s_result_queue) \in Seq(ReadResult)
      BY <2>2, TailItems
    <3>2. UniqueIds(s_result_map)
      BY DEF UniqueIds
    <3>3. Emplace(s_result_map, r) \in SUBSET ReadResult /\ UniqueIds(Emplace(s_result_map, r))
      BY <3>1, <3>2, EmplaceFacts
    <3> HIDE DEF r
    <3>4. CASE r.request.id = finishing.id
      <4>1. /\ cpu' = "finished" /\ result' = r /\ UNCHANGED s_result_map
            /\ s_result_queue' = Tail(s_result_queue)
        BY <1>2, <2>2, <3>4 DEF FinishPop, r
      <4> QED
        BY <1>2, <3>1, <4>1 DEF FinishPop
    <3>5. CASE r.request.id # finishing.id
      <4>1. s_result_map' = Emplace(s_result_map, r) /\ UNCHANGED <<cpu, result>>
            /\ s_result_queue' = Tail(s_result_queue)
        BY <1>2, <2>2, <3>5 DEF FinishPop, r
      <4>2. s_result_map' \in SUBSET ReadResult /\ UniqueIds(s_result_map)'
        BY <3>3, <4>1 DEF UniqueIds
      <4> QED
        BY <1>2, <3>1, <4>1, <4>2 DEF FinishPop, UniqueIds
    <3> QED
      BY <3>4, <3>5
  <2> QED
    BY <2>1, <2>2
<1>3. CASE FinishWait \/ FinishDone
  <2>1. CASE FinishWait
    <3>1. /\ cpu = "finishWait" /\ cpu' = "finishPop"
          /\ UNCHANGED <<hand, dvd, s_request_queue, s_result_queue, s_result_map, s_next_id,
                          s_disc, events, saved, started, goal, result, finishing>>
      BY <2>1, Zenon DEF FinishWait
    <3>2. {s_request_queue_expanded', s_result_queue_expanded', s_dvd_thread_exiting', popped',
         raced', leftover'} \subseteq BOOLEAN
      BY <2>1, Zenon DEF FinishWait
    <3> QED
      BY <3>1, <3>2
  <2>2. CASE FinishDone
    BY <2>2 DEF FinishDone
  <2> QED
    BY <1>3, <2>1, <2>2
<1>4. CASE IdleLook \/ IdleTest \/ IdleWait
  <2>1. CASE IdleLook
    BY <2>1 DEF IdleLook
  <2>2. CASE IdleTest
    <3>1. /\ cpu = "idleTest" /\ cpu' \in {"exitSet", "idleWait"}
          /\ UNCHANGED <<hand, dvd, s_request_queue, s_result_queue, s_result_map, s_next_id,
                          s_disc, events, saved, started, goal, result, finishing>>
      BY <2>2, Zenon DEF IdleTest
    <3>2. {s_request_queue_expanded', s_result_queue_expanded', s_dvd_thread_exiting', popped',
         raced', leftover'} \subseteq BOOLEAN
      BY <2>2, Zenon DEF IdleTest
    <3> QED
      BY <3>1, <3>2
  <2>3. CASE IdleWait
    <3>1. /\ cpu = "idleWait" /\ cpu' = "idleLook"
          /\ UNCHANGED <<hand, dvd, s_request_queue, s_result_queue, s_result_map, s_next_id,
                          s_disc, events, saved, started, goal, result, finishing>>
      BY <2>3, Zenon DEF IdleWait
    <3>2. {s_request_queue_expanded', s_result_queue_expanded', s_dvd_thread_exiting', popped',
         raced', leftover'} \subseteq BOOLEAN
      BY <2>3, Zenon DEF IdleWait
    <3> QED
      BY <3>1, <3>2
  <2> QED
    BY <1>4, <2>1, <2>2, <2>3
<1>5. CASE ExitSet \/ ExitEvent \/ Restart
  <2>1. CASE ExitSet
    BY <2>1 DEF ExitSet
  <2>2. CASE ExitEvent
    BY <2>2 DEF ExitEvent
  <2>3. CASE Restart
    BY <2>3 DEF Restart
  <2> QED
    BY <1>5, <2>1, <2>2, <2>3
<1>6. CASE Stopped \/ GetDone
  <2>1. CASE Stopped
    BY <2>1 DEF Stopped, NoGoal
  <2>2. CASE GetDone
    BY <2>2 DEF GetDone, Return, NoGoal
  <2> QED
    BY <1>6, <2>1, <2>2
<1>7. CASE SetDisc
  <2>1. goal.disc \in Discs \cup {NoDisc}
    BY <1>7 DEF SetDisc, Goals, NoGoal
  <2> QED
    BY <1>7, <2>1 DEF SetDisc, Return, NoGoal
<1>8. CASE DoStateMeasure \/ DoStateWrite
  <2> DEFINE map == EmplaceAll(s_result_map, s_result_queue)
  <2>1. UniqueIds(s_result_map)
    BY DEF UniqueIds
  <2>2. map \in SUBSET ReadResult /\ UniqueIds(map)
    BY <2>1, EmplaceAllFacts
  <2> HIDE DEF map
  <2>3. s_result_map' = map /\ s_result_queue' = << >> /\ cpu' = "run" /\ goal' = NoGoal
    BY <1>8 DEF DoStateMeasure, DoStateWrite, Return, map
  <2>4. saved' \in SavedState \cup {NoState} /\ (saved' # NoState => UniqueIds(saved.s_result_map)')
    <3>1. CASE DoStateMeasure
      BY <3>1 DEF DoStateMeasure, UniqueIds
    <3>2. CASE DoStateWrite
      <4>1. saved' = [s_result_map |-> map, s_next_id |-> s_next_id,
                      had_disc |-> (s_disc # NoDisc), events |-> events]
        BY <2>3, <3>2 DEF DoStateWrite
      <4>2. saved' \in SavedState
        BY <2>2, <4>1 DEF SavedState
      <4> QED
        BY <2>2, <4>1, <4>2 DEF UniqueIds
    <3> QED
      BY <1>8, <3>1, <3>2
  <2>5. s_result_map' \in SUBSET ReadResult /\ UniqueIds(s_result_map)'
    BY <2>2, <2>3 DEF UniqueIds
  <2> QED
    BY <1>8, <2>3, <2>4, <2>5 DEF DoStateMeasure, DoStateWrite, Return, UniqueIds, NoGoal
<1>9. CASE DoStateRead
  <2>1. saved \in SavedState /\ UniqueIds(saved.s_result_map)
    BY <1>9 DEF DoStateRead
  <2> QED
    BY <1>9, <2>1 DEF DoStateRead, Return, NoGoal, SavedState, UniqueIds
<1> QED
  BY <1>1, <1>2, <1>3, <1>4, <1>5, <1>6, <1>7, <1>8, <1>9 DEF CpuStep

LEMMA TypeStep == TypeInv /\ [Next]_vars => TypeInv'
BY TypeUnchanged, TypeDvdStep, TypeCpuCall, TypeCpuStep DEF Next

LEMMA TypeInvCorrect == SafetySpec => []TypeInv
BY TypeInit, TypeStep, PTL DEF SafetySpec

(* The two threads keep the types of what they share; in particular         *)
(* s_result_map never has two results of one id.                            *)
THEOREM TypeCorrect == SafetySpec => []TypeOK
BY TypeInvCorrect, PTL DEF TypeInv

-----------------------------------------------------------------------------
(* Waiting until idle.  The request queue is seen empty by the only thread  *)
(* that fills it, and what the DVD thread still has in hand it finishes     *)
(* before it ends; the new thread finds nothing.                            *)
IdleInv ==
  /\ ~ popped
  /\ cpu \in InStop \cup {"idle"} /\ goal.do # "stop" => s_request_queue = << >>
  /\ cpu = "idle" => /\ goal.do # "stop"
                     /\ ~ s_dvd_thread_exiting
                     /\ dvd \in {"wait", "woken", "pop"}

LEMMA IdleInit == Init => IdleInv
BY DEF Init, IdleInv, InStop

LEMMA IdleDvdStep ==
  ASSUME TypeInv, IdleInv, DvdStep, ~ raced'
  PROVE  IdleInv'
<1> USE DEF IdleInv, flags, store, caller, queues, DvdGoto, InStop
<1>1. CASE DvdWait \/ DvdWoken
  BY <1>1 DEF DvdWait, DvdWoken
<1>2. CASE DvdPop
  <2>1. UNCHANGED <<cpu, goal, s_dvd_thread_exiting>>
    BY <1>2 DEF DvdPop
  <2>2. CASE s_request_queue = << >>
    BY <1>2, <2>1, <2>2 DEF DvdPop
  <2>3. CASE s_request_queue # << >>
    <3>1. cpu # "idleTest" /\ dvd = "pop" /\ dvd' = "read"
          /\ popped' = (popped \/ cpu = "idleTest") /\ s_request_queue' = Tail(s_request_queue)
      BY <1>2, <2>3 DEF DvdPop
    <3>2. ~ (cpu \in InStop \cup {"idle"} /\ goal.do # "stop")
      BY <2>3
    <3> QED
      BY <2>1, <3>1, <3>2
  <2> QED
    BY <2>2, <2>3
<1>3. CASE DvdRead \/ DvdPush \/ DvdSet \/ DvdNext
  BY <1>3 DEF DvdRead, DvdPush, DvdSet, DvdNext
<1> QED
  BY <1>1, <1>2, <1>3 DEF DvdStep

LEMMA IdleCpuCall ==
  ASSUME IdleInv, CpuCall
  PROVE  IdleInv'
<1> USE DEF IdleInv, flags, store, thread, queues, Goto, InStop
<1>1. CASE Start \/ StartRead
  BY <1>1 DEF Start, StartRead
<1>2. ASSUME NEW event \in events, FinishRead(event) PROVE IdleInv'
  BY <1>2 DEF FinishRead
<1>3. ASSUME NEW g \in Goals, WaitUntilIdle(g) PROVE IdleInv'
  <2>1. CASE g.do = "stop"
    BY <1>3, <2>1 DEF WaitUntilIdle
  <2>2. CASE g.do # "stop"
    BY <1>3, <2>2 DEF WaitUntilIdle
  <2> QED
    BY <2>1, <2>2
<1> QED
  BY <1>1, <1>2, <1>3 DEF CpuCall

LEMMA IdleCpuStep ==
  ASSUME IdleInv, CpuStep
  PROVE  IdleInv'
<1> USE DEF IdleInv, flags, store, thread, queues, Goto, InStop
<1>1. CASE StartReadSet \/ FinishPop \/ FinishWait \/ FinishDone
  BY <1>1 DEF StartReadSet, FinishPop, FinishWait, FinishDone
<1>2. CASE IdleLook \/ IdleTest \/ IdleWait
  BY <1>2 DEF IdleLook, IdleTest, IdleWait
<1>3. CASE ExitSet \/ ExitEvent
  BY <1>3 DEF ExitSet, ExitEvent
<1>4. CASE Restart
  BY <1>4 DEF Restart
<1>5. CASE Stopped
  BY <1>5 DEF Stopped
<1>6. CASE GetDone \/ SetDisc \/ DoStateMeasure \/ DoStateWrite \/ DoStateRead
  BY <1>6 DEF GetDone, SetDisc, DoStateMeasure, DoStateWrite, DoStateRead, Return
<1> QED
  BY <1>1, <1>2, <1>3, <1>4, <1>5, <1>6 DEF CpuStep

LEMMA IdleStep == TypeInv /\ IdleInv /\ [Next]_vars /\ ~ raced' => IdleInv'
<1> SUFFICES ASSUME TypeInv, IdleInv, [Next]_vars, ~ raced' PROVE IdleInv'
  OBVIOUS
<1>1. CASE UNCHANGED vars
  BY <1>1 DEF IdleInv, vars, queues, flags, thread, caller
<1> QED
  BY <1>1, IdleDvdStep, IdleCpuCall, IdleCpuStep DEF Next

\* What went wrong once is never forgotten.
LEMMA GhostsStay == TypeInv /\ [Next]_vars => (raced => raced') /\ (leftover => leftover')
<1> SUFFICES ASSUME TypeInv, [Next]_vars PROVE (raced => raced') /\ (leftover => leftover')
  OBVIOUS
<1> USE DEF ghosts
<1>1. CASE UNCHANGED vars
  BY <1>1 DEF vars
<1>2. CASE DvdPop
  <2>1. raced \in BOOLEAN
    BY DEF TypeInv, TypeOK
  <2> QED
    BY <1>2, <2>1 DEF DvdPop
<1>3. CASE DvdWait \/ DvdWoken \/ DvdRead \/ DvdPush \/ DvdSet \/ DvdNext
  BY <1>3 DEF DvdWait, DvdWoken, DvdRead, DvdPush, DvdSet, DvdNext
<1>4. CASE CpuCall
  BY <1>4 DEF CpuCall, Start, StartRead, FinishRead, WaitUntilIdle
<1>5. CASE Stopped
  BY <1>5, Zenon DEF Stopped
<1>6. CASE StartReadSet \/ FinishPop \/ FinishWait \/ FinishDone \/ IdleLook \/ IdleTest
  BY <1>6 DEF StartReadSet, FinishPop, FinishWait, FinishDone, IdleLook, IdleTest
<1>7. CASE IdleWait \/ ExitSet \/ ExitEvent \/ Restart \/ GetDone \/ SetDisc
  BY <1>7 DEF IdleWait, ExitSet, ExitEvent, Restart, GetDone, SetDisc
<1>8. CASE DoStateMeasure \/ DoStateWrite \/ DoStateRead
  BY <1>8 DEF DoStateMeasure, DoStateWrite, DoStateRead
<1> QED
  BY <1>1, <1>2, <1>3, <1>4, <1>5, <1>6, <1>7, <1>8 DEF Next, DvdStep, CpuStep

LEMMA IdleInvCorrect == SafetySpec => [](TypeInv /\ (~ raced => IdleInv))
<1>1. Init => TypeInv /\ (~ raced => IdleInv)
  BY TypeInit, IdleInit
<1>2. TypeInv /\ (~ raced => IdleInv) /\ [Next]_vars => TypeInv' /\ (~ raced => IdleInv)'
  BY TypeStep, IdleStep, GhostsStay
<1> QED
  BY <1>1, <1>2, PTL DEF SafetySpec

(* As long as no Pop() fell into the producer's Empty(), WaitUntilIdle()    *)
(* returns with an empty request queue and a DVD thread that touches        *)
(* nothing, as DoState() and SetDisc() rely on; however the emulation was   *)
(* stopped before.                                                          *)
THEOREM IdleCorrect == SafetySpec => []IdleUnlessRaced
<1>1. (~ raced => IdleInv) => IdleUnlessRaced
  BY DEF IdleInv, IdleUnlessRaced, IdleMeansIdle, InStop
<1> QED
  BY <1>1, IdleInvCorrect, PTL

-----------------------------------------------------------------------------
(* The right result.  An id names one read only among those that are still *)
(* alive: queued, in a hand, answered or waited for.                        *)
Queued == Items(s_request_queue) \cup {h \in {hand} : dvd = "read"}
Results == Items(s_result_queue) \cup s_result_map
             \cup {h \in {hand} : dvd = "push"} \cup {r \in {result} : cpu = "finished"}
Awaited == events \cup {f \in {finishing} : cpu \in {"startSet", "finished"} \cup InFinishRead}
Live == Queued \cup {r.request : r \in Results} \cup Awaited

Distinct(reads, next) == \A a \in reads : /\ a.id < next
                                          /\ \A b \in reads : a.id = b.id => a = b
FromDisc(results) == \A r \in results : r.disc = r.request.disc

ResultInv ==
  /\ Distinct(Live, s_next_id)
  /\ FromDisc(Results)
  /\ cpu # "off" => \A q \in Queued : q.disc = s_disc
  /\ cpu = "finished" => result.request.id = finishing.id
  /\ goal.do = "stop" => cpu \in InStop
  /\ cpu = "off" => s_result_map = {}
  /\ cpu = "off" => events = {}
  /\ saved # NoState =>
       /\ Distinct({r.request : r \in saved.s_result_map} \cup saved.events, saved.s_next_id)
       /\ FromDisc(saved.s_result_map)

LEMMA FewerReads ==
  ASSUME ResultInv, Queued' \subseteq Queued, Results' \subseteq Results,
         Awaited' \subseteq Live, s_next_id' = s_next_id
  PROVE  Distinct(Live, s_next_id)' /\ FromDisc(Results)'
<1>1. Live' \subseteq Live
  BY DEF Live
<1>2. Distinct(Live', s_next_id')
  BY <1>1 DEF ResultInv, Distinct
<1>3. FromDisc(Results')
  BY DEF ResultInv, FromDisc
<1> QED
  BY <1>2, <1>3 DEF Distinct, FromDisc

LEMMA ResultInit == Init => ResultInv
<1> SUFFICES ASSUME Init PROVE ResultInv
  OBVIOUS
<1>1. Queued = {} /\ Results = {} /\ Awaited = {}
  BY NoItems DEF Init, Queued, Results, Awaited, InFinishRead
<1>2. Live = {}
  BY <1>1 DEF Live
<1> QED
  BY <1>1, <1>2 DEF Init, ResultInv, Distinct, FromDisc, NoGoal

\* The DVD thread moves a read from one place to the next.
LEMMA ResultDvdStep ==
  ASSUME TypeInv, ResultInv, DvdStep
  PROVE  ResultInv'
<1> USE DEF flags, store, caller, queues, DvdGoto
<1>1. UNCHANGED <<s_next_id, s_disc, cpu, goal, saved, s_result_map, events, result, finishing>>
  BY DEF DvdStep, DvdWait, DvdWoken, DvdPop, DvdRead, DvdPush, DvdSet, DvdNext
<1>2. Awaited' = Awaited
  BY <1>1 DEF Awaited
<1>3. SUFFICES /\ Distinct(Live, s_next_id)'
               /\ FromDisc(Results)'
               /\ Queued' \subseteq Queued
  BY <1>1 DEF ResultInv, FromDisc, Distinct
<1>4. ASSUME Queued' \subseteq Queued, Results' \subseteq Results
      PROVE  Distinct(Live, s_next_id)' /\ FromDisc(Results)'
  BY <1>1, <1>2, <1>4, FewerReads DEF Live
<1>5. CASE DvdWait \/ DvdWoken \/ DvdSet \/ DvdNext
  <2>1. UNCHANGED <<s_request_queue, s_result_queue, hand>> /\ dvd \notin {"read", "push"}
        /\ dvd' \notin {"read", "push"}
    BY <1>5 DEF DvdWait, DvdWoken, DvdSet, DvdNext
  <2>2. Queued' = Queued /\ Results' = Results
    BY <1>1, <2>1 DEF Queued, Results
  <2> QED
    BY <1>4, <2>2
<1>6. CASE DvdPop
  <2>1. s_result_queue' = s_result_queue /\ dvd = "pop" /\ dvd' # "push"
    BY <1>6 DEF DvdPop
  <2>2. Results' \subseteq Results
    BY <1>1, <2>1 DEF Results
  <2>3. Queued' \subseteq Queued
    <3>1. CASE s_request_queue = << >>
      BY <1>6, <3>1 DEF DvdPop, Queued
    <3>2. CASE s_request_queue # << >>
      <4>1. s_request_queue \in Seq(ReadRequest)
        BY DEF TypeInv, TypeOK
      <4>2. /\ Head(s_request_queue) \in Items(s_request_queue)
            /\ \A x \in Items(Tail(s_request_queue)) : x \in Items(s_request_queue)
        BY <3>2, <4>1, TailItems
      <4>3. hand' = Head(s_request_queue) /\ s_request_queue' = Tail(s_request_queue)
        BY <1>6, <3>2 DEF DvdPop
      <4> QED
        BY <4>2, <4>3 DEF Queued
    <3> QED
      BY <3>1, <3>2
  <2> QED
    BY <1>4, <2>2, <2>3
<1>7. CASE DvdRead
  <2>1. /\ dvd = "read" /\ dvd' = "push" /\ hand' = [request |-> hand, disc |-> s_disc]
        /\ UNCHANGED <<s_request_queue, s_result_queue>>
    BY <1>7 DEF DvdRead
  <2>2. hand \in Queued /\ cpu # "off" /\ hand.disc = s_disc
    BY <2>1 DEF Queued, TypeInv, ResultInv
  <2>3. Queued' \subseteq Queued
    BY <2>1 DEF Queued
  <2>4. ASSUME NEW r \in Results' PROVE r \in Results \/ r = hand'
    BY <1>1, <2>1, <2>4 DEF Results
  <2>5. hand'.request = hand /\ hand'.disc = s_disc
    BY <2>1
  <2>6. FromDisc(Results')
    BY <2>2, <2>4, <2>5 DEF FromDisc, ResultInv
  <2>7. Live' \subseteq Live
    BY <1>2, <2>2, <2>3, <2>4, <2>5 DEF Live
  <2>8. Distinct(Live', s_next_id')
    BY <1>1, <2>7 DEF Distinct, ResultInv
  <2> QED
    BY <2>3, <2>6, <2>8 DEF Distinct, FromDisc
<1>8. CASE DvdPush
  <2>1. /\ dvd = "push" /\ dvd' = "set" /\ s_request_queue' = s_request_queue
        /\ s_result_queue' = Append(s_result_queue, hand)
    BY <1>8 DEF DvdPush
  <2>2. s_result_queue \in Seq(ReadResult) /\ hand \in ReadResult
    BY <2>1 DEF TypeInv, TypeOK
  <2>3. Items(s_result_queue') = Items(s_result_queue) \cup {hand}
    BY <2>1, <2>2, AppendItems
  <2>4. Results' \subseteq Results /\ Queued' \subseteq Queued
    BY <1>1, <2>1, <2>3 DEF Results, Queued
  <2> QED
    BY <1>4, <2>4
<1> QED
  BY <1>5, <1>6, <1>7, <1>8 DEF DvdStep

LEMMA LiveTypes == TypeInv => Live \subseteq ReadRequest
<1> SUFFICES ASSUME TypeInv PROVE Live \subseteq ReadRequest
  OBVIOUS
<1>1. Queued \subseteq ReadRequest
  BY ItemTypes DEF TypeInv, TypeOK, Queued
<1>2. Results \subseteq ReadResult
  BY ItemTypes DEF TypeInv, TypeOK, Results
<1>3. Awaited \subseteq ReadRequest
  BY DEF TypeInv, TypeOK, Awaited
<1>4. \A r \in Results : r.request \in ReadRequest
  BY <1>2 DEF ReadResult
<1> QED
  BY <1>1, <1>3, <1>4 DEF Live

\* What the CPU thread begins: a read gets an id that none alive has.
LEMMA ResultCpuCall ==
  ASSUME TypeInv, ResultInv, CpuCall
  PROVE  ResultInv'
<1> USE DEF flags, store, thread, queues, Goto, InStop, InFinishRead
<1>1. CASE Start
  <2>1. /\ cpu = "off" /\ cpu' = "run" /\ dvd' = "wait"
        /\ s_request_queue' = << >> /\ s_result_queue' = << >>
        /\ UNCHANGED <<s_result_map, events, saved, goal>>
    BY <1>1 DEF Start
  <2>2. s_result_map = {} /\ events = {}
    BY <2>1 DEF ResultInv
  <2>3. Queued' = {} /\ Results' = {} /\ Awaited' = {}
    BY <2>1, <2>2, NoItems DEF Queued, Results, Awaited
  <2>4. Live' = {}
    BY <2>3 DEF Live
  <2> QED
    BY <2>1, <2>2, <2>3, <2>4 DEF ResultInv, Distinct, FromDisc
<1>2. CASE StartRead
  <2> DEFINE request == [id |-> s_next_id, serial |-> started + 1, disc |-> s_disc]
  <2>1. request \in ReadRequest /\ request.id = s_next_id /\ request.disc = s_disc
        /\ s_next_id \in Nat
    BY DEF ReadRequest, TypeInv, TypeOK
  <2> HIDE DEF request
  <2>2. /\ cpu = "run" /\ cpu' = "startSet" /\ finishing' = request
        /\ s_request_queue' = Append(s_request_queue, request)
        /\ s_next_id' = s_next_id + 1
        /\ UNCHANGED <<s_result_queue, s_result_map, hand, dvd, events, s_disc, goal, saved>>
    BY <1>2 DEF StartRead, request
  <2>3. s_request_queue \in Seq(ReadRequest)
    BY DEF TypeInv, TypeOK
  <2>4. Items(s_request_queue') = Items(s_request_queue) \cup {request}
    BY <2>1, <2>2, <2>3, AppendItems
  <2>5. Queued' = Queued \cup {request} /\ Results' = Results
    BY <2>2, <2>4 DEF Queued, Results
  <2>6. Awaited' \subseteq Awaited \cup {request}
    BY <2>2 DEF Awaited
  <2>7. Live' \subseteq Live \cup {request}
    BY <2>5, <2>6 DEF Live
  <2>8. \A a \in Live : a.id \in Nat /\ a.id < s_next_id
    BY LiveTypes DEF ReadRequest, ResultInv, Distinct
  <2>9. Distinct(Live', s_next_id')
    BY <2>1, <2>2, <2>7, <2>8 DEF Distinct, ResultInv
  <2> QED
    BY <2>1, <2>2, <2>5, <2>9 DEF ResultInv, Distinct, FromDisc
<1>3. ASSUME NEW event \in events, FinishRead(event) PROVE ResultInv'
  <2>1. /\ cpu = "run" /\ finishing' = event /\ events' = events \ {event}
        /\ UNCHANGED <<s_request_queue, s_result_queue, dvd, hand, s_next_id, s_disc, saved, goal>>
    BY <1>3 DEF FinishRead
  <2>2. Queued' = Queued /\ Awaited' \subseteq Live
    BY <2>1 DEF Queued, Awaited, Live
  <2>3. \/ cpu' = "finished" /\ result' \in s_result_map /\ result'.request.id = event.id
           /\ s_result_map' \subseteq s_result_map
        \/ cpu' = "finishPop" /\ s_result_map' = s_result_map
    BY <1>3 DEF FinishRead
  <2>4. Results' \subseteq Results
    BY <2>1, <2>3 DEF Results
  <2>5. Distinct(Live, s_next_id)' /\ FromDisc(Results)'
    BY <2>1, <2>2, <2>4, FewerReads
  <2> QED
    BY <2>1, <2>2, <2>3, <2>5 DEF ResultInv, FromDisc, Distinct
<1>4. ASSUME NEW g \in Goals, WaitUntilIdle(g) PROVE ResultInv'
  <2>1. /\ cpu = "run" /\ cpu' \in {"exitSet", "idleLook"} /\ goal' = g
        /\ g.do = "stop" => cpu' = "exitSet"
        /\ UNCHANGED <<queues, store, hand, dvd, result, finishing>>
    BY <1>4 DEF WaitUntilIdle
  <2>2. Queued' = Queued /\ Results' = Results /\ Awaited' = Awaited
    BY <2>1 DEF Queued, Results, Awaited
  <2>3. Distinct(Live, s_next_id)' /\ FromDisc(Results)'
    BY <2>1, <2>2, FewerReads DEF Live
  <2> QED
    BY <2>1, <2>2, <2>3 DEF ResultInv, FromDisc, Distinct
<1> QED
  BY <1>1, <1>2, <1>3, <1>4 DEF CpuCall

\* How it goes on.  What is saved and loaded is a set of reads with its counter.
LEMMA ResultCpuStep ==
  ASSUME TypeInv, IdleInv, ResultInv, CpuStep, ~ leftover'
  PROVE  ResultInv'
<1> USE DEF flags, store, thread, queues, Goto, InStop, InFinishRead
<1>1. CASE StartReadSet \/ FinishWait \/ FinishDone
  <2>1. /\ cpu \in {"startSet", "finishWait", "finished"} /\ cpu' \in {"run", "finishPop"}
        /\ UNCHANGED <<queues, hand, dvd, s_next_id, s_disc, goal, saved, s_result_map>>
    BY <1>1 DEF StartReadSet, FinishWait, FinishDone
  <2>2. Queued' = Queued /\ Results' \subseteq Results
    BY <2>1 DEF Queued, Results
  <2>3. Awaited' \subseteq Awaited
    BY <1>1 DEF StartReadSet, FinishWait, FinishDone, Awaited
  <2>4. Distinct(Live, s_next_id)' /\ FromDisc(Results)'
    BY <2>1, <2>2, <2>3, FewerReads DEF Live
  <2> QED
    BY <2>1, <2>2, <2>4 DEF ResultInv, FromDisc, Distinct
<1>2. CASE FinishPop
  <2>1. /\ cpu = "finishPop"
        /\ UNCHANGED <<s_request_queue, hand, dvd, s_next_id, s_disc, goal, saved, events,
                       finishing>>
    BY <1>2 DEF FinishPop
  <2>2. goal.do # "stop"
    BY <2>1 DEF ResultInv
  <2>3. /\ cpu' \in {"finishPop", "finishWait", "finished"}
        /\ Results' \subseteq Results
        /\ cpu' = "finished" => result'.request.id = finishing.id
    <3>1. CASE s_result_queue = << >>
      BY <1>2, <2>1, <3>1 DEF FinishPop, Results
    <3>2. CASE s_result_queue # << >>
      <4> DEFINE r == Head(s_result_queue)
      <4>1. s_result_queue \in Seq(ReadResult) /\ s_result_map \in SUBSET ReadResult
            /\ UniqueIds(s_result_map)
        BY DEF TypeInv, TypeOK, UniqueIds
      <4>2. /\ r \in ReadResult /\ r \in Items(s_result_queue)
            /\ \A x \in Items(Tail(s_result_queue)) : x \in Items(s_result_queue)
        BY <3>2, <4>1, TailItems
      <4>3. \A q \in Emplace(s_result_map, r) : q \in s_result_map \/ q = r
        BY <4>1, <4>2, EmplaceFacts
      <4>4. s_result_queue' = Tail(s_result_queue)
        BY <1>2, <3>2 DEF FinishPop
      <4>5. \/ /\ cpu' = "finished" /\ result' = r /\ UNCHANGED s_result_map
               /\ r.request.id = finishing.id
            \/ s_result_map' = Emplace(s_result_map, r) /\ cpu' = cpu
        BY <1>2, <3>2 DEF FinishPop
      <4> HIDE DEF r
      <4> QED
        BY <2>1, <4>2, <4>3, <4>4, <4>5 DEF Results
    <3> QED
      BY <3>1, <3>2
  <2>4. Queued' = Queued /\ Awaited' \subseteq Awaited
    BY <2>1, <2>3 DEF Queued, Awaited
  <2>5. Distinct(Live, s_next_id)' /\ FromDisc(Results)'
    BY <2>1, <2>3, <2>4, FewerReads DEF Live
  <2> QED
    BY <2>1, <2>2, <2>3, <2>4, <2>5 DEF ResultInv, FromDisc, Distinct
<1>3. CASE IdleLook \/ IdleTest \/ IdleWait \/ ExitSet \/ ExitEvent \/ Restart \/ GetDone
  <2>1. UNCHANGED <<queues, hand, s_next_id, s_disc, events, saved, s_result_map, result,
                    finishing>>
    BY <1>3 DEF IdleLook, IdleTest, IdleWait, ExitSet, ExitEvent, Restart, GetDone
  <2>2. /\ cpu \in {"idleLook", "idleTest", "idleWait", "exitSet", "exitEvent", "join", "idle"}
        /\ cpu' \in {"idleLook", "idleTest", "idleWait", "exitSet", "exitEvent", "join", "idle",
                     "run"}
    BY <1>3 DEF IdleLook, IdleTest, IdleWait, ExitSet, ExitEvent, Restart, GetDone, Return
  <2>3. dvd' = dvd \/ (dvd = "off" /\ dvd' = "wait")
    BY <1>3 DEF IdleLook, IdleTest, IdleWait, ExitSet, ExitEvent, Restart, GetDone
  <2>4. Queued' = Queued /\ Results' = Results /\ Awaited' = Awaited
    BY <2>1, <2>2, <2>3 DEF Queued, Results, Awaited
  <2>5. goal'.do = "stop" => goal.do = "stop" /\ cpu' \in InStop
    <3>1. CASE IdleLook \/ IdleTest \/ IdleWait
      BY <3>1 DEF IdleLook, IdleTest, IdleWait, ResultInv
    <3>2. CASE ExitSet \/ ExitEvent \/ Restart
      BY <3>2 DEF ExitSet, ExitEvent, Restart
    <3>3. CASE GetDone
      BY <3>3 DEF GetDone, Return, NoGoal
    <3> QED
      BY <1>3, <3>1, <3>2, <3>3
  <2>6. Distinct(Live, s_next_id)' /\ FromDisc(Results)'
    BY <2>1, <2>4, FewerReads DEF Live
  <2> QED
    BY <2>1, <2>2, <2>4, <2>5, <2>6 DEF ResultInv, FromDisc, Distinct
<1>4. CASE Stopped
  <2>1. /\ goal.do = "stop" /\ cpu = "join" /\ cpu' = "off" /\ goal' = NoGoal /\ events' = {}
        /\ s_result_map = {}
        /\ UNCHANGED <<queues, hand, dvd, s_next_id, saved, s_result_map>>
    BY <1>4 DEF Stopped
  <2>2. Queued' = Queued /\ Results' = Results /\ Awaited' = {}
    BY <2>1 DEF Queued, Results, Awaited
  <2>3. Distinct(Live, s_next_id)' /\ FromDisc(Results)'
    BY <2>1, <2>2, FewerReads
  <2> QED
    BY <2>1, <2>2, <2>3 DEF ResultInv, FromDisc, Distinct, NoGoal
<1>5. ASSUME cpu = "idle"
      PROVE  Queued = {} /\ Results = Items(s_result_queue) \cup s_result_map /\ Awaited = events
  <2>1. s_request_queue = << >> /\ dvd \in {"wait", "woken", "pop"}
    BY <1>5 DEF IdleInv
  <2> QED
    BY <1>5, <2>1, NoItems DEF Queued, Results, Awaited
<1>6. ASSUME cpu = "idle", cpu' = "run", UNCHANGED <<s_request_queue, dvd>>
      PROVE  Queued' = {} /\ Results' = Items(s_result_queue') \cup s_result_map'
             /\ Awaited' = events'
  <2>1. s_request_queue' = << >> /\ dvd' \in {"wait", "woken", "pop"}
    BY <1>6 DEF IdleInv
  <2> QED
    BY <1>6, <2>1, NoItems DEF Queued, Results, Awaited
<1>7. CASE SetDisc
  <2>1. /\ cpu = "idle" /\ cpu' = "run" /\ goal' = NoGoal
        /\ UNCHANGED <<queues, dvd, s_result_map, s_next_id, events, saved>>
    BY <1>7 DEF SetDisc, Return
  <2>2. Queued' = Queued /\ Queued' = {} /\ Results' = Results /\ Awaited' = Awaited
    BY <1>5, <1>6, <2>1
  <2>3. Distinct(Live, s_next_id)' /\ FromDisc(Results)'
    BY <2>1, <2>2, FewerReads DEF Live
  <2> QED
    BY <2>1, <2>2, <2>3 DEF ResultInv, FromDisc, Distinct, NoGoal
<1>8. CASE DoStateMeasure \/ DoStateWrite
  <2> DEFINE map == EmplaceAll(s_result_map, s_result_queue)
  <2>1. /\ cpu = "idle" /\ cpu' = "run" /\ goal' = NoGoal
        /\ s_result_map' = map /\ s_result_queue' = << >>
        /\ UNCHANGED <<s_request_queue, dvd, s_next_id, s_disc, events>>
    BY <1>8 DEF DoStateMeasure, DoStateWrite, Return
  <2>2. \A r \in map : r \in s_result_map \/ r \in Items(s_result_queue)
    <3>1. s_result_queue \in Seq(ReadResult) /\ s_result_map \in SUBSET ReadResult
          /\ UniqueIds(s_result_map)
      BY DEF TypeInv, TypeOK, UniqueIds
    <3> QED
      BY <3>1, EmplaceAllFacts
  <2> HIDE DEF map
  <2>3. Queued' = Queued /\ Queued' = {} /\ Results' = map /\ Awaited' = events
        /\ Awaited = events
    BY <1>5, <1>6, <2>1, NoItems
  <2>4. map \subseteq Results
    BY <1>5, <2>1, <2>2
  <2>5. Distinct(Live, s_next_id)' /\ FromDisc(Results)'
    BY <2>1, <2>3, <2>4, FewerReads DEF Live
  <2>6. saved' # NoState =>
          /\ Distinct({r.request : r \in saved.s_result_map} \cup saved.events, saved.s_next_id)'
          /\ FromDisc(saved.s_result_map)'
    <3>1. CASE DoStateMeasure
      BY <3>1 DEF DoStateMeasure, ResultInv, Distinct, FromDisc
    <3>2. CASE DoStateWrite
      <4>1. saved' = [s_result_map |-> map, s_next_id |-> s_next_id,
                      had_disc |-> (s_disc # NoDisc), events |-> events]
        BY <2>1, <3>2 DEF DoStateWrite
      <4>2. saved'.s_result_map = map /\ saved'.s_next_id = s_next_id /\ saved'.events = events
        BY <4>1
      <4>3. {r.request : r \in map} \cup events \subseteq Live
        BY <2>3, <2>4 DEF Live
      <4>4. Distinct({r.request : r \in map} \cup events, s_next_id)
        BY <4>3 DEF Distinct, ResultInv
      <4>5. FromDisc(map)
        BY <2>4 DEF FromDisc, ResultInv
      <4> QED
        BY <4>2, <4>4, <4>5 DEF Distinct, FromDisc
    <3> QED
      BY <1>8, <3>1, <3>2
  <2> QED
    BY <2>1, <2>3, <2>5, <2>6 DEF ResultInv, FromDisc, Distinct, NoGoal
<1>9. CASE DoStateRead
  <2>1. /\ cpu = "idle" /\ cpu' = "run" /\ goal' = NoGoal /\ goal.do = "read"
        /\ s_result_map' = saved.s_result_map /\ s_result_queue' = << >>
        /\ s_next_id' = saved.s_next_id /\ events' = saved.events
        /\ UNCHANGED <<s_request_queue, dvd, saved>>
    BY <1>9 DEF DoStateRead, Return
  <2>2. Queued' = {} /\ Results' = saved.s_result_map /\ Awaited' = saved.events
    BY <1>6, <2>1, NoItems
  <2>3. saved # NoState
    BY <2>1 DEF TypeInv
  <2>4. Live' = {r.request : r \in saved.s_result_map} \cup saved.events
    BY <2>2 DEF Live
  <2>5. Distinct(Live', s_next_id') /\ FromDisc(Results')
    BY <2>1, <2>2, <2>3, <2>4 DEF ResultInv
  <2> QED
    BY <2>1, <2>2, <2>3, <2>5 DEF ResultInv, FromDisc, Distinct, NoGoal
<1> QED
  BY <1>1, <1>2, <1>3, <1>4, <1>7, <1>8, <1>9 DEF CpuStep

LEMMA ResultStep ==
  TypeInv /\ IdleInv /\ ResultInv /\ [Next]_vars /\ ~ leftover' => ResultInv'
<1> SUFFICES ASSUME TypeInv, IdleInv, ResultInv, [Next]_vars, ~ leftover' PROVE ResultInv'
  OBVIOUS
<1>1. CASE UNCHANGED vars
  <2>1. UNCHANGED <<queues, flags, store, thread, caller>>
    BY <1>1 DEF vars
  <2>2. Queued' = Queued /\ Results' = Results /\ Awaited' = Awaited
    BY <2>1 DEF Queued, Results, Awaited, queues, thread, caller, store
  <2>3. Distinct(Live, s_next_id)' /\ FromDisc(Results)'
    BY <2>1, <2>2, FewerReads DEF Live, store
  <2> QED
    BY <2>1, <2>2, <2>3 DEF ResultInv, Distinct, FromDisc, queues, thread, caller, store
<1> QED
  BY <1>1, ResultDvdStep, ResultCpuCall, ResultCpuStep DEF Next

(* FinishRead() gets the result of its own read, from the disc that was     *)
(* inserted when the read was started, whatever the order of the events and *)
(* whatever was ejected, inserted, saved and loaded since, as long as no    *)
(* Pop() fell into an Empty() and no emulation was stopped with results in  *)
(* s_result_map.                                                            *)
THEOREM RightResultCorrect == SafetySpec => []RightUnlessLeftover
<1> DEFINE Clean == ~ raced /\ ~ leftover
<1>1. Init => (Clean => ResultInv)
  BY ResultInit
<1>2. TypeInv /\ (~ raced => IdleInv) /\ (Clean => ResultInv) /\ [Next]_vars
        => (Clean => ResultInv)'
  BY ResultStep, GhostsStay
<1>3. TypeInv /\ (Clean => ResultInv) => RightUnlessLeftover
  <2> SUFFICES ASSUME TypeInv, ResultInv, cpu = "finished"
               PROVE  result = [request |-> finishing, disc |-> finishing.disc]
    BY DEF RightUnlessLeftover, RightResult
  <2>1. result \in ReadResult
    BY DEF TypeInv, TypeOK
  <2>2. result \in Results /\ finishing \in Awaited
    BY DEF Results, Awaited
  <2>3. result.request \in Live /\ finishing \in Live
    BY <2>2 DEF Live
  <2>4. result.request = finishing
    BY <2>3 DEF ResultInv, Distinct
  <2>5. result.disc = finishing.disc
    BY <2>2, <2>4 DEF ResultInv, FromDisc
  <2> QED
    BY <2>1, <2>4, <2>5 DEF ReadResult
<1> QED
  BY <1>1, <1>2, <1>3, IdleInvCorrect, PTL DEF SafetySpec

-----------------------------------------------------------------------------
(* Every read exactly once.  The ids at each of the four places: in the     *)
(* request queue, in the DVD thread's hands, in the result queue and in     *)
(* s_result_map.                                                            *)
RequestIds(q) == {q[i].id : i \in DOMAIN q}
ResultIds(q) == {q[i].request.id : i \in DOMAIN q}
MapIds(map) == {r.request.id : r \in map}
HandIds == {h.id : h \in {x \in {hand} : dvd = "read"}}
             \cup {h.request.id : h \in {x \in {hand} : dvd = "push"}}

OnceRequested(q) == \A i, j \in DOMAIN q : q[i].id = q[j].id => i = j
OnceAnswered(q) == \A i, j \in DOMAIN q : q[i].request.id = q[j].request.id => i = j

\* The reads for which a result has yet to be found.
Pending == events \cup {f \in {finishing} : cpu \in {"startSet"} \cup InFinishRead}

Apart(requests, hands, results, map) ==
  /\ requests \cap hands = {} /\ requests \cap results = {} /\ requests \cap map = {}
  /\ hands \cap results = {} /\ hands \cap map = {} /\ results \cap map = {}

OnceInv ==
  /\ OnceRequested(s_request_queue)
  /\ OnceAnswered(s_result_queue)
  /\ Apart(RequestIds(s_request_queue), HandIds, ResultIds(s_result_queue), MapIds(s_result_map))
  /\ \A e \in Pending : e.id \in RequestIds(s_request_queue) \cup HandIds
                                 \cup ResultIds(s_result_queue) \cup MapIds(s_result_map)
  /\ cpu \in {"startSet"} \cup InFinishRead => finishing \notin events
  /\ saved # NoState => \A e \in saved.events : e.id \in MapIds(saved.s_result_map)

LEMMA NoIds ==
  /\ RequestIds(<< >>) = {} /\ ResultIds(<< >>) = {}
  /\ OnceRequested(<< >>) /\ OnceAnswered(<< >>)
BY DEF RequestIds, ResultIds, OnceRequested, OnceAnswered

LEMMA AppendRequest ==
  ASSUME NEW q \in Seq(ReadRequest), NEW e \in ReadRequest, OnceRequested(q),
         e.id \notin RequestIds(q)
  PROVE  OnceRequested(Append(q, e)) /\ RequestIds(Append(q, e)) = RequestIds(q) \cup {e.id}
<1>1. DOMAIN Append(q, e) = 1..Len(q) + 1 /\ DOMAIN q = 1..Len(q) /\ Len(q) \in Nat
  OBVIOUS
<1>2. (\A i \in 1..Len(q) : Append(q, e)[i] = q[i]) /\ Append(q, e)[Len(q) + 1] = e
  OBVIOUS
<1>3. \A i \in DOMAIN Append(q, e) : i \in 1..Len(q) \/ i = Len(q) + 1
  BY <1>1
<1> DEFINE p == Append(q, e)
           n == Len(q) + 1
<1>4. (\A i \in DOMAIN q : p[i] = q[i] /\ i \in DOMAIN p) /\ p[n] = e /\ n \in DOMAIN p
  BY <1>1, <1>2
<1>5. \A i \in DOMAIN p : i \in DOMAIN q \/ i = n
  BY <1>1, <1>3
<1> HIDE DEF p, n
<1>6. OnceRequested(p)
  BY <1>4, <1>5 DEF OnceRequested, RequestIds
<1>7. RequestIds(p) = RequestIds(q) \cup {e.id}
  BY <1>4, <1>5 DEF RequestIds
<1> QED
  BY <1>6, <1>7 DEF p

LEMMA AppendResult ==
  ASSUME NEW q \in Seq(ReadResult), NEW e \in ReadResult, OnceAnswered(q),
         e.request.id \notin ResultIds(q)
  PROVE  /\ OnceAnswered(Append(q, e))
         /\ ResultIds(Append(q, e)) = ResultIds(q) \cup {e.request.id}
<1>1. DOMAIN Append(q, e) = 1..Len(q) + 1 /\ DOMAIN q = 1..Len(q) /\ Len(q) \in Nat
  OBVIOUS
<1>2. (\A i \in 1..Len(q) : Append(q, e)[i] = q[i]) /\ Append(q, e)[Len(q) + 1] = e
  OBVIOUS
<1>3. \A i \in DOMAIN Append(q, e) : i \in 1..Len(q) \/ i = Len(q) + 1
  BY <1>1
<1> DEFINE p == Append(q, e)
           n == Len(q) + 1
<1>4. (\A i \in DOMAIN q : p[i] = q[i] /\ i \in DOMAIN p) /\ p[n] = e /\ n \in DOMAIN p
  BY <1>1, <1>2
<1>5. \A i \in DOMAIN p : i \in DOMAIN q \/ i = n
  BY <1>1, <1>3
<1> HIDE DEF p, n
<1>6. OnceAnswered(p)
  BY <1>4, <1>5 DEF OnceAnswered, ResultIds
<1>7. ResultIds(p) = ResultIds(q) \cup {e.request.id}
  BY <1>4, <1>5 DEF ResultIds
<1> QED
  BY <1>6, <1>7 DEF p

LEMMA TailPositions ==
  ASSUME NEW S, NEW q \in Seq(S), q # << >>
  PROVE  /\ 1 \in DOMAIN q /\ q[1] = Head(q)
         /\ \A i \in DOMAIN Tail(q) : i \in Int /\ i + 1 \in DOMAIN q /\ i + 1 # 1
                                      /\ Tail(q)[i] = q[i + 1]
         /\ \A j \in DOMAIN q : j # 1 => j \in Int /\ j - 1 \in DOMAIN Tail(q)
                                         /\ Tail(q)[j - 1] = q[j]
<1>1. Len(q) \in Nat \ {0} /\ DOMAIN q = 1..Len(q) /\ DOMAIN Tail(q) = 1..Len(q) - 1
  OBVIOUS
<1>2. Head(q) = q[1] /\ \A i \in 1..Len(q) - 1 : Tail(q)[i] = q[i + 1]
  OBVIOUS
<1>3. ASSUME NEW j \in DOMAIN q, j # 1
      PROVE  j \in Int /\ j - 1 \in DOMAIN Tail(q) /\ Tail(q)[j - 1] = q[j]
  <2>1. j \in Int /\ j - 1 \in 1..Len(q) - 1 /\ (j - 1) + 1 = j
    BY <1>1, <1>3
  <2>2. Tail(q)[j - 1] = q[(j - 1) + 1]
    BY <1>2, <2>1
  <2> QED
    BY <1>1, <2>1, <2>2
<1>4. ASSUME NEW i \in DOMAIN Tail(q)
      PROVE  i \in Int /\ i + 1 \in DOMAIN q /\ i + 1 # 1 /\ Tail(q)[i] = q[i + 1]
  BY <1>1, <1>2, <1>4
<1>5. 1 \in DOMAIN q
  BY <1>1
<1> QED
  BY <1>2, <1>3, <1>4, <1>5

LEMMA TailRequest ==
  ASSUME NEW q \in Seq(ReadRequest), q # << >>, OnceRequested(q)
  PROVE  /\ OnceRequested(Tail(q)) /\ Head(q).id \in RequestIds(q)
         /\ RequestIds(Tail(q)) = RequestIds(q) \ {Head(q).id}
<1> DEFINE t == Tail(q)
<1>1. 1 \in DOMAIN q /\ q[1] = Head(q)
  BY TailPositions
<1>2. \A i \in DOMAIN t : i \in Int /\ i + 1 \in DOMAIN q /\ i + 1 # 1 /\ t[i] = q[i + 1]
  BY TailPositions
<1>3. \A j \in DOMAIN q : j # 1 => j - 1 \in DOMAIN t /\ t[j - 1] = q[j]
  BY TailPositions
<1> HIDE DEF t
<1>4. OnceRequested(t)
  <2> SUFFICES ASSUME NEW i \in DOMAIN t, NEW j \in DOMAIN t, t[i].id = t[j].id PROVE i = j
    BY DEF OnceRequested
  <2>1. i + 1 = j + 1
    BY <1>2 DEF OnceRequested
  <2> QED
    BY <1>2, <2>1
<1>5. RequestIds(t) = RequestIds(q) \ {Head(q).id}
  <2>1. ASSUME NEW x \in RequestIds(t) PROVE x \in RequestIds(q) \ {Head(q).id}
    <3>1. PICK i \in DOMAIN t : x = t[i].id
      BY <2>1 DEF RequestIds
    <3>2. i + 1 \in DOMAIN q /\ i + 1 # 1 /\ x = q[i + 1].id
      BY <1>2, <3>1
    <3> QED
      BY <1>1, <3>2 DEF RequestIds, OnceRequested
  <2>2. ASSUME NEW x \in RequestIds(q), x # Head(q).id PROVE x \in RequestIds(t)
    <3>1. PICK j \in DOMAIN q : x = q[j].id
      BY <2>2 DEF RequestIds
    <3>2. j - 1 \in DOMAIN t /\ x = t[j - 1].id
      BY <1>1, <1>3, <2>2, <3>1
    <3> QED
      BY <3>2 DEF RequestIds
  <2> QED
    BY <2>1, <2>2
<1> QED
  BY <1>1, <1>4, <1>5 DEF t, RequestIds

LEMMA TailResult ==
  ASSUME NEW q \in Seq(ReadResult), q # << >>, OnceAnswered(q)
  PROVE  /\ OnceAnswered(Tail(q)) /\ Head(q).request.id \in ResultIds(q)
         /\ ResultIds(Tail(q)) = ResultIds(q) \ {Head(q).request.id}
<1> DEFINE t == Tail(q)
<1>1. 1 \in DOMAIN q /\ q[1] = Head(q)
  BY TailPositions
<1>2. \A i \in DOMAIN t : i \in Int /\ i + 1 \in DOMAIN q /\ i + 1 # 1 /\ t[i] = q[i + 1]
  BY TailPositions
<1>3. \A j \in DOMAIN q : j # 1 => j - 1 \in DOMAIN t /\ t[j - 1] = q[j]
  BY TailPositions
<1> HIDE DEF t
<1>4. OnceAnswered(t)
  <2> SUFFICES ASSUME NEW i \in DOMAIN t, NEW j \in DOMAIN t,
                      t[i].request.id = t[j].request.id
               PROVE  i = j
    BY DEF OnceAnswered
  <2>1. i + 1 = j + 1
    BY <1>2 DEF OnceAnswered
  <2> QED
    BY <1>2, <2>1
<1>5. ResultIds(t) = ResultIds(q) \ {Head(q).request.id}
  <2>1. ASSUME NEW x \in ResultIds(t) PROVE x \in ResultIds(q) \ {Head(q).request.id}
    <3>1. PICK i \in DOMAIN t : x = t[i].request.id
      BY <2>1 DEF ResultIds
    <3>2. i + 1 \in DOMAIN q /\ i + 1 # 1 /\ x = q[i + 1].request.id
      BY <1>2, <3>1
    <3> QED
      BY <1>1, <3>2 DEF ResultIds, OnceAnswered
  <2>2. ASSUME NEW x \in ResultIds(q), x # Head(q).request.id PROVE x \in ResultIds(t)
    <3>1. PICK j \in DOMAIN q : x = q[j].request.id
      BY <2>2 DEF ResultIds
    <3>2. j - 1 \in DOMAIN t /\ x = t[j - 1].request.id
      BY <1>1, <1>3, <2>2, <3>1
    <3> QED
      BY <3>2 DEF ResultIds
  <2> QED
    BY <2>1, <2>2
<1> QED
  BY <1>1, <1>4, <1>5 DEF t, ResultIds

\* The results that DoState() takes over are new to s_result_map.
LEMMA EmplaceAllIds ==
  ASSUME NEW map \in SUBSET ReadResult, NEW q \in Seq(ReadResult), OnceAnswered(q),
         ResultIds(q) \cap MapIds(map) = {}
  PROVE  MapIds(EmplaceAll(map, q)) = MapIds(map) \cup ResultIds(q)
<1> DEFINE Known(r, i) == \/ \E p \in map : p.request.id = r.request.id
                          \/ \E j \in 1..i-1 : q[j].request.id = r.request.id
<1>1. DOMAIN q = 1..Len(q) /\ Len(q) \in Nat
  OBVIOUS
<1>2. ASSUME NEW i \in DOMAIN q PROVE ~ Known(q[i], i)
  <2>1. \A p \in map : p.request.id # q[i].request.id
    BY <1>2 DEF ResultIds, MapIds
  <2>2. ASSUME NEW j \in 1..i-1 PROVE q[j].request.id # q[i].request.id
    <3>1. j \in DOMAIN q /\ j # i
      BY <1>1, <1>2, <2>2
    <3> QED
      BY <1>2, <3>1 DEF OnceAnswered
  <2> QED
    BY <2>1, <2>2
<1>3. EmplaceAll(map, q) = map \cup {q[i] : i \in {j \in DOMAIN q : ~ Known(q[j], j)}}
  BY DEF EmplaceAll
<1> HIDE DEF Known
<1>4. EmplaceAll(map, q) = map \cup {q[i] : i \in DOMAIN q}
  BY <1>2, <1>3
<1> QED
  BY <1>4 DEF MapIds, ResultIds

LEMMA OnceInit == Init => OnceInv
<1> SUFFICES ASSUME Init PROVE OnceInv
  OBVIOUS
<1>1. HandIds = {} /\ Pending = {} /\ MapIds(s_result_map) = {}
  BY DEF Init, HandIds, Pending, MapIds, InFinishRead
<1>2. s_request_queue = << >> /\ s_result_queue = << >> /\ saved = NoState /\ cpu = "off"
  BY DEF Init
<1> QED
  BY <1>1, <1>2, NoIds DEF OnceInv, Apart, InFinishRead

\* The DVD thread takes a read from one place and puts it in the next.
LEMMA OnceDvdStep ==
  ASSUME TypeInv, OnceInv, DvdStep
  PROVE  OnceInv'
<1> USE DEF flags, store, caller, queues, DvdGoto
<1>1. UNCHANGED <<cpu, saved, s_result_map, events, finishing>>
  BY DEF DvdStep, DvdWait, DvdWoken, DvdPop, DvdRead, DvdPush, DvdSet, DvdNext
<1>2. Pending' = Pending
  BY <1>1 DEF Pending
<1>3. s_request_queue \in Seq(ReadRequest) /\ s_result_queue \in Seq(ReadResult)
  BY DEF TypeInv, TypeOK
<1>4. CASE UNCHANGED queues /\ HandIds' = HandIds
  BY <1>1, <1>2, <1>4 DEF OnceInv
<1>5. CASE DvdWait \/ DvdWoken \/ DvdSet \/ DvdNext
  <2>1. UNCHANGED <<s_request_queue, s_result_queue, hand>> /\ dvd \notin {"read", "push"}
        /\ dvd' \notin {"read", "push"}
    BY <1>5 DEF DvdWait, DvdWoken, DvdSet, DvdNext
  <2>2. HandIds' = HandIds
    BY <2>1 DEF HandIds
  <2> QED
    BY <1>4, <2>1, <2>2
<1>6. CASE DvdPop
  <2>1. CASE s_request_queue = << >>
    <3>1. UNCHANGED <<s_request_queue, s_result_queue, hand>> /\ dvd = "pop" /\ dvd' = "wait"
      BY <1>6, <2>1 DEF DvdPop
    <3>2. HandIds' = HandIds
      BY <3>1 DEF HandIds
    <3> QED
      BY <1>4, <3>1, <3>2
  <2>2. CASE s_request_queue # << >>
    <3>1. /\ hand' = Head(s_request_queue) /\ s_request_queue' = Tail(s_request_queue)
          /\ dvd = "pop" /\ dvd' = "read" /\ s_result_queue' = s_result_queue
      BY <1>6, <2>2 DEF DvdPop
    <3>2. HandIds = {} /\ HandIds' = {Head(s_request_queue).id}
      BY <3>1 DEF HandIds
    <3>3. /\ OnceRequested(Tail(s_request_queue))
          /\ Head(s_request_queue).id \in RequestIds(s_request_queue)
          /\ RequestIds(Tail(s_request_queue))
               = RequestIds(s_request_queue) \ {Head(s_request_queue).id}
      BY <1>3, <2>2, TailRequest DEF OnceInv
    <3> QED
      BY <1>1, <1>2, <3>1, <3>2, <3>3 DEF OnceInv, Apart
  <2> QED
    BY <2>1, <2>2
<1>7. CASE DvdRead
  <2>1. /\ dvd = "read" /\ dvd' = "push" /\ hand'.request = hand
        /\ UNCHANGED <<s_request_queue, s_result_queue>>
    BY <1>7 DEF DvdRead
  <2>2. HandIds' = HandIds
    BY <2>1 DEF HandIds
  <2> QED
    BY <1>4, <2>1, <2>2
<1>8. CASE DvdPush
  <2>1. /\ dvd = "push" /\ dvd' = "set" /\ s_request_queue' = s_request_queue
        /\ s_result_queue' = Append(s_result_queue, hand) /\ hand \in ReadResult
    BY <1>8 DEF DvdPush, TypeInv, TypeOK
  <2>2. HandIds = {hand.request.id} /\ HandIds' = {}
    BY <2>1 DEF HandIds
  <2>3. hand.request.id \notin ResultIds(s_result_queue) /\ OnceAnswered(s_result_queue)
    BY <2>2 DEF OnceInv, Apart
  <2>4. /\ OnceAnswered(Append(s_result_queue, hand))
        /\ ResultIds(Append(s_result_queue, hand))
             = ResultIds(s_result_queue) \cup {hand.request.id}
    BY <1>3, <2>1, <2>3, AppendResult
  <2> QED
    BY <1>1, <1>2, <2>1, <2>2, <2>4 DEF OnceInv, Apart
<1> QED
  BY <1>5, <1>6, <1>7, <1>8 DEF DvdStep

\* No id at any of the places is the next one.
LEMMA NextIdIsNew ==
  ASSUME TypeInv, ResultInv
  PROVE  /\ s_next_id \notin RequestIds(s_request_queue) /\ s_next_id \notin HandIds
         /\ s_next_id \notin ResultIds(s_result_queue)
         /\ s_next_id \notin MapIds(s_result_map)
         /\ \A e \in Awaited : e.id # s_next_id
<1>1. \A a \in Live : a.id \in Nat /\ a.id < s_next_id /\ s_next_id \in Nat
  BY LiveTypes DEF ReadRequest, ResultInv, Distinct, TypeInv, TypeOK
<1>2. \A a \in Live : a.id # s_next_id
  BY <1>1
<1>3. \A i \in DOMAIN s_request_queue : s_request_queue[i] \in Live
  BY DEF Items, Queued, Live
<1>4. \A i \in DOMAIN s_result_queue : s_result_queue[i].request \in Live
  BY DEF Items, Results, Live
<1>5. \A r \in s_result_map : r.request \in Live
  BY DEF Results, Live
<1>6. (dvd = "read" => hand \in Live) /\ (dvd = "push" => hand.request \in Live)
  BY DEF Queued, Results, Live
<1>7. Awaited \subseteq Live
  BY DEF Live
<1> QED
  BY <1>2, <1>3, <1>4, <1>5, <1>6, <1>7 DEF RequestIds, ResultIds, MapIds, HandIds

LEMMA OnceCpuCall ==
  ASSUME TypeInv, ResultInv, OnceInv, CpuCall
  PROVE  OnceInv'
<1> USE DEF flags, store, thread, queues, Goto
<1>1. CASE Start
  <2>1. /\ cpu = "off" /\ cpu' = "run" /\ dvd' = "wait"
        /\ s_request_queue' = << >> /\ s_result_queue' = << >>
        /\ UNCHANGED <<s_result_map, events, saved>>
    BY <1>1 DEF Start
  <2>2. s_result_map = {} /\ events = {}
    BY <2>1 DEF ResultInv
  <2>3. HandIds' = {} /\ Pending' = {} /\ MapIds(s_result_map') = {}
    BY <2>1, <2>2 DEF HandIds, Pending, MapIds, InFinishRead
  <2> QED
    BY <2>1, <2>3, NoIds DEF OnceInv, Apart, InFinishRead
<1>2. CASE StartRead
  <2> DEFINE request == [id |-> s_next_id, serial |-> started + 1, disc |-> s_disc]
  <2>1. request \in ReadRequest /\ request.id = s_next_id
    BY DEF ReadRequest, TypeInv, TypeOK
  <2> HIDE DEF request
  <2>2. /\ cpu = "run" /\ cpu' = "startSet" /\ finishing' = request
        /\ s_request_queue' = Append(s_request_queue, request)
        /\ UNCHANGED <<s_result_queue, s_result_map, hand, dvd, events, saved>>
    BY <1>2 DEF StartRead, request
  <2>3. s_request_queue \in Seq(ReadRequest) /\ OnceRequested(s_request_queue)
    BY DEF TypeInv, TypeOK, OnceInv
  <2>4. /\ OnceRequested(s_request_queue')
        /\ RequestIds(s_request_queue') = RequestIds(s_request_queue) \cup {s_next_id}
    BY <2>1, <2>2, <2>3, AppendRequest, NextIdIsNew
  <2>5. HandIds' = HandIds /\ Pending' = events \cup {request} /\ Pending = events
    BY <2>2 DEF HandIds, Pending, InFinishRead
  <2>6. request \notin events
    BY <2>1, NextIdIsNew DEF Awaited
  <2> QED
    BY <2>1, <2>2, <2>4, <2>5, <2>6, NextIdIsNew DEF OnceInv, Apart
<1>3. ASSUME NEW event \in events, FinishRead(event) PROVE OnceInv'
  <2>1. /\ cpu = "run" /\ finishing' = event /\ events' = events \ {event}
        /\ UNCHANGED <<s_request_queue, s_result_queue, dvd, hand, saved>>
    BY <1>3 DEF FinishRead
  <2>2. HandIds' = HandIds /\ Pending = events
    BY <2>1 DEF HandIds, Pending, InFinishRead
  <2>3. CASE \E r \in s_result_map : r.request.id = event.id /\ cpu' = "finished"
                                     /\ s_result_map' = s_result_map \ {r}
    <3>1. PICK r \in s_result_map : r.request.id = event.id /\ cpu' = "finished"
                                    /\ s_result_map' = s_result_map \ {r}
      BY <2>3
    <3>2. Pending' = events \ {event}
      BY <2>1, <3>1 DEF Pending, InFinishRead
    <3>3. \A e \in events : e.id = event.id => e = event
      BY DEF ResultInv, Distinct, Live, Awaited
    <3>4. MapIds(s_result_map') \subseteq MapIds(s_result_map)
      BY <3>1 DEF MapIds
    <3>5. \A id \in MapIds(s_result_map) : id # event.id => id \in MapIds(s_result_map')
      BY <3>1 DEF MapIds
    <3>6. Apart(RequestIds(s_request_queue), HandIds, ResultIds(s_result_queue),
                MapIds(s_result_map'))
      BY <3>4 DEF OnceInv, Apart
    <3> QED
      BY <2>1, <2>2, <3>1, <3>2, <3>3, <3>5, <3>6 DEF OnceInv, InFinishRead
  <2>4. CASE cpu' = "finishPop" /\ s_result_map' = s_result_map
    <3>1. Pending' = events
      BY <2>1, <2>4 DEF Pending, InFinishRead
    <3> QED
      BY <2>1, <2>2, <2>4, <3>1 DEF OnceInv
  <2> QED
    BY <1>3, <2>3, <2>4 DEF FinishRead
<1>4. ASSUME NEW g \in Goals, WaitUntilIdle(g) PROVE OnceInv'
  <2>1. /\ cpu = "run" /\ cpu' \in {"exitSet", "idleLook"}
        /\ UNCHANGED <<queues, store, hand, dvd, finishing>>
    BY <1>4 DEF WaitUntilIdle
  <2>2. HandIds' = HandIds /\ Pending' = Pending
    BY <2>1 DEF HandIds, Pending, InFinishRead
  <2> QED
    BY <2>1, <2>2 DEF OnceInv, InFinishRead
<1> QED
  BY <1>1, <1>2, <1>3, <1>4 DEF CpuCall

\* Only the result that FinishRead() was called for leaves the four places.
LEMMA OnceFinishPop ==
  ASSUME TypeInv, ResultInv, OnceInv, FinishPop
  PROVE  OnceInv'
<1> USE DEF flags, thread
<1>1. /\ cpu = "finishPop"
      /\ UNCHANGED <<s_request_queue, hand, dvd, saved, events, finishing>>
  BY DEF FinishPop
<1>2. HandIds' = HandIds /\ Pending = events \cup {finishing}
  BY <1>1 DEF HandIds, Pending, InFinishRead
<1>3. CASE s_result_queue = << >>
  <2>1. cpu' = "finishWait" /\ UNCHANGED <<s_result_map, s_result_queue>>
    BY <1>3 DEF FinishPop
  <2>2. Pending' = Pending
    BY <1>1, <1>2, <2>1 DEF Pending, InFinishRead
  <2> QED
    BY <1>1, <1>2, <2>1, <2>2 DEF OnceInv, InFinishRead
<1>4. CASE s_result_queue # << >>
  <2> DEFINE r == Head(s_result_queue)
  <2>1. s_result_queue \in Seq(ReadResult) /\ s_result_map \in SUBSET ReadResult
    BY DEF TypeInv, TypeOK
  <2>2. /\ OnceAnswered(Tail(s_result_queue)) /\ r.request.id \in ResultIds(s_result_queue)
        /\ ResultIds(Tail(s_result_queue)) = ResultIds(s_result_queue) \ {r.request.id}
    BY <1>4, <2>1, TailResult DEF OnceInv
  <2>3. s_result_queue' = Tail(s_result_queue)
    BY <1>4 DEF FinishPop
  <2>4. \/ cpu' = "finished" /\ r.request.id = finishing.id /\ s_result_map' = s_result_map
        \/ cpu' = "finishPop" /\ s_result_map' = Emplace(s_result_map, r)
    BY <1>1, <1>4 DEF FinishPop
  <2> HIDE DEF r
  <2>5. CASE cpu' = "finished" /\ r.request.id = finishing.id /\ s_result_map' = s_result_map
    <3>1. Pending' = events
      BY <1>1, <2>5 DEF Pending, InFinishRead
    <3>2. finishing \notin events
      BY <1>1 DEF OnceInv, InFinishRead
    <3>3. \A e \in events : e.id = finishing.id => e = finishing
      BY <1>1 DEF ResultInv, Distinct, Live, Awaited, InFinishRead
    <3>4. \A e \in events : e.id # r.request.id
      BY <2>5, <3>2, <3>3
    <3> QED
      BY <1>1, <1>2, <2>2, <2>3, <2>5, <3>1, <3>4 DEF OnceInv, Apart, InFinishRead
  <2>6. CASE cpu' = "finishPop" /\ s_result_map' = Emplace(s_result_map, r)
    <3>1. r.request.id \notin MapIds(s_result_map)
      BY <2>2 DEF OnceInv, Apart
    <3>2. s_result_map' = s_result_map \cup {r}
      BY <2>6, <3>1 DEF Emplace, MapIds
    <3>3. MapIds(s_result_map') = MapIds(s_result_map) \cup {r.request.id}
      BY <3>2 DEF MapIds
    <3>4. Pending' = Pending
      BY <1>1, <2>6 DEF Pending, InFinishRead
    <3> QED
      BY <1>1, <1>2, <2>2, <2>3, <2>6, <3>3, <3>4 DEF OnceInv, Apart, InFinishRead
  <2> QED
    BY <2>4, <2>5, <2>6
<1> QED
  BY <1>3, <1>4

\* DoState(): while the DVD thread is idle, all results are in the result queue
\* and s_result_map, so the state that is saved has them all.
LEMMA OnceDoState ==
  ASSUME TypeInv, IdleInv, OnceInv, DoStateMeasure \/ DoStateWrite \/ DoStateRead
  PROVE  OnceInv'
<1> USE DEF flags, thread
<1>1. cpu = "idle" /\ cpu' = "run" /\ UNCHANGED <<s_request_queue, dvd, hand>>
      /\ s_result_queue' = << >>
  BY DEF DoStateMeasure, DoStateWrite, DoStateRead, Return, Goto
<1>2. s_request_queue = << >> /\ dvd \in {"wait", "woken", "pop"}
  BY <1>1 DEF IdleInv
<1>3. RequestIds(s_request_queue) = {} /\ HandIds = {} /\ HandIds' = {}
      /\ Pending = events /\ Pending' = events'
  BY <1>1, <1>2, NoIds DEF HandIds, Pending, InFinishRead
<1>4. CASE DoStateMeasure \/ DoStateWrite
  <2> DEFINE map == EmplaceAll(s_result_map, s_result_queue)
  <2>1. s_result_queue \in Seq(ReadResult) /\ s_result_map \in SUBSET ReadResult
    BY DEF TypeInv, TypeOK
  <2>2. MapIds(map) = MapIds(s_result_map) \cup ResultIds(s_result_queue)
    BY <2>1, EmplaceAllIds DEF OnceInv, Apart
  <2> HIDE DEF map
  <2>3. s_result_map' = map /\ events' = events
    BY <1>4 DEF DoStateMeasure, DoStateWrite, map
  <2>4. \A e \in events : e.id \in MapIds(map)
    BY <1>3, <2>2 DEF OnceInv
  <2>5. saved' # NoState => \A e \in saved'.events : e.id \in MapIds(saved'.s_result_map)
    <3>1. CASE DoStateMeasure
      BY <3>1 DEF DoStateMeasure, OnceInv
    <3>2. CASE DoStateWrite
      <4>1. saved' = [s_result_map |-> map, s_next_id |-> s_next_id,
                      had_disc |-> (s_disc # NoDisc), events |-> events]
        BY <2>3, <3>2 DEF DoStateWrite
      <4> QED
        BY <2>4, <4>1
    <3> QED
      BY <1>4, <3>1, <3>2
  <2> QED
    BY <1>1, <1>2, <1>3, <2>3, <2>4, <2>5, NoIds DEF OnceInv, Apart, InFinishRead
<1>5. CASE DoStateRead
  <2>1. goal.do = "read" /\ s_result_map' = saved.s_result_map /\ events' = saved.events
        /\ saved' = saved
    BY <1>5 DEF DoStateRead
  <2>2. \A e \in saved.events : e.id \in MapIds(saved.s_result_map)
    BY <2>1 DEF TypeInv, OnceInv
  <2> QED
    BY <1>1, <1>2, <1>3, <2>1, <2>2, NoIds DEF OnceInv, Apart, InFinishRead
<1> QED
  BY <1>4, <1>5

LEMMA OnceCpuStep ==
  ASSUME TypeInv, IdleInv, ResultInv, OnceInv, CpuStep
  PROVE  OnceInv'
<1> USE DEF flags, store, thread, queues, Goto
<1>1. CASE StartReadSet
  <2>1. /\ cpu = "startSet" /\ cpu' = "run" /\ events' = events \cup {finishing}
        /\ UNCHANGED <<queues, hand, dvd, s_result_map, saved>>
    BY <1>1 DEF StartReadSet
  <2>2. HandIds' = HandIds /\ Pending' = Pending
    BY <2>1 DEF HandIds, Pending, InFinishRead
  <2> QED
    BY <2>1, <2>2 DEF OnceInv, InFinishRead
<1>2. CASE FinishWait
  <2>1. /\ cpu = "finishWait" /\ cpu' = "finishPop"
        /\ UNCHANGED <<queues, hand, dvd, s_result_map, saved, events, finishing>>
    BY <1>2 DEF FinishWait
  <2>2. HandIds' = HandIds /\ Pending' = Pending
    BY <2>1 DEF HandIds, Pending, InFinishRead
  <2> QED
    BY <2>1, <2>2 DEF OnceInv, InFinishRead
<1>3. CASE FinishDone
  <2>1. /\ cpu = "finished" /\ cpu' = "run"
        /\ UNCHANGED <<queues, hand, dvd, s_result_map, saved, events>>
    BY <1>3 DEF FinishDone
  <2>2. HandIds' = HandIds /\ Pending' = Pending
    BY <2>1 DEF HandIds, Pending, InFinishRead
  <2> QED
    BY <2>1, <2>2 DEF OnceInv, InFinishRead
<1>4. CASE IdleLook \/ IdleTest \/ IdleWait \/ ExitSet \/ ExitEvent \/ Restart \/ GetDone
           \/ SetDisc
  <2>1. UNCHANGED <<queues, hand, events, saved, s_result_map, finishing>>
    BY <1>4 DEF IdleLook, IdleTest, IdleWait, ExitSet, ExitEvent, Restart, GetDone, SetDisc
  <2>2. /\ cpu \in {"idleLook", "idleTest", "idleWait", "exitSet", "exitEvent", "join", "idle"}
        /\ cpu' \in {"idleLook", "idleTest", "idleWait", "exitSet", "exitEvent", "join", "idle",
                     "run"}
    BY <1>4 DEF IdleLook, IdleTest, IdleWait, ExitSet, ExitEvent, Restart, GetDone, SetDisc,
                Return
  <2>3. dvd' = dvd \/ (dvd = "off" /\ dvd' = "wait")
    BY <1>4 DEF IdleLook, IdleTest, IdleWait, ExitSet, ExitEvent, Restart, GetDone, SetDisc
  <2>4. HandIds' = HandIds /\ Pending' = Pending
    BY <2>1, <2>2, <2>3 DEF HandIds, Pending, InFinishRead
  <2> QED
    BY <2>1, <2>2, <2>4 DEF OnceInv, InFinishRead
<1>5. CASE Stopped
  <2>1. /\ cpu = "join" /\ cpu' = "off" /\ events' = {}
        /\ UNCHANGED <<queues, hand, dvd, saved, s_result_map>>
    BY <1>5 DEF Stopped
  <2>2. HandIds' = HandIds /\ Pending' = {}
    BY <2>1 DEF HandIds, Pending, InFinishRead
  <2> QED
    BY <2>1, <2>2 DEF OnceInv, InFinishRead
<1> QED
  BY <1>1, <1>2, <1>3, <1>4, <1>5, OnceFinishPop, OnceDoState DEF CpuStep

LEMMA OnceStep ==
  TypeInv /\ IdleInv /\ ResultInv /\ OnceInv /\ [Next]_vars => OnceInv'
<1> SUFFICES ASSUME TypeInv, IdleInv, ResultInv, OnceInv, [Next]_vars PROVE OnceInv'
  OBVIOUS
<1>1. CASE UNCHANGED vars
  <2>1. UNCHANGED <<queues, flags, store, thread, caller>>
    BY <1>1 DEF vars
  <2>2. HandIds' = HandIds /\ Pending' = Pending
    BY <2>1 DEF HandIds, Pending, thread, caller, store
  <2> QED
    BY <2>1, <2>2 DEF OnceInv, queues, caller, store
<1> QED
  BY <1>1, OnceDvdStep, OnceCpuCall, OnceCpuStep DEF Next

-----------------------------------------------------------------------------
\* One position, where the invariant gives one id.
LEMMA CopiesAreOne ==
  ASSUME TypeInv, OnceInv, NEW e \in Pending
  PROVE  \E c : Copies(e.id) = {c}
<1> DEFINE id == e.id
           A == {i \in DOMAIN s_request_queue : s_request_queue[i].id = id}
           B == {i \in DOMAIN s_result_queue : s_result_queue[i].request.id = id}
           C == {r \in s_result_map : r.request.id = id}
           D == {h \in {hand} : dvd = "read" /\ h.id = id}
           E == {h \in {hand} : dvd = "push" /\ h.request.id = id}
<1>1. Copies(id) = {<<"request", i>> : i \in A} \cup {<<"result", i>> : i \in B}
                   \cup {<<"map", r.request.serial>> : r \in C}
                   \cup {<<"hand", 0>> : r \in D} \cup {<<"hand", 0>> : r \in E}
  BY DEF Copies
<1>2. /\ id \notin RequestIds(s_request_queue) => A = {}
      /\ id \in RequestIds(s_request_queue) => \E i : A = {i}
  BY DEF RequestIds, OnceInv, OnceRequested
<1>3. /\ id \notin ResultIds(s_result_queue) => B = {}
      /\ id \in ResultIds(s_result_queue) => \E i : B = {i}
  BY DEF ResultIds, OnceInv, OnceAnswered
<1>4. /\ id \notin MapIds(s_result_map) => C = {}
      /\ id \in MapIds(s_result_map) => \E r : C = {r}
  BY DEF MapIds, TypeInv, TypeOK
<1>5. /\ id \notin HandIds => D = {} /\ E = {}
      /\ id \in HandIds => (D = {hand} /\ E = {}) \/ (D = {} /\ E = {hand})
  <2>1. CASE dvd = "read"
    <3>1. HandIds = {hand.id} /\ E = {}
      BY <2>1 DEF HandIds
    <3> QED
      BY <2>1, <3>1
  <2>2. CASE dvd = "push"
    <3>1. HandIds = {hand.request.id} /\ D = {}
      BY <2>2 DEF HandIds
    <3> QED
      BY <2>2, <3>1
  <2>3. CASE dvd \notin {"read", "push"}
    BY <2>3 DEF HandIds
  <2> QED
    BY <2>1, <2>2, <2>3
<1> HIDE DEF A, B, C, D, E, id
<1>6. CASE id \in RequestIds(s_request_queue)
  <2>1. B = {} /\ C = {} /\ D = {} /\ E = {}
    BY <1>3, <1>4, <1>5, <1>6 DEF OnceInv, Apart
  <2>2. PICK i : A = {i}
    BY <1>2, <1>6
  <2>3. Copies(id) = {<<"request", i>>}
    BY <1>1, <2>1, <2>2
  <2> QED
    BY <2>3 DEF id
<1>7. CASE id \in ResultIds(s_result_queue)
  <2>1. A = {} /\ C = {} /\ D = {} /\ E = {}
    BY <1>2, <1>4, <1>5, <1>7 DEF OnceInv, Apart
  <2>2. PICK i : B = {i}
    BY <1>3, <1>7
  <2>3. Copies(id) = {<<"result", i>>}
    BY <1>1, <2>1, <2>2
  <2> QED
    BY <2>3 DEF id
<1>8. CASE id \in MapIds(s_result_map)
  <2>1. A = {} /\ B = {} /\ D = {} /\ E = {}
    BY <1>2, <1>3, <1>5, <1>8 DEF OnceInv, Apart
  <2>2. PICK r : C = {r}
    BY <1>4, <1>8
  <2>3. Copies(id) = {<<"map", r.request.serial>>}
    BY <1>1, <2>1, <2>2
  <2> QED
    BY <2>3 DEF id
<1>9. CASE id \in HandIds
  <2>1. A = {} /\ B = {} /\ C = {}
    BY <1>2, <1>3, <1>4, <1>9 DEF OnceInv, Apart
  <2>2. Copies(id) = {<<"hand", 0>>}
    BY <1>1, <1>5, <1>9, <2>1
  <2> QED
    BY <2>2 DEF id
<1> QED
  BY <1>6, <1>7, <1>8, <1>9 DEF OnceInv, id

(* The read that an event or FinishRead() waits for is in exactly one of    *)
(* the request queue, the DVD thread's hands, the result queue and          *)
(* s_result_map, and there once: FinishRead() finds it, and only it, if the *)
(* DVD thread goes on.  Under the same conditions as the right result.      *)
THEOREM EachReadOnceCorrect == SafetySpec => []EachReadOnce
<1> DEFINE Clean == ~ raced /\ ~ leftover
<1>1. Init => (Clean => ResultInv /\ OnceInv)
  BY ResultInit, OnceInit
<1>2. TypeInv /\ (~ raced => IdleInv) /\ (Clean => ResultInv /\ OnceInv) /\ [Next]_vars
        => (Clean => ResultInv /\ OnceInv)'
  BY ResultStep, OnceStep, GhostsStay
<1>3. TypeInv /\ (Clean => ResultInv /\ OnceInv) => EachReadOnce
  <2> SUFFICES ASSUME TypeInv, OnceInv,
                      NEW e \in events \cup (IF cpu \in InFinishRead THEN {finishing} ELSE {})
               PROVE  Cardinality(Copies(e.id)) = 1
    BY DEF EachReadOnce
  <2>1. e \in Pending
    BY DEF Pending
  <2>2. PICK c : Copies(e.id) = {c}
    BY <2>1, CopiesAreOne
  <2> QED
    BY <2>2, FS_Singleton
<1> QED
  BY <1>1, <1>2, <1>3, IdleInvCorrect, PTL DEF SafetySpec

=============================================================================
