----------------------------- MODULE DVDThread ------------------------------
(***************************************************************************)
(* The thread that reads the disc (Core/HW/DVD/DVDThread.cpp).  The CPU    *)
(* thread starts a read and schedules an event at the emulated time of its *)
(* end; the DVD thread takes requests from one single-producer, single-    *)
(* consumer queue (Common/SPSCQueue.h) and puts results into another.  The *)
(* event waits for its own result, whatever the order of the events.       *)
(* Savestates and disc changes first wait until the DVD thread is idle.    *)
(*                                                                         *)
(* "CPU thread" is also a host that holds the CPU's lock (CPU.tla).  Each  *)
(* queue operation takes effect with one access to a next pointer, and is  *)
(* one step; but Empty() on the request queue, which the producer calls,   *)
(* reads the consumer's m_read_ptr and then the next pointer behind it.    *)
(***************************************************************************)
EXTENDS Integers, Sequences, FiniteSets

CONSTANTS
  Discs,
  NoDisc,          \* s_disc is null
  NoRequest,       \* a thread holds no request and no result
  NoState,
  MaxReads         \* bound: reads ever started

ASSUME DVDAssumption ==
  /\ NoDisc \notin Discs
  /\ MaxReads \in Nat

VARIABLES
  s_request_queue,
  s_result_queue,
  s_request_queue_expanded,   \* the flag of the event
  s_result_queue_expanded,    \* the flag of the event
  s_dvd_thread_exiting,
  s_result_map,
  s_next_id,
  s_disc,
  dvd,             \* where the DVD thread is
  hand,            \* the request, then the result, that it works on
  cpu,             \* where the CPU thread is in this file
  goal,            \* why it waits for the DVD thread
  popped,          \* the node that Empty() looks at was popped since
  result,          \* the local variable of FinishRead()
  finishing,       \* the read whose event FinishRead() is
  events,          \* the reads whose FinishRead events are scheduled
  saved,           \* the last savestate, or NoState
  started,         \* ghost: how many reads were ever started
  raced,           \* ghost: a Pop() fell into an Empty() of the CPU thread
  leftover         \* ghost: the emulation was stopped with results in s_result_map

queues == <<s_request_queue, s_result_queue>>
flags == <<s_request_queue_expanded, s_result_queue_expanded, s_dvd_thread_exiting>>
store == <<s_result_map, s_next_id, s_disc, events, saved, started>>
thread == <<dvd, hand>>
caller == <<cpu, goal, popped, result, finishing>>
ghosts == <<raced, leftover>>
vars == <<queues, flags, store, thread, caller, ghosts>>

(* "serial" and "disc" are ghosts: which read of all it is, and the disc    *)
(* that was inserted when it was started.                                   *)
ReadRequest == [id : Nat, serial : Nat, disc : Discs \cup {NoDisc}]
ReadResult == [request : ReadRequest, disc : Discs \cup {NoDisc}]
SavedState == [s_result_map : SUBSET ReadResult, s_next_id : Nat, had_disc : BOOLEAN,
               events : SUBSET ReadRequest]

InFinishRead == {"finishPop", "finishWait"}
InWaitUntilIdle == {"idleLook", "idleTest", "idleWait"}
InStop == {"exitSet", "exitEvent", "join"}
Goals == [do : {"measure", "write", "read", "get", "stop"}] \cup
         [do : {"SetDisc"}, disc : Discs \cup {NoDisc}]
NoGoal == [do |-> "none"]

TypeOK ==
  /\ s_request_queue \in Seq(ReadRequest)
  /\ s_result_queue \in Seq(ReadResult)
  /\ s_request_queue_expanded \in BOOLEAN
  /\ s_result_queue_expanded \in BOOLEAN
  /\ s_dvd_thread_exiting \in BOOLEAN
  /\ s_result_map \in SUBSET ReadResult
  /\ \A r, q \in s_result_map : r.request.id = q.request.id => r = q
  /\ s_next_id \in Nat
  /\ s_disc \in Discs \cup {NoDisc}
  /\ dvd \in {"off", "wait", "woken", "pop", "read", "push", "set", "next"}
  /\ dvd = "read" => hand \in ReadRequest
  /\ dvd = "push" => hand \in ReadResult
  /\ dvd \notin {"read", "push"} => hand = NoRequest
  /\ cpu \in {"off", "run", "startSet", "finished", "idle"}
               \cup InFinishRead \cup InWaitUntilIdle \cup InStop
  /\ goal \in Goals \cup {NoGoal}
  /\ popped \in BOOLEAN
  /\ IF cpu = "finished" THEN result \in ReadResult ELSE result = NoRequest
  /\ IF cpu \in {"startSet", "finished"} \cup InFinishRead
     THEN finishing \in ReadRequest ELSE finishing = NoRequest
  /\ events \in SUBSET ReadRequest
  /\ saved \in SavedState \cup {NoState}
  /\ started \in Nat
  /\ {raced, leftover} \subseteq BOOLEAN

\* Before the first Start().
Init ==
  /\ s_request_queue = << >>
  /\ s_result_queue = << >>
  /\ s_request_queue_expanded = FALSE
  /\ s_result_queue_expanded = FALSE
  /\ s_dvd_thread_exiting = FALSE
  /\ s_result_map = {}
  /\ s_next_id = 0
  /\ s_disc = NoDisc
  /\ dvd = "off"
  /\ hand = NoRequest
  /\ cpu = "off"
  /\ goal = NoGoal
  /\ popped = FALSE
  /\ result = NoRequest
  /\ finishing = NoRequest
  /\ events = {}
  /\ saved = NoState
  /\ started = 0
  /\ raced = FALSE
  /\ leftover = FALSE

-----------------------------------------------------------------------------
(* Start() and the thread.  s_result_map stays as it is.                    *)
Start ==
  /\ cpu = "off"
  /\ cpu' = "run"
  /\ s_request_queue' = << >>
  /\ s_result_queue' = << >>
  /\ s_request_queue_expanded' = FALSE
  /\ s_result_queue_expanded' = FALSE
  /\ s_next_id' = 0
  /\ s_dvd_thread_exiting' = FALSE
  /\ dvd' = "wait"
  /\ UNCHANGED <<s_result_map, s_disc, events, saved, started, hand, goal, popped, result,
                 finishing, ghosts>>

Goto(from, to) == cpu = from /\ cpu' = to

(* StartReadInternal(), from the emulated drive, which looks for a disc.    *)
StartRead ==
  /\ s_disc # NoDisc
  /\ started < MaxReads
  /\ Goto("run", "startSet")
  /\ LET request == [id |-> s_next_id, serial |-> started + 1, disc |-> s_disc]
     IN  /\ s_request_queue' = Append(s_request_queue, request)
         /\ finishing' = request
  /\ s_next_id' = s_next_id + 1
  /\ started' = started + 1
  /\ UNCHANGED <<s_result_queue, flags, s_result_map, s_disc, events, saved, thread, goal,
                 popped, result, ghosts>>

StartReadSet ==
  /\ Goto("startSet", "run")
  /\ s_request_queue_expanded' = TRUE
  /\ events' = events \cup {finishing}
  /\ finishing' = NoRequest
  /\ UNCHANGED <<queues, s_result_queue_expanded, s_dvd_thread_exiting, s_result_map,
                 s_next_id,
                 s_disc, saved, started, thread, goal, popped, result, ghosts>>

-----------------------------------------------------------------------------
\* DVDThread()
DvdGoto(from, to) == dvd = from /\ dvd' = to

DvdWait ==
  /\ DvdGoto("wait", "woken")
  /\ s_request_queue_expanded
  /\ s_request_queue_expanded' = FALSE
  /\ UNCHANGED <<queues, s_result_queue_expanded, s_dvd_thread_exiting, store, hand,
                 caller, ghosts>>

DvdWoken ==
  /\ DvdGoto("woken", IF s_dvd_thread_exiting THEN "off" ELSE "pop")
  /\ UNCHANGED <<queues, flags, store, hand, caller, ghosts>>

\* Variant: Pop()'s answer is not looked at.
DvdPop_Unchecked ==
  /\ dvd = "pop"
  /\ dvd' = "read"
  /\ IF s_request_queue = << >> THEN UNCHANGED <<hand, s_request_queue>>
     ELSE /\ hand' = Head(s_request_queue)
          /\ s_request_queue' = Tail(s_request_queue)
  /\ UNCHANGED <<s_result_queue, flags, store, caller, ghosts>>

DvdPop ==
  /\ \/ /\ s_request_queue = << >>
        /\ DvdGoto("pop", "wait")
        /\ UNCHANGED <<s_request_queue, hand, popped, raced>>
     \/ /\ s_request_queue # << >>
        /\ DvdGoto("pop", "read")
        /\ hand' = Head(s_request_queue)
        /\ s_request_queue' = Tail(s_request_queue)
        /\ popped' = (popped \/ cpu = "idleTest")
        /\ raced' = (raced \/ cpu = "idleTest")
  /\ UNCHANGED <<s_result_queue, flags, store, cpu, goal, result, finishing, leftover>>

DvdRead ==
  /\ DvdGoto("read", "push")
  /\ hand' = [request |-> hand, disc |-> s_disc]
  /\ UNCHANGED <<queues, flags, store, caller, ghosts>>

DvdPush ==
  /\ DvdGoto("push", "set")
  /\ s_result_queue' = Append(s_result_queue, hand)
  /\ hand' = NoRequest
  /\ UNCHANGED <<s_request_queue, flags, store, caller, ghosts>>

DvdSet ==
  /\ DvdGoto("set", "next")
  /\ s_result_queue_expanded' = TRUE
  /\ UNCHANGED <<queues, s_request_queue_expanded, s_dvd_thread_exiting, store, hand,
                 caller, ghosts>>

DvdNext ==
  /\ DvdGoto("next", IF s_dvd_thread_exiting THEN "off" ELSE "pop")
  /\ UNCHANGED <<queues, flags, store, hand, caller, ghosts>>

-----------------------------------------------------------------------------
(* FinishRead(), the callback of an event.                                  *)
FinishRead(event) ==
  /\ event \in events
  /\ events' = events \ {event}
  /\ finishing' = event
  /\ \/ \E r \in s_result_map :
          /\ r.request.id = event.id
          /\ Goto("run", "finished")
          /\ result' = r
          /\ s_result_map' = s_result_map \ {r}
     \/ /\ \A r \in s_result_map : r.request.id # event.id
        /\ Goto("run", "finishPop")
        /\ UNCHANGED <<result, s_result_map>>
  /\ UNCHANGED <<queues, flags, s_next_id, s_disc, saved, started, thread, goal, popped,
                 ghosts>>

\* emplace() does nothing if the key is there.
Emplace(map, r) ==
  IF \E q \in map : q.request.id = r.request.id THEN map ELSE map \cup {r}

\* Variant: results come in the order in which they are asked for.
FinishPop_First ==
  /\ cpu = "finishPop"
  /\ IF s_result_queue = << >>
     THEN cpu' = "finishWait" /\ UNCHANGED <<result, s_result_queue>>
     ELSE /\ cpu' = "finished"
          /\ result' = Head(s_result_queue)
          /\ s_result_queue' = Tail(s_result_queue)
  /\ UNCHANGED <<s_result_map, s_request_queue, flags, s_next_id, s_disc, events, saved,
                 started,
                 thread, goal, popped, finishing, ghosts>>

FinishPop ==
  /\ cpu = "finishPop"
  /\ \/ /\ s_result_queue = << >>
        /\ cpu' = "finishWait"
        /\ UNCHANGED <<result, s_result_map, s_result_queue>>
     \/ /\ s_result_queue # << >>
        /\ s_result_queue' = Tail(s_result_queue)
        /\ LET r == Head(s_result_queue)
           IN  IF r.request.id = finishing.id
               THEN cpu' = "finished" /\ result' = r /\ UNCHANGED s_result_map
               ELSE /\ s_result_map' = Emplace(s_result_map, r)
                    /\ UNCHANGED <<cpu, result>>
  /\ UNCHANGED <<s_request_queue, flags, s_next_id, s_disc, events, saved, started, thread,
                 goal,
                 popped, finishing, ghosts>>

FinishWait ==
  /\ Goto("finishWait", "finishPop")
  /\ s_result_queue_expanded
  /\ s_result_queue_expanded' = FALSE
  /\ UNCHANGED <<queues, s_request_queue_expanded, s_dvd_thread_exiting, store, thread, goal,
                 popped, result, finishing, ghosts>>

\* The data goes to the emulated software.
FinishDone ==
  /\ Goto("finished", "run")
  /\ result' = NoRequest
  /\ finishing' = NoRequest
  /\ UNCHANGED <<queues, flags, store, thread, goal, popped, ghosts>>

-----------------------------------------------------------------------------
(* WaitUntilIdle(), on behalf of DoState(), SetDisc(), GetTMD() and others; *)
(* and Stop(), which does not wait for the requests.                        *)
WaitUntilIdle(g) ==
  /\ g.do = "read" => saved # NoState
  /\ Goto("run", IF g.do = "stop" THEN "exitSet" ELSE "idleLook")
  /\ goal' = g
  /\ UNCHANGED <<queues, flags, store, thread, popped, result, finishing, ghosts>>

\* Empty(): m_read_ptr, ...
IdleLook ==
  /\ Goto("idleLook", "idleTest")
  /\ UNCHANGED <<queues, flags, store, thread, goal, popped, result, finishing, ghosts>>

\* Variant: nobody waits for the requests.
IdleTest_NoWait ==
  /\ Goto("idleTest", "exitSet")
  /\ popped' = FALSE
  /\ UNCHANGED <<queues, flags, store, thread, goal, result, finishing, ghosts>>

\* ... and the next pointer there, which is null, or anything, once the node is popped.
IdleTest ==
  /\ \/ (s_request_queue = << >> \/ popped) /\ Goto("idleTest", "exitSet")
     \/ (s_request_queue # << >> \/ popped) /\ Goto("idleTest", "idleWait")
  /\ popped' = FALSE
  /\ UNCHANGED <<queues, flags, store, thread, goal, result, finishing, ghosts>>

IdleWait ==
  /\ Goto("idleWait", "idleLook")
  /\ s_result_queue_expanded
  /\ s_result_queue_expanded' = FALSE
  /\ UNCHANGED <<queues, s_request_queue_expanded, s_dvd_thread_exiting, store, thread, goal,
                 popped, result, finishing, ghosts>>

\* StopDVDThread() ...
ExitSet ==
  /\ Goto("exitSet", "exitEvent")
  /\ s_dvd_thread_exiting' = TRUE
  /\ UNCHANGED <<queues, s_request_queue_expanded, s_result_queue_expanded, store, thread,
                 goal,
                 popped, result, finishing, ghosts>>

\* Variant: a thread that sleeps is not woken.
ExitEvent_Asleep ==
  /\ Goto("exitEvent", "join")
  /\ UNCHANGED <<s_request_queue_expanded, queues, s_result_queue_expanded,
                 s_dvd_thread_exiting,
                 store, thread, goal, popped, result, finishing, ghosts>>

ExitEvent ==
  /\ Goto("exitEvent", "join")
  /\ s_request_queue_expanded' = TRUE
  /\ UNCHANGED <<queues, s_result_queue_expanded, s_dvd_thread_exiting, store, thread, goal,
                 popped, result, finishing, ghosts>>

\* ... and StartDVDThread(), whose thread may find the event still set.
Restart ==
  /\ goal.do # "stop"
  /\ dvd = "off"
  /\ Goto("join", "idle")
  /\ s_dvd_thread_exiting' = FALSE
  /\ dvd' = "wait"
  /\ UNCHANGED <<queues, s_request_queue_expanded, s_result_queue_expanded, store, hand, goal,
                 popped, result, finishing, ghosts>>

\* CoreTiming forgets its events when it is shut down a little later.
Stopped ==
  /\ goal.do = "stop"
  /\ dvd = "off"
  /\ Goto("join", "off")
  /\ goal' = NoGoal
  /\ s_disc' = NoDisc
  /\ events' = {}
  /\ leftover' = (leftover \/ s_result_map # {})
  /\ UNCHANGED <<queues, flags, s_result_map, s_next_id, saved, started, thread, popped,
                 result, finishing, raced>>

-----------------------------------------------------------------------------
(* What the callers of WaitUntilIdle() do then.                             *)
Return == Goto("idle", "run") /\ goal' = NoGoal

\* emplace() of one result after the other.
EmplaceAll(map, results) ==
  LET Known(r, i) == \/ \E q \in map : q.request.id = r.request.id
                     \/ \E j \in 1..i-1 : results[j].request.id = r.request.id
  IN  map \cup {results[i] : i \in {j \in DOMAIN results : ~ Known(results[j], j)}}

\* Variant: the results are left in the queue.
DoStateWrite_MapOnly ==
  /\ goal.do = "write"
  /\ Return
  /\ saved' = [s_result_map |-> s_result_map, s_next_id |-> s_next_id,
               had_disc |-> (s_disc # NoDisc), events |-> events]
  /\ UNCHANGED <<s_result_map, s_result_queue, s_request_queue, flags, s_next_id, s_disc,
                 events,
                 started, thread, popped, result, finishing, ghosts>>

(* DoState(), by the mode of the PointerWrap.                               *)
DoStateMeasure ==
  /\ goal.do = "measure"
  /\ Return
  /\ s_result_map' = EmplaceAll(s_result_map, s_result_queue)
  /\ s_result_queue' = << >>
  /\ UNCHANGED <<s_request_queue, flags, s_next_id, s_disc, events, saved, started, thread,
                 popped, result, finishing, ghosts>>

DoStateWrite ==
  /\ goal.do = "write"
  /\ Return
  /\ s_result_map' = EmplaceAll(s_result_map, s_result_queue)
  /\ s_result_queue' = << >>
  /\ saved' = [s_result_map |-> s_result_map', s_next_id |-> s_next_id,
               had_disc |-> (s_disc # NoDisc), events |-> events]
  /\ UNCHANGED <<s_request_queue, flags, s_next_id, s_disc, events, started, thread, popped,
                 result, finishing, ghosts>>

\* A disc that was not there when the state was saved is taken out; a disc
\* that is missing only gives a message.
DoStateRead ==
  /\ goal.do = "read"
  /\ Return
  /\ s_result_map' = saved.s_result_map
  /\ s_result_queue' = << >>
  /\ s_next_id' = saved.s_next_id
  /\ events' = saved.events
  /\ s_disc' = IF saved.had_disc THEN s_disc ELSE NoDisc
  /\ UNCHANGED <<s_request_queue, flags, saved, started, thread, popped, result, finishing,
                 ghosts>>

\* GetTMD(), GetTicket() and UpdateRunningGameMetadata() read the disc.
GetDone ==
  /\ goal.do = "get"
  /\ Return
  /\ UNCHANGED <<queues, flags, store, thread, popped, result, finishing, ghosts>>

SetDisc ==
  /\ goal.do = "SetDisc"
  /\ Return
  /\ s_disc' = goal.disc
  /\ UNCHANGED <<queues, flags, s_result_map, s_next_id, events, saved, started, thread,
                 popped, result, finishing, ghosts>>

-----------------------------------------------------------------------------
DvdStep ==
  DvdWait \/ DvdWoken \/ DvdPop \/ DvdRead \/ DvdPush \/ DvdSet \/ DvdNext

\* What the CPU thread begins to do.
CpuCall ==
  \/ Start \/ StartRead
  \/ \E event \in events : FinishRead(event)
  \/ \E g \in Goals : WaitUntilIdle(g)

\* What it then goes on to do.
CpuStep ==
  \/ StartReadSet
  \/ FinishPop \/ FinishWait \/ FinishDone
  \/ IdleLook \/ IdleTest \/ IdleWait
  \/ ExitSet \/ ExitEvent \/ Restart \/ Stopped
  \/ GetDone \/ SetDisc \/ DoStateMeasure \/ DoStateWrite \/ DoStateRead

Next == DvdStep \/ CpuCall \/ CpuStep

SafetySpec == Init /\ [][Next]_vars

\* Both threads go on when they can; reading the disc ends.
Spec == SafetySpec /\ WF_vars(DvdStep) /\ WF_vars(CpuStep)

-----------------------------------------------------------------------------
(* FinishRead() has "obtained the right ReadResult": that of the read whose *)
(* event it is, from the disc that was inserted when the read was started,  *)
(* whatever was ejected, inserted, saved and loaded since; unless a Pop()   *)
(* fell into an Empty().  It does not hold: Start() clears both queues and  *)
(* numbers the reads from 0 again, but s_result_map stays.                  *)
RightResult ==
  ~ raced => (cpu = "finished" => result = [request |-> finishing, disc |-> finishing.disc])

\* It holds as long as no emulation was stopped with results in s_result_map.
RightUnlessLeftover == ~ leftover => RightResult

\* The requests and results with an id, wherever they are.
Copies(id) ==
  {<<"request", i>> : i \in {j \in DOMAIN s_request_queue : s_request_queue[j].id = id}}
  \cup {<<"result", i>> : i \in {j \in DOMAIN s_result_queue :
                                     s_result_queue[j].request.id = id}}
  \cup {<<"map", r.request.serial>> : r \in {q \in s_result_map : q.request.id = id}}
  \cup {<<"hand", 0>> : r \in {q \in {hand} : dvd = "read" /\ q.id = id}}
  \cup {<<"hand", 0>> : r \in {q \in {hand} : dvd = "push" /\ q.request.id = id}}

(* Every read that an event, or FinishRead(), waits for exists exactly once *)
(* in the two queues, the map and the hands of the DVD thread: FinishRead() *)
(* can neither wait in vain nor find another read of the same id.  With the *)
(* two conditions above.                                                    *)
EachReadOnce ==
  ~ raced /\ ~ leftover =>
    \A event \in events \cup (IF cpu \in InFinishRead THEN {finishing} ELSE {}) :
      Cardinality(Copies(event.id)) = 1

(* "By waiting for the DVD thread to be done working, we ensure that        *)
(* s_request_queue will be empty and that the DVD thread won't be touching  *)
(* anything while this function runs" (DoState).  It does not hold: a Pop() *)
(* resets the next pointer that Empty() is about to read.                   *)
IdleMeansIdle ==
  cpu = "idle" => s_request_queue = << >> /\ dvd \in {"wait", "woken", "pop"}

\* It holds as long as no Pop() fell into an Empty(), whatever was left over.
IdleUnlessRaced == ~ raced => IdleMeansIdle

(* No call of the CPU thread waits for ever: neither for a result, nor for  *)
(* the DVD thread to be idle, nor for its end; unless a Pop() fell into an  *)
(* Empty(), after which a request may stay in the queue with its event      *)
(* taken.                                                                   *)
CallsReturn ==
  cpu \notin {"off", "run"} ~> cpu \in {"off", "run"} \/ raced

=============================================================================
