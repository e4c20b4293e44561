------------------------------ MODULE NetPlay ------------------------------
(***************************************************************************)
(* Netplay: the machines of all players run the same game in step.  Each   *)
(* client's CPU thread pushes the inputs of its own pad, sends them to the *)
(* server, which relays them, and waits in GetNetPads for those of the     *)
(* others.  On every client three threads meet: the CPU thread, the        *)
(* netplay thread, which only posts it to the GUI thread when a game is to *)
(* be started or stopped and goes on, and the GUI thread, which does it.   *)
(*                                                                         *)
(* Taken for granted: an emulation has come up, or is gone, before the GUI *)
(* thread goes on.  ClearBuffers is one step; if it meets a core that      *)
(* still polls (two consumers of one queue), "overtaken" is set already.   *)
(*                                                                         *)
(* Player p owns the in-game pad p; player 1 hosts the server.  The async  *)
(* queue of a client and its link to the server are one FIFO queue, as is  *)
(* the link from the server to a client.                                   *)
(***************************************************************************)
EXTENDS Integers, Sequences, FiniteSets

CONSTANTS Players,     \* PlayerIds; 1 is the host
          Sizes,       \* target buffer sizes the host may choose
          MaxGames,    \* bound: games the host starts
          MaxFrames,   \* bound: frames a game runs for
          MaxEvents    \* bound: stops by users, lost connections and changes
                       \* of the buffer size

ASSUME NetPlayAssumption ==
    /\ Players \subseteq Nat \ {0} /\ 1 \in Players /\ IsFiniteSet(Players)
    /\ Sizes \subseteq Nat /\ Sizes # {}
    /\ MaxGames \in Nat /\ MaxFrames \in Nat /\ MaxEvents \in Nat

VARIABLES
    \* NetPlayClient, one per player
    m_is_running, m_current_game, m_target_buffer_size,
    m_pad_map,        \* the players whose pads are in the game
    m_pad_buffer,     \* [client -> [pad -> sequence of inputs]]
    m_gc_pad_event,   \* an auto-reset event
    netplay_client,   \* is it set?
    thread,           \* the netplay thread: idle, or where it is in StopGame()
    \* the GUI thread
    gui,              \* idle, or where it is in DoStop() or StartGame()
    posted,           \* its queue: "start" (NP_GUI_EVT_START_GAME), "stop" and
                      \* "boot" (DOLPHIN_EVT_STOP_SOFTWARE, _BOOT_SOFTWARE)
    m_start_btn,      \* the host's Start button
    \* the emulator
    running,          \* Core::IsRunningAndStarted()
    cpu,              \* run, or where the CPU thread is in GetNetPads()
    pad,              \* the pad polled next
    \* NetPlayServer
    server,           \* [m_current_game, m_target_buffer_size, m_is_running,
                      \*  m_players, m_pad_map]
    current_game,     \* Client::current_game
    m_async_queue,
    \* the network
    toServer, toClient,
    online,           \* the players whose connection is up
    events,           \* counts what MaxEvents bounds
    \* history
    booted,           \* the game a client's core runs
    pushed,           \* inputs its player has given in it
    used,             \* inputs its core has taken, per pad
    overtaken         \* a client's netplay thread handled a message when its GUI
                      \* thread had yet to start the game of an earlier one

clientVars == <<m_is_running, m_current_game, m_target_buffer_size, m_pad_map,
                m_pad_buffer, m_gc_pad_event, netplay_client, thread>>
guiVars    == <<gui, posted, m_start_btn>>
coreVars   == <<running, cpu, pad>>
serverVars == <<server, current_game, m_async_queue, events>>
netVars    == <<toServer, toClient, online>>
history    == <<booted, pushed, used, overtaken>>
vars == <<clientVars, guiVars, coreVars, serverVars, netVars, history>>

-----------------------------------------------------------------------------
\* A message; value is a game or a pad, input the input of that pad.  The
\* PAD_BUFFER that goes before each START_GAME is one message with it.
Message(type) == [type |-> type, value |-> 0, size |-> 0, map |-> {},
                  input |-> [game |-> 0, n |-> 0]]

FirstPad(map) == CHOOSE p \in map : \A q \in map : p <= q

IsFirstInGamePad(c, p) == \A q \in m_pad_map[c] : p <= q

NextPad(c, p) ==
    LET later == {q \in m_pad_map[c] : q > p}
    IN  IF later # {} THEN FirstPad(later) ELSE FirstPad(m_pad_map[c])

\* The network queues after client c sent the messages ms.
Sent(c, ms) ==
    IF c \in online THEN [toServer EXCEPT ![c] = @ \o ms] ELSE toServer

\* SendToClients: ms goes to those of "to" that are connected.
SendToClients(to, ms) ==
    toClient' = [c \in Players |-> IF c \in to \cap online
                                   THEN toClient[c] \o ms ELSE toClient[c]]

Init ==
    /\ m_is_running = [c \in Players |-> FALSE]
    /\ m_current_game = [c \in Players |-> 0]
    /\ \E size \in Sizes :
         /\ m_target_buffer_size = [c \in Players |-> size]
         /\ server = [m_current_game |-> 0, m_target_buffer_size |-> size,
                      m_is_running |-> FALSE,
                      m_players |-> Players, m_pad_map |-> Players]
    /\ m_pad_map = [c \in Players |-> Players]
    /\ m_pad_buffer = [c \in Players |-> [p \in Players |-> << >>]]
    /\ m_gc_pad_event = [c \in Players |-> FALSE]
    /\ netplay_client = [c \in Players |-> FALSE]
    /\ thread = [c \in Players |-> "idle"]
    /\ gui = [c \in Players |-> "idle"]
    /\ posted = [c \in Players |-> << >>]
    /\ m_start_btn = TRUE
    /\ running = [c \in Players |-> FALSE]
    /\ cpu = [c \in Players |-> "run"]
    /\ pad = [c \in Players |-> 1]
    /\ current_game = [c \in Players |-> 0]
    /\ m_async_queue = << >>
    /\ toServer = [c \in Players |-> << >>]
    /\ toClient = [c \in Players |-> << >>]
    /\ online = Players
    /\ events = 0
    /\ booted = [c \in Players |-> 0]
    /\ pushed = [c \in Players |-> 0]
    /\ used = [c \in Players |-> [p \in Players |-> 0]]
    /\ overtaken = FALSE

-----------------------------------------------------------------------------
(* The CPU thread.  NetPlay_GetInput holds crit_netplay_client all the time *)
(* it is in GetNetPads.                                                     *)

HoldsCrit(c) == cpu[c] # "run"

CpuGoto(c, to) == cpu' = [cpu EXCEPT ![c] = to]

\* The own pad is read as often as the buffer wants.
OwnInputs(c) ==
    LET have  == Len(m_pad_buffer[c][c])
        count == IF c \in m_pad_map[c] /\ have <= m_target_buffer_size[c]
                 THEN m_target_buffer_size[c] + 1 - have ELSE 0
    IN  [i \in 1 .. count |-> [game |-> booted[c], n |-> pushed[c] + i]]

GetNetPadsReturns(c) ==
    /\ CpuGoto(c, "run")
    /\ pad' = [pad EXCEPT ![c] = NextPad(c, @)]

\* The loop that waits for an input, up to its Wait(); only this thread pops.
Look(c, buffers) ==
    \/ /\ buffers[pad[c]] # << >>
       /\ m_pad_buffer' = [m_pad_buffer EXCEPT ![c] =
                              [buffers EXCEPT ![pad[c]] = Tail(@)]]
       /\ used' = [used EXCEPT ![c][pad[c]] = @ + 1]
       /\ GetNetPadsReturns(c)
    \/ /\ buffers[pad[c]] = << >>
       /\ m_pad_buffer' = [m_pad_buffer EXCEPT ![c] = buffers]
       /\ UNCHANGED used
       /\ IF m_is_running[c] THEN CpuGoto(c, "wait") /\ UNCHANGED pad
          ELSE GetNetPadsReturns(c)

\* The game polls a pad.  (Without netplay_client this does nothing here.)
Poll(c) ==
    /\ running[c] /\ cpu[c] = "run"
    /\ netplay_client[c]
    /\ used[c][pad[c]] < MaxFrames
    /\ LET new == IF IsFirstInGamePad(c, pad[c]) THEN OwnInputs(c) ELSE << >>
       IN  /\ pushed' = [pushed EXCEPT ![c] = @ + Len(new)]
           /\ toServer' = Sent(c, [i \in DOMAIN new |->
                [Message("PadData") EXCEPT !.value = c, !.input = new[i]]])
           /\ Look(c, [m_pad_buffer[c] EXCEPT ![c] = @ \o new])
    /\ UNCHANGED <<m_is_running, m_current_game, m_target_buffer_size, m_pad_map,
                   m_gc_pad_event, netplay_client, thread, guiVars, running,
                   serverVars, toClient, online, booted, overtaken>>

WaitEvent(c) ==
    /\ cpu[c] = "wait"
    /\ m_gc_pad_event[c]
    /\ m_gc_pad_event' = [m_gc_pad_event EXCEPT ![c] = FALSE]
    /\ Look(c, m_pad_buffer[c])
    /\ UNCHANGED <<m_is_running, m_current_game, m_target_buffer_size, m_pad_map,
                   netplay_client, thread, guiVars, running, serverVars, netVars,
                   booted, pushed, overtaken>>

CpuStep(c) == Poll(c) \/ WaitEvent(c)

-----------------------------------------------------------------------------
(* StopGame(), on the netplay thread: it stops the waiting CPU thread, then  *)
(* takes the lock that the CPU thread holds while it waits.                  *)

ThreadGoto(c, to) == thread' = [thread EXCEPT ![c] = to]

StopGame(c) ==
    /\ m_is_running' = [m_is_running EXCEPT ![c] = FALSE]
    /\ ThreadGoto(c, "set")

\* Variant: a CPU thread that waits is not woken.
StopGameSet_Asleep(c) ==
    /\ thread[c] = "set"
    /\ ThreadGoto(c, "disable")
    /\ UNCHANGED <<m_gc_pad_event, m_is_running, m_current_game, m_target_buffer_size,
                   m_pad_map, m_pad_buffer, netplay_client, guiVars, coreVars,
                   serverVars, netVars, history>>

StopGameSet(c) ==
    /\ thread[c] = "set"
    /\ ThreadGoto(c, "disable")
    /\ m_gc_pad_event' = [m_gc_pad_event EXCEPT ![c] = TRUE]
    /\ UNCHANGED <<m_is_running, m_current_game, m_target_buffer_size, m_pad_map,
                   m_pad_buffer, netplay_client, guiVars, coreVars, serverVars,
                   netVars, history>>

\* Adds an event to the queue of client c's GUI thread.
Post(c, event) == posted' = [posted EXCEPT ![c] = Append(@, event)]

\* NetPlay_Disable, m_dialog->StopGame and m_dialog->OnMsgStopGame.
StopGameDisable(c) ==
    /\ thread[c] = "disable"
    /\ ~HoldsCrit(c)
    /\ ThreadGoto(c, "idle")
    /\ netplay_client' = [netplay_client EXCEPT ![c] = FALSE]
    /\ Post(c, "stop")
    /\ m_start_btn' = (m_start_btn \/ c = 1)
    /\ UNCHANGED <<m_is_running, m_current_game, m_target_buffer_size, m_pad_map,
                   m_pad_buffer, m_gc_pad_event, gui, coreVars, serverVars,
                   netVars, history>>

-----------------------------------------------------------------------------
(* Messages from the server, on the netplay thread.                          *)

\* StartGame holds m_crit.game, which this handler takes.
StartGameMessage(c, m) ==
    /\ m.type = "StartGame"
    /\ gui[c] \notin {"enable", "clear"}
    /\ m_target_buffer_size' = [m_target_buffer_size EXCEPT ![c] = m.size]
    /\ m_current_game' = [m_current_game EXCEPT ![c] = m.value]
    /\ Post(c, "start")
    /\ m_start_btn' = (m_start_btn /\ c # 1)
    /\ UNCHANGED <<m_is_running, m_pad_map, m_pad_buffer, m_gc_pad_event, thread>>

StopGameMessage(c, m) ==
    /\ \/ m.type \in {"StopGame", "DisableGame"}
       \/ m.type = "Disconnect" /\ m_is_running[c]
    /\ StopGame(c)
    /\ UNCHANGED <<m_current_game, m_target_buffer_size, m_pad_map, m_pad_buffer,
                   m_gc_pad_event, posted, m_start_btn>>

ConnectionLost(c, m) ==
    /\ m.type = "Disconnect" /\ ~m_is_running[c]
    /\ UNCHANGED <<m_is_running, m_current_game, m_target_buffer_size, m_pad_map,
                   m_pad_buffer, m_gc_pad_event, thread, posted, m_start_btn>>

PadDataMessage(c, m) ==
    /\ m.type = "PadData"
    /\ m_pad_buffer' = [m_pad_buffer EXCEPT ![c][m.value] = Append(@, m.input)]
    /\ m_gc_pad_event' = [m_gc_pad_event EXCEPT ![c] = TRUE]
    /\ UNCHANGED <<m_is_running, m_current_game, m_target_buffer_size, m_pad_map,
                   thread, posted, m_start_btn>>

PadBufferMessage(c, m) ==
    /\ m.type = "PadBuffer"
    /\ m_target_buffer_size' = [m_target_buffer_size EXCEPT ![c] = m.size]
    /\ UNCHANGED <<m_is_running, m_current_game, m_pad_map, m_pad_buffer,
                   m_gc_pad_event, thread, posted, m_start_btn>>

PadMappingMessage(c, m) ==
    /\ m.type = "PadMapping"
    /\ m_pad_map' = [m_pad_map EXCEPT ![c] = m.map]
    /\ UNCHANGED <<m_is_running, m_current_game, m_target_buffer_size, m_pad_buffer,
                   m_gc_pad_event, thread, posted, m_start_btn>>

IsPosted(c, event) == \E i \in DOMAIN posted[c] : posted[c][i] = event

\* A game is yet to be started: ClearBuffers would drop an input that comes now,
\* and a stop that comes now would be posted before the boot.
Starting(c) == IsPosted(c, "start") \/ gui[c] \in {"enable", "clear"}

ClientReceives(c) ==
    /\ thread[c] = "idle" /\ toClient[c] # << >>
    /\ LET m == Head(toClient[c])
       IN  \/ StartGameMessage(c, m) \/ StopGameMessage(c, m)
           \/ ConnectionLost(c, m) \/ PadDataMessage(c, m)
           \/ PadBufferMessage(c, m) \/ PadMappingMessage(c, m)
    /\ overtaken' = (overtaken \/ Starting(c))
    /\ toClient' = [toClient EXCEPT ![c] = Tail(@)]
    /\ UNCHANGED <<netplay_client, gui, coreVars, serverVars, toServer, online,
                   booted, pushed, used>>

NetplayThread(c) == StopGameSet(c) \/ StopGameDisable(c) \/ ClientReceives(c)

-----------------------------------------------------------------------------
(* The GUI thread.                                                           *)

UserEvent == events < MaxEvents /\ events' = events + 1

GuiGoto(c, to) == gui' = [gui EXCEPT ![c] = to]

\* The next event is taken from the queue, when nothing else is done.
Handle(c, event) ==
    /\ gui[c] = "idle"
    /\ posted[c] # << >> /\ Head(posted[c]) = event
    /\ posted' = [posted EXCEPT ![c] = Tail(@)]

\* NetPlayClient::StartGame, up to the lock that NetPlay_Enable takes.
PostedStart(c) ==
    /\ Handle(c, "start")
    /\ toServer' = Sent(c, <<[Message("StartGame") EXCEPT !.value = m_current_game[c]]>>)
    /\ IF m_is_running[c] THEN UNCHANGED <<m_is_running, gui>>
       ELSE /\ m_is_running' = [m_is_running EXCEPT ![c] = TRUE]
            /\ GuiGoto(c, "enable")
    /\ UNCHANGED <<m_current_game, m_target_buffer_size, m_pad_map, m_pad_buffer,
                   m_gc_pad_event, netplay_client, thread, m_start_btn, coreVars,
                   serverVars, toClient, online, history>>

StartEnable(c) ==
    /\ gui[c] = "enable"
    /\ ~HoldsCrit(c)
    /\ GuiGoto(c, "clear")
    /\ netplay_client' = [netplay_client EXCEPT ![c] = TRUE]
    /\ UNCHANGED <<m_is_running, m_current_game, m_target_buffer_size, m_pad_map,
                   m_pad_buffer, m_gc_pad_event, thread, posted, m_start_btn,
                   coreVars, serverVars, netVars, history>>

\* ClearBuffers and m_dialog->BootGame.
StartClear(c) ==
    /\ gui[c] = "clear"
    /\ GuiGoto(c, "idle")
    /\ m_pad_buffer' = [m_pad_buffer EXCEPT ![c] = [p \in Players |-> << >>]]
    /\ Post(c, "boot")
    /\ UNCHANGED <<m_is_running, m_current_game, m_target_buffer_size, m_pad_map,
                   m_gc_pad_event, netplay_client, thread, m_start_btn, coreVars,
                   serverVars, netVars, history>>

\* A fresh emulation of the game; 0 is none.
Fresh(c, game, first) ==
    /\ pad' = [pad EXCEPT ![c] = first]
    /\ booted' = [booted EXCEPT ![c] = game]
    /\ pushed' = [pushed EXCEPT ![c] = 0]
    /\ used' = [used EXCEPT ![c] = [p \in Players |-> 0]]
    /\ UNCHANGED overtaken

\* CFrame::BootGame does nothing while there is a core.
PostedBoot(c) ==
    /\ Handle(c, "boot")
    /\ IF running[c] THEN UNCHANGED <<running, pad, history>>
       ELSE /\ running' = [running EXCEPT ![c] = TRUE]
            /\ Fresh(c, m_current_game[c], FirstPad(m_pad_map[c]))
    /\ UNCHANGED <<clientVars, gui, m_start_btn, cpu, serverVars, netVars>>

\* CFrame::DoStop: nothing, or NetPlayClient::Stop() and Core::Stop().
DoStop(c) ==
    IF ~running[c] THEN UNCHANGED <<m_is_running, gui>>
    ELSE /\ GuiGoto(c, IF m_is_running[c] THEN "set" ELSE "coreStop")
         /\ m_is_running' = [m_is_running EXCEPT ![c] = FALSE]

PostedStop(c) ==
    /\ Handle(c, "stop")
    /\ DoStop(c)
    /\ UNCHANGED <<m_current_game, m_target_buffer_size, m_pad_map, m_pad_buffer,
                   m_gc_pad_event, netplay_client, thread, m_start_btn, coreVars,
                   serverVars, netVars, history>>

UserStops(c) ==
    /\ gui[c] = "idle" /\ running[c]
    /\ UserEvent
    /\ DoStop(c)
    /\ UNCHANGED <<m_current_game, m_target_buffer_size, m_pad_map, m_pad_buffer,
                   m_gc_pad_event, netplay_client, thread, posted, m_start_btn,
                   coreVars, server, current_game, m_async_queue, netVars, history>>

StopSet(c) ==
    /\ gui[c] = "set"
    /\ GuiGoto(c, "coreStop")
    /\ m_gc_pad_event' = [m_gc_pad_event EXCEPT ![c] = TRUE]
    /\ toServer' = IF c \in m_pad_map[c] THEN Sent(c, <<Message("StopGame")>>)
                   ELSE toServer
    /\ UNCHANGED <<m_is_running, m_current_game, m_target_buffer_size, m_pad_map,
                   m_pad_buffer, netplay_client, thread, posted, m_start_btn,
                   coreVars, serverVars, toClient, online, history>>

\* Variant: Core::Stop() does not wait.
CoreStop_Now(c) ==
    /\ gui[c] = "coreStop"
    /\ GuiGoto(c, "idle")
    /\ running' = [running EXCEPT ![c] = FALSE]
    /\ Fresh(c, 0, 1)
    /\ UNCHANGED <<clientVars, posted, m_start_btn, cpu, serverVars, netVars>>

\* Core::Stop() waits for the CPU thread to leave the code it executes.
CoreStop(c) ==
    /\ gui[c] = "coreStop"
    /\ cpu[c] = "run"
    /\ GuiGoto(c, "idle")
    /\ running' = [running EXCEPT ![c] = FALSE]
    /\ Fresh(c, 0, 1)
    /\ UNCHANGED <<clientVars, posted, m_start_btn, cpu, serverVars, netVars>>

GuiThread(c) ==
    \/ PostedStart(c) \/ StartEnable(c) \/ StartClear(c) \/ PostedBoot(c)
    \/ PostedStop(c) \/ StopSet(c) \/ CoreStop(c)

-----------------------------------------------------------------------------
(* The server: the host's GUI thread and the server's netplay thread.        *)

InFlight == \/ \E i \in DOMAIN m_async_queue : m_async_queue[i].type = "StartGame"
            \/ \E i \in DOMAIN toClient[1] : toClient[1][i].type = "StartGame"

\* The button follows the message to the host's own client; nobody clicks it
\* again before.
ServerStartGame ==
    /\ m_start_btn /\ ~InFlight /\ gui[1] = "idle"
    /\ server.m_current_game < MaxGames
    /\ server' = [server EXCEPT !.m_current_game = @ + 1,
                                !.m_is_running = TRUE]
    /\ m_async_queue' = Append(m_async_queue,
         [Message("StartGame") EXCEPT !.value = server.m_current_game + 1,
                                      !.size = server.m_target_buffer_size])
    /\ UNCHANGED <<clientVars, guiVars, coreVars, current_game, events, netVars,
                   history>>

AdjustPadBufferSize(size) ==
    /\ gui[1] = "idle"
    /\ UserEvent /\ size # server.m_target_buffer_size
    /\ server' = [server EXCEPT !.m_target_buffer_size = size]
    /\ m_async_queue' = Append(m_async_queue,
                              [Message("PadBuffer") EXCEPT !.size = size])
    /\ UNCHANGED <<clientVars, guiVars, coreVars, current_game, netVars, history>>

ServerFlushes ==
    /\ m_async_queue # << >>
    /\ SendToClients(server.m_players, m_async_queue)
    /\ m_async_queue' = << >>
    /\ UNCHANGED <<clientVars, guiVars, coreVars, server, current_game, events,
                   toServer, online, history>>


\* Inputs of the last game are ignored.
RelayPadData(c, m) ==
    /\ m.type = "PadData"
    /\ IF current_game[c] = server.m_current_game
       THEN SendToClients(server.m_players \ {c}, <<m>>) ELSE UNCHANGED toClient
    /\ UNCHANGED <<server, current_game>>

ClientStarted(c, m) ==
    /\ m.type = "StartGame"
    /\ current_game' = [current_game EXCEPT ![c] = m.value]
    /\ UNCHANGED <<server, toClient>>

ServerStopGame(c, m) ==
    /\ m.type = "StopGame"
    /\ SendToClients(server.m_players, <<Message("StopGame")>>)
    /\ server' = [server EXCEPT !.m_is_running = FALSE]
    /\ UNCHANGED current_game


OnDisconnect(c, m) ==
    /\ m.type = "Disconnect"
    /\ LET left == server.m_pad_map \ {c}
           stop == server.m_is_running /\ c \in server.m_pad_map /\ c # 1
       IN  /\ SendToClients(server.m_players,
                 (IF stop THEN <<Message("DisableGame")>> ELSE << >>)
                 \o <<[Message("PadMapping") EXCEPT !.map = left]>>)
           /\ server' = [server EXCEPT !.m_is_running = @ /\ ~stop,
                                       !.m_players = @ \ {c},
                                       !.m_pad_map = left]
    /\ UNCHANGED current_game

ServerReceives(c) ==
    /\ toServer[c] # << >>
    /\ LET m == Head(toServer[c])
       IN  \/ RelayPadData(c, m) \/ ClientStarted(c, m)
           \/ ServerStopGame(c, m) \/ OnDisconnect(c, m)
    /\ toServer' = [toServer EXCEPT ![c] = Tail(@)]
    /\ UNCHANGED <<clientVars, guiVars, coreVars, m_async_queue, events, online,
                   history>>

\* A player's connection breaks; what is under way is lost.
Disconnect(c) ==
    /\ c \in online \ {1}
    /\ UserEvent
    /\ online' = online \ {c}
    /\ toServer' = [toServer EXCEPT ![c] = <<Message("Disconnect")>>]
    /\ toClient' = [toClient EXCEPT ![c] = <<Message("Disconnect")>>]
    /\ UNCHANGED <<clientVars, guiVars, coreVars, server, current_game,
                   m_async_queue, history>>

-----------------------------------------------------------------------------
ServerStep == ServerFlushes \/ \E c \in Players : ServerReceives(c)

Users == \/ ServerStartGame
         \/ \E size \in Sizes : AdjustPadBufferSize(size)
         \/ \E c \in Players : UserStops(c) \/ Disconnect(c)

Threads == \/ ServerStep
           \/ \E c \in Players : CpuStep(c) \/ NetplayThread(c) \/ GuiThread(c)

Next == Threads \/ Users

\* As long as a thread can go on, the server's too, so that messages arrive, one
\* does: the bounds end every game, so each gets its turn.  Nobody is obliged to
\* start or stop a game, or to stay connected.
Fairness == WF_vars(Threads)

Spec == Init /\ [][Next]_vars /\ Fairness

-----------------------------------------------------------------------------
(* Type correctness of client, server and network.                           *)
TypeOK ==
    /\ m_is_running \in [Players -> BOOLEAN]
    /\ m_current_game \in [Players -> 0 .. MaxGames]
    /\ m_target_buffer_size \in [Players -> Sizes]
    /\ m_pad_map \in [Players -> SUBSET Players]
    /\ \A c, p \in Players :
         \A i \in DOMAIN m_pad_buffer[c][p] :
            m_pad_buffer[c][p][i] \in [game : 1 .. MaxGames, n : Nat \ {0}]
    /\ m_gc_pad_event \in [Players -> BOOLEAN]
    /\ netplay_client \in [Players -> BOOLEAN]
    /\ thread \in [Players -> {"idle", "set", "disable"}]
    /\ gui \in [Players -> {"idle", "set", "coreStop", "enable", "clear"}]
    /\ \A c \in Players : \A i \in DOMAIN posted[c] :
          posted[c][i] \in {"start", "boot", "stop"}
    /\ m_start_btn \in BOOLEAN /\ overtaken \in BOOLEAN
    /\ running \in [Players -> BOOLEAN]
    /\ cpu \in [Players -> {"run", "wait"}]
    /\ \A c \in Players : ~running[c] => cpu[c] = "run"
    /\ pad \in [Players -> Players]
    /\ server.m_current_game \in 0 .. MaxGames
    /\ server.m_pad_map \subseteq server.m_players
    /\ current_game \in [Players -> 0 .. MaxGames]
    /\ online \subseteq Players /\ 1 \in online


(* A CPU thread that waits for an input is woken when it comes, and when the  *)
(* game is stopped: by whom ever, from whichever thread, also if it looked at *)
(* m_is_running just before, and also if messages overtook a start.           *)
WakeUpComes ==
    \A c \in Players : cpu[c] = "wait" =>
      /\ m_pad_buffer[c][pad[c]] # << >> => m_gc_pad_event[c]
      /\ ~m_is_running[c] => m_gc_pad_event[c] \/ thread[c] = "set" \/ gui[c] = "set"

=============================================================================
