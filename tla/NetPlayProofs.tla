---------------------------- MODULE NetPlayProofs ----------------------------
(***************************************************************************)
(* Proofs about NetPlay: type correctness, and that no wake-up of a CPU    *)
(* thread that waits for an input is lost, for any number of players,      *)
(* games, frames, stops and lost connections, and any sizes of the buffer, *)
(* whatever messages overtake.                                             *)
(***************************************************************************)
EXTENDS NetPlay, WellFoundedInduction, TLAPS

-----------------------------------------------------------------------------
(* What the proofs look at in a queue.                                      *)
Items(q) == {q[i] : i \in DOMAIN q}

(* A message is taken from the front of a queue.                            *)
LEMMA TailFacts ==
  ASSUME NEW M, NEW q \in Seq(M), q # << >>
  PROVE  /\ Len(q) \in Nat /\ Len(q) >= 1 /\ Tail(q) \in Seq(M) /\ Len(Tail(q)) = Len(q) - 1
         /\ Head(q) = q[1] /\ Head(q) \in M
         /\ \A i \in 1..Len(q) - 1 : Tail(q)[i] = q[i + 1]
OBVIOUS

\* Positions of the rest, seen from the whole.
LEMMA TailAt ==
  ASSUME NEW M, NEW q \in Seq(M), q # << >>, NEW i \in 2..Len(q)
  PROVE  i - 1 \in 1..Len(Tail(q)) /\ Tail(q)[i - 1] = q[i]
<1>1. i - 1 \in 1..Len(q) - 1 /\ (i - 1) + 1 = i
  BY TailFacts
<1>2. Tail(q)[i - 1] = q[(i - 1) + 1]
  BY <1>1, TailFacts
<1> QED
  BY <1>1, <1>2, TailFacts

LEMMA TailItems ==
  ASSUME NEW M, NEW q \in Seq(M), q # << >>
  PROVE  Items(q) = Items(Tail(q)) \cup {Head(q)} /\ Items(q) \subseteq M
<1>1. DOMAIN q = 1..Len(q) /\ DOMAIN Tail(q) = 1..Len(Tail(q))
  BY TailFacts
<1>2. ASSUME NEW x \in Items(Tail(q)) PROVE x \in Items(q)
  <2>1. PICK i \in 1..Len(q) - 1 : x = Tail(q)[i]
    BY <1>1, <1>2, TailFacts DEF Items
  <2>2. i + 1 \in DOMAIN q /\ x = q[i + 1]
    BY <1>1, <2>1, TailFacts
  <2> QED
    BY <2>2 DEF Items
<1>3. ASSUME NEW x \in Items(q) PROVE x \in Items(Tail(q)) \cup {Head(q)}
  <2>1. PICK i \in 1..Len(q) : x = q[i]
    BY <1>1, <1>3 DEF Items
  <2>2. CASE i = 1
    BY <2>1, <2>2, TailFacts
  <2>3. CASE i # 1
    <3>1. i \in 2..Len(q)
      BY <2>3, TailFacts
    <3>2. i - 1 \in DOMAIN Tail(q) /\ x = Tail(q)[i - 1]
      BY <1>1, <2>1, <3>1, TailAt
    <3> QED
      BY <3>2 DEF Items
  <2> QED
    BY <2>2, <2>3
<1>4. Head(q) \in Items(q)
  BY <1>1, TailFacts DEF Items
<1>5. Items(q) \subseteq M
  BY DEF Items
<1> QED
  BY <1>2, <1>3, <1>4, <1>5

(* Messages s are added at the end of a queue.                              *)
LEMMA CatFacts ==
  ASSUME NEW M, NEW q \in Seq(M), NEW s \in Seq(M)
  PROVE  /\ q \o s \in Seq(M) /\ Len(q) \in Nat /\ Len(s) \in Nat /\ Len(q \o s) = Len(q) + Len(s)
         /\ DOMAIN (q \o s) = 1..Len(q \o s) /\ DOMAIN q = 1..Len(q) /\ DOMAIN s = 1..Len(s)
         /\ \A i \in 1..Len(q) : i \in 1..Len(q \o s) /\ (q \o s)[i] = q[i]
         /\ \A i \in 1..Len(s) : Len(q) + i \in 1..Len(q \o s) /\ (q \o s)[Len(q) + i] = s[i]
OBVIOUS

LEMMA CatAt ==
  ASSUME NEW M, NEW q \in Seq(M), NEW s \in Seq(M), NEW i \in 1..Len(q \o s), ~ (i <= Len(q))
  PROVE  i - Len(q) \in 1..Len(s) /\ (q \o s)[i] = s[i - Len(q)]
<1> DEFINE j == i - Len(q)
<1>1. j \in 1..Len(s) /\ i = Len(q) + j
  BY CatFacts
<1> HIDE DEF j
<1>2. (q \o s)[Len(q) + j] = s[j]
  BY <1>1, CatFacts
<1> QED
  BY <1>1, <1>2 DEF j

LEMMA CatItems ==
  ASSUME NEW M, NEW q \in Seq(M), NEW s \in Seq(M)
  PROVE  Items(q \o s) = Items(q) \cup Items(s)
<1> DEFINE r == q \o s
<1>1. /\ Len(q) \in Nat /\ DOMAIN r = 1..Len(r) /\ DOMAIN q = 1..Len(q) /\ DOMAIN s = 1..Len(s)
      /\ \A i \in 1..Len(q) : i \in 1..Len(r) /\ r[i] = q[i]
      /\ \A i \in 1..Len(s) : Len(q) + i \in 1..Len(r) /\ r[Len(q) + i] = s[i]
      /\ Len(r) \in Nat
  BY CatFacts
<1>2. \A i \in 1..Len(r) : ~ (i <= Len(q)) => i - Len(q) \in 1..Len(s) /\ r[i] = s[i - Len(q)]
  BY CatAt
<1> HIDE DEF r
<1>3. ASSUME NEW x \in Items(r) PROVE x \in Items(q) \cup Items(s)
  <2>1. PICK i \in 1..Len(r) : x = r[i]
    BY <1>1, <1>3 DEF Items
  <2>2. CASE i <= Len(q)
    <3>1. i \in 1..Len(q)
      BY <1>1, <2>1, <2>2
    <3> QED
      BY <1>1, <2>1, <3>1 DEF Items
  <2>3. CASE ~ (i <= Len(q))
    BY <1>1, <1>2, <2>1, <2>3 DEF Items
  <2> QED
    BY <2>2, <2>3
<1>4. Items(q) \subseteq Items(r)
  BY <1>1 DEF Items
<1>5. ASSUME NEW i \in 1..Len(s) PROVE s[i] \in Items(r)
  <2>1. Len(q) + i \in DOMAIN r /\ s[i] = r[Len(q) + i]
    BY <1>1
  <2> QED
    BY <2>1 DEF Items
<1>6. Items(s) \subseteq Items(r)
  BY <1>1, <1>5 DEF Items
<1> QED
  BY <1>3, <1>4, <1>6 DEF r


\* One message, or none.
LEMMA OneFacts ==
  ASSUME NEW M, NEW m \in M
  PROVE  <<m>> \in Seq(M) /\ Len(<<m>>) = 1 /\ Items(<<m>>) = {m}
<1>1. <<m>> \in Seq(M) /\ Len(<<m>>) = 1 /\ <<m>>[1] = m /\ DOMAIN <<m>> = 1..1
  OBVIOUS
<1>2. Items(<<m>>) = {m}
  BY <1>1 DEF Items
<1> QED
  BY <1>1, <1>2

LEMMA EmptyFacts ==
  ASSUME NEW M
  PROVE  << >> \in Seq(M) /\ Len(<< >>) = 0 /\ Items(<< >>) = {}
BY DEF Items

-----------------------------------------------------------------------------
(* Types.                                                                   *)
Kinds == {"PadData", "PadBuffer", "PadMapping", "StartGame", "StopGame", "DisableGame", "Disconnect"}
Input == [game : 1..MaxGames, n : Nat \ {0}]
Msg == [type : Kinds, value : Nat, size : Nat, map : SUBSET Players, input : [game : Nat, n : Nat]]

ToClientMsg(c) == {m \in Msg :
  /\ m.type = "PadData" => m.value \in Players \ {c} /\ m.input \in Input
  /\ m.type \in {"StartGame", "PadBuffer"} => m.size \in Sizes
  /\ m.type = "StartGame" => m.value \in 1..MaxGames
  /\ m.type = "PadMapping" => 1 \in m.map
  /\ m.type = "Disconnect" => c # 1}

ToServerMsg(c) == {m \in Msg :
  /\ m.type \in {"PadData", "StartGame", "StopGame", "Disconnect"}
  /\ m.type = "PadData" => m.value = c /\ m.input \in Input
  /\ m.type = "StartGame" => m.value \in 1..MaxGames
  /\ m.type = "Disconnect" => c \notin online}

AsyncMsg == {m \in Msg :
  /\ m.type \in {"StartGame", "PadBuffer"} /\ m.size \in Sizes
  /\ m.type = "StartGame" => m.value \in 1..MaxGames}

\* Events of the GUI thread's queue.
Events == {"start", "stop", "boot"}

\* A client that takes part in a game.
Active(c) == running[c] /\ netplay_client[c]

\* A game that the GUI thread is to start has a number.
GuiTypes ==
  /\ gui \in [Players -> {"idle", "set", "coreStop", "enable", "clear"}]
  /\ posted \in [Players -> Seq(Events)]
  /\ \A c \in Players : m_current_game[c] = 0 =>
       Items(posted[c]) \subseteq {"stop"} /\ gui[c] \notin {"enable", "clear"}

ClientTypes ==
  /\ m_is_running \in [Players -> BOOLEAN] /\ m_target_buffer_size \in [Players -> Sizes]
  /\ m_current_game \in [Players -> 0..MaxGames]
  /\ m_pad_map \in [Players -> SUBSET Players] /\ \A c \in Players : 1 \in m_pad_map[c]
  /\ m_gc_pad_event \in [Players -> BOOLEAN] /\ netplay_client \in [Players -> BOOLEAN]
  /\ thread \in [Players -> {"idle", "set", "disable"}]
  /\ m_start_btn \in BOOLEAN
  /\ GuiTypes

CoreTypes ==
  /\ running \in [Players -> BOOLEAN] /\ cpu \in [Players -> {"run", "wait"}]
  /\ pad \in [Players -> Players] /\ overtaken \in BOOLEAN
  /\ booted \in [Players -> 0..MaxGames] /\ pushed \in [Players -> Nat]
  /\ used \in [Players -> [Players -> Nat]]
  /\ m_pad_buffer \in [Players -> [Players -> Seq(Input)]]
  /\ \A c \in Players : /\ cpu[c] = "wait" => Active(c)
                        /\ running[c] <=> booted[c] # 0

ServerTypes ==
  /\ server \in [m_current_game : 0..MaxGames, m_target_buffer_size : Sizes,
                 m_is_running : BOOLEAN, m_players : SUBSET Players, m_pad_map : SUBSET Players]
  /\ server.m_pad_map \subseteq server.m_players /\ 1 \in server.m_pad_map
  /\ current_game \in [Players -> 0..MaxGames]
  /\ m_async_queue \in Seq(Msg) /\ Items(m_async_queue) \subseteq AsyncMsg
  /\ online \subseteq server.m_players /\ 1 \in online

NetTypes ==
  /\ toServer \in [Players -> Seq(Msg)] /\ toClient \in [Players -> Seq(Msg)]
  /\ \A c \in Players : /\ Items(toServer[c]) \subseteq ToServerMsg(c)
                        /\ Items(toClient[c]) \subseteq ToClientMsg(c)

TypeInv == ClientTypes /\ CoreTypes /\ ServerTypes /\ NetTypes

LEMMA TypeInvTypes == TypeInv => TypeOK
<1> SUFFICES ASSUME TypeInv PROVE TypeOK
  OBVIOUS
<1>3. ASSUME NEW c \in Players, NEW i \in DOMAIN posted[c] PROVE posted[c][i] \in Events
  <2>1. posted[c] \in Seq(Events)
    BY DEF TypeInv, ClientTypes, GuiTypes
  <2> QED
    BY <2>1
<1>1. ASSUME NEW c \in Players, NEW p \in Players, NEW i \in DOMAIN m_pad_buffer[c][p]
      PROVE  m_pad_buffer[c][p][i] \in [game : 1..MaxGames, n : Nat \ {0}]
  <2>1. m_pad_buffer[c][p] \in Seq(Input)
    BY DEF TypeInv, CoreTypes
  <2>2. m_pad_buffer[c][p][i] \in Input
    BY <2>1
  <2> QED
    BY <2>2 DEF Input
<1>2. \A c \in Players : ~ running[c] => cpu[c] = "run"
  BY DEF TypeInv, CoreTypes, Active
<1> QED
  BY <1>1, <1>2, <1>3 DEF TypeInv, ClientTypes, GuiTypes, CoreTypes, ServerTypes, TypeOK, Events

\* Pads.
LEMMA FirstPadType ==
  ASSUME NEW map \in SUBSET Players, map # {}
  PROVE  FirstPad(map) \in map /\ \A q \in map : FirstPad(map) <= q
<1>1. Players \subseteq Nat
  BY NetPlayAssumption
<1>2. PICK x \in map : \A y \in map : ~ (<<y, x>> \in OpToRel(<, Nat))
  BY <1>1, WFMin, NatLessThanWellFounded
<1>3. \A y \in map : ~ (y < x)
  BY <1>1, <1>2 DEF OpToRel
<1>4. \A y \in map : x <= y
  BY <1>1, <1>3
<1> QED
  BY <1>4 DEF FirstPad

LEMMA NextPadType ==
  ASSUME TypeInv, NEW c \in Players, NEW p
  PROVE  NextPad(c, p) \in Players /\ FirstPad(m_pad_map[c]) \in Players
<1>1. m_pad_map[c] \in SUBSET Players /\ m_pad_map[c] # {}
  BY DEF TypeInv, ClientTypes
<1>2. FirstPad(m_pad_map[c]) \in Players
  BY <1>1, FirstPadType
<1> DEFINE later == {q \in m_pad_map[c] : q > p}
<1>3. later \in SUBSET Players
  BY <1>1
<1> HIDE DEF later
<1>4. later # {} => FirstPad(later) \in Players
  BY <1>3, FirstPadType
<1> QED
  BY <1>2, <1>4 DEF NextPad, later

LEMMA MessageType ==
  ASSUME NEW k \in Kinds
  PROVE  Message(k) \in Msg /\ Message(k).type = k
BY DEF Message, Msg

LEMMA ValueType ==
  ASSUME NEW k \in Kinds, NEW v \in Nat
  PROVE  /\ [Message(k) EXCEPT !.value = v] \in Msg
         /\ [Message(k) EXCEPT !.value = v].type = k
         /\ [Message(k) EXCEPT !.value = v].value = v
BY DEF Message, Msg

LEMMA MapType ==
  ASSUME NEW k \in Kinds, NEW v \in SUBSET Players
  PROVE  /\ [Message(k) EXCEPT !.map = v] \in Msg
         /\ [Message(k) EXCEPT !.map = v].type = k
         /\ [Message(k) EXCEPT !.map = v].map = v
BY DEF Message, Msg

LEMMA SizeType ==
  ASSUME NEW k \in Kinds, NEW v \in Nat, NEW z \in Nat
  PROVE  /\ [Message(k) EXCEPT !.size = z] \in Msg
         /\ [Message(k) EXCEPT !.size = z].type = k
         /\ [Message(k) EXCEPT !.size = z].size = z
         /\ [Message(k) EXCEPT !.value = v, !.size = z] \in Msg
         /\ [Message(k) EXCEPT !.value = v, !.size = z].type = k
         /\ [Message(k) EXCEPT !.value = v, !.size = z].value = v
         /\ [Message(k) EXCEPT !.value = v, !.size = z].size = z
BY DEF Message, Msg

LEMMA TypeInvInit == Init => TypeInv
<1> SUFFICES ASSUME Init PROVE TypeInv
  OBVIOUS
<1> USE NetPlayAssumption
<1>1. << >> \in Seq(Msg) /\ << >> \in Seq(Input) /\ << >> \in Seq(Events) /\ Items(<< >>) = {}
  BY EmptyFacts
<1>2. ClientTypes
  <2>1. GuiTypes
    BY <1>1 DEF Init, GuiTypes
  <2> QED
    BY <2>1 DEF Init, ClientTypes
<1>3. CoreTypes
  <2>1. m_pad_buffer \in [Players -> [Players -> Seq(Input)]]
    BY <1>1 DEF Init
  <2>2. /\ running \in [Players -> BOOLEAN] /\ cpu \in [Players -> {"run", "wait"}]
        /\ pad \in [Players -> Players] /\ overtaken \in BOOLEAN
        /\ booted \in [Players -> 0..MaxGames] /\ pushed \in [Players -> Nat]
        /\ used \in [Players -> [Players -> Nat]]
    <3>1. 0 \in 0..MaxGames /\ 0 \in Nat /\ 1 \in Players
      OBVIOUS
    <3> QED
      BY <3>1 DEF Init
  <2>3. \A c \in Players : cpu[c] = "run" /\ ~ running[c] /\ booted[c] = 0
    BY DEF Init
  <2> QED
    BY <2>1, <2>2, <2>3 DEF CoreTypes
<1>4. ServerTypes
  BY <1>1 DEF Init, ServerTypes
<1>5. NetTypes
  BY <1>1 DEF Init, NetTypes
<1> QED
  BY <1>2, <1>3, <1>4, <1>5 DEF TypeInv

\* What a step leaves alone keeps its type.
LEMMA GuiKept == GuiTypes /\ UNCHANGED <<m_current_game, gui, posted>> => GuiTypes'
BY DEF GuiTypes

LEMMA TypeFrames ==
  /\ ClientTypes /\ UNCHANGED <<m_is_running, m_current_game, m_target_buffer_size, m_pad_map, m_gc_pad_event,
                                netplay_client, thread, guiVars>> => ClientTypes'
  /\ CoreTypes /\ UNCHANGED <<m_pad_buffer, netplay_client, coreVars, history>> => CoreTypes'
  /\ ServerTypes /\ UNCHANGED <<serverVars, online>> => ServerTypes'
  /\ NetTypes /\ UNCHANGED netVars => NetTypes'
<1>1. ASSUME ClientTypes, UNCHANGED <<m_is_running, m_current_game, m_target_buffer_size, m_pad_map,
                                      m_gc_pad_event, netplay_client, thread, guiVars>>
      PROVE  ClientTypes'
  <2>1. GuiTypes'
    BY <1>1, GuiKept DEF ClientTypes, guiVars
  <2> QED
    BY <1>1, <2>1 DEF ClientTypes, guiVars
<1>2. CoreTypes /\ UNCHANGED <<m_pad_buffer, netplay_client, coreVars, history>> => CoreTypes'
  BY DEF CoreTypes, coreVars, history, Active
<1>3. ServerTypes /\ UNCHANGED <<serverVars, online>> => ServerTypes'
  BY DEF ServerTypes, serverVars
<1>4. NetTypes /\ UNCHANGED netVars => NetTypes'
  BY DEF NetTypes, netVars, ToServerMsg
<1> QED
  BY <1>1, <1>2, <1>3, <1>4

\* Sent() and SendToClients() send messages of the right kind.
LEMMA SentServer ==
  ASSUME TypeInv, NEW c \in Players, NEW ms \in Seq(Msg), Items(ms) \subseteq ToServerMsg(c),
         toServer' = Sent(c, ms)
  PROVE  /\ toServer' \in [Players -> Seq(Msg)]
         /\ \A d \in Players : /\ Items(toServer'[d]) \subseteq ToServerMsg(d)
                               /\ toServer'[d] = IF d = c /\ c \in online THEN toServer[c] \o ms
                                                  ELSE toServer[d]
<1>1. toServer[c] \o ms \in Seq(Msg) /\ Items(toServer[c] \o ms) = Items(toServer[c]) \cup Items(ms)
  BY CatFacts, CatItems DEF TypeInv, NetTypes
<1>2. \A d \in Players : toServer'[d] = IF d = c /\ c \in online THEN toServer[c] \o ms ELSE toServer[d]
  <2>1. toServer \in [Players -> Seq(Msg)]
    BY DEF TypeInv, NetTypes
  <2>2. toServer' = IF c \in online THEN [toServer EXCEPT ![c] = toServer[c] \o ms] ELSE toServer
    BY DEF Sent
  <2> QED
    BY <2>1, <2>2
<1>3. toServer' \in [Players -> Seq(Msg)]
  BY <1>1 DEF Sent, TypeInv, NetTypes
<1>4. ASSUME NEW d \in Players PROVE Items(toServer'[d]) \subseteq ToServerMsg(d)
  BY <1>1, <1>2 DEF TypeInv, NetTypes
<1> QED
  BY <1>2, <1>3, <1>4

LEMMA SentType ==
  ASSUME TypeInv, NEW c \in Players, NEW ms \in Seq(Msg), Items(ms) \subseteq ToServerMsg(c),
         toServer' = Sent(c, ms), UNCHANGED <<toClient, online>>
  PROVE  NetTypes'
<1>1. \A d \in Players : ToServerMsg(d)' = ToServerMsg(d)
  BY DEF ToServerMsg
<1> QED
  BY <1>1, SentServer DEF TypeInv, NetTypes

LEMMA SendType ==
  ASSUME TypeInv, NEW to, NEW ms \in Seq(Msg), \A c \in to \cap online : Items(ms) \subseteq ToClientMsg(c),
         SendToClients(to, ms)
  PROVE  /\ toClient' \in [Players -> Seq(Msg)]
         /\ \A c \in Players : Items(toClient'[c]) \subseteq ToClientMsg(c)
<1>1. \A c \in Players : /\ toClient[c] \o ms \in Seq(Msg)
                         /\ Items(toClient[c] \o ms) = Items(toClient[c]) \cup Items(ms)
  BY CatFacts, CatItems DEF TypeInv, NetTypes
<1>2. toClient' \in [Players -> Seq(Msg)]
  BY <1>1 DEF SendToClients, TypeInv, NetTypes
<1>3. ASSUME NEW c \in Players PROVE Items(toClient'[c]) \subseteq ToClientMsg(c)
  <2>1. CASE c \in to \cap online
    BY <1>1, <2>1 DEF SendToClients, TypeInv, NetTypes
  <2>2. CASE c \notin to \cap online
    BY <2>2 DEF SendToClients, TypeInv, NetTypes
  <2> QED
    BY <2>1, <2>2
<1> QED
  BY <1>2, <1>3

\* A message is taken from a queue.
LEMMA ReceivedType ==
  ASSUME NEW q \in Seq(Msg), q # << >>
  PROVE  /\ Head(q) \in Items(q) /\ Head(q) \in Msg
         /\ Tail(q) \in Seq(Msg) /\ Items(Tail(q)) \subseteq Items(q)
BY TailFacts, TailItems

\* The CPU thread's own inputs.
LEMMA OwnInputsType ==
  ASSUME TypeInv, NEW c \in Players, running[c]
  PROVE  /\ OwnInputs(c) \in Seq(Input)
         /\ DOMAIN OwnInputs(c) = 1..Len(OwnInputs(c))
         /\ \A i \in 1..Len(OwnInputs(c)) : OwnInputs(c)[i] = [game |-> booted[c], n |-> pushed[c] + i]
<1> DEFINE count == IF c \in m_pad_map[c] /\ Len(m_pad_buffer[c][c]) <= m_target_buffer_size[c]
                    THEN m_target_buffer_size[c] + 1 - Len(m_pad_buffer[c][c]) ELSE 0
<1>1. m_target_buffer_size[c] \in Nat /\ m_pad_buffer[c][c] \in Seq(Input)
  <2>1. m_target_buffer_size[c] \in Sizes /\ m_pad_buffer[c][c] \in Seq(Input)
    BY DEF TypeInv, ClientTypes, CoreTypes
  <2> QED
    BY <2>1, NetPlayAssumption
<1>2. Len(m_pad_buffer[c][c]) \in Nat
  BY <1>1
<1>3. count \in Nat
  BY <1>1, <1>2
<1>4. booted[c] \in 1..MaxGames /\ pushed[c] \in Nat
  <2>1. booted[c] \in 0..MaxGames /\ booted[c] # 0 /\ pushed[c] \in Nat
    BY DEF TypeInv, CoreTypes
  <2> QED
    BY <2>1, NetPlayAssumption
<1>5. OwnInputs(c) = [i \in 1..count |-> [game |-> booted[c], n |-> pushed[c] + i]]
  BY DEF OwnInputs
<1> HIDE DEF count
<1>6. ASSUME NEW i \in 1..count PROVE [game |-> booted[c], n |-> pushed[c] + i] \in Input
  <2>1. pushed[c] + i \in Nat \ {0}
    BY <1>3, <1>4
  <2> QED
    BY <1>4, <2>1 DEF Input
<1>7. OwnInputs(c) \in [1..count -> Input]
  BY <1>5, <1>6
<1>8. OwnInputs(c) \in Seq(Input) /\ Len(OwnInputs(c)) = count
  BY <1>3, <1>7
<1> QED
  BY <1>5, <1>8

LEMMA LookType ==
  ASSUME TypeInv, NEW c \in Players, NEW b \in [Players -> Seq(Input)], Look(c, b)
  PROVE  /\ cpu' \in [Players -> {"run", "wait"}] /\ pad' \in [Players -> Players]
         /\ used' \in [Players -> [Players -> Nat]]
         /\ m_pad_buffer' \in [Players -> [Players -> Seq(Input)]]
         /\ \A d \in Players \ {c} : cpu'[d] = cpu[d]
<1>1. pad[c] \in Players /\ NextPad(c, pad[c]) \in Players /\ b[pad[c]] \in Seq(Input)
  BY NextPadType DEF TypeInv, CoreTypes
<1>2. /\ cpu \in [Players -> {"run", "wait"}] /\ pad \in [Players -> Players]
      /\ used \in [Players -> [Players -> Nat]] /\ used[c][pad[c]] \in Nat
      /\ m_pad_buffer \in [Players -> [Players -> Seq(Input)]]
  BY <1>1 DEF TypeInv, CoreTypes
<1>3. /\ cpu' = [cpu EXCEPT ![c] = "run"] \/ cpu' = [cpu EXCEPT ![c] = "wait"]
      /\ pad' = pad \/ pad' = [pad EXCEPT ![c] = NextPad(c, pad[c])]
  BY DEF Look, GetNetPadsReturns, CpuGoto
<1>6. /\ cpu' \in [Players -> {"run", "wait"}] /\ \A d \in Players \ {c} : cpu'[d] = cpu[d]
      /\ pad' \in [Players -> Players]
  <2>1. cpu' \in [Players -> {"run", "wait"}] /\ \A d \in Players \ {c} : cpu'[d] = cpu[d]
    BY <1>2, <1>3
  <2>2. pad' \in [Players -> Players]
    BY <1>1, <1>2, <1>3
  <2> QED
    BY <2>1, <2>2
<1>4. CASE b[pad[c]] # << >>
  <2>1. [b EXCEPT ![pad[c]] = Tail(b[pad[c]])] \in [Players -> Seq(Input)]
    <3>1. Tail(b[pad[c]]) \in Seq(Input)
      BY <1>1, <1>4
    <3> QED
      BY <1>1, <3>1
  <2>2. m_pad_buffer' = [m_pad_buffer EXCEPT ![c] = [b EXCEPT ![pad[c]] = Tail(b[pad[c]])]]
    BY <1>4 DEF Look
  <2>3. used' = [used EXCEPT ![c] = [used[c] EXCEPT ![pad[c]] = used[c][pad[c]] + 1]]
    BY <1>4 DEF Look
  <2>4. m_pad_buffer' \in [Players -> [Players -> Seq(Input)]]
    BY <1>2, <2>1, <2>2
  <2>5. [used[c] EXCEPT ![pad[c]] = used[c][pad[c]] + 1] \in [Players -> Nat]
    <3>1. used \in [Players -> [Players -> Nat]] /\ used[c][pad[c]] \in Nat
      BY <1>2
    <3>2. used[c] \in [Players -> Nat] /\ used[c][pad[c]] + 1 \in Nat
      BY <3>1
    <3> QED
      BY <3>2
  <2>6. used' \in [Players -> [Players -> Nat]]
    BY <1>2, <2>3, <2>5
  <2> QED
    BY <2>4, <2>6, <1>6
<1>5. CASE b[pad[c]] = << >>
  <2>1. m_pad_buffer' = [m_pad_buffer EXCEPT ![c] = b] /\ used' = used
    BY <1>5 DEF Look
  <2> QED
    BY <1>2, <2>1, <1>6
<1> QED
  BY <1>4, <1>5

\* The messages of Poll.
PadMessages(c, new) == [i \in DOMAIN new |-> [Message("PadData") EXCEPT !.value = c, !.input = new[i]]]

LEMMA PadMessagesType ==
  ASSUME NEW c \in Players, NEW new \in Seq(Input)
  PROVE  /\ PadMessages(c, new) \in Seq(Msg) /\ Len(PadMessages(c, new)) = Len(new)
         /\ DOMAIN PadMessages(c, new) = 1..Len(new)
         /\ \A i \in 1..Len(new) : LET m == PadMessages(c, new)[i] IN
              m.type = "PadData" /\ m.value = c /\ m.input = new[i] /\ m \in ToServerMsg(c)
         /\ Items(PadMessages(c, new)) \subseteq ToServerMsg(c)
<1> DEFINE ms == PadMessages(c, new)
<1>1. Len(new) \in Nat /\ DOMAIN new = 1..Len(new) /\ c \in Nat
  BY NetPlayAssumption
<1>2. ASSUME NEW i \in 1..Len(new)
      PROVE  ms[i].type = "PadData" /\ ms[i].value = c /\ ms[i].input = new[i] /\ ms[i] \in ToServerMsg(c)
  <2>1. new[i] \in Input /\ new[i] \in [game : Nat, n : Nat]
    <3>1. new[i] \in Input
      BY <1>1
    <3> QED
      BY <3>1, NetPlayAssumption DEF Input
  <2>2. ms[i] = [Message("PadData") EXCEPT !.value = c, !.input = new[i]]
    BY <1>1 DEF PadMessages
  <2>3. "PadData" \in Kinds
    BY DEF Kinds
  <2>4. /\ [Message("PadData") EXCEPT !.value = c, !.input = new[i]] \in Msg
        /\ [Message("PadData") EXCEPT !.value = c, !.input = new[i]].type = "PadData"
        /\ [Message("PadData") EXCEPT !.value = c, !.input = new[i]].value = c
        /\ [Message("PadData") EXCEPT !.value = c, !.input = new[i]].input = new[i]
    BY <1>1, <2>1, <2>3 DEF Message, Msg
  <2>5. ms[i] \in Msg /\ ms[i].type = "PadData" /\ ms[i].value = c /\ ms[i].input = new[i]
    BY <2>2, <2>4
  <2> QED
    BY <2>1, <2>5 DEF ToServerMsg
<1>3. ms \in [1..Len(new) -> Msg]
  <2>1. ms = [i \in 1..Len(new) |-> [Message("PadData") EXCEPT !.value = c, !.input = new[i]]]
    BY <1>1 DEF PadMessages
  <2>2. \A i \in 1..Len(new) : ms[i] \in Msg
    BY <1>2 DEF ToServerMsg
  <2> QED
    BY <2>1, <2>2
<1>4. ms \in Seq(Msg) /\ Len(ms) = Len(new) /\ DOMAIN ms = 1..Len(new)
  BY <1>1, <1>3
<1> QED
  BY <1>2, <1>4 DEF Items

LEMMA TypeInvPoll ==
  ASSUME TypeInv, NEW c \in Players, Poll(c)
  PROVE  TypeInv'
<1> DEFINE new == IF IsFirstInGamePad(c, pad[c]) THEN OwnInputs(c) ELSE << >>
           b == [m_pad_buffer[c] EXCEPT ![c] = m_pad_buffer[c][c] \o new]
<1>1. /\ running[c] /\ netplay_client[c]
      /\ pushed' = [pushed EXCEPT ![c] = pushed[c] + Len(new)]
      /\ toServer' = Sent(c, PadMessages(c, new))
      /\ Look(c, b)
      /\ UNCHANGED <<m_is_running, m_current_game, m_target_buffer_size, m_pad_map, m_gc_pad_event,
                     netplay_client, thread, guiVars, running, serverVars, toClient, online, booted,
                     overtaken>>
  BY DEF Poll, PadMessages
<1>2. new \in Seq(Input) /\ Len(new) \in Nat
  BY <1>1, OwnInputsType
<1> HIDE DEF new
<1>3. b \in [Players -> Seq(Input)]
  <2>1. m_pad_buffer[c] \in [Players -> Seq(Input)] /\ m_pad_buffer[c][c] \in Seq(Input)
    BY DEF TypeInv, CoreTypes
  <2>2. m_pad_buffer[c][c] \o new \in Seq(Input)
    BY <1>2, <2>1
  <2> QED
    BY <2>1, <2>2
<1> HIDE DEF b
<1>4. ClientTypes' /\ ServerTypes'
  BY <1>1, TypeFrames DEF TypeInv
<1>5. NetTypes'
  <2>1. Items(PadMessages(c, new)) \subseteq ToServerMsg(c) /\ PadMessages(c, new) \in Seq(Msg)
    BY <1>2, PadMessagesType
  <2> QED
    BY <1>1, <2>1, SentType
<1>6. CoreTypes'
  <2>1. /\ cpu' \in [Players -> {"run", "wait"}] /\ pad' \in [Players -> Players]
        /\ used' \in [Players -> [Players -> Nat]]
        /\ m_pad_buffer' \in [Players -> [Players -> Seq(Input)]]
        /\ \A d \in Players \ {c} : cpu'[d] = cpu[d]
    BY <1>1, <1>3, LookType
  <2>2. pushed' \in [Players -> Nat]
    BY <1>1, <1>2 DEF TypeInv, CoreTypes
  <2>3. ASSUME NEW d \in Players PROVE (cpu'[d] = "wait" => Active(d)') /\ (running'[d] <=> booted'[d] # 0)
    BY <1>1, <2>1 DEF TypeInv, CoreTypes, Active
  <2> QED
    BY <1>1, <2>1, <2>2, <2>3 DEF TypeInv, CoreTypes
<1> QED
  BY <1>4, <1>5, <1>6 DEF TypeInv

LEMMA TypeInvWaitEvent ==
  ASSUME TypeInv, NEW c \in Players, WaitEvent(c)
  PROVE  TypeInv'
<1>1. /\ cpu[c] = "wait" /\ m_gc_pad_event' = [m_gc_pad_event EXCEPT ![c] = FALSE]
      /\ Look(c, m_pad_buffer[c])
      /\ UNCHANGED <<m_is_running, m_current_game, m_target_buffer_size, m_pad_map, netplay_client,
                     thread, guiVars, running, serverVars, netVars, booted, pushed, overtaken>>
  BY DEF WaitEvent
<1>2. m_pad_buffer[c] \in [Players -> Seq(Input)]
  BY DEF TypeInv, CoreTypes
<1>3. ClientTypes'
  <2>1. GuiTypes'
    BY <1>1, GuiKept DEF TypeInv, ClientTypes, guiVars
  <2> QED
    BY <1>1, <2>1 DEF TypeInv, ClientTypes, guiVars
<1>4. ServerTypes' /\ NetTypes'
  BY <1>1, TypeFrames DEF TypeInv, netVars
<1>5. CoreTypes'
  <2>1. /\ cpu' \in [Players -> {"run", "wait"}] /\ pad' \in [Players -> Players]
        /\ used' \in [Players -> [Players -> Nat]]
        /\ m_pad_buffer' \in [Players -> [Players -> Seq(Input)]]
        /\ \A d \in Players \ {c} : cpu'[d] = cpu[d]
    BY <1>1, <1>2, LookType
  <2>2. ASSUME NEW d \in Players PROVE (cpu'[d] = "wait" => Active(d)') /\ (running'[d] <=> booted'[d] # 0)
    BY <1>1, <2>1 DEF TypeInv, CoreTypes, Active
  <2> QED
    BY <1>1, <2>1, <2>2 DEF TypeInv, CoreTypes
<1> QED
  BY <1>3, <1>4, <1>5 DEF TypeInv

\* A fresh emulation, or none.
LEMMA FreshType ==
  ASSUME TypeInv, NEW c \in Players, NEW g \in 0..MaxGames, NEW first \in Players, Fresh(c, g, first)
  PROVE  /\ pad' \in [Players -> Players] /\ booted' \in [Players -> 0..MaxGames]
         /\ pushed' \in [Players -> Nat] /\ used' \in [Players -> [Players -> Nat]]
         /\ booted'[c] = g /\ pushed'[c] = 0 /\ used'[c] = [p \in Players |-> 0]
         /\ \A d \in Players \ {c} : booted'[d] = booted[d] /\ pushed'[d] = pushed[d] /\ used'[d] = used[d]
BY DEF Fresh, TypeInv, CoreTypes

\* An event is added to the GUI thread's queue, or taken from it.
LEMMA PostType ==
  ASSUME TypeInv, NEW c \in Players, NEW e \in Events, Post(c, e),
         e = "stop" \/ m_current_game'[c] # 0, gui'[c] \in {"enable", "clear"} => m_current_game'[c] # 0,
         \A d \in Players : m_current_game[d] # 0 => m_current_game'[d] # 0,
         gui' \in [Players -> {"idle", "set", "coreStop", "enable", "clear"}],
         \A d \in Players \ {c} : gui'[d] = gui[d]
  PROVE  GuiTypes'
<1>1. posted[c] \in Seq(Events) /\ posted \in [Players -> Seq(Events)]
  BY DEF TypeInv, ClientTypes, GuiTypes
<1>2. posted' = [posted EXCEPT ![c] = posted[c] \o <<e>>]
  <2>1. Append(posted[c], e) = posted[c] \o <<e>>
    BY <1>1
  <2> QED
    BY <2>1 DEF Post
<1>3. <<e>> \in Seq(Events) /\ Items(<<e>>) = {e}
  BY OneFacts
<1>4. posted[c] \o <<e>> \in Seq(Events) /\ Items(posted[c] \o <<e>>) = Items(posted[c]) \cup {e}
  <2>1. posted[c] \o <<e>> \in Seq(Events)
    BY <1>1, <1>3, CatFacts
  <2>2. \A q, s \in Seq(Events) : Items(q \o s) = Items(q) \cup Items(s)
    BY CatItems
  <2>3. Items(posted[c] \o <<e>>) = Items(posted[c]) \cup Items(<<e>>)
    BY <1>1, <1>3, <2>2
  <2> QED
    BY <1>3, <2>1, <2>3
<1>5. posted' \in [Players -> Seq(Events)]
  BY <1>1, <1>2, <1>4
<1>6. ASSUME NEW d \in Players, m_current_game'[d] = 0
      PROVE  Items(posted'[d]) \subseteq {"stop"} /\ gui'[d] \notin {"enable", "clear"}
  <2>1. Items(posted[d]) \subseteq {"stop"} /\ gui[d] \notin {"enable", "clear"}
    BY <1>6 DEF TypeInv, ClientTypes, GuiTypes
  <2>2. CASE d = c
    <3>1. Items(posted'[d]) = Items(posted[d]) \cup {e} /\ e = "stop"
      BY <1>1, <1>2, <1>4, <1>6, <2>2
    <3> QED
      BY <1>6, <2>1, <2>2, <3>1
  <2>3. CASE d # c
    <3>1. posted'[d] = posted[d] /\ gui'[d] = gui[d]
      BY <1>1, <1>2, <2>3
    <3> QED
      BY <2>1, <3>1
  <2> QED
    BY <2>2, <2>3
<1> QED
  BY <1>5, <1>6 DEF GuiTypes

LEMMA HandleType ==
  ASSUME TypeInv, NEW c \in Players, NEW e, Handle(c, e), m_current_game' = m_current_game,
         gui' \in [Players -> {"idle", "set", "coreStop", "enable", "clear"}],
         \A d \in Players \ {c} : gui'[d] = gui[d],
         gui'[c] \in {"enable", "clear"} => e # "stop"
  PROVE  GuiTypes' /\ (e # "stop" => m_current_game[c] # 0)
<1>1. /\ posted[c] \in Seq(Events) /\ posted \in [Players -> Seq(Events)] /\ posted[c] # << >>
      /\ Head(posted[c]) = e /\ posted' = [posted EXCEPT ![c] = Tail(posted[c])]
  BY DEF TypeInv, ClientTypes, GuiTypes, Handle
<1>2. Tail(posted[c]) \in Seq(Events) /\ Items(posted[c]) = Items(Tail(posted[c])) \cup {e}
  BY <1>1, TailFacts, TailItems
<1>3. posted' \in [Players -> Seq(Events)]
  BY <1>1, <1>2
<1>4. e # "stop" => m_current_game[c] # 0
  BY <1>2 DEF TypeInv, ClientTypes, GuiTypes
<1>5. ASSUME NEW d \in Players, m_current_game[d] = 0
      PROVE  Items(posted'[d]) \subseteq {"stop"} /\ gui'[d] \notin {"enable", "clear"}
  <2>1. Items(posted[d]) \subseteq {"stop"} /\ gui[d] \notin {"enable", "clear"}
    BY <1>5 DEF TypeInv, ClientTypes, GuiTypes
  <2>2. CASE d = c
    <3>1. Items(posted'[d]) \subseteq Items(posted[d])
      BY <1>1, <1>2, <2>2
    <3> QED
      BY <1>4, <1>5, <2>1, <2>2, <3>1
  <2>3. CASE d # c
    <3>1. posted'[d] = posted[d] /\ gui'[d] = gui[d]
      BY <1>1, <2>3
    <3> QED
      BY <2>1, <3>1
  <2> QED
    BY <2>2, <2>3
<1> QED
  BY <1>3, <1>4, <1>5 DEF GuiTypes

LEMMA TypeInvClientReceives ==
  ASSUME TypeInv, NEW c \in Players, ClientReceives(c)
  PROVE  TypeInv'
<1> DEFINE m == Head(toClient[c])
<1>1. /\ StartGameMessage(c, m) \/ StopGameMessage(c, m) \/ ConnectionLost(c, m)
         \/ PadDataMessage(c, m) \/ PadBufferMessage(c, m) \/ PadMappingMessage(c, m)
      /\ toClient[c] # << >> /\ toClient' = [toClient EXCEPT ![c] = Tail(toClient[c])]
      /\ overtaken' = (overtaken \/ Starting(c))
      /\ UNCHANGED <<netplay_client, gui, coreVars, serverVars, toServer, online, booted, pushed, used>>
  BY DEF ClientReceives
<1>2. m \in ToClientMsg(c)
  BY <1>1, ReceivedType DEF TypeInv, NetTypes
<1>3. m.type = "PadData" => m.value \in Players /\ m.input \in Input
  BY <1>2 DEF ToClientMsg
<1>4. m.type \in {"PadBuffer", "StartGame"} => m.size \in Sizes
  BY <1>2 DEF ToClientMsg
<1>5. m.type = "PadMapping" => m.map \in SUBSET Players /\ 1 \in m.map
  BY <1>2 DEF ToClientMsg, Msg
<1>6. m.type = "StartGame" => m.value \in 1..MaxGames
  BY <1>2 DEF ToClientMsg
<1> HIDE DEF m
<1>7. ServerTypes'
  BY <1>1, TypeFrames DEF TypeInv
<1>8. NetTypes'
  <2>1. /\ toClient[c] \in Seq(Msg) /\ Tail(toClient[c]) \in Seq(Msg)
        /\ Items(Tail(toClient[c])) \subseteq ToClientMsg(c)
    BY <1>1, ReceivedType DEF TypeInv, NetTypes
  <2>2. /\ toClient' \in [Players -> Seq(Msg)]
        /\ \A d \in Players : Items(toClient'[d]) \subseteq ToClientMsg(d)
    BY <1>1, <2>1 DEF TypeInv, NetTypes
  <2>3. \A d \in Players : ToServerMsg(d)' = ToServerMsg(d)
    BY <1>1 DEF ToServerMsg
  <2> QED
    BY <1>1, <2>2, <2>3 DEF TypeInv, NetTypes, ToClientMsg
<1>9. overtaken' \in BOOLEAN
  BY <1>1 DEF TypeInv, CoreTypes
<1>10. ASSUME m_pad_buffer' \in [Players -> [Players -> Seq(Input)]] PROVE CoreTypes'
  BY <1>1, <1>9, <1>10 DEF TypeInv, CoreTypes, coreVars, Active
<1>11. m_pad_buffer \in [Players -> [Players -> Seq(Input)]]
  BY DEF TypeInv, CoreTypes
<1>12. ASSUME UNCHANGED <<m_current_game, posted>> PROVE GuiTypes'
  BY <1>1, <1>12, GuiKept DEF TypeInv, ClientTypes
<1>13. CASE StartGameMessage(c, m)
  <2>1. /\ m.type = "StartGame" /\ Post(c, "start")
        /\ m_target_buffer_size' = [m_target_buffer_size EXCEPT ![c] = m.size]
        /\ m_current_game' = [m_current_game EXCEPT ![c] = m.value]
        /\ m_start_btn' = (m_start_btn /\ c # 1)
        /\ UNCHANGED <<m_is_running, m_pad_map, m_pad_buffer, m_gc_pad_event, thread>>
    BY <1>13 DEF StartGameMessage
  <2>2. m.value \in 0..MaxGames /\ m.value # 0
    BY <1>6, <2>1, NetPlayAssumption
  <2>3. /\ m_current_game' \in [Players -> 0..MaxGames] /\ m_current_game'[c] # 0
        /\ \A d \in Players : m_current_game[d] # 0 => m_current_game'[d] # 0
    BY <2>1, <2>2 DEF TypeInv, ClientTypes
  <2>4. gui' = gui /\ gui' \in [Players -> {"idle", "set", "coreStop", "enable", "clear"}]
    BY <1>1 DEF TypeInv, ClientTypes, GuiTypes
  <2>5. GuiTypes'
    BY <2>1, <2>3, <2>4, PostType DEF Events
  <2>6. ClientTypes'
    BY <1>1, <1>4, <2>1, <2>3, <2>5 DEF TypeInv, ClientTypes
  <2> QED
    BY <1>7, <1>8, <1>10, <1>11, <2>1, <2>6 DEF TypeInv
<1>14. CASE StopGameMessage(c, m) \/ ConnectionLost(c, m)
  <2>1. /\ m_is_running' = m_is_running \/ m_is_running' = [m_is_running EXCEPT ![c] = FALSE]
        /\ thread' = thread \/ thread' = [thread EXCEPT ![c] = "set"]
        /\ UNCHANGED <<m_current_game, m_target_buffer_size, m_pad_map, m_pad_buffer, m_gc_pad_event,
                       posted, m_start_btn>>
    BY <1>14 DEF StopGameMessage, ConnectionLost, StopGame, ThreadGoto
  <2>2. GuiTypes'
    BY <1>12, <2>1
  <2>3. ClientTypes'
    BY <1>1, <2>1, <2>2 DEF TypeInv, ClientTypes
  <2> QED
    BY <1>7, <1>8, <1>10, <1>11, <2>1, <2>3 DEF TypeInv
<1>15. CASE PadBufferMessage(c, m) \/ PadMappingMessage(c, m)
  <2>1. UNCHANGED <<m_current_game, posted, m_pad_buffer>>
    BY <1>15 DEF PadBufferMessage, PadMappingMessage
  <2>2. GuiTypes'
    BY <1>12, <2>1
  <2>3. ClientTypes'
    BY <1>1, <1>4, <1>5, <1>15, <2>2 DEF PadBufferMessage, PadMappingMessage, TypeInv, ClientTypes
  <2> QED
    BY <1>7, <1>8, <1>10, <1>11, <2>1, <2>3 DEF TypeInv
<1>16. CASE PadDataMessage(c, m)
  <2>1. /\ m.type = "PadData" /\ m_gc_pad_event' = [m_gc_pad_event EXCEPT ![c] = TRUE]
        /\ m_pad_buffer' = [m_pad_buffer EXCEPT ![c] =
              [m_pad_buffer[c] EXCEPT ![m.value] = Append(m_pad_buffer[c][m.value], m.input)]]
        /\ UNCHANGED <<m_is_running, m_current_game, m_target_buffer_size, m_pad_map, thread, posted,
                       m_start_btn>>
    BY <1>16 DEF PadDataMessage
  <2>2. m_pad_buffer' \in [Players -> [Players -> Seq(Input)]]
    <3>1. m_pad_buffer[c] \in [Players -> Seq(Input)] /\ m_pad_buffer[c][m.value] \in Seq(Input)
      BY <1>3, <2>1 DEF TypeInv, CoreTypes
    <3>2. Append(m_pad_buffer[c][m.value], m.input) \in Seq(Input)
      BY <1>3, <2>1, <3>1
    <3> QED
      BY <1>11, <2>1, <3>1, <3>2
  <2>3. GuiTypes'
    BY <1>12, <2>1
  <2>4. ClientTypes'
    BY <1>1, <2>1, <2>3 DEF TypeInv, ClientTypes
  <2> QED
    BY <1>7, <1>8, <1>10, <2>2, <2>4 DEF TypeInv
<1> QED
  BY <1>1, <1>13, <1>14, <1>15, <1>16

\* StopGame() on the netplay thread.
LEMMA TypeInvStopGame ==
  ASSUME TypeInv, NEW c \in Players, StopGameSet(c) \/ StopGameDisable(c)
  PROVE  TypeInv'
<1>1. UNCHANGED <<m_is_running, m_current_game, m_target_buffer_size, m_pad_map, m_pad_buffer, gui,
                  coreVars, serverVars, netVars, history>>
  BY DEF StopGameSet, StopGameDisable, guiVars
<1>2. ServerTypes' /\ NetTypes'
  BY <1>1, TypeFrames DEF TypeInv, netVars
<1>3. CASE StopGameSet(c)
  <2>1. /\ thread' = [thread EXCEPT ![c] = "disable"] /\ m_gc_pad_event' = [m_gc_pad_event EXCEPT ![c] = TRUE]
        /\ UNCHANGED <<netplay_client, posted, m_start_btn>>
    BY <1>3 DEF StopGameSet, ThreadGoto, guiVars
  <2>2. GuiTypes'
    BY <1>1, <2>1, GuiKept DEF TypeInv, ClientTypes
  <2>3. ClientTypes'
    BY <1>1, <2>1, <2>2 DEF TypeInv, ClientTypes
  <2>4. CoreTypes'
    BY <1>1, <2>1, TypeFrames DEF TypeInv
  <2> QED
    BY <1>2, <2>3, <2>4 DEF TypeInv
<1>4. CASE StopGameDisable(c)
  <2>1. /\ cpu[c] # "wait" /\ thread' = [thread EXCEPT ![c] = "idle"] /\ m_gc_pad_event' = m_gc_pad_event
        /\ netplay_client' = [netplay_client EXCEPT ![c] = FALSE] /\ Post(c, "stop")
        /\ m_start_btn' = (m_start_btn \/ c = 1)
    BY <1>4 DEF StopGameDisable, HoldsCrit, ThreadGoto
  <2>2. GuiTypes'
    <3>1. /\ gui' = gui /\ m_current_game' = m_current_game
          /\ gui \in [Players -> {"idle", "set", "coreStop", "enable", "clear"}]
          /\ gui[c] \in {"enable", "clear"} => m_current_game[c] # 0
      BY <1>1 DEF TypeInv, ClientTypes, GuiTypes
    <3> QED
      BY <2>1, <3>1, PostType DEF Events
  <2>3. ClientTypes'
    BY <1>1, <2>1, <2>2 DEF TypeInv, ClientTypes
  <2>4. CoreTypes'
    BY <1>1, <2>1 DEF TypeInv, CoreTypes, ClientTypes, Active, coreVars, history
  <2> QED
    BY <1>2, <2>3, <2>4 DEF TypeInv
<1> QED
  BY <1>3, <1>4

\* The GUI thread starts a game.
LEMMA TypeInvStart ==
  ASSUME TypeInv, NEW c \in Players, PostedStart(c) \/ StartEnable(c) \/ StartClear(c)
  PROVE  TypeInv'
<1>1. UNCHANGED <<m_current_game, m_target_buffer_size, m_pad_map, m_gc_pad_event, thread, m_start_btn,
                  coreVars, serverVars, toClient, online, history>>
  BY DEF PostedStart, StartEnable, StartClear, netVars
<1>2. ServerTypes'
  BY <1>1, TypeFrames DEF TypeInv
<1>3. gui \in [Players -> {"idle", "set", "coreStop", "enable", "clear"}]
  BY DEF TypeInv, ClientTypes, GuiTypes
<1>4. CASE PostedStart(c)
  <2>1. /\ Handle(c, "start") /\ UNCHANGED <<m_pad_buffer, netplay_client>>
        /\ toServer' = Sent(c, <<[Message("StartGame") EXCEPT !.value = m_current_game[c]]>>)
        /\ m_is_running' = m_is_running \/ m_is_running' = [m_is_running EXCEPT ![c] = TRUE]
        /\ gui' = gui \/ gui' = [gui EXCEPT ![c] = "enable"]
    BY <1>4 DEF PostedStart, GuiGoto
  <2>2. /\ gui' \in [Players -> {"idle", "set", "coreStop", "enable", "clear"}]
        /\ \A d \in Players \ {c} : gui'[d] = gui[d]
    BY <1>3, <2>1
  <2>3. GuiTypes' /\ m_current_game[c] # 0
    BY <1>1, <2>1, <2>2, HandleType
  <2>4. ClientTypes'
    BY <1>1, <2>1, <2>3 DEF TypeInv, ClientTypes
  <2>5. CoreTypes'
    BY <1>1, <2>1, TypeFrames DEF TypeInv
  <2>6. [Message("StartGame") EXCEPT !.value = m_current_game[c]] \in ToServerMsg(c)
    <3>1. "StartGame" \in Kinds /\ m_current_game[c] \in 1..MaxGames /\ m_current_game[c] \in Nat
      BY <2>3, NetPlayAssumption DEF TypeInv, ClientTypes, Kinds
    <3> QED
      BY <3>1, ValueType DEF ToServerMsg
  <2>7. /\ <<[Message("StartGame") EXCEPT !.value = m_current_game[c]]>> \in Seq(Msg)
        /\ Items(<<[Message("StartGame") EXCEPT !.value = m_current_game[c]]>>) \subseteq ToServerMsg(c)
    BY <2>6, OneFacts DEF ToServerMsg
  <2>8. NetTypes'
    BY <1>1, <2>1, <2>7, SentType
  <2> QED
    BY <1>2, <2>4, <2>5, <2>8 DEF TypeInv
<1>5. CASE StartEnable(c)
  <2>1. /\ gui[c] = "enable" /\ gui' = [gui EXCEPT ![c] = "clear"]
        /\ netplay_client' = [netplay_client EXCEPT ![c] = TRUE]
        /\ UNCHANGED <<m_is_running, m_pad_buffer, posted, netVars>>
    BY <1>5 DEF StartEnable, GuiGoto
  <2>2. GuiTypes'
    BY <1>1, <2>1 DEF TypeInv, ClientTypes, GuiTypes
  <2>3. ClientTypes'
    BY <1>1, <2>1, <2>2 DEF TypeInv, ClientTypes
  <2>4. CoreTypes'
    BY <1>1, <2>1 DEF TypeInv, CoreTypes, ClientTypes, Active, coreVars, history
  <2> QED
    BY <1>2, <2>1, <2>3, <2>4, TypeFrames DEF TypeInv
<1>6. CASE StartClear(c)
  <2>1. /\ gui[c] = "clear" /\ gui' = [gui EXCEPT ![c] = "idle"] /\ Post(c, "boot")
        /\ m_pad_buffer' = [m_pad_buffer EXCEPT ![c] = [p \in Players |-> << >>]]
        /\ UNCHANGED <<m_is_running, netplay_client, netVars>>
    BY <1>6 DEF StartClear, GuiGoto
  <2>2. m_current_game[c] # 0
    BY <2>1 DEF TypeInv, ClientTypes, GuiTypes
  <2>3. /\ gui' \in [Players -> {"idle", "set", "coreStop", "enable", "clear"}]
        /\ \A d \in Players \ {c} : gui'[d] = gui[d]
    BY <1>3, <2>1
  <2>4. GuiTypes'
    BY <1>1, <2>1, <2>2, <2>3, PostType DEF Events
  <2>5. ClientTypes'
    BY <1>1, <2>1, <2>4 DEF TypeInv, ClientTypes
  <2>6. m_pad_buffer' \in [Players -> [Players -> Seq(Input)]]
    <3>1. [p \in Players |-> << >>] \in [Players -> Seq(Input)]
      BY EmptyFacts
    <3> QED
      BY <2>1, <3>1 DEF TypeInv, CoreTypes
  <2>7. CoreTypes'
    BY <1>1, <2>1, <2>6 DEF TypeInv, CoreTypes, Active, coreVars, history
  <2> QED
    BY <1>2, <2>1, <2>5, <2>7, TypeFrames DEF TypeInv
<1> QED
  BY <1>4, <1>5, <1>6

LEMMA TypeInvPostedBoot ==
  ASSUME TypeInv, NEW c \in Players, PostedBoot(c)
  PROVE  TypeInv'
<1>1. /\ Handle(c, "boot") /\ UNCHANGED <<clientVars, gui, m_start_btn, cpu, serverVars, netVars>>
      /\ \/ UNCHANGED <<running, pad, history>>
         \/ /\ running' = [running EXCEPT ![c] = TRUE]
            /\ Fresh(c, m_current_game[c], FirstPad(m_pad_map[c]))
  BY DEF PostedBoot
<1>2. gui' = gui /\ gui \in [Players -> {"idle", "set", "coreStop", "enable", "clear"}] /\ gui[c] = "idle"
  BY <1>1 DEF TypeInv, ClientTypes, GuiTypes, Handle
<1>3. GuiTypes' /\ m_current_game[c] # 0
  BY <1>1, <1>2, HandleType DEF clientVars
<1>4. ClientTypes'
  BY <1>1, <1>3 DEF TypeInv, ClientTypes, clientVars
<1>5. ServerTypes' /\ NetTypes'
  BY <1>1, TypeFrames DEF TypeInv, netVars
<1>6. CASE UNCHANGED <<running, pad, history>>
  <2>1. CoreTypes'
    BY <1>1, <1>6, TypeFrames DEF TypeInv, clientVars, coreVars
  <2> QED
    BY <1>4, <1>5, <2>1 DEF TypeInv
<1>7. CASE /\ running' = [running EXCEPT ![c] = TRUE]
           /\ Fresh(c, m_current_game[c], FirstPad(m_pad_map[c]))
  <2>1. m_current_game[c] \in 0..MaxGames /\ FirstPad(m_pad_map[c]) \in Players
    BY NextPadType DEF TypeInv, ClientTypes
  <2>2. /\ pad' \in [Players -> Players] /\ booted' \in [Players -> 0..MaxGames]
        /\ pushed' \in [Players -> Nat] /\ used' \in [Players -> [Players -> Nat]]
        /\ booted'[c] = m_current_game[c] /\ \A d \in Players \ {c} : booted'[d] = booted[d]
        /\ overtaken' = overtaken
    BY <1>7, <2>1, FreshType DEF Fresh
  <2>3. CoreTypes'
    BY <1>1, <1>3, <1>7, <2>2 DEF TypeInv, CoreTypes, Active, clientVars
  <2> QED
    BY <1>4, <1>5, <2>3 DEF TypeInv
<1> QED
  BY <1>1, <1>6, <1>7

\* The GUI thread, or its user, stops a game.
LEMMA TypeInvStop ==
  ASSUME TypeInv, NEW c \in Players, PostedStop(c) \/ UserStops(c) \/ StopSet(c)
  PROVE  TypeInv'
<1>1. UNCHANGED <<m_current_game, m_target_buffer_size, m_pad_map, m_pad_buffer, netplay_client, thread,
                  m_start_btn, coreVars, server, current_game, m_async_queue, toClient, online, history>>
  BY DEF PostedStop, UserStops, StopSet, serverVars, netVars
<1>2. CoreTypes'
  BY <1>1, TypeFrames DEF TypeInv
<1>3. ServerTypes'
  BY <1>1 DEF TypeInv, ServerTypes
<1>4. gui \in [Players -> {"idle", "set", "coreStop", "enable", "clear"}]
  BY DEF TypeInv, ClientTypes, GuiTypes
<1>5. CASE PostedStop(c) \/ UserStops(c)
  <2>1. /\ m_is_running' = m_is_running \/ m_is_running' = [m_is_running EXCEPT ![c] = FALSE]
        /\ \/ gui' = gui \/ gui' = [gui EXCEPT ![c] = "set"] \/ gui' = [gui EXCEPT ![c] = "coreStop"]
        /\ UNCHANGED <<m_gc_pad_event, netVars>>
        /\ Handle(c, "stop") \/ posted' = posted
        /\ gui[c] = "idle"
    BY <1>5 DEF PostedStop, UserStops, DoStop, GuiGoto, Handle
  <2>2. /\ gui' \in [Players -> {"idle", "set", "coreStop", "enable", "clear"}]
        /\ \A d \in Players \ {c} : gui'[d] = gui[d]
        /\ gui'[c] \notin {"enable", "clear"}
    BY <1>4, <2>1
  <2>3. CASE Handle(c, "stop")
    <3>1. GuiTypes'
      BY <1>1, <2>2, <2>3, HandleType
    <3>2. ClientTypes'
      BY <1>1, <2>1, <3>1 DEF TypeInv, ClientTypes
    <3> QED
      BY <1>2, <1>3, <2>1, <3>2, TypeFrames DEF TypeInv
  <2>4. CASE posted' = posted
    <3>1. GuiTypes'
      BY <1>1, <2>2, <2>4 DEF TypeInv, ClientTypes, GuiTypes
    <3>2. ClientTypes'
      BY <1>1, <2>1, <3>1 DEF TypeInv, ClientTypes
    <3> QED
      BY <1>2, <1>3, <2>1, <3>2, TypeFrames DEF TypeInv
  <2> QED
    BY <2>1, <2>3, <2>4
<1>6. CASE StopSet(c)
  <2>1. /\ gui' = [gui EXCEPT ![c] = "coreStop"] /\ m_gc_pad_event' = [m_gc_pad_event EXCEPT ![c] = TRUE]
        /\ toServer' = Sent(c, <<Message("StopGame")>>) \/ toServer' = toServer
        /\ UNCHANGED <<m_is_running, posted>>
    BY <1>6 DEF StopSet, GuiGoto
  <2>2. GuiTypes'
    BY <1>1, <1>4, <2>1 DEF TypeInv, ClientTypes, GuiTypes
  <2>3. ClientTypes'
    BY <1>1, <2>1, <2>2 DEF TypeInv, ClientTypes
  <2>4. Message("StopGame") \in ToServerMsg(c)
    BY MessageType DEF ToServerMsg, Kinds
  <2>5. /\ <<Message("StopGame")>> \in Seq(Msg)
        /\ Items(<<Message("StopGame")>>) \subseteq ToServerMsg(c)
    BY <2>4, OneFacts DEF ToServerMsg
  <2>6. NetTypes'
    BY <1>1, <2>1, <2>5, SentType, TypeFrames DEF TypeInv, netVars
  <2> QED
    BY <1>2, <1>3, <2>3, <2>6 DEF TypeInv
<1> QED
  BY <1>5, <1>6

LEMMA TypeInvCoreStop ==
  ASSUME TypeInv, NEW c \in Players, CoreStop(c)
  PROVE  TypeInv'
<1>1. /\ gui' = [gui EXCEPT ![c] = "idle"] /\ cpu[c] = "run"
      /\ running' = [running EXCEPT ![c] = FALSE] /\ Fresh(c, 0, 1)
      /\ UNCHANGED <<clientVars, posted, m_start_btn, cpu, serverVars, netVars>>
  BY DEF CoreStop, GuiGoto
<1>2. GuiTypes'
  BY <1>1 DEF TypeInv, ClientTypes, GuiTypes, clientVars
<1>3. ClientTypes'
  BY <1>1, <1>2 DEF TypeInv, ClientTypes, clientVars
<1>4. ServerTypes' /\ NetTypes'
  BY <1>1, TypeFrames DEF TypeInv, netVars
<1>5. 0 \in 0..MaxGames /\ 1 \in Players
  BY NetPlayAssumption
<1>6. /\ pad' \in [Players -> Players] /\ booted' \in [Players -> 0..MaxGames]
      /\ pushed' \in [Players -> Nat] /\ used' \in [Players -> [Players -> Nat]]
      /\ booted'[c] = 0 /\ \A d \in Players \ {c} : booted'[d] = booted[d]
      /\ overtaken' = overtaken
  <2>1. Fresh(c, 0, 1)
    BY <1>1
  <2>2. overtaken' = overtaken
    BY <2>1 DEF Fresh
  <2> QED
    BY <1>5, <2>1, <2>2, FreshType
<1>7. CoreTypes'
  BY <1>1, <1>6 DEF TypeInv, CoreTypes, Active, clientVars
<1> QED
  BY <1>3, <1>4, <1>7 DEF TypeInv

LEMMA TypeInvServerReceives ==
  ASSUME TypeInv, NEW c \in Players, ServerReceives(c)
  PROVE  TypeInv'
<1> DEFINE m == Head(toServer[c])
<1>1. /\ RelayPadData(c, m) \/ ClientStarted(c, m) \/ ServerStopGame(c, m) \/ OnDisconnect(c, m)
      /\ toServer[c] # << >> /\ toServer' = [toServer EXCEPT ![c] = Tail(toServer[c])]
      /\ UNCHANGED <<clientVars, guiVars, coreVars, m_async_queue, events, online, history>>
  BY DEF ServerReceives
<1>2. m \in ToServerMsg(c)
  BY <1>1, ReceivedType DEF TypeInv, NetTypes
<1> HIDE DEF m
<1>3. ClientTypes' /\ CoreTypes'
  BY <1>1, TypeFrames DEF TypeInv, clientVars
<1>4. /\ toServer' \in [Players -> Seq(Msg)]
      /\ \A d \in Players : Items(toServer'[d]) \subseteq ToServerMsg(d)'
  <2>1. /\ toServer[c] \in Seq(Msg) /\ Tail(toServer[c]) \in Seq(Msg)
        /\ Items(Tail(toServer[c])) \subseteq ToServerMsg(c)
    BY <1>1, ReceivedType DEF TypeInv, NetTypes
  <2>2. \A d \in Players : ToServerMsg(d)' = ToServerMsg(d)
    BY <1>1 DEF ToServerMsg
  <2> QED
    BY <1>1, <2>1, <2>2 DEF TypeInv, NetTypes
<1>5. ASSUME /\ toClient' \in [Players -> Seq(Msg)]
             /\ \A d \in Players : Items(toClient'[d]) \subseteq ToClientMsg(d)
      PROVE  NetTypes'
  BY <1>4, <1>5 DEF NetTypes, ToClientMsg
<1>6. CASE RelayPadData(c, m)
  <2>1. ServerTypes'
    BY <1>1, <1>6, TypeFrames DEF RelayPadData, serverVars, TypeInv
  <2>2. CASE toClient' = toClient
    BY <1>3, <1>5, <2>1, <2>2 DEF TypeInv, NetTypes
  <2>3. CASE SendToClients(server.m_players \ {c}, <<m>>)
    <3>1. /\ m \in Msg /\ m.type = "PadData" /\ m.value = c /\ m.input \in Input
      BY <1>2, <1>6 DEF RelayPadData, ToServerMsg
    <3>2. \A d \in Players \ {c} : m \in ToClientMsg(d)
      BY <3>1 DEF ToClientMsg
    <3>3. <<m>> \in Seq(Msg) /\ Items(<<m>>) = {m}
      BY <3>1, OneFacts
    <3>4. \A d \in (server.m_players \ {c}) \cap online : d \in Players \ {c}
      BY DEF TypeInv, ServerTypes
    <3> QED
      BY <1>3, <1>5, <2>1, <2>3, <3>2, <3>3, <3>4, SendType DEF TypeInv
  <2> QED
    BY <1>6, <2>2, <2>3 DEF RelayPadData
<1>7. CASE ClientStarted(c, m)
  <2>1. /\ m.value \in 0..MaxGames /\ current_game' = [current_game EXCEPT ![c] = m.value]
        /\ UNCHANGED <<server, toClient>>
    BY <1>2, <1>7 DEF ClientStarted, ToServerMsg
  <2>2. ServerTypes'
    BY <1>1, <2>1 DEF TypeInv, ServerTypes
  <2> QED
    BY <1>3, <1>5, <2>1, <2>2 DEF TypeInv, NetTypes
<1>8. CASE ServerStopGame(c, m)
  <2>1. /\ SendToClients(server.m_players, <<Message("StopGame")>>)
        /\ server' = [server EXCEPT !.m_is_running = FALSE] /\ current_game' = current_game
    BY <1>8 DEF ServerStopGame
  <2>2. ServerTypes'
    BY <1>1, <2>1 DEF TypeInv, ServerTypes
  <2>3. Message("StopGame") \in Msg /\ Message("StopGame").type = "StopGame"
    BY MessageType DEF Kinds
  <2>4. /\ <<Message("StopGame")>> \in Seq(Msg)
        /\ \A d \in server.m_players \cap online : Items(<<Message("StopGame")>>) \subseteq ToClientMsg(d)
    BY <2>3, OneFacts DEF ToClientMsg
  <2> QED
    BY <1>3, <1>5, <2>1, <2>2, <2>4, SendType DEF TypeInv
<1>9. CASE OnDisconnect(c, m)
  <2> DEFINE left == server.m_pad_map \ {c}
             stop == server.m_is_running /\ c \in server.m_pad_map /\ c # 1
             ms == (IF stop THEN <<Message("DisableGame")>> ELSE << >>)
                   \o <<[Message("PadMapping") EXCEPT !.map = left]>>
  <2>1. /\ m.type = "Disconnect" /\ SendToClients(server.m_players, ms)
        /\ server' = [server EXCEPT !.m_is_running = server.m_is_running /\ ~ stop,
                                    !.m_players = server.m_players \ {c}, !.m_pad_map = left]
        /\ current_game' = current_game
    BY <1>9 DEF OnDisconnect
  <2>2. c \notin online /\ c # 1
    BY <1>2, <2>1 DEF ToServerMsg, TypeInv, ServerTypes
  <2>3. left \in SUBSET Players /\ 1 \in left /\ stop \in BOOLEAN
    BY <2>2 DEF TypeInv, ServerTypes
  <2>4. ServerTypes'
    <3>1. server' \in [m_current_game : 0..MaxGames, m_target_buffer_size : Sizes,
                       m_is_running : BOOLEAN, m_players : SUBSET Players, m_pad_map : SUBSET Players]
      BY <2>1, <2>3 DEF TypeInv, ServerTypes
    <3>2. server'.m_players = server.m_players \ {c} /\ server'.m_pad_map = left
      BY <2>1 DEF TypeInv, ServerTypes
    <3> QED
      BY <1>1, <2>1, <2>2, <2>3, <3>1, <3>2 DEF TypeInv, ServerTypes
  <2>5. ms \in Seq(Msg) /\ \A x \in Items(ms) : \A d \in Players : x \in ToClientMsg(d)
    <3> DEFINE a == IF stop THEN <<Message("DisableGame")>> ELSE << >>
               b == [Message("PadMapping") EXCEPT !.map = left]
    <3>1. /\ Message("DisableGame") \in Msg /\ Message("DisableGame").type = "DisableGame"
          /\ b \in Msg /\ b.type = "PadMapping" /\ b.map = left
      BY <2>3, MessageType, MapType DEF Kinds
    <3>2. \A d \in Players : Message("DisableGame") \in ToClientMsg(d) /\ b \in ToClientMsg(d)
      BY <2>3, <3>1 DEF ToClientMsg
    <3> HIDE DEF b
    <3>3. a \in Seq(Msg) /\ Items(a) \subseteq {Message("DisableGame")}
      BY <3>1, OneFacts, EmptyFacts
    <3>4. <<b>> \in Seq(Msg) /\ Items(<<b>>) = {b}
      BY <3>1, OneFacts
    <3> HIDE DEF a
    <3>5. a \o <<b>> \in Seq(Msg) /\ Items(a \o <<b>>) = Items(a) \cup Items(<<b>>)
      <4>1. a \in Seq(Msg) /\ <<b>> \in Seq(Msg)
        BY <3>3, <3>4
      <4>2. a \o <<b>> \in Seq(Msg)
        BY <4>1, CatFacts
      <4>3. Items(a \o <<b>>) = Items(a) \cup Items(<<b>>)
        BY <4>1, CatItems
      <4> QED
        BY <4>2, <4>3
    <3>6. ms = a \o <<b>>
      BY DEF a, b
    <3> QED
      BY <3>2, <3>3, <3>4, <3>5, <3>6
  <2> HIDE DEF ms
  <2>6. \A d \in server.m_players \cap online : Items(ms) \subseteq ToClientMsg(d)
    BY <2>5 DEF TypeInv, ServerTypes
  <2> QED
    BY <1>3, <1>5, <2>1, <2>4, <2>5, <2>6, SendType DEF TypeInv
<1> QED
  BY <1>1, <1>6, <1>7, <1>8, <1>9

LEMMA TypeInvServer ==
  ASSUME TypeInv,
         ServerFlushes \/ ServerStartGame \/ (\E size \in Sizes : AdjustPadBufferSize(size))
           \/ \E c \in Players : Disconnect(c)
  PROVE  TypeInv'
<1>1. ClientTypes' /\ CoreTypes'
  <2>1. UNCHANGED <<clientVars, guiVars, coreVars, history>>
    BY DEF ServerFlushes, ServerStartGame, AdjustPadBufferSize, Disconnect
  <2> QED
    BY <2>1, TypeFrames DEF TypeInv, clientVars
<1>2. CASE ServerFlushes
  <2>1. /\ SendToClients(server.m_players, m_async_queue) /\ m_async_queue' = << >>
        /\ UNCHANGED <<server, current_game, events, toServer, online>>
    BY <1>2 DEF ServerFlushes
  <2>2. ServerTypes'
    BY <2>1, EmptyFacts DEF TypeInv, ServerTypes
  <2>3. \A d \in Players : AsyncMsg \subseteq ToClientMsg(d)
    BY DEF AsyncMsg, ToClientMsg
  <2>4. m_async_queue \in Seq(Msg) /\ \A d \in server.m_players \cap online : Items(m_async_queue) \subseteq ToClientMsg(d)
    BY <2>3 DEF TypeInv, ServerTypes
  <2>5. /\ toClient' \in [Players -> Seq(Msg)]
        /\ \A c \in Players : Items(toClient'[c]) \subseteq ToClientMsg(c)
    BY <2>1, <2>4, SendType
  <2>6. NetTypes'
    BY <2>1, <2>5 DEF TypeInv, NetTypes, ToServerMsg, ToClientMsg
  <2> QED
    BY <1>1, <2>2, <2>6 DEF TypeInv
<1>3. ASSUME NEW msg \in AsyncMsg, m_async_queue' = Append(m_async_queue, msg)
      PROVE  m_async_queue' \in Seq(Msg) /\ Items(m_async_queue') \subseteq AsyncMsg
  <2>1. msg \in Msg /\ m_async_queue \in Seq(Msg) /\ Items(m_async_queue) \subseteq AsyncMsg
    BY DEF AsyncMsg, TypeInv, ServerTypes
  <2>2. m_async_queue' = m_async_queue \o <<msg>>
    BY <1>3, <2>1
  <2>3. <<msg>> \in Seq(Msg) /\ Items(<<msg>>) = {msg}
    BY <2>1, OneFacts
  <2>4. /\ m_async_queue \o <<msg>> \in Seq(Msg)
        /\ Items(m_async_queue \o <<msg>>) = Items(m_async_queue) \cup Items(<<msg>>)
    BY ZenonT(40), <2>1, <2>3, CatFacts, CatItems
  <2> QED
    BY <2>1, <2>2, <2>3, <2>4
<1>4. CASE ServerStartGame
  <2> DEFINE g == server.m_current_game + 1
             z == server.m_target_buffer_size
             msg == [Message("StartGame") EXCEPT !.value = g, !.size = z]
  <2>1. /\ server.m_current_game < MaxGames /\ m_async_queue' = Append(m_async_queue, msg)
        /\ server' = [server EXCEPT !.m_current_game = g, !.m_is_running = TRUE]
        /\ UNCHANGED <<current_game, netVars>>
    BY <1>4 DEF ServerStartGame
  <2>2. z \in Sizes /\ g \in 1..MaxGames
    <3>1. server.m_current_game \in 0..MaxGames /\ z \in Sizes
      BY DEF TypeInv, ServerTypes
    <3> QED
      BY <2>1, <3>1, NetPlayAssumption
  <2> HIDE DEF g, z
  <2>3. "StartGame" \in Kinds /\ g \in Nat /\ z \in Nat
    <3>1. g \in Nat /\ z \in Nat
      BY <2>2, NetPlayAssumption
    <3> QED
      BY <3>1 DEF Kinds
  <2>4. msg \in AsyncMsg
    BY ZenonT(40), <2>2, <2>3, SizeType DEF AsyncMsg
  <2> HIDE DEF msg
  <2>5. server' \in [m_current_game : 0..MaxGames, m_target_buffer_size : Sizes,
                     m_is_running : BOOLEAN, m_players : SUBSET Players, m_pad_map : SUBSET Players]
    <3>1. g \in 0..MaxGames
      BY <2>2, NetPlayAssumption
    <3> QED
      BY <2>1, <3>1 DEF TypeInv, ServerTypes
  <2>6. server'.m_players = server.m_players /\ server'.m_pad_map = server.m_pad_map
    BY <2>1 DEF TypeInv, ServerTypes
  <2>7. ServerTypes'
    BY <1>3, <2>1, <2>4, <2>5, <2>6 DEF TypeInv, ServerTypes, netVars
  <2> QED
    BY <1>1, <2>1, <2>7, TypeFrames DEF TypeInv
<1>5. CASE \E size \in Sizes : AdjustPadBufferSize(size)
  <2>1. PICK size \in Sizes : AdjustPadBufferSize(size)
    BY <1>5
  <2> DEFINE msg == [Message("PadBuffer") EXCEPT !.size = size]
  <2>2. /\ m_async_queue' = Append(m_async_queue, msg)
        /\ server' = [server EXCEPT !.m_target_buffer_size = size]
        /\ UNCHANGED <<current_game, netVars>>
    BY <2>1 DEF AdjustPadBufferSize
  <2>3. "PadBuffer" \in Kinds /\ size \in Nat
    BY NetPlayAssumption DEF Kinds
  <2>4. msg \in AsyncMsg
    BY ZenonT(40), <2>3, SizeType DEF AsyncMsg
  <2> HIDE DEF msg
  <2>5. ServerTypes'
    BY <1>3, <2>2, <2>4 DEF TypeInv, ServerTypes, netVars
  <2> QED
    BY <1>1, <2>2, <2>5, TypeFrames DEF TypeInv
<1>6. CASE \E c \in Players : Disconnect(c)
  <2>1. PICK c \in Players : Disconnect(c)
    BY <1>6
  <2>2. /\ c # 1 /\ online' = online \ {c}
        /\ toServer' = [toServer EXCEPT ![c] = <<Message("Disconnect")>>]
        /\ toClient' = [toClient EXCEPT ![c] = <<Message("Disconnect")>>]
        /\ UNCHANGED <<server, current_game, m_async_queue>>
    BY <2>1 DEF Disconnect
  <2>3. ServerTypes'
    BY <2>2 DEF TypeInv, ServerTypes
  <2>4. Message("Disconnect") \in Msg /\ Message("Disconnect").type = "Disconnect"
    BY MessageType DEF Kinds
  <2>5. <<Message("Disconnect")>> \in Seq(Msg) /\ Items(<<Message("Disconnect")>>) = {Message("Disconnect")}
    BY <2>4, OneFacts
  <2>6. Message("Disconnect") \in ToServerMsg(c)' /\ Message("Disconnect") \in ToClientMsg(c)
    BY <2>2, <2>4 DEF ToServerMsg, ToClientMsg
  <2>7. \A d \in Players : ToServerMsg(d) \subseteq ToServerMsg(d)' /\ ToClientMsg(d)' = ToClientMsg(d)
    BY <2>2 DEF ToServerMsg, ToClientMsg
  <2>8. toServer' \in [Players -> Seq(Msg)] /\ toClient' \in [Players -> Seq(Msg)]
    BY <2>2, <2>5 DEF TypeInv, NetTypes
  <2>9. ASSUME NEW d \in Players
        PROVE  Items(toServer'[d]) \subseteq ToServerMsg(d)' /\ Items(toClient'[d]) \subseteq ToClientMsg(d)'
    <3>1. CASE d = c
      BY <2>2, <2>5, <2>6, <2>7, <3>1 DEF TypeInv, NetTypes
    <3>2. CASE d # c
      BY <2>2, <2>7, <3>2 DEF TypeInv, NetTypes
    <3> QED
      BY <3>1, <3>2
  <2>10. NetTypes'
    BY <2>8, <2>9 DEF NetTypes
  <2> QED
    BY <1>1, <2>3, <2>10 DEF TypeInv
<1> QED
  BY <1>2, <1>4, <1>5, <1>6

LEMMA TypeInvNext == TypeInv /\ [Next]_vars => TypeInv'
<1> SUFFICES ASSUME TypeInv, [Next]_vars PROVE TypeInv'
  OBVIOUS
<1>1. CASE UNCHANGED vars
  BY <1>1, TypeFrames DEF TypeInv, vars, clientVars, netVars
<1>2. CASE ServerStep
  BY <1>2, TypeInvServerReceives, TypeInvServer DEF ServerStep
<1>3. CASE Users
  BY <1>3, TypeInvStop, TypeInvServer DEF Users
<1>4. ASSUME NEW c \in Players, CpuStep(c) PROVE TypeInv'
  BY <1>4, TypeInvPoll, TypeInvWaitEvent DEF CpuStep
<1>5. ASSUME NEW c \in Players, NetplayThread(c) PROVE TypeInv'
  BY <1>5, TypeInvClientReceives, TypeInvStopGame DEF NetplayThread
<1>6. ASSUME NEW c \in Players, GuiThread(c) PROVE TypeInv'
  BY <1>6, TypeInvStart, TypeInvPostedBoot, TypeInvStop, TypeInvCoreStop DEF GuiThread
<1> QED
  BY <1>1, <1>2, <1>3, <1>4, <1>5, <1>6 DEF Next, Threads

(* Client, server and network keep their types; so a CPU thread only waits    *)
(* for a pad while its core runs, and only pads of players are in the game.   *)
THEOREM TypeCorrect == Spec => []TypeOK
<1>1. Spec => []TypeInv
  BY TypeInvInit, TypeInvNext, PTL DEF Spec
<1> QED
  BY <1>1, TypeInvTypes, PTL

-----------------------------------------------------------------------------
(* What WakeUpComes says of one client.                                     *)
Wakes(c) ==
  cpu[c] = "wait" =>
    /\ m_pad_buffer[c][pad[c]] # << >> => m_gc_pad_event[c]
    /\ ~m_is_running[c] => m_gc_pad_event[c] \/ thread[c] = "set" \/ gui[c] = "set"

WakeInv == TypeInv /\ \A c \in Players : Wakes(c)

wakeVars(c) == <<cpu[c], m_pad_buffer[c], pad[c], m_gc_pad_event[c], m_is_running[c], thread[c], gui[c]>>

LEMMA WakesInit == Init => WakeInv
BY TypeInvInit DEF Init, WakeInv, Wakes

\* What a step leaves alone of a client.
LEMMA WakesFrame ==
  ASSUME NEW c \in Players, Wakes(c), UNCHANGED wakeVars(c)
  PROVE  Wakes(c)'
BY DEF Wakes, wakeVars

\* A step of client c touches no other client.
LEMMA WakesOthers ==
  ASSUME TypeInv, NEW c \in Players, NEW d \in Players \ {c}, Wakes(d),
         CpuStep(c) \/ NetplayThread(c) \/ GuiThread(c) \/ UserStops(c)
  PROVE  Wakes(d)'
<1>1. /\ cpu \in [Players -> {"run", "wait"}] /\ pad \in [Players -> Players]
      /\ m_pad_buffer \in [Players -> [Players -> Seq(Input)]]
      /\ m_gc_pad_event \in [Players -> BOOLEAN] /\ m_is_running \in [Players -> BOOLEAN]
      /\ thread \in [Players -> {"idle", "set", "disable"}]
      /\ gui \in [Players -> {"idle", "set", "coreStop", "enable", "clear"}]
  BY DEF TypeInv, CoreTypes, ClientTypes, GuiTypes
<1> USE <1>1 DEF wakeVars
<1>2. CASE Poll(c)
  BY <1>2, WakesFrame DEF Poll, Look, GetNetPadsReturns, CpuGoto, guiVars
<1>3. CASE WaitEvent(c)
  BY <1>3, WakesFrame DEF WaitEvent, Look, GetNetPadsReturns, CpuGoto, guiVars
<1>4. CASE StopGameSet(c)
  BY <1>4, WakesFrame DEF StopGameSet, ThreadGoto, guiVars, coreVars
<1>5. CASE StopGameDisable(c)
  BY <1>5, WakesFrame DEF StopGameDisable, ThreadGoto, coreVars
<1>6. CASE ClientReceives(c)
  <2>1. UNCHANGED <<gui, coreVars>>
    BY <1>6 DEF ClientReceives
  <2>2. /\ m_pad_buffer'[d] = m_pad_buffer[d] /\ m_gc_pad_event'[d] = m_gc_pad_event[d]
        /\ m_is_running'[d] = m_is_running[d] /\ thread'[d] = thread[d]
    BY <1>6 DEF ClientReceives, StartGameMessage, StopGameMessage, ConnectionLost, PadDataMessage,
                PadBufferMessage, PadMappingMessage, StopGame, ThreadGoto
  <2> QED
    BY <2>1, <2>2, WakesFrame DEF coreVars
<1>7. CASE PostedStart(c) \/ StartEnable(c) \/ StartClear(c)
  BY <1>7, WakesFrame DEF PostedStart, StartEnable, StartClear, GuiGoto, coreVars
<1>8. CASE PostedBoot(c)
  BY <1>8, WakesFrame DEF PostedBoot, Fresh, clientVars
<1>9. CASE PostedStop(c) \/ UserStops(c)
  BY <1>9, WakesFrame DEF PostedStop, UserStops, DoStop, GuiGoto, coreVars
<1>10. CASE StopSet(c)
  BY <1>10, WakesFrame DEF StopSet, GuiGoto, coreVars
<1>11. CASE CoreStop(c)
  BY <1>11, WakesFrame DEF CoreStop, Fresh, GuiGoto, clientVars
<1> QED
  BY <1>2, <1>3, <1>4, <1>5, <1>6, <1>7, <1>8, <1>9, <1>10, <1>11
     DEF CpuStep, NetplayThread, GuiThread

\* A CPU thread only waits after it saw that there is no input and that the game runs.
LEMMA WakesLook ==
  ASSUME TypeInv, NEW c \in Players, NEW b, Look(c, b), m_is_running' = m_is_running
  PROVE  Wakes(c)'
<1>1. cpu \in [Players -> {"run", "wait"}] /\ m_pad_buffer \in [Players -> [Players -> Seq(Input)]]
  BY DEF TypeInv, CoreTypes
<1>2. CASE b[pad[c]] = << >> /\ m_is_running[c]
  <2>1. m_pad_buffer'[c] = b /\ pad' = pad
    BY <1>1, <1>2 DEF Look
  <2> QED
    BY <1>2, <2>1 DEF Wakes
<1>3. CASE ~ (b[pad[c]] = << >> /\ m_is_running[c])
  <2>1. cpu'[c] = "run"
    BY <1>1, <1>3 DEF Look, GetNetPadsReturns, CpuGoto
  <2> QED
    BY <2>1 DEF Wakes
<1> QED
  BY <1>2, <1>3

\* A step of client c itself.
LEMMA WakesSelf ==
  ASSUME TypeInv, NEW c \in Players, Wakes(c),
         CpuStep(c) \/ NetplayThread(c) \/ GuiThread(c) \/ UserStops(c)
  PROVE  Wakes(c)'
<1>1. /\ m_gc_pad_event \in [Players -> BOOLEAN] /\ m_is_running \in [Players -> BOOLEAN]
      /\ thread \in [Players -> {"idle", "set", "disable"}]
      /\ gui \in [Players -> {"idle", "set", "coreStop", "enable", "clear"}]
      /\ m_pad_buffer \in [Players -> [Players -> Seq(Input)]]
      /\ pad \in [Players -> Players]
      /\ cpu[c] = "wait" => running[c]
      /\ cpu[c] \in {"run", "wait"}
  BY DEF TypeInv, CoreTypes, ClientTypes, GuiTypes, Active
<1>2. CASE Poll(c)
  BY <1>2, WakesLook DEF Poll
<1>3. CASE WaitEvent(c)
  BY <1>3, WakesLook DEF WaitEvent
<1>4. CASE StopGameSet(c)
  BY <1>1, <1>4 DEF StopGameSet, Wakes
<1>5. CASE StopGameDisable(c)
  BY <1>5 DEF StopGameDisable, HoldsCrit, coreVars, Wakes
<1>6. CASE ClientReceives(c)
  <2> DEFINE m == Head(toClient[c])
  <2>1. /\ UNCHANGED <<gui, cpu, pad>> /\ thread[c] = "idle"
        /\ \/ StartGameMessage(c, m) \/ StopGameMessage(c, m) \/ ConnectionLost(c, m)
           \/ PadDataMessage(c, m) \/ PadBufferMessage(c, m) \/ PadMappingMessage(c, m)
    BY <1>6 DEF ClientReceives, coreVars
  <2> HIDE DEF m
  <2>2. CASE StopGameMessage(c, m)
    <3>1. thread'[c] = "set" /\ UNCHANGED <<m_pad_buffer, m_gc_pad_event>>
      BY <1>1, <2>2 DEF StopGameMessage, StopGame, ThreadGoto
    <3> QED
      BY <2>1, <3>1 DEF Wakes
  <2>3. CASE PadDataMessage(c, m)
    <3>1. m_gc_pad_event'[c] = TRUE
      BY <1>1, <2>3 DEF PadDataMessage
    <3> QED
      BY <3>1 DEF Wakes
  <2>4. CASE \/ StartGameMessage(c, m) \/ ConnectionLost(c, m)
             \/ PadBufferMessage(c, m) \/ PadMappingMessage(c, m)
    <3>1. UNCHANGED <<m_pad_buffer, m_gc_pad_event, m_is_running, thread>>
      BY <2>4 DEF StartGameMessage, ConnectionLost, PadBufferMessage, PadMappingMessage
    <3> QED
      BY <2>1, <3>1 DEF Wakes
  <2> QED
    BY <2>1, <2>2, <2>3, <2>4
<1>7. CASE PostedStart(c)
  <2>1. /\ UNCHANGED <<cpu, pad, m_pad_buffer, m_gc_pad_event, thread>>
        /\ gui[c] = "idle"
        /\ m_is_running'[c]
    BY <1>1, <1>7 DEF PostedStart, Handle, coreVars
  <2> QED
    BY <2>1 DEF Wakes
<1>8. CASE StartEnable(c)
  BY <1>1, <1>8 DEF StartEnable, HoldsCrit, coreVars, Wakes
<1>9. CASE StartClear(c)
  <2>1. /\ UNCHANGED <<cpu, pad, m_gc_pad_event, m_is_running, thread>>
        /\ gui[c] = "clear"
        /\ m_pad_buffer'[c][pad[c]] = << >>
    BY <1>1, <1>9 DEF StartClear, coreVars
  <2> QED
    BY <2>1 DEF Wakes
<1>10. CASE PostedBoot(c)
  <2>1. \/ UNCHANGED <<cpu, pad, m_pad_buffer, m_gc_pad_event, m_is_running, thread, gui>>
        \/ ~ running[c] /\ cpu' = cpu
    BY <1>10 DEF PostedBoot, clientVars
  <2> QED
    BY <1>1, <2>1 DEF Wakes
<1>11. CASE PostedStop(c) \/ UserStops(c)
  <2>1. UNCHANGED <<cpu, pad, m_pad_buffer, m_gc_pad_event, thread>> /\ gui[c] = "idle" /\ DoStop(c)
    BY <1>11 DEF PostedStop, UserStops, Handle, coreVars
  <2>2. \/ m_is_running'[c] = m_is_running[c]
        \/ m_is_running[c] /\ gui'[c] = "set"
    <3>1. CASE ~ running[c]
      BY <2>1, <3>1 DEF DoStop
    <3>2. CASE running[c]
      <4>1. /\ m_is_running' = [m_is_running EXCEPT ![c] = FALSE]
            /\ gui' = [gui EXCEPT ![c] = IF m_is_running[c] THEN "set" ELSE "coreStop"]
        BY <2>1, <3>2 DEF DoStop, GuiGoto
      <4> QED
        BY <1>1, <4>1
    <3> QED
      BY <3>1, <3>2
  <2> QED
    BY <2>1, <2>2 DEF Wakes
<1>12. CASE StopSet(c)
  BY <1>1, <1>12 DEF StopSet, Wakes
<1>13. CASE CoreStop(c)
  BY <1>13 DEF CoreStop, Wakes
<1> QED
  BY <1>2, <1>3, <1>4, <1>5, <1>6, <1>7, <1>8, <1>9, <1>10, <1>11, <1>12, <1>13
     DEF CpuStep, NetplayThread, GuiThread

LEMMA WakesNext == WakeInv /\ [Next]_vars => WakeInv'
<1> SUFFICES ASSUME WakeInv, [Next]_vars PROVE WakeInv'
  OBVIOUS
<1>1. TypeInv /\ TypeInv'
  BY TypeInvNext DEF WakeInv
<1>2. SUFFICES ASSUME NEW d \in Players PROVE Wakes(d)'
  BY <1>1 DEF WakeInv
<1>3. Wakes(d)
  BY DEF WakeInv
<1>4. ASSUME UNCHANGED <<clientVars, guiVars, coreVars>> PROVE Wakes(d)'
  BY <1>3, <1>4, WakesFrame DEF clientVars, guiVars, coreVars, wakeVars
<1>5. CASE UNCHANGED vars
  BY <1>4, <1>5 DEF vars
<1>6. CASE ServerStep
  BY <1>4, <1>6 DEF ServerStep, ServerFlushes, ServerReceives
<1>7. CASE ServerStartGame \/ (\E size \in Sizes : AdjustPadBufferSize(size)) \/ \E c \in Players : Disconnect(c)
  BY <1>4, <1>7 DEF ServerStartGame, AdjustPadBufferSize, Disconnect
<1>8. ASSUME NEW c \in Players, CpuStep(c) \/ NetplayThread(c) \/ GuiThread(c) \/ UserStops(c)
      PROVE  Wakes(d)'
  <2>1. CASE d = c
    BY <1>1, <1>3, <1>8, <2>1, WakesSelf
  <2>2. CASE d # c
    BY <1>1, <1>3, <1>8, <2>2, WakesOthers
  <2> QED
    BY <2>1, <2>2
<1> QED
  BY <1>5, <1>6, <1>7, <1>8 DEF Next, Threads, Users

(* A CPU thread that waits in GetNetPads has seen every input that has come   *)
(* and every stop of its game, or is about to be woken: what the netplay      *)
(* thread and the GUI thread do between its look at the buffer and at         *)
(* m_is_running and its Wait() is not lost, also if a message overtook a      *)
(* start.                                                                     *)
THEOREM WakeUpCorrect == Spec => []WakeUpComes
<1>1. WakeInv => WakeUpComes
  BY DEF WakeInv, Wakes, WakeUpComes
<1> QED
  BY <1>1, WakesInit, WakesNext, PTL DEF Spec

=============================================================================
