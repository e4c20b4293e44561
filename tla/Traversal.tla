------------------------------ MODULE Traversal ------------------------------
(***************************************************************************)
(* NAT traversal for netplay: TraversalClient, the central server in       *)
(* TraversalServer.cpp, and the part of NetPlayClient that waits for them. *)
(* A host registers under a code; a joiner asks the server for that code;  *)
(* the server asks the host to punch a hole towards the joiner and passes  *)
(* the host's answer on.  Everything runs over UDP: a packet is resent a   *)
(* few times until it is acknowledged.                                     *)
(*                                                                         *)
(* The network is the set of all packets ever sent: a packet in it may be  *)
(* received late, out of order, many times or never.                       *)
(***************************************************************************)
EXTENDS Naturals, FiniteSets, Functions

CONSTANTS Hosts, Joiners,    \* traversal clients, each named by its address
          Server, None,      \* the server's name; no address
          ServerTries,       \* NUMBER_OF_TRIES
          ClientTries,       \* the 5 of HandleResends
          HostIds,           \* the codes the server draws from
          MaxSends,          \* bound: packets a client creates
          MaxIntake,         \* bound: requests the server takes in
          MaxForgets         \* bound: restarts of the server and expired codes

Clients == Hosts \cup Joiners

\* Where a joiner can be that is not told a host's address.
NotReady == {"NotStarted", "Failure", "WaitingForTraversalClientConnection",
             "WaitingForTraversalClientConnectReady"}

ASSUME TraversalAssumption ==
    /\ Hosts \cap Joiners = {}
    /\ Server \notin Clients /\ None \notin Clients \cup HostIds
    /\ Clients \cap NotReady = {}
    /\ ServerTries \in Nat \ {0} /\ ClientTries \in Nat \ {0}
    /\ MaxSends \in Nat /\ MaxIntake \in Nat /\ MaxForgets \in Nat

VARIABLES
    \* TraversalClient, one per client
    m_State,                     \* Off, Connecting, Connected or a FailureReason
    m_HostId,                    \* the code this client was given
    m_PendingConnect,
    m_ConnectRequestId,
    m_OutgoingTraversalPackets,  \* a set of [packet, tries]
    sends,                       \* packets created so far: their request ids
    \* NetPlayClient, one per joiner
    m_host_spec,                 \* the code the user typed in
    m_connection_state,
    \* the server
    outgoingPackets,             \* a set of [packet, misc, tries]
    connectedClients,            \* code -> address
    allocated, taken, forgets,   \* packets created, requests taken, and how
                                 \* often something was forgotten
    spinning,                    \* it looks for an unused code for ever
    \* the network
    toServer, toClient,
    isIPV6,                      \* joiners the server sees at an IPv6 address
    \* history
    owner,                       \* code -> the address that last got it
    forgotten,                   \* codes that expired or died with the server
    punched,                     \* <<h, j>>: h sent j a datagram
    owed                         \* requests this server still has to answer

clientVars == <<m_State, m_HostId, m_PendingConnect, m_ConnectRequestId,
                m_OutgoingTraversalPackets, sends>>
joinVars   == <<m_host_spec, m_connection_state>>
serverVars == <<outgoingPackets, connectedClients, allocated, taken, forgets,
                spinning>>
history    == <<owner, forgotten, punched, owed>>
vars == <<clientVars, joinVars, serverVars, toServer, toClient, isIPV6, history>>

-----------------------------------------------------------------------------
(* Packets.  requestId names the packet; an acknowledgement carries the     *)
(* requestId it acknowledges.  peer is the client at the other end.         *)

RequestIds == [by : Clients \cup {Server}, n : Nat]
NoRequest  == [by |-> Server, n |-> 0]

Blank(type, id, peer) ==
    [type |-> type, requestId |-> id, peer |-> peer, hostId |-> None,
     address |-> None, request |-> NoRequest, ok |-> TRUE]

Ack(id, peer, ok) == [Blank("Ack", id, peer) EXCEPT !.ok = ok]

Types == {"Ack", "Ping", "HelloFromClient", "ConnectPlease"}
           \cup {"HelloFromServer", "PleaseSendPacket", "ConnectReady",
                 "NoSuchClient", "ClientFailure", "ClientDidntRespond"}

\* ConnectFailed, told apart by its reason.
ConnectFailed == {"NoSuchClient", "ClientFailure", "ClientDidntRespond"}

Packets == [type : Types, requestId : RequestIds, peer : Clients,
            hostId : HostIds \cup {None}, address : Clients \cup {None},
            request : RequestIds, ok : BOOLEAN]

FailureReasons == {"ServerForgotAboutUs", "ResendTimeout"}
Failed(c) == m_State[c] \in FailureReasons

Init ==
    /\ m_State = [c \in Clients |-> "Off"]
    /\ m_HostId = [c \in Clients |-> None]
    /\ m_PendingConnect = [c \in Clients |-> FALSE]
    /\ m_ConnectRequestId = [c \in Clients |-> NoRequest]
    /\ m_OutgoingTraversalPackets = [c \in Clients |-> {}]
    /\ sends = [c \in Clients |-> 0]
    /\ m_host_spec = [j \in Joiners |-> None]
    /\ m_connection_state = [j \in Joiners |-> "NotStarted"]
    /\ outgoingPackets = {} /\ connectedClients = << >>
    /\ allocated = 0 /\ taken = 0 /\ forgets = 0 /\ spinning = FALSE
    /\ toServer = {} /\ toClient = {}
    /\ isIPV6 \in SUBSET Joiners
    /\ owner = {} /\ forgotten = {} /\ punched = {} /\ owed = {}

-----------------------------------------------------------------------------
(* The server.  One iteration of its loop handles at most one packet and    *)
(* then runs ResendPackets; which packets are due is left open.             *)

Outgoing(packet, misc) == [packet |-> packet, misc |-> misc, tries |-> 0]

ServerId(k) == [by |-> Server, n |-> allocated + k]

NewPacket(type, peer) == Blank(type, ServerId(1), peer)

\* Packets tried before whose time to be tried again has come.
Tried == {info \in outgoingPackets : info.tries > 0}

\* Variant: one try too many.
GivenUp_Late(due) == {info \in due : info.tries > ServerTries}

GivenUp(due) == {info \in due : info.tries >= ServerTries}

\* Variant: a PleaseSendPacket that is given up is only forgotten.
GiveUpFailures_None(givenUp, alloc) == {}

\* A ConnectFailed for every PleaseSendPacket given up; it is first sent in
\* the next iteration.
GiveUpFailures(givenUp, alloc) ==
    LET please == {info \in givenUp : info.packet.type = "PleaseSendPacket"}
        Rank(info) == Cardinality({other \in please :
                          other.packet.requestId.n <= info.packet.requestId.n})
    IN  {Outgoing([Blank("ClientDidntRespond",
                         [by |-> Server, n |-> alloc + Rank(info)],
                         info.packet.address) EXCEPT !.request = info.misc],
                  NoRequest) : info \in please}

\* HandlePacket has left "out" behind and answers "acks"; it took the requests
\* "asked" in.
Finish(out, alloc, acks, asked, due) ==
    LET givenUp  == GivenUp(due)
        sending  == {info \in out : info.tries = 0} \cup (due \ givenUp)
        failures == GiveUpFailures(givenUp, alloc)
    IN  /\ outgoingPackets' =
             (out \ (sending \cup givenUp))
               \cup {[info EXCEPT !.tries = @ + 1] : info \in sending}
               \cup failures
        /\ allocated' = alloc + Cardinality(failures)
        /\ toClient' = toClient \cup acks
                         \cup {info.packet : info \in sending}
        /\ owed' = (owed \cup asked) \ {info.packet.request : info \in sending}
        /\ UNCHANGED <<clientVars, joinVars, forgets, spinning, toServer,
                       punched>>

\* Variant: an acknowledgement is taken for success.
Relay_Any(p, info) ==
    [NewPacket("ConnectReady", info.packet.address)
       EXCEPT !.request = info.misc, !.address = info.packet.peer]

\* An acknowledged PleaseSendPacket is relayed back as ConnectReady, a refused
\* one as ConnectFailed.
Relay(p, info) ==
    LET joiner == info.packet.address
    IN  IF p.ok
        THEN [NewPacket("ConnectReady", joiner)
                EXCEPT !.request = info.misc, !.address = info.packet.peer]
        ELSE [NewPacket("ClientFailure", joiner) EXCEPT !.request = info.misc]

ServerAck(p) ==
    /\ p.type = "Ack"
    /\ LET acked  == {info \in outgoingPackets :
                          info.packet.requestId = p.requestId}
           relays == {Outgoing(Relay(p, info), NoRequest) : info \in
                          {i \in acked : i.packet.type = "PleaseSendPacket"}}
       IN  \E due \in SUBSET (Tried \ acked) :
             Finish((outgoingPackets \ acked) \cup relays,
                    allocated + Cardinality(relays), {}, {}, due)
    /\ UNCHANGED <<connectedClients, taken, owner, forgotten>>

ServerPing(p) ==
    /\ p.type = "Ping"
    /\ \E due \in SUBSET Tried :
         Finish(outgoingPackets, allocated,
                {Ack(p.requestId, p.peer, p.hostId \in DOMAIN connectedClients)},
                {}, due)
    /\ UNCHANGED <<connectedClients, taken, owner, forgotten>>

ServerHello(p) ==
    /\ p.type = "HelloFromClient"
    /\ taken < MaxIntake
    /\ taken' = taken + 1
    /\ \E hostId \in HostIds \ DOMAIN connectedClients, due \in SUBSET Tried :
         /\ connectedClients' = [h \in DOMAIN connectedClients \cup {hostId} |->
                                   IF h = hostId THEN p.peer
                                   ELSE connectedClients[h]]
         /\ owner' = owner \cup {<<hostId, p.peer>>}
         /\ Finish(outgoingPackets \cup
                     {Outgoing([NewPacket("HelloFromServer", p.peer)
                                  EXCEPT !.hostId = hostId], NoRequest)},
                   allocated + 1, {Ack(p.requestId, p.peer, TRUE)}, {}, due)
    /\ UNCHANGED forgotten

\* The code drawn is in use.  The loop around EvictFind draws no other and
\* does not read the clock: it never ends.
ServerHelloInUse(p) ==
    /\ p.type = "HelloFromClient"
    /\ DOMAIN connectedClients # {}
    /\ spinning' = TRUE
    /\ UNCHANGED <<clientVars, joinVars, outgoingPackets, connectedClients,
                   allocated, taken, forgets, toServer, toClient, history>>

\* Variant: packetOk is set as for a ping.
ServerConnectPlease_Refuses(p) ==
    /\ p.type = "ConnectPlease"
    /\ taken < MaxIntake
    /\ taken' = taken + 1
    /\ \E due \in SUBSET Tried :
         Finish(outgoingPackets \cup
                  {IF p.hostId \in DOMAIN connectedClients
                   THEN Outgoing([NewPacket("PleaseSendPacket",
                                            connectedClients[p.hostId])
                                    EXCEPT !.address = p.peer], p.requestId)
                   ELSE Outgoing([NewPacket("NoSuchClient", p.peer)
                                    EXCEPT !.request = p.requestId], NoRequest)},
                allocated + 1, {Ack(p.requestId, p.peer, p.hostId \in DOMAIN connectedClients)},
                {p.requestId}, due)
    /\ UNCHANGED <<connectedClients, owner, forgotten>>

ServerConnectPlease(p) ==
    /\ p.type = "ConnectPlease"
    /\ taken < MaxIntake
    /\ taken' = taken + 1
    /\ \E due \in SUBSET Tried :
         Finish(outgoingPackets \cup
                  {IF p.hostId \in DOMAIN connectedClients
                   THEN Outgoing([NewPacket("PleaseSendPacket",
                                            connectedClients[p.hostId])
                                    EXCEPT !.address = p.peer], p.requestId)
                   ELSE Outgoing([NewPacket("NoSuchClient", p.peer)
                                    EXCEPT !.request = p.requestId], NoRequest)},
                allocated + 1, {Ack(p.requestId, p.peer, TRUE)},
                {p.requestId}, due)
    /\ UNCHANGED <<connectedClients, owner, forgotten>>

\* No packet within 300 ms.
ServerIdle(due) ==
    /\ ~spinning
    /\ Finish(outgoingPackets, allocated, {}, {}, due)
    /\ UNCHANGED <<connectedClients, taken, owner, forgotten>>

\* 30 s without a ping from the client that holds the code.
Expire(hostId) ==
    /\ hostId \in DOMAIN connectedClients
    /\ forgets < MaxForgets
    /\ forgets' = forgets + 1
    /\ connectedClients' = Restrict(connectedClients,
                                    DOMAIN connectedClients \ {hostId})
    /\ forgotten' = forgotten \cup {hostId}
    /\ UNCHANGED <<clientVars, joinVars, outgoingPackets, allocated, taken,
                   spinning, toServer, toClient, owner,
                   punched, owed>>

\* Nothing the server knows is stored.
ServerRestart ==
    /\ forgets < MaxForgets
    /\ forgets' = forgets + 1
    /\ outgoingPackets' = {} /\ connectedClients' = << >> /\ spinning' = FALSE
    /\ forgotten' = forgotten \cup DOMAIN connectedClients
    /\ owed' = {}
    /\ UNCHANGED <<clientVars, joinVars, allocated, taken, toServer, toClient,
                   owner, punched>>

ServerReceives(p) ==
    /\ p \in toServer
    /\ ~spinning
    /\ \/ ServerAck(p) \/ ServerPing(p) \/ ServerHello(p)
       \/ ServerHelloInUse(p) \/ ServerConnectPlease(p)

-----------------------------------------------------------------------------
(* TraversalClient, and NetPlayClient's part of it.                         *)

Created(c, type, hostId) ==
    [Blank(type, [by |-> c, n |-> sends[c] + 1], c) EXCEPT !.hostId = hostId]

\* SendTraversalPacket: the packet goes out once and is kept for resending.
SendTraversalPacket(c, packet, acks) ==
    /\ sends[c] < MaxSends
    /\ sends' = [sends EXCEPT ![c] = @ + 1]
    /\ m_OutgoingTraversalPackets' =
         [m_OutgoingTraversalPackets EXCEPT
            ![c] = @ \cup {[packet |-> packet, tries |-> 1]}]
    /\ toServer' = toServer \cup {packet} \cup acks

\* The failing half of NetPlayClient::OnTraversalStateChanged: Disconnect.
JoinerFails(c) ==
    m_connection_state' =
      IF c \in Joiners THEN [m_connection_state EXCEPT ![c] = "Failure"]
      ELSE m_connection_state

\* EnsureTraversalClient, from the constructors of NetPlayServer and, with the
\* code the user was told, NetPlayClient.  A host listens on a fixed port, a
\* joiner that tries again has another address.
Start(c) ==
    /\ m_State[c] = "Off"
    /\ m_State' = [m_State EXCEPT ![c] = "Connecting"]
    /\ SendTraversalPacket(c, Created(c, "HelloFromClient", None), {})
    /\ \/ c \in Hosts /\ UNCHANGED joinVars
       \/ \E code \in owner :
            /\ c \in Joiners /\ sends[c] = 0 /\ code[2] \in Hosts
            /\ m_host_spec' = [m_host_spec EXCEPT ![c] = code[1]]
            /\ m_connection_state' = [m_connection_state EXCEPT
                 ![c] = "WaitingForTraversalClientConnection"]
    /\ UNCHANGED <<m_HostId, m_PendingConnect, m_ConnectRequestId, serverVars,
                   toClient, history>>

\* ReleaseTraversalClient: the netplay window is closed, or the program ends.
\* (A joiner that ends is one that does nothing any more.)
Release(c) ==
    /\ c \in Hosts /\ m_State[c] # "Off"
    /\ m_State' = [m_State EXCEPT ![c] = "Off"]
    /\ m_HostId' = [m_HostId EXCEPT ![c] = None]
    /\ m_PendingConnect' = [m_PendingConnect EXCEPT ![c] = FALSE]
    /\ m_OutgoingTraversalPackets' = [m_OutgoingTraversalPackets EXCEPT ![c] = {}]
    /\ UNCHANGED <<m_ConnectRequestId, sends, joinVars, serverVars, toServer,
                   toClient, history>>

\* The host's "Retry" button.
ReconnectToServer(c) ==
    /\ c \in Hosts /\ Failed(c)
    /\ m_State' = [m_State EXCEPT ![c] = "Connecting"]
    /\ SendTraversalPacket(c, Created(c, "HelloFromClient", None), {})
    /\ UNCHANGED <<m_HostId, m_PendingConnect, m_ConnectRequestId, joinVars,
                   serverVars, toClient, history>>

\* HandleResends and the HandlePing it ends with; "due" are the packets whose
\* time has come, "ping" says whether 500 ms have passed since the last ping.
HandleResends(c, due, ping) ==
    LET out  == m_OutgoingTraversalPackets[c]
        kept == (out \ due) \cup {[info EXCEPT !.tries = @ + 1] : info \in due}
        hello == Created(c, "Ping", m_HostId[c])
    IN
    /\ m_State[c] # "Off"
    /\ \/ /\ \E info \in due : info.tries >= ClientTries
          /\ ~ping
          /\ m_State' = [m_State EXCEPT ![c] = "ResendTimeout"]
          /\ m_OutgoingTraversalPackets' =
               [m_OutgoingTraversalPackets EXCEPT ![c] = {}]
          /\ JoinerFails(c)
          /\ UNCHANGED <<sends, toServer>>
       \/ /\ \A info \in due : info.tries < ClientTries
          /\ IF ping
             THEN /\ m_State[c] = "Connected" /\ sends[c] < MaxSends
                  /\ sends' = [sends EXCEPT ![c] = @ + 1]
                  /\ m_OutgoingTraversalPackets' =
                       [m_OutgoingTraversalPackets EXCEPT
                          ![c] = kept \cup {[packet |-> hello, tries |-> 1]}]
                  /\ toServer' = toServer \cup {hello}
             ELSE /\ m_OutgoingTraversalPackets' =
                       [m_OutgoingTraversalPackets EXCEPT ![c] = kept]
                  /\ UNCHANGED <<sends, toServer>>
          /\ UNCHANGED <<m_State, m_connection_state>>
    /\ UNCHANGED <<m_HostId, m_PendingConnect, m_ConnectRequestId, m_host_spec,
                   serverVars, toClient, history>>

\* A refused packet stays in the list.
ClientAck(c, p) ==
    /\ p.type = "Ack"
    /\ IF p.ok
       THEN /\ m_OutgoingTraversalPackets' =
                 [m_OutgoingTraversalPackets EXCEPT
                    ![c] = {info \in @ :
                              info.packet.requestId # p.requestId}]
            /\ UNCHANGED <<m_State, m_connection_state>>
       ELSE /\ m_State' = [m_State EXCEPT ![c] = "ServerForgotAboutUs"]
            /\ JoinerFails(c)
            /\ UNCHANGED m_OutgoingTraversalPackets
    /\ UNCHANGED <<m_HostId, m_PendingConnect, m_ConnectRequestId, sends,
                   m_host_spec, toServer, punched>>

\* The acknowledgement every handler of another packet ends with.
Acks(p, ok) == {Ack(p.requestId, p.peer, ok)}

HelloFromServer(c, p) ==
    /\ p.type = "HelloFromServer"
    /\ IF m_State[c] # "Connecting"
       THEN /\ toServer' = toServer \cup Acks(p, TRUE)
            /\ UNCHANGED <<clientVars, joinVars>>
       ELSE /\ m_HostId' = [m_HostId EXCEPT ![c] = p.hostId]
            /\ m_State' = [m_State EXCEPT ![c] = "Connected"]
            /\ \/ /\ c \in Joiners
                  /\ m_connection_state[c] = "WaitingForTraversalClientConnection"
                  /\ m_connection_state' = [m_connection_state EXCEPT
                       ![c] = "WaitingForTraversalClientConnectReady"]
                  /\ LET please == Created(c, "ConnectPlease", m_host_spec[c])
                     IN  /\ SendTraversalPacket(c, please, Acks(p, TRUE))
                         /\ m_ConnectRequestId' = [m_ConnectRequestId EXCEPT
                              ![c] = please.requestId]
                  /\ m_PendingConnect' = [m_PendingConnect EXCEPT ![c] = TRUE]
               \/ /\ c \in Joiners =>
                       m_connection_state[c] # "WaitingForTraversalClientConnection"
                  /\ toServer' = toServer \cup Acks(p, TRUE)
                  /\ UNCHANGED <<m_connection_state, m_ConnectRequestId, sends,
                                 m_PendingConnect, m_OutgoingTraversalPackets>>
            /\ UNCHANGED m_host_spec
    /\ UNCHANGED punched

\* ENet here has no IPv6: the hello is not sent and the answer is "not ok".
PleaseSendPacket(c, p) ==
    /\ p.type = "PleaseSendPacket"
    /\ punched' = IF p.address \in isIPV6 THEN punched
                  ELSE punched \cup {<<c, p.address>>}
    /\ toServer' = toServer \cup Acks(p, p.address \notin isIPV6)
    /\ UNCHANGED <<clientVars, joinVars>>

\* ConnectReady and ConnectFailed with the NetPlayClient callback they end in.
ConnectAnswer(c, p) ==
    /\ p.type \in ConnectFailed \cup {"ConnectReady"}
    /\ IF m_PendingConnect[c] /\ p.request = m_ConnectRequestId[c]
       THEN /\ m_PendingConnect' = [m_PendingConnect EXCEPT ![c] = FALSE]
            /\ m_connection_state' =
                 IF p.type \in ConnectFailed
                 THEN [m_connection_state EXCEPT ![c] = "Failure"]
                 ELSE IF m_connection_state[c] =
                           "WaitingForTraversalClientConnectReady"
                 THEN [m_connection_state EXCEPT ![c] = p.address]
                 ELSE m_connection_state
       ELSE UNCHANGED <<m_PendingConnect, m_connection_state>>
    /\ toServer' = toServer \cup Acks(p, TRUE)
    /\ UNCHANGED <<m_State, m_HostId, m_ConnectRequestId, sends, m_host_spec,
                   m_OutgoingTraversalPackets, punched>>

ClientReceives(c, p) ==
    /\ p \in toClient /\ p.peer = c
    /\ m_State[c] # "Off"
    /\ \/ ClientAck(c, p) \/ HelloFromServer(c, p)
       \/ PleaseSendPacket(c, p) \/ ConnectAnswer(c, p)
    /\ UNCHANGED <<serverVars, toClient, owner, forgotten, owed>>

-----------------------------------------------------------------------------
\* How a joiner is reached does not change.
Next ==
    /\ \/ \E p \in toServer : ServerReceives(p)
       \/ \E due \in SUBSET Tried : ServerIdle(due)
       \/ \E hostId \in HostIds : Expire(hostId)
       \/ ServerRestart
       \/ \E c \in Clients :
            \/ Start(c) \/ Release(c) \/ ReconnectToServer(c)
            \/ \E due \in SUBSET m_OutgoingTraversalPackets[c], ping \in BOOLEAN :
                 HandleResends(c, due, ping)
            \/ \E p \in toClient : ClientReceives(c, p)
    /\ UNCHANGED isIPV6

Spec == Init /\ [][Next]_vars

-----------------------------------------------------------------------------
(* Type correctness of the clients, the server and the network.  One         *)
(* conjunct per variable of TraversalClient.h and TraversalServer.cpp.       *)
TypeOK ==
    /\ m_State \in [Clients -> {"Off", "Connecting", "Connected"}
                                 \cup FailureReasons]
    /\ m_HostId \in [Clients -> HostIds \cup {None}]
    /\ m_PendingConnect \in [Clients -> BOOLEAN]
    /\ m_ConnectRequestId \in [Clients -> RequestIds]
    /\ m_OutgoingTraversalPackets \in
         [Clients -> SUBSET [packet : Packets, tries : 1 .. ClientTries]]
    /\ sends \in [Clients -> 0 .. MaxSends]
    /\ m_host_spec \in [Joiners -> HostIds \cup {None}]
    /\ m_connection_state \in [Joiners -> Clients \cup NotReady]
    /\ outgoingPackets \subseteq
         [packet : Packets, misc : RequestIds, tries : 0 .. ServerTries]
    /\ DOMAIN connectedClients \subseteq HostIds
    /\ \A h \in DOMAIN connectedClients : connectedClients[h] \in Clients
    /\ toServer \subseteq Packets /\ toClient \subseteq Packets
    /\ allocated \in Nat /\ taken \in 0 .. MaxIntake
    /\ forgets \in 0 .. MaxForgets /\ spinning \in BOOLEAN
    /\ isIPV6 \subseteq Joiners
    /\ owner \subseteq HostIds \X Clients /\ forgotten \subseteq HostIds
    /\ punched \subseteq Clients \X Clients /\ owed \subseteq RequestIds

(* "An ack implies success" (TraversalProto.h:22-24): a joiner that is told   *)
(* to connect is told the address that had the code it asked for, and that    *)
(* host has sent it a datagram, whatever the network did to the packets and   *)
(* however often the server restarted in between.                             *)
ReadyMeansPunched ==
    \A j \in Joiners : m_connection_state[j] \in Clients =>
        LET h == m_connection_state[j]
        IN  <<h, j>> \in punched /\ <<m_host_spec[j], h>> \in owner

(* A connected client is reachable under its code, and no client is told that *)
(* the server forgot it unless the server did: HelloFromServer, lookups and   *)
(* refused pings agree even when they arrive late or twice.                   *)
KnownOrForgotten ==
    \A c \in Clients :
        /\ m_State[c] = "Connected" =>
             \/ m_HostId[c] \in forgotten
             \/ /\ m_HostId[c] \in DOMAIN connectedClients
                /\ connectedClients[m_HostId[c]] = c
        /\ m_State[c] = "ServerForgotAboutUs" =>
             \E h \in forgotten : <<h, c>> \in owner

(* Every ConnectPlease the server has taken and not answered yet is kept in a *)
(* packet whose acknowledgement, refusal or last failed try leads to a        *)
(* ConnectReady or ConnectFailed with its requestId, so that the joiner is    *)
(* always answered, unless the server is restarted.                           *)
AnswerPending ==
    \A request \in owed :
        \E info \in outgoingPackets :
            \/ info.packet.type = "PleaseSendPacket" /\ info.misc = request
            \/ /\ info.packet.type \in ConnectFailed \cup {"ConnectReady"}
               /\ info.packet.request = request /\ info.tries = 0
=============================================================================
