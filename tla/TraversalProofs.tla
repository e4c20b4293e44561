--------------------------- MODULE TraversalProofs ---------------------------
(***************************************************************************)
(* Proofs about Traversal: type correctness; that a joiner is told only of *)
(* a host that has punched; that codes are lost only when the server       *)
(* forgets them; and that every request stays owed an answer.  Any number  *)
(* of hosts, joiners, codes, tries and packets.                            *)
(***************************************************************************)
EXTENDS Traversal, FiniteSetTheorems, TLAPS

\* What the server has in hand for a packet.
Infos == [packet : Packets, misc : RequestIds, tries : 0 .. ServerTries]

\* What the server has told clients, acknowledgements apart.
Told == {P \in toClient : P.type # "Ack"}

\* Client c has the code h, or had it before the server forgot it.
Known(h, c) == \/ h \in forgotten
               \/ h \in DOMAIN connectedClients /\ connectedClients[h] = c

\* Joiner j has typed in a code of client h.
AskedFor(j, h) == j \in Joiners /\ sends[j] > 0 /\ <<m_host_spec[j], h>> \in owner

\* What the server says is true and stays so.
Truthful(P) ==
    /\ P.type = "HelloFromServer" =>
         <<P.hostId, P.peer>> \in owner /\ Known(P.hostId, P.peer)
    /\ P.type = "PleaseSendPacket" => AskedFor(P.address, P.peer)
    /\ P.type = "ConnectReady" =>
         /\ AskedFor(P.peer, P.address)
         /\ <<P.address, P.peer>> \in punched
    /\ P.type = "Ack" /\ ~P.ok =>
         \E h \in forgotten : <<h, P.peer>> \in owner

\* So is what clients say.
Honest(P) ==
    /\ P.type = "ConnectPlease" =>
         P.peer \in Joiners /\ sends[P.peer] > 0 /\ P.hostId = m_host_spec[P.peer]
    /\ P.type = "Ping" => <<P.hostId, P.peer>> \in owner /\ Known(P.hostId, P.peer)
    /\ P.type = "Ack" =>
         \E Q \in Told :
            /\ Q.requestId = P.requestId
            /\ P.ok /\ Q.type = "PleaseSendPacket" =>
                 <<Q.peer, Q.address>> \in punched

\* The packets in hand, the number drawn last and what clients were told:
\* packets have numbers of their own, and one that was told has been tried.
Numbered(out, alloc, told) ==
    /\ out \subseteq Infos /\ IsFiniteSet(out) /\ alloc \in Nat
    /\ \A a \in out :
         /\ a.packet.requestId.by = Server /\ a.packet.requestId.n \in 1 .. alloc
         /\ a.packet.type # "Ack"
         /\ a.packet.type = "PleaseSendPacket" => a.packet.address \in Clients
    /\ \A P \in told :
         P.requestId.by = Server /\ P.requestId.n \in 1 .. alloc
    /\ \A a, b \in out : a.packet.requestId = b.packet.requestId => a = b
    /\ \A P, Q \in told : P.requestId = Q.requestId => P = Q
    /\ \A a \in out, Q \in told :
         a.packet.requestId = Q.requestId => a.packet = Q /\ a.tries > 0

NumberInv == Numbered(outgoingPackets, allocated, Told)

PacketInv == /\ \A a \in outgoingPackets : Truthful(a.packet)
             /\ \A P \in toClient : Truthful(P)
             /\ \A P \in toServer : Honest(P)

\* Client c has the code it was given; the server forgot one of its codes; a
\* host of the code that joiner c asked for has punched.
HasCode(c) == m_State[c] = "Connected" =>
                <<m_HostId[c], c>> \in owner /\ Known(m_HostId[c], c)

WasForgotten(c) == m_State[c] = "ServerForgotAboutUs" =>
                     \E h \in forgotten : <<h, c>> \in owner

Reached(c) == c \in Joiners /\ m_connection_state[c] \in Clients =>
                /\ AskedFor(c, m_connection_state[c])
                /\ <<m_connection_state[c], c>> \in punched

ClientInv == \A c \in Clients : HasCode(c) /\ WasForgotten(c) /\ Reached(c)

CodesOwned == \A h \in DOMAIN connectedClients : <<h, connectedClients[h]>> \in owner

\* A packet in hand that asks a host, or answers the joiner, for a request.
Asks(a, request) == a.packet.type = "PleaseSendPacket" /\ a.misc = request

Answers(a, request) == /\ a.packet.type \in ConnectFailed \cup {"ConnectReady"}
                       /\ a.packet.request = request /\ a.tries = 0

Answerable(requests, out) ==
    \A request \in requests : \E a \in out : Asks(a, request) \/ Answers(a, request)

IInv == TypeOK /\ NumberInv /\ PacketInv /\ ClientInv /\ CodesOwned

-----------------------------------------------------------------------------
(* Facts about packets.                                                      *)

LEMMA WithHostId ==
  ASSUME NEW type \in Types, NEW id \in RequestIds, NEW peer \in Clients,
         NEW hostId \in HostIds \cup {None}
  PROVE  LET P == [Blank(type, id, peer) EXCEPT !.hostId = hostId]
         IN  /\ P \in Packets /\ P.type = type /\ P.requestId = id
             /\ P.peer = peer /\ P.hostId = hostId
BY DEF Blank, Packets, NoRequest, RequestIds

LEMMA WithRequest ==
  ASSUME NEW type \in Types, NEW id \in RequestIds, NEW peer \in Clients,
         NEW request \in RequestIds
  PROVE  LET P == [Blank(type, id, peer) EXCEPT !.request = request]
         IN  /\ P \in Packets /\ P.type = type /\ P.requestId = id
             /\ P.peer = peer /\ P.request = request
BY DEF Blank, Packets, NoRequest, RequestIds

-----------------------------------------------------------------------------
(* The failures of a set of packets given up get ids that follow each other. *)

Pleases(G) == {info \in G : info.packet.type = "PleaseSendPacket"}

Below(G, x) == {y \in Pleases(G) :
                  y.packet.requestId.n <= x.packet.requestId.n}

Rank(G, x) == Cardinality(Below(G, x))

Failure(G, alloc, x) ==
    Outgoing([Blank("ClientDidntRespond",
                    [by |-> Server, n |-> alloc + Rank(G, x)],
                    x.packet.address) EXCEPT !.request = x.misc], NoRequest)

\* What GiveUpFailures is applied to.
GiveUp(G) ==
    /\ G \in SUBSET Infos /\ IsFiniteSet(G)
    /\ \A a \in G : a.packet.requestId.by = Server
    /\ \A a, b \in G : a.packet.requestId = b.packet.requestId => a = b
    /\ \A a \in Pleases(G) : a.packet.address \in Clients

LEMMA FailuresDef ==
  ASSUME NEW G, NEW alloc
  PROVE  GiveUpFailures(G, alloc) = {Failure(G, alloc, x) : x \in Pleases(G)}
BY DEF GiveUpFailures, Failure, Rank, Below, Pleases

LEMMA RankType ==
  ASSUME NEW G, GiveUp(G), NEW x \in Pleases(G)
  PROVE  /\ IsFiniteSet(Pleases(G)) /\ IsFiniteSet(Below(G, x))
         /\ Cardinality(Pleases(G)) \in Nat
         /\ Rank(G, x) \in Nat /\ Rank(G, x) >= 1
         /\ Rank(G, x) <= Cardinality(Pleases(G))
<1>1. Pleases(G) \in SUBSET G /\ Below(G, x) \in SUBSET Pleases(G)
  BY DEF Pleases, Below
<1>2. x \in Below(G, x)
  BY DEF Below, Pleases, GiveUp, Infos, Packets, RequestIds
<1>3. IsFiniteSet(Pleases(G))
  BY <1>1, FS_Subset DEF GiveUp
<1>4. IsFiniteSet(Below(G, x)) /\ Rank(G, x) <= Cardinality(Pleases(G))
  BY <1>1, <1>3, FS_Subset DEF Rank
<1>5. Cardinality(Pleases(G)) \in Nat /\ Rank(G, x) \in Nat
  BY <1>3, <1>4, FS_CardinalityType DEF Rank
<1>6. Rank(G, x) # 0
  BY <1>2, <1>4, FS_EmptySet DEF Rank
<1> QED
  BY <1>3, <1>4, <1>5, <1>6

LEMMA RankMonotone ==
  ASSUME NEW G, GiveUp(G), NEW x \in Pleases(G), NEW y \in Pleases(G),
         x.packet.requestId.n < y.packet.requestId.n
  PROVE  Rank(G, x) < Rank(G, y)
<1>1. \A z \in Pleases(G) : z.packet.requestId.n \in Nat
  BY DEF Pleases, GiveUp, Infos, Packets, RequestIds
<1>2. /\ Below(G, x) \in SUBSET Below(G, y)
      /\ y \in Below(G, y) /\ y \notin Below(G, x)
  BY <1>1 DEF Below
<1>3. IsFiniteSet(Below(G, y)) /\ Rank(G, x) \in Nat /\ Rank(G, y) \in Nat
  BY RankType
<1>4. Rank(G, x) <= Rank(G, y) /\ Rank(G, x) # Rank(G, y)
  BY <1>2, <1>3, FS_Subset DEF Rank
<1> QED
  BY <1>3, <1>4

LEMMA RankInjective ==
  ASSUME NEW G, GiveUp(G), NEW x \in Pleases(G), NEW y \in Pleases(G),
         Rank(G, x) = Rank(G, y)
  PROVE  x = y
<1>1. /\ x.packet.requestId \in RequestIds /\ y.packet.requestId \in RequestIds
      /\ x.packet.requestId.by = y.packet.requestId.by
      /\ x \in G /\ y \in G
  BY DEF Pleases, GiveUp, Infos, Packets
<1>2. x.packet.requestId.n \in Nat /\ y.packet.requestId.n \in Nat
  BY <1>1 DEF RequestIds
<1>3. Rank(G, x) \in Nat /\ Rank(G, y) \in Nat
  BY RankType
<1>4. x.packet.requestId.n = y.packet.requestId.n
  BY <1>2, <1>3, RankMonotone
<1>5. x.packet.requestId = y.packet.requestId
  BY <1>1, <1>4 DEF RequestIds
<1> QED
  BY <1>1, <1>5 DEF GiveUp

LEMMA FailureIs ==
  ASSUME NEW G, GiveUp(G), NEW alloc \in Nat, NEW x \in Pleases(G)
  PROVE  LET f == Failure(G, alloc, x)
         IN  /\ f \in Infos
             /\ f.packet.type = "ClientDidntRespond" /\ f.tries = 0
             /\ f.packet.requestId.by = Server
             /\ f.packet.requestId.n = alloc + Rank(G, x)
             /\ f.packet.request = x.misc
<1> DEFINE id == [by |-> Server, n |-> alloc + Rank(G, x)]
           failed == [Blank("ClientDidntRespond", id, x.packet.address)
                        EXCEPT !.request = x.misc]
<1>1. alloc + Rank(G, x) \in Nat
  BY RankType
<1>2. /\ id \in RequestIds /\ x.packet.address \in Clients
      /\ x.misc \in RequestIds /\ NoRequest \in RequestIds
  BY <1>1 DEF RequestIds, GiveUp, Pleases, Infos, NoRequest
<1>3. Failure(G, alloc, x) =
        [packet |-> failed, misc |-> NoRequest, tries |-> 0]
  BY DEF Failure, Outgoing
<1>4. 0 \in 0 .. ServerTries /\ "ClientDidntRespond" \in Types
  BY TraversalAssumption DEF Types
<1>5. id.by = Server /\ id.n = alloc + Rank(G, x)
  OBVIOUS
<1> HIDE DEF id
<1>6. /\ failed \in Packets /\ failed.type = "ClientDidntRespond"
      /\ failed.requestId = id /\ failed.request = x.misc
  BY <1>2, <1>4, WithRequest
<1> HIDE DEF failed
<1>7. Failure(G, alloc, x) \in Infos
  BY <1>2, <1>3, <1>4, <1>6 DEF Infos
<1> QED
  BY <1>3, <1>5, <1>6, <1>7

LEMMA FailureIds ==
  ASSUME NEW G, GiveUp(G), NEW alloc \in Nat
  PROVE  LET F == GiveUpFailures(G, alloc)
         IN  /\ F \subseteq Infos /\ IsFiniteSet(F) /\ Cardinality(F) \in Nat
             /\ \A f \in F :
                  /\ f.packet.type = "ClientDidntRespond" /\ f.tries = 0
                  /\ f.packet.requestId.by = Server
                  /\ f.packet.requestId.n \in alloc + 1 .. alloc + Cardinality(F)
             /\ \A f, g \in F : f.packet.requestId = g.packet.requestId => f = g
             /\ \A a \in Pleases(G) : \E f \in F : f.packet.request = a.misc
<1> DEFINE F == GiveUpFailures(G, alloc)
           fun == [x \in Pleases(G) |-> Failure(G, alloc, x)]
<1>1. F = {Failure(G, alloc, x) : x \in Pleases(G)}
  BY FailuresDef
<1> HIDE DEF F
<1>2. IsFiniteSet(Pleases(G))
  <2>1. Pleases(G) \in SUBSET G
    BY DEF Pleases
  <2> QED
    BY <2>1, FS_Subset DEF GiveUp
<1>3. ASSUME NEW x \in Pleases(G), NEW y \in Pleases(G),
             Failure(G, alloc, x).packet.requestId.n =
               Failure(G, alloc, y).packet.requestId.n
      PROVE  x = y
  <2>1. alloc + Rank(G, x) = alloc + Rank(G, y)
    <3>1. Failure(G, alloc, x).packet.requestId.n = alloc + Rank(G, x)
      BY FailureIs
    <3>2. Failure(G, alloc, y).packet.requestId.n = alloc + Rank(G, y)
      BY FailureIs
    <3> QED
      BY <1>3, <3>1, <3>2
  <2>2. Rank(G, x) \in Nat /\ Rank(G, y) \in Nat
    BY RankType
  <2>3. Rank(G, x) = Rank(G, y)
    BY <2>1, <2>2
  <2> QED
    BY <2>3, RankInjective
<1>4. fun \in Surjection(Pleases(G), F)
  BY <1>1 DEF Surjection
<1>5. fun \in Injection(Pleases(G), F)
  <2>1. fun \in [Pleases(G) -> F]
    BY <1>1
  <2>2. \A x, y \in Pleases(G) : fun[x] = fun[y] => x = y
    BY <1>3
  <2> QED
    BY <2>1, <2>2 DEF Injection, IsInjective
<1>6. IsFiniteSet(F) /\ Cardinality(F) = Cardinality(Pleases(G))
  BY <1>2, <1>4, <1>5, FS_Surjection
<1>7. Cardinality(F) \in Nat
  BY <1>6, FS_CardinalityType
<1>8. ASSUME NEW f \in F
      PROVE  /\ f \in Infos
             /\ f.packet.type = "ClientDidntRespond" /\ f.tries = 0
             /\ f.packet.requestId.by = Server
             /\ f.packet.requestId.n \in alloc + 1 .. alloc + Cardinality(F)
  <2>1. PICK x \in Pleases(G) : f = Failure(G, alloc, x)
    BY <1>1
  <2>2. /\ Rank(G, x) \in Nat /\ Rank(G, x) >= 1
        /\ Rank(G, x) <= Cardinality(F)
    BY <1>6, RankType
  <2>3. alloc + Rank(G, x) \in alloc + 1 .. alloc + Cardinality(F)
    BY <1>7, <2>2
  <2> QED
    BY <2>1, <2>3, FailureIs
<1>9. ASSUME NEW f \in F, NEW g \in F, f.packet.requestId = g.packet.requestId
      PROVE  f = g
  <2>1. PICK x \in Pleases(G), y \in Pleases(G) :
          f = Failure(G, alloc, x) /\ g = Failure(G, alloc, y)
    BY <1>1
  <2> QED
    BY <1>3, <1>9, <2>1
<1>10. \A a \in Pleases(G) : \E f \in F : f.packet.request = a.misc
  <2> SUFFICES ASSUME NEW a \in Pleases(G)
               PROVE  \E f \in F : f.packet.request = a.misc
    OBVIOUS
  <2>1. Failure(G, alloc, a) \in F /\ Failure(G, alloc, a).packet.request = a.misc
    BY <1>1, FailureIs
  <2> QED
    BY <2>1
<1> QED
  BY <1>6, <1>7, <1>8, <1>9, <1>10 DEF F

-----------------------------------------------------------------------------
(* Packets put in the server's hands and taken out.                          *)

LEMMA NumberedFewer ==
  ASSUME NEW out, NEW alloc, NEW told, Numbered(out, alloc, told),
         NEW rest \in SUBSET out
  PROVE  Numbered(rest, alloc, told)
<1>1. IsFiniteSet(rest)
  BY FS_Subset DEF Numbered
<1> QED
  BY <1>1 DEF Numbered

LEMMA NumberedMore ==
  ASSUME NEW out, NEW alloc, NEW told, Numbered(out, alloc, told),
         NEW info \in Infos,
         info.packet.requestId.by = Server,
         info.packet.requestId.n = alloc + 1,
         info.packet.type # "Ack",
         info.packet.type = "PleaseSendPacket" => info.packet.address \in Clients
  PROVE  Numbered(out \cup {info}, alloc + 1, told)
<1>1. IsFiniteSet(out \cup {info})
  BY FS_AddElement DEF Numbered
<1>2. alloc + 1 \in Nat /\ alloc + 1 \in 1 .. alloc + 1
  BY DEF Numbered
<1>3. \A n \in 1 .. alloc : n \in 1 .. alloc + 1 /\ n # alloc + 1
  BY DEF Numbered
<1>4. \A a \in out : a.packet.requestId # info.packet.requestId
  BY <1>3 DEF Numbered
<1>5. \A P \in told : P.requestId # info.packet.requestId
  BY <1>3 DEF Numbered
<1>6. \A a \in out \cup {info} :
        /\ a \in Infos
        /\ a.packet.requestId.by = Server /\ a.packet.requestId.n \in 1 .. alloc + 1
        /\ a.packet.type # "Ack"
        /\ a.packet.type = "PleaseSendPacket" => a.packet.address \in Clients
  BY <1>2, <1>3 DEF Numbered
<1>7. \A P \in told :
         P.requestId.by = Server /\ P.requestId.n \in 1 .. alloc + 1
  BY <1>3 DEF Numbered
<1>8. \A a, b \in out \cup {info} :
         a.packet.requestId = b.packet.requestId => a = b
  BY <1>4 DEF Numbered
<1>9. \A a \in out \cup {info}, Q \in told :
         a.packet.requestId = Q.requestId => a.packet = Q /\ a.tries > 0
  BY <1>5 DEF Numbered
<1> QED
  BY <1>1, <1>2, <1>6, <1>7, <1>8, <1>9 DEF Numbered

-----------------------------------------------------------------------------
(* ResendPackets.                                                            *)

Sending(out, due) == {info \in out : info.tries = 0} \cup (due \ GivenUp(due))

Again(info) == [info EXCEPT !.tries = @ + 1]

Resent(out, due) == {Again(info) : info \in Sending(out, due)}

Kept(out, due) == out \ (Sending(out, due) \cup GivenUp(due))

\* Where Finish starts from: the packets due have been tried.
Due(out, due) == due \in SUBSET out /\ \A info \in due : info.tries > 0

LEMMA FinishDef ==
  ASSUME NEW out, NEW alloc, NEW acks, NEW asked, NEW due,
         Finish(out, alloc, acks, asked, due)
  PROVE  LET F == GiveUpFailures(GivenUp(due), alloc)
         IN  /\ outgoingPackets' = Kept(out, due) \cup Resent(out, due) \cup F
             /\ allocated' = alloc + Cardinality(F)
             /\ toClient' = toClient \cup acks
                              \cup {info.packet : info \in Sending(out, due)}
             /\ owed' = (owed \cup asked)
                          \ {info.packet.request : info \in Sending(out, due)}
             /\ UNCHANGED <<clientVars, joinVars, forgets, spinning, toServer,
                            punched>>
BY DEF Finish, Kept, Resent, Sending, Again

LEMMA AgainIs ==
  ASSUME NEW info \in Infos, info.tries < ServerTries
  PROVE  /\ Again(info) \in Infos
         /\ Again(info).packet = info.packet /\ Again(info).misc = info.misc
         /\ Again(info).tries > 0
BY TraversalAssumption DEF Again, Infos

\* A packet sent has a try left, and those given up are as GiveUp wants them.
LEMMA SendingIs ==
  ASSUME NEW out, NEW alloc, NEW told, Numbered(out, alloc, told),
         NEW due, Due(out, due)
  PROVE  /\ \A info \in Sending(out, due) :
              info \in out /\ info \in Infos /\ info.tries < ServerTries
         /\ IsFiniteSet(Sending(out, due)) /\ IsFiniteSet(Kept(out, due))
         /\ GiveUp(GivenUp(due)) /\ GivenUp(due) \in SUBSET out
<1>1. /\ \A info \in out : info \in Infos /\ info.tries \in Nat
      /\ ServerTries \in Nat /\ ServerTries > 0
  BY TraversalAssumption DEF Numbered, Infos
<1>2. /\ Sending(out, due) \in SUBSET out /\ Kept(out, due) \in SUBSET out
      /\ GivenUp(due) \in SUBSET out
  BY DEF Sending, Kept, GivenUp, Due
<1>3. /\ IsFiniteSet(Sending(out, due)) /\ IsFiniteSet(Kept(out, due))
      /\ IsFiniteSet(GivenUp(due))
  BY <1>2, FS_Subset DEF Numbered
<1>4. GiveUp(GivenUp(due))
  BY <1>2, <1>3 DEF GiveUp, Pleases, Numbered
<1>5. \A info \in Sending(out, due) : info.tries < ServerTries
  BY <1>1, <1>2 DEF Sending, GivenUp, Due
<1> QED
  BY <1>1, <1>2, <1>3, <1>4, <1>5

\* A packet in hand afterwards was in hand before, and has been tried, or
\* tells a joiner that a host did not respond.
Carried(a, out) == \E b \in out : /\ b.packet = a.packet /\ b.misc = a.misc
                                  /\ a.tries > 0

Appended(a, alloc, last) ==
    /\ a.packet.type = "ClientDidntRespond" /\ a.tries = 0
    /\ a.packet.requestId.by = Server
    /\ a.packet.requestId.n \in alloc + 1 .. last

LEMMA FinishPackets ==
  ASSUME NEW out, NEW alloc, Numbered(out, alloc, Told),
         NEW due, Due(out, due),
         NEW acks, \A P \in acks : P.type = "Ack", NEW asked,
         Finish(out, alloc, acks, asked, due)
  PROVE  /\ outgoingPackets' \subseteq Infos /\ IsFiniteSet(outgoingPackets')
         /\ allocated' \in Nat /\ allocated' >= alloc
         /\ \A a \in outgoingPackets' :
              Carried(a, out) \/ Appended(a, alloc, allocated')
         /\ \A a, b \in outgoingPackets' :
              a.packet.requestId = b.packet.requestId => a = b
         /\ \A P \in Told' :
              \/ P \in Told
              \/ \E b \in out : /\ b.packet = P
                                /\ \E a \in outgoingPackets' : a.packet = P
<1> DEFINE F == GiveUpFailures(GivenUp(due), alloc)
<1>1. /\ outgoingPackets' = Kept(out, due) \cup Resent(out, due) \cup F
      /\ allocated' = alloc + Cardinality(F)
      /\ toClient' = toClient \cup acks
                       \cup {info.packet : info \in Sending(out, due)}
  BY FinishDef
<1>2. /\ F \subseteq Infos /\ IsFiniteSet(F) /\ Cardinality(F) \in Nat
      /\ \A f \in F : Appended(f, alloc, allocated')
      /\ \A f, g \in F : f.packet.requestId = g.packet.requestId => f = g
  <2>1. GiveUp(GivenUp(due)) /\ alloc \in Nat
    BY SendingIs DEF Numbered
  <2>2. /\ F \subseteq Infos /\ IsFiniteSet(F) /\ Cardinality(F) \in Nat
        /\ \A f \in F :
             /\ f.packet.type = "ClientDidntRespond" /\ f.tries = 0
             /\ f.packet.requestId.by = Server
             /\ f.packet.requestId.n \in alloc + 1 .. alloc + Cardinality(F)
        /\ \A f, g \in F : f.packet.requestId = g.packet.requestId => f = g
    BY <2>1, FailureIds
  <2> HIDE DEF F
  <2> QED
    BY <1>1, <2>2 DEF Appended
<1> HIDE DEF F
<1>3. \A i \in Sending(out, due) :
        /\ i \in out
        /\ Again(i) \in Resent(out, due) /\ Again(i) \in Infos
        /\ Again(i).packet = i.packet /\ Again(i).misc = i.misc
        /\ Again(i).tries > 0
  BY SendingIs, AgainIs DEF Resent
<1>4. IsFiniteSet(Resent(out, due))
  <2> DEFINE fun == [i \in Sending(out, due) |-> Again(i)]
  <2>1. fun \in Surjection(Sending(out, due), Resent(out, due))
    BY DEF Surjection, Resent
  <2> QED
    BY <2>1, SendingIs, FS_Surjection
<1>5. /\ outgoingPackets' \subseteq Infos /\ IsFiniteSet(outgoingPackets')
      /\ allocated' \in Nat /\ allocated' >= alloc
  <2>1. Resent(out, due) \subseteq Infos
    BY <1>3 DEF Resent
  <2>2. Kept(out, due) \subseteq Infos
    BY DEF Kept, Numbered
  <2>3. IsFiniteSet(Kept(out, due) \cup Resent(out, due) \cup F)
    BY <1>2, <1>4, SendingIs, FS_Union
  <2> QED
    BY <1>1, <1>2, <2>1, <2>2, <2>3 DEF Numbered
<1>6. \A a \in Kept(out, due) :
        a \in out /\ a.tries > 0 /\ a \notin Sending(out, due)
  BY DEF Kept, Sending, Numbered, Infos
<1>7. \A a \in Resent(out, due) : \E i \in Sending(out, due) : a = Again(i)
  BY DEF Resent
<1>8. \A a \in Kept(out, due) \cup Resent(out, due) : Carried(a, out)
  BY <1>3, <1>6, <1>7 DEF Carried
<1>9. \A a, b \in Kept(out, due) \cup Resent(out, due) :
        a.packet.requestId = b.packet.requestId => a = b
  BY <1>3, <1>6, <1>7 DEF Numbered
<1>10. ASSUME NEW a \in Kept(out, due) \cup Resent(out, due), NEW f \in F
       PROVE  a.packet.requestId # f.packet.requestId
  <2>1. a.packet.requestId.n \in 1 .. alloc
    BY <1>8 DEF Carried, Numbered
  <2>2. f.packet.requestId.n \in alloc + 1 .. allocated'
    BY <1>2 DEF Appended
  <2> QED
    BY <1>5, <2>1, <2>2 DEF Numbered
<1>11. ASSUME NEW P \in Told', P \notin Told
       PROVE  \E b \in out : /\ b.packet = P
                             /\ \E a \in outgoingPackets' : a.packet = P
  <2>1. PICK i \in Sending(out, due) : P = i.packet
    BY <1>1, <1>11 DEF Told
  <2> QED
    BY <1>1, <1>3, <2>1
<1>12. \A a, b \in outgoingPackets' :
         a.packet.requestId = b.packet.requestId => a = b
  BY <1>1, <1>2, <1>9, <1>10
<1> QED
  BY <1>1, <1>2, <1>5, <1>8, <1>11, <1>12

LEMMA FinishNumbers ==
  ASSUME NEW out, NEW alloc, Numbered(out, alloc, Told),
         NEW due, Due(out, due),
         NEW acks, \A P \in acks : P.type = "Ack", NEW asked,
         Finish(out, alloc, acks, asked, due)
  PROVE  NumberInv'
<1>1. /\ outgoingPackets' \subseteq Infos /\ IsFiniteSet(outgoingPackets')
      /\ allocated' \in Nat /\ allocated' >= alloc /\ alloc \in Nat
  BY FinishPackets DEF Numbered
<1>2. \A a \in outgoingPackets' :
         Carried(a, out) \/ Appended(a, alloc, allocated')
  BY FinishPackets
<1>3. \A a, b \in outgoingPackets' :
         a.packet.requestId = b.packet.requestId => a = b
  BY FinishPackets
<1>4. \A P \in Told' :
         \/ P \in Told
         \/ \E b \in out : /\ b.packet = P
                           /\ \E a \in outgoingPackets' : a.packet = P
  BY FinishPackets
<1>5. \A n \in 1 .. alloc : n \in 1 .. allocated' /\ n \notin alloc + 1 .. allocated'
  BY <1>1
<1>6. \A n \in alloc + 1 .. allocated' : n \in 1 .. allocated'
  BY <1>1
<1>7. \A a \in outgoingPackets' :
        /\ a.packet.requestId.by = Server /\ a.packet.requestId.n \in 1 .. allocated'
        /\ a.packet.type # "Ack"
        /\ a.packet.type = "PleaseSendPacket" => a.packet.address \in Clients
  BY <1>2, <1>5, <1>6 DEF Numbered, Carried, Appended
<1>8. \A P \in Told' : P.requestId.by = Server /\ P.requestId.n \in 1 .. alloc
  BY <1>4 DEF Numbered
<1>9. \A P, Q \in Told' : P.requestId = Q.requestId => P = Q
  BY <1>4 DEF Numbered
<1>10. ASSUME NEW a \in outgoingPackets', NEW Q \in Told',
              a.packet.requestId = Q.requestId
       PROVE  a.packet = Q /\ a.tries > 0
  <2>1. ~Appended(a, alloc, allocated')
    BY <1>5, <1>8, <1>10 DEF Appended
  <2>2. PICK b \in out : b.packet = a.packet /\ a.tries > 0
    BY <1>2, <2>1 DEF Carried
  <2> QED
    BY <1>4, <1>10, <2>2 DEF Numbered
<1> QED
  BY <1>1, <1>3, <1>5, <1>7, <1>8, <1>9, <1>10 DEF NumberInv, Numbered

-----------------------------------------------------------------------------
(* What was true stays true: nothing that happened is undone.                *)

Grows ==
    /\ owner \subseteq owner' /\ forgotten \subseteq forgotten'
    /\ punched \subseteq punched' /\ toClient \subseteq toClient'
    /\ \A h, c : Known(h, c) => Known(h, c)'
    /\ \A j \in Joiners : sends[j] > 0 =>
         sends'[j] > 0 /\ m_host_spec'[j] = m_host_spec[j]

LEMMA AskedForStays ==
  ASSUME Grows, NEW j, NEW h, AskedFor(j, h)
  PROVE  AskedFor(j, h)'
BY DEF AskedFor, Grows

LEMMA TruthfulStays ==
  ASSUME Grows, NEW P, Truthful(P)
  PROVE  Truthful(P)'
<1>1. P.type = "HelloFromServer" =>
        <<P.hostId, P.peer>> \in owner' /\ Known(P.hostId, P.peer)'
  BY DEF Truthful, Grows
<1>2. P.type = "PleaseSendPacket" => AskedFor(P.address, P.peer)'
  BY AskedForStays DEF Truthful
<1>3. P.type = "ConnectReady" => /\ AskedFor(P.peer, P.address)'
                                 /\ <<P.address, P.peer>> \in punched'
  BY AskedForStays DEF Truthful, Grows
<1>4. P.type = "Ack" /\ ~P.ok => \E h \in forgotten' : <<h, P.peer>> \in owner'
  BY DEF Truthful, Grows
<1> QED
  BY <1>1, <1>2, <1>3, <1>4 DEF Truthful

LEMMA HonestStays ==
  ASSUME Grows, NEW P, Honest(P)
  PROVE  Honest(P)'
<1>1. P.type = "ConnectPlease" =>
        P.peer \in Joiners /\ sends'[P.peer] > 0 /\ P.hostId = m_host_spec'[P.peer]
  BY DEF Honest, Grows
<1>2. P.type = "Ping" => <<P.hostId, P.peer>> \in owner' /\ Known(P.hostId, P.peer)'
  BY DEF Honest, Grows
<1>3. Told \subseteq Told'
  BY DEF Told, Grows
<1>4. P.type = "Ack" =>
         \E Q \in Told' :
            /\ Q.requestId = P.requestId
            /\ P.ok /\ Q.type = "PleaseSendPacket" =>
                 <<Q.peer, Q.address>> \in punched'
  BY <1>3 DEF Honest, Grows
<1> QED
  BY <1>1, <1>2, <1>4 DEF Honest

LEMMA HasCodeStays ==
  ASSUME Grows, NEW c, HasCode(c),
         m_State'[c] = m_State[c], m_HostId'[c] = m_HostId[c]
  PROVE  HasCode(c)'
BY DEF HasCode, Known, Grows

LEMMA WasForgottenStays ==
  ASSUME Grows, NEW c, WasForgotten(c), m_State'[c] = m_State[c]
  PROVE  WasForgotten(c)'
BY DEF WasForgotten, Grows

LEMMA ReachedStays ==
  ASSUME Grows, NEW c, Reached(c),
         c \in Joiners => m_connection_state'[c] = m_connection_state[c]
  PROVE  Reached(c)'
BY DEF Reached, AskedFor, Grows

LEMMA ClientStays ==
  ASSUME Grows, ClientInv, UNCHANGED <<m_State, m_HostId, m_connection_state>>
  PROVE  ClientInv'
BY HasCodeStays, WasForgottenStays, ReachedStays DEF ClientInv

\* What the server has in hand and what it sends is true again.
LEMMA FinishTruth ==
  ASSUME NEW out, NEW alloc, Numbered(out, alloc, Told),
         NEW due, Due(out, due),
         NEW acks, \A P \in acks : P.type = "Ack" /\ Truthful(P)', NEW asked,
         Finish(out, alloc, acks, asked, due), Grows,
         \A a \in out : Truthful(a.packet)', PacketInv
  PROVE  PacketInv'
<1>1. ASSUME NEW a \in outgoingPackets'
      PROVE  Truthful(a.packet)'
  <2>1. CASE Carried(a, out)
    BY <2>1 DEF Carried
  <2>2. CASE Appended(a, alloc, allocated')
    BY <2>2 DEF Appended, Truthful
  <2> QED
    BY <2>1, <2>2, FinishPackets
<1>2. ASSUME NEW P \in toClient'
      PROVE  Truthful(P)'
  <2>1. CASE P \in toClient
    BY <2>1, TruthfulStays DEF PacketInv
  <2>2. CASE P \in acks
    BY <2>2
  <2>3. CASE \E b \in out : b.packet = P
    BY <2>3
  <2> QED
    BY <2>1, <2>2, <2>3, FinishDef, SendingIs
<1>3. ASSUME NEW P \in toServer'
      PROVE  Honest(P)'
  BY HonestStays, FinishDef DEF PacketInv
<1> QED
  BY <1>1, <1>2, <1>3 DEF PacketInv

-----------------------------------------------------------------------------
(* A handler of the server that ends in Finish keeps the invariant.          *)

CodeTypes ==
    /\ DOMAIN connectedClients \subseteq HostIds
    /\ \A h \in DOMAIN connectedClients : connectedClients[h] \in Clients
    /\ taken \in 0 .. MaxIntake
    /\ owner \subseteq HostIds \X Clients /\ forgotten \subseteq HostIds

LEMMA FinishTypes ==
  ASSUME TypeOK, NEW out, NEW alloc, Numbered(out, alloc, Told),
         NEW due, Due(out, due),
         NEW acks \in SUBSET Packets, \A P \in acks : P.type = "Ack",
         NEW asked \in SUBSET RequestIds,
         Finish(out, alloc, acks, asked, due), CodeTypes', isIPV6' = isIPV6
  PROVE  TypeOK'
<1>1. outgoingPackets' \subseteq Infos /\ allocated' \in Nat
  BY FinishPackets
<1>2. toClient' \subseteq Packets
  <2>1. \A info \in Sending(out, due) : info.packet \in Packets
    BY SendingIs DEF Infos
  <2> QED
    BY <2>1, FinishDef DEF TypeOK
<1>3. owed' \subseteq RequestIds
  BY FinishDef DEF TypeOK
<1>4. UNCHANGED <<clientVars, joinVars, forgets, spinning, toServer, punched,
                  isIPV6>>
  BY FinishDef
<1> QED
  BY <1>1, <1>2, <1>3, <1>4
     DEF TypeOK, CodeTypes, Infos, clientVars, joinVars

LEMMA FinishInv ==
  ASSUME IInv, NEW out, NEW alloc, Numbered(out, alloc, Told),
         NEW due, Due(out, due),
         NEW acks \in SUBSET Packets, \A P \in acks : P.type = "Ack" /\ Truthful(P)',
         NEW asked \in SUBSET RequestIds,
         Finish(out, alloc, acks, asked, due), CodeTypes', isIPV6' = isIPV6,
         Grows, \A a \in out : Truthful(a.packet)', CodesOwned'
  PROVE  IInv'
<1>1. TypeOK'
  BY FinishTypes DEF IInv
<1>2. NumberInv'
  BY FinishNumbers
<1>3. PacketInv'
  BY FinishTruth DEF IInv
<1>4. ClientInv'
  BY ClientStays, FinishDef DEF IInv, clientVars, joinVars
<1> QED
  BY <1>1, <1>2, <1>3, <1>4 DEF IInv

\* A handler that leaves the codes alone.
LEMMA SameCodes ==
  ASSUME IInv, UNCHANGED <<connectedClients, owner, forgotten>>,
         taken' \in 0 .. MaxIntake
  PROVE  /\ CodeTypes' /\ CodesOwned'
         /\ \A h, c : Known(h, c) => Known(h, c)'
BY DEF IInv, TypeOK, CodeTypes, CodesOwned, Known

LEMMA FinishGrows ==
  ASSUME NEW out, NEW alloc, NEW acks, NEW asked, NEW due,
         Finish(out, alloc, acks, asked, due),
         owner \subseteq owner', forgotten \subseteq forgotten',
         \A h, c : Known(h, c) => Known(h, c)'
  PROVE  Grows
<1>1. UNCHANGED <<clientVars, joinVars, punched>> /\ toClient \subseteq toClient'
  BY FinishDef
<1> QED
  BY <1>1 DEF Grows, clientVars, joinVars

\* Packets in hand stay true.
LEMMA OldTruth ==
  ASSUME IInv, Grows
  PROVE  \A a \in outgoingPackets : Truthful(a.packet)'
BY TruthfulStays DEF IInv, PacketInv

LEMMA AckIs ==
  ASSUME NEW id \in RequestIds, NEW peer \in Clients, NEW ok \in BOOLEAN
  PROVE  /\ Ack(id, peer, ok) \in Packets
         /\ Ack(id, peer, ok).type = "Ack" /\ Ack(id, peer, ok).requestId = id
         /\ Ack(id, peer, ok).peer = peer /\ Ack(id, peer, ok).ok = ok
BY DEF Ack, Blank, Packets, Types, NoRequest, RequestIds

\* The acknowledgement of a request that is taken in.
LEMMA AckTrue ==
  ASSUME NEW p \in Packets, NEW Q \in {Ack(p.requestId, p.peer, TRUE)}
  PROVE  Q \in Packets /\ Q.type = "Ack" /\ Truthful(Q)'
<1>1. Q = Ack(p.requestId, p.peer, TRUE) /\ TRUE \in BOOLEAN
  OBVIOUS
<1>2. p.requestId \in RequestIds /\ p.peer \in Clients
  BY DEF Packets
<1>3. Q \in Packets /\ Q.type = "Ack" /\ Q.ok = TRUE
  BY <1>1, <1>2, AckIs
<1> QED
  BY <1>3 DEF Truthful

LEMMA ServerIdleInv ==
  ASSUME IInv, NEW due \in SUBSET Tried, ServerIdle(due), isIPV6' = isIPV6
  PROVE  IInv'
<1>1. /\ Finish(outgoingPackets, allocated, {}, {}, due)
      /\ UNCHANGED <<connectedClients, taken, owner, forgotten>>
  BY DEF ServerIdle
<1>2. Due(outgoingPackets, due)
  BY DEF Due, Tried
<1>3. CodeTypes' /\ CodesOwned' /\ Grows
  BY <1>1, SameCodes, FinishGrows DEF IInv, TypeOK
<1>4. \A a \in outgoingPackets : Truthful(a.packet)'
  BY <1>3, OldTruth
<1> QED
  BY <1>1, <1>2, <1>3, <1>4, FinishInv DEF IInv, NumberInv

LEMMA ServerPingInv ==
  ASSUME IInv, NEW p \in toServer, ServerPing(p), isIPV6' = isIPV6
  PROVE  IInv'
<1> DEFINE ok == p.hostId \in DOMAIN connectedClients
           acks == {Ack(p.requestId, p.peer, ok)}
<1>1. PICK due \in SUBSET Tried :
        Finish(outgoingPackets, allocated, acks, {}, due)
  BY DEF ServerPing
<1>2. p.type = "Ping" /\ UNCHANGED <<connectedClients, taken, owner, forgotten>>
  BY DEF ServerPing
<1>3. Due(outgoingPackets, due)
  BY DEF Due, Tried
<1>4. CodeTypes' /\ CodesOwned' /\ Grows
  BY <1>1, <1>2, SameCodes, FinishGrows DEF IInv, TypeOK
<1>5. /\ p.requestId \in RequestIds /\ p.peer \in Clients
      /\ <<p.hostId, p.peer>> \in owner /\ Known(p.hostId, p.peer)
  BY <1>2 DEF IInv, TypeOK, Packets, PacketInv, Honest
<1>6. \A P \in acks : P \in Packets /\ P.type = "Ack" /\ Truthful(P)'
  <2> SUFFICES ASSUME NEW P \in acks
               PROVE  P \in Packets /\ P.type = "Ack" /\ Truthful(P)'
    OBVIOUS
  <2>1. ~ok => \E h \in forgotten' : <<h, p.peer>> \in owner'
    BY <1>2, <1>5 DEF Known
  <2>2. P = Ack(p.requestId, p.peer, ok) /\ ok \in BOOLEAN
    OBVIOUS
  <2> HIDE DEF ok
  <2>3. P \in Packets /\ P.type = "Ack" /\ P.peer = p.peer /\ P.ok = ok
    BY <1>5, <2>2, AckIs
  <2> QED
    BY <2>1, <2>2, <2>3 DEF Truthful
<1>7. \A a \in outgoingPackets : Truthful(a.packet)'
  BY <1>4, OldTruth
<1> QED
  BY <1>1, <1>3, <1>4, <1>6, <1>7, FinishInv DEF IInv, NumberInv

\* The packets a handler creates.
LEMMA NewIs ==
  ASSUME NumberInv, NEW P \in Packets, NEW misc \in RequestIds,
         P.requestId = ServerId(1), P.type # "Ack",
         P.type = "PleaseSendPacket" => P.address \in Clients
  PROVE  /\ Outgoing(P, misc) \in Infos /\ Outgoing(P, misc).packet = P
         /\ Outgoing(P, misc).misc = misc /\ Outgoing(P, misc).tries = 0
         /\ Numbered(outgoingPackets \cup {Outgoing(P, misc)}, allocated + 1, Told)
<1>1. /\ Outgoing(P, misc) \in Infos /\ Outgoing(P, misc).packet = P
      /\ Outgoing(P, misc).misc = misc /\ Outgoing(P, misc).tries = 0
  BY TraversalAssumption DEF Outgoing, Infos
<1>2. P.requestId.by = Server /\ P.requestId.n = allocated + 1
  BY DEF ServerId
<1> QED
  BY <1>1, <1>2, NumberedMore DEF NumberInv

LEMMA NewIdType ==
  ASSUME NumberInv
  PROVE  ServerId(1) \in RequestIds /\ NoRequest \in RequestIds
<1>1. allocated + 1 \in Nat
  BY DEF NumberInv, Numbered
<1> QED
  BY <1>1 DEF ServerId, NoRequest, RequestIds

LEMMA ServerHelloDef ==
  ASSUME IInv, NEW p \in toServer, ServerHello(p)
  PROVE  \E info \in Infos, hostId \in HostIds \ DOMAIN connectedClients,
            due \in SUBSET Tried :
         /\ connectedClients' = [h \in DOMAIN connectedClients \cup {hostId} |->
                                   IF h = hostId THEN p.peer
                                   ELSE connectedClients[h]]
         /\ owner' = owner \cup {<<hostId, p.peer>>}
         /\ info.packet.type = "HelloFromServer"
         /\ info.packet.peer = p.peer /\ info.packet.hostId = hostId
         /\ Numbered(outgoingPackets \cup {info}, allocated + 1, Told)
         /\ Finish(outgoingPackets \cup {info}, allocated + 1,
                   {Ack(p.requestId, p.peer, TRUE)}, {}, due)
<1> DEFINE P(h) == [NewPacket("HelloFromServer", p.peer) EXCEPT !.hostId = h]
<1>1. PICK hostId \in HostIds \ DOMAIN connectedClients, due \in SUBSET Tried :
         /\ connectedClients' = [h \in DOMAIN connectedClients \cup {hostId} |->
                                   IF h = hostId THEN p.peer
                                   ELSE connectedClients[h]]
         /\ owner' = owner \cup {<<hostId, p.peer>>}
         /\ Finish(outgoingPackets \cup {Outgoing(P(hostId), NoRequest)},
                   allocated + 1, {Ack(p.requestId, p.peer, TRUE)}, {}, due)
  BY DEF ServerHello
<1>2. p.peer \in Clients /\ "HelloFromServer" \in Types
  BY DEF IInv, TypeOK, Packets, Types
<1>3. /\ P(hostId) \in Packets /\ P(hostId).type = "HelloFromServer"
      /\ P(hostId).requestId = ServerId(1) /\ P(hostId).peer = p.peer
      /\ P(hostId).hostId = hostId
  BY <1>2, NewIdType, WithHostId DEF IInv, NewPacket
<1> HIDE DEF P
<1>4. PICK info \in Infos :
        /\ info = Outgoing(P(hostId), NoRequest)
        /\ info.packet = P(hostId)
        /\ Numbered(outgoingPackets \cup {info}, allocated + 1, Told)
  BY <1>3, NewIs, NewIdType DEF IInv
<1> QED
  BY <1>1, <1>3, <1>4

LEMMA ServerHelloInv ==
  ASSUME IInv, NEW p \in toServer, ServerHello(p), isIPV6' = isIPV6
  PROVE  IInv'
<1>1. PICK info \in Infos, hostId \in HostIds \ DOMAIN connectedClients,
           due \in SUBSET Tried :
         /\ connectedClients' = [h \in DOMAIN connectedClients \cup {hostId} |->
                                   IF h = hostId THEN p.peer
                                   ELSE connectedClients[h]]
         /\ owner' = owner \cup {<<hostId, p.peer>>}
         /\ info.packet.type = "HelloFromServer"
         /\ info.packet.peer = p.peer /\ info.packet.hostId = hostId
         /\ Numbered(outgoingPackets \cup {info}, allocated + 1, Told)
         /\ Finish(outgoingPackets \cup {info}, allocated + 1,
                   {Ack(p.requestId, p.peer, TRUE)}, {}, due)
  BY ServerHelloDef
<1>2. taken' \in 0 .. MaxIntake /\ forgotten' = forgotten
  BY TraversalAssumption DEF ServerHello, IInv, TypeOK
<1>3. p \in Packets /\ p.peer \in Clients
  BY DEF IInv, TypeOK, Packets
<1>4. CodeTypes' /\ CodesOwned' /\ \A h, c : Known(h, c) => Known(h, c)'
  BY <1>1, <1>2, <1>3 DEF IInv, TypeOK, CodeTypes, CodesOwned, Known
<1>5. Grows
  BY <1>1, <1>2, <1>4, FinishGrows
<1>6. Due(outgoingPackets \cup {info}, due)
  BY DEF Due, Tried
<1>7. Truthful(info.packet)'
  <2>1. <<hostId, p.peer>> \in owner' /\ Known(hostId, p.peer)'
    BY <1>1 DEF Known
  <2> QED
    BY <1>1, <2>1 DEF Truthful
<1>8. \A a \in outgoingPackets \cup {info} : Truthful(a.packet)'
  BY <1>5, <1>7, OldTruth
<1>9. \A Q \in {Ack(p.requestId, p.peer, TRUE)} :
        Q \in Packets /\ Q.type = "Ack" /\ Truthful(Q)'
  BY <1>3, AckTrue
<1>10. /\ {Ack(p.requestId, p.peer, TRUE)} \in SUBSET Packets
       /\ {} \in SUBSET RequestIds
  BY <1>9
<1>11. isIPV6' = isIPV6 /\ CodeTypes' /\ CodesOwned'
  BY <1>4
<1> QED
  BY <1>1, <1>5, <1>6, <1>8, <1>9, <1>10, <1>11, FinishInv

LEMMA ServerHelloInUseInv ==
  ASSUME IInv, NEW p \in toServer, ServerHelloInUse(p), isIPV6' = isIPV6
  PROVE  IInv'
<1>1. /\ UNCHANGED <<clientVars, joinVars, outgoingPackets, connectedClients,
                     allocated, taken, forgets, toServer, toClient, history>>
      /\ spinning' = TRUE
  BY DEF ServerHelloInUse
<1>2. TypeOK'
  BY <1>1 DEF IInv, TypeOK, clientVars, joinVars, history
<1>3. NumberInv' /\ CodesOwned'
  BY <1>1 DEF IInv, NumberInv, Told, CodesOwned, history
<1>4. Grows
  BY <1>1 DEF Grows, Known, clientVars, joinVars, history
<1>5. PacketInv'
  BY <1>1, <1>4, TruthfulStays, HonestStays DEF IInv, PacketInv
<1>6. ClientInv'
  BY <1>1, <1>4, ClientStays DEF IInv, clientVars, joinVars
<1> QED
  BY <1>2, <1>3, <1>5, <1>6 DEF IInv

LEMMA ServerConnectPleaseDef ==
  ASSUME IInv, NEW p \in toServer, ServerConnectPlease(p)
  PROVE  \E info \in Infos, due \in SUBSET Tried :
         /\ Truthful(info.packet)
         /\ Asks(info, p.requestId) \/ Answers(info, p.requestId)
         /\ Numbered(outgoingPackets \cup {info}, allocated + 1, Told)
         /\ Finish(outgoingPackets \cup {info}, allocated + 1,
                   {Ack(p.requestId, p.peer, TRUE)}, {p.requestId}, due)
<1> DEFINE please == [NewPacket("PleaseSendPacket", connectedClients[p.hostId])
                        EXCEPT !.address = p.peer]
           nobody == [NewPacket("NoSuchClient", p.peer)
                        EXCEPT !.request = p.requestId]
<1>1. PICK due \in SUBSET Tried :
         Finish(outgoingPackets \cup
                  {IF p.hostId \in DOMAIN connectedClients
                   THEN Outgoing(please, p.requestId)
                   ELSE Outgoing(nobody, NoRequest)},
                allocated + 1, {Ack(p.requestId, p.peer, TRUE)},
                {p.requestId}, due)
  BY DEF ServerConnectPlease
<1>2. /\ p.requestId \in RequestIds /\ p.peer \in Clients
      /\ p.type = "ConnectPlease"
  BY DEF IInv, TypeOK, Packets, ServerConnectPlease
<1>3. PICK info \in Infos :
        /\ info = IF p.hostId \in DOMAIN connectedClients
                  THEN Outgoing(please, p.requestId)
                  ELSE Outgoing(nobody, NoRequest)
        /\ Truthful(info.packet)
        /\ Asks(info, p.requestId) \/ Answers(info, p.requestId)
        /\ Numbered(outgoingPackets \cup {info}, allocated + 1, Told)
  <2>1. CASE p.hostId \in DOMAIN connectedClients
    <3>1. connectedClients[p.hostId] \in Clients
      BY <2>1 DEF IInv, TypeOK
    <3>2. /\ please \in Packets /\ please.type = "PleaseSendPacket"
          /\ please.requestId = ServerId(1) /\ please.address = p.peer
          /\ please.peer = connectedClients[p.hostId]
      BY <1>2, <3>1, NewIdType
         DEF IInv, NewPacket, Blank, Packets, Types, NoRequest, RequestIds
    <3>3. AskedFor(p.peer, connectedClients[p.hostId])
      BY <1>2, <2>1 DEF IInv, PacketInv, Honest, CodesOwned, AskedFor
    <3> HIDE DEF please
    <3>4. PICK info \in Infos :
                      /\ info = Outgoing(please, p.requestId)
                      /\ info.packet = please /\ info.misc = p.requestId
                      /\ Numbered(outgoingPackets \cup {info}, allocated + 1, Told)
      BY <1>2, <3>2, NewIs DEF IInv
    <3>5. Truthful(info.packet) /\ Asks(info, p.requestId)
      BY <3>2, <3>3, <3>4 DEF Truthful, Asks
    <3> QED
      BY <2>1, <3>4, <3>5
  <2>2. CASE p.hostId \notin DOMAIN connectedClients
    <3>1. "NoSuchClient" \in Types
      BY DEF Types
    <3>2. /\ nobody \in Packets /\ nobody.type = "NoSuchClient"
          /\ nobody.requestId = ServerId(1) /\ nobody.request = p.requestId
      BY <1>2, <3>1, NewIdType, WithRequest DEF IInv, NewPacket
    <3> HIDE DEF nobody
    <3>3. PICK info \in Infos :
                      /\ info = Outgoing(nobody, NoRequest)
                      /\ info.packet = nobody /\ info.tries = 0
                      /\ Numbered(outgoingPackets \cup {info}, allocated + 1, Told)
      BY <3>2, NewIs, NewIdType DEF IInv
    <3>4. Truthful(info.packet) /\ Answers(info, p.requestId)
      BY <3>2, <3>3 DEF Truthful, Answers, ConnectFailed
    <3> QED
      BY <2>2, <3>3, <3>4
  <2> QED
    BY <2>1, <2>2
<1> HIDE DEF please, nobody
<1> QED
  BY <1>1, <1>3

LEMMA ServerConnectPleaseInv ==
  ASSUME IInv, NEW p \in toServer, ServerConnectPlease(p), isIPV6' = isIPV6
  PROVE  IInv'
<1>1. PICK info \in Infos, due \in SUBSET Tried :
         /\ Truthful(info.packet)
         /\ Numbered(outgoingPackets \cup {info}, allocated + 1, Told)
         /\ Finish(outgoingPackets \cup {info}, allocated + 1,
                   {Ack(p.requestId, p.peer, TRUE)}, {p.requestId}, due)
  BY ServerConnectPleaseDef
<1>2. taken' \in 0 .. MaxIntake /\ UNCHANGED <<connectedClients, owner, forgotten>>
  BY TraversalAssumption DEF ServerConnectPlease, IInv, TypeOK
<1>3. p \in Packets /\ p.requestId \in RequestIds
  BY DEF IInv, TypeOK, Packets
<1>4. CodeTypes' /\ CodesOwned' /\ \A h, c : Known(h, c) => Known(h, c)'
  BY <1>2, SameCodes
<1>5. Grows
  BY <1>1, <1>2, <1>4, FinishGrows
<1>6. Due(outgoingPackets \cup {info}, due)
  BY DEF Due, Tried
<1>7. \A a \in outgoingPackets \cup {info} : Truthful(a.packet)'
  BY <1>1, <1>5, TruthfulStays, OldTruth
<1>8. \A Q \in {Ack(p.requestId, p.peer, TRUE)} :
        Q \in Packets /\ Q.type = "Ack" /\ Truthful(Q)'
  BY <1>3, AckTrue
<1> QED
  BY <1>1, <1>3, <1>4, <1>5, <1>6, <1>7, <1>8, FinishInv

\* What an acknowledged PleaseSendPacket is relayed as.
LEMMA RelayIs ==
  ASSUME IInv, NEW p \in toServer, p.type = "Ack",
         NEW i \in outgoingPackets, i.packet.type = "PleaseSendPacket",
         i.packet.requestId = p.requestId
  PROVE  /\ Relay(p, i) \in Packets /\ Relay(p, i).requestId = ServerId(1)
         /\ Relay(p, i).type \in {"ConnectReady", "ClientFailure"}
         /\ Relay(p, i).request = i.misc
         /\ Truthful(Relay(p, i))
<1> DEFINE joiner == i.packet.address
           host == i.packet.peer
           ready == [NewPacket("ConnectReady", joiner)
                       EXCEPT !.request = i.misc, !.address = host]
           refused == [NewPacket("ClientFailure", joiner) EXCEPT !.request = i.misc]
<1>1. joiner \in Clients /\ host \in Clients /\ i.misc \in RequestIds
  BY DEF IInv, NumberInv, Numbered, Infos, Packets
<1>2. ServerId(1) \in RequestIds
  BY NewIdType DEF IInv
<1>3. /\ ready \in Packets /\ ready.requestId = ServerId(1)
      /\ ready.type = "ConnectReady" /\ ready.request = i.misc
      /\ ready.peer = joiner /\ ready.address = host
  BY <1>1, <1>2 DEF NewPacket, Blank, Packets, Types, NoRequest, RequestIds
<1>4. /\ refused \in Packets /\ refused.requestId = ServerId(1)
      /\ refused.type = "ClientFailure" /\ refused.request = i.misc
  BY <1>1, <1>2, WithRequest DEF NewPacket, Types
<1>5. AskedFor(joiner, host)
  BY DEF IInv, PacketInv, Truthful
<1>6. p.ok => <<host, joiner>> \in punched
  <2>1. PICK Q \in Told :
            /\ Q.requestId = p.requestId
            /\ p.ok /\ Q.type = "PleaseSendPacket" =>
                 <<Q.peer, Q.address>> \in punched
    BY DEF IInv, PacketInv, Honest
  <2>2. i.packet = Q
    BY <2>1 DEF IInv, NumberInv, Numbered
  <2> QED
    BY <2>1, <2>2
<1>7. Relay(p, i) = IF p.ok THEN ready ELSE refused
  BY DEF Relay
<1> HIDE DEF ready, refused, joiner, host
<1>8. p.ok => Truthful(ready)
  BY <1>3, <1>5, <1>6 DEF Truthful
<1>9. Truthful(refused)
  BY <1>4 DEF Truthful
<1> QED
  BY <1>3, <1>4, <1>7, <1>8, <1>9

Acked(p) == {info \in outgoingPackets : info.packet.requestId = p.requestId}

Relays(p) == {Outgoing(Relay(p, info), NoRequest) : info \in
                 {i \in Acked(p) : i.packet.type = "PleaseSendPacket"}}

\* What is in hand once the packets acknowledged are taken out and relayed.
Left(p) == (outgoingPackets \ Acked(p)) \cup Relays(p)

LEMMA AckedLeft ==
  ASSUME IInv, NEW p \in toServer, p.type = "Ack"
  PROVE  /\ Numbered(Left(p), allocated + Cardinality(Relays(p)), Told)
         /\ \A a \in Left(p) : Truthful(a.packet)
<1>1. \A a \in outgoingPackets : Truthful(a.packet)
  BY DEF IInv, PacketInv
<1>2. CASE \E i \in Acked(p) : i.packet.type = "PleaseSendPacket"
  <2>1. PICK i \in Acked(p) : i.packet.type = "PleaseSendPacket"
    BY <1>2
  <2>2. i \in outgoingPackets /\ i.packet.requestId = p.requestId /\ Acked(p) = {i}
    BY DEF Acked, IInv, NumberInv, Numbered
  <2>3. Relays(p) = {Outgoing(Relay(p, i), NoRequest)}
    BY <2>1, <2>2 DEF Relays
  <2>4. /\ Relay(p, i) \in Packets /\ Relay(p, i).requestId = ServerId(1)
        /\ Relay(p, i).type \in {"ConnectReady", "ClientFailure"}
        /\ Truthful(Relay(p, i))
    BY <2>1, <2>2, RelayIs
  <2>5. PICK info :
          /\ info = Outgoing(Relay(p, i), NoRequest)
          /\ info.packet = Relay(p, i)
          /\ Numbered(outgoingPackets \cup {info}, allocated + 1, Told)
    BY <2>4, NewIs, NewIdType DEF IInv
  <2>6. Truthful(info.packet)
    BY <2>4, <2>5
  <2>7. Cardinality(Relays(p)) = 1
    BY <2>3, FS_Singleton
  <2>8. Left(p) \in SUBSET (outgoingPackets \cup {info})
    BY <2>3, <2>5 DEF Left
  <2>9. Numbered(Left(p), allocated + Cardinality(Relays(p)), Told)
    BY <2>5, <2>7, <2>8, NumberedFewer
  <2> QED
    BY <1>1, <2>6, <2>8, <2>9
<1>3. CASE ~\E i \in Acked(p) : i.packet.type = "PleaseSendPacket"
  <2>1. Relays(p) = {}
    BY <1>3 DEF Relays
  <2>2. Left(p) \in SUBSET outgoingPackets
    BY <2>1 DEF Left
  <2>3. Cardinality(Relays(p)) = 0 /\ allocated + 0 = allocated
    BY <2>1, FS_EmptySet DEF IInv, NumberInv, Numbered
  <2>4. Numbered(Left(p), allocated + Cardinality(Relays(p)), Told)
    BY <2>2, <2>3, NumberedFewer DEF IInv, NumberInv
  <2> QED
    BY <1>1, <2>2, <2>4
<1> QED
  BY <1>2, <1>3

LEMMA ServerAckDef ==
  ASSUME NEW p, ServerAck(p)
  PROVE  /\ p.type = "Ack" /\ UNCHANGED <<connectedClients, taken, owner, forgotten>>
         /\ \E due : /\ Finish(Left(p), allocated + Cardinality(Relays(p)),
                               {}, {}, due)
                     /\ Due(Left(p), due)
<1>1. PICK due \in SUBSET (Tried \ Acked(p)) :
        Finish(Left(p), allocated + Cardinality(Relays(p)), {}, {}, due)
  BY DEF ServerAck, Left, Relays, Acked
<1>2. Due(Left(p), due)
  BY DEF Due, Tried, Left
<1> QED
  BY <1>1, <1>2 DEF ServerAck

LEMMA ServerAckInv ==
  ASSUME IInv, NEW p \in toServer, ServerAck(p), isIPV6' = isIPV6
  PROVE  IInv'
<1>1. PICK due : /\ Finish(Left(p), allocated + Cardinality(Relays(p)), {}, {}, due)
                 /\ Due(Left(p), due)
  BY ServerAckDef
<1>2. p.type = "Ack" /\ UNCHANGED <<connectedClients, taken, owner, forgotten>>
  BY ServerAckDef
<1>3. CodeTypes' /\ CodesOwned' /\ Grows
  BY <1>1, <1>2, SameCodes, FinishGrows DEF IInv, TypeOK
<1>4. \A a \in Left(p) : Truthful(a.packet)'
  BY <1>2, <1>3, AckedLeft, TruthfulStays
<1> QED
  BY <1>1, <1>2, <1>3, <1>4, AckedLeft, FinishInv

\* A step that leaves the packets and clients alone.
LEMMA QuietInv ==
  ASSUME IInv, TypeOK', NumberInv', CodesOwned', Grows,
         outgoingPackets' \subseteq outgoingPackets,
         UNCHANGED <<clientVars, joinVars, toServer, toClient>>
  PROVE  IInv'
<1>1. PacketInv'
  BY TruthfulStays, HonestStays DEF IInv, PacketInv
<1>2. ClientInv'
  BY ClientStays DEF IInv, clientVars, joinVars
<1> QED
  BY <1>1, <1>2 DEF IInv

LEMMA ExpireInv ==
  ASSUME IInv, NEW hostId \in HostIds, Expire(hostId), isIPV6' = isIPV6
  PROVE  IInv'
<1>1. /\ hostId \in DOMAIN connectedClients
      /\ forgets' = forgets + 1 /\ forgets < MaxForgets
      /\ forgotten' = forgotten \cup {hostId}
      /\ UNCHANGED <<clientVars, joinVars, outgoingPackets, allocated, taken,
                     spinning, toServer, toClient, owner, punched, owed>>
  BY DEF Expire
<1>2. /\ DOMAIN connectedClients' = DOMAIN connectedClients \ {hostId}
      /\ \A h \in DOMAIN connectedClients' :
           connectedClients'[h] = connectedClients[h]
  BY DEF Expire, Restrict
<1>3. forgets' \in 0 .. MaxForgets
  BY <1>1, TraversalAssumption DEF IInv, TypeOK
<1>4. TypeOK'
  BY <1>1, <1>2, <1>3 DEF IInv, TypeOK, clientVars, joinVars
<1>5. NumberInv' /\ CodesOwned'
  BY <1>1, <1>2 DEF IInv, NumberInv, Told, CodesOwned
<1>6. Grows
  BY <1>1, <1>2 DEF Grows, Known, clientVars, joinVars
<1> QED
  BY <1>1, <1>4, <1>5, <1>6, QuietInv

LEMMA ServerRestartInv ==
  ASSUME IInv, ServerRestart, isIPV6' = isIPV6
  PROVE  IInv'
<1>1. /\ forgets' = forgets + 1 /\ forgets < MaxForgets
      /\ outgoingPackets' = {} /\ spinning' = FALSE /\ owed' = {}
      /\ forgotten' = forgotten \cup DOMAIN connectedClients
      /\ UNCHANGED <<clientVars, joinVars, allocated, taken, toServer, toClient,
                     owner, punched>>
  BY DEF ServerRestart
<1>2. DOMAIN connectedClients' = {}
  BY DEF ServerRestart
<1>3. forgets' \in 0 .. MaxForgets
  BY <1>1, TraversalAssumption DEF IInv, TypeOK
<1>4. TypeOK'
  BY <1>1, <1>2, <1>3 DEF IInv, TypeOK, clientVars, joinVars
<1>5. NumberInv'
  <2>1. {} \in SUBSET outgoingPackets
    OBVIOUS
  <2>2. Numbered({}, allocated, Told)
    BY <2>1, NumberedFewer DEF IInv, NumberInv
  <2> QED
    BY <1>1, <2>2 DEF NumberInv, Told
<1>6. CodesOwned'
  BY <1>2 DEF CodesOwned
<1>7. Grows
  BY <1>1, <1>2 DEF Grows, Known, clientVars, joinVars
<1> QED
  BY <1>1, <1>4, <1>5, <1>6, <1>7, QuietInv

-----------------------------------------------------------------------------
(* The clients.                                                              *)

LEMMA ClientStep ==
  ASSUME IInv, TypeOK', Grows, ClientInv',
         UNCHANGED <<serverVars, toClient, owner, forgotten>>,
         \A P \in toServer' : P \in toServer \/ Honest(P)'
  PROVE  IInv'
<1>1. NumberInv' /\ CodesOwned'
  BY DEF IInv, NumberInv, Told, CodesOwned, serverVars
<1>2. PacketInv'
  BY TruthfulStays, HonestStays DEF IInv, PacketInv, serverVars
<1> QED
  BY <1>1, <1>2 DEF IInv

\* Of the clients only c changes.
LEMMA OtherClients ==
  ASSUME Grows, ClientInv, NEW c \in Clients,
         \A d \in Clients \ {c} :
            /\ m_State'[d] = m_State[d] /\ m_HostId'[d] = m_HostId[d]
            /\ d \in Joiners =>
                 m_connection_state'[d] = m_connection_state[d],
         HasCode(c)', WasForgotten(c)', Reached(c)'
  PROVE  ClientInv'
<1> SUFFICES ASSUME NEW d \in Clients
             PROVE  HasCode(d)' /\ WasForgotten(d)' /\ Reached(d)'
  BY DEF ClientInv
<1>1. CASE d = c
  BY <1>1
<1>2. CASE d # c
  BY <1>2, HasCodeStays, WasForgottenStays, ReachedStays DEF ClientInv
<1> QED
  BY <1>1, <1>2

LEMMA CreatedIs ==
  ASSUME TypeOK, NEW c \in Clients, NEW type \in Types,
         NEW hostId \in HostIds \cup {None}
  PROVE  /\ Created(c, type, hostId) \in Packets
         /\ Created(c, type, hostId).type = type
         /\ Created(c, type, hostId).requestId \in RequestIds
         /\ Created(c, type, hostId).peer = c
         /\ Created(c, type, hostId).hostId = hostId
<1> DEFINE id == [by |-> c, n |-> sends[c] + 1]
<1>1. id \in RequestIds
  <2>1. sends[c] + 1 \in Nat
    BY TraversalAssumption DEF TypeOK
  <2> QED
    BY <2>1 DEF RequestIds
<1>2. Created(c, type, hostId) = [Blank(type, id, c) EXCEPT !.hostId = hostId]
  BY DEF Created
<1> HIDE DEF id
<1> QED
  BY <1>1, <1>2, WithHostId

LEMMA SendTypes ==
  ASSUME TypeOK, NEW c \in Clients, NEW packet \in Packets,
         NEW acks \in SUBSET Packets, SendTraversalPacket(c, packet, acks)
  PROVE  /\ sends' \in [Clients -> 0 .. MaxSends]
         /\ sends'[c] > 0 /\ \A d \in Clients : sends[d] > 0 => sends'[d] > 0
         /\ m_OutgoingTraversalPackets' \in
              [Clients -> SUBSET [packet : Packets, tries : 1 .. ClientTries]]
         /\ toServer' \subseteq Packets
         /\ toServer' = toServer \cup {packet} \cup acks
<1>1. /\ sends[c] \in 0 .. MaxSends /\ sends[c] < MaxSends
      /\ sends' = [sends EXCEPT ![c] = sends[c] + 1]
  BY DEF TypeOK, SendTraversalPacket
<1>2. sends[c] + 1 \in 0 .. MaxSends /\ sends[c] + 1 > 0
  BY <1>1, TraversalAssumption
<1>3. [packet |-> packet, tries |-> 1]
        \in [packet : Packets, tries : 1 .. ClientTries]
  BY TraversalAssumption
<1>4. m_OutgoingTraversalPackets' \in
              [Clients -> SUBSET [packet : Packets, tries : 1 .. ClientTries]]
  BY <1>3 DEF TypeOK, SendTraversalPacket
<1> QED
  BY <1>1, <1>2, <1>4 DEF TypeOK, SendTraversalPacket

LEMMA StartInv ==
  ASSUME IInv, NEW c \in Clients, Start(c), isIPV6' = isIPV6
  PROVE  IInv'
<1>1. PICK hello :
        /\ hello = Created(c, "HelloFromClient", None)
        /\ hello \in Packets /\ hello.type = "HelloFromClient"
        /\ SendTraversalPacket(c, hello, {})
  <2>1. "HelloFromClient" \in Types /\ None \in HostIds \cup {None}
    BY DEF Types
  <2> QED
    BY <2>1, CreatedIs DEF IInv, Start
<1>2. /\ m_State' = [m_State EXCEPT ![c] = "Connecting"]
      /\ UNCHANGED <<m_HostId, m_PendingConnect, m_ConnectRequestId, serverVars,
                     toClient, history>>
  BY DEF Start
<1>3. \/ UNCHANGED joinVars
      \/ \E code \in owner :
           /\ c \in Joiners /\ sends[c] = 0
           /\ m_host_spec' = [m_host_spec EXCEPT ![c] = code[1]]
           /\ m_connection_state' = [m_connection_state EXCEPT
                ![c] = "WaitingForTraversalClientConnection"]
  BY DEF Start
<1>4. /\ sends' \in [Clients -> 0 .. MaxSends]
      /\ \A d \in Clients : sends[d] > 0 => sends'[d] > 0
      /\ m_OutgoingTraversalPackets' \in
              [Clients -> SUBSET [packet : Packets, tries : 1 .. ClientTries]]
      /\ toServer' \subseteq Packets /\ toServer' = toServer \cup {hello}
  BY <1>1, SendTypes DEF IInv
<1>5. /\ m_host_spec' \in [Joiners -> HostIds \cup {None}]
      /\ m_connection_state' \in [Joiners -> Clients \cup NotReady]
      /\ \A j \in Joiners : sends[j] > 0 => m_host_spec'[j] = m_host_spec[j]
  BY <1>3 DEF IInv, TypeOK, NotReady, joinVars
<1>6. TypeOK'
  BY <1>2, <1>4, <1>5 DEF IInv, TypeOK, serverVars, history
<1>7. Grows
  BY <1>2, <1>4, <1>5 DEF Grows, Known, serverVars, history, Clients
<1>8. HasCode(c)' /\ WasForgotten(c)'
  BY <1>2 DEF HasCode, WasForgotten, IInv, TypeOK
<1>9. Reached(c)'
  <2>1. CASE UNCHANGED joinVars
    BY <2>1, <1>7, ReachedStays DEF joinVars, IInv, ClientInv
  <2>2. CASE c \in Joiners /\ m_connection_state' = [m_connection_state EXCEPT
                ![c] = "WaitingForTraversalClientConnection"]
    BY <2>2, TraversalAssumption DEF Reached, NotReady, IInv, TypeOK
  <2> QED
    BY <1>3, <2>1, <2>2
<1>10. ClientInv'
  <2>1. \A d \in Clients \ {c} :
          /\ m_State'[d] = m_State[d] /\ m_HostId'[d] = m_HostId[d]
          /\ d \in Joiners => m_connection_state'[d] = m_connection_state[d]
    BY <1>2, <1>3 DEF IInv, TypeOK, joinVars
  <2> QED
    BY <1>7, <1>8, <1>9, <2>1, OtherClients DEF IInv
<1>11. Honest(hello)'
  BY <1>1 DEF Honest
<1> QED
  BY <1>2, <1>4, <1>6, <1>7, <1>10, <1>11, ClientStep DEF history

LEMMA ReleaseInv ==
  ASSUME IInv, NEW c \in Clients, Release(c), isIPV6' = isIPV6
  PROVE  IInv'
<1>1. /\ c \in Hosts
      /\ m_State' = [m_State EXCEPT ![c] = "Off"]
      /\ m_HostId' = [m_HostId EXCEPT ![c] = None]
      /\ m_PendingConnect' = [m_PendingConnect EXCEPT ![c] = FALSE]
      /\ m_OutgoingTraversalPackets' = [m_OutgoingTraversalPackets EXCEPT ![c] = {}]
      /\ UNCHANGED <<m_ConnectRequestId, sends, joinVars, serverVars, toServer,
                     toClient, history>>
  BY DEF Release
<1>2. TypeOK'
  BY <1>1 DEF IInv, TypeOK, serverVars, joinVars, history
<1>3. Grows
  BY <1>1 DEF Grows, Known, serverVars, joinVars, history
<1>4. HasCode(c)' /\ WasForgotten(c)'
  BY <1>1 DEF HasCode, WasForgotten, IInv, TypeOK
<1>5. Reached(c)'
  BY <1>1, <1>3, ReachedStays DEF joinVars, IInv, ClientInv
<1>6. ClientInv'
  <2>1. \A d \in Clients \ {c} :
          /\ m_State'[d] = m_State[d] /\ m_HostId'[d] = m_HostId[d]
          /\ d \in Joiners => m_connection_state'[d] = m_connection_state[d]
    BY <1>1 DEF IInv, TypeOK, joinVars
  <2> QED
    BY <1>3, <1>4, <1>5, <2>1, OtherClients DEF IInv
<1> QED
  BY <1>1, <1>2, <1>3, <1>6, ClientStep DEF history

LEMMA ReconnectInv ==
  ASSUME IInv, NEW c \in Clients, ReconnectToServer(c), isIPV6' = isIPV6
  PROVE  IInv'
<1>1. PICK hello :
        /\ hello \in Packets /\ hello.type = "HelloFromClient"
        /\ SendTraversalPacket(c, hello, {})
  <2>1. "HelloFromClient" \in Types /\ None \in HostIds \cup {None}
    BY DEF Types
  <2> QED
    BY <2>1, CreatedIs DEF IInv, ReconnectToServer
<1>2. /\ m_State' = [m_State EXCEPT ![c] = "Connecting"]
      /\ UNCHANGED <<m_HostId, m_PendingConnect, m_ConnectRequestId, joinVars,
                     serverVars, toClient, history>>
  BY DEF ReconnectToServer
<1>3. /\ sends' \in [Clients -> 0 .. MaxSends]
      /\ \A d \in Clients : sends[d] > 0 => sends'[d] > 0
      /\ m_OutgoingTraversalPackets' \in
              [Clients -> SUBSET [packet : Packets, tries : 1 .. ClientTries]]
      /\ toServer' \subseteq Packets /\ toServer' = toServer \cup {hello}
  BY <1>1, SendTypes DEF IInv
<1>4. TypeOK'
  BY <1>2, <1>3 DEF IInv, TypeOK, serverVars, joinVars, history
<1>5. Grows
  BY <1>2, <1>3 DEF Grows, Known, serverVars, joinVars, history, Clients
<1>6. HasCode(c)' /\ WasForgotten(c)'
  BY <1>2 DEF HasCode, WasForgotten, IInv, TypeOK
<1>7. Reached(c)'
  BY <1>2, <1>5, ReachedStays DEF joinVars, IInv, ClientInv
<1>8. ClientInv'
  <2>1. \A d \in Clients \ {c} :
          /\ m_State'[d] = m_State[d] /\ m_HostId'[d] = m_HostId[d]
          /\ d \in Joiners => m_connection_state'[d] = m_connection_state[d]
    BY <1>2 DEF IInv, TypeOK, joinVars
  <2> QED
    BY <1>5, <1>6, <1>7, <2>1, OtherClients DEF IInv
<1>9. Honest(hello)'
  BY <1>1 DEF Honest
<1> QED
  BY <1>2, <1>3, <1>4, <1>5, <1>8, <1>9, ClientStep DEF history

\* A joiner whose connection fails is not told a host.
LEMMA FailsIs ==
  ASSUME TypeOK, NEW c \in Clients, JoinerFails(c)
  PROVE  /\ m_connection_state' \in [Joiners -> Clients \cup NotReady]
         /\ \A d \in Joiners \ {c} : m_connection_state'[d] = m_connection_state[d]
         /\ Reached(c)'
BY TraversalAssumption DEF JoinerFails, TypeOK, NotReady, Reached

LEMMA HandleResendsInv ==
  ASSUME IInv, NEW c \in Clients, NEW ping \in BOOLEAN,
         NEW due \in SUBSET m_OutgoingTraversalPackets[c],
         HandleResends(c, due, ping), isIPV6' = isIPV6
  PROVE  IInv'
<1> DEFINE out  == m_OutgoingTraversalPackets[c]
           kept == (out \ due) \cup {[info EXCEPT !.tries = @ + 1] : info \in due}
           Infos5 == [packet : Packets, tries : 1 .. ClientTries]
<1>1. UNCHANGED <<m_HostId, m_PendingConnect, m_ConnectRequestId, m_host_spec,
                  serverVars, toClient, history>>
  BY DEF HandleResends
<1>2. CASE /\ m_State' = [m_State EXCEPT ![c] = "ResendTimeout"]
           /\ m_OutgoingTraversalPackets' =
                [m_OutgoingTraversalPackets EXCEPT ![c] = {}]
           /\ JoinerFails(c)
           /\ UNCHANGED <<sends, toServer>>
  <2>1. TypeOK'
    BY <1>1, <1>2, FailsIs DEF IInv, TypeOK, FailureReasons, serverVars, history
  <2>2. Grows
    BY <1>1, <1>2 DEF Grows, Known, serverVars, history
  <2>3. HasCode(c)' /\ WasForgotten(c)'
    BY <1>2 DEF HasCode, WasForgotten, IInv, TypeOK
  <2>4. ClientInv'
    <3>1. \A d \in Clients \ {c} :
            /\ m_State'[d] = m_State[d] /\ m_HostId'[d] = m_HostId[d]
            /\ d \in Joiners => m_connection_state'[d] = m_connection_state[d]
      BY <1>1, <1>2, FailsIs DEF IInv, TypeOK
    <3> QED
      BY <1>2, <2>2, <2>3, <3>1, FailsIs, OtherClients DEF IInv
  <2> QED
    BY <1>1, <1>2, <2>1, <2>2, <2>4, ClientStep DEF history
<1>3. CASE /\ \A info \in due : info.tries < ClientTries
           /\ UNCHANGED <<m_State, m_connection_state>>
  <2>1. kept \in SUBSET Infos5
    <3>1. out \in SUBSET Infos5
      BY DEF IInv, TypeOK
    <3>2. \A info \in due : [info EXCEPT !.tries = @ + 1] \in Infos5
      BY <1>3, <3>1, TraversalAssumption
    <3> HIDE DEF Infos5
    <3> QED
      BY <3>1, <3>2
  <2>2. /\ sends' \in [Clients -> 0 .. MaxSends]
        /\ \A d \in Clients : sends[d] > 0 => sends'[d] > 0
        /\ m_OutgoingTraversalPackets' \in [Clients -> SUBSET Infos5]
        /\ toServer' \subseteq Packets
        /\ \A P \in toServer' : P \in toServer \/
              /\ P.type = "Ping" /\ P.hostId = m_HostId[c] /\ P.peer = c
              /\ m_State[c] = "Connected"
    <3>1. CASE ~ping
      <4> HIDE DEF kept
      <4>0. ~\E info \in due : info.tries >= ClientTries
        BY <1>3, TraversalAssumption DEF IInv, TypeOK
      <4>1. /\ m_OutgoingTraversalPackets' =
                 [m_OutgoingTraversalPackets EXCEPT ![c] = kept]
            /\ UNCHANGED <<sends, toServer>>
        BY <3>1, <4>0 DEF HandleResends, kept
      <4> QED
        BY <2>1, <4>1 DEF IInv, TypeOK
    <3>2. CASE ping
      <4>1. PICK hello : hello = Created(c, "Ping", m_HostId[c])
        OBVIOUS
      <4>2. /\ m_State[c] = "Connected" /\ sends[c] < MaxSends
            /\ sends' = [sends EXCEPT ![c] = @ + 1]
            /\ m_OutgoingTraversalPackets' =
                 [m_OutgoingTraversalPackets EXCEPT
                    ![c] = kept \cup {[packet |-> hello, tries |-> 1]}]
            /\ toServer' = toServer \cup {hello}
        BY <1>3, <3>2, <4>1 DEF HandleResends
      <4>3. /\ hello \in Packets /\ hello.type = "Ping" /\ hello.peer = c
            /\ hello.hostId = m_HostId[c]
        <5>1. "Ping" \in Types /\ m_HostId[c] \in HostIds \cup {None}
          BY DEF Types, IInv, TypeOK
        <5> QED
          BY <4>1, <5>1, CreatedIs DEF IInv
      <4>4. [packet |-> hello, tries |-> 1] \in Infos5
        BY <4>3, TraversalAssumption
      <4> HIDE DEF kept, Infos5
      <4>5. m_OutgoingTraversalPackets' \in [Clients -> SUBSET Infos5]
        BY <2>1, <4>2, <4>4 DEF IInv, TypeOK, Infos5
      <4>6. /\ sends' \in [Clients -> 0 .. MaxSends]
            /\ \A d \in Clients : sends[d] > 0 => sends'[d] > 0
        BY <4>2, TraversalAssumption DEF IInv, TypeOK
      <4> QED
        BY <4>2, <4>3, <4>5, <4>6 DEF IInv, TypeOK
    <3> QED
      BY <3>1, <3>2
  <2>3. TypeOK'
    BY <1>1, <1>3, <2>2 DEF IInv, TypeOK, serverVars, history
  <2>4. Grows
    BY <1>1, <2>2 DEF Grows, Known, serverVars, history, Clients
  <2>5. ClientInv'
    BY <1>1, <1>3, <2>4, ClientStays DEF IInv
  <2>6. ASSUME NEW P \in toServer', P \notin toServer
        PROVE  Honest(P)'
    <3>1. <<P.hostId, P.peer>> \in owner /\ Known(P.hostId, P.peer)
      BY <2>2, <2>6 DEF IInv, ClientInv, HasCode
    <3>2. <<P.hostId, P.peer>> \in owner' /\ Known(P.hostId, P.peer)'
      BY <2>4, <3>1 DEF Grows
    <3> QED
      BY <2>2, <2>6, <3>2 DEF Honest
  <2> QED
    BY <1>1, <2>3, <2>4, <2>5, <2>6, ClientStep DEF history
<1> QED
  BY <1>2, <1>3 DEF HandleResends

\* A packet received, whoever handles it.
Receives(c, p) == /\ c \in Clients /\ p \in toClient /\ p.peer = c
                  /\ UNCHANGED <<serverVars, toClient, owner, forgotten, owed>>
                  /\ isIPV6' = isIPV6

LEMMA ClientAckInv ==
  ASSUME IInv, NEW c, NEW p, Receives(c, p), ClientAck(c, p)
  PROVE  IInv'
<1>1. /\ UNCHANGED <<m_HostId, m_PendingConnect, m_ConnectRequestId, sends,
                     m_host_spec, toServer, punched>>
      /\ UNCHANGED <<serverVars, toClient, owner, forgotten, owed, isIPV6>>
      /\ c \in Clients /\ p \in toClient /\ p.peer = c /\ p.type = "Ack"
  BY DEF ClientAck, Receives
<1>2. Grows
  BY <1>1 DEF Grows, Known, serverVars
<1>3. CASE p.ok
  <2>1. /\ m_OutgoingTraversalPackets' =
             [m_OutgoingTraversalPackets EXCEPT
                ![c] = {info \in @ : info.packet.requestId # p.requestId}]
        /\ UNCHANGED <<m_State, m_connection_state>>
    BY <1>3 DEF ClientAck
  <2>2. m_OutgoingTraversalPackets' \in
          [Clients -> SUBSET [packet : Packets, tries : 1 .. ClientTries]]
    BY <2>1 DEF IInv, TypeOK
  <2>3. TypeOK'
    BY <1>1, <2>1, <2>2 DEF IInv, TypeOK, serverVars
  <2>4. ClientInv'
    BY <1>1, <1>2, <2>1, ClientStays DEF IInv
  <2> QED
    BY <1>1, <1>2, <2>3, <2>4, ClientStep
<1>4. CASE ~p.ok
  <2>1. /\ m_State' = [m_State EXCEPT ![c] = "ServerForgotAboutUs"]
        /\ JoinerFails(c) /\ UNCHANGED m_OutgoingTraversalPackets
    BY <1>4 DEF ClientAck
  <2>2. TypeOK'
    BY <1>1, <2>1, FailsIs DEF IInv, TypeOK, FailureReasons, serverVars
  <2>3. HasCode(c)'
    BY <1>1, <2>1 DEF HasCode, IInv, TypeOK
  <2>4. WasForgotten(c)'
    BY <1>1, <1>4 DEF WasForgotten, IInv, PacketInv, Truthful
  <2>5. ClientInv'
    <3>1. \A d \in Clients \ {c} :
            /\ m_State'[d] = m_State[d] /\ m_HostId'[d] = m_HostId[d]
            /\ d \in Joiners => m_connection_state'[d] = m_connection_state[d]
      BY <1>1, <2>1, FailsIs DEF IInv, TypeOK
    <3> QED
      BY <1>1, <1>2, <2>1, <2>3, <2>4, <3>1, FailsIs, OtherClients DEF IInv
  <2> QED
    BY <1>1, <1>2, <2>2, <2>5, ClientStep
<1> QED
  BY <1>3, <1>4

LEMMA AcksType ==
  ASSUME NEW p \in Packets, NEW ok \in BOOLEAN, NEW P \in Acks(p, ok)
  PROVE  /\ P \in Packets /\ P.type = "Ack" /\ P.requestId = p.requestId
         /\ P.ok = ok
BY AckIs DEF Acks, Packets

\* What a client acknowledges, it was told.
LEMMA AcksHonest ==
  ASSUME IInv, Grows, NEW p \in toClient, p.type # "Ack", NEW ok \in BOOLEAN,
         ok /\ p.type = "PleaseSendPacket" => <<p.peer, p.address>> \in punched',
         NEW P \in Acks(p, ok)
  PROVE  P \in Packets /\ Honest(P)'
<1>1. p \in Told'
  BY DEF Told, Grows
<1>2. p \in Packets
  BY DEF IInv, TypeOK
<1> QED
  BY <1>1, <1>2, AcksType DEF Honest

LEMMA HelloFromServerInv ==
  ASSUME IInv, NEW c, NEW p, Receives(c, p), HelloFromServer(c, p)
  PROVE  IInv'
<1>1. /\ UNCHANGED <<serverVars, toClient, owner, forgotten, owed, isIPV6, punched>>
      /\ c \in Clients /\ p \in toClient /\ p.peer = c
      /\ p.type = "HelloFromServer"
  BY DEF HelloFromServer, Receives
<1>2. /\ p \in Packets /\ p.hostId \in HostIds \cup {None}
      /\ <<p.hostId, c>> \in owner /\ Known(p.hostId, c)
  BY <1>1 DEF IInv, TypeOK, PacketInv, Truthful, Packets
<1>3. CASE m_State[c] # "Connecting"
  <2>1. /\ toServer' = toServer \cup Acks(p, TRUE)
        /\ UNCHANGED <<clientVars, joinVars>>
    BY <1>3 DEF HelloFromServer
  <2>2. Grows
    BY <1>1, <2>1 DEF Grows, Known, serverVars, clientVars, joinVars
  <2>3. \A P \in Acks(p, TRUE) : P \in Packets /\ Honest(P)'
    BY <1>1, <2>2, AcksHonest
  <2>4. TypeOK'
    BY <1>1, <2>1, <2>3 DEF IInv, TypeOK, serverVars, clientVars, joinVars
  <2>5. ClientInv'
    BY <2>1, <2>2, ClientStays DEF IInv, clientVars, joinVars
  <2> QED
    BY <1>1, <2>1, <2>2, <2>3, <2>4, <2>5, ClientStep
<1>4. CASE m_State[c] = "Connecting"
  <2>1. /\ m_HostId' = [m_HostId EXCEPT ![c] = p.hostId]
        /\ m_State' = [m_State EXCEPT ![c] = "Connected"]
        /\ UNCHANGED m_host_spec
    BY <1>4 DEF HelloFromServer
  <2>2. HasCode(c)' /\ WasForgotten(c)'
    <3>1. Known(p.hostId, c)'
      BY <1>1, <1>2 DEF Known, serverVars
    <3> QED
      BY <1>1, <1>2, <2>1, <3>1 DEF HasCode, WasForgotten, IInv, TypeOK, Known
  <2>3. CASE /\ c \in Joiners
             /\ m_connection_state' = [m_connection_state EXCEPT
                  ![c] = "WaitingForTraversalClientConnectReady"]
             /\ LET please == Created(c, "ConnectPlease", m_host_spec[c])
                IN  /\ SendTraversalPacket(c, please, Acks(p, TRUE))
                    /\ m_ConnectRequestId' = [m_ConnectRequestId EXCEPT
                         ![c] = please.requestId]
             /\ m_PendingConnect' = [m_PendingConnect EXCEPT ![c] = TRUE]
    <3>1. PICK please :
            /\ please \in Packets /\ please.type = "ConnectPlease"
            /\ please.peer = c /\ please.hostId = m_host_spec[c]
            /\ please.requestId \in RequestIds
            /\ SendTraversalPacket(c, please, Acks(p, TRUE))
            /\ m_ConnectRequestId' = [m_ConnectRequestId EXCEPT
                         ![c] = please.requestId]
      <4>1. "ConnectPlease" \in Types /\ m_host_spec[c] \in HostIds \cup {None}
        BY <2>3 DEF Types, IInv, TypeOK
      <4>2. PICK please : please = Created(c, "ConnectPlease", m_host_spec[c])
        OBVIOUS
      <4>3. /\ please \in Packets /\ please.type = "ConnectPlease"
            /\ please.peer = c /\ please.hostId = m_host_spec[c]
            /\ please.requestId \in RequestIds
        BY <1>1, <4>1, <4>2, CreatedIs DEF IInv
      <4> QED
        BY <2>3, <4>2, <4>3
    <3>2. Acks(p, TRUE) \subseteq Packets
      BY <1>2, AcksType
    <3>3. /\ sends' \in [Clients -> 0 .. MaxSends] /\ sends'[c] > 0
          /\ \A d \in Clients : sends[d] > 0 => sends'[d] > 0
          /\ m_OutgoingTraversalPackets' \in
                  [Clients -> SUBSET [packet : Packets, tries : 1 .. ClientTries]]
          /\ toServer' \subseteq Packets
          /\ toServer' = toServer \cup {please} \cup Acks(p, TRUE)
      BY <1>1, <3>1, <3>2, SendTypes DEF IInv
    <3>4. TypeOK'
      BY <1>1, <1>2, <2>1, <2>3, <3>1, <3>3
         DEF IInv, TypeOK, serverVars, NotReady
    <3>5. Grows
      BY <1>1, <2>1, <3>3 DEF Grows, Known, serverVars, Clients
    <3>6. Reached(c)'
      BY <2>3, TraversalAssumption DEF Reached, NotReady, IInv, TypeOK
    <3>7. ClientInv'
      <4>1. \A d \in Clients \ {c} :
              /\ m_State'[d] = m_State[d] /\ m_HostId'[d] = m_HostId[d]
              /\ d \in Joiners => m_connection_state'[d] = m_connection_state[d]
        BY <2>1, <2>3 DEF IInv, TypeOK
      <4> QED
        BY <1>1, <2>2, <3>5, <3>6, <4>1, OtherClients DEF IInv
    <3>8. Honest(please)'
      BY <2>1, <2>3, <3>1, <3>3 DEF Honest
    <3>9. \A P \in Acks(p, TRUE) : Honest(P)'
      BY <1>1, <3>5, AcksHonest
    <3> QED
      BY <1>1, <3>3, <3>4, <3>5, <3>7, <3>8, <3>9, ClientStep
  <2>4. CASE /\ toServer' = toServer \cup Acks(p, TRUE)
             /\ UNCHANGED <<m_connection_state, m_ConnectRequestId, sends,
                            m_PendingConnect, m_OutgoingTraversalPackets>>
    <3>1. Grows
      BY <1>1, <2>1, <2>4 DEF Grows, Known, serverVars
    <3>2. \A P \in Acks(p, TRUE) : P \in Packets /\ Honest(P)'
      BY <1>1, <3>1, AcksHonest
    <3>3. TypeOK'
      BY <1>1, <1>2, <2>1, <2>4, <3>2 DEF IInv, TypeOK, serverVars
    <3>4. ClientInv'
      <4>1. \A d \in Clients \ {c} :
              /\ m_State'[d] = m_State[d] /\ m_HostId'[d] = m_HostId[d]
              /\ d \in Joiners => m_connection_state'[d] = m_connection_state[d]
        BY <2>1, <2>4 DEF IInv, TypeOK
      <4>2. Reached(c)'
        BY <1>1, <2>4, <3>1, ReachedStays DEF IInv, ClientInv
      <4> QED
        BY <1>1, <2>2, <3>1, <4>1, <4>2, OtherClients DEF IInv
    <3> QED
      BY <1>1, <2>4, <3>1, <3>2, <3>3, <3>4, ClientStep
  <2> QED
    BY <1>4, <2>3, <2>4 DEF HelloFromServer
<1> QED
  BY <1>3, <1>4

LEMMA PleaseSendPacketInv ==
  ASSUME IInv, NEW c, NEW p, Receives(c, p), PleaseSendPacket(c, p)
  PROVE  IInv'
<1>1. /\ UNCHANGED <<serverVars, toClient, owner, forgotten, owed, isIPV6>>
      /\ UNCHANGED <<clientVars, joinVars>>
      /\ c \in Clients /\ p \in toClient /\ p.peer = c
      /\ p.type = "PleaseSendPacket"
      /\ punched' = IF p.address \in isIPV6 THEN punched
                    ELSE punched \cup {<<c, p.address>>}
      /\ toServer' = toServer \cup Acks(p, p.address \notin isIPV6)
  BY DEF PleaseSendPacket, Receives
<1>2. PICK ok \in BOOLEAN : ok = (p.address \notin isIPV6)
  OBVIOUS
<1>3. p.address \in Clients
  BY <1>1 DEF IInv, PacketInv, Truthful, AskedFor, Clients
<1>4. Grows
  BY <1>1 DEF Grows, Known, serverVars, clientVars, joinVars
<1>5. ok => <<p.peer, p.address>> \in punched'
  BY <1>1, <1>2
<1>6. \A P \in Acks(p, ok) : P \in Packets /\ Honest(P)'
  BY <1>1, <1>4, <1>5, AcksHonest
<1>7. TypeOK'
  BY <1>1, <1>2, <1>3, <1>6 DEF IInv, TypeOK, serverVars, clientVars, joinVars
<1>8. ClientInv'
  BY <1>1, <1>4, ClientStays DEF IInv, clientVars, joinVars
<1> QED
  BY <1>1, <1>2, <1>4, <1>6, <1>7, <1>8, ClientStep

\* What an answer does to the joiner it reaches.
AnswerOutcome(c, p) ==
    /\ m_connection_state' \in [Joiners -> Clients \cup NotReady]
    /\ \A d \in Joiners \ {c} : m_connection_state'[d] = m_connection_state[d]
    /\ \/ c \in Joiners => m_connection_state'[c] = m_connection_state[c]
       \/ c \in Joiners => m_connection_state'[c] \in NotReady
       \/ /\ p.type = "ConnectReady"
          /\ c \in Joiners => m_connection_state'[c] = p.address

LEMMA AnswerIs ==
  ASSUME IInv, NEW c, NEW p, Receives(c, p), ConnectAnswer(c, p)
  PROVE  AnswerOutcome(c, p)
<1>1. /\ m_connection_state \in [Joiners -> Clients \cup NotReady]
      /\ p \in toClient /\ p.type \in ConnectFailed \cup {"ConnectReady"}
  BY DEF IInv, TypeOK, Receives, ConnectAnswer
<1>2. p.type = "ConnectReady" => p.address \in Clients
  BY <1>1 DEF IInv, TypeOK, PacketInv, Truthful
<1>3. \/ UNCHANGED m_connection_state
      \/ m_connection_state' = [m_connection_state EXCEPT ![c] = "Failure"]
      \/ /\ p.type = "ConnectReady"
         /\ m_connection_state' = [m_connection_state EXCEPT ![c] = p.address]
  BY <1>1 DEF ConnectAnswer
<1>4. CASE UNCHANGED m_connection_state
  BY <1>1, <1>4 DEF AnswerOutcome
<1>5. CASE m_connection_state' = [m_connection_state EXCEPT ![c] = "Failure"]
  BY <1>1, <1>5 DEF AnswerOutcome, NotReady
<1>6. CASE /\ p.type = "ConnectReady"
           /\ m_connection_state' = [m_connection_state EXCEPT ![c] = p.address]
  BY <1>1, <1>2, <1>6 DEF AnswerOutcome
<1> QED
  BY <1>3, <1>4, <1>5, <1>6

LEMMA ConnectAnswerInv ==
  ASSUME IInv, NEW c, NEW p, Receives(c, p), ConnectAnswer(c, p)
  PROVE  IInv'
<1>1. /\ UNCHANGED <<serverVars, toClient, owner, forgotten, owed, isIPV6>>
      /\ UNCHANGED <<m_State, m_HostId, m_ConnectRequestId, sends, m_host_spec,
                     m_OutgoingTraversalPackets, punched>>
      /\ c \in Clients /\ p \in toClient /\ p.peer = c
      /\ p.type \in ConnectFailed \cup {"ConnectReady"}
      /\ toServer' = toServer \cup Acks(p, TRUE)
  BY DEF ConnectAnswer, Receives
<1>9. AnswerOutcome(c, p)
  BY AnswerIs
<1>2. Grows
  BY <1>1 DEF Grows, Known, serverVars
<1>3. \A P \in Acks(p, TRUE) : P \in Packets /\ Honest(P)'
  BY <1>1, <1>2, AcksHonest DEF ConnectFailed
<1>4. m_PendingConnect' \in [Clients -> BOOLEAN]
  BY DEF ConnectAnswer, IInv, TypeOK
<1>5. TypeOK'
  BY <1>1, <1>3, <1>4, <1>9 DEF IInv, TypeOK, serverVars, AnswerOutcome
<1>6. HasCode(c)' /\ WasForgotten(c)'
  BY <1>1, <1>2, HasCodeStays, WasForgottenStays DEF IInv, ClientInv
<1>7. Reached(c)'
  <2>1. CASE c \in Joiners => m_connection_state'[c] = m_connection_state[c]
    BY <1>1, <1>2, <2>1, ReachedStays DEF IInv, ClientInv
  <2>2. CASE c \in Joiners => m_connection_state'[c] \in NotReady
    BY <2>2, TraversalAssumption DEF Reached
  <2>3. CASE p.type = "ConnectReady" /\
             (c \in Joiners => m_connection_state'[c] = p.address)
    <3>1. AskedFor(c, p.address) /\ <<p.address, c>> \in punched
      BY <1>1, <2>3 DEF IInv, PacketInv, Truthful
    <3> QED
      BY <1>1, <2>3, <3>1 DEF Reached, AskedFor
  <2> QED
    BY <1>9, <2>1, <2>2, <2>3 DEF AnswerOutcome
<1>8. ClientInv'
  BY <1>1, <1>2, <1>6, <1>7, <1>9, OtherClients DEF IInv, AnswerOutcome
<1> QED
  BY <1>1, <1>2, <1>3, <1>5, <1>8, ClientStep

-----------------------------------------------------------------------------
(* The invariance proof.                                                     *)

LEMMA InitInv ==
  ASSUME Init
  PROVE  IInv
<1>1. TypeOK
  <2>1. NoRequest \in RequestIds
    BY DEF NoRequest, RequestIds
  <2>2. /\ 0 \in 0 .. MaxSends /\ 0 \in 0 .. MaxIntake /\ 0 \in 0 .. MaxForgets
        /\ "NotStarted" \in NotReady /\ 0 \in Nat
    BY TraversalAssumption DEF NotReady
  <2>3. DOMAIN connectedClients = {}
    BY DEF Init
  <2> QED
    BY <2>1, <2>2, <2>3 DEF Init, TypeOK
<1>2. Numbered({}, 0, {})
  BY FS_EmptySet DEF Numbered
<1>3. NumberInv
  <2>1. Told = {}
    BY DEF Init, Told
  <2> QED
    BY <1>2, <2>1 DEF Init, NumberInv
<1>4. PacketInv /\ CodesOwned
  BY DEF Init, PacketInv, CodesOwned
<1>5. ClientInv
  BY TraversalAssumption
     DEF Init, ClientInv, HasCode, WasForgotten, Reached, NotReady
<1> QED
  BY <1>1, <1>3, <1>4, <1>5 DEF IInv

LEMMA StutterInv ==
  ASSUME IInv, UNCHANGED vars
  PROVE  IInv'
<1>1. UNCHANGED <<clientVars, joinVars, serverVars, toServer, toClient, isIPV6,
                  history>>
  BY DEF vars
<1>2. TypeOK'
  BY <1>1 DEF IInv, TypeOK, clientVars, joinVars, serverVars, history
<1>3. NumberInv' /\ CodesOwned'
  BY <1>1 DEF IInv, NumberInv, Told, CodesOwned, serverVars, history
<1>4. Grows
  BY <1>1 DEF Grows, Known, clientVars, joinVars, serverVars, history
<1> QED
  BY <1>1, <1>2, <1>3, <1>4, QuietInv DEF serverVars

LEMMA NextInv ==
  ASSUME IInv, Next
  PROVE  IInv'
<1>1. isIPV6' = isIPV6
  BY DEF Next
<1>2. CASE \E p \in toServer : ServerReceives(p)
  <2>1. PICK p \in toServer : ServerReceives(p)
    BY <1>2
  <2> QED
    BY <1>1, <2>1, ServerAckInv, ServerPingInv, ServerHelloInv,
       ServerHelloInUseInv, ServerConnectPleaseInv DEF ServerReceives
<1>3. CASE \E due \in SUBSET Tried : ServerIdle(due)
  BY <1>1, <1>3, ServerIdleInv
<1>4. CASE \E hostId \in HostIds : Expire(hostId)
  BY <1>1, <1>4, ExpireInv
<1>5. CASE ServerRestart
  BY <1>1, <1>5, ServerRestartInv
<1>6. ASSUME NEW c \in Clients, Start(c) \/ Release(c) \/ ReconnectToServer(c)
      PROVE  IInv'
  BY <1>1, <1>6, StartInv, ReleaseInv, ReconnectInv
<1>7. ASSUME NEW c \in Clients, NEW due \in SUBSET m_OutgoingTraversalPackets[c],
             NEW ping \in BOOLEAN, HandleResends(c, due, ping)
      PROVE  IInv'
  BY <1>1, <1>7, HandleResendsInv
<1>8. ASSUME NEW c \in Clients, NEW p \in toClient, ClientReceives(c, p)
      PROVE  IInv'
  <2>1. Receives(c, p)
    BY <1>1, <1>8 DEF Receives, ClientReceives
  <2> QED
    BY <1>8, <2>1, ClientAckInv, HelloFromServerInv, PleaseSendPacketInv,
       ConnectAnswerInv DEF ClientReceives
<1> QED
  BY <1>2, <1>3, <1>4, <1>5, <1>6, <1>7, <1>8 DEF Next

\* Whatever is sent, lost, delayed or repeated, and whenever the server restarts
\* or forgets a code, IInv holds.
THEOREM Invariance == Spec => []IInv
<1>1. Init => IInv
  BY InitInv
<1>2. IInv /\ [Next]_vars => IInv'
  BY NextInv, StutterInv
<1> QED
  BY <1>1, <1>2, PTL DEF Spec

-----------------------------------------------------------------------------
(* Every request that is owed an answer has a packet that leads to one.      *)

LEMMA AnswerPendingDef == AnswerPending <=> Answerable(owed, outgoingPackets)
BY DEF AnswerPending, Answerable, Asks, Answers

\* A question is kept, asked again or failed; an answer is sent, and with that
\* nothing is owed.
LEMMA FinishAnswers ==
  ASSUME NEW out, NEW alloc, Numbered(out, alloc, Told),
         NEW due, Due(out, due), NEW acks, NEW asked,
         Finish(out, alloc, acks, asked, due),
         Answerable(owed \cup asked, out)
  PROVE  AnswerPending'
<1> DEFINE F == GiveUpFailures(GivenUp(due), alloc)
<1>1. /\ outgoingPackets' = Kept(out, due) \cup Resent(out, due) \cup F
      /\ owed' = (owed \cup asked)
                   \ {info.packet.request : info \in Sending(out, due)}
  BY FinishDef
<1>2. SUFFICES ASSUME NEW request \in owed'
               PROVE  \E a \in outgoingPackets' :
                        Asks(a, request) \/ Answers(a, request)
  BY DEF AnswerPending, Asks, Answers
<1>3. PICK a \in out : Asks(a, request) \/ Answers(a, request)
  BY <1>1 DEF Answerable
<1>4. ~Answers(a, request)
  BY <1>1 DEF Answers, Sending
<1>5. CASE a \in Kept(out, due)
  BY <1>1, <1>3, <1>5
<1>6. CASE a \in Sending(out, due)
  <2>1. /\ Again(a) \in Resent(out, due)
        /\ Again(a).packet = a.packet /\ Again(a).misc = a.misc
    BY <1>6, SendingIs, AgainIs DEF Resent
  <2> QED
    BY <1>1, <1>3, <1>4, <2>1 DEF Asks
<1>7. CASE a \in GivenUp(due)
  <2>1. a \in Pleases(GivenUp(due)) /\ a.misc = request
    BY <1>3, <1>4, <1>7 DEF Asks, Pleases
  <2>2. GiveUp(GivenUp(due)) /\ alloc \in Nat
    BY SendingIs DEF Numbered
  <2> HIDE DEF F
  <2>3. /\ \A f \in F : f.packet.type = "ClientDidntRespond" /\ f.tries = 0
        /\ \E f \in F : f.packet.request = a.misc
    BY <2>1, <2>2, FailureIds DEF F
  <2>4. PICK f \in F : Answers(f, request)
    BY <2>1, <2>3 DEF Answers, ConnectFailed
  <2> QED
    BY <1>1, <2>4
<1> QED
  BY <1>5, <1>6, <1>7 DEF Kept

\* More in hand, nothing more asked.
LEMMA AnswerableMore ==
  ASSUME NEW requests, NEW out, NEW more, Answerable(requests, out), out \subseteq more
  PROVE  Answerable(requests \cup {}, more)
BY DEF Answerable

LEMMA ServerAckAnswers ==
  ASSUME IInv, AnswerPending, NEW p \in toServer, ServerAck(p)
  PROVE  AnswerPending'
<1>1. PICK due : /\ Finish(Left(p), allocated + Cardinality(Relays(p)), {}, {}, due)
                 /\ Due(Left(p), due)
  BY ServerAckDef
<1>2. p.type = "Ack" /\ Numbered(Left(p), allocated + Cardinality(Relays(p)), Told)
  BY ServerAckDef, AckedLeft
<1>3. Answerable(owed \cup {}, Left(p))
  <2> SUFFICES ASSUME NEW request \in owed
               PROVE  \E a \in Left(p) : Asks(a, request) \/ Answers(a, request)
    BY DEF Answerable
  <2>1. PICK a \in outgoingPackets : Asks(a, request) \/ Answers(a, request)
    BY AnswerPendingDef DEF Answerable
  <2>2. CASE a \notin Acked(p)
    BY <2>1, <2>2 DEF Left
  <2>3. CASE a \in Acked(p)
    <3>1. PICK Q \in Told : Q.requestId = p.requestId
      BY <1>2 DEF IInv, PacketInv, Honest
    <3>2. a.tries > 0
      BY <2>3, <3>1 DEF IInv, NumberInv, Numbered, Acked
    <3>3. Asks(a, request)
      BY <2>1, <3>2 DEF Answers
    <3>4. /\ Outgoing(Relay(p, a), NoRequest) \in Left(p)
          /\ Outgoing(Relay(p, a), NoRequest).packet = Relay(p, a)
          /\ Outgoing(Relay(p, a), NoRequest).tries = 0
      BY <2>3, <3>3 DEF Asks, Outgoing, Left, Relays
    <3>5. /\ Relay(p, a).type \in {"ConnectReady", "ClientFailure"}
          /\ Relay(p, a).request = request
      BY <1>2, <2>3, <3>3, RelayIs DEF Asks, Acked
    <3> QED
      BY <3>4, <3>5 DEF Answers, ConnectFailed
  <2> QED
    BY <2>2, <2>3
<1> QED
  BY <1>1, <1>2, <1>3, FinishAnswers

\* A step in which the server finishes with more in hand, asked no more.
LEMMA MoreAnswers ==
  ASSUME AnswerPending, NEW out, outgoingPackets \subseteq out,
         NEW alloc, Numbered(out, alloc, Told), NEW due, Due(out, due), NEW acks,
         Finish(out, alloc, acks, {}, due)
  PROVE  AnswerPending'
<1>1. Answerable(owed \cup {}, out)
  BY AnswerPendingDef, AnswerableMore
<1> QED
  BY <1>1, FinishAnswers

LEMMA ServerIdleAnswers ==
  ASSUME IInv, AnswerPending, NEW due \in SUBSET Tried, ServerIdle(due)
  PROVE  AnswerPending'
<1>1. Due(outgoingPackets, due)
  BY DEF Due, Tried
<1>2. Finish(outgoingPackets, allocated, {}, {}, due)
  BY DEF ServerIdle
<1> QED
  BY <1>1, <1>2, MoreAnswers DEF IInv, NumberInv

LEMMA ServerPingAnswers ==
  ASSUME IInv, AnswerPending, NEW p \in toServer, ServerPing(p)
  PROVE  AnswerPending'
<1> DEFINE ok == p.hostId \in DOMAIN connectedClients
<1>1. PICK due \in SUBSET Tried :
        Finish(outgoingPackets, allocated, {Ack(p.requestId, p.peer, ok)}, {}, due)
  BY DEF ServerPing
<1> HIDE DEF ok
<1>2. Due(outgoingPackets, due)
  BY DEF Due, Tried
<1> QED
  BY <1>1, <1>2, MoreAnswers DEF IInv, NumberInv

LEMMA ServerHelloAnswers ==
  ASSUME IInv, AnswerPending, NEW p \in toServer, ServerHello(p)
  PROVE  AnswerPending'
<1>1. PICK info \in Infos, due \in SUBSET Tried :
         /\ Numbered(outgoingPackets \cup {info}, allocated + 1, Told)
         /\ Finish(outgoingPackets \cup {info}, allocated + 1,
                   {Ack(p.requestId, p.peer, TRUE)}, {}, due)
  BY ServerHelloDef
<1>2. Due(outgoingPackets \cup {info}, due)
  BY DEF Due, Tried
<1>3. outgoingPackets \subseteq outgoingPackets \cup {info}
  OBVIOUS
<1> QED
  BY <1>1, <1>2, <1>3, MoreAnswers

LEMMA ServerConnectPleaseAnswers ==
  ASSUME IInv, AnswerPending, NEW p \in toServer, ServerConnectPlease(p)
  PROVE  AnswerPending'
<1>1. PICK info \in Infos, due \in SUBSET Tried :
         /\ Numbered(outgoingPackets \cup {info}, allocated + 1, Told)
         /\ Asks(info, p.requestId) \/ Answers(info, p.requestId)
         /\ Finish(outgoingPackets \cup {info}, allocated + 1,
                   {Ack(p.requestId, p.peer, TRUE)}, {p.requestId}, due)
  BY ServerConnectPleaseDef
<1>2. Due(outgoingPackets \cup {info}, due)
  BY DEF Due, Tried
<1>3. Answerable(owed \cup {p.requestId}, outgoingPackets \cup {info})
  BY <1>1, AnswerPendingDef DEF Answerable
<1> QED
  BY <1>1, <1>2, <1>3, FinishAnswers

LEMMA OthersAnswer ==
  ASSUME AnswerPending,
         UNCHANGED <<outgoingPackets, owed>> \/ owed' = {}
  PROVE  AnswerPending'
BY DEF AnswerPending

LEMMA NextAnswers ==
  ASSUME IInv, AnswerPending, Next
  PROVE  AnswerPending'
<1>1. CASE \E p \in toServer : ServerReceives(p)
  <2>1. PICK p \in toServer : ServerReceives(p)
    BY <1>1
  <2>2. ServerHelloInUse(p) => UNCHANGED <<outgoingPackets, owed>>
    BY DEF ServerHelloInUse, history
  <2> QED
    BY <2>1, <2>2, ServerAckAnswers, ServerPingAnswers, ServerHelloAnswers,
       ServerConnectPleaseAnswers, OthersAnswer DEF ServerReceives
<1>2. CASE \E due \in SUBSET Tried : ServerIdle(due)
  BY <1>2, ServerIdleAnswers
<1>3. CASE \E hostId \in HostIds : Expire(hostId)
  BY <1>3, OthersAnswer DEF Expire
<1>4. CASE ServerRestart
  BY <1>4, OthersAnswer DEF ServerRestart
<1>5. ASSUME NEW c \in Clients,
             \/ Start(c) \/ Release(c) \/ ReconnectToServer(c)
             \/ \E due \in SUBSET m_OutgoingTraversalPackets[c], ping \in BOOLEAN :
                  HandleResends(c, due, ping)
             \/ \E p \in toClient : ClientReceives(c, p)
      PROVE  AnswerPending'
  <2>1. UNCHANGED <<outgoingPackets, owed>>
    BY <1>5 DEF Start, Release, ReconnectToServer, HandleResends, ClientReceives,
                serverVars, history
  <2> QED
    BY <2>1, OthersAnswer
<1> QED
  BY <1>1, <1>2, <1>3, <1>4, <1>5 DEF Next

-----------------------------------------------------------------------------
(* The theorems.                                                             *)

\* Every variable of the clients, the server and the network stays within its
\* type: no packet is tried more often than NUMBER_OF_TRIES or HandleResends
\* allow, and a joiner waits, has failed, or is told the address of a client.
THEOREM TypeCorrect == Spec => []TypeOK
<1>1. IInv => TypeOK
  BY DEF IInv
<1> QED
  BY <1>1, Invariance, PTL

\* A joiner that TraversalClient::HandleServerPacket hands a ConnectReady is
\* told the address that had the code it asked for, and that client has sent it
\* a datagram: lost, late or repeated packets and restarts of the server
\* cannot turn a refusal or another joiner's answer into a ConnectReady.
THEOREM ReadyMeansPunchedCorrect == Spec => []ReadyMeansPunched
<1>1. IInv => ReadyMeansPunched
  BY DEF IInv, ClientInv, Reached, AskedFor, ReadyMeansPunched, Clients
<1> QED
  BY <1>1, Invariance, PTL

\* A client that believes it is connected is known under its code unless the
\* server forgot it, and only a client the server forgot is told so.
THEOREM KnownOrForgottenCorrect == Spec => []KnownOrForgotten
<1>1. IInv => KnownOrForgotten
  BY DEF IInv, ClientInv, HasCode, WasForgotten, Known, KnownOrForgotten
<1> QED
  BY <1>1, Invariance, PTL

\* Every ConnectPlease the server took in is kept in a PleaseSendPacket, or in
\* an answer not sent yet, until the answer goes out or the server restarts.
THEOREM AnswerPendingCorrect == Spec => []AnswerPending
<1>1. Init => AnswerPending
  BY DEF Init, AnswerPending
<1>2. IInv /\ AnswerPending /\ [Next]_vars => AnswerPending'
  <2>1. UNCHANGED vars => UNCHANGED <<outgoingPackets, owed>>
    BY DEF vars, serverVars, history
  <2> QED
    BY <2>1, NextAnswers, OthersAnswer
<1> QED
  BY <1>1, <1>2, Invariance, PTL DEF Spec
=============================================================================
