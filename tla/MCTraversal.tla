---------------------------- MODULE MCTraversal ----------------------------
(***************************************************************************)
(* The codes are interchangeable, and an acknowledgement of a packet that  *)
(* its sender no longer keeps changes nothing when it is received: states  *)
(* that differ in such acknowledgements only are the same to TLC.          *)
(***************************************************************************)
EXTENDS Traversal, TLC

Codes == Permutations(HostIds)

Awaited(p, kept) ==
    (p.type = "Ack" /\ p.ok) => \E info \in kept :
                                   info.packet.requestId = p.requestId

Refused(p, kept) ==
    p.type = "Ack" => \E info \in kept : info.packet.requestId = p.requestId

View ==
    <<clientVars, joinVars, serverVars, isIPV6, history,
      {p \in toServer : Refused(p, outgoingPackets)},
      {p \in toClient : Awaited(p, m_OutgoingTraversalPackets[p.peer])}>>

=============================================================================
