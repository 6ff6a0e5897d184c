----------------------------- MODULE MWGPProofs -----------------------------
(***************************************************************************)
(* What the two proxies promise together, for every number of goroutines,  *)
(* handshakes, indices and restarts: handshakes stay signed, the wire      *)
(* stays obfuscated, and the window before MarkObfuscated is the only one. *)
(* Each proxy keeps its own invariant if what arrives is as it should be   *)
(* (WGITPacketProofs); here it is shown that the other one, the endpoints  *)
(* and the wire see to that.                                               *)
(***************************************************************************)
EXTENDS MWGP, TLAPS

-----------------------------------------------------------------------------
(***************************************************************************)
(* Types.                                                                  *)
(***************************************************************************)
Session == [index : C!Index \cup {Nil}, remote : C!Index \cup {Nil}, confirmed : BOOLEAN]

WireMessage ==
  [to : {"client", "server"},
   type : {"initiation", "response", "cookie", "transport", "other"},
   sender : C!Index, receiver : C!Index, mac : C!Mac, key : {ClientKey, Nil},
   data : Handshakes \cup {Nil}, obfuscated : BOOLEAN]

\* The endpoints and the wire; a session of the server has both its indices.
EndsTypeOK ==
  /\ wire \subseteq WireMessage
  /\ client \in [Handshakes -> Session] /\ server \in [Handshakes -> Session]
  /\ \A n \in Handshakes :
       server[n] # NoSession \/ server[n].confirmed => server[n].index # Nil /\ server[n].remote # Nil

COK == C!TypeOK /\ C!TableInv
SOK == S!TypeOK /\ S!TableInv

-----------------------------------------------------------------------------
(***************************************************************************)
(* What the endpoints and the wire know, and what they give the proxies.   *)
(***************************************************************************)
\* No process has restarted.
Running == cRestarts + sRestarts = 0

PktSigned(m) ==
  /\ m.type = "initiation" => Signed(m, ServerKey)
  /\ m.type = "response" => Signed(m, ClientKey)

\* Index i leads to a peer that obfuscates.
Good(i, map, ps, n) == map[i] \in 1..n /\ ps[map[i]].obfuscateEnabled

WireInv ==
  /\ \A m \in wire : m.to = "server" => m.obfuscated /\ (m.type = "initiation" => m.sender # 0)
  /\ Running => \A m \in wire : PktSigned(m)

\* Before mwgp-server first restarts the server knows of indices that lead to
\* marked peers only; WireObfuscated follows.
EndsGood ==
  /\ \A n \in Handshakes : server[n].remote # Nil => Good(server[n].remote, sClientMap, sPeers, sAllocated)
  /\ \A m \in wire : m.obfuscated

EndsInv == WireInv /\ (sRestarts = 0 => EndsGood)

\* What the proxies give to the wire and the endpoints.
ChanInv ==
  /\ \A pkt \in Elements(cServerWriteChan) : pkt.type = "initiation" => pkt.sender # 0
  /\ Running => /\ \A pkt \in Elements(cServerWriteChan) \cup Elements(cClientWriteChan) : PktSigned(pkt)
                /\ \A pkt \in Elements(sServerWriteChan) \cup Elements(sClientWriteChan) : PktSigned(pkt)
  /\ sRestarts = 0 =>
       /\ \A pkt \in Elements(sServerWriteChan) :
            pkt.type = "initiation" => Good(pkt.sender, sClientMap, sPeers, sAllocated)
       /\ \A pkt \in Elements(sClientWriteChan) : S!Obfuscate \in pkt.flags

\* What may arrive at mwgp-client, and at mwgp-server.
CArrivals == {pkt \in C!Packet : Running => PktSigned(pkt)}
SArrivals ==
  {pkt \in S!Packet :
     /\ Running => PktSigned(pkt)
     /\ pkt.type = "initiation" /\ pkt.from = "client" => S!Deobfuscated \in pkt.flags /\ pkt.sender # 0
     /\ sRestarts = 0 /\ pkt.from = "server" => Good(pkt.receiver, sClientMap, sPeers, sAllocated)}

\* A process that restarts ends the time without restarts.
LEMMA RestartsCounted ==
  ASSUME cRestarts \in Nat, cRestarts' = cRestarts + 1 \/ cRestarts' = cRestarts,
         sRestarts \in Nat, sRestarts' = sRestarts + 1 \/ sRestarts' = sRestarts
  PROVE  /\ Running' => Running /\ cRestarts' # cRestarts + 1 /\ sRestarts' # sRestarts + 1
         /\ sRestarts' = 0 => sRestarts = 0 /\ sRestarts' # sRestarts + 1
BY DEF Running

\* The numbers that WGIT is instantiated with are in the ranges it assumes.
LEMMA InRange ==
  /\ MaxIndex \in Nat \ {0} /\ MaxPeers \in Nat /\ MaxRestarts \in Nat /\ ChanCap \in Nat \ {0}
  /\ 1 \in Nat \ {0} /\ 0 \in Nat /\ 0 \in 0..3
BY MWGPAssumption

\* The packet at the head of a channel is one of its elements.
LEMMA HeadElement ==
  ASSUME NEW q, NEW T, q \in Seq(T), q # <<>>
  PROVE  Head(q) \in Elements(q) /\ Head(q) \in T
BY DEF Elements

\* The channels hold packets.
LEMMA ChannelTypes ==
  ASSUME COK, SOK
  PROVE  /\ cServerWriteChan \in Seq(C!Packet) /\ cClientWriteChan \in Seq(C!Packet)
         /\ sServerWriteChan \in Seq(S!Packet) /\ sClientWriteChan \in Seq(S!Packet)
         /\ cRestarts \in Nat /\ sRestarts \in Nat
<1>1. /\ cServerWriteChan \in Seq(C!Packet) /\ cClientWriteChan \in Seq(C!Packet)
      /\ cRestarts \in 0..MaxRestarts
  BY Zenon DEF COK, C!TypeOK
<1>2. /\ sServerWriteChan \in Seq(S!Packet) /\ sClientWriteChan \in Seq(S!Packet)
      /\ sRestarts \in 0..MaxRestarts
  BY Zenon DEF SOK, S!TypeOK
<1>3. \A r \in 0..MaxRestarts : r \in Nat
  BY MWGPAssumption
<1>. QED  BY Zenon, <1>1, <1>2, <1>3

-----------------------------------------------------------------------------
(***************************************************************************)
(* Types of the endpoints, and of what goes between them and the proxies.  *)
(***************************************************************************)
\* What is read from the wire and what is put on it.
LEMMA WireTypes ==
  /\ \A m \in WireMessage : /\ Arriving(m, "server", ListenAddr) \in C!Packet
                            /\ Arriving(m, "client", ProxyAddr) \in S!Packet
  /\ \A pkt \in C!Packet, b \in BOOLEAN : Carried("server", pkt, b) \in WireMessage
  /\ \A pkt \in S!Packet, b \in BOOLEAN : Carried("client", pkt, b) \in WireMessage
<1>. USE DEF WireMessage, C!Packet, S!Packet, C!Mac, S!Mac, C!Index, S!Index, C!Addrs, S!Addrs
<1>1. ASSUME NEW m \in WireMessage
      PROVE  /\ Arriving(m, "server", ListenAddr) \in C!Packet
             /\ Arriving(m, "client", ProxyAddr) \in S!Packet
  BY ZenonT(60) DEF Arriving, C!Deobfuscated, S!Deobfuscated
<1>2. ASSUME NEW pkt \in C!Packet, NEW b \in BOOLEAN
      PROVE  Carried("server", pkt, b) \in WireMessage
  BY DEF Carried
<1>3. ASSUME NEW pkt \in S!Packet, NEW b \in BOOLEAN
      PROVE  Carried("client", pkt, b) \in WireMessage
  BY DEF Carried
<1>. QED  BY ZenonT(60), <1>1, <1>2, <1>3

\* What the endpoints send.
LEMMA EndpointTypes ==
  ASSUME EndsTypeOK, NEW n \in Handshakes
  PROVE  /\ \A i \in C!Index : C!Initiation(i, ClientKey, ClientAddr, {}, n) \in C!Packet
         /\ client[n].remote # Nil =>
              C!Datagram("client", "transport", 0, client[n].remote, ClientAddr, n) \in C!Packet
         /\ server[n] # NoSession =>
              S!FixMACs(S!Datagram("server", "response", server[n].index, server[n].remote, ServerAddr, n),
                        ClientKey) \in S!Packet
         /\ server[n].confirmed =>
              S!Datagram("server", "transport", 0, server[n].remote, ServerAddr, n) \in S!Packet
<1>1. /\ client[n] \in Session /\ server[n] \in Session
      /\ server[n] # NoSession \/ server[n].confirmed => server[n].index # Nil /\ server[n].remote # Nil
  BY DEF EndsTypeOK
<1>2. /\ client[n].remote # Nil => client[n].remote \in C!Index
      /\ server[n].index # Nil => server[n].index \in C!Index
      /\ server[n].remote # Nil => server[n].remote \in C!Index
  BY <1>1 DEF Session
<1>3. 0 \in C!Index
  BY MWGPAssumption DEF C!Index
<1>4. ASSUME NEW i \in C!Index
      PROVE  C!Initiation(i, ClientKey, ClientAddr, {}, n) \in C!Packet
  BY Zenon, <1>3 DEF C!Initiation, C!FixMACs, C!Datagram, C!Packet, C!Mac, C!Addrs, MWGPConfig
<1>5. ASSUME NEW r \in C!Index
      PROVE  /\ C!Datagram("client", "transport", 0, r, ClientAddr, n) \in C!Packet
             /\ S!Datagram("server", "transport", 0, r, ServerAddr, n) \in S!Packet
  BY Zenon, <1>3 DEF C!Datagram, S!Datagram, C!Packet, S!Packet, C!Mac, S!Mac, C!Addrs, S!Addrs, C!Index, S!Index
<1>6. ASSUME NEW i \in C!Index, NEW r \in C!Index
      PROVE  S!FixMACs(S!Datagram("server", "response", i, r, ServerAddr, n), ClientKey) \in S!Packet
  BY DEF S!FixMACs, S!Datagram, S!Packet, S!Mac, S!Addrs, C!Index, S!Index
<1>. QED  BY ZenonT(60), <1>1, <1>2, <1>4, <1>5, <1>6

\* A session of the server has both indices from the start.
LEMMA ServerTypes ==
  ASSUME EndsTypeOK, COK, SOK, ServerReceives
  PROVE  EndsTypeOK'
<1>. DEFINE pkt == Head(sServerWriteChan)
<1>1. pkt \in S!Packet
  BY Zenon, ChannelTypes, HeadElement DEF ServerReceives, S!WriteToServer
<1>2. /\ UNCHANGED <<wire, client>>
      /\ \/ \E j \in Fresh(ServerSenders[pkt.data], server) :
              server' = [server EXCEPT ![pkt.data] =
                           [index |-> j, remote |-> pkt.sender, confirmed |-> FALSE]]
         \/ server' = [server EXCEPT ![pkt.data].confirmed =
                         @ \/ (pkt.type = "transport" /\ ServerAccepts(pkt))]
  BY ZenonT(60) DEF ServerReceives
<1>. HIDE DEF pkt
<1>3. pkt.sender \in C!Index /\ pkt.receiver \in C!Index
  BY <1>1 DEF S!Packet, S!Index, C!Index
<1>4. Nil \notin C!Index /\ \A n \in Handshakes : ServerSenders[n] \subseteq C!Index
  BY MWGPAssumption DEF C!Index
<1>5. server \in [Handshakes -> Session] /\ \A n \in Handshakes : server[n] \in Session
  BY DEF EndsTypeOK
<1>. DEFINE Whole(s) == s \in Session /\ (s # NoSession \/ s.confirmed => s.index # Nil /\ s.remote # Nil)
<1>6. \A n \in Handshakes : Whole(server[n])
  BY Zenon, <1>5 DEF EndsTypeOK
<1>7. CASE pkt.data \notin Handshakes
  BY ZenonT(60), <1>2, <1>5, <1>7 DEF EndsTypeOK
<1>8. ASSUME pkt.data \in Handshakes, NEW j \in Fresh(ServerSenders[pkt.data], server),
             server' = [server EXCEPT ![pkt.data] =
                          [index |-> j, remote |-> pkt.sender, confirmed |-> FALSE]]
      PROVE  EndsTypeOK'
  <2>. DEFINE s == [index |-> j, remote |-> pkt.sender, confirmed |-> FALSE]
  <2>1. j \in C!Index
    BY <1>4, <1>8 DEF Fresh
  <2>2. Whole(s)
    BY ZenonT(60), <1>3, <1>4, <2>1 DEF Session
  <2>3. server' = [server EXCEPT ![pkt.data] = s]
    BY ZenonT(60), <1>8
  <2>. HIDE DEF s, Whole
  <2>4. DOMAIN server' = Handshakes /\ server' = [n \in Handshakes |-> server'[n]]
    BY ZenonT(60), <1>5, <2>3
  <2>5. \A n \in Handshakes : Whole(server'[n])
    BY <1>5, <1>6, <2>2, <2>3
  <2>. QED  BY <1>2, <2>4, <2>5 DEF EndsTypeOK, Whole
<1>9. ASSUME pkt.data \in Handshakes,
             server' = [server EXCEPT ![pkt.data].confirmed =
                          @ \/ (pkt.type = "transport" /\ ServerAccepts(pkt))]
      PROVE  EndsTypeOK'
  <2>. DEFINE b == server[pkt.data].confirmed \/ (pkt.type = "transport" /\ ServerAccepts(pkt))
              s == [server[pkt.data] EXCEPT !.confirmed = b]
  <2>1. b \in BOOLEAN /\ (b => server[pkt.data].index # Nil)
    <3>1. pkt.type = "transport" /\ ServerAccepts(pkt) => pkt.receiver = server[pkt.data].index
      BY DEF ServerAccepts
    <3>2. server[pkt.data].confirmed \in BOOLEAN
      BY <1>5, <1>9 DEF Session
    <3>. QED  BY <1>3, <1>4, <1>6, <1>9, <3>1, <3>2
  <2>2. server' = [server EXCEPT ![pkt.data] = s]
    BY ZenonT(60), <1>5, <1>9
  <2>. HIDE DEF b
  <2>3. s \in Session /\ s.index = server[pkt.data].index /\ s.remote = server[pkt.data].remote /\ s.confirmed = b
    <3>1. server[pkt.data] \in Session
      BY ZenonT(60), <1>5, <1>9
    <3>. QED  BY <2>1, <3>1 DEF Session
  <2>4. server[pkt.data].index # Nil => server[pkt.data].remote # Nil
    <3>1. server[pkt.data].index # Nil => server[pkt.data] # NoSession
      BY DEF NoSession
    <3>. QED  BY <1>6, <1>9, <3>1
  <2>5. ~b => s = NoSession \/ server[pkt.data].index # Nil
    <3>1. ~b => s = server[pkt.data]
      BY <1>5, <1>9, <2>1 DEF Session, b
    <3>. QED  BY <1>6, <1>9, <3>1
  <2>. HIDE DEF s
  <2>6. Whole(s)
    BY <2>1, <2>3, <2>4, <2>5
  <2>. HIDE DEF Whole
  <2>7. DOMAIN server' = Handshakes /\ server' = [n \in Handshakes |-> server'[n]]
    BY Zenon, <1>5, <2>2
  <2>8. \A n \in Handshakes : Whole(server'[n])
    BY <1>5, <1>6, <2>2, <2>6
  <2>. QED  BY <1>2, <2>7, <2>8 DEF EndsTypeOK, Whole
<1>. QED  BY ZenonT(60), <1>2, <1>7, <1>8, <1>9

\* Every step keeps the types of the endpoints and the wire.
LEMMA NextEnds ==
  ASSUME EndsTypeOK, COK, SOK, [Next]_vars
  PROVE  EndsTypeOK'
<1>1. CASE UNCHANGED <<wire, client, server>>
  BY Zenon, <1>1 DEF EndsTypeOK
<1>2. ASSUME NEW n \in Handshakes, SendInitiation(n)
      PROVE  EndsTypeOK'
  <2>1. PICK i \in ClientSenders[n] : client' = [client EXCEPT ![n].index = i]
    BY ZenonT(60), <1>2 DEF SendInitiation, Fresh
  <2>2. i \in C!Index
    BY <2>1, MWGPAssumption DEF C!Index
  <2>3. client' \in [Handshakes -> Session]
    BY <2>1, <2>2 DEF EndsTypeOK, Session
  <2>. QED  BY ZenonT(60), <1>2, <2>3 DEF SendInitiation, EndsTypeOK
<1>3. CASE ClientReceives
  <2>1. Head(cClientWriteChan) \in C!Packet
    BY Zenon, <1>3, ChannelTypes, HeadElement DEF ClientReceives, C!WriteToClient
  <2>2. Head(cClientWriteChan).sender \in C!Index
    BY <2>1 DEF C!Packet
  <2>3. client' \in [Handshakes -> Session]
    <3>1. \/ client' = client
          \/ \E d : client' = [client EXCEPT ![d] = [@ EXCEPT !.remote = Head(cClientWriteChan).sender,
                                                               !.confirmed = TRUE]]
      BY ZenonT(60), <1>3 DEF ClientReceives
    <3>2. client \in [Handshakes -> Session]
      BY DEF EndsTypeOK
    <3>3. ASSUME NEW d, NEW r \in C!Index,
                 client' = [client EXCEPT ![d] = [@ EXCEPT !.remote = r, !.confirmed = TRUE]]
          PROVE  client' \in [Handshakes -> Session]
      BY ZenonT(60), <3>2, <3>3 DEF Session
    <3>. QED  BY ZenonT(60), <2>2, <3>1, <3>2, <3>3
  <2>. QED  BY ZenonT(60), <1>3, <2>3 DEF ClientReceives, EndsTypeOK
<1>4. CASE ClientProxyWrites
  <2>1. Head(cServerWriteChan) \in C!Packet
    BY Zenon, <1>4, ChannelTypes, HeadElement DEF ClientProxyWrites, C!WriteToServer
  <2>2. Carried("server", Head(cServerWriteChan), TRUE) \in WireMessage
    BY ZenonT(60), <2>1, WireTypes
  <2>. QED  BY Zenon, <1>4, <2>2 DEF ClientProxyWrites, EndsTypeOK
<1>5. CASE ServerProxyWrites
  <2>. DEFINE pkt == Head(sClientWriteChan)
  <2>1. pkt \in S!Packet
    BY Zenon, <1>5, ChannelTypes, HeadElement DEF ServerProxyWrites, S!WriteToClient
  <2>2. Carried("client", pkt, S!Obfuscate \in pkt.flags) \in WireMessage
    <3>1. (S!Obfuscate \in pkt.flags) \in BOOLEAN
      OBVIOUS
    <3>. HIDE DEF pkt
    <3>. QED  BY ZenonT(60), <2>1, <3>1, WireTypes
  <2>3. /\ wire' = wire \cup {Carried("client", pkt, S!Obfuscate \in pkt.flags)}
        /\ UNCHANGED <<client, server>>
    BY <1>5 DEF ServerProxyWrites
  <2>. QED  BY ZenonT(60), <2>2, <2>3 DEF EndsTypeOK
<1>6. CASE ServerReceives
  BY ZenonT(60), <1>6, ServerTypes
<1>. QED
  BY ZenonT(60), <1>1, <1>2, <1>3, <1>4, <1>5, <1>6
  DEF Next, SendClientTransport, SendResponse, SendServerTransport, ClientProxyReads, ServerProxyReads,
      ClientProxyStep, ServerProxyStep, others, vars

-----------------------------------------------------------------------------
(***************************************************************************)
(* What a step of the composition is to each of its parts.                 *)
(***************************************************************************)
\* What the client and the wire bring to mwgp-client.
LEMMA ArrivesAtClient ==
  ASSUME EndsTypeOK, EndsInv
  PROVE  /\ \A n \in Handshakes : \A i \in C!Index :
              C!Initiation(i, ClientKey, ClientAddr, {}, n) \in CArrivals
         /\ \A n \in Handshakes : client[n].remote # Nil =>
              C!Datagram("client", "transport", 0, client[n].remote, ClientAddr, n) \in CArrivals
         /\ \A m \in wire : Arriving(m, "server", ListenAddr) \in CArrivals
<1>1. ASSUME NEW n \in Handshakes, NEW i \in C!Index
      PROVE  C!Initiation(i, ClientKey, ClientAddr, {}, n) \in CArrivals
  <2>1. PktSigned(C!Initiation(i, ClientKey, ClientAddr, {}, n))
    BY DEF PktSigned, Signed, C!Initiation, C!FixMACs, C!Datagram, MWGPConfig
  <2>. QED  BY Zenon, <2>1, EndpointTypes DEF CArrivals
<1>2. ASSUME NEW n \in Handshakes, client[n].remote # Nil
      PROVE  C!Datagram("client", "transport", 0, client[n].remote, ClientAddr, n) \in CArrivals
  <2>1. PktSigned(C!Datagram("client", "transport", 0, client[n].remote, ClientAddr, n))
    BY ZenonT(60) DEF PktSigned, C!Datagram
  <2>. QED  BY Zenon, <1>2, <2>1, EndpointTypes DEF CArrivals
<1>3. ASSUME NEW m \in wire
      PROVE  Arriving(m, "server", ListenAddr) \in CArrivals
  <2>1. Running => PktSigned(Arriving(m, "server", ListenAddr))
    BY ZenonT(60) DEF EndsInv, WireInv, PktSigned, Signed, Arriving
  <2>2. Arriving(m, "server", ListenAddr) \in C!Packet
    BY ZenonT(60), WireTypes DEF EndsTypeOK
  <2>. QED  BY Zenon, <2>1, <2>2 DEF CArrivals
<1>. QED  BY Zenon, <1>1, <1>2, <1>3

\* What the server and the wire bring to mwgp-server.
LEMMA ArrivesAtServer ==
  ASSUME EndsTypeOK, EndsInv
  PROVE  /\ \A n \in Handshakes : server[n] # NoSession =>
              S!FixMACs(S!Datagram("server", "response", server[n].index, server[n].remote, ServerAddr, n),
                        ClientKey) \in SArrivals
         /\ \A n \in Handshakes : server[n].confirmed =>
              S!Datagram("server", "transport", 0, server[n].remote, ServerAddr, n) \in SArrivals
         /\ \A m \in wire : m.to = "server" => Arriving(m, "client", ProxyAddr) \in SArrivals
<1>1. ASSUME NEW n \in Handshakes, server[n] # NoSession \/ server[n].confirmed, sRestarts = 0
      PROVE  Good(server[n].remote, sClientMap, sPeers, sAllocated)
  BY ZenonT(60), <1>1 DEF EndsTypeOK, EndsInv, EndsGood
<1>2. ASSUME NEW n \in Handshakes, server[n] # NoSession
      PROVE  S!FixMACs(S!Datagram("server", "response", server[n].index, server[n].remote, ServerAddr, n),
                       ClientKey) \in SArrivals
  <2>. DEFINE pkt == S!FixMACs(S!Datagram("server", "response", server[n].index, server[n].remote,
                                          ServerAddr, n), ClientKey)
  <2>1. pkt.from = "server" /\ pkt.type = "response" /\ pkt.receiver = server[n].remote /\ PktSigned(pkt)
    BY DEF PktSigned, Signed, S!FixMACs, S!Datagram
  <2>2. pkt \in S!Packet
    BY Zenon, <1>2, EndpointTypes
  <2>. HIDE DEF pkt
  <2>3. pkt.type # "initiation"
    BY <2>1
  <2>4. pkt \in SArrivals
    BY Zenon, <1>1, <1>2, <2>1, <2>2, <2>3 DEF SArrivals
  <2>. QED  BY Zenon, <2>4 DEF pkt
<1>3. ASSUME NEW n \in Handshakes, server[n].confirmed
      PROVE  S!Datagram("server", "transport", 0, server[n].remote, ServerAddr, n) \in SArrivals
  <2>. DEFINE pkt == S!Datagram("server", "transport", 0, server[n].remote, ServerAddr, n)
  <2>1. pkt.from = "server" /\ pkt.type = "transport" /\ pkt.receiver = server[n].remote
    BY DEF S!Datagram
  <2>2. pkt \in S!Packet
    BY Zenon, <1>3, EndpointTypes
  <2>. HIDE DEF pkt
  <2>3. pkt.type # "initiation" /\ pkt.type # "response"
    BY <2>1
  <2>4. pkt \in SArrivals
    BY Zenon, <1>1, <1>3, <2>1, <2>2, <2>3 DEF SArrivals, PktSigned
  <2>. QED  BY Zenon, <2>4 DEF pkt
<1>4. ASSUME NEW m \in wire, m.to = "server"
      PROVE  Arriving(m, "client", ProxyAddr) \in SArrivals
  <2>. DEFINE pkt == Arriving(m, "client", ProxyAddr)
  <2>1. /\ pkt.from = "client" /\ (Running => PktSigned(pkt))
        /\ pkt.type = "initiation" => S!Deobfuscated \in pkt.flags /\ pkt.sender # 0
    BY ZenonT(60), <1>4 DEF EndsInv, WireInv, PktSigned, Signed, Arriving, S!Deobfuscated, C!Deobfuscated
  <2>2. pkt \in S!Packet
    BY ZenonT(60), WireTypes DEF EndsTypeOK
  <2>. HIDE DEF pkt
  <2>3. pkt.from # "server"
    BY <2>1
  <2>4. pkt \in SArrivals
    BY Zenon, <2>1, <2>2, <2>3 DEF SArrivals
  <2>. QED  BY Zenon, <2>4 DEF pkt
<1>. QED  BY Zenon, <1>2, <1>3, <1>4

\* What a step of the composition is to mwgp-client, ...
LEMMA ClientSees ==
  ASSUME EndsTypeOK, EndsInv, [Next]_vars
  PROVE  \/ (\E g \in Goroutines : C!HandlerStep(g)) \/ C!MainStep \/ C!Resolve(ListenAddr)
         \/ C!PersistForwardTableCache \/ C!Restart \/ C!WriteToServer \/ C!WriteToClient
         \/ \E pkt \in CArrivals :
              C!ReceiveTransport(pkt) \/ \E g \in Goroutines : C!ReceiveHandshake(g, pkt)
         \/ UNCHANGED cVars
<1>1. ASSUME NEW n \in Handshakes, SendInitiation(n)
      PROVE  \E pkt \in CArrivals : \E g \in Goroutines : C!ReceiveHandshake(g, pkt)
  <2>1. \A i \in ClientSenders[n] : i \in C!Index
    BY MWGPAssumption DEF C!Index
  <2>. QED  BY ZenonT(60), <1>1, <2>1, ArrivesAtClient DEF SendInitiation, Fresh
<1>2. ASSUME NEW n \in Handshakes, SendClientTransport(n)
      PROVE  \E pkt \in CArrivals : C!ReceiveTransport(pkt)
  BY ZenonT(60), <1>2, ArrivesAtClient DEF SendClientTransport
<1>3. ASSUME ClientProxyReads
      PROVE  \E pkt \in CArrivals :
               C!ReceiveTransport(pkt) \/ \E g \in Goroutines : C!ReceiveHandshake(g, pkt)
  BY ZenonT(60), <1>3, ArrivesAtClient DEF ClientProxyReads
<1>. QED
  BY ZenonT(60), <1>1, <1>2, <1>3
  DEF Next, ClientReceives, ServerReceives, SendResponse, SendServerTransport, ClientProxyWrites,
      ServerProxyWrites, ServerProxyReads, ClientProxyStep, ServerProxyStep, vars

\* ... and to mwgp-server.
LEMMA ServerSees ==
  ASSUME EndsTypeOK, EndsInv, [Next]_vars
  PROVE  \/ (\E g \in Goroutines : S!HandlerStep(g)) \/ S!MainStep
         \/ S!PersistForwardTableCache \/ S!Restart \/ S!WriteToServer \/ S!WriteToClient
         \/ \E pkt \in SArrivals :
              S!ReceiveTransport(pkt) \/ \E g \in Goroutines : S!ReceiveHandshake(g, pkt)
         \/ UNCHANGED sVars
<1>1. ASSUME NEW n \in Handshakes, SendResponse(n)
      PROVE  \E pkt \in SArrivals : \E g \in Goroutines : S!ReceiveHandshake(g, pkt)
  BY ZenonT(60), <1>1, ArrivesAtServer DEF SendResponse
<1>2. ASSUME NEW n \in Handshakes, SendServerTransport(n)
      PROVE  \E pkt \in SArrivals : S!ReceiveTransport(pkt)
  BY ZenonT(60), <1>2, ArrivesAtServer DEF SendServerTransport
<1>3. ASSUME ServerProxyReads
      PROVE  \E pkt \in SArrivals :
               S!ReceiveTransport(pkt) \/ \E g \in Goroutines : S!ReceiveHandshake(g, pkt)
  BY ZenonT(60), <1>3, ArrivesAtServer DEF ServerProxyReads
<1>. QED
  BY ZenonT(60), <1>1, <1>2, <1>3
  DEF Next, ClientReceives, ServerReceives, SendInitiation, SendClientTransport, ClientProxyWrites,
      ServerProxyWrites, ClientProxyReads, ClientProxyStep, ServerProxyStep, vars

\* What a step of the composition is to the wire and to the server's sessions:
\* a proxy sends, or an initiation tells the server of an index.
LEMMA EndsSee ==
  ASSUME EndsTypeOK, COK, SOK, [Next]_vars
  PROVE  \/ UNCHANGED <<wire, server>>
         \/ /\ server' = server
            /\ \E pkt \in Elements(cServerWriteChan) : wire' = wire \cup {Carried("server", pkt, TRUE)}
         \/ /\ server' = server
            /\ \E pkt \in Elements(sClientWriteChan) :
                 wire' = wire \cup {Carried("client", pkt, S!Obfuscate \in pkt.flags)}
         \/ /\ wire' = wire
            /\ \E pkt \in Elements(sServerWriteChan) : \A n \in Handshakes :
                 \/ server'[n].remote = server[n].remote
                 \/ pkt.type = "initiation" /\ server'[n].remote = pkt.sender
<1>1. CASE ClientProxyWrites
  BY Zenon, <1>1, ChannelTypes, HeadElement DEF ClientProxyWrites, C!WriteToServer
<1>2. CASE ServerProxyWrites
  BY Zenon, <1>2, ChannelTypes, HeadElement DEF ServerProxyWrites, S!WriteToClient
<1>3. CASE ServerReceives
  <2>. DEFINE pkt == Head(sServerWriteChan)
  <2>1. /\ wire' = wire
        /\ \/ /\ pkt.type = "initiation"
              /\ \E j : server' = [server EXCEPT ![pkt.data] =
                                     [index |-> j, remote |-> pkt.sender, confirmed |-> FALSE]]
           \/ \E b : server' = [server EXCEPT ![pkt.data].confirmed = b]
    BY Zenon, <1>3 DEF ServerReceives, Starts
  <2>2. pkt \in Elements(sServerWriteChan)
    BY Zenon, <1>3, ChannelTypes, HeadElement DEF ServerReceives, S!WriteToServer
  <2>. HIDE DEF pkt
  <2>3. server \in [Handshakes -> Session]
    BY DEF EndsTypeOK
  <2>4. ASSUME NEW b, server' = [server EXCEPT ![pkt.data].confirmed = b], NEW n \in Handshakes
        PROVE  server'[n].remote = server[n].remote
    BY <2>3, <2>4 DEF Session
  <2>5. ASSUME NEW r, server' = [server EXCEPT ![pkt.data] = r], NEW n \in Handshakes
        PROVE  server'[n] \in {server[n], r}
    BY <2>3, <2>5
  <2>6. ASSUME NEW j, server' = [server EXCEPT ![pkt.data] =
                                   [index |-> j, remote |-> pkt.sender, confirmed |-> FALSE]],
               NEW n \in Handshakes
        PROVE  server'[n].remote \in {server[n].remote, pkt.sender}
    <3>. DEFINE r == [index |-> j, remote |-> pkt.sender, confirmed |-> FALSE]
    <3>1. r.remote = pkt.sender
      OBVIOUS
    <3>2. server'[n] \in {server[n], r}
      BY Zenon, <2>5, <2>6
    <3>. HIDE DEF r
    <3>. QED  BY <3>1, <3>2
  <2>7. \A n \in Handshakes : \/ server'[n].remote = server[n].remote
                              \/ pkt.type = "initiation" /\ server'[n].remote = pkt.sender
    BY ZenonT(60), <2>1, <2>4, <2>6
  <2>. QED  BY Zenon, <2>1, <2>2, <2>7
<1>. QED
  BY ZenonT(60), <1>1, <1>2, <1>3
  DEF Next, SendInitiation, SendClientTransport, SendResponse, SendServerTransport, ClientReceives,
      ClientProxyReads, ServerProxyReads, ClientProxyStep, ServerProxyStep, others, vars

\* The wire stays signed and obfuscated, and the server knows only of indices
\* that lead to marked peers, if the proxies do their part.
LEMMA NextEndsInv ==
  ASSUME EndsTypeOK, COK, SOK, ChanInv, EndsInv, [Next]_vars,
         Running' => Running,
         sRestarts' = 0 => /\ sRestarts = 0
                           /\ \A i \in C!Index : Good(i, sClientMap, sPeers, sAllocated) =>
                                                   Good(i, sClientMap', sPeers', sAllocated')
  PROVE  EndsInv'
<1>1. \A m \in wire' : \/ m \in wire
                       \/ /\ m.to = "server" => m.obfuscated /\ (m.type = "initiation" => m.sender # 0)
                          /\ Running => PktSigned(m)
                          /\ sRestarts = 0 => m.obfuscated
  <2>1. ASSUME NEW pkt \in Elements(cServerWriteChan)
        PROVE  LET m == Carried("server", pkt, TRUE)
               IN  m.obfuscated /\ (m.type = "initiation" => m.sender # 0) /\ (Running => PktSigned(m))
    BY ZenonT(60), <2>1 DEF ChanInv, Carried, PktSigned, Signed
  <2>2. ASSUME NEW pkt \in Elements(sClientWriteChan)
        PROVE  LET m == Carried("client", pkt, S!Obfuscate \in pkt.flags)
               IN  m.to # "server" /\ (Running => PktSigned(m)) /\ (sRestarts = 0 => m.obfuscated)
    BY ZenonT(60), <2>2 DEF ChanInv, Carried, PktSigned, Signed
  <2>3. CASE wire' = wire
    BY <2>3
  <2>4. ASSUME NEW pkt \in Elements(cServerWriteChan), wire' = wire \cup {Carried("server", pkt, TRUE)},
               NEW m \in wire', m \notin wire
        PROVE  m.obfuscated /\ (m.type = "initiation" => m.sender # 0) /\ (Running => PktSigned(m))
    <3>1. m = Carried("server", pkt, TRUE)
      BY Zenon, <2>4
    <3>. QED  BY Zenon, <2>1, <3>1
  <2>5. ASSUME NEW pkt \in Elements(sClientWriteChan),
               wire' = wire \cup {Carried("client", pkt, S!Obfuscate \in pkt.flags)},
               NEW m \in wire', m \notin wire
        PROVE  m.to # "server" /\ (Running => PktSigned(m)) /\ (sRestarts = 0 => m.obfuscated)
    <3>1. m = Carried("client", pkt, S!Obfuscate \in pkt.flags)
      BY Zenon, <2>5
    <3>. QED  BY Zenon, <2>2, <3>1
  <2>. QED  BY ZenonT(60), <2>3, <2>4, <2>5, EndsSee
<1>2. ASSUME NEW n \in Handshakes, server'[n].remote # Nil, sRestarts = 0
      PROVE  Good(server'[n].remote, sClientMap, sPeers, sAllocated) /\ server'[n].remote \in C!Index
  <2>1. Good(server'[n].remote, sClientMap, sPeers, sAllocated)
    BY ZenonT(60), <1>2, EndsSee DEF ChanInv, EndsInv, EndsGood
  <2>2. server'[n].remote \in C!Index
    BY ZenonT(60), <1>2, NextEnds DEF EndsTypeOK, Session
  <2>. QED  BY <2>1, <2>2
<1>3. WireInv'
  BY ZenonT(60), <1>1 DEF EndsInv, WireInv
<1>4. ASSUME sRestarts' = 0
      PROVE  EndsGood'
  BY ZenonT(60), <1>1, <1>2, <1>4 DEF EndsInv, EndsGood
<1>. QED  BY Zenon, <1>3, <1>4 DEF EndsInv

\* Nothing has been sent at the start.
LEMMA EndsStart ==
  ASSUME Init
  PROVE  EndsTypeOK /\ EndsInv
<1>1. NoSession \in Session /\ ~NoSession.confirmed /\ NoSession.remote = Nil
  BY DEF NoSession, Session
<1>2. EndsTypeOK
  BY ZenonT(60), <1>1 DEF Init, EndsTypeOK
<1>3. EndsInv
  BY ZenonT(60), <1>1 DEF Init, EndsInv, WireInv, EndsGood
<1>. QED  BY <1>2, <1>3

-----------------------------------------------------------------------------
(***************************************************************************)
(* mwgp-client is an instance of WGIT in an environment of its own, so     *)
(* what WGITPacketProofs shows of a step holds of its steps.  Zenon does   *)
(* the proofs from here on; facts are unnamed where they are used at once. *)
(***************************************************************************)
CP == INSTANCE WGITPacketProofs WITH
  Clients <- {ClientKey}, Servers <- {ServerKey}, Strangers <- {}, Senders <- 0..MaxIndex,
  Config <- MWGPConfig(ListenAddr), IsClient <- TRUE, Self <- ClientKey,
  ClientAddrs <- {ClientAddr}, ServerAddrs <- {ListenAddr}, Obfuscates <- TRUE,
  Payloads <- Handshakes, Timeout <- 1, DebugAlwaysGenerateProxyIndex <- FALSE, Traffic <- {},
  MaxTime <- 0,
  peers <- cPeers, allocated <- cAllocated, clientMap <- cClientMap, serverMap <- cServerMap,
  mapLock <- cMapLock, handler <- cHandler, main <- cMain,
  clientWriteChan <- cClientWriteChan, serverWriteChan <- cServerWriteChan,
  now <- cNow, expireChan <- cExpireChan, resolved <- cResolved, resolver <- cResolver,
  persisting <- cPersisting, disk <- cDisk, restarts <- cRestarts

USE ZenonT(60)

\* WGITProofs' assumption on the constants holds in mwgp-client.
LEMMA CConstants == CP!ConstantsAssumption
<1>. MWGPConfig(ListenAddr) \in [{ClientKey} -> CP!ConfigPeer]
  BY InRange DEF MWGPConfig, CP!ConfigPeer, CP!Levels, CP!LevelDefault, CP!LevelIPAndPort
<1>. Nil \notin CP!Addrs \cup Goroutines \cup {ClientKey} \cup {ServerKey}
  BY MWGPAssumption DEF CP!Addrs
<1>. /\ 0..MaxIndex \subseteq CP!Index
     /\ {ClientKey} \cap {} = {} /\ Nil \notin {} /\ ClientKey \in {ClientKey}
     /\ TRUE \in BOOLEAN /\ FALSE \in BOOLEAN
  BY DEF CP!Index
<1>. QED  BY InRange DEF CP!ConstantsAssumption

\* The two instances of WGIT, C and that of the proofs, are the same: ...
LEMMA CSame ==
  /\ (COK <=> CP!Sound) /\ (COK' <=> CP!Sound')
  /\ C!Packet = CP!Packet
  /\ C!Init => CP!Init
  /\ \A g \in Goroutines : C!HandlerStep(g) => CP!HandlerStep(g)
  /\ C!MainStep => CP!MainStep
  /\ \A a : C!Resolve(a) => CP!Resolve(a)
  /\ C!PersistForwardTableCache => CP!PersistForwardTableCache
  /\ C!Restart => CP!Restart
  /\ C!WriteToServer => CP!WriteToServer
  /\ C!WriteToClient => CP!WriteToClient
  /\ \A pkt : C!ReceiveTransport(pkt) => CP!ReceiveTransport(pkt)
  /\ \A g \in Goroutines : \A pkt : C!ReceiveHandshake(g, pkt) => CP!ReceiveHandshake(g, pkt)
  /\ UNCHANGED cVars => UNCHANGED CP!vars
<1>. ASSUME NEW g \in Goroutines, C!HandlerStep(g) PROVE CP!HandlerStep(g)
  BY DEF C!HandlerStep, C!RejectHandshake, C!Rejected, C!ExtractPeerFunc, C!LevelDefault, C!Idle,
      C!NoPacket, C!Datagram, C!NoPeer, C!tableVars, C!chanVars, C!timeVars, C!resolveVars,
      C!diskVars, C!ExtractPeer, C!NewPeer, C!LockClientMap, C!EnterGenerate, C!FirstProxyIndex,
      C!DrawProxyIndex, C!RetryProxyIndex, C!Index, C!RegisterClient, C!ClientRegistered, C!Unlock,
      C!Deobfuscated, C!MarkObfuscated, C!MissClientMap, C!LockServerMap, C!RegisterServer,
      C!ServerRegistered, C!ProcessCookieReply, C!PatchHandshake, C!Translated, C!Patch,
      C!PatchInitiation, C!FixMACs, C!SetSenderIndex, C!PatchReceiver, C!SetReceiverIndex,
      C!RewriteResponse, C!PatchResponse, C!AddressHandshake, C!Address, C!Obfuscate,
      C!SendHandshake, C!Send, CP!HandlerStep, CP!RejectHandshake, CP!Rejected, CP!ExtractPeerFunc,
      CP!LevelDefault, CP!Idle, CP!NoPacket, CP!Datagram, CP!NoPeer, CP!tableVars, CP!chanVars,
      CP!timeVars, CP!resolveVars, CP!diskVars, CP!ExtractPeer, CP!NewPeer, CP!LockClientMap,
      CP!EnterGenerate, CP!FirstProxyIndex, CP!DrawProxyIndex, CP!RetryProxyIndex, CP!Index,
      CP!RegisterClient, CP!ClientRegistered, CP!Unlock, CP!Deobfuscated, CP!MarkObfuscated,
      CP!MissClientMap, CP!LockServerMap, CP!RegisterServer, CP!ServerRegistered,
      CP!ProcessCookieReply, CP!PatchHandshake, CP!Translated, CP!Patch, CP!PatchInitiation,
      CP!FixMACs, CP!SetSenderIndex, CP!PatchReceiver, CP!SetReceiverIndex, CP!RewriteResponse,
      CP!PatchResponse, CP!AddressHandshake, CP!Address, CP!Obfuscate, CP!SendHandshake, CP!Send
<1>. /\ (COK <=> CP!Sound) /\ (COK' <=> CP!Sound')
     /\ C!Packet = CP!Packet
  BY DEF C!TypeOK, C!PeerIds, C!Peer, C!Index, C!Addrs, C!Levels, C!LevelDefault, C!LevelIPAndPort,
      C!Handler, C!Packet, C!Mac, C!Deobfuscated, C!Obfuscate, C!NoPeer, C!MainLoop, C!CacheRecord,
      C!TableInv, C!TableKeyed, C!IsServerReplied, C!Bounded, C!Registered, C!OwnersSound, C!Owns,
      C!OwnersDistinct, C!RespondersSound, C!Loadable, CP!TypeOK, CP!PeerIds, CP!Peer, CP!Index,
      CP!Addrs, CP!Levels, CP!LevelDefault, CP!LevelIPAndPort, CP!Handler, CP!Packet, CP!Mac,
      CP!Deobfuscated, CP!Obfuscate, CP!NoPeer, CP!MainLoop, CP!CacheRecord, CP!TableInv,
      CP!TableKeyed, CP!IsServerReplied, CP!Bounded, CP!Registered, CP!OwnersSound, CP!Owns,
      CP!OwnersDistinct, CP!RespondersSound, CP!Loadable, COK, CP!Sound
<1>. C!MainStep => CP!MainStep
  BY DEF C!MainStep, C!ReceiveTick, C!Select, C!NoPacket, C!Datagram, C!NoPeer, C!tableVars,
      C!chanVars, C!resolveVars, C!diskVars, C!ReceiveUpdate, C!timeVars, C!DropTransport,
      C!LookupTransport, C!ProcessMessageTransport, C!TransportAllowed, C!SourceAllowed, C!LevelIP,
      C!LevelIPAndPort, C!LevelDefault, C!PatchTransport, C!Address, C!Obfuscate, C!PatchReceiver,
      C!SetReceiverIndex, C!SendTransport, C!Send, C!HandlePeersExpireCheck, C!ExpiredPeers,
      C!Values, C!Index, C!Idling, C!ServerIndicesOf, C!HandleAllServerDestinationUpdate, C!PeerIds,
      CP!MainStep, CP!ReceiveTick, CP!Select, CP!NoPacket, CP!Datagram, CP!NoPeer, CP!tableVars,
      CP!chanVars, CP!resolveVars, CP!diskVars, CP!ReceiveUpdate, CP!timeVars, CP!DropTransport,
      CP!LookupTransport, CP!ProcessMessageTransport, CP!TransportAllowed, CP!SourceAllowed,
      CP!LevelIP, CP!LevelIPAndPort, CP!LevelDefault, CP!PatchTransport, CP!Address, CP!Obfuscate,
      CP!PatchReceiver, CP!SetReceiverIndex, CP!SendTransport, CP!Send, CP!HandlePeersExpireCheck,
      CP!ExpiredPeers, CP!Values, CP!Index, CP!Idling, CP!ServerIndicesOf,
      CP!HandleAllServerDestinationUpdate, CP!PeerIds
<1>. (C!Init => CP!Init) /\ (C!Restart => CP!Restart)
  BY DEF C!Init, C!PeerIds, C!ZeroPeer, C!LevelDefault, C!Index, C!NoPeer, C!Idle, C!NoPacket,
      C!Datagram, C!Select, C!Restart, C!LoadedPeer, C!LastRecord, CP!Init, CP!PeerIds, CP!ZeroPeer,
      CP!LevelDefault, CP!Index, CP!NoPeer, CP!Idle, CP!NoPacket, CP!Datagram, CP!Select,
      CP!Restart, CP!LoadedPeer, CP!LastRecord
<1>. /\ C!PersistForwardTableCache => CP!PersistForwardTableCache
     /\ \A a : C!Resolve(a) => CP!Resolve(a)
     /\ C!WriteToServer => CP!WriteToServer
     /\ C!WriteToClient => CP!WriteToClient
     /\ \A pkt : C!ReceiveTransport(pkt) => CP!ReceiveTransport(pkt)
     /\ \A g \in Goroutines : \A pkt : C!ReceiveHandshake(g, pkt) => CP!ReceiveHandshake(g, pkt)
     /\ UNCHANGED cVars => UNCHANGED CP!vars
  BY DEF C!PersistForwardTableCache, C!Snapshot, C!CachePeer, C!Values, C!Index, C!NoPeer, C!tableVars,
      C!chanVars, C!timeVars, C!resolveVars, C!WriteToServer, C!diskVars, C!WriteToClient,
      C!ReceiveTransport, C!Select, C!NoPacket, C!Datagram, C!ReceiveHandshake, C!Idle, C!Resolve,
      CP!PersistForwardTableCache, CP!Snapshot, CP!CachePeer, CP!Values, CP!Index, CP!NoPeer,
      CP!tableVars, CP!chanVars, CP!timeVars, CP!resolveVars, CP!WriteToServer, CP!diskVars,
      CP!WriteToClient, CP!ReceiveTransport, CP!Select, CP!NoPacket, CP!Datagram,
      CP!ReceiveHandshake, CP!Idle, CP!Resolve, cVars, CP!vars
<1>. QED  OBVIOUS

\* ... and so are the words of WGITPacketProofs and those used here.
LEMMA CWords ==
  /\ CP!Paired
  /\ \A m : CP!PktSigned(m) <=> PktSigned(m)
  /\ \A q : CP!Elements(q) = Elements(q)
<1>. CP!ClientKey = ClientKey
  BY DEF CP!ClientKey
<1>. CP!ServerKey = ServerKey
  BY DEF CP!ServerKey, MWGPConfig
<1>. QED
  BY DEF CP!Paired, CP!PktSigned, PktSigned, CP!Signed, Signed, CP!Elements, Elements

\* The invariant of mwgp-client.
CInv == CP!ProxyInv(FALSE) /\ (Running => CP!ProxyInv(TRUE)) /\ CP!ClientInv

\* mwgp-client starts with an empty table.
LEMMA CStart ==
  ASSUME C!Init
  PROVE  COK /\ CInv
BY CSame, CConstants, CP!InitTypeOK, CP!InitTableInv, CP!StartInv DEF CP!Sound, CInv

\* A step of mwgp-client, if what arrives is signed.
LEMMA CNext ==
  ASSUME COK, CInv,
         \/ (\E g \in Goroutines : C!HandlerStep(g)) \/ C!MainStep \/ C!Resolve(ListenAddr)
         \/ C!PersistForwardTableCache \/ C!Restart \/ C!WriteToServer \/ C!WriteToClient
         \/ \E pkt \in CArrivals :
              C!ReceiveTransport(pkt) \/ \E g \in Goroutines : C!ReceiveHandshake(g, pkt)
         \/ UNCHANGED cVars
  PROVE  /\ COK' /\ CP!ProxyInv(FALSE)' /\ CP!ClientInv' /\ cRestarts \in Nat
         /\ \/ cRestarts' = cRestarts + 1
            \/ cRestarts' = cRestarts /\ (Running => CP!ProxyInv(TRUE)')
<1>1. CP!Step(CArrivals) \/ CP!Restart
  BY CSame DEF CP!Step, CP!Arrives
<1>. /\ CArrivals \in SUBSET CP!Packet /\ (Running => \A pkt \in CArrivals : CP!PktSigned(pkt))
     /\ CP!Sound /\ CP!Paired /\ CP!ProxyInv(FALSE) /\ CP!ClientInv /\ (Running => CP!ProxyInv(TRUE))
  BY CSame, CWords DEF CArrivals, CInv
<1>. /\ CP!Sound' /\ CP!ProxyInv(FALSE)' /\ CP!ClientInv' /\ cRestarts \in Nat
     /\ \/ cRestarts' = cRestarts + 1
        \/ /\ cRestarts' = cRestarts
           /\ CP!ProxyInv(TRUE) /\ (\A pkt \in CArrivals : CP!PktSigned(pkt)) => CP!ProxyInv(TRUE)'
  BY <1>1, CConstants, CP!ClientNext
<1>. QED  BY CSame

-----------------------------------------------------------------------------
(***************************************************************************)
(* The same for mwgp-server.                                               *)
(***************************************************************************)
SP == INSTANCE WGITPacketProofs WITH
  Clients <- {ClientKey}, Servers <- {ServerKey}, Strangers <- {}, Senders <- 0..MaxIndex,
  Config <- MWGPConfig(ServerAddr), IsClient <- FALSE, Self <- Nil,
  ClientAddrs <- {ProxyAddr}, ServerAddrs <- {ServerAddr}, Obfuscates <- TRUE,
  Payloads <- Handshakes, Timeout <- 1, DebugAlwaysGenerateProxyIndex <- FALSE, Traffic <- {},
  MaxTime <- 0,
  peers <- sPeers, allocated <- sAllocated, clientMap <- sClientMap, serverMap <- sServerMap,
  mapLock <- sMapLock, handler <- sHandler, main <- sMain,
  clientWriteChan <- sClientWriteChan, serverWriteChan <- sServerWriteChan,
  now <- sNow, expireChan <- sExpireChan, resolved <- sResolved, resolver <- sResolver,
  persisting <- sPersisting, disk <- sDisk, restarts <- sRestarts

\* WGITProofs' assumption on the constants holds in mwgp-server.
LEMMA SConstants == SP!ConstantsAssumption
<1>. MWGPConfig(ServerAddr) \in [{ClientKey} -> SP!ConfigPeer]
  BY InRange DEF MWGPConfig, SP!ConfigPeer, SP!Levels, SP!LevelDefault, SP!LevelIPAndPort
<1>. Nil \notin SP!Addrs \cup Goroutines \cup {ClientKey} \cup {ServerKey}
  BY MWGPAssumption DEF SP!Addrs
<1>. /\ 0..MaxIndex \subseteq SP!Index
     /\ {ClientKey} \cap {} = {} /\ Nil \notin {} /\ ClientKey \in {ClientKey}
     /\ TRUE \in BOOLEAN /\ FALSE \in BOOLEAN
  BY DEF SP!Index
<1>. QED  BY InRange DEF SP!ConstantsAssumption

\* The two instances of WGIT, S and that of the proofs, are the same: ...
LEMMA SSame ==
  /\ (SOK <=> SP!Sound) /\ (SOK' <=> SP!Sound')
  /\ S!Packet = SP!Packet
  /\ S!Init => SP!Init
  /\ \A g \in Goroutines : S!HandlerStep(g) => SP!HandlerStep(g)
  /\ S!MainStep => SP!MainStep
  /\ S!PersistForwardTableCache => SP!PersistForwardTableCache
  /\ S!Restart => SP!Restart
  /\ S!WriteToServer => SP!WriteToServer
  /\ S!WriteToClient => SP!WriteToClient
  /\ \A pkt : S!ReceiveTransport(pkt) => SP!ReceiveTransport(pkt)
  /\ \A g \in Goroutines : \A pkt : S!ReceiveHandshake(g, pkt) => SP!ReceiveHandshake(g, pkt)
  /\ UNCHANGED sVars => UNCHANGED SP!vars
<1>. ASSUME NEW g \in Goroutines, S!HandlerStep(g) PROVE SP!HandlerStep(g)
  BY DEF S!HandlerStep, S!RejectHandshake, S!Rejected, S!ExtractPeerFunc, S!LevelDefault, S!Idle,
      S!NoPacket, S!Datagram, S!NoPeer, S!tableVars, S!chanVars, S!timeVars, S!resolveVars,
      S!diskVars, S!ExtractPeer, S!NewPeer, S!LockClientMap, S!EnterGenerate, S!FirstProxyIndex,
      S!DrawProxyIndex, S!RetryProxyIndex, S!Index, S!RegisterClient, S!ClientRegistered, S!Unlock,
      S!Deobfuscated, S!MarkObfuscated, S!MissClientMap, S!LockServerMap, S!RegisterServer,
      S!ServerRegistered, S!ProcessCookieReply, S!PatchHandshake, S!Translated, S!Patch,
      S!PatchInitiation, S!FixMACs, S!SetSenderIndex, S!PatchReceiver, S!SetReceiverIndex,
      S!RewriteResponse, S!PatchResponse, S!AddressHandshake, S!Address, S!Obfuscate,
      S!SendHandshake, S!Send, SP!HandlerStep, SP!RejectHandshake, SP!Rejected, SP!ExtractPeerFunc,
      SP!LevelDefault, SP!Idle, SP!NoPacket, SP!Datagram, SP!NoPeer, SP!tableVars, SP!chanVars,
      SP!timeVars, SP!resolveVars, SP!diskVars, SP!ExtractPeer, SP!NewPeer, SP!LockClientMap,
      SP!EnterGenerate, SP!FirstProxyIndex, SP!DrawProxyIndex, SP!RetryProxyIndex, SP!Index,
      SP!RegisterClient, SP!ClientRegistered, SP!Unlock, SP!Deobfuscated, SP!MarkObfuscated,
      SP!MissClientMap, SP!LockServerMap, SP!RegisterServer, SP!ServerRegistered,
      SP!ProcessCookieReply, SP!PatchHandshake, SP!Translated, SP!Patch, SP!PatchInitiation,
      SP!FixMACs, SP!SetSenderIndex, SP!PatchReceiver, SP!SetReceiverIndex, SP!RewriteResponse,
      SP!PatchResponse, SP!AddressHandshake, SP!Address, SP!Obfuscate, SP!SendHandshake, SP!Send
<1>. /\ (SOK <=> SP!Sound) /\ (SOK' <=> SP!Sound')
     /\ S!Packet = SP!Packet
  BY DEF S!TypeOK, S!PeerIds, S!Peer, S!Index, S!Addrs, S!Levels, S!LevelDefault, S!LevelIPAndPort,
      S!Handler, S!Packet, S!Mac, S!Deobfuscated, S!Obfuscate, S!NoPeer, S!MainLoop, S!CacheRecord,
      S!TableInv, S!TableKeyed, S!IsServerReplied, S!Bounded, S!Registered, S!OwnersSound, S!Owns,
      S!OwnersDistinct, S!RespondersSound, S!Loadable, SP!TypeOK, SP!PeerIds, SP!Peer, SP!Index,
      SP!Addrs, SP!Levels, SP!LevelDefault, SP!LevelIPAndPort, SP!Handler, SP!Packet, SP!Mac,
      SP!Deobfuscated, SP!Obfuscate, SP!NoPeer, SP!MainLoop, SP!CacheRecord, SP!TableInv,
      SP!TableKeyed, SP!IsServerReplied, SP!Bounded, SP!Registered, SP!OwnersSound, SP!Owns,
      SP!OwnersDistinct, SP!RespondersSound, SP!Loadable, SOK, SP!Sound
<1>. S!MainStep => SP!MainStep
  BY DEF S!MainStep, S!ReceiveTick, S!Select, S!NoPacket, S!Datagram, S!NoPeer, S!tableVars,
      S!chanVars, S!resolveVars, S!diskVars, S!ReceiveUpdate, S!timeVars, S!DropTransport,
      S!LookupTransport, S!ProcessMessageTransport, S!TransportAllowed, S!SourceAllowed, S!LevelIP,
      S!LevelIPAndPort, S!LevelDefault, S!PatchTransport, S!Address, S!Obfuscate, S!PatchReceiver,
      S!SetReceiverIndex, S!SendTransport, S!Send, S!HandlePeersExpireCheck, S!ExpiredPeers,
      S!Values, S!Index, S!Idling, S!ServerIndicesOf, S!HandleAllServerDestinationUpdate, S!PeerIds,
      SP!MainStep, SP!ReceiveTick, SP!Select, SP!NoPacket, SP!Datagram, SP!NoPeer, SP!tableVars,
      SP!chanVars, SP!resolveVars, SP!diskVars, SP!ReceiveUpdate, SP!timeVars, SP!DropTransport,
      SP!LookupTransport, SP!ProcessMessageTransport, SP!TransportAllowed, SP!SourceAllowed,
      SP!LevelIP, SP!LevelIPAndPort, SP!LevelDefault, SP!PatchTransport, SP!Address, SP!Obfuscate,
      SP!PatchReceiver, SP!SetReceiverIndex, SP!SendTransport, SP!Send, SP!HandlePeersExpireCheck,
      SP!ExpiredPeers, SP!Values, SP!Index, SP!Idling, SP!ServerIndicesOf,
      SP!HandleAllServerDestinationUpdate, SP!PeerIds
<1>. (S!Init => SP!Init) /\ (S!Restart => SP!Restart)
  BY DEF S!Init, S!PeerIds, S!ZeroPeer, S!LevelDefault, S!Index, S!NoPeer, S!Idle, S!NoPacket,
      S!Datagram, S!Select, S!Restart, S!LoadedPeer, S!LastRecord, SP!Init, SP!PeerIds, SP!ZeroPeer,
      SP!LevelDefault, SP!Index, SP!NoPeer, SP!Idle, SP!NoPacket, SP!Datagram, SP!Select,
      SP!Restart, SP!LoadedPeer, SP!LastRecord
<1>. /\ S!PersistForwardTableCache => SP!PersistForwardTableCache
     /\ S!WriteToServer => SP!WriteToServer
     /\ S!WriteToClient => SP!WriteToClient
     /\ \A pkt : S!ReceiveTransport(pkt) => SP!ReceiveTransport(pkt)
     /\ \A g \in Goroutines : \A pkt : S!ReceiveHandshake(g, pkt) => SP!ReceiveHandshake(g, pkt)
     /\ UNCHANGED sVars => UNCHANGED SP!vars
  BY DEF S!PersistForwardTableCache, S!Snapshot, S!CachePeer, S!Values, S!Index, S!NoPeer, S!tableVars,
      S!chanVars, S!timeVars, S!resolveVars, S!WriteToServer, S!diskVars, S!WriteToClient,
      S!ReceiveTransport, S!Select, S!NoPacket, S!Datagram, S!ReceiveHandshake, S!Idle,
      SP!PersistForwardTableCache, SP!Snapshot, SP!CachePeer, SP!Values, SP!Index, SP!NoPeer,
      SP!tableVars, SP!chanVars, SP!timeVars, SP!resolveVars, SP!WriteToServer, SP!diskVars,
      SP!WriteToClient, SP!ReceiveTransport, SP!Select, SP!NoPacket, SP!Datagram,
      SP!ReceiveHandshake, SP!Idle, sVars, SP!vars
<1>. QED  OBVIOUS

\* ... and so are the words of WGITPacketProofs and those used here.
LEMMA SWords ==
  /\ SP!Paired
  /\ \A m : SP!PktSigned(m) <=> PktSigned(m)
  /\ \A q : SP!Elements(q) = Elements(q)
  /\ \A i, map, ps, n : SP!Good(i, map, ps, n) <=> Good(i, map, ps, n)
  /\ (SP!Marked <=> Marked) /\ (SP!Marked' <=> Marked')
  /\ SP!Deobfuscated = S!Deobfuscated /\ SP!Obfuscate = S!Obfuscate /\ SP!Index = C!Index
<1>. SP!ClientKey = ClientKey
  BY DEF SP!ClientKey
<1>. SP!ServerKey = ServerKey
  BY DEF SP!ServerKey, MWGPConfig
<1>. QED
  BY DEF SP!Paired, SP!PktSigned, PktSigned, SP!Signed, Signed, SP!Elements, Elements,
     SP!Good, SP!IsMarked, Good, SP!Marked, Marked, SP!Values, S!Values, SP!Index, S!Index, C!Index,
     SP!NoPeer, S!NoPeer, SP!Deobfuscated, S!Deobfuscated, SP!Obfuscate, S!Obfuscate

\* The invariant of mwgp-server.
SInv ==
  /\ SP!ProxyInv(FALSE) /\ (Running => SP!ProxyInv(TRUE)) /\ SP!ServerInv
  /\ (sRestarts = 0 => SP!TableGood) /\ SP!Marked

\* mwgp-server starts with an empty table.
LEMMA SStart ==
  ASSUME S!Init
  PROVE  SOK /\ SInv
BY SSame, SConstants, SP!InitTypeOK, SP!InitTableInv, SP!StartInv, SP!StartGood DEF SP!Sound, SInv

\* A step of mwgp-server, if what arrives is signed, obfuscated, and sent to an
\* index that leads to a marked peer.
LEMMA SNext ==
  ASSUME SOK, SInv,
         \/ (\E g \in Goroutines : S!HandlerStep(g)) \/ S!MainStep
         \/ S!PersistForwardTableCache \/ S!Restart \/ S!WriteToServer \/ S!WriteToClient
         \/ \E pkt \in SArrivals :
              S!ReceiveTransport(pkt) \/ \E g \in Goroutines : S!ReceiveHandshake(g, pkt)
         \/ UNCHANGED sVars
  PROVE  /\ SOK' /\ SP!ProxyInv(FALSE)' /\ SP!ServerInv' /\ SP!Marked' /\ sRestarts \in Nat
         /\ \/ sRestarts' = sRestarts + 1
            \/ /\ sRestarts' = sRestarts /\ (Running => SP!ProxyInv(TRUE)')
               /\ sRestarts = 0 =>
                    /\ SP!TableGood'
                    /\ \A i \in C!Index : Good(i, sClientMap, sPeers, sAllocated) =>
                                            Good(i, sClientMap', sPeers', sAllocated')
<1>1. SP!Step(SArrivals) \/ SP!Restart
  BY SSame DEF SP!Step, SP!Arrives
<1>2. /\ SArrivals \in SUBSET SP!Packet /\ (Running => \A pkt \in SArrivals : SP!PktSigned(pkt))
      /\ \A pkt \in SArrivals : pkt.type = "initiation" /\ pkt.from = "client" =>
                                  SP!Deobfuscated \in pkt.flags /\ pkt.sender # 0
      /\ \A pkt \in SArrivals : sRestarts = 0 /\ pkt.from = "server" =>
                                  SP!Good(pkt.receiver, sClientMap, sPeers, sAllocated)
  BY SSame, SWords DEF SArrivals
<1>. /\ SP!Sound /\ SP!Paired /\ SP!ProxyInv(FALSE) /\ SP!ServerInv /\ (Running => SP!ProxyInv(TRUE))
     /\ SP!Marked /\ (sRestarts = 0 => SP!TableGood)
  BY SSame, SWords DEF SInv
<1>. /\ SP!Sound' /\ SP!ProxyInv(FALSE)' /\ SP!ServerInv' /\ SP!Marked' /\ sRestarts \in Nat
     /\ \/ sRestarts' = sRestarts + 1
        \/ /\ sRestarts' = sRestarts
           /\ SP!ProxyInv(TRUE) /\ (\A pkt \in SArrivals : SP!PktSigned(pkt)) => SP!ProxyInv(TRUE)'
           /\ sRestarts = 0 =>
                /\ SP!TableGood'
                /\ \A i \in SP!Index : SP!Good(i, sClientMap, sPeers, sAllocated) =>
                                         SP!Good(i, sClientMap', sPeers', sAllocated')
  BY <1>1, <1>2, SConstants, SP!ServerNext
<1>. QED  BY <1>2, SSame, SWords

-----------------------------------------------------------------------------
(***************************************************************************)
(* The theorems.                                                           *)
(***************************************************************************)
Inv == EndsTypeOK /\ COK /\ SOK /\ EndsInv /\ CInv /\ SInv

\* What the proxies put into their channels is as the rest needs it.
LEMMA InvChannels ==
  ASSUME Inv
  PROVE  ChanInv
BY CWords, SWords
DEF Inv, CInv, SInv, CP!ClientInv, CP!ProxyInv, SP!ProxyInv, SP!TableGood, ChanInv

\* The invariant of the composition holds at the start, ...
LEMMA InvStart ==
  ASSUME Init
  PROVE  Inv
BY EndsStart, CStart, SStart DEF Init, Inv

\* ... and every step of an endpoint or a proxy, and every delivery, keeps it.
LEMMA InvNext ==
  ASSUME Inv, [Next]_vars
  PROVE  Inv'
<1>. EndsTypeOK /\ COK /\ SOK /\ EndsInv /\ CInv /\ SInv /\ ChanInv
  BY InvChannels DEF Inv
<1>1. /\ COK' /\ CP!ProxyInv(FALSE)' /\ CP!ClientInv' /\ cRestarts \in Nat
      /\ \/ cRestarts' = cRestarts + 1
         \/ cRestarts' = cRestarts /\ (Running => CP!ProxyInv(TRUE)')
  BY ClientSees, CNext
<1>2. /\ SOK' /\ SP!ProxyInv(FALSE)' /\ SP!ServerInv' /\ SP!Marked' /\ sRestarts \in Nat
      /\ \/ sRestarts' = sRestarts + 1
         \/ /\ sRestarts' = sRestarts /\ (Running => SP!ProxyInv(TRUE)')
            /\ sRestarts = 0 =>
                 /\ SP!TableGood'
                 /\ \A i \in C!Index : Good(i, sClientMap, sPeers, sAllocated) =>
                                         Good(i, sClientMap', sPeers', sAllocated')
  BY ServerSees, SNext
<1>3. /\ Running' => Running /\ cRestarts' # cRestarts + 1 /\ sRestarts' # sRestarts + 1
      /\ sRestarts' = 0 => sRestarts = 0 /\ sRestarts' # sRestarts + 1
  BY <1>1, <1>2, RestartsCounted
<1>4. EndsTypeOK' /\ EndsInv'
  BY <1>2, <1>3, NextEnds, NextEndsInv
<1>. QED  BY <1>1, <1>2, <1>3, <1>4 DEF Inv, CInv, SInv

\* What the theorems say follows from the invariant.
LEMMA InvImplies ==
  ASSUME Inv
  PROVE  COK /\ SOK /\ SignedEndToEnd /\ WireObfuscated /\ Marked
BY InvChannels, SWords
DEF Inv, SInv, ChanInv, SignedEndToEnd, Running, PktSigned, EndsInv, EndsGood, WireObfuscated

\* The invariant of the composition holds in every reachable state.
LEMMA InvCorrect == Spec => []Inv
BY InvStart, InvNext, PTL DEF Spec

\* However the proxies interleave and the network delays and repeats, both
\* tables stay well formed: their types, the lock discipline, and TableInv.
THEOREM BothTablesCorrect == Spec => [](COK /\ SOK)
BY InvCorrect, InvImplies, PTL

\* A handshake that both proxies have rewritten (Patch, FixMACs) has the MAC
\* its receiver checks, as long as neither process has restarted.
THEOREM HandshakesSigned == Spec => []SignedEndToEnd
BY InvCorrect, InvImplies, PTL

\* Until mwgp-server first restarts nothing goes over the wire unobfuscated:
\* the server learns of an index only after MarkObfuscated.
THEOREM WireStaysObfuscated == Spec => []WireObfuscated
BY InvCorrect, InvImplies, PTL

\* Up to the second restart of mwgp-server, a peer of clientMap obfuscates or
\* is about to be marked by the handler that inserted it.
THEOREM PeersMarked == Spec => []Marked
BY InvCorrect, InvImplies, PTL

=============================================================================
