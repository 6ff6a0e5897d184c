----------------------------- MODULE WGITProofs -----------------------------
(***************************************************************************)
(* Proofs of the type invariant and of the inductive table invariant of    *)
(* the index translation table, for any indices, clients, servers,         *)
(* addresses, goroutines and bounds; and of what follows from them: the    *)
(* cache file has every route, no index in use is given away, replies find *)
(* their way back, only idle routes are removed, clients roam as far as    *)
(* they may, and forwarded handshakes carry correct MACs.                  *)
(***************************************************************************)
EXTENDS WGITProperties, TLAPS

USE DEF Index, PeerIds, NoPeer, Levels, LevelDefault, LevelNone, LevelIP, LevelIPAndPort

\* A datagram is a packet, and the zero values have their types.
LEMMA DatagramType ==
  ASSUME NEW from \in {"client", "server"},
         NEW type \in {"initiation", "response", "cookie", "transport", "other"},
         NEW s \in Index, NEW r \in Index, NEW a \in Addrs \cup {Nil},
         NEW d \in Payloads \cup {Nil}
  PROVE  Datagram(from, type, s, r, a, d) \in Packet
BY ConstantsAssumption DEF Datagram, Packet, Mac

\* The zero values of the model have their types.
LEMMA ZeroTypes ==
  /\ NoPacket \in Packet /\ ZeroPeer \in Peer /\ Idle \in Handler /\ Select \in MainLoop
<1>1. 0 \in Index /\ 0 \in 0..MaxTime
  BY ConstantsAssumption
<1>2. NoPacket \in Packet
  BY Zenon, <1>1, DatagramType DEF NoPacket
<1>3. ZeroPeer \in Peer
  BY <1>1 DEF ZeroPeer, Peer
<1>4. Idle \in Handler
  BY Zenon, <1>1, <1>2 DEF Idle, Handler
<1>5. Select \in MainLoop
  BY Zenon, <1>1, <1>2 DEF Select, MainLoop
<1>. QED  BY Zenon, <1>2, <1>3, <1>4, <1>5

\* Signing a packet and setting an index give a packet.
LEMMA FixMACsType ==
  ASSUME NEW pkt \in Packet, NEW cg \in Clients \cup Servers \cup {Nil}
  PROVE  FixMACs(pkt, cg) \in Packet
BY Zenon DEF FixMACs, Packet, Mac

\* SetReceiverIndex and its like leave a packet.
LEMMA SetIndexType ==
  ASSUME NEW pkt \in Packet, NEW i \in Index
  PROVE  SetSenderIndex(pkt, i) \in Packet /\ SetReceiverIndex(pkt, i) \in Packet
BY Zenon DEF SetSenderIndex, SetReceiverIndex, Packet

\* Rewriting a packet for a peer gives a packet.
LEMMA PatchType ==
  ASSUME NEW pkt \in Packet, NEW peer \in Peer
  PROVE  /\ Patch(pkt, peer) \in Packet /\ PatchResponse(pkt, peer) \in Packet
         /\ PatchReceiver(pkt, peer) \in Packet
<1>1. /\ peer.clientOriginIndex \in Index /\ peer.clientProxyIndex \in Index
      /\ peer.serverOriginIndex \in Index /\ peer.serverProxyIndex \in Index
      /\ peer.clientCookieGenerator \in Clients \cup Servers \cup {Nil}
      /\ peer.serverCookieGenerator \in Clients \cup Servers \cup {Nil}
  BY Zenon DEF Peer
<1>2. PatchInitiation(pkt, peer) \in Packet
  BY Zenon, <1>1, FixMACsType, SetIndexType DEF PatchInitiation
<1>3. PatchResponse(pkt, peer) \in Packet
  BY Zenon, <1>1, FixMACsType, SetIndexType DEF PatchResponse
<1>4. PatchReceiver(pkt, peer) \in Packet
  BY Zenon, <1>1, SetIndexType DEF PatchReceiver
<1>. QED  BY Zenon, <1>2, <1>3, <1>4 DEF Patch

\* Setting the addresses and flags of a packet leaves a packet.
LEMMA AddressType ==
  ASSUME NEW pkt \in Packet, NEW peer \in Peer
  PROVE  Address(pkt, peer) \in Packet
BY ZenonT(30) DEF Address, Packet, Peer, Obfuscate, Deobfuscated

\* Every datagram that arrives is a packet.
LEMMA InitiationType ==
  ASSUME NEW s \in Senders, NEW k \in Clients \cup Strangers, NEW a \in ClientAddrs,
         NEW f \in ClientFlags, NEW d \in Payloads
  PROVE  Initiation(s, k, a, f, d) \in Packet
<1>1. Datagram("client", "initiation", s, 0, a, d) \in Packet
  BY DatagramType, ConstantsAssumption DEF Addrs
<1>2. [Datagram("client", "initiation", s, 0, a, d) EXCEPT !.key = k, !.flags = f] \in Packet
  BY Zenon, <1>1 DEF Packet, ClientFlags
<1>3. k \in Clients => Config[k].serverPublicKey \in Servers
  BY Zenon, ConstantsAssumption DEF ConfigPeer
<1>. QED  BY Zenon, <1>2, <1>3, FixMACsType DEF Initiation

\* What arrives is a packet.
LEMMA ArrivalsType == Arrivals \subseteq Packet
<1>1. Initiations \subseteq Packet
  <2>. SUFFICES ASSUME NEW x \in Initiations PROVE x \in Packet
    BY Zenon
  <2>1. PICK s \in Senders, k \in Clients \cup Strangers, a \in ClientAddrs,
             f \in ClientFlags, d \in Payloads : x = Initiation(s, k, a, f, d)
    BY DEF Initiations
  <2>. QED  BY Zenon, <2>1, InitiationType
<1>2. 0 \in Index /\ Senders \subseteq Index /\ NoPacket \in Packet
  BY ConstantsAssumption, ZeroTypes
<1>3. Responses \subseteq Packet
  <2>. SUFFICES ASSUME NEW x \in Responses PROVE x \in Packet
    BY Zenon
  <2>1. PICK s \in Senders, r \in Index, a \in ServerAddrs, k \in Clients, d \in Payloads :
             x = FixMACs(Datagram("server", "response", s, r, a, d), k)
    BY DEF Responses
  <2>. QED  BY Zenon, <1>2, <2>1, DatagramType, FixMACsType DEF Addrs
<1>4. CookieReplies \subseteq Packet
  BY <1>2, DatagramType DEF CookieReplies, Addrs
<1>5. Transports \subseteq Packet
  BY <1>2, DatagramType DEF Transports, Addrs
<1>6. Others \subseteq Packet
  BY <1>2, DatagramType DEF Others
<1>. QED  BY <1>1, <1>3, <1>4, <1>5, <1>6, Zenon DEF Arrivals

-----------------------------------------------------------------------------
(***************************************************************************)
(* Type correctness.                                                       *)
(***************************************************************************)
\* A new peer, and a peer made from a cache record, have the type of a peer.
LEMMA NewPeerType ==
  ASSUME TypeOK, NEW pkt \in Packet, pkt.type = "initiation", pkt.from = "client", ~Rejected(pkt)
  PROVE  NewPeer(pkt, ExtractPeerFunc(pkt)) \in Peer
<1>. DEFINE sp == ExtractPeerFunc(pkt)
<1>1. /\ sp.clientPublicKey \in Clients /\ sp.serverPublicKey \in Servers
      /\ sp.forwardToAddress \in ServerAddrs /\ sp.clientSourceValidateLevel \in Levels
  BY ConstantsAssumption DEF TypeOK, Rejected, ExtractPeerFunc, ConfigPeer
<1>2. pkt.sender \in Index /\ pkt.source \in Addrs \cup {Nil} /\ now \in 0..MaxTime
  BY Zenon DEF TypeOK, Packet
<1>. HIDE DEF sp
<1>3. NewPeer(pkt, sp) \in Peer
  BY <1>1, <1>2, ConstantsAssumption DEF NewPeer, Peer, Addrs
<1>. QED  BY Zenon, <1>3 DEF sp

\* A peer loaded from the cache file is a peer.
LEMMA LoadedPeerType ==
  ASSUME TypeOK, NEW cp \in CacheRecord
  PROVE  LoadedPeer(cp) \in Peer
<1>1. now \in 0..MaxTime
  BY Zenon DEF TypeOK
<1>. QED  BY Zenon, <1>1 DEF LoadedPeer, CacheRecord, Peer

\* A peer written to the cache file is a cached peer.
LEMMA CachePeerType ==
  ASSUME NEW peer \in Peer
  PROVE  CachePeer(peer) \in CacheRecord
BY Zenon DEF CachePeer, CacheRecord, Peer

\* The types hold when the table is created.
LEMMA InitTypeOK == Init => TypeOK
<1>. SUFFICES ASSUME Init PROVE TypeOK
  BY Zenon
<1>1. /\ peers \in [PeerIds -> Peer] /\ handler \in [Goroutines -> Handler] /\ main \in MainLoop
  BY Zenon, ZeroTypes DEF Init
<1>2. /\ \A g \in Goroutines : handler[g].pc = "idle" /\ mapLock # g
      /\ main.pc = "select"
  BY Zenon, ConstantsAssumption DEF Init, Idle, Select
<1>3. clientWriteChan \in Seq(Packet) /\ serverWriteChan \in Seq(Packet)
  BY DEF Init
<1>4. persisting \in BOOLEAN
  BY Zenon DEF Init
<1>5. /\ allocated \in 0..MaxPeers /\ now \in 0..MaxTime /\ restarts \in 0..MaxRestarts
      /\ clientMap \in [Index -> 0..MaxPeers] /\ serverMap \in [Index -> 0..MaxPeers]
      /\ mapLock = Nil /\ expireChan = Nil /\ resolved = Nil /\ resolver = "idle" /\ disk = {}
  BY ConstantsAssumption DEF Init
<1>. QED  BY Zenon, <1>1, <1>2, <1>3, <1>4, <1>5 DEF TypeOK

\* A packet is sent: both channels keep their type.
LEMMA SendType ==
  ASSUME TypeOK, NEW pkt \in Packet, Send(pkt)
  PROVE  clientWriteChan' \in Seq(Packet) /\ serverWriteChan' \in Seq(Packet)
<1>1. clientWriteChan \in Seq(Packet) /\ serverWriteChan \in Seq(Packet)
  BY Zenon DEF TypeOK
<1>2. Append(clientWriteChan, pkt) \in Seq(Packet) /\ Append(serverWriteChan, pkt) \in Seq(Packet)
  BY <1>1
<1>. QED  BY <1>1, <1>2, Zenon DEF Send

\* The actions of mainLoop that handle packets, ticks and updates.
LEMMA MainTypeOK ==
  ASSUME TypeOK, MainStep \/ (\E pkt \in Packet : ReceiveTransport(pkt))
  PROVE  TypeOK'
<1>. USE DEF tableVars, chanVars, timeVars, resolveVars, diskVars
<1>1. main' \in MainLoop
  <2>1. ASSUME NEW pkt \in Packet, ReceiveTransport(pkt) PROVE main' \in MainLoop
    BY Zenon, <2>1, ZeroTypes DEF ReceiveTransport, MainLoop
  <2>2. CASE ReceiveTick
    BY Zenon, <2>2, ZeroTypes DEF ReceiveTick, MainLoop, TypeOK
  <2>3. CASE ReceiveUpdate
    BY Zenon, <2>3, ZeroTypes DEF ReceiveUpdate, MainLoop, TypeOK
  <2>4. CASE DropTransport \/ SendTransport \/ HandlePeersExpireCheck \/ HandleAllServerDestinationUpdate
    BY Zenon, <2>4, ZeroTypes DEF DropTransport, SendTransport, HandlePeersExpireCheck,
                           HandleAllServerDestinationUpdate
  <2>5. CASE LookupTransport
    <3>1. main \in MainLoop /\ main.pkt \in Packet /\ main.pkt.receiver \in Index
      BY Zenon DEF TypeOK, MainLoop, Packet
    <3>2. PICK p \in 0..MaxPeers :
             main' = IF p = NoPeer THEN Select ELSE [main EXCEPT !.pc = "process", !.peer = p]
      BY Zenon, <2>5, <3>1 DEF LookupTransport, TypeOK
    <3>3. p # NoPeer => [main EXCEPT !.pc = "process", !.peer = p] \in MainLoop
      <4>1. p # NoPeer => p \in PeerIds
        BY ConstantsAssumption
      <4>. QED  BY Zenon, <3>1, <4>1 DEF MainLoop
    <3>. QED  BY Zenon, <3>2, <3>3, ZeroTypes
  <2>6. CASE ProcessMessageTransport
    BY Zenon, <2>6, ZeroTypes DEF ProcessMessageTransport, MainLoop, TypeOK
  <2>7. CASE PatchTransport
    <3>. DEFINE new == Address(PatchReceiver(main.pkt, peers[main.peer]), peers[main.peer])
    <3>1. main \in MainLoop /\ main.pkt \in Packet
      BY Zenon DEF TypeOK, MainLoop
    <3>2. peers[main.peer] \in Peer
      BY Zenon, <2>7 DEF TypeOK, MainLoop, PatchTransport
    <3>3. new \in Packet
      BY Zenon, <3>1, <3>2, PatchType, AddressType
    <3>4. main' = [main EXCEPT !.pc = "send", !.pkt = new]
      BY Zenon, <2>7 DEF PatchTransport
    <3>. HIDE DEF new
    <3>. QED  BY Zenon, <3>1, <3>3, <3>4 DEF MainLoop
  <2>. QED  BY Zenon, <2>1, <2>2, <2>3, <2>4, <2>5, <2>6, <2>7 DEF MainStep
<1>2. main'.pc \in {"process", "patch"} => main'.peer # NoPeer
  <2>. Select.pc = "select" /\ main \in MainLoop
    BY Zenon DEF Select, TypeOK
  <2>1. CASE LookupTransport
    <3>1. PICK p : main' = IF p = NoPeer THEN Select ELSE [main EXCEPT !.pc = "process", !.peer = p]
      BY Zenon, <2>1 DEF LookupTransport
    <3>. QED  BY Zenon, <3>1 DEF MainLoop
  <2>3. CASE ProcessMessageTransport
    <3>1. /\ main' = Select \/ main' = [main EXCEPT !.pc = "patch"]
          /\ main.peer # NoPeer
      BY Zenon, <2>3 DEF ProcessMessageTransport, TypeOK
    <3>. QED  BY Zenon, <3>1 DEF MainLoop
  <2>2. CASE PatchTransport
    <3>1. main'.pc = "send"
      BY Zenon, <2>2 DEF PatchTransport, TypeOK, MainLoop
    <3>. QED  BY Zenon, <3>1
  <2>4. CASE DropTransport \/ SendTransport \/ HandlePeersExpireCheck \/ HandleAllServerDestinationUpdate
    BY Zenon, <2>4 DEF DropTransport, SendTransport, HandlePeersExpireCheck, HandleAllServerDestinationUpdate
  <2>5. CASE ReceiveTick \/ ReceiveUpdate \/ (\E pkt \in Packet : ReceiveTransport(pkt))
    BY Zenon, <2>5 DEF ReceiveTick, ReceiveUpdate, ReceiveTransport, Select
  <2>. QED  BY Zenon, <2>1, <2>2, <2>3, <2>4, <2>5 DEF MainStep
<1>3. peers' \in [PeerIds -> Peer]
  <2>1. CASE ProcessMessageTransport
    <3>1. main.peer \in PeerIds /\ peers[main.peer] \in Peer
      BY Zenon, <2>1 DEF TypeOK, MainLoop, ProcessMessageTransport
    <3>2. main.pkt.source \in Addrs \cup {Nil}
      BY Zenon DEF TypeOK, MainLoop, Packet
    <3>. DEFINE allowed == TransportAllowed(main.pkt, peers[main.peer])
                a == IF main.pkt.from = "client" /\ allowed
                     THEN main.pkt.source ELSE peers[main.peer].clientDestination
                q == [peers[main.peer] EXCEPT !.lastActive = now, !.clientDestination = a]
    <3>3. a \in Addrs \cup {Nil}
      BY Zenon, <3>1, <3>2 DEF Peer
    <3>4. q \in Peer
      <4>. HIDE DEF a
      <4>. QED  BY Zenon, <3>1, <3>3 DEF TypeOK, Peer
    <3>5. peers' = [peers EXCEPT ![main.peer] = q]
      <4>. HIDE DEF allowed
      <4>1. peers' = [peers EXCEPT ![main.peer].lastActive = now,
                      ![main.peer].clientDestination =
                         IF main.pkt.from = "client" /\ allowed THEN main.pkt.source ELSE @]
        BY Zenon, <2>1 DEF ProcessMessageTransport, allowed
      <4>. QED  BY Zenon, <4>1, <3>1 DEF TypeOK, Peer
    <3>. HIDE DEF q
    <3>. QED  BY Zenon, <3>4, <3>5 DEF TypeOK
  <2>2. CASE HandleAllServerDestinationUpdate
    <3>1. main.newServerAddr \in Addrs \cup {Nil}
      BY Zenon DEF TypeOK, MainLoop, Addrs
    <3>2. ASSUME NEW p \in PeerIds
          PROVE  [peers[p] EXCEPT !.serverDestination = main.newServerAddr] \in Peer
      <4>1. peers[p] \in Peer
        BY Zenon DEF TypeOK
      <4>. QED  BY Zenon, <3>1, <4>1 DEF Peer
    <3>. QED  BY Zenon, <2>2, <3>2 DEF HandleAllServerDestinationUpdate, TypeOK
  <2>3. CASE UNCHANGED peers
    BY Zenon, <2>3 DEF TypeOK
  <2>. QED  BY Zenon, <2>1, <2>2, <2>3 DEF MainStep, ReceiveTransport, ReceiveTick, ReceiveUpdate,
         DropTransport, SendTransport, HandlePeersExpireCheck, LookupTransport, PatchTransport
<1>4. clientMap' \in [Index -> 0..MaxPeers] /\ serverMap' \in [Index -> 0..MaxPeers]
  <2>1. CASE HandlePeersExpireCheck
    <3>1. clientMap \in [Index -> 0..MaxPeers] /\ serverMap \in [Index -> 0..MaxPeers]
      BY Zenon DEF TypeOK
    <3>2. NoPeer \in 0..MaxPeers
      BY ConstantsAssumption DEF NoPeer
    <3>. QED  BY Zenon, <2>1, <3>1, <3>2 DEF HandlePeersExpireCheck
  <2>2. CASE UNCHANGED <<clientMap, serverMap>>
    BY Zenon, <2>2 DEF TypeOK
  <2>. QED  BY Zenon, <2>1, <2>2 DEF MainStep, ReceiveTransport, ReceiveTick, ReceiveUpdate, DropTransport,
         SendTransport, LookupTransport, PatchTransport, ProcessMessageTransport,
         HandleAllServerDestinationUpdate
<1>5. clientWriteChan' \in Seq(Packet) /\ serverWriteChan' \in Seq(Packet)
  <2>1. CASE SendTransport
    <3>. main.pkt \in Packet
      BY Zenon DEF TypeOK, MainLoop
    <3>. QED  BY Zenon, <2>1, SendType DEF SendTransport
  <2>2. CASE UNCHANGED chanVars
    BY Zenon, <2>2 DEF TypeOK
  <2>. QED  BY Zenon, <2>1, <2>2 DEF MainStep, ReceiveTransport, ReceiveTick, ReceiveUpdate, DropTransport,
         LookupTransport, PatchTransport, ProcessMessageTransport, HandlePeersExpireCheck,
         HandleAllServerDestinationUpdate
<1>6. /\ UNCHANGED <<allocated, mapLock, handler, now, resolved, disk, restarts>>
      /\ expireChan' \in {expireChan, Nil} /\ resolver' \in {resolver, "idle"}
      /\ persisting' \in {persisting, TRUE}
  BY Zenon DEF MainStep, ReceiveTransport, ReceiveTick, ReceiveUpdate, DropTransport,
         LookupTransport, PatchTransport, ProcessMessageTransport, HandlePeersExpireCheck,
         HandleAllServerDestinationUpdate, SendTransport
<1>. QED  BY Zenon, <1>1, <1>2, <1>3, <1>4, <1>5, <1>6 DEF TypeOK

\* What a step of handler goroutine g must establish: it moves the handler to
\* the new state "new", and takes, keeps or releases the lock accordingly.
LEMMA HandlerFrame ==
  ASSUME TypeOK, NEW g \in Goroutines, NEW new \in Handler,
         handler' = [handler EXCEPT ![g] = new],
         new.pc \in {"lockClientMap", "generate", "mark", "patch", "rewrite", "address"} =>
           new.peer # NoPeer,
         \/ mapLock' = mapLock /\ (new.pc = "generate" <=> handler[g].pc = "generate")
         \/ mapLock = Nil /\ mapLock' = g /\ new.pc = "generate"
         \/ handler[g].pc = "generate" /\ mapLock' = Nil /\ new.pc # "generate",
         peers' \in [PeerIds -> Peer], allocated' \in 0..MaxPeers,
         clientMap' \in [Index -> 0..MaxPeers], serverMap' \in [Index -> 0..MaxPeers],
         clientWriteChan' \in Seq(Packet), serverWriteChan' \in Seq(Packet),
         persisting' \in BOOLEAN,
         UNCHANGED <<main, now, expireChan, resolved, resolver, disk, restarts>>
  PROVE  TypeOK'
<1>1. handler' \in [Goroutines -> Handler]
  BY Zenon DEF TypeOK
<1>2. /\ mapLock' \in Goroutines \cup {Nil}
      /\ \A q \in Goroutines : mapLock' = q <=> handler'[q].pc = "generate"
  BY Zenon, ConstantsAssumption DEF TypeOK
<1>3. \A q \in Goroutines :
        handler'[q].pc \in {"lockClientMap", "generate", "mark", "patch", "rewrite", "address"} =>
          handler'[q].peer # NoPeer
  BY Zenon DEF TypeOK
<1>4. /\ main' \in MainLoop /\ now' \in 0..MaxTime /\ expireChan' \in (0..MaxTime) \cup {Nil}
      /\ resolved' \in ServerAddrs \cup {Nil} /\ resolver' \in {"idle", "sending"}
      /\ disk' \subseteq CacheRecord /\ restarts' \in 0..MaxRestarts
      /\ main'.pc \in {"process", "patch"} => main'.peer # NoPeer
  BY Zenon DEF TypeOK
<1>. QED  BY Zenon, <1>1, <1>2, <1>3, <1>4 DEF TypeOK

\* The steps of a handler goroutine.
LEMMA HandlerTypeOK ==
  ASSUME TypeOK, NEW g \in Goroutines,
         HandlerStep(g) \/ (\E pkt \in Packet : ReceiveHandshake(g, pkt))
  PROVE  TypeOK'
<1>. USE DEF tableVars, chanVars, timeVars, resolveVars, diskVars
<1>1. /\ handler[g] \in Handler /\ handler[g].pkt \in Packet /\ handler[g].proxy \in Index
      /\ handler[g].peer \in {NoPeer} \cup PeerIds
      /\ handler[g].pkt.sender \in Index /\ handler[g].pkt.receiver \in Index
      /\ handler \in [Goroutines -> Handler]
  BY Zenon DEF TypeOK, Handler, Packet
<1>2. /\ peers \in [PeerIds -> Peer] /\ allocated \in 0..MaxPeers
      /\ clientMap \in [Index -> 0..MaxPeers] /\ serverMap \in [Index -> 0..MaxPeers]
      /\ clientWriteChan \in Seq(Packet) /\ serverWriteChan \in Seq(Packet)
      /\ persisting \in BOOLEAN
      /\ handler[g].pc \in {"lockClientMap", "generate", "mark", "patch", "rewrite", "address"} =>
           handler[g].peer \in PeerIds
  BY Zenon, <1>1 DEF TypeOK
<1>3. Idle \in Handler /\ Idle.pc = "idle"
  BY Zenon, ZeroTypes DEF Idle
<1>4. ASSUME NEW pkt \in Packet, ReceiveHandshake(g, pkt) PROVE TypeOK'
  <2>. DEFINE new == [Idle EXCEPT !.pc = "start", !.pkt = pkt]
  <2>1. new \in Handler /\ new.pc = "start"
    BY Zenon, <1>3 DEF Handler
  <2>2. /\ handler' = [handler EXCEPT ![g] = new] /\ handler[g].pc = "idle"
        /\ UNCHANGED <<tableVars, main, chanVars, timeVars, resolveVars, diskVars>>
    BY Zenon, <1>4 DEF ReceiveHandshake
  <2>. HIDE DEF new
  <2>. QED  BY Zenon, <1>2, <2>1, <2>2, HandlerFrame
<1>5. CASE RejectHandshake(g) \/ MissClientMap(g)
  <2>1. /\ handler' = [handler EXCEPT ![g] = Idle] /\ handler[g].pc = "start"
        /\ UNCHANGED <<tableVars, main, chanVars, timeVars, resolveVars, diskVars>>
    BY Zenon, <1>5 DEF RejectHandshake, MissClientMap
  <2>. QED  BY Zenon, <1>2, <1>3, <2>1, HandlerFrame
<1>6. CASE ExtractPeer(g)
  <2>. DEFINE new == [handler[g] EXCEPT !.pc = "lockClientMap", !.peer = allocated + 1]
  <2>1. allocated + 1 \in PeerIds /\ allocated' = allocated + 1 /\ allocated' \in 0..MaxPeers
    BY <1>2, <1>6, ConstantsAssumption DEF ExtractPeer
  <2>2. new \in Handler /\ new.pc = "lockClientMap" /\ new.peer # NoPeer
    <3>. HIDE DEF PeerIds, NoPeer
    <3>1. new \in Handler /\ new.pc = "lockClientMap" /\ new.peer = allocated + 1
      BY Zenon, <1>1, <2>1 DEF Handler
    <3>2. allocated + 1 # NoPeer
      BY <2>1 DEF PeerIds, NoPeer
    <3>. QED  BY Zenon, <3>1, <3>2
  <2>3. handler' = [handler EXCEPT ![g] = new] /\ handler[g].pc = "start"
    BY Zenon, <1>1, <1>6 DEF ExtractPeer
  <2>4. handler[g].pkt.from = "client"
    BY Zenon, <1>6 DEF ExtractPeer, Rejected
  <2>5. NewPeer(handler[g].pkt, ExtractPeerFunc(handler[g].pkt)) \in Peer
    BY Zenon, <1>1, <1>6, <2>4, NewPeerType DEF ExtractPeer
  <2>6. /\ peers' = [peers EXCEPT ![allocated + 1] =
                       NewPeer(handler[g].pkt, ExtractPeerFunc(handler[g].pkt))]
        /\ UNCHANGED <<clientMap, serverMap, mapLock, main, clientWriteChan,
                       serverWriteChan, now, expireChan, resolved, resolver, persisting, disk,
                       restarts>>
    BY Zenon, <1>6 DEF ExtractPeer
  <2>7. peers' \in [PeerIds -> Peer]
    BY Zenon, <1>2, <2>5, <2>6
  <2>. HIDE DEF new
  <2>. QED  BY Zenon, <1>2, <2>1, <2>2, <2>3, <2>6, <2>7, HandlerFrame
<1>7. ASSUME NEW m \in [Index -> 0..MaxPeers], NEW origin \in Index, NEW q \in PeerIds,
             EnterGenerate(g, m, origin, q), mapLock = Nil, mapLock' = g,
             peers' \in [PeerIds -> Peer],
             UNCHANGED <<allocated, clientMap, serverMap, main, chanVars, timeVars, resolveVars,
             diskVars>>
      PROVE  TypeOK'
  <2>. DEFINE first == FirstProxyIndex(origin)
              new == [handler[g] EXCEPT !.pc = "generate", !.peer = q, !.proxy = first,
                                        !.taken = m[first] # NoPeer]
  <2>1. first \in Index
    BY ConstantsAssumption DEF FirstProxyIndex
  <2>2. (m[first] # NoPeer) \in BOOLEAN
    BY Zenon
  <2>3. handler' = [handler EXCEPT ![g] = new]
    BY Zenon, <1>1, <1>7 DEF EnterGenerate
  <2>. HIDE DEF first
  <2>4. new \in Handler /\ new.pc = "generate" /\ new.peer # NoPeer
    <3>. HIDE DEF PeerIds, NoPeer
    <3>1. new \in Handler /\ new.pc = "generate" /\ new.peer = q
      BY Zenon, <1>1, <2>1, <2>2 DEF Handler
    <3>2. q # NoPeer
      BY DEF PeerIds, NoPeer
    <3>. QED  BY Zenon, <3>1, <3>2
  <2>. HIDE DEF new
  <2>. QED  BY Zenon, <1>2, <1>7, <2>3, <2>4, HandlerFrame
<1>71. CASE LockClientMap(g)
  <2>1. /\ handler[g].peer \in PeerIds /\ peers[handler[g].peer].clientOriginIndex \in Index
    BY Zenon, <1>2, <1>71 DEF LockClientMap, Peer
  <2>. QED  BY Zenon, <1>2, <1>7, <1>71, <2>1 DEF LockClientMap
<1>72. CASE LockServerMap(g)
  <2>. DEFINE p == clientMap[handler[g].pkt.receiver]
  <2>1. p \in PeerIds /\ peers[p] \in Peer
    <3>1. p \in 0..MaxPeers
      BY Zenon, <1>1, <1>2
    <3>2. p # NoPeer
      BY Zenon, <1>72 DEF LockServerMap
    <3>3. p \in PeerIds
      BY <3>1, <3>2, ConstantsAssumption DEF PeerIds, NoPeer
    <3>. QED  BY Zenon, <1>2, <3>3
  <2>2. peers' = [peers EXCEPT ![p] = [peers[p] EXCEPT !.lastActive = now,
                                                       !.serverOriginIndex = handler[g].pkt.sender]]
    BY Zenon, <1>72 DEF LockServerMap
  <2>3. [peers[p] EXCEPT !.lastActive = now, !.serverOriginIndex = handler[g].pkt.sender] \in Peer
    <3>1. now \in 0..MaxTime
      BY Zenon DEF TypeOK
    <3>. QED  BY ZenonT(60), <1>1, <2>1, <3>1 DEF Peer
  <2>4. peers' \in [PeerIds -> Peer]
    BY Zenon, <1>2, <2>1, <2>2, <2>3
  <2>. QED  BY Zenon, <1>1, <1>2, <1>7, <1>72, <2>1, <2>4 DEF LockServerMap
<1>8. CASE DrawProxyIndex(g)
  <2>1. PICK r \in Index : handler' = [handler EXCEPT ![g].proxy = r]
    BY Zenon, <1>8 DEF DrawProxyIndex
  <2>. DEFINE new == [handler[g] EXCEPT !.proxy = r]
  <2>2. new \in Handler /\ new.pc = handler[g].pc /\ new.peer = handler[g].peer
    BY Zenon, <1>1 DEF Handler
  <2>3. handler' = [handler EXCEPT ![g] = new]
    BY Zenon, <1>1, <2>1
  <2>4. /\ handler[g].pc = "generate"
        /\ UNCHANGED <<tableVars, main, chanVars, timeVars, resolveVars, diskVars>>
    BY Zenon, <1>8 DEF DrawProxyIndex
  <2>. HIDE DEF new
  <2>5. new.peer # NoPeer
    <3>1. new.peer \in PeerIds
      BY Zenon, <1>2, <2>2, <2>4
    <3>. QED  BY <3>1 DEF PeerIds, NoPeer
  <2>. QED  BY Zenon, <1>2, <2>2, <2>3, <2>4, <2>5, HandlerFrame
<1>9. ASSUME NEW c \in {"mark", "patch"}, NEW i \in Index, handler[g].pc = "generate"
      PROVE  LET new == [handler[g] EXCEPT !.pc = c, !.proxy = i]
             IN  new \in Handler /\ new.pc = c /\ new.peer # NoPeer
  <2>1. handler[g].peer # NoPeer
    <3>1. handler[g].peer \in PeerIds
      BY Zenon, <1>2, <1>9
    <3>. QED  BY <3>1 DEF PeerIds, NoPeer
  <2>. HIDE DEF PeerIds, NoPeer, Index
  <2>. QED  BY Zenon, <1>1, <2>1 DEF Handler
<1>10. CASE RegisterClient(g)
  <2>1. PICK c \in {"mark", "patch"} : handler' = [handler EXCEPT ![g].pc = c, ![g].proxy = 0]
    BY Zenon, <1>10 DEF RegisterClient
  <2>. DEFINE new == [handler[g] EXCEPT !.pc = c, !.proxy = 0]
  <2>2. handler[g].pc = "generate" /\ handler[g].peer \in PeerIds
    BY Zenon, <1>2, <1>10 DEF RegisterClient
  <2>3. new \in Handler /\ new.pc = c /\ new.peer # NoPeer
    <3>1. 0 \in Index
      BY ConstantsAssumption
    <3>. HIDE DEF Index
    <3>. QED  BY Zenon, <1>9, <2>2, <3>1
  <2>4. handler' = [handler EXCEPT ![g] = new]
    BY Zenon, <1>1, <2>1
  <2>5. ClientRegistered(peers[handler[g].peer], handler[g].proxy) \in Peer
    <3>1. peers[handler[g].peer] \in Peer
      BY Zenon, <1>2, <2>2
    <3>. QED  BY Zenon, <1>1, <3>1 DEF ClientRegistered, Peer
  <2>6. peers' \in [PeerIds -> Peer] /\ clientMap' \in [Index -> 0..MaxPeers]
    <3>1. handler[g].peer \in 0..MaxPeers
      BY <2>2
    <3>2. /\ peers' = [peers EXCEPT ![handler[g].peer] =
                         ClientRegistered(peers[handler[g].peer], handler[g].proxy)]
          /\ clientMap' = [clientMap EXCEPT ![handler[g].proxy] = handler[g].peer]
      BY Zenon, <1>10 DEF RegisterClient
    <3>. HIDE DEF Index, PeerIds
    <3>. QED  BY Zenon, <1>1, <1>2, <2>5, <3>1, <3>2
  <2>7. /\ mapLock' = Nil
        /\ UNCHANGED <<allocated, serverMap, main, chanVars, timeVars, resolveVars, diskVars>>
    BY Zenon, <1>10 DEF RegisterClient, Unlock
  <2>. HIDE DEF new
  <2>. QED  BY Zenon, <1>2, <2>2, <2>3, <2>4, <2>6, <2>7, HandlerFrame
<1>11. CASE RegisterServer(g)
  <2>. DEFINE new == [handler[g] EXCEPT !.pc = "patch", !.proxy = 0]
  <2>2. handler[g].pc = "generate" /\ handler[g].peer \in PeerIds
    BY Zenon, <1>2, <1>11 DEF RegisterServer
  <2>3. new \in Handler /\ new.pc = "patch" /\ new.peer # NoPeer
    <3>1. 0 \in Index
      BY ConstantsAssumption
    <3>. HIDE DEF Index
    <3>. QED  BY Zenon, <1>9, <2>2, <3>1
  <2>4. handler' = [handler EXCEPT ![g] = new]
    BY Zenon, <1>1, <1>11 DEF RegisterServer
  <2>5. ServerRegistered(peers[handler[g].peer], handler[g].proxy) \in Peer
    <3>1. peers[handler[g].peer] \in Peer
      BY Zenon, <1>2, <2>2
    <3>. QED  BY Zenon, <1>1, <3>1 DEF ServerRegistered, Peer
  <2>6. peers' \in [PeerIds -> Peer] /\ serverMap' \in [Index -> 0..MaxPeers]
    <3>1. handler[g].peer \in 0..MaxPeers
      BY <2>2
    <3>2. /\ peers' = [peers EXCEPT ![handler[g].peer] =
                         ServerRegistered(peers[handler[g].peer], handler[g].proxy)]
          /\ serverMap' = [serverMap EXCEPT ![handler[g].proxy] = handler[g].peer]
      BY Zenon, <1>11 DEF RegisterServer
    <3>. HIDE DEF Index, PeerIds
    <3>. QED  BY Zenon, <1>1, <1>2, <2>5, <3>1, <3>2
  <2>7. /\ mapLock' = Nil /\ persisting' = TRUE
        /\ UNCHANGED <<allocated, clientMap, main, chanVars, timeVars, resolveVars, disk, restarts>>
    BY Zenon, <1>11 DEF RegisterServer, Unlock
  <2>. HIDE DEF new
  <2>. QED  BY Zenon, <1>2, <2>2, <2>3, <2>4, <2>6, <2>7, HandlerFrame
<1>12. CASE MarkObfuscated(g)
  <2>. DEFINE new == [handler[g] EXCEPT !.pc = "patch"]
  <2>2. handler[g].pc = "mark" /\ handler[g].peer \in PeerIds /\ peers[handler[g].peer] \in Peer
    BY Zenon, <1>2, <1>12 DEF MarkObfuscated
  <2>3. new \in Handler /\ new.pc = "patch" /\ new.peer # NoPeer
    BY <1>1, <2>2 DEF Handler
  <2>4. handler' = [handler EXCEPT ![g] = new]
    BY Zenon, <1>1, <1>12 DEF MarkObfuscated
  <2>5. [peers[handler[g].peer] EXCEPT !.obfuscateEnabled = TRUE] \in Peer
    BY Zenon, <2>2 DEF Peer
  <2>6. peers' \in [PeerIds -> Peer]
    BY Zenon, <1>2, <1>12, <2>2, <2>5 DEF MarkObfuscated
  <2>7. UNCHANGED <<allocated, clientMap, serverMap, mapLock, main, chanVars, timeVars, resolveVars, diskVars>>
    BY Zenon, <1>12 DEF MarkObfuscated
  <2>. HIDE DEF new
  <2>. QED  BY Zenon, <1>2, <2>2, <2>3, <2>4, <2>6, <2>7, HandlerFrame
<1>13. CASE ProcessCookieReply(g)
  <2>. DEFINE p == clientMap[handler[g].pkt.receiver]
              new == [handler[g] EXCEPT !.pc = "patch", !.peer = p]
  <2>1. /\ handler[g].pc = "start"
        /\ UNCHANGED <<tableVars, main, chanVars, timeVars, resolveVars, diskVars>>
    BY Zenon, <1>13 DEF ProcessCookieReply
  <2>2. CASE handler' = [handler EXCEPT ![g] = Idle]
    BY Zenon, <1>2, <1>3, <2>1, <2>2, HandlerFrame
  <2>3. CASE p # NoPeer /\ handler' = [handler EXCEPT ![g] = new]
    <3>1. p \in PeerIds
      <4>1. p \in 0..MaxPeers /\ p # NoPeer
        BY Zenon, <1>1, <1>2, <2>3
      <4>. HIDE DEF p
      <4>. QED  BY <4>1, ConstantsAssumption
    <3>. HIDE DEF p
    <3>2. new \in Handler /\ new.pc = "patch" /\ new.peer = p
      <4>. HIDE DEF PeerIds, NoPeer
      <4>. QED  BY Zenon, <1>1, <3>1 DEF Handler
    <3>. HIDE DEF new
    <3>. QED  BY Zenon, <1>2, <2>1, <2>3, <3>2, HandlerFrame
  <2>. QED  BY Zenon, <1>13, <2>2, <2>3 DEF ProcessCookieReply
<1>14. CASE PatchHandshake(g)
  <2>. DEFINE pkt == Patch(handler[g].pkt, peers[handler[g].peer])
              new == [handler[g] EXCEPT
                !.pc = IF /\ handler[g].pkt.type = "response"
                          /\ Translated(peers[handler[g].peer]) THEN "rewrite" ELSE "address",
                !.pkt = pkt]
  <2>1. /\ handler[g].pc = "patch" /\ handler[g].peer \in PeerIds
        /\ UNCHANGED <<tableVars, main, chanVars, timeVars, resolveVars, diskVars>>
        /\ handler' = [handler EXCEPT ![g] = new]
    BY Zenon, <1>1, <1>2, <1>14 DEF PatchHandshake
  <2>2. pkt \in Packet
    BY Zenon, <1>1, <1>2, <2>1, PatchType
  <2>. HIDE DEF pkt
  <2>3. new \in Handler /\ new.pc \in {"rewrite", "address"} /\ new.peer \in PeerIds
    BY Zenon, <1>1, <2>1, <2>2 DEF Handler
  <2>. HIDE DEF new
  <2>4. new.peer # NoPeer
    BY <2>3, ConstantsAssumption
  <2>. QED  BY Zenon, <1>2, <2>1, <2>3, <2>4, HandlerFrame
<1>141. CASE RewriteResponse(g)
  <2>. DEFINE pkt == PatchResponse(handler[g].pkt, peers[handler[g].peer])
              new == [handler[g] EXCEPT !.pc = "address", !.pkt = pkt]
  <2>1. /\ handler[g].pc = "rewrite" /\ handler[g].peer \in PeerIds
        /\ UNCHANGED <<tableVars, main, chanVars, timeVars, resolveVars, diskVars>>
        /\ handler' = [handler EXCEPT ![g] = new]
    BY Zenon, <1>1, <1>2, <1>141 DEF RewriteResponse
  <2>2. pkt \in Packet
    BY Zenon, <1>1, <1>2, <2>1, PatchType
  <2>. HIDE DEF pkt
  <2>3. new \in Handler /\ new.pc = "address" /\ new.peer \in PeerIds
    BY Zenon, <1>1, <2>1, <2>2 DEF Handler
  <2>. HIDE DEF new
  <2>4. new.peer # NoPeer
    BY <2>3, ConstantsAssumption
  <2>. QED  BY Zenon, <1>2, <2>1, <2>3, <2>4, HandlerFrame
<1>142. CASE AddressHandshake(g)
  <2>. DEFINE pkt == Address(handler[g].pkt, peers[handler[g].peer])
              new == [handler[g] EXCEPT !.pc = "send", !.pkt = pkt]
  <2>1. /\ handler[g].pc = "address" /\ handler[g].peer \in PeerIds
        /\ UNCHANGED <<tableVars, main, chanVars, timeVars, resolveVars, diskVars>>
        /\ handler' = [handler EXCEPT ![g] = new]
    BY Zenon, <1>1, <1>2, <1>142 DEF AddressHandshake
  <2>2. pkt \in Packet
    BY Zenon, <1>1, <1>2, <2>1, AddressType
  <2>. HIDE DEF pkt
  <2>3. new \in Handler /\ new.pc = "send"
    BY Zenon, <1>1, <2>2 DEF Handler
  <2>. HIDE DEF new
  <2>. QED  BY Zenon, <1>2, <2>1, <2>3, HandlerFrame
<1>15. CASE SendHandshake(g)
  <2>1. /\ handler[g].pc = "send" /\ Send(handler[g].pkt)
        /\ UNCHANGED <<tableVars, main, timeVars, resolveVars, diskVars>>
        /\ handler' = [handler EXCEPT ![g] = Idle]
    BY Zenon, <1>15 DEF SendHandshake
  <2>2. clientWriteChan' \in Seq(Packet) /\ serverWriteChan' \in Seq(Packet)
    BY Zenon, <1>1, <2>1, SendType
  <2>. QED  BY Zenon, <1>2, <1>3, <2>1, <2>2, HandlerFrame
<1>. QED  BY Zenon, <1>4, <1>5, <1>6, <1>71, <1>72, <1>8, <1>10, <1>11, <1>12, <1>13, <1>14, <1>141,
             <1>142, <1>15
          DEF HandlerStep

\* The remaining steps: the clock, the resolver, the writer and the cache file.
LEMMA OtherTypeOK ==
  ASSUME TypeOK,
         \/ Tick \/ (\E a \in ServerAddrs : Resolve(a))
         \/ PersistForwardTableCache \/ WriteToServer \/ WriteToClient
  PROVE  TypeOK'
<1>. USE DEF tableVars, chanVars, timeVars, resolveVars, diskVars
<1>1. CASE Tick
  <2>1. /\ now' \in 0..MaxTime /\ expireChan' \in (0..MaxTime) \cup {Nil}
        /\ UNCHANGED <<tableVars, handler, main, chanVars, resolveVars, diskVars>>
    BY <1>1, ConstantsAssumption DEF Tick, TypeOK
  <2>. QED  BY Zenon, <2>1 DEF TypeOK
<1>2. ASSUME NEW a \in ServerAddrs, Resolve(a) PROVE TypeOK'
  BY Zenon, <1>2 DEF Resolve, TypeOK
<1>3. CASE PersistForwardTableCache
  <2>1. \A p \in PeerIds : CachePeer(peers[p]) \in CacheRecord
    BY Zenon, CachePeerType DEF TypeOK
  <2>2. Values(serverMap) \subseteq PeerIds
    <3>1. serverMap \in [Index -> 0..MaxPeers]
      BY Zenon DEF TypeOK
    <3>. QED  BY <3>1, ConstantsAssumption DEF Values
  <2>3. /\ disk' \subseteq CacheRecord
        /\ UNCHANGED <<tableVars, handler, main, chanVars, timeVars, resolveVars, restarts>>
    BY Zenon, <1>3, <2>1, <2>2 DEF PersistForwardTableCache, Snapshot
  <2>4. persisting' \in BOOLEAN
    BY Zenon, <1>3 DEF PersistForwardTableCache
  <2>. QED  BY Zenon, <2>3, <2>4 DEF TypeOK
<1>4. CASE WriteToServer \/ WriteToClient
  <2>1. clientWriteChan \in Seq(Packet) /\ serverWriteChan \in Seq(Packet)
    BY Zenon DEF TypeOK
  <2>2. clientWriteChan' \in Seq(Packet) /\ serverWriteChan' \in Seq(Packet)
    <3>1. \A s \in Seq(Packet) : s # <<>> => Tail(s) \in Seq(Packet)
      OBVIOUS
    <3>. QED  BY Zenon, <1>4, <2>1, <3>1 DEF WriteToServer, WriteToClient
  <2>3. UNCHANGED <<tableVars, handler, main, timeVars, resolveVars, diskVars>>
    BY Zenon, <1>4 DEF WriteToServer, WriteToClient
  <2>. QED  BY Zenon, <2>2, <2>3 DEF TypeOK
<1>. QED  BY Zenon, <1>1, <1>2, <1>3, <1>4

\* LastRecord finds a record with the index it is asked for, or none.
LEMMA LastRecordFinds ==
  ASSUME NEW n \in Nat, NEW file, DOMAIN file = 1..n, NEW field, NEW i
  PROVE  LET k == LastRecord(file, field, i)
         IN  k = NoPeer \/ (k \in 1..n /\ file[k][field] = i)
<1>. DEFINE Last(k) == /\ file[k][field] = i
                       /\ \A l \in DOMAIN file : l > k => file[l][field] # i
<1>1. LastRecord(file, field, i) =
        IF \E k \in DOMAIN file : Last(k) THEN CHOOSE k \in DOMAIN file : Last(k) ELSE NoPeer
  BY Zenon DEF LastRecord
<1>2. CASE \E k \in DOMAIN file : Last(k)
  <2>1. (CHOOSE k \in DOMAIN file : Last(k)) \in DOMAIN file
        /\ Last(CHOOSE k \in DOMAIN file : Last(k))
    BY Zenon, <1>2
  <2>. QED  BY Zenon, <1>1, <1>2, <2>1
<1>. QED  BY Zenon, <1>1, <1>2

\* The types hold after a restart, whatever was saved.
LEMMA RestartTypeOK ==
  ASSUME TypeOK, Restart
  PROVE  TypeOK'
<1>0. PICK n \in 0..MaxPeers : \E file \in [1..n -> disk] :
         /\ peers' = [p \in PeerIds |-> IF p <= n THEN LoadedPeer(file[p]) ELSE ZeroPeer]
         /\ allocated' = n
         /\ clientMap' = [i \in Index |-> LastRecord(file, "clientProxyIndex", i)]
         /\ serverMap' = [i \in Index |-> IF i = 0 THEN NoPeer
                                          ELSE LastRecord(file, "serverProxyIndex", i)]
  BY Zenon DEF Restart
<1>1. PICK file \in [1..n -> disk] :
         /\ peers' = [p \in PeerIds |-> IF p <= n THEN LoadedPeer(file[p]) ELSE ZeroPeer]
         /\ allocated' = n
         /\ clientMap' = [i \in Index |-> LastRecord(file, "clientProxyIndex", i)]
         /\ serverMap' = [i \in Index |-> IF i = 0 THEN NoPeer
                                          ELSE LastRecord(file, "serverProxyIndex", i)]
  BY Zenon, <1>0
<1>2. n \in Nat /\ n <= MaxPeers /\ DOMAIN file = 1..n /\ disk \subseteq CacheRecord
  BY ConstantsAssumption DEF TypeOK
<1>3. peers' \in [PeerIds -> Peer]
  <2>1. ASSUME NEW p \in PeerIds, p <= n PROVE LoadedPeer(file[p]) \in Peer
    <3>1. p \in 1..n
      BY <1>2, <2>1
    <3>2. file[p] \in CacheRecord
      BY Zenon, <1>2, <3>1
    <3>. QED  BY Zenon, <3>2, LoadedPeerType
  <2>. QED  BY Zenon, <1>1, <2>1, ZeroTypes
<1>4. clientMap' \in [Index -> 0..MaxPeers] /\ serverMap' \in [Index -> 0..MaxPeers]
  <2>1. ASSUME NEW i \in Index, NEW f \in {"clientProxyIndex", "serverProxyIndex"}
        PROVE  LastRecord(file, f, i) \in 0..MaxPeers
    <3>1. LastRecord(file, f, i) \in {NoPeer} \cup 1..n
      BY Zenon, <1>2, LastRecordFinds
    <3>. QED  BY <1>2, <3>1, ConstantsAssumption
  <2>. QED  BY <1>1, <2>1, ConstantsAssumption
<1>5. /\ handler' \in [Goroutines -> Handler] /\ main' \in MainLoop
      /\ \A g \in Goroutines : handler'[g].pc = "idle"
      /\ main'.pc = "select" /\ mapLock' = Nil
  BY Zenon, ZeroTypes DEF Restart, Idle, Select
<1>6. clientWriteChan' \in Seq(Packet) /\ serverWriteChan' \in Seq(Packet) /\ persisting' = FALSE
  BY DEF Restart
<1>7. /\ expireChan' = Nil /\ resolved' = Nil /\ resolver' = "idle"
      /\ restarts' \in 0..MaxRestarts /\ now' \in 0..MaxTime /\ disk' \subseteq CacheRecord
  <2>1. /\ expireChan' = Nil /\ resolved' = Nil /\ resolver' = "idle"
        /\ restarts < MaxRestarts /\ restarts' = restarts + 1 /\ restarts \in 0..MaxRestarts
        /\ now' \in 0..MaxTime /\ disk' \subseteq CacheRecord
    BY Zenon DEF Restart, TypeOK
  <2>. QED  BY <2>1, ConstantsAssumption
<1>8. \A g \in Goroutines : mapLock' # g
  BY Zenon, <1>5, ConstantsAssumption
<1>. QED  BY Zenon, <1>1, <1>3, <1>4, <1>5, <1>6, <1>7, <1>8 DEF TypeOK

\* Every step is one of mainLoop, of a handler, of the environment or a restart.
LEMMA NextTypeOK ==
  ASSUME TypeOK, [Next]_vars
  PROVE  TypeOK'
<1>1. CASE UNCHANGED vars
  BY Zenon, <1>1 DEF vars, tableVars, chanVars, timeVars, resolveVars, diskVars, TypeOK
<1>2. CASE Next
  BY Zenon, <1>2, ArrivalsType, MainTypeOK, HandlerTypeOK, OtherTypeOK, RestartTypeOK DEF Next, Receive
<1>. QED  BY Zenon, <1>1, <1>2

\* Type correctness, with the lock discipline of generateProxyIndexLocked and
\* the non-nil peers behind the log.Panicf of both packet handlers.
THEOREM TypeCorrect == Spec => []TypeOK
<1>1. Init => TypeOK
  BY Zenon, InitTypeOK
<1>2. TypeOK /\ [Next]_vars => TypeOK'
  BY Zenon, NextTypeOK
<1>. QED  BY <1>1, <1>2, PTL DEF Spec

-----------------------------------------------------------------------------
(***************************************************************************)
(* The maps stay keyed by the indices of their peers: the inductive        *)
(* invariant TableInv.                                                     *)
(***************************************************************************)
\* Goroutine g is between its lookup in clientMap and its insertion into
\* serverMap.
Responding(g) == handler[g].pc = "generate" /\ ~Owns(g)

\* What TableInv reads of a peer.
Indices(p) == <<peers[p].clientProxyIndex, peers[p].serverProxyIndex, peers[p].clientOriginIndex>>

\* A step after which handler g, if it is about to insert a peer, was about
\* to insert it already.
Keeps(g) ==
  /\ Owns(g)' => Owns(g)
  /\ Responding(g)' => Responding(g)
  /\ Owns(g)' \/ Responding(g)' => /\ handler'[g].pkt = handler[g].pkt
                                   /\ handler'[g].peer = handler[g].peer

\* A step that changes nothing of the table but what TableInv does not read.
Quiet ==
  /\ UNCHANGED <<allocated, clientMap, serverMap, disk>>
  /\ \A p \in PeerIds : Indices(p)' = Indices(p)
  /\ \A g \in Goroutines : Keeps(g)

\* Map entries are peers of the heap.
LEMMA EntryInHeap ==
  ASSUME TypeOK, NEW i \in Index
  PROVE  /\ clientMap[i] # NoPeer => clientMap[i] \in PeerIds
         /\ serverMap[i] # NoPeer => serverMap[i] \in PeerIds
         /\ clientMap[i] \in 0..MaxPeers /\ serverMap[i] \in 0..MaxPeers
<1>1. clientMap[i] \in 0..MaxPeers /\ serverMap[i] \in 0..MaxPeers
  BY Zenon DEF TypeOK
<1>2. MaxPeers \in Nat
  BY Zenon, ConstantsAssumption
<1>. QED  BY <1>1, <1>2 DEF PeerIds, NoPeer

\* The allocated peers are in the heap.
LEMMA AllocatedInHeap ==
  ASSUME TypeOK, NEW p \in 1..allocated
  PROVE  p \in PeerIds /\ p # NoPeer
<1>1. allocated \in 0..MaxPeers
  BY Zenon DEF TypeOK
<1>2. MaxPeers \in Nat
  BY Zenon, ConstantsAssumption
<1>. QED  BY <1>1, <1>2 DEF PeerIds, NoPeer

\* A step that leaves the table and the handlers alone keeps TableInv.
LEMMA QuietTableInv ==
  ASSUME TypeOK, TableInv, Quiet
  PROVE  TableInv'
<1>1. /\ clientMap' = clientMap /\ serverMap' = serverMap /\ allocated' = allocated /\ disk' = disk
      /\ allocated \in 0..MaxPeers
  BY Zenon DEF Quiet, TypeOK
<1>2. \A p \in PeerIds : /\ peers'[p].clientProxyIndex = peers[p].clientProxyIndex
                         /\ peers'[p].serverProxyIndex = peers[p].serverProxyIndex
                         /\ peers'[p].clientOriginIndex = peers[p].clientOriginIndex
  BY Zenon DEF Quiet, Indices
<1>3. TableKeyed'
  BY Zenon, <1>1, <1>2, EntryInHeap DEF TableInv, TableKeyed, IsServerReplied
<1>4. Registered'
  BY Zenon, <1>1, <1>2, EntryInHeap DEF TableInv, Registered
<1>5. ASSUME NEW g \in Goroutines, Owns(g)'
      PROVE  /\ handler'[g].pkt.type = "initiation"
             /\ handler'[g].peer \in 1..allocated'
             /\ \A i \in Index : clientMap'[i] # handler'[g].peer /\ serverMap'[i] # handler'[g].peer
             /\ peers'[handler'[g].peer].serverProxyIndex = 0
             /\ peers'[handler'[g].peer].clientOriginIndex = handler'[g].pkt.sender
  <2>1. Owns(g) /\ handler'[g].pkt = handler[g].pkt /\ handler'[g].peer = handler[g].peer
    BY Zenon, <1>5 DEF Quiet, Keeps
  <2>2. /\ handler[g].pkt.type = "initiation"
        /\ handler[g].peer \in 1..allocated
        /\ \A i \in Index : clientMap[i] # handler[g].peer /\ serverMap[i] # handler[g].peer
        /\ peers[handler[g].peer].serverProxyIndex = 0
        /\ peers[handler[g].peer].clientOriginIndex = handler[g].pkt.sender
    BY Zenon, <2>1 DEF TableInv, OwnersSound
  <2>3. handler[g].peer \in PeerIds
    BY <1>1, <2>2, ConstantsAssumption DEF PeerIds
  <2>. QED  BY <1>1, <1>2, <2>1, <2>2, <2>3
<1>6. ASSUME NEW g \in Goroutines, NEW h \in Goroutines, Owns(g)', Owns(h)',
             handler'[g].peer = handler'[h].peer
      PROVE  g = h
  BY Zenon, <1>6 DEF Quiet, Keeps, TableInv, OwnersDistinct
<1>7. ASSUME NEW g \in Goroutines, handler'[g].pc = "generate", ~Owns(g)'
      PROVE  /\ handler'[g].pkt.type = "response"
             /\ handler'[g].peer # NoPeer
             /\ handler'[g].peer = clientMap'[handler'[g].pkt.receiver]
  BY Zenon, <1>1, <1>7 DEF Quiet, Keeps, TableInv, RespondersSound, Responding
<1>8. Bounded' /\ Loadable'
  BY Zenon, <1>1 DEF TableInv, Bounded, Loadable
<1>. QED  BY Zenon, <1>3, <1>4, <1>5, <1>6, <1>7, <1>8 DEF TableInv, OwnersSound, OwnersDistinct, RespondersSound

\* A step in which only handler g moves, to a place where it owns no new peer.
LEMMA LetsGo ==
  ASSUME NEW g \in Goroutines,
         handler'[g].pc \in {"idle", "start", "mark", "patch", "rewrite", "address", "send"},
         \A q \in Goroutines : q # g => handler'[q] = handler[q]
  PROVE  \A q \in Goroutines : Keeps(q)
<1>1. ~Owns(g)' /\ ~Responding(g)'
  BY Zenon DEF Owns, Responding
<1>2. \A q \in Goroutines : q # g => Keeps(q)
  BY Zenon DEF Owns, Responding, Keeps
<1>. QED  BY Zenon, <1>1, <1>2 DEF Keeps

\* A step that leaves the table alone keeps what the handlers know of it.
LEMMA HandlersStay ==
  ASSUME handler' = handler
  PROVE  \A q \in Goroutines : Keeps(q)
BY Zenon DEF Keeps, Owns, Responding

\* The steps of mainLoop, of the clock, the resolver and the write loops.
LEMMA MainQuiet ==
  ASSUME TypeOK,
         \/ UNCHANGED vars
         \/ \E pkt \in Packet : ReceiveTransport(pkt)
         \/ MainStep /\ ~HandlePeersExpireCheck
         \/ Tick \/ (\E a \in ServerAddrs : Resolve(a)) \/ WriteToServer \/ WriteToClient
  PROVE  Quiet
<1>. USE DEF tableVars, chanVars, timeVars, resolveVars, diskVars, vars
<1>1. handler' = handler /\ UNCHANGED <<allocated, clientMap, serverMap, disk>>
  BY Zenon DEF MainStep, ReceiveTransport, ReceiveTick, ReceiveUpdate, DropTransport, LookupTransport,
         ProcessMessageTransport, PatchTransport, SendTransport, HandleAllServerDestinationUpdate,
         Tick, Resolve, WriteToServer, WriteToClient
<1>2. \A p \in PeerIds : Indices(p)' = Indices(p)
  <2>1. CASE peers' = peers
    BY Zenon, <2>1 DEF Indices
  <2>2. CASE ProcessMessageTransport
    <3>1. peers \in [PeerIds -> Peer]
      BY Zenon DEF TypeOK
    <3>. QED  BY <2>2, <3>1 DEF ProcessMessageTransport, Indices, Peer
  <2>3. CASE HandleAllServerDestinationUpdate
    <3>1. peers \in [PeerIds -> Peer]
      BY Zenon DEF TypeOK
    <3>. QED  BY <2>3, <3>1 DEF HandleAllServerDestinationUpdate, Indices, Peer
  <2>. QED
    BY Zenon, <2>1, <2>2, <2>3
    DEF MainStep, ReceiveTransport, ReceiveTick, ReceiveUpdate, DropTransport, LookupTransport,
        PatchTransport, SendTransport, Tick, Resolve, WriteToServer, WriteToClient
<1>. QED  BY Zenon, <1>1, <1>2, HandlersStay DEF Quiet

\* The handler steps that do not insert a peer.
LEMMA HandlerQuiet ==
  ASSUME TypeOK, TableInv, NEW g \in Goroutines,
         \/ \E pkt \in Packet : ReceiveHandshake(g, pkt)
         \/ RejectHandshake(g) \/ MissClientMap(g) \/ ProcessCookieReply(g)
         \/ LockClientMap(g) \/ DrawProxyIndex(g) \/ MarkObfuscated(g)
         \/ PatchHandshake(g) \/ RewriteResponse(g) \/ AddressHandshake(g) \/ SendHandshake(g)
  PROVE  Quiet
<1>. USE DEF tableVars, chanVars, timeVars, resolveVars, diskVars
<1>1. UNCHANGED <<allocated, clientMap, serverMap, disk>>
  BY Zenon DEF ReceiveHandshake, RejectHandshake, MissClientMap, ProcessCookieReply, LockClientMap,
         DrawProxyIndex, MarkObfuscated, PatchHandshake, RewriteResponse, AddressHandshake,
         SendHandshake
<1>2. \A p \in PeerIds : Indices(p)' = Indices(p)
  <2>1. CASE peers' = peers
    BY Zenon, <2>1 DEF Indices
  <2>2. CASE MarkObfuscated(g)
    <3>1. peers \in [PeerIds -> Peer]
      BY Zenon DEF TypeOK
    <3>. QED  BY <2>2, <3>1 DEF MarkObfuscated, Indices, Peer
  <2>. QED
    BY Zenon, <2>1, <2>2
    DEF ReceiveHandshake, RejectHandshake, MissClientMap, ProcessCookieReply, LockClientMap,
        DrawProxyIndex, PatchHandshake, RewriteResponse, AddressHandshake, SendHandshake
<1>3. handler \in [Goroutines -> Handler] /\ handler[g] \in Handler
  BY Zenon DEF TypeOK
<1>4. CASE ~LockClientMap(g) /\ ~DrawProxyIndex(g)
  <2>1. \A q \in Goroutines : q # g => handler'[q] = handler[q]
    BY ZenonT(60), <1>3, <1>4
    DEF ReceiveHandshake, RejectHandshake, MissClientMap, ProcessCookieReply, MarkObfuscated,
        PatchHandshake, RewriteResponse, AddressHandshake, SendHandshake
  <2>2. handler'[g].pc \in {"idle", "start", "mark", "patch", "rewrite", "address", "send"}
    <3>1. ASSUME NEW pkt, ReceiveHandshake(g, pkt) PROVE handler'[g].pc = "start"
      BY Zenon, <1>3, <3>1 DEF ReceiveHandshake, Idle
    <3>2. CASE RejectHandshake(g) \/ MissClientMap(g) \/ SendHandshake(g)
      <4>1. handler' = [handler EXCEPT ![g] = Idle]
        BY Zenon, <3>2 DEF RejectHandshake, MissClientMap, SendHandshake
      <4>. QED  BY Zenon, <1>3, <4>1 DEF Idle
    <3>3. CASE ProcessCookieReply(g)
      BY <1>3, <3>3 DEF ProcessCookieReply, Idle, Handler
    <3>4. CASE MarkObfuscated(g) \/ PatchHandshake(g)
      BY <1>3, <3>4 DEF MarkObfuscated, PatchHandshake, Handler
    <3>5. CASE RewriteResponse(g) \/ AddressHandshake(g)
      BY <1>3, <3>5 DEF RewriteResponse, AddressHandshake, Handler
    <3>. QED  BY Zenon, <1>4, <3>1, <3>2, <3>3, <3>4, <3>5
  <2>3. \A q \in Goroutines : Keeps(q)
    BY ZenonT(60), <2>1, <2>2, LetsGo
  <2>. QED  BY Zenon, <1>1, <1>2, <2>3 DEF Quiet
<1>5. CASE LockClientMap(g) \/ DrawProxyIndex(g)
  <2>1. /\ handler'[g].pkt = handler[g].pkt /\ handler'[g].peer = handler[g].peer
        /\ handler[g].pc \in {"lockClientMap", "generate"} /\ handler'[g].pc = "generate"
        /\ handler[g].pc = "lockClientMap" \/ handler'[g].pc = handler[g].pc
        /\ \A q \in Goroutines : q # g => handler'[q] = handler[q]
    BY <1>3, <1>5 DEF LockClientMap, DrawProxyIndex, EnterGenerate, Handler
  <2>2. handler[g].pc = "lockClientMap" => handler[g].pkt.type = "initiation"
    BY Zenon DEF TableInv, OwnersSound, Owns
  <2>3. \A q \in Goroutines : Keeps(q)
    BY Zenon, <2>1, <2>2 DEF Keeps, Owns, Responding
  <2>. QED  BY Zenon, <1>1, <1>2, <2>3 DEF Quiet
<1>. QED  BY Zenon, <1>4, <1>5

\* A new peer: no map refers to it.
LEMMA ExtractPeerTableInv ==
  ASSUME TypeOK, TableInv, NEW g \in Goroutines, ExtractPeer(g)
  PROVE  TableInv'
<1>. DEFINE n == allocated + 1
<1>1. /\ allocated \in Nat /\ n \in PeerIds /\ allocated' = n
      /\ UNCHANGED <<clientMap, serverMap, disk>>
  <2>1. /\ allocated \in 0..MaxPeers /\ allocated < MaxPeers /\ allocated' = n
        /\ UNCHANGED <<clientMap, serverMap, disk>>
    BY Zenon DEF TypeOK, ExtractPeer, diskVars
  <2>. QED  BY <2>1, ConstantsAssumption DEF PeerIds
<1>2. /\ \A p \in PeerIds : p # n => peers'[p] = peers[p]
      /\ peers'[n].serverProxyIndex = 0 /\ peers'[n].clientOriginIndex = handler[g].pkt.sender
  BY Zenon, <1>1 DEF TypeOK, ExtractPeer, NewPeer
<1>3. /\ handler'[g].pc = "lockClientMap" /\ handler'[g].peer = n
      /\ handler'[g].pkt = handler[g].pkt /\ handler[g].pkt.type = "initiation"
      /\ \A q \in Goroutines : q # g => handler'[q] = handler[q]
  BY Zenon DEF TypeOK, ExtractPeer, Handler
<1>4. \A i \in Index : clientMap[i] <= allocated /\ serverMap[i] <= allocated
                       /\ clientMap[i] # n /\ serverMap[i] # n
  BY <1>1, EntryInHeap DEF TableInv, Bounded
<1>5. \A q \in Goroutines : q # g => (Owns(q)' <=> Owns(q))
  BY Zenon, <1>3 DEF Owns
<1>6. \A q \in Goroutines : Owns(q) => handler[q].peer \in 1..allocated /\ handler[q].peer # n
                                       /\ handler[q].peer \in PeerIds
  BY <1>1, ConstantsAssumption DEF TableInv, OwnersSound, PeerIds
<1>7. TableKeyed'
  BY Zenon, <1>1, <1>2, <1>4, EntryInHeap DEF TableInv, TableKeyed, IsServerReplied
<1>8. Registered'
  BY Zenon, <1>1, <1>2, <1>4, EntryInHeap DEF TableInv, Registered
<1>9. OwnersSound'
  <2>1. 1..allocated \subseteq 1..allocated' /\ n \in 1..allocated'
    BY <1>1
  <2>. HIDE DEF n
  <2>2. ASSUME NEW q \in Goroutines, q # g, Owns(q)'
        PROVE  /\ handler'[q].pkt.type = "initiation"
               /\ handler'[q].peer \in 1..allocated'
               /\ \A i \in Index : clientMap'[i] # handler'[q].peer /\ serverMap'[i] # handler'[q].peer
               /\ peers'[handler'[q].peer].serverProxyIndex = 0
               /\ peers'[handler'[q].peer].clientOriginIndex = handler'[q].pkt.sender
    <3>1. Owns(q) /\ handler'[q] = handler[q] /\ peers'[handler[q].peer] = peers[handler[q].peer]
      BY Zenon, <1>2, <1>3, <1>5, <1>6, <2>2
    <3>. QED  BY ZenonT(60), <1>1, <1>6, <2>1, <3>1 DEF TableInv, OwnersSound
  <2>. QED  BY <1>1, <1>2, <1>3, <1>4, <2>1, <2>2 DEF OwnersSound
<1>10. OwnersDistinct'
  BY <1>3, <1>5, <1>6 DEF TableInv, OwnersDistinct
<1>11. RespondersSound'
  BY Zenon, <1>1, <1>3, <1>5 DEF TableInv, RespondersSound
<1>12. Bounded' /\ Loadable'
  BY <1>1, <1>4, EntryInHeap DEF TableInv, Bounded, Loadable
<1>. QED  BY Zenon, <1>7, <1>8, <1>9, <1>10, <1>11, <1>12 DEF TableInv

\* The lookup of a response: the peer found is the one in clientMap.
LEMMA LockServerMapTableInv ==
  ASSUME TypeOK, TableInv, NEW g \in Goroutines, LockServerMap(g)
  PROVE  TableInv'
<1>. DEFINE r == handler[g].pkt.receiver
<1>1. /\ UNCHANGED <<clientMap, serverMap, allocated, disk>> /\ clientMap[r] # NoPeer
      /\ r \in Index /\ handler[g].pkt.type = "response"
  BY Zenon DEF TypeOK, LockServerMap, diskVars, Handler, Packet
<1>2. /\ handler'[g].pc = "generate" /\ handler'[g].peer = clientMap[r]
      /\ handler'[g].pkt = handler[g].pkt
      /\ \A q \in Goroutines : q # g => handler'[q] = handler[q]
  BY ZenonT(60) DEF TypeOK, LockServerMap, EnterGenerate, Handler
<1>3. \A p \in PeerIds : /\ peers'[p].clientProxyIndex = peers[p].clientProxyIndex
                         /\ peers'[p].serverProxyIndex = peers[p].serverProxyIndex
                         /\ peers'[p].clientOriginIndex = peers[p].clientOriginIndex
  <2>1. peers \in [PeerIds -> Peer]
    BY ZenonT(60) DEF TypeOK
  <2>. QED  BY ZenonT(60), <2>1 DEF LockServerMap, Peer
<1>4. ~Owns(g)' /\ \A q \in Goroutines : q # g => (Owns(q)' <=> Owns(q))
  BY Zenon, <1>1, <1>2 DEF Owns
<1>5. \A q \in Goroutines : Owns(q) => handler[q].peer \in PeerIds
  BY Zenon, AllocatedInHeap DEF TableInv, OwnersSound
<1>6. TableKeyed'
  BY Zenon, <1>1, <1>3, EntryInHeap DEF TableInv, TableKeyed, IsServerReplied
<1>7. Registered'
  BY ZenonT(60), <1>1, <1>3, EntryInHeap DEF TableInv, Registered
<1>8. OwnersSound'
  <2>1. ASSUME NEW q \in Goroutines, Owns(q)'
        PROVE  /\ handler'[q].pkt.type = "initiation"
               /\ handler'[q].peer \in 1..allocated'
               /\ \A i \in Index : clientMap'[i] # handler'[q].peer /\ serverMap'[i] # handler'[q].peer
               /\ peers'[handler'[q].peer].serverProxyIndex = 0
               /\ peers'[handler'[q].peer].clientOriginIndex = handler'[q].pkt.sender
    <3>1. Owns(q) /\ handler'[q] = handler[q] /\ handler[q].peer \in PeerIds
      BY Zenon, <2>1, <1>2, <1>4, <1>5
    <3>2. /\ handler[q].pkt.type = "initiation"
          /\ handler[q].peer \in 1..allocated
          /\ \A i \in Index : clientMap[i] # handler[q].peer /\ serverMap[i] # handler[q].peer
          /\ peers[handler[q].peer].serverProxyIndex = 0
          /\ peers[handler[q].peer].clientOriginIndex = handler[q].pkt.sender
      BY Zenon, <3>1 DEF TableInv, OwnersSound
    <3>. QED  BY Zenon, <3>1, <3>2, <1>1, <1>3
  <2>. QED  BY Zenon, <2>1 DEF OwnersSound
<1>9. OwnersDistinct'
  BY Zenon, <1>2, <1>4 DEF TableInv, OwnersDistinct
<1>10. RespondersSound'
  BY <1>1, <1>2, <1>4 DEF TableInv, RespondersSound
<1>11. Bounded' /\ Loadable'
  BY Zenon, <1>1 DEF TableInv, Bounded, Loadable
<1>. QED  BY Zenon, <1>6, <1>7, <1>8, <1>9, <1>10, <1>11 DEF TableInv

\* The insertion into clientMap: nobody else refers to the new peer, and
\* mapLock keeps the responders out.
LEMMA RegisterClientTableInv ==
  ASSUME TypeOK, TableInv, NEW g \in Goroutines, RegisterClient(g)
  PROVE  TableInv'
<1>. DEFINE n == handler[g].peer
            x == handler[g].proxy
<1>1. /\ Owns(g) /\ n \in 1..allocated /\ n \in PeerIds /\ n # NoPeer /\ x \in Index /\ x # 0
      /\ \A i \in Index : clientMap[i] # n /\ serverMap[i] # n
  <2>1. Owns(g) /\ x \in Index /\ x # 0
    BY Zenon DEF RegisterClient, RetryProxyIndex, Owns, TypeOK, Handler
  <2>. QED  BY Zenon, <2>1, AllocatedInHeap DEF TableInv, OwnersSound
<1>2. /\ UNCHANGED <<serverMap, allocated, disk>>
      /\ clientMap' = [clientMap EXCEPT ![x] = n]
      /\ clientMap \in [Index -> 0..MaxPeers]
  BY Zenon DEF TypeOK, RegisterClient, diskVars
<1>3. /\ peers'[n].clientProxyIndex = x /\ peers'[n].serverProxyIndex = peers[n].serverProxyIndex
      /\ \A p \in PeerIds : p # n => peers'[p] = peers[p]
  BY Zenon, <1>1 DEF TypeOK, RegisterClient, ClientRegistered, Peer
<1>4. /\ handler'[g].pc \in {"mark", "patch"}
      /\ \A q \in Goroutines : q # g => handler'[q] = handler[q]
  BY Zenon DEF TypeOK, RegisterClient, Handler
<1>5. \A q \in Goroutines : q # g => handler[q].pc # "generate"
  BY Zenon DEF TypeOK, RegisterClient
<1>6. ~Owns(g)' /\ \A q \in Goroutines : q # g => (Owns(q)' <=> Owns(q))
  BY Zenon, <1>4 DEF Owns
<1>7. \A q \in Goroutines : q # g /\ Owns(q) => handler[q].peer # n /\ handler[q].peer \in PeerIds
  BY Zenon, <1>1, AllocatedInHeap DEF TableInv, OwnersSound, OwnersDistinct
<1>. HIDE DEF n, x
<1>8. TableKeyed'
  <2>1. TableKeyed
    BY Zenon DEF TableInv
  <2>2. clientMap'[x] = n /\ \A i \in Index : i # x => clientMap'[i] = clientMap[i]
    BY Zenon, <1>1, <1>2
  <2>3. clientMap'[0] = NoPeer /\ serverMap'[0] = NoPeer
    <3>1. 0 \in Index
      BY ConstantsAssumption DEF Index
    <3>. QED  BY Zenon, <3>1, <1>1, <1>2, <2>1, <2>2 DEF TableKeyed
  <2>4. ASSUME NEW i \in Index, clientMap'[i] # NoPeer
        PROVE  peers'[clientMap'[i]].clientProxyIndex = i
    <3>1. CASE i = x
      BY Zenon, <3>1, <1>3, <2>2
    <3>2. CASE i # x
      <4>1. clientMap'[i] = clientMap[i] /\ clientMap[i] # n /\ clientMap[i] \in PeerIds
        BY Zenon, <3>2, <2>2, <2>4, <1>1, EntryInHeap
      <4>. QED  BY Zenon, <4>1, <2>1, <2>4, <1>3 DEF TableKeyed
    <3>. QED  BY Zenon, <3>1, <3>2
  <2>5. ASSUME NEW i \in Index, serverMap'[i] # NoPeer
        PROVE  IsServerReplied(serverMap[i])'
    <3>1. serverMap'[i] = serverMap[i] /\ serverMap[i] # n /\ serverMap[i] \in PeerIds
      BY Zenon, <2>5, <1>1, <1>2, EntryInHeap
    <3>. QED  BY Zenon, <3>1, <2>1, <2>5, <1>3 DEF TableKeyed, IsServerReplied
  <2>. QED  BY Zenon, <2>3, <2>4, <2>5 DEF TableKeyed
<1>9. Registered'
  BY ZenonT(60), <1>1, <1>2, <1>3, EntryInHeap DEF TableInv, Registered
<1>10. OwnersSound'
  <2>1. ASSUME NEW q \in Goroutines, Owns(q)'
        PROVE  /\ handler'[q].pkt.type = "initiation"
               /\ handler'[q].peer \in 1..allocated'
               /\ \A i \in Index : clientMap'[i] # handler'[q].peer /\ serverMap'[i] # handler'[q].peer
               /\ peers'[handler'[q].peer].serverProxyIndex = 0
               /\ peers'[handler'[q].peer].clientOriginIndex = handler'[q].pkt.sender
    <3>1. q # g /\ Owns(q) /\ handler'[q] = handler[q]
      BY Zenon, <2>1, <1>4, <1>6
    <3>2. handler[q].peer # n /\ peers'[handler[q].peer] = peers[handler[q].peer]
      BY Zenon, <3>1, <1>7, <1>3
    <3>3. /\ handler[q].pkt.type = "initiation"
          /\ handler[q].peer \in 1..allocated
          /\ \A i \in Index : clientMap[i] # handler[q].peer /\ serverMap[i] # handler[q].peer
          /\ peers[handler[q].peer].serverProxyIndex = 0
          /\ peers[handler[q].peer].clientOriginIndex = handler[q].pkt.sender
      BY Zenon, <3>1 DEF TableInv, OwnersSound
    <3>4. \A i \in Index : clientMap'[i] # handler[q].peer /\ serverMap'[i] # handler[q].peer
      BY Zenon, <3>2, <3>3, <1>1, <1>2
    <3>. QED  BY Zenon, <3>1, <3>2, <3>3, <3>4, <1>2
  <2>. QED  BY Zenon, <2>1 DEF OwnersSound
<1>11. OwnersDistinct'
  BY Zenon, <1>4, <1>6 DEF TableInv, OwnersDistinct
<1>12. \A q \in Goroutines : handler'[q].pc # "generate"
  BY Zenon, <1>4, <1>5
<1>13. Bounded' /\ Loadable'
  BY <1>1, <1>2 DEF TableInv, Bounded, Loadable
<1>. QED  BY ZenonT(60), <1>8, <1>9, <1>10, <1>11, <1>12, <1>13 DEF TableInv, RespondersSound

\* The insertion into serverMap: the peer is one of clientMap still.
LEMMA RegisterServerTableInv ==
  ASSUME TypeOK, TableInv, NEW g \in Goroutines, RegisterServer(g)
  PROVE  TableInv'
<1>. DEFINE p == handler[g].peer
            x == handler[g].proxy
            r == handler[g].pkt.receiver
<1>1. /\ p # NoPeer /\ p = clientMap[r] /\ x \in Index /\ x # 0 /\ r \in Index
  <2>1. handler[g].pc = "generate" /\ ~Owns(g) /\ x \in Index /\ x # 0 /\ r \in Index
    BY Zenon DEF RegisterServer, RetryProxyIndex, Owns, TypeOK, Handler, Packet
  <2>. QED  BY Zenon, <2>1 DEF TableInv, RespondersSound
<1>2. /\ UNCHANGED <<clientMap, allocated, disk>>
      /\ serverMap' = [serverMap EXCEPT ![x] = p]
      /\ serverMap \in [Index -> 0..MaxPeers]
  BY Zenon DEF TypeOK, RegisterServer, diskVars
<1>3. /\ p \in PeerIds /\ p <= allocated /\ peers[p].clientProxyIndex # 0
  <2>1. r # 0 /\ peers[p].clientProxyIndex = r
    BY Zenon, <1>1 DEF TableInv, TableKeyed
  <2>. QED  BY ZenonT(60), <1>1, <2>1, EntryInHeap DEF TableInv, Bounded
<1>4. /\ peers'[p].serverProxyIndex = x /\ peers'[p].clientProxyIndex = peers[p].clientProxyIndex
      /\ \A q \in PeerIds : q # p => peers'[q] = peers[q]
  BY Zenon, <1>3 DEF TypeOK, RegisterServer, ServerRegistered, Peer
<1>5. /\ handler'[g].pc = "patch"
      /\ \A q \in Goroutines : q # g => handler'[q] = handler[q]
  BY Zenon DEF TypeOK, RegisterServer, Handler
<1>6. \A q \in Goroutines : q # g => handler[q].pc # "generate"
  BY Zenon DEF TypeOK, RegisterServer
<1>7. ~Owns(g)' /\ \A q \in Goroutines : q # g => (Owns(q)' <=> Owns(q))
  BY Zenon, <1>5 DEF Owns
<1>8. \A q \in Goroutines : Owns(q) => handler[q].peer # p /\ handler[q].peer \in PeerIds
  <2>1. \A q \in Goroutines : Owns(q) => handler[q].peer # p /\ handler[q].peer \in 1..allocated
    BY Zenon, <1>1 DEF TableInv, OwnersSound
  <2>2. 1..allocated \subseteq PeerIds
    BY ConstantsAssumption DEF TypeOK, PeerIds
  <2>. QED  BY Zenon, <2>1, <2>2
<1>. HIDE DEF p, x, r
<1>9. TableKeyed'
  <2>1. TableKeyed
    BY Zenon DEF TableInv
  <2>2. serverMap'[x] = p /\ \A i \in Index : i # x => serverMap'[i] = serverMap[i]
    BY Zenon, <1>1, <1>2
  <2>3. clientMap'[0] = NoPeer /\ serverMap'[0] = NoPeer
    <3>1. 0 \in Index
      BY ConstantsAssumption DEF Index
    <3>. QED  BY Zenon, <3>1, <1>1, <1>2, <2>1, <2>2 DEF TableKeyed
  <2>4. ASSUME NEW i \in Index, clientMap'[i] # NoPeer
        PROVE  peers'[clientMap'[i]].clientProxyIndex = i
    <3>1. clientMap'[i] = clientMap[i] /\ clientMap[i] \in PeerIds
      BY Zenon, <2>4, <1>2, EntryInHeap
    <3>. QED  BY Zenon, <3>1, <2>1, <2>4, <1>4 DEF TableKeyed
  <2>5. ASSUME NEW i \in Index, serverMap'[i] # NoPeer
        PROVE  IsServerReplied(serverMap[i])'
    <3>1. CASE serverMap'[i] = p
      BY Zenon, <3>1, <1>1, <1>4 DEF IsServerReplied
    <3>2. CASE serverMap'[i] # p
      <4>1. serverMap'[i] = serverMap[i] /\ serverMap[i] \in PeerIds
        BY Zenon, <3>2, <2>2, <2>5, EntryInHeap
      <4>. QED  BY Zenon, <3>2, <4>1, <2>1, <2>5, <1>4 DEF TableKeyed, IsServerReplied
    <3>. QED  BY Zenon, <3>1, <3>2
  <2>. QED  BY Zenon, <2>3, <2>4, <2>5 DEF TableKeyed
<1>10. Registered'
  BY Zenon, <1>1, <1>2, <1>3, <1>4, EntryInHeap DEF TableInv, Registered
<1>11. OwnersSound'
  <2>1. ASSUME NEW q \in Goroutines, Owns(q)'
        PROVE  /\ handler'[q].pkt.type = "initiation"
               /\ handler'[q].peer \in 1..allocated'
               /\ \A i \in Index : clientMap'[i] # handler'[q].peer /\ serverMap'[i] # handler'[q].peer
               /\ peers'[handler'[q].peer].serverProxyIndex = 0
               /\ peers'[handler'[q].peer].clientOriginIndex = handler'[q].pkt.sender
    <3>1. q # g /\ Owns(q) /\ handler'[q] = handler[q]
      BY Zenon, <2>1, <1>5, <1>7
    <3>2. handler[q].peer # p /\ peers'[handler[q].peer] = peers[handler[q].peer]
      BY Zenon, <3>1, <1>8, <1>4
    <3>3. /\ handler[q].pkt.type = "initiation"
          /\ handler[q].peer \in 1..allocated
          /\ \A i \in Index : clientMap[i] # handler[q].peer /\ serverMap[i] # handler[q].peer
          /\ peers[handler[q].peer].serverProxyIndex = 0
          /\ peers[handler[q].peer].clientOriginIndex = handler[q].pkt.sender
      BY Zenon, <3>1 DEF TableInv, OwnersSound
    <3>4. \A i \in Index : clientMap'[i] # handler[q].peer /\ serverMap'[i] # handler[q].peer
      BY Zenon, <3>2, <3>3, <1>1, <1>2
    <3>. QED  BY Zenon, <3>1, <3>2, <3>3, <3>4, <1>2
  <2>. QED  BY Zenon, <2>1 DEF OwnersSound
<1>12. OwnersDistinct'
  BY Zenon, <1>5, <1>7 DEF TableInv, OwnersDistinct
<1>13. \A q \in Goroutines : handler'[q].pc # "generate"
  BY Zenon, <1>5, <1>6
<1>14. Bounded' /\ Loadable'
  BY Zenon, <1>1, <1>2, <1>3 DEF TableInv, Bounded, Loadable
<1>. QED  BY Zenon, <1>9, <1>10, <1>11, <1>12, <1>13, <1>14 DEF TableInv, RespondersSound

\* Expiry only removes entries, while no handler has the lock.
LEMMA ExpireTableInv ==
  ASSUME TypeOK, TableInv, HandlePeersExpireCheck
  PROVE  TableInv'
<1>1. /\ UNCHANGED <<peers, allocated, handler, disk>>
      /\ \A i \in Index : clientMap'[i] \in {clientMap[i], NoPeer}
                          /\ serverMap'[i] \in {serverMap[i], NoPeer}
      /\ \A g \in Goroutines : handler[g].pc # "generate"
  <2>1. UNCHANGED <<peers, allocated, handler, disk>>
    BY Zenon DEF HandlePeersExpireCheck
  <2>2. \A i \in Index : clientMap'[i] \in {clientMap[i], NoPeer}
                         /\ serverMap'[i] \in {serverMap[i], NoPeer}
    BY Zenon DEF HandlePeersExpireCheck
  <2>3. \A g \in Goroutines : mapLock = g <=> handler[g].pc = "generate"
    BY Zenon DEF TypeOK
  <2>4. mapLock = Nil
    BY Zenon DEF HandlePeersExpireCheck
  <2>. QED  BY Zenon, <2>1, <2>2, <2>3, <2>4, ConstantsAssumption
<1>2. 0 \in Index /\ allocated \in Nat
  BY ConstantsAssumption DEF Index, TypeOK
<1>3. TableKeyed'
  BY Zenon, <1>1, <1>2 DEF TableInv, TableKeyed, IsServerReplied
<1>4. Registered'
  BY Zenon, <1>1 DEF TableInv, Registered
<1>5. OwnersSound'
  <2>1. \A p \in 1..allocated : p # NoPeer
    BY <1>2
  <2>2. \A g \in Goroutines : Owns(g)' <=> Owns(g)
    BY Zenon, <1>1 DEF Owns
  <2>3. ASSUME NEW g \in Goroutines, Owns(g)
        PROVE  \A i \in Index : clientMap'[i] # handler[g].peer /\ serverMap'[i] # handler[g].peer
    BY ZenonT(60), <1>1, <2>1, <2>3 DEF TableInv, OwnersSound
  <2>. QED  BY ZenonT(60), <1>1, <2>2, <2>3 DEF TableInv, OwnersSound
<1>6. OwnersDistinct'
  BY Zenon, <1>1 DEF TableInv, OwnersDistinct, Owns
<1>7. Bounded' /\ Loadable'
  BY <1>1, <1>2 DEF TableInv, Bounded, Loadable, NoPeer
<1>. QED  BY Zenon, <1>1, <1>3, <1>4, <1>5, <1>6, <1>7 DEF TableInv, RespondersSound

\* The records on disk are those of peers the server has replied to.
LEMMA PersistTableInv ==
  ASSUME TypeOK, TableInv, PersistForwardTableCache
  PROVE  TableInv'
<1>1. UNCHANGED <<tableVars, handler>> /\ disk' = Snapshot
  BY Zenon DEF PersistForwardTableCache
<1>2. \A cp \in disk' : cp.clientProxyIndex # 0 /\ cp.serverProxyIndex # 0
  <2>. SUFFICES ASSUME NEW p \in Values(serverMap)
                PROVE  peers[p].clientProxyIndex # 0 /\ peers[p].serverProxyIndex # 0
    BY <1>1 DEF Snapshot, CachePeer
  <2>. QED  BY Zenon DEF Values, TableInv, Registered, TableKeyed, IsServerReplied
<1>. QED  BY ZenonT(60), <1>1, <1>2 DEF tableVars, TableInv, Bounded, Registered,
     OwnersSound, OwnersDistinct, RespondersSound, Loadable, TableKeyed, IsServerReplied, Owns

\* What LoadLocked makes of the file: every entry is the peer of a record
\* with the index it is filed under.
LEMMA Loaded ==
  ASSUME TypeOK, Restart
  PROVE  \E n \in 0..MaxPeers : \E file \in [1..n -> disk] :
           /\ allocated' = n
           /\ \A k \in 1..n : peers'[k] = LoadedPeer(file[k])
           /\ \A cp \in disk : \E k \in 1..n : file[k] = cp
           /\ \A k, l \in 1..n : file[k] = file[l] => k = l
           /\ \A i \in Index : clientMap'[i] = NoPeer \/
                (clientMap'[i] \in 1..n /\ file[clientMap'[i]].clientProxyIndex = i)
           /\ \A i \in Index : serverMap'[i] = NoPeer \/
                (serverMap'[i] \in 1..n /\ i # 0 /\ file[serverMap'[i]].serverProxyIndex = i)
<1>1. PICK n \in 0..MaxPeers : \E file \in [1..n -> disk] :
         /\ \A cp \in disk : \E k \in 1..n : file[k] = cp
         /\ \A k, l \in 1..n : file[k] = file[l] => k = l
         /\ peers' = [p \in PeerIds |-> IF p <= n THEN LoadedPeer(file[p]) ELSE ZeroPeer]
         /\ allocated' = n
         /\ clientMap' = [i \in Index |-> LastRecord(file, "clientProxyIndex", i)]
         /\ serverMap' = [i \in Index |-> IF i = 0 THEN NoPeer
                                          ELSE LastRecord(file, "serverProxyIndex", i)]
  BY Zenon DEF Restart
<1>2. PICK file \in [1..n -> disk] :
         /\ \A cp \in disk : \E k \in 1..n : file[k] = cp
         /\ \A k, l \in 1..n : file[k] = file[l] => k = l
         /\ peers' = [p \in PeerIds |-> IF p <= n THEN LoadedPeer(file[p]) ELSE ZeroPeer]
         /\ allocated' = n
         /\ clientMap' = [i \in Index |-> LastRecord(file, "clientProxyIndex", i)]
         /\ serverMap' = [i \in Index |-> IF i = 0 THEN NoPeer
                                          ELSE LastRecord(file, "serverProxyIndex", i)]
  BY Zenon, <1>1
<1>3. n \in Nat /\ DOMAIN file = 1..n
  BY ConstantsAssumption
<1>4. \A k \in 1..n : peers'[k] = LoadedPeer(file[k])
  BY <1>2, ConstantsAssumption DEF PeerIds
<1>5. ASSUME NEW i \in Index
      PROVE  clientMap'[i] = NoPeer \/
               (clientMap'[i] \in 1..n /\ file[clientMap'[i]].clientProxyIndex = i)
  <2>1. clientMap'[i] = LastRecord(file, "clientProxyIndex", i)
    BY Zenon, <1>2
  <2>. QED  BY <1>3, <2>1, LastRecordFinds
<1>6. ASSUME NEW i \in Index
      PROVE  serverMap'[i] = NoPeer \/
               (serverMap'[i] \in 1..n /\ i # 0 /\ file[serverMap'[i]].serverProxyIndex = i)
  <2>1. serverMap'[i] = IF i = 0 THEN NoPeer ELSE LastRecord(file, "serverProxyIndex", i)
    BY Zenon, <1>2
  <2>. QED  BY <1>3, <2>1, LastRecordFinds
<1>. QED  BY <1>2, <1>4, <1>5, <1>6

\* A restart builds the table from the cache, and TableInv holds of it.
LEMMA RestartTableInv ==
  ASSUME TypeOK, TableInv, Restart
  PROVE  TableInv'
<1>1. PICK n \in 0..MaxPeers : \E file \in [1..n -> disk] :
           /\ allocated' = n
           /\ \A k \in 1..n : peers'[k] = LoadedPeer(file[k])
           /\ \A cp \in disk : \E k \in 1..n : file[k] = cp
           /\ \A k, l \in 1..n : file[k] = file[l] => k = l
           /\ \A i \in Index : clientMap'[i] = NoPeer \/
                (clientMap'[i] \in 1..n /\ file[clientMap'[i]].clientProxyIndex = i)
           /\ \A i \in Index : serverMap'[i] = NoPeer \/
                (serverMap'[i] \in 1..n /\ i # 0 /\ file[serverMap'[i]].serverProxyIndex = i)
  BY Zenon, Loaded
<1>2. PICK file \in [1..n -> disk] :
           /\ allocated' = n
           /\ \A k \in 1..n : peers'[k] = LoadedPeer(file[k])
           /\ \A i \in Index : clientMap'[i] = NoPeer \/
                (clientMap'[i] \in 1..n /\ file[clientMap'[i]].clientProxyIndex = i)
           /\ \A i \in Index : serverMap'[i] = NoPeer \/
                (serverMap'[i] \in 1..n /\ i # 0 /\ file[serverMap'[i]].serverProxyIndex = i)
  BY ZenonT(60), <1>1
<1>3. \A k \in 1..n : /\ file[k].clientProxyIndex # 0 /\ file[k].serverProxyIndex # 0
                      /\ peers'[k].clientProxyIndex = file[k].clientProxyIndex
                      /\ peers'[k].serverProxyIndex = file[k].serverProxyIndex
  <2>. SUFFICES ASSUME NEW k \in 1..n
                PROVE  /\ file[k].clientProxyIndex # 0 /\ file[k].serverProxyIndex # 0
                       /\ peers'[k].clientProxyIndex = file[k].clientProxyIndex
                       /\ peers'[k].serverProxyIndex = file[k].serverProxyIndex
    BY Zenon
  <2>1. file[k] \in disk /\ peers'[k] = LoadedPeer(file[k])
    BY Zenon, <1>2
  <2>2. file[k].clientProxyIndex # 0 /\ file[k].serverProxyIndex # 0
    BY Zenon, <2>1 DEF TableInv, Loadable
  <2>. QED  BY <2>1, <2>2 DEF LoadedPeer
<1>4. 0 \in Index /\ n \in Nat
  BY ConstantsAssumption DEF Index
<1>5. TableKeyed'
  BY Zenon, <1>2, <1>3, <1>4 DEF TableKeyed, IsServerReplied
<1>6. Registered'
  BY Zenon, <1>2, <1>3 DEF Registered
<1>7. \A i \in Index : clientMap'[i] <= allocated' /\ serverMap'[i] <= allocated'
  BY <1>2, <1>4 DEF NoPeer
<1>8. \A g \in Goroutines : handler'[g].pc = "idle"
  BY Zenon DEF Restart, Idle
<1>9. \A cp \in disk' : cp.clientProxyIndex # 0 /\ cp.serverProxyIndex # 0
  BY Zenon DEF Restart, TableInv, Loadable
<1>. QED  BY Zenon, <1>5, <1>6, <1>7, <1>8, <1>9 DEF TableInv, Bounded, Registered,
     OwnersSound, OwnersDistinct, RespondersSound, Loadable, Owns

\* TableInv holds when the table is created.
LEMMA InitTableInv == Init => TableInv
<1>. SUFFICES ASSUME Init PROVE TableInv
  BY Zenon
<1>1. \A g \in Goroutines : ~Owns(g) /\ handler[g].pc = "idle"
  BY Zenon DEF Init, Owns, Idle
<1>2. \A i \in Index : clientMap[i] = NoPeer /\ serverMap[i] = NoPeer
  BY Zenon DEF Init
<1>3. Bounded
  BY <1>2 DEF Bounded, Init, NoPeer
<1>4. TableKeyed /\ Registered /\ Loadable
  <2>1. 0 \in Index
    BY ConstantsAssumption DEF Index
  <2>. QED  BY Zenon, <1>2, <2>1 DEF TableKeyed, Registered, Loadable, Init
<1>5. OwnersSound /\ OwnersDistinct /\ RespondersSound
  BY Zenon, <1>1 DEF OwnersSound, OwnersDistinct, RespondersSound
<1>. QED  BY Zenon, <1>3, <1>4, <1>5 DEF TableInv

\* Every step preserves TableInv.
LEMMA NextTableInv ==
  ASSUME TypeOK, TableInv, [Next]_vars
  PROVE  TableInv'
<1>1. CASE UNCHANGED vars \/ (\E pkt \in Arrivals : ReceiveTransport(pkt))
           \/ (MainStep /\ ~HandlePeersExpireCheck) \/ Tick \/ (\E a \in ServerAddrs : Resolve(a))
           \/ WriteToServer \/ WriteToClient
  BY Zenon, <1>1, ArrivalsType, MainQuiet, QuietTableInv
<1>2. ASSUME NEW g \in Goroutines, NEW pkt \in Arrivals, ReceiveHandshake(g, pkt)
      PROVE  TableInv'
  BY Zenon, <1>2, ArrivalsType, HandlerQuiet, QuietTableInv
<1>3. ASSUME NEW g \in Goroutines, HandlerStep(g)
      PROVE  TableInv'
  BY Zenon, <1>3, HandlerQuiet, QuietTableInv, ExtractPeerTableInv, LockServerMapTableInv,
     RegisterClientTableInv, RegisterServerTableInv DEF HandlerStep
<1>4. CASE HandlePeersExpireCheck
  BY Zenon, <1>4, ExpireTableInv
<1>5. CASE PersistForwardTableCache
  BY Zenon, <1>5, PersistTableInv
<1>6. CASE Restart
  BY Zenon, <1>6, RestartTableInv
<1>. QED  BY Zenon, <1>1, <1>2, <1>3, <1>4, <1>5, <1>6 DEF Next, Receive

\* The packets need not be those of the open network.
LEMMA ReceiveCorrect ==
  ASSUME TypeOK, TableInv, NEW pkt \in Packet,
         ReceiveTransport(pkt) \/ \E g \in Goroutines : ReceiveHandshake(g, pkt)
  PROVE  TypeOK' /\ TableInv'
<1>1. CASE ReceiveTransport(pkt)
  BY Zenon, <1>1, MainTypeOK, MainQuiet, QuietTableInv
<1>2. ASSUME NEW g \in Goroutines, ReceiveHandshake(g, pkt)
      PROVE  TypeOK' /\ TableInv'
  BY Zenon, <1>2, HandlerTypeOK, HandlerQuiet, QuietTableInv
<1>. QED  BY Zenon, <1>1, <1>2

\* The table is well formed in every reachable state, restarts included.
THEOREM TableCorrect == Spec => []TableInv
<1>1. Init => TypeOK /\ TableInv
  BY Zenon, InitTypeOK, InitTableInv
<1>2. TypeOK /\ TableInv /\ [Next]_vars => (TypeOK /\ TableInv)'
  BY Zenon, NextTypeOK, NextTableInv
<1>. QED  BY <1>1, <1>2, PTL DEF Spec

\* Every lookup finds a peer under its own index (generateProxyIndexLocked,
\* the insertions of both processors, and LoadLocked).
THEOREM LookupsKeyed == Spec => []TableKeyed
<1>1. TableInv => TableKeyed
  BY Zenon DEF TableInv
<1>. QED  BY <1>1, TableCorrect, PTL

-----------------------------------------------------------------------------
HIDE DEF Index, PeerIds, NoPeer, Levels, LevelDefault, LevelNone, LevelIP, LevelIPAndPort

(***************************************************************************)
(* The cache file has every route of the table whenever no goroutine is    *)
(* left to persist it.                                                     *)
(***************************************************************************)
\* Some goroutine is registering a response, and will persist the table.
Answering == \E g \in Goroutines : handler[g].pc = "generate" /\ handler[g].pkt.type = "response"

\* A step that leaves serverMap, the routes of its peers and the file alone.
LEMMA CacheFrame ==
  ASSUME TypeOK, CacheInv, UNCHANGED <<serverMap, disk, persisting>>,
         Answering => Answering',
         \A i \in Index : serverMap[i] # NoPeer =>
            Route(peers'[serverMap[i]]) = Route(peers[serverMap[i]])
  PROVE  CacheInv'
BY Zenon DEF CacheInv, Answering

\* The route of a peer is made of its indices, its keys and the address of
\* its server.
LEMMA RouteOf ==
  ASSUME NEW p, NEW q, p.clientOriginIndex = q.clientOriginIndex,
         p.clientProxyIndex = q.clientProxyIndex, p.serverOriginIndex = q.serverOriginIndex,
         p.serverProxyIndex = q.serverProxyIndex, p.clientPublicKey = q.clientPublicKey,
         p.serverPublicKey = q.serverPublicKey, p.serverDestination = q.serverDestination
  PROVE  Route(p) = Route(q)
BY Zenon DEF Route

\* A step of the main loop preserves CacheInv.
LEMMA MainCacheInv ==
  ASSUME TypeOK, CacheInv,
         \/ UNCHANGED vars
         \/ \E pkt \in Arrivals : ReceiveTransport(pkt)
         \/ MainStep
         \/ Tick \/ (\E a \in ServerAddrs : Resolve(a)) \/ WriteToServer \/ WriteToClient
  PROVE  CacheInv'
<1>. USE DEF tableVars, chanVars, timeVars, resolveVars, diskVars, vars
<1>1. CASE HandlePeersExpireCheck \/ HandleAllServerDestinationUpdate
  BY Zenon, <1>1 DEF HandlePeersExpireCheck, HandleAllServerDestinationUpdate, CacheInv
<1>2. CASE ~HandlePeersExpireCheck /\ ~HandleAllServerDestinationUpdate
  <2>1. UNCHANGED <<handler, serverMap, disk, persisting>>
    BY Zenon, <1>2
    DEF MainStep, ReceiveTransport, ReceiveTick, ReceiveUpdate, DropTransport, LookupTransport,
        ProcessMessageTransport, PatchTransport, SendTransport, Tick, Resolve, WriteToServer,
        WriteToClient
  <2>2. \A p \in PeerIds : Route(peers'[p]) = Route(peers[p])
    <3>1. CASE peers' = peers
      BY Zenon, <3>1
    <3>2. CASE ProcessMessageTransport
      <4>1. peers \in [PeerIds -> Peer]
        BY Zenon DEF TypeOK
      <4>. SUFFICES ASSUME NEW p \in PeerIds PROVE Route(peers'[p]) = Route(peers[p])
        BY Zenon
      <4>2. /\ peers'[p].clientOriginIndex = peers[p].clientOriginIndex
            /\ peers'[p].clientProxyIndex = peers[p].clientProxyIndex
            /\ peers'[p].serverOriginIndex = peers[p].serverOriginIndex
            /\ peers'[p].serverProxyIndex = peers[p].serverProxyIndex
            /\ peers'[p].clientPublicKey = peers[p].clientPublicKey
            /\ peers'[p].serverPublicKey = peers[p].serverPublicKey
            /\ peers'[p].serverDestination = peers[p].serverDestination
        BY <3>2, <4>1 DEF ProcessMessageTransport, Peer
      <4>. QED  BY Zenon, <4>2, RouteOf
    <3>. QED
      BY Zenon, <1>2, <3>1, <3>2
      DEF MainStep, ReceiveTransport, ReceiveTick, ReceiveUpdate, DropTransport, LookupTransport,
          PatchTransport, SendTransport, Tick, Resolve, WriteToServer, WriteToClient
  <2>3. Answering => Answering'
    BY Zenon, <2>1 DEF Answering
  <2>. QED  BY Zenon, <2>1, <2>2, <2>3, CacheFrame, EntryInHeap
<1>. QED  BY Zenon, <1>1, <1>2

\* A step of a handler preserves CacheInv.
LEMMA HandlerCacheInv ==
  ASSUME TypeOK, TableInv, CacheInv, NEW g \in Goroutines,
         HandlerStep(g) \/ (\E pkt \in Arrivals : ReceiveHandshake(g, pkt))
  PROVE  CacheInv'
<1>. USE DEF tableVars, chanVars, timeVars, resolveVars, diskVars
<1>1. CASE RegisterServer(g)
  BY Zenon, <1>1 DEF RegisterServer, CacheInv
<1>2. CASE LockServerMap(g)
  <2>1. handler'[g].pc = "generate" /\ handler'[g].pkt.type = "response"
    BY ZenonT(60), <1>2 DEF TypeOK, LockServerMap, EnterGenerate, Handler
  <2>. QED  BY Zenon, <2>1 DEF CacheInv
<1>3. CASE ExtractPeer(g) \/ RegisterClient(g)
  <2>1. UNCHANGED <<serverMap, disk, persisting>>
    BY Zenon, <1>3 DEF ExtractPeer, RegisterClient
  <2>2. Answering => Answering'
    <3>1. \A q \in Goroutines : q # g => handler'[q] = handler[q]
      BY Zenon, <1>3 DEF TypeOK, ExtractPeer, RegisterClient
    <3>2. handler[g].pkt.type = "initiation"
      BY Zenon, <1>3 DEF ExtractPeer, RegisterClient
    <3>. QED  BY Zenon, <3>1, <3>2 DEF Answering
  <2>3. \A i \in Index : serverMap[i] # NoPeer => peers'[serverMap[i]] = peers[serverMap[i]]
    <3>1. CASE ExtractPeer(g)
      <4>1. \A i \in Index : serverMap[i] # allocated + 1
        BY EntryInHeap DEF TableInv, Bounded, TypeOK
      <4>. QED  BY Zenon, <3>1, <4>1, EntryInHeap DEF ExtractPeer, TypeOK
    <3>2. CASE RegisterClient(g)
      <4>1. \A i \in Index : serverMap[i] # handler[g].peer
        BY Zenon, <3>2 DEF TableInv, OwnersSound, RegisterClient, Owns
      <4>. QED  BY Zenon, <3>2, <4>1, EntryInHeap DEF RegisterClient, TypeOK
    <3>. QED  BY Zenon, <1>3, <3>1, <3>2
  <2>. QED  BY Zenon, <2>1, <2>2, <2>3, CacheFrame
<1>4. CASE /\ ~RegisterServer(g) /\ ~LockServerMap(g) /\ ~ExtractPeer(g) /\ ~RegisterClient(g)
  <2>1. UNCHANGED <<serverMap, disk, persisting>>
    BY Zenon, <1>4
    DEF HandlerStep, ReceiveHandshake, RejectHandshake, MissClientMap, ProcessCookieReply,
        LockClientMap, DrawProxyIndex, MarkObfuscated, PatchHandshake, RewriteResponse,
        AddressHandshake, SendHandshake
  <2>2. Answering => Answering'
    <3>1. \A q \in Goroutines : q # g => handler'[q] = handler[q]
      BY Zenon, <1>4
      DEF TypeOK, HandlerStep, ReceiveHandshake, RejectHandshake, MissClientMap,
          ProcessCookieReply, LockClientMap, EnterGenerate, DrawProxyIndex, MarkObfuscated,
          PatchHandshake, RewriteResponse, AddressHandshake, SendHandshake
    <3>2. handler[g].pc = "generate" => /\ handler'[g].pc = "generate"
                                        /\ handler'[g].pkt = handler[g].pkt
      BY ZenonT(60), <1>4
      DEF TypeOK, Handler, HandlerStep, ReceiveHandshake, RejectHandshake, MissClientMap,
          ProcessCookieReply, LockClientMap, DrawProxyIndex, MarkObfuscated,
          PatchHandshake, RewriteResponse, AddressHandshake, SendHandshake
    <3>. QED  BY Zenon, <3>1, <3>2 DEF Answering
  <2>3. \A p \in PeerIds : Route(peers'[p]) = Route(peers[p])
    <3>1. CASE peers' = peers
      BY Zenon, <3>1
    <3>2. CASE MarkObfuscated(g)
      <4>1. peers \in [PeerIds -> Peer]
        BY Zenon DEF TypeOK
      <4>. SUFFICES ASSUME NEW p \in PeerIds PROVE Route(peers'[p]) = Route(peers[p])
        BY Zenon
      <4>2. /\ peers'[p].clientOriginIndex = peers[p].clientOriginIndex
            /\ peers'[p].clientProxyIndex = peers[p].clientProxyIndex
            /\ peers'[p].serverOriginIndex = peers[p].serverOriginIndex
            /\ peers'[p].serverProxyIndex = peers[p].serverProxyIndex
            /\ peers'[p].clientPublicKey = peers[p].clientPublicKey
            /\ peers'[p].serverPublicKey = peers[p].serverPublicKey
            /\ peers'[p].serverDestination = peers[p].serverDestination
        BY <3>2, <4>1 DEF MarkObfuscated, Peer
      <4>. QED  BY Zenon, <4>2, RouteOf
    <3>. QED
      BY Zenon, <1>4, <3>1, <3>2
      DEF HandlerStep, ReceiveHandshake, RejectHandshake, MissClientMap, ProcessCookieReply,
          LockClientMap, DrawProxyIndex, PatchHandshake, RewriteResponse, AddressHandshake,
          SendHandshake
  <2>. QED  BY Zenon, <2>1, <2>2, <2>3, CacheFrame, EntryInHeap
<1>. QED  BY Zenon, <1>1, <1>2, <1>3, <1>4

\* SaveLocked writes a record of every peer of serverMap.
LEMMA PersistCacheInv ==
  ASSUME TypeOK, PersistForwardTableCache
  PROVE  CacheInv'
<1>1. UNCHANGED <<peers, serverMap>> /\ disk' = Snapshot
  BY Zenon DEF PersistForwardTableCache, tableVars
<1>2. ASSUME NEW i \in Index, serverMap[i] # NoPeer
      PROVE  \E cp \in Snapshot : Route(cp) = Route(peers[serverMap[i]])
  <2>1. CachePeer(peers[serverMap[i]]) \in Snapshot
    BY Zenon, <1>2 DEF Snapshot, Values
  <2>2. Route(CachePeer(peers[serverMap[i]])) = Route(peers[serverMap[i]])
    BY Zenon, RouteOf DEF CachePeer
  <2>. QED  BY Zenon, <2>1, <2>2
<1>. QED  BY Zenon, <1>1, <1>2 DEF CacheInv

\* LoadLocked makes every peer from a record of the file.
LEMMA RestartCacheInv ==
  ASSUME TypeOK, Restart
  PROVE  CacheInv'
<1>1. PICK n \in 0..MaxPeers : \E file \in [1..n -> disk] :
           /\ allocated' = n
           /\ \A k \in 1..n : peers'[k] = LoadedPeer(file[k])
           /\ \A cp \in disk : \E k \in 1..n : file[k] = cp
           /\ \A k, l \in 1..n : file[k] = file[l] => k = l
           /\ \A i \in Index : clientMap'[i] = NoPeer \/
                (clientMap'[i] \in 1..n /\ file[clientMap'[i]].clientProxyIndex = i)
           /\ \A i \in Index : serverMap'[i] = NoPeer \/
                (serverMap'[i] \in 1..n /\ i # 0 /\ file[serverMap'[i]].serverProxyIndex = i)
  BY Zenon, Loaded
<1>2. PICK file \in [1..n -> disk] :
           /\ \A k \in 1..n : peers'[k] = LoadedPeer(file[k])
           /\ \A i \in Index : serverMap'[i] = NoPeer \/ serverMap'[i] \in 1..n
  BY Zenon, <1>1
<1>3. disk' = disk
  BY Zenon DEF Restart
<1>4. ASSUME NEW i \in Index, serverMap'[i] # NoPeer
      PROVE  \E cp \in disk' : Route(cp) = Route(peers'[serverMap'[i]])
  <2>1. serverMap'[i] \in 1..n
    BY Zenon, <1>2, <1>4
  <2>2. file[serverMap'[i]] \in disk /\ peers'[serverMap'[i]] = LoadedPeer(file[serverMap'[i]])
    BY Zenon, <1>2, <2>1
  <2>3. Route(file[serverMap'[i]]) = Route(LoadedPeer(file[serverMap'[i]]))
    BY Zenon, RouteOf DEF LoadedPeer
  <2>. QED  BY Zenon, <1>3, <2>2, <2>3
<1>. QED  BY Zenon, <1>4 DEF CacheInv

\* Every step preserves CacheInv.
LEMMA NextCacheInv ==
  ASSUME TypeOK, TableInv, CacheInv, [Next]_vars
  PROVE  CacheInv'
BY Zenon, MainCacheInv, HandlerCacheInv, PersistCacheInv, RestartCacheInv DEF Next, Receive

\* persistForwardTableCache is started after every change of a route: when
\* all of these goroutines have run and nobody holds mapLock, a crash loses
\* no session.
THEOREM CacheComplete == Spec => []CacheCoversTable
<1>1. Init => TypeOK /\ TableInv /\ CacheInv
  <2>1. Init => CacheInv
    BY Zenon DEF Init, CacheInv
  <2>. QED  BY Zenon, <2>1, InitTypeOK, InitTableInv
<1>2. TypeOK /\ TableInv /\ CacheInv /\ [Next]_vars => (TypeOK /\ TableInv /\ CacheInv)'
  BY Zenon, NextTypeOK, NextTableInv, NextCacheInv
<1>3. TypeOK /\ CacheInv => CacheCoversTable
  BY Zenon, ConstantsAssumption DEF TypeOK, CacheInv, CacheCoversTable
<1>. QED  BY <1>1, <1>2, <1>3, PTL DEF Spec

-----------------------------------------------------------------------------
(***************************************************************************)
(* The routes of a running process, when the endpoints pick no zero index. *)
(***************************************************************************)
\* Initiations and responses carry an index that an endpoint has picked.
LEMMA ArrivalSender ==
  ASSUME NEW pkt \in Arrivals, pkt.type \in {"initiation", "response"}
  PROVE  pkt.sender \in Senders
<1>1. CASE pkt \in Initiations
  <2>1. PICK s \in Senders, k \in Clients \cup Strangers, a \in ClientAddrs,
             f \in ClientFlags, d \in Payloads : pkt = Initiation(s, k, a, f, d)
    BY <1>1 DEF Initiations
  <2>. QED  BY Zenon, <2>1 DEF Initiation, FixMACs, Datagram
<1>2. CASE pkt \in Responses
  <2>1. PICK s \in Senders, r \in Index, a \in ServerAddrs, k \in Clients, d \in Payloads :
             pkt = FixMACs(Datagram("server", "response", s, r, a, d), k)
    BY <1>2 DEF Responses
  <2>. QED  BY Zenon, <2>1 DEF FixMACs, Datagram
<1>3. CASE pkt \in CookieReplies
  <2>1. pkt.type = "cookie"
    <3>1. PICK r \in Index, a \in ServerAddrs, d \in Payloads :
               pkt = Datagram("server", "cookie", 0, r, a, d)
      BY <1>3 DEF CookieReplies
    <3>. QED  BY Zenon, <3>1 DEF Datagram
  <2>. QED  BY Zenon, <2>1
<1>4. CASE pkt \in Transports
  <2>1. pkt.type = "transport"
    <3>1. PICK from \in {"client", "server"}, r \in Index, a \in Addrs, d \in Payloads :
               pkt = Datagram(from, "transport", 0, r, a, d)
      BY <1>4 DEF Transports, Addrs
    <3>. QED  BY Zenon, <3>1 DEF Datagram
  <2>. QED  BY Zenon, <2>1
<1>5. CASE pkt \in Others
  BY <1>5 DEF Others, Datagram
<1>. QED  BY Zenon, <1>1, <1>2, <1>3, <1>4, <1>5 DEF Arrivals

\* A step of one handler leaves the others where they are.
LEMMA OneMoves ==
  ASSUME TypeOK, NEW g \in Goroutines,
         HandlerStep(g) \/ (\E pkt \in Arrivals : ReceiveHandshake(g, pkt))
  PROVE  \A q \in Goroutines : q # g => handler'[q] = handler[q]
BY Zenon DEF TypeOK, HandlerStep, ReceiveHandshake, RejectHandshake, ExtractPeer, LockClientMap,
       EnterGenerate, DrawProxyIndex, RegisterClient, MarkObfuscated, MissClientMap, LockServerMap,
       RegisterServer, ProcessCookieReply, PatchHandshake, RewriteResponse, AddressHandshake,
       SendHandshake

\* IndexFree, for one handler.
Free(g) ==
  /\ handler[g].pc \in {"start", "lockClientMap"}
     /\ handler[g].pkt.type \in {"initiation", "response"} => handler[g].pkt.sender # 0
  /\ handler[g].pc = "generate" /\ ~handler[g].taken =>
       /\ handler[g].proxy # 0
       /\ IF handler[g].pkt.type = "initiation" THEN clientMap[handler[g].proxy] = NoPeer
          ELSE serverMap[handler[g].proxy] = NoPeer

\* The maps are changed by the holder of mapLock only.
LEMMA FreeFrame ==
  ASSUME TypeOK, IndexFree, NEW g \in Goroutines,
         \A q \in Goroutines : q # g => handler'[q] = handler[q],
         \/ UNCHANGED <<clientMap, serverMap>>
         \/ handler[g].pc = "generate",
         Free(g)'
  PROVE  IndexFree'
<1>1. ASSUME NEW q \in Goroutines, q # g PROVE Free(q)'
  <2>1. CASE UNCHANGED <<clientMap, serverMap>>
    BY Zenon, <1>1, <2>1 DEF IndexFree, Free
  <2>2. CASE handler[g].pc = "generate"
    <3>1. handler[q].pc # "generate"
      BY Zenon, <1>1, <2>2 DEF TypeOK
    <3>. QED  BY Zenon, <1>1, <3>1 DEF IndexFree, Free
  <2>. QED  BY Zenon, <2>1, <2>2
<1>. QED  BY Zenon, <1>1 DEF IndexFree, Free

\* A handler registers only indices that are free.
LEMMA HandlerIndexFree ==
  ASSUME NoZeroIndex, TypeOK, TableInv, IndexFree, NEW g \in Goroutines,
         HandlerStep(g) \/ (\E pkt \in Arrivals : ReceiveHandshake(g, pkt))
  PROVE  IndexFree'
<1>. USE DEF tableVars, chanVars, timeVars, resolveVars, diskVars
<1>1. \A q \in Goroutines : q # g => handler'[q] = handler[q]
  BY Zenon, OneMoves
<1>2. handler \in [Goroutines -> Handler] /\ handler[g] \in Handler
  BY Zenon DEF TypeOK
<1>3. ASSUME NEW pkt \in Arrivals, ReceiveHandshake(g, pkt) PROVE IndexFree'
  <2>1. handler'[g].pc = "start" /\ handler'[g].pkt = pkt /\ UNCHANGED <<clientMap, serverMap>>
    BY Zenon, <1>2, <1>3 DEF ReceiveHandshake, Idle
  <2>2. Free(g)'
    BY Zenon, <2>1, ArrivalSender DEF Free, NoZeroIndex
  <2>. QED  BY Zenon, <1>1, <2>1, <2>2, FreeFrame
<1>4. CASE RejectHandshake(g) \/ MissClientMap(g) \/ SendHandshake(g)
  <2>1. handler'[g].pc = "idle" /\ UNCHANGED <<clientMap, serverMap>>
    BY <1>2, <1>4 DEF RejectHandshake, MissClientMap, SendHandshake, Idle
  <2>2. Free(g)'
    BY Zenon, <2>1 DEF Free
  <2>. QED  BY Zenon, <1>1, <2>1, <2>2, FreeFrame
<1>5. CASE ProcessCookieReply(g)
  <2>1. handler'[g].pc \in {"idle", "patch"} /\ UNCHANGED <<clientMap, serverMap>>
    BY <1>2, <1>5 DEF ProcessCookieReply, Idle, Handler
  <2>2. Free(g)'
    BY Zenon, <2>1 DEF Free
  <2>. QED  BY Zenon, <1>1, <2>1, <2>2, FreeFrame
<1>6. CASE MarkObfuscated(g) \/ PatchHandshake(g) \/ RewriteResponse(g) \/ AddressHandshake(g)
  <2>1. /\ handler'[g].pc \in {"patch", "rewrite", "address", "send"}
        /\ UNCHANGED <<clientMap, serverMap>>
    BY <1>2, <1>6 DEF MarkObfuscated, PatchHandshake, RewriteResponse, AddressHandshake,
    Handler
  <2>2. Free(g)'
    BY Zenon, <2>1 DEF Free
  <2>. QED  BY Zenon, <1>1, <2>1, <2>2, FreeFrame
<1>7. CASE ExtractPeer(g)
  <2>1. /\ handler[g].pc = "start" /\ handler'[g].pc = "lockClientMap"
        /\ handler'[g].pkt = handler[g].pkt /\ UNCHANGED <<clientMap, serverMap>>
    BY Zenon, <1>2, <1>7 DEF ExtractPeer, Handler
  <2>2. Free(g)'
    BY Zenon, <2>1 DEF Free, IndexFree
  <2>. QED  BY Zenon, <1>1, <2>1, <2>2, FreeFrame
<1>8. CASE LockClientMap(g)
  <2>1. Owns(g) /\ handler[g].pkt.type = "initiation"
        /\ peers[handler[g].peer].clientOriginIndex = handler[g].pkt.sender
    BY Zenon, <1>8 DEF LockClientMap, Owns, TableInv, OwnersSound
  <2>2. handler[g].pkt.sender # 0
    BY Zenon, <1>8, <2>1 DEF LockClientMap, IndexFree
  <2>3. /\ handler'[g].pc = "generate" /\ handler'[g].pkt = handler[g].pkt
        /\ handler'[g].proxy = handler[g].pkt.sender
        /\ handler'[g].taken = (clientMap[handler[g].pkt.sender] # NoPeer)
        /\ UNCHANGED <<clientMap, serverMap>>
    BY Zenon, <1>2, <1>8, <2>1 DEF LockClientMap, EnterGenerate, FirstProxyIndex, NoZeroIndex, Handler
  <2>4. Free(g)'
    BY Zenon, <2>1, <2>2, <2>3 DEF Free
  <2>. QED  BY Zenon, <1>1, <2>3, <2>4, FreeFrame
<1>9. CASE LockServerMap(g)
  <2>1. handler[g].pkt.type = "response" /\ handler[g].pkt.sender # 0
    BY Zenon, <1>9 DEF LockServerMap, IndexFree
  <2>2. /\ handler'[g].pc = "generate" /\ handler'[g].pkt = handler[g].pkt
        /\ handler'[g].proxy = handler[g].pkt.sender
        /\ handler'[g].taken = (serverMap[handler[g].pkt.sender] # NoPeer)
        /\ UNCHANGED <<clientMap, serverMap>>
    BY Zenon, <1>2, <1>9 DEF LockServerMap, EnterGenerate, FirstProxyIndex, NoZeroIndex, Handler
  <2>3. Free(g)'
    BY Zenon, <2>1, <2>2 DEF Free
  <2>. QED  BY Zenon, <1>1, <2>2, <2>3, FreeFrame
<1>10. CASE DrawProxyIndex(g)
  <2>1. /\ handler[g].pc = "generate"
        /\ handler[g].taken \/ handler[g].proxy = 0
        /\ handler'[g].pc = "generate" /\ handler'[g].taken = handler[g].taken
        /\ UNCHANGED <<clientMap, serverMap>>
    <3>1. PICK r \in Index : handler' = [handler EXCEPT ![g].proxy = r]
      BY Zenon, <1>10 DEF DrawProxyIndex
    <3>2. handler'[g].pc = handler[g].pc /\ handler'[g].taken = handler[g].taken
      BY Zenon, <1>2, <3>1 DEF Handler
    <3>. QED  BY Zenon, <1>10, <3>2 DEF DrawProxyIndex, RetryProxyIndex
  <2>2. handler[g].taken
    BY Zenon, <2>1 DEF IndexFree
  <2>3. Free(g)'
    BY Zenon, <2>1, <2>2 DEF Free
  <2>. QED  BY Zenon, <1>1, <2>1, <2>3, FreeFrame
<1>11. CASE RegisterClient(g) \/ RegisterServer(g)
  <2>1. handler[g].pc = "generate" /\ handler'[g].pc \in {"mark", "patch"}
    BY <1>2, <1>11 DEF RegisterClient, RegisterServer, Handler
  <2>2. Free(g)'
    BY Zenon, <2>1 DEF Free
  <2>. QED  BY Zenon, <1>1, <2>1, <2>2, FreeFrame
<1>. QED
  BY Zenon, <1>3, <1>4, <1>5, <1>6, <1>7, <1>8, <1>9, <1>10, <1>11 DEF HandlerStep

\* Every step preserves IndexFree.
LEMMA NextIndexFree ==
  ASSUME NoZeroIndex, TypeOK, TableInv, IndexFree, [Next]_vars
  PROVE  IndexFree'
<1>. USE DEF tableVars, chanVars, timeVars, resolveVars, diskVars, vars
<1>1. CASE UNCHANGED <<handler, clientMap, serverMap>>
  BY Zenon, <1>1 DEF IndexFree
<1>2. CASE \E g \in Goroutines : HandlerStep(g) \/ (\E pkt \in Arrivals : ReceiveHandshake(g, pkt))
  BY Zenon, <1>2, HandlerIndexFree
<1>3. CASE HandlePeersExpireCheck
  <2>1. handler' = handler /\ \A g \in Goroutines : handler[g].pc # "generate"
    BY Zenon, <1>3, ConstantsAssumption DEF HandlePeersExpireCheck, TypeOK
  <2>. QED  BY Zenon, <2>1 DEF IndexFree
<1>4. CASE Restart
  BY Zenon, <1>4 DEF Restart, Idle, IndexFree
<1>. QED
  BY ZenonT(60), <1>1, <1>2, <1>3, <1>4
  DEF Next, Receive, MainStep, ReceiveTransport, ReceiveTick, ReceiveUpdate, DropTransport,
      LookupTransport, ProcessMessageTransport, PatchTransport, SendTransport,
      HandleAllServerDestinationUpdate, Tick, Resolve, PersistForwardTableCache, WriteToServer,
      WriteToClient

-----------------------------------------------------------------------------
\* How a step changes the maps: not at all, by one insertion, by expiry or by
\* a restart.
LEMMA MapSteps ==
  ASSUME TypeOK, TableInv, [Next]_vars
  PROVE  \/ UNCHANGED <<clientMap, serverMap>>
         \/ \E g \in Goroutines : RegisterClient(g) \/ RegisterServer(g)
         \/ HandlePeersExpireCheck
         \/ Restart
BY ZenonT(30) DEF Next, Receive, HandlerStep, MainStep, ReceiveTransport, ReceiveHandshake, ReceiveTick,
       ReceiveUpdate, DropTransport, LookupTransport, ProcessMessageTransport, PatchTransport,
       SendTransport, RejectHandshake, ExtractPeer, LockClientMap, DrawProxyIndex, MarkObfuscated,
       MissClientMap, LockServerMap, ProcessCookieReply, PatchHandshake, RewriteResponse,
       AddressHandshake, SendHandshake,
       HandleAllServerDestinationUpdate, Tick, Resolve, PersistForwardTableCache, WriteToServer,
       WriteToClient, vars, tableVars, chanVars, timeVars, resolveVars, diskVars

\* The index a handler inserts is free.
LEMMA InsertsFree ==
  ASSUME TypeOK, IndexFree, NEW g \in Goroutines
  PROVE  /\ RegisterClient(g) =>
              /\ handler[g].proxy \in Index /\ clientMap[handler[g].proxy] = NoPeer
              /\ clientMap' = [clientMap EXCEPT ![handler[g].proxy] = handler[g].peer]
              /\ serverMap' = serverMap /\ restarts' = restarts
         /\ RegisterServer(g) =>
              /\ handler[g].proxy \in Index /\ serverMap[handler[g].proxy] = NoPeer
              /\ serverMap' = [serverMap EXCEPT ![handler[g].proxy] = handler[g].peer]
              /\ clientMap' = clientMap /\ restarts' = restarts
BY Zenon DEF TypeOK, Handler, IndexFree, RegisterClient, RegisterServer, RetryProxyIndex, diskVars

\* No step of any goroutine gives a route to another session.
LEMMA NextNoHijack ==
  ASSUME TypeOK, TableInv, IndexFree, [Next]_vars
  PROVE  KeepsIndices
<1>. SUFFICES ASSUME NEW i \in Index, restarts' = restarts
              PROVE  /\ clientMap[i] # NoPeer => clientMap'[i] \in {clientMap[i], NoPeer}
                     /\ serverMap[i] # NoPeer => serverMap'[i] \in {serverMap[i], NoPeer}
  BY Zenon DEF KeepsIndices
<1>1. CASE UNCHANGED <<clientMap, serverMap>>
  BY Zenon, <1>1
<1>2. ASSUME NEW g \in Goroutines, RegisterClient(g) \/ RegisterServer(g)
      PROVE  /\ clientMap[i] # NoPeer => clientMap'[i] \in {clientMap[i], NoPeer}
             /\ serverMap[i] # NoPeer => serverMap'[i] \in {serverMap[i], NoPeer}
  BY Zenon, <1>2, InsertsFree DEF TypeOK
<1>3. CASE HandlePeersExpireCheck
  BY Zenon, <1>3 DEF HandlePeersExpireCheck, TypeOK
<1>4. CASE Restart
  BY <1>4 DEF Restart, TypeOK
<1>. QED  BY Zenon, <1>1, <1>2, <1>3, <1>4, MapSteps

\* generateProxyIndexLocked never gives an index in use to another peer, as
\* long as it does not have to draw one in place of a zero index.
THEOREM IndicesKept ==
  ASSUME NoZeroIndex
  PROVE  Spec => NoHijack
<1>1. Init => TypeOK /\ TableInv /\ IndexFree
  <2>1. Init => IndexFree
    BY DEF Init, Idle, IndexFree
  <2>. QED  BY Zenon, <2>1, InitTypeOK, InitTableInv
<1>2. TypeOK /\ TableInv /\ IndexFree /\ [Next]_vars => (TypeOK /\ TableInv /\ IndexFree)'
  BY Zenon, NextTypeOK, NextTableInv, NextIndexFree
<1>3. TypeOK /\ TableInv /\ IndexFree /\ [Next]_vars => [KeepsIndices]_vars
  BY Zenon, NextNoHijack
<1>. QED  BY <1>1, <1>2, <1>3, PTL DEF Spec, NoHijack

-----------------------------------------------------------------------------
\* Without an insertion or a restart, no peer of clientMap gets another
\* proxy index.
LEMMA KeepsServerProxy ==
  ASSUME TypeOK, TableInv, [Next]_vars, ~Restart,
         \A g \in Goroutines : ~RegisterClient(g) /\ ~RegisterServer(g)
  PROVE  \A i \in Index : clientMap[i] # NoPeer =>
           peers'[clientMap[i]].serverProxyIndex = peers[clientMap[i]].serverProxyIndex
<1>. SUFFICES ASSUME NEW i \in Index, clientMap[i] # NoPeer
              PROVE  peers'[clientMap[i]].serverProxyIndex = peers[clientMap[i]].serverProxyIndex
  BY Zenon
<1>1. clientMap[i] \in PeerIds /\ peers \in [PeerIds -> Peer]
  BY ZenonT(60), EntryInHeap DEF TypeOK
<1>2. CASE Quiet
  BY Zenon, <1>1, <1>2 DEF Quiet, Indices
<1>3. ASSUME NEW g \in Goroutines, ExtractPeer(g)
      PROVE  peers'[clientMap[i]].serverProxyIndex = peers[clientMap[i]].serverProxyIndex
  <2>1. clientMap[i] # allocated + 1
    BY <1>1 DEF TableInv, Bounded, OwnersSound, TypeOK, PeerIds
  <2>. QED  BY Zenon, <1>1, <1>3, <2>1 DEF ExtractPeer
<1>4. ASSUME NEW g \in Goroutines, LockServerMap(g)
      PROVE  peers'[clientMap[i]].serverProxyIndex = peers[clientMap[i]].serverProxyIndex
  BY ZenonT(60), <1>1, <1>4 DEF LockServerMap, Peer
<1>5. CASE HandlePeersExpireCheck \/ PersistForwardTableCache
  BY Zenon, <1>5 DEF HandlePeersExpireCheck, PersistForwardTableCache, tableVars
<1>. QED
  BY Zenon, <1>2, <1>3, <1>4, <1>5, ArrivalsType, MainQuiet, HandlerQuiet DEF Next, Receive, HandlerStep

\* Returns is inductive as long as the process is not restarted: after a
\* restart, two records of the cache file may claim the same proxy index.
LEMMA NextReturns ==
  ASSUME TypeOK, TableInv, IndexFree, Returns, [Next]_vars, ~Restart, TypeOK'
  PROVE  Returns'
<1>. SUFFICES ASSUME NEW i \in Index, clientMap'[i] # NoPeer,
                     peers'[clientMap'[i]].serverProxyIndex # 0
              PROVE  serverMap'[peers'[clientMap'[i]].serverProxyIndex] = clientMap'[i]
  BY Zenon DEF Returns, IsServerReplied
<1>. DEFINE c == clientMap[i]
            y == peers[c].serverProxyIndex
<1>1. clientMap[i] # NoPeer => c \in PeerIds /\ y \in Index
  BY Zenon, EntryInHeap DEF TypeOK, Peer
<1>2. ASSUME NEW g \in Goroutines, RegisterClient(g)
      PROVE  serverMap'[peers'[clientMap'[i]].serverProxyIndex] = clientMap'[i]
  <2>. DEFINE n == handler[g].peer
  <2>1. /\ n \in PeerIds /\ peers[n].serverProxyIndex = 0 /\ \A j \in Index : clientMap[j] # n
    <3>1. handler[g].pc = "generate" /\ handler[g].pkt.type = "initiation"
      BY Zenon, <1>2 DEF RegisterClient
    <3>2. n \in PeerIds
      BY Zenon, <3>1 DEF TypeOK, Handler, NoPeer
    <3>. QED  BY Zenon, <3>1, <3>2 DEF TableInv, OwnersSound, Owns
  <2>2. /\ peers'[n].serverProxyIndex = peers[n].serverProxyIndex
        /\ \A q \in PeerIds : q # n => peers'[q] = peers[q]
    <3>1. /\ peers \in [PeerIds -> Peer]
          /\ peers' = [peers EXCEPT ![n] = ClientRegistered(peers[n], handler[g].proxy)]
      BY Zenon, <1>2 DEF RegisterClient, TypeOK
    <3>. HIDE DEF n
    <3>. QED  BY Zenon, <2>1, <3>1 DEF ClientRegistered, Peer
  <2>3. /\ serverMap' = serverMap /\ clientMap'[i] \in {clientMap[i], n}
    BY Zenon, <1>2 DEF RegisterClient, TypeOK
  <2>4. clientMap'[i] = c /\ c # n
    BY Zenon, <2>1, <2>2, <2>3
  <2>. HIDE DEF n
  <2>5. peers'[c] = peers[c] /\ c # NoPeer
    BY Zenon, <1>1, <2>2, <2>4
  <2>. QED  BY Zenon, <2>3, <2>4, <2>5 DEF Returns, IsServerReplied
<1>3. ASSUME NEW g \in Goroutines, RegisterServer(g)
      PROVE  serverMap'[peers'[clientMap'[i]].serverProxyIndex] = clientMap'[i]
  <2>. DEFINE p == handler[g].peer
              x == handler[g].proxy
  <2>1. /\ x \in Index /\ serverMap[x] = NoPeer /\ serverMap' = [serverMap EXCEPT ![x] = p]
        /\ clientMap' = clientMap /\ serverMap \in [Index -> 0..MaxPeers]
    <3>1. serverMap \in [Index -> 0..MaxPeers]
      BY Zenon DEF TypeOK
    <3>. QED  BY Zenon, <1>3, <3>1, InsertsFree
  <2>2. p \in PeerIds
    BY Zenon, <1>3 DEF RegisterServer, TypeOK, Handler
  <2>3. /\ peers'[p].serverProxyIndex = x
        /\ \A q \in PeerIds : q # p => peers'[q] = peers[q]
    <3>1. /\ peers \in [PeerIds -> Peer]
          /\ peers' = [peers EXCEPT ![p] = ServerRegistered(peers[p], x)]
      BY Zenon, <1>3 DEF RegisterServer, TypeOK
    <3>. HIDE DEF p, x
    <3>. QED  BY Zenon, <2>2, <3>1 DEF ServerRegistered, Peer
  <2>. HIDE DEF p, x
  <2>4. CASE c = p
    BY Zenon, <2>1, <2>3, <2>4
  <2>5. CASE c # p
    <3>1. peers'[c] = peers[c] /\ serverMap[y] = c
      BY Zenon, <1>1, <2>1, <2>3, <2>5 DEF Returns, IsServerReplied
    <3>2. y # x /\ y \in Index
      BY Zenon, <1>1, <2>1, <3>1
    <3>. QED  BY Zenon, <2>1, <3>1, <3>2
  <2>. QED  BY Zenon, <2>4, <2>5
<1>4. CASE \A g \in Goroutines : ~RegisterClient(g) /\ ~RegisterServer(g)
  <2>1. clientMap[i] # NoPeer /\ clientMap'[i] = c
    BY Zenon, <1>4, MapSteps DEF HandlePeersExpireCheck
  <2>2. peers'[c].serverProxyIndex = y /\ y # 0
    BY Zenon, <1>4, <2>1, KeepsServerProxy
  <2>3. serverMap[y] = c
    BY Zenon, <2>1, <2>2 DEF Returns, IsServerReplied
  <2>4. serverMap'[y] = serverMap[y]
    <3>1. CASE UNCHANGED <<clientMap, serverMap>>
      BY Zenon, <3>1
    <3>2. CASE HandlePeersExpireCheck
      <4>1. ASSUME NEW p \in ExpiredPeers(main.current) PROVE peers[p].serverProxyIndex # y
        <5>1. PICK j \in Index : p = clientMap[j] /\ clientMap[j] # NoPeer
          BY Zenon DEF ExpiredPeers, Values
        <5>2. SUFFICES ASSUME peers[p].serverProxyIndex = y PROVE FALSE
          BY Zenon
        <5>3. p = c
          BY Zenon, <2>2, <2>3, <5>1, <5>2 DEF Returns, IsServerReplied
        <5>4. peers[c].clientProxyIndex = i
          BY Zenon, <2>1 DEF TableInv, TableKeyed
        <5>5. clientMap'[i] = NoPeer
          BY Zenon, <3>2, <5>3, <5>4 DEF HandlePeersExpireCheck
        <5>. QED  BY Zenon, <5>5
      <4>2. y \notin ServerIndicesOf(ExpiredPeers(main.current))
        BY Zenon, <4>1 DEF ServerIndicesOf
      <4>. QED  BY Zenon, <1>1, <2>1, <3>2, <4>2 DEF HandlePeersExpireCheck
    <3>. QED  BY Zenon, <1>4, <3>1, <3>2, MapSteps
  <2>. QED  BY Zenon, <2>1, <2>2, <2>3, <2>4
<1>. QED  BY Zenon, <1>2, <1>3, <1>4

\* A process that has not been restarted after the step.
LEMMA NoRestart ==
  ASSUME TypeOK, [Next]_vars, restarts' = 0
  PROVE  restarts = 0 /\ ~Restart
<1>. USE DEF tableVars, chanVars, timeVars, resolveVars, diskVars, vars
<1>. restarts \in Nat
  <2>1. restarts \in 0..MaxRestarts
    BY Zenon DEF TypeOK
  <2>. QED  BY <2>1, ConstantsAssumption
<1>3. Restart => restarts' = restarts + 1
  BY Zenon DEF Restart
<1>1. CASE Restart
  BY <1>1, <1>3
<1>2. CASE restarts' = restarts
  BY <1>2, <1>3
<1>. QED
  BY ZenonT(30), <1>1, <1>2
  DEF Next, Receive, HandlerStep, MainStep, ReceiveTransport, ReceiveHandshake, ReceiveTick,
      ReceiveUpdate, DropTransport, LookupTransport, ProcessMessageTransport, PatchTransport,
      SendTransport, RejectHandshake, ExtractPeer, LockClientMap, DrawProxyIndex, RegisterClient,
      MarkObfuscated, MissClientMap, LockServerMap, RegisterServer, ProcessCookieReply,
      PatchHandshake, RewriteResponse, AddressHandshake, SendHandshake, HandlePeersExpireCheck,
      HandleAllServerDestinationUpdate, Tick, Resolve, PersistForwardTableCache, WriteToServer,
      WriteToClient

\* Every step preserves the way back of each route.
LEMMA NextRoundTrip ==
  ASSUME TypeOK, TableInv, IndexFree, RoundTrip, [Next]_vars, TypeOK'
  PROVE  RoundTrip'
BY Zenon, NextReturns, NoRestart DEF RoundTrip

\* The proxy index a client was told leads its packets to the peer that told
\* it, whatever handshakes, conflicts and expiries have interleaved.
THEOREM RepliesReturn ==
  ASSUME NoZeroIndex
  PROVE  Spec => []RoundTrip
<1>. DEFINE IInv == TypeOK /\ TableInv /\ IndexFree /\ RoundTrip
<1>1. Init => IInv
  <2>1. Init => IndexFree /\ RoundTrip
    BY DEF Init, Idle, IndexFree, RoundTrip, Returns
  <2>. QED  BY Zenon, <2>1, InitTypeOK, InitTableInv
<1>2. IInv /\ [Next]_vars => IInv'
  BY Zenon, NextTypeOK, NextTableInv, NextIndexFree, NextRoundTrip
<1>. QED  BY <1>1, <1>2, PTL DEF Spec

-----------------------------------------------------------------------------
\* The times, as numbers.
LEMMA ClockTypes ==
  ASSUME TypeOK
  PROVE  /\ now \in Nat /\ main.current \in Nat /\ expireChan \in Nat \cup {Nil}
         /\ main \in MainLoop /\ 0 \in 0..MaxTime
<1>1. now \in 0..MaxTime /\ expireChan \in (0..MaxTime) \cup {Nil} /\ main \in MainLoop
  BY Zenon DEF TypeOK
<1>2. main.current \in 0..MaxTime
  BY Zenon, <1>1 DEF MainLoop
<1>. QED  BY <1>1, <1>2, ConstantsAssumption

\* Every step preserves what is known of the clock.
LEMMA NextClockInv ==
  ASSUME TypeOK, ClockInv, [Next]_vars
  PROVE  ClockInv'
<1>. USE DEF tableVars, chanVars, timeVars, resolveVars, diskVars, vars
<1>1. /\ now \in Nat /\ main.current \in Nat /\ expireChan \in Nat \cup {Nil}
      /\ main \in MainLoop /\ 0 \in 0..MaxTime
  BY Zenon, ClockTypes
<1>2. CASE UNCHANGED <<main, now, expireChan>>
  BY Zenon, <1>2 DEF ClockInv
<1>3. CASE Tick
  BY <1>1, <1>3 DEF Tick, ClockInv
<1>4. CASE ReceiveTick
  BY Zenon, <1>1, <1>4 DEF ReceiveTick, Select, ClockInv
<1>5. CASE /\ UNCHANGED <<now, expireChan>>
           /\ main'.current \in {0, main.current}
  <2>1. 0 <= now
    BY <1>1
  <2>. QED  BY Zenon, <1>5, <2>1 DEF ClockInv
<1>6. CASE Restart
  BY <1>1, <1>6 DEF Restart, Select, ClockInv
<1>7. ASSUME NEW pkt \in Arrivals, ReceiveTransport(pkt) PROVE ClockInv'
  BY Zenon, <1>5, <1>7 DEF ReceiveTransport, Select
<1>8. CASE ReceiveUpdate \/ DropTransport \/ LookupTransport \/ ProcessMessageTransport
           \/ PatchTransport \/ SendTransport \/ HandlePeersExpireCheck
           \/ HandleAllServerDestinationUpdate
  <2>1. Select.current = 0
    BY Zenon DEF Select
  <2>2. UNCHANGED <<now, expireChan>>
    BY Zenon, <1>8 DEF ReceiveUpdate, DropTransport, LookupTransport, ProcessMessageTransport,
         PatchTransport, SendTransport, HandlePeersExpireCheck, HandleAllServerDestinationUpdate
  <2>3. main'.current \in {0, main.current}
    <3>1. CASE main' = Select
      BY Zenon, <2>1, <3>1
    <3>2. CASE ReceiveUpdate
      BY Zenon, <3>2 DEF ReceiveUpdate, Select
    <3>3. CASE main' # Select /\ (LookupTransport \/ ProcessMessageTransport \/ PatchTransport)
      BY Zenon, <1>1, <3>3 DEF LookupTransport, ProcessMessageTransport, PatchTransport, MainLoop
    <3>. QED  BY Zenon, <1>8, <3>1, <3>2, <3>3
              DEF DropTransport, SendTransport, HandlePeersExpireCheck, HandleAllServerDestinationUpdate
  <2>. QED  BY Zenon, <1>5, <2>2, <2>3
<1>. QED
  BY ZenonT(30), <1>2, <1>3, <1>4, <1>6, <1>7, <1>8
  DEF Next, Receive, HandlerStep, MainStep, ReceiveHandshake, RejectHandshake, ExtractPeer,
      LockClientMap, DrawProxyIndex, RegisterClient, MarkObfuscated, MissClientMap, LockServerMap,
      RegisterServer, ProcessCookieReply, PatchHandshake, RewriteResponse, AddressHandshake,
      SendHandshake, Resolve,
      PersistForwardTableCache, WriteToServer, WriteToClient

\* No step removes a route that was used within the timeout.
LEMMA NextRemovesIdle ==
  ASSUME TypeOK, TableInv, RoundTrip, ClockInv, [Next]_vars
  PROVE  RemovesIdle
<1>. SUFFICES ASSUME restarts' = 0, NEW i \in Index
              PROVE  /\ clientMap[i] # NoPeer /\ clientMap'[i] = NoPeer =>
                          now - peers[clientMap[i]].lastActive > Timeout
                     /\ serverMap[i] # NoPeer /\ serverMap'[i] = NoPeer =>
                          now - peers[serverMap[i]].lastActive > Timeout
  BY Zenon DEF RemovesIdle
<1>1. CASE UNCHANGED <<clientMap, serverMap>>
  BY Zenon, <1>1
<1>2. ASSUME NEW g \in Goroutines, RegisterClient(g) \/ RegisterServer(g)
      PROVE  /\ clientMap[i] # NoPeer => clientMap'[i] # NoPeer
             /\ serverMap[i] # NoPeer => serverMap'[i] # NoPeer
  BY ZenonT(60), <1>2 DEF RegisterClient, RegisterServer, TypeOK, Handler
<1>3. CASE HandlePeersExpireCheck
  <2>1. ASSUME NEW p \in ExpiredPeers(main.current) PROVE now - peers[p].lastActive > Timeout
    <3>1. PICK j \in Index : p = clientMap[j] /\ clientMap[j] # NoPeer
      BY Zenon DEF ExpiredPeers, Values
    <3>2. p \in PeerIds /\ peers[p] \in Peer
      BY ZenonT(60), <3>1, EntryInHeap DEF TypeOK
    <3>3. peers[p].lastActive \in Nat
      BY <3>2, ConstantsAssumption DEF Peer
    <3>4. now \in Nat /\ main.current \in Nat
      BY Zenon, ClockTypes
    <3>5. peers[p].lastActive < main.current - Timeout
      BY Zenon DEF ExpiredPeers, Idling
    <3>. QED  BY <3>3, <3>4, <3>5, ConstantsAssumption DEF ClockInv
  <2>2. ASSUME clientMap[i] # NoPeer, clientMap'[i] = NoPeer
        PROVE  clientMap[i] \in ExpiredPeers(main.current)
    <3>1. PICK p \in ExpiredPeers(main.current) : peers[p].clientProxyIndex = i
      BY Zenon, <1>3, <2>2 DEF HandlePeersExpireCheck
    <3>2. PICK j \in Index : p = clientMap[j] /\ clientMap[j] # NoPeer
      BY Zenon DEF ExpiredPeers, Values
    <3>3. j = i
      BY Zenon, <3>1, <3>2 DEF TableInv, TableKeyed
    <3>. QED  BY Zenon, <3>2, <3>3
  <2>3. ASSUME serverMap[i] # NoPeer, serverMap'[i] = NoPeer
        PROVE  serverMap[i] \in ExpiredPeers(main.current)
    <3>1. PICK p \in ExpiredPeers(main.current) : peers[p].serverProxyIndex = i
      BY Zenon, <1>3, <2>3 DEF HandlePeersExpireCheck, ServerIndicesOf
    <3>2. PICK j \in Index : p = clientMap[j] /\ clientMap[j] # NoPeer
      BY Zenon DEF ExpiredPeers, Values
    <3>3. i # 0
      BY Zenon, <2>3 DEF TableInv, TableKeyed
    <3>4. serverMap[i] = p
      BY Zenon, <3>1, <3>2, <3>3, NoRestart DEF RoundTrip, Returns, IsServerReplied
    <3>. QED  BY Zenon, <3>4
  <2>. QED  BY Zenon, <2>1, <2>2, <2>3
<1>4. ~Restart
  BY Zenon, NoRestart
<1>. QED  BY Zenon, <1>1, <1>2, <1>3, <1>4, MapSteps

\* handlePeersExpireCheck takes both entries of a peer from the maps, and no
\* entry of another peer, after the peer has been idle for Timeout.
THEOREM ExpiryOnlyIdle ==
  ASSUME NoZeroIndex
  PROVE  Spec => ExpireOnlyIdle
<1>. DEFINE IInv == TypeOK /\ TableInv /\ IndexFree /\ RoundTrip /\ ClockInv
<1>1. Init => IInv
  <2>1. Init => IndexFree /\ RoundTrip
    BY DEF Init, Idle, IndexFree, RoundTrip, Returns
  <2>2. Init => ClockInv
    BY DEF Init, Select, ClockInv
  <2>. QED  BY Zenon, <2>1, <2>2, InitTypeOK, InitTableInv
<1>2. IInv /\ [Next]_vars => IInv'
  BY Zenon, NextTypeOK, NextTableInv, NextIndexFree, NextRoundTrip, NextClockInv
<1>3. IInv /\ [Next]_vars => [RemovesIdle]_vars
  BY Zenon, NextRemovesIdle
<1>. QED  BY <1>1, <1>2, <1>3, PTL DEF Spec, ExpireOnlyIdle

-----------------------------------------------------------------------------
(***************************************************************************)
(* The packets that go through the table: how far a client may roam, and   *)
(* that the MACs of forwarded handshakes are right.                        *)
(***************************************************************************)
\* processMessageTransport, alone, changes the address of a known client.
LEMMA NextRoamsAsAllowed ==
  ASSUME TypeOK, TableInv, [Next]_vars
  PROVE  RoamsAsAllowed
<1>. USE DEF tableVars, chanVars, timeVars, resolveVars, diskVars, vars
<1>. SUFFICES ASSUME restarts' = restarts, NEW p \in 1..allocated,
                     peers'[p].clientDestination # peers[p].clientDestination
              PROVE  \/ peers[p].clientSourceValidateLevel \in {LevelDefault, LevelNone}
                     \/ /\ peers[p].clientSourceValidateLevel = LevelIP
                        /\ peers'[p].clientDestination.ip = peers[p].clientDestination.ip
  BY Zenon DEF RoamsAsAllowed
<1>1. p \in PeerIds /\ peers \in [PeerIds -> Peer] /\ peers[p] \in Peer
  BY Zenon, AllocatedInHeap DEF TypeOK
<1>2. ~Restart /\ peers' # peers
  BY DEF Restart, TypeOK
<1>3. \A g \in Goroutines : ~ExtractPeer(g)
  <2>1. p # allocated + 1
    BY DEF TypeOK
  <2>. QED  BY Zenon, <1>1, <2>1 DEF ExtractPeer
<1>4. \A g \in Goroutines : ~MarkObfuscated(g)
  <2>. SUFFICES ASSUME NEW g \in Goroutines, MarkObfuscated(g) PROVE FALSE
    BY Zenon
  <2>1. peers' = [peers EXCEPT ![handler[g].peer].obfuscateEnabled = TRUE]
    BY Zenon DEF MarkObfuscated
  <2>. QED  BY Zenon, <1>1, <2>1 DEF Peer
<1>5. \A g \in Goroutines : ~LockServerMap(g)
  <2>. SUFFICES ASSUME NEW g \in Goroutines, LockServerMap(g) PROVE FALSE
    BY Zenon
  <2>. DEFINE q == clientMap[handler[g].pkt.receiver]
  <2>1. peers' = [peers EXCEPT ![q] = [peers[q] EXCEPT !.lastActive = now,
                                         !.serverOriginIndex = handler[g].pkt.sender]]
    BY Zenon DEF LockServerMap
  <2>. HIDE DEF q
  <2>. QED  BY Zenon, <1>1, <2>1 DEF Peer
<1>6. \A g \in Goroutines : ~RegisterClient(g) /\ ~RegisterServer(g)
  BY <1>1 DEF RegisterClient, RegisterServer, ClientRegistered, ServerRegistered, Peer
<1>7. ~HandleAllServerDestinationUpdate
  BY <1>1 DEF HandleAllServerDestinationUpdate, Peer
<1>8. ProcessMessageTransport
  BY ZenonT(60), <1>2, <1>3, <1>4, <1>5, <1>6, <1>7
  DEF Next, Receive, HandlerStep, MainStep, ReceiveTransport, ReceiveHandshake, ReceiveTick,
      ReceiveUpdate, DropTransport, LookupTransport, PatchTransport, SendTransport,
      RejectHandshake, LockClientMap, DrawProxyIndex, MissClientMap, ProcessCookieReply,
      PatchHandshake, RewriteResponse, AddressHandshake, SendHandshake, HandlePeersExpireCheck,
      Tick, Resolve,
      PersistForwardTableCache, WriteToServer, WriteToClient
<1>9. /\ main.pkt.from = "client" /\ TransportAllowed(main.pkt, peers[p])
      /\ peers'[p].clientDestination = main.pkt.source
  BY Zenon, <1>1, <1>8 DEF ProcessMessageTransport, Peer
<1>10. SourceAllowed(peers[p].clientSourceValidateLevel, main.pkt.source, peers[p].clientDestination)
  BY Zenon, <1>9 DEF TransportAllowed
<1>11. peers[p].clientSourceValidateLevel \in Levels
  BY Zenon, <1>1 DEF Peer
<1>. QED
  BY <1>9, <1>10, <1>11
  DEF SourceAllowed, Levels, LevelDefault, LevelNone, LevelIP, LevelIPAndPort

\* A client roams only as far as csvl allows (lines 547-571).
THEOREM RoamingCorrect == Spec => RoamingAllowed
<1>1. Init => TypeOK /\ TableInv
  BY Zenon, InitTypeOK, InitTableInv
<1>2. TypeOK /\ TableInv /\ [Next]_vars => (TypeOK /\ TableInv)'
  BY Zenon, NextTypeOK, NextTableInv
<1>3. TypeOK /\ TableInv /\ [Next]_vars => [RoamsAsAllowed]_vars
  BY Zenon, NextRoamsAsAllowed
<1>. QED  BY <1>1, <1>2, <1>3, PTL DEF Spec, RoamingAllowed

-----------------------------------------------------------------------------
\* The MAC of a packet covers its indices; only handshakes have one.
MACsSound(pkt) ==
  pkt.type \in {"initiation", "response"} =>
    pkt.mac.sender = pkt.sender /\ pkt.mac.receiver = pkt.receiver

\* MACsFixed, for the packets inside the handlers too.
MACInv ==
  /\ \A k \in 1..Len(clientWriteChan) : MACsSound(clientWriteChan[k])
  /\ \A k \in 1..Len(serverWriteChan) : MACsSound(serverWriteChan[k])
  /\ \A g \in Goroutines : MACsSound(handler[g].pkt)
  /\ main.pkt.type \notin {"initiation", "response"}

\* A packet that arrives carries the MACs of its sender.
LEMMA ArrivalSigned ==
  ASSUME NEW pkt \in Arrivals
  PROVE  MACsSound(pkt)
<1>1. CASE pkt \in Initiations
  <2>1. PICK s \in Senders, k \in Clients \cup Strangers, a \in ClientAddrs,
             f \in ClientFlags, d \in Payloads : pkt = Initiation(s, k, a, f, d)
    BY <1>1 DEF Initiations
  <2>. QED  BY <2>1 DEF Initiation, FixMACs, Datagram, MACsSound
<1>2. CASE pkt \in Responses
  <2>1. PICK s \in Senders, r \in Index, a \in ServerAddrs, k \in Clients, d \in Payloads :
             pkt = FixMACs(Datagram("server", "response", s, r, a, d), k)
    BY <1>2 DEF Responses
  <2>. QED  BY Zenon, <2>1 DEF FixMACs, Datagram, MACsSound
<1>3. CASE pkt \in CookieReplies
  <2>1. PICK r \in Index, a \in ServerAddrs, d \in Payloads :
             pkt = Datagram("server", "cookie", 0, r, a, d)
    BY <1>3 DEF CookieReplies
  <2>. QED  BY Zenon, <2>1 DEF Datagram, MACsSound
<1>4. CASE pkt \in Transports
  <2>1. PICK from \in {"client", "server"}, r \in Index, a \in Addrs, d \in Payloads :
             pkt = Datagram(from, "transport", 0, r, a, d)
    BY <1>4 DEF Transports, Addrs
  <2>. QED  BY Zenon, <2>1 DEF Datagram, MACsSound
<1>5. CASE pkt \in Others
  BY <1>5 DEF Others, Datagram, MACsSound
<1>. QED  BY Zenon, <1>1, <1>2, <1>3, <1>4, <1>5 DEF Arrivals

\* Patching and addressing a packet leave it signed.
LEMMA PatchSigned ==
  ASSUME NEW pkt \in Packet, MACsSound(pkt), NEW peer \in Peer
  PROVE  MACsSound(Patch(pkt, peer)) /\ MACsSound(Address(pkt, peer))
<1>1. MACsSound(Patch(pkt, peer))
  <2>1. Patch(pkt, peer) \in Packet
    BY Zenon, PatchType
  <2>2. CASE pkt.type = "initiation"
    <3>1. Patch(pkt, peer) = PatchInitiation(pkt, peer)
      BY Zenon, <2>2 DEF Patch
    <3>. QED  BY <2>1, <3>1 DEF PatchInitiation, FixMACs, SetSenderIndex, MACsSound, Packet
  <2>3. CASE pkt.type = "cookie"
    <3>1. Patch(pkt, peer).type = pkt.type
      BY Zenon, <2>3 DEF Patch, PatchReceiver, SetReceiverIndex, Packet
    <3>. QED  BY Zenon, <2>3, <3>1 DEF MACsSound
  <2>4. CASE pkt.type \notin {"initiation", "cookie"}
    BY Zenon, <2>4 DEF Patch
  <2>. QED  BY Zenon, <2>2, <2>3, <2>4
<1>2. MACsSound(Address(pkt, peer))
  BY Zenon DEF Address, MACsSound, Packet
<1>. QED  BY Zenon, <1>1, <1>2

\* patchResponse signs what it has changed.
LEMMA ResponseSigned ==
  ASSUME NEW pkt \in Packet, NEW peer \in Peer
  PROVE  MACsSound(PatchResponse(pkt, peer))
<1>1. PatchResponse(pkt, peer) \in Packet
  BY Zenon, PatchType
<1>. QED  BY Zenon, <1>1 DEF PatchResponse, FixMACs, SetSenderIndex, SetReceiverIndex, MACsSound, Packet

\* Sending appends one packet to one channel.
LEMMA SendSigned ==
  ASSUME TypeOK, MACInv, NEW pkt \in Packet, MACsSound(pkt), Send(pkt)
  PROVE  /\ \A k \in 1..Len(clientWriteChan') : MACsSound(clientWriteChan'[k])
         /\ \A k \in 1..Len(serverWriteChan') : MACsSound(serverWriteChan'[k])
<1>1. clientWriteChan \in Seq(Packet) /\ serverWriteChan \in Seq(Packet)
  BY Zenon DEF TypeOK
<1>2. ASSUME NEW s \in Seq(Packet), \A k \in 1..Len(s) : MACsSound(s[k])
      PROVE  \A k \in 1..Len(Append(s, pkt)) : MACsSound(Append(s, pkt)[k])
  BY <1>2
<1>. QED  BY ZenonT(60), <1>1, <1>2 DEF Send, MACInv

\* What is left in a channel after a receive is still signed.
LEMMA TailSigned ==
  ASSUME NEW s \in Seq(Packet), s # <<>>, \A k \in 1..Len(s) : MACsSound(s[k])
  PROVE  \A k \in 1..Len(Tail(s)) : MACsSound(Tail(s)[k])
OBVIOUS

\* A step of a handler preserves MACInv.
LEMMA HandlerMACInv ==
  ASSUME TypeOK, MACInv, NEW g \in Goroutines,
         HandlerStep(g) \/ (\E pkt \in Arrivals : ReceiveHandshake(g, pkt))
  PROVE  MACInv'
<1>. USE DEF tableVars, chanVars, timeVars, resolveVars, diskVars
<1>1. /\ handler \in [Goroutines -> Handler] /\ handler[g] \in Handler
      /\ handler[g].pkt \in Packet /\ MACsSound(handler[g].pkt)
      /\ peers \in [PeerIds -> Peer]
  BY Zenon DEF TypeOK, Handler, MACInv
<1>2. /\ main' = main
      /\ \A q \in Goroutines : q # g => handler'[q] = handler[q]
      /\ ~SendHandshake(g) => UNCHANGED <<clientWriteChan, serverWriteChan>>
  BY ZenonT(60), <1>1
  DEF HandlerStep, ReceiveHandshake, RejectHandshake, ExtractPeer, LockClientMap,
      EnterGenerate, DrawProxyIndex, RegisterClient, MarkObfuscated, MissClientMap, LockServerMap,
      RegisterServer, ProcessCookieReply, PatchHandshake, RewriteResponse, AddressHandshake,
      SendHandshake
<1>3. MACsSound(Idle.pkt)
  BY Zenon DEF Idle, NoPacket, Datagram, MACsSound
<1>4. MACsSound(handler'[g].pkt)
  <2>1. ASSUME NEW pkt \in Arrivals, ReceiveHandshake(g, pkt) PROVE handler'[g].pkt = pkt
    BY ZenonT(60), <1>1, <2>1 DEF ReceiveHandshake, Idle
  <2>2. CASE RejectHandshake(g) \/ MissClientMap(g) \/ SendHandshake(g)
    BY ZenonT(60), <1>1, <1>3, <2>2 DEF RejectHandshake, MissClientMap, SendHandshake
  <2>3. CASE PatchHandshake(g) \/ RewriteResponse(g) \/ AddressHandshake(g)
    <3>. DEFINE peer == peers[handler[g].peer]
    <3>1. peer \in Peer
      BY ZenonT(60), <1>1, <2>3 DEF PatchHandshake, RewriteResponse, AddressHandshake, TypeOK,
      Handler, NoPeer
    <3>2. \/ handler'[g].pkt = Patch(handler[g].pkt, peer)
          \/ handler'[g].pkt = PatchResponse(handler[g].pkt, peer)
          \/ handler'[g].pkt = Address(handler[g].pkt, peer)
      BY <1>1, <2>3 DEF PatchHandshake, RewriteResponse, AddressHandshake, Handler
    <3>. HIDE DEF peer
    <3>. QED  BY ZenonT(60), <1>1, <3>1, <3>2, PatchSigned, ResponseSigned
  <2>4. CASE ProcessCookieReply(g)
    <3>1. handler'[g] = Idle \/ handler'[g].pkt = handler[g].pkt
      BY <1>1, <2>4 DEF ProcessCookieReply, Handler
    <3>. QED  BY Zenon, <1>1, <1>3, <3>1
  <2>5. CASE ExtractPeer(g) \/ LockClientMap(g) \/ DrawProxyIndex(g) \/ RegisterClient(g)
             \/ MarkObfuscated(g) \/ LockServerMap(g) \/ RegisterServer(g)
    <3>1. CASE ExtractPeer(g) \/ RegisterClient(g) \/ MarkObfuscated(g) \/ RegisterServer(g)
      BY <1>1, <3>1 DEF ExtractPeer, RegisterClient, MarkObfuscated, RegisterServer, Handler
    <3>2. CASE DrawProxyIndex(g)
      BY Zenon, <1>1, <3>2 DEF DrawProxyIndex, Handler
    <3>3. CASE LockClientMap(g)
      BY Zenon, <1>1, <3>3 DEF LockClientMap, EnterGenerate, Handler
    <3>4. CASE LockServerMap(g)
      BY Zenon, <1>1, <3>4 DEF LockServerMap, EnterGenerate, Handler
    <3>. QED  BY Zenon, <2>5, <3>1, <3>2, <3>3, <3>4
  <2>. QED  BY Zenon, <2>1, <2>2, <2>3, <2>4, <2>5, ArrivalSigned DEF HandlerStep
<1>5. /\ \A k \in 1..Len(clientWriteChan') : MACsSound(clientWriteChan'[k])
      /\ \A k \in 1..Len(serverWriteChan') : MACsSound(serverWriteChan'[k])
  <2>1. CASE SendHandshake(g)
    BY ZenonT(60), <1>1, <2>1, SendSigned DEF SendHandshake
  <2>2. CASE ~SendHandshake(g)
    BY ZenonT(60), <1>2, <2>2 DEF MACInv
  <2>. QED  BY ZenonT(60), <2>1, <2>2
<1>. QED  BY ZenonT(60), <1>2, <1>4, <1>5 DEF MACInv

\* A step of the main loop preserves MACInv.
LEMMA MainMACInv ==
  ASSUME TypeOK, MACInv, MainStep \/ (\E pkt \in Arrivals : ReceiveTransport(pkt))
  PROVE  MACInv'
<1>. USE DEF tableVars, chanVars, timeVars, resolveVars, diskVars
<1>1. /\ main \in MainLoop /\ main.pkt \in Packet /\ main.pkt.type \notin {"initiation", "response"}
      /\ peers \in [PeerIds -> Peer]
  BY Zenon DEF TypeOK, MainLoop, MACInv
<1>2. /\ handler' = handler
      /\ ~SendTransport => UNCHANGED <<clientWriteChan, serverWriteChan>>
  BY ZenonT(60) DEF MainStep, ReceiveTransport, ReceiveTick, ReceiveUpdate, DropTransport, LookupTransport,
         ProcessMessageTransport, PatchTransport, SendTransport, HandlePeersExpireCheck,
         HandleAllServerDestinationUpdate
<1>3. Select.pkt.type = "other"
  BY Zenon DEF Select, NoPacket, Datagram
<1>4. main'.pkt.type \notin {"initiation", "response"}
  <2>1. ASSUME NEW pkt \in Arrivals, ReceiveTransport(pkt) PROVE main'.pkt.type = "transport"
    BY ZenonT(60), <2>1 DEF ReceiveTransport, Select
  <2>2. CASE PatchTransport
    <3>. DEFINE peer == peers[main.peer]
                patched == PatchReceiver(main.pkt, peer)
    <3>1. main'.pkt = Address(patched, peer)
      BY Zenon, <1>1, <2>2 DEF PatchTransport, MainLoop
    <3>2. patched.type = main.pkt.type /\ DOMAIN patched = DOMAIN main.pkt
      BY Zenon, <1>1 DEF PatchReceiver, SetReceiverIndex, Packet
    <3>3. Address(patched, peer).type = main.pkt.type
      BY Zenon, <1>1, <3>2 DEF Address, PatchReceiver, SetReceiverIndex, Packet
    <3>. QED  BY Zenon, <1>1, <3>1, <3>3
  <2>3. CASE ReceiveTick \/ ReceiveUpdate
    <3>1. main'.pkt = Select.pkt
      BY Zenon, <2>3 DEF ReceiveTick, ReceiveUpdate, Select
    <3>. QED  BY Zenon, <1>3, <3>1
  <2>4. CASE LookupTransport \/ ProcessMessageTransport
    <3>1. main' = Select \/ main'.pkt = main.pkt
      BY Zenon, <1>1, <2>4 DEF LookupTransport, ProcessMessageTransport, MainLoop
    <3>. QED  BY Zenon, <1>1, <1>3, <3>1
  <2>5. CASE main' = Select
    BY Zenon, <1>3, <2>5
  <2>. QED
    BY Zenon, <2>1, <2>2, <2>3, <2>4, <2>5
    DEF MainStep, DropTransport, SendTransport, HandlePeersExpireCheck,
        HandleAllServerDestinationUpdate
<1>5. /\ \A k \in 1..Len(clientWriteChan') : MACsSound(clientWriteChan'[k])
      /\ \A k \in 1..Len(serverWriteChan') : MACsSound(serverWriteChan'[k])
  <2>1. CASE SendTransport
    <3>1. MACsSound(main.pkt)
      BY Zenon, <1>1 DEF MACsSound
    <3>. QED  BY Zenon, <1>1, <2>1, <3>1, SendSigned DEF SendTransport
  <2>2. CASE ~SendTransport
    BY Zenon, <1>2, <2>2 DEF MACInv
  <2>. QED  BY Zenon, <2>1, <2>2
<1>. QED  BY Zenon, <1>2, <1>4, <1>5 DEF MACInv

\* Every step preserves MACInv.
LEMMA NextMACInv ==
  ASSUME TypeOK, MACInv, [Next]_vars
  PROVE  MACInv'
<1>. USE DEF tableVars, chanVars, timeVars, resolveVars, diskVars
<1>1. CASE UNCHANGED <<handler, main, clientWriteChan, serverWriteChan>>
  BY Zenon, <1>1 DEF MACInv
<1>2. CASE WriteToServer
  <2>1. serverWriteChan \in Seq(Packet)
    BY Zenon DEF TypeOK
  <2>. QED  BY ZenonT(60), <1>2, <2>1, TailSigned DEF WriteToServer, MACInv
<1>3. CASE WriteToClient
  <2>1. clientWriteChan \in Seq(Packet)
    BY Zenon DEF TypeOK
  <2>. QED  BY ZenonT(60), <1>3, <2>1, TailSigned DEF WriteToClient, MACInv
<1>4. CASE Restart
  <2>1. MACsSound(Idle.pkt) /\ Select.pkt.type = "other"
    BY Zenon DEF Idle, Select, NoPacket, Datagram, MACsSound
  <2>2. Len(<<>>) = 0
    BY Zenon
  <2>. QED  BY <1>4, <2>1, <2>2 DEF Restart, MACInv
<1>. QED
  BY Zenon, <1>1, <1>2, <1>3, <1>4, HandlerMACInv, MainMACInv
  DEF Next, Receive, Tick, Resolve, PersistForwardTableCache, vars

\* FixMACs is called after the last index is set, and whenever one is: every
\* handshake packet in a write channel has a MAC of its own indices.
THEOREM MACsCorrect == Spec => []MACsFixed
<1>1. Init => TypeOK /\ MACInv
  <2>1. Init => MACInv
    <3>1. MACsSound(Idle.pkt) /\ Select.pkt.type = "other"
      BY Zenon DEF Idle, Select, NoPacket, Datagram, MACsSound
    <3>2. Len(<<>>) = 0
      BY Zenon
    <3>. QED  BY <3>1, <3>2 DEF Init, MACInv
  <2>. QED  BY Zenon, <2>1, InitTypeOK
<1>2. TypeOK /\ MACInv /\ [Next]_vars => (TypeOK /\ MACInv)'
  BY Zenon, NextTypeOK, NextMACInv
<1>3. TypeOK /\ MACInv => MACsFixed
  <2>1. ASSUME NEW s \in Seq(Packet) PROVE DOMAIN s = 1..Len(s)
    OBVIOUS
  <2>2. ASSUME TypeOK, MACInv
        PROVE  /\ \A k \in DOMAIN clientWriteChan : MACsSound(clientWriteChan[k])
               /\ \A k \in DOMAIN serverWriteChan : MACsSound(serverWriteChan[k])
    BY Zenon, <2>1, <2>2 DEF TypeOK, MACInv
  <2>. QED  BY <2>2 DEF MACsFixed, MACsSound
<1>. QED  BY <1>1, <1>2, <1>3, PTL DEF Spec

=============================================================================
