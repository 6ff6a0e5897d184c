-------------------------- MODULE WGITPacketProofs --------------------------
(***************************************************************************)
(* What a proxy makes of the packets it forwards, when it has one client:  *)
(* mwgp-client always has one, mwgp-server in a tunnel with it.            *)
(***************************************************************************)
EXTENDS WGITProofs

ClientKey == CHOOSE c : c \in Clients
ServerKey == Config[ClientKey].serverPublicKey

\* One client, and no index is generated for its own sake.
Paired == Clients = {ClientKey} /\ ~DebugAlwaysGenerateProxyIndex

\* MAC1 of pkt is the one that the key's owner expects.
Signed(pkt, key) == pkt.mac = [key |-> key, sender |-> pkt.sender, receiver |-> pkt.receiver]

\* What is in a channel.
Elements(q) == {q[k] : k \in DOMAIN q}

\* The invariants that TypeCorrect and TableCorrect establish.
Sound == TypeOK /\ TableInv

-----------------------------------------------------------------------------
(***************************************************************************)
(* The inductive invariant.  What it says of a handler h is said for any   *)
(* heap, number of allocated peers and clientMap, the same for the two     *)
(* proxies where they do the same.                                         *)
(***************************************************************************)
HasPeer == {"lockClientMap", "generate", "mark", "patch", "rewrite", "address"}

PktSigned(m) ==
  /\ m.type = "initiation" => Signed(m, ServerKey)
  /\ m.type = "response" => Signed(m, ClientKey)

\* The generators of NewPeer; LoadedPeer exchanges them.
Keyed(peer) == peer.clientCookieGenerator = ServerKey /\ peer.serverCookieGenerator = ClientKey
AllKeyed(ps, n) == \A p \in 1..n : Keyed(ps[p])

\* Past the first checks a client's packet is an initiation, a server's a
\* response or a cookie reply.
Directed(pkt) ==
  \/ pkt.from = "client" /\ pkt.type = "initiation"
  \/ pkt.from = "server" /\ pkt.type \in {"response", "cookie"}

HandlerInv(h, n, signed) ==
  /\ h.pc \in HasPeer => h.peer \in 1..n
  /\ h.pc \in HasPeer \cup {"send"} => Directed(h.pkt)
  /\ h.pc = "rewrite" => h.pkt.type = "response"
  /\ signed => PktSigned(h.pkt)

\* In mwgp-client: an initiation that is about to be sent on has an index
\* that is not zero.
CHandlerInv(h, ps) ==
  h.pkt.type = "initiation" =>
    /\ h.pc \in {"mark", "patch"} => /\ ps[h.peer].clientOriginIndex = h.pkt.sender
                                     /\ ps[h.peer].clientProxyIndex # 0
    /\ h.pc \in {"address", "send"} => h.pkt.sender # 0

\* In mwgp-server: peer p obfuscates; index i leads to such a peer.
IsMarked(p, ps, n) == p \in 1..n /\ ps[p].obfuscateEnabled
Good(i, map, ps, n) == IsMarked(map[i], ps, n)

\* An initiation comes from mwgp-client, obfuscated.
InitiationInv(h) ==
  h.pkt.type = "initiation" /\ h.pkt.from = "client" =>
    /\ Deobfuscated \in h.pkt.flags
    /\ h.pc \in {"start", "lockClientMap", "generate"} => h.pkt.sender # 0

\* Until mwgp-server restarts, the server learns of an index only after
\* MarkObfuscated, ...
InitiationGood(h, map, ps, n) ==
  h.pkt.type = "initiation" /\ h.pkt.from = "client" =>
    /\ h.pc = "generate" => h.taken \/ (h.proxy = h.pkt.sender /\ map[h.proxy] = 0)
    /\ h.pc \in {"mark", "patch"} => map[h.pkt.sender] = h.peer
    /\ h.pc = "patch" => IsMarked(h.peer, ps, n)
    /\ h.pc \in {"address", "send"} => Good(h.pkt.sender, map, ps, n)

\* ... so that whatever it sends finds a marked peer.
ReplyGood(h, map, ps, n) ==
  h.pkt.from = "server" =>
    /\ h.pc \in {"start", "lookup"} => Good(h.pkt.receiver, map, ps, n)
    /\ h.pc \in HasPeer \cup {"process"} => IsMarked(h.peer, ps, n)
    /\ h.pc = "send" => Obfuscate \in h.pkt.flags

\* Address sets the destination, and the flag if a marked peer is answered.
LEMMA AddressKeeps ==
  ASSUME NEW pkt \in Packet, NEW peer
  PROVE  LET q == Address(pkt, peer)
         IN  /\ q.from = pkt.from /\ q.type = pkt.type
             /\ q.sender = pkt.sender /\ q.receiver = pkt.receiver /\ q.mac = pkt.mac
             /\ pkt.flags \subseteq q.flags
             /\ pkt.from = "server" /\ peer.obfuscateEnabled => Obfuscate \in q.flags
<1>1. CASE pkt.from = "client"
  BY Zenon, <1>1 DEF Address, Packet
<1>2. CASE pkt.from = "server"
  BY Zenon, <1>2 DEF Address, Packet
<1>. QED  BY Zenon, <1>1, <1>2 DEF Packet

\* PatchReceiver sets the receiver index of a transport packet.
LEMMA ReceiverKeeps ==
  ASSUME NEW pkt \in Packet, NEW peer
  PROVE  LET q == PatchReceiver(pkt, peer)
         IN  /\ q.from = pkt.from /\ q.type = pkt.type /\ q.sender = pkt.sender /\ q.flags = pkt.flags
             /\ peer.serverOriginIndex \in Index /\ peer.clientOriginIndex \in Index => q \in Packet
BY DEF PatchReceiver, SetReceiverIndex, Packet

\* Patch changes the sender of an initiation only, and signs it again.
LEMMA PatchKeeps ==
  ASSUME NEW pkt \in Packet, NEW peer
  PROVE  LET q == Patch(pkt, peer)
         IN  /\ q.from = pkt.from /\ q.type = pkt.type /\ q.flags = pkt.flags
             /\ pkt.type = "initiation" =>
                  q.sender = IF peer.clientOriginIndex # peer.clientProxyIndex
                             THEN peer.clientProxyIndex ELSE pkt.sender
             /\ Keyed(peer) /\ PktSigned(pkt) => PktSigned(q)
<1>. DEFINE q == Patch(pkt, peer)
<1>2. CASE pkt.type = "initiation" /\ peer.clientOriginIndex # peer.clientProxyIndex
  <2>. DEFINE new == [pkt EXCEPT !.sender = peer.clientProxyIndex]
  <2>1. q = [new EXCEPT !.mac = [key |-> peer.clientCookieGenerator, sender |-> new.sender,
                                 receiver |-> new.receiver]]
    BY Zenon, <1>2 DEF Patch, PatchInitiation, FixMACs, SetSenderIndex
  <2>2. /\ q.from = pkt.from /\ q.type = pkt.type /\ q.flags = pkt.flags
        /\ q.sender = peer.clientProxyIndex /\ q.receiver = pkt.receiver
        /\ q.mac = [key |-> peer.clientCookieGenerator, sender |-> peer.clientProxyIndex,
                    receiver |-> pkt.receiver]
    BY Zenon, <2>1 DEF Packet
  <2>. QED  BY Zenon, <1>2, <2>2 DEF PktSigned, Signed, Keyed
<1>3. CASE pkt.type = "cookie"
  <2>1. q = PatchReceiver(pkt, peer)
    BY Zenon, <1>3 DEF Patch
  <2>. QED  BY <1>3, <2>1, ReceiverKeeps DEF PktSigned
<1>4. CASE /\ pkt.type # "cookie"
           /\ ~(pkt.type = "initiation" /\ peer.clientOriginIndex # peer.clientProxyIndex)
  <2>1. q = pkt
    BY Zenon, <1>4 DEF Patch, PatchInitiation
  <2>. QED  BY Zenon, <1>4, <2>1
<1>. QED  BY Zenon, <1>2, <1>3, <1>4

\* patchResponse signs what it has changed with the client's key.
LEMMA RewriteKeeps ==
  ASSUME NEW pkt \in Packet, NEW peer
  PROVE  LET q == PatchResponse(pkt, peer)
         IN  /\ q.from = pkt.from /\ q.type = pkt.type /\ q.flags = pkt.flags
             /\ pkt.type = "response" /\ Keyed(peer) => PktSigned(q)
<1>. DEFINE q == PatchResponse(pkt, peer)
            new == [[pkt EXCEPT !.sender = peer.serverProxyIndex] EXCEPT !.receiver = peer.clientOriginIndex]
<1>2. q = [new EXCEPT !.mac = [key |-> peer.serverCookieGenerator, sender |-> new.sender,
                               receiver |-> new.receiver]]
  BY Zenon DEF PatchResponse, FixMACs, SetSenderIndex, SetReceiverIndex
<1>3. /\ q.from = pkt.from /\ q.type = pkt.type /\ q.flags = pkt.flags
      /\ q.sender = new.sender /\ q.receiver = new.receiver
      /\ q.mac = [key |-> peer.serverCookieGenerator, sender |-> new.sender, receiver |-> new.receiver]
  BY Zenon, <1>2 DEF Packet
<1>. QED  BY Zenon, <1>3 DEF PktSigned, Signed, Keyed

-----------------------------------------------------------------------------
(***************************************************************************)
(* The steps of a handler as a relation between its states h and h2 before *)
(* and after, the same for the two proxies: the heap is ps and then     *)
(* ps2, with n and n2 allocated peers, and clientMap is map and map2.   *)
(***************************************************************************)
\* Later steps read these fields of a peer, and no step takes them back.
Kept(a, b) ==
  /\ b.clientOriginIndex = a.clientOriginIndex
  /\ a.clientProxyIndex # 0 => b.clientProxyIndex # 0
  /\ Keyed(a) => Keyed(b)
  /\ a.obfuscateEnabled => b.obfuscateEnabled

HeapKept(ps, n, ps2, n2) ==
  /\ n \in Nat /\ n2 \in Nat /\ n <= n2
  /\ \A p \in 1..n : Kept(ps[p], ps2[p])

Same(h, h2) == h2.pkt = h.pkt /\ h2.peer = h.peer

Ends(h, h2) == h.pc \in {"start", "send"} /\ h2 = Idle
Extracts(h, h2, n2) ==
  /\ h.pc = "start" /\ Directed(h.pkt) /\ h.pkt.type = "initiation"
  /\ h2.pc = "lockClientMap" /\ h2.pkt = h.pkt /\ h2.peer = n2 /\ n2 # 0
Locks(h, h2, ps, map) ==
  /\ h.pc = "lockClientMap" /\ h2.pc = "generate" /\ Same(h, h2)
  /\ h2.proxy = ps[h.peer].clientOriginIndex /\ h2.taken = (map[h2.proxy] # 0)
Draws(h, h2) ==
  /\ h.pc = "generate" /\ (h.taken \/ h.proxy = 0)
  /\ h2.pc = "generate" /\ Same(h, h2) /\ h2.taken = h.taken
Registers(h, h2, map, ps2, map2) ==
  /\ h.pc = "generate" /\ h.pkt.type = "initiation" /\ ~h.taken /\ h.proxy # 0
  /\ h2.pc = (IF Deobfuscated \in h.pkt.flags THEN "mark" ELSE "patch") /\ Same(h, h2)
  /\ ps2[h.peer].clientProxyIndex = h.proxy
  /\ map2 = [map EXCEPT ![h.proxy] = h.peer]
Marks(h, h2, ps2) ==
  h.pc = "mark" /\ h2.pc = "patch" /\ Same(h, h2) /\ ps2[h.peer].obfuscateEnabled
Finds(h, h2, map) ==
  /\ h.pc = "start" /\ Directed(h.pkt) /\ h.pkt.type # "initiation"
  /\ h2.pc \in {"generate", "patch"} /\ h2.pkt = h.pkt
  /\ h2.peer = map[h.pkt.receiver] /\ h2.peer # 0
Responds(h, h2) ==
  h.pc = "generate" /\ h.pkt.type = "response" /\ h2.pc = "patch" /\ Same(h, h2)
Patches(h, h2, ps) ==
  /\ h.pc = "patch" /\ h2.peer = h.peer /\ h2.pkt = Patch(h.pkt, ps[h.peer])
  /\ h2.pc = "address" \/ (h2.pc = "rewrite" /\ h.pkt.type = "response")
Rewrites(h, h2, ps) ==
  /\ h.pc = "rewrite" /\ h2.pc = "address" /\ h2.peer = h.peer
  /\ h2.pkt = PatchResponse(h.pkt, ps[h.peer])
Addresses(h, h2, ps) ==
  h.pc = "address" /\ h2.pc = "send" /\ h2.pkt = Address(h.pkt, ps[h.peer])

Moves(h, h2, ps, map, ps2, map2, n2) ==
  \/ Registers(h, h2, map, ps2, map2)
  \/ /\ map2 = map
     /\ \/ Ends(h, h2) \/ Extracts(h, h2, n2) \/ Locks(h, h2, ps, map) \/ Draws(h, h2)
        \/ Marks(h, h2, ps2) \/ Finds(h, h2, map) \/ Responds(h, h2)
        \/ Patches(h, h2, ps) \/ Rewrites(h, h2, ps) \/ Addresses(h, h2, ps)

\* What these steps keep of the packet: patch, ...
LEMMA PatchesKeep ==
  ASSUME NEW h, NEW h2, NEW ps, h.pkt \in Packet, Patches(h, h2, ps)
  PROVE  /\ h2.pkt.from = h.pkt.from /\ h2.pkt.type = h.pkt.type /\ h2.pkt.flags = h.pkt.flags
         /\ h.pkt.type = "initiation" =>
              h2.pkt.sender = IF ps[h.peer].clientOriginIndex # ps[h.peer].clientProxyIndex
                              THEN ps[h.peer].clientProxyIndex ELSE h.pkt.sender
         /\ Keyed(ps[h.peer]) /\ PktSigned(h.pkt) => PktSigned(h2.pkt)
<1>1. h2.pkt = Patch(h.pkt, ps[h.peer])
  BY Zenon DEF Patches
<1>. QED  BY <1>1, PatchKeeps

\* ... patchResponse ...
LEMMA RewritesKeep ==
  ASSUME NEW h, NEW h2, NEW ps, h.pkt \in Packet, Rewrites(h, h2, ps)
  PROVE  /\ h2.pkt.from = h.pkt.from /\ h2.pkt.type = h.pkt.type /\ h2.pkt.flags = h.pkt.flags
         /\ h.pkt.type = "response" /\ Keyed(ps[h.peer]) => PktSigned(h2.pkt)
<1>1. h2.pkt = PatchResponse(h.pkt, ps[h.peer])
  BY Zenon DEF Rewrites
<1>. QED  BY <1>1, RewriteKeeps

\* ... and the choice of the destination.
LEMMA AddressesKeep ==
  ASSUME NEW h, NEW h2, NEW ps, h.pkt \in Packet, Addresses(h, h2, ps)
  PROVE  /\ h2.pkt.from = h.pkt.from /\ h2.pkt.type = h.pkt.type /\ h.pkt.flags \subseteq h2.pkt.flags
         /\ h2.pkt.sender = h.pkt.sender
         /\ h.pkt.from = "server" /\ ps[h.peer].obfuscateEnabled => Obfuscate \in h2.pkt.flags
         /\ PktSigned(h.pkt) => PktSigned(h2.pkt)
<1>1. h2.pkt = Address(h.pkt, ps[h.peer])
  BY Zenon DEF Addresses
<1>. QED  BY <1>1, AddressKeeps DEF PktSigned, Signed

\* An idle handler has no packet.
LEMMA IdlePacket ==
  /\ Idle.pc = "idle" /\ Idle.pkt.type = "other" /\ Idle.pkt.from = "client"
  /\ Select.pc = "select" /\ Select.pkt.type = "other" /\ Select.pkt.from = "client"
BY Zenon DEF Idle, Select, NoPacket, Datagram, NoPeer

\* A goroutine that does nothing satisfies its part of the invariant.
LEMMA IdleInv ==
  /\ \A n, signed : HandlerInv(Idle, n, signed)
  /\ \A ps : CHandlerInv(Idle, ps)
  /\ InitiationInv(Idle)
  /\ \A map, ps, n : InitiationGood(Idle, map, ps, n) /\ ReplyGood(Idle, map, ps, n)
  /\ \A map, ps, n : ReplyGood(Select, map, ps, n)
  /\ Select.pkt.type \in {"transport", "other"} /\ Select.pc # "expire"
<1>1. \A n, signed : HandlerInv(Idle, n, signed)
  BY Zenon, IdlePacket DEF HandlerInv, HasPeer, PktSigned
<1>2. /\ \A ps : CHandlerInv(Idle, ps)
      /\ InitiationInv(Idle)
  BY Zenon, IdlePacket DEF CHandlerInv, InitiationInv
<1>3. \A map, ps, n : InitiationGood(Idle, map, ps, n) /\ ReplyGood(Idle, map, ps, n)
  BY Zenon, IdlePacket DEF InitiationGood, ReplyGood
<1>4. \A map, ps, n : ReplyGood(Select, map, ps, n)
  BY Zenon, IdlePacket DEF ReplyGood
<1>. QED  BY Zenon, <1>1, <1>2, <1>3, <1>4, IdlePacket

\* A handler that has a peer has an allocated one.
LEMMA HasOne ==
  ASSUME NEW h, NEW n, NEW signed, HandlerInv(h, n, signed), h.pc \in HasPeer
  PROVE  h.peer # 0
BY DEF HandlerInv

\* A handler's peer is allocated and its packet signed, step by step.
LEMMA HandlerMoves ==
  ASSUME NEW h, NEW h2, NEW ps, NEW map, NEW n, NEW ps2, NEW map2, NEW n2, NEW signed, NEW signed2,
         h.pkt \in Packet, HandlerInv(h, n, signed), HeapKept(ps, n, ps2, n2),
         signed2 => signed, signed => AllKeyed(ps, n),
         \A i \in Index : map[i] \in 0..n,
         Moves(h, h2, ps, map, ps2, map2, n2)
  PROVE  HandlerInv(h2, n2, signed2)
<1>. USE DEF HandlerInv, HasPeer, Same
<1>1. n \in Nat /\ n2 \in Nat /\ n <= n2
  BY Zenon DEF HeapKept
<1>2. h.pkt.receiver \in Index
  BY Zenon DEF Packet
<1>3. CASE Ends(h, h2)
  BY Zenon, <1>3, IdlePacket DEF Ends, PktSigned
<1>4. CASE Extracts(h, h2, n2)
  BY <1>1, <1>4 DEF Extracts
<1>5. CASE Locks(h, h2, ps, map) \/ Draws(h, h2)
  BY <1>1, <1>5 DEF Locks, Draws
<1>6. CASE Registers(h, h2, map, ps2, map2) \/ Marks(h, h2, ps2) \/ Responds(h, h2)
  BY <1>1, <1>6 DEF Registers, Marks, Responds
<1>7. CASE Finds(h, h2, map)
  BY <1>1, <1>2, <1>7 DEF Finds
<1>8. CASE Patches(h, h2, ps) \/ Rewrites(h, h2, ps) \/ Addresses(h, h2, ps)
  <2>1. /\ h.pc \in {"patch", "rewrite", "address"}
        /\ h2.pc \in {"rewrite", "address", "send"}
        /\ h2.pc \in {"rewrite", "address"} => h2.peer = h.peer
        /\ h2.pc = "rewrite" => h.pkt.type = "response"
    BY Zenon, <1>8 DEF Patches, Rewrites, Addresses
  <2>2. h.peer \in 1..n /\ Directed(h.pkt)
    BY Zenon, <2>1
  <2>3. signed => Keyed(ps[h.peer]) /\ PktSigned(h.pkt)
    BY Zenon, <2>2 DEF AllKeyed
  <2>4. /\ h2.pkt.from = h.pkt.from /\ h2.pkt.type = h.pkt.type
        /\ signed => PktSigned(h2.pkt)
    <3>1. CASE Patches(h, h2, ps)
      BY Zenon, <2>3, <3>1, PatchesKeep
    <3>2. CASE Rewrites(h, h2, ps)
      BY Zenon, <2>3, <3>2, RewritesKeep DEF Rewrites
    <3>3. CASE Addresses(h, h2, ps)
      BY Zenon, <2>3, <3>3, AddressesKeep
    <3>. QED  BY Zenon, <1>8, <3>1, <3>2, <3>3
  <2>. QED  BY <1>1, <2>1, <2>2, <2>4 DEF Directed
<1>. QED  BY Zenon, <1>3, <1>4, <1>5, <1>6, <1>7, <1>8 DEF Moves

\* The other handlers do not notice.
LEMMA HandlerStays ==
  ASSUME NEW h, NEW n \in Nat, NEW n2 \in Nat, NEW signed, NEW signed2, n <= n2, signed2 => signed,
         HandlerInv(h, n, signed)
  PROVE  HandlerInv(h, n2, signed2)
BY DEF HandlerInv

\* mwgp-client gives an initiation an index that is not zero.
LEMMA CHandlerMoves ==
  ASSUME NEW h, NEW h2, NEW ps, NEW map, NEW n, NEW ps2, NEW map2, NEW n2, NEW signed,
         h.pkt \in Packet, HandlerInv(h, n, signed), CHandlerInv(h, ps),
         HeapKept(ps, n, ps2, n2),
         h.pc = "generate" /\ h.pkt.type = "initiation" => ps[h.peer].clientOriginIndex = h.pkt.sender,
         Moves(h, h2, ps, map, ps2, map2, n2)
  PROVE  CHandlerInv(h2, ps2)
<1>. USE DEF CHandlerInv, Same
<1>1. h.pc \in HasPeer => Kept(ps[h.peer], ps2[h.peer]) /\ Directed(h.pkt)
  BY Zenon DEF HandlerInv, HeapKept
<1>3. CASE Ends(h, h2)
  BY Zenon, <1>3, IdlePacket DEF Ends
<1>4. CASE Extracts(h, h2, n2) \/ Locks(h, h2, ps, map) \/ Draws(h, h2)
  BY Zenon, <1>4 DEF Extracts, Locks, Draws
<1>5. CASE Registers(h, h2, map, ps2, map2)
  BY Zenon, <1>1, <1>5 DEF Registers, Kept, HasPeer
<1>6. CASE Marks(h, h2, ps2)
  BY Zenon, <1>1, <1>6 DEF Marks, Kept, HasPeer
<1>7. CASE Finds(h, h2, map) \/ Responds(h, h2)
  BY Zenon, <1>7 DEF Finds, Responds
<1>8. CASE Patches(h, h2, ps)
  <2>1. /\ h2.pkt.type = h.pkt.type
        /\ h.pkt.type = "initiation" =>
             h2.pkt.sender = IF ps[h.peer].clientOriginIndex # ps[h.peer].clientProxyIndex
                             THEN ps[h.peer].clientProxyIndex ELSE h.pkt.sender
    BY ZenonT(60), <1>8, PatchesKeep
  <2>. QED  BY Zenon, <1>8, <2>1 DEF Patches
<1>9. CASE Rewrites(h, h2, ps)
  <2>1. h2.pkt.type = h.pkt.type /\ h.pkt.type = "response"
    BY Zenon, <1>9, RewritesKeep DEF Rewrites, HandlerInv
  <2>. QED  BY Zenon, <2>1
<1>10. CASE Addresses(h, h2, ps)
  <2>1. h2.pkt.type = h.pkt.type /\ h2.pkt.sender = h.pkt.sender
    BY Zenon, <1>10, AddressesKeep
  <2>. QED  BY Zenon, <1>10, <2>1 DEF Addresses
<1>. QED  BY Zenon, <1>3, <1>4, <1>5, <1>6, <1>7, <1>8, <1>9, <1>10 DEF Moves

\* What mwgp-client's initiation has outlives the steps of other goroutines.
LEMMA CHandlerStays ==
  ASSUME NEW h, NEW ps, NEW n, NEW ps2, NEW n2, NEW signed,
         HandlerInv(h, n, signed), CHandlerInv(h, ps), HeapKept(ps, n, ps2, n2)
  PROVE  CHandlerInv(h, ps2)
BY Zenon DEF HandlerInv, CHandlerInv, HeapKept, Kept, HasPeer

-----------------------------------------------------------------------------
(***************************************************************************)
(* The handlers of mwgp-server, and the packets they let through.          *)
(***************************************************************************)
MapKept(map, map2) == \A i \in Index : map[i] # 0 => map2[i] = map[i]

\* A marked peer stays so, ...
LEMMA MarkedStays ==
  ASSUME NEW p, NEW ps, NEW n, NEW ps2, NEW n2,
         HeapKept(ps, n, ps2, n2), IsMarked(p, ps, n)
  PROVE  IsMarked(p, ps2, n2)
BY DEF HeapKept, Kept, IsMarked

\* ... and so does an index that leads to one.
LEMMA GoodStays ==
  ASSUME NEW i \in Index, NEW ps, NEW map, NEW n, NEW ps2, NEW map2, NEW n2,
         HeapKept(ps, n, ps2, n2), MapKept(map, map2), Good(i, map, ps, n)
  PROVE  Good(i, map2, ps2, n2)
BY DEF HeapKept, Kept, MapKept, IsMarked, Good

\* The flag and the index of an initiation, step by step.
LEMMA InitiationMoves ==
  ASSUME NEW h, NEW h2, NEW ps, NEW map, NEW ps2, NEW map2, NEW n2,
         h.pkt \in Packet, InitiationInv(h),
         Moves(h, h2, ps, map, ps2, map2, n2)
  PROVE  InitiationInv(h2)
<1>. USE DEF InitiationInv, Same
<1>1. CASE Ends(h, h2)
  BY Zenon, <1>1, IdlePacket DEF Ends
<1>2. CASE Extracts(h, h2, n2) \/ Locks(h, h2, ps, map) \/ Draws(h, h2)
           \/ Marks(h, h2, ps2) \/ Finds(h, h2, map) \/ Responds(h, h2)
  BY Zenon, <1>2 DEF Extracts, Locks, Draws, Marks, Finds, Responds
<1>3. CASE Registers(h, h2, map, ps2, map2)
  BY Zenon, <1>3 DEF Registers
<1>4. CASE Patches(h, h2, ps) \/ Rewrites(h, h2, ps) \/ Addresses(h, h2, ps)
  <2>1. h2.pkt.from = h.pkt.from /\ h2.pkt.type = h.pkt.type /\ h.pkt.flags \subseteq h2.pkt.flags
    <3>1. CASE Patches(h, h2, ps)
      BY Zenon, <3>1, PatchesKeep
    <3>2. CASE Rewrites(h, h2, ps)
      BY Zenon, <3>2, RewritesKeep
    <3>3. CASE Addresses(h, h2, ps)
      BY Zenon, <3>3, AddressesKeep
    <3>. QED  BY Zenon, <1>4, <3>1, <3>2, <3>3
  <2>2. h2.pc \in {"address", "rewrite", "send"}
    BY Zenon, <1>4 DEF Patches, Rewrites, Addresses
  <2>. QED  BY Zenon, <2>1, <2>2
<1>. QED  BY Zenon, <1>1, <1>2, <1>3, <1>4 DEF Moves

\* No index is drawn for an initiation: its own is not zero and, if it is
\* taken, the handler never leaves generateProxyIndexLocked.
LEMMA RegistersOwn ==
  ASSUME NEW h, NEW h2, NEW map, NEW ps, NEW n, NEW ps2, NEW map2, NEW signed,
         HandlerInv(h, n, signed), InitiationInv(h), InitiationGood(h, map, ps, n),
         Registers(h, h2, map, ps2, map2)
  PROVE  h.pkt.from = "client" /\ h.proxy = h.pkt.sender /\ map[h.proxy] = 0 /\ h2.pc = "mark"
<1>1. h.pkt.from = "client"
  BY Zenon DEF Registers, HandlerInv, HasPeer, Directed
<1>. QED
  BY Zenon, <1>1 DEF Registers, InitiationInv, InitiationGood, Deobfuscated

\* Then clientMap loses no entry.
LEMMA MapMoves ==
  ASSUME NEW h, NEW h2, NEW ps, NEW map \in [Index -> 0..MaxPeers], NEW n,
         NEW ps2, NEW map2, NEW n2, NEW signed,
         HandlerInv(h, n, signed), InitiationInv(h), InitiationGood(h, map, ps, n),
         Moves(h, h2, ps, map, ps2, map2, n2)
  PROVE  MapKept(map, map2)
<1>1. CASE Registers(h, h2, map, ps2, map2)
  <2>1. map[h.proxy] = 0 /\ map2 = [map EXCEPT ![h.proxy] = h.peer]
    BY Zenon, <1>1, RegistersOwn DEF Registers
  <2>. QED  BY Zenon, <2>1 DEF MapKept
<1>. QED  BY Zenon, <1>1 DEF Moves, MapKept

\* Every entry of clientMap is filed under its own index.
Filed(map, ps) == \A i \in Index : map[i] # 0 => ps[map[i]].clientProxyIndex = i

\* The server learns of an index only after MarkObfuscated.
LEMMA InitiationGoodMoves ==
  ASSUME NEW h, NEW h2, NEW ps, NEW map \in [Index -> 0..MaxPeers], NEW n,
         NEW ps2, NEW map2, NEW n2, NEW signed,
         h.pkt \in Packet, HandlerInv(h, n, signed), InitiationInv(h),
         InitiationGood(h, map, ps, n), HeapKept(ps, n, ps2, n2),
         Filed(map, ps),
         h.pc = "lockClientMap" => ps[h.peer].clientOriginIndex = h.pkt.sender,
         Moves(h, h2, ps, map, ps2, map2, n2)
  PROVE  InitiationGood(h2, map2, ps2, n2)
<1>. USE DEF InitiationGood, Same
<1>1. h.pkt.sender \in Index
  BY Zenon DEF Packet
<1>2. /\ \A p : IsMarked(p, ps, n) => IsMarked(p, ps2, n2)
      /\ map2 = map => \A i \in Index : Good(i, map, ps, n) => Good(i, map2, ps2, n2)
  BY Zenon, MarkedStays, GoodStays DEF MapKept
<1>3. CASE Ends(h, h2)
  BY Zenon, <1>3, IdlePacket DEF Ends
<1>4. CASE Extracts(h, h2, n2)
  BY Zenon, <1>4 DEF Extracts
<1>5. CASE Locks(h, h2, ps, map) /\ map2 = map
  BY Zenon, <1>1, <1>5 DEF Locks
<1>6. CASE Draws(h, h2)
  BY Zenon, <1>6 DEF Draws, InitiationInv
<1>7. CASE Registers(h, h2, map, ps2, map2)
  <2>1. h.proxy = h.pkt.sender /\ h2.pc = "mark"
    BY ZenonT(60), <1>7, RegistersOwn
  <2>2. map2[h.pkt.sender] = h.peer /\ h2.pkt = h.pkt /\ h2.peer = h.peer
    BY Zenon, <1>1, <1>7, <2>1 DEF Registers
  <2>. QED  BY Zenon, <2>1, <2>2
<1>8. CASE Marks(h, h2, ps2) /\ map2 = map
  <2>1. h.peer \in 1..n /\ 1..n \subseteq 1..n2
    BY <1>8 DEF Marks, HandlerInv, HasPeer, HeapKept
  <2>. QED  BY Zenon, <1>8, <2>1 DEF Marks, IsMarked
<1>9. CASE Finds(h, h2, map) \/ Responds(h, h2)
  BY Zenon, <1>9 DEF Finds, Responds
<1>10. CASE Patches(h, h2, ps) /\ map2 = map
  <2>1. /\ h2.pkt.from = h.pkt.from /\ h2.pkt.type = h.pkt.type
        /\ h.pkt.type = "initiation" =>
             h2.pkt.sender = IF ps[h.peer].clientOriginIndex # ps[h.peer].clientProxyIndex
                             THEN ps[h.peer].clientProxyIndex ELSE h.pkt.sender
    BY <1>10, PatchesKeep
  <2>2. ASSUME h.pkt.type = "initiation", h.pkt.from = "client"
        PROVE  h2.pkt.sender = h.pkt.sender /\ Good(h.pkt.sender, map2, ps2, n2)
    <3>1. map[h.pkt.sender] = h.peer /\ IsMarked(h.peer, ps, n)
      BY ZenonT(60), <1>10, <2>2 DEF Patches
    <3>2. h.peer # 0
      BY <3>1 DEF IsMarked
    <3>3. ps[h.peer].clientProxyIndex = h.pkt.sender
      BY Zenon, <1>1, <3>1, <3>2 DEF Filed
    <3>. QED  BY Zenon, <1>1, <1>2, <1>10, <2>1, <2>2, <3>1, <3>3 DEF Good
  <2>. QED  BY Zenon, <1>10, <2>1, <2>2 DEF Patches
<1>11. CASE Rewrites(h, h2, ps)
  <2>1. h2.pkt.type = h.pkt.type /\ h.pkt.type = "response"
    BY ZenonT(60), <1>11, RewritesKeep DEF Rewrites, HandlerInv
  <2>. QED  BY Zenon, <2>1
<1>12. CASE Addresses(h, h2, ps) /\ map2 = map
  <2>1. h2.pkt.from = h.pkt.from /\ h2.pkt.type = h.pkt.type /\ h2.pkt.sender = h.pkt.sender
    BY ZenonT(60), <1>12, AddressesKeep
  <2>. QED  BY Zenon, <1>1, <1>2, <1>12, <2>1 DEF Addresses
<1>. QED  BY ZenonT(60), <1>3, <1>4, <1>5, <1>6, <1>7, <1>8, <1>9, <1>10, <1>11, <1>12 DEF Moves

\* The same while another goroutine moves: the lock keeps clientMap from a
\* handler that has looked its index up.
LEMMA InitiationGoodStays ==
  ASSUME NEW h, NEW ps, NEW map, NEW n, NEW ps2, NEW map2, NEW n2,
         h.pkt \in Packet, InitiationGood(h, map, ps, n), HeapKept(ps, n, ps2, n2),
         MapKept(map, map2), map2 = map \/ h.pc # "generate",
         h.pc \in HasPeer => h.peer # 0
  PROVE  InitiationGood(h, map2, ps2, n2)
<1>1. h.pkt.sender \in Index
  BY Zenon DEF Packet
<1>. QED  BY Zenon, <1>1, MarkedStays, GoodStays DEF InitiationGood, MapKept, HasPeer

\* What the server sends finds a marked peer.
LEMMA ReplyMoves ==
  ASSUME NEW h, NEW h2, NEW ps, NEW map, NEW n, NEW ps2, NEW map2, NEW n2,
         h.pkt \in Packet, ReplyGood(h, map, ps, n), HeapKept(ps, n, ps2, n2),
         Moves(h, h2, ps, map, ps2, map2, n2)
  PROVE  ReplyGood(h2, map2, ps2, n2)
<1>. USE DEF ReplyGood, Same, HasPeer
<1>1. \A p : IsMarked(p, ps, n) => IsMarked(p, ps2, n2)
  BY Zenon, MarkedStays
<1>2. CASE Ends(h, h2)
  BY Zenon, <1>2, IdlePacket DEF Ends
<1>3. CASE Extracts(h, h2, n2)
  BY Zenon, <1>3 DEF Extracts, Directed
<1>4. CASE Locks(h, h2, ps, map) \/ Draws(h, h2) \/ Marks(h, h2, ps2) \/ Responds(h, h2)
  BY Zenon, <1>1, <1>4 DEF Locks, Draws, Marks, Responds
<1>5. CASE Registers(h, h2, map, ps2, map2)
  BY Zenon, <1>1, <1>5 DEF Registers
<1>6. CASE Finds(h, h2, map)
  BY Zenon, <1>1, <1>6 DEF Finds, Good
<1>7. CASE Patches(h, h2, ps) \/ Rewrites(h, h2, ps)
  <2>1. h2.pkt.from = h.pkt.from /\ h2.peer = h.peer /\ h2.pc \in {"address", "rewrite"}
    BY <1>7, PatchesKeep, RewritesKeep DEF Patches, Rewrites
  <2>. QED  BY Zenon, <1>1, <1>7, <2>1 DEF Patches, Rewrites
<1>8. CASE Addresses(h, h2, ps)
  <2>1. /\ h2.pkt.from = h.pkt.from /\ h2.pc = "send" /\ h.pc = "address"
        /\ h.pkt.from = "server" /\ ps[h.peer].obfuscateEnabled => Obfuscate \in h2.pkt.flags
    BY <1>8, AddressesKeep DEF Addresses
  <2>. QED  BY Zenon, <2>1 DEF IsMarked
<1>. QED  BY ZenonT(60), <1>2, <1>3, <1>4, <1>5, <1>6, <1>7, <1>8 DEF Moves

\* The same while another goroutine moves.
LEMMA ReplyStays ==
  ASSUME NEW h, NEW ps, NEW map, NEW n, NEW ps2, NEW map2, NEW n2,
         h.pkt \in Packet, ReplyGood(h, map, ps, n), HeapKept(ps, n, ps2, n2),
         MapKept(map, map2)
  PROVE  ReplyGood(h, map2, ps2, n2)
<1>1. h.pkt.receiver \in Index
  BY Zenon DEF Packet
<1>. QED  BY Zenon, <1>1, MarkedStays, GoodStays DEF ReplyGood

-----------------------------------------------------------------------------
(***************************************************************************)
(* The steps of the handlers of mwgp-server are such moves.                 *)
(***************************************************************************)
\* What TypeOK says of the heap, the handlers and the maps.
LEMMA Heap ==
  ASSUME Sound
  PROVE  /\ peers \in [PeerIds -> Peer] /\ allocated \in Nat /\ allocated \in 0..MaxPeers
         /\ handler \in [Goroutines -> Handler]
         /\ \A g \in Goroutines : handler[g] \in Handler /\ handler[g].pkt \in Packet
         /\ clientMap \in [Index -> 0..MaxPeers] /\ serverMap \in [Index -> 0..MaxPeers]
         /\ \A i \in Index : clientMap[i] \in 0..allocated /\ serverMap[i] \in 0..allocated
<1>1. /\ peers \in [PeerIds -> Peer] /\ allocated \in 0..MaxPeers
      /\ handler \in [Goroutines -> Handler]
      /\ clientMap \in [Index -> 0..MaxPeers] /\ serverMap \in [Index -> 0..MaxPeers]
  BY Zenon DEF Sound, TypeOK
<1>2. \A g \in Goroutines : handler[g] \in Handler /\ handler[g].pkt \in Packet
  BY Zenon, <1>1 DEF Handler
<1>3. \A i \in Index : clientMap[i] <= allocated /\ serverMap[i] <= allocated
  BY Zenon DEF Sound, TableInv, Bounded
<1>. QED  BY <1>1, <1>2, <1>3, ConstantsAssumption

\* What a step of a handler changes besides its own state.
LEMMA StepFrame ==
  ASSUME Sound, NEW g \in Goroutines, HandlerStep(g)
  PROVE  /\ \A q \in Goroutines : q # g => handler'[q] = handler[q]
         /\ UNCHANGED <<main, expireChan, disk, restarts>>
         /\ ~SendHandshake(g) => UNCHANGED <<clientWriteChan, serverWriteChan>>
BY Zenon, Heap
DEF HandlerStep, RejectHandshake, ExtractPeer, LockClientMap, EnterGenerate,
    DrawProxyIndex, RegisterClient, MarkObfuscated, MissClientMap, LockServerMap,
    RegisterServer, ProcessCookieReply, PatchHandshake, RewriteResponse,
    AddressHandshake, SendHandshake, tableVars, chanVars, timeVars, resolveVars,
    diskVars

\* No step takes back what a peer has got, and a new peer has its keys.
LEMMA StepKeeps ==
  ASSUME Sound, Paired, NEW g \in Goroutines, HandlerStep(g)
  PROVE  /\ HeapKept(peers, allocated, peers', allocated')
         /\ AllKeyed(peers, allocated) => AllKeyed(peers', allocated')
<1>. USE DEF tableVars, HeapKept, Kept
<1>1. /\ peers \in [PeerIds -> Peer] /\ allocated \in Nat /\ PeerIds = 1..MaxPeers
      /\ allocated \in 0..MaxPeers /\ handler[g].proxy \in Index
  BY ZenonT(60), Heap DEF PeerIds, Handler
<1>2. ASSUME allocated' = allocated, HeapKept(peers, allocated, peers', allocated')
      PROVE  AllKeyed(peers, allocated) => AllKeyed(peers', allocated')
  BY Zenon, <1>2 DEF AllKeyed
<1>3. CASE ExtractPeer(g)
  <2>. DEFINE sp == ExtractPeerFunc(handler[g].pkt)
              new == NewPeer(handler[g].pkt, sp)
  <2>1. /\ allocated' = allocated + 1 /\ allocated + 1 \in PeerIds
        /\ peers' = [peers EXCEPT ![allocated + 1] = new]
    BY <1>1, <1>3, ConstantsAssumption DEF ExtractPeer
  <2>2. sp.serverPublicKey = ServerKey /\ sp.clientPublicKey = ClientKey
    BY Zenon, <1>3, ConstantsAssumption
    DEF ExtractPeer, Rejected, ExtractPeerFunc, LevelDefault, Paired, ServerKey
  <2>3. Keyed(new)
    BY Zenon, <2>2 DEF NewPeer, Keyed
  <2>. HIDE DEF new
  <2>4. peers'[allocated + 1] = new /\ \A p \in 1..allocated : peers'[p] = peers[p]
    BY <1>1, <2>1
  <2>. QED  BY <1>1, <2>1, <2>3, <2>4 DEF AllKeyed
<1>4. CASE RegisterClient(g)
  <2>1. /\ peers' = [peers EXCEPT ![handler[g].peer] = [@ EXCEPT !.clientProxyIndex = handler[g].proxy]]
        /\ allocated' = allocated /\ handler[g].proxy # 0
    BY Zenon, <1>4 DEF RegisterClient, ClientRegistered, RetryProxyIndex
  <2>2. HeapKept(peers, allocated, peers', allocated')
    BY <1>1, <2>1 DEF Peer, Keyed
  <2>. QED  BY Zenon, <1>2, <2>1, <2>2
<1>5. CASE MarkObfuscated(g)
  <2>1. /\ peers' = [peers EXCEPT ![handler[g].peer] = [@ EXCEPT !.obfuscateEnabled = TRUE]]
        /\ allocated' = allocated
    BY Zenon, <1>5 DEF MarkObfuscated
  <2>2. HeapKept(peers, allocated, peers', allocated')
    BY <1>1, <2>1 DEF Peer, Keyed
  <2>. QED  BY ZenonT(60), <1>2, <2>1, <2>2
<1>6. CASE LockServerMap(g)
  <2>1. PICK p \in 0..MaxPeers :
             peers' = [peers EXCEPT ![p] =
                          [@ EXCEPT !.lastActive = now, !.serverOriginIndex = handler[g].pkt.sender]]
    <3>1. handler[g].pkt.receiver \in Index
      BY Zenon, Heap DEF Packet
    <3>. QED  BY Zenon, <1>6, <3>1, Heap DEF LockServerMap
  <2>2. allocated' = allocated
    BY Zenon, <1>6 DEF LockServerMap
  <2>3. HeapKept(peers, allocated, peers', allocated')
    BY <1>1, <2>1, <2>2 DEF Peer, Keyed
  <2>. QED  BY Zenon, <1>2, <2>2, <2>3
<1>7. CASE RegisterServer(g)
  <2>1. /\ peers' = [peers EXCEPT ![handler[g].peer] = [@ EXCEPT !.serverProxyIndex = handler[g].proxy]]
        /\ allocated' = allocated
    BY Zenon, <1>7 DEF RegisterServer, ServerRegistered
  <2>2. HeapKept(peers, allocated, peers', allocated')
    BY <1>1, <2>1 DEF Peer, Keyed
  <2>. QED  BY Zenon, <1>2, <2>1, <2>2
<1>8. CASE peers' = peers /\ allocated' = allocated
  BY <1>1, <1>8 DEF AllKeyed
<1>. QED
  BY Zenon, <1>3, <1>4, <1>5, <1>6, <1>7, <1>8
  DEF HandlerStep, RejectHandshake, LockClientMap, DrawProxyIndex, MissClientMap,
      ProcessCookieReply, PatchHandshake, RewriteResponse, AddressHandshake, SendHandshake

\* Every step of a handler is one of its moves.
LEMMA StepMoves ==
  ASSUME Sound, Paired, NEW g \in Goroutines, HandlerStep(g)
  PROVE  Moves(handler[g], handler'[g], peers, clientMap, peers', clientMap', allocated')
<1>. DEFINE h == handler[g]
            h2 == handler'[g]
<1>. USE DEF tableVars, Same
<1>1. /\ handler \in [Goroutines -> Handler] /\ h \in Handler /\ h.pkt \in Packet
      /\ peers \in [PeerIds -> Peer]
      /\ h.pc \in HasPeer => h.peer \in PeerIds
      /\ allocated \in Nat
  BY Zenon, Heap DEF Sound, TypeOK, Handler, HasPeer
<1>2. CASE RejectHandshake(g) \/ MissClientMap(g) \/ SendHandshake(g)
  <2>1. h2 = Idle /\ h.pc \in {"start", "send"} /\ clientMap' = clientMap
    BY Zenon, <1>1, <1>2 DEF RejectHandshake, MissClientMap, SendHandshake
  <2>. QED  BY ZenonT(60), <2>1, IdlePacket DEF Moves, Ends
<1>3. CASE ExtractPeer(g)
  <2>1. /\ h.pc = "start" /\ Directed(h.pkt) /\ h.pkt.type = "initiation"
        /\ allocated' = allocated + 1 /\ clientMap' = clientMap
    BY Zenon, <1>3 DEF ExtractPeer, Rejected, Directed
  <2>2. h2.pc = "lockClientMap" /\ h2.pkt = h.pkt /\ h2.peer = allocated + 1
    BY Zenon, <1>1, <1>3 DEF ExtractPeer, Handler
  <2>3. Extracts(h, h2, allocated')
    BY <1>1, <2>1, <2>2 DEF Extracts
  <2>. QED  BY Zenon, <2>1, <2>3 DEF Moves
<1>4. CASE LockClientMap(g)
  <2>1. h.pc = "lockClientMap" /\ clientMap' = clientMap
    BY Zenon, <1>4 DEF LockClientMap
  <2>2. /\ h2.pc = "generate" /\ h2.pkt = h.pkt /\ h2.peer = h.peer
        /\ h2.proxy = peers[h.peer].clientOriginIndex
        /\ h2.taken = (clientMap[peers[h.peer].clientOriginIndex] # 0)
    <3>. DEFINE o == peers[h.peer].clientOriginIndex
    <3>1. FirstProxyIndex(o) = o
      BY Zenon DEF FirstProxyIndex, Paired
    <3>2. handler' = [handler EXCEPT ![g].pc = "generate", ![g].peer = h.peer, ![g].proxy = o,
                                     ![g].taken = clientMap[o] # 0]
      BY Zenon, <1>4, <3>1 DEF LockClientMap, EnterGenerate, NoPeer
    <3>. HIDE DEF o
    <3>3. /\ h2.pc = "generate" /\ h2.pkt = h.pkt /\ h2.peer = h.peer
          /\ h2.proxy = o /\ h2.taken = (clientMap[o] # 0)
      BY Zenon, <1>1, <3>2 DEF Handler
    <3>. QED  BY Zenon, <3>3 DEF o
  <2>3. Locks(h, h2, peers, clientMap)
    BY Zenon, <2>1, <2>2 DEF Locks
  <2>. QED  BY ZenonT(60), <2>1, <2>3 DEF Moves
<1>5. CASE DrawProxyIndex(g)
  <2>1. h.pc = "generate" /\ (h.taken \/ h.proxy = 0) /\ clientMap' = clientMap
    BY Zenon, <1>5 DEF DrawProxyIndex, RetryProxyIndex
  <2>2. h2.pc = "generate" /\ h2.pkt = h.pkt /\ h2.peer = h.peer /\ h2.taken = h.taken
    BY <1>1, <1>5 DEF DrawProxyIndex, Handler
  <2>3. Draws(h, h2)
    BY Zenon, <2>1, <2>2 DEF Draws
  <2>. QED  BY Zenon, <2>1, <2>3 DEF Moves
<1>6. CASE RegisterClient(g)
  <2>1. /\ h.pc = "generate" /\ h.pkt.type = "initiation" /\ ~h.taken /\ h.proxy # 0
        /\ clientMap' = [clientMap EXCEPT ![h.proxy] = h.peer]
    BY Zenon, <1>6 DEF RegisterClient, RetryProxyIndex
  <2>2. /\ h2.pc = (IF Deobfuscated \in h.pkt.flags THEN "mark" ELSE "patch")
        /\ h2.pkt = h.pkt /\ h2.peer = h.peer
    BY Zenon, <1>1, <1>6 DEF RegisterClient, Handler
  <2>3. peers'[h.peer].clientProxyIndex = h.proxy
    <3>1. h.peer \in PeerIds
      BY Zenon, <1>1, <2>1 DEF HasPeer
    <3>. QED  BY Zenon, <1>1, <1>6, <3>1 DEF RegisterClient, ClientRegistered, Peer
  <2>4. Registers(h, h2, clientMap, peers', clientMap')
    BY Zenon, <2>1, <2>2, <2>3 DEF Registers, Deobfuscated
  <2>. QED  BY Zenon, <2>4 DEF Moves
<1>7. CASE MarkObfuscated(g)
  <2>1. h.pc = "mark" /\ clientMap' = clientMap
    BY Zenon, <1>7 DEF MarkObfuscated
  <2>2. h2.pc = "patch" /\ h2.pkt = h.pkt /\ h2.peer = h.peer
    BY Zenon, <1>1, <1>7 DEF MarkObfuscated, Handler
  <2>3. peers'[h.peer].obfuscateEnabled
    <3>1. h.peer \in PeerIds
      BY Zenon, <1>1, <2>1 DEF HasPeer
    <3>. QED  BY <1>1, <1>7, <3>1 DEF MarkObfuscated, Peer
  <2>4. Marks(h, h2, peers')
    BY Zenon, <2>1, <2>2, <2>3 DEF Marks
  <2>. QED  BY Zenon, <2>1, <2>4 DEF Moves
<1>8. CASE LockServerMap(g)
  <2>1. /\ h.pc = "start" /\ Directed(h.pkt) /\ h.pkt.type # "initiation" /\ clientMap' = clientMap
        /\ clientMap[h.pkt.receiver] # 0
    BY Zenon, <1>8 DEF LockServerMap, Rejected, Directed, NoPeer
  <2>2. h2.pc = "generate" /\ h2.pkt = h.pkt /\ h2.peer = clientMap[h.pkt.receiver]
    BY Zenon, <1>1, <1>8 DEF LockServerMap, EnterGenerate, Handler
  <2>3. Finds(h, h2, clientMap)
    BY Zenon, <2>1, <2>2 DEF Finds
  <2>. QED  BY Zenon, <2>1, <2>3 DEF Moves
<1>9. CASE RegisterServer(g)
  <2>1. h.pc = "generate" /\ h.pkt.type = "response" /\ clientMap' = clientMap
    BY Zenon, <1>9 DEF RegisterServer
  <2>2. h2.pc = "patch" /\ h2.pkt = h.pkt /\ h2.peer = h.peer
    BY Zenon, <1>1, <1>9 DEF RegisterServer, Handler
  <2>. QED  BY Zenon, <2>1, <2>2 DEF Moves, Responds
<1>10. CASE ProcessCookieReply(g)
  <2>1. h.pc = "start" /\ Directed(h.pkt) /\ h.pkt.type # "initiation" /\ clientMap' = clientMap
    BY Zenon, <1>10 DEF ProcessCookieReply, Rejected, Directed
  <2>2. \/ h2 = Idle
        \/ /\ h2.pc = "patch" /\ h2.pkt = h.pkt
           /\ h2.peer = clientMap[h.pkt.receiver] /\ h2.peer # 0
    BY <1>1, <1>10 DEF ProcessCookieReply, Handler, NoPeer
  <2>3. Ends(h, h2) \/ Finds(h, h2, clientMap)
    BY Zenon, <2>1, <2>2, IdlePacket DEF Ends, Finds
  <2>. QED  BY Zenon, <2>1, <2>3 DEF Moves
<1>11. CASE PatchHandshake(g)
  <2>1. h.pc = "patch" /\ clientMap' = clientMap
    BY Zenon, <1>11 DEF PatchHandshake
  <2>2. /\ h2.peer = h.peer /\ h2.pkt = Patch(h.pkt, peers[h.peer])
        /\ h2.pc = "address" \/ (h2.pc = "rewrite" /\ h.pkt.type = "response")
    BY Zenon, <1>1, <1>11 DEF PatchHandshake, Handler
  <2>. QED  BY Zenon, <2>1, <2>2 DEF Moves, Patches
<1>12. CASE RewriteResponse(g)
  <2>1. h.pc = "rewrite" /\ clientMap' = clientMap
    BY Zenon, <1>12 DEF RewriteResponse
  <2>2. h2.pc = "address" /\ h2.peer = h.peer /\ h2.pkt = PatchResponse(h.pkt, peers[h.peer])
    BY Zenon, <1>1, <1>12 DEF RewriteResponse, Handler
  <2>. QED  BY Zenon, <2>1, <2>2 DEF Moves, Rewrites
<1>13. CASE AddressHandshake(g)
  <2>1. h.pc = "address" /\ clientMap' = clientMap
    BY Zenon, <1>13 DEF AddressHandshake
  <2>2. h2.pc = "send" /\ h2.pkt = Address(h.pkt, peers[h.peer])
    BY Zenon, <1>1, <1>13 DEF AddressHandshake, Handler
  <2>. QED  BY Zenon, <2>1, <2>2 DEF Moves, Addresses
<1>. QED
  BY ZenonT(60), <1>2, <1>3, <1>4, <1>5, <1>6, <1>7, <1>8, <1>9, <1>10, <1>11, <1>12, <1>13 DEF HandlerStep

-----------------------------------------------------------------------------
(***************************************************************************)
(* The main loops and the write channels.                                  *)
(***************************************************************************)
\* The packets of a channel after a send, after a receive, and at the start.
LEMMA Appended ==
  ASSUME NEW T, NEW s \in Seq(T), NEW e \in T
  PROVE  Elements(Append(s, e)) \subseteq Elements(s) \cup {e}
BY DEF Elements

\* What writeLoop takes from a channel was in it.
LEMMA Removed ==
  ASSUME NEW T, NEW s \in Seq(T), s # <<>>
  PROVE  Elements(Tail(s)) \subseteq Elements(s) /\ Head(s) \in Elements(s) /\ Head(s) \in T
BY DEF Elements

\* An empty channel.
LEMMA NoElements == Elements(<<>>) = {}
BY DEF Elements

\* What is in a channel has its type.
LEMMA ElementsType ==
  ASSUME NEW T, NEW s \in Seq(T)
  PROVE  Elements(s) \subseteq T
BY DEF Elements

\* The steps of a main loop, from m to m2.
MainMoves(m, m2, ps, map) ==
  \/ m2.pc \in {"select", "expire", "update"} /\ m2.pkt = Select.pkt
  \/ /\ m.pc = "lookup" /\ m2.pc = "process" /\ m2.pkt = m.pkt
     /\ m.pkt.from = "server" => m2.peer = map[m.pkt.receiver]
  \/ m.pc = "process" /\ m2.pc = "patch" /\ Same(m, m2)
  \/ /\ m.pc = "patch" /\ m2.pc = "send"
     /\ m2.pkt = Address(PatchReceiver(m.pkt, ps[m.peer]), ps[m.peer])

\* The channels of mwgp-server: a packet goes to the one of its direction.
LEMMA Channels ==
  ASSUME Sound
  PROVE  /\ serverWriteChan \in Seq(Packet) /\ clientWriteChan \in Seq(Packet)
         /\ main \in MainLoop /\ main.pkt \in Packet
         /\ main.pc \in {"process", "patch"} => main.peer \in PeerIds
         /\ restarts \in Nat
<1>1. /\ serverWriteChan \in Seq(Packet) /\ clientWriteChan \in Seq(Packet) /\ main \in MainLoop
      /\ restarts \in 0..MaxRestarts
      /\ main.pc \in {"process", "patch"} => main.peer # NoPeer
  BY Zenon DEF Sound, TypeOK
<1>2. main.pkt \in Packet /\ main.peer \in {NoPeer} \cup PeerIds
  BY Zenon, <1>1 DEF MainLoop
<1>3. restarts \in Nat
  BY <1>1, ConstantsAssumption
<1>. QED  BY ZenonT(60), <1>1, <1>2, <1>3

\* A packet goes to the channel of the other side.
LEMMA SendPuts ==
  ASSUME Sound, NEW pkt \in Packet, Send(pkt)
  PROVE  \/ /\ pkt.from = "client" /\ clientWriteChan' = clientWriteChan
            /\ Elements(serverWriteChan') \subseteq Elements(serverWriteChan) \cup {pkt}
         \/ /\ pkt.from = "server" /\ serverWriteChan' = serverWriteChan
            /\ Elements(clientWriteChan') \subseteq Elements(clientWriteChan) \cup {pkt}
BY Zenon, Channels, Appended DEF Send

\* The main loop leaves the handlers alone, and the maps unless it expires.
LEMMA MainFrame ==
  ASSUME Sound, MainStep
  PROVE  /\ UNCHANGED <<handler, allocated, disk, restarts, mapLock>>
         /\ ~SendTransport => UNCHANGED <<clientWriteChan, serverWriteChan>>
         /\ main.pc # "expire" => UNCHANGED <<clientMap, serverMap>>
         /\ expireChan = Nil => expireChan' = Nil /\ main'.pc # "expire"
         /\ HeapKept(peers, allocated, peers', allocated')
<1>. USE DEF tableVars, chanVars, timeVars, resolveVars, diskVars
<1>1. /\ UNCHANGED <<handler, allocated, disk, restarts, mapLock>>
      /\ ~SendTransport => UNCHANGED <<clientWriteChan, serverWriteChan>>
      /\ main.pc # "expire" => UNCHANGED <<clientMap, serverMap>>
  BY Zenon
  DEF MainStep, ReceiveTick, ReceiveUpdate, DropTransport, LookupTransport,
      ProcessMessageTransport, PatchTransport, SendTransport, HandlePeersExpireCheck,
      HandleAllServerDestinationUpdate
<1>2. expireChan = Nil => expireChan' = Nil /\ main'.pc # "expire"
  <2>1. main \in MainLoop
    BY Zenon, Channels
  <2>2. Select.pc = "select" /\ [Select EXCEPT !.pc = "update", !.newServerAddr = resolved].pc = "update"
    BY Zenon DEF Select
  <2>3. /\ [main EXCEPT !.pc = "process"].pc = "process"
        /\ [main EXCEPT !.pc = "patch"].pc = "patch"
        /\ \A q : [main EXCEPT !.pc = "send", !.pkt = q].pc = "send"
    BY Zenon, <2>1 DEF MainLoop
  <2>4. CASE ReceiveTick
    BY Zenon, <2>4 DEF ReceiveTick
  <2>5. CASE ReceiveUpdate
    BY Zenon, <2>2, <2>5 DEF ReceiveUpdate
  <2>6. CASE DropTransport \/ SendTransport
    BY Zenon, <2>2, <2>6 DEF DropTransport, SendTransport
  <2>7. CASE LookupTransport
    <3>1. PICK p : main' = Select \/ main' = [main EXCEPT !.pc = "process", !.peer = p]
      BY Zenon, <2>7 DEF LookupTransport
    <3>2. [main EXCEPT !.pc = "process", !.peer = p].pc = "process"
      BY Zenon, <2>1 DEF MainLoop
    <3>3. main'.pc # "expire"
      BY Zenon, <2>2, <3>1, <3>2
    <3>. QED  BY Zenon, <2>7, <3>3 DEF LookupTransport
  <2>8. CASE ProcessMessageTransport
    BY Zenon, <2>2, <2>3, <2>8 DEF ProcessMessageTransport
  <2>9. CASE PatchTransport
    BY Zenon, <2>2, <2>3, <2>9 DEF PatchTransport
  <2>10. CASE HandlePeersExpireCheck
    BY Zenon, <2>2, <2>10 DEF HandlePeersExpireCheck
  <2>11. CASE HandleAllServerDestinationUpdate
    BY Zenon, <2>2, <2>11 DEF HandleAllServerDestinationUpdate
  <2>. QED
    BY ZenonT(60), <2>4, <2>5, <2>6, <2>7, <2>8, <2>9, <2>10, <2>11 DEF MainStep
<1>3. HeapKept(peers, allocated, peers', allocated')
  <2>. USE DEF HeapKept, Kept
  <2>1. peers \in [PeerIds -> Peer] /\ allocated \in Nat /\ allocated' = allocated
        /\ PeerIds = 1..MaxPeers /\ allocated \in 0..MaxPeers /\ MaxPeers \in Nat
    BY Zenon, <1>1, Heap, ConstantsAssumption DEF PeerIds
  <2>2. CASE ProcessMessageTransport
    <3>1. PICK a : peers' = [peers EXCEPT ![main.peer] =
                                [@ EXCEPT !.lastActive = now, !.clientDestination = a]]
      BY Zenon, <2>1, <2>2 DEF ProcessMessageTransport
    <3>. QED  BY <2>1, <3>1 DEF Peer, Keyed
  <2>3. CASE HandleAllServerDestinationUpdate
    <3>1. \A p \in PeerIds :
            peers'[p] \in {peers[p], [peers[p] EXCEPT !.serverDestination = main.newServerAddr]}
      BY Zenon, <2>3 DEF HandleAllServerDestinationUpdate
    <3>2. \A p \in PeerIds :
            Kept(peers[p], [peers[p] EXCEPT !.serverDestination = main.newServerAddr])
      BY <2>1 DEF Peer, Keyed
    <3>3. \A p \in PeerIds : Kept(peers[p], peers[p])
      BY Zenon
    <3>. HIDE DEF Kept
    <3>4. \A p \in PeerIds : Kept(peers[p], peers'[p])
      BY Zenon, <3>1, <3>2, <3>3
    <3>. QED  BY <2>1, <3>4
  <2>4. CASE peers' = peers
    BY <2>1, <2>4
  <2>. QED
    BY ZenonT(60), <2>2, <2>3, <2>4
    DEF MainStep, ReceiveTick, ReceiveUpdate, DropTransport, LookupTransport,
        PatchTransport, SendTransport, HandlePeersExpireCheck
<1>. QED  BY Zenon, <1>1, <1>2, <1>3

\* The steps of mainLoop are moves of the main loop.
LEMMA MainStepMoves ==
  ASSUME Sound, MainStep
  PROVE  MainMoves(main, main', peers, clientMap)
<1>. USE DEF Same
<1>1. main \in MainLoop /\ main.pkt \in Packet
  BY Zenon, Channels
<1>2. Select.pc = "select"
  BY Zenon, IdlePacket
<1>3. CASE main' = Select
  BY Zenon, <1>2, <1>3 DEF MainMoves
<1>4. CASE ReceiveTick \/ ReceiveUpdate
  <2>1. main'.pc \in {"expire", "update"} /\ main'.pkt = Select.pkt
    BY Zenon, <1>4 DEF ReceiveTick, ReceiveUpdate, Select
  <2>. QED  BY Zenon, <1>2, <2>1 DEF MainMoves
<1>5. CASE LookupTransport /\ main' # Select
  <2>1. /\ main.pc = "lookup" /\ main'.pc = "process" /\ main'.pkt = main.pkt
        /\ main.pkt.from = "server" => main'.peer = clientMap[main.pkt.receiver]
    BY Zenon, <1>1, <1>5 DEF LookupTransport, MainLoop
  <2>. QED  BY Zenon, <2>1 DEF MainMoves
<1>6. CASE ProcessMessageTransport /\ main' # Select
  <2>1. main.pc = "process" /\ main'.pc = "patch" /\ main'.pkt = main.pkt /\ main'.peer = main.peer
    BY Zenon, <1>1, <1>6 DEF ProcessMessageTransport, MainLoop
  <2>. QED  BY Zenon, <2>1 DEF MainMoves
<1>7. CASE PatchTransport
  <2>. DEFINE peer == peers[main.peer]
  <2>1. /\ main.pc = "patch" /\ main'.pc = "send"
        /\ main'.pkt = Address(PatchReceiver(main.pkt, peer), peer)
    BY Zenon, <1>1, <1>7 DEF PatchTransport, MainLoop
  <2>. QED  BY Zenon, <2>1 DEF MainMoves
<1>. QED
  BY Zenon, <1>3, <1>4, <1>5, <1>6, <1>7
  DEF MainStep, DropTransport, SendTransport, HandlePeersExpireCheck,
      HandleAllServerDestinationUpdate

\* A packet is read, and goes to the main loop or to an idle handler.
Arrives(g, pkt) == ReceiveTransport(pkt) \/ (g \in Goroutines /\ ReceiveHandshake(g, pkt))

\* Nothing else changes.
LEMMA Receives ==
  ASSUME Sound, NEW g, NEW pkt, Arrives(g, pkt)
  PROVE  /\ UNCHANGED <<peers, allocated, clientMap, serverMap, mapLock, clientWriteChan,
                        serverWriteChan, expireChan, disk, restarts>>
         /\ \/ /\ handler' = handler /\ pkt.type = "transport"
               /\ main'.pc = "lookup" /\ main'.pkt = pkt
            \/ /\ main' = main /\ pkt.type # "transport"
               /\ \A q \in Goroutines : q # g => handler'[q] = handler[q]
               /\ handler'[g].pc = "start" /\ handler'[g].pkt = pkt
<1>. USE DEF tableVars, chanVars, timeVars, resolveVars, diskVars
<1>1. CASE ReceiveTransport(pkt)
  BY Zenon, <1>1 DEF ReceiveTransport, Select
<1>2. CASE g \in Goroutines /\ ReceiveHandshake(g, pkt)
  <2>1. handler \in [Goroutines -> Handler]
    BY Zenon, Heap
  <2>. QED  BY Zenon, <1>2, <2>1 DEF ReceiveHandshake, Idle
<1>. QED  BY Zenon, <1>1, <1>2 DEF Arrives

\* The main loop carries transport packets only.
LEMMA MainType ==
  ASSUME NEW m, NEW m2, NEW ps, NEW map, m.pkt \in Packet,
         m.pkt.type \in {"transport", "other"}, MainMoves(m, m2, ps, map),
         m.pc = "patch" => ps[m.peer].serverOriginIndex \in Index /\ ps[m.peer].clientOriginIndex \in Index
  PROVE  m2.pkt.type \in {"transport", "other"}
<1>1. CASE m.pc = "patch" /\ m2.pkt = Address(PatchReceiver(m.pkt, ps[m.peer]), ps[m.peer])
  <2>. DEFINE q == PatchReceiver(m.pkt, ps[m.peer])
  <2>1. q \in Packet /\ q.type = m.pkt.type
    BY ZenonT(60), <1>1, ReceiverKeeps
  <2>. HIDE DEF q
  <2>2. Address(q, ps[m.peer]).type = q.type
    BY Zenon, <2>1, AddressKeeps
  <2>. QED  BY Zenon, <1>1, <2>1, <2>2 DEF q
<1>. QED  BY Zenon, <1>1, IdlePacket DEF MainMoves, Same

-----------------------------------------------------------------------------
(***************************************************************************)
(* The invariant of a proxy.  What it says of signatures holds while       *)
(* "signed": until a restart loads a peer, if what arrives is signed.      *)
(***************************************************************************)
ProxyInv(signed) ==
  /\ \A g \in Goroutines : HandlerInv(handler[g], allocated, signed)
  /\ signed => AllKeyed(peers, allocated)
  /\ main.pkt.type \in {"transport", "other"}
  /\ signed => \A pkt \in Elements(serverWriteChan) \cup Elements(clientWriteChan) : PktSigned(pkt)

\* What mwgp-client adds: an initiation it forwards has an index.
ClientInv ==
  /\ \A g \in Goroutines : CHandlerInv(handler[g], peers)
  /\ \A pkt \in Elements(serverWriteChan) : pkt.type = "initiation" => pkt.sender # 0

\* What mwgp-server adds: nothing expires, and initiations were obfuscated.
ServerInv ==
  /\ \A g \in Goroutines : InitiationInv(handler[g])
  /\ expireChan = Nil /\ main.pc # "expire"

\* A step of a handler: its packet stays signed when Patch changes it.
LEMMA HandlerStepInv ==
  ASSUME Sound, Paired, NEW signed, ProxyInv(signed), NEW g \in Goroutines, HandlerStep(g)
  PROVE  ProxyInv(signed)'
<1>1. /\ \A q \in Goroutines : q # g => handler'[q] = handler[q]
      /\ main' = main
      /\ ~SendHandshake(g) => UNCHANGED <<clientWriteChan, serverWriteChan>>
  BY Zenon, StepFrame
<1>2. /\ HeapKept(peers, allocated, peers', allocated')
      /\ AllKeyed(peers, allocated) => AllKeyed(peers', allocated')
      /\ Moves(handler[g], handler'[g], peers, clientMap, peers', clientMap', allocated')
  BY Zenon, StepKeeps, StepMoves
<1>3. handler[g].pkt \in Packet /\ \A i \in Index : clientMap[i] \in 0..allocated
  BY Zenon, Heap
<1>4. /\ \A q \in Goroutines : HandlerInv(handler[q], allocated, signed)
      /\ signed => AllKeyed(peers, allocated)
  BY Zenon DEF ProxyInv
<1>5. \A q \in Goroutines : HandlerInv(handler'[q], allocated', signed)
  <2>1. HandlerInv(handler'[g], allocated', signed)
    <3>1. HandlerInv(handler[g], allocated, signed)
      BY Zenon, <1>4
    <3>. QED  BY ZenonT(60), <1>2, <1>3, <1>4, <3>1, HandlerMoves
  <2>2. allocated \in Nat /\ allocated' \in Nat /\ allocated <= allocated'
    BY Zenon, <1>2 DEF HeapKept
  <2>3. \A q \in Goroutines : q # g => HandlerInv(handler[q], allocated', signed)
    BY ZenonT(60), <1>1, <1>4, <2>2, HandlerStays
  <2>. QED  BY Zenon, <1>1, <2>1, <2>3
<1>6. signed => \A pkt \in Elements(serverWriteChan') \cup Elements(clientWriteChan') : PktSigned(pkt)
  <2>1. CASE SendHandshake(g)
    <3>. DEFINE pkt == handler[g].pkt
    <3>1. Send(pkt) /\ pkt \in Packet
      BY Zenon, <2>1, Heap DEF SendHandshake
    <3>2. signed => PktSigned(pkt)
      BY Zenon, <1>4 DEF HandlerInv
    <3>. HIDE DEF pkt
    <3>3. /\ Elements(serverWriteChan') \subseteq Elements(serverWriteChan) \cup {pkt}
          /\ Elements(clientWriteChan') \subseteq Elements(clientWriteChan) \cup {pkt}
      BY Zenon, <3>1, SendPuts
    <3>. QED  BY Zenon, <3>2, <3>3 DEF ProxyInv
  <2>2. CASE ~SendHandshake(g)
    BY Zenon, <1>1, <2>2 DEF ProxyInv
  <2>. QED  BY Zenon, <2>1, <2>2
<1>. QED  BY ZenonT(60), <1>1, <1>2, <1>4, <1>5, <1>6 DEF ProxyInv

\* A step of a handler of mwgp-client: the initiation gets the proxy index.
LEMMA HandlerStepClient ==
  ASSUME Sound, Paired, ProxyInv(FALSE), ClientInv, NEW g \in Goroutines, HandlerStep(g)
  PROVE  ClientInv'
<1>1. /\ \A q \in Goroutines : q # g => handler'[q] = handler[q]
      /\ ~SendHandshake(g) => UNCHANGED <<clientWriteChan, serverWriteChan>>
  BY Zenon, StepFrame
<1>2. /\ HeapKept(peers, allocated, peers', allocated')
      /\ Moves(handler[g], handler'[g], peers, clientMap, peers', clientMap', allocated')
  BY Zenon, StepKeeps, StepMoves
<1>3. handler[g].pkt \in Packet
  BY Zenon, Heap
<1>4. /\ \A q \in Goroutines : HandlerInv(handler[q], allocated, FALSE)
      /\ \A q \in Goroutines : CHandlerInv(handler[q], peers)
  BY Zenon DEF ProxyInv, ClientInv
<1>5. handler[g].pc = "generate" /\ handler[g].pkt.type = "initiation" =>
        peers[handler[g].peer].clientOriginIndex = handler[g].pkt.sender
  BY Zenon DEF Sound, TableInv, OwnersSound, Owns
<1>6. \A q \in Goroutines : CHandlerInv(handler'[q], peers')
  <2>1. CHandlerInv(handler'[g], peers')
    BY ZenonT(60), <1>2, <1>3, <1>4, <1>5, CHandlerMoves
  <2>2. \A q \in Goroutines : q # g => CHandlerInv(handler[q], peers')
    BY ZenonT(60), <1>2, <1>4, CHandlerStays
  <2>. QED  BY Zenon, <1>1, <2>1, <2>2
<1>7. \A pkt \in Elements(serverWriteChan') : pkt.type = "initiation" => pkt.sender # 0
  <2>1. CASE SendHandshake(g)
    <3>. DEFINE pkt == handler[g].pkt
    <3>1. handler[g].pc = "send" /\ Send(pkt) /\ pkt \in Packet
      BY Zenon, <2>1, Heap DEF SendHandshake
    <3>2. pkt.type = "initiation" => pkt.sender # 0
      BY Zenon, <1>4, <3>1 DEF CHandlerInv
    <3>. HIDE DEF pkt
    <3>3. Elements(serverWriteChan') \subseteq Elements(serverWriteChan) \cup {pkt}
      BY Zenon, <3>1, SendPuts
    <3>. QED  BY Zenon, <3>2, <3>3 DEF ClientInv
  <2>2. CASE ~SendHandshake(g)
    BY Zenon, <1>1, <2>2 DEF ClientInv
  <2>. QED  BY Zenon, <2>1, <2>2
<1>. QED  BY Zenon, <1>6, <1>7 DEF ClientInv

\* A step of a handler of mwgp-server: Patch leaves the flags alone.
LEMMA HandlerStepServer ==
  ASSUME Sound, Paired, ServerInv, NEW g \in Goroutines, HandlerStep(g)
  PROVE  ServerInv'
<1>1. /\ \A q \in Goroutines : q # g => handler'[q] = handler[q]
      /\ main' = main /\ expireChan' = expireChan
  BY Zenon, StepFrame
<1>2. Moves(handler[g], handler'[g], peers, clientMap, peers', clientMap', allocated')
  BY Zenon, StepMoves
<1>3. handler[g].pkt \in Packet /\ \A q \in Goroutines : InitiationInv(handler[q])
  BY Zenon, Heap DEF ServerInv
<1>4. InitiationInv(handler'[g])
  BY ZenonT(60), <1>2, <1>3, InitiationMoves
<1>. QED  BY ZenonT(60), <1>1, <1>3, <1>4 DEF ServerInv

\* A step of mainLoop: a transport packet is not signed, and the clock of the
\* tunnel does not tick.
LEMMA MainStepInv ==
  ASSUME Sound, MainStep
  PROVE  /\ \A signed : ProxyInv(signed) => ProxyInv(signed)'
         /\ ProxyInv(FALSE) /\ ClientInv => ClientInv'
         /\ ServerInv => ServerInv'
<1>1. /\ handler' = handler /\ allocated' = allocated
      /\ ~SendTransport => UNCHANGED <<clientWriteChan, serverWriteChan>>
      /\ HeapKept(peers, allocated, peers', allocated')
      /\ expireChan = Nil => expireChan' = Nil /\ main'.pc # "expire"
  BY Zenon, MainFrame
<1>2. ASSUME main.pkt.type \in {"transport", "other"}
      PROVE  main'.pkt.type \in {"transport", "other"}
  <2>1. main.pc = "patch" => /\ peers[main.peer].serverOriginIndex \in Index
                             /\ peers[main.peer].clientOriginIndex \in Index
    BY ZenonT(60), Channels, Heap DEF Peer
  <2>2. main.pkt \in Packet /\ MainMoves(main, main', peers, clientMap)
    BY Zenon, Channels, MainStepMoves
  <2>. QED  BY ZenonT(60), <1>2, <2>1, <2>2, MainType
<1>3. /\ Elements(serverWriteChan') \subseteq Elements(serverWriteChan) \cup {main.pkt}
      /\ Elements(clientWriteChan') \subseteq Elements(clientWriteChan) \cup {main.pkt}
  <2>1. CASE SendTransport
    <3>1. Send(main.pkt) /\ main.pkt \in Packet
      BY Zenon, <2>1, Channels DEF SendTransport
    <3>. QED  BY Zenon, <3>1, SendPuts
  <2>2. CASE ~SendTransport
    BY Zenon, <1>1, <2>2
  <2>. QED  BY Zenon, <2>1, <2>2
<1>4. ASSUME NEW signed, ProxyInv(signed)
      PROVE  ProxyInv(signed)'
  <2>1. main.pkt.type \in {"transport", "other"}
    BY Zenon, <1>4 DEF ProxyInv
  <2>3. PktSigned(main.pkt)
    BY Zenon, <2>1 DEF PktSigned
  <2>4. signed => AllKeyed(peers', allocated')
    BY Zenon, <1>1, <1>4 DEF ProxyInv, AllKeyed, HeapKept, Kept
  <2>5. signed => \A q \in Elements(serverWriteChan') \cup Elements(clientWriteChan') : PktSigned(q)
    BY Zenon, <1>3, <1>4, <2>3 DEF ProxyInv
  <2>. QED  BY ZenonT(60), <1>1, <1>2, <1>4, <2>1, <2>4, <2>5 DEF ProxyInv
<1>5. ASSUME ProxyInv(FALSE), ClientInv
      PROVE  ClientInv'
  <2>1. /\ main.pkt.type \in {"transport", "other"}
        /\ \A q \in Goroutines : HandlerInv(handler[q], allocated, FALSE) /\ CHandlerInv(handler[q], peers)
    BY Zenon, <1>5 DEF ProxyInv, ClientInv
  <2>2. main.pkt.type # "initiation"
    BY Zenon, <2>1
  <2>3. \A q \in Goroutines : CHandlerInv(handler[q], peers')
    BY ZenonT(60), <1>1, <2>1, CHandlerStays
  <2>4. \A q \in Elements(serverWriteChan') : q.type = "initiation" => q.sender # 0
    BY Zenon, <1>3, <1>5, <2>2 DEF ClientInv
  <2>. QED  BY Zenon, <1>1, <2>3, <2>4 DEF ClientInv
<1>6. ServerInv => ServerInv'
  BY Zenon, <1>1 DEF ServerInv
<1>. QED  BY Zenon, <1>4, <1>5, <1>6

\* A packet that arrives is signed by its sender.
LEMMA ReceivesInv ==
  ASSUME Sound, NEW g, NEW pkt, Arrives(g, pkt)
  PROVE  /\ \A signed : ProxyInv(signed) /\ (signed => PktSigned(pkt)) => ProxyInv(signed)'
         /\ ClientInv => ClientInv'
         /\ ServerInv /\ (pkt.type = "initiation" /\ pkt.from = "client" =>
                            Deobfuscated \in pkt.flags /\ pkt.sender # 0) => ServerInv'
<1>1. UNCHANGED <<peers, allocated, clientWriteChan, serverWriteChan, expireChan>>
  BY Zenon, Receives
<1>2. CASE handler' = handler /\ pkt.type = "transport" /\ main'.pc = "lookup" /\ main'.pkt = pkt
  <2>1. main'.pkt.type \in {"transport", "other"} /\ main'.pc # "expire"
    BY Zenon, <1>2
  <2>. QED  BY ZenonT(60), <1>1, <1>2, <2>1 DEF ProxyInv, ClientInv, ServerInv
<1>3. CASE /\ main' = main /\ pkt.type # "transport"
           /\ \A q \in Goroutines : q # g => handler'[q] = handler[q]
           /\ handler'[g].pc = "start" /\ handler'[g].pkt = pkt
  <2>1. /\ \A signed : (signed => PktSigned(pkt)) => HandlerInv(handler'[g], allocated, signed)
        /\ CHandlerInv(handler'[g], peers)
        /\ (pkt.type = "initiation" /\ pkt.from = "client" =>
              Deobfuscated \in pkt.flags /\ pkt.sender # 0) => InitiationInv(handler'[g])
    BY Zenon, <1>3 DEF HandlerInv, CHandlerInv, InitiationInv, HasPeer
  <2>2. ASSUME NEW signed, ProxyInv(signed), signed => PktSigned(pkt)
        PROVE  ProxyInv(signed)'
    <3>1. \A q \in Goroutines : HandlerInv(handler'[q], allocated, signed)
      BY ZenonT(60), <1>3, <2>1, <2>2 DEF ProxyInv
    <3>. QED  BY ZenonT(60), <1>1, <1>3, <2>2, <3>1 DEF ProxyInv
  <2>3. ClientInv => ClientInv'
    BY ZenonT(60), <1>1, <1>3, <2>1 DEF ClientInv
  <2>4. ASSUME ServerInv, pkt.type = "initiation" /\ pkt.from = "client" =>
                            Deobfuscated \in pkt.flags /\ pkt.sender # 0
        PROVE  ServerInv'
    BY ZenonT(60), <1>1, <1>3, <2>1, <2>4 DEF ServerInv
  <2>. QED  BY ZenonT(60), <2>2, <2>3, <2>4
<1>. QED  BY ZenonT(60), <1>2, <1>3, Receives

\* writeLoop takes a packet out.
LEMMA WritesInv ==
  ASSUME Sound, WriteToServer \/ WriteToClient
  PROVE  /\ \A signed : ProxyInv(signed) => ProxyInv(signed)'
         /\ ClientInv => ClientInv'
         /\ ServerInv => ServerInv'
<1>. USE DEF tableVars, timeVars, resolveVars, diskVars
<1>1. UNCHANGED <<handler, main, peers, allocated, expireChan>>
  BY Zenon DEF WriteToServer, WriteToClient
<1>2. /\ Elements(serverWriteChan') \subseteq Elements(serverWriteChan)
      /\ Elements(clientWriteChan') \subseteq Elements(clientWriteChan)
  BY ZenonT(60), Channels, Removed DEF WriteToServer, WriteToClient
<1>3. ASSUME NEW signed, ProxyInv(signed)
      PROVE  ProxyInv(signed)'
  BY ZenonT(60), <1>1, <1>2, <1>3 DEF ProxyInv
<1>4. (ClientInv => ClientInv') /\ (ServerInv => ServerInv')
  BY ZenonT(60), <1>1, <1>2 DEF ClientInv, ServerInv
<1>. QED  BY Zenon, <1>3, <1>4

\* Nothing else is read.
LEMMA RemainsInv ==
  ASSUME UNCHANGED <<handler, main, peers, allocated, serverWriteChan, clientWriteChan, expireChan>>
  PROVE  /\ \A signed : ProxyInv(signed) => ProxyInv(signed)'
         /\ ClientInv => ClientInv'
         /\ ServerInv => ServerInv'
<1>1. ASSUME NEW signed, ProxyInv(signed)
      PROVE  ProxyInv(signed)'
  BY ZenonT(60), <1>1 DEF ProxyInv
<1>2. (ClientInv => ClientInv') /\ (ServerInv => ServerInv')
  BY ZenonT(60) DEF ClientInv, ServerInv
<1>. QED  BY Zenon, <1>1, <1>2

\* A restart loses what was under way.
LEMMA RestartInv ==
  ASSUME Restart
  PROVE  ProxyInv(FALSE)' /\ ClientInv' /\ ServerInv'
<1>1. /\ handler' = [g \in Goroutines |-> Idle] /\ main' = Select /\ expireChan' = Nil
      /\ clientWriteChan' = <<>> /\ serverWriteChan' = <<>>
  BY Zenon DEF Restart
<1>2. /\ \A g \in Goroutines : handler'[g] = Idle
      /\ Elements(serverWriteChan') = {} /\ Elements(clientWriteChan') = {}
  BY Zenon, <1>1, NoElements
<1>. QED  BY ZenonT(60), <1>1, <1>2, IdleInv DEF ProxyInv, ClientInv, ServerInv

\* At the start there is neither a packet nor a peer.
LEMMA StartInv ==
  ASSUME Init
  PROVE  (\A signed : ProxyInv(signed)) /\ ClientInv /\ ServerInv
<1>1. /\ handler = [g \in Goroutines |-> Idle] /\ main = Select /\ expireChan = Nil
      /\ clientWriteChan = <<>> /\ serverWriteChan = <<>> /\ allocated = 0
  BY Zenon DEF Init
<1>2. /\ \A g \in Goroutines : handler[g] = Idle
      /\ Elements(serverWriteChan) = {} /\ Elements(clientWriteChan) = {}
  BY Zenon, <1>1, NoElements
<1>3. AllKeyed(peers, allocated)
  BY <1>1 DEF AllKeyed
<1>. QED  BY ZenonT(60), <1>1, <1>2, <1>3, IdleInv DEF ProxyInv, ClientInv, ServerInv

-----------------------------------------------------------------------------
(***************************************************************************)
(* The replies of mwgp-server.                                             *)
(***************************************************************************)
\* Before mwgp-server first restarts, what its table keeps is marked, ...
TableGood ==
  /\ \A g \in Goroutines : InitiationGood(handler[g], clientMap, peers, allocated)
  /\ \A g \in Goroutines : ReplyGood(handler[g], clientMap, peers, allocated)
  /\ ReplyGood(main, clientMap, peers, allocated)
  /\ \A pkt \in Elements(serverWriteChan) :
       pkt.type = "initiation" => Good(pkt.sender, clientMap, peers, allocated)
  /\ \A pkt \in Elements(clientWriteChan) : Obfuscate \in pkt.flags
  /\ \A i \in Index : serverMap[i] # 0 => IsMarked(serverMap[i], peers, allocated)
  /\ \A cp \in disk : cp.obfuscateEnabled

-----------------------------------------------------------------------------
(***************************************************************************)
(* mwgp-server preserves TableGood until it restarts, and what its table   *)
(* has marked stays marked.                                                *)
(***************************************************************************)
GoodKept ==
  /\ HeapKept(peers, allocated, peers', allocated')
  /\ MapKept(clientMap, clientMap')

\* A step that leaves the table alone.
LEMMA GoodIdle ==
  ASSUME Sound, UNCHANGED <<peers, allocated, clientMap>>
  PROVE  HeapKept(peers, allocated, peers', allocated') /\ GoodKept
<1>1. allocated \in Nat /\ allocated <= allocated
  BY Heap
<1>2. HeapKept(peers, allocated, peers', allocated')
  BY Zenon, <1>1 DEF HeapKept, Kept
<1>. QED  BY Zenon, <1>2 DEF GoodKept, MapKept

\* What is in a channel keeps leading to marked peers.
LEMMA ChannelGood ==
  ASSUME Sound, TableGood, GoodKept
  PROVE  /\ \A pkt \in Elements(serverWriteChan) :
              pkt.type = "initiation" => Good(pkt.sender, clientMap', peers', allocated')
         /\ \A i \in Index : serverMap[i] # 0 => IsMarked(serverMap[i], peers', allocated')
<1>1. \A pkt \in Elements(serverWriteChan) : pkt.sender \in Index
  <2>1. Elements(serverWriteChan) \subseteq Packet
    BY Zenon, Channels, ElementsType
  <2>. QED  BY Zenon, <2>1 DEF Packet
<1>. QED  BY ZenonT(60), <1>1, MarkedStays, GoodStays DEF TableGood, GoodKept

\* The goroutine that inserts into clientMap holds the lock.
LEMMA OneRegisters ==
  ASSUME Sound, Paired, ProxyInv(FALSE), ServerInv, TableGood, NEW g \in Goroutines, HandlerStep(g)
  PROVE  /\ GoodKept
         /\ \A q \in Goroutines : q # g => clientMap' = clientMap \/ handler[q].pc # "generate"
<1>1. /\ HeapKept(peers, allocated, peers', allocated')
      /\ Moves(handler[g], handler'[g], peers, clientMap, peers', clientMap', allocated')
  BY ZenonT(60), StepKeeps, StepMoves
<1>2. /\ HandlerInv(handler[g], allocated, FALSE) /\ InitiationInv(handler[g])
      /\ InitiationGood(handler[g], clientMap, peers, allocated)
  BY Zenon DEF ProxyInv, ServerInv, TableGood
<1>3. MapKept(clientMap, clientMap')
  BY ZenonT(60), <1>1, <1>2, Heap, MapMoves
<1>4. clientMap' = clientMap \/ handler[g].pc = "generate"
  BY Zenon, <1>1 DEF Moves, Registers
<1>5. \A q \in Goroutines : handler[q].pc = "generate" <=> mapLock = q
  BY Zenon DEF Sound, TypeOK
<1>. QED  BY ZenonT(60), <1>1, <1>3, <1>4, <1>5 DEF GoodKept

\* A step of a handler: what it sends, registers or answers leads to a marked
\* peer.
LEMMA HandlerStepGood ==
  ASSUME Sound, Paired, ProxyInv(FALSE), ServerInv, TableGood, NEW g \in Goroutines, HandlerStep(g)
  PROVE  TableGood'
<1>1. /\ \A q \in Goroutines : q # g => handler'[q] = handler[q]
      /\ main' = main /\ disk' = disk
      /\ ~SendHandshake(g) => UNCHANGED <<clientWriteChan, serverWriteChan>>
  BY Zenon, StepFrame
<1>2. /\ HeapKept(peers, allocated, peers', allocated') /\ MapKept(clientMap, clientMap')
      /\ Moves(handler[g], handler'[g], peers, clientMap, peers', clientMap', allocated')
  BY Zenon, StepMoves, OneRegisters DEF GoodKept
<1>3. /\ \A q \in Goroutines : handler[q].pkt \in Packet
      /\ clientMap \in [Index -> 0..MaxPeers] /\ main.pkt \in Packet
  BY Zenon, Heap, Channels
<1>4. /\ \A q \in Goroutines : HandlerInv(handler[q], allocated, FALSE) /\ InitiationInv(handler[q])
      /\ \A q \in Goroutines : InitiationGood(handler[q], clientMap, peers, allocated)
      /\ \A q \in Goroutines : ReplyGood(handler[q], clientMap, peers, allocated)
      /\ ReplyGood(main, clientMap, peers, allocated)
  BY Zenon DEF ProxyInv, ServerInv, TableGood
<1>5. \A q \in Goroutines : InitiationGood(handler'[q], clientMap', peers', allocated')
  <2>1. InitiationGood(handler'[g], clientMap', peers', allocated')
    <3>1. Filed(clientMap, peers)
      BY Zenon DEF Filed, Sound, TableInv, TableKeyed, Index, NoPeer
    <3>2. handler[g].pc = "lockClientMap" =>
            peers[handler[g].peer].clientOriginIndex = handler[g].pkt.sender
      BY Zenon DEF Sound, TableInv, OwnersSound, Owns
    <3>3. /\ handler[g].pkt \in Packet /\ HandlerInv(handler[g], allocated, FALSE)
          /\ InitiationInv(handler[g]) /\ InitiationGood(handler[g], clientMap, peers, allocated)
      BY Zenon, <1>3, <1>4
    <3>4. /\ clientMap \in [Index -> 0..MaxPeers]
          /\ HeapKept(peers, allocated, peers', allocated')
          /\ Moves(handler[g], handler'[g], peers, clientMap, peers', clientMap', allocated')
      BY Zenon, <1>2, <1>3
    <3>. QED  BY ZenonT(60), <3>1, <3>2, <3>3, <3>4, InitiationGoodMoves
  <2>2. \A q \in Goroutines : handler[q].pc \in HasPeer => handler[q].peer # 0
    BY Zenon, <1>4, HasOne
  <2>3. \A q \in Goroutines : q # g => InitiationGood(handler[q], clientMap', peers', allocated')
    BY Zenon, <1>2, <1>3, <1>4, <2>2, OneRegisters, InitiationGoodStays
  <2>. QED  BY ZenonT(60), <1>1, <2>1, <2>3
<1>6. /\ \A q \in Goroutines : ReplyGood(handler'[q], clientMap', peers', allocated')
      /\ ReplyGood(main', clientMap', peers', allocated')
  <2>1. ReplyGood(handler'[g], clientMap', peers', allocated')
    BY Zenon, <1>2, <1>3, <1>4, ReplyMoves
  <2>2. \A q \in Goroutines : q # g => ReplyGood(handler[q], clientMap', peers', allocated')
    BY Zenon, <1>2, <1>3, <1>4, ReplyStays
  <2>3. ReplyGood(main, clientMap', peers', allocated')
    BY Zenon, <1>2, <1>3, <1>4, ReplyStays
  <2>. QED  BY Zenon, <1>1, <2>1, <2>2, <2>3
<1>7. /\ \A pkt \in Elements(serverWriteChan) :
           pkt.type = "initiation" => Good(pkt.sender, clientMap', peers', allocated')
      /\ \A i \in Index : serverMap[i] # 0 => IsMarked(serverMap[i], peers', allocated')
      /\ \A pkt \in Elements(clientWriteChan) : Obfuscate \in pkt.flags
      /\ \A cp \in disk : cp.obfuscateEnabled
  BY ZenonT(60), OneRegisters, ChannelGood DEF TableGood
<1>8. /\ \A pkt \in Elements(serverWriteChan') :
           pkt.type = "initiation" => Good(pkt.sender, clientMap', peers', allocated')
      /\ \A pkt \in Elements(clientWriteChan') : Obfuscate \in pkt.flags
  <2>1. CASE SendHandshake(g)
    <3>. DEFINE pkt == handler[g].pkt
    <3>1. handler[g].pc = "send" /\ Send(pkt) /\ pkt \in Packet
      BY Zenon, <2>1, Heap DEF SendHandshake
    <3>2. /\ pkt.from = "client" /\ pkt.type = "initiation" => Good(pkt.sender, clientMap, peers, allocated)
          /\ pkt.from = "server" => Obfuscate \in pkt.flags
      BY Zenon, <1>4, <3>1 DEF InitiationGood, ReplyGood
    <3>3. pkt.from = "client" /\ pkt.type = "initiation" => Good(pkt.sender, clientMap', peers', allocated')
      <4>1. pkt.sender \in Index
        BY Zenon, <3>1 DEF Packet
      <4>. QED  BY ZenonT(60), <1>2, <3>2, <4>1, GoodStays
    <3>. HIDE DEF pkt
    <3>4. \/ /\ pkt.from = "client" /\ UNCHANGED clientWriteChan
             /\ Elements(serverWriteChan') \subseteq Elements(serverWriteChan) \cup {pkt}
          \/ /\ pkt.from = "server" /\ UNCHANGED serverWriteChan
             /\ Elements(clientWriteChan') \subseteq Elements(clientWriteChan) \cup {pkt}
      BY ZenonT(60), <3>1, SendPuts
    <3>. QED  BY Zenon, <1>7, <3>2, <3>3, <3>4
  <2>2. CASE ~SendHandshake(g)
    BY Zenon, <1>1, <1>7, <2>2
  <2>. QED  BY Zenon, <2>1, <2>2
<1>9. \A i \in Index : serverMap'[i] # 0 => IsMarked(serverMap'[i], peers', allocated')
  <2>1. CASE RegisterServer(g)
    <3>1. /\ handler[g].pc = "generate" /\ handler[g].pkt.type = "response"
          /\ serverMap' = [serverMap EXCEPT ![handler[g].proxy] = handler[g].peer]
      BY Zenon, <2>1 DEF RegisterServer
    <3>2. handler[g].pkt.from = "server"
      <4>1. HandlerInv(handler[g], allocated, FALSE)
        BY Zenon, <1>4
      <4>. QED  BY Zenon, <3>1, <4>1 DEF HandlerInv, HasPeer, Directed
    <3>3. IsMarked(handler[g].peer, peers, allocated)
      BY Zenon, <1>4, <3>1, <3>2 DEF ReplyGood, HasPeer
    <3>4. IsMarked(handler[g].peer, peers', allocated')
      BY ZenonT(60), <1>2, <3>3, MarkedStays
    <3>5. serverMap \in [Index -> 0..MaxPeers]
      BY Zenon, Heap
    <3>6. \A i \in Index : serverMap'[i] \in {serverMap[i], handler[g].peer}
      BY Zenon, <3>1, <3>5
    <3>. QED  BY Zenon, <1>7, <3>4, <3>6
  <2>2. CASE serverMap' = serverMap
    BY Zenon, <1>7, <2>2
  <2>. QED
    BY ZenonT(60), <2>1, <2>2
    DEF HandlerStep, RejectHandshake, ExtractPeer, LockClientMap, DrawProxyIndex,
        RegisterClient, MarkObfuscated, MissClientMap, LockServerMap, ProcessCookieReply,
        PatchHandshake, RewriteResponse, AddressHandshake, SendHandshake, tableVars
<1>. QED  BY ZenonT(60), <1>1, <1>5, <1>6, <1>7, <1>8, <1>9 DEF TableGood

\* A transport packet of the server finds a marked peer, too.
LEMMA MainReply ==
  ASSUME NEW m, NEW m2, NEW ps, NEW map, NEW n, NEW ps2, NEW n2, m.pkt \in Packet,
         ReplyGood(m, map, ps, n), HeapKept(ps, n, ps2, n2), MainMoves(m, m2, ps, map),
         m.pc = "patch" => ps[m.peer].serverOriginIndex \in Index /\ ps[m.peer].clientOriginIndex \in Index
  PROVE  ReplyGood(m2, map, ps2, n2)
<1>. USE DEF ReplyGood, HasPeer
<1>1. \A p : IsMarked(p, ps, n) => IsMarked(p, ps2, n2)
  BY ZenonT(60), MarkedStays
<1>2. CASE m2.pc \in {"select", "expire", "update"} /\ m2.pkt = Select.pkt
  BY ZenonT(60), <1>2, IdlePacket
<1>3. CASE /\ m.pc = "lookup" /\ m2.pc = "process" /\ m2.pkt = m.pkt
           /\ m.pkt.from = "server" => m2.peer = map[m.pkt.receiver]
  BY ZenonT(60), <1>1, <1>3 DEF Good
<1>4. CASE m.pc = "process" /\ m2.pc = "patch" /\ Same(m, m2)
  BY ZenonT(60), <1>1, <1>4 DEF Same
<1>5. CASE /\ m.pc = "patch" /\ m2.pc = "send"
           /\ m2.pkt = Address(PatchReceiver(m.pkt, ps[m.peer]), ps[m.peer])
  <2>. DEFINE q == PatchReceiver(m.pkt, ps[m.peer])
  <2>1. q \in Packet /\ q.from = m.pkt.from
    BY ZenonT(60), <1>5, ReceiverKeeps
  <2>2. m.pkt.from = "server" => ps[m.peer].obfuscateEnabled
    BY Zenon, <1>5 DEF IsMarked
  <2>. HIDE DEF q
  <2>3. /\ Address(q, ps[m.peer]).from = q.from
        /\ q.from = "server" /\ ps[m.peer].obfuscateEnabled =>
             Obfuscate \in Address(q, ps[m.peer]).flags
    BY Zenon, <2>1, AddressKeeps
  <2>. QED  BY ZenonT(60), <1>5, <2>1, <2>2, <2>3 DEF q
<1>. QED  BY ZenonT(60), <1>2, <1>3, <1>4, <1>5 DEF MainMoves

\* A step of mainLoop: Address sets the flag of what a marked peer is sent.
LEMMA MainStepGood ==
  ASSUME Sound, Paired, ProxyInv(FALSE), ServerInv, TableGood, MainStep
  PROVE  TableGood' /\ GoodKept
<1>1. /\ UNCHANGED <<handler, disk, clientMap, serverMap>>
      /\ ~SendTransport => UNCHANGED <<clientWriteChan, serverWriteChan>>
      /\ HeapKept(peers, allocated, peers', allocated')
  BY Zenon, MainFrame DEF ServerInv
<1>2. GoodKept
  BY Zenon, <1>1 DEF GoodKept, MapKept
<1>3. /\ \A q \in Goroutines : handler[q].pkt \in Packet
      /\ main.pkt \in Packet /\ MapKept(clientMap, clientMap)
  BY Zenon, Heap, Channels DEF MapKept
<1>4. /\ \A q \in Goroutines : InitiationGood(handler[q], clientMap, peers, allocated)
      /\ \A q \in Goroutines : ReplyGood(handler[q], clientMap, peers, allocated)
      /\ ReplyGood(main, clientMap, peers, allocated)
      /\ \A q \in Goroutines : handler[q].pc \in HasPeer => handler[q].peer # 0
      /\ main.pkt.type \in {"transport", "other"}
  BY Zenon, HasOne DEF TableGood, ProxyInv
<1>5. /\ \A q \in Goroutines : InitiationGood(handler[q], clientMap, peers', allocated')
      /\ \A q \in Goroutines : ReplyGood(handler[q], clientMap, peers', allocated')
  BY Zenon, <1>1, <1>3, <1>4, InitiationGoodStays, ReplyStays
<1>6. ReplyGood(main', clientMap, peers', allocated')
  <2>1. main.pc = "patch" => /\ peers[main.peer].serverOriginIndex \in Index
                              /\ peers[main.peer].clientOriginIndex \in Index
    BY ZenonT(60), Channels, Heap DEF Peer, Index
  <2>. QED  BY ZenonT(60), <1>1, <1>3, <1>4, <2>1, MainStepMoves, MainReply
<1>7. /\ \A pkt \in Elements(serverWriteChan) :
           pkt.type = "initiation" => Good(pkt.sender, clientMap', peers', allocated')
      /\ \A i \in Index : serverMap[i] # 0 => IsMarked(serverMap[i], peers', allocated')
      /\ \A pkt \in Elements(clientWriteChan) : Obfuscate \in pkt.flags
      /\ \A cp \in disk : cp.obfuscateEnabled
  BY ZenonT(60), <1>2, ChannelGood DEF TableGood
<1>8. /\ \A pkt \in Elements(serverWriteChan') :
           pkt.type = "initiation" => Good(pkt.sender, clientMap', peers', allocated')
      /\ \A pkt \in Elements(clientWriteChan') : Obfuscate \in pkt.flags
  <2>1. CASE SendTransport
    <3>. DEFINE pkt == main.pkt
    <3>1. /\ Send(pkt) /\ pkt \in Packet /\ pkt.type # "initiation"
          /\ pkt.from = "server" => Obfuscate \in pkt.flags
      BY Zenon, <1>4, <2>1, Channels DEF SendTransport, ReplyGood
    <3>. HIDE DEF pkt
    <3>. QED  BY ZenonT(60), <1>7, <3>1, SendPuts
  <2>2. CASE ~SendTransport
    BY Zenon, <1>1, <1>7, <2>2
  <2>. QED  BY Zenon, <2>1, <2>2
<1>. QED  BY ZenonT(60), <1>1, <1>2, <1>5, <1>6, <1>7, <1>8 DEF TableGood

\* The server sends to an index it knows.
LEMMA ReceivesGood ==
  ASSUME Sound, TableGood, NEW g, NEW pkt, Arrives(g, pkt),
         pkt.from = "server" => Good(pkt.receiver, clientMap, peers, allocated)
  PROVE  TableGood'
<1>1. UNCHANGED <<peers, allocated, clientMap, serverMap, clientWriteChan, serverWriteChan, disk>>
  BY Zenon, Receives
<1>2. CASE handler' = handler /\ main'.pc = "lookup" /\ main'.pkt = pkt
  <2>1. ReplyGood(main', clientMap, peers, allocated)
    BY Zenon, <1>2 DEF ReplyGood, HasPeer
  <2>. QED  BY ZenonT(60), <1>1, <1>2, <2>1 DEF TableGood
<1>3. CASE /\ main' = main
           /\ \A q \in Goroutines : q # g => handler'[q] = handler[q]
           /\ handler'[g].pc = "start" /\ handler'[g].pkt = pkt
  <2>1. /\ ReplyGood(handler'[g], clientMap, peers, allocated)
        /\ InitiationGood(handler'[g], clientMap, peers, allocated)
    BY Zenon, <1>3 DEF ReplyGood, InitiationGood, HasPeer
  <2>2. \A q \in Goroutines : /\ ReplyGood(handler'[q], clientMap, peers, allocated)
                              /\ InitiationGood(handler'[q], clientMap, peers, allocated)
    BY Zenon, <1>3, <2>1 DEF TableGood
  <2>. QED  BY ZenonT(60), <1>1, <1>3, <2>2 DEF TableGood
<1>. QED  BY ZenonT(60), <1>2, <1>3, Receives

\* writeLoop takes a packet out.
LEMMA WritesGood ==
  ASSUME Sound, TableGood, WriteToServer \/ WriteToClient
  PROVE  TableGood'
<1>. USE DEF tableVars, timeVars, resolveVars, diskVars
<1>1. UNCHANGED <<handler, main, peers, allocated, clientMap, serverMap, disk>>
  BY Zenon DEF WriteToServer, WriteToClient
<1>2. /\ Elements(serverWriteChan') \subseteq Elements(serverWriteChan)
      /\ Elements(clientWriteChan') \subseteq Elements(clientWriteChan)
  BY ZenonT(60), Channels, Removed DEF WriteToServer, WriteToClient
<1>. QED  BY Zenon, <1>1, <1>2 DEF TableGood

\* SaveLocked writes marked peers.
LEMMA PersistGood ==
  ASSUME Sound, TableGood, PersistForwardTableCache
  PROVE  TableGood'
<1>. USE DEF tableVars, chanVars, timeVars, resolveVars
<1>1. /\ UNCHANGED <<handler, main, peers, allocated, clientMap, serverMap,
                     clientWriteChan, serverWriteChan>>
      /\ disk' = Snapshot
  BY Zenon DEF PersistForwardTableCache
<1>2. \A cp \in Snapshot : cp.obfuscateEnabled
  <2>1. \A p \in Values(serverMap) : peers[p].obfuscateEnabled
    BY Zenon DEF TableGood, IsMarked, Values, NoPeer, Index
  <2>2. \A peer : CachePeer(peer).obfuscateEnabled = peer.obfuscateEnabled
    BY Zenon DEF CachePeer
  <2>. QED  BY ZenonT(60), <2>1, <2>2 DEF Snapshot
<1>. QED  BY Zenon, <1>1, <1>2 DEF TableGood

\* TableGood reads nothing else.
LEMMA GoodRemains ==
  ASSUME TableGood,
         UNCHANGED <<handler, main, peers, allocated, clientMap, serverMap,
                     clientWriteChan, serverWriteChan, disk>>
  PROVE  TableGood'
BY ZenonT(60) DEF TableGood

-----------------------------------------------------------------------------
(***************************************************************************)
(* mwgp-server preserves Marked.                                           *)
(***************************************************************************)
\* Up to the first restart and from then on, a peer in clientMap is marked, or
\* the goroutine that inserted it is about to.
Marked ==
  restarts <= 1 =>
    \A p \in Values(clientMap) :
      \/ peers[p].obfuscateEnabled
      \/ \E g \in Goroutines : handler[g].pc = "mark" /\ handler[g].peer = p

IndexMarked(i, map, ps, hs) ==
  map[i] # 0 => \/ ps[map[i]].obfuscateEnabled
                \/ \E g \in Goroutines : hs[g].pc = "mark" /\ hs[g].peer = map[i]

\* Marked, index by index.
LEMMA MarkedByIndex ==
  /\ Marked <=> (restarts <= 1 => \A i \in Index : IndexMarked(i, clientMap, peers, handler))
  /\ Marked' <=> (restarts' <= 1 => \A i \in Index : IndexMarked(i, clientMap', peers', handler'))
<1>1. /\ Values(clientMap) = {clientMap[i] : i \in Index} \ {0}
      /\ Values(clientMap') = {clientMap'[i] : i \in Index} \ {0}
  BY Zenon DEF Values, NoPeer, Index
<1>. QED  BY <1>1 DEF Marked, IndexMarked

\* RegisterClient leaves a new entry to MarkObfuscated, which marks it.
LEMMA HandlerStepMarked ==
  ASSUME Sound, Paired, ProxyInv(FALSE), ServerInv, Marked, NEW g \in Goroutines, HandlerStep(g)
  PROVE  Marked'
<1>1. /\ \A q \in Goroutines : q # g => handler'[q] = handler[q]
      /\ restarts' = restarts
      /\ HeapKept(peers, allocated, peers', allocated')
      /\ Moves(handler[g], handler'[g], peers, clientMap, peers', clientMap', allocated')
  BY ZenonT(60), StepFrame, StepKeeps, StepMoves
<1>2. HandlerInv(handler[g], allocated, FALSE) /\ InitiationInv(handler[g])
  BY Zenon DEF ProxyInv, ServerInv
<1>3. \A i \in Index : clientMap[i] # 0 => clientMap[i] \in 1..allocated
  BY Heap
<1>4. ASSUME restarts' <= 1, NEW i \in Index, clientMap'[i] = clientMap[i]
      PROVE  IndexMarked(i, clientMap', peers', handler')
  <2>1. IndexMarked(i, clientMap, peers, handler)
    BY Zenon, <1>1, <1>4, MarkedByIndex
  <2>2. clientMap[i] # 0 /\ peers[clientMap[i]].obfuscateEnabled => peers'[clientMap[i]].obfuscateEnabled
    BY Zenon, <1>1, <1>3 DEF HeapKept, Kept
  <2>3. handler[g].pc = "mark" => peers'[handler[g].peer].obfuscateEnabled
    BY Zenon, <1>1 DEF Moves, Ends, Extracts, Locks, Draws, Registers, Marks, Finds, Responds, Patches,
                Rewrites, Addresses
  <2>. QED  BY ZenonT(60), <1>1, <1>4, <2>1, <2>2, <2>3 DEF IndexMarked
<1>5. CASE clientMap' = clientMap
  BY Zenon, <1>4, <1>5, MarkedByIndex
<1>6. CASE Registers(handler[g], handler'[g], clientMap, peers', clientMap')
  <2>1. handler'[g].pc = "mark" /\ handler'[g].peer = handler[g].peer
    <3>1. Deobfuscated \in handler[g].pkt.flags
      BY Zenon, <1>2, <1>6 DEF Registers, HandlerInv, InitiationInv, HasPeer, Directed
    <3>. QED  BY Zenon, <1>6, <3>1 DEF Registers, Same, Deobfuscated
  <2>2. \A i \in Index : clientMap'[i] \in {clientMap[i], handler[g].peer}
    <3>1. clientMap \in [Index -> 0..MaxPeers]
      BY Zenon, Heap
    <3>. QED  BY Zenon, <1>6, <3>1 DEF Registers
  <2>3. ASSUME NEW i \in Index, clientMap'[i] = handler[g].peer
        PROVE  IndexMarked(i, clientMap', peers', handler')
    BY Zenon, <2>1, <2>3 DEF IndexMarked
  <2>4. restarts' <= 1 => \A i \in Index : IndexMarked(i, clientMap', peers', handler')
    BY Zenon, <1>4, <2>2, <2>3
  <2>. QED  BY ZenonT(60), <2>4, MarkedByIndex
<1>. QED  BY ZenonT(60), <1>1, <1>5, <1>6 DEF Moves

\* Whatever else happens up to a restart takes no mark back.
LEMMA MarkedRemains ==
  ASSUME Sound, Marked, restarts' = restarts, clientMap' = clientMap,
         HeapKept(peers, allocated, peers', allocated'),
         \A g \in Goroutines : handler[g].pc = "mark" => handler'[g] = handler[g]
  PROVE  Marked'
<1>1. \A i \in Index : clientMap[i] # 0 => clientMap[i] \in 1..allocated
  BY Heap
<1>2. \A i \in Index : clientMap[i] # 0 /\ peers[clientMap[i]].obfuscateEnabled =>
                           peers'[clientMap[i]].obfuscateEnabled
  BY Zenon, <1>1 DEF HeapKept, Kept
<1>3. ASSUME NEW i \in Index, IndexMarked(i, clientMap, peers, handler)
      PROVE  IndexMarked(i, clientMap', peers', handler')
  BY ZenonT(60), <1>2, <1>3 DEF IndexMarked
<1>. QED  BY ZenonT(60), <1>3, MarkedByIndex

\* The first restart loads marked peers.
LEMMA RestartMarked ==
  ASSUME Sound, restarts = 0 => TableGood, Restart
  PROVE  Marked'
<1>1. restarts \in Nat /\ restarts' = restarts + 1
  BY Zenon, Channels DEF Restart
<1>2. PICK n \in 0..MaxPeers : \E file \in [1..n -> disk] :
        /\ peers' = [p \in PeerIds |-> IF p <= n THEN LoadedPeer(file[p]) ELSE ZeroPeer]
        /\ clientMap' = [i \in Index |-> LastRecord(file, "clientProxyIndex", i)]
  BY ZenonT(60) DEF Restart
<1>3. PICK file \in [1..n -> disk] :
        /\ peers' = [p \in PeerIds |-> IF p <= n THEN LoadedPeer(file[p]) ELSE ZeroPeer]
        /\ clientMap' = [i \in Index |-> LastRecord(file, "clientProxyIndex", i)]
  BY Zenon, <1>2
<1>4. ASSUME restarts' <= 1, NEW i \in Index
      PROVE  IndexMarked(i, clientMap', peers', handler')
  <2>1. \A cp \in disk : cp.obfuscateEnabled
    <3>1. restarts = 0
      BY <1>1, <1>4
    <3>. QED  BY Zenon, <3>1 DEF TableGood
  <2>2. clientMap'[i] = LastRecord(file, "clientProxyIndex", i)
    BY Zenon, <1>3 DEF Index
  <2>3. LastRecord(file, "clientProxyIndex", i) \in (1..n) \cup {0}
    <3>1. DOMAIN file = 1..n
      BY Zenon, <1>3
    <3>. QED  BY Zenon, <3>1 DEF LastRecord, NoPeer
  <2>4. \A p \in 1..n : peers'[p].obfuscateEnabled
    <3>1. \A p \in 1..n : p \in PeerIds /\ p <= n
      BY <1>2, ConstantsAssumption DEF PeerIds
    <3>2. \A p \in 1..n : peers'[p] = LoadedPeer(file[p]) /\ file[p] \in disk
      BY Zenon, <1>3, <3>1
    <3>3. \A cp \in disk : LoadedPeer(cp).obfuscateEnabled = cp.obfuscateEnabled
      BY Zenon DEF LoadedPeer
    <3>. QED  BY ZenonT(60), <2>1, <3>2, <3>3
  <2>5. clientMap'[i] # 0 => clientMap'[i] \in 1..n
    BY ZenonT(60), <2>2, <2>3
  <2>. QED  BY Zenon, <2>4, <2>5 DEF IndexMarked
<1>. QED  BY Zenon, <1>4, MarkedByIndex

-----------------------------------------------------------------------------
(***************************************************************************)
(* All steps of a proxy in a tunnel but a restart, when it may read the    *)
(* packets pkts.                                                           *)
(***************************************************************************)
Step(pkts) ==
  \/ \E g \in Goroutines : HandlerStep(g)
  \/ MainStep \/ (\E a \in ServerAddrs : Resolve(a)) \/ PersistForwardTableCache
  \/ WriteToServer \/ WriteToClient
  \/ \E pkt \in pkts : \E g : Arrives(g, pkt)
  \/ UNCHANGED vars

\* Resolving, persisting and steps of others leave the packets alone.
LEMMA StepIdle ==
  ASSUME (\E a \in ServerAddrs : Resolve(a)) \/ PersistForwardTableCache \/ UNCHANGED vars
  PROVE  /\ UNCHANGED <<peers, allocated, clientMap, serverMap, handler, main, serverWriteChan,
                        clientWriteChan, expireChan, restarts>>
         /\ ~PersistForwardTableCache => disk' = disk
BY Zenon
DEF Resolve, PersistForwardTableCache, vars, tableVars, chanVars, timeVars, resolveVars, diskVars

\* Every step keeps the invariant of a proxy.
LEMMA StepInv ==
  ASSUME Sound, Paired, NEW signed, ProxyInv(signed), NEW pkts, Step(pkts),
         signed => \A pkt \in pkts : PktSigned(pkt)
  PROVE  ProxyInv(signed)'
<1>1. CASE \E g \in Goroutines : HandlerStep(g)
  BY Zenon, <1>1, HandlerStepInv
<1>2. CASE MainStep
  BY Zenon, <1>2, MainStepInv
<1>3. CASE \E pkt \in pkts : \E g : Arrives(g, pkt)
  BY Zenon, <1>3, ReceivesInv
<1>4. CASE WriteToServer \/ WriteToClient
  BY Zenon, <1>4, WritesInv
<1>5. CASE (\E a \in ServerAddrs : Resolve(a)) \/ PersistForwardTableCache \/ UNCHANGED vars
  BY Zenon, <1>5, StepIdle, RemainsInv
<1>. QED  BY ZenonT(60), <1>1, <1>2, <1>3, <1>4, <1>5 DEF Step

\* Every step of mwgp-client keeps its part.
LEMMA ClientStep ==
  ASSUME Sound, Paired, ProxyInv(FALSE), ClientInv, NEW pkts, Step(pkts)
  PROVE  ClientInv'
<1>1. CASE \E g \in Goroutines : HandlerStep(g)
  BY Zenon, <1>1, HandlerStepClient
<1>2. CASE MainStep
  BY Zenon, <1>2, MainStepInv
<1>3. CASE \E pkt \in pkts : \E g : Arrives(g, pkt)
  BY Zenon, <1>3, ReceivesInv
<1>4. CASE WriteToServer \/ WriteToClient
  BY Zenon, <1>4, WritesInv
<1>5. CASE (\E a \in ServerAddrs : Resolve(a)) \/ PersistForwardTableCache \/ UNCHANGED vars
  BY Zenon, <1>5, StepIdle, RemainsInv
<1>. QED  BY Zenon, <1>1, <1>2, <1>3, <1>4, <1>5 DEF Step

\* Every step of mwgp-server keeps its part, if what it reads of its clients
\* was obfuscated.
LEMMA ServerStep ==
  ASSUME Sound, Paired, ServerInv, NEW pkts, Step(pkts),
         \A pkt \in pkts : pkt.type = "initiation" /\ pkt.from = "client" =>
                             Deobfuscated \in pkt.flags /\ pkt.sender # 0
  PROVE  ServerInv'
<1>1. CASE \E g \in Goroutines : HandlerStep(g)
  BY Zenon, <1>1, HandlerStepServer
<1>2. CASE MainStep
  BY Zenon, <1>2, MainStepInv
<1>3. CASE \E pkt \in pkts : \E g : Arrives(g, pkt)
  BY Zenon, <1>3, ReceivesInv
<1>4. CASE WriteToServer \/ WriteToClient
  BY Zenon, <1>4, WritesInv
<1>5. CASE (\E a \in ServerAddrs : Resolve(a)) \/ PersistForwardTableCache \/ UNCHANGED vars
  BY Zenon, <1>5, StepIdle, RemainsInv
<1>. QED  BY Zenon, <1>1, <1>2, <1>3, <1>4, <1>5 DEF Step

\* Every step of mwgp-server keeps its table good, and what is marked marked,
\* if the server sends to indices that lead to marked peers.
LEMMA GoodStep ==
  ASSUME Sound, Paired, ProxyInv(FALSE), ServerInv, TableGood, NEW pkts, Step(pkts),
         \A pkt \in pkts : pkt.from = "server" => Good(pkt.receiver, clientMap, peers, allocated)
  PROVE  TableGood' /\ GoodKept
<1>1. CASE \E g \in Goroutines : HandlerStep(g)
  BY Zenon, <1>1, HandlerStepGood, OneRegisters
<1>2. CASE MainStep
  BY Zenon, <1>2, MainStepGood
<1>3. CASE \E pkt \in pkts : \E g : Arrives(g, pkt)
  <2>. PICK pkt \in pkts : \E g : Arrives(g, pkt)
    BY Zenon, <1>3
  <2>1. PICK g : Arrives(g, pkt)
    BY Zenon
  <2>2. UNCHANGED <<peers, allocated, clientMap>>
    BY Zenon, <2>1, Receives
  <2>. QED  BY Zenon, <2>1, <2>2, ReceivesGood, GoodIdle
<1>4. CASE WriteToServer \/ WriteToClient
  <2>1. UNCHANGED <<peers, allocated, clientMap>>
    BY Zenon, <1>4 DEF WriteToServer, WriteToClient, tableVars
  <2>. QED  BY ZenonT(60), <1>4, <2>1, WritesGood, GoodIdle
<1>5. CASE (\E a \in ServerAddrs : Resolve(a)) \/ PersistForwardTableCache \/ UNCHANGED vars
  <2>1. UNCHANGED <<peers, allocated, clientMap>>
    BY Zenon, <1>5, StepIdle
  <2>2. TableGood'
    BY Zenon, <1>5, StepIdle, GoodRemains, PersistGood
  <2>. QED  BY Zenon, <2>1, <2>2, GoodIdle
<1>. QED  BY ZenonT(60), <1>1, <1>2, <1>3, <1>4, <1>5 DEF Step

\* Every step of mwgp-server keeps Marked.
LEMMA MarkedStep ==
  ASSUME Sound, Paired, ProxyInv(FALSE), ServerInv, Marked, NEW pkts, Step(pkts)
  PROVE  Marked'
<1>1. CASE \E g \in Goroutines : HandlerStep(g)
  BY Zenon, <1>1, HandlerStepMarked
<1>2. CASE MainStep
  BY Zenon, <1>2, MainFrame, MarkedRemains DEF ServerInv
<1>3. CASE \E pkt \in pkts : \E g : Arrives(g, pkt)
  <2>. PICK pkt \in pkts : \E g : Arrives(g, pkt)
    BY Zenon, <1>3
  <2>1. PICK g : Arrives(g, pkt)
    BY Zenon
  <2>2. UNCHANGED <<peers, allocated, clientMap, restarts>>
    BY Zenon, <2>1, Receives
  <2>3. handler' = handler \/ handler[g].pc = "idle"
    BY Zenon, <2>1 DEF Arrives, ReceiveTransport, ReceiveHandshake
  <2>4. handler' = handler \/ \A q \in Goroutines : q # g => handler'[q] = handler[q]
    BY ZenonT(60), <2>1, Receives
  <2>5. \A q \in Goroutines : handler[q].pc = "mark" => handler'[q] = handler[q]
    BY Zenon, <2>3, <2>4
  <2>. QED  BY Zenon, <2>2, <2>5, GoodIdle, MarkedRemains
<1>4. CASE WriteToServer \/ WriteToClient
  <2>1. UNCHANGED <<peers, allocated, clientMap, restarts, handler>>
    <3>1. CASE WriteToServer
      BY Zenon, <3>1 DEF WriteToServer, tableVars, diskVars
    <3>2. CASE WriteToClient
      BY Zenon, <3>2 DEF WriteToClient, tableVars, diskVars
    <3>. QED  BY Zenon, <1>4, <3>1, <3>2
  <2>. QED  BY ZenonT(60), <2>1, GoodIdle, MarkedRemains
<1>5. CASE (\E a \in ServerAddrs : Resolve(a)) \/ PersistForwardTableCache \/ UNCHANGED vars
  <2>1. UNCHANGED <<peers, allocated, clientMap, restarts, handler>>
    BY Zenon, <1>5, StepIdle
  <2>. QED  BY Zenon, <2>1, GoodIdle, MarkedRemains
<1>. QED  BY ZenonT(60), <1>1, <1>2, <1>3, <1>4, <1>5 DEF Step

\* Only a restart counts as one.
LEMMA StepRestarts ==
  ASSUME Sound
  PROVE  /\ restarts \in Nat
         /\ Restart => restarts' = restarts + 1
         /\ \A pkts : Step(pkts) => restarts' = restarts
<1>1. restarts \in Nat
  BY Zenon, Channels
<1>2. Restart => restarts' = restarts + 1
  BY Zenon DEF Restart
<1>3. ASSUME NEW pkts, Step(pkts)
      PROVE  restarts' = restarts
  <2>1. CASE \E g \in Goroutines : HandlerStep(g)
    BY Zenon, <2>1, StepFrame
  <2>2. CASE MainStep
    BY Zenon, <2>2, MainFrame
  <2>3. CASE \E pkt \in pkts : \E g : Arrives(g, pkt)
    BY Zenon, <2>3, Receives
  <2>4. CASE WriteToServer \/ WriteToClient
    BY Zenon, <2>4 DEF WriteToServer, WriteToClient, diskVars
  <2>5. CASE (\E a \in ServerAddrs : Resolve(a)) \/ PersistForwardTableCache \/ UNCHANGED vars
    BY Zenon, <2>5, StepIdle
  <2>. QED  BY ZenonT(60), <1>3, <2>1, <2>2, <2>3, <2>4, <2>5 DEF Step
<1>. QED  BY Zenon, <1>1, <1>2, <1>3

\* The empty table of a proxy without a cache file.
LEMMA StartGood ==
  ASSUME Init
  PROVE  TableGood /\ Marked
<1>1. /\ handler = [g \in Goroutines |-> Idle] /\ main = Select
      /\ clientWriteChan = <<>> /\ serverWriteChan = <<>> /\ disk = {}
      /\ clientMap = [i \in Index |-> 0] /\ serverMap = [i \in Index |-> 0]
  BY Zenon DEF Init, NoPeer
<1>2. /\ \A g \in Goroutines : handler[g] = Idle
      /\ Elements(serverWriteChan) = {} /\ Elements(clientWriteChan) = {}
      /\ \A i \in Index : clientMap[i] = 0 /\ serverMap[i] = 0
  BY Zenon, <1>1, NoElements
<1>3. TableGood
  BY ZenonT(60), <1>1, <1>2, IdleInv DEF TableGood
<1>4. Marked
  BY ZenonT(60), <1>2, MarkedByIndex DEF IndexMarked
<1>. QED  BY Zenon, <1>3, <1>4

-----------------------------------------------------------------------------
(***************************************************************************)
(* Put together: what a proxy of a tunnel makes of any step of its own.    *)
(***************************************************************************)
\* Types and table, whatever packets arrive.
LEMMA StepSound ==
  ASSUME Sound, NEW pkts \in SUBSET Packet, Step(pkts) \/ Restart
  PROVE  Sound'
<1>1. CASE \E pkt \in pkts : \E g : Arrives(g, pkt)
  BY Zenon, <1>1, ReceiveCorrect DEF Sound, Arrives
<1>2. ASSUME ~ \E pkt \in pkts : \E g : Arrives(g, pkt)
      PROVE  [Next]_vars
  BY Zenon, <1>2 DEF Step, Next
<1>. QED  BY ZenonT(60), <1>1, <1>2, NextTypeOK, NextTableInv DEF Sound

\* mwgp-client keeps its invariant; a restart is the end of the signatures.
LEMMA ClientNext ==
  ASSUME Sound, Paired, ProxyInv(FALSE), ClientInv, NEW pkts \in SUBSET Packet, Step(pkts) \/ Restart
  PROVE  /\ Sound' /\ ProxyInv(FALSE)' /\ ClientInv' /\ restarts \in Nat
         /\ \/ restarts' = restarts + 1
            \/ /\ restarts' = restarts
               /\ ProxyInv(TRUE) /\ (\A pkt \in pkts : PktSigned(pkt)) => ProxyInv(TRUE)'
<1>1. Sound' /\ restarts \in Nat
  BY Zenon, StepSound, StepRestarts
<1>2. CASE Restart
  BY ZenonT(60), <1>1, <1>2, RestartInv, StepRestarts
<1>3. CASE Step(pkts)
  <2>1. ProxyInv(FALSE)' /\ ClientInv'
    BY Zenon, <1>3, StepInv, ClientStep
  <2>2. ProxyInv(TRUE) /\ (\A pkt \in pkts : PktSigned(pkt)) => ProxyInv(TRUE)'
    BY Zenon, <1>3, StepInv
  <2>. QED  BY ZenonT(60), <1>1, <1>3, <2>1, <2>2, StepRestarts
<1>. QED  BY Zenon, <1>2, <1>3

\* mwgp-server keeps its invariant; a restart is the end of the signatures and
\* of the marks, but for what Marked says of them.
LEMMA ServerNext ==
  ASSUME Sound, Paired, ProxyInv(FALSE), ServerInv, Marked, restarts = 0 => TableGood,
         NEW pkts \in SUBSET Packet, Step(pkts) \/ Restart,
         \A pkt \in pkts : pkt.type = "initiation" /\ pkt.from = "client" =>
                             Deobfuscated \in pkt.flags /\ pkt.sender # 0,
         \A pkt \in pkts : restarts = 0 /\ pkt.from = "server" =>
                             Good(pkt.receiver, clientMap, peers, allocated)
  PROVE  /\ Sound' /\ ProxyInv(FALSE)' /\ ServerInv' /\ Marked' /\ restarts \in Nat
         /\ \/ restarts' = restarts + 1
            \/ /\ restarts' = restarts
               /\ ProxyInv(TRUE) /\ (\A pkt \in pkts : PktSigned(pkt)) => ProxyInv(TRUE)'
               /\ restarts = 0 =>
                    /\ TableGood'
                    /\ \A i \in Index : Good(i, clientMap, peers, allocated) =>
                                          Good(i, clientMap', peers', allocated')
<1>1. Sound' /\ restarts \in Nat
  BY Zenon, StepSound, StepRestarts
<1>2. CASE Restart
  BY ZenonT(60), <1>1, <1>2, RestartInv, RestartMarked, StepRestarts
<1>3. CASE Step(pkts)
  <2>1. ProxyInv(FALSE)' /\ ServerInv' /\ Marked'
    BY Zenon, <1>3, StepInv, ServerStep, MarkedStep
  <2>2. ProxyInv(TRUE) /\ (\A pkt \in pkts : PktSigned(pkt)) => ProxyInv(TRUE)'
    BY Zenon, <1>3, StepInv
  <2>3. ASSUME restarts = 0
        PROVE  TableGood' /\ GoodKept
    BY Zenon, <1>3, <2>3, GoodStep
  <2>4. GoodKept => \A i \in Index : Good(i, clientMap, peers, allocated) =>
                                       Good(i, clientMap', peers', allocated')
    BY Zenon, GoodStays DEF GoodKept
  <2>. QED  BY ZenonT(60), <1>1, <1>3, <2>1, <2>2, <2>3, <2>4, StepRestarts
<1>. QED  BY Zenon, <1>2, <1>3

=============================================================================
