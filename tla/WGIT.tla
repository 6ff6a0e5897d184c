-------------------------------- MODULE WGIT --------------------------------
(***************************************************************************)
(* The WireGuard index translation table of mwgp (wgit.go): two maps from  *)
(* proxy indices to peers, the goroutines that handle handshake packets,   *)
(* the main loop that handles transport packets, the expiry tick and the   *)
(* server address update, and the goroutines that persist the table.       *)
(*                                                                         *)
(* The module is an open system: any datagram may arrive at any time, so   *)
(* loss, duplication, delay and reordering on the network are all present. *)
(* A datagram is what the table reads and writes of it: its type, its      *)
(* indices, its addresses, its flags, the key its MAC was made with, and   *)
(* an opaque payload.  A datagram that fails to parse has type "other".    *)
(***************************************************************************)
EXTENDS Integers, Sequences, FiniteSets

CONSTANTS
  MaxIndex,      \* indices are 0..MaxIndex (uint32 in the code)
  Senders,       \* the sender indices that WireGuard endpoints pick
  Clients,       \* the client public keys of the configuration
  Servers,       \* the server public keys of the configuration
  Strangers,     \* the keys of initiations that ExtractPeerFunc rejects
  Config,        \* client public key -> the ServerConfigPeer it matches
  IsClient,      \* TRUE for mwgp-client, FALSE for mwgp-server
  Self,          \* client_pubkey of mwgp-client
  ClientAddrs,   \* the addresses, [ip, port], clients send from
  ServerAddrs,   \* the addresses, [ip, port], servers send from
  Obfuscates,    \* whether mwgp-server has an obfuscation key
  Payloads,      \* the encrypted contents of a datagram
  Timeout,       \* idle time after which a peer expires, in clock units
  DebugAlwaysGenerateProxyIndex,
  Nil,           \* a nil pointer
  Traffic,       \* bound: the types of the datagrams that arrive
  Goroutines,    \* bound: handler goroutines alive at the same time
  MaxPeers,      \* bound: peers ever allocated
  MaxTime,       \* bound: clock
  MaxRestarts,   \* bound: how often the process crashes and restarts
  ChanCap        \* capacity of a write channel (64 in the code)

Index == 0..MaxIndex
PeerIds == 1..MaxPeers
NoPeer == 0                       \* a map lookup that finds nothing
Addrs == ClientAddrs \cup ServerAddrs

LevelDefault == 0
LevelNone == 1
LevelIP == 2
LevelIPAndPort == 3
Levels == LevelDefault..LevelIPAndPort

Deobfuscated == "PacketFlagDeobfuscatedAfterReceived"
Obfuscate == "PacketFlagObfuscateBeforeSend"

ConfigPeer ==
  [serverPublicKey : Servers, forwardToAddress : ServerAddrs,
   clientSourceValidateLevel : Levels, serverSourceValidateLevel : Levels]

ASSUME ConstantsAssumption ==
  /\ MaxIndex \in Nat \ {0}
  /\ Senders \subseteq Index
  /\ Config \in [Clients -> ConfigPeer]
  /\ Obfuscates \in BOOLEAN
  /\ IsClient \in BOOLEAN /\ (IsClient => Self \in Clients)
  /\ Timeout \in Nat \ {0}
  /\ DebugAlwaysGenerateProxyIndex \in BOOLEAN
  /\ Nil \notin Addrs \cup Goroutines \cup Clients \cup Servers
  /\ Clients \cap Strangers = {} /\ Nil \notin Strangers
  /\ MaxPeers \in Nat /\ MaxTime \in Nat
  /\ MaxRestarts \in Nat /\ ChanCap \in Nat \ {0}

VARIABLES
  peers,            \* the heap of Peer structs
  allocated,        \* how many of them have been allocated
  clientMap,        \* clientProxyIndex -> Peer
  serverMap,        \* serverProxyIndex -> Peer
  mapLock,          \* the goroutine that keeps mapLock across steps, or Nil
  handler,          \* the goroutines running handle{Client,Server}Packet
  main,             \* the goroutine running mainLoop
  clientWriteChan, serverWriteChan,
  now,              \* the clock
  expireChan,       \* the ticker's channel, of capacity 1
  resolved,         \* cachedServerPeer.forwardToAddress of mwgp-client
  resolver,         \* the goroutine that resolves the server address
  persisting,       \* some persistForwardTableCache goroutine has not run yet
  disk,             \* the cached peers in the cache file
  restarts          \* how often the process has restarted

tableVars == <<peers, allocated, clientMap, serverMap, mapLock>>
chanVars == <<clientWriteChan, serverWriteChan>>
timeVars == <<now, expireChan>>
resolveVars == <<resolved, resolver>>
diskVars == <<persisting, disk, restarts>>
vars == <<tableVars, handler, main, chanVars, timeVars, resolveVars, diskVars>>

-----------------------------------------------------------------------------
(***************************************************************************)
(* Data.                                                                   *)
(***************************************************************************)
Mac == [key : Clients \cup Servers \cup {Nil}, sender : Index, receiver : Index]

Packet ==
  [from : {"client", "server"},
   type : {"initiation", "response", "cookie", "transport", "other"},
   sender : Index, receiver : Index, mac : Mac,
   source : Addrs \cup {Nil}, destination : Addrs \cup {Nil},
   flags : SUBSET {Deobfuscated, Obfuscate},
   key : Clients \cup Strangers \cup {Nil}, data : Payloads \cup {Nil}]

Datagram(from, type, sender, receiver, source, data) ==
  [from |-> from, type |-> type, sender |-> sender, receiver |-> receiver,
   mac |-> [key |-> Nil, sender |-> 0, receiver |-> 0], source |-> source,
   destination |-> Nil, flags |-> {}, key |-> Nil, data |-> data]

NoPacket == Datagram("client", "other", 0, 0, Nil, Nil)

\* A Peer; a cookie generator is the public key it was initialized with.
Peer ==
  [clientOriginIndex : Index, clientProxyIndex : Index,
   serverOriginIndex : Index, serverProxyIndex : Index,
   clientPublicKey : Clients \cup {Nil}, serverPublicKey : Servers \cup {Nil},
   clientCookieGenerator : Clients \cup Servers \cup {Nil},
   serverCookieGenerator : Clients \cup Servers \cup {Nil},
   clientDestination : Addrs \cup {Nil}, serverDestination : Addrs \cup {Nil},
   lastActive : 0..MaxTime,
   clientSourceValidateLevel : Levels, serverSourceValidateLevel : Levels,
   obfuscateEnabled : BOOLEAN]

ZeroPeer ==
  [clientOriginIndex |-> 0, clientProxyIndex |-> 0,
   serverOriginIndex |-> 0, serverProxyIndex |-> 0,
   clientPublicKey |-> Nil, serverPublicKey |-> Nil,
   clientCookieGenerator |-> Nil, serverCookieGenerator |-> Nil,
   clientDestination |-> Nil, serverDestination |-> Nil,
   lastActive |-> 0,
   clientSourceValidateLevel |-> LevelDefault,
   serverSourceValidateLevel |-> LevelDefault,
   obfuscateEnabled |-> FALSE]

IsServerReplied(p) == peers[p].serverProxyIndex # 0

\* A goroutine of handleClientPacket or handleServerPacket.  "generate" is
\* inside generateProxyIndexLocked, with mapLock held.
Handler ==
  [pc : {"idle", "start", "lockClientMap", "generate", "mark", "patch", "rewrite",
         "address", "send"},
   pkt : Packet, peer : {NoPeer} \cup PeerIds, proxy : Index, taken : BOOLEAN]

Idle ==
  [pc |-> "idle", pkt |-> NoPacket, peer |-> NoPeer, proxy |-> 0, taken |-> FALSE]

MainLoop ==
  [pc : {"select", "lookup", "process", "patch", "send", "expire", "update"},
   pkt : Packet, peer : {NoPeer} \cup PeerIds, current : 0..MaxTime,
   newServerAddr : ServerAddrs \cup {Nil}]

Select ==
  [pc |-> "select", pkt |-> NoPacket, peer |-> NoPeer, current |-> 0,
   newServerAddr |-> Nil]

\* WGITCachePeer: every field of a Peer but lastActive and the generators.
CachePeer(peer) ==
  [clientOriginIndex |-> peer.clientOriginIndex,
   clientProxyIndex |-> peer.clientProxyIndex,
   clientPublicKey |-> peer.clientPublicKey,
   clientDestination |-> peer.clientDestination,
   clientSourceValidateLevel |-> peer.clientSourceValidateLevel,
   serverOriginIndex |-> peer.serverOriginIndex,
   serverProxyIndex |-> peer.serverProxyIndex,
   serverPublicKey |-> peer.serverPublicKey,
   serverDestination |-> peer.serverDestination,
   serverSourceValidateLevel |-> peer.serverSourceValidateLevel,
   obfuscateEnabled |-> peer.obfuscateEnabled]

\* The peers a map refers to.
Values(m) == {m[i] : i \in Index} \ {NoPeer}


-----------------------------------------------------------------------------
(***************************************************************************)
(* Rewriting a packet: lines 284-292 of handleClientPacket and 350-378 of  *)
(* handleServerPacket.                                                     *)
(***************************************************************************)
SetSenderIndex(pkt, i) == [pkt EXCEPT !.sender = i]
SetReceiverIndex(pkt, i) == [pkt EXCEPT !.receiver = i]

\* AddMacs signs the packet as it is at that moment.
FixMACs(pkt, cg) ==
  [pkt EXCEPT !.mac = [key |-> cg, sender |-> pkt.sender, receiver |-> pkt.receiver]]

PatchInitiation(pkt, peer) ==
  IF peer.clientOriginIndex # peer.clientProxyIndex
  THEN FixMACs(SetSenderIndex(pkt, peer.clientProxyIndex), peer.clientCookieGenerator)
  ELSE pkt

\* Whether a response must be rewritten.
Translated(peer) ==
  \/ peer.serverOriginIndex # peer.serverProxyIndex
  \/ peer.clientOriginIndex # peer.clientProxyIndex

MutantPatchResponse(pkt, peer) ==
  SetReceiverIndex(FixMACs(SetSenderIndex(pkt, peer.serverProxyIndex),
                           peer.serverCookieGenerator), peer.clientOriginIndex)

PatchResponse(pkt, peer) ==
  FixMACs(SetReceiverIndex(SetSenderIndex(pkt, peer.serverProxyIndex), peer.clientOriginIndex),
          peer.serverCookieGenerator)

MutantPatchReceiver(pkt, peer) ==
  SetReceiverIndex(pkt, IF pkt.from = "client" THEN peer.serverProxyIndex
                        ELSE peer.clientProxyIndex)

\* Cookie replies and transport packets have a receiver index and no MAC.
PatchReceiver(pkt, peer) ==
  SetReceiverIndex(pkt, IF pkt.from = "client" THEN peer.serverOriginIndex
                        ELSE peer.clientOriginIndex)

\* The first step of a handshake goroutine that rewrites its packet.
Patch(pkt, peer) ==
  CASE pkt.type = "initiation" -> PatchInitiation(pkt, peer)
    [] pkt.type = "cookie"     -> PatchReceiver(pkt, peer)
    [] OTHER                   -> pkt

MutantAddress(pkt, peer) ==
  IF pkt.from = "client"
  THEN [pkt EXCEPT !.destination = peer.serverDestination]
  ELSE [pkt EXCEPT !.destination = peer.clientDestination,
                   !.flags = IF peer.obfuscateEnabled /\ pkt.type = "transport"
                             THEN @ \cup {Obfuscate} ELSE @]

Address(pkt, peer) ==
  IF pkt.from = "client"
  THEN [pkt EXCEPT !.destination = peer.serverDestination]
  ELSE [pkt EXCEPT !.destination = peer.clientDestination,
                   !.flags = IF peer.obfuscateEnabled THEN @ \cup {Obfuscate} ELSE @]

\* The write channel the packet goes to; sending blocks while it is full.
Send(pkt) ==
  \/ /\ pkt.from = "client"
     /\ Len(serverWriteChan) < ChanCap
     /\ serverWriteChan' = Append(serverWriteChan, pkt)
     /\ UNCHANGED clientWriteChan
  \/ /\ pkt.from = "server"
     /\ Len(clientWriteChan) < ChanCap
     /\ clientWriteChan' = Append(clientWriteChan, pkt)
     /\ UNCHANGED serverWriteChan

-----------------------------------------------------------------------------
(***************************************************************************)
(* mainLoop.                                                               *)
(***************************************************************************)
\* A transport packet is handled by mainLoop itself, every other packet by
\* a goroutine of its own.
ReceiveTransport(pkt) ==
  /\ main.pc = "select"
  /\ pkt.type = "transport"
  /\ main' = [Select EXCEPT !.pc = "lookup", !.pkt = pkt]
  /\ UNCHANGED <<tableVars, handler, chanVars, timeVars, resolveVars, diskVars>>

ReceiveHandshake(g, pkt) ==
  /\ main.pc = "select"
  /\ pkt.type # "transport"
  /\ handler[g].pc = "idle"
  /\ handler' = [handler EXCEPT ![g] = [Idle EXCEPT !.pc = "start", !.pkt = pkt]]
  /\ UNCHANGED <<tableVars, main, chanVars, timeVars, resolveVars, diskVars>>

ReceiveTick ==
  /\ main.pc = "select"
  /\ expireChan # Nil
  /\ main' = [Select EXCEPT !.pc = "expire", !.current = expireChan]
  /\ expireChan' = Nil
  /\ UNCHANGED <<tableVars, handler, chanVars, now, resolveVars, diskVars>>

\* UpdateAllServerDestinationChan is unbuffered: the resolver's send and
\* mainLoop's receive are one step.
ReceiveUpdate ==
  /\ main.pc = "select"
  /\ resolver = "sending"
  /\ main' = [Select EXCEPT !.pc = "update", !.newServerAddr = resolved]
  /\ resolver' = "idle"
  /\ UNCHANGED <<tableVars, handler, chanVars, timeVars, resolved, diskVars>>

-----------------------------------------------------------------------------
(***************************************************************************)
(* processMessageTransport, and the rest of the transport path.            *)
(***************************************************************************)
DropTransport ==
  /\ main.pc = "lookup"
  /\ main.pkt.receiver = 0
  /\ main' = Select
  /\ UNCHANGED <<tableVars, handler, chanVars, timeVars, resolveVars, diskVars>>

LookupTransport ==
  /\ main.pc = "lookup"
  /\ main.pkt.receiver # 0
  /\ mapLock = Nil
  /\ LET m == IF main.pkt.from = "server" THEN clientMap ELSE serverMap
         p == m[main.pkt.receiver]
     IN  main' = IF p = NoPeer THEN Select
                 ELSE [main EXCEPT !.pc = "process", !.peer = p]
  /\ UNCHANGED <<tableVars, handler, chanVars, timeVars, resolveVars, diskVars>>

MutantSourceAllowed(l, source, a) == l = LevelIPAndPort => source = a

\* Whether a source address passes validation level l against address a.
SourceAllowed(l, source, a) ==
  /\ l = LevelIP => source.ip = a.ip
  /\ l = LevelIPAndPort => source = a

\* For a server, the default level is IP and port; a server that has not
\* replied is not validated.
TransportAllowed(pkt, peer) ==
  IF pkt.from = "client"
  THEN SourceAllowed(peer.clientSourceValidateLevel, pkt.source, peer.clientDestination)
  ELSE peer.serverProxyIndex # 0 =>
         SourceAllowed(IF peer.serverSourceValidateLevel = LevelDefault
                       THEN LevelIPAndPort ELSE peer.serverSourceValidateLevel,
                       pkt.source, peer.serverDestination)

\* The peer is active even if its packet is refused.  A client may roam.
ProcessMessageTransport ==
  /\ main.pc = "process"
  /\ LET p == main.peer
         allowed == TransportAllowed(main.pkt, peers[p])
     IN  /\ peers' = [peers EXCEPT
              ![p].lastActive = now,
              ![p].clientDestination =
                 IF main.pkt.from = "client" /\ allowed THEN main.pkt.source ELSE @]
         /\ main' = IF allowed THEN [main EXCEPT !.pc = "patch"] ELSE Select
  /\ UNCHANGED <<allocated, clientMap, serverMap, mapLock, handler, chanVars,
                 timeVars, resolveVars, diskVars>>

PatchTransport ==
  /\ main.pc = "patch"
  /\ LET peer == peers[main.peer]
     IN  main' = [main EXCEPT !.pc = "send", !.pkt = Address(PatchReceiver(@, peer), peer)]
  /\ UNCHANGED <<tableVars, handler, chanVars, timeVars, resolveVars, diskVars>>

SendTransport ==
  /\ main.pc = "send"
  /\ Send(main.pkt)
  /\ main' = Select
  /\ UNCHANGED <<tableVars, handler, timeVars, resolveVars, diskVars>>

-----------------------------------------------------------------------------
(***************************************************************************)
(* The handshake goroutines: handleClientPacket and handleServerPacket     *)
(* with the process functions they call.                                   *)
(***************************************************************************)
\* ExtractPeerFunc: Server.extractPeer, or Client.generateServerPeer, which
\* fails until the server address is first resolved and whose peer has the
\* zero validation levels.  Nil is an error.
ExtractPeerFunc(pkt) ==
  CASE IsClient /\ resolved # Nil ->
         [clientPublicKey |-> Self, serverPublicKey |-> Config[Self].serverPublicKey,
          forwardToAddress |-> resolved, clientSourceValidateLevel |-> LevelDefault]
    [] ~IsClient /\ pkt.key \in Clients ->
         [clientPublicKey |-> pkt.key, serverPublicKey |-> Config[pkt.key].serverPublicKey,
          forwardToAddress |-> Config[pkt.key].forwardToAddress,
          clientSourceValidateLevel |-> Config[pkt.key].clientSourceValidateLevel]
    [] OTHER -> Nil

\* The Peer that processClientMessageInitiation builds from a matched sp.
NewPeer(pkt, sp) ==
  [clientOriginIndex |-> pkt.sender, clientProxyIndex |-> 0,
   serverOriginIndex |-> 0, serverProxyIndex |-> 0,
   clientPublicKey |-> sp.clientPublicKey, serverPublicKey |-> sp.serverPublicKey,
   clientCookieGenerator |-> sp.serverPublicKey,
   serverCookieGenerator |-> sp.clientPublicKey,
   clientDestination |-> pkt.source, serverDestination |-> sp.forwardToAddress,
   lastActive |-> now,
   clientSourceValidateLevel |-> sp.clientSourceValidateLevel,
   serverSourceValidateLevel |-> LevelDefault,
   obfuscateEnabled |-> FALSE]

\* The errors a handler meets before it takes the lock.
Rejected(pkt) ==
  CASE pkt.from = "client" /\ pkt.type = "initiation" -> ExtractPeerFunc(pkt) = Nil
    [] pkt.from = "server" /\ pkt.type \in {"response", "cookie"} -> pkt.receiver = 0
    [] OTHER -> TRUE

RejectHandshake(g) ==
  /\ handler[g].pc = "start"
  /\ Rejected(handler[g].pkt)
  /\ handler' = [handler EXCEPT ![g] = Idle]
  /\ UNCHANGED <<tableVars, main, chanVars, timeVars, resolveVars, diskVars>>

ExtractPeer(g) ==
  /\ handler[g].pc = "start"
  /\ handler[g].pkt.type = "initiation"
  /\ ~Rejected(handler[g].pkt)
  /\ allocated < MaxPeers
  /\ allocated' = allocated + 1
  /\ peers' = [peers EXCEPT ![allocated + 1] =
                 NewPeer(handler[g].pkt, ExtractPeerFunc(handler[g].pkt))]
  /\ handler' = [handler EXCEPT ![g].pc = "lockClientMap", ![g].peer = allocated + 1]
  /\ UNCHANGED <<clientMap, serverMap, mapLock, main, chanVars, timeVars,
                 resolveVars, diskVars>>

\* generateProxyIndexLocked(m, origin) starts with the origin index.
FirstProxyIndex(origin) == IF DebugAlwaysGenerateProxyIndex THEN 0 ELSE origin

\* The loop of generateProxyIndexLocked looks the first index up before its
\* first iteration and never again: "ok" keeps the value it got there.
EnterGenerate(g, m, origin, p) ==
  handler' = [handler EXCEPT
    ![g].pc = "generate", ![g].peer = p, ![g].proxy = FirstProxyIndex(origin),
    ![g].taken = m[FirstProxyIndex(origin)] # NoPeer]

MutantRetryOnConflictOnly(h) == h.taken
MutantRetryOnZeroOnly(h) == h.proxy = 0
RetryProxyIndex(h) == h.taken \/ h.proxy = 0

DrawProxyIndex(g) ==
  /\ handler[g].pc = "generate"
  /\ RetryProxyIndex(handler[g])
  /\ \E r \in Index : handler' = [handler EXCEPT ![g].proxy = r]
  /\ UNCHANGED <<tableVars, main, chanVars, timeVars, resolveVars, diskVars>>

LockClientMap(g) ==
  /\ handler[g].pc = "lockClientMap"
  /\ mapLock = Nil
  /\ mapLock' = g
  /\ EnterGenerate(g, clientMap, peers[handler[g].peer].clientOriginIndex, handler[g].peer)
  /\ UNCHANGED <<peers, allocated, clientMap, serverMap, main, chanVars, timeVars,
                 resolveVars, diskVars>>

MutantNoUnlock == mapLock' = mapLock
Unlock == mapLock' = Nil

ClientRegistered(peer, proxy) == [peer EXCEPT !.clientProxyIndex = proxy]

RegisterClient(g) ==
  /\ handler[g].pc = "generate"
  /\ handler[g].pkt.type = "initiation"
  /\ ~RetryProxyIndex(handler[g])
  /\ peers' = [peers EXCEPT ![handler[g].peer] = ClientRegistered(@, handler[g].proxy)]
  /\ clientMap' = [clientMap EXCEPT ![handler[g].proxy] = handler[g].peer]
  /\ Unlock
  /\ handler' = [handler EXCEPT
       ![g].pc = IF Deobfuscated \in handler[g].pkt.flags THEN "mark" ELSE "patch",
       ![g].proxy = 0]
  /\ UNCHANGED <<allocated, serverMap, main, chanVars, timeVars, resolveVars, diskVars>>

MarkObfuscated(g) ==
  /\ handler[g].pc = "mark"
  /\ peers' = [peers EXCEPT ![handler[g].peer].obfuscateEnabled = TRUE]
  /\ handler' = [handler EXCEPT ![g].pc = "patch"]
  /\ UNCHANGED <<allocated, clientMap, serverMap, mapLock, main, chanVars, timeVars,
                 resolveVars, diskVars>>

\* processServerMessageResponse keeps the lock from the lookup to the insertion.
MissClientMap(g) ==
  /\ handler[g].pc = "start"
  /\ handler[g].pkt.type = "response"
  /\ ~Rejected(handler[g].pkt)
  /\ mapLock = Nil
  /\ clientMap[handler[g].pkt.receiver] = NoPeer
  /\ handler' = [handler EXCEPT ![g] = Idle]
  /\ UNCHANGED <<tableVars, main, chanVars, timeVars, resolveVars, diskVars>>

LockServerMap(g) ==
  /\ handler[g].pc = "start"
  /\ handler[g].pkt.type = "response"
  /\ ~Rejected(handler[g].pkt)
  /\ mapLock = Nil
  /\ LET p == clientMap[handler[g].pkt.receiver]
     IN  /\ p # NoPeer
         /\ mapLock' = g
         /\ peers' = [peers EXCEPT ![p] =
              [@ EXCEPT !.lastActive = now, !.serverOriginIndex = handler[g].pkt.sender]]
         /\ EnterGenerate(g, serverMap, handler[g].pkt.sender, p)
  /\ UNCHANGED <<allocated, clientMap, serverMap, main, chanVars, timeVars,
                 resolveVars, diskVars>>

MutantServerRegistered(peer, proxy) == [peer EXCEPT !.serverOriginIndex = proxy]
ServerRegistered(peer, proxy) == [peer EXCEPT !.serverProxyIndex = proxy]

RegisterServer(g) ==
  /\ handler[g].pc = "generate"
  /\ handler[g].pkt.type = "response"
  /\ ~RetryProxyIndex(handler[g])
  /\ peers' = [peers EXCEPT ![handler[g].peer] = ServerRegistered(@, handler[g].proxy)]
  /\ serverMap' = [serverMap EXCEPT ![handler[g].proxy] = handler[g].peer]
  /\ Unlock
  /\ persisting' = TRUE
  /\ handler' = [handler EXCEPT ![g].pc = "patch", ![g].proxy = 0]
  /\ UNCHANGED <<allocated, clientMap, main, chanVars, timeVars, resolveVars, disk,
                 restarts>>

\* processServerMessageCookieReply; whether device.CookieGenerator accepts
\* the reply is up to that library.
ProcessCookieReply(g) ==
  /\ handler[g].pc = "start"
  /\ handler[g].pkt.type = "cookie"
  /\ ~Rejected(handler[g].pkt)
  /\ mapLock = Nil
  /\ \E consumed \in BOOLEAN :
       LET p == clientMap[handler[g].pkt.receiver]
       IN  handler' = [handler EXCEPT
             ![g] = IF p # NoPeer /\ consumed THEN [@ EXCEPT !.pc = "patch", !.peer = p]
                    ELSE Idle]
  /\ UNCHANGED <<tableVars, main, chanVars, timeVars, resolveVars, diskVars>>

\* The rest of a handler reads its peer without the lock, while others may
\* change it: a response is compared first and rewritten later.
PatchHandshake(g) ==
  /\ handler[g].pc = "patch"
  /\ LET pkt  == handler[g].pkt
         peer == peers[handler[g].peer]
     IN  handler' = [handler EXCEPT
           ![g].pc  = IF pkt.type = "response" /\ Translated(peer) THEN "rewrite" ELSE "address",
           ![g].pkt = Patch(pkt, peer)]
  /\ UNCHANGED <<tableVars, main, chanVars, timeVars, resolveVars, diskVars>>

RewriteResponse(g) ==
  /\ handler[g].pc = "rewrite"
  /\ handler' = [handler EXCEPT ![g].pc = "address",
                                ![g].pkt = PatchResponse(@, peers[handler[g].peer])]
  /\ UNCHANGED <<tableVars, main, chanVars, timeVars, resolveVars, diskVars>>

AddressHandshake(g) ==
  /\ handler[g].pc = "address"
  /\ handler' = [handler EXCEPT ![g].pc = "send",
                                ![g].pkt = Address(@, peers[handler[g].peer])]
  /\ UNCHANGED <<tableVars, main, chanVars, timeVars, resolveVars, diskVars>>

SendHandshake(g) ==
  /\ handler[g].pc = "send"
  /\ Send(handler[g].pkt)
  /\ handler' = [handler EXCEPT ![g] = Idle]
  /\ UNCHANGED <<tableVars, main, timeVars, resolveVars, diskVars>>

-----------------------------------------------------------------------------
(***************************************************************************)
(* Expiry, server address update, cache file.                              *)
(***************************************************************************)
\* time.Tick(Timeout) ticks every Timeout; a tick that finds the channel
\* full is dropped.
Tick ==
  /\ now < MaxTime
  /\ now' = now + 1
  /\ expireChan' = IF expireChan = Nil /\ now' % Timeout = 0 THEN now' ELSE expireChan
  /\ UNCHANGED <<tableVars, handler, main, chanVars, resolveVars, diskVars>>

MutantIdlingAtTimeout(peer, current) == peer.lastActive <= current - Timeout
Idling(peer, current) == peer.lastActive < current - Timeout

ExpiredPeers(current) == {p \in Values(clientMap) : Idling(peers[p], current)}

MutantServerIndicesOf(expired) == {peers[p].clientProxyIndex : p \in expired}
ServerIndicesOf(expired) == {peers[p].serverProxyIndex : p \in expired}

HandlePeersExpireCheck ==
  /\ main.pc = "expire"
  /\ mapLock = Nil
  /\ LET expired == ExpiredPeers(main.current)
     IN  /\ clientMap' = [i \in Index |->
              IF i \in {peers[p].clientProxyIndex : p \in expired} THEN NoPeer ELSE clientMap[i]]
         /\ serverMap' = [i \in Index |->
              IF i \in ServerIndicesOf(expired) THEN NoPeer ELSE serverMap[i]]
  /\ persisting' = TRUE
  /\ main' = Select
  /\ UNCHANGED <<peers, allocated, mapLock, handler, chanVars, timeVars, resolveVars,
                 disk, restarts>>

\* The resolver goroutine of mwgp-client.
Resolve(a) ==
  /\ IsClient
  /\ resolver = "idle"
  /\ resolved # a
  /\ resolved' = a
  /\ resolver' = "sending"
  /\ UNCHANGED <<tableVars, handler, main, chanVars, timeVars, diskVars>>

HandleAllServerDestinationUpdate ==
  /\ main.pc = "update"
  /\ mapLock = Nil
  /\ peers' = [p \in PeerIds |->
       IF p \in Values(clientMap)
       THEN [peers[p] EXCEPT !.serverDestination = main.newServerAddr] ELSE peers[p]]
  /\ persisting' = TRUE
  /\ main' = Select
  /\ UNCHANGED <<allocated, clientMap, serverMap, mapLock, handler, chanVars, timeVars,
                 resolveVars, disk, restarts>>

\* SaveLocked writes the peers of serverMap.  The file is written and
\* renamed in one step here; module CacheFile takes that step apart.  Other
\* goroutines that persist may be left.
MutantSnapshot == {CachePeer(peers[p]) : p \in Values(serverMap) \cap Values(clientMap)}
Snapshot == {CachePeer(peers[p]) : p \in Values(serverMap)}

PersistForwardTableCache ==
  /\ persisting
  /\ mapLock = Nil
  /\ disk' = Snapshot
  /\ persisting' \in BOOLEAN
  /\ UNCHANGED <<tableVars, handler, main, chanVars, timeVars, resolveVars, restarts>>

MutantLoadedPeer(cp) ==
  [f \in DOMAIN ZeroPeer |->
     IF f \in DOMAIN cp \ {"serverProxyIndex"} THEN cp[f] ELSE ZeroPeer[f]]

MutantLoadedUnmarked(cp) ==
  [f \in DOMAIN ZeroPeer |->
     IF f \in DOMAIN cp \ {"obfuscateEnabled"} THEN cp[f] ELSE ZeroPeer[f]]

\* WGITCachePeer.WGITPeer.
LoadedPeer(cp) ==
  [clientOriginIndex |-> cp.clientOriginIndex, clientProxyIndex |-> cp.clientProxyIndex,
   serverOriginIndex |-> cp.serverOriginIndex, serverProxyIndex |-> cp.serverProxyIndex,
   clientPublicKey |-> cp.clientPublicKey, serverPublicKey |-> cp.serverPublicKey,
   clientCookieGenerator |-> cp.clientPublicKey,
   serverCookieGenerator |-> cp.serverPublicKey,
   clientDestination |-> cp.clientDestination, serverDestination |-> cp.serverDestination,
   lastActive |-> now,
   clientSourceValidateLevel |-> cp.clientSourceValidateLevel,
   serverSourceValidateLevel |-> cp.serverSourceValidateLevel,
   obfuscateEnabled |-> cp.obfuscateEnabled]

\* The peer made from the last record of the file with index i, if any.
LastRecord(file, field, i) ==
  LET Last(k) == /\ file[k][field] = i
                 /\ \A l \in DOMAIN file : l > k => file[l][field] # i
  IN  IF \E k \in DOMAIN file : Last(k) THEN CHOOSE k \in DOMAIN file : Last(k) ELSE NoPeer

\* The process dies with everything in memory, and Serve starts with
\* LoadLocked.  The records are in the order in which SaveLocked met them.
Restart ==
  /\ restarts < MaxRestarts
  /\ \E n \in 0..MaxPeers : \E file \in [1..n -> disk] :
       /\ \A cp \in disk : \E k \in 1..n : file[k] = cp
       /\ \A k, l \in 1..n : file[k] = file[l] => k = l
       /\ peers' = [p \in PeerIds |-> IF p <= n THEN LoadedPeer(file[p]) ELSE ZeroPeer]
       /\ allocated' = n
       /\ clientMap' = [i \in Index |-> LastRecord(file, "clientProxyIndex", i)]
       /\ serverMap' = [i \in Index |-> IF i = 0 THEN NoPeer
                                        ELSE LastRecord(file, "serverProxyIndex", i)]
  /\ mapLock' = Nil
  /\ handler' = [g \in Goroutines |-> Idle]
  /\ main' = Select
  /\ clientWriteChan' = <<>> /\ serverWriteChan' = <<>>
  /\ expireChan' = Nil
  /\ resolved' = Nil /\ resolver' = "idle"
  /\ persisting' = FALSE
  /\ restarts' = restarts + 1
  /\ UNCHANGED <<now, disk>>

\* writeLoop.
WriteToServer ==
  /\ serverWriteChan # <<>>
  /\ serverWriteChan' = Tail(serverWriteChan)
  /\ UNCHANGED <<tableVars, handler, main, clientWriteChan, timeVars, resolveVars, diskVars>>

WriteToClient ==
  /\ clientWriteChan # <<>>
  /\ clientWriteChan' = Tail(clientWriteChan)
  /\ UNCHANGED <<tableVars, handler, main, serverWriteChan, timeVars, resolveVars, diskVars>>

-----------------------------------------------------------------------------
(***************************************************************************)
(* The datagrams that may arrive.  Their MACs cover the indices they       *)
(* carry; an initiation that is too short or that nobody can decrypt is    *)
(* one from a stranger.                                                    *)
(***************************************************************************)
Initiation(s, k, a, f, d) ==
  FixMACs([Datagram("client", "initiation", s, 0, a, d) EXCEPT !.key = k, !.flags = f],
          IF k \in Clients THEN Config[k].serverPublicKey ELSE Nil)

ClientFlags == IF Obfuscates /\ ~IsClient THEN {{}, {Deobfuscated}} ELSE {{}}

Initiations ==
  {Initiation(s, k, a, f, d) : s \in Senders, k \in Clients \cup Strangers,
     a \in ClientAddrs, f \in ClientFlags, d \in Payloads}

Responses ==
  {FixMACs(Datagram("server", "response", s, r, a, d), k) :
     s \in Senders, r \in Index, a \in ServerAddrs, k \in Clients, d \in Payloads}

CookieReplies ==
  {Datagram("server", "cookie", 0, r, a, d) : r \in Index, a \in ServerAddrs, d \in Payloads}

Transports ==
  {Datagram("client", "transport", 0, r, a, d) : r \in Index, a \in ClientAddrs, d \in Payloads}
  \cup
  {Datagram("server", "transport", 0, r, a, d) : r \in Index, a \in ServerAddrs, d \in Payloads}

Others == {Datagram(from, "other", 0, 0, Nil, Nil) : from \in {"client", "server"}}

\* Bound: no more initiations are received than there are peers to allocate.
CanAllocate ==
  allocated + Cardinality({g \in Goroutines : /\ handler[g].pc = "start"
                                              /\ handler[g].pkt.type = "initiation"}) < MaxPeers

Arrivals ==
  {pkt \in Initiations \cup Responses \cup CookieReplies \cup Transports \cup Others :
     pkt.type \in Traffic}

Receive ==
  \E pkt \in Arrivals :
    \/ ReceiveTransport(pkt)
    \/ /\ pkt.type = "initiation" => CanAllocate
       /\ \E g \in Goroutines : ReceiveHandshake(g, pkt)

HandlerStep(g) ==
  \/ RejectHandshake(g) \/ ExtractPeer(g) \/ LockClientMap(g) \/ DrawProxyIndex(g)
  \/ RegisterClient(g) \/ MarkObfuscated(g)
  \/ MissClientMap(g) \/ LockServerMap(g) \/ RegisterServer(g)
  \/ ProcessCookieReply(g) \/ PatchHandshake(g) \/ RewriteResponse(g)
  \/ AddressHandshake(g) \/ SendHandshake(g)

MainStep ==
  \/ ReceiveTick \/ ReceiveUpdate
  \/ DropTransport \/ LookupTransport \/ ProcessMessageTransport
  \/ PatchTransport \/ SendTransport
  \/ HandlePeersExpireCheck \/ HandleAllServerDestinationUpdate

Init ==
  /\ peers = [p \in PeerIds |-> ZeroPeer] /\ allocated = 0
  /\ clientMap = [i \in Index |-> NoPeer] /\ serverMap = [i \in Index |-> NoPeer]
  /\ mapLock = Nil
  /\ handler = [g \in Goroutines |-> Idle]
  /\ main = Select
  /\ clientWriteChan = <<>> /\ serverWriteChan = <<>>
  /\ now = 0 /\ expireChan = Nil
  /\ resolved = Nil /\ resolver = "idle"
  /\ persisting = FALSE /\ disk = {} /\ restarts = 0

Next ==
  \/ Receive
  \/ \E g \in Goroutines : HandlerStep(g)
  \/ MainStep
  \/ Tick
  \/ \E a \in ServerAddrs : Resolve(a)
  \/ PersistForwardTableCache
  \/ WriteToServer \/ WriteToClient
  \/ Restart

Spec == Init /\ [][Next]_vars

\* Every goroutine keeps running.  sync.RWMutex and channels starve nobody:
\* who waits for the lock or for room gets it in the end.  The selects choose
\* among the ready cases at random, so none is passed over forever.
Fairness ==
  /\ \A g \in Goroutines : SF_vars(HandlerStep(g))
  /\ SF_vars(MainStep) /\ SF_vars(ReceiveTick) /\ SF_vars(ReceiveUpdate)
  /\ WF_vars(WriteToServer) /\ WF_vars(WriteToClient)

FairSpec == Spec /\ Fairness

=============================================================================
