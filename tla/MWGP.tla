-------------------------------- MODULE MWGP --------------------------------
(***************************************************************************)
(* A WireGuard client behind mwgp-client, and mwgp-server in front of the  *)
(* WireGuard server: two tables of module WGIT, the network between them,  *)
(* and as much of the two WireGuard endpoints as the tables can notice.    *)
(*                                                                         *)
(*   client <-> C (mwgp-client) <-> wire <-> S (mwgp-server) <-> server    *)
(*                                                                         *)
(* Each endpoint is next to its proxy.  The wire keeps whatever was ever   *)
(* sent, so that a datagram may be delivered late, twice or never.  What   *)
(* is encrypted for handshake n has n as its payload: nobody but the peer  *)
(* of that handshake can use it.                                           *)
(***************************************************************************)
EXTENDS Integers, Sequences, FiniteSets

CONSTANTS
  MaxIndex,       \* indices are 0..MaxIndex
  ClientSenders, ServerSenders,  \* the indices an endpoint may pick, by handshake
  ClientKey, ServerKey,
  ClientAddr,     \* the WireGuard client
  ProxyAddr,      \* mwgp-client, towards mwgp-server
  ListenAddr,     \* mwgp-server, towards its clients
  ServerAddr,     \* the WireGuard server
  Goroutines,     \* bound: handlers of a proxy alive at the same time
  MaxHandshakes,  \* bound: handshakes that the WireGuard client starts
  MaxPeers,       \* bound: peers that a proxy allocates
  MaxRestarts,    \* bound: how often a proxy restarts
  MaxActive,      \* bound: packets inside the proxies at the same time
  Capped,         \* whether Room, CanStart and CanRestart bound the state
  ChanCap,
  Nil

Handshakes == 1..MaxHandshakes

ASSUME MWGPAssumption ==
  /\ MaxIndex \in Nat \ {0} /\ MaxHandshakes \in Nat
  /\ \A n \in Handshakes : ClientSenders[n] \subseteq 0..MaxIndex /\ ServerSenders[n] \subseteq 0..MaxIndex
  /\ Nil \notin {ClientKey, ServerKey, ClientAddr, ProxyAddr, ListenAddr, ServerAddr}
  /\ Nil \notin Goroutines /\ Nil \notin 0..MaxIndex
  /\ MaxPeers \in Nat /\ MaxRestarts \in Nat /\ ChanCap \in Nat \ {0} /\ Capped \in BOOLEAN

VARIABLES
  cPeers, cAllocated, cClientMap, cServerMap, cMapLock, cHandler, cMain,
  cClientWriteChan, cServerWriteChan, cNow, cExpireChan, cResolved, cResolver,
  cPersisting, cDisk, cRestarts,
  sPeers, sAllocated, sClientMap, sServerMap, sMapLock, sHandler, sMain,
  sClientWriteChan, sServerWriteChan, sNow, sExpireChan, sResolved, sResolver,
  sPersisting, sDisk, sRestarts,
  wire,           \* the datagrams sent between the proxies
  client,         \* the WireGuard client's sessions
  server          \* the WireGuard server's sessions

MWGPConfig(addr) ==
  [c \in {ClientKey} |-> [serverPublicKey |-> ServerKey, forwardToAddress |-> addr,
                          clientSourceValidateLevel |-> 0, serverSourceValidateLevel |-> 0]]

C == INSTANCE WGITProperties WITH
  Clients <- {ClientKey}, Servers <- {ServerKey}, Strangers <- {}, Senders <- 0..MaxIndex,
  Config <- MWGPConfig(ListenAddr), IsClient <- TRUE, Self <- ClientKey,
  ClientAddrs <- {ClientAddr}, ServerAddrs <- {ListenAddr}, Obfuscates <- TRUE,
  Payloads <- Handshakes, Timeout <- 1, DebugAlwaysGenerateProxyIndex <- FALSE, Traffic <- {},
  MaxTime <- 0,
  peers <- cPeers, allocated <- cAllocated, clientMap <- cClientMap, serverMap <- cServerMap,
  mapLock <- cMapLock, handler <- cHandler, main <- cMain,
  clientWriteChan <- cClientWriteChan, serverWriteChan <- cServerWriteChan,
  now <- cNow, expireChan <- cExpireChan, resolved <- cResolved, resolver <- cResolver,
  persisting <- cPersisting, disk <- cDisk, restarts <- cRestarts

S == INSTANCE WGITProperties WITH
  Clients <- {ClientKey}, Servers <- {ServerKey}, Strangers <- {}, Senders <- 0..MaxIndex,
  Config <- MWGPConfig(ServerAddr), IsClient <- FALSE, Self <- Nil,
  ClientAddrs <- {ProxyAddr}, ServerAddrs <- {ServerAddr}, Obfuscates <- TRUE,
  Payloads <- Handshakes, Timeout <- 1, DebugAlwaysGenerateProxyIndex <- FALSE, Traffic <- {},
  MaxTime <- 0,
  peers <- sPeers, allocated <- sAllocated, clientMap <- sClientMap, serverMap <- sServerMap,
  mapLock <- sMapLock, handler <- sHandler, main <- sMain,
  clientWriteChan <- sClientWriteChan, serverWriteChan <- sServerWriteChan,
  now <- sNow, expireChan <- sExpireChan, resolved <- sResolved, resolver <- sResolver,
  persisting <- sPersisting, disk <- sDisk, restarts <- sRestarts

cVars ==
  <<cPeers, cAllocated, cClientMap, cServerMap, cMapLock, cHandler, cMain, cClientWriteChan,
    cServerWriteChan, cNow, cExpireChan, cResolved, cResolver, cPersisting, cDisk, cRestarts>>
sVars ==
  <<sPeers, sAllocated, sClientMap, sServerMap, sMapLock, sHandler, sMain, sClientWriteChan,
    sServerWriteChan, sNow, sExpireChan, sResolved, sResolver, sPersisting, sDisk, sRestarts>>
others == <<wire, client, server>>
vars == <<cVars, sVars, others>>

\* A session of an endpoint: its own index, the one it was told, and whether
\* the other side has shown that it has the keys.
NoSession == [index |-> Nil, remote |-> Nil, confirmed |-> FALSE]

Fresh(senders, sessions) == {i \in senders : \A n \in Handshakes : sessions[n].index # i}

\* The packets that the proxies hold.
Active ==
  LET Busy(handler) == {g \in Goroutines : handler[g].pc # "idle"}
  IN  Cardinality(Busy(cHandler)) + Cardinality(Busy(sHandler))
        + Cardinality({m \in {<<"c", cMain.pc>>, <<"s", sMain.pc>>} : m[2] # "select"})
        + Len(cClientWriteChan) + Len(cServerWriteChan)
        + Len(sClientWriteChan) + Len(sServerWriteChan)

\* A proxy has drawn an index that is in use (wgit.go 583 does not look a
\* drawn index up), or the server's second response has changed an index.
Clash ==
  LET Mixed(map, peers, index) ==
        \E i \in C!Index \ {0} : LET owners == {p \in 1..MaxPeers : peers[p][index] = i}
                                IN  Cardinality(owners) > 1 \/ map[i] \notin owners \cup {0}
  IN  \/ Mixed(cClientMap, cPeers, "clientProxyIndex") \/ Mixed(cServerMap, cPeers, "serverProxyIndex")
      \/ Mixed(sClientMap, sPeers, "clientProxyIndex") \/ Mixed(sServerMap, sPeers, "serverProxyIndex")

\* Bounds: with two handshakes the proxies hold one packet at a time, and take
\* none after a clash; the second starts when the first has an index of its
\* own; a run with a restart has one handshake.  Not so unless Capped.
Started == {n \in Handshakes : client[n] # NoSession}
Room ==
  Capped => IF Cardinality(Started) > 1 THEN Active = 0 /\ ~Clash ELSE Active < MaxActive
CanStart(n) ==
  Capped /\ n > 1 => Active = 0 /\ client[1].index # 0 /\ cRestarts + sRestarts = 0
CanRestart ==
  cRestarts + sRestarts < MaxRestarts /\ (Capped => Cardinality(Started) <= 1)

\* The check of MAC1, made with the key of the receiver of the packet.
Signed(pkt, key) == pkt.mac = [key |-> key, sender |-> pkt.sender, receiver |-> pkt.receiver]

-----------------------------------------------------------------------------
(***************************************************************************)
(* The WireGuard client.                                                   *)
(***************************************************************************)
SendInitiation(n) ==
  /\ Room
  /\ client[n] = NoSession
  /\ \A m \in 1..(n - 1) : client[m] # NoSession
  /\ CanStart(n)
  /\ \E i \in Fresh(ClientSenders[n], client), g \in Goroutines :
       /\ C!CanAllocate
       /\ C!ReceiveHandshake(g, C!Initiation(i, ClientKey, ClientAddr, {}, n))
       /\ client' = [client EXCEPT ![n].index = i]
  /\ UNCHANGED <<sVars, wire, server>>

SendClientTransport(n) ==
  /\ Room
  /\ client[n].remote # Nil
  /\ C!ReceiveTransport(C!Datagram("client", "transport", 0, client[n].remote, ClientAddr, n))
  /\ UNCHANGED <<sVars, others>>

\* Whether the client can use a packet.
ClientAccepts(pkt) ==
  /\ pkt.receiver = client[pkt.data].index
  /\ pkt.type = "response" => Signed(pkt, ClientKey)

ClientReceives ==
  /\ C!WriteToClient
  /\ LET pkt == Head(cClientWriteChan)
     IN  client' = IF pkt.type = "response" /\ ClientAccepts(pkt) /\ client[pkt.data].remote = Nil
                   THEN [client EXCEPT ![pkt.data] = [@ EXCEPT !.remote = pkt.sender, !.confirmed = TRUE]]
                   ELSE client
  /\ UNCHANGED <<sVars, wire, server>>

-----------------------------------------------------------------------------
(***************************************************************************)
(* The WireGuard server.                                                   *)
(***************************************************************************)
ServerAccepts(pkt) ==
  /\ pkt.type = "initiation" => Signed(pkt, ServerKey)
  /\ pkt.type = "transport" => pkt.receiver = server[pkt.data].index

\* An initiation is accepted once and not after a later one (its timestamp).
Starts(pkt) ==
  /\ pkt.type = "initiation" /\ ServerAccepts(pkt)
  /\ \A m \in pkt.data..MaxHandshakes : server[m] = NoSession

ServerReceives ==
  /\ S!WriteToServer
  /\ LET pkt == Head(sServerWriteChan)
     IN  \/ /\ Starts(pkt)
            /\ \E j \in Fresh(ServerSenders[pkt.data], server) :
                 server' = [server EXCEPT ![pkt.data] =
                              [index |-> j, remote |-> pkt.sender, confirmed |-> FALSE]]
         \/ /\ ~Starts(pkt)
            /\ server' = [server EXCEPT ![pkt.data].confirmed =
                            @ \/ (pkt.type = "transport" /\ ServerAccepts(pkt))]
  /\ UNCHANGED <<cVars, wire, client>>

SendResponse(n) ==
  /\ Room
  /\ server[n] # NoSession
  /\ \E g \in Goroutines :
       S!ReceiveHandshake(g,
         S!FixMACs(S!Datagram("server", "response", server[n].index, server[n].remote, ServerAddr, n),
                   ClientKey))
  /\ UNCHANGED <<cVars, others>>

SendServerTransport(n) ==
  /\ Room
  /\ server[n].confirmed
  /\ S!ReceiveTransport(S!Datagram("server", "transport", 0, server[n].remote, ServerAddr, n))
  /\ UNCHANGED <<cVars, others>>

-----------------------------------------------------------------------------
(***************************************************************************)
(* The proxies and the wire.                                               *)
(***************************************************************************)
Carried(to, pkt, obfuscated) ==
  [to |-> to, type |-> pkt.type, sender |-> pkt.sender, receiver |-> pkt.receiver,
   mac |-> pkt.mac, key |-> pkt.key, data |-> pkt.data, obfuscated |-> obfuscated]

\* ServerWriteToUDPFunc of mwgp-client flags every packet.
ClientProxyWrites ==
  /\ C!WriteToServer
  /\ wire' = wire \cup {Carried("server", Head(cServerWriteChan), TRUE)}
  /\ UNCHANGED <<sVars, client, server>>

ServerProxyWrites ==
  /\ S!WriteToClient
  /\ LET pkt == Head(sClientWriteChan)
     IN  wire' = wire \cup {Carried("client", pkt, S!Obfuscate \in pkt.flags)}
  /\ UNCHANGED <<cVars, client, server>>

\* ReadFromUDPWithDeobfuscate at both ends of the wire.
Arriving(m, from, source) ==
  [from |-> from, type |-> m.type, sender |-> m.sender, receiver |-> m.receiver, mac |-> m.mac,
   source |-> source, destination |-> Nil, key |-> m.key, data |-> m.data,
   flags |-> IF m.obfuscated THEN {C!Deobfuscated} ELSE {}]

ClientProxyReads ==
  /\ Room
  /\ \E m \in wire, g \in Goroutines :
       /\ m.to = "client"
       /\ LET pkt == Arriving(m, "server", ListenAddr)
          IN  C!ReceiveTransport(pkt) \/ C!ReceiveHandshake(g, pkt)
  /\ UNCHANGED <<sVars, others>>

ServerProxyReads ==
  /\ Room
  /\ \E m \in wire, g \in Goroutines :
       /\ m.to = "server"
       /\ LET pkt == Arriving(m, "client", ProxyAddr)
          IN  \/ S!ReceiveTransport(pkt)
              \/ S!CanAllocate /\ S!ReceiveHandshake(g, pkt)
  /\ UNCHANGED <<cVars, others>>

ClientProxyStep ==
  /\ \/ \E g \in Goroutines : C!HandlerStep(g)
     \/ C!MainStep \/ C!Resolve(ListenAddr) \/ C!PersistForwardTableCache
     \/ CanRestart /\ C!Restart
  /\ UNCHANGED <<sVars, others>>

ServerProxyStep ==
  /\ \/ \E g \in Goroutines : S!HandlerStep(g)
     \/ S!MainStep \/ S!PersistForwardTableCache
     \/ CanRestart /\ S!Restart
  /\ UNCHANGED <<cVars, others>>

Init ==
  /\ C!Init /\ S!Init
  /\ wire = {}
  /\ client = [n \in Handshakes |-> NoSession]
  /\ server = [n \in Handshakes |-> NoSession]

Next ==
  \/ \E n \in Handshakes :
       SendInitiation(n) \/ SendClientTransport(n) \/ SendResponse(n) \/ SendServerTransport(n)
  \/ ClientReceives \/ ServerReceives
  \/ ClientProxyWrites \/ ServerProxyWrites \/ ClientProxyReads \/ ServerProxyReads
  \/ ClientProxyStep \/ ServerProxyStep

Spec == Init /\ [][Next]_vars

-----------------------------------------------------------------------------
(***************************************************************************)
(* What the two proxies promise together.                                  *)
(***************************************************************************)
\* Whatever goes over the wire is obfuscated (README.md 123-129): mwgp-server
\* answers an obfuscating client before or after any other packet of the
\* session, and yet never before MarkObfuscated (wgit.go 267-270) has run.
\* A restart of mwgp-server breaks it: the peer may be gone from the table,
\* and a late initiation brings it back while the session is in use.
WireObfuscated == sRestarts = 0 => \A m \in wire : m.obfuscated

\* Up to the first restart and from then on, what is open is only the window
\* between the insertion into clientMap and MarkObfuscated: a peer from the
\* cache file is marked.  After a restart the window reaches the file: a late
\* initiation registers the peer again, a response to the session in use
\* persists it before MarkObfuscated, and the next restart may load it so.
Marked ==
  sRestarts <= 1 =>
    \A p \in S!Values(sClientMap) :
      \/ sPeers[p].obfuscateEnabled
      \/ \E g \in Goroutines : sHandler[g].pc = "mark" /\ sHandler[g].peer = p

Elements(q) == {q[k] : k \in DOMAIN q}

\* The two translations cancel out: a packet that is about to reach an
\* endpoint carries the index that this endpoint chose for the session the
\* packet is encrypted for, however the network delayed or repeated packets
\* and, while there is one session, whichever proxy has restarted.  (CanStart
\* and CanRestart keep restarts and a second session apart: a proxy that has
\* forgotten an index it had drawn may give it to the other session.)
EndToEnd ==
  Clash \/
  /\ \A pkt \in Elements(cClientWriteChan) : pkt.receiver = client[pkt.data].index
  /\ \A pkt \in Elements(sServerWriteChan) :
       pkt.type = "transport" => pkt.receiver = server[pkt.data].index

\* A handshake that both proxies have rewritten still has the MAC that its
\* receiver checks, made with the receiver's own key.  (A restart exchanges
\* the generators of a loaded peer, cache.go 80.)
SignedEndToEnd ==
  cRestarts + sRestarts = 0 =>
  /\ \A pkt \in Elements(cClientWriteChan) : pkt.type = "response" => Signed(pkt, ClientKey)
  /\ \A pkt \in Elements(sServerWriteChan) : pkt.type = "initiation" => Signed(pkt, ServerKey)

=============================================================================
