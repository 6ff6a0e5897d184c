--------------------------- MODULE WGITProperties ---------------------------
(***************************************************************************)
(* What the index translation table promises: the properties that TLC      *)
(* checks on the instances of MCWGIT, and the inductive invariants from    *)
(* which WGITProofs proves the safety properties among them.               *)
(***************************************************************************)
EXTENDS WGIT

CacheRecord ==
  [clientOriginIndex : Index, clientProxyIndex : Index,
   clientPublicKey : Clients \cup {Nil}, clientDestination : Addrs \cup {Nil},
   clientSourceValidateLevel : Levels,
   serverOriginIndex : Index, serverProxyIndex : Index,
   serverPublicKey : Servers \cup {Nil}, serverDestination : Addrs \cup {Nil},
   serverSourceValidateLevel : Levels, obfuscateEnabled : BOOLEAN]

\* Every variable has its type; the goroutine in generateProxyIndexLocked is
\* the one that holds mapLock; no handler gets past its lookup with a nil
\* peer (the log.Panicf of lines 281 and 347 is not reached).
TypeOK ==
  /\ peers \in [PeerIds -> Peer] /\ allocated \in 0..MaxPeers
  /\ clientMap \in [Index -> 0..MaxPeers] /\ serverMap \in [Index -> 0..MaxPeers]
  /\ mapLock \in Goroutines \cup {Nil}
  /\ handler \in [Goroutines -> Handler]
  /\ main \in MainLoop
  /\ clientWriteChan \in Seq(Packet) /\ serverWriteChan \in Seq(Packet)
  /\ now \in 0..MaxTime /\ expireChan \in (0..MaxTime) \cup {Nil}
  /\ resolved \in ServerAddrs \cup {Nil} /\ resolver \in {"idle", "sending"}
  /\ persisting \in BOOLEAN
  /\ disk \subseteq CacheRecord
  /\ restarts \in 0..MaxRestarts
  /\ \A g \in Goroutines : mapLock = g <=> handler[g].pc = "generate"
  /\ \A g \in Goroutines :
       handler[g].pc \in {"lockClientMap", "generate", "mark", "patch", "rewrite", "address"} =>
         handler[g].peer # NoPeer
  /\ main.pc \in {"process", "patch"} => main.peer # NoPeer

\* An entry of clientMap is filed under its own clientProxyIndex, and one of
\* serverMap belongs to a peer the server has replied to: no lookup by a
\* stale or zero index can succeed (lines 411, 439, 582, cache.go 163-166).
TableKeyed ==
  /\ clientMap[0] = NoPeer /\ serverMap[0] = NoPeer
  /\ \A i \in Index : clientMap[i] # NoPeer => peers[clientMap[i]].clientProxyIndex = i
  /\ \A i \in Index : serverMap[i] # NoPeer => IsServerReplied(serverMap[i])

Returns ==
  \A i \in Index : clientMap[i] # NoPeer /\ IsServerReplied(clientMap[i]) =>
     serverMap[peers[clientMap[i]].serverProxyIndex] = clientMap[i]

\* The reply direction leads back: the proxy index that clientMap's peer has
\* given its client is filed in serverMap under the same peer, whatever
\* handshakes and expiries interleave.  After a restart this may fail: two
\* records that LoadLocked reads may claim the same index.
RoundTrip == restarts = 0 => Returns

\* What a step of a running process may do to the routes.
KeepsIndices ==
  restarts' = restarts =>
    \A i \in Index :
      /\ clientMap[i] # NoPeer => clientMap'[i] \in {clientMap[i], NoPeer}
      /\ serverMap[i] # NoPeer => serverMap'[i] \in {serverMap[i], NoPeer}

RemovesIdle ==
  restarts' = 0 =>
    \A i \in Index :
      /\ clientMap[i] # NoPeer /\ clientMap'[i] = NoPeer =>
           now - peers[clientMap[i]].lastActive > Timeout
      /\ serverMap[i] # NoPeer /\ serverMap'[i] = NoPeer =>
           now - peers[serverMap[i]].lastActive > Timeout

RoamsAsAllowed ==
  restarts' = restarts =>
    \A p \in 1..allocated :
      peers'[p].clientDestination # peers[p].clientDestination =>
        \/ peers[p].clientSourceValidateLevel \in {LevelDefault, LevelNone}
        \/ /\ peers[p].clientSourceValidateLevel = LevelIP
           /\ peers'[p].clientDestination.ip = peers[p].clientDestination.ip

\* While the process runs, an index in use is never handed to another peer
\* (generateProxyIndexLocked under mapLock).
NoHijack == [][KeepsIndices]_vars

\* A route is removed only when its own peer has been idle for longer than
\* Timeout (handlePeersExpireCheck deletes by the indices stored in peers),
\* again as long as no restart has made two peers claim one index.
ExpireOnlyIdle == [][RemovesIdle]_vars

\* A client is moved to another address only as far as its validation level
\* allows, whichever packets were accepted before (lines 547-571).
RoamingAllowed == [][RoamsAsAllowed]_vars

\* The MAC of a handshake packet that leaves the proxy covers the indices it
\* carries: whenever Patch rewrites an index it signs the packet again.
MACsFixed ==
  \A pkt \in {clientWriteChan[k] : k \in DOMAIN clientWriteChan}
             \cup {serverWriteChan[k] : k \in DOMAIN serverWriteChan} :
     pkt.type \in {"initiation", "response"} =>
        pkt.mac.sender = pkt.sender /\ pkt.mac.receiver = pkt.receiver

\* What the cache must know of a session for it to survive a restart.
Route(cp) ==
  <<cp.clientOriginIndex, cp.clientProxyIndex, cp.serverOriginIndex,
    cp.serverProxyIndex, cp.clientPublicKey, cp.serverPublicKey, cp.serverDestination>>

\* Once every persistForwardTableCache goroutine has run, the file has every
\* route of the table: no change of a route forgets to persist.
CacheCoversTable ==
  ~persisting /\ mapLock = Nil =>
    \A i \in Index : serverMap[i] # NoPeer =>
       \E cp \in disk : Route(cp) = Route(peers[serverMap[i]])

-----------------------------------------------------------------------------
(***************************************************************************)
(* Inductive invariants.                                                   *)
(***************************************************************************)
\* A handler whose new peer is not in the table yet.
Owns(g) ==
  \/ handler[g].pc = "lockClientMap"
  \/ handler[g].pc = "generate" /\ handler[g].pkt.type = "initiation"

\* A new peer is complete and reachable through its handler only, ...
OwnersSound ==
  \A g \in Goroutines : Owns(g) =>
    /\ handler[g].pkt.type = "initiation"
    /\ handler[g].peer \in 1..allocated
    /\ \A i \in Index : clientMap[i] # handler[g].peer /\ serverMap[i] # handler[g].peer
    /\ peers[handler[g].peer].serverProxyIndex = 0
    /\ peers[handler[g].peer].clientOriginIndex = handler[g].pkt.sender

\* ... no two handlers have the same one, ...
OwnersDistinct ==
  \A g, h \in Goroutines : Owns(g) /\ Owns(h) /\ handler[g].peer = handler[h].peer => g = h

\* ... and the peer a response has found stays in clientMap while the lock is
\* held.
RespondersSound ==
  \A g \in Goroutines : handler[g].pc = "generate" /\ ~Owns(g) =>
    /\ handler[g].pkt.type = "response"
    /\ handler[g].peer # NoPeer
    /\ handler[g].peer = clientMap[handler[g].pkt.receiver]

\* The maps refer to allocated peers only.
Bounded == \A i \in Index : clientMap[i] <= allocated /\ serverMap[i] <= allocated

\* Peers that the server has replied to are registered, in memory and on disk.
Registered == \A i \in Index : serverMap[i] # NoPeer => peers[serverMap[i]].clientProxyIndex # 0

Loadable == \A cp \in disk : cp.clientProxyIndex # 0 /\ cp.serverProxyIndex # 0

\* What processClientMessageInitiation and processServerMessageResponse rely
\* on at the insertion: the maps are keyed, before and after a restart, and
\* what a handler has read is still true when it inserts.
TableInv ==
  /\ TableKeyed /\ Bounded /\ Registered
  /\ OwnersSound /\ OwnersDistinct /\ RespondersSound
  /\ Loadable

\* Endpoints pick no zero index and no index is drawn unless there is a conflict.
NoZeroIndex == 0 \notin Senders /\ ~DebugAlwaysGenerateProxyIndex

\* Then the index a handler is about to insert is not in use.
IndexFree ==
  \A g \in Goroutines :
    /\ handler[g].pc \in {"start", "lockClientMap"}
       /\ handler[g].pkt.type \in {"initiation", "response"} => handler[g].pkt.sender # 0
    /\ handler[g].pc = "generate" /\ ~handler[g].taken =>
         /\ handler[g].proxy # 0
         /\ IF handler[g].pkt.type = "initiation" THEN clientMap[handler[g].proxy] = NoPeer
            ELSE serverMap[handler[g].proxy] = NoPeer

\* A tick is never from the future.
ClockInv == main.current <= now /\ (expireChan # Nil => expireChan <= now)

\* CacheCoversTable, strengthened for the time a handler holds the lock: a
\* response that is being registered will persist the table afterwards.
CacheInv ==
  \/ persisting
  \/ \E g \in Goroutines : handler[g].pc = "generate" /\ handler[g].pkt.type = "response"
  \/ \A i \in Index : serverMap[i] # NoPeer =>
       \E cp \in disk : Route(cp) = Route(peers[serverMap[i]])

-----------------------------------------------------------------------------
(***************************************************************************)
(* What the repository says and the code does not do: these have           *)
(* counterexamples.                                                        *)
(***************************************************************************)
\* README.md 14: an index conflict is resolved, that is,
\* generateProxyIndexLocked returns.
ConflictResolved ==
  \A g \in Goroutines : handler[g].pc = "generate" ~> handler[g].pc # "generate"

\* wgit.go 41-48: a generator is initialized with the key of the receiver of
\* the messages it signs.
GeneratorsKeyed ==
  \A p \in Values(clientMap) :
    /\ peers[p].clientCookieGenerator = peers[p].serverPublicKey
    /\ peers[p].serverCookieGenerator = peers[p].clientPublicKey

=============================================================================
