-------------------------- MODULE ServerConfigProofs --------------------------
(***************************************************************************)
(* What NewServerWithConfig and extractPeer promise (server.go), for every *)
(* configuration and every sequence of initiations.                        *)
(***************************************************************************)
EXTENDS ServerConfig, TLAPS

Running == pc \in {"ready", "decrypt", "match"}

Types ==
  /\ config \in Seq(ConfigServer)
  /\ pc \in {"start", "failed", "server", "peer", "ready", "decrypt", "match"}
  /\ si \in Nat \ {0} /\ pi \in Nat \ {0} /\ foundFallback \in BOOLEAN
  /\ msg \in Messages \cup {Nil}
  /\ peerPK \in ClientKeys \cup {ZeroKey}
  /\ matchedServerPeer \in Nat /\ fallbackServerPeer \in Nat

\* Block k has its private key; its peer a is initialized.
Keyed(k) == Running \/ (pc \in {"server", "peer"} /\ k < si) \/ (pc = "peer" /\ k = si)
Done(k, a) ==
  Running \/ (pc \in {"server", "peer"} /\ k < si) \/ (pc = "peer" /\ k = si /\ a < pi)

\* Peer a of block k, before and after Initialize, as the file says.
Raw(k, a) == Unmarshalled(config[k]).peers[a]
Final(k, a) ==
  InitializedPeer([csvl |-> config[k].csvl, ssvl |-> config[k].ssvl, privkey |-> KeyOf(config[k])],
                  Raw(k, a))

\* Block k is what the file says, as far as Initialize has got.
Peers(k) ==
  [a \in DOMAIN config[k].peers |-> IF Done(k, a) THEN Final(k, a) ELSE Raw(k, a)]
Block(k) ==
  [privkey |-> IF Keyed(k) THEN KeyOf(config[k]) ELSE KeyIn(config[k].privkey),
   privkeyFile |-> config[k].privkeyFile, csvl |-> config[k].csvl, ssvl |-> config[k].ssvl,
   peers |-> Peers(k)]

\* A block was found to have one complete key, from one place.
OneKey(s) ==
  /\ s.privkey # Nil <=> s.privkeyFile = Nil
  /\ Base64(KeyOf(s)) = IF s.privkey # Nil THEN s.privkey ELSE s.privkeyFile.text

\* What Initialize has checked so far.
Checked(k) ==
  /\ Keyed(k) => OneKey(config[k])
  /\ \A a \in DOMAIN config[k].peers : Done(k, a) => config[k].peers[a].forwardTo \in {"port", "full"}
  /\ \A a, b \in Named(config[k], Nil) : Done(k, a) /\ Done(k, b) => a = b

Initialized ==
  /\ pc = "start" => si = 1
  /\ pc \notin {"start", "failed"} =>
       /\ Unmarshals(config)
       /\ servers = [k \in DOMAIN config |-> Block(k)]
       /\ \A k \in DOMAIN config : Checked(k)
  /\ pc = "peer" =>
       /\ si \in DOMAIN config
       /\ foundFallback <=> \E a \in Named(config[si], Nil) : a < pi

\* x is the last of the positions ks before n, or 0 if there is none.
LastBefore(x, ks, n) ==
  \/ x = 0 /\ \A a \in ks : a >= n
  \/ x \in ks /\ x < n /\ \A a \in ks : a < n => a <= x

Client(m) == IF m.to = Nil THEN ZeroKey ELSE m.client

Extracting ==
  /\ pc \in {"start", "server", "peer"} => msg = Nil
  /\ pc \in {"decrypt", "match"} =>
       msg \in Messages /\ sp = Nil /\ \A k \in DOMAIN config : k < si => k \notin Deciphering
  /\ pc = "match" =>
       /\ si \in Deciphering
       /\ peerPK = Client(msg)
       /\ LastBefore(matchedServerPeer, Named(config[si], peerPK), pi)
       /\ LastBefore(fallbackServerPeer, Named(config[si], Nil), pi)
  /\ ExtractsConfigured

IInv == Types /\ Initialized /\ Extracting

-----------------------------------------------------------------------------
(***************************************************************************)
(* The initialization.                                                     *)
(***************************************************************************)
\* The configuration file has the types of server.go.
LEMMA ConfigTypes ==
  ASSUME Types, NEW k \in DOMAIN config
  PROVE  /\ k \in Nat /\ Len(config) \in Nat /\ DOMAIN config = 1..Len(config)
         /\ config[k] \in ConfigServer
         /\ Len(config[k].peers) \in Nat
         /\ DOMAIN config[k].peers = 1..Len(config[k].peers)
         /\ \A a \in DOMAIN config[k].peers : a \in Nat /\ config[k].peers[a] \in ConfigPeer
<1>1. config \in Seq(ConfigServer)
  BY DEF Types
<1>2. k \in Nat /\ Len(config) \in Nat /\ DOMAIN config = 1..Len(config)
  BY <1>1
<1>3. config[k] \in ConfigServer
  BY <1>1
<1>4. config[k].peers \in Seq(ConfigPeer)
  BY <1>3 DEF ConfigServer
<1> QED
  BY <1>2, <1>3, <1>4

\* An absent key, and no other, is nil after UnmarshalJSON.
LEMMA AbsentKey ==
  ASSUME NEW keys, Nil \notin keys, NEW text \in Text(keys) \cup {Nil}
  PROVE  KeyIn(text) = Nil <=> text = Nil
BY DEF KeyIn, Text

\* A step that initializes nothing of block k leaves it as it is.
LEMMA Unaffected ==
  ASSUME config' = config, NEW k, Keyed(k)' <=> Keyed(k),
         \A a \in DOMAIN config[k].peers : Done(k, a)' <=> Done(k, a)
  PROVE  Block(k)' = Block(k) /\ (Checked(k) => Checked(k)')
<1>1. ASSUME NEW a PROVE Raw(k, a)' = Raw(k, a) /\ Final(k, a)' = Final(k, a)
  BY DEF Raw, Final
<1>2. Peers(k)' = Peers(k)
  BY <1>1 DEF Peers
<1>3. Block(k)' = Block(k)
  BY <1>2 DEF Block
<1>4. Named(config[k], Nil) \subseteq DOMAIN config[k].peers
  BY DEF Named
<1>5. Checked(k) => Checked(k)'
  BY <1>4 DEF Checked
<1> QED
  BY <1>3, <1>5

\* A step that initializes nothing leaves Initialized as it is.
LEMMA UnaffectedAll ==
  ASSUME Initialized, UNCHANGED <<config, servers>>, pc \notin {"start", "failed"},
         pc' \notin {"start", "failed", "peer"},
         \A k \in DOMAIN config : Keyed(k)' <=> Keyed(k),
         \A k \in DOMAIN config : \A a \in DOMAIN config[k].peers : Done(k, a)' <=> Done(k, a)
  PROVE  Initialized'
<1>1. ASSUME NEW k \in DOMAIN config PROVE Block(k)' = Block(k) /\ (Checked(k) => Checked(k)')
  BY <1>1, Unaffected
<1>2. Unmarshals(config) /\ servers = [k \in DOMAIN config |-> Block(k)]
      /\ \A k \in DOMAIN config : Checked(k)
  BY DEF Initialized
<1>3. servers' = [k \in DOMAIN config' |-> Block(k)']
  BY <1>1, <1>2
<1>4. \A k \in DOMAIN config' : Checked(k)'
  BY <1>1, <1>2
<1> QED
  BY <1>2, <1>3, <1>4 DEF Initialized

\* startServer: the blocks are as they are in the file.
LEMMA StartServerStep ==
  ASSUME IInv, StartServer
  PROVE  Initialized'
<1>1. pc = "start" /\ si = 1 /\ si' = 1 /\ pc' = "server" /\ config' = config /\ Unmarshals(config)
      /\ servers' = [k \in DOMAIN config |-> Unmarshalled(config[k])]
  BY DEF IInv, Initialized, StartServer
<1>2. ASSUME NEW k \in DOMAIN config
      PROVE  Unmarshalled(config[k]) = Block(k)' /\ Checked(k)'
  <2>1. k \in DOMAIN config /\ k \in Nat /\ k >= 1
    BY <1>2, ConfigTypes DEF IInv
  <2>2. ~Keyed(k)' /\ \A a : ~Done(k, a)'
    BY <1>1, <2>1 DEF Keyed, Done, Running
  <2>3. Peers(k)' = [a \in DOMAIN config[k].peers |-> Unmarshalled(config[k]).peers[a]]
    BY <1>1, <2>2 DEF Peers, Raw
  <2>4. Unmarshalled(config[k]).peers = [a \in DOMAIN config[k].peers |-> Unmarshalled(config[k]).peers[a]]
    BY DEF Unmarshalled
  <2>5. Unmarshalled(config[k]) = Block(k)'
    BY Zenon, <1>1, <2>2, <2>3, <2>4 DEF Block, Unmarshalled
  <2> QED
    BY <2>2, <2>5 DEF Checked
<1> QED
  BY <1>1, <1>2 DEF Initialized

\* A failed start leaves nothing to show.
LEMMA FailStep ==
  ASSUME IInv, Fail
  PROVE  IInv'
BY DEF IInv, Types, Initialized, Extracting, ExtractsConfigured, Fail, extractVars

\* The last block is done: all of them have their key and peers.
LEMMA FinishServersStep ==
  ASSUME IInv, FinishServers, pc' = "ready"
  PROVE  Initialized'
<1>1. pc = "server" /\ UNCHANGED <<config, servers, si, pi>> /\ si \notin DOMAIN servers
  BY DEF FinishServers, Fail
<1>2. DOMAIN servers = DOMAIN config
  BY <1>1 DEF IInv, Initialized
<1>3. ASSUME NEW k \in DOMAIN config PROVE k < si
  BY <1>1, <1>2, <1>3, ConfigTypes DEF IInv, Types
<1>4. ASSUME NEW k \in DOMAIN config
      PROVE  (Keyed(k)' <=> Keyed(k)) /\ \A a : Done(k, a)' <=> Done(k, a)
  BY <1>1, <1>3, <1>4 DEF Keyed, Done, Running
<1> QED
  BY <1>1, <1>4, UnaffectedAll DEF IInv

\* The key of a block that BadServer lets through.
LEMMA KeyChecked ==
  ASSUME ConfigAssumption, NEW s \in ConfigServer, s.privkey # Nil => FromBase64(s.privkey),
         NEW key, key = KeyIn(s.privkey),
         key = Nil => s.privkeyFile # Nil /\ ReadFromFile(s.privkeyFile),
         key # Nil => s.privkeyFile = Nil
  PROVE  OneKey(s) /\ KeyOf(s) = IF key = Nil THEN s.privkeyFile.text.key ELSE key
<1>1. key = Nil <=> s.privkey = Nil
  BY AbsentKey DEF ConfigAssumption, ConfigServer
<1>2. KeyOf(s) = IF key = Nil THEN s.privkeyFile.text.key ELSE key
  BY <1>1 DEF KeyOf, KeyIn
<1>3. ASSUME NEW text \in Text(PrivateKeys), FromBase64(text)
      PROVE  Base64(text.key) = text
  BY <1>3 DEF Text, FromBase64, Base64
<1>4. CASE s.privkey = Nil
  <2>1. s.privkeyFile.text \in Text(PrivateKeys) /\ FromBase64(s.privkeyFile.text)
    BY <1>1, <1>4 DEF ConfigServer, ReadFromFile
  <2> QED
    BY <1>1, <1>3, <1>4, <2>1 DEF OneKey, KeyOf
<1>5. CASE s.privkey # Nil
  <2>1. s.privkey \in Text(PrivateKeys) /\ FromBase64(s.privkey)
    BY <1>5 DEF ConfigServer
  <2>2. Base64(s.privkey.key) = s.privkey
    BY <1>3, <2>1
  <2>3. s.privkeyFile = Nil
    BY <1>1, <1>5
  <2> QED
    BY <1>2, <1>5, <2>2, <2>3 DEF OneKey, KeyOf
<1> QED
  BY <1>2, <1>4, <1>5

\* Initialize finds the key of block si.
LEMMA InitializeServerStep ==
  ASSUME IInv, InitializeServer, pc' = "peer"
  PROVE  Initialized'
<1>1. /\ pc = "server" /\ si \in DOMAIN servers /\ ~BadServer(servers[si])
      /\ servers' = [servers EXCEPT ![si] = WithKey(servers[si])]
      /\ pi' = 1 /\ foundFallback' = FALSE /\ config' = config /\ si' = si
  BY DEF InitializeServer, Fail
<1>2. /\ Unmarshals(config) /\ servers = [k \in DOMAIN config |-> Block(k)]
      /\ \A k \in DOMAIN config : Checked(k)
  BY <1>1 DEF IInv, Initialized
<1>3. PICK n \in DOMAIN config : n = si
  BY <1>1, <1>2
<1>4. /\ n \in Nat /\ config[n] \in ConfigServer
      /\ \A a \in DOMAIN config[n].peers : a \in Nat /\ a >= 1
      /\ \A k \in DOMAIN config : k \in Nat
  BY ConfigTypes DEF IInv
<1>5. ASSUME NEW k \in DOMAIN config, k # n
      PROVE  Block(k)' = Block(k) /\ Checked(k)'
  <2>1. (Keyed(k)' <=> Keyed(k)) /\ \A a : Done(k, a)' <=> Done(k, a)
    BY <1>1, <1>3, <1>4, <1>5 DEF Keyed, Done, Running
  <2> QED
    BY <1>1, <1>2, <2>1, Unaffected
<1>6. /\ ~Keyed(n) /\ Keyed(n)'
      /\ \A a \in DOMAIN config[n].peers : ~Done(n, a) /\ ~Done(n, a)'
  BY <1>1, <1>3, <1>4 DEF Keyed, Done, Running
<1>7. Peers(n)' = Peers(n)
  BY <1>1, <1>6 DEF Peers, Raw
<1>8. servers[n] = Block(n) /\ Block(n).privkey = KeyIn(config[n].privkey)
      /\ Block(n).privkeyFile = config[n].privkeyFile
  BY <1>2, <1>6 DEF Block
<1>9. OneKey(config[n]) /\ KeyOf(config[n]) = IF Block(n).privkey = Nil
                                              THEN config[n].privkeyFile.text.key ELSE Block(n).privkey
  <2>1. config[n].privkey # Nil => FromBase64(config[n].privkey)
    BY <1>2 DEF Unmarshals
  <2>2. /\ Block(n).privkey = Nil => config[n].privkeyFile # Nil /\ ReadFromFile(config[n].privkeyFile)
        /\ Block(n).privkey # Nil => config[n].privkeyFile = Nil
    BY <1>1, <1>3, <1>8 DEF BadServer
  <2> QED
    BY <1>4, <1>8, <2>1, <2>2, KeyChecked, ConfigAssumption
<1>10. WithKey(Block(n)) = Block(n)'
  BY <1>1, <1>6, <1>7, <1>9 DEF WithKey, Block
<1>11. servers' = [k \in DOMAIN config' |-> Block(k)']
  BY <1>1, <1>2, <1>3, <1>5, <1>10
<1>12. Checked(n)'
  <2>1. Named(config[n], Nil) \subseteq DOMAIN config[n].peers
    BY DEF Named
  <2> QED
    BY <1>1, <1>6, <1>9, <2>1 DEF Checked
<1>13. \A k \in DOMAIN config' : Checked(k)'
  BY <1>1, <1>5, <1>12
<1>14. ~\E a \in Named(config[n], Nil) : a < 1
  BY <1>4 DEF Named
<1> QED
  BY <1>1, <1>2, <1>3, <1>11, <1>13, <1>14 DEF Initialized

\* Initialize is done with the peers of block si.
LEMMA FinishPeersStep ==
  ASSUME IInv, FinishPeers
  PROVE  Initialized'
<1>1. pc = "peer" /\ pc' = "server" /\ si' = si + 1 /\ UNCHANGED <<config, servers, pi>>
      /\ pi \notin DOMAIN servers[si].peers
  BY DEF FinishPeers
<1>2. si \in DOMAIN config /\ servers = [k \in DOMAIN config |-> Block(k)]
  BY <1>1 DEF IInv, Initialized
<1>3. DOMAIN servers[si].peers = DOMAIN config[si].peers
  BY <1>2 DEF Block, Peers
<1>4. PICK n \in DOMAIN config : n = si
  BY <1>2
<1>5. pi \notin DOMAIN config[n].peers
  BY <1>1, <1>3, <1>4
<1>6. \A a \in DOMAIN config[n].peers : a < pi
  BY <1>5, ConfigTypes DEF IInv, Types
<1>7. ASSUME NEW k \in DOMAIN config
      PROVE  (Keyed(k)' <=> Keyed(k)) /\ \A a \in DOMAIN config[k].peers : Done(k, a)' <=> Done(k, a)
  <2>1. k \in Nat /\ si \in Nat
    BY ConfigTypes DEF IInv, Types
  <2>2. CASE k = n
    BY <1>1, <1>4, <1>6, <2>1, <2>2 DEF Keyed, Done, Running
  <2>3. CASE k # n
    BY <1>1, <1>4, <2>1, <2>3 DEF Keyed, Done, Running
  <2> QED
    BY <2>2, <2>3
<1> QED
  BY <1>1, <1>7, UnaffectedAll DEF IInv

\* A peer is initialized from the levels and the key of its block alone.
LEMMA InitializedFrom ==
  ASSUME NEW s, NEW t, NEW p, s.csvl = t.csvl, s.ssvl = t.ssvl, s.privkey = t.privkey
  PROVE  InitializedPeer(s, p) = InitializedPeer(t, p)
BY DEF InitializedPeer

\* What a peer is before Initialize.
LEMMA RawPeer ==
  ASSUME Types, NEW k \in DOMAIN config, NEW a \in DOMAIN config[k].peers
  PROVE  /\ Raw(k, a) = [pubkey |-> KeyIn(config[k].peers[a].pubkey),
                         forwardTo |-> config[k].peers[a].forwardTo,
                         csvl |-> config[k].peers[a].csvl, ssvl |-> config[k].peers[a].ssvl,
                         forwardToAddress |-> Nil, serverPublicKey |-> Nil]
         /\ isFallback(Raw(k, a)) <=> a \in Named(config[k], Nil)
BY DEF Raw, Unmarshalled, isFallback, Named

\* Initialize fills in peer pi of block si.
LEMMA InitializePeerStep ==
  ASSUME IInv, InitializePeer, pc' # "failed"
  PROVE  Initialized'
<1>1. /\ pc = "peer" /\ pc' = "peer" /\ pi \in DOMAIN servers[si].peers
      /\ ~BadPeer(servers[si].peers[pi])
      /\ foundFallback' = (foundFallback \/ isFallback(servers[si].peers[pi]))
      /\ servers' = [servers EXCEPT ![si] =
           WithPeer(servers[si], pi, InitializedPeer(servers[si], servers[si].peers[pi]))]
      /\ pi' = pi + 1 /\ config' = config /\ si' = si
  BY DEF InitializePeer, Fail
<1>2. /\ Unmarshals(config) /\ servers = [k \in DOMAIN config |-> Block(k)]
      /\ \A k \in DOMAIN config : Checked(k)
      /\ si \in DOMAIN config
      /\ foundFallback <=> \E a \in Named(config[si], Nil) : a < pi
  BY <1>1 DEF IInv, Initialized
<1>3. PICK n \in DOMAIN config : n = si
  BY <1>2
<1>4. servers[n] = Block(n) /\ Block(n).peers = Peers(n) /\ DOMAIN Peers(n) = DOMAIN config[n].peers
  BY <1>2 DEF Block, Peers
<1>5. PICK m \in DOMAIN config[n].peers : m = pi
  BY <1>1, <1>3, <1>4
<1>6. /\ n \in Nat /\ m \in Nat /\ \A a \in DOMAIN config[n].peers : a \in Nat
      /\ \A k \in DOMAIN config : k \in Nat
  BY ConfigTypes DEF IInv
<1>7. ASSUME NEW k \in DOMAIN config, k # n
      PROVE  Block(k)' = Block(k) /\ Checked(k)'
  <2>1. (Keyed(k)' <=> Keyed(k)) /\ \A a : Done(k, a)' <=> Done(k, a)
    BY <1>1, <1>3, <1>6, <1>7 DEF Keyed, Done, Running
  <2> QED
    BY <1>1, <1>2, <2>1, Unaffected
<1>8. /\ Keyed(n) /\ Keyed(n)' /\ ~Done(n, m) /\ Done(n, m)'
      /\ \A a \in DOMAIN config[n].peers : a # m => (Done(n, a)' <=> Done(n, a))
      /\ \A a \in DOMAIN config[n].peers : Done(n, a) => a < m
      /\ \A a \in DOMAIN config[n].peers : Done(n, a)' => a <= m
  BY <1>1, <1>3, <1>5, <1>6 DEF Keyed, Done, Running
<1>9. Peers(n)[m] = Raw(n, m)
  BY <1>8 DEF Peers
<1>10. InitializedPeer(Block(n), Raw(n, m)) = Final(n, m)
  BY <1>8, InitializedFrom DEF Block, Final
<1>11. ASSUME NEW a PROVE Raw(n, a)' = Raw(n, a) /\ Final(n, a)' = Final(n, a)
  BY <1>1 DEF Raw, Final
<1>12. Peers(n)' = [Peers(n) EXCEPT ![m] = Final(n, m)]
  BY Zenon, <1>1, <1>8, <1>11 DEF Peers
<1>13. WithPeer(Block(n), m, Final(n, m)) = Block(n)'
  BY <1>1, <1>8, <1>12 DEF WithPeer, Block
<1>14. servers' = [k \in DOMAIN config' |-> Block(k)']
  BY <1>1, <1>2, <1>3, <1>4, <1>5, <1>7, <1>9, <1>10, <1>13
<1>15. /\ isFallback(Raw(n, m)) <=> m \in Named(config[n], Nil)
       /\ Raw(n, m).forwardTo = config[n].peers[m].forwardTo
  BY RawPeer DEF IInv
<1>16. /\ m \in Named(config[n], Nil) => ~foundFallback
       /\ config[n].peers[m].forwardTo \notin {"missing", "bad"}
       /\ foundFallback' <=> foundFallback \/ m \in Named(config[n], Nil)
  BY Zenon, <1>1, <1>3, <1>4, <1>5, <1>9, <1>15 DEF BadPeer
<1>17. config[n].peers[m].forwardTo \in {"port", "full"}
  <2>1. config[n].peers[m] \in ConfigPeer
    BY ConfigTypes DEF IInv
  <2> QED
    BY <1>16, <2>1 DEF ConfigPeer
<1>18. Named(config[n], Nil) \subseteq DOMAIN config[n].peers
  BY DEF Named
<1>19. foundFallback <=> \E a \in Named(config[n], Nil) : a < m
  BY <1>2, <1>3, <1>5
<1>20. foundFallback' <=> \E a \in Named(config[n], Nil) : a < m + 1
  BY <1>6, <1>16, <1>18, <1>19
<1>21. Checked(n)'
  <2>1. Keyed(n)' => OneKey(config'[n])
    BY <1>1, <1>2, <1>8 DEF Checked
  <2>2. \A a \in DOMAIN config[n].peers : Done(n, a)' => config[n].peers[a].forwardTo \in {"port", "full"}
    BY <1>2, <1>8, <1>17 DEF Checked
  <2>3. ASSUME NEW a \in Named(config[n], Nil), NEW b \in Named(config[n], Nil), Done(n, a)', Done(n, b)'
        PROVE  a = b
    <3>1. ASSUME a # m, b # m PROVE a = b
      BY <1>2, <1>8, <1>18, <2>3, <3>1 DEF Checked
    <3>2. ASSUME a = m, b # m PROVE FALSE
      BY <1>8, <1>16, <1>18, <1>19, <2>3, <3>2
    <3>3. ASSUME a # m, b = m PROVE FALSE
      BY <1>8, <1>16, <1>18, <1>19, <2>3, <3>3
    <3> QED
      BY <3>1, <3>2, <3>3
  <2> QED
    BY <1>1, <2>1, <2>2, <2>3 DEF Checked
<1>22. \A k \in DOMAIN config' : Checked(k)'
  BY <1>1, <1>7, <1>21
<1> QED
  BY <1>1, <1>2, <1>3, <1>5, <1>14, <1>20, <1>22 DEF Initialized

-----------------------------------------------------------------------------
(***************************************************************************)
(* extractPeer.                                                            *)
(***************************************************************************)
\* While the server runs, its blocks and peers are the initialized ones.
LEMMA RunningBlocks ==
  ASSUME IInv, Running
  PROVE  /\ servers = [k \in DOMAIN config |-> Block(k)]
         /\ \A k \in DOMAIN config :
              /\ servers[k].privkey = KeyOf(config[k])
              /\ DOMAIN servers[k].peers = DOMAIN config[k].peers
              /\ \A a \in DOMAIN config[k].peers : servers[k].peers[a] = Final(k, a)
<1>1. servers = [k \in DOMAIN config |-> Block(k)]
  BY DEF IInv, Initialized, Running
<1>2. ASSUME NEW k \in DOMAIN config
      PROVE  /\ Block(k).privkey = KeyOf(config[k])
             /\ DOMAIN Block(k).peers = DOMAIN config[k].peers
             /\ \A a \in DOMAIN config[k].peers : Block(k).peers[a] = Final(k, a)
  BY DEF Block, Peers, Keyed, Done
<1> QED
  BY <1>1, <1>2

\* A step of extractPeer changes no block.
LEMMA RunningStep ==
  ASSUME Initialized, Running, Running', UNCHANGED <<config, servers>>
  PROVE  Initialized'
BY UnaffectedAll DEF Running, Keyed, Done

\* The first block that deciphers is the one the loop stops at.
LEMMA FirstIs ==
  ASSUME Types, NEW n \in Deciphering, \A k \in DOMAIN config : k < n => k \notin Deciphering
  PROVE  FirstDeciphering = n
<1>1. \A k \in Deciphering : k \in DOMAIN config /\ k \in Nat
  BY ConfigTypes DEF Deciphering
<1>2. \A k \in Deciphering : n <= k
  BY <1>1
<1>3. \A m \in Deciphering : (\A k \in Deciphering : m <= k) => m = n
  BY <1>1, <1>2
<1> QED
  BY <1>2, <1>3 DEF FirstDeciphering

\* It depends on the file and on the initiation alone.
LEMMA FirstUnchanged ==
  ASSUME UNCHANGED <<config, msg>>
  PROVE  Deciphering' = Deciphering /\ FirstDeciphering' = FirstDeciphering
<1>1. Deciphering' = Deciphering
  BY DEF Deciphering
<1> QED
  BY <1>1 DEF FirstDeciphering

\* The last of some positions is the one the loop keeps.
LEMMA LastIs ==
  ASSUME NEW ks \in SUBSET Nat, NEW x \in ks, \A a \in ks : a <= x
  PROVE  LastOf(ks) = x
<1>1. \A y \in ks : (\A a \in ks : a <= y) => y = x
  OBVIOUS
<1> QED
  BY Zenon, <1>1 DEF LastOf

\* One more round of the loop over the peers.
LEMMA LastStep ==
  ASSUME NEW ks \in SUBSET Nat, NEW n \in Nat, NEW x \in Nat, LastBefore(x, ks, n)
  PROVE  LastBefore(IF n \in ks THEN n ELSE x, ks, n + 1)
<1>1. CASE n \in ks
  BY <1>1 DEF LastBefore
<1>2. CASE n \notin ks
  BY <1>2 DEF LastBefore
<1> QED
  BY <1>1, <1>2

\* The result of the loop over the peers, when it is over.
LEMMA LastEnd ==
  ASSUME NEW ks \in SUBSET (Nat \ {0}), NEW n \in Nat, NEW x \in Nat, LastBefore(x, ks, n),
         \A a \in ks : a < n
  PROVE  /\ x = 0 <=> ks = {}
         /\ x # 0 => x \in ks /\ LastOf(ks) = x
<1>1. x = 0 <=> ks = {}
  BY DEF LastBefore
<1>2. x # 0 => x \in ks /\ \A a \in ks : a <= x
  BY DEF LastBefore
<1> QED
  BY <1>1, <1>2, LastIs

\* What extractPeer makes of a peer is what the file says.
LEMMA FinalPeer ==
  ASSUME Types, NEW k \in DOMAIN config, NEW a \in DOMAIN config[k].peers, NEW client,
         config[k].peers[a].forwardTo \in {"port", "full"}
  PROVE  /\ [Final(k, a) EXCEPT !.pubkey = client] =
              [pubkey |-> client, forwardTo |-> config[k].peers[a].forwardTo,
               forwardToAddress |-> IF config[k].peers[a].forwardTo = "full" THEN "own" ELSE "address",
               csvl |-> Override(config[k].peers[a].csvl, config[k].csvl),
               ssvl |-> Override(config[k].peers[a].ssvl, config[k].ssvl),
               serverPublicKey |-> KeyOf(config[k])]
         /\ Final(k, a).pubkey = KeyIn(config[k].peers[a].pubkey)
<1>1. Raw(k, a) = [pubkey |-> KeyIn(config[k].peers[a].pubkey),
                   forwardTo |-> config[k].peers[a].forwardTo,
                   csvl |-> config[k].peers[a].csvl, ssvl |-> config[k].peers[a].ssvl,
                   forwardToAddress |-> Nil, serverPublicKey |-> Nil]
  BY RawPeer
<1> QED
  BY <1>1 DEF Final, InitializedPeer, Override

\* Receive starts the search over the blocks.
LEMMA ReceiveStep ==
  ASSUME IInv, NEW m \in Messages, Receive(m)
  PROVE  IInv'
<1>1. Types'
  BY DEF IInv, Types, Receive
<1>2. Initialized'
  BY RunningStep DEF IInv, Running, Receive
<1>3. \A k \in DOMAIN config' : ~(k < si')
  BY <1>1, ConfigTypes DEF IInv, Receive
<1>4. Extracting'
  BY <1>3 DEF Extracting, ExtractsConfigured, Receive
<1> QED
  BY <1>1, <1>2, <1>4 DEF IInv

\* One round of the loop over the blocks, or its end.
LEMMA TryDecryptStep ==
  ASSUME IInv, TryDecryptPeerPKWith
  PROVE  IInv'
<1>1. /\ pc = "decrypt" /\ Running /\ UNCHANGED <<config, servers, msg, sp>>
      /\ msg \in Messages /\ sp = Nil /\ si \in Nat \ {0}
      /\ \A k \in DOMAIN config : k < si => k \notin Deciphering
  BY DEF IInv, Types, Extracting, TryDecryptPeerPKWith, extractVars, Running
<1>2. /\ DOMAIN servers = DOMAIN config
      /\ \A k \in DOMAIN config : Decrypts(servers[k].privkey, msg) <=> k \in Deciphering
  BY <1>1, RunningBlocks DEF Deciphering
<1>3. Deciphering' = Deciphering /\ Deciphering \subseteq DOMAIN config
  BY <1>1 DEF Deciphering
<1>4. \A k \in DOMAIN config : k \in Nat
  BY ConfigTypes DEF IInv
<1>5. msg.client \in ClientKeys \cup {ZeroKey}
  BY <1>1, ConfigAssumption DEF ConfigAssumption
<1>6. Types'
  BY <1>5 DEF IInv, Types, TryDecryptPeerPKWith, extractVars
<1>7. Initialized'
  BY <1>1, RunningStep DEF IInv, Running, TryDecryptPeerPKWith
<1>8. CASE si \notin DOMAIN servers
  <2>1. Deciphering = {}
    <3>1. \A k \in DOMAIN config : k < si
      BY <1>1, <1>2, <1>8, ConfigTypes DEF IInv
    <3> QED
      BY <1>1, <1>3, <3>1
  <2>2. Expected' = Nil
    BY <1>3, <2>1 DEF Expected
  <2> QED
    BY <1>1, <1>6, <1>7, <1>8, <2>2
    DEF IInv, Extracting, ExtractsConfigured, TryDecryptPeerPKWith, extractVars
<1>9. CASE si \in DOMAIN servers /\ Decrypts(servers[si].privkey, msg)
  <2>1. /\ pc' = "match" /\ pi' = 1 /\ si' = si /\ peerPK' = Client(msg)
        /\ matchedServerPeer' = 0 /\ fallbackServerPeer' = 0
    BY <1>9 DEF TryDecryptPeerPKWith, Client
  <2>2. PICK n \in DOMAIN config : n = si
    BY <1>2, <1>9
  <2>3. \A a \in DOMAIN config[n].peers : a >= 1
    BY ConfigTypes DEF IInv
  <2>4. ASSUME NEW key PROVE LastBefore(0, Named(config[n], key), 1)
    BY <2>3 DEF LastBefore, Named
  <2>5. /\ LastBefore(matchedServerPeer', Named(config'[si'], peerPK'), pi')
        /\ LastBefore(fallbackServerPeer', Named(config'[si'], Nil), pi')
    BY <1>1, <2>1, <2>2, <2>4
  <2> QED
    BY <1>1, <1>2, <1>3, <1>6, <1>7, <1>9, <2>1, <2>5 DEF IInv, Extracting, ExtractsConfigured
<1>10. CASE si \in DOMAIN servers /\ ~Decrypts(servers[si].privkey, msg)
  <2>1. pc' = "decrypt" /\ si' = si + 1
    BY <1>1, <1>10 DEF TryDecryptPeerPKWith
  <2>2. \A k \in DOMAIN config' : k < si' => k \notin Deciphering'
    BY <1>1, <1>2, <1>3, <1>4, <1>10, <2>1
  <2> QED
    BY <1>1, <1>6, <1>7, <2>1, <2>2 DEF IInv, Extracting, ExtractsConfigured
<1> QED
  BY <1>8, <1>9, <1>10

\* One round of the loop over the peers.
LEMMA MatchPeerStep ==
  ASSUME IInv, MatchPeer
  PROVE  IInv'
<1>1. /\ pc = "match" /\ pc' = "match" /\ Running /\ Running'
      /\ UNCHANGED <<config, servers, si, msg, sp, peerPK>> /\ pi' = pi + 1
      /\ pi \in DOMAIN servers[si].peers /\ pi \in Nat \ {0}
      /\ si \in Deciphering /\ peerPK = Client(msg) /\ msg \in Messages
      /\ matchedServerPeer \in Nat /\ fallbackServerPeer \in Nat
      /\ LastBefore(matchedServerPeer, Named(config[si], peerPK), pi)
      /\ LastBefore(fallbackServerPeer, Named(config[si], Nil), pi)
  BY DEF IInv, Types, Extracting, MatchPeer, Running
<1>2. PICK n \in DOMAIN config : n = si
  BY <1>1 DEF Deciphering
<1>3. /\ DOMAIN servers[n].peers = DOMAIN config[n].peers
      /\ \A a \in DOMAIN config[n].peers : servers[n].peers[a] = Final(n, a)
  BY <1>1, RunningBlocks
<1>4. PICK m \in DOMAIN config[n].peers : m = pi
  BY <1>1, <1>2, <1>3
<1>5. servers[si].peers[pi].pubkey = KeyIn(config[n].peers[m].pubkey)
  <2>1. config[n].peers[m].forwardTo \in {"port", "full"}
    BY <1>1 DEF IInv, Initialized, Checked, Done, Running
  <2>2. Final(n, m).pubkey = KeyIn(config[n].peers[m].pubkey)
    BY Zenon, <2>1, FinalPeer DEF IInv
  <2> QED
    BY <1>2, <1>3, <1>4, <2>2
<1>6. peerPK # Nil
  BY ConfigAssumption DEF ConfigAssumption, IInv, Types
<1>7. /\ matchedServerPeer' = IF m \in Named(config[n], peerPK) THEN m ELSE matchedServerPeer
      /\ fallbackServerPeer' = IF m \in Named(config[n], Nil) THEN m ELSE fallbackServerPeer
  BY <1>4, <1>5, <1>6 DEF MatchPeer, isFallback, Named
<1>8. ASSUME NEW key PROVE Named(config[n], key) \in SUBSET Nat
  BY ConfigTypes DEF Named, IInv
<1>9. /\ LastBefore(matchedServerPeer', Named(config'[si'], peerPK'), pi')
      /\ LastBefore(fallbackServerPeer', Named(config'[si'], Nil), pi')
  BY <1>1, <1>2, <1>4, <1>7, <1>8, LastStep
<1>10. Types'
  BY <1>1, <1>4, <1>7 DEF IInv, Types, MatchPeer
<1>11. Initialized'
  BY Zenon, <1>1, RunningStep DEF IInv
<1>12. Deciphering' = Deciphering
  BY <1>1 DEF Deciphering
<1> QED
  BY <1>1, <1>9, <1>10, <1>11, <1>12 DEF IInv, Extracting, ExtractsConfigured

\* The result.
LEMMA ReturnPeerStep ==
  ASSUME IInv, ReturnPeer
  PROVE  IInv'
<1>1. /\ pc = "match" /\ pc' = "ready" /\ Running /\ Running'
      /\ UNCHANGED <<config, servers, msg>>
      /\ pi \notin DOMAIN servers[si].peers /\ pi \in Nat \ {0}
      /\ si \in Deciphering /\ peerPK = Client(msg)
      /\ \A k \in DOMAIN config : k < si => k \notin Deciphering
      /\ matchedServerPeer \in Nat /\ fallbackServerPeer \in Nat
      /\ LastBefore(matchedServerPeer, Named(config[si], peerPK), pi)
      /\ LastBefore(fallbackServerPeer, Named(config[si], Nil), pi)
      /\ sp' = IF Chosen = 0 THEN Nil ELSE [servers[si].peers[Chosen] EXCEPT !.pubkey = peerPK]
  BY DEF IInv, Types, Extracting, ReturnPeer, Running
<1>2. PICK n \in DOMAIN config : n = si
  BY <1>1 DEF Deciphering
<1>3. /\ DOMAIN servers[n].peers = DOMAIN config[n].peers
      /\ \A a \in DOMAIN config[n].peers : servers[n].peers[a] = Final(n, a)
  BY <1>1, RunningBlocks
<1>4. \A a \in DOMAIN config[n].peers : a \in Nat \ {0} /\ a < pi
  BY <1>1, <1>2, <1>3, ConfigTypes DEF IInv
<1>5. FirstDeciphering = n
  BY <1>1, <1>2, FirstIs DEF IInv
<1>6. ASSUME NEW key
      PROVE  Named(config[n], key) \in SUBSET (Nat \ {0}) /\ \A a \in Named(config[n], key) : a < pi
  BY <1>4 DEF Named
<1>7. PICK named : named = IF Named(config[n], peerPK) # {} THEN Named(config[n], peerPK)
                           ELSE Named(config[n], Nil)
  OBVIOUS
<1>8. (Chosen = 0 <=> named = {}) /\ (Chosen # 0 => Chosen \in named /\ LastOf(named) = Chosen)
  <2>1. /\ matchedServerPeer = 0 <=> Named(config[n], peerPK) = {}
        /\ matchedServerPeer # 0 => /\ matchedServerPeer \in Named(config[n], peerPK)
                                    /\ LastOf(Named(config[n], peerPK)) = matchedServerPeer
    BY Zenon, <1>1, <1>2, <1>6, LastEnd
  <2>2. /\ fallbackServerPeer = 0 <=> Named(config[n], Nil) = {}
        /\ fallbackServerPeer # 0 => /\ fallbackServerPeer \in Named(config[n], Nil)
                                     /\ LastOf(Named(config[n], Nil)) = fallbackServerPeer
    BY <1>1, <1>2, <1>6, LastEnd
  <2> QED
    BY <1>7, <2>1, <2>2 DEF Chosen
<1>9. sp' = Expected
  <2>1. CASE named = {}
    BY Zenon, <1>1, <1>5, <1>7, <1>8, <2>1 DEF Expected, Client
  <2>2. CASE named # {}
    <3>1. PICK m \in DOMAIN config[n].peers : m = Chosen
      BY <1>7, <1>8, <2>2 DEF Named
    <3>2. config[n].peers[m].forwardTo \in {"port", "full"}
      BY <1>1 DEF IInv, Initialized, Checked, Done, Running
    <3>3. sp' = [Final(n, m) EXCEPT !.pubkey = peerPK]
      BY <1>1, <1>2, <1>3, <1>8, <2>2, <3>1
    <3>4. LastOf(named) = m
      BY <1>8, <2>2, <3>1
    <3>5. [Final(n, m) EXCEPT !.pubkey = peerPK] =
            [pubkey |-> peerPK, forwardTo |-> config[n].peers[m].forwardTo,
             forwardToAddress |-> IF config[n].peers[m].forwardTo = "full" THEN "own" ELSE "address",
             csvl |-> Override(config[n].peers[m].csvl, config[n].csvl),
             ssvl |-> Override(config[n].peers[m].ssvl, config[n].ssvl),
             serverPublicKey |-> KeyOf(config[n])]
      BY <3>2, FinalPeer DEF IInv
    <3> QED
      BY Zenon, <1>1, <1>5, <1>7, <2>2, <3>3, <3>4, <3>5 DEF Expected, Client
  <2> QED
    BY <2>1, <2>2
<1>10. Expected' = Expected
  BY <1>1, FirstUnchanged DEF Expected
<1>11. Types'
  BY <1>1 DEF IInv, Types, ReturnPeer
<1>12. Initialized'
  BY <1>1, RunningStep DEF IInv
<1> QED
  BY <1>1, <1>9, <1>10, <1>11, <1>12 DEF IInv, Extracting, ExtractsConfigured

-----------------------------------------------------------------------------
(***************************************************************************)
(* The theorems.                                                           *)
(***************************************************************************)
\* The initialization, which no initiation interrupts.
LEMMA InitializingStep ==
  ASSUME IInv, pc' # "failed",
         StartServer \/ FinishServers \/ InitializeServer \/ FinishPeers \/ InitializePeer
  PROVE  IInv'
<1>1. /\ pc \in {"start", "server", "peer"} /\ UNCHANGED <<config, extractVars>>
      /\ pc' \in {"server", "peer", "ready"}
  BY DEF StartServer, FinishServers, InitializeServer, FinishPeers, InitializePeer, Fail
<1>2. Types'
  <2>1. si' \in Nat \ {0} /\ pi' \in Nat \ {0}
    BY DEF IInv, Types, StartServer, FinishServers, InitializeServer, FinishPeers, InitializePeer,
           Fail
  <2>2. foundFallback' \in BOOLEAN
    BY Zenon
    DEF IInv, Types, StartServer, FinishServers, InitializeServer, FinishPeers, InitializePeer,
        Fail, isFallback
  <2> QED
    BY <1>1, <2>1, <2>2 DEF IInv, Types, extractVars
<1>3. Initialized'
  <2>1. FinishServers => pc' = "ready"
    BY DEF FinishServers, Fail
  <2>2. InitializeServer => pc' = "peer"
    BY DEF InitializeServer, Fail
  <2> QED
    BY <2>1, <2>2, StartServerStep, FinishServersStep, InitializeServerStep, FinishPeersStep,
       InitializePeerStep
<1>4. Extracting'
  BY <1>1 DEF IInv, Extracting, ExtractsConfigured, extractVars
<1> QED
  BY <1>2, <1>3, <1>4 DEF IInv

\* The blocks of a server are those of the configuration file as far as
\* Initialize has got, what it has checked holds of them, and the loops of
\* extractPeer have found what there is among what they have passed.
LEMMA ConfigInvariant == Spec => []IInv
<1>1. Init => IInv
  <2>1. Init => Types
    <3>1. Configs \subseteq Seq(ConfigServer)
      BY ConfigAssumption DEF ConfigAssumption
    <3>2. Init => config \in Seq(ConfigServer)
      BY <3>1, Zenon DEF Init
    <3>3. Init => foundFallback \in BOOLEAN /\ peerPK \in ClientKeys \cup {ZeroKey}
      BY Zenon DEF Init
    <3>4. Init => si \in Nat \ {0} /\ pi \in Nat \ {0} /\ matchedServerPeer \in Nat
                  /\ fallbackServerPeer \in Nat
      BY DEF Init
    <3> QED
      BY <3>2, <3>3, <3>4, Zenon DEF Init, Types
  <2>2. Init => Initialized /\ Extracting
    BY DEF Init, Initialized, Extracting, ExtractsConfigured
  <2> QED
    BY <2>1, <2>2 DEF IInv
<1>2. IInv /\ [Next]_vars => IInv'
  <2> SUFFICES ASSUME IInv, [Next]_vars PROVE IInv'
    OBVIOUS
  <2>1. CASE UNCHANGED vars
    <3>1. UNCHANGED <<config, servers, pc, si, pi, foundFallback, msg, peerPK, matchedServerPeer,
                      fallbackServerPeer, sp>>
      BY <2>1 DEF vars
    <3>2. Types'
      BY <3>1 DEF IInv, Types
    <3>3. Initialized'
      <4>1. ASSUME NEW k PROVE Block(k)' = Block(k) /\ (Checked(k) => Checked(k)')
        BY <3>1, Unaffected DEF Keyed, Done, Running
      <4> QED
        BY <3>1, <4>1 DEF IInv, Initialized
    <3>4. Extracting'
      <4>1. Deciphering' = Deciphering
        BY <3>1 DEF Deciphering
      <4>2. Expected' = Expected
        BY Zenon, <3>1, <4>1, FirstUnchanged DEF Expected
      <4> QED
        BY <3>1, <4>1, <4>2 DEF IInv, Extracting, ExtractsConfigured
    <3> QED
      BY <3>2, <3>3, <3>4 DEF IInv
  <2>2. CASE pc' = "failed" /\ Next
    <3>1. Types'
      BY Zenon, <2>2 DEF IInv, Types, Next, FailStart, StartServer, FinishServers, InitializeServer,
         FinishPeers, InitializePeer, Receive, TryDecryptPeerPKWith, MatchPeer, ReturnPeer, Exited,
         Fail, extractVars, vars
    <3> QED
      BY <2>2, <3>1 DEF IInv, Initialized, Extracting, ExtractsConfigured
  <2>3. CASE pc' # "failed" /\ Next
    BY <2>1, <2>3, InitializingStep, ReceiveStep, TryDecryptStep, MatchPeerStep, ReturnPeerStep
    DEF Next, FailStart, Fail, Exited
  <2> QED
    BY <2>1, <2>2, <2>3
<1> QED
  BY <1>1, <1>2, PTL DEF Spec

\* Whatever the configuration file and whatever initiations came before,
\* extractPeer answers with the peer the file has for the initiation.
THEOREM ExtractionFollowsConfig == Spec => []ExtractsConfigured
<1>1. IInv => ExtractsConfigured
  BY DEF IInv, Extracting
<1> QED
  BY <1>1, ConfigInvariant, PTL

\* Whatever the configuration file, a server that NewServerWithConfig lets
\* start has one complete key per block and one fallback per block at most.
THEOREM StartedServersAreUnambiguous == Spec => []StartsUnambiguous
<1>1. IInv => StartsUnambiguous
  <2> SUFFICES ASSUME IInv, pc \notin {"start", "server", "peer", "failed"}, NEW k \in DOMAIN config
               PROVE  /\ config[k].privkey # Nil <=> config[k].privkeyFile = Nil
                      /\ Base64(servers[k].privkey) =
                           IF config[k].privkey # Nil THEN config[k].privkey
                           ELSE config[k].privkeyFile.text
                      /\ \A a, b \in Named(config[k], Nil) : a = b
                      /\ \A a \in DOMAIN config[k].peers :
                           config[k].peers[a].forwardTo \in {"port", "full"}
    BY DEF StartsUnambiguous
  <2>1. Running
    BY DEF IInv, Types, Running
  <2>2. servers[k].privkey = KeyOf(config[k])
    BY <2>1, RunningBlocks
  <2>3. Keyed(k) /\ (\A a : Done(k, a)) /\ Checked(k)
    BY <2>1 DEF Keyed, Done, IInv, Initialized
  <2> QED
    BY <2>2, <2>3 DEF Checked, OneKey
<1> QED
  BY <1>1, ConfigInvariant, PTL

=============================================================================
