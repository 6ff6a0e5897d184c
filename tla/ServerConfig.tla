----------------------------- MODULE ServerConfig -----------------------------
(***************************************************************************)
(* The configuration of mwgp-server (server.go, cmd/mwgp/main.go): it is   *)
(* unmarshalled, with keys that are base64 text (noise-helpers.go);        *)
(* NewServerWithConfig initializes every server block once; and            *)
(* extractPeer then finds the peer an initiation is for, again and again.  *)
(*                                                                         *)
(* A private key stands for its key pair.  A forward_to is "missing",      *)
(* "bad" (it does not split into host and port, or does not resolve),      *)
(* "port" (no host: the block's address is used) or "full".                *)
(***************************************************************************)
EXTENDS Integers, Sequences

CONSTANTS
  PrivateKeys,   \* private keys of servers
  ClientKeys,    \* public keys of clients
  ZeroKey,       \* the public key of all zero bytes
  Nil,           \* a nil pointer
  Configs,       \* the configurations: sequences of server blocks
  Messages       \* the initiations: [to : private key, client : public key]

Levels == 0..3

\* What base64 makes of the text of a key: whether it decodes, and to what.
NoiseKeySize == 32
Text(keys) == [decodes : BOOLEAN, length : Nat, key : keys]
Base64(key) == [decodes |-> TRUE, length |-> NoiseKeySize, key |-> key]

\* A key that is absent or null in the file is Nil.
ConfigPeer ==
  [pubkey : Text(ClientKeys) \cup {Nil}, forwardTo : {"missing", "bad", "port", "full"},
   csvl : Levels, ssvl : Levels]

\* privkey_file is Nil if it is empty, and else what the path leads to: text
\* is in the first 44 bytes of the file, followed by NULs if it is shorter.
ConfigServer ==
  [privkey : Text(PrivateKeys) \cup {Nil},
   privkeyFile : [opens : BOOLEAN, text : Text(PrivateKeys)] \cup {Nil},
   peers : Seq(ConfigPeer), csvl : Levels, ssvl : Levels]

ASSUME ConfigAssumption ==
  /\ Configs \subseteq Seq(ConfigServer)
  /\ Messages \subseteq [to : PrivateKeys \cup {Nil}, client : ClientKeys \cup {ZeroKey}]
  /\ Nil \notin ClientKeys \cup PrivateKeys \cup {ZeroKey}

VARIABLES
  config,        \* what the configuration file says
  servers,       \* config.Servers, filled in by Initialize
  pc,            \* where NewServerWithConfig or extractPeer is
  si, pi,        \* the loop variables: a server, a peer
  foundFallback,
  msg, peerPK,   \* the initiation, and the client it is from
  matchedServerPeer, fallbackServerPeer,   \* positions in Peers, 0 for nil
  sp             \* the result of extractPeer; Nil after an error

vars == <<config, servers, pc, si, pi, foundFallback, msg, peerPK, matchedServerPeer,
          fallbackServerPeer, sp>>
extractVars == <<msg, peerPK, matchedServerPeer, fallbackServerPeer, sp>>

-----------------------------------------------------------------------------
(***************************************************************************)
(* startServer, up to NewServerWithConfig.                                 *)
(***************************************************************************)
\* FromBase64 accepts a text, and so does UnmarshalJSON.
FromBase64(text) == text.decodes /\ text.length = NoiseKeySize

\* UnmarshalJSON is called for every key that is not null.
Unmarshals(c) ==
  \A k \in DOMAIN c :
    /\ c[k].privkey # Nil => FromBase64(c[k].privkey)
    /\ \A a \in DOMAIN c[k].peers :
         c[k].peers[a].pubkey # Nil => FromBase64(c[k].peers[a].pubkey)

KeyIn(text) == IF text = Nil THEN Nil ELSE text.key

\* A block as it is unmarshalled, before Initialize.
Unmarshalled(s) ==
  [privkey |-> KeyIn(s.privkey), privkeyFile |-> s.privkeyFile, csvl |-> s.csvl, ssvl |-> s.ssvl,
   peers |-> [k \in DOMAIN s.peers |->
     [pubkey |-> KeyIn(s.peers[k].pubkey), forwardTo |-> s.peers[k].forwardTo,
      csvl |-> s.peers[k].csvl, ssvl |-> s.peers[k].ssvl,
      forwardToAddress |-> Nil, serverPublicKey |-> Nil]]]

Fail ==
  /\ pc' = "failed"
  /\ UNCHANGED <<config, servers, si, pi, foundFallback, extractVars>>

\* The file cannot be read, is not JSON, or has a key that is refused.
FailStart ==
  /\ pc = "start"
  /\ Fail

StartServer ==
  /\ pc = "start"
  /\ Unmarshals(config)
  /\ servers' = [k \in DOMAIN config |-> Unmarshalled(config[k])]
  /\ pc' = "server"
  /\ UNCHANGED <<config, si, pi, foundFallback, extractVars>>

-----------------------------------------------------------------------------
(***************************************************************************)
(* NewServerWithConfig and ServerConfigServer.Initialize.                  *)
(***************************************************************************)
\* No server block is left.  None at all is an error, and so is a listen
\* address that does not resolve.
FinishServers ==
  /\ pc = "server"
  /\ si \notin DOMAIN servers
  /\ \/ Fail
     \/ /\ servers # <<>>
        /\ pc' = "ready"
        /\ UNCHANGED <<config, servers, si, pi, foundFallback, extractVars>>

\* NoisePrivateKey.ReadFromFile succeeds.
ReadFromFile(f) == f.opens /\ FromBase64(f.text)

\* The errors of a block before its peers are looked at.
BadServer(s) ==
  \/ s.peers = <<>>
  \/ s.privkey = Nil /\ (s.privkeyFile = Nil \/ ~ReadFromFile(s.privkeyFile))
  \/ s.privkey # Nil /\ s.privkeyFile # Nil

WithKey(s) == [s EXCEPT !.privkey = IF @ = Nil THEN s.privkeyFile.text.key ELSE @]

InitializeServer ==
  /\ pc = "server"
  /\ si \in DOMAIN servers
  /\ IF BadServer(servers[si]) THEN Fail
     ELSE /\ servers' = [servers EXCEPT ![si] = WithKey(@)]
          /\ pc' = "peer" /\ pi' = 1 /\ foundFallback' = FALSE
          /\ UNCHANGED <<config, si, extractVars>>

FinishPeers ==
  /\ pc = "peer"
  /\ pi \notin DOMAIN servers[si].peers
  /\ pc' = "server" /\ si' = si + 1
  /\ UNCHANGED <<config, servers, pi, foundFallback, extractVars>>

isFallback(p) == p.pubkey = Nil

MutantBadPeer(p) == p.forwardTo \in {"missing", "bad"}
BadPeer(p) == (isFallback(p) /\ foundFallback) \/ p.forwardTo \in {"missing", "bad"}

InitializedPeer(s, p) ==
  [pubkey |-> p.pubkey, forwardTo |-> p.forwardTo,
   csvl |-> IF p.csvl = 0 THEN s.csvl ELSE p.csvl,
   ssvl |-> IF p.ssvl = 0 THEN s.ssvl ELSE p.ssvl,
   forwardToAddress |-> IF p.forwardTo = "port" THEN "address" ELSE "own",
   serverPublicKey |-> s.privkey]

WithPeer(s, k, p) == [s EXCEPT !.peers[k] = p]

InitializePeer ==
  /\ pc = "peer"
  /\ pi \in DOMAIN servers[si].peers
  /\ LET p == servers[si].peers[pi]
     IN  IF BadPeer(p) THEN Fail
         ELSE /\ foundFallback' = (foundFallback \/ isFallback(p))
              /\ servers' = [servers EXCEPT ![si] = WithPeer(@, pi, InitializedPeer(@, p))]
              /\ pi' = pi + 1
              /\ UNCHANGED <<config, pc, si, extractVars>>

-----------------------------------------------------------------------------
(***************************************************************************)
(* extractPeer.                                                            *)
(***************************************************************************)
Receive(m) ==
  /\ pc = "ready"
  /\ pc' = "decrypt" /\ si' = 1
  /\ msg' = m /\ sp' = Nil
  /\ UNCHANGED <<config, servers, pi, foundFallback, peerPK, matchedServerPeer,
                 fallbackServerPeer>>

\* tryDecryptPeerPKWith succeeds with the right private key, and with every
\* key if the shared secret is zero (msg.to = Nil): the client key is then
\* left zero.
Decrypts(key, m) == m.to = Nil \/ m.to = key

TryDecryptPeerPKWith ==
  /\ pc = "decrypt"
  /\ IF si \notin DOMAIN servers
     THEN pc' = "ready" /\ UNCHANGED <<config, servers, si, pi, foundFallback, extractVars>>
     ELSE IF Decrypts(servers[si].privkey, msg)
     THEN /\ pc' = "match" /\ pi' = 1
          /\ peerPK' = IF msg.to = Nil THEN ZeroKey ELSE msg.client
          /\ matchedServerPeer' = 0 /\ fallbackServerPeer' = 0
          /\ UNCHANGED <<config, servers, si, foundFallback, msg, sp>>
     ELSE si' = si + 1 /\ UNCHANGED <<config, servers, pc, pi, foundFallback, extractVars>>

MatchPeer ==
  /\ pc = "match"
  /\ pi \in DOMAIN servers[si].peers
  /\ LET p == servers[si].peers[pi]
     IN  /\ fallbackServerPeer' = IF isFallback(p) THEN pi ELSE fallbackServerPeer
         /\ matchedServerPeer' = IF ~isFallback(p) /\ p.pubkey = peerPK THEN pi
                                 ELSE matchedServerPeer
  /\ pi' = pi + 1
  /\ UNCHANGED <<config, servers, pc, si, foundFallback, msg, peerPK, sp>>

Chosen == IF matchedServerPeer # 0 THEN matchedServerPeer ELSE fallbackServerPeer

MutantReturnPeer ==
  /\ pc = "match"
  /\ pi \notin DOMAIN servers[si].peers
  /\ IF Chosen = 0 THEN UNCHANGED <<servers, sp>>
     ELSE /\ servers' = [servers EXCEPT ![si].peers[Chosen].pubkey = peerPK]
          /\ sp' = servers'[si].peers[Chosen]
  /\ pc' = "ready"
  /\ UNCHANGED <<config, si, pi, foundFallback, msg, peerPK, matchedServerPeer,
                 fallbackServerPeer>>

\* The result is a copy of the peer that has the client's key.
ReturnPeer ==
  /\ pc = "match"
  /\ pi \notin DOMAIN servers[si].peers
  /\ sp' = IF Chosen = 0 THEN Nil ELSE [servers[si].peers[Chosen] EXCEPT !.pubkey = peerPK]
  /\ pc' = "ready"
  /\ UNCHANGED <<config, servers, si, pi, foundFallback, msg, peerPK, matchedServerPeer,
                 fallbackServerPeer>>

-----------------------------------------------------------------------------
Init ==
  /\ config \in Configs
  /\ servers = <<>>
  /\ pc = "start" /\ si = 1 /\ pi = 1 /\ foundFallback = FALSE
  /\ msg = Nil /\ peerPK = ZeroKey
  /\ matchedServerPeer = 0 /\ fallbackServerPeer = 0 /\ sp = Nil

\* The process has exited with an error.
Exited == pc = "failed" /\ UNCHANGED vars

Next ==
  \/ FailStart \/ StartServer
  \/ FinishServers \/ InitializeServer \/ FinishPeers \/ InitializePeer
  \/ \E m \in Messages : Receive(m)
  \/ TryDecryptPeerPKWith \/ MatchPeer \/ ReturnPeer
  \/ Exited

Spec == Init /\ [][Next]_vars

-----------------------------------------------------------------------------
(***************************************************************************)
(* Properties.                                                             *)
(***************************************************************************)
\* The first block, in the configuration file, whose key decrypts msg.
KeyOf(s) == IF s.privkey # Nil THEN s.privkey.key ELSE s.privkeyFile.text.key
Deciphering == {k \in DOMAIN config : Decrypts(KeyOf(config[k]), msg)}
FirstDeciphering == CHOOSE k \in Deciphering : \A l \in Deciphering : k <= l

\* Its peers for a key; the last one counts.
Named(s, key) == {k \in DOMAIN s.peers : KeyIn(s.peers[k].pubkey) = key}
LastOf(ks) == CHOOSE k \in ks : \A l \in ks : l <= k

Override(own, block) == IF own # 0 THEN own ELSE block

\* What the configuration file says of the initiation msg.
Expected ==
  IF Deciphering = {} THEN Nil
  ELSE LET s      == config[FirstDeciphering]
           client == IF msg.to = Nil THEN ZeroKey ELSE msg.client
           named  == IF Named(s, client) # {} THEN Named(s, client) ELSE Named(s, Nil)
           p      == s.peers[LastOf(named)]
       IN  IF named = {} THEN Nil
           ELSE [pubkey |-> client, forwardTo |-> p.forwardTo,
                 forwardToAddress |-> IF p.forwardTo = "full" THEN "own" ELSE "address",
                 csvl |-> Override(p.csvl, s.csvl), ssvl |-> Override(p.ssvl, s.ssvl),
                 serverPublicKey |-> KeyOf(s)]

\* However many initiations came before, extractPeer answers with what the
\* configuration file says: the peer of the client, or else the fallback,
\* of the first block whose key decrypts, resolved, with the levels of the
\* peer or else of the block, and with the public key of that block.
ExtractsConfigured == pc = "ready" /\ msg # Nil => sp = Expected

\* A server that starts has one private key per block, from one place, whose
\* text is complete; has a fallback peer at most once per block, so that "the
\* fallback" of a block is one peer; and every peer has an address.
StartsUnambiguous ==
  pc \notin {"start", "server", "peer", "failed"} =>
    \A k \in DOMAIN config :
      /\ config[k].privkey # Nil <=> config[k].privkeyFile = Nil
      /\ Base64(servers[k].privkey) =
           IF config[k].privkey # Nil THEN config[k].privkey ELSE config[k].privkeyFile.text
      /\ \A a, b \in Named(config[k], Nil) : a = b
      /\ \A a \in DOMAIN config[k].peers : config[k].peers[a].forwardTo \in {"port", "full"}

=============================================================================
