--------------------------- MODULE MCServerConfig ---------------------------
(***************************************************************************)
(* ServerConfig for TLC: a first block with up to three peers, and a       *)
(* second one that may share its key.                                      *)
(***************************************************************************)
EXTENDS ServerConfig

CONSTANTS k1, k2, c1, c2

\* A text that is too short, and one that is not base64.
Short(key) == [Base64(key) EXCEPT !.length = 31]
Garbage(key) == [Base64(key) EXCEPT !.decodes = FALSE]

MCText(key) == IF key = Nil THEN Nil ELSE Base64(key)

MCPeer(key, to, l1, l2) == [pubkey |-> MCText(key), forwardTo |-> to, csvl |-> l1, ssvl |-> l2]

MCPeers ==
  {MCPeer(c1, "port", 0, 1), MCPeer(c1, "full", 2, 0), MCPeer(c2, "full", 0, 0),
   MCPeer(Nil, "port", 3, 0), MCPeer(c2, "bad", 0, 0),
   [MCPeer(c1, "port", 0, 0) EXCEPT !.pubkey = Garbage(c1)]}

MCBlock(key, f, ps, l1, l2) ==
  [privkey |-> key, privkeyFile |-> f, peers |-> ps, csvl |-> l1, ssvl |-> l2]

MCFile(opens, text) == [opens |-> opens, text |-> text]

MCFiles ==
  {MCFile(TRUE, Base64(k1)), MCFile(TRUE, Garbage(k1)), MCFile(TRUE, Short(k1)),
   MCFile(FALSE, Base64(k1)), Nil}

MCFirst ==
  {MCBlock(key, f, ps, 1, 2) : key \in {Base64(k1), Short(k1), Nil}, f \in MCFiles,
     ps \in {<<>>} \cup UNION {[1..n -> MCPeers] : n \in 1..3}}

MCSecond ==
  {MCBlock(Base64(key), Nil, ps, 0, 0) : key \in {k1, k2},
     ps \in {<<MCPeer(c2, "port", 0, 0)>>, <<MCPeer(Nil, "full", 0, 1), MCPeer(c1, "port", 1, 0)>>}}

MCConfigs == {<<>>} \cup {<<a, b>> : a \in MCFirst, b \in MCSecond}

MCMessages ==
  {[to |-> k, client |-> c] : k \in {k1, k2}, c \in {c1, c2}}
  \cup {[to |-> Nil, client |-> ZeroKey]}

=============================================================================
