------------------------------ MODULE MCResolver ------------------------------
(***************************************************************************)
(* Instances of Resolver for TLC.                                          *)
(***************************************************************************)
EXTENDS Resolver

CONSTANTS h1, h2, ip1, ip2

MCOptions ==
  [resolver : {"", "dns", "hn2etxt", "unknown"}, scheme : {"udp", "other"}, dns : BOOLEAN]

Rec(host, time) == [sealed |-> TRUE, host |-> host, time |-> time]
Unsealed(host, time) == [sealed |-> FALSE, host |-> host, time |-> time]

\* Records with a newer, an equally new or an older host, broken, without a
\* time or with another secret, alone and together.
MCAnswers ==
  {{}, {Rec(Nil, 2)}, {Rec(h1, 1), Unsealed(h2, 2)},
   {Rec(h1, 0), Rec(h2, 0), Rec(Nil, 0)},
   {Rec(h1, 1), Rec(h2, 2), Rec(Nil, 0)},
   {Rec(h1, 2), Rec(h2, 2), Rec(h2, 1)}}

\* A host may move, have two addresses or none.
MCZones ==
  [txts : MCAnswers,
   ips : {[h \in Hosts \cup {Server} |-> IF h = h2 THEN a ELSE b] :
            a \in {{ip1}, {}}, b \in {{ip2}, {ip1, ip2}}}]

=============================================================================
