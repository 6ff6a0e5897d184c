------------------------------- MODULE MCMWGP -------------------------------
(***************************************************************************)
(* MWGP for TLC: one client and one server, each at an address of its own. *)
(***************************************************************************)
EXTENDS MWGP, TLC

CONSTANTS c1, s1

Addr(ip) == [ip |-> ip, port |-> 1]
MCClientAddr == Addr("A")
MCProxyAddr == Addr("P")
MCListenAddr == Addr("L")
MCServerAddr == Addr("S")

\* With index 0 a proxy draws another one: of the client's first session in
\* one half of the states, of a second session beside it in the other.
MCClientSenders == <<{0, 1}, {0, 2}>>
MCServerSenders == <<{1}, {0, 2}>>

=============================================================================
