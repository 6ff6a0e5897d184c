------------------------------- MODULE MCWGIT -------------------------------
(***************************************************************************)
(* Instances of WGIT for TLC.                                              *)
(***************************************************************************)
EXTENDS WGITProperties, TLC

CONSTANTS c1, c2, s1

Addr(ip, port) == [ip |-> ip, port |-> port]

\* Every client uses the one server, at the default levels.
MCConfig ==
  [c \in Clients |->
     [serverPublicKey |-> s1, forwardToAddress |-> Addr("S", 1),
      clientSourceValidateLevel |-> LevelDefault,
      serverSourceValidateLevel |-> LevelDefault]]

\* One client may roam on its host, the other may not roam.
MCRoamConfig ==
  [c \in Clients |-> [MCConfig[c] EXCEPT !.clientSourceValidateLevel =
                        IF c = c1 THEN LevelIP ELSE LevelIPAndPort]]

MCOneClientAddr == {Addr("A", 1)}
MCClientAddrs == {Addr("A", 1), Addr("A", 2), Addr("B", 1)}
MCOneServerAddr == {Addr("S", 1)}

Symmetry == Permutations(Goroutines)

=============================================================================
