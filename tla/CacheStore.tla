------------------------------ MODULE CacheStore ------------------------------
(***************************************************************************)
(* What the forward table cache promises: a save replaces the cached       *)
(* routes by those of the table in one step or not at all, and a restart   *)
(* finds the routes of the last save, if they can be read back.  Module    *)
(* CacheFile implements it, and module WGIT takes it for granted in        *)
(* PersistForwardTableCache and Restart.                                   *)
(***************************************************************************)
CONSTANTS
  Routes,        \* the contents of serverMap
  NoRoutes,      \* an empty serverMap
  ZeroKeyed      \* those where some peer has a zero key, which cannot be read back

VARIABLES
  loads,         \* whether the configuration loads the cache at start
  routes,        \* serverMap
  cached         \* the routes of the last save

vars == <<loads, routes, cached>>

Init == loads \in BOOLEAN /\ routes = NoRoutes /\ cached = NoRoutes

Change == routes' \in Routes \cup {NoRoutes} /\ UNCHANGED <<loads, cached>>

Save == cached' = (IF routes \in ZeroKeyed THEN NoRoutes ELSE routes) /\ UNCHANGED <<loads, routes>>

Restart == routes' = (IF loads THEN cached ELSE NoRoutes) /\ UNCHANGED <<loads, cached>>

Next == Change \/ Save \/ Restart

Spec == Init /\ [][Next]_vars

=============================================================================
