----------------------------- MODULE MCCacheFile -----------------------------
(***************************************************************************)
(* CacheFile for TLC.                                                      *)
(***************************************************************************)
EXTENDS CacheFile

\* The cache is enabled, at the default path.
MCDefault ==
  {[noCache |-> FALSE, skipLoadCache |-> FALSE, configPath |-> "", cacheFile |-> ""]}

=============================================================================
