----------------------------- MODULE MCPipeline -----------------------------
(***************************************************************************)
(* Instances of Pipeline for TLC.                                          *)
(***************************************************************************)
EXTENDS PipelineRefinement, TLC

CONSTANTS x, y

Dg(transport, data, obfuscated) ==
  [transport |-> transport, data |-> data, obfuscated |-> obfuscated]

MCArrivals ==
  [client |-> {Dg(TRUE, x, FALSE), Dg(FALSE, x, FALSE)},
   server |-> {Dg(TRUE, x, TRUE), Dg(TRUE, y, FALSE)}]

MCDatagrams == UNION {MCArrivals[s] : s \in Sides}

=============================================================================
