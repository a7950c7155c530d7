---------------------------- MODULE MCPrPipeline ----------------------------
(* Small instances of PrPipeline: the branch was at h1, a push on top of it  *)
(* is h2, and h3 is a rewrite that contains neither.                         *)
EXTENDS PrPipeline

MCOlder == {<<"h1", "h2">>}
=============================================================================
