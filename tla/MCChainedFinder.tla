-------------------------- MODULE MCChainedFinder ---------------------------
(* ChainedFinder.tla for TLC: one tier more than the repository has.       *)
EXTENDS ChainedFinder
=============================================================================
