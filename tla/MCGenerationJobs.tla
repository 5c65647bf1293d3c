------------------------- MODULE MCGenerationJobs -------------------------
(***************************************************************************)
(* GenerationJobs for TLC.                                                 *)
(***************************************************************************)
EXTENDS GenerationJobs, TLC

Symmetric == Permutations(Workers) \union Permutations(Providers)
===========================================================================
