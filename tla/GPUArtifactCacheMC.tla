------------------------- MODULE GPUArtifactCacheMC -------------------------
(* Symmetry for the small instances of GPUArtifactCache. *)
EXTENDS GPUArtifactCache, TLC

\* Compilations are alike, and so are requests.
Symmetry == Permutations(Compilers) \union Permutations(Requests)
=============================================================================
