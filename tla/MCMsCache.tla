------------------------------ MODULE MCMsCache -----------------------------
(* MsCache with handles and files that are interchangeable. Its runs check *)
(* no liveness, so the symmetry is sound.                                  *)
EXTENDS MsCache, TLC

Interchangeable == Permutations(Handle) \cup Permutations(File)

=============================================================================
