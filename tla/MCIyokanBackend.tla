-------------------------- MODULE MCIyokanBackend --------------------------
(* Small instances of IyokanBackend for TLC. *)
EXTENDS IyokanDataflow, TLC

Symmetry == Permutations(Threads) \cup Permutations(TLWEs)
                \cup Permutations(TRLWEs)
============================================================================
