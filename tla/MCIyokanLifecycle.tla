------------------------- MODULE MCIyokanLifecycle -------------------------
(* Small instances of IyokanLifecycle for TLC. *)
EXTENDS IyokanLifecycle, TLC

Symmetry == Permutations(Threads \ {Main}) \cup Permutations(Keys)
============================================================================
