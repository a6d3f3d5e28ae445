--------------------------- MODULE MCGateWorkers ---------------------------
(* Small instances of GateWorkers for TLC. *)
EXTENDS GateWorkers, TLC

Symmetry == Permutations(Wires)

\* The builds without HOGE evaluate every cell their codelets cover.
CellsOfBuilds == [b \in Builds |->
    CASE b = "tangor" -> YosysCells
      [] b = "ram" -> {}
      [] OTHER -> YosysCells \ {"NMUX"}]

\* The HOGE build has a second CPU worker beside the one that drives the
\* accelerator, the others a CPU and a CUDA worker.
CpuOfBuilds == [b \in Builds |-> IF b = "hoge" THEN {0, 1} ELSE {1}]
CudaOfBuilds == [b \in Builds |-> IF b = "hoge" THEN {} ELSE {0}]

OnlyNMUX == [b \in Builds |-> {"NMUX"}]
============================================================================
