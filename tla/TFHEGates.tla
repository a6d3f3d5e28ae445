----------------------------- MODULE TFHEGates -----------------------------
(***************************************************************************)
(* The gates, apart from who evaluates them: ciphertexts, the operations   *)
(* of TFHEpp and cuFHEpp, the cells of Yosys, and the tables by which the  *)
(* parser, the graph builder and the two sets of codelets take a cell to   *)
(* an operation.                                                           *)
(*                                                                         *)
(* A ciphertext is abstracted to its phase on a torus of 8 steps, noise    *)
(* left out: the gates' message is mu = 1/8, so TRUE is Mu and FALSE -Mu.  *)
(* TFHEpp, cuFHEpp and Yosys are external.                                 *)
(***************************************************************************)
EXTENDS Integers

YosysCells == {"NOT", "AND", "NAND", "ANDNOT", "OR", "NOR", "ORNOT", "XOR",
               "XNOR", "MUX", "NMUX"}

----------------------------------------------------------------------------
(* The torus and the homomorphic operations (TFHEpp) *)

Torus == 0..7
Mu == 1
Encode(x) == IF x THEN Mu ELSE (-Mu) % 8
Decode(p) == p \in 1..3

\* The results of a bootstrapping: undetermined when the phase is on the edge.
Bootstrap(p) ==
    {Encode(x) : x \in IF p \in {0, 4} THEN BOOLEAN ELSE {Decode(p)}}

HomGate(casign, cbsign, offset, a, b) ==
    Bootstrap((casign * a + cbsign * b + offset) % 8)
HomNOT(a) == (-a) % 8
HomMUX(s, c1, c0) ==
    {(x + y + Mu) % 8 : x \in HomGate(1, 1, -Mu, s, c1),
                        y \in HomGate(-1, 1, -Mu, s, c0)}
HomNMUX(s, c1, c0) == {HomNOT(p) : p \in HomMUX(s, c1, c0)}

\* On the phase of a packed word, without a bootstrapping.
CMUXFFT(select, c1, c0) == (c0 + (IF select THEN c1 - c0 ELSE 0)) % 8

\* What cuFHEpp's functions compute on messages, by their names; nothing is
\* assumed of what they make of other phases.
cufhe(function, v) ==
    LET x == Decode(v[1])
        y == Decode(v[2])
        z == Decode(v[3])
        value ==
            CASE function = "And" -> x /\ y
              [] function = "Nand" -> ~(x /\ y)
              [] function = "AndYN" -> x /\ ~y
              [] function = "AndNY" -> ~x /\ y
              [] function = "Or" -> x \/ y
              [] function = "Nor" -> ~(x \/ y)
              [] function = "OrYN" -> x \/ ~y
              [] function = "OrNY" -> ~x \/ y
              [] function = "Xor" -> x # y
              [] function = "Xnor" -> x = y
              [] function = "Not" -> ~x
              [] function = "Mux" -> IF x THEN y ELSE z
              [] function = "NMux" -> ~(IF x THEN y ELSE z)
    IN  IF {v[1], v[2], v[3]} \subseteq {Encode(TRUE), Encode(FALSE)}
        THEN {Encode(value)}
        ELSE Torus

----------------------------------------------------------------------------
(* From a cell to a codelet *)

\* What the cell types of Yosys mean; ports A, B, S in this order.
CellValue(cell, a, b, s) ==
    CASE cell = "NOT" -> ~a
      [] cell = "AND" -> a /\ b
      [] cell = "NAND" -> ~(a /\ b)
      [] cell = "ANDNOT" -> a /\ ~b
      [] cell = "OR" -> a \/ b
      [] cell = "NOR" -> ~(a \/ b)
      [] cell = "ORNOT" -> a \/ ~b
      [] cell = "XOR" -> a # b
      [] cell = "XNOR" -> a = b
      [] cell = "MUX" -> IF s THEN b ELSE a
      [] cell = "NMUX" -> ~(IF s THEN b ELSE a)

\* Defect: the negated operand is taken to be the first.
GateNameNY(cell) ==
    CASE cell = "ANDNOT" -> "ANDNY"
      [] cell = "ORNOT" -> "ORNY"
      [] OTHER -> cell

\* ParsedBC calls two cells by TFHE's names.
GateName(cell) ==
    CASE cell = "ANDNOT" -> "ANDYN"
      [] cell = "ORNOT" -> "ORYN"
      [] OTHER -> cell

\* The operands starpu_build_graph hands to a codelet; places a codelet lacks
\* repeat A.
Operands(gate, a, b, s) ==
    CASE gate = "NOT" -> <<a, a, a>>
      [] gate \in {"MUX", "NMUX"} -> <<s, b, a>>
      [] OTHER -> <<a, b, a>>

\* The template arguments of HomGateWrap in the codelets clHom*.
ClHom ==
    [NAND |-> <<-1, -1, Mu>>,     NOR |-> <<-1, -1, -Mu>>,
     XNOR |-> <<-2, -2, -2 * Mu>>, AND |-> <<1, 1, -Mu>>,
     OR |-> <<1, 1, Mu>>,         XOR |-> <<2, 2, 2 * Mu>>,
     ANDNY |-> <<-1, 1, -Mu>>,    ANDYN |-> <<1, -1, -Mu>>,
     ORNY |-> <<-1, 1, Mu>>,      ORYN |-> <<1, -1, Mu>>]

\* The template arguments of binaryCodelet, TANGOR_BINARY_CODELET.
IyokanCodelets ==
    [AND |-> <<1, 1, -Mu>>,       NAND |-> <<-1, -1, Mu>>,
     ANDNOT |-> <<1, -1, -Mu>>,   OR |-> <<1, 1, Mu>>,
     NOR |-> <<-1, -1, -Mu>>,     ORNOT |-> <<1, -1, Mu>>,
     XOR |-> <<2, 2, 2 * Mu>>,    XNOR |-> <<-2, -2, -2 * Mu>>]

\* The CUDA implementation of each codelet; Iyokan's NOT has none.
CufheppWraps ==
    [NAND |-> "Nand", NOR |-> "Nor", XNOR |-> "Xnor", AND |-> "And", OR |-> "Or",
     XOR |-> "Xor", ANDNY |-> "AndNY", ANDYN |-> "AndYN", ORNY |-> "OrNY",
     ORYN |-> "OrYN", NOT |-> "Not", MUX |-> "Mux", NMUX |-> "NMux"]
IyokanCufhepp ==
    [AND |-> "And", NAND |-> "Nand", ANDNOT |-> "AndYN", OR |-> "Or",
     NOR |-> "Nor", ORNOT |-> "OrYN", XOR |-> "Xor", XNOR |-> "Xnor",
     MUX |-> "Mux"]

\* The codelets of packed words: which buffers they pass on as c1 and c0, on a CPU
\* and on a GPU.  Buffer 1 is the output; the select is not counted.
CmuxCodelets ==
    [CMUX |-> <<2, 3>>, CMUXInPlaceTrue |-> <<1, 2>>,
     CMUXInPlaceFalse |-> <<2, 1>>]
IyokanCufheppCMUX ==
    [CMUX |-> <<2, 3>>, CMUXInPlaceTrue |-> <<1, 2>>,
     CMUXInPlaceFalse |-> <<2, 1>>]

\* What a codelet computes on a CPU, on operands v.
Codelet(table, gate, v) ==
    CASE gate \in DOMAIN table -> HomGate(table[gate][1], table[gate][2],
                                         table[gate][3], v[1], v[2])
      [] gate = "NOT" -> {HomNOT(v[1])}
      [] gate = "MUX" -> HomMUX(v[1], v[2], v[3])
      [] gate = "NMUX" -> HomNMUX(v[1], v[2], v[3])

----------------------------------------------------------------------------
(* The HOGE accelerator *)

\* HomGateWrap's encoding of its template arguments for the kernel.
ScaleIndex(sign) ==
    IF sign < 0 THEN (IF sign = -2 THEN 3 ELSE 2) ELSE (IF sign = 2 THEN 1 ELSE 0)

\* Defect: the offset itself instead of its index.
OffsetItself(offset) == offset

OffsetIndex(offset) ==
    IF offset < 0 THEN (IF offset = -2 * Mu THEN 3 ELSE 2)
    ELSE (IF offset = 2 * Mu THEN 1 ELSE 0)

\* The kernel's decoding of its arguments: 1, 2, -1, -2 times 1 or mu.
HogeFactor(index) == <<1, 2, -1, -2>>[index + 1]
HogeKernel(g, a, b) ==
    HomGate(HogeFactor(g[1]), HogeFactor(g[2]), HogeFactor(g[3]) * Mu, a, b)

\* How HOGEMUXwrap puts its two products together.
HogeSum(gate, p, q) ==
    IF gate = "NMUX" THEN (-(p - q) - Mu) % 8 ELSE (p + q + Mu) % 8

\* HOGEwrap and HOGEMUXwrap as a whole, on operands v.
HogeCodelet(gate, v) ==
    IF gate \in DOMAIN ClHom
    THEN LET p == ClHom[gate]
         IN  HogeKernel(<<ScaleIndex(p[1]), ScaleIndex(p[2]), OffsetIndex(p[3])>>,
                        v[1], v[2])
    ELSE {HogeSum(gate, p, q) : p \in HogeKernel(<<0, 0, 2>>, v[1], v[2]),
                                q \in HogeKernel(<<2, 0, 2>>, v[1], v[3])}
============================================================================
