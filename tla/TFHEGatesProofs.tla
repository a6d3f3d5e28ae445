-------------------------- MODULE TFHEGatesProofs --------------------------
(***************************************************************************)
(* TLAPS proofs about TFHEGates: on encrypted bits the codelets of both    *)
(* tables, cuFHEpp's functions and, but for NMUX, HOGE's wrappers compute  *)
(* their cells, and whatever their operands, they return phases.           *)
(***************************************************************************)
EXTENDS TFHEGates, TLAPS

----------------------------------------------------------------------------
(* The gates on encrypted bits *)

\* The phases of linear combinations that are negative before reduction.
LEMMA NegativeModulo ==
    \A a \in -32..-1 :
        a % 8 = IF a >= -8 THEN a + 8 ELSE IF a >= -16 THEN a + 16
                ELSE IF a >= -24 THEN a + 24 ELSE a + 32
OBVIOUS

\* The two messages.
LEMMA Messages ==
    /\ Encode(TRUE) = 1 /\ Encode(FALSE) = 7
    /\ \A x \in BOOLEAN : Encode(x) \in {1, 7}
    /\ \A x \in BOOLEAN : Encode(x) \in Torus /\ (Decode(Encode(x)) <=> x)
<1>1. Encode(TRUE) = 1 /\ Encode(FALSE) = 7
  BY NegativeModulo DEF Encode, Mu
<1>2. Decode(1) /\ ~Decode(7)
  BY DEF Decode
<1>3. ASSUME NEW x \in BOOLEAN
      PROVE  /\ Encode(x) \in {1, 7} /\ Encode(x) \in Torus
             /\ Decode(Encode(x)) <=> x
  <2>1. CASE x = TRUE
    <3>1. Encode(x) = 1 BY <1>1, <2>1
    <3>2. Decode(Encode(x)) BY <1>2, <3>1, Zenon
    <3> QED BY <2>1, <3>1, <3>2 DEF Torus
  <2>2. CASE x = FALSE
    <3>1. Encode(x) = 7 BY <1>1, <2>2
    <3>2. ~Decode(Encode(x)) BY <1>2, <3>1, Zenon
    <3> QED BY <2>2, <3>1, <3>2 DEF Torus
  <2> QED BY <2>1, <2>2
<1> QED BY <1>1, <1>3

\* A phase off the boundary is bootstrapped to the message of its sign.
LEMMA BootstrapSign ==
    /\ \A p \in 1..3 : Bootstrap(p) = {1}
    /\ \A p \in 5..7 : Bootstrap(p) = {7}
<1>1. ASSUME NEW p \in 1..3
      PROVE  Bootstrap(p) = {Encode(x) : x \in {TRUE}}
  <2>1. Decode(p) = TRUE /\ p \notin {0, 4}
    BY DEF Decode
  <2>2. (IF p \in {0, 4} THEN BOOLEAN ELSE {Decode(p)}) = {TRUE}
    BY <2>1
  <2> QED BY <2>2, Zenon DEF Bootstrap
<1>2. ASSUME NEW p \in 5..7
      PROVE  Bootstrap(p) = {Encode(x) : x \in {FALSE}}
  <2>1. Decode(p) = FALSE /\ p \notin {0, 4}
    BY DEF Decode
  <2>2. (IF p \in {0, 4} THEN BOOLEAN ELSE {Decode(p)}) = {FALSE}
    BY <2>1
  <2> QED BY <2>2, Zenon DEF Bootstrap
<1> QED BY <1>1, <1>2, Messages

\* The linear combinations of the gates have the sign of the gate's result.
LEMMA HomGateTable ==
    ASSUME NEW x \in BOOLEAN, NEW y \in BOOLEAN
    PROVE  /\ HomGate(1, 1, -Mu, Encode(x), Encode(y)) = {Encode(x /\ y)}
           /\ HomGate(-1, -1, Mu, Encode(x), Encode(y)) = {Encode(~(x /\ y))}
           /\ HomGate(1, -1, -Mu, Encode(x), Encode(y)) = {Encode(x /\ ~y)}
           /\ HomGate(-1, 1, -Mu, Encode(x), Encode(y)) = {Encode(~x /\ y)}
           /\ HomGate(1, 1, Mu, Encode(x), Encode(y)) = {Encode(x \/ y)}
           /\ HomGate(-1, -1, -Mu, Encode(x), Encode(y)) = {Encode(~(x \/ y))}
           /\ HomGate(1, -1, Mu, Encode(x), Encode(y)) = {Encode(x \/ ~y)}
           /\ HomGate(2, 2, 2 * Mu, Encode(x), Encode(y)) = {Encode(x # y)}
           /\ HomGate(-2, -2, -2 * Mu, Encode(x), Encode(y)) = {Encode(x = y)}
<1> USE NegativeModulo, Messages, BootstrapSign DEF HomGate, Mu
<1>1. CASE x = TRUE /\ y = TRUE
  BY <1>1
<1>2. CASE x = TRUE /\ y = FALSE
  BY <1>2
<1>3. CASE x = FALSE /\ y = TRUE
  BY <1>3
<1>4. CASE x = FALSE /\ y = FALSE
  BY <1>4
<1> QED BY <1>1, <1>2, <1>3, <1>4

\* Negation.
LEMMA NotTable ==
    ASSUME NEW x \in BOOLEAN
    PROVE  HomNOT(Encode(x)) = Encode(~x)
<1> USE NegativeModulo, Messages DEF HomNOT
<1>1. CASE x = TRUE
  BY <1>1
<1>2. CASE x = FALSE
  BY <1>2
<1> QED BY <1>1, <1>2

\* The two products of a multiplexer add up to the operand it selects.
LEMMA MuxSum ==
    ASSUME NEW s \in BOOLEAN, NEW c1 \in BOOLEAN, NEW c0 \in BOOLEAN
    PROVE  (Encode(s /\ c1) + Encode(~s /\ c0) + Mu) % 8 =
              Encode(IF s THEN c1 ELSE c0)
<1>1. CASE s = TRUE /\ c1 = TRUE
  <2>1. (s /\ c1) = TRUE /\ (~s /\ c0) = FALSE
    BY <1>1
  <2>2. Encode(s /\ c1) = 1 /\ Encode(~s /\ c0) = 7
    BY <2>1, Messages, Zenon
  <2>3. (IF s THEN c1 ELSE c0) = TRUE
    BY <1>1
  <2>4. Encode(IF s THEN c1 ELSE c0) = 1
    BY <2>3, Messages, Zenon
  <2> QED BY <2>2, <2>4 DEF Mu
<1>2. CASE s = TRUE /\ c1 = FALSE
  <2>1. (s /\ c1) = FALSE /\ (~s /\ c0) = FALSE
    BY <1>2
  <2>2. Encode(s /\ c1) = 7 /\ Encode(~s /\ c0) = 7
    BY <2>1, Messages, Zenon
  <2>3. (IF s THEN c1 ELSE c0) = FALSE
    BY <1>2
  <2>4. Encode(IF s THEN c1 ELSE c0) = 7
    BY <2>3, Messages, Zenon
  <2> QED BY <2>2, <2>4 DEF Mu
<1>3. CASE s = FALSE /\ c0 = TRUE
  <2>1. (s /\ c1) = FALSE /\ (~s /\ c0) = TRUE
    BY <1>3
  <2>2. Encode(s /\ c1) = 7 /\ Encode(~s /\ c0) = 1
    BY <2>1, Messages, Zenon
  <2>3. (IF s THEN c1 ELSE c0) = TRUE
    BY <1>3
  <2>4. Encode(IF s THEN c1 ELSE c0) = 1
    BY <2>3, Messages, Zenon
  <2> QED BY <2>2, <2>4 DEF Mu
<1>4. CASE s = FALSE /\ c0 = FALSE
  <2>1. (s /\ c1) = FALSE /\ (~s /\ c0) = FALSE
    BY <1>4
  <2>2. Encode(s /\ c1) = 7 /\ Encode(~s /\ c0) = 7
    BY <2>1, Messages, Zenon
  <2>3. (IF s THEN c1 ELSE c0) = FALSE
    BY <1>4
  <2>4. Encode(IF s THEN c1 ELSE c0) = 7
    BY <2>3, Messages, Zenon
  <2> QED BY <2>2, <2>4 DEF Mu
<1> QED BY <1>1, <1>2, <1>3, <1>4

\* The multiplexers of the CPU, made of two products.
LEMMA MuxTable ==
    ASSUME NEW s \in BOOLEAN, NEW c1 \in BOOLEAN, NEW c0 \in BOOLEAN
    PROVE  /\ HomMUX(Encode(s), Encode(c1), Encode(c0)) =
                 {Encode(IF s THEN c1 ELSE c0)}
           /\ HomNMUX(Encode(s), Encode(c1), Encode(c0)) =
                 {Encode(~(IF s THEN c1 ELSE c0))}
<1>1. /\ HomGate(1, 1, -Mu, Encode(s), Encode(c1)) = {Encode(s /\ c1)}
      /\ HomGate(-1, 1, -Mu, Encode(s), Encode(c0)) = {Encode(~s /\ c0)}
  BY HomGateTable
<1>2. HomMUX(Encode(s), Encode(c1), Encode(c0)) = {Encode(IF s THEN c1 ELSE c0)}
  <2>1. HomMUX(Encode(s), Encode(c1), Encode(c0)) =
           {(Encode(s /\ c1) + Encode(~s /\ c0) + Mu) % 8}
    <3>1. \A p : p \in HomMUX(Encode(s), Encode(c1), Encode(c0)) <=>
             \E x \in {Encode(s /\ c1)}, y \in {Encode(~s /\ c0)} :
                p = (x + y + Mu) % 8
      BY <1>1, SMTT(30) DEF HomMUX
    <3> QED BY <3>1
  <2> QED BY <2>1, MuxSum
<1>3. HomNMUX(Encode(s), Encode(c1), Encode(c0)) =
         {HomNOT(Encode(IF s THEN c1 ELSE c0))}
  BY <1>2 DEF HomNMUX
<1> QED BY <1>2, <1>3, NotTable

----------------------------------------------------------------------------
(* From cells to codelets *)

\* What a cell computes from the operands of its codelet, in their order.
Meaning(c, x, y, z) ==
    IF c \in {"MUX", "NMUX"} THEN CellValue(c, z, y, x) ELSE CellValue(c, x, y, x)

\* The CPU codelet of each cell in Tangor's table.
LEMMA TangorCodelet ==
    ASSUME NEW c \in YosysCells, NEW v,
           NEW x \in BOOLEAN, NEW y \in BOOLEAN, NEW z \in BOOLEAN,
           v[1] = Encode(x), v[2] = Encode(y), v[3] = Encode(z)
    PROVE  Codelet(ClHom, GateName(c), v) = {Encode(Meaning(c, x, y, z))}
<1> USE DEF Codelet, GateName, ClHom, Meaning, CellValue
<1>1. CASE c = "NOT" BY <1>1, NotTable
<1>2. CASE c = "AND" BY <1>2, HomGateTable
<1>3. CASE c = "NAND" BY <1>3, HomGateTable
<1>4. CASE c = "ANDNOT" BY <1>4, HomGateTable
<1>5. CASE c = "OR" BY <1>5, HomGateTable
<1>6. CASE c = "NOR" BY <1>6, HomGateTable
<1>7. CASE c = "ORNOT" BY <1>7, HomGateTable
<1>8. CASE c = "XOR" BY <1>8, HomGateTable
<1>9. CASE c = "XNOR" BY <1>9, HomGateTable
<1>10. CASE c = "MUX" BY <1>10, MuxTable
<1>11. CASE c = "NMUX" BY <1>11, MuxTable, SMTT(30)
<1> QED BY <1>1, <1>2, <1>3, <1>4, <1>5, <1>6, <1>7, <1>8, <1>9, <1>10, <1>11
      DEF YosysCells

\* The CPU codelet of each cell in the KVSP backend's table.
LEMMA IyokanCodelet ==
    ASSUME NEW c \in YosysCells, NEW v,
           NEW x \in BOOLEAN, NEW y \in BOOLEAN, NEW z \in BOOLEAN,
           v[1] = Encode(x), v[2] = Encode(y), v[3] = Encode(z)
    PROVE  Codelet(IyokanCodelets, c, v) = {Encode(Meaning(c, x, y, z))}
<1> USE DEF Codelet, IyokanCodelets, Meaning, CellValue
<1>1. CASE c = "NOT" BY <1>1, NotTable
<1>2. CASE c = "AND" BY <1>2, HomGateTable
<1>3. CASE c = "NAND" BY <1>3, HomGateTable
<1>4. CASE c = "ANDNOT" BY <1>4, HomGateTable
<1>5. CASE c = "OR" BY <1>5, HomGateTable
<1>6. CASE c = "NOR" BY <1>6, HomGateTable
<1>7. CASE c = "ORNOT" BY <1>7, HomGateTable
<1>8. CASE c = "XOR" BY <1>8, HomGateTable
<1>9. CASE c = "XNOR" BY <1>9, HomGateTable
<1>10. CASE c = "MUX" BY <1>10, MuxTable
<1>11. CASE c = "NMUX" BY <1>11, MuxTable
<1> QED BY <1>1, <1>2, <1>3, <1>4, <1>5, <1>6, <1>7, <1>8, <1>9, <1>10, <1>11
      DEF YosysCells

\* The operands starpu_build_graph hands over are those a cell's meaning is about,
\* whether gates go by the cells' names or by TFHE's.
LEMMA MeaningOfOperands ==
    ASSUME NEW c \in YosysCells, NEW gate, gate \in {c, GateName(c)}
    PROVE  \/ /\ \A a, b, s : Operands(gate, a, b, s) = <<a, a, a>>
              /\ \A x, y, z : CellValue(c, x, y, z) = Meaning(c, x, x, x)
           \/ /\ \A a, b, s : Operands(gate, a, b, s) = <<s, b, a>>
              /\ \A x, y, z : CellValue(c, x, y, z) = Meaning(c, z, y, x)
           \/ /\ \A a, b, s : Operands(gate, a, b, s) = <<a, b, a>>
              /\ \A x, y, z : CellValue(c, x, y, z) = Meaning(c, x, y, x)
<1> USE DEF Operands, GateName, Meaning
<1>1. CASE c = "NOT"
  BY <1>1 DEF CellValue
<1>2. CASE c \in {"MUX", "NMUX"}
  BY <1>2
<1>3. CASE c \notin {"NOT", "MUX", "NMUX"}
  <2>1. \A a, b, s : Operands(gate, a, b, s) = <<a, b, a>>
    BY <1>3 DEF YosysCells
  <2>2. \A x, y, z : CellValue(c, x, y, z) = CellValue(c, x, y, x)
    BY <1>3 DEF CellValue, YosysCells
  <2> QED BY <1>3, <2>1, <2>2
<1> QED BY <1>1, <1>2, <1>3

\* Bootstrapped gates give messages.
LEMMA ResultTypes ==
    /\ \A p : Bootstrap(p) \subseteq Torus
    /\ \A f, v : cufhe(f, v) \subseteq Torus
    /\ \A a \in Int : a % 8 \in Torus
<1>1. \A x : Encode(x) \in Torus
  BY NegativeModulo DEF Encode, Mu, Torus
<1>2. \A p : Bootstrap(p) \subseteq Torus
  BY <1>1 DEF Bootstrap
<1>3. ASSUME NEW f, NEW v PROVE cufhe(f, v) \subseteq Torus
  <2>1. (\E x : cufhe(f, v) = {Encode(x)}) \/ cufhe(f, v) = Torus
    BY Zenon DEF cufhe
  <2> QED BY <1>1, <2>1
<1>4. \A a \in Int : a % 8 \in Torus
  BY DEF Torus
<1> QED BY <1>2, <1>3, <1>4

\* So do all codelets of a cell.
LEMMA CodeletTypes ==
    ASSUME NEW c \in YosysCells, NEW v, v[1] \in Torus
    PROVE  /\ Codelet(ClHom, GateName(c), v) \subseteq Torus
           /\ Codelet(IyokanCodelets, c, v) \subseteq Torus
<1>1. \A f, g, h, a, b : HomGate(f, g, h, a, b) \subseteq Torus
  BY ResultTypes DEF HomGate
<1>2. \A a \in Torus : HomNOT(a) \in Torus
  BY ResultTypes DEF HomNOT, Torus
<1>3. \A a, b, d : HomMUX(a, b, d) \subseteq Torus
  <2>1. \A x \in Torus, y \in Torus : (x + y + Mu) % 8 \in Torus
    BY ResultTypes DEF Torus, Mu
  <2> QED BY <1>1, <2>1 DEF HomMUX
<1>4. \A a, b, d : HomNMUX(a, b, d) \subseteq Torus
  BY <1>2, <1>3 DEF HomNMUX
<1>5. GateName(c) \in DOMAIN ClHom \/ GateName(c) \in {"NOT", "MUX", "NMUX"}
  BY DEF GateName, ClHom, YosysCells
<1>6. c \in DOMAIN IyokanCodelets \/ c \in {"NOT", "MUX", "NMUX"}
  BY DEF IyokanCodelets, YosysCells
<1> QED BY <1>1, <1>2, <1>3, <1>4, <1>5, <1>6 DEF Codelet

\* A cell has a value.
LEMMA CellValues ==
    ASSUME NEW c \in YosysCells, NEW x \in BOOLEAN, NEW y \in BOOLEAN, NEW z \in BOOLEAN
    PROVE  CellValue(c, x, y, z) \in BOOLEAN
<1>1. CASE c = "MUX"
  <2>1. CellValue(c, x, y, z) = IF z THEN y ELSE x
    BY <1>1 DEF CellValue
  <2>2. (IF z THEN y ELSE x) \in BOOLEAN
    BY Zenon
  <2> QED BY <2>1, <2>2, Zenon
<1>2. CASE c # "MUX"
  BY <1>2 DEF CellValue, YosysCells
<1> QED BY <1>1, <1>2
----------------------------------------------------------------------------
(* The accelerators *)

\* The cuFHEpp function of each cell in Tangor's table.
LEMMA TangorCufhe ==
    ASSUME NEW c \in YosysCells, GateName(c) \in DOMAIN CufheppWraps, NEW v,
           NEW x \in BOOLEAN, NEW y \in BOOLEAN, NEW z \in BOOLEAN,
           v[1] = Encode(x), v[2] = Encode(y), v[3] = Encode(z)
    PROVE  cufhe(CufheppWraps[GateName(c)], v) = {Encode(Meaning(c, x, y, z))}
<1>0. {v[1], v[2], v[3]} \subseteq {Encode(TRUE), Encode(FALSE)}
  OBVIOUS
<1> USE <1>0, Messages DEF cufhe, GateName, CufheppWraps, Meaning, CellValue
<1>1. CASE c = "NOT" BY <1>1
<1>2. CASE c = "AND" BY <1>2
<1>3. CASE c = "NAND" BY <1>3
<1>4. CASE c = "ANDNOT" BY <1>4
<1>5. CASE c = "OR" BY <1>5
<1>6. CASE c = "NOR" BY <1>6
<1>7. CASE c = "ORNOT" BY <1>7
<1>8. CASE c = "XOR" BY <1>8
<1>9. CASE c = "XNOR" BY <1>9
<1>10. CASE c = "MUX"
  <2>1. CufheppWraps[GateName(c)] = "Mux" /\ Meaning(c, x, y, z) = IF x THEN y ELSE z
    BY <1>10
  <2>2. cufhe("Mux", v) =
           {Encode(IF Decode(v[1]) THEN Decode(v[2]) ELSE Decode(v[3]))}
    OBVIOUS
  <2>3. (IF Decode(v[1]) THEN Decode(v[2]) ELSE Decode(v[3])) = IF x THEN y ELSE z
    <3>1. (Decode(v[1]) <=> x) /\ (Decode(v[2]) <=> y) /\ (Decode(v[3]) <=> z)
      OBVIOUS
    <3>2. Decode(v[1]) \in BOOLEAN /\ Decode(v[2]) \in BOOLEAN /\ Decode(v[3]) \in BOOLEAN
      BY DEF Decode
    <3> QED BY <3>1, <3>2, Zenon
  <2> QED BY <2>1, <2>2, <2>3, Zenon
<1>11. CASE c = "NMUX"
  <2>1. CufheppWraps[GateName(c)] = "NMux" /\ Meaning(c, x, y, z) = ~(IF x THEN y ELSE z)
    BY <1>11
  <2>2. cufhe("NMux", v) =
           {Encode(~(IF Decode(v[1]) THEN Decode(v[2]) ELSE Decode(v[3])))}
    OBVIOUS
  <2>3. (Decode(v[1]) <=> x) /\ (Decode(v[2]) <=> y) /\ (Decode(v[3]) <=> z)
    OBVIOUS
  <2>4. Decode(v[1]) \in BOOLEAN /\ Decode(v[2]) \in BOOLEAN /\ Decode(v[3]) \in BOOLEAN
    BY DEF Decode
  <2>5. (~(IF Decode(v[1]) THEN Decode(v[2]) ELSE Decode(v[3]))) =
           ~(IF x THEN y ELSE z)
    BY <2>3, <2>4, Zenon
  <2> QED BY <2>1, <2>2, <2>5, Zenon
<1> QED BY <1>1, <1>2, <1>3, <1>4, <1>5, <1>6, <1>7, <1>8, <1>9, <1>10, <1>11
      DEF YosysCells

\* The cuFHEpp function of each cell that has one in the KVSP backend's table.
LEMMA IyokanCufhe ==
    ASSUME NEW c \in YosysCells, c \in DOMAIN IyokanCufhepp, NEW v,
           NEW x \in BOOLEAN, NEW y \in BOOLEAN, NEW z \in BOOLEAN,
           v[1] = Encode(x), v[2] = Encode(y), v[3] = Encode(z)
    PROVE  cufhe(IyokanCufhepp[c], v) = {Encode(Meaning(c, x, y, z))}
<1>0. {v[1], v[2], v[3]} \subseteq {Encode(TRUE), Encode(FALSE)}
  OBVIOUS
<1> USE <1>0, Messages DEF cufhe, GateName, IyokanCufhepp, Meaning, CellValue
<1>1. CASE c = "NOT" BY <1>1
<1>2. CASE c = "AND" BY <1>2
<1>3. CASE c = "NAND" BY <1>3
<1>4. CASE c = "ANDNOT" BY <1>4
<1>5. CASE c = "OR" BY <1>5
<1>6. CASE c = "NOR" BY <1>6
<1>7. CASE c = "ORNOT" BY <1>7
<1>8. CASE c = "XOR" BY <1>8
<1>9. CASE c = "XNOR" BY <1>9
<1>10. CASE c = "MUX"
  <2>1. IyokanCufhepp[c] = "Mux" /\ Meaning(c, x, y, z) = IF x THEN y ELSE z
    BY <1>10
  <2>2. cufhe("Mux", v) =
           {Encode(IF Decode(v[1]) THEN Decode(v[2]) ELSE Decode(v[3]))}
    OBVIOUS
  <2>3. (IF Decode(v[1]) THEN Decode(v[2]) ELSE Decode(v[3])) = IF x THEN y ELSE z
    <3>1. (Decode(v[1]) <=> x) /\ (Decode(v[2]) <=> y) /\ (Decode(v[3]) <=> z)
      OBVIOUS
    <3>2. Decode(v[1]) \in BOOLEAN /\ Decode(v[2]) \in BOOLEAN /\ Decode(v[3]) \in BOOLEAN
      BY DEF Decode
    <3> QED BY <3>1, <3>2, Zenon
  <2> HIDE DEF cufhe, IyokanCufhepp, Meaning, CellValue
  <2> QED BY <2>1, <2>2, <2>3, Zenon
<1>11. CASE c = "NMUX" BY <1>11
<1> QED BY <1>1, <1>2, <1>3, <1>4, <1>5, <1>6, <1>7, <1>8, <1>9, <1>10, <1>11
      DEF YosysCells

\* Every cell has a function in Tangor's table.
LEMMA TangorCufheTotal ==
    ASSUME NEW c \in YosysCells
    PROVE  GateName(c) \in DOMAIN CufheppWraps
BY DEF GateName, CufheppWraps, YosysCells

\* HOGE's kernel, with the arguments HOGEwrap sets, computes the cell of a
\* two-input gate.
LEMMA HogeBinary ==
    ASSUME NEW c \in YosysCells, GateName(c) \in DOMAIN ClHom,
           NEW x \in BOOLEAN, NEW y \in BOOLEAN, NEW z \in BOOLEAN,
           NEW p, p = ClHom[GateName(c)]
    PROVE  HogeKernel(<<ScaleIndex(p[1]), ScaleIndex(p[2]), OffsetIndex(p[3])>>,
                      Encode(x), Encode(y)) = {Encode(Meaning(c, x, y, z))}
<1>1. /\ HogeFactor(ScaleIndex(p[1])) = p[1]
      /\ HogeFactor(ScaleIndex(p[2])) = p[2]
      /\ HogeFactor(OffsetIndex(p[3])) * Mu = p[3]
  BY DEF ClHom, HogeFactor, ScaleIndex, OffsetIndex, Mu, GateName, YosysCells
<1>2. HogeKernel(<<ScaleIndex(p[1]), ScaleIndex(p[2]), OffsetIndex(p[3])>>,
                 Encode(x), Encode(y)) =
         HomGate(p[1], p[2], p[3], Encode(x), Encode(y))
  BY <1>1 DEF HogeKernel
<1>3. PICK v : v[1] = Encode(x) /\ v[2] = Encode(y) /\ v[3] = Encode(z)
  <2>1. PICK v : v = <<Encode(x), Encode(y), Encode(z)>>
    OBVIOUS
  <2> QED BY <2>1
<1>4. Codelet(ClHom, GateName(c), v) = HomGate(p[1], p[2], p[3], Encode(x), Encode(y))
  <2>1. GateName(c) \notin {"NOT", "MUX", "NMUX"}
    BY DEF ClHom
  <2>2. PICK t : t = ClHom /\ GateName(c) \in DOMAIN t
    OBVIOUS
  <2>3. Codelet(t, GateName(c), v) =
           HomGate(t[GateName(c)][1], t[GateName(c)][2], t[GateName(c)][3], v[1], v[2])
    BY <2>1, <2>2 DEF Codelet
  <2> QED BY <1>3, <2>2, <2>3, Zenon
<1> QED BY <1>2, <1>3, <1>4, TangorCodelet

\* The two products of HOGEMUXwrap.
LEMMA HogeProducts ==
    ASSUME NEW x \in BOOLEAN, NEW y \in BOOLEAN
    PROVE  /\ HogeKernel(<<0, 0, 2>>, Encode(x), Encode(y)) = {Encode(x /\ y)}
           /\ HogeKernel(<<2, 0, 2>>, Encode(x), Encode(y)) = {Encode(~x /\ y)}
<1>1. HogeFactor(0) = 1 /\ HogeFactor(2) = -1 /\ HogeFactor(2) * Mu = -Mu
  BY DEF HogeFactor, Mu
<1>2. /\ HogeKernel(<<0, 0, 2>>, Encode(x), Encode(y)) =
            HomGate(1, 1, -Mu, Encode(x), Encode(y))
      /\ HogeKernel(<<2, 0, 2>>, Encode(x), Encode(y)) =
            HomGate(-1, 1, -Mu, Encode(x), Encode(y))
  BY <1>1 DEF HogeKernel
<1> QED BY <1>2, HomGateTable

\* HOGE computes every cell but NOT, which never comes to it, and NMUX, which
\* HOGEMUXwrap puts together with a wrong sign.
LEMMA HogeCorrect ==
    ASSUME NEW c \in YosysCells \ {"NOT", "NMUX"}, NEW v,
           NEW x \in BOOLEAN, NEW y \in BOOLEAN, NEW z \in BOOLEAN,
           v[1] = Encode(x), v[2] = Encode(y), v[3] = Encode(z)
    PROVE  HogeCodelet(GateName(c), v) = {Encode(Meaning(c, x, y, z))}
<1>1. CASE c = "MUX"
  <2>1. GateName(c) = "MUX" /\ GateName(c) \notin DOMAIN ClHom
    BY <1>1 DEF GateName, ClHom
  <2>2. /\ HogeKernel(<<0, 0, 2>>, v[1], v[2]) = {Encode(x /\ y)}
        /\ HogeKernel(<<2, 0, 2>>, v[1], v[3]) = {Encode(~x /\ z)}
    BY HogeProducts
  <2>3. HogeCodelet(GateName(c), v) =
           {HogeSum("MUX", p, q) : p \in {Encode(x /\ y)}, q \in {Encode(~x /\ z)}}
    BY <2>1, <2>2 DEF HogeCodelet
  <2>4. HogeCodelet(GateName(c), v) = {HogeSum("MUX", Encode(x /\ y), Encode(~x /\ z))}
    BY <2>3
  <2>5. HogeSum("MUX", Encode(x /\ y), Encode(~x /\ z)) = Encode(IF x THEN y ELSE z)
    BY MuxSum DEF HogeSum
  <2>6. Meaning(c, x, y, z) = IF x THEN y ELSE z
    BY <1>1 DEF Meaning, CellValue
  <2> QED BY <2>4, <2>5, <2>6
<1>2. CASE c # "MUX"
  <2>1. GateName(c) \in DOMAIN ClHom
    BY <1>2 DEF GateName, ClHom, YosysCells
  <2>2. PICK p : p = ClHom[GateName(c)]
    OBVIOUS
  <2>3. HogeCodelet(GateName(c), v) =
           HogeKernel(<<ScaleIndex(p[1]), ScaleIndex(p[2]), OffsetIndex(p[3])>>, v[1], v[2])
    BY <2>1, <2>2 DEF HogeCodelet
  <2> QED BY <2>1, <2>2, <2>3, HogeBinary
<1> QED BY <1>1, <1>2

\* Its results are phases.
LEMMA HogeTypes ==
    ASSUME NEW gate, NEW v
    PROVE  HogeCodelet(gate, v) \subseteq Torus
<1>1. \A g, a, b : HogeKernel(g, a, b) \subseteq Torus
  BY ResultTypes DEF HogeKernel, HomGate
<1>2. \A p \in Torus, q \in Torus : HogeSum(gate, p, q) \in Torus
  BY ResultTypes DEF HogeSum, Torus, Mu
<1> QED BY <1>1, <1>2 DEF HogeCodelet
============================================================================
