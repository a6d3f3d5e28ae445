---------------------------- MODULE GateWorkers ----------------------------
(***************************************************************************)
(* What the gate codelets compute, and on which worker: the way of a Yosys *)
(* cell through the tables of TFHEGates to the CPU implementation, the     *)
(* cuFHEpp wrapper or the HOGE accelerator, whose wrapper works on global  *)
(* buffers and persistent kernel arguments.  The HOGE kernel and StarPU    *)
(* are external.                                                           *)
(***************************************************************************)
EXTENDS TFHEGates

CONSTANTS
    Wires,        \* ciphertexts; in build "ram" packed words
    Cells,        \* Cells[b]: the cell types of the netlists build b evaluates
    CpuWorkers, CudaWorkers,   \* the StarPU worker ids of each build
    Builds,       \* "tangor": Tangor's own codelets, "hoge": these with USE_HOGE,
                  \* "iyokan": the KVSP backend's, "ram": its CMUX codelets, with
                  \* TANGOR_EXPERIMENTAL_CUDA_CMUX
    Idle          \* no job

ASSUME GateWorkersAssumption ==
    /\ Builds \subseteq {"tangor", "hoge", "iyokan", "ram"}
    /\ Cells \in [Builds -> SUBSET YosysCells]
    /\ CpuWorkers \in [Builds -> SUBSET Nat]
    /\ CudaWorkers \in [Builds -> SUBSET Nat]
    /\ \A b \in Builds : CpuWorkers[b] \cap CudaWorkers[b] = {}
    /\ "iyokan" \in Builds => "NMUX" \notin Cells["iyokan"]
    /\ "ram" \in Builds => Cells["ram"] = {}

VARIABLES
    build,        \* the build that runs
    phase,        \* phase[w]: the ciphertext of wire w
    bit,          \* ghost: bit[w]: the value the netlist gives wire w
    job,          \* job[k]: the task worker k executes
    stage,        \* stage[k]: how far
    buftlwea, buftlweb, bufres,  \* HOGE's host buffers
    args          \* HOGE's kernel arguments: two scale indices, an offset index

hoge == <<buftlwea, buftlweb, bufres, args>>
vars == <<build, phase, bit, job, stage, hoge>>

Workers == UNION {CpuWorkers[b] \cup CudaWorkers[b] : b \in Builds}
Cpu(k) == k \in CpuWorkers[build]
Cuda(k) == k \in CudaWorkers[build]
Iyokan == build = "iyokan"
UseHoge == build = "hoge"

----------------------------------------------------------------------------
(* The tables of the build *)

Gate(cell) == IF Iyokan THEN cell ELSE GateName(cell)
BinaryTable == IF Iyokan THEN IyokanCodelets ELSE ClHom
CudaTable == IF Iyokan THEN IyokanCufhepp ELSE CufheppWraps
Binary(gate) == gate \in DOMAIN BinaryTable

\* The CPU implementations other than HOGE's, on operands v.
CpuCodelet(gate, v) == Codelet(BinaryTable, gate, v)

----------------------------------------------------------------------------
(* The HOGE accelerator *)

\* Defect: every CPU worker drives the accelerator.
OnHogeAnywhere(k, gate) ==
    UseHoge /\ Cpu(k) /\ gate # "NOT"

\* Worker 0 drives the accelerator, for every gate but NOT.
OnHoge(k, gate) ==
    UseHoge /\ k = 0 /\ Cpu(k) /\ gate # "NOT"

----------------------------------------------------------------------------

Init ==
    /\ build \in Builds
    /\ bit \in [Wires -> BOOLEAN]
    /\ phase = [w \in Wires |-> Encode(bit[w])]
    /\ job = [k \in Workers |-> Idle]
    /\ stage = [k \in Workers |-> "idle"]
    /\ buftlwea = 0 /\ buftlweb = 0 /\ bufres = 0
    /\ args = <<0, 0, 0>>

Busy(k) == stage[k] # "idle"
InputsOf(j) == {j.in[n] : n \in 1..3}
Value(k) == [n \in 1..3 |-> phase[job[k].in[n]]]

CanRun(k, gate) == Cpu(k) \/ (Cuda(k) /\ gate \in DOMAIN CudaTable)

\* StarPU starts a task on a worker once the running tasks neither write its
\* operands nor use its output.
StartsBeside(new) ==
    \A m \in Workers : Busy(m) =>
        /\ job[m].out \notin InputsOf(new) \cup {new.out}
        /\ new.out \notin InputsOf(job[m])

StartTask(k, cell, y, a, b, s) ==
    LET gate == Gate(cell)
        new == [gate |-> gate, out |-> y, in |-> Operands(gate, a, b, s)]
    IN  /\ ~Busy(k)
        /\ CanRun(k, gate)
        /\ StartsBeside(new)
        /\ job' = [job EXCEPT ![k] = new]
        /\ stage' = [stage EXCEPT ![k] = "begin"]
        /\ bit' = [bit EXCEPT ![y] = CellValue(cell, bit[a], bit[b], bit[s])]
        /\ UNCHANGED <<build, phase, hoge>>

Finish(k) ==
    /\ job' = [job EXCEPT ![k] = Idle]
    /\ stage' = [stage EXCEPT ![k] = "idle"]

\* runIyokanStarpuCMUXFFT chooses the codelet by the addresses of its operands.
CmuxTask(output, select, whenTrue, whenFalse) ==
    [out |-> output, select |-> select,
     gate |-> CASE output = whenTrue -> "CMUXInPlaceTrue"
                [] output # whenTrue /\ output = whenFalse -> "CMUXInPlaceFalse"
                [] OTHER -> "CMUX",
     in |-> CASE output = whenTrue -> <<output, whenFalse, whenFalse>>
              [] output # whenTrue /\ output = whenFalse ->
                    <<output, whenTrue, whenTrue>>
              [] OTHER -> <<output, whenTrue, whenFalse>>]

\* The branches of a CMUX are different words.
StartCmux(k, output, select, whenTrue, whenFalse) ==
    LET new == CmuxTask(output, select, whenTrue, whenFalse)
    IN  /\ ~Busy(k)
        /\ whenTrue # whenFalse
        /\ StartsBeside(new)
        /\ job' = [job EXCEPT ![k] = new]
        /\ stage' = [stage EXCEPT ![k] = "cmux"]
        /\ bit' = [bit EXCEPT ![output] =
                      bit[IF select THEN whenTrue ELSE whenFalse]]
        /\ UNCHANGED <<build, phase, hoge>>

\* HomGateWrap, HomNOTWrap, HomMUXWrap, HomNMUXWrap, binaryCodelet, notCodelet
\* and muxCodelet on a CPU: operands and result pass through locals.
CpuWrap(k) ==
    /\ stage[k] = "begin"
    /\ Cpu(k)
    /\ ~OnHoge(k, job[k].gate)
    /\ \E p \in CpuCodelet(job[k].gate, Value(k)) :
          phase' = [phase EXCEPT ![job[k].out] = p]
    /\ Finish(k)
    /\ UNCHANGED <<build, bit, hoge>>

\* The CUDA wrapper on the stream of its worker.
CudaWrap(k) ==
    /\ stage[k] = "begin"
    /\ Cuda(k)
    /\ \E p \in cufhe(CudaTable[job[k].gate], Value(k)) :
          phase' = [phase EXCEPT ![job[k].out] = p]
    /\ Finish(k)
    /\ UNCHANGED <<build, bit, hoge>>

\* cmuxFFTCodelet and its in-place variants, or their cuFHEpp counterparts.
CmuxWrap(k) ==
    LET table == IF Cuda(k) THEN IyokanCufheppCMUX ELSE CmuxCodelets
        b == table[job[k].gate]
    IN  /\ stage[k] = "cmux"
        /\ phase' = [phase EXCEPT ![job[k].out] =
                        CMUXFFT(job[k].select, Value(k)[b[1]], Value(k)[b[2]])]
        /\ Finish(k)
        /\ UNCHANGED <<build, bit, hoge>>

\* HOGEwrap and HOGEMUXwrap: operands into the buffers, kernel arguments set.
HogeLoad(k) ==
    LET gate == job[k].gate
        p == ClHom[gate]
    IN  /\ stage[k] = "begin"
        /\ OnHoge(k, gate)
        /\ buftlwea' = Value(k)[1]
        /\ buftlweb' = Value(k)[2]
        /\ args' = IF Binary(gate)
                   THEN <<ScaleIndex(p[1]), ScaleIndex(p[2]), OffsetIndex(p[3])>>
                   ELSE <<0, 0, 2>>
        /\ stage' = [stage EXCEPT ![k] = "kernel"]
        /\ UNCHANGED <<build, phase, bit, job, bufres>>

\* Migration, kernel and migration back, up to q->finish.
HogeRun(k) ==
    /\ \/ stage[k] = "kernel" /\ stage' = [stage EXCEPT ![k] = "store"]
       \/ stage[k] = "kernel0" /\ stage' = [stage EXCEPT ![k] = "add"]
    /\ bufres' \in HogeKernel(args, buftlwea, buftlweb)
    /\ UNCHANGED <<build, phase, bit, job, buftlwea, buftlweb, args>>

\* HOGEwrap stores the result.
HogeStore(k) ==
    /\ stage[k] = "store"
    /\ Binary(job[k].gate)
    /\ phase' = [phase EXCEPT ![job[k].out] = bufres]
    /\ Finish(k)
    /\ UNCHANGED <<build, bit, hoge>>

\* HOGEMUXwrap stores s AND c1 in the output and sets up (NOT s) AND c0.
HogeSecond(k) ==
    /\ stage[k] = "store"
    /\ ~Binary(job[k].gate)
    /\ phase' = [phase EXCEPT ![job[k].out] = bufres]
    /\ buftlweb' = Value(k)[3]
    /\ args' = [args EXCEPT ![1] = 2]
    /\ stage' = [stage EXCEPT ![k] = "kernel0"]
    /\ UNCHANGED <<build, bit, job, buftlwea, bufres>>

\* The two products are put together in the output.
HogeAdd(k) ==
    LET y == job[k].out
    IN  /\ stage[k] = "add"
        /\ phase' = [phase EXCEPT ![y] =
                        HogeSum(job[k].gate, phase[y], bufres)]
        /\ Finish(k)
        /\ UNCHANGED <<build, bit, hoge>>

\* Any cell over any wires but its output.  Ports a cell lacks repeat A.
StartCell(k, c, y) ==
    LET In == Wires \ {y}
    IN  \E a \in In :
            \E b \in IF c = "NOT" THEN {a} ELSE In :
                \E s \in IF c \in {"MUX", "NMUX"} THEN In ELSE {a} :
                    StartTask(k, c, y, a, b, s)

Next ==
    \E k \in Workers :
        \/ ~Busy(k) /\ \E c \in Cells[build], y \in Wires : StartCell(k, c, y)
        \/ /\ build = "ram"
           /\ \E y, b, a \in Wires, s \in BOOLEAN : StartCmux(k, y, s, b, a)
        \/ CpuWrap(k)
        \/ CudaWrap(k)
        \/ CmuxWrap(k)
        \/ HogeLoad(k)
        \/ HogeRun(k)
        \/ HogeStore(k)
        \/ HogeSecond(k)
        \/ HogeAdd(k)

Spec == Init /\ [][Next]_vars

----------------------------------------------------------------------------
(* Properties *)

\* Type invariant.
TypeOK ==
    /\ build \in Builds
    /\ phase \in [Wires -> Torus]
    /\ bit \in [Wires -> BOOLEAN]
    /\ \A k \in Workers : Busy(k) =>
          /\ job[k].gate \in {Gate(c) : c \in Cells[build]} \cup
                                DOMAIN CmuxCodelets
          /\ job[k].out \in Wires
          /\ job[k].in \in [1..3 -> Wires]
    /\ stage \in [Workers -> {"idle", "begin", "kernel", "store", "kernel0",
                              "add", "cmux"}]
    /\ {buftlwea, buftlweb, bufres} \subseteq Torus
    /\ args \in [1..3 -> 0..3]

\* Every ciphertext that no running codelet is writing encrypts, with the gates'
\* own message and not merely with its sign, the value the netlist gives its
\* wire: whichever workers evaluated the cells it depends on, and whatever used
\* the accelerator's buffers and arguments before.
GateResults ==
    \A w \in Wires :
        (\A k \in Workers : Busy(k) => job[k].out # w) =>
            phase[w] = Encode(bit[w])
============================================================================
