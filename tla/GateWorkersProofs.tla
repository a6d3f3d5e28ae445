------------------------- MODULE GateWorkersProofs -------------------------
(***************************************************************************)
(* TLAPS proof that every gate computes its cell, on whichever worker it   *)
(* runs, for any number of wires and workers (GateResults of GateWorkers). *)
(***************************************************************************)
EXTENDS GateWorkers, TFHEGatesProofs, TLAPS

----------------------------------------------------------------------------
(* From cells to codelets *)

\* The CPU codelet of each cell, in the table of the build.
LEMMA CpuCorrect ==
    ASSUME NEW c \in YosysCells, NEW v,
           NEW x \in BOOLEAN, NEW y \in BOOLEAN, NEW z \in BOOLEAN,
           v[1] = Encode(x), v[2] = Encode(y), v[3] = Encode(z)
    PROVE  CpuCodelet(Gate(c), v) = {Encode(Meaning(c, x, y, z))}
<1>1. CASE Iyokan
  BY <1>1, IyokanCodelet DEF CpuCodelet, BinaryTable, Gate
<1>2. CASE ~Iyokan
  BY <1>2, TangorCodelet DEF CpuCodelet, BinaryTable, Gate
<1> QED BY <1>1, <1>2

\* Whatever its operands, it returns a phase.
LEMMA CpuType ==
    ASSUME NEW c \in YosysCells, NEW v \in [1..3 -> Torus]
    PROVE  CpuCodelet(Gate(c), v) \subseteq Torus
BY CodeletTypes DEF CpuCodelet, BinaryTable, Gate

\* The cuFHEpp function of each cell that has one.
LEMMA CudaCorrect ==
    ASSUME NEW c \in YosysCells, Gate(c) \in DOMAIN CudaTable, NEW v,
           NEW x \in BOOLEAN, NEW y \in BOOLEAN, NEW z \in BOOLEAN,
           v[1] = Encode(x), v[2] = Encode(y), v[3] = Encode(z)
    PROVE  cufhe(CudaTable[Gate(c)], v) = {Encode(Meaning(c, x, y, z))}
<1>1. CASE Iyokan
  BY <1>1, IyokanCufhe DEF CudaTable, Gate
<1>2. CASE ~Iyokan
  BY <1>2, TangorCufhe DEF CudaTable, Gate
<1> QED BY <1>1, <1>2

----------------------------------------------------------------------------
(* What holds of a job, whatever it computes *)

Stages == {"idle", "begin", "kernel", "store", "kernel0", "add", "cmux"}
HogeStages == {"kernel", "store", "kernel0", "add"}

\* The task of a busy worker is one its worker can run, as far as it is.
JobShape(k) ==
    /\ job[k].out \in Wires /\ job[k].in \in [1..3 -> Wires]
    /\ stage[k] = "cmux" =>
          job[k].gate \in DOMAIN CmuxCodelets /\ job[k].select \in BOOLEAN
    /\ stage[k] # "cmux" => \E c \in Cells[build] : job[k].gate = Gate(c)
    /\ stage[k] = "begin" => CanRun(k, job[k].gate)
    /\ stage[k] \in HogeStages => OnHoge(k, job[k].gate)
    /\ stage[k] \in {"kernel0", "add"} => ~Binary(job[k].gate)

Data ==
    /\ phase \in [Wires -> Torus]
    /\ bit \in [Wires -> BOOLEAN]
    /\ buftlwea \in Torus /\ buftlweb \in Torus /\ bufres \in Torus
    /\ args \in [1..3 -> 0..3]

Shape ==
    /\ build \in Builds
    /\ Data
    /\ DOMAIN job = Workers /\ stage \in [Workers -> Stages]
    /\ \A k \in Workers : Busy(k) => JobShape(k)

\* The shape of the state contains its type.
LEMMA ShapeTyped == Shape => TypeOK
<1> SUFFICES ASSUME Shape PROVE TypeOK
  OBVIOUS
<1>1. ASSUME NEW k \in Workers, Busy(k)
      PROVE  /\ job[k].gate \in {Gate(c) : c \in Cells[build]} \cup DOMAIN CmuxCodelets
             /\ job[k].out \in Wires
             /\ job[k].in \in [1..3 -> Wires]
  <2>1. JobShape(k) BY <1>1 DEF Shape
  <2>2. CASE stage[k] = "cmux" BY <2>1, <2>2 DEF JobShape
  <2>3. CASE stage[k] # "cmux"
    <3>1. PICK c \in Cells[build] : job[k].gate = Gate(c)
      BY <2>1, <2>3 DEF JobShape
    <3> QED BY <2>1, <3>1 DEF JobShape
  <2> QED BY <2>2, <2>3
<1> QED BY <1>1 DEF Shape, Data, TypeOK, Stages

\* A step of worker k keeps the shape if it keeps that of k's own task and of the
\* data.
LEMMA ShapeStep ==
    ASSUME Shape, NEW k \in Workers,
           build' = build, Data',
           DOMAIN job' = Workers, stage' \in [Workers -> Stages],
           \A m \in Workers \ {k} : job'[m] = job[m] /\ stage'[m] = stage[m],
           Busy(k)' => JobShape(k)'
    PROVE  Shape'
<1>1. ASSUME NEW m \in Workers, Busy(m)', m # k
      PROVE  JobShape(m)'
  <2>1. Busy(m) /\ JobShape(m)
    BY <1>1 DEF Shape, Busy
  <2> QED BY <1>1, <2>1 DEF JobShape, Gate, Iyokan, CanRun, Cpu, Cuda, CudaTable,
            OnHoge, UseHoge, Binary, BinaryTable
<1> QED BY <1>1 DEF Shape

\* The operands of a running task are ciphertexts.
LEMMA OperandTypes ==
    ASSUME Shape, NEW k \in Workers, Busy(k)
    PROVE  Value(k) \in [1..3 -> Torus]
BY DEF Shape, Data, JobShape, Value

\* A worker that finishes a task leaves a ciphertext in its output.
LEMMA ShapeFinish ==
    ASSUME Shape, NEW k \in Workers, Busy(k), NEW p \in Torus,
           phase' = [phase EXCEPT ![job[k].out] = p],
           Finish(k), UNCHANGED <<build, bit, hoge>>
    PROVE  Shape'
<1>1. Data'
  BY DEF Shape, Data, JobShape, hoge
<1>2. /\ DOMAIN job' = Workers /\ stage' \in [Workers -> Stages] /\ ~Busy(k)'
      /\ \A m \in Workers \ {k} : job'[m] = job[m] /\ stage'[m] = stage[m]
  BY DEF Shape, Finish, Stages, Busy
<1> QED BY <1>1, <1>2, ShapeStep

\* A worker that starts a task does not touch the data.
LEMMA ShapeStart ==
    ASSUME Shape, NEW k \in Workers, NEW new, NEW g \in Stages,
           NEW y \in Wires, NEW x \in BOOLEAN,
           job' = [job EXCEPT ![k] = new], stage' = [stage EXCEPT ![k] = g],
           bit' = [bit EXCEPT ![y] = x], UNCHANGED <<build, phase, hoge>>,
           JobShape(k)'
    PROVE  Shape'
<1>1. Data'
  BY DEF Shape, Data, hoge
<1>2. /\ DOMAIN job' = Workers /\ stage' \in [Workers -> Stages]
      /\ \A m \in Workers \ {k} : job'[m] = job[m] /\ stage'[m] = stage[m]
  BY DEF Shape
<1> QED BY <1>1, <1>2, ShapeStep

\* A cell of the build's netlists has a value.
LEMMA CellTypes ==
    ASSUME Shape, NEW c \in Cells[build]
    PROVE  /\ c \in YosysCells
           /\ \A x, y, z \in BOOLEAN : CellValue(c, x, y, z) \in BOOLEAN
<1>1. c \in YosysCells
  BY GateWorkersAssumption DEF Shape
<1> QED BY <1>1, CellValues

\* Every step keeps the shape.
LEMMA ShapeNext == Shape /\ [Next]_vars => Shape'
<1> SUFFICES ASSUME Shape, [Next]_vars PROVE Shape'
  OBVIOUS
<1>1. ASSUME NEW k \in Workers, ~Busy(k), NEW c \in Cells[build], NEW y \in Wires,
             StartCell(k, c, y)
      PROVE  Shape'
  <2>1. PICK a \in Wires, b \in Wires, s \in Wires : StartTask(k, c, y, a, b, s)
    BY <1>1 DEF StartCell
  <2>2. CellValue(c, bit[a], bit[b], bit[s]) \in BOOLEAN
    BY CellTypes DEF Shape, Data
  <2> DEFINE new == [gate |-> Gate(c), out |-> y, in |-> Operands(Gate(c), a, b, s)]
  <2>3. Operands(Gate(c), a, b, s) \in [1..3 -> Wires]
    BY DEF Operands
  <2>4. /\ job' = [job EXCEPT ![k] = new] /\ stage' = [stage EXCEPT ![k] = "begin"]
        /\ bit' = [bit EXCEPT ![y] = CellValue(c, bit[a], bit[b], bit[s])]
        /\ UNCHANGED <<build, phase, hoge>> /\ CanRun(k, Gate(c))
    BY <2>1 DEF StartTask
  <2>5. job'[k] = new /\ stage'[k] = "begin"
    BY <2>4 DEF Shape
  <2>6. JobShape(k)'
    <3>1. /\ new.out \in Wires /\ new.in \in [1..3 -> Wires] /\ new.gate = Gate(c)
      BY <2>3
    <3>2. Gate(c)' = Gate(c) /\ CanRun(k, Gate(c))'
      BY <2>4 DEF Gate, Iyokan, CanRun, Cpu, Cuda, CudaTable
    <3> HIDE DEF new
    <3> QED BY <2>4, <2>5, <3>1, <3>2 DEF JobShape, HogeStages
  <2> HIDE DEF new
  <2> QED BY <2>2, <2>4, <2>6, ShapeStart DEF Stages
<1>2. ASSUME NEW k \in Workers, NEW y \in Wires, NEW s \in BOOLEAN, NEW b \in Wires,
             NEW a \in Wires, StartCmux(k, y, s, b, a)
      PROVE  Shape'
  <2> DEFINE new == CmuxTask(y, s, b, a)
  <2>1. /\ job' = [job EXCEPT ![k] = new] /\ stage' = [stage EXCEPT ![k] = "cmux"]
        /\ bit' = [bit EXCEPT ![y] = bit[IF s THEN b ELSE a]]
        /\ UNCHANGED <<build, phase, hoge>>
    BY <1>2 DEF StartCmux
  <2>2. bit[IF s THEN b ELSE a] \in BOOLEAN
    BY DEF Shape, Data
  <2>3. /\ new.out \in Wires /\ new.in \in [1..3 -> Wires]
        /\ new.gate \in DOMAIN CmuxCodelets /\ new.select \in BOOLEAN
    BY DEF CmuxTask, CmuxCodelets
  <2> HIDE DEF new
  <2>4. job'[k] = new /\ stage'[k] = "cmux"
    BY <2>1 DEF Shape
  <2>5. JobShape(k)'
    BY <2>3, <2>4 DEF JobShape, HogeStages
  <2> QED BY <2>1, <2>2, <2>5, ShapeStart DEF Stages
<1>3. ASSUME NEW k \in Workers, CpuWrap(k)
      PROVE  Shape'
  <2>1. Busy(k) /\ Value(k) \in [1..3 -> Torus]
    BY <1>3, OperandTypes DEF CpuWrap, Busy
  <2>2. PICK c \in Cells[build] : job[k].gate = Gate(c)
    BY <1>3, <2>1 DEF CpuWrap, Shape, JobShape
  <2>3. PICK p \in CpuCodelet(job[k].gate, Value(k)) :
           phase' = [phase EXCEPT ![job[k].out] = p]
    BY <1>3 DEF CpuWrap
  <2>4. p \in Torus
    BY <2>1, <2>2, <2>3, CpuType, CellTypes
  <2> QED BY <1>3, <2>1, <2>3, <2>4, ShapeFinish DEF CpuWrap
<1>4. ASSUME NEW k \in Workers, CudaWrap(k)
      PROVE  Shape'
  <2>1. PICK p \in Torus : phase' = [phase EXCEPT ![job[k].out] = p]
    BY <1>4, ResultTypes DEF CudaWrap
  <2> QED BY <1>4, <2>1, ShapeFinish DEF CudaWrap, Busy
<1>5. ASSUME NEW k \in Workers, CmuxWrap(k)
      PROVE  Shape'
  <2>1. Busy(k) /\ Value(k) \in [1..3 -> Torus] /\ job[k].gate \in DOMAIN CmuxCodelets
    BY <1>5, OperandTypes DEF CmuxWrap, Busy, Shape, JobShape
  <2>2. IyokanCufheppCMUX = CmuxCodelets
    BY DEF IyokanCufheppCMUX, CmuxCodelets
  <2> DEFINE b == CmuxCodelets[job[k].gate]
             p == CMUXFFT(job[k].select, Value(k)[b[1]], Value(k)[b[2]])
  <2>3. b[1] \in 1..3 /\ b[2] \in 1..3
    BY <2>1 DEF CmuxCodelets
  <2>4. p \in Torus
    BY <2>1, <2>3, ResultTypes DEF CMUXFFT, Torus
  <2>5. phase' = [phase EXCEPT ![job[k].out] = p]
    BY <1>5, <2>2 DEF CmuxWrap
  <2> HIDE DEF p
  <2> QED BY <1>5, <2>1, <2>4, <2>5, ShapeFinish DEF CmuxWrap
<1>6. ASSUME NEW k \in Workers, HogeLoad(k)
      PROVE  Shape'
  <2>1. Busy(k) /\ Value(k) \in [1..3 -> Torus] /\ JobShape(k)
    BY <1>6, OperandTypes DEF HogeLoad, Busy, Shape
  <2>2. args' \in [1..3 -> 0..3]
    BY <1>6 DEF HogeLoad, ScaleIndex, OffsetIndex
  <2>3. Data'
    BY <1>6, <2>1, <2>2 DEF HogeLoad, Data, Shape
  <2>4. JobShape(k)'
    BY <1>6, <2>1 DEF HogeLoad, JobShape, Shape, OnHoge, UseHoge, Cpu, Gate, Iyokan, CanRun
  <2> QED BY <1>6, <2>3, <2>4, ShapeStep DEF HogeLoad, Shape, Stages
<1>7. ASSUME NEW k \in Workers, HogeRun(k)
      PROVE  Shape'
  <2>1. JobShape(k)
    BY <1>7 DEF HogeRun, Busy, Shape
  <2>2. bufres' \in Torus
    BY <1>7, ResultTypes DEF HogeRun, HogeKernel, HomGate
  <2>3. Data'
    BY <1>7, <2>2 DEF HogeRun, Data, Shape
  <2>4. JobShape(k)'
    BY <1>7, <2>1 DEF HogeRun, JobShape, Shape, HogeStages, OnHoge, UseHoge, Cpu, Gate,
      Iyokan, Binary, BinaryTable
  <2> QED BY <1>7, <2>3, <2>4, ShapeStep DEF HogeRun, Shape, Stages
<1>8. ASSUME NEW k \in Workers, HogeStore(k)
      PROVE  Shape'
  BY <1>8, ShapeFinish DEF HogeStore, Busy, Shape, Data
<1>9. ASSUME NEW k \in Workers, HogeSecond(k)
      PROVE  Shape'
  <2>1. Busy(k) /\ Value(k) \in [1..3 -> Torus] /\ JobShape(k)
    BY <1>9, OperandTypes DEF HogeSecond, Busy, Shape
  <2>2. Data'
    BY <1>9, <2>1 DEF HogeSecond, Data, Shape, JobShape
  <2>3. JobShape(k)'
    BY <1>9, <2>1 DEF HogeSecond, JobShape, Shape, HogeStages, OnHoge, UseHoge, Cpu, Gate,
      Iyokan, Binary, BinaryTable
  <2> QED BY <1>9, <2>2, <2>3, ShapeStep DEF HogeSecond, Shape, Stages
<1>10. ASSUME NEW k \in Workers, HogeAdd(k)
      PROVE  Shape'
  <2>1. Busy(k) /\ job[k].out \in Wires
    BY <1>10 DEF HogeAdd, Busy, Shape, JobShape
  <2>2. PICK p \in Torus : phase' = [phase EXCEPT ![job[k].out] = p]
    <3>1. phase[job[k].out] \in Torus /\ bufres \in Torus
      BY <2>1 DEF Shape, Data
    <3>2. /\ (phase[job[k].out] + bufres + Mu) % 8 \in Torus
          /\ (-(phase[job[k].out] - bufres) - Mu) % 8 \in Torus
      BY <3>1, ResultTypes DEF Torus, Mu
    <3> QED BY <1>10, <3>2 DEF HogeAdd, HogeSum
  <2> QED BY <1>10, <2>1, <2>2, ShapeFinish DEF HogeAdd
<1>11. CASE UNCHANGED vars
  <2>1. \A k \in Workers : JobShape(k)' <=> JobShape(k)
    BY <1>11 DEF vars, JobShape, Gate, Iyokan, CanRun, Cpu, Cuda, CudaTable, OnHoge,
      UseHoge, Binary, BinaryTable
  <2> QED BY <1>11, <2>1 DEF vars, hoge, Shape, Data, Busy
<1> QED BY <1>1, <1>2, <1>3, <1>4, <1>5, <1>6, <1>7, <1>8, <1>9, <1>10, <1>11 DEF Next

\* Initially every worker is idle.
LEMMA ShapeInit == Init => Shape
<1> SUFFICES ASSUME Init PROVE Shape
  OBVIOUS
<1>1. phase \in [Wires -> Torus] /\ bit \in [Wires -> BOOLEAN]
  BY Messages DEF Init
<1> QED BY <1>1 DEF Init, Shape, Data, Torus, Busy, Stages

\* GateWorkers is typed: codelets and accelerator only ever store phases, a worker
\* only runs tasks of its build, and the kernel arguments stay in the range the
\* kernel decodes.
THEOREM GateWorkersTypeCorrect == Spec => []TypeOK
<1>1. Spec => []Shape
  BY ShapeInit, ShapeNext, PTL DEF Spec
<1> QED BY <1>1, ShapeTyped, PTL

----------------------------------------------------------------------------
(* What a running task will have computed *)

\* The bit of its n-th operand, and the products of a multiplexer.
Bit(k, n) == bit[job[k].in[n]]
TrueProduct(k) == Bit(k, 1) /\ Bit(k, 2)
FalseProduct(k) == ~Bit(k, 1) /\ Bit(k, 3)

\* What the accelerator's first run is to give.
FirstResult(k) ==
    IF Binary(job[k].gate) THEN bit[job[k].out] ELSE TrueProduct(k)

\* The buffers, the kernel arguments and the half-written output of the worker on
\* the accelerator.
Accelerated(k) ==
    /\ stage[k] = "kernel" =>
          HogeKernel(args, buftlwea, buftlweb) = {Encode(FirstResult(k))}
    /\ stage[k] = "store" => bufres = Encode(FirstResult(k))
    /\ stage[k] \in {"kernel", "store"} /\ ~Binary(job[k].gate) =>
          buftlwea = Encode(Bit(k, 1)) /\ args = <<0, 0, 2>>
    /\ stage[k] \in {"kernel0", "add"} =>
          phase[job[k].out] = Encode(TrueProduct(k))
    /\ stage[k] = "kernel0" =>
          HogeKernel(args, buftlwea, buftlweb) = {Encode(FalseProduct(k))}
    /\ stage[k] = "add" => bufres = Encode(FalseProduct(k))

\* The result a CMUX codelet is about to write.
CmuxResult(k) ==
    CMUXFFT(job[k].select, Value(k)[CmuxCodelets[job[k].gate][1]],
            Value(k)[CmuxCodelets[job[k].gate][2]])

\* The bit of a gate's output is its cell's value of the bits of its operands.
CellPending(k) ==
    /\ \A n \in 1..3 : job[k].in[n] # job[k].out
    /\ \E c \in Cells[build] :
          /\ job[k].gate = Gate(c)
          /\ bit[job[k].out] = Meaning(c, Bit(k, 1), Bit(k, 2), Bit(k, 3))

Pending(k) ==
    /\ stage[k] = "cmux" => CmuxResult(k) = Encode(bit[job[k].out])
    /\ stage[k] # "cmux" => CellPending(k)
    /\ Accelerated(k)

\* Running tasks neither write another's operands nor its output.
Beside ==
    \A k, m \in Workers : k # m /\ Busy(k) /\ Busy(m) =>
        job[m].out \notin InputsOf(job[k]) \cup {job[k].out}

Correct ==
    /\ GateResults
    /\ Beside
    /\ \A k \in Workers : Busy(k) => Pending(k)

\* A step of worker k that writes one wire, not used by the other workers' tasks,
\* and leaves the accelerator alone unless k drives it, keeps the correctness of
\* all if it keeps that of k's task.
LEMMA CorrectStep ==
    ASSUME Shape, Correct, NEW k \in Workers, NEW y \in Wires,
           build' = build,
           \A w \in Wires \ {y} : phase'[w] = phase[w] /\ bit'[w] = bit[w],
           \A m \in Workers \ {k} :
              /\ job'[m] = job[m] /\ stage'[m] = stage[m]
              /\ Busy(m) => y \notin InputsOf(job[m]) \cup {job[m].out}
              /\ Busy(m) /\ Busy(k)' => job[m].out \notin InputsOf(job'[k]),
           hoge' = hoge \/ (UseHoge /\ k = 0),
           Busy(k) => job[k].out = y,
           Busy(k)' => job'[k].out = y /\ Pending(k)',
           ~Busy(k)' => phase'[y] = Encode(bit'[y])
    PROVE  Correct'
<1>1. ASSUME NEW m \in Workers, m # k
      PROVE  Busy(m)' <=> Busy(m)
  BY <1>1 DEF Busy
<1>2. GateResults'
  <2> SUFFICES ASSUME NEW w \in Wires,
                      \A m \in Workers : Busy(m)' => job'[m].out # w
               PROVE  phase'[w] = Encode(bit'[w])
    BY DEF GateResults
  <2>1. CASE w = y
    BY <2>1
  <2>2. CASE w # y
    <3>1. \A m \in Workers : Busy(m) => job[m].out # w
      BY <1>1, <2>2
    <3> QED BY <2>2, <3>1 DEF Correct, GateResults
  <2> QED BY <2>1, <2>2
<1>3. Beside'
  <2> SUFFICES ASSUME NEW i \in Workers, NEW m \in Workers, i # m, Busy(i)', Busy(m)'
               PROVE  job'[m].out \notin InputsOf(job'[i]) \cup {job'[i].out}
    BY DEF Beside, InputsOf
  <2>1. CASE i = k
    BY <1>1, <2>1
  <2>2. CASE m = k
    BY <1>1, <2>2
  <2>3. CASE i # k /\ m # k
    BY <1>1, <2>3 DEF Correct, Beside
  <2> QED BY <2>1, <2>2, <2>3
<1>4. ASSUME NEW m \in Workers, m # k, Busy(m)'
      PROVE  Pending(m)'
  <2>1. /\ Busy(m) /\ JobShape(m) /\ Pending(m)
        /\ job'[m] = job[m] /\ stage'[m] = stage[m]
        /\ y \notin InputsOf(job[m]) \cup {job[m].out}
    BY <1>1, <1>4 DEF Shape, Correct
  <2>2. \A n \in 1..3 : job[m].in[n] \in Wires \ {y}
    BY <2>1 DEF JobShape, InputsOf
  <2>3. /\ \A n \in 1..3 : Bit(m, n)' = Bit(m, n)
        /\ Value(m)' = Value(m)
    BY <2>1, <2>2 DEF Bit, Value
  <2>4. /\ bit'[job[m].out] = bit[job[m].out]
        /\ phase'[job[m].out] = phase[job[m].out]
    BY <2>1 DEF JobShape
  <2>5. \A g : (Gate(g)' = Gate(g)) /\ (Binary(g)' <=> Binary(g))
    BY DEF Gate, Iyokan, Binary, BinaryTable
  <2>6. stage[m] = "cmux" => (CmuxResult(m) = Encode(bit[job[m].out]))'
    <3>1. CmuxResult(m)' = CmuxResult(m)
      BY <2>1, <2>3 DEF CmuxResult
    <3> QED BY <2>1, <2>4, <3>1 DEF Pending
  <2>7. stage[m] # "cmux" => CellPending(m)'
    BY <2>1, <2>3, <2>4, <2>5 DEF Pending, CellPending
  <2>8. Accelerated(m)'
    <3>1. CASE hoge' = hoge
      <4>1. /\ TrueProduct(m)' = TrueProduct(m) /\ FalseProduct(m)' = FalseProduct(m)
            /\ FirstResult(m)' = FirstResult(m)
        BY <2>1, <2>3, <2>4, <2>5 DEF TrueProduct, FalseProduct, FirstResult
      <4> QED BY <2>1, <2>3, <2>4, <2>5, <3>1, <4>1 DEF Pending, Accelerated, hoge
    <3>2. CASE k = 0
      <4>1. stage[m] \notin HogeStages
        BY <1>4, <2>1, <3>2 DEF JobShape, OnHoge
      <4> QED BY <2>1, <4>1 DEF Accelerated, HogeStages
    <3> QED BY <3>1, <3>2
  <2> QED BY <2>1, <2>6, <2>7, <2>8 DEF Pending
<1> QED BY <1>2, <1>3, <1>4 DEF Correct

\* A worker may finish once it writes the message of its output's bit.
LEMMA CorrectFinish ==
    ASSUME Shape, Correct, NEW k \in Workers, Busy(k),
           phase' = [phase EXCEPT ![job[k].out] = Encode(bit[job[k].out])],
           Finish(k), UNCHANGED <<build, bit, hoge>>
    PROVE  Correct'
<1>1. job[k].out \in Wires
  BY DEF Shape, JobShape
<1>2. ~Busy(k)'
  BY DEF Finish, Shape, Busy
<1>3. ASSUME NEW m \in Workers \ {k}
      PROVE  /\ job'[m] = job[m] /\ stage'[m] = stage[m]
             /\ Busy(m) => job[k].out \notin InputsOf(job[m]) \cup {job[m].out}
  BY DEF Finish, Shape, Correct, Beside
<1>4. /\ \A w \in Wires \ {job[k].out} : phase'[w] = phase[w] /\ bit'[w] = bit[w]
      /\ phase'[job[k].out] = Encode(bit'[job[k].out])
  BY <1>1 DEF Shape, Data
<1> QED BY <1>1, <1>2, <1>3, <1>4, CorrectStep

\* The worker on the accelerator may go on as long as its own task stays correct.
LEMMA CorrectHoge ==
    ASSUME Shape, Correct, NEW k \in Workers, Busy(k), OnHoge(k, job[k].gate),
           NEW g, g # "idle", stage' = [stage EXCEPT ![k] = g],
           phase' = phase \/ \E p : phase' = [phase EXCEPT ![job[k].out] = p],
           UNCHANGED <<build, bit, job>>,
           Pending(k)'
    PROVE  Correct'
<1>1. job[k].out \in Wires
  BY DEF Shape, JobShape
<1>2. Busy(k)'
  BY DEF Shape, Busy
<1>3. ASSUME NEW m \in Workers \ {k}
      PROVE  /\ job'[m] = job[m] /\ stage'[m] = stage[m]
             /\ Busy(m) => job[k].out \notin InputsOf(job[m]) \cup {job[m].out}
             /\ Busy(m) => job[m].out \notin InputsOf(job'[k])
  BY DEF Shape, Correct, Beside
<1>4. \A w \in Wires \ {job[k].out} : phase'[w] = phase[w] /\ bit'[w] = bit[w]
  BY DEF Shape, Data
<1> QED BY <1>1, <1>2, <1>3, <1>4, CorrectStep DEF OnHoge

\* A task may start if it will compute the bit its output gets.
LEMMA CorrectStart ==
    ASSUME Shape, Correct, NEW k \in Workers, ~Busy(k), NEW new, NEW g, g # "idle",
           NEW y \in Wires, new.out = y, NEW x,
           StartsBeside(new),
           job' = [job EXCEPT ![k] = new], stage' = [stage EXCEPT ![k] = g],
           bit' = [bit EXCEPT ![y] = x], UNCHANGED <<build, phase, hoge>>,
           Pending(k)'
    PROVE  Correct'
<1>1. Busy(k)' /\ job'[k] = new
  BY DEF Shape, Busy
<1>2. ASSUME NEW m \in Workers \ {k}
      PROVE  /\ job'[m] = job[m] /\ stage'[m] = stage[m]
             /\ Busy(m) => y \notin InputsOf(job[m]) \cup {job[m].out}
             /\ Busy(m) => job[m].out \notin InputsOf(job'[k])
  BY <1>1 DEF Shape, StartsBeside
<1>3. \A w \in Wires \ {y} : phase'[w] = phase[w] /\ bit'[w] = bit[w]
  BY DEF Shape, Data
<1> QED BY <1>1, <1>2, <1>3, CorrectStep

\* A running gate's operands encrypt their wires' bits.
LEMMA InputsValid ==
    ASSUME Shape, Correct, NEW k \in Workers, Busy(k), stage[k] # "cmux"
    PROVE  \A n \in 1..3 : Bit(k, n) \in BOOLEAN /\ Value(k)[n] = Encode(Bit(k, n))
<1> SUFFICES ASSUME NEW n \in 1..3
             PROVE  Bit(k, n) \in BOOLEAN /\ Value(k)[n] = Encode(Bit(k, n))
  OBVIOUS
<1>1. job[k].in[n] \in Wires /\ job[k].in[n] # job[k].out
  BY DEF Shape, JobShape, Correct, Pending, CellPending
<1>2. ASSUME NEW m \in Workers, Busy(m)
      PROVE  job[m].out # job[k].in[n]
  BY <1>1, <1>2 DEF Correct, Beside, InputsOf
<1> QED BY <1>1, <1>2 DEF Correct, GateResults, Value, Bit, Shape, Data

\* A selected packed word, taken from phases.
LEMMA CmuxSelects ==
    ASSUME NEW s \in BOOLEAN, NEW p \in Torus, NEW q \in Torus
    PROVE  CMUXFFT(s, p, q) = IF s THEN p ELSE q
BY DEF CMUXFFT, Torus

\* The start of a gate.
LEMMA CorrectStartCell ==
    ASSUME Shape, Correct, NEW k \in Workers, ~Busy(k), NEW c \in Cells[build],
           NEW y \in Wires, StartCell(k, c, y)
    PROVE  Correct'
<1>1. PICK a \in Wires \ {y}, b \in Wires \ {y}, s \in Wires \ {y} :
         StartTask(k, c, y, a, b, s)
  BY DEF StartCell
<1> DEFINE in == Operands(Gate(c), a, b, s)
           new == [gate |-> Gate(c), out |-> y, in |-> in]
           x == CellValue(c, bit[a], bit[b], bit[s])
<1>2. /\ job' = [job EXCEPT ![k] = new] /\ stage' = [stage EXCEPT ![k] = "begin"]
      /\ bit' = [bit EXCEPT ![y] = x]
      /\ UNCHANGED <<build, phase, hoge>> /\ StartsBeside(new)
  BY <1>1 DEF StartTask
<1>3. \A n \in 1..3 : in[n] \in Wires \ {y}
  BY DEF Operands
<1>4. x = Meaning(c, bit[in[1]], bit[in[2]], bit[in[3]])
  <2>1. c \in YosysCells /\ Gate(c) \in {c, GateName(c)}
    BY CellTypes DEF Gate
  <2> QED BY <2>1, MeaningOfOperands
<1>5. new.gate = Gate(c) /\ new.out = y /\ new.in = in
  OBVIOUS
<1> HIDE DEF in, new, x
<1>6. job'[k] = new /\ stage'[k] = "begin" /\ bit'[y] = x
  BY <1>2 DEF Shape, Data
<1>7. \A n \in 1..3 : Bit(k, n)' = bit[in[n]]
  BY <1>2, <1>3, <1>5, <1>6 DEF Bit, Shape, Data
<1>8. Gate(c)' = Gate(c)
  BY <1>2 DEF Gate, Iyokan
<1>9. CellPending(k)'
  BY <1>2, <1>3, <1>4, <1>5, <1>6, <1>7, <1>8 DEF CellPending
<1>10. Pending(k)'
  BY <1>6, <1>9 DEF Pending, Accelerated
<1> QED BY <1>2, <1>5, <1>10, CorrectStart

\* The start of a CMUX, in place or not.
LEMMA CorrectStartCmux ==
    ASSUME Shape, Correct, NEW k \in Workers, NEW y \in Wires, NEW s \in BOOLEAN,
           NEW b \in Wires, NEW a \in Wires, StartCmux(k, y, s, b, a)
    PROVE  Correct'
<1> DEFINE new == CmuxTask(y, s, b, a)
           x == bit[IF s THEN b ELSE a]
           i == CmuxCodelets[new.gate]
<1>1. /\ job' = [job EXCEPT ![k] = new] /\ stage' = [stage EXCEPT ![k] = "cmux"]
      /\ bit' = [bit EXCEPT ![y] = x] /\ ~Busy(k)
      /\ UNCHANGED <<build, phase, hoge>> /\ StartsBeside(new)
  BY DEF StartCmux
<1>2. /\ new.out = y /\ new.select = s
      /\ b \in InputsOf(new) \cup {y} /\ a \in InputsOf(new) \cup {y}
      /\ i[1] \in 1..3 /\ i[2] \in 1..3
      /\ new.in[i[1]] = b /\ new.in[i[2]] = a
  BY DEF CmuxTask, CmuxCodelets, InputsOf
<1> HIDE DEF new, x
<1>3. \A m \in Workers : Busy(m) => job[m].out # a /\ job[m].out # b
  BY <1>1, <1>2 DEF StartsBeside
<1>4. phase[a] = Encode(bit[a]) /\ phase[b] = Encode(bit[b])
  BY <1>3 DEF Correct, GateResults
<1>5. job'[k] = new /\ stage'[k] = "cmux" /\ bit'[y] = x
  BY <1>1 DEF Shape, Data
<1>6. CmuxResult(k)' = CMUXFFT(s, phase[b], phase[a])
  <2>1. Value(k)'[i[1]] = phase[b] /\ Value(k)'[i[2]] = phase[a]
    BY <1>1, <1>2, <1>5 DEF Value
  <2> QED BY <1>2, <1>5, <2>1 DEF CmuxResult
<1>7. CMUXFFT(s, phase[b], phase[a]) = Encode(x)
  BY <1>4, CmuxSelects DEF x, Shape, Data
<1>8. Pending(k)'
  BY <1>2, <1>5, <1>6, <1>7 DEF Pending, Accelerated
<1> QED BY <1>1, <1>2, <1>8, CorrectStart

\* A gate evaluated on a CPU.
LEMMA CorrectCpuWrap ==
    ASSUME Shape, Correct, NEW k \in Workers, CpuWrap(k)
    PROVE  Correct'
<1>1. Busy(k) /\ stage[k] = "begin"
  BY DEF CpuWrap, Busy
<1>2. PICK c \in Cells[build] :
         /\ job[k].gate = Gate(c)
         /\ bit[job[k].out] = Meaning(c, Bit(k, 1), Bit(k, 2), Bit(k, 3))
  BY <1>1 DEF Correct, Pending, CellPending
<1>3. CpuCodelet(job[k].gate, Value(k)) = {Encode(bit[job[k].out])}
  BY <1>1, <1>2, InputsValid, CellTypes, CpuCorrect
<1>4. phase' = [phase EXCEPT ![job[k].out] = Encode(bit[job[k].out])]
  BY <1>3 DEF CpuWrap
<1> QED BY <1>1, <1>4, CorrectFinish DEF CpuWrap

\* A gate evaluated by cuFHEpp.
LEMMA CorrectCudaWrap ==
    ASSUME Shape, Correct, NEW k \in Workers, CudaWrap(k)
    PROVE  Correct'
<1>1. Busy(k) /\ stage[k] = "begin"
  BY DEF CudaWrap, Busy
<1>2. PICK c \in Cells[build] :
         /\ job[k].gate = Gate(c)
         /\ bit[job[k].out] = Meaning(c, Bit(k, 1), Bit(k, 2), Bit(k, 3))
  BY <1>1 DEF Correct, Pending, CellPending
<1>3. job[k].gate \in DOMAIN CudaTable
  <2>1. CanRun(k, job[k].gate)
    BY <1>1 DEF Shape, JobShape
  <2>2. ~Cpu(k)
    BY GateWorkersAssumption DEF CudaWrap, Cuda, Cpu, Shape
  <2> QED BY <2>1, <2>2 DEF CanRun
<1>4. cufhe(CudaTable[job[k].gate], Value(k)) = {Encode(bit[job[k].out])}
  BY <1>1, <1>2, <1>3, InputsValid, CellTypes, CudaCorrect
<1>5. phase' = [phase EXCEPT ![job[k].out] = Encode(bit[job[k].out])]
  BY <1>4 DEF CudaWrap
<1> QED BY <1>1, <1>5, CorrectFinish DEF CudaWrap

\* A CMUX, on a CPU or a GPU.
LEMMA CorrectCmuxWrap ==
    ASSUME Shape, Correct, NEW k \in Workers, CmuxWrap(k)
    PROVE  Correct'
<1>1. Busy(k) /\ stage[k] = "cmux"
  BY DEF CmuxWrap, Busy
<1>2. IyokanCufheppCMUX = CmuxCodelets
  BY DEF IyokanCufheppCMUX, CmuxCodelets
<1>3. CmuxResult(k) = Encode(bit[job[k].out])
  BY <1>1 DEF Correct, Pending
<1>4. phase' = [phase EXCEPT ![job[k].out] = CmuxResult(k)]
  BY <1>2 DEF CmuxWrap, CmuxResult
<1> QED BY <1>1, <1>3, <1>4, CorrectFinish DEF CmuxWrap

\* What a task is to compute does not change while it runs.
LEMMA SameTask ==
    ASSUME Correct, NEW k \in Workers, Busy(k), stage[k] # "cmux",
           UNCHANGED <<build, bit, job>>
    PROVE  /\ \A n \in 1..3 : Bit(k, n)' = Bit(k, n)
           /\ TrueProduct(k)' = TrueProduct(k) /\ FalseProduct(k)' = FalseProduct(k)
           /\ FirstResult(k)' = FirstResult(k)
           /\ Binary(job[k].gate)' <=> Binary(job[k].gate)
           /\ CellPending(k)'
BY DEF Bit, FirstResult, TrueProduct, FalseProduct, Binary, BinaryTable, Iyokan,
  CellPending, Correct, Pending, Gate

\* The accelerator is loaded with the operands and the arguments of the gate.
LEMMA CorrectHogeLoad ==
    ASSUME Shape, Correct, NEW k \in Workers, HogeLoad(k)
    PROVE  Correct'
<1>1. /\ Busy(k) /\ stage[k] = "begin" /\ OnHoge(k, job[k].gate)
      /\ stage' = [stage EXCEPT ![k] = "kernel"]
      /\ UNCHANGED <<build, phase, bit, job, bufres>>
  BY DEF HogeLoad, Busy
<1>2. \A n \in 1..3 : Bit(k, n) \in BOOLEAN /\ Value(k)[n] = Encode(Bit(k, n))
  BY <1>1, InputsValid
<1>3. PICK c \in Cells[build] :
         /\ job[k].gate = Gate(c)
         /\ bit[job[k].out] = Meaning(c, Bit(k, 1), Bit(k, 2), Bit(k, 3))
  BY <1>1 DEF Correct, Pending, CellPending
<1>4. buftlwea' = Encode(Bit(k, 1)) /\ buftlweb' = Encode(Bit(k, 2))
  BY <1>2 DEF HogeLoad
<1>5. HogeKernel(args', buftlwea', buftlweb') = {Encode(FirstResult(k))}
  <2>1. CASE Binary(job[k].gate)
    <3> DEFINE p == ClHom[job[k].gate]
    <3>1. args' = <<ScaleIndex(p[1]), ScaleIndex(p[2]), OffsetIndex(p[3])>>
      BY <2>1 DEF HogeLoad
    <3>2. ~Iyokan
      BY <1>1 DEF OnHoge, UseHoge, Iyokan
    <3>3. FirstResult(k) = Meaning(c, Bit(k, 1), Bit(k, 2), Bit(k, 3))
      BY <1>3, <2>1 DEF FirstResult
    <3> HIDE DEF p
    <3>4. p = ClHom[Gate(c)] /\ Binary(Gate(c))
      BY <1>3, <2>1 DEF p
    <3>5. c \in YosysCells
      BY CellTypes
    <3>6. HogeKernel(<<ScaleIndex(p[1]), ScaleIndex(p[2]), OffsetIndex(p[3])>>,
                     Encode(Bit(k, 1)), Encode(Bit(k, 2))) =
             {Encode(Meaning(c, Bit(k, 1), Bit(k, 2), Bit(k, 3)))}
      <4>1. GateName(c) \in DOMAIN ClHom /\ p = ClHom[GateName(c)]
        BY <3>2, <3>4 DEF Binary, BinaryTable, Gate
      <4> QED BY <1>2, <3>5, <4>1, HogeBinary
    <3> QED BY <1>4, <3>1, <3>3, <3>6
  <2>2. CASE ~Binary(job[k].gate)
    <3>1. args' = <<0, 0, 2>>
      BY <2>2 DEF HogeLoad
    <3>2. FirstResult(k) = TrueProduct(k)
      BY <2>2 DEF FirstResult
    <3>3. HogeKernel(<<0, 0, 2>>, Encode(Bit(k, 1)), Encode(Bit(k, 2))) =
             {Encode(Bit(k, 1) /\ Bit(k, 2))}
      BY <1>2, HogeProducts
    <3> QED BY <1>4, <3>1, <3>2, <3>3 DEF TrueProduct
  <2> QED BY <2>1, <2>2
<1>6. ~Binary(job[k].gate) => args' = <<0, 0, 2>>
  BY DEF HogeLoad
<1>7. stage'[k] = "kernel"
  BY <1>1 DEF Shape
<1>8. Pending(k)'
  BY <1>1, <1>4, <1>5, <1>6, <1>7, SameTask DEF Pending, Accelerated
<1> QED BY <1>1, <1>8, CorrectHoge

\* The accelerator runs: its only possible result is the one the task needs.
LEMMA CorrectHogeRun ==
    ASSUME Shape, Correct, NEW k \in Workers, HogeRun(k)
    PROVE  Correct'
<1>1. /\ Busy(k) /\ stage[k] \in {"kernel", "kernel0"} /\ OnHoge(k, job[k].gate)
      /\ bufres' \in HogeKernel(args, buftlwea, buftlweb)
      /\ UNCHANGED <<build, phase, bit, job, buftlwea, buftlweb, args>>
  BY DEF HogeRun, Busy, Shape, JobShape, HogeStages
<1>2. Accelerated(k)
  BY <1>1 DEF Correct, Pending
<1>3. CASE stage[k] = "kernel"
  <2>1. stage' = [stage EXCEPT ![k] = "store"]
    BY <1>3 DEF HogeRun
  <2>2. stage'[k] = "store"
    BY <2>1 DEF Shape
  <2>3. bufres' = Encode(FirstResult(k))
    BY <1>1, <1>2, <1>3 DEF Accelerated
  <2>4. Pending(k)'
    BY <1>1, <1>2, <1>3, <2>2, <2>3, SameTask DEF Pending, Accelerated
  <2> QED BY <1>1, <2>1, <2>4, CorrectHoge
<1>4. CASE stage[k] = "kernel0"
  <2>1. stage' = [stage EXCEPT ![k] = "add"]
    BY <1>4 DEF HogeRun
  <2>2. stage'[k] = "add"
    BY <2>1 DEF Shape
  <2>3. bufres' = Encode(FalseProduct(k))
    BY <1>1, <1>2, <1>4 DEF Accelerated
  <2>4. Pending(k)'
    BY <1>1, <1>2, <1>4, <2>2, <2>3, SameTask DEF Pending, Accelerated
  <2> QED BY <1>1, <2>1, <2>4, CorrectHoge
<1> QED BY <1>1, <1>3, <1>4

\* The result of a two-input gate is stored.
LEMMA CorrectHogeStore ==
    ASSUME Shape, Correct, NEW k \in Workers, HogeStore(k)
    PROVE  Correct'
<1>1. Busy(k) /\ Accelerated(k)
  BY DEF HogeStore, Busy, Correct, Pending
<1>2. bufres = Encode(bit[job[k].out])
  BY <1>1 DEF HogeStore, Accelerated, FirstResult
<1> QED BY <1>1, <1>2, CorrectFinish DEF HogeStore

\* The first product of a multiplexer is stored and the second set up.
LEMMA CorrectHogeSecond ==
    ASSUME Shape, Correct, NEW k \in Workers, HogeSecond(k)
    PROVE  Correct'
<1>1. /\ Busy(k) /\ stage[k] = "store" /\ Accelerated(k) /\ OnHoge(k, job[k].gate)
      /\ ~Binary(job[k].gate) /\ job[k].out \in Wires
      /\ UNCHANGED <<build, bit, job, buftlwea, bufres>>
      /\ stage' = [stage EXCEPT ![k] = "kernel0"]
      /\ phase' = [phase EXCEPT ![job[k].out] = bufres]
  BY DEF HogeSecond, Busy, Correct, Pending, Shape, JobShape, HogeStages
<1>2. \A n \in 1..3 : Bit(k, n) \in BOOLEAN /\ Value(k)[n] = Encode(Bit(k, n))
  BY <1>1, InputsValid
<1>3. phase'[job[k].out] = Encode(TrueProduct(k))
  BY <1>1 DEF Accelerated, FirstResult, Shape, Data
<1>4. /\ buftlwea' = Encode(Bit(k, 1)) /\ buftlweb' = Encode(Bit(k, 3))
      /\ args' = <<2, 0, 2>>
  BY <1>1, <1>2 DEF Accelerated, HogeSecond
<1>5. HogeKernel(args', buftlwea', buftlweb') = {Encode(FalseProduct(k))}
  BY <1>2, <1>4, HogeProducts DEF FalseProduct
<1>6. stage'[k] = "kernel0"
  BY <1>1 DEF Shape
<1>7. Pending(k)'
  BY <1>1, <1>3, <1>5, <1>6, SameTask DEF Pending, Accelerated
<1> QED BY <1>1, <1>7, CorrectHoge

\* The products are put together: right for a MUX.
LEMMA CorrectHogeAdd ==
    ASSUME "hoge" \in Builds => "NMUX" \notin Cells["hoge"],
           Shape, Correct, NEW k \in Workers, HogeAdd(k)
    PROVE  Correct'
<1>1. /\ Busy(k) /\ stage[k] = "add" /\ Accelerated(k) /\ OnHoge(k, job[k].gate)
      /\ ~Binary(job[k].gate)
  BY DEF HogeAdd, Busy, Correct, Pending, Shape, JobShape, HogeStages
<1>2. \A n \in 1..3 : Bit(k, n) \in BOOLEAN
  BY <1>1, InputsValid
<1>3. PICK c \in Cells[build] :
         /\ job[k].gate = Gate(c)
         /\ bit[job[k].out] = Meaning(c, Bit(k, 1), Bit(k, 2), Bit(k, 3))
  BY <1>1 DEF Correct, Pending, CellPending
<1>4. c = "MUX" /\ job[k].gate # "NMUX"
  <2>1. c # "NMUX" /\ c \in YosysCells /\ ~Iyokan
    BY <1>1, CellTypes DEF OnHoge, UseHoge, Shape, Iyokan
  <2> QED BY <1>1, <1>3, <2>1 DEF OnHoge, Gate, GateName, Binary, BinaryTable, ClHom,
            YosysCells
<1>5. bit[job[k].out] = IF Bit(k, 1) THEN Bit(k, 2) ELSE Bit(k, 3)
  BY <1>3, <1>4 DEF Meaning, CellValue
<1>6. phase[job[k].out] = Encode(TrueProduct(k)) /\ bufres = Encode(FalseProduct(k))
  BY <1>1 DEF Accelerated
<1>7. (phase[job[k].out] + bufres + Mu) % 8 = Encode(bit[job[k].out])
  BY <1>2, <1>5, <1>6, MuxSum DEF TrueProduct, FalseProduct
<1>8. phase' = [phase EXCEPT ![job[k].out] = Encode(bit[job[k].out])]
  BY <1>4, <1>7 DEF HogeAdd, HogeSum
<1> QED BY <1>1, <1>8, CorrectFinish DEF HogeAdd

\* Every step keeps the running tasks correct.
LEMMA CorrectNext ==
    ASSUME "hoge" \in Builds => "NMUX" \notin Cells["hoge"]
    PROVE  Shape /\ Correct /\ [Next]_vars => Correct'
<1> SUFFICES ASSUME Shape, Correct, [Next]_vars PROVE Correct'
  OBVIOUS
<1>1. CASE UNCHANGED vars
  <2>1. \A k \in Workers : Pending(k)' <=> Pending(k)
    BY <1>1 DEF vars, hoge, Pending, CmuxResult, Value, CellPending, Bit, Gate, Iyokan,
      Accelerated, FirstResult, TrueProduct, FalseProduct, Binary, BinaryTable
  <2> QED BY <1>1, <2>1 DEF vars, hoge, Correct, GateResults, Beside, Busy, InputsOf
<1>2. CASE Next
  BY <1>2, CorrectStartCell, CorrectStartCmux, CorrectCpuWrap, CorrectCudaWrap,
    CorrectCmuxWrap, CorrectHogeLoad, CorrectHogeRun, CorrectHogeStore,
    CorrectHogeSecond, CorrectHogeAdd DEF Next
<1> QED BY <1>1, <1>2

\* Every ciphertext that no running codelet is writing encrypts the value the
\* netlist gives its wire, for every number of wires and workers and every set of
\* cells, if the netlists for HOGE have no NMUX.  That HOGEMUXwrap's NMUX is wrong
\* is what the run gates_hoge_nmux shows.
THEOREM GatesComputeCells ==
    ASSUME "hoge" \in Builds => "NMUX" \notin Cells["hoge"]
    PROVE  Spec => []GateResults
<1>1. Init => Correct
  BY DEF Init, Correct, GateResults, Beside, Busy
<1>2. Correct => GateResults
  BY DEF Correct
<1> QED BY <1>1, <1>2, ShapeInit, ShapeNext, CorrectNext, PTL DEF Spec
============================================================================
