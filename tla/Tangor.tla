------------------------------- MODULE Tangor -------------------------------
(***************************************************************************)
(* The native program (src/tangor.cpp): a Yosys netlist is parsed, every   *)
(* net gets a ciphertext with a StarPU handle, the gates are inserted in   *)
(* the order of the netlist's cells, workers execute them while the rest   *)
(* is still being inserted, and the outputs are brought back to main       *)
(* memory and exported.  Ciphertexts and gates are those of TFHEGates;     *)
(* how the steps of gates on different workers interleave is the subject   *)
(* of GateWorkers.                                                         *)
(*                                                                         *)
(* A net is the number Yosys gives it in the JSON file; Yosys starts at 2, *)
(* and 0 and 1 stand here for its constants "0" and "1".  Cells and ports  *)
(* come in the order in which the JSON library iterates over them.  Input  *)
(* ciphertexts come in the order of the net numbers, which is the order of *)
(* declaration.  StarPU, cuFHEpp, OpenCL and Yosys are external.           *)
(***************************************************************************)
EXTENDS TFHEGates, Sequences, FiniteSets

CONSTANTS
    Circuits,     \* the netlists the program may be given: [ins, outs: nets of
                  \* the ports, inout: is there a port of another direction,
                  \* cells: [type, Y, X, A, B, S]]; ports a cell lacks repeat A
    Accelerators, \* how the program may be built: "cpu", "cufhepp", "hoge"
    MaxDevices,   \* bound: Xilinx devices found
    MaxFailures   \* bound: StarPU calls that fail

Consts == {0, 1}
FlipFlop == "SDFF_PP0"
Elems(s) == {s[i] : i \in DOMAIN s}
NetsOf(c) == Elems(c.ins) \cup Elems(c.outs)
                 \cup UNION {{x.Y, x.X, x.A, x.B, x.S} : x \in Elems(c.cells)}

OutputsOf(x) == {x.Y} \cup (IF x.type = "fa" THEN {x.X} ELSE {})

CellRecords ==
    [type : YosysCells \cup {FlipFlop, "fa"},
     Y : Nat, X : Nat, A : Nat, B : Nat, S : Nat]
Netlists ==
    [ins : Seq(Nat), outs : Seq(Nat), inout : BOOLEAN, cells : Seq(CellRecords)]

\* The bits of the input ports are nets of their own, and a net has one driver.
OneDriver(c) ==
    /\ \A i, j \in DOMAIN c.ins : c.ins[i] = c.ins[j] => i = j
    /\ \A i \in DOMAIN c.cells :
          /\ OutputsOf(c.cells[i]) \cap Elems(c.ins) = {}
          /\ \A j \in DOMAIN c.cells :
                i # j => OutputsOf(c.cells[i]) \cap OutputsOf(c.cells[j]) = {}

\* What Yosys writes.
ASSUME TangorAssumption ==
    /\ Circuits \subseteq Netlists
    /\ \A c \in Circuits : OneDriver(c)
    /\ Accelerators \subseteq {"cpu", "cufhepp", "hoge"}
    /\ MaxDevices \in Nat /\ MaxFailures \in Nat

VARIABLES
    circuit, accel,   \* the netlist and the build
    meaning,          \* ghost: the value the netlist gives each net
    pc,               \* where main is
    cudaWorkers,      \* does StarPU have CUDA workers
    cufhepp,          \* are the GPU keys in place
    tried, hogeReady, \* Xilinx devices tried; is one programmed, with its keys
    bc,               \* BCnetlist
    layout,           \* is DFF_D_vector's array below or above DFF_Q_vector's
    next,             \* gate_index - 1
    ram,              \* ram[s]: ciphertext s in main memory
    content,          \* content[s]: what the valid replicas of s hold
    synced,           \* ciphertexts whose main-memory replica is valid
    task, done,       \* inserted tasks, and which of them are executed
    dropped,          \* gates that were not inserted
    unfetched,        \* outputs whose acquire failed
    failures,
    result            \* result.data

input == <<circuit, accel, meaning>>
keys == <<cudaWorkers, cufhepp, tried, hogeReady>>
data == <<ram, content, synced>>
queue == <<task, done>>
faults == <<dropped, unfetched, failures>>
vars == <<input, pc, keys, bc, layout, next, data, queue, faults, result>>

----------------------------------------------------------------------------
(* What a netlist means *)

CellHolds(x, v) ==
    CASE x.type = FlipFlop -> v[x.Y] = FALSE
      [] x.type = "fa" ->
            /\ v[x.Y] = ((v[x.A] # v[x.B]) # v[x.S])
            /\ v[x.X] = (IF v[x.A] = v[x.B] THEN v[x.A] ELSE v[x.S])
      [] OTHER -> v[x.Y] = CellValue(x.type, v[x.A], v[x.B], v[x.S])

\* The assignments of an evaluation: flip-flops hold their initial value.
Meanings(c) ==
    {v \in [NetsOf(c) \cup Consts -> BOOLEAN] :
        ~v[0] /\ v[1] /\ \A x \in Elems(c.cells) : CellHolds(x, v)}

----------------------------------------------------------------------------
(* The parser *)

\* Defect: the ports stay in the order of the file.
Unsorted(s) == s

\* p takes the positions of s to those of its elements in ascending order.
Sorts(p, s) ==
    /\ p \in [DOMAIN s -> DOMAIN s]
    /\ \A n \in DOMAIN s : \E i \in DOMAIN s : p[i] = n
    /\ \A i, j \in DOMAIN s : i < j => s[p[i]] <= s[p[j]]

Ascending(s) ==
    LET p == CHOOSE p \in [DOMAIN s -> DOMAIN s] : Sorts(p, s)
    IN  [i \in DOMAIN s |-> s[p[i]]]
Enumerated(S) ==
    CHOOSE s \in [1..Cardinality(S) -> S] :
        \A i, j \in DOMAIN s : i < j => s[i] < s[j]

\* The elements of s at the positions I, in their order.
Subsequence(s, I) ==
    LET e == Enumerated(I) IN [n \in DOMAIN e |-> s[e[n]]]

FlipFlops(c) ==
    Subsequence(c.cells, {i \in DOMAIN c.cells : c.cells[i].type = FlipFlop})
Gates(c) ==
    Subsequence(c.cells, {i \in DOMAIN c.cells : c.cells[i].type # FlipFlop})
HalfAdder(x) == x.type = "fa" /\ x.S \in Consts

\* The driven nets that are not output ports.
Wires(c) == (UNION {OutputsOf(x) : x \in Elems(Gates(c))}) \ Elems(c.outs)

\* Port directions other than input and output throw; so does every constant
\* where a net number is expected, a full adder's carry excepted.
Throws(c) ==
    \/ c.inout
    \/ Consts \cap (Elems(c.ins) \cup Elems(c.outs)) # {}
    \/ \E x \in Elems(c.cells) :
          Consts \cap ({x.Y, x.X, x.A, x.B} \cup
                          (IF HalfAdder(x) THEN {} ELSE {x.S})) # {}

ParsedBC(c) ==
    LET Q == [i \in DOMAIN FlipFlops(c) |-> FlipFlops(c)[i].Y]
    IN  [input_vector |-> Ascending(c.ins),
         output_vector |-> Ascending(c.outs),
         DFF_Q_vector |-> Q,
         DFF_D_vector |-> [i \in DOMAIN Q |-> FlipFlops(c)[i].A],
         wire_vector |-> Enumerated(Wires(c)),
         gate_vector |-> [i \in DOMAIN Gates(c) |->
             LET x == Gates(c)[i]
             IN  [name |-> IF HalfAdder(x) THEN "ha" ELSE GateName(x.type),
                  out |-> x.Y, in |-> <<x.A, x.B, x.S>>]],
         direct_port_pair_vector |->
             Subsequence(Q, {i \in DOMAIN Q : Q[i] \in Elems(c.outs)})]

----------------------------------------------------------------------------
(* The lookup of a net's handle *)

Slots ==
    ({"in"} \X DOMAIN bc.input_vector) \cup ({"out"} \X DOMAIN bc.output_vector)
        \cup ({"dffq"} \X DOMAIN bc.DFF_Q_vector)
        \cup ({"dffd"} \X DOMAIN bc.DFF_D_vector)
        \cup ({"wire"} \X DOMAIN bc.wire_vector)
Missing == <<"missing", 0>>
Wild == <<"wild", 0>>         \* no element of a handle vector

\* Defect: one past the position found.
FirstPlusOne(v, id) ==
    1 + CHOOSE i \in DOMAIN v : v[i] = id /\ \A j \in 1..(i - 1) : v[j] # id

First(v, id) ==
    CHOOSE i \in DOMAIN v : v[i] = id /\ \A j \in 1..(i - 1) : v[j] # id

\* The search for a D net runs from the begin of the Q vector to the end of the
\* D vector.  Without flip-flops both are null.  Otherwise the range is no range
\* if the D array lies below, and includes the Q array and whatever lies between
\* if it lies above.
DffdSearch(id) ==
    IF bc.DFF_Q_vector = <<>> THEN {Missing}
    ELSE {Wild} \cup
         (IF layout = "below" THEN {Missing}
          ELSE IF id \in Elems(bc.DFF_Q_vector) THEN {}
          ELSE IF id \in Elems(bc.DFF_D_vector)
               THEN {<<"dffd", First(bc.DFF_D_vector, id)>>}
               ELSE {Missing})

\* Defect: a net of an output port is not looked for.
AfterDffdNoOutputs(id) ==
    IF id \in Elems(bc.DFF_Q_vector) THEN <<"dffq", First(bc.DFF_Q_vector, id)>>
    ELSE IF id \in Elems(bc.wire_vector)
         THEN <<"wire", First(bc.wire_vector, id)>>
         ELSE Wild

\* Nothing found: an uninitialised iterator is dereferenced.
AfterDffd(id) ==
    IF id \in Elems(bc.DFF_Q_vector) THEN <<"dffq", First(bc.DFF_Q_vector, id)>>
    ELSE IF id \in Elems(bc.wire_vector)
         THEN <<"wire", First(bc.wire_vector, id)>>
    ELSE IF id \in Elems(bc.output_vector)
         THEN <<"out", First(bc.output_vector, id)>>
         ELSE Wild

search_pointer(id) ==
    IF id \in Elems(bc.input_vector)
    THEN {<<"in", First(bc.input_vector, id)>>}
    ELSE {IF r = Missing THEN AfterDffd(id) ELSE r : r \in DffdSearch(id)}

----------------------------------------------------------------------------
(* The main program *)

Blank == 0                    \* the phase of a value-initialised ciphertext
NoSlots == [s \in {} |-> Blank]

Init ==
    /\ circuit \in Circuits
    /\ accel \in Accelerators
    /\ meaning \in Meanings(circuit)
    /\ pc = "read"
    /\ cudaWorkers = FALSE /\ cufhepp = FALSE
    /\ tried = 0 /\ hogeReady = FALSE
    /\ bc = ParsedBC([ins |-> <<>>, outs |-> <<>>, inout |-> FALSE,
                      cells |-> <<>>])
    /\ layout = "below"
    /\ next = 0
    /\ ram = NoSlots /\ content = NoSlots /\ synced = {}
    /\ task = <<>> /\ done = {}
    /\ dropped = {} /\ unfetched = {} /\ failures = 0
    /\ result = <<>>

Goto(from, to) == pc = from /\ pc' = to

\* eval.key, cloud.data and circuit.json are read; a missing one ends the
\* program, by an exception of the archive or with status 1.
readFiles ==
    /\ Goto("read", "parse") \/ Goto("read", "failed")
    /\ UNCHANGED <<input, keys, bc, layout, next, data, queue, faults, result>>

parse ==
    /\ \/ Throws(circuit) /\ Goto("parse", "failed") /\ UNCHANGED <<bc, layout>>
       \/ /\ ~Throws(circuit)
          /\ Goto("parse", "starpu")
          /\ bc' = ParsedBC(circuit)
          /\ layout' \in {"below"} \cup
                (IF bc'.DFF_Q_vector = <<>> THEN {} ELSE {"above"})
    /\ UNCHANGED <<input, keys, next, data, queue, faults, result>>

\* starpu_init fails, or finds the workers.
initStarpu ==
    /\ \/ Goto("starpu", "failed") /\ cudaWorkers' = cudaWorkers
       \/ /\ Goto("starpu", "accelerator")
          /\ cudaWorkers' \in {FALSE, accel = "cufhepp"}
    /\ UNCHANGED <<input, cufhepp, tried, hogeReady, bc, layout, next, data,
                   queue, faults, result>>

\* The device count is taken to agree with StarPU's CUDA workers.
CufheppInitialize ==
    /\ accel # "hoge"
    /\ Goto("accelerator", "build")
    /\ cufhepp' = cudaWorkers
    /\ UNCHANGED <<input, cudaWorkers, tried, hogeReady, bc, layout, next, data,
                   queue, faults, result>>

\* HOGEinit tries one device after the other; when one can be programmed it
\* uploads the keys, and when none can, or an OpenCL call fails, it exits.
HOGEinit ==
    /\ accel = "hoge"
    /\ \/ tried < MaxDevices /\ tried' = tried + 1
          /\ pc = "accelerator" /\ UNCHANGED <<pc, hogeReady>>
       \/ tried < MaxDevices /\ tried' = tried + 1
          /\ Goto("accelerator", "build") /\ hogeReady' = TRUE
       \/ Goto("accelerator", "failed") /\ UNCHANGED <<tried, hogeReady>>
    /\ UNCHANGED <<input, cudaWorkers, cufhepp, bc, layout, next, data, queue,
                   faults, result>>

\* The inputs in cloud.data: one ciphertext per net, in the order of declaration.
CloudData(c) ==
    [i \in DOMAIN c.ins |-> Encode(meaning[Enumerated(Elems(c.ins))[i]])]

\* Resizing and registration: the input ciphertexts stay, in the order of the
\* file; then the registers are set to 0 in main memory.
registerData ==
    /\ Goto("build", "submit")
    /\ ram' = [s \in Slots |->
                  CASE s[1] = "in" -> CloudData(circuit)[s[2]]
                    [] s[1] = "dffq" -> Encode(FALSE)
                    [] OTHER -> Blank]
    /\ content' = ram'
    /\ synced' = Slots
    /\ UNCHANGED <<input, keys, bc, layout, next, queue, faults, result>>

Inserted(name) == name \in {"NOT", "MUX", "NMUX"} \/
    name \in {"NAND", "NOR", "XNOR", "AND", "OR", "XOR", "ANDYN", "ORYN"}

Insert(g, out, a, b, s) ==
    LET name == bc.gate_vector[g].name
    IN  /\ task' = Append(task, [g |-> g, out |-> out,
                                 in |-> Operands(name, a, b, s)])
        /\ UNCHANGED <<pc, dropped, failures>>

\* starpu_task_insert returns an error, which is ignored.
InsertFails(g) ==
    /\ failures < MaxFailures
    /\ failures' = failures + 1
    /\ dropped' = dropped \cup {g}
    /\ UNCHANGED <<pc, task>>

\* One round of the submission loop.  A gate without a codelet is reported and
\* left out.  Nothing is said of what follows the use of a wild handle.
submitGate ==
    LET g == next + 1
        gate == bc.gate_vector[g]
    IN  /\ pc = "submit"
        /\ next < Len(bc.gate_vector)
        /\ next' = g
        /\ \/ /\ ~Inserted(gate.name)
              /\ dropped' = dropped \cup {g}
              /\ UNCHANGED <<pc, task, failures>>
           \/ /\ Inserted(gate.name)
              /\ \E out \in search_pointer(gate.out),
                    a \in search_pointer(gate.in[1]),
                    b \in search_pointer(gate.in[2]),
                    s \in search_pointer(gate.in[3]) :
                    IF Wild \in {out, a, b, s}
                    THEN pc' = "undefined" /\ UNCHANGED <<task, dropped, failures>>
                    ELSE Insert(g, out, a, b, s) \/ InsertFails(g)
        /\ UNCHANGED <<input, keys, bc, layout, data, done, unfetched, result>>

submitted ==
    /\ next = Len(bc.gate_vector)
    /\ Goto("submit", "wait")
    /\ UNCHANGED <<input, keys, bc, layout, next, data, queue, faults, result>>

\* Defect: the program does not wait.
NoWait == TRUE

AllDone == done = DOMAIN task

starpu_task_wait_for_all ==
    /\ AllDone
    /\ Goto("wait", "sync")
    /\ UNCHANGED <<input, keys, bc, layout, next, data, queue, faults, result>>

OutSlots == {"out"} \X DOMAIN bc.output_vector

\* Defect: the outputs are not acquired.
NoAcquire(F) == {}

\* The outputs acquired when the acquires F fail.
Acquired(F) == OutSlots \ F

\* Acquire and release of every output; the status of an acquire is ignored.
starpu_sync_outputs_to_host ==
    /\ Goto("sync", "write")
    /\ \A i \in DOMAIN task : task[i].out \in OutSlots => i \in done
    /\ \E F \in SUBSET OutSlots :
          /\ failures + Cardinality(F) <= MaxFailures
          /\ failures' = failures + Cardinality(F)
          /\ unfetched' = F
          /\ ram' = [s \in Slots |-> IF s \in Acquired(F) THEN content[s]
                                     ELSE ram[s]]
          /\ synced' = synced \cup Acquired(F)
    /\ UNCHANGED <<input, keys, bc, layout, next, content, queue, dropped,
                   result>>

\* If result.data cannot be written, the archive's exception ends the program.
writeResult ==
    /\ \/ /\ Goto("write", "cleanup")
          /\ result' = [i \in DOMAIN bc.output_vector |-> ram[<<"out", i>>]]
       \/ Goto("write", "aborted") /\ result' = result
    /\ UNCHANGED <<input, keys, bc, layout, next, data, queue, faults>>

CufheppCleanUp ==
    /\ Goto("cleanup", "shutdown")
    /\ cufhepp' = FALSE
    /\ UNCHANGED <<input, cudaWorkers, tried, hogeReady, bc, layout, next, data,
                   queue, faults, result>>

starpu_shutdown ==
    /\ Goto("shutdown", "done")
    /\ cudaWorkers' = FALSE
    /\ UNCHANGED <<input, cufhepp, tried, hogeReady, bc, layout, next, data,
                   queue, faults, result>>

----------------------------------------------------------------------------
(* StarPU's workers *)

Ins(t) == Elems(t.in)
Conflict(t, u) == t.out \in Ins(u) \cup {u.out} \/ u.out \in Ins(t)

\* Accesses to one handle keep the order of insertion.
Ready(i) ==
    /\ i \in DOMAIN task \ done
    /\ \A j \in 1..(i - 1) : j \notin done => ~Conflict(task[j], task[i])

Running == pc \in {"submit", "wait", "sync", "write", "cleanup", "shutdown"}

Name(i) == bc.gate_vector[task[i].g].name
Values(i) == [n \in 1..3 |-> content[task[i].in[n]]]
CpuResults(i) == Codelet(ClHom, Name(i), Values(i))
CudaResults(i) == cufhe(CufheppWraps[Name(i)], Values(i))
HogeResults(i) == HogeCodelet(Name(i), Values(i))

\* A CPU worker brings the operands to main memory and leaves the result there.
StoreInRam(i, Results) ==
    /\ \E p \in Results : content' = [content EXCEPT ![task[i].out] = p]
    /\ LET S == Ins(task[i]) \cup {task[i].out}
       IN  /\ ram' = [s \in Slots |-> IF s \in S THEN content'[s] ELSE ram[s]]
           /\ synced' = synced \cup S
    /\ done' = done \cup {i}
    /\ UNCHANGED <<input, pc, keys, bc, layout, next, task, faults, result>>

executeOnCpu(i) ==
    /\ Running /\ Ready(i)
    /\ StoreInRam(i, CpuResults(i))

\* On worker 0 of a HOGE build every gate but NOT goes to the accelerator.
ForHoge(i) == Running /\ Ready(i) /\ accel = "hoge" /\ Name(i) # "NOT"
executeOnHoge(i) ==
    /\ ForHoge(i)
    /\ StoreInRam(i, HogeResults(i))

\* An OpenCL call fails, and the worker ends the program.
hogeFails(i) ==
    /\ ForHoge(i)
    /\ pc' = "aborted"
    /\ UNCHANGED <<input, keys, bc, layout, next, data, queue, faults, result>>

\* On a GPU the result stays there.
executeOnGpu(i) ==
    /\ Running /\ Ready(i)
    /\ cudaWorkers
    /\ \E p \in CudaResults(i) : content' = [content EXCEPT ![task[i].out] = p]
    /\ synced' = synced \ {task[i].out}
    /\ done' = done \cup {i}
    /\ UNCHANGED <<input, pc, keys, bc, layout, next, ram, task, faults, result>>

Execute(i) ==
    executeOnCpu(i) \/ executeOnGpu(i) \/ executeOnHoge(i) \/ hogeFails(i)

----------------------------------------------------------------------------

MainStep ==
    \/ readFiles \/ parse \/ initStarpu \/ CufheppInitialize \/ HOGEinit
    \/ registerData \/ submitGate \/ submitted \/ starpu_task_wait_for_all
    \/ starpu_sync_outputs_to_host \/ writeResult \/ CufheppCleanUp
    \/ starpu_shutdown

Ended ==
    /\ pc \in {"done", "failed", "aborted", "undefined"}
    /\ UNCHANGED vars

Next ==
    \/ MainStep
    \/ \E i \in DOMAIN task : Execute(i)
    \/ Ended

Spec == Init /\ [][Next]_vars

\* main runs until it ends, and StarPU's workers execute what is ready.
FairSpec ==
    /\ Spec
    /\ WF_vars(MainStep)
    /\ WF_vars(\E i \in DOMAIN task : Execute(i))

----------------------------------------------------------------------------
(* Properties *)

GateIndices == DOMAIN bc.gate_vector
OutOf(g) == bc.gate_vector[g].out
InOf(g) == Elems(bc.gate_vector[g].in)

\* Type invariant.
TypeOK ==
    /\ layout \in {"below", "above"}
    /\ next \in 0..Len(bc.gate_vector)
    /\ DOMAIN ram = DOMAIN content /\ synced \subseteq DOMAIN ram
    /\ \A s \in DOMAIN ram : {ram[s], content[s]} \subseteq Torus
    /\ \A i \in DOMAIN task :
          /\ task[i].g \in 1..next
          /\ task[i].out \in Slots /\ task[i].in \in [1..3 -> Slots]
    /\ done \subseteq DOMAIN task
    /\ dropped \subseteq 1..next
    /\ unfetched \subseteq OutSlots
    /\ failures \in 0..MaxFailures /\ tried \in 0..MaxDevices

\* HOGE's NMUX is wrong: the run gates_hoge_nmux of GateWorkers.
Sound(g) == accel = "hoge" => bc.gate_vector[g].name # "NMUX"

\* The gates whose whole cone was inserted, every gate after its drivers, and
\* has no NMUX that HOGE may compute.
CleanGates ==
    UNION {G \in SUBSET {g \in GateIndices \ dropped : Sound(g)} :
        \A g \in G : \A b \in InOf(g) :
            \/ b \in Elems(bc.input_vector) \cup Elems(bc.DFF_Q_vector)
            \/ \E h \in G : h < g /\ OutOf(h) = b}

\* Every executed gate with a clean cone has computed what the netlist says, and
\* nothing overwrites it: lookup, operand order, table and StarPU's order agree,
\* on whichever of the CPU, CUDA and HOGE workers the gates of the cone ran,
\* while others were dropped.
ConesMatch ==
    \A i \in done : task[i].g \in CleanGates =>
        content[task[i].out] = Encode(meaning[OutOf(task[i].g)])

\* Output i is the first of its net and the net is driven by a clean gate.  A net
\* that also feeds a flip-flop is found in DFF_D_vector, before the outputs.
Computed(i) ==
    LET b == bc.output_vector[i]
    IN  /\ i = First(bc.output_vector, b)
        /\ b \notin Elems(bc.DFF_D_vector)
        /\ \E g \in CleanGates : OutOf(g) = b

\* result.data holds, at the position of each computed output, the netlist's
\* value: a lost insertion or acquire, or a wrong NMUX of HOGE, spoils only what
\* depends on it.
ResultsMatch ==
    pc = "done" =>
        \A i \in DOMAIN bc.output_vector :
            Computed(i) /\ <<"out", i>> \notin unfetched =>
                result[i] = Encode(meaning[bc.output_vector[i]])

\* While tasks are outstanding the keys of every worker that may execute them
\* are in place: wait_for_all separates the last gate from CufheppCleanUp.
KeysDuringTasks ==
    done # DOMAIN task =>
        /\ cudaWorkers => cufhepp
        /\ accel = "hoge" => hogeReady

\* A circuit without flip-flops that was parsed is evaluated to the end, unless
\* HOGE fails or result.data cannot be written: every net is found, and no task
\* waits for one that is never executed.
Completes ==
    pc = "build" /\ bc.DFF_Q_vector = <<>> ~> pc \in {"done", "aborted"}

\* Every output of a run without failures decrypts to the netlist's value.  The
\* header of the parser says that inputs, outputs and wires have unique indices.
EveryOutput ==
    pc = "done" /\ failures = 0 =>
        \A i \in DOMAIN bc.output_vector :
            Decode(result[i]) = meaning[bc.output_vector[i]]
============================================================================
