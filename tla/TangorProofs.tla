---------------------------- MODULE TangorProofs ----------------------------
(***************************************************************************)
(* TLAPS proofs about Tangor, for every set of netlists that Yosys may     *)
(* write, every build and any number of failing calls.                     *)
(***************************************************************************)
EXTENDS TangorParserProofs, TFHEGatesProofs

----------------------------------------------------------------------------
(* The inductive invariant *)

Early == {"read", "parse", "starpu", "accelerator", "build", "failed"}
Ending == {"sync", "write", "cleanup", "shutdown", "done"}
Late == {"submit", "wait", "undefined", "aborted"} \cup Ending

\* bc is the parser's value, of no netlist at first.
Loaded ==
    /\ circuit \in Circuits /\ meaning \in Meanings(circuit)
    /\ accel \in Accelerators
    /\ pc \in Early \cup Late
    /\ layout \in {"below", "above"}
    /\ bc \in {ParsedBC(Empty), ParsedBC(circuit)}
    /\ pc \notin {"read", "parse", "failed"} => bc = ParsedBC(circuit)
    /\ tried \in 0..MaxDevices /\ failures \in 0..MaxFailures

\* Nothing is registered or submitted before registerData.
Untouched ==
    pc \in Early =>
        /\ next = 0 /\ task = <<>> /\ done = {} /\ dropped = {} /\ unfetched = {}
        /\ ram = NoSlots /\ content = NoSlots /\ synced = {}

Memory ==
    pc \in Late =>
        /\ DOMAIN ram = Slots /\ DOMAIN content = Slots /\ synced \subseteq Slots
        /\ \A s \in Slots : ram[s] \in Torus /\ content[s] \in Torus

\* Task t is what main inserts for the gate.
Inserts(t, gate) ==
    /\ Inserted(gate.name)
    /\ t.out = Found(gate.out)
    /\ t.in = Operands(gate.name, Found(gate.in[1]), Found(gate.in[2]),
                       Found(gate.in[3]))

\* The gates were submitted in their order, each inserted or dropped.
Graph ==
    /\ task \in Seq([g : 1..next, out : Slots, in : [1..3 -> Slots]])
    /\ next \in 0..Len(bc.gate_vector)
    /\ \A i \in DOMAIN task : Inserts(task[i], bc.gate_vector[task[i].g])
    /\ \A i, j \in DOMAIN task : i < j => task[i].g < task[j].g
    /\ done \subseteq DOMAIN task /\ dropped \subseteq 1..next
    /\ unfetched \subseteq OutSlots
    /\ pc # "undefined" =>
          \A g \in 1..next : g \in dropped \/ \E i \in DOMAIN task : task[i].g = g

\* wait_for_all follows the last insertion, and the end follows all tasks.
Waited ==
    /\ pc \in {"wait"} \cup Ending => next = Len(bc.gate_vector)
    /\ pc \in Ending => done = DOMAIN task

\* The keys are in place from their initialisation to CufheppCleanUp.
Guarded == {"build", "submit", "wait", "sync", "write", "undefined", "aborted"}
Keyed ==
    /\ cudaWorkers \in BOOLEAN
    /\ cudaWorkers => accel = "cufhepp"
    /\ pc \in Guarded =>
          /\ cudaWorkers => cufhepp
          /\ accel = "hoge" => hogeReady

Shape == Loaded /\ Untouched /\ Memory /\ Graph /\ Waited /\ Keyed

\* Nothing overwrites the inputs and the registers.
Sources ==
    pc \in Late => \A s \in Slots :
        s[1] \in {"in", "dffq"} => content[s] = Encode(meaning[NetAt(s)])

\* After the acquires main memory holds the outputs, and then result.data does.
Exported ==
    /\ pc \in {"write", "cleanup", "shutdown", "done"} =>
          \A s \in OutSlots \ unfetched : ram[s] = content[s]
    /\ pc \in {"cleanup", "shutdown", "done"} =>
          result = [i \in DOMAIN bc.output_vector |-> ram[<<"out", i>>]]

TangorInv == Shape /\ Sources /\ ConesMatch /\ Exported

----------------------------------------------------------------------------
(* Consequences *)

\* bc always comes from a netlist that Yosys may write.
LEMMA LoadedIsParsed == Loaded => Parsed /\ WellFormed(circuit)
BY TangorAssumption, EmptyIsWellFormed DEF Loaded, Parsed, WellFormed

\* A wild handle is not a registered one.
LEMMA WildIsNoSlot == Wild \notin Slots
BY DEF Wild, Slots

\* A message is a phase.
LEMMA EncodeTypes == \A x : Encode(x) \in Torus
BY NegativeModulo DEF Encode, Mu, Torus

\* Before registration the rest of the invariant holds trivially.
LEMMA EarlyInv == Loaded /\ Untouched /\ Keyed /\ pc \in Early => TangorInv
<1> SUFFICES ASSUME Loaded, Untouched, Keyed, pc \in Early
             PROVE  TangorInv
  OBVIOUS
<1>1. pc \notin Late
  BY DEF Early, Late, Ending
<1>2. /\ next = 0 /\ task = <<>> /\ done = {} /\ dropped = {} /\ unfetched = {}
  BY DEF Untouched
<1>3. DOMAIN task = {} /\ 1..next = {}
  BY <1>2
<1>4. Len(bc.gate_vector) \in Nat
  BY LoadedIsParsed, ParsedVectors DEF IsVector
<1>5. Graph
  <2>1. task \in Seq([g : 1..next, out : Slots, in : [1..3 -> Slots]])
    BY <1>2
  <2> QED BY <1>2, <1>3, <1>4, <2>1 DEF Graph
<1>6. Memory /\ Sources
  BY <1>1 DEF Memory, Sources
<1>7. Waited
  BY DEF Waited, Early, Ending
<1>8. ConesMatch
  BY <1>2 DEF ConesMatch
<1>9. Exported
  BY DEF Exported, Early
<1> QED BY <1>5, <1>6, <1>7, <1>8, <1>9 DEF TangorInv, Shape

\* The initial states satisfy the invariant.
LEMMA InitTangorInv == Init => TangorInv
<1> SUFFICES ASSUME Init PROVE TangorInv
  OBVIOUS
<1>1. pc \in Early
  BY DEF Init, Early
<1>2. Loaded
  <2>1. 0 \in 0..MaxDevices /\ 0 \in 0..MaxFailures
    BY TangorAssumption
  <2>2. bc = ParsedBC(Empty)
    BY Zenon DEF Init, Empty
  <2> QED BY <2>1, <2>2 DEF Init, Loaded, Early
<1>3. Untouched
  BY DEF Init, Untouched
<1>4. Keyed
  BY DEF Init, Keyed, Guarded
<1> QED BY <1>1, <1>2, <1>3, <1>4, EarlyInv

\* The tasks, by their positions.
LEMMA TaskTypes ==
    Graph => /\ Len(task) \in Nat /\ DOMAIN task = 1..Len(task)
             /\ \A i \in DOMAIN task :
                   /\ task[i].g \in 1..next
                   /\ task[i].out \in Slots /\ task[i].in \in [1..3 -> Slots]
<1> SUFFICES ASSUME Graph
             PROVE  /\ Len(task) \in Nat /\ DOMAIN task = 1..Len(task)
                    /\ \A i \in DOMAIN task :
                          /\ task[i].g \in 1..next
                          /\ task[i].out \in Slots /\ task[i].in \in [1..3 -> Slots]
  OBVIOUS
<1> DEFINE R == [g : 1..next, out : Slots, in : [1..3 -> Slots]]
<1>1. \A t \in R : t.g \in 1..next /\ t.out \in Slots /\ t.in \in [1..3 -> Slots]
  OBVIOUS
<1>2. task \in Seq(R)
  BY DEF Graph
<1> HIDE DEF R
<1>3. Len(task) \in Nat /\ DOMAIN task = 1..Len(task) /\ \A i \in DOMAIN task : task[i] \in R
  BY <1>2
<1> QED BY <1>1, <1>3, Zenon

\* The type invariant follows from the shape.
LEMMA ShapeTypes == Shape => TypeOK
<1> SUFFICES ASSUME Shape PROVE TypeOK
  OBVIOUS
<1> USE DEF Shape
<1>1. Len(bc.gate_vector) \in Nat
  BY LoadedIsParsed, ParsedVectors DEF IsVector
<1>2. ASSUME NEW i \in DOMAIN task
      PROVE  /\ task[i].g \in 1..next
             /\ task[i].out \in Slots /\ task[i].in \in [1..3 -> Slots]
  BY TaskTypes
<1>3. /\ DOMAIN ram = DOMAIN content /\ synced \subseteq DOMAIN ram
      /\ \A s \in DOMAIN ram : {ram[s], content[s]} \subseteq Torus
  <2>1. CASE pc \in Early
    <3>1. DOMAIN NoSlots = {}
      BY DEF NoSlots
    <3> QED BY <2>1, <3>1 DEF Untouched
  <2>2. CASE pc \in Late
    BY <2>2 DEF Memory
  <2> QED BY <2>1, <2>2 DEF Loaded
<1> QED BY <1>2, <1>3 DEF TypeOK, Loaded, Graph

----------------------------------------------------------------------------
(* Steps before registration *)

\* Steps of main up to HOGEinit preserve the invariant.
LEMMA EarlyStep ==
    ASSUME TangorInv,
           readFiles \/ parse \/ initStarpu \/ CufheppInitialize \/ HOGEinit
    PROVE  TangorInv'
<1> USE DEF TangorInv, Shape
<1>1. (Loaded /\ Untouched /\ Keyed /\ pc \in Early => TangorInv)'
  BY EarlyInv, PTL
<1>2. /\ next = 0 /\ task = <<>> /\ done = {} /\ dropped = {} /\ unfetched = {}
      /\ ram = NoSlots /\ content = NoSlots /\ synced = {} /\ pc \in Early
  <2>1. pc \in Early
    BY DEF readFiles, parse, initStarpu, CufheppInitialize, HOGEinit, Goto, Early
  <2> QED BY <2>1 DEF Untouched
<1>3. /\ UNCHANGED <<circuit, accel, meaning, next, task, done, dropped, unfetched,
                     failures, ram, content, synced>>
      /\ pc' \in Early
  BY DEF readFiles, parse, initStarpu, CufheppInitialize, HOGEinit, Goto, Early,
         input, keys, data, queue, faults
<1>4. Untouched'
  BY <1>2, <1>3 DEF Untouched
<1>5. Loaded' /\ Keyed'
  <2>1. CASE readFiles
    <3>1. UNCHANGED <<cudaWorkers, cufhepp, tried, hogeReady, bc, layout>>
          /\ pc = "read" /\ pc' \in {"parse", "failed"}
      BY <2>1 DEF readFiles, Goto, keys
    <3>2. Loaded'
      BY <1>3, <3>1 DEF Loaded
    <3>3. Keyed'
      BY <1>3, <3>1, Zenon DEF Keyed, Guarded
    <3> QED BY <3>2, <3>3
  <2>2. CASE parse
    <3>1. /\ UNCHANGED <<cudaWorkers, cufhepp, tried, hogeReady>>
          /\ pc = "parse" /\ pc' \in {"starpu", "failed"}
          /\ \/ UNCHANGED <<bc, layout>> /\ pc' = "failed"
             \/ bc' = ParsedBC(circuit) /\ layout' \in {"below", "above"}
      BY <2>2 DEF parse, Goto, keys
    <3>2. Loaded'
      BY <1>3, <3>1 DEF Loaded
    <3>3. Keyed'
      BY <1>3, <3>1, Zenon DEF Keyed, Guarded
    <3> QED BY <3>2, <3>3
  <2>3. CASE initStarpu
    <3>1. /\ UNCHANGED <<cufhepp, tried, hogeReady, bc, layout>>
          /\ pc = "starpu" /\ pc' \in {"accelerator", "failed"}
          /\ cudaWorkers' = cudaWorkers \/ cudaWorkers' \in {FALSE, accel = "cufhepp"}
      BY <2>3, Zenon DEF initStarpu, Goto
    <3>2. Loaded'
      BY <1>3, <3>1 DEF Loaded
    <3>3. cudaWorkers' \in BOOLEAN /\ (cudaWorkers' => accel = "cufhepp")
      <4>1. cudaWorkers \in BOOLEAN /\ (cudaWorkers => accel = "cufhepp")
        BY DEF Keyed, Guarded
      <4>2. CASE cudaWorkers' = cudaWorkers
        BY <4>1, <4>2
      <4>3. CASE cudaWorkers' = FALSE
        BY <4>3
      <4>4. CASE cudaWorkers' = (accel = "cufhepp")
        BY <4>4
      <4> QED BY <3>1, <4>2, <4>3, <4>4, Zenon
    <3>4. Keyed'
      BY <1>3, <3>1, <3>3 DEF Keyed, Guarded
    <3> QED BY <3>2, <3>4
  <2>4. CASE CufheppInitialize
    <3>1. /\ UNCHANGED <<cudaWorkers, tried, hogeReady, bc, layout>>
          /\ pc = "accelerator" /\ pc' = "build"
          /\ accel # "hoge" /\ cufhepp' = cudaWorkers
      BY <2>4, Zenon DEF CufheppInitialize, Goto
    <3>2. Loaded'
      BY <1>3, <3>1 DEF Loaded
    <3>3. Keyed'
      BY <1>3, <3>1, Zenon DEF Keyed, Guarded
    <3> QED BY <3>2, <3>3
  <2>5. CASE HOGEinit
    <3>1. /\ UNCHANGED <<cudaWorkers, cufhepp, bc, layout>>
          /\ pc = "accelerator" /\ accel = "hoge"
          /\ \/ pc' \in {"accelerator", "failed"}
             \/ pc' = "build" /\ hogeReady' = TRUE
          /\ \/ tried' = tried
             \/ tried < MaxDevices /\ tried' = tried + 1
      BY <2>5 DEF HOGEinit, Goto
    <3>2. tried' \in 0..MaxDevices
      BY <3>1, TangorAssumption DEF Loaded
    <3>3. Loaded'
      BY <1>3, <3>1, <3>2 DEF Loaded
    <3>4. ~cudaWorkers
      BY <3>1 DEF Keyed, Guarded
    <3>5. Keyed'
      BY <1>3, <3>1, <3>4 DEF Keyed, Guarded
    <3> QED BY <3>3, <3>5
  <2> QED BY <2>1, <2>2, <2>3, <2>4, <2>5
<1> QED BY <1>1, <1>3, <1>4, <1>5

----------------------------------------------------------------------------
(* What does not change after parsing *)

Fixed == UNCHANGED <<circuit, accel, meaning, bc, layout>>

\* Handles and lookups depend on bc and layout alone.
LEMMA Handles ==
    ASSUME Fixed
    PROVE  /\ Slots' = Slots /\ OutSlots' = OutSlots
           /\ \A id : Found(id)' = Found(id)
           /\ \A s : NetAt(s)' = NetAt(s)
           /\ \A t, gate : Inserts(t, gate)' = Inserts(t, gate)
           /\ \A g : OutOf(g)' = OutOf(g)
<1>1. bc' = bc /\ layout' = layout
  BY DEF Fixed
<1>2. Slots' = Slots /\ OutSlots' = OutSlots
  BY <1>1 DEF Slots, OutSlots
<1>3. ASSUME NEW id PROVE Found(id)' = Found(id)
  BY <1>1, Zenon DEF Found, AfterDffd
<1>4. ASSUME NEW s PROVE NetAt(s)' = NetAt(s)
  BY <1>1, Zenon DEF NetAt
<1>5. ASSUME NEW t, NEW gate PROVE Inserts(t, gate)' = Inserts(t, gate)
  BY <1>3, Zenon DEF Inserts
<1>6. ASSUME NEW g PROVE OutOf(g)' = OutOf(g)
  BY <1>1, Zenon DEF OutOf
<1> QED BY <1>2, <1>3, <1>4, <1>5, <1>6

\* Steps that submit nothing keep the graph.
LEMMA GraphStays ==
    ASSUME Graph, Fixed, UNCHANGED <<next, task, dropped>>,
           done' \subseteq DOMAIN task, unfetched' \subseteq OutSlots,
           pc' # "undefined" => pc # "undefined"
    PROVE  Graph'
<1>1. /\ Slots' = Slots /\ OutSlots' = OutSlots /\ bc' = bc
      /\ next' = next /\ task' = task /\ dropped' = dropped
  BY Handles DEF Fixed
<1>2. task' \in Seq([g : 1..next', out : Slots', in : [1..3 -> Slots']])
  BY <1>1 DEF Graph
<1>3. (\A i \in DOMAIN task : Inserts(task[i], bc.gate_vector[task[i].g]))'
  <2> SUFFICES ASSUME NEW i \in DOMAIN task
               PROVE  Inserts(task[i], bc.gate_vector[task[i].g])'
    BY <1>1
  <2>1. Inserts(task[i], bc.gate_vector[task[i].g])
    BY DEF Graph
  <2>2. PICK t, gate : t = task[i] /\ gate = bc.gate_vector[task[i].g]
    OBVIOUS
  <2>3. Inserts(t, gate)'
    BY <2>1, <2>2, Handles, Zenon
  <2> QED BY <1>1, <2>2, <2>3 DEF Inserts
<1>4. /\ next' \in 0..Len(bc'.gate_vector)
      /\ \A i, j \in DOMAIN task' : i < j => task'[i].g < task'[j].g
      /\ done' \subseteq DOMAIN task' /\ dropped' \subseteq 1..next'
      /\ unfetched' \subseteq OutSlots'
  BY <1>1 DEF Graph
<1>5. pc' # "undefined" =>
         \A g \in 1..next' : g \in dropped' \/ \E i \in DOMAIN task' : task'[i].g = g
  BY <1>1 DEF Graph
<1> QED BY <1>2, <1>3, <1>4, <1>5 DEF Graph

\* The clean gates only become fewer.
LEMMA CleanShrinks ==
    ASSUME Fixed, dropped \subseteq dropped'
    PROVE  CleanGates' \subseteq CleanGates
<1> SUFFICES ASSUME NEW h \in CleanGates' PROVE h \in CleanGates
  OBVIOUS
<1>1. bc' = bc /\ accel' = accel
  BY DEF Fixed
<1>2. PICK G \in SUBSET {g \in GateIndices \ dropped' : Sound(g)} :
         /\ h \in G
         /\ \A g \in G : \A b \in InOf(g) :
               \/ b \in Elems(bc.input_vector) \cup Elems(bc.DFF_Q_vector)
               \/ \E f \in G : f < g /\ OutOf(f) = b
  BY <1>1 DEF CleanGates, GateIndices, InOf, OutOf, Sound
<1>3. G \in SUBSET {g \in GateIndices \ dropped : Sound(g)}
  OBVIOUS
<1> QED BY <1>2, <1>3 DEF CleanGates

\* Steps that execute nothing keep what the gates have computed.
LEMMA ConesStay ==
    ASSUME ConesMatch, Fixed, UNCHANGED <<content, done>>, dropped \subseteq dropped',
           \A i \in done : task'[i] = task[i]
    PROVE  ConesMatch'
<1>1. meaning' = meaning
  BY DEF Fixed
<1> SUFFICES ASSUME NEW i \in done, task[i].g \in CleanGates'
             PROVE  content[task[i].out] = Encode(meaning[OutOf(task[i].g)])
  BY <1>1, Handles DEF ConesMatch
<1>2. task[i].g \in CleanGates
  BY CleanShrinks
<1> QED BY <1>2 DEF ConesMatch

----------------------------------------------------------------------------
(* Registration *)

\* The netlist's value of a register.
LEMMA RegisterHolds ==
    ASSUME NEW x, NEW v, x.type = FlipFlop, CellHolds(x, v)
    PROVE  v[x.Y] = FALSE
BY Zenon DEF CellHolds, FlipFlop

\* The netlist's value of a gate's output.
LEMMA GateHolds ==
    ASSUME NEW x, NEW v, x.type \in YosysCells, CellHolds(x, v)
    PROVE  v[x.Y] = CellValue(x.type, v[x.A], v[x.B], v[x.S])
<1>1. x.type # FlipFlop /\ x.type # "fa"
  BY DEF FlipFlop, YosysCells
<1> QED BY <1>1, Zenon DEF CellHolds

\* The values of input and register nets as main sets them: cloud.data is in the
\* order of input_vector, and the netlist's value of a register is its initial one.
LEMMA SourceValues ==
    ASSUME Loaded, bc = ParsedBC(circuit)
    PROVE  /\ \A i \in DOMAIN bc.input_vector :
                 CloudData(circuit)[i] = Encode(meaning[bc.input_vector[i]])
           /\ \A i \in DOMAIN bc.DFF_Q_vector :
                 Encode(FALSE) = Encode(meaning[bc.DFF_Q_vector[i]])
<1>1. WellFormed(circuit)
  BY LoadedIsParsed
<1>2. /\ bc.input_vector = Enumerated(Elems(circuit.ins))
      /\ DOMAIN bc.input_vector = DOMAIN circuit.ins
  BY <1>1, ParsedPorts
<1>3. \A i \in DOMAIN bc.input_vector :
         CloudData(circuit)[i] = Encode(meaning[bc.input_vector[i]])
  BY <1>2 DEF CloudData
<1>4. ASSUME NEW i \in DOMAIN bc.DFF_Q_vector
      PROVE  meaning[bc.DFF_Q_vector[i]] = FALSE
  <2>1. FromFlipFlops(bc, circuit)
    BY <1>1, ParsedRegisters
  <2>2. PICK j \in DOMAIN circuit.cells : /\ circuit.cells[j].type = FlipFlop
                                         /\ circuit.cells[j].Y = bc.DFF_Q_vector[i]
    BY <2>1 DEF FromFlipFlops
  <2>3. circuit.cells[j] \in Elems(circuit.cells)
    BY DEF Elems
  <2>4. CellHolds(circuit.cells[j], meaning)
    BY <2>3 DEF Loaded, Meanings
  <2> QED BY <2>2, <2>4, RegisterHolds
<1> QED BY <1>3, <1>4

\* Registration preserves the invariant.
LEMMA RegisterStep ==
    ASSUME TangorInv, registerData
    PROVE  TangorInv'
<1> USE DEF TangorInv, Shape
<1>1. /\ pc = "build" /\ pc' = "submit"
      /\ UNCHANGED <<circuit, accel, meaning, bc, layout, next, task, done, dropped,
                     unfetched, failures, tried, cudaWorkers, cufhepp, hogeReady>>
  BY DEF registerData, Goto, input, keys, queue, faults
<1>2. bc = ParsedBC(circuit) /\ done = {} /\ task = <<>> /\ unfetched = {} /\ Fixed
  BY <1>1 DEF Loaded, Untouched, Early, Fixed
<1>3. Slots' = Slots /\ \A s : NetAt(s)' = NetAt(s)
  BY <1>2, Handles
<1>4. /\ DOMAIN ram' = Slots /\ content' = ram' /\ synced' = Slots
      /\ \A s \in Slots : ram'[s] = CASE s[1] = "in" -> CloudData(circuit)[s[2]]
                                      [] s[1] = "dffq" -> Encode(FALSE)
                                      [] OTHER -> Blank
  BY DEF registerData
<1>5. ASSUME NEW s \in Slots
      PROVE  /\ ram'[s] \in Torus
             /\ s[1] \in {"in", "dffq"} => ram'[s] = Encode(meaning[NetAt(s)])
  <2>1. \A x : Encode(x) \in Torus
    BY EncodeTypes
  <2>2. CASE s[1] = "in"
    <3>1. s[2] \in DOMAIN bc.input_vector
      BY <2>2 DEF Slots
    <3>2. ram'[s] = Encode(meaning[bc.input_vector[s[2]]])
      BY <1>2, <1>4, <2>2, <3>1, SourceValues
    <3> QED BY <2>1, <2>2, <3>2 DEF NetAt
  <2>3. CASE s[1] = "dffq"
    <3>1. s[2] \in DOMAIN bc.DFF_Q_vector
      BY <2>3 DEF Slots
    <3>2. ram'[s] = Encode(FALSE) /\ Encode(FALSE) = Encode(meaning[bc.DFF_Q_vector[s[2]]])
      BY <1>2, <1>4, <2>3, <3>1, SourceValues
    <3> QED BY <2>1, <2>3, <3>2 DEF NetAt
  <2>4. CASE s[1] \notin {"in", "dffq"}
    <3>1. ram'[s] = Blank
      BY <1>4, <2>4
    <3> QED BY <2>4, <3>1 DEF Blank, Torus
  <2> QED BY <2>2, <2>3, <2>4
<1>6. Memory'
  BY <1>3, <1>4, <1>5 DEF Memory
<1>7. Sources'
  BY <1>1, <1>3, <1>4, <1>5 DEF Sources
<1>8. Loaded'
  BY <1>1, <1>2 DEF Loaded, Late
<1>9. Untouched' /\ Waited' /\ Exported'
  BY <1>1 DEF Untouched, Waited, Exported, Early, Ending
<1>10. Keyed'
  BY <1>1, Zenon DEF Keyed, Guarded
<1>11. Graph'
  BY <1>1, <1>2, GraphStays
<1>12. ConesMatch'
  BY <1>1, <1>2 DEF ConesMatch
<1> QED BY <1>6, <1>7, <1>8, <1>9, <1>10, <1>11, <1>12

----------------------------------------------------------------------------
(* Submission *)

\* Operands of handles are handles.
LEMMA OperandTypes ==
    ASSUME NEW name, NEW a \in Slots, NEW b \in Slots, NEW s \in Slots
    PROVE  Operands(name, a, b, s) \in [1..3 -> Slots]
<1>1. \A x, y, z \in Slots : <<x, y, z>> \in [1..3 -> Slots]
  OBVIOUS
<1>2. Operands(name, a, b, s) \in {<<a, a, a>>, <<s, b, a>>, <<a, b, a>>}
  BY DEF Operands
<1> QED BY <1>1, <1>2

\* A step of the submission loop inserts the task of the next gate, or drops the
\* gate, or leaves the defined behaviour.
LEMMA SubmitCases ==
    ASSUME Parsed, submitGate
    PROVE  /\ pc = "submit" /\ next < Len(bc.gate_vector) /\ next' = next + 1
           /\ Fixed
           /\ UNCHANGED <<cudaWorkers, cufhepp, tried, hogeReady, ram, content,
                          synced, done, unfetched, result>>
           /\ \/ /\ pc' = pc /\ task' = task /\ dropped' = dropped \cup {next + 1}
                 /\ \/ failures' = failures /\ ~Inserted(bc.gate_vector[next + 1].name)
                    \/ failures < MaxFailures /\ failures' = failures + 1
              \/ pc' = "undefined" /\ UNCHANGED <<task, dropped, failures>>
              \/ /\ UNCHANGED <<pc, dropped, failures>>
                 /\ \E out \in Slots, in \in [1..3 -> Slots] :
                       LET t == [g |-> next + 1, out |-> out, in |-> in]
                       IN  /\ task' = Append(task, t)
                           /\ Inserts(t, bc.gate_vector[next + 1])
<1>1. /\ pc = "submit" /\ next < Len(bc.gate_vector) /\ next' = next + 1
      /\ UNCHANGED <<cudaWorkers, cufhepp, tried, hogeReady, ram, content,
                     synced, done, unfetched, result>>
      /\ Fixed
  <2>1. pc = "submit" /\ next < Len(bc.gate_vector) /\ next' = next + 1
    BY Zenon DEF submitGate
  <2>2. UNCHANGED <<input, keys, bc, layout, data, done, unfetched, result>>
    BY Zenon DEF submitGate
  <2> QED BY <2>1, <2>2 DEF Fixed, input, keys, data
<1>2. PICK gate : gate = bc.gate_vector[next + 1]
  OBVIOUS
<1>3. CASE ~Inserted(gate.name) /\ dropped' = dropped \cup {next + 1}
           /\ UNCHANGED <<pc, task, failures>>
  <2>1. /\ pc' = pc /\ task' = task /\ dropped' = dropped \cup {next + 1}
        /\ \/ failures' = failures /\ ~Inserted(bc.gate_vector[next + 1].name)
           \/ failures < MaxFailures /\ failures' = failures + 1
    BY <1>2, <1>3
  <2> QED BY <1>1, <2>1
<1>4. CASE /\ Inserted(gate.name)
           /\ \E out \in search_pointer(gate.out),
                 a \in search_pointer(gate.in[1]),
                 b \in search_pointer(gate.in[2]),
                 s \in search_pointer(gate.in[3]) :
                 IF Wild \in {out, a, b, s}
                 THEN pc' = "undefined" /\ UNCHANGED <<task, dropped, failures>>
                 ELSE Insert(next + 1, out, a, b, s) \/ InsertFails(next + 1)
  <2>1. PICK out \in search_pointer(gate.out),
             a \in search_pointer(gate.in[1]),
             b \in search_pointer(gate.in[2]),
             s \in search_pointer(gate.in[3]) :
             IF Wild \in {out, a, b, s}
             THEN pc' = "undefined" /\ UNCHANGED <<task, dropped, failures>>
             ELSE Insert(next + 1, out, a, b, s) \/ InsertFails(next + 1)
    BY <1>4
  <2>2. CASE Wild \in {out, a, b, s}
    BY <1>1, <2>1, <2>2
  <2>3. CASE Wild \notin {out, a, b, s} /\ InsertFails(next + 1)
    BY <1>1, <2>3 DEF InsertFails
  <2>4. CASE Wild \notin {out, a, b, s} /\ Insert(next + 1, out, a, b, s)
    <3>1. /\ out = Found(gate.out) /\ a = Found(gate.in[1])
          /\ b = Found(gate.in[2]) /\ s = Found(gate.in[3])
      BY <2>4, SearchFinds
    <3>2. out \in Slots /\ a \in Slots /\ b \in Slots /\ s \in Slots
      BY <2>4, <3>1, FoundIsNet
    <3>3. PICK in \in [1..3 -> Slots] : in = Operands(gate.name, a, b, s)
      BY <3>2, OperandTypes
    <3>4. PICK t : t = [g |-> next + 1, out |-> out, in |-> in]
      OBVIOUS
    <3>5. task' = Append(task, t) /\ UNCHANGED <<pc, dropped, failures>>
      BY <1>2, <2>4, <3>3, <3>4 DEF Insert
    <3>6. t.out = out /\ t.in = in
      BY <3>4
    <3>7. Inserts(t, gate)
      BY <1>4, <3>1, <3>3, <3>6 DEF Inserts
    <3> QED BY <1>1, <1>2, <3>2, <3>4, <3>5, <3>7
  <2> QED BY <2>1, <2>2, <2>3, <2>4
<1> QED BY <1>2, <1>3, <1>4 DEF submitGate

\* The old tasks are still well typed when next grows.
LEMMA TasksStayTyped ==
    ASSUME Graph, Fixed, next' \in Nat, next <= next'
    PROVE  task \in Seq([g : 1..next', out : Slots', in : [1..3 -> Slots']])
<1> DEFINE R == [g : 1..next', out : Slots', in : [1..3 -> Slots']]
           Q == [g : 1..next, out : Slots, in : [1..3 -> Slots]]
<1>1. next \in Nat
  <2>1. next \in 0..Len(bc.gate_vector)
    BY DEF Graph
  <2> QED BY <2>1
<1>2. Slots' = Slots
  BY Handles
<1>3. Q \subseteq R
  <2>1. 1..next \subseteq 1..next'
    BY <1>1
  <2> QED BY <1>2, <2>1
<1>4. task \in Seq(Q)
  BY DEF Graph
<1> HIDE DEF Q, R
<1>5. task \in Seq(R)
  BY <1>3, <1>4
<1> QED BY <1>5 DEF R

\* A dropped gate, and a gate whose handles are wild, keep the graph.
LEMMA GraphSkips ==
    ASSUME Graph, Fixed, next < Len(bc.gate_vector), next' = next + 1,
           Len(bc.gate_vector) \in Nat, UNCHANGED <<task, done, unfetched>>,
           pc # "undefined",
           \/ dropped' = dropped \cup {next + 1}
           \/ dropped' = dropped /\ pc' = "undefined"
    PROVE  Graph'
<1>1. /\ OutSlots' = OutSlots /\ bc' = bc /\ task' = task
  BY Handles DEF Fixed
<1>2. next \in Nat /\ next' \in Nat /\ next <= next'
  BY DEF Graph
<1>3. task' \in Seq([g : 1..next', out : Slots', in : [1..3 -> Slots']])
  BY <1>1, <1>2, TasksStayTyped
<1>4. (\A i \in DOMAIN task : Inserts(task[i], bc.gate_vector[task[i].g]))'
  <2> SUFFICES ASSUME NEW i \in DOMAIN task
               PROVE  Inserts(task[i], bc.gate_vector[task[i].g])'
    BY <1>1
  <2>1. Inserts(task[i], bc.gate_vector[task[i].g])
    BY DEF Graph
  <2>2. PICK t, gate : t = task[i] /\ gate = bc.gate_vector[task[i].g]
    OBVIOUS
  <2>3. Inserts(t, gate)'
    BY <2>1, <2>2, Handles, Zenon
  <2> QED BY <1>1, <2>2, <2>3 DEF Inserts
<1>5. /\ next' \in 0..Len(bc'.gate_vector)
      /\ \A i, j \in DOMAIN task' : i < j => task'[i].g < task'[j].g
      /\ done' \subseteq DOMAIN task' /\ unfetched' \subseteq OutSlots'
  BY <1>1, <1>2 DEF Graph
<1>6. dropped' \subseteq 1..next'
  <2>1. dropped \subseteq 1..next
    BY DEF Graph
  <2>2. 1..next \subseteq 1..next' /\ next + 1 \in 1..next'
    BY <1>2
  <2> QED BY <2>1, <2>2
<1>7. pc' # "undefined" =>
         \A g \in 1..next' : g \in dropped' \/ \E i \in DOMAIN task' : task'[i].g = g
  <2> SUFFICES ASSUME NEW g \in 1..next', dropped' = dropped \cup {next + 1}
               PROVE  g \in dropped' \/ \E i \in DOMAIN task : task[i].g = g
    BY <1>1
  <2>1. g \in 1..next \/ g = next + 1
    BY <1>2
  <2> QED BY <2>1 DEF Graph
<1> QED BY <1>3, <1>4, <1>5, <1>6, <1>7 DEF Graph

\* An insertion keeps the graph.
LEMMA GraphGrows ==
    ASSUME Graph, Fixed, next < Len(bc.gate_vector), next' = next + 1,
           Len(bc.gate_vector) \in Nat, UNCHANGED <<pc, dropped, done, unfetched>>,
           pc # "undefined",
           NEW out \in Slots, NEW in \in [1..3 -> Slots],
           NEW t, t = [g |-> next + 1, out |-> out, in |-> in],
           task' = Append(task, t),
           Inserts(t, bc.gate_vector[next + 1])
    PROVE  Graph' /\ \A i \in DOMAIN task : task'[i] = task[i]
<1>1. Slots' = Slots /\ OutSlots' = OutSlots /\ bc' = bc
  BY Handles DEF Fixed
<1>2. next \in Nat /\ next' \in Nat /\ next <= next'
  BY DEF Graph
<1>3. task' \in Seq([g : 1..next', out : Slots', in : [1..3 -> Slots']])
  <2> DEFINE R == [g : 1..next', out : Slots', in : [1..3 -> Slots']]
  <2>1. task \in Seq(R)
    BY <1>2, TasksStayTyped
  <2>2. t \in R
    BY <1>1, <1>2
  <2> HIDE DEF R
  <2>3. Append(task, t) \in Seq(R)
    BY <2>1, <2>2, SMTT(30)
  <2> QED BY <2>3 DEF R
<1>4. PICK m \in Nat : m = Len(task) /\ DOMAIN task = 1..m
  BY TaskTypes
<1>5. PICK n \in Nat : n = m + 1
  OBVIOUS
<1>6. task \in Seq([g : 1..next, out : Slots, in : [1..3 -> Slots]])
  BY DEF Graph
<1>7. DOMAIN task' = 1..n /\ task'[n] = t /\ \A i \in 1..m : task'[i] = task[i]
  <2> DEFINE R == [g : 1..next, out : Slots, in : [1..3 -> Slots]]
  <2>1. task \in Seq(R)
    BY <1>6
  <2> HIDE DEF R
  <2>2. DOMAIN Append(task, t) = 1..(Len(task) + 1)
    BY <2>1
  <2>3. Append(task, t)[Len(task) + 1] = t
    BY <2>1
  <2>4. \A i \in 1..Len(task) : Append(task, t)[i] = task[i]
    BY <2>1
  <2> QED BY <1>4, <1>5, <2>2, <2>3, <2>4
<1>8. t.g = next + 1 /\ \A i \in 1..m : task[i].g \in 1..next
  BY <1>4, TaskTypes, SMTT(30)
<1>9. \A i \in 1..n : i \in 1..m \/ i = n
  BY <1>5
<1>10. (\A i \in DOMAIN task : Inserts(task[i], bc.gate_vector[task[i].g]))'
  <2> SUFFICES ASSUME NEW i \in 1..n
               PROVE  Inserts(task[i], bc.gate_vector[task[i].g])'
    BY <1>7
  <2>1. PICK u, gate : u = task'[i] /\ gate = bc.gate_vector[task'[i].g]
    OBVIOUS
  <2>2. Inserts(u, gate)
    <3>1. CASE i \in 1..m
      BY <1>4, <1>7, <2>1, <3>1 DEF Graph
    <3>2. CASE i = n
      BY <1>7, <1>8, <2>1, <3>2
    <3> QED BY <1>9, <3>1, <3>2
  <2>3. Inserts(u, gate)'
    BY <2>2, Handles, Zenon
  <2> QED BY <1>1, <2>1, <2>3 DEF Inserts
<1>11. \A i, j \in DOMAIN task' : i < j => task'[i].g < task'[j].g
  <2> SUFFICES ASSUME NEW i \in 1..n, NEW j \in 1..n, i < j
               PROVE  task'[i].g < task'[j].g
    BY <1>7
  <2>1. i \in 1..m
    BY <1>5
  <2>2. CASE j \in 1..m
    <3>1. task[i].g < task[j].g
      BY <1>4, <2>1, <2>2 DEF Graph
    <3> QED BY <1>7, <2>1, <2>2, <3>1
  <2>3. CASE j = n
    <3>1. task'[i].g \in 1..next /\ task'[j].g = next + 1
      BY <1>7, <1>8, <2>1, <2>3
    <3>2. \A x, y : x \in 1..next /\ y = next + 1 => x < y
      BY <1>2
    <3> QED BY <3>1, <3>2
  <2> QED BY <1>9, <2>2, <2>3
<1>12. /\ next' \in 0..Len(bc'.gate_vector) /\ done' \subseteq DOMAIN task'
       /\ dropped' \subseteq 1..next' /\ unfetched' \subseteq OutSlots'
  <2>1. done' \subseteq DOMAIN task'
    BY <1>4, <1>5, <1>7 DEF Graph
  <2> QED BY <1>1, <1>2, <2>1 DEF Graph
<1>13. \A g \in 1..next' : g \in dropped' \/ \E i \in DOMAIN task' : task'[i].g = g
  <2> SUFFICES ASSUME NEW g \in 1..next', g \notin dropped
               PROVE  \E i \in 1..n : task'[i].g = g
    BY <1>7
  <2>1. CASE g \in 1..next
    <3>1. PICK i \in 1..m : task[i].g = g
      BY <1>4, <2>1 DEF Graph
    <3> QED BY <1>5, <1>7, <3>1
  <2>2. CASE g = next + 1
    BY <1>5, <1>7, <1>8, <2>2
  <2>3. g \in 1..next \/ g = next + 1
    BY <1>2
  <2> QED BY <2>1, <2>2, <2>3
<1> QED BY <1>3, <1>4, <1>7, <1>10, <1>11, <1>12, <1>13 DEF Graph

\* What is in memory stays there while main submits or waits.
LEMMA MemoryStays ==
    ASSUME Memory, Sources, Fixed, pc \in Late, UNCHANGED <<ram, content, synced>>
    PROVE  Memory' /\ Sources'
<1>1. Slots' = Slots /\ meaning' = meaning /\ \A s : NetAt(s)' = NetAt(s)
  BY Handles DEF Fixed
<1>2. Memory'
  BY <1>1 DEF Memory
<1>3. Sources'
  BY <1>1 DEF Sources
<1> QED BY <1>2, <1>3

\* bc and the counters stay what they are after registration.
LEMMA LoadedStays ==
    ASSUME Loaded, Fixed, pc \in Late, pc' \in Late, tried' = tried,
           failures' \in 0..MaxFailures
    PROVE  Loaded' /\ Untouched'
<1>1. bc = ParsedBC(circuit)
  BY DEF Loaded, Late, Ending
<1>2. pc' \notin Early
  BY DEF Early, Late, Ending
<1> QED BY <1>1, <1>2 DEF Loaded, Fixed, Untouched

\* A round of the submission loop preserves the invariant.
LEMMA SubmitStep ==
    ASSUME TangorInv, submitGate
    PROVE  TangorInv'
<1> USE DEF TangorInv, Shape
<1>1. Parsed /\ Len(bc.gate_vector) \in Nat
  BY LoadedIsParsed, ParsedVectors DEF IsVector
<1>2. /\ pc = "submit" /\ next < Len(bc.gate_vector) /\ next' = next + 1 /\ Fixed
      /\ UNCHANGED <<cudaWorkers, cufhepp, tried, hogeReady, ram, content,
                     synced, done, unfetched, result>>
  BY <1>1, SubmitCases
<1>3. /\ pc' \in {"submit", "undefined"} /\ failures' \in 0..MaxFailures
      /\ dropped \subseteq dropped' /\ Graph'
      /\ \A i \in done : task'[i] = task[i]
  <2>1. CASE /\ pc' = pc /\ task' = task /\ dropped' = dropped \cup {next + 1}
             /\ \/ failures' = failures /\ ~Inserted(bc.gate_vector[next + 1].name)
                \/ failures < MaxFailures /\ failures' = failures + 1
    <3>1. Graph'
      BY <1>1, <1>2, <2>1, GraphSkips
    <3>2. failures' \in 0..MaxFailures
      BY <2>1, TangorAssumption DEF Loaded
    <3> QED BY <1>2, <2>1, <3>1, <3>2
  <2>2. CASE pc' = "undefined" /\ UNCHANGED <<task, dropped, failures>>
    <3>1. Graph'
      BY <1>1, <1>2, <2>2, GraphSkips
    <3> QED BY <2>2, <3>1 DEF Loaded
  <2>3. CASE /\ UNCHANGED <<pc, dropped, failures>>
             /\ \E out \in Slots, in \in [1..3 -> Slots] :
                   LET t == [g |-> next + 1, out |-> out, in |-> in]
                   IN  /\ task' = Append(task, t)
                       /\ Inserts(t, bc.gate_vector[next + 1])
    <3>1. PICK out \in Slots, in \in [1..3 -> Slots] :
             LET t == [g |-> next + 1, out |-> out, in |-> in]
             IN  /\ task' = Append(task, t)
                 /\ Inserts(t, bc.gate_vector[next + 1])
      BY <2>3
    <3>2. PICK t : t = [g |-> next + 1, out |-> out, in |-> in]
      OBVIOUS
    <3>3. task' = Append(task, t) /\ Inserts(t, bc.gate_vector[next + 1])
      BY <3>1, <3>2
    <3>4. Graph' /\ \A i \in DOMAIN task : task'[i] = task[i]
      BY <1>1, <1>2, <2>3, <3>2, <3>3, GraphGrows
    <3>5. done \subseteq DOMAIN task
      BY DEF Graph
    <3> QED BY <1>2, <2>3, <3>4, <3>5 DEF Loaded
  <2> QED BY <1>1, <2>1, <2>2, <2>3, SubmitCases
<1>4. pc \in Late /\ pc' \in Late
  BY <1>2, <1>3 DEF Late
<1>5. Loaded' /\ Untouched' /\ Memory' /\ Sources'
  BY <1>2, <1>3, <1>4, LoadedStays, MemoryStays
<1>6. Waited' /\ Exported'
  BY <1>3 DEF Waited, Exported, Ending
<1>7. Keyed'
  <2>1. accel' = accel
    BY <1>2 DEF Fixed
  <2> QED BY <1>2, <1>3, <2>1, Zenon DEF Keyed, Guarded
<1>8. ConesMatch'
  BY <1>2, <1>3, ConesStay
<1> QED BY <1>3, <1>5, <1>6, <1>7, <1>8

----------------------------------------------------------------------------
(* The end of main *)

\* The steps after submission, other than the acquires, preserve the invariant.
LEMMA EndingStep ==
    ASSUME TangorInv,
           \/ submitted \/ starpu_task_wait_for_all \/ writeResult
           \/ CufheppCleanUp \/ starpu_shutdown
    PROVE  TangorInv'
<1> USE DEF TangorInv, Shape
<1>1. /\ UNCHANGED <<circuit, accel, meaning, bc, layout, next, task, done, dropped,
                     unfetched, failures, tried, hogeReady, ram, content, synced>>
      /\ \/ pc = "submit" /\ pc' = "wait" /\ next = Len(bc.gate_vector)
         \/ pc = "wait" /\ pc' = "sync" /\ done = DOMAIN task
         \/ /\ pc = "write" /\ pc' = "cleanup"
            /\ result' = [i \in DOMAIN bc.output_vector |-> ram[<<"out", i>>]]
         \/ pc = "write" /\ pc' = "aborted"
         \/ pc = "cleanup" /\ pc' = "shutdown" /\ result' = result
         \/ pc = "shutdown" /\ pc' = "done" /\ result' = result
  BY DEF submitted, starpu_task_wait_for_all, writeResult, CufheppCleanUp,
         starpu_shutdown, Goto, AllDone, input, keys, data, queue, faults
<1>2. Fixed
  BY <1>1 DEF Fixed
<1>3. pc \in Late /\ pc' \in Late /\ pc' # "undefined" /\ pc # "undefined"
  BY <1>1 DEF Late, Ending
<1>4. Loaded' /\ Untouched'
  BY <1>1, <1>2, <1>3, LoadedStays DEF Loaded
<1>5. Memory' /\ Sources'
  BY <1>1, <1>2, <1>3, MemoryStays
<1>6. Graph'
  BY <1>1, <1>2, <1>3, GraphStays DEF Graph
<1>7. Waited'
  BY <1>1 DEF Waited, Ending
<1>8. Exported'
  <2>1. OutSlots' = OutSlots
    BY <1>2, Handles
  <2> QED BY <1>1, <2>1 DEF Exported
<1>9. Keyed'
  <2>1. CASE submitted \/ starpu_task_wait_for_all \/ writeResult
    <3>1. UNCHANGED <<cudaWorkers, cufhepp>>
      BY <2>1 DEF submitted, starpu_task_wait_for_all, writeResult, keys
    <3>2. pc \in Guarded
      BY <2>1 DEF submitted, starpu_task_wait_for_all, writeResult, Goto, Guarded
    <3> QED BY <1>1, <3>1, <3>2, Zenon DEF Keyed, Guarded
  <2>2. CASE CufheppCleanUp
    <3>1. cudaWorkers' = cudaWorkers /\ pc' = "shutdown"
      BY <2>2 DEF CufheppCleanUp, Goto
    <3> QED BY <1>1, <3>1 DEF Keyed, Guarded
  <2>3. CASE starpu_shutdown
    <3>1. cudaWorkers' = FALSE /\ pc' = "done"
      BY <2>3 DEF starpu_shutdown, Goto
    <3> QED BY <1>1, <3>1 DEF Keyed, Guarded
  <2> QED BY <2>1, <2>2, <2>3
<1>10. ConesMatch'
  BY <1>1, <1>2, ConesStay
<1> QED BY <1>4, <1>5, <1>6, <1>7, <1>8, <1>9, <1>10

\* There are finitely many outputs to acquire.
LEMMA FiniteOutputs == Loaded => IsFiniteSet(OutSlots)
<1> SUFFICES ASSUME Loaded PROVE IsFiniteSet(OutSlots)
  OBVIOUS
<1>1. PICK n \in Nat : DOMAIN bc.output_vector = 1..n
  BY LoadedIsParsed, ParsedVectors DEF IsVector
<1>2. IsFiniteSet({"out"})
  BY FS_Singleton, Zenon
<1>3. IsFiniteSet(1..n)
  BY FS_Interval
<1> QED BY <1>1, <1>2, <1>3, FS_Product, Zenon DEF OutSlots

\* The acquires preserve the invariant.
LEMMA SyncStep ==
    ASSUME TangorInv, starpu_sync_outputs_to_host
    PROVE  TangorInv'
<1> USE DEF TangorInv, Shape
<1>1. /\ pc = "sync" /\ pc' = "write"
      /\ UNCHANGED <<circuit, accel, meaning, bc, layout, next, task, done, dropped,
                     tried, hogeReady, cudaWorkers, cufhepp, content, result>>
  BY DEF starpu_sync_outputs_to_host, Goto, input, keys, queue
<1>2. PICK F \in SUBSET OutSlots :
         /\ failures + Cardinality(F) <= MaxFailures
         /\ failures' = failures + Cardinality(F)
         /\ unfetched' = F
         /\ ram' = [s \in Slots |-> IF s \in Acquired(F) THEN content[s] ELSE ram[s]]
         /\ synced' = synced \cup Acquired(F)
  BY DEF starpu_sync_outputs_to_host
<1>3. Fixed
  BY <1>1 DEF Fixed
<1>4. pc \in Late /\ pc' \in Late
  BY <1>1 DEF Late, Ending
<1>5. failures' \in 0..MaxFailures
  <2>1. IsFiniteSet(OutSlots)
    BY FiniteOutputs
  <2>2. Cardinality(F) \in Nat
    BY <2>1, FS_Subset, FS_CardinalityType
  <2> QED BY <1>2, <2>2, TangorAssumption DEF Loaded
<1>6. Loaded' /\ Untouched'
  BY <1>1, <1>3, <1>4, <1>5, LoadedStays
<1>7. Slots' = Slots /\ OutSlots' = OutSlots /\ \A s : NetAt(s)' = NetAt(s)
  BY <1>3, Handles
<1>8. Acquired(F) = OutSlots \ F /\ OutSlots \subseteq Slots
  BY DEF Acquired, OutSlots, Slots
<1>9. Memory'
  <2>1. /\ DOMAIN content = Slots /\ synced \subseteq Slots
        /\ \A s \in Slots : ram[s] \in Torus /\ content[s] \in Torus
    BY <1>4 DEF Memory
  <2>2. DOMAIN ram' = Slots /\ synced' \subseteq Slots
    BY <1>2, <1>8, <2>1
  <2>3. \A s \in Slots : ram'[s] \in Torus
    BY <1>2, <2>1
  <2> QED BY <1>1, <1>7, <2>1, <2>2, <2>3 DEF Memory
<1>10. Sources'
  BY <1>1, <1>4, <1>7 DEF Sources
<1>11. Graph'
  BY <1>1, <1>2, <1>3, GraphStays DEF Graph
<1>12. Waited'
  BY <1>1 DEF Waited, Ending
<1>13. Exported'
  <2>1. \A s \in OutSlots \ F : ram'[s] = content[s]
    BY <1>2, <1>8
  <2> QED BY <1>1, <1>2, <1>7, <2>1 DEF Exported
<1>14. Keyed'
  BY <1>1 DEF Keyed, Guarded
<1>15. ConesMatch'
  BY <1>1, <1>3, ConesStay
<1> QED BY <1>6, <1>9, <1>10, <1>11, <1>12, <1>13, <1>14, <1>15

----------------------------------------------------------------------------
(* Execution *)

\* A task writes the handle of its gate's output, which is no input, no register
\* and no other task's.
LEMMA TaskOutputs ==
    ASSUME Loaded, Graph, bc = ParsedBC(circuit)
    PROVE  /\ \A i \in DOMAIN task : /\ NetAt(task[i].out) = OutOf(task[i].g)
                                     /\ task[i].out[1] \notin {"in", "dffq"}
           /\ \A i, j \in DOMAIN task : task[i].out = task[j].out => i = j
<1>1. Parsed /\ WellFormed(circuit)
  BY LoadedIsParsed
<1>2. /\ Len(task) \in Nat /\ DOMAIN task = 1..Len(task)
      /\ \A i \in DOMAIN task : task[i].g \in 1..next /\ task[i].out \in Slots
  BY TaskTypes
<1>3. \A i \in DOMAIN task : task[i].g \in DOMAIN bc.gate_vector
  <2>1. Len(bc.gate_vector) \in Nat /\ DOMAIN bc.gate_vector = 1..Len(bc.gate_vector)
    BY <1>1, ParsedVectors DEF IsVector
  <2>2. next \in 0..Len(bc.gate_vector)
    BY DEF Graph
  <2>3. 1..next \subseteq DOMAIN bc.gate_vector
    BY <2>1, <2>2
  <2> QED BY <1>2, <2>3
<1>4. ASSUME NEW i \in DOMAIN task
      PROVE  /\ task[i].out = Found(OutOf(task[i].g)) /\ Found(OutOf(task[i].g)) # Wild
             /\ OutOf(task[i].g) \notin Elems(bc.input_vector) \cup Elems(bc.DFF_Q_vector)
  <2>1. task[i].out = Found(OutOf(task[i].g))
    BY DEF Graph, Inserts, OutOf
  <2>2. Found(OutOf(task[i].g)) # Wild
    BY <1>2, <2>1, WildIsNoSlot
  <2>3. Elems(bc.input_vector) = Elems(circuit.ins)
    BY <1>1, ParsedPorts
  <2>4. OutOf(task[i].g) \notin Elems(circuit.ins) \cup Elems(bc.DFF_Q_vector)
    BY <1>1, <1>3, ParsedGates DEF OutOf
  <2> QED BY <2>1, <2>2, <2>3, <2>4
<1>5. \A i \in DOMAIN task : /\ NetAt(task[i].out) = OutOf(task[i].g)
                            /\ task[i].out[1] \notin {"in", "dffq"}
  BY <1>1, <1>4, FoundIsNet, FoundWhere
<1>6. ASSUME NEW i \in DOMAIN task, NEW j \in DOMAIN task, task[i].out = task[j].out
      PROVE  i = j
  <2>1. OutOf(task[i].g) = OutOf(task[j].g)
    BY <1>5, <1>6
  <2>2. task[i].g = task[j].g
    BY <1>1, <1>3, <2>1, ParsedGates DEF OutOf
  <2>3. ~(i < j) /\ ~(j < i)
    BY <1>2, <2>2 DEF Graph
  <2> QED BY <1>2, <2>3
<1> QED BY <1>5, <1>6

\* A ready task of a clean gate finds the netlist's value in each operand: it is
\* an input or a register, or the output of a clean gate before it, whose task was
\* inserted earlier and has been executed.
LEMMA OperandValue ==
    ASSUME Shape, Sources, ConesMatch, Running, NEW i, Ready(i),
           task[i].g \in CleanGates, NEW b \in InOf(task[i].g),
           Found(b) \in Ins(task[i]), Found(b) \in Slots
    PROVE  content[Found(b)] = Encode(meaning[b])
<1> USE DEF Shape
<1>1. pc \in Late /\ pc # "undefined" /\ bc = ParsedBC(circuit) /\ Parsed
  BY LoadedIsParsed DEF Running, Late, Ending, Loaded
<1>2. Found(b) # Wild
  BY WildIsNoSlot
<1>3. NetAt(Found(b)) = b
  BY <1>1, <1>2, FoundIsNet
<1>4. i \in DOMAIN task /\ task[i].g \in 1..next /\ next \in Nat
  BY TaskTypes DEF Ready, Graph
<1>5. PICK G \in SUBSET {g \in GateIndices \ dropped : Sound(g)} :
         /\ task[i].g \in G
         /\ \A g \in G : \A e \in InOf(g) :
               \/ e \in Elems(bc.input_vector) \cup Elems(bc.DFF_Q_vector)
               \/ \E h \in G : h < g /\ OutOf(h) = e
  BY DEF CleanGates
<1>6. CASE b \in Elems(bc.input_vector) \cup Elems(bc.DFF_Q_vector)
  <2>1. Found(b)[1] \in {"in", "dffq"}
    BY <1>2, <1>6, FoundWhere
  <2> QED BY <1>1, <1>3, <2>1 DEF Sources
<1>7. CASE \E h \in G : h < task[i].g /\ OutOf(h) = b
  <2>1. PICK h \in G : h < task[i].g /\ OutOf(h) = b
    BY <1>7
  <2>2. h \in CleanGates
    BY <1>5 DEF CleanGates
  <2>3. h \in 1..next /\ h \notin dropped
    <3>1. h \in DOMAIN bc.gate_vector /\ h \notin dropped
      BY DEF GateIndices
    <3>2. h \in Nat /\ h >= 1
      BY <1>1, <3>1, ParsedVectors DEF IsVector
    <3> QED BY <1>4, <2>1, <3>1, <3>2
  <2>4. PICK j \in DOMAIN task : task[j].g = h
    BY <1>1, <2>3 DEF Graph
  <2>5. j \in 1..(i - 1)
    <3>1. Len(task) \in Nat /\ DOMAIN task = 1..Len(task)
      BY TaskTypes
    <3>2. ~(i < j) /\ i # j
      <4>1. i < j => task[i].g < task[j].g
        BY <1>4, <2>4 DEF Graph
      <4>2. h \in Nat /\ task[i].g \in Nat
        BY <1>4, <2>3
      <4> QED BY <2>1, <2>4, <4>1, <4>2
    <3> QED BY <1>4, <2>4, <3>1, <3>2
  <2>6. task[j].out = Found(b)
    BY <2>1, <2>4 DEF Graph, Inserts, OutOf
  <2>7. j \in done
    BY <2>5, <2>6 DEF Ready, Conflict
  <2> QED BY <2>1, <2>2, <2>4, <2>6, <2>7 DEF ConesMatch
<1> QED BY <1>5, <1>6, <1>7

\* The cell an inserted gate comes from.
LEMMA CellOfTask ==
    ASSUME Shape, bc = ParsedBC(circuit), NEW i \in DOMAIN task
    PROVE  \E x \in Elems(circuit.cells) :
              /\ x \in CellRecords /\ x.type \in YosysCells
              /\ bc.gate_vector[task[i].g].name = GateName(x.type)
              /\ bc.gate_vector[task[i].g].out = x.Y
              /\ bc.gate_vector[task[i].g].in = <<x.A, x.B, x.S>>
<1> USE DEF Shape
<1>1. WellFormed(circuit) /\ Parsed
  BY LoadedIsParsed
<1>2. task[i].g \in DOMAIN bc.gate_vector
  <2>1. Len(bc.gate_vector) \in Nat /\ DOMAIN bc.gate_vector = 1..Len(bc.gate_vector)
    BY <1>1, ParsedVectors DEF IsVector
  <2>2. next \in 0..Len(bc.gate_vector) /\ task[i].g \in 1..next
    BY TaskTypes DEF Graph
  <2> QED BY <2>1, <2>2
<1>3. PICK x \in Elems(circuit.cells) : GateOf(x, bc.gate_vector[task[i].g])
  BY <1>1, <1>2, ParsedGates
<1>4. Inserted(bc.gate_vector[task[i].g].name)
  BY DEF Graph, Inserts
<1>5. ~Inserted("ha") /\ ~Inserted(GateName("fa"))
  BY DEF Inserted, GateName
<1>6. bc.gate_vector[task[i].g].name = GateName(x.type) /\ x.type # "fa"
  BY <1>3, <1>4, <1>5 DEF GateOf
<1>7. x.type \in YosysCells
  BY <1>3, <1>6 DEF GateOf, CellRecords
<1> QED BY <1>3, <1>6, <1>7 DEF GateOf

\* The operands of a clean gate's task encrypt the bits of which the netlist's
\* value is made.
LEMMA GateOperands ==
    ASSUME Shape, Sources, ConesMatch, Running, NEW i, Ready(i),
           task[i].g \in CleanGates
    PROVE  \E c \in YosysCells, x, y, z \in BOOLEAN :
              /\ Name(i) = GateName(c) /\ (accel = "hoge" => c # "NMUX")
              /\ Values(i)[1] = Encode(x) /\ Values(i)[2] = Encode(y)
              /\ Values(i)[3] = Encode(z)
              /\ meaning[OutOf(task[i].g)] = Meaning(c, x, y, z)
<1> USE DEF Shape
<1>1. i \in DOMAIN task /\ bc = ParsedBC(circuit)
  BY DEF Ready, Running, Loaded
<1>2. PICK x \in Elems(circuit.cells) :
         /\ x \in CellRecords /\ x.type \in YosysCells
         /\ bc.gate_vector[task[i].g].name = GateName(x.type)
         /\ bc.gate_vector[task[i].g].out = x.Y
         /\ bc.gate_vector[task[i].g].in = <<x.A, x.B, x.S>>
  BY <1>1, CellOfTask
<1>3. PICK c \in YosysCells : c = x.type
  BY <1>2
<1>4. PICK p, q, r : p = meaning[x.A] /\ q = meaning[x.B] /\ r = meaning[x.S]
  OBVIOUS
<1>5. p \in BOOLEAN /\ q \in BOOLEAN /\ r \in BOOLEAN
  <2>1. meaning \in [NetsOf(circuit) \cup Consts -> BOOLEAN]
    BY DEF Loaded, Meanings
  <2>2. {x.A, x.B, x.S} \subseteq NetsOf(circuit)
    BY <1>2 DEF NetsOf
  <2> QED BY <1>4, <2>1, <2>2
<1>6. meaning[OutOf(task[i].g)] = CellValue(c, p, q, r)
  <2>1. CellHolds(x, meaning)
    BY <1>2 DEF Loaded, Meanings
  <2> QED BY <1>2, <1>3, <1>4, <2>1, GateHolds DEF OutOf
<1>7. PICK fa, fb, fs : fa = Found(x.A) /\ fb = Found(x.B) /\ fs = Found(x.S)
  OBVIOUS
<1>8. PICK in : in = task[i].in
  OBVIOUS
<1>9. in = Operands(GateName(c), fa, fb, fs) /\ in \in [1..3 -> Slots]
  <2>1. Inserts(task[i], bc.gate_vector[task[i].g])
    BY <1>1 DEF Graph
  <2>2. in \in [1..3 -> Slots]
    BY <1>1, <1>8, TaskTypes
  <2> QED BY <1>2, <1>3, <1>7, <1>8, <2>1, <2>2 DEF Inserts
<1>10. Ins(task[i]) = {in[1], in[2], in[3]}
  BY <1>8, <1>9 DEF Ins, Elems
<1>11. InOf(task[i].g) = {x.A, x.B, x.S}
  BY <1>2 DEF InOf, Elems
<1>12. /\ fa \in {in[1], in[2], in[3]} => content[fa] = Encode(p)
       /\ fb \in {in[1], in[2], in[3]} => content[fb] = Encode(q)
       /\ fs \in {in[1], in[2], in[3]} => content[fs] = Encode(r)
  <2>1. {in[1], in[2], in[3]} \subseteq Slots
    BY <1>9
  <2>2. \A e \in {x.A, x.B, x.S} :
           Found(e) \in {in[1], in[2], in[3]} => content[Found(e)] = Encode(meaning[e])
    BY <1>10, <1>11, <2>1, OperandValue
  <2> QED BY <1>4, <1>7, <2>2
<1>13. PICK v : v = [n \in 1..3 |-> content[in[n]]]
  OBVIOUS
<1>14. v[1] = content[in[1]] /\ v[2] = content[in[2]] /\ v[3] = content[in[3]]
  BY <1>13
<1>15. Name(i) = GateName(c) /\ Values(i) = v /\ (accel = "hoge" => c # "NMUX")
  <2>1. Name(i) = GateName(c) /\ Values(i) = v
    BY <1>2, <1>3, <1>8, <1>13 DEF Name, Values
  <2>2. accel = "hoge" => Name(i) # "NMUX"
    BY DEF CleanGates, Sound, Name
  <2>3. GateName("NMUX") = "NMUX"
    BY DEF GateName
  <2> QED BY <2>1, <2>2, <2>3
<1>16. CASE /\ in = <<fa, fa, fa>>
            /\ \A a, b, d : CellValue(c, a, b, d) = Meaning(c, a, a, a)
  <2>1. v[1] = Encode(p) /\ v[2] = Encode(p) /\ v[3] = Encode(p)
    BY <1>12, <1>14, <1>16
  <2>2. meaning[OutOf(task[i].g)] = Meaning(c, p, p, p)
    BY <1>6, <1>16
  <2> QED BY <1>5, <1>15, <2>1, <2>2
<1>17. CASE /\ in = <<fs, fb, fa>>
            /\ \A a, b, d : CellValue(c, a, b, d) = Meaning(c, d, b, a)
  <2>1. v[1] = Encode(r) /\ v[2] = Encode(q) /\ v[3] = Encode(p)
    BY <1>12, <1>14, <1>17
  <2>2. meaning[OutOf(task[i].g)] = Meaning(c, r, q, p)
    BY <1>6, <1>17
  <2> QED BY <1>5, <1>15, <2>1, <2>2
<1>18. CASE /\ in = <<fa, fb, fa>>
            /\ \A a, b, d : CellValue(c, a, b, d) = Meaning(c, a, b, a)
  <2>1. v[1] = Encode(p) /\ v[2] = Encode(q) /\ v[3] = Encode(p)
    BY <1>12, <1>14, <1>18
  <2>2. meaning[OutOf(task[i].g)] = Meaning(c, p, q, p)
    BY <1>6, <1>18
  <2> QED BY <1>5, <1>15, <2>1, <2>2
<1>19. PICK gate : gate = GateName(c)
  OBVIOUS
<1>20. \/ /\ \A a, b, d : Operands(gate, a, b, d) = <<a, a, a>>
          /\ \A a, b, d : CellValue(c, a, b, d) = Meaning(c, a, a, a)
       \/ /\ \A a, b, d : Operands(gate, a, b, d) = <<d, b, a>>
          /\ \A a, b, d : CellValue(c, a, b, d) = Meaning(c, d, b, a)
       \/ /\ \A a, b, d : Operands(gate, a, b, d) = <<a, b, a>>
          /\ \A a, b, d : CellValue(c, a, b, d) = Meaning(c, a, b, a)
  <2>1. gate \in {c, GateName(c)}
    BY <1>19
  <2> QED BY <2>1, MeaningOfOperands
<1>21. in = Operands(gate, fa, fb, fs)
  BY <1>9, <1>19
<1> QED BY <1>16, <1>17, <1>18, <1>20, <1>21, Zenon

\* On every kind of worker a task of a clean gate computes the netlist's value.
LEMMA GateComputes ==
    ASSUME Shape, Sources, ConesMatch, Running, NEW i, Ready(i),
           task[i].g \in CleanGates
    PROVE  /\ CpuResults(i) = {Encode(meaning[OutOf(task[i].g)])}
           /\ CudaResults(i) = {Encode(meaning[OutOf(task[i].g)])}
           /\ ForHoge(i) => HogeResults(i) = {Encode(meaning[OutOf(task[i].g)])}
<1>1. PICK c \in YosysCells, x \in BOOLEAN, y \in BOOLEAN, z \in BOOLEAN :
         /\ Name(i) = GateName(c) /\ (accel = "hoge" => c # "NMUX")
         /\ Values(i)[1] = Encode(x) /\ Values(i)[2] = Encode(y)
         /\ Values(i)[3] = Encode(z)
         /\ meaning[OutOf(task[i].g)] = Meaning(c, x, y, z)
  BY GateOperands
<1>2. PICK v : v = Values(i)
  OBVIOUS
<1>3. CpuResults(i) = {Encode(meaning[OutOf(task[i].g)])}
  BY <1>1, <1>2, TangorCodelet DEF CpuResults
<1>4. CudaResults(i) = {Encode(meaning[OutOf(task[i].g)])}
  BY <1>1, <1>2, TangorCufhe, TangorCufheTotal DEF CudaResults
<1>5. ASSUME ForHoge(i)
      PROVE  HogeResults(i) = {Encode(meaning[OutOf(task[i].g)])}
  <2>1. c \in YosysCells \ {"NOT", "NMUX"}
    <3>1. GateName("NOT") = "NOT"
      BY DEF GateName
    <3> QED BY <1>1, <1>5, <3>1 DEF ForHoge
  <2> QED BY <1>1, <1>2, <2>1, HogeCorrect DEF HogeResults
<1> QED BY <1>3, <1>4, <1>5

\* The result of any task is a ciphertext.
LEMMA ResultsTyped ==
    ASSUME Shape, Running, NEW i, Ready(i)
    PROVE  CpuResults(i) \cup CudaResults(i) \cup HogeResults(i) \subseteq Torus
<1> USE DEF Shape
<1>1. i \in DOMAIN task /\ bc = ParsedBC(circuit) /\ pc \in Late
  BY DEF Ready, Running, Loaded, Late, Ending
<1>2. PICK c \in YosysCells : Name(i) = GateName(c)
  BY <1>1, CellOfTask DEF Name
<1>3. PICK in \in [1..3 -> Slots] : in = task[i].in
  BY <1>1, TaskTypes
<1>4. PICK v : v = Values(i)
  OBVIOUS
<1>5. v[1] \in Torus
  <2>1. content[in[1]] \in Torus
    BY <1>1 DEF Memory
  <2> QED BY <1>3, <1>4, <2>1 DEF Values
<1>6. CpuResults(i) = Codelet(ClHom, GateName(c), v)
  BY <1>2, <1>4 DEF CpuResults
<1>7. CudaResults(i) \subseteq Torus
  BY ResultTypes DEF CudaResults
<1>8. HogeResults(i) \subseteq Torus
  BY HogeTypes DEF HogeResults
<1> QED BY <1>5, <1>6, <1>7, <1>8, CodeletTypes

\* Execution on the three kinds of workers.
Executed(i) == executeOnCpu(i) \/ executeOnGpu(i) \/ executeOnHoge(i)
Results(i) ==
    CpuResults(i) \cup CudaResults(i) \cup (IF ForHoge(i) THEN HogeResults(i) ELSE {})

\* The execution of a task, on any worker, preserves the invariant.
LEMMA ExecuteStep ==
    ASSUME TangorInv, NEW i \in DOMAIN task, Executed(i)
    PROVE  TangorInv'
<1> USE DEF TangorInv, Shape
<1>1. /\ Running /\ Ready(i) /\ done' = done \cup {i}
      /\ UNCHANGED <<circuit, accel, meaning, bc, layout, pc, next, task, dropped,
                     unfetched, failures, tried, hogeReady, cudaWorkers, cufhepp>>
  BY DEF Executed, executeOnCpu, executeOnGpu, executeOnHoge, ForHoge, StoreInRam,
         input, keys, faults
<1>2. Fixed
  BY <1>1 DEF Fixed
<1>3. pc \in {"submit", "wait"}
  BY <1>1 DEF Running, Ready, Waited, Ending
<1>4. pc \in Late /\ pc' \in Late /\ bc = ParsedBC(circuit)
  BY <1>1, <1>3 DEF Late, Loaded
<1>5. Slots' = Slots /\ OutSlots' = OutSlots /\ (\A s : NetAt(s)' = NetAt(s))
      /\ \A g : OutOf(g)' = OutOf(g)
  BY <1>2, Handles
<1>6. PICK o \in Slots : o = task[i].out
  BY TaskTypes
<1>7. Ins(task[i]) \subseteq Slots
  <2>1. task[i].in \in [1..3 -> Slots]
    BY TaskTypes
  <2> QED BY <2>1 DEF Ins, Elems
<1>8. PICK p \in Results(i) : content' = [content EXCEPT ![o] = p]
  BY <1>6 DEF Executed, executeOnCpu, executeOnGpu, executeOnHoge, StoreInRam, Results
<1>9. p \in Torus
  BY <1>1, ResultsTyped DEF Results
<1>10. /\ DOMAIN ram = Slots /\ DOMAIN content = Slots /\ synced \subseteq Slots
       /\ \A s \in Slots : ram[s] \in Torus /\ content[s] \in Torus
  BY <1>4 DEF Memory
<1>11. /\ DOMAIN content' = Slots /\ content'[o] = p
       /\ \A s \in Slots : s # o => content'[s] = content[s]
  BY <1>8, <1>10
<1>12. \A s \in Slots : content'[s] \in Torus
  BY <1>9, <1>10, <1>11
<1>13. DOMAIN ram' = Slots /\ synced' \subseteq Slots /\ \A s \in Slots : ram'[s] \in Torus
  <2>1. CASE executeOnCpu(i) \/ executeOnHoge(i)
    <3>1. PICK S \in SUBSET Slots :
             /\ ram' = [s \in Slots |-> IF s \in S THEN content'[s] ELSE ram[s]]
             /\ synced' = synced \cup S
      <4>1. Ins(task[i]) \cup {task[i].out} \in SUBSET Slots
        BY <1>6, <1>7
      <4> QED BY <2>1, <4>1 DEF executeOnCpu, executeOnHoge, StoreInRam
    <3> QED BY <1>10, <1>12, <3>1
  <2>2. CASE executeOnGpu(i)
    BY <1>10, <2>2 DEF executeOnGpu
  <2> QED BY <2>1, <2>2 DEF Executed
<1>14. Memory'
  BY <1>5, <1>11, <1>12, <1>13 DEF Memory
<1>15. /\ o[1] \notin {"in", "dffq"}
       /\ \A j \in DOMAIN task : task[j].out = o => j = i
  BY <1>4, <1>6, TaskOutputs
<1>16. Sources'
  <2>1. \A s \in Slots : s[1] \in {"in", "dffq"} => content'[s] = content[s]
    BY <1>11, <1>15
  <2> QED BY <1>1, <1>4, <1>5, <2>1 DEF Sources
<1>17. Loaded' /\ Untouched'
  BY <1>1, <1>2, <1>4, LoadedStays DEF Loaded
<1>18. Graph'
  <2>1. done' \subseteq DOMAIN task
    BY <1>1 DEF Graph
  <2> QED BY <1>1, <1>2, <2>1, GraphStays DEF Graph
<1>19. Waited' /\ Exported'
  BY <1>1, <1>3 DEF Waited, Exported, Ending
<1>20. Keyed'
  BY <1>1, Zenon DEF Keyed, Guarded
<1>21. ConesMatch'
  <2>1. CleanGates' \subseteq CleanGates
    BY <1>1, <1>2, CleanShrinks
  <2>2. ASSUME NEW j \in done', task[j].g \in CleanGates
        PROVE  content'[task[j].out] = Encode(meaning[OutOf(task[j].g)])
    <3>1. CASE j = i
      <4>1. p = Encode(meaning[OutOf(task[i].g)])
        BY <1>1, <1>8, <2>2, <3>1, GateComputes DEF Results
      <4> QED BY <1>6, <1>11, <3>1, <4>1
    <3>2. CASE j # i
      <4>1. j \in done /\ j \in DOMAIN task
        BY <1>1, <3>2 DEF Graph
      <4>2. task[j].out \in Slots /\ task[j].out # o
        BY <1>15, <3>2, <4>1, TaskTypes
      <4>3. content[task[j].out] = Encode(meaning[OutOf(task[j].g)])
        BY <2>2, <4>1 DEF ConesMatch
      <4> QED BY <1>11, <4>2, <4>3
    <3> QED BY <3>1, <3>2
  <2>3. task' = task /\ meaning' = meaning
    BY <1>1
  <2> QED BY <1>5, <2>1, <2>2, <2>3 DEF ConesMatch
<1> QED BY <1>14, <1>16, <1>17, <1>18, <1>19, <1>20, <1>21

\* So does a failure of HOGE.
LEMMA HogeFailsStep ==
    ASSUME TangorInv, NEW i \in DOMAIN task, hogeFails(i)
    PROVE  TangorInv'
<1> USE DEF TangorInv, Shape
<1>1. /\ Running /\ Ready(i) /\ pc' = "aborted"
      /\ UNCHANGED <<circuit, accel, meaning, bc, layout, next, task, done, dropped,
                     unfetched, failures, tried, hogeReady, cudaWorkers, cufhepp,
                     ram, content, synced>>
  BY DEF hogeFails, ForHoge, input, keys, data, queue, faults
<1>2. Fixed
  BY <1>1 DEF Fixed
<1>3. pc \in {"submit", "wait"}
  BY <1>1 DEF Running, Ready, Waited, Ending
<1>4. pc \in Late /\ pc' \in Late
  BY <1>1, <1>3 DEF Late
<1>5. Loaded' /\ Untouched'
  BY <1>1, <1>2, <1>4, LoadedStays DEF Loaded
<1>6. Memory' /\ Sources'
  BY <1>1, <1>2, <1>4, MemoryStays
<1>7. Graph'
  BY <1>1, <1>2, <1>3, GraphStays DEF Graph
<1>8. Waited' /\ Exported'
  BY <1>1 DEF Waited, Exported, Ending
<1>9. Keyed'
  BY <1>1, <1>3, Zenon DEF Keyed, Guarded
<1>10. ConesMatch'
  BY <1>1, <1>2, ConesStay
<1> QED BY <1>5, <1>6, <1>7, <1>8, <1>9, <1>10

----------------------------------------------------------------------------
(* The theorems *)

\* Steps that change nothing.
LEMMA StutterStep == TangorInv /\ UNCHANGED vars => TangorInv'
<1> SUFFICES ASSUME TangorInv, UNCHANGED vars PROVE TangorInv'
  OBVIOUS
<1>1. /\ UNCHANGED <<circuit, accel, meaning, pc, cudaWorkers, cufhepp, tried, hogeReady,
                     bc, layout, next, ram, content, synced, task, done, dropped,
                     unfetched, failures, result>>
  BY DEF vars, input, keys, data, queue, faults
<1> USE DEF TangorInv, Shape
<1>2. Fixed
  BY <1>1 DEF Fixed
<1>3. Slots' = Slots /\ OutSlots' = OutSlots /\ \A s : NetAt(s)' = NetAt(s)
  BY <1>2, Handles
<1>4. Loaded'
  BY <1>1 DEF Loaded
<1>5. Untouched' /\ Waited'
  BY <1>1 DEF Untouched, Waited
<1>6. Keyed'
  BY <1>1, Zenon DEF Keyed, Guarded
<1>7. Memory' /\ Sources' /\ Exported'
  BY <1>1, <1>3 DEF Memory, Sources, Exported
<1>8. Graph'
  BY <1>1, <1>2, GraphStays DEF Graph
<1>9. ConesMatch'
  BY <1>1, <1>2, ConesStay
<1> QED BY <1>4, <1>5, <1>6, <1>7, <1>8, <1>9

\* Every reachable state satisfies the invariant: what main has parsed, submitted,
\* waited for and exported, and what the executed tasks have computed.
THEOREM TangorInvariant == Spec => []TangorInv
<1>1. TangorInv /\ [Next]_vars => TangorInv'
  <2> SUFFICES ASSUME TangorInv, [Next]_vars PROVE TangorInv'
    OBVIOUS
  <2>1. CASE readFiles \/ parse \/ initStarpu \/ CufheppInitialize \/ HOGEinit
    BY <2>1, EarlyStep
  <2>2. CASE registerData
    BY <2>2, RegisterStep
  <2>3. CASE submitGate
    BY <2>3, SubmitStep
  <2>4. CASE \/ submitted \/ starpu_task_wait_for_all \/ writeResult
             \/ CufheppCleanUp \/ starpu_shutdown
    BY <2>4, EndingStep
  <2>5. CASE starpu_sync_outputs_to_host
    BY <2>5, SyncStep
  <2>6. CASE \E i \in DOMAIN task : Execute(i)
    BY <2>6, ExecuteStep, HogeFailsStep DEF Execute, Executed
  <2>7. CASE UNCHANGED vars
    BY <2>7, StutterStep
  <2> QED BY <2>1, <2>2, <2>3, <2>4, <2>5, <2>6, <2>7 DEF Next, MainStep, Ended
<1> QED BY <1>1, InitTangorInv, PTL DEF Spec

\* Type correctness of the native program.
THEOREM TangorTypeCorrect == Spec => []TypeOK
<1>1. TangorInv => TypeOK
  BY ShapeTypes DEF TangorInv
<1> QED BY <1>1, TangorInvariant, PTL

\* Every executed gate with a clean cone holds the netlist's value, for every
\* netlist, build, order of execution and choice of workers; in HOGE builds a clean
\* cone has no NMUX.
THEOREM ConesAreComputed == Spec => []ConesMatch
<1>1. TangorInv => ConesMatch
  BY DEF TangorInv
<1> QED BY <1>1, TangorInvariant, PTL

\* No key is missing or released while a task is outstanding.
THEOREM KeysOutliveTasks == Spec => []KeysDuringTasks
<1>1. TangorInv => KeysDuringTasks
  <2> SUFFICES ASSUME TangorInv, done # DOMAIN task
               PROVE  (cudaWorkers => cufhepp) /\ (accel = "hoge" => hogeReady)
    BY DEF KeysDuringTasks
  <2>1. pc \notin Early
    <3>1. DOMAIN <<>> = {}
      OBVIOUS
    <3> QED BY <3>1 DEF TangorInv, Shape, Untouched
  <2>2. pc \in {"submit", "wait", "undefined", "aborted"}
    BY <2>1 DEF TangorInv, Shape, Loaded, Waited, Late
  <2> QED BY <2>2 DEF TangorInv, Shape, Keyed, Guarded
<1> QED BY <1>1, TangorInvariant, PTL

\* The results follow from the invariant.
LEMMA ResultsHold == TangorInv => ResultsMatch
<1> SUFFICES ASSUME TangorInv, pc = "done", NEW k \in DOMAIN bc.output_vector,
                    Computed(k), <<"out", k>> \notin unfetched
             PROVE  result[k] = Encode(meaning[bc.output_vector[k]])
  BY DEF ResultsMatch
<1> USE DEF TangorInv, Shape
<1>1. PICK b : b = bc.output_vector[k]
  OBVIOUS
<1>2. k = First(bc.output_vector, b) /\ b \notin Elems(bc.DFF_D_vector)
  BY <1>1 DEF Computed
<1>3. PICK g \in CleanGates : OutOf(g) = b
  BY <1>1 DEF Computed
<1>4. bc = ParsedBC(circuit) /\ Parsed /\ WellFormed(circuit)
  BY LoadedIsParsed DEF Loaded
<1>5. g \in DOMAIN bc.gate_vector /\ g \notin dropped
  BY DEF CleanGates, GateIndices
<1>6. DOMAIN bc.gate_vector = 1..next
  <2>1. next = Len(bc.gate_vector)
    BY DEF Waited, Ending
  <2> QED BY <1>4, <2>1, ParsedVectors DEF IsVector
<1>7. PICK i \in DOMAIN task : task[i].g = g
  BY <1>5, <1>6 DEF Graph
<1>8. i \in done
  BY <1>7 DEF Waited, Ending
<1>9. content[task[i].out] = Encode(meaning[b])
  BY <1>3, <1>7, <1>8 DEF ConesMatch
<1>10. task[i].out = Found(b) /\ Found(b) # Wild
  <2>1. task[i].out = Found(b)
    BY <1>3, <1>7 DEF Graph, Inserts, OutOf
  <2> QED BY <1>7, <2>1, TaskTypes, WildIsNoSlot
<1>11. b \notin Elems(bc.input_vector) \cup Elems(bc.DFF_Q_vector)
  <2>1. Elems(bc.input_vector) = Elems(circuit.ins)
    BY <1>4, ParsedPorts
  <2>2. b \notin Elems(circuit.ins) \cup Elems(bc.DFF_Q_vector)
    BY <1>3, <1>4, <1>5, ParsedGates DEF OutOf
  <2> QED BY <2>1, <2>2
<1>12. b \in Elems(bc.output_vector)
  BY <1>1 DEF Elems
<1>13. task[i].out = <<"out", k>>
  BY <1>2, <1>4, <1>10, <1>11, <1>12, FoundOutput
<1>14. <<"out", k>> \in OutSlots \ unfetched
  BY DEF OutSlots
<1>15. result[k] = ram[<<"out", k>>] /\ ram[<<"out", k>>] = content[<<"out", k>>]
  BY <1>14 DEF Exported
<1> QED BY <1>1, <1>9, <1>13, <1>15

\* result.data holds the netlist's value at the position of each output that is
\* computed, in HOGE builds without an NMUX, and fetched.
THEOREM ResultsAreExported == Spec => []ResultsMatch
BY ResultsHold, TangorInvariant, PTL

----------------------------------------------------------------------------
(* Netlists of which every output is right *)

\* All gates have a codelet, which in HOGE builds is not that of NMUX, and follow
\* their drivers, and every output is driven by a gate, feeds no flip-flop and is
\* listed once.
Orderly(c) ==
    LET b == ParsedBC(c)
    IN  /\ \A g \in DOMAIN b.gate_vector :
              /\ Inserted(b.gate_vector[g].name)
              /\ "hoge" \in Accelerators => b.gate_vector[g].name # "NMUX"
              /\ \A e \in Elems(b.gate_vector[g].in) :
                    \/ e \in Elems(b.input_vector) \cup Elems(b.DFF_Q_vector)
                    \/ \E h \in DOMAIN b.gate_vector :
                          h < g /\ b.gate_vector[h].out = e
        /\ \A k \in DOMAIN b.output_vector :
              /\ k = First(b.output_vector, b.output_vector[k])
              /\ b.output_vector[k] \notin Elems(b.DFF_D_vector)
              /\ \E g \in DOMAIN b.gate_vector :
                    b.gate_vector[g].out = b.output_vector[k]

\* What is dropped or not fetched is due to a failure or to a missing codelet.
Blamed ==
    /\ \A g \in dropped : Inserted(bc.gate_vector[g].name) => failures # 0
    /\ unfetched # {} => failures # 0

\* Failures are counted.
LEMMA BlamedStep ==
    ASSUME TangorInv, Blamed, [Next]_vars
    PROVE  Blamed'
<1> USE DEF TangorInv, Shape
<1>1. failures \in Nat
  BY TangorAssumption DEF Loaded
<1>2. CASE UNCHANGED <<dropped, unfetched, failures>> /\ (bc' = bc \/ dropped = {})
  BY <1>2 DEF Blamed
<1>3. CASE parse
  <2>1. dropped = {} /\ UNCHANGED <<dropped, unfetched, failures>>
    BY <1>3 DEF parse, Goto, faults, Untouched, Early
  <2> QED BY <1>2, <2>1
<1>4. CASE submitGate
  <2>1. Parsed
    BY LoadedIsParsed
  <2>2. /\ bc' = bc /\ unfetched' = unfetched
        /\ \/ /\ dropped' = dropped \cup {next + 1}
              /\ \/ failures' = failures /\ ~Inserted(bc.gate_vector[next + 1].name)
                 \/ failures' = failures + 1
           \/ UNCHANGED <<dropped, failures>>
    BY <1>4, <2>1, SubmitCases DEF Fixed
  <2> QED BY <1>1, <2>2 DEF Blamed
<1>5. CASE starpu_sync_outputs_to_host
  <2>1. PICK F \in SUBSET OutSlots : failures' = failures + Cardinality(F) /\ unfetched' = F
    BY <1>5 DEF starpu_sync_outputs_to_host
  <2>2. bc' = bc /\ dropped' = dropped
    BY <1>5 DEF starpu_sync_outputs_to_host
  <2>3. IsFiniteSet(F)
    <3>1. IsFiniteSet(OutSlots)
      BY FiniteOutputs
    <3> QED BY <3>1, FS_Subset, Zenon
  <2>4. Cardinality(F) \in Nat /\ (F # {} => Cardinality(F) # 0)
    BY <2>3, FS_CardinalityType, FS_EmptySet
  <2>5. failures' # 0 \/ (failures' = failures /\ F = {})
    BY <1>1, <2>1, <2>4
  <2> QED BY <1>1, <2>1, <2>2, <2>4, <2>5 DEF Blamed
<1>6. CASE \/ readFiles \/ initStarpu \/ CufheppInitialize \/ HOGEinit \/ registerData
           \/ submitted \/ starpu_task_wait_for_all \/ writeResult
           \/ CufheppCleanUp \/ starpu_shutdown
           \/ (\E i \in DOMAIN task : Execute(i)) \/ UNCHANGED vars
  <2>1. UNCHANGED <<bc, faults>>
    BY <1>6 DEF readFiles, initStarpu, CufheppInitialize, HOGEinit, registerData,
                submitted, starpu_task_wait_for_all, writeResult, CufheppCleanUp,
                starpu_shutdown, Execute, executeOnCpu, executeOnGpu, executeOnHoge,
                hogeFails, StoreInRam, vars
  <2> QED BY <1>2, <2>1 DEF faults
<1> QED BY <1>3, <1>4, <1>5, <1>6 DEF Next, MainStep, Ended

\* On netlists whose cells are listed after their drivers, with every output driven
\* by a gate and used for nothing else, and without NMUX if the build may be HOGE's,
\* the whole of result.data is right unless a StarPU call failed.
THEOREM OrderlyNetlists ==
    ASSUME \A c \in Circuits : Orderly(c)
    PROVE  Spec => []EveryOutput
<1>1. Init => Blamed
  BY DEF Init, Blamed
<1>2. TangorInv /\ Blamed /\ [Next]_vars => Blamed'
  BY BlamedStep
<1>3. TangorInv /\ Blamed => EveryOutput
  <2> SUFFICES ASSUME TangorInv, Blamed, pc = "done", failures = 0,
                      NEW k \in DOMAIN bc.output_vector
               PROVE  Decode(result[k]) = meaning[bc.output_vector[k]]
    BY DEF EveryOutput
  <2>1. /\ circuit \in Circuits /\ accel \in Accelerators
        /\ bc = ParsedBC(circuit) /\ WellFormed(circuit)
    BY LoadedIsParsed DEF TangorInv, Shape, Loaded
  <2>2. /\ \A g \in GateIndices :
              /\ Inserted(bc.gate_vector[g].name) /\ Sound(g)
              /\ \A e \in InOf(g) :
                    \/ e \in Elems(bc.input_vector) \cup Elems(bc.DFF_Q_vector)
                    \/ \E h \in GateIndices : h < g /\ OutOf(h) = e
        /\ k = First(bc.output_vector, bc.output_vector[k])
        /\ bc.output_vector[k] \notin Elems(bc.DFF_D_vector)
    BY <2>1 DEF Orderly, GateIndices, InOf, OutOf, Sound
  <2>3. PICK g \in GateIndices : OutOf(g) = bc.output_vector[k]
    BY <2>1 DEF Orderly, GateIndices, OutOf
  <2>4. dropped = {} /\ unfetched = {}
    <3>1. dropped \subseteq GateIndices
      <4>1. Parsed
        BY LoadedIsParsed DEF TangorInv, Shape
      <4>2. Len(bc.gate_vector) \in Nat /\ GateIndices = 1..Len(bc.gate_vector)
        BY <4>1, ParsedVectors DEF IsVector, GateIndices
      <4>3. next \in 0..Len(bc.gate_vector) /\ dropped \subseteq 1..next
        BY DEF TangorInv, Shape, Graph
      <4>4. 1..next \subseteq GateIndices
        BY <4>2, <4>3
      <4> QED BY <4>3, <4>4
    <3> QED BY <2>2, <3>1 DEF Blamed
  <2>5. g \in CleanGates
    <3>1. GateIndices \in SUBSET {h \in GateIndices \ dropped : Sound(h)}
      BY <2>2, <2>4
    <3> QED BY <2>2, <3>1 DEF CleanGates
  <2>6. Computed(k)
    BY <2>2, <2>3, <2>5 DEF Computed
  <2>7. result[k] = Encode(meaning[bc.output_vector[k]])
    BY <2>4, <2>6, ResultsHold DEF ResultsMatch
  <2>8. meaning[bc.output_vector[k]] \in BOOLEAN
    <3>1. meaning \in [NetsOf(circuit) \cup Consts -> BOOLEAN]
      BY DEF TangorInv, Shape, Loaded, Meanings
    <3>2. bc.output_vector[k] \in Elems(circuit.outs)
      <4>1. Elems(bc.output_vector) = Elems(circuit.outs)
        BY <2>1, ParsedPorts
      <4>2. bc.output_vector[k] \in Elems(bc.output_vector)
        BY DEF Elems
      <4> QED BY <4>1, <4>2
    <3> QED BY <3>1, <3>2 DEF NetsOf
  <2>9. Decode(Encode(TRUE)) = TRUE /\ Decode(Encode(FALSE)) = FALSE
    BY NegativeModulo DEF Decode, Encode, Mu
  <2> QED BY <2>7, <2>8, <2>9, Zenon
<1> QED BY <1>1, <1>2, <1>3, TangorInvariant, PTL DEF Spec
============================================================================
