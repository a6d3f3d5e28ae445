# Tangor in TLA+

Tangor evaluates encrypted circuits: every homomorphic gate is a StarPU task
that runs on a CPU, on a GPU (through cuFHEpp) or on the HOGE FPGA. This
directory holds a TLA+ model of the parts that carry its logic, TLC
configurations that check them on small instances, and TLAPS proofs of the main
results for every size.

## Inventory

| Part | Code | State | Operations | Interaction |
|---|---|---|---|---|
| KVSP backend, data path | `src/iyokan-starpu-codelets.cpp`, `include/iyokan-starpu-codelets.hpp` | two handle registries, thread-local capture, a State per task | gate, CMUX and MUXwoSE calls, capture scopes, completion tokens, host-write marks, shutdown | called by many Iyokan threads; StarPU workers run codelets and call `taskCompleted` |
| KVSP backend, lifecycle | same, and `src/iyokan-cufhepp-starpu.cu` | worker configuration, `once_flag`, StarPU status, evaluation key, GPU keys, exit handlers | configure, first call, key check, shutdown, exit | `backendMutex`, `call_once`, `atexit` |
| Iyokan shims | `include/iyokan-starpu-offload.hpp` | none | macros that turn TFHEpp gate names into backend calls | compiled into Iyokan |
| Gate codelets | `src/wrappedcodelets.cpp`, `include/wrappedcodelets.hpp`, `src/cufhepp_starpu.cu`, tables of the KVSP backend | evaluation key | one codelet per gate, with CPU and CUDA implementations | chosen by the graph builder, or by the KVSP call |
| HOGE wrapper | `include/hogewrapper.hpp`, `src/hogewrapper.cpp` | global buffers, kernel arguments | `HOGEwrap`, `HOGEMUXwrap`, `HOGEinit` | worker 0 calls it from the CPU codelet |
| Netlist parser | `src/yosys-json-parser.cpp` | port, wire, flip-flop and gate vectors | one pass over the JSON, then sorting | feeds the graph builder; may throw |
| Graph builder | `src/starpu_build_graph.cpp` | ciphertext vectors and handles | lookup, registration, submission in cell order, output synchronisation | inserts StarPU tasks, which run meanwhile |
| Main program | `src/tangor.cpp` | files, GPU keys | read, parse, start StarPU and the accelerator, build, wait, synchronise, write, clean up | runs once |
| Plot script, xcl2, tests | `python/`, `thirdparties/`, `test/` | | | not part of the evaluator |

What is hard here: gates complete on any worker in any order while the frontend
keeps submitting; a value has copies in several memories and the host writes
some of them itself; one frontend task stands for several StarPU tasks and is
finished when one flag is set; blocking calls spin on that flag; keys are checked
at submission and used at execution; start, shutdown and exit handlers race with
calls; the accelerator has one set of buffers for the whole process; the native
program relies on net numbers and on the order of cells to connect gates, and
ignores StarPU's error codes. The list,
line by line, is `hazards` in `PROJECT.json`.

What makes each part correct:

- data path: a codelet reads the values its operands have in submission order,
  and what a call promises to the host is in main memory; calls return and tasks
  finish;
- lifecycle: a key is present wherever a gate executes, it is the gate's own, an
  accepted configuration is the one in force, one key per process, exit completes;
- codelets: a wire encrypts what the netlist says, whichever worker computed it;
- native program: a gate whose cone was inserted in order computes the netlist's
  value, every output that such a gate drives arrives in `result.data`, keys are in
  place while tasks run, and the evaluation ends.

## Modules

| Module | Content |
|---|---|
| `IyokanBackend` | data path of the KVSP backend, with its properties and inductive invariant |
| `IyokanBackendProofs` | type correctness, and the shape of records in use |
| `IyokanCoherenceProofs` | coherence: the invariant, `CoherentReads`, `SynchronizedOutputs` |
| `Dataflow` | abstract contract of the data path: operations take effect in submission order |
| `IyokanDataflow` | the refinement mapping from `IyokanBackend` to `Dataflow` |
| `IyokanDataflowProofs` | the backend implements `Dataflow` |
| `IyokanLifecycle` | lifecycle of the KVSP backend |
| `IyokanLifecycleProofs` | inductive invariant of the lifecycle, keys and configuration |
| `TFHEGates` | ciphertexts, homomorphic operations, cells, and the tables between them |
| `TFHEGatesProofs` | lemmas: each table entry computes its cell |
| `GateWorkers` | from a Yosys cell to a ciphertext on a CPU, GPU or HOGE worker (uses `TFHEGates`) |
| `GateWorkersProofs` | type correctness and `GateResults` for any number of wires and workers |
| `Tangor` | the native program: parser, graph builder, main and StarPU's workers (uses `TFHEGates`) |
| `TangorParserProofs` | lemmas: what the parser produces and what the lookup of a net yields |
| `TangorProofs` | inductive invariant of the native program and the theorems that follow from it |
| `MC...` | symmetry sets and constants for TLC |

Operators introduced by a comment *Defect:* are plausible bugs of the
definition below them. No specification uses them; substituted for that
definition each makes a property fail, which shows what the property is
sensitive to.

### IyokanBackend

A ciphertext is its *version*, the number of the task or host write that
produced it. `ram[a]` is main memory at an address; a handle `<<a, k>>` is the
k-th registration of that address with StarPU, `dev[h]` its buffers on the GPUs
and `valid[h]` the memory nodes StarPU considers valid. The two registries of the
code have disjoint addresses and are one function, `registry`. `task`, `st` and
`node` are StarPU's queue. Per thread, `pc`, `req`, `await`, `acq` and `marking`
hold the progress of a call, and `captureActive` and `capturedTask` the
thread-local capture.

Correspondence: `Prepare` is a call up to `starpu_task_insert` (registry lookups,
each under its mutex; entries only ever appear, so the lookups of one call are
one step), `submitAsync` the insertion in all three submit functions and what
follows it, `waitForTask` the spin loop and the start of `synchronizeOutput`,
`synchronizeOutput` its acquire and release, `markHostWrite` and
`acquireHostWrite` the three mark functions, `taskCompleted` the callback. Every
StarPU call that can fail has a failing variant which throws. `Ready`, `Fetch`,
`Start` and `Granted` are StarPU: accesses to one handle are ordered by
submission, writers exclusively, operands are copied from a valid replica, a
writer leaves one valid replica.

`seqval[a]` (ghost) is the version `a` would have if the submitted operations ran
one after the other; `exp`, in a task, is a snapshot of it; `avail` is the set of
values the frontend may touch on the host; `lastCall` is the frontend's own idea
of the last task of a capture, against which the captured task is compared.

Assumed of Iyokan, which is outside the repository: a gate's output is none of
its inputs (a circuit wire has one driver and no gate feeds itself; the CMUX,
for which the code has in-place variants, is exempt); a CPU-only task writes
values it may access, when no gate on them is pending, and marks them before
anything else uses them; a thread that got an exception stops; shutdown is
called when no call is in progress.

### Dataflow and IyokanDataflow

`Dataflow` says what the frontend may rely on and knows no handles, replicas,
queues or threads: `Submit` fixes which versions an operation is to read (`plan`),
`Start` lets it see exactly these once they are computed (`seen`), `Finish` ends
it, `Publish` shows the host the last version of a value, and `HostWrite` is an
operation of the host itself. `plan` and `seen` are partial functions, defined
on the operations that are unfinished and running. `IyokanDataflow` maps the backend to it. The
submission order is taken from `nops`, `seqval` and `exp`; what an operation and
the host see is taken from the replicas themselves: `Observed` reads the buffers
of the node a codelet runs on, `HostView` main memory at the addresses the
frontend may touch. So `ImplementsDataflow` fails as soon as a codelet or the
host reads another version than the order of submission gives, sees a value that
may still change, or an operation starts before those it depends on. Registration,
transfers, capture, polling, callbacks, failing calls and shutdown are stuttering
steps. A gate's reads are a plan of the abstract operation, so the mapping also
covers the in-place CMUX, whose output is one of its reads.

### IyokanLifecycle

`once`, `configured`, `conf`, `starpuInitStatus`, `starpuRunning`,
`currentEvalKey`, `cufhepp` and `handlers` are the process state, `handlers` the
`atexit` list. Reading and writing the configuration take two steps each, since
the readers do not hold the mutex the writer holds.

A call goes through `call_once` (`enterOnce`, `starpuInit`), the status check
(`ensureStarpuRuntime`), the critical section of `ensureStarpu`, `lookUpHandles`,
`insertTask` and, if it is not captured, `waitForTask`. After `ensureStarpu` it holds
no lock. Shutdown takes `backendMutex` and goes through the steps of the code one by
one: `waitForAll`, `unregisterHandles`, `cleanupIyokanCufhepp`, `dropKey`,
`stopStarpu`. So a thread past `ensureStarpu` may insert a task at any point of a
shutdown, and workers may start it until StarPU has stopped. What may then go wrong
is part of the model:

- `stale` holds the threads that keep handles which were unregistered under them;
  `useStaleHandle` is the insertion or the acquire with such a handle;
- a gate that runs where its key is not (`Served` is false) may dereference a null
  pointer or freed device memory instead of ending;
- both lead to `undefined`, about which nothing is claimed;
- a task that is still queued, or inserted, when StarPU has stopped is never executed,
  and a blocking call waits for it for ever.

`Discipline` says which rules the environment keeps: `alone` (configure while no call
is in progress, as the header asks), `drain` (exit when the tasks are done and no
thread is in a call, and call nothing afterwards), `stop` (shut down when no thread is
in a call, and call nothing afterwards), `probe` (`cudaGetDeviceCount` finds the devices
StarPU has workers on). `evaluated` (ghost) is the set of keys that workers have run
gates with: `currentEvalKey` on a CPU, the key on the device on a GPU.

### TFHEGates and GateWorkers

A ciphertext is its phase on a torus of eight steps with message `Mu = 1`, so
that bootstrapping, sums and negation are computed as on the real torus; noise
is left out, and a bootstrapping of a phase on the decision boundary gives either
result. `TFHEGates` has no state: a cell goes through `GateName` (parser),
`Operands` (graph builder) and the tables `ClHom`, `IyokanCodelets`,
`CufheppWraps`, `IyokanCufhepp`, and for packed words `CmuxCodelets` and
`IyokanCufheppCMUX`. cuFHEpp's functions, TFHEpp's operations and the meaning of
Yosys' cells are external and taken by their names; a cuFHEpp function is only
known on encryptions of bits and yields any phase on other operands. `HogeCodelet`
is what HOGE's wrappers compute as a whole: `ScaleIndex` and `OffsetIndex` encode the
template arguments, `HogeKernel` decodes them, `HogeSum` joins the products of a
multiplexer.

`GateWorkers` executes the tasks of one of four builds on several workers. The
HOGE wrappers are step by step: `HogeLoad`, `HogeRun`, `HogeStore`, and for
multiplexers `HogeSecond`, `HogeRun`, `HogeAdd`, on the shared buffers and
arguments; the kernel's decoding of its arguments is external. `StartCmux` is the
choice of the CMUX codelet by the addresses of the operands; the two branches of
a CMUX are taken to be different words. `bit` (ghost) is what the netlist says.

### Tangor

`circuit` is a netlist as Yosys writes it: net numbers of the ports, and cells in
the order in which the JSON library iterates over them. `bc` is what `ParsedBC`
makes of it. A ciphertext slot is `<<vector, position>>`, for instance `<<"out", 2>>`
for `cipherout[1]` and its handle; `ram` is main memory, `content` what the valid
replicas of the slot's handle hold, `synced` the slots whose replica in main
memory is valid. `meaning` (ghost) is a solution of the netlist's equations, from
which the inputs in `cloud.data` are encrypted.

`pc` follows `main`: `readFiles`, `parse`, `initStarpu`, `CufheppInitialize` or
`HOGEinit`, `registerData`, one `submitGate` per round of the submission loop,
`starpu_task_wait_for_all`, `starpu_sync_outputs_to_host`, `writeResult`,
`CufheppCleanUp`, `starpu_shutdown`. Each exit by exception, `exit` or status 1
before the evaluation goes to `failed`; once gates run, a failing OpenCL call of a
HOGE worker (`hogeFails`) or an exception of the archive that writes `result.data`
(`writeResult`) goes to `aborted`. `executeOnCpu`, `executeOnGpu` and `executeOnHoge`
run at any time in between, for tasks whose conflicting predecessors are done. Each
has the table of its own implementation: `CpuResults`, `CudaResults` and, for every
gate but NOT that worker 0 of a HOGE build takes, `HogeResults`, with the NMUX as the
accelerator computes it. A result computed on a GPU stays there.

`search_pointer` returns the set of slots the lookup may yield. The search for a
flip-flop's D net goes from the begin of one vector to the end of another, which
is undefined when there are flip-flops; the model lets the arrays lie either way
(`layout`) and the search find, miss, or produce a wild handle. Using a wild
handle, or an iterator that was never set, ends in `undefined`, about which
nothing is claimed. A cell without a codelet is reported and left out
(`dropped`), like one whose insertion fails, since the status is not looked at.

Sorting is defined by a permutation of the positions that puts the net numbers in
ascending order, the sorting of cells by kind by the ascending enumeration of
their positions; both are `CHOOSE`s of a sequence whose existence is proved.

Assumed: the netlist is flattened (one module), it is what Yosys writes
(`Netlists`, and `OneDriver`: the bits of the input ports are nets of their own,
and a net has one driver), the client writes the inputs in
the order of declaration, which is the order of the net numbers, and cuFHEpp finds
the devices on which StarPU has started CUDA workers.

## Runs

| Run | Shows | Result |
|---|---|---|
| `backend_gates` | one thread, two wires, two GPUs, 3 operations, blocking and captured calls, host writes, shutdown: `TypeOK`, `SynchronizedOutputs`, `ImplementsDataflow` | holds, 1.1 M states |
| `backend_ram` | CMUX in place and not, on CPU and GPU, 3 operations: `CoherentReads` | holds, 3.1 M |
| `backend_threads` | two threads, one failing StarPU call, gates, CMUX and MUXwoSE: `CoherenceInv` | holds, 0.5 M |
| `backend_live` | `CallsReturn`, `TasksFinish` with two threads and a failure | holds, 0.3 M |
| `lifecycle_keys` | two threads, two keys, a start that may fail, all rules of `Discipline`: `TypeOK`, `KeysLive`, `ConfigurationApplied` | holds, 37 k |
| `lifecycle_live` | no rule of `Discipline`, blocking and captured calls, two threads, two keys: `OneKeyPerProcess`, `CallsReturn`, `ExitCompletes` | holds, 134 k |
| `lifecycle_exit` | no `drain`: `GpuKeysOutliveTasks` | violated |
| `gates_builds` | Tangor's and the KVSP tables on CPU and CUDA, the CMUX variants, and HOGE (all cells but NMUX) with a CPU beside it: `TypeOK`, `GateResults` | holds, 0.6 M |
| `gates_hoge_nmux` | NMUX on the accelerator: `GateResults` | violated |
| `tangor_circuits` | 72 netlists in cuFHEpp and HOGE builds on CPU, CUDA and HOGE workers, one failing StarPU call: `TypeOK`, `ConesMatch`, `ResultsMatch`, `KeysDuringTasks`, `Completes` | holds, 429 k |
| `tangor_outputs` | an output that is an input, and a gate listed before its driver: `EveryOutput` | violated |

Bounds. Three operations are what it takes to produce a value on one node, use
or overwrite it on another and read it again; two threads and two operations
cover every pair of calls, with failures. Room for two registrations per address
(one in `backend_ram`, to keep it small) lets a
duplicate handle appear if the registry ever made one. Two tasks suffice in the
lifecycle for one to be queued while another executes, and for each of two threads to
have one in a shutdown; `lifecycle_keys` has three. Four wires give a
multiplexer three different operands, and two workers the concurrency. The
netlists of `tangor_circuits` have up to three gates, which is a driver, a gate
on it and a gate on both, in three orders, over the asymmetric cells and the
multiplexers; adder cells with and without a carry; a register with its D or Q
net as an output; feed-through and repeated outputs; and netlists the parser
refuses. Every assignment of the inputs is an initial state. The theorems
remove these bounds from every safety property; the liveness properties rest on
the instances.

Fairness. `backend_live` assumes that StarPU transfers, starts, completes and
calls back every task that can (its workers loop until shutdown), and that a
thread inside a call keeps running; nothing is assumed of when the frontend
calls, polls or stops. `lifecycle_live` adds strong fairness of threads, that is,
a `std::mutex` that is free again and again is obtained, and that `exit` runs its
handlers; nothing is assumed of when anyone configures, calls, shuts down or exits.
`tangor_circuits` assumes that `main` keeps running and that StarPU's
workers execute some ready task as long as there is one.

Two exceptions are part of the lifecycle's liveness properties, since the code has
them. `CallsReturn` leaves out a blocking call whose StarPU was stopped under it: its
task was inserted after `starpu_task_wait_for_all` had returned, is lost with the queue,
and `waitForTask` spins for ever. `ExitCompletes` leaves out an exit during which other
threads go on to load the GPU keys each time a handler has freed them, and so register a
handler each time. Both leave out a process that has done something undefined.

Deadlock is checked in every run but `lifecycle_live`, where all threads may end up
in such a blocking call. A terminated process stutters explicitly.

### What the violated runs show

- `gates_hoge_nmux`: `HOGEMUXwrap<true>` subtracts the second product inside the
  negation; NMUX of three FALSE inputs decrypts to FALSE. The CPU and CUDA
  implementations are right (`gates_builds`). `GatesComputeCells` proves that NMUX
  is the only cell for which a build goes wrong.
- `lifecycle_exit`: exit handlers run in reverse order, so a process that exits
  with gates in flight frees the GPU keys before it waits for these gates. `GpuKeysStay` proves that
  waiting before `exit` is enough if shutdown does not race with calls either.
- `tangor_outputs`: for `out5 = NOT(NOT(in3))`, `out3 = in3`, with the second NOT
  listed first, `result.data` holds two value-initialised or wrong ciphertexts.
  The gate listed before its driver reads a blank wire, because StarPU follows
  the order of insertion and the builder does not sort; the feed-through output is
  never written, because its net resolves to the input. `ConesMatch` and
  `ResultsMatch` state what does hold: gates whose cone is complete and in order.
  `OrderlyNetlists` proves that all of `result.data` is right when no cell precedes
  its driver, no cell lacks a codelet, HOGE gets no NMUX, and every output is driven
  by a gate, feeds no flip-flop and is listed once.

## Proofs

Every safety property that a passing run checks is a theorem, for every value of
the constants; so is the refinement of `Dataflow`. Each run that is violated has a
theorem with the condition under which its property holds.

| Theorem | States | Under |
|---|---|---|
| `TypeCorrect` | `TypeOK` of `IyokanBackend` | |
| `CoherenceInvariant`, `ReadsAreCoherent`, `OutputsAreSynchronized` | `CoherenceInv`, `CoherentReads`, `SynchronizedOutputs` | |
| `BackendImplementsDataflow` | `ImplementsDataflow` | |
| `LifecycleTypeCorrect` | `TypeOK` of `IyokanLifecycle` | |
| `KeysStayLive`, `GpuKeysStay` | `KeysLive`, `GpuKeysOutliveTasks` | `drain`, `probe`, `stop` |
| `ConfigurationIsApplied` | `ConfigurationApplied` | `alone` |
| `OneKeyIsEvaluated` | `OneKeyPerProcess` | |
| `GateWorkersTypeCorrect` | `TypeOK` of `GateWorkers` | |
| `GatesComputeCells` | `GateResults` | no NMUX on HOGE |
| `TangorTypeCorrect`, `ConesAreComputed`, `ResultsAreExported`, `KeysOutliveTasks` | `TypeOK` of `Tangor`, `ConesMatch`, `ResultsMatch`, `KeysDuringTasks` | (`CleanGates` have no NMUX in a HOGE build) |
| `OrderlyNetlists` | `EveryOutput` | every netlist is `Orderly` |

### Data path

Assumptions: the bounds are natural numbers (`BoundsAssumption`), main memory is
not a GPU (`NodesAssumption`), the kinds of values have different addresses
(`AddrsAssumption`), `None` is not an address (`NoneAssumption`).

`CoherentReads` speaks about tasks that run now, and is not inductive: it needs
to know what every replica holds, relative to writers that have not run yet.
`CoherenceInv` supplies this. Its core is `Holds(h, i, v)`: seen from position
`i` of the submission order, handle `h` has version `v` if `v` is the last
unexecuted writer before `i`, or if there is none and every valid replica
contains `v`. `ReadsHold` states it for the operands of each unexecuted task,
`SequenceHolds` for the end of the queue, which is what the next submission will
record. Around it: `HandlesCurrent` (all handles in use are the registry's, hence
one per address), `RunningExclusive` (what StarPU's dependencies guarantee while
a task runs), `AvailableStable` (what the host may read is valid in main memory
and has no pending writer), `MarkedQuiet` (nothing uses a value between a host
write and its mark) and `TokensShape` (token and last call agree). For a running
reader no writer is pending before it, so `Holds` makes its replica the expected
version; that is `ReadsAreCoherent`. The proof has one lemma per kind of step;
steps that copy a replica or touch no data share a lemma.

The refinement starts from there. Coherence turns what the mapping reads off the
replicas, `Observed` and `HostView`, into functions of the submission order
(`ObservedPlanned`, `HostViewIsLast`), so a transfer or a registration, which
changes the replicas, changes neither. One lemma per abstract step follows:
`submitAsync` is `Submit`, the start of a codelet `Start`, its end `Finish`,
`synchronizeOutput` is `Publish` and a write by the host is `HostWrite`; the rest
stutters. That an operation starts only once the
versions it reads are computed needs one more invariant, `Provenance`: a version
in the submission order is the number of an operation that writes that value, so
an operation that waits for the writers of its operands waits for the versions.

### Lifecycle

Assumptions: `LifecycleAssumption` (the main thread is a thread, `NoKey` is no
key, counts are natural numbers). The invariant `LifecycleInv` holds under any
`Discipline`; each theorem asks for just the rules it needs.

`KeysLive` alone says nothing of a call between its key check and its insertion,
nor of a shutdown that has begun. The invariant has parts that hold whatever the
threads do: `Locked` (who is in a critical section holds the mutex), `Started` (one
thread runs the initializer; keys, tasks and handlers come after it), `Exits` (only the
main thread exits), `KeysHeld` (the GPUs have the key in use and lose it first) and
`OneKey` (as long as StarPU runs, the key in use is the only one ever evaluated; it is
dropped only under the mutex and right before StarPU stops for good). So
`OneKeyIsEvaluated` needs no rule: a second key is accepted after a shutdown, but
`call_once` does not start StarPU again and no worker is left to use it.

Two parts are conditional. `Configured` (under `alone`): the configuration seen by the
initializer, which reads it in two steps without the mutex, is the accepted one.
`Ruled` (under `drain`, `probe` and `stop`): shutdown is exclusive and final, an
unfinished task keeps StarPU running and its key current, a call that is about to insert
carries the current key, the GPUs have it until exit, and nothing undefined happens.
`stop` is needed: without it a gate inserted after `starpu_task_wait_for_all` has
returned runs with a null or freed key.

### Gates

Assumptions: `GateWorkersAssumption` (the builds are known ones, a worker is a CPU
worker or a CUDA worker, the KVSP backend has no NMUX, the packed-word build has no
cells).

`TFHEGatesProofs` proves each entry of the tables: a bootstrapping of a phase that
is not on the decision boundary gives the sign, the offset of every homomorphic
gate keeps its operands off the boundary, and so the operation that parser, graph
builder and table choose for a cell computes its function (`TangorCodelet`,
`IyokanCodelet`, `MeaningOfOperands`), the two products of a multiplexer included.
`TangorCufhe` and `IyokanCufhe` say the same of the CUDA tables, and `HogeCorrect` of
the accelerator, encoding and decoding of its arguments included, for all gates but NMUX.

`GateResults` speaks of wires that no codelet is writing, and is not inductive.
`Correct` adds `Beside` (running tasks neither write each other's operands nor the
same wire, which is what StarPU's dependencies give) and, for each running task,
`Pending`: what it will store is the value of its cell. For a task on HOGE this
speaks about the shared buffers and kernel arguments at each stage of
`HOGEwrap` and `HOGEMUXwrap` (`Accelerated`); it is preserved by other workers
because one worker drives the accelerator.

### Native program

Assumptions: `TangorAssumption` (the netlists are what Yosys writes: natural net
numbers, distinct input bits, one driver per net; bounds are natural numbers).

`TangorParserProofs` is about one netlist. That sorting and selection are defined
at all takes an induction over the length of a sequence; with no induction
principle at hand it is done by the least counterexample (`Least`). The lemmas then
say what the parser's vectors are (`ParsedGates`, `ParsedRegisters`, `ParsedPorts`)
and what the lookup yields: `search_pointer` has one outcome on every net for which
it is defined, the slot `Found(id)`, whose net is `id` (`SearchFinds`, `FoundIsNet`).
So two gates are connected through a slot only if they are connected in the netlist.

`ConesMatch` speaks of executed gates. To show that the next gate to execute
computes the netlist's value one must know what its operands hold. `TangorInv` adds
`Sources` (inputs and flip-flop slots hold the netlist's values: no task writes
them), `Graph` (the tasks are gates in the order of the cells, each refers to the
slots its nets resolve to, and each gate that was passed is inserted or dropped)
and `Memory`. If the gate is clean, each operand is a source or is driven by a clean
gate listed earlier; that gate was not dropped, so it is a task before this one, it
conflicts with it, and `Ready` makes it an executed one, whose value is right by
`ConesMatch`; the lemmas about the three tables then say that the worker, whichever it
is, computes the cell (`GateComputes`). An NMUX is clean only in a build without HOGE. Nothing overwrites it since the net has one driver. A failure later on
can only shrink `CleanGates`, so what holds of clean gates stays. `Waited` (the wait
ends with all tasks executed) and `Exported` (what has been fetched and written)
give `ResultsMatch`; `Keyed` and `Waited` give `KeysDuringTasks`. For
`OrderlyNetlists` the invariant `Blamed` attributes every dropped gate and every
output that was not fetched to a failed call or to a missing codelet; without
either every gate of an orderly netlist is clean. The invariants were checked
by TLC on the netlists of `tangor_circuits`, the last one on the orderly ones
among them, before they were proved.

### Only model-checked

`CallsReturn` and `TasksFinish` of the data path, `CallsReturn` and
`ExitCompletes` of the lifecycle, and `Completes` of the native program: liveness
under fairness and `ENABLED` are outside the prover's reach.

## Not modelled

- The layout of the evaluation key in HOGE's memory banks and the OpenCL calls of
  `HOGEinit`: device I/O; the model keeps the search for a device and its outcomes.
- Netlists of several modules, whose net numbers would collide; the synthesis
  scripts flatten. The three-input cells of `USE_M12`, which are looked up and not
  inserted.
- Noise, serialisation of keys and ciphertexts, performance models, priorities,
  profiling output and the StarPU bound file.
- The plot script, third-party code (`xcl2`), and test drivers, which carry no
  logic of the evaluator.
- Below this abstraction: the reuse of a freed value's address in the registry, the
  layout punning of `muxWoSECodelet`, a CMUX whose output is both of its branches,
  and a CUDA runtime that disagrees with StarPU about the number of devices.

## Plan

The models and the safety theorems of the earlier plan are complete. What is left:

1. Weaker assumptions where a proof may do with less: two branches of a CMUX that
   are the same word, and registration bounds of the data path.
2. The safety half of the liveness properties: that a blocked thread or task always
   has a step of its own or of the worker it waits for, as an invariant.
