--------------------------- MODULE IyokanBackend ---------------------------
(***************************************************************************)
(* The data path of Tangor's KVSP backend (src/iyokan-starpu-codelets.cpp):*)
(* frontend threads call runIyokanStarpu*, which look the operands up in   *)
(* the persistent-handle registry and insert a StarPU task; StarPU's       *)
(* workers execute the tasks on any memory node; the frontend learns of    *)
(* completion through a callback flag and brings a result back to main     *)
(* memory with starpu_data_acquire.  StarPU itself is external and is      *)
(* modelled by what the code relies on: implicit dependencies between      *)
(* accesses to one handle, in submission order, and replicas per node.     *)
(*                                                                         *)
(* A ciphertext is abstracted to its version: the number of the task or    *)
(* host write that produced it, 0 for the initial content.                 *)
(***************************************************************************)
EXTENDS Integers, FiniteSets

CONSTANTS
    Threads,      \* frontend threads that call the API
    TLWEs,        \* addresses of level-0 wires
    TRLWEs,       \* addresses of packed level-1 words
    TRGSWs,       \* addresses of FFT selectors
    MainRam,      \* STARPU_MAIN_RAM, where every address lives
    Devices,      \* CUDA memory nodes
    CudaCmux,     \* TANGOR_EXPERIMENTAL_CUDA_CMUX=1 ?
    MaxOps,       \* bound: tasks and host writes of a behaviour
    MaxRegs,      \* bound: StarPU handles ever created for one address
    MaxFailures,  \* bound: StarPU calls that return an error
    None          \* no record

Addrs == TLWEs \cup TRLWEs \cup TRGSWs
Nodes == {MainRam} \cup Devices
Ops == 1..MaxOps
Versions == 0..MaxOps
Handles == Addrs \X (1..MaxRegs)

ASSUME BoundsAssumption ==
    /\ MaxOps \in Nat
    /\ MaxRegs \in Nat \ {0}
    /\ MaxFailures \in Nat
    /\ CudaCmux \in BOOLEAN
ASSUME NodesAssumption == MainRam \notin Devices
ASSUME AddrsAssumption ==
    TLWEs \cap TRLWEs = {} /\ TLWEs \cap TRGSWs = {} /\ TRLWEs \cap TRGSWs = {}
ASSUME NoneAssumption == None \notin Addrs

VARIABLES
    ram,          \* ram[a]: version stored at address a in main memory
    dev,          \* dev[h][d]: version in handle h's buffer on device d
    valid,        \* valid[h]: nodes whose replica of h StarPU holds valid
    registry,     \* persistentHandles and persistentVariableHandles:
                  \* registry[a] = k stands for the handle <<a, k>>, 0 for none
    registered,   \* registered[a]: handles StarPU has created for a
    nops,         \* submission counter
    task,         \* task[i]: accesses of task i, fixed when it is inserted
    st,           \* st[i]: progress of task i
    node,         \* node[i]: memory node task i executes on
    starpuRunning,
    pc,           \* pc[t]: where thread t is in its current call
    req,          \* req[t]: the resolved but not yet inserted task
    await,        \* await[t]: the task a blocking call of t waits for
    acq,          \* acq[t]: starpu_data_acquire in progress
    marking,      \* marking[t]: the address a host-write task of t overwrote
    captureActive, capturedTask,
    lastCall,     \* lastCall[t]: last task of t's task body (the frontend's own
                  \* record of what the body computes)
    tokens,       \* completion tokens in the frontend's ready queue
    errors,       \* tasks whose State::error is set
    failures,     \* StarPU calls that failed so far
    seqval,       \* ghost: seqval[a] = version a holds if all submitted
                  \* operations ran one after the other
    avail         \* ghost: addresses the frontend may read on the host

data == <<ram, dev, valid>>
reg == <<registry, registered>>
queue == <<nops, task, st, node>>
capture == <<captureActive, capturedTask, lastCall>>
threads == <<pc, req, await, acq, marking>>
ghosts == <<seqval, avail>>
faults == <<errors, failures>>
vars == <<data, reg, queue, starpuRunning, threads, capture, tokens, faults,
          ghosts>>

\* A task accesses its first operand, out, in mode W or RW and the others, ins,
\* in mode R; where is the set of nodes its codelet can run on.
ReqRec == [out : Handles, mode : {"W", "RW"}, ins : SUBSET Handles,
           where : SUBSET Nodes]
\* exp is a ghost: the versions the operands have in submission order.
TaskRec == [out : Handles, mode : {"W", "RW"}, ins : SUBSET Handles,
            where : SUBSET Nodes, exp : [Addrs -> Versions]]
AcqRec == [h : Handles, mode : {"R", "W"}, pos : Versions]
AwaitRec == [task : Versions, call : Versions]
NoAwait == [task |-> 0, call |-> 0]

Init ==
    /\ ram = [a \in Addrs |-> 0]
    /\ dev = [h \in Handles |-> [d \in Devices |-> 0]]
    /\ valid = [h \in Handles |-> {}]
    /\ registry = [a \in Addrs |-> 0]
    /\ registered = [a \in Addrs |-> 0]
    /\ nops = 0
    /\ task = [i \in Ops |-> None]
    /\ st = [i \in Ops |-> "free"]
    /\ node = [i \in Ops |-> MainRam]
    /\ starpuRunning = TRUE
    /\ pc = [t \in Threads |-> "idle"]
    /\ req = [t \in Threads |-> None]
    /\ await = [t \in Threads |-> NoAwait]
    /\ acq = [t \in Threads |-> None]
    /\ marking = [t \in Threads |-> None]
    /\ captureActive = [t \in Threads |-> FALSE]
    /\ capturedTask = [t \in Threads |-> 0]
    /\ lastCall = [t \in Threads |-> 0]
    /\ tokens = {}
    /\ errors = {}
    /\ failures = 0
    /\ seqval = [a \in Addrs |-> 0]
    /\ avail = Addrs

----------------------------------------------------------------------------
(* Accesses of a task *)

AddrOf(h) == h[1]
Unexecuted(i) == st[i] \in {"submitted", "running"}
Touched(r) == r.ins \cup {r.out}

\* Handles whose content the codelet uses: the R operands, and its output when
\* that is accessed RW.
Reads(r) == r.ins \cup (IF r.mode = "RW" THEN {r.out} ELSE {})

\* Handles StarPU brings to the worker's node: an operand that the same task
\* also accesses W is taken in write mode, without a transfer.
Fetched(r) == (r.ins \ {r.out}) \cup (IF r.mode = "RW" THEN {r.out} ELSE {})

Conflict(r, s) == r.out \in Touched(s) \/ s.out \in Touched(r)
AcqConflict(q, r) == r.out = q.h \/ (q.mode = "W" /\ q.h \in r.ins)

Copy(h, n) == IF n = MainRam THEN ram[AddrOf(h)] ELSE dev[h][n]
SetCopy(h, n, v) ==
    IF n = MainRam
    THEN ram' = [ram EXCEPT ![AddrOf(h)] = v] /\ dev' = dev
    ELSE dev' = [dev EXCEPT ![h][n] = v] /\ ram' = ram

\* Where a codelet has an implementation: NOT and MUXwoSE on CPUs only, the
\* bootstrapped gates also on CUDA devices, CMUX there only on request.
CpuOnly == {MainRam}
CpuOrCuda == Nodes
CmuxWhere == IF CudaCmux THEN CpuOrCuda ELSE CpuOnly

----------------------------------------------------------------------------
(* The handle registry *)

\* Defect: every lookup registers the address again.
RegisterAlways(A) == A

\* The operands an entry has to be made for.
Unregistered(A) == {a \in A : registry[a] = 0}

\* persistentHandleFor and persistentVariableHandleFor over the operands A of
\* one call: find the entry or register the address, whose content in main
\* memory is then the only valid replica.  Each lookup holds
\* persistentHandlesMutex; entries only appear, so the lookups of one call are
\* one step.
Resolve(A) ==
    LET new == Unregistered(A)
    IN  /\ \A a \in new : registered[a] < MaxRegs
        /\ registered' = [a \in Addrs |-> IF a \in new THEN registered[a] + 1
                                          ELSE registered[a]]
        /\ registry' = [a \in Addrs |-> IF a \in new THEN registered[a] + 1
                                        ELSE registry[a]]
        /\ valid' = [h \in Handles |->
                        IF AddrOf(h) \in new /\ h[2] = registered[AddrOf(h)] + 1
                        THEN {MainRam} ELSE valid[h]]

\* Defect: the lookup's result from before the registration.
HandleForStale(a) == <<a, registry[a]>>

HandleFor(a) == <<a, registry'[a]>>

\* Bound: room for one more operation besides those about to be inserted.
Budget ==
    /\ nops < MaxOps
    /\ nops + Cardinality({u \in Threads : pc[u] = "insert"}) < MaxOps

\* The common part of the runIyokanStarpu* calls up to starpu_task_insert.
\* The frontend submits nothing on a value that a host-write task is marking.
Prepare(t, out, mode, ins, where) ==
    /\ starpuRunning
    /\ pc[t] = "idle"
    /\ Budget
    /\ \A u \in Threads : marking[u] \notin ins \cup {out}
    /\ Resolve(ins \cup {out})
    /\ req' = [req EXCEPT ![t] = [out |-> HandleFor(out), mode |-> mode,
                                  ins |-> {HandleFor(a) : a \in ins},
                                  where |-> where]]
    /\ pc' = [pc EXCEPT ![t] = "insert"]
    /\ UNCHANGED <<ram, dev, queue, starpuRunning, await, acq, marking, capture,
                   tokens, faults, ghosts>>

runIyokanStarpuBinaryGate(t, output, left, right) ==
    /\ output \notin {left, right}
    /\ Prepare(t, output, "W", {left, right}, CpuOrCuda)

runIyokanStarpuNot(t, output, input) ==
    output # input /\ Prepare(t, output, "W", {input}, CpuOnly)

runIyokanStarpuMux(t, output, select, whenTrue, whenFalse) ==
    /\ output \notin {select, whenTrue, whenFalse}
    /\ Prepare(t, output, "W", {select, whenTrue, whenFalse}, CpuOrCuda)

\* Defect: the output is write-only also when it is one of the branch values.
CMUXFFTWriteOnly(t, output, select, whenTrue, whenFalse) ==
    Prepare(t, output, "W", {select, whenTrue, whenFalse}, CmuxWhere)

\* In place on either branch value: the output is accessed RW and is not listed
\* again as an input.
runIyokanStarpuCMUXFFT(t, output, select, whenTrue, whenFalse) ==
    \/ /\ output = whenTrue
       /\ Prepare(t, output, "RW", {select, whenFalse}, CmuxWhere)
    \/ /\ output # whenTrue
       /\ output = whenFalse
       /\ Prepare(t, output, "RW", {select, whenTrue}, CmuxWhere)
    \/ /\ output \notin {whenTrue, whenFalse}
       /\ Prepare(t, output, "W", {select, whenTrue, whenFalse}, CmuxWhere)

runIyokanStarpuMuxWoSE(t, output, select, whenTrue, whenFalse) ==
    Prepare(t, output, "W", {select, whenTrue, whenFalse}, CpuOnly)

----------------------------------------------------------------------------
(* Submission *)

\* Defect: the first task of a body is kept.
captureFirst(t, i) ==
    capturedTask' = [capturedTask EXCEPT ![t] = IF @ = 0 THEN i ELSE @]

\* Only the last task of a body is kept.
captureTask(t, i) ==
    capturedTask' = [capturedTask EXCEPT ![t] = i]

\* starpu_task_insert succeeds; inside a capture the call returns at once,
\* outside it goes on to waitForTask.
submitAsync(t) ==
    LET i == nops + 1
        r == req[t]
        out == AddrOf(r.out)
    IN  /\ pc[t] = "insert"
        /\ nops < MaxOps
        /\ nops' = i
        /\ task' = [task EXCEPT ![i] = [out |-> r.out, mode |-> r.mode,
                                        ins |-> r.ins, where |-> r.where,
                                        exp |-> seqval]]
        /\ st' = [st EXCEPT ![i] = "submitted"]
        /\ req' = [req EXCEPT ![t] = None]
        /\ seqval' = [seqval EXCEPT ![out] = i]
        /\ avail' = avail \ {out}
        /\ IF captureActive[t]
           THEN /\ captureTask(t, i)
                /\ lastCall' = [lastCall EXCEPT ![t] = i]
                /\ pc' = [pc EXCEPT ![t] = "idle"]
                /\ await' = await
           ELSE /\ await' = [await EXCEPT ![t] = [task |-> i, call |-> i]]
                /\ pc' = [pc EXCEPT ![t] = "wait"]
                /\ UNCHANGED <<capturedTask, lastCall>>
        /\ UNCHANGED <<data, reg, node, starpuRunning, acq, marking,
                       captureActive, tokens, faults>>

\* starpu_task_insert returns an error: nothing was submitted and the call
\* throws.  The frontend thread does not continue after an exception.
submitFails(t) ==
    /\ pc[t] = "insert"
    /\ failures < MaxFailures
    /\ failures' = failures + 1
    /\ pc' = [pc EXCEPT ![t] = "thrown"]
    /\ req' = [req EXCEPT ![t] = None]
    /\ UNCHANGED <<data, reg, queue, starpuRunning, await, acq, marking, capture,
                   tokens, errors, ghosts>>

----------------------------------------------------------------------------
(* Capture scopes and completion tokens *)

Throw(t) ==
    /\ pc' = [pc EXCEPT ![t] = "thrown"]
    /\ UNCHANGED <<data, reg, queue, starpuRunning, req, await, acq, marking,
                   capture, tokens, faults, ghosts>>

beginIyokanStarpuCapture(t) ==
    /\ starpuRunning
    /\ pc[t] = "idle"
    /\ \/ captureActive[t] /\ Throw(t)
       \/ /\ ~captureActive[t]
          /\ captureActive' = [captureActive EXCEPT ![t] = TRUE]
          /\ capturedTask' = [capturedTask EXCEPT ![t] = 0]
          /\ lastCall' = [lastCall EXCEPT ![t] = 0]
          /\ UNCHANGED <<data, reg, queue, starpuRunning, threads, tokens,
                         faults, ghosts>>

\* The token, if any, goes to the frontend, which pairs it with the last call
\* of the body.
endIyokanStarpuCapture(t) ==
    /\ starpuRunning
    /\ pc[t] = "idle"
    /\ \/ ~captureActive[t] /\ Throw(t)
       \/ /\ captureActive[t]
          /\ captureActive' = [captureActive EXCEPT ![t] = FALSE]
          /\ capturedTask' = [capturedTask EXCEPT ![t] = 0]
          /\ lastCall' = [lastCall EXCEPT ![t] = 0]
          /\ tokens' = tokens \cup
                {[task |-> i, call |-> lastCall[t]] :
                    i \in {capturedTask[t]} \ {0}}
          /\ UNCHANGED <<data, reg, queue, starpuRunning, threads, faults,
                         ghosts>>

\* Without a captured task there is nothing to wait for.
synchronizeIyokanStarpuCapture(t) ==
    /\ starpuRunning
    /\ pc[t] = "idle"
    /\ \/ ~captureActive[t] /\ Throw(t)
       \/ /\ captureActive[t]
          /\ capturedTask[t] # 0
          /\ await' = [await EXCEPT ![t] = [task |-> capturedTask[t],
                                            call |-> lastCall[t]]]
          /\ pc' = [pc EXCEPT ![t] = "wait"]
          /\ UNCHANGED <<data, reg, queue, starpuRunning, req, acq, marking,
                         capture, tokens, faults, ghosts>>

\* The frontend finds a token whose task isFinished() and goes on to
\* synchronizeOutput.  A token stays queued until its output is synchronized.
PollToken(t, k) ==
    /\ starpuRunning
    /\ pc[t] = "idle"
    /\ ~captureActive[t]
    /\ \A u \in Threads : await[u] # k
    /\ st[k.task] = "finished"
    /\ await' = [await EXCEPT ![t] = k]
    /\ pc' = [pc EXCEPT ![t] = "wait"]
    /\ UNCHANGED <<data, reg, queue, starpuRunning, req, acq, marking, capture,
                   tokens, faults, ghosts>>

\* The spin loop of waitForTask ends, and synchronizeOutput looks at the error
\* of the task: it throws, or asks StarPU for the output.
waitForTask(t) ==
    /\ pc[t] = "wait"
    /\ st[await[t].task] = "finished"
    /\ IF await[t].task \in errors
       THEN /\ pc' = [pc EXCEPT ![t] = "thrown"]
            /\ await' = [await EXCEPT ![t] = NoAwait]
            /\ acq' = acq
       ELSE /\ pc' = [pc EXCEPT ![t] = "acquire"]
            /\ acq' = [acq EXCEPT ![t] = [h |-> task[await[t].task].out,
                                          mode |-> "R", pos |-> nops]]
            /\ await' = await
    /\ UNCHANGED <<data, reg, queue, starpuRunning, req, marking, capture,
                   tokens, faults, ghosts>>

\* StarPU grants an acquire when the accesses submitted before it are done.
Granted(q) ==
    \A j \in 1..q.pos : Unexecuted(j) => ~AcqConflict(q, task[j])

\* Acquire and release of synchronizeOutput: a missing main-memory replica is
\* fetched.  The frontend then takes the value the call promised as available.
synchronizeOutput(t) ==
    LET q == acq[t]
        call == await[t].call
        out == AddrOf(task[call].out)
    IN  /\ pc[t] = "acquire"
        /\ q.mode = "R"
        /\ Granted(q)
        /\ IF MainRam \in valid[q.h]
           THEN UNCHANGED data
           ELSE \E src \in valid[q.h] :
                   /\ SetCopy(q.h, MainRam, Copy(q.h, src))
                   /\ valid' = [valid EXCEPT ![q.h] = @ \cup {MainRam}]
        /\ avail' = IF seqval[out] = call THEN avail \cup {out} ELSE avail
        /\ tokens' = tokens \ {await[t]}
        /\ await' = [await EXCEPT ![t] = NoAwait]
        /\ acq' = [acq EXCEPT ![t] = None]
        /\ pc' = [pc EXCEPT ![t] = "idle"]
        /\ UNCHANGED <<reg, queue, starpuRunning, req, marking, capture, faults,
                       seqval>>

\* starpu_data_acquire returns an error: it is remembered in the task's State
\* and the call throws.
synchronizeFails(t) ==
    /\ pc[t] = "acquire"
    /\ acq[t].mode = "R"
    /\ failures < MaxFailures
    /\ failures' = failures + 1
    /\ errors' = errors \cup {await[t].task}
    /\ await' = [await EXCEPT ![t] = NoAwait]
    /\ acq' = [acq EXCEPT ![t] = None]
    /\ pc' = [pc EXCEPT ![t] = "thrown"]
    /\ UNCHANGED <<data, reg, queue, starpuRunning, req, marking, capture,
                   tokens, ghosts>>

----------------------------------------------------------------------------
(* Host writes *)

\* A CPU-only task of the frontend overwrites a value it may access, and calls
\* markIyokan*HostWrite before it ends.  The frontend runs it when no gate that
\* uses the value is pending.
HostWrite(t, a) ==
    /\ starpuRunning
    /\ pc[t] = "idle"
    /\ Budget
    /\ a \in avail
    /\ \A i \in 1..nops : Unexecuted(i) =>
          \A h \in Touched(task[i]) : AddrOf(h) # a
    /\ \A u \in Threads :
          /\ marking[u] # a
          /\ pc[u] = "insert" => \A h \in Touched(req[u]) : AddrOf(h) # a
    /\ nops' = nops + 1
    /\ st' = [st EXCEPT ![nops + 1] = "host"]
    /\ ram' = [ram EXCEPT ![a] = nops + 1]
    /\ seqval' = [seqval EXCEPT ![a] = nops + 1]
    /\ marking' = [marking EXCEPT ![t] = a]
    /\ pc' = [pc EXCEPT ![t] = "mark"]
    /\ UNCHANGED <<dev, valid, reg, task, node, starpuRunning, req, await, acq,
                   capture, tokens, faults, avail>>

\* Defect: a host write is never marked.
markForgotten(t) ==
    /\ pc[t] = "mark"
    /\ pc' = [pc EXCEPT ![t] = "idle"]
    /\ marking' = [marking EXCEPT ![t] = None]
    /\ UNCHANGED <<data, reg, queue, starpuRunning, req, await, acq, capture,
                   tokens, faults, ghosts>>

\* markIyokanTLWEHostWrite and markVariableHostWrite: look the address up, and
\* return if StarPU does not know it.
markHostWrite(t) ==
    LET a == marking[t]
    IN  /\ pc[t] = "mark"
        /\ IF registry[a] = 0
           THEN /\ pc' = [pc EXCEPT ![t] = "idle"]
                /\ marking' = [marking EXCEPT ![t] = None]
                /\ acq' = acq
           ELSE /\ pc' = [pc EXCEPT ![t] = "acquire"]
                /\ acq' = [acq EXCEPT ![t] = [h |-> <<a, registry[a]>>,
                                              mode |-> "W", pos |-> nops]]
                /\ marking' = marking
        /\ UNCHANGED <<data, reg, queue, starpuRunning, req, await, capture,
                       tokens, faults, ghosts>>

\* Acquiring W makes the main-memory replica the only valid one, as it is.
acquireHostWrite(t) ==
    LET q == acq[t]
    IN  /\ pc[t] = "acquire"
        /\ q.mode = "W"
        /\ Granted(q)
        /\ valid' = [valid EXCEPT ![q.h] = {MainRam}]
        /\ acq' = [acq EXCEPT ![t] = None]
        /\ marking' = [marking EXCEPT ![t] = None]
        /\ pc' = [pc EXCEPT ![t] = "idle"]
        /\ UNCHANGED <<ram, dev, reg, queue, starpuRunning, req, await, capture,
                       tokens, faults, ghosts>>

\* The acquire fails: the exception leaves the value written but unmarked.
acquireHostWriteFails(t) ==
    /\ pc[t] = "acquire"
    /\ acq[t].mode = "W"
    /\ failures < MaxFailures
    /\ failures' = failures + 1
    /\ acq' = [acq EXCEPT ![t] = None]
    /\ pc' = [pc EXCEPT ![t] = "thrown"]
    /\ UNCHANGED <<data, reg, queue, starpuRunning, req, await, marking, capture,
                   tokens, errors, ghosts>>

----------------------------------------------------------------------------
(* StarPU's workers *)

\* The implicit dependencies of task i are satisfied.
Ready(i) ==
    /\ st[i] = "submitted"
    /\ \A j \in 1..(i - 1) : Unexecuted(j) => ~Conflict(task[j], task[i])
    /\ \A t \in Threads :
          pc[t] = "acquire" /\ acq[t].pos < i => ~AcqConflict(acq[t], task[i])

\* An operand of a ready task is replicated on a node where the task may run.
Fetch(i, h, n) ==
    /\ Ready(i)
    /\ h \in Fetched(task[i])
    /\ n \in task[i].where \ valid[h]
    /\ \E src \in valid[h] : SetCopy(h, n, Copy(h, src))
    /\ valid' = [valid EXCEPT ![h] = @ \cup {n}]
    /\ UNCHANGED <<reg, queue, starpuRunning, threads, capture, tokens, faults,
                   ghosts>>

\* A worker of node n starts the codelet; the node then holds the only replica
\* of the output.
Start(i, n) ==
    /\ Ready(i)
    /\ n \in task[i].where
    /\ \A h \in Fetched(task[i]) : n \in valid[h]
    /\ st' = [st EXCEPT ![i] = "running"]
    /\ node' = [node EXCEPT ![i] = n]
    /\ valid' = [valid EXCEPT ![task[i].out] = {n}]
    /\ UNCHANGED <<ram, dev, reg, nops, task, starpuRunning, threads, capture,
                   tokens, faults, ghosts>>

\* The codelet has stored its result and its dependants are released.
Complete(i) ==
    /\ st[i] = "running"
    /\ st' = [st EXCEPT ![i] = "executed"]
    /\ SetCopy(task[i].out, node[i], i)
    /\ UNCHANGED <<valid, reg, nops, task, node, starpuRunning, threads, capture,
                   tokens, faults, ghosts>>

\* Defect: the callback does not reach the State the token holds.
taskCompletedLost(i) ==
    st[i] = "executed" /\ UNCHANGED vars

\* The callback of the task sets State::finished.
taskCompleted(i) ==
    /\ st[i] = "executed"
    /\ st' = [st EXCEPT ![i] = "finished"]
    /\ UNCHANGED <<data, reg, nops, task, node, starpuRunning, threads, capture,
                   tokens, faults, ghosts>>

----------------------------------------------------------------------------
(* Shutdown *)

\* Called when the frontend has stopped: waits for all tasks, unregisters every
\* handle without writing it back and empties the registry.
shutdownIyokanStarpu ==
    /\ starpuRunning
    /\ \A t \in Threads : pc[t] \in {"idle", "thrown"}
    /\ \A i \in Ops : st[i] \in {"free", "finished", "host"}
    /\ registry' = [a \in Addrs |-> 0]
    /\ valid' = [h \in Handles |-> {}]
    /\ starpuRunning' = FALSE
    /\ UNCHANGED <<ram, dev, registered, queue, threads, capture, tokens, faults,
                   ghosts>>

\* Nothing more to do after shutdown.
Terminated ==
    ~starpuRunning /\ UNCHANGED vars

----------------------------------------------------------------------------

GateCalls(t) ==
    \E output, x \in TLWEs :
        \/ runIyokanStarpuNot(t, output, x)
        \/ \E y \in TLWEs :
            \/ runIyokanStarpuBinaryGate(t, output, x, y)
            \/ \E z \in TLWEs : runIyokanStarpuMux(t, output, x, y, z)

RamCalls(t) ==
    \E output \in TRLWEs :
        \/ \E s \in TRGSWs, x, y \in TRLWEs :
              runIyokanStarpuCMUXFFT(t, output, s, x, y)
        \/ \E s, x, y \in TLWEs : runIyokanStarpuMuxWoSE(t, output, s, x, y)

CaptureCalls(t) ==
    \/ beginIyokanStarpuCapture(t)
    \/ endIyokanStarpuCapture(t)
    \/ synchronizeIyokanStarpuCapture(t)

\* What a call in progress does next, failures apart.
Continue(t) ==
    \/ submitAsync(t)
    \/ waitForTask(t)
    \/ synchronizeOutput(t)
    \/ markHostWrite(t)
    \/ acquireHostWrite(t)

Fails(t) ==
    \/ submitFails(t)
    \/ synchronizeFails(t)
    \/ acquireHostWriteFails(t)

ThreadStep(t) ==
    \/ GateCalls(t)
    \/ RamCalls(t)
    \/ CaptureCalls(t)
    \/ \E k \in tokens : PollToken(t, k)
    \/ \E a \in Addrs : HostWrite(t, a)
    \/ Continue(t)
    \/ Fails(t)

Transfer(i) == \E h \in Handles, n \in Nodes : Fetch(i, h, n)
Execute(i) == \E n \in Nodes : Start(i, n)

WorkerStep(i) ==
    \/ Transfer(i)
    \/ Execute(i)
    \/ Complete(i)
    \/ taskCompleted(i)

Next ==
    \/ \E t \in Threads : ThreadStep(t)
    \/ \E i \in Ops : WorkerStep(i)
    \/ shutdownIyokanStarpu
    \/ Terminated

Spec == Init /\ [][Next]_vars

\* StarPU's workers keep executing ready tasks, and a thread inside a call keeps
\* running; nothing obliges the frontend to make a call, poll a token or stop.
Fairness ==
    /\ \A i \in Ops : /\ WF_vars(Transfer(i))
                      /\ WF_vars(Execute(i))
                      /\ WF_vars(Complete(i))
                      /\ WF_vars(taskCompleted(i))
    /\ \A t \in Threads : WF_vars(Continue(t))

FairSpec == Spec /\ Fairness

----------------------------------------------------------------------------
(* Properties *)

\* Type invariant: every variable has its type; a call in progress holds the
\* record its next step uses, and a submitted task has its accesses.
TypeOK ==
    /\ ram \in [Addrs -> Versions]
    /\ dev \in [Handles -> [Devices -> Versions]]
    /\ valid \in [Handles -> SUBSET Nodes]
    /\ registry \in [Addrs -> 0..MaxRegs]
    /\ registered \in [Addrs -> 0..MaxRegs]
    /\ nops \in Versions
    /\ task \in [Ops -> TaskRec \cup {None}]
    /\ st \in [Ops -> {"free", "submitted", "running", "executed", "finished",
                       "host"}]
    /\ node \in [Ops -> Nodes]
    /\ starpuRunning \in BOOLEAN
    /\ pc \in [Threads -> {"idle", "insert", "wait", "acquire", "mark",
                           "thrown"}]
    /\ req \in [Threads -> ReqRec \cup {None}]
    /\ await \in [Threads -> AwaitRec]
    /\ acq \in [Threads -> AcqRec \cup {None}]
    /\ marking \in [Threads -> Addrs \cup {None}]
    /\ captureActive \in [Threads -> BOOLEAN]
    /\ capturedTask \in [Threads -> Versions]
    /\ lastCall \in [Threads -> Versions]
    /\ tokens \subseteq AwaitRec
    /\ errors \subseteq Ops
    /\ failures \in 0..MaxFailures
    /\ seqval \in [Addrs -> Versions]
    /\ avail \subseteq Addrs

\* A codelet that executes reads, on its node, exactly the versions its operands
\* had in submission order, whichever nodes the earlier tasks ran on, whatever
\* was submitted or overwritten since: the registry gives one handle per
\* address, in-place CMUXes are submitted RW, and host writes are marked.
CoherentReads ==
    \A i \in Ops : st[i] = "running" =>
        \A h \in Reads(task[i]) : Copy(h, node[i]) = task[i].exp[AddrOf(h)]

\* What synchronizeOutput or a blocking call has made available to CPU-only
\* tasks is in main memory: the version last submitted or written, not a stale
\* one and not one still on a device, until it is submitted again.
SynchronizedOutputs ==
    \A a \in avail : ram[a] = seqval[a]

\* The spin loop of waitForTask, the acquire of synchronizeOutput and the mark
\* of a host write all end: no call waits for a task that waits for the call.
CallsReturn ==
    \A t \in Threads : pc[t] # "idle" ~> pc[t] \in {"idle", "thrown"}

\* Every submitted task finishes and sets the flag its token is polled for.
TasksFinish ==
    \A i \in Ops : st[i] = "submitted" ~> st[i] = "finished"

----------------------------------------------------------------------------
(* The inductive invariant behind CoherentReads and SynchronizedOutputs *)

Known(i) == st[i] \in {"submitted", "running", "executed", "finished"}
Current(h) == registry[AddrOf(h)] = h[2]
Pending(j, h) == Unexecuted(j) /\ task[j].out = h

\* Task numbers are handed out in order, and an inserted task has its accesses;
\* a gate's output is none of its inputs unless it is accessed RW.
TaskShape(i) ==
    /\ i > nops <=> st[i] = "free"
    /\ Known(i) => /\ task[i] \in TaskRec
                   /\ task[i].mode = "RW" \/ task[i].out \notin task[i].ins
TasksShape == \A i \in Ops : TaskShape(i)

\* A thread inside a call has the record its next step uses.
ThreadShape(t) ==
    /\ pc[t] = "insert" =>
          /\ req[t] \in ReqRec
          /\ req[t].mode = "RW" \/ req[t].out \notin req[t].ins
    /\ pc[t] = "wait" => await[t].task \in Ops
    /\ pc[t] = "mark" => marking[t] \in Addrs
    /\ pc[t] = "acquire" =>
          /\ acq[t] \in AcqRec
          /\ acq[t].pos <= nops
          /\ acq[t].mode = "R" =>
                /\ await[t].task \in Ops
                /\ st[await[t].task] = "finished"
                /\ acq[t].h = task[await[t].task].out
          /\ acq[t].mode = "W" => marking[t] = AddrOf(acq[t].h)
ThreadsShape == \A t \in Threads : ThreadShape(t)

\* The task a token, an open capture or a blocking call stands for is the last
\* call the frontend made for it.
TokensShape ==
    /\ \A k \in tokens : k.task = k.call /\ k.task \in Ops /\ Known(k.task)
    /\ \A t \in Threads :
          /\ await[t].task = await[t].call
          /\ await[t].task # 0 => Known(await[t].task)
          /\ capturedTask[t] = lastCall[t]
          /\ capturedTask[t] # 0 => Known(capturedTask[t])

\* Until shutdown every handle in use is the registry's handle of its address,
\* and has a replica; shutdown leaves nothing in progress.
HandlesCurrent ==
    /\ starpuRunning =>
          /\ \A i \in Ops : Known(i) =>
                \A h \in Touched(task[i]) : Current(h)
          /\ \A t \in Threads :
                /\ pc[t] = "insert" => \A h \in Touched(req[t]) : Current(h)
                /\ pc[t] = "acquire" => Current(acq[t].h)
          /\ \A h \in Handles : Current(h) => valid[h] # {}
    /\ ~starpuRunning =>
          /\ \A i \in Ops : ~Unexecuted(i)
          /\ \A t \in Threads : pc[t] \in {"idle", "thrown"}

\* A running task still has no unexecuted conflicting predecessor, and its node
\* holds its operands and the only replica of its output.
RunningExclusive ==
    \A i \in Ops : st[i] = "running" =>
        /\ \A j \in 1..(i - 1) : Unexecuted(j) => ~Conflict(task[j], task[i])
        /\ \A t \in Threads : pc[t] = "acquire" /\ acq[t].pos < i =>
              ~AcqConflict(acq[t], task[i])
        /\ valid[task[i].out] = {node[i]}
        /\ \A h \in Reads(task[i]) : node[i] \in valid[h]

\* Version v of handle h, as seen by operation i: the result of the last
\* unexecuted writer before i, or the content of every valid replica.
Holds(h, i, v) ==
    \/ /\ v \in 1..(i - 1)
       /\ Pending(v, h)
       /\ \A j \in 1..(i - 1) : Pending(j, h) => j <= v
    \/ /\ \A j \in 1..(i - 1) : ~Pending(j, h)
       /\ \A n \in valid[h] : Copy(h, n) = v

ReadsHold ==
    \A i \in Ops : Unexecuted(i) =>
        \A h \in Reads(task[i]) : Holds(h, i, task[i].exp[AddrOf(h)])

SequenceHolds ==
    starpuRunning =>
        \A h \in Handles :
            Current(h) /\ (\A t \in Threads : marking[t] # AddrOf(h)) =>
                Holds(h, nops + 1, seqval[AddrOf(h)])

\* An available value is in main memory and nothing pending overwrites it; a
\* value without a handle, and one that is being marked, is available.
AvailableStable ==
    /\ \A a \in avail : ram[a] = seqval[a]
    /\ starpuRunning =>
          /\ \A h \in Handles : Current(h) /\ AddrOf(h) \in avail =>
                MainRam \in valid[h] /\ \A j \in Ops : ~Pending(j, h)
          /\ \A a \in Addrs : registry[a] = 0 => a \in avail

\* Thread t is between a host write and its mark, or threw there.
InMark(t) ==
    \/ pc[t] \in {"mark", "thrown"}
    \/ pc[t] = "acquire" /\ acq[t].mode = "W"

\* Nothing uses a value between a host write and its mark.
MarkedQuiet ==
    \A t \in Threads : marking[t] \in Addrs =>
        /\ InMark(t)
        /\ marking[t] \in avail
        /\ \A u \in Threads \ {t} : marking[u] # marking[t]
        /\ \A i \in Ops : Unexecuted(i) =>
              \A h \in Touched(task[i]) : AddrOf(h) # marking[t]
        /\ \A u \in Threads : pc[u] = "insert" =>
              \A h \in Touched(req[u]) : AddrOf(h) # marking[t]

\* The coherence of the backend as one inductive invariant: versions flow from
\* writer to reader in submission order through whatever replicas are valid.
CoherenceInv ==
    /\ TasksShape
    /\ ThreadsShape
    /\ TokensShape
    /\ HandlesCurrent
    /\ RunningExclusive
    /\ ReadsHold
    /\ SequenceHolds
    /\ AvailableStable
    /\ MarkedQuiet
============================================================================
