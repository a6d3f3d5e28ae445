------------------------ MODULE IyokanBackendProofs ------------------------
(***************************************************************************)
(* TLAPS proofs about IyokanBackend, for any number of threads, addresses, *)
(* devices, tasks and failures.                                            *)
(***************************************************************************)
EXTENDS IyokanBackend, TLAPS

USE DEF AddrOf

Shape == TypeOK /\ TasksShape /\ ThreadsShape /\ TokensShape

----------------------------------------------------------------------------

\* Every runIyokanStarpu* call is Prepare with operands that are addresses, the
\* output among the inputs only if it is accessed RW.
LEMMA CallsPrepare ==
    ASSUME NEW t \in Threads, GateCalls(t) \/ RamCalls(t)
    PROVE  \E out \in Addrs, mode \in {"W", "RW"}, ins \in SUBSET Addrs,
              where \in SUBSET Nodes :
              Prepare(t, out, mode, ins, where) /\ (mode = "RW" \/ out \notin ins)
<1> DEFINE P(out, mode, ins, where) ==
              /\ Prepare(t, out, mode, ins, where)
              /\ mode = "RW" \/ out \notin ins
<1> DEFINE Goal == \E out \in Addrs, mode \in {"W", "RW"}, ins \in SUBSET Addrs,
                      where \in SUBSET Nodes : P(out, mode, ins, where)
<1>1. CpuOnly \in SUBSET Nodes /\ CpuOrCuda \in SUBSET Nodes
      /\ CmuxWhere \in SUBSET Nodes
  BY BoundsAssumption DEF CpuOnly, CpuOrCuda, CmuxWhere, Nodes
<1>2. ASSUME NEW out \in Addrs, NEW mode \in {"W", "RW"},
             NEW ins \in SUBSET Addrs, NEW where \in SUBSET Nodes,
             P(out, mode, ins, where)
      PROVE  Goal
  BY <1>2, Zenon
<1> SUFFICES Goal OBVIOUS
<1> HIDE DEF Goal
<1>3. CASE GateCalls(t)
  <2>1. PICK o \in TLWEs, x \in TLWEs :
           \/ runIyokanStarpuNot(t, o, x)
           \/ \E y \in TLWEs :
               \/ runIyokanStarpuBinaryGate(t, o, x, y)
               \/ \E z \in TLWEs : runIyokanStarpuMux(t, o, x, y, z)
    BY <1>3 DEF GateCalls
  <2>2. CASE runIyokanStarpuNot(t, o, x)
    <3>1. P(o, "W", {x}, CpuOnly) BY <2>2 DEF runIyokanStarpuNot
    <3>2. o \in Addrs /\ {x} \in SUBSET Addrs BY DEF Addrs
    <3> QED BY <1>1, <1>2, <3>1, <3>2
  <2>3. ASSUME NEW y \in TLWEs, runIyokanStarpuBinaryGate(t, o, x, y) PROVE Goal
    <3>1. P(o, "W", {x, y}, CpuOrCuda) BY <2>3 DEF runIyokanStarpuBinaryGate
    <3>2. o \in Addrs /\ {x, y} \in SUBSET Addrs BY DEF Addrs
    <3> QED BY <1>1, <1>2, <3>1, <3>2
  <2>4. ASSUME NEW y \in TLWEs, NEW z \in TLWEs, runIyokanStarpuMux(t, o, x, y, z)
        PROVE  Goal
    <3>1. P(o, "W", {x, y, z}, CpuOrCuda) BY <2>4 DEF runIyokanStarpuMux
    <3>2. o \in Addrs /\ {x, y, z} \in SUBSET Addrs BY DEF Addrs
    <3> QED BY <1>1, <1>2, <3>1, <3>2
  <2> QED BY <2>1, <2>2, <2>3, <2>4
<1>4. CASE RamCalls(t)
  <2>1. PICK o \in TRLWEs :
           \/ \E s \in TRGSWs, x, y \in TRLWEs :
                 runIyokanStarpuCMUXFFT(t, o, s, x, y)
           \/ \E s, x, y \in TLWEs : runIyokanStarpuMuxWoSE(t, o, s, x, y)
    BY <1>4 DEF RamCalls
  <2>2. ASSUME NEW s \in TRGSWs, NEW x \in TRLWEs, NEW y \in TRLWEs,
               runIyokanStarpuCMUXFFT(t, o, s, x, y)
        PROVE  Goal
    <3>1. /\ o \in Addrs
          /\ {s, x} \in SUBSET Addrs /\ {s, y} \in SUBSET Addrs
          /\ {s, x, y} \in SUBSET Addrs
          /\ o # s
      BY AddrsAssumption DEF Addrs
    <3>2. \/ P(o, "RW", {s, y}, CmuxWhere)
          \/ P(o, "RW", {s, x}, CmuxWhere)
          \/ P(o, "W", {s, x, y}, CmuxWhere)
      BY <2>2, <3>1 DEF runIyokanStarpuCMUXFFT
    <3> QED BY <1>1, <1>2, <3>1, <3>2
  <2>3. ASSUME NEW s \in TLWEs, NEW x \in TLWEs, NEW y \in TLWEs,
               runIyokanStarpuMuxWoSE(t, o, s, x, y)
        PROVE  Goal
    <3>1. o \in Addrs /\ {s, x, y} \in SUBSET Addrs /\ o \notin {s, x, y}
      BY AddrsAssumption DEF Addrs
    <3>2. P(o, "W", {s, x, y}, CpuOnly)
      BY <2>3, <3>1 DEF runIyokanStarpuMuxWoSE
    <3> QED BY <1>1, <1>2, <3>1, <3>2
  <2> QED BY <2>1, <2>2, <2>3
<1> QED BY <1>3, <1>4

----------------------------------------------------------------------------
(* Types and shapes *)

\* The initial state: no task, no call, no token.
LEMMA InitShape == Init => Shape
BY BoundsAssumption, NodesAssumption
DEF Init, Shape, TypeOK, TasksShape, TaskShape, ThreadsShape, ThreadShape,
    TokensShape, Known, Versions,
    Ops, Nodes, AwaitRec, NoAwait

\* Looking the operands up (persistentHandleFor) leaves a well-formed request.
LEMMA PrepareShape ==
    ASSUME Shape, NEW t \in Threads, NEW out \in Addrs, NEW mode \in {"W", "RW"},
           NEW ins \in SUBSET Addrs, NEW where \in SUBSET Nodes,
           Prepare(t, out, mode, ins, where), mode = "RW" \/ out \notin ins
    PROVE  Shape'
<1> USE BoundsAssumption DEF Shape
<1>1. registry' \in [Addrs -> 0..MaxRegs] /\ registered' \in [Addrs -> 0..MaxRegs]
  BY DEF Prepare, Resolve, Unregistered, TypeOK
<1>2. \A a \in ins \cup {out} : HandleFor(a) \in Handles
  BY DEF Prepare, Resolve, Unregistered, TypeOK, HandleFor, Handles
<1>3. req'[t] \in ReqRec
  BY <1>2 DEF Prepare, ReqRec, TypeOK
<1>4. req'[t].mode = "RW" \/ req'[t].out \notin req'[t].ins
  BY DEF Prepare, HandleFor, TypeOK
<1>5. UNCHANGED <<ram, dev, nops, task, st, node, starpuRunning, await, acq,
                 marking, captureActive, capturedTask, lastCall, tokens, errors,
                 failures, seqval, avail>>
  BY DEF Prepare, queue, capture, faults, ghosts
<1>6. TypeOK'
  <2>1. valid' \in [Handles -> SUBSET Nodes]
    BY DEF Prepare, Resolve, TypeOK, Nodes
  <2>2. req' \in [Threads -> ReqRec \cup {None}]
    BY <1>3 DEF Prepare, TypeOK
  <2>3. pc' \in [Threads -> {"idle", "insert", "wait", "acquire", "mark",
                             "thrown"}]
    BY DEF Prepare, TypeOK
  <2> QED BY <1>1, <1>5, <2>1, <2>2, <2>3 DEF TypeOK
<1>7. TasksShape'
  BY <1>5 DEF TasksShape, TaskShape, Known
<1>8. ThreadsShape'
  BY <1>3, <1>4, <1>5 DEF Prepare, TypeOK, ThreadsShape, ThreadShape
<1>9. TokensShape'
  BY <1>5 DEF TokensShape, Known
<1> QED BY <1>6, <1>7, <1>8, <1>9

\* starpu_task_insert turns a well-formed request into a well-formed task.
LEMMA SubmitShape ==
    ASSUME Shape, NEW t \in Threads, submitAsync(t)
    PROVE  Shape'
<1> USE BoundsAssumption DEF Shape
<1> DEFINE i == nops + 1
<1>1. pc[t] = "insert" /\ req[t] \in ReqRec /\ i \in Ops /\ i \in Versions
      /\ (req[t].mode = "RW" \/ req[t].out \notin req[t].ins)
  BY DEF submitAsync, ThreadsShape, ThreadShape, TypeOK, Versions, Ops
<1>2. task'[i] \in TaskRec
  BY <1>1 DEF submitAsync, TypeOK, TaskRec, ReqRec
<1>3. UNCHANGED <<ram, dev, valid, registry, registered, node, starpuRunning, acq,
                 marking, captureActive, tokens, errors, failures>>
  BY DEF submitAsync, data, reg, faults
<1>10. \/ /\ pc' = [pc EXCEPT ![t] = "idle"]
          /\ await' = await
          /\ capturedTask' = [capturedTask EXCEPT ![t] = i]
          /\ lastCall' = [lastCall EXCEPT ![t] = i]
       \/ /\ pc' = [pc EXCEPT ![t] = "wait"]
          /\ await' = [await EXCEPT ![t] = [task |-> i, call |-> i]]
          /\ UNCHANGED <<capturedTask, lastCall>>
  BY DEF submitAsync, captureTask
<1>4. TypeOK'
  <2>1. nops' \in Versions /\ st' \in [Ops -> {"free", "submitted", "running",
                             "executed", "finished", "host"}]
    BY <1>1 DEF submitAsync, TypeOK
  <2>2. task' \in [Ops -> TaskRec \cup {None}]
    BY <1>1, <1>2 DEF submitAsync, TypeOK
  <2>3. req' \in [Threads -> ReqRec \cup {None}]
    BY DEF submitAsync, TypeOK
  <2>4. seqval' \in [Addrs -> Versions] /\ avail' \subseteq Addrs
    BY <1>1 DEF submitAsync, TypeOK
  <2>5. pc' \in [Threads -> {"idle", "insert", "wait", "acquire", "mark",
                             "thrown"}]
    BY <1>10 DEF TypeOK
  <2>6. await' \in [Threads -> AwaitRec]
    <3>1. [task |-> i, call |-> i] \in AwaitRec
      BY <1>1 DEF AwaitRec
    <3> QED BY <1>10, <3>1 DEF TypeOK
  <2>7. capturedTask' \in [Threads -> Versions] /\ lastCall' \in [Threads -> Versions]
    <3>1. /\ capturedTask \in [Threads -> Versions] /\ lastCall \in [Threads -> Versions]
          /\ i \in Versions
      BY <1>1 DEF TypeOK
    <3> HIDE DEF i
    <3> QED BY <1>10, <3>1
  <2> QED BY <1>3, <2>1, <2>2, <2>3, <2>4, <2>5, <2>6, <2>7 DEF TypeOK
<1>5. \A j \in Ops : j # i => st'[j] = st[j] /\ task'[j] = task[j]
  BY <1>1 DEF submitAsync, TypeOK
<1>6. st[i] = "free" /\ st'[i] = "submitted" /\ nops' = i
  BY <1>1 DEF submitAsync, TypeOK, TasksShape, TaskShape, Ops, Versions
<1>7. TasksShape'
  <2> SUFFICES ASSUME NEW j \in Ops
               PROVE  TaskShape(j)'
    BY DEF TasksShape
  <2>1. CASE j = i
    <3>1. task'[i].mode = "RW" \/ task'[i].out \notin task'[i].ins
      BY <1>1 DEF submitAsync, TypeOK
    <3> QED BY <1>1, <1>2, <1>6, <2>1, <3>1 DEF TaskShape, TypeOK, Versions
  <2>2. CASE j # i
    BY <1>5, <1>6, <2>2 DEF TasksShape, TaskShape, Known, TypeOK, Versions, Ops
  <2> QED BY <2>1, <2>2
<1>8. ThreadsShape'
  <2> SUFFICES ASSUME NEW u \in Threads
               PROVE  ThreadShape(u)'
    BY DEF ThreadsShape
  <2>1. CASE u = t
    BY <1>1, <1>3, <1>10, <2>1 DEF ThreadShape, TypeOK
  <2>2. CASE u # t
    <3>1. pc'[u] = pc[u] /\ req'[u] = req[u] /\ await'[u] = await[u]
      BY <2>2 DEF submitAsync, TypeOK
    <3> QED BY <1>3, <1>5, <1>6, <3>1 DEF ThreadsShape, ThreadShape, TypeOK,
          Versions, AcqRec
  <2> QED BY <2>1, <2>2
<1>9. TokensShape'
  <2>1. \A j \in Ops : Known(j) => Known(j)'
    BY <1>5, <1>6 DEF Known
  <2>2. \A j \in Versions : j # 0 => j \in Ops
    BY DEF Versions, Ops
  <2>3. (\A k \in tokens : k.task = k.call /\ k.task \in Ops /\ Known(k.task))'
    BY <1>3, <2>1 DEF TokensShape, Known
  <2>4. ASSUME NEW u \in Threads
        PROVE  (/\ await[u].task = await[u].call
                /\ await[u].task # 0 => Known(await[u].task))'
    <3>1. CASE await'[u] = await[u]
      <4>1. await[u].task \in Versions
        BY DEF TypeOK, AwaitRec
      <4> QED BY <2>1, <2>2, <3>1, <4>1 DEF TokensShape, Known
    <3>2. CASE await'[u] = [task |-> i, call |-> i]
      BY <1>6, <3>2 DEF Known
    <3> QED BY <1>10, <3>1, <3>2 DEF TypeOK
  <2>5. ASSUME NEW u \in Threads
        PROVE  (/\ capturedTask[u] = lastCall[u]
                /\ capturedTask[u] # 0 => Known(capturedTask[u]))'
    <3>1. CASE capturedTask'[u] = capturedTask[u] /\ lastCall'[u] = lastCall[u]
      <4>1. capturedTask[u] \in Versions
        BY DEF TypeOK
      <4> QED BY <2>1, <2>2, <3>1, <4>1 DEF TokensShape, Known
    <3>2. CASE capturedTask'[u] = i /\ lastCall'[u] = i
      BY <1>6, <3>2 DEF Known
    <3> QED BY <1>10, <3>1, <3>2 DEF TypeOK
  <2> QED BY <2>3, <2>4, <2>5 DEF TokensShape
<1> QED BY <1>4, <1>7, <1>8, <1>9

\* The exceptional path of the capture calls and the three capture operations.
LEMMA CaptureShape ==
    ASSUME Shape, NEW t \in Threads, CaptureCalls(t)
    PROVE  Shape'
<1> USE BoundsAssumption DEF Shape
<1>1. \A j \in Versions : j # 0 => j \in Ops
  BY DEF Versions, Ops
<1>2. CASE Throw(t)
  <2>1. UNCHANGED <<ram, dev, valid, registry, registered, nops, task, st, node,
                   starpuRunning, req, await, acq, marking, captureActive,
                   capturedTask, lastCall, tokens, errors, failures, seqval, avail>>
    BY <1>2 DEF Throw, data, reg, queue, capture, faults, ghosts
  <2>2. TypeOK'
    BY <1>2, <2>1 DEF Throw, TypeOK
  <2>3. TasksShape' /\ TokensShape'
    BY <2>1 DEF TasksShape, TaskShape, TokensShape, Known
  <2>4. ThreadsShape'
    BY <1>2, <2>1 DEF Throw, ThreadsShape, ThreadShape, TypeOK
  <2> QED BY <2>2, <2>3, <2>4
<1>3. CASE /\ captureActive' = [captureActive EXCEPT ![t] = TRUE]
           /\ capturedTask' = [capturedTask EXCEPT ![t] = 0]
           /\ lastCall' = [lastCall EXCEPT ![t] = 0]
           /\ UNCHANGED <<data, reg, queue, starpuRunning, threads, tokens,
                          faults, ghosts>>
  <2>1. UNCHANGED <<ram, dev, valid, registry, registered, nops, task, st, node,
                   starpuRunning, pc, req, await, acq, marking, tokens, errors,
                   failures, seqval, avail>>
    BY <1>3 DEF data, reg, queue, threads, faults, ghosts
  <2>2. TypeOK'
    BY <1>3, <2>1 DEF TypeOK, Versions
  <2>3. TasksShape' /\ ThreadsShape'
    BY <2>1 DEF TasksShape, TaskShape, ThreadsShape, ThreadShape, Known
  <2>4. TokensShape'
    BY <1>3, <2>1 DEF TokensShape, Known, TypeOK
  <2> QED BY <2>2, <2>3, <2>4
<1>4. CASE /\ captureActive' = [captureActive EXCEPT ![t] = FALSE]
           /\ capturedTask' = [capturedTask EXCEPT ![t] = 0]
           /\ lastCall' = [lastCall EXCEPT ![t] = 0]
           /\ tokens' = tokens \cup
                {[task |-> i, call |-> lastCall[t]] :
                    i \in {capturedTask[t]} \ {0}}
           /\ UNCHANGED <<data, reg, queue, starpuRunning, threads, faults,
                          ghosts>>
  <2>1. UNCHANGED <<ram, dev, valid, registry, registered, nops, task, st, node,
                   starpuRunning, pc, req, await, acq, marking, errors,
                   failures, seqval, avail>>
    BY <1>4 DEF data, reg, queue, threads, faults, ghosts
  <2>2. \A k \in tokens' \ tokens :
           /\ k = [task |-> capturedTask[t], call |-> lastCall[t]]
           /\ capturedTask[t] # 0
    BY <1>4
  <2>3. \A k \in tokens' \ tokens :
           k \in AwaitRec /\ k.task = k.call /\ k.task \in Ops /\ Known(k.task)
    BY <1>1, <2>2 DEF TokensShape, TypeOK, AwaitRec
  <2>4. TypeOK'
    BY <1>4, <2>1, <2>3 DEF TypeOK, Versions
  <2>5. TasksShape' /\ ThreadsShape'
    BY <2>1 DEF TasksShape, TaskShape, ThreadsShape, ThreadShape, Known
  <2>6. TokensShape'
    BY <1>4, <2>1, <2>3 DEF TokensShape, Known, TypeOK
  <2> QED BY <2>4, <2>5, <2>6
<1>5. CASE /\ capturedTask[t] # 0
           /\ await' = [await EXCEPT ![t] = [task |-> capturedTask[t],
                                             call |-> lastCall[t]]]
           /\ pc' = [pc EXCEPT ![t] = "wait"]
           /\ UNCHANGED <<data, reg, queue, starpuRunning, req, acq, marking,
                          capture, tokens, faults, ghosts>>
  <2>1. UNCHANGED <<ram, dev, valid, registry, registered, nops, task, st, node,
                   starpuRunning, req, acq, marking, captureActive, capturedTask,
                   lastCall, tokens, errors, failures, seqval, avail>>
    BY <1>5 DEF data, reg, queue, capture, faults, ghosts
  <2>2. /\ capturedTask[t] = lastCall[t]
        /\ capturedTask[t] \in Ops
        /\ Known(capturedTask[t])
        /\ [task |-> capturedTask[t], call |-> lastCall[t]] \in AwaitRec
    BY <1>1, <1>5 DEF TokensShape, TypeOK, AwaitRec
  <2>3. TypeOK'
    BY <1>5, <2>1, <2>2 DEF TypeOK
  <2>4. TasksShape'
    BY <2>1 DEF TasksShape, TaskShape, Known
  <2>5. ThreadsShape'
    BY <1>5, <2>1, <2>2 DEF ThreadsShape, ThreadShape, TypeOK
  <2>6. TokensShape'
    BY <1>5, <2>1, <2>2 DEF TokensShape, Known, TypeOK
  <2> QED BY <2>3, <2>4, <2>5, <2>6
<1> QED BY <1>2, <1>3, <1>4, <1>5 DEF CaptureCalls, beginIyokanStarpuCapture,
      endIyokanStarpuCapture, synchronizeIyokanStarpuCapture

\* Polling a token and leaving the spin loop of waitForTask.
LEMMA WaitShape ==
    ASSUME Shape, NEW t \in Threads,
           waitForTask(t) \/ \E k \in tokens : PollToken(t, k)
    PROVE  Shape'
<1> USE BoundsAssumption DEF Shape
<1>1. CASE waitForTask(t)
  <2>1. UNCHANGED <<ram, dev, valid, registry, registered, nops, task, st, node,
                   starpuRunning, req, marking, captureActive, capturedTask,
                   lastCall, tokens, errors, failures, seqval, avail>>
    BY <1>1 DEF waitForTask, data, reg, queue, capture, faults, ghosts
  <2>2. await[t].task \in Ops /\ st[await[t].task] = "finished"
    BY <1>1 DEF waitForTask, ThreadsShape, ThreadShape
  <2>3. task[await[t].task] \in TaskRec
    BY <2>2 DEF TasksShape, TaskShape, Known
  <2>4. [h |-> task[await[t].task].out, mode |-> "R", pos |-> nops] \in AcqRec
    BY <2>3 DEF AcqRec, TaskRec, TypeOK
  <2>5. NoAwait \in AwaitRec
    BY DEF NoAwait, AwaitRec, Versions
  <2>6. TypeOK'
    <3>1. pc' \in [Threads -> {"idle", "insert", "wait", "acquire", "mark",
                               "thrown"}]
      BY <1>1 DEF waitForTask, TypeOK
    <3>2. await' \in [Threads -> AwaitRec]
      BY <1>1, <2>5 DEF waitForTask, TypeOK
    <3>3. acq' \in [Threads -> AcqRec \cup {None}]
      BY <1>1, <2>4 DEF waitForTask, TypeOK
    <3> QED BY <2>1, <3>1, <3>2, <3>3 DEF TypeOK
  <2>7. TasksShape'
    BY <2>1 DEF TasksShape, TaskShape, Known
  <2>8. ThreadsShape'
    BY <1>1, <2>1, <2>2, <2>4 DEF waitForTask, ThreadsShape, ThreadShape, TypeOK,
      Versions
  <2>9. TokensShape'
    BY <1>1, <2>1 DEF waitForTask, TokensShape, Known, TypeOK, NoAwait
  <2> QED BY <2>6, <2>7, <2>8, <2>9
<1>2. ASSUME NEW k \in tokens, PollToken(t, k)
      PROVE  Shape'
  <2>1. UNCHANGED <<ram, dev, valid, registry, registered, nops, task, st, node,
                   starpuRunning, req, acq, marking, captureActive, capturedTask,
                   lastCall, tokens, errors, failures, seqval, avail>>
    BY <1>2 DEF PollToken, data, reg, queue, capture, faults, ghosts
  <2>2. k \in AwaitRec /\ k.task = k.call /\ k.task \in Ops /\ Known(k.task)
    BY DEF TokensShape, TypeOK
  <2>3. TypeOK'
    BY <1>2, <2>1, <2>2 DEF PollToken, TypeOK
  <2>4. TasksShape'
    BY <2>1 DEF TasksShape, TaskShape, Known
  <2>5. ThreadsShape'
    BY <1>2, <2>1, <2>2 DEF PollToken, ThreadsShape, ThreadShape, TypeOK
  <2>6. TokensShape'
    BY <1>2, <2>1, <2>2 DEF PollToken, TokensShape, Known, TypeOK
  <2> QED BY <2>3, <2>4, <2>5, <2>6
<1> QED BY <1>1, <1>2

\* Transfers change no shape: SetCopy stores a version where there was one.
LEMMA SetCopyType ==
    ASSUME TypeOK, NEW h \in Handles, NEW n \in Nodes, NEW v \in Versions,
           SetCopy(h, n, v)
    PROVE  /\ ram' \in [Addrs -> Versions]
           /\ dev' \in [Handles -> [Devices -> Versions]]
<1>1. h[1] \in Addrs
  BY DEF Handles
<1>2. CASE n = MainRam
  BY <1>1, <1>2 DEF SetCopy, TypeOK
<1>3. CASE n # MainRam
  <2>1. n \in Devices /\ dev[h] \in [Devices -> Versions]
    BY <1>3 DEF Nodes, TypeOK
  <2>2. [dev[h] EXCEPT ![n] = v] \in [Devices -> Versions]
    BY <2>1
  <2> QED BY <1>3, <2>2 DEF SetCopy, TypeOK
<1> QED BY <1>2, <1>3

\* A replica holds a version.
LEMMA CopyType ==
    ASSUME TypeOK, NEW h \in Handles, NEW n \in Nodes
    PROVE  Copy(h, n) \in Versions
BY DEF Copy, TypeOK, Nodes, Handles

\* The acquire and release of synchronizeOutput.
LEMMA SynchronizeShape ==
    ASSUME Shape, NEW t \in Threads, synchronizeOutput(t)
    PROVE  Shape'
<1> USE BoundsAssumption DEF Shape
<1>1. UNCHANGED <<registry, registered, nops, task, st, node, starpuRunning,
                   req, marking, captureActive, capturedTask, lastCall, errors,
                   failures, seqval>>
  BY DEF synchronizeOutput, reg, queue, capture, faults
<1>2. /\ acq[t] \in AcqRec /\ await[t].task \in Ops
      /\ st[await[t].task] = "finished"
      /\ await[t].call = await[t].task
  BY DEF synchronizeOutput, ThreadsShape, ThreadShape, TokensShape
<1>3. task[await[t].call] \in TaskRec
  BY <1>2 DEF TasksShape, TaskShape, Known
<1>4. TypeOK'
  <2>1. /\ ram' \in [Addrs -> Versions]
        /\ dev' \in [Handles -> [Devices -> Versions]]
        /\ valid' \in [Handles -> SUBSET Nodes]
    <3>1. CASE MainRam \in valid[acq[t].h]
      BY <3>1 DEF synchronizeOutput, data, TypeOK
    <3>2. CASE MainRam \notin valid[acq[t].h]
      <4>1. PICK src \in valid[acq[t].h] :
               /\ SetCopy(acq[t].h, MainRam, Copy(acq[t].h, src))
               /\ valid' = [valid EXCEPT ![acq[t].h] = @ \cup {MainRam}]
        BY <3>2 DEF synchronizeOutput
      <4>2. acq[t].h \in Handles /\ src \in Nodes /\ MainRam \in Nodes
        BY <1>2 DEF AcqRec, TypeOK, Nodes
      <4>3. Copy(acq[t].h, src) \in Versions
        BY <4>2, CopyType
      <4> QED BY <4>1, <4>2, <4>3, SetCopyType DEF TypeOK
    <3> QED BY <3>1, <3>2
  <2>2. avail' \subseteq Addrs
    BY <1>3 DEF synchronizeOutput, TypeOK, TaskRec, Handles
  <2>3. /\ await' \in [Threads -> AwaitRec]
        /\ acq' \in [Threads -> AcqRec \cup {None}]
        /\ pc' \in [Threads -> {"idle", "insert", "wait", "acquire", "mark",
                                 "thrown"}]
    BY DEF synchronizeOutput, TypeOK, NoAwait, AwaitRec, Versions
  <2>4. tokens' \subseteq AwaitRec
    BY DEF synchronizeOutput, TypeOK
  <2> QED BY <1>1, <2>1, <2>2, <2>3, <2>4 DEF TypeOK
<1>5. TasksShape'
  BY <1>1 DEF TasksShape, TaskShape, Known
<1>6. ThreadsShape'
  BY <1>1 DEF synchronizeOutput, ThreadsShape, ThreadShape, TypeOK
<1>7. TokensShape'
  BY <1>1 DEF synchronizeOutput, TokensShape, Known, TypeOK, NoAwait
<1> QED BY <1>4, <1>5, <1>6, <1>7

\* The calls that throw: starpu_task_insert or starpu_data_acquire failed.
LEMMA FailsShape ==
    ASSUME Shape, NEW t \in Threads, Fails(t)
    PROVE  Shape'
<1> USE BoundsAssumption DEF Shape
<1>1. /\ UNCHANGED <<ram, dev, valid, registry, registered, nops, task, st, node,
                     starpuRunning, marking, captureActive, capturedTask,
                     lastCall, tokens, seqval, avail>>
      /\ pc' = [pc EXCEPT ![t] = "thrown"]
      /\ failures < MaxFailures /\ failures' = failures + 1
  BY DEF Fails, submitFails, synchronizeFails, acquireHostWriteFails, data, reg,
    queue, capture, ghosts
<1>2. \/ req' = req
      \/ req' = [req EXCEPT ![t] = None]
  BY DEF Fails, submitFails, synchronizeFails, acquireHostWriteFails
<1>3. \/ await' = await
      \/ await' = [await EXCEPT ![t] = NoAwait]
  BY DEF Fails, submitFails, synchronizeFails, acquireHostWriteFails
<1>4. \/ acq' = acq
      \/ acq' = [acq EXCEPT ![t] = None]
  BY DEF Fails, submitFails, synchronizeFails, acquireHostWriteFails
<1>5. errors' \subseteq Ops
  BY DEF Fails, submitFails, synchronizeFails, acquireHostWriteFails, TypeOK,
    ThreadsShape, ThreadShape
<1>6. TypeOK'
  <2>1. failures' \in 0..MaxFailures
    BY <1>1 DEF TypeOK
  <2>2. req' \in [Threads -> ReqRec \cup {None}]
    BY <1>2 DEF TypeOK
  <2>3. await' \in [Threads -> AwaitRec]
    <3>1. NoAwait \in AwaitRec BY DEF NoAwait, AwaitRec, Versions
    <3> QED BY <1>3, <3>1 DEF TypeOK
  <2>4. acq' \in [Threads -> AcqRec \cup {None}]
    BY <1>4 DEF TypeOK
  <2>5. pc' \in [Threads -> {"idle", "insert", "wait", "acquire", "mark",
                             "thrown"}]
    BY <1>1 DEF TypeOK
  <2> QED BY <1>1, <1>5, <2>1, <2>2, <2>3, <2>4, <2>5 DEF TypeOK
<1>7. TasksShape'
  BY <1>1 DEF TasksShape, TaskShape, Known
<1>8. ThreadsShape'
  BY <1>1, <1>2, <1>3, <1>4 DEF ThreadsShape, ThreadShape, TypeOK
<1>9. TokensShape'
  BY <1>1, <1>3 DEF TokensShape, Known, TypeOK, NoAwait
<1> QED BY <1>6, <1>7, <1>8, <1>9

\* A CPU-only task of the frontend overwrites a value.
LEMMA HostWriteShape ==
    ASSUME Shape, NEW t \in Threads, NEW a \in Addrs, HostWrite(t, a)
    PROVE  Shape'
<1> USE BoundsAssumption DEF Shape
<1> DEFINE i == nops + 1
<1>1. UNCHANGED <<dev, valid, registry, registered, task, node, starpuRunning,
                   req, await, acq, captureActive, capturedTask, lastCall,
                   tokens, errors, failures, avail>>
  BY DEF HostWrite, reg, capture, faults
<1>2. i \in Ops /\ i \in Versions /\ nops' = i
  <2>1. nops < MaxOps
    <3>1. Budget BY DEF HostWrite
    <3> QED BY <3>1 DEF Budget
  <2> QED BY <2>1 DEF HostWrite, TypeOK, Ops, Versions
<1>3. st[i] = "free" /\ st' = [st EXCEPT ![i] = "host"]
  BY <1>2 DEF HostWrite, TasksShape, TaskShape, TypeOK, Versions
<1>4. TypeOK'
  BY <1>1, <1>2, <1>3 DEF HostWrite, TypeOK
<1>5. TasksShape'
  BY <1>1, <1>2, <1>3 DEF TasksShape, TaskShape, Known, TypeOK, Ops, Versions
<1>6. \A j \in Ops : st[j] # "free" => st'[j] = st[j]
  BY <1>2, <1>3 DEF TypeOK
<1>7. ThreadsShape'
  BY <1>1, <1>2, <1>6 DEF HostWrite, ThreadsShape, ThreadShape, TypeOK, AcqRec,
    Versions
<1>8. TokensShape'
  <2>1. \A j \in Versions : j # 0 => j \in Ops
    BY DEF Versions, Ops
  <2>2. \A j \in Ops : Known(j) => Known(j)'
    BY <1>6 DEF Known
  <2>3. \A u \in Threads : await[u].task \in Versions /\ capturedTask[u] \in Versions
    BY DEF TypeOK, AwaitRec
  <2> QED BY <1>1, <2>1, <2>2, <2>3 DEF TokensShape, Known
<1> QED BY <1>4, <1>5, <1>7, <1>8

\* markIyokan*HostWrite, up to and including its acquire.
LEMMA MarkShape ==
    ASSUME Shape, NEW t \in Threads, markHostWrite(t) \/ acquireHostWrite(t)
    PROVE  Shape'
<1> USE BoundsAssumption DEF Shape
<1>1. CASE markHostWrite(t)
  <2>1. UNCHANGED <<ram, dev, valid, registry, registered, nops, task, st, node,
                   starpuRunning, req, await, captureActive, capturedTask,
                   lastCall, tokens, errors, failures, seqval, avail>>
    BY <1>1 DEF markHostWrite, data, reg, queue, capture, faults, ghosts
  <2>2. marking[t] \in Addrs
    BY <1>1 DEF markHostWrite, ThreadsShape, ThreadShape
  <2>3. registry[marking[t]] # 0 =>
           [h |-> <<marking[t], registry[marking[t]]>>, mode |-> "W", pos |-> nops]
              \in AcqRec
    BY <2>2 DEF AcqRec, TypeOK, Handles
  <2>4. TypeOK'
    BY <1>1, <2>1, <2>3 DEF markHostWrite, TypeOK
  <2>5. TasksShape' /\ TokensShape'
    BY <2>1 DEF TasksShape, TaskShape, TokensShape, Known
  <2>6. ThreadsShape'
    <3> SUFFICES ASSUME NEW u \in Threads PROVE ThreadShape(u)'
      BY DEF ThreadsShape
    <3>1. CASE u # t
      <4>1. pc'[u] = pc[u] /\ marking'[u] = marking[u] /\ acq'[u] = acq[u]
        BY <1>1, <3>1 DEF markHostWrite, TypeOK
      <4> QED BY <2>1, <4>1 DEF ThreadsShape, ThreadShape
    <3>2. CASE u = t /\ registry[marking[t]] = 0
      <4>1. pc'[t] = "idle"
        BY <1>1, <3>2 DEF markHostWrite, TypeOK
      <4> QED BY <3>2, <4>1 DEF ThreadShape
    <3>3. CASE u = t /\ registry[marking[t]] # 0
      <4> DEFINE q == [h |-> <<marking[t], registry[marking[t]]>>, mode |-> "W",
                       pos |-> nops]
      <4>1. pc'[t] = "acquire" /\ marking'[t] = marking[t] /\ acq'[t] = q
        BY <1>1, <3>3 DEF markHostWrite, TypeOK
      <4>2. q \in AcqRec /\ q.pos <= nops /\ q.mode = "W" /\ q.h[1] = marking[t]
        BY <2>3, <3>3 DEF TypeOK, Versions
      <4> QED BY <2>1, <3>3, <4>1, <4>2 DEF ThreadShape
    <3> QED BY <3>1, <3>2, <3>3
  <2> QED BY <2>4, <2>5, <2>6
<1>2. CASE acquireHostWrite(t)
  <2>1. UNCHANGED <<ram, dev, registry, registered, nops, task, st, node,
                   starpuRunning, req, await, captureActive, capturedTask,
                   lastCall, tokens, errors, failures, seqval, avail>>
    BY <1>2 DEF acquireHostWrite, reg, queue, capture, faults, ghosts
  <2>2. TypeOK'
    BY <1>2, <2>1 DEF acquireHostWrite, TypeOK, Nodes
  <2>3. TasksShape' /\ TokensShape'
    BY <2>1 DEF TasksShape, TaskShape, TokensShape, Known
  <2>4. ThreadsShape'
    BY <1>2, <2>1 DEF acquireHostWrite, ThreadsShape, ThreadShape, TypeOK
  <2> QED BY <2>2, <2>3, <2>4
<1> QED BY <1>1, <1>2

\* The steps of StarPU on a task: transfer, start, completion, callback.
LEMMA WorkerShape ==
    ASSUME Shape, NEW i \in Ops, WorkerStep(i)
    PROVE  Shape'
<1> USE BoundsAssumption DEF Shape
<1>1. st[i] \in {"submitted", "running", "executed"}
  BY DEF WorkerStep, Transfer, Execute, Fetch, Start, Complete, taskCompleted,
    Ready
<1>2. task[i] \in TaskRec
  BY <1>1 DEF TasksShape, TaskShape, Known
<1>3. UNCHANGED <<registry, registered, nops, task, starpuRunning, pc, req,
                   await, acq, marking, captureActive, capturedTask, lastCall,
                   tokens, errors, failures, seqval, avail>>
  BY DEF WorkerStep, Transfer, Execute, Fetch, Start, Complete, taskCompleted,
    data, reg, queue, threads, capture, faults, ghosts
<1>4. \/ st' = st
      \/ \E x \in {"running", "executed", "finished"} : st' = [st EXCEPT ![i] = x]
  BY DEF WorkerStep, Transfer, Execute, Fetch, Start, Complete, taskCompleted,
    queue
<1>5. \/ node' = node
      \/ \E n \in Nodes : node' = [node EXCEPT ![i] = n]
  BY DEF WorkerStep, Transfer, Execute, Fetch, Start, Complete, taskCompleted,
    queue
<1>6. /\ ram' \in [Addrs -> Versions]
      /\ dev' \in [Handles -> [Devices -> Versions]]
      /\ valid' \in [Handles -> SUBSET Nodes]
  <2>1. ASSUME NEW h \in Handles, NEW n \in Nodes, Fetch(i, h, n)
        PROVE  /\ ram' \in [Addrs -> Versions]
               /\ dev' \in [Handles -> [Devices -> Versions]]
               /\ valid' \in [Handles -> SUBSET Nodes]
    <3>1. PICK src \in valid[h] : SetCopy(h, n, Copy(h, src))
      BY <2>1 DEF Fetch
    <3>2. src \in Nodes
      BY DEF TypeOK
    <3>3. Copy(h, src) \in Versions
      BY <3>2, CopyType
    <3>4. valid' = [valid EXCEPT ![h] = @ \cup {n}]
      BY <2>1 DEF Fetch
    <3> QED BY <3>1, <3>3, <3>4, SetCopyType DEF TypeOK
  <2>2. ASSUME NEW n \in Nodes, Start(i, n)
        PROVE  /\ ram' = ram
               /\ dev' = dev
               /\ valid' \in [Handles -> SUBSET Nodes]
    BY <2>2 DEF Start, TypeOK
  <2>3. ASSUME Complete(i)
        PROVE  /\ ram' \in [Addrs -> Versions]
               /\ dev' \in [Handles -> [Devices -> Versions]]
               /\ valid' = valid
    <3>1. task[i].out \in Handles /\ node[i] \in Nodes /\ i \in Versions
      BY <1>2 DEF TaskRec, TypeOK, Ops, Versions
    <3> QED BY <2>3, <3>1, SetCopyType DEF Complete
  <2>4. ASSUME taskCompleted(i)
        PROVE  UNCHANGED <<ram, dev, valid>>
    BY <2>4 DEF taskCompleted, data
  <2> QED BY <2>1, <2>2, <2>3, <2>4 DEF WorkerStep, Transfer, Execute, TypeOK
<1>7. TypeOK'
  <2>1. st' \in [Ops -> {"free", "submitted", "running", "executed", "finished",
                         "host"}]
    BY <1>4 DEF TypeOK
  <2>2. node' \in [Ops -> Nodes]
    BY <1>5 DEF TypeOK
  <2> QED BY <1>3, <1>6, <2>1, <2>2 DEF TypeOK
<1>8. \A j \in Ops : /\ st[j] = "free" <=> st'[j] = "free"
                     /\ Known(j) <=> Known(j)'
                     /\ st[j] = "finished" => st'[j] = "finished"
  BY <1>1, <1>4 DEF Known, TypeOK
<1>9. TasksShape'
  BY <1>3, <1>8 DEF TasksShape, TaskShape
<1>10. ThreadsShape'
  BY <1>3, <1>8 DEF ThreadsShape, ThreadShape
<1>11. TokensShape'
  <2>1. \A j \in Versions : j # 0 => j \in Ops
    BY DEF Versions, Ops
  <2>2. \A u \in Threads : await[u].task \in Versions /\ capturedTask[u] \in Versions
    BY DEF TypeOK, AwaitRec
  <2> QED BY <1>3, <1>8, <2>1, <2>2 DEF TokensShape
<1> QED BY <1>7, <1>9, <1>10, <1>11

\* shutdownIyokanStarpu empties the registry and touches no task.
LEMMA ShutdownShape ==
    ASSUME Shape, shutdownIyokanStarpu
    PROVE  Shape'
<1> USE BoundsAssumption DEF Shape
<1>1. UNCHANGED <<ram, dev, registered, nops, task, st, node, pc, req, await,
                   acq, marking, captureActive, capturedTask, lastCall, tokens,
                   errors, failures, seqval, avail>>
  BY DEF shutdownIyokanStarpu, queue, threads, capture, faults, ghosts
<1>2. TypeOK'
  <2>1. registry' \in [Addrs -> 0..MaxRegs]
    BY DEF shutdownIyokanStarpu
  <2>3. starpuRunning' \in BOOLEAN
    BY DEF shutdownIyokanStarpu
  <2>2. valid' \in [Handles -> SUBSET Nodes]
    BY DEF shutdownIyokanStarpu
  <2> QED BY <1>1, <2>1, <2>2, <2>3 DEF TypeOK
<1>3. TasksShape' /\ ThreadsShape' /\ TokensShape'
  BY <1>1 DEF TasksShape, TaskShape, ThreadsShape, ThreadShape, TokensShape, Known
<1> QED BY <1>2, <1>3

\* Stuttering.
LEMMA StutterShape ==
    ASSUME Shape, UNCHANGED vars
    PROVE  Shape'
<1>1. UNCHANGED <<ram, dev, valid, registry, registered, nops, task, st, node,
                   starpuRunning, pc, req, await, acq, marking, captureActive,
                   capturedTask, lastCall, tokens, errors, failures, seqval,
                   avail>>
  BY DEF vars, data, reg, queue, threads, capture, faults, ghosts
<1> QED BY <1>1 DEF Shape, TypeOK, TasksShape, TaskShape, ThreadsShape,
      ThreadShape, TokensShape, Known

\* Every step preserves the shape; one case per action.
LEMMA NextShape ==
    ASSUME Shape, [Next]_vars
    PROVE  Shape'
<1>1. ASSUME NEW t \in Threads, ThreadStep(t)
      PROVE  Shape'
  <2>1. CASE GateCalls(t) \/ RamCalls(t)
    BY <2>1, CallsPrepare, PrepareShape
  <2>2. CASE Continue(t)
    BY <2>2, SubmitShape, WaitShape, SynchronizeShape, MarkShape DEF Continue
  <2> QED BY <1>1, <2>1, <2>2, CaptureShape, WaitShape, HostWriteShape, FailsShape
        DEF ThreadStep
<1>2. ASSUME NEW i \in Ops, WorkerStep(i)
      PROVE  Shape'
  BY <1>2, WorkerShape
<1> QED BY <1>1, <1>2, ShutdownShape, StutterShape DEF Next, Terminated

\* Every variable of the backend keeps its type, for any number of threads,
\* values, devices and operations.
THEOREM TypeCorrect == Spec => []TypeOK
<1>1. Init => Shape
  BY InitShape
<1>2. Shape /\ [Next]_vars => Shape'
  BY NextShape
<1>3. Shape => TypeOK
  BY DEF Shape
<1> QED BY <1>1, <1>2, <1>3, PTL DEF Spec
============================================================================
