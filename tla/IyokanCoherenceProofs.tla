----------------------- MODULE IyokanCoherenceProofs -----------------------
(***************************************************************************)
(* TLAPS proof that every codelet reads the versions of submission order   *)
(* and that synchronized results are in main memory (CoherentReads and     *)
(* SynchronizedOutputs of IyokanBackend).                                  *)
(***************************************************************************)
EXTENDS IyokanBackendProofs

USE DEF AddrOf

Coherence ==
    /\ HandlesCurrent
    /\ RunningExclusive
    /\ ReadsHold
    /\ SequenceHolds
    /\ AvailableStable
    /\ MarkedQuiet

Inv == Shape /\ Coherence

----------------------------------------------------------------------------
(* Handles, accesses and copies *)

\* A current handle is determined by its address.
LEMMA CurrentUnique ==
    ASSUME NEW g \in Handles, NEW h \in Handles, Current(g), Current(h),
           g[1] = h[1]
    PROVE  g = h
BY DEF Current, Handles

\* A current handle's address has an entry in the registry.
LEMMA CurrentRegistered ==
    ASSUME NEW h \in Handles, Current(h)
    PROVE  h[1] \in Addrs /\ registry[h[1]] # 0
BY BoundsAssumption DEF Current, Handles

\* The handles of an inserted task.
LEMMA KnownHandles ==
    ASSUME Shape, NEW i \in Ops, Known(i)
    PROVE  /\ task[i].out \in Handles
           /\ Touched(task[i]) \subseteq Handles
           /\ Reads(task[i]) \subseteq Touched(task[i])
           /\ Fetched(task[i]) = Reads(task[i])
<1>1. task[i] \in TaskRec /\ (task[i].mode = "RW" \/ task[i].out \notin task[i].ins)
  BY DEF Shape, TasksShape, TaskShape
<1> QED BY <1>1 DEF TaskRec, Touched, Reads, Fetched

\* What a transfer or a codelet's store does to the copies of other handles.
LEMMA CopySet ==
    ASSUME TypeOK, NEW h \in Handles, NEW n \in Nodes, NEW v,
           SetCopy(h, n, v), NEW g \in Handles, NEW m \in Nodes,
           g[1] = h[1] => g = h
    PROVE  Copy(g, m)' = IF g = h /\ m = n THEN v ELSE Copy(g, m)
<1>1. g[1] \in Addrs /\ h[1] \in Addrs
  BY DEF Handles
<1>2. CASE n = MainRam
  BY <1>1, <1>2 DEF SetCopy, Copy, TypeOK
<1>3. CASE n # MainRam
  <2>1. n \in Devices /\ dev[h] \in [Devices -> Versions]
    BY <1>3 DEF Nodes, TypeOK
  <2>2. CASE m = MainRam
    BY <1>3, <2>2 DEF SetCopy, Copy
  <2>3. CASE m # MainRam
    <3>1. m \in Devices /\ dev[g] \in [Devices -> Versions]
      BY <2>3 DEF Nodes, TypeOK
    <3>2. dev' = [dev EXCEPT ![h] = [dev[h] EXCEPT ![n] = v]]
      BY <1>3, <2>1 DEF SetCopy, TypeOK
    <3>3. CASE g = h
      BY <2>1, <2>3, <3>1, <3>2, <3>3 DEF Copy, TypeOK
    <3>4. CASE g # h
      BY <2>3, <3>2, <3>4 DEF Copy, TypeOK
    <3> QED BY <3>3, <3>4
  <2> QED BY <2>2, <2>3
<1> QED BY <1>2, <1>3

\* Copying a valid replica to another node changes no version anyone relies on.
LEMMA ReplicateHolds ==
    ASSUME TypeOK, NEW h \in Handles, NEW n \in Nodes, NEW src \in valid[h],
           SetCopy(h, n, Copy(h, src)),
           valid' = [valid EXCEPT ![h] = @ \cup {n}],
           UNCHANGED <<st, task>>,
           NEW g \in Handles, g[1] = h[1] => g = h,
           NEW k, NEW v, Holds(g, k, v)
    PROVE  Holds(g, k, v)'
<1>1. \A j : Pending(j, g)' <=> Pending(j, g)
  BY DEF Pending, Unexecuted
<1>2. \A m \in valid[g] : m \in Nodes
  BY DEF TypeOK
<1>3. ASSUME \A m \in valid[g] : Copy(g, m) = v,
             NEW m \in valid'[g]
      PROVE  Copy(g, m)' = v
  <2>1. CASE g = h /\ m = n
    BY <1>3, <2>1, CopySet
  <2>2. CASE ~(g = h /\ m = n)
    <3>1. m \in valid[g]
      BY <2>2, <1>3 DEF TypeOK
    <3> QED BY <1>2, <1>3, <2>2, <3>1, CopySet
  <2> QED BY <2>1, <2>2
<1> QED BY <1>1, <1>3 DEF Holds

----------------------------------------------------------------------------
(* Steps inside a call that change no data: capture calls, polling, failures,*)
(* and asking for an acquire.                                                *)

\* A step that changes no data, no task and no handle preserves coherence.
LEMMA QuietCoherent ==
    ASSUME Inv, Shape',
           UNCHANGED <<ram, dev, valid, registry, nops, task, st, node,
                       starpuRunning, marking, seqval, avail>>,
           \A u \in Threads : pc'[u] = "insert" =>
              pc[u] = "insert" /\ req'[u] = req[u],
           \A u \in Threads : pc'[u] = "acquire" =>
              \/ pc[u] = "acquire" /\ acq'[u] = acq[u]
              \/ acq'[u].pos = nops /\ (starpuRunning => Current(acq'[u].h)),
           ~starpuRunning => \A u \in Threads : pc'[u] \in {"idle", "thrown"},
           \A u \in Threads : InMark(u) => InMark(u)'
    PROVE  Coherence'
<1> USE DEF Inv, Coherence
<1>1. HandlesCurrent'
  BY DEF HandlesCurrent, Known, Unexecuted, Touched, Current
<1>2. \A i \in Ops : st[i] = "running" => i <= nops
  BY DEF Shape, TasksShape, TaskShape, TypeOK, Ops, Versions
<1>3. RunningExclusive'
  <2> SUFFICES ASSUME NEW i \in Ops, st[i] = "running"
               PROVE  (/\ \A j \in 1..(i - 1) :
                             Unexecuted(j) => ~Conflict(task[j], task[i])
                       /\ \A t \in Threads : pc[t] = "acquire" /\ acq[t].pos < i =>
                             ~AcqConflict(acq[t], task[i])
                       /\ valid[task[i].out] = {node[i]}
                       /\ \A h \in Reads(task[i]) : node[i] \in valid[h])'
    BY DEF RunningExclusive
  <2>1. i <= nops
    BY <1>2
  <2>2. ASSUME NEW t \in Threads, pc'[t] = "acquire", acq'[t].pos < i
        PROVE  ~AcqConflict(acq'[t], task[i])
    <3>1. acq'[t].pos # nops
      BY <2>1, <2>2, BoundsAssumption DEF Shape, TypeOK, Versions, Ops
    <3> QED BY <2>2, <3>1 DEF RunningExclusive
  <2> QED BY <2>2 DEF RunningExclusive, Unexecuted, Conflict, AcqConflict, Touched,
        Reads
<1>4. ReadsHold' /\ SequenceHolds'
  BY DEF ReadsHold, SequenceHolds, Holds, Pending, Unexecuted, Copy, Current, Reads
<1>5. AvailableStable'
  BY DEF AvailableStable, Pending, Unexecuted, Current
<1>6. MarkedQuiet'
  <2>1. \A u \in Threads : marking[u] \in Addrs => InMark(u)'
    BY DEF MarkedQuiet
  <2> QED BY <2>1 DEF MarkedQuiet, Unexecuted, Touched
<1> QED BY <1>1, <1>3, <1>4, <1>5, <1>6

\* The actions QuietCoherent covers.
LEMMA QuietSteps ==
    ASSUME Inv, Shape', NEW t \in Threads,
           \/ CaptureCalls(t)
           \/ \E k \in tokens : PollToken(t, k)
           \/ waitForTask(t)
           \/ Fails(t)
    PROVE  Coherence'
<1> USE DEF Inv
<1>1. /\ UNCHANGED <<ram, dev, valid, registry, nops, task, st, node,
                     starpuRunning, marking, seqval, avail>>
      /\ \A u \in Threads \ {t} :
            pc'[u] = pc[u] /\ req'[u] = req[u] /\ acq'[u] = acq[u]
  BY DEF CaptureCalls, beginIyokanStarpuCapture, endIyokanStarpuCapture,
    synchronizeIyokanStarpuCapture, Throw, PollToken, waitForTask, Fails,
    submitFails, synchronizeFails, acquireHostWriteFails, Shape, TypeOK, data, reg,
    queue, threads, capture, faults, ghosts
<1>2. starpuRunning
  BY DEF CaptureCalls, beginIyokanStarpuCapture, endIyokanStarpuCapture,
    synchronizeIyokanStarpuCapture, PollToken, waitForTask, Fails, submitFails,
    synchronizeFails, acquireHostWriteFails, Coherence, HandlesCurrent
<1>3. pc'[t] # "insert"
  BY DEF CaptureCalls, beginIyokanStarpuCapture, endIyokanStarpuCapture,
    synchronizeIyokanStarpuCapture, Throw, PollToken, waitForTask, Fails,
    submitFails, synchronizeFails, acquireHostWriteFails, Shape, TypeOK, threads
<1>4. ASSUME pc'[t] = "acquire"
      PROVE  acq'[t].pos = nops /\ Current(acq'[t].h)
  <2>1. waitForTask(t)
    BY <1>4 DEF CaptureCalls, beginIyokanStarpuCapture, endIyokanStarpuCapture,
      synchronizeIyokanStarpuCapture, Throw, PollToken, Fails, submitFails,
      synchronizeFails, acquireHostWriteFails, Shape, TypeOK, threads
  <2>2. await[t].task \in Ops /\ Known(await[t].task)
    BY <2>1 DEF waitForTask, Shape, ThreadsShape, ThreadShape, Known
  <2>3. Current(task[await[t].task].out)
    BY <1>2, <2>2 DEF Coherence, HandlesCurrent, Touched
  <2>4. acq'[t] = [h |-> task[await[t].task].out, mode |-> "R", pos |-> nops]
    BY <1>4, <2>1 DEF waitForTask, Shape, TypeOK
  <2> QED BY <2>3, <2>4
<1>5. \A u \in Threads : InMark(u) => InMark(u)'
  <2>1. InMark(t) => InMark(t)'
    BY DEF CaptureCalls, beginIyokanStarpuCapture, endIyokanStarpuCapture,
      synchronizeIyokanStarpuCapture, Throw, PollToken, waitForTask, Fails,
      submitFails, synchronizeFails, acquireHostWriteFails, Shape, TypeOK, threads,
      InMark
  <2> QED BY <1>1, <2>1 DEF InMark
<1> QED BY <1>1, <1>2, <1>3, <1>4, <1>5, QuietCoherent

\* Registering unknown operands adds handles whose only replica is main memory.
LEMMA PrepareCoherent ==
    ASSUME Inv, Shape', NEW t \in Threads, NEW out \in Addrs,
           NEW mode \in {"W", "RW"}, NEW ins \in SUBSET Addrs,
           NEW where \in SUBSET Nodes, Prepare(t, out, mode, ins, where)
    PROVE  Coherence'
<1> USE DEF Inv
<1>1. UNCHANGED <<ram, dev, nops, task, st, node, starpuRunning, acq, marking,
                 seqval, avail>> /\ starpuRunning
  BY DEF Prepare, queue, ghosts
<1>2. \A h \in Handles : Current(h) => Current(h)' /\ valid'[h] = valid[h]
  <2> SUFFICES ASSUME NEW h \in Handles, Current(h)
               PROVE  Current(h)' /\ valid'[h] = valid[h]
    OBVIOUS
  <2>1. h[1] \in Addrs /\ registry[h[1]] # 0
    BY CurrentRegistered
  <2> QED BY <2>1 DEF Prepare, Resolve, Unregistered, Current
<1>3. \A h \in Handles : ~Current(h) /\ Current(h)' =>
         valid'[h] = {MainRam} /\ registry[h[1]] = 0 /\ h[1] \in Addrs
  BY DEF Prepare, Resolve, Unregistered, Current, Handles
<1>4. \A h \in Touched(req'[t]) :
         registry'[h[1]] = h[2] /\ h[1] \in ins \cup {out}
  <2>1. \A a \in ins \cup {out} :
           LET h == HandleFor(a) IN registry'[h[1]] = h[2] /\ h[1] = a
    BY DEF HandleFor
  <2>2. /\ req'[t].out = HandleFor(out)
        /\ req'[t].ins = {HandleFor(a) : a \in ins}
    BY DEF Prepare, Shape, TypeOK
  <2> QED BY <2>1, <2>2 DEF Touched
<1>5. \A u \in Threads \ {t} : pc'[u] = pc[u] /\ req'[u] = req[u]
  BY DEF Prepare, Shape, TypeOK
<1>6. pc'[t] = "insert"
  BY DEF Prepare, Shape, TypeOK
<1>7. \A i \in Ops : Known(i) => \A h \in Touched(task[i]) :
         h \in Handles /\ Current(h)
  BY <1>1, KnownHandles DEF Coherence, HandlesCurrent
<1>8. \A j \in Ops : Known(j) <=> Known(j)'
  BY <1>1 DEF Known
<1>9. \A h \in Handles, j \in Ops : Pending(j, h) =>
         Current(h)
  BY <1>7 DEF Pending, Unexecuted, Known, Touched
<1>10. \A j, h : Pending(j, h) <=> Pending(j, h)'
  BY <1>1 DEF Pending, Unexecuted
<1>11. \A h, n : Copy(h, n) = Copy(h, n)'
  BY <1>1 DEF Copy
<1>12. HandlesCurrent'
  <2>1. ASSUME NEW i \in Ops, Known(i)', NEW h \in Touched(task'[i])
        PROVE  Current(h)'
    BY <1>1, <1>2, <1>7, <1>8, <2>1 DEF Touched
  <2>2. ASSUME NEW u \in Threads, pc'[u] = "insert", NEW h \in Touched(req'[u])
        PROVE  Current(h)'
    <3>1. CASE u = t BY <1>4, <2>2, <3>1 DEF Current
    <3>2. CASE u # t
      <4>1. h \in Touched(req[u]) /\ pc[u] = "insert"
        BY <1>5, <2>2, <3>2
      <4>2. req[u] \in ReqRec
        BY <4>1 DEF Shape, ThreadsShape, ThreadShape
      <4>3. h \in Handles
        BY <4>1, <4>2 DEF Touched, ReqRec
      <4> QED BY <1>1, <1>2, <4>1, <4>3 DEF Coherence, HandlesCurrent
    <3> QED BY <3>1, <3>2
  <2>3. ASSUME NEW u \in Threads, pc'[u] = "acquire"
        PROVE  Current(acq[u].h)'
    <3>1. pc[u] = "acquire" /\ acq[u] \in AcqRec
      BY <1>5, <1>6, <2>3 DEF Shape, ThreadsShape, ThreadShape
    <3>2. acq[u].h \in Handles
      BY <3>1 DEF AcqRec
    <3>3. Current(acq[u].h)
      BY <1>1, <3>1 DEF Coherence, HandlesCurrent
    <3> QED BY <1>1, <1>2, <3>2, <3>3
  <2>4. ASSUME NEW h \in Handles, Current(h)'
        PROVE  valid'[h] # {}
    BY <1>1, <1>2, <1>3, <2>4 DEF Coherence, HandlesCurrent
  <2> QED BY <1>1, <2>1, <2>2, <2>3, <2>4 DEF HandlesCurrent, Touched
<1>13. RunningExclusive'
  <2> SUFFICES ASSUME NEW i \in Ops, st[i] = "running"
               PROVE  (/\ \A j \in 1..(i - 1) :
                             Unexecuted(j) => ~Conflict(task[j], task[i])
                       /\ \A u \in Threads : pc[u] = "acquire" /\ acq[u].pos < i =>
                             ~AcqConflict(acq[u], task[i])
                       /\ valid[task[i].out] = {node[i]}
                       /\ \A h \in Reads(task[i]) : node[i] \in valid[h])'
    BY <1>1 DEF RunningExclusive
  <2>1. Known(i) /\ Reads(task[i]) \subseteq Touched(task[i])
    BY KnownHandles DEF Known
  <2>2. \A h \in Touched(task[i]) : valid'[h] = valid[h]
    BY <1>2, <1>7, <2>1
  <2>3. task[i].out \in Touched(task[i])
    BY DEF Touched
  <2>4. (\A u \in Threads : pc[u] = "acquire" /\ acq[u].pos < i =>
             ~AcqConflict(acq[u], task[i]))'
    BY <1>1, <1>5, <1>6 DEF Coherence, RunningExclusive, AcqConflict
  <2>5. (\A j \in 1..(i - 1) : Unexecuted(j) => ~Conflict(task[j], task[i]))'
    BY <1>1 DEF Coherence, RunningExclusive, Unexecuted, Conflict, Touched
  <2>6. (/\ valid[task[i].out] = {node[i]}
         /\ \A h \in Reads(task[i]) : node[i] \in valid[h])'
    BY <1>1, <2>1, <2>2, <2>3 DEF Coherence, RunningExclusive, Reads
  <2> QED BY <2>4, <2>5, <2>6
<1>14. \A h \in Handles : Current(h) =>
          \A k, v : Holds(h, k, v) => Holds(h, k, v)'
  BY <1>2, <1>10, <1>11 DEF Holds
<1>15. ReadsHold'
  <2> SUFFICES ASSUME NEW i \in Ops, Unexecuted(i), NEW h \in Reads(task[i])
               PROVE  Holds(h, i, task[i].exp[h[1]])'
    BY <1>1 DEF ReadsHold, Unexecuted, Reads
  <2>1. Known(i) /\ h \in Touched(task[i])
    BY KnownHandles DEF Known, Unexecuted
  <2>2. Holds(h, i, task[i].exp[h[1]])
    BY DEF Coherence, ReadsHold
  <2> QED BY <1>1, <1>7, <1>14, <2>1, <2>2
<1>16. \A h \in Handles : ~Current(h) /\ Current(h)' =>
          Holds(h, nops + 1, seqval[h[1]])'
  <2> SUFFICES ASSUME NEW h \in Handles, ~Current(h), Current(h)'
               PROVE  Holds(h, nops + 1, seqval[h[1]])'
    OBVIOUS
  <2>1. \A j \in 1..nops : ~Pending(j, h)
    BY <1>9, BoundsAssumption DEF Shape, TypeOK, Ops, Versions
  <2>2. ram[h[1]] = seqval[h[1]]
    BY <1>1, <1>3 DEF Coherence, AvailableStable
  <2>3. \A n \in valid'[h] : Copy(h, n)' = seqval'[h[1]]
    BY <1>1, <1>3, <2>2 DEF Copy
  <2>4. nops' = nops /\ (nops + 1) - 1 = nops
    BY <1>1 DEF Shape, TypeOK, Versions
  <2> QED BY <1>1, <1>10, <2>1, <2>3, <2>4 DEF Holds
<1>17. SequenceHolds'
  BY <1>1, <1>14, <1>16 DEF Coherence, SequenceHolds
<1>18. AvailableStable'
  <2>1. ASSUME NEW h \in Handles, Current(h)', h[1] \in avail
        PROVE  MainRam \in valid'[h] /\ \A j \in Ops : ~Pending(j, h)
    BY <1>1, <1>2, <1>3, <1>9, <2>1 DEF Coherence, AvailableStable
  <2>2. \A a \in Addrs : registry'[a] = 0 => registry[a] = 0
    BY BoundsAssumption DEF Prepare, Resolve, Unregistered, Shape, TypeOK
  <2> QED BY <1>1, <1>10, <2>1, <2>2 DEF Coherence, AvailableStable
<1>19. MarkedQuiet'
  <2>1. \A u \in Threads : marking[u] \notin ins \cup {out}
    BY DEF Prepare
  <2>2. ~InMark(t)
    BY DEF Prepare, InMark
  <2>3. \A u \in Threads : marking[u] \in Addrs => InMark(u)'
    BY <1>1, <1>5, <2>2 DEF Coherence, MarkedQuiet, InMark
  <2> QED BY <1>1, <1>4, <1>5, <2>1, <2>3 DEF Coherence, MarkedQuiet, Unexecuted, Touched
<1> QED BY <1>12, <1>13, <1>15, <1>17, <1>18, <1>19 DEF Coherence

\* Inserting a task appends a writer to the sequence of its output.
LEMMA SubmitCoherent ==
    ASSUME Inv, Shape', NEW t \in Threads, submitAsync(t)
    PROVE  Coherence'
<1> USE BoundsAssumption DEF Inv
<1> DEFINE out == req[t].out
<1>0. PICK i \in Ops : i = nops + 1
  BY DEF submitAsync, Shape, TypeOK, Ops, Versions
<1>1. /\ UNCHANGED <<ram, dev, valid, registry, node, starpuRunning, acq, marking>>
      /\ pc[t] = "insert" /\ nops' = i /\ i \in Ops /\ nops \in Nat
      /\ seqval' = [seqval EXCEPT ![out[1]] = i]
      /\ avail' = avail \ {out[1]}
  BY <1>0 DEF submitAsync, data, reg, Shape, TypeOK, Ops, Versions
<1>2. req[t] \in ReqRec /\ out \in Handles /\ out[1] \in Addrs
  BY <1>1 DEF Shape, ThreadsShape, ThreadShape, ReqRec, Handles
<1>3. /\ task'[i].out = out /\ task'[i].ins = req[t].ins
      /\ task'[i].mode = req[t].mode /\ task'[i].exp = seqval
      /\ st'[i] = "submitted"
  BY <1>0, <1>1 DEF submitAsync, Shape, TypeOK
<1>4. \A j \in Ops : j # i => st'[j] = st[j] /\ task'[j] = task[j]
  BY <1>0, <1>1 DEF submitAsync, Shape, TypeOK
<1>5. starpuRunning
  BY <1>1 DEF Coherence, HandlesCurrent
<1>6. \A h \in Touched(req[t]) : h \in Handles /\ Current(h)
  BY <1>1, <1>2, <1>5 DEF Coherence, HandlesCurrent, Touched, ReqRec
<1>7. out \in Touched(req[t]) /\ Touched(task[i])' = Touched(req[t])
      /\ Reads(task[i])' \subseteq Touched(req[t])
  BY <1>3 DEF Touched, Reads
<1>8. \A u \in Threads : pc'[u] \in {"insert", "acquire", "mark"} =>
         u # t /\ pc'[u] = pc[u] /\ req'[u] = req[u]
  BY DEF submitAsync, Shape, TypeOK
<1>9. st[i] = "free"
  BY <1>0, <1>1 DEF Shape, TasksShape, TaskShape
<1>10. \A j \in 1..nops : j \in Ops /\ j # i
  BY <1>0, <1>1 DEF Ops
<1>11. \A j \in 1..nops : \A h : Pending(j, h)' <=> Pending(j, h)
  BY <1>4, <1>10 DEF Pending, Unexecuted
<1>12. \A h, n : Copy(h, n)' = Copy(h, n)
  BY <1>1 DEF Copy
<1>13. \A h \in Handles, k \in 1..i : \A v : Holds(h, k, v)' <=> Holds(h, k, v)
  <2> SUFFICES ASSUME NEW h \in Handles, NEW k \in 1..i, NEW v
               PROVE  Holds(h, k, v)' <=> Holds(h, k, v)
    OBVIOUS
  <2>1. \A j \in 1..(k - 1) : j \in 1..nops
    BY <1>0, <1>1
  <2> QED BY <1>1, <1>11, <1>12, <2>1 DEF Holds
<1>14. HandlesCurrent'
  <2>1. \A h : Current(h)' <=> Current(h)
    BY <1>1 DEF Current
  <2>2. ASSUME NEW j \in Ops, Known(j)', NEW h \in Touched(task[j])'
        PROVE  Current(h)
    <3>1. CASE j = i
      BY <1>6, <1>7, <2>2, <3>1
    <3>2. CASE j # i
      BY <1>4, <1>5, <2>2, <3>2 DEF Coherence, HandlesCurrent, Known, Touched
    <3> QED BY <3>1, <3>2
  <2>3. ASSUME NEW u \in Threads, pc'[u] = "insert", NEW h \in Touched(req'[u])
        PROVE  Current(h)
    BY <1>5, <1>8, <2>3 DEF Coherence, HandlesCurrent
  <2>4. ASSUME NEW u \in Threads, pc'[u] = "acquire"
        PROVE  Current(acq[u].h)
    BY <1>5, <1>8, <2>4 DEF Coherence, HandlesCurrent
  <2> QED BY <1>1, <1>5, <2>1, <2>2, <2>3, <2>4 DEF Coherence, HandlesCurrent,
        Touched, Current
<1>15. RunningExclusive'
  <2> SUFFICES ASSUME NEW k \in Ops, st'[k] = "running"
               PROVE  (/\ \A j \in 1..(k - 1) :
                             Unexecuted(j) => ~Conflict(task[j], task[k])
                       /\ \A u \in Threads : pc[u] = "acquire" /\ acq[u].pos < k =>
                             ~AcqConflict(acq[u], task[k])
                       /\ valid[task[k].out] = {node[k]}
                       /\ \A h \in Reads(task[k]) : node[k] \in valid[h])'
    BY DEF RunningExclusive
  <2>1. k # i /\ st[k] = "running" /\ task'[k] = task[k]
    BY <1>3, <1>4
  <2>2. k <= nops
    BY <1>1, <2>1 DEF Shape, TasksShape, TaskShape, Ops
  <2>3. \A j \in 1..(k - 1) : j \in Ops /\ j # i
    BY <1>0, <1>1, <2>2 DEF Ops
  <2>4. (\A j \in 1..(k - 1) : Unexecuted(j) => ~Conflict(task[j], task[k]))'
    BY <1>4, <2>1, <2>3 DEF Coherence, RunningExclusive, Unexecuted, Conflict,
      Touched
  <2>5. (\A u \in Threads : pc[u] = "acquire" /\ acq[u].pos < k =>
            ~AcqConflict(acq[u], task[k]))'
    BY <1>1, <1>8, <2>1 DEF Coherence, RunningExclusive, AcqConflict
  <2>6. (/\ valid[task[k].out] = {node[k]}
         /\ \A h \in Reads(task[k]) : node[k] \in valid[h])'
    BY <1>1, <2>1 DEF Coherence, RunningExclusive, Reads
  <2> QED BY <2>4, <2>5, <2>6
<1>16. \A h \in Touched(req[t]) : \A u \in Threads : marking[u] # h[1]
  <2> SUFFICES ASSUME NEW h \in Touched(req[t]), NEW u \in Threads,
                      marking[u] = h[1]
               PROVE  FALSE
    OBVIOUS
  <2>1. marking[u] \in Addrs
    BY <1>6 DEF Handles
  <2> QED BY <1>1, <2>1 DEF Coherence, MarkedQuiet
<1>17. ReadsHold'
  <2> SUFFICES ASSUME NEW k \in Ops, Unexecuted(k)', NEW h \in Reads(task[k])'
               PROVE  Holds(h, k, task[k].exp[h[1]])'
    BY DEF ReadsHold
  <2>1. CASE k = i
    <3>1. h \in Touched(req[t])
      BY <1>7, <2>1
    <3>2. Holds(h, i, seqval[h[1]])
      BY <1>0, <1>5, <1>6, <1>16, <3>1 DEF Coherence, SequenceHolds
    <3>3. Holds(h, i, seqval[h[1]]) <=> Holds(h, k, task'[k].exp[h[1]])
      BY <1>3, <2>1
    <3>4. i \in 1..i
      BY <1>0, <1>1
    <3> QED BY <1>3, <1>6, <1>13, <2>1, <3>1, <3>2, <3>4
  <2>2. CASE k # i
    <3>1. Unexecuted(k) /\ task'[k] = task[k] /\ h \in Reads(task[k])
      BY <1>4, <2>2 DEF Unexecuted, Reads
    <3>2. k \in 1..i /\ h \in Handles
      <4>1. Known(k) BY <3>1 DEF Known, Unexecuted
      <4>2. k <= nops
        BY <1>1, <3>1 DEF Shape, TasksShape, TaskShape, Ops, Unexecuted
      <4> QED BY <1>0, <1>1, <3>1, <4>1, <4>2, KnownHandles DEF Ops
    <3>3. Holds(h, k, task[k].exp[h[1]])
      BY <3>1 DEF Coherence, ReadsHold
    <3> QED BY <1>13, <3>1, <3>2, <3>3
  <2> QED BY <2>1, <2>2
<1>18. SequenceHolds'
  <2> SUFFICES ASSUME NEW h \in Handles, Current(h),
                      \A u \in Threads : marking[u] # h[1]
               PROVE  Holds(h, nops + 1, seqval[h[1]])'
    BY <1>1 DEF SequenceHolds, Current
  <2>1. Pending(i, h)' <=> h = out
    BY <1>3 DEF Pending, Unexecuted
  <2>2. \A j \in 1..i : j = i \/ j \in 1..nops
    BY <1>0, <1>1
  <2>3. nops' + 1 - 1 = i /\ i \in 1..i /\ \A j \in 1..nops : j \in 1..i /\ j <= i
    BY <1>0, <1>1
  <2>4. CASE h = out
    <3>1. seqval'[h[1]] = i
      BY <1>1, <1>2, <2>4 DEF Shape, TypeOK
    <3>2. i \in 1..i /\ \A j \in 1..i : j <= i
      BY <1>0, <1>1
    <3>3. Pending(i, h)'
      BY <2>1, <2>4
    <3>4. nops' + 1 = i + 1 /\ i + 1 - 1 = i
      BY <1>0, <1>1
    <3>5. Holds(h, i + 1, i)'
      BY <3>2, <3>3, <3>4 DEF Holds
    <3> QED BY <3>1, <3>4, <3>5
  <2>5. CASE h # out
    <3>1. h[1] # out[1]
      BY <1>2, <1>6, <1>7, <2>5, CurrentUnique
    <3>2. seqval'[h[1]] = seqval[h[1]]
      BY <1>1, <3>1 DEF Shape, TypeOK, Handles
    <3>3. Holds(h, i, seqval[h[1]])
      BY <1>0, <1>5 DEF Coherence, SequenceHolds
    <3>4. i - 1 = nops
      BY <1>0, <1>1
    <3> QED BY <1>1, <1>11, <1>12, <2>1, <2>2, <2>3, <2>5, <3>2, <3>3, <3>4 DEF Holds
  <2> QED BY <2>4, <2>5
<1>19. AvailableStable'
  <2>1. \A a \in avail' : ram'[a] = seqval'[a]
    BY <1>1 DEF Coherence, AvailableStable, Shape, TypeOK
  <2>2. ASSUME NEW h \in Handles, Current(h), h[1] \in avail'
        PROVE  MainRam \in valid'[h] /\ \A j \in Ops : ~Pending(j, h)'
    <3>1. MainRam \in valid[h] /\ \A j \in Ops : ~Pending(j, h)
      BY <1>1, <1>5, <2>2 DEF Coherence, AvailableStable
    <3>2. h # out
      BY <1>1, <2>2
    <3> QED BY <1>1, <1>3, <1>4, <3>1, <3>2 DEF Pending, Unexecuted
  <2>3. \A a \in Addrs : registry[a] = 0 => a \in avail'
    <3>1. registry[out[1]] # 0
      BY <1>6, <1>7, CurrentRegistered
    <3> QED BY <1>1, <1>5, <3>1 DEF Coherence, AvailableStable
  <2> QED BY <1>1, <2>1, <2>2, <2>3 DEF AvailableStable, Current
<1>20. MarkedQuiet'
  <2> SUFFICES ASSUME NEW u \in Threads, marking[u] \in Addrs
               PROVE  (/\ InMark(u)
                       /\ marking[u] \in avail
                       /\ \A w \in Threads \ {u} : marking[w] # marking[u]
                       /\ \A k \in Ops : Unexecuted(k) =>
                             \A h \in Touched(task[k]) : h[1] # marking[u]
                       /\ \A w \in Threads : pc[w] = "insert" =>
                             \A h \in Touched(req[w]) : h[1] # marking[u])'
    BY <1>1 DEF MarkedQuiet
  <2>1. marking[u] \in avail'
    BY <1>1, <1>7, <1>16 DEF Coherence, MarkedQuiet
  <2>2. (\A k \in Ops : Unexecuted(k) =>
             \A h \in Touched(task[k]) : h[1] # marking[u])'
    BY <1>1, <1>4, <1>7, <1>16 DEF Coherence, MarkedQuiet, Unexecuted, Touched
  <2>3. (\A w \in Threads : pc[w] = "insert" =>
             \A h \in Touched(req[w]) : h[1] # marking[u])'
    BY <1>1, <1>8 DEF Coherence, MarkedQuiet, Touched
  <2>4. InMark(u)'
    <3>1. InMark(u) /\ u # t
      BY <1>1 DEF Coherence, MarkedQuiet, InMark
    <3>2. pc'[u] = pc[u]
      BY <3>1 DEF submitAsync, Shape, TypeOK
    <3> QED BY <1>1, <3>1, <3>2 DEF InMark
  <2> QED BY <1>1, <2>1, <2>2, <2>3, <2>4 DEF Coherence, MarkedQuiet
<1> QED BY <1>14, <1>15, <1>17, <1>18, <1>19, <1>20 DEF Coherence

\* A replica of h is added on node n (a transfer for a task or an acquire) while
\* nothing is running that writes h; h's value may become available.
ReplicaStep(h, n, src) ==
    /\ starpuRunning
    /\ Current(h)
    /\ n \in Nodes \ valid[h]
    /\ src \in valid[h]
    /\ SetCopy(h, n, Copy(h, src))
    /\ valid' = [valid EXCEPT ![h] = @ \cup {n}]
    /\ UNCHANGED <<registry, nops, task, st, node, starpuRunning, req, marking,
                   seqval>>
    /\ \A k \in Ops : st[k] = "running" => task[k].out # h
    /\ \A u \in Threads : pc'[u] \in {"insert", "acquire"} =>
          pc'[u] = pc[u] /\ acq'[u] = acq[u]
    /\ \A u \in Threads : InMark(u) => InMark(u)'
    /\ avail \subseteq avail' /\ avail' \subseteq Addrs
    /\ \A a \in avail' \ avail :
          /\ a = h[1] /\ n = MainRam
          /\ Copy(h, src) = seqval[a]
          /\ \A j \in Ops : ~Pending(j, h)

\* Copying a valid replica to another node changes no version anyone holds.
LEMMA ReplicateCoherent ==
    ASSUME Inv, Shape', NEW h \in Handles, NEW n, NEW src, ReplicaStep(h, n, src)
    PROVE  Coherence'
<1> USE DEF Inv, ReplicaStep
<1>1. \A g \in Handles : Current(g) => (g[1] = h[1] => g = h)
  BY CurrentUnique
<1>2. \A g \in Handles : valid[g] \subseteq valid'[g]
  BY DEF Shape, TypeOK
<1>3. \A g \in Handles : Current(g) => \A k, v : Holds(g, k, v) => Holds(g, k, v)'
  BY <1>1, ReplicateHolds DEF Shape
<1>4. \A i \in Ops : Known(i) => \A g \in Touched(task[i]) :
         g \in Handles /\ Current(g)
  BY KnownHandles DEF Coherence, HandlesCurrent
<1>5. HandlesCurrent'
  <2>1. \A g \in Handles : Current(g) => valid'[g] # {}
    BY <1>2 DEF Coherence, HandlesCurrent
  <2> QED BY <2>1 DEF Coherence, HandlesCurrent, Known, Touched, Current
<1>6. RunningExclusive'
  <2> SUFFICES ASSUME NEW k \in Ops, st[k] = "running"
               PROVE  (/\ \A j \in 1..(k - 1) :
                             Unexecuted(j) => ~Conflict(task[j], task[k])
                       /\ \A u \in Threads : pc[u] = "acquire" /\ acq[u].pos < k =>
                             ~AcqConflict(acq[u], task[k])
                       /\ valid[task[k].out] = {node[k]}
                       /\ \A g \in Reads(task[k]) : node[k] \in valid[g])'
    BY DEF RunningExclusive
  <2>1. (\A j \in 1..(k - 1) : Unexecuted(j) => ~Conflict(task[j], task[k]))'
    BY DEF Coherence, RunningExclusive, Unexecuted, Conflict, Touched
  <2>2. (\A u \in Threads : pc[u] = "acquire" /\ acq[u].pos < k =>
            ~AcqConflict(acq[u], task[k]))'
    BY DEF Coherence, RunningExclusive, AcqConflict
  <2>3. /\ task[k].out \in Handles /\ task[k].out # h
        /\ \A g \in Reads(task[k]) : g \in Handles
    BY KnownHandles DEF Known
  <2>4. (/\ valid[task[k].out] = {node[k]}
         /\ \A g \in Reads(task[k]) : node[k] \in valid[g])'
    BY <1>2, <2>3 DEF Coherence, RunningExclusive, Reads, Shape, TypeOK
  <2> QED BY <2>1, <2>2, <2>4
<1>7. ReadsHold'
  <2> SUFFICES ASSUME NEW i \in Ops, Unexecuted(i), NEW g \in Reads(task[i])
               PROVE  Holds(g, i, task[i].exp[g[1]])'
    BY DEF ReadsHold, Unexecuted, Reads
  <2>1. g \in Handles /\ Current(g)
    BY <1>4, KnownHandles DEF Known, Unexecuted
  <2>2. Holds(g, i, task[i].exp[g[1]])
    BY DEF Coherence, ReadsHold
  <2> QED BY <1>3, <2>1, <2>2
<1>8. SequenceHolds'
  <2> SUFFICES ASSUME NEW g \in Handles, Current(g),
                      \A u \in Threads : marking[u] # g[1]
               PROVE  Holds(g, nops + 1, seqval[g[1]])'
    BY DEF SequenceHolds, Current
  <2>1. Holds(g, nops + 1, seqval[g[1]])
    BY DEF Coherence, SequenceHolds
  <2> QED BY <1>3, <2>1
<1>9. \A g \in Handles : Current(g) => Copy(g, MainRam)' =
         IF g = h /\ n = MainRam THEN Copy(h, src) ELSE Copy(g, MainRam)
  <2>1. MainRam \in Nodes
    BY DEF Nodes
  <2> QED BY <1>1, <2>1, CopySet DEF Shape
<1>10. \A a \in avail' : ram'[a] = seqval'[a]
  <2> SUFFICES ASSUME NEW a \in avail' PROVE ram'[a] = seqval[a]
    OBVIOUS
  <2>1. CASE a \notin avail
    <3>1. ram'[a] = Copy(h, src)
      BY <1>9, <2>1 DEF Copy
    <3> QED BY <2>1, <3>1
  <2>2. CASE a \in avail /\ a = h[1]
    <3>1. n # MainRam
      BY <2>2 DEF Coherence, AvailableStable
    <3> QED BY <2>2, <3>1 DEF SetCopy, Coherence, AvailableStable
  <2>3. CASE a \in avail /\ a # h[1]
    BY <2>3 DEF SetCopy, Coherence, AvailableStable, Shape, TypeOK
  <2> QED BY <2>1, <2>2, <2>3
<1>11. AvailableStable'
  <2>1. ASSUME NEW g \in Handles, Current(g), g[1] \in avail'
        PROVE  MainRam \in valid'[g] /\ \A j \in Ops : ~Pending(j, g)
    <3>1. CASE g[1] \in avail
      BY <1>2, <2>1, <3>1 DEF Coherence, AvailableStable
    <3>2. CASE g[1] \notin avail
      <4>1. g[1] = h[1] /\ n = MainRam /\ \A j \in Ops : ~Pending(j, h)
        BY <2>1, <3>2
      <4>2. g = h
        BY <1>1, <2>1, <4>1
      <4> QED BY <4>1, <4>2 DEF Shape, TypeOK
    <3> QED BY <3>1, <3>2
  <2>2. \A a \in Addrs : registry[a] = 0 => a \in avail'
    BY DEF Coherence, AvailableStable
  <2> QED BY <1>10, <2>1, <2>2 DEF AvailableStable, Current, Pending, Unexecuted
<1>12. MarkedQuiet'
  <2>1. \A u \in Threads : marking[u] \in Addrs => InMark(u)'
    BY DEF Coherence, MarkedQuiet
  <2> QED BY <2>1 DEF Coherence, MarkedQuiet, Unexecuted, Touched
<1> QED BY <1>5, <1>6, <1>7, <1>8, <1>11, <1>12 DEF Coherence

\* The acquire of synchronizeOutput, which makes the awaited value available.
LEMMA SynchronizeCoherent ==
    ASSUME Inv, Shape', NEW t \in Threads, synchronizeOutput(t)
    PROVE  Coherence'
<1> USE BoundsAssumption DEF Inv
<1>0. PICK h, i : h = acq[t].h /\ i = await[t].call
  OBVIOUS
<1>1. /\ UNCHANGED <<registry, nops, task, st, node, starpuRunning, req, marking,
                     seqval>>
      /\ pc[t] = "acquire" /\ acq[t].mode = "R" /\ Granted(acq[t])
  BY DEF synchronizeOutput, reg, queue
<1>2. \A u \in Threads : pc'[u] \in {"insert", "acquire"} =>
         pc'[u] = pc[u] /\ acq'[u] = acq[u]
  BY DEF synchronizeOutput, Shape, TypeOK
<1>3. starpuRunning
  BY <1>1 DEF Coherence, HandlesCurrent
<1>4. /\ acq[t] \in AcqRec /\ h \in Handles /\ Current(h) /\ acq[t].pos <= nops
      /\ acq[t].pos \in Nat
  BY <1>0, <1>1, <1>3 DEF Shape, ThreadsShape, ThreadShape, Coherence, HandlesCurrent,
    AcqRec, Versions
<1>5. /\ i \in Ops /\ st[i] = "finished" /\ task[i].out = h
  BY <1>0, <1>1 DEF Shape, ThreadsShape, ThreadShape, TokensShape
<1>6. \A k \in Ops : st[k] = "running" => task[k].out # h
  <2> SUFFICES ASSUME NEW k \in Ops, st[k] = "running", task[k].out = h
               PROVE  FALSE
    OBVIOUS
  <2>1. AcqConflict(acq[t], task[k])
    BY <1>0 DEF AcqConflict
  <2>2. CASE acq[t].pos < k
    BY <1>1, <2>1, <2>2 DEF Coherence, RunningExclusive
  <2>3. CASE ~(acq[t].pos < k)
    <3>1. k \in 1..acq[t].pos
      BY <1>4, <2>3 DEF Ops
    <3> QED BY <1>1, <2>1, <3>1 DEF Granted, Unexecuted
  <2> QED BY <2>2, <2>3
<1>7. avail' = IF seqval[h[1]] = i THEN avail \cup {h[1]} ELSE avail
  BY <1>0, <1>5 DEF synchronizeOutput
<1>8. ASSUME seqval[h[1]] = i, h[1] \notin avail
      PROVE  /\ \A j \in Ops : ~Pending(j, h)
             /\ \A m \in valid[h] : Copy(h, m) = seqval[h[1]]
  <2>1. \A u \in Threads : marking[u] # h[1]
    <3>1. h[1] \in Addrs BY <1>4 DEF Handles
    <3> QED BY <1>8, <3>1 DEF Coherence, MarkedQuiet
  <2>2. Holds(h, nops + 1, i)
    BY <1>3, <1>4, <1>8, <2>1 DEF Coherence, SequenceHolds
  <2>3. ~Pending(i, h)
    BY <1>5 DEF Pending, Unexecuted
  <2>4. /\ \A j \in 1..((nops + 1) - 1) : ~Pending(j, h)
        /\ \A m \in valid[h] : Copy(h, m) = i
    BY <2>2, <2>3 DEF Holds
  <2>5. \A j \in Ops : j > nops => ~Pending(j, h)
    BY DEF Shape, TasksShape, TaskShape, Pending, Unexecuted
  <2>6. \A j \in Ops : j > nops \/ j \in 1..((nops + 1) - 1)
    BY DEF Shape, TypeOK, Ops, Versions
  <2> QED BY <1>8, <2>4, <2>5, <2>6
<1>9. avail \subseteq avail' /\ avail' \subseteq Addrs
  BY <1>7 DEF Shape, TypeOK
<1>12. \A u \in Threads : InMark(u) => InMark(u)'
  BY <1>1 DEF synchronizeOutput, InMark, Shape, TypeOK
<1>10. CASE MainRam \notin valid[h]
  <2>1. PICK src \in valid[h] : /\ SetCopy(h, MainRam, Copy(h, src))
                               /\ valid' = [valid EXCEPT ![h] = @ \cup {MainRam}]
    BY <1>0, <1>10 DEF synchronizeOutput
  <2>2. MainRam \in Nodes \ valid[h]
    BY <1>10 DEF Nodes
  <2>3. \A a \in avail' \ avail : /\ a = h[1]
                                 /\ Copy(h, src) = seqval[a]
                                 /\ \A j \in Ops : ~Pending(j, h)
    BY <1>7, <1>8
  <2>4. ReplicaStep(h, MainRam, src)
    BY <1>1, <1>2, <1>3, <1>4, <1>6, <1>9, <1>12, <2>1, <2>2, <2>3
      DEF ReplicaStep
  <2> QED BY <1>4, <2>4, ReplicateCoherent
<1>11. CASE MainRam \in valid[h]
  <2>1. UNCHANGED <<ram, dev, valid>>
    BY <1>0, <1>11 DEF synchronizeOutput, data
  <2>2. HandlesCurrent'
    BY <1>1, <1>2, <2>1 DEF Coherence, HandlesCurrent, Known, Unexecuted, Touched,
      Current, synchronizeOutput, Shape, TypeOK
  <2>3. RunningExclusive'
    BY <1>1, <1>2, <2>1 DEF Coherence, RunningExclusive, Unexecuted, Conflict,
      AcqConflict, Touched, Reads
  <2>4. ReadsHold' /\ SequenceHolds'
    BY <1>1, <2>1 DEF Coherence, ReadsHold, SequenceHolds, Holds, Pending,
      Unexecuted, Copy, Current, Reads
  <2>5. AvailableStable'
    <3>1. seqval[h[1]] = i /\ h[1] \notin avail => ram[h[1]] = seqval[h[1]]
      BY <1>8, <1>11 DEF Copy
    <3>2. \A a \in avail' : ram[a] = seqval[a]
      BY <1>7, <3>1 DEF Coherence, AvailableStable
    <3>3. ASSUME NEW g \in Handles, Current(g), g[1] \in avail'
          PROVE  MainRam \in valid[g] /\ \A j \in Ops : ~Pending(j, g)
      <4>1. CASE g[1] \in avail
        BY <1>3, <3>3, <4>1 DEF Coherence, AvailableStable
      <4>2. CASE g[1] \notin avail
        <5>1. g = h /\ seqval[h[1]] = i
          BY <1>4, <1>7, <3>3, <4>2, CurrentUnique
        <5> QED BY <1>8, <1>11, <4>2, <5>1
      <4> QED BY <4>1, <4>2
    <3>4. \A a \in Addrs : registry[a] = 0 => a \in avail'
      BY <1>3, <1>9 DEF Coherence, AvailableStable
    <3> QED BY <1>1, <2>1, <3>2, <3>3, <3>4 DEF AvailableStable, Current, Pending,
          Unexecuted
  <2>6. MarkedQuiet'
    <3>1. \A u \in Threads : marking[u] \in Addrs => InMark(u)'
      BY <1>12 DEF Coherence, MarkedQuiet
    <3> QED BY <1>1, <1>2, <1>9, <3>1 DEF Coherence, MarkedQuiet, Unexecuted, Touched
  <2> QED BY <2>2, <2>3, <2>4, <2>5, <2>6 DEF Coherence
<1> QED BY <1>10, <1>11

\* A host write of an available value that nothing pending uses.
LEMMA HostWriteCoherent ==
    ASSUME Inv, Shape', NEW t \in Threads, NEW a \in Addrs, HostWrite(t, a)
    PROVE  Coherence'
<1> USE BoundsAssumption DEF Inv
<1>0. PICK i \in Ops : i = nops + 1
  BY DEF HostWrite, Budget, Shape, TypeOK, Ops, Versions
<1>1. /\ UNCHANGED <<dev, valid, registry, task, node, starpuRunning, req, acq,
                     avail>>
      /\ starpuRunning /\ pc[t] = "idle" /\ nops' = i /\ nops \in Nat
      /\ a \in avail
      /\ ram' = [ram EXCEPT ![a] = i] /\ seqval' = [seqval EXCEPT ![a] = i]
      /\ marking' = [marking EXCEPT ![t] = a]
  BY <1>0 DEF HostWrite, reg, Shape, TypeOK, Versions
<1>2. st[i] = "free" /\ st' = [st EXCEPT ![i] = "host"]
  BY <1>0, <1>1 DEF HostWrite, Shape, TasksShape, TaskShape
<1>3. \A j \in Ops : /\ Unexecuted(j)' <=> Unexecuted(j)
                     /\ Known(j)' <=> Known(j)
                     /\ st'[j] = "running" <=> st[j] = "running"
                     /\ Unexecuted(j) => j \in 1..nops
  BY <1>1, <1>2 DEF Unexecuted, Known, Shape, TypeOK, TasksShape, TaskShape, Ops
<1>4. \A j \in Ops : \A h : Pending(j, h)' <=> Pending(j, h)
  BY <1>1, <1>3 DEF Pending
<1>5. \A u \in Threads : pc'[u] \in {"insert", "acquire"} => pc'[u] = pc[u]
  BY DEF HostWrite, Shape, TypeOK
<1>6. \A h \in Handles : \A n : h[1] # a => Copy(h, n)' = Copy(h, n)
  BY <1>1 DEF Copy, Shape, TypeOK, Handles
<1>7. \A h \in Handles : h[1] # a =>
         \A k \in 1..i : \A v : Holds(h, k, v) => Holds(h, k, v)'
  <2>1. \A k \in 1..i : \A j \in 1..(k - 1) : j \in Ops
    BY DEF Ops
  <2> QED BY <1>1, <1>4, <1>6, <2>1 DEF Holds
<1>8. \A j \in Ops : Unexecuted(j) => \A h \in Touched(task[j]) : h[1] # a
  BY <1>3 DEF HostWrite
<1>9. ~InMark(t) /\ marking[t] \notin Addrs
  BY <1>1 DEF InMark, Coherence, MarkedQuiet
<1>10. HandlesCurrent'
  <2>1. \A h : Current(h)' <=> Current(h)
    BY <1>1 DEF Current
  <2> QED BY <1>1, <1>3, <1>5, <2>1 DEF Coherence, HandlesCurrent, Touched, Current
<1>11. RunningExclusive'
  <2> SUFFICES ASSUME NEW k \in Ops, st[k] = "running"
               PROVE  (/\ \A j \in 1..(k - 1) :
                             Unexecuted(j) => ~Conflict(task[j], task[k])
                       /\ \A u \in Threads : pc[u] = "acquire" /\ acq[u].pos < k =>
                             ~AcqConflict(acq[u], task[k])
                       /\ valid[task[k].out] = {node[k]}
                       /\ \A g \in Reads(task[k]) : node[k] \in valid[g])'
    BY <1>3 DEF RunningExclusive
  <2>1. \A j \in 1..(k - 1) : j \in Ops
    BY DEF Ops
  <2>2. (\A j \in 1..(k - 1) : Unexecuted(j) => ~Conflict(task[j], task[k]))'
    BY <1>1, <1>3, <2>1 DEF Coherence, RunningExclusive, Conflict, Touched
  <2>3. (\A u \in Threads : pc[u] = "acquire" /\ acq[u].pos < k =>
            ~AcqConflict(acq[u], task[k]))'
    BY <1>1, <1>5 DEF Coherence, RunningExclusive, AcqConflict
  <2>4. (/\ valid[task[k].out] = {node[k]}
         /\ \A g \in Reads(task[k]) : node[k] \in valid[g])'
    BY <1>1 DEF Coherence, RunningExclusive, Reads
  <2> QED BY <2>2, <2>3, <2>4
<1>12. ReadsHold'
  <2> SUFFICES ASSUME NEW k \in Ops, Unexecuted(k), NEW h \in Reads(task[k])
               PROVE  Holds(h, k, task[k].exp[h[1]])'
    BY <1>1, <1>3 DEF ReadsHold, Reads
  <2>1. h \in Handles /\ h[1] # a
    BY <1>8, KnownHandles DEF Known, Unexecuted
  <2>2. Holds(h, k, task[k].exp[h[1]])
    BY DEF Coherence, ReadsHold
  <2>3. k \in 1..i
    BY <1>0, <1>1, <1>3
  <2> QED BY <1>1, <1>7, <2>1, <2>2, <2>3
<1>13. SequenceHolds'
  <2> SUFFICES ASSUME NEW h \in Handles, Current(h),
                      \A u \in Threads : marking'[u] # h[1]
               PROVE  Holds(h, nops + 1, seqval[h[1]])'
    BY <1>1 DEF SequenceHolds, Current
  <2>1. h[1] # a /\ h[1] \in Addrs
    BY <1>1 DEF Shape, TypeOK, Handles
  <2>2. \A u \in Threads : marking[u] # h[1]
    BY <1>1, <1>9, <2>1 DEF Shape, TypeOK
  <2>3. PICK v : v = seqval[h[1]] /\ Holds(h, i, v)
    BY <1>0, <1>1, <2>2 DEF Coherence, SequenceHolds
  <2>4. seqval'[h[1]] = v /\ i \in 1..i
    BY <1>0, <1>1, <2>1, <2>3 DEF Shape, TypeOK
  <2>5. Holds(h, i, v)'
    BY <1>7, <2>1, <2>3, <2>4
  <2>6. ~Pending(i, h)'
    BY <1>2, <1>4 DEF Pending, Unexecuted
  <2>7. \A j \in 1..((i + 1) - 1) : j = i \/ j \in 1..(i - 1)
    BY <1>0, <1>1
  <2>8. Holds(h, i + 1, v)'
    <3>1. \A j \in 1..(i - 1) : j \in 1..((i + 1) - 1)
      BY <1>0, <1>1
    <3> QED BY <2>5, <2>6, <2>7, <3>1 DEF Holds
  <2> QED BY <1>1, <2>4, <2>8
<1>14. AvailableStable'
  <2>1. \A b \in avail' : ram'[b] = seqval'[b]
    BY <1>1 DEF Coherence, AvailableStable, Shape, TypeOK
  <2> QED BY <1>1, <1>4, <2>1 DEF Coherence, AvailableStable, Current
<1>15. MarkedQuiet'
  <2> SUFFICES ASSUME NEW u \in Threads, marking'[u] \in Addrs
               PROVE  (/\ InMark(u)
                       /\ marking[u] \in avail
                       /\ \A w \in Threads \ {u} : marking[w] # marking[u]
                       /\ \A k \in Ops : Unexecuted(k) =>
                             \A h \in Touched(task[k]) : h[1] # marking[u]
                       /\ \A w \in Threads : pc[w] = "insert" =>
                             \A h \in Touched(req[w]) : h[1] # marking[u])'
    BY DEF MarkedQuiet
  <2>1. \A w \in Threads : marking[w] # a
    BY DEF HostWrite
  <2>2. \A w \in Threads : marking'[w] = IF w = t THEN a ELSE marking[w]
    BY <1>1 DEF Shape, TypeOK
  <2>3. \A w \in Threads : pc[w] = "insert" => \A h \in Touched(req[w]) : h[1] # a
    BY DEF HostWrite
  <2>4. CASE u = t
    <3>1. InMark(t)'
      BY DEF InMark, HostWrite, Shape, TypeOK
    <3> QED BY <1>1, <1>3, <1>5, <1>8, <2>1, <2>2, <2>3, <2>4, <3>1 DEF Touched
  <2>5. CASE u # t
    <3>1. InMark(u)'
      <4>1. pc'[u] = pc[u] /\ InMark(u)
        BY <2>2, <2>5 DEF HostWrite, Shape, TypeOK, Coherence, MarkedQuiet
      <4> QED BY <1>1, <4>1 DEF InMark
    <3> QED BY <1>1, <1>3, <1>5, <2>1, <2>2, <2>5, <3>1 DEF Coherence, MarkedQuiet,
          Touched
  <2> QED BY <2>4, <2>5
<1> QED BY <1>10, <1>11, <1>12, <1>13, <1>14, <1>15 DEF Coherence

\* Looking up the address of a host write, and asking for it in mode W.
LEMMA MarkCoherent ==
    ASSUME Inv, Shape', NEW t \in Threads, markHostWrite(t)
    PROVE  Coherence'
<1> USE BoundsAssumption, NoneAssumption DEF Inv
<1>0. PICK a \in Addrs : a = marking[t]
  BY DEF markHostWrite, Shape, ThreadsShape, ThreadShape
<1>1. /\ UNCHANGED <<ram, dev, valid, registry, nops, task, st, node,
                     starpuRunning, req, seqval, avail>>
      /\ pc[t] = "mark"
  BY DEF markHostWrite, data, reg, queue, ghosts
<1>2. starpuRunning
  BY <1>1 DEF Coherence, HandlesCurrent
<1>3. \A u \in Threads \ {t} : /\ pc'[u] = pc[u] /\ acq'[u] = acq[u]
                               /\ marking'[u] = marking[u]
  BY DEF markHostWrite, Shape, TypeOK
<1>4. CASE registry[a] = 0
  <2>1. pc'[t] = "idle" /\ marking' = [marking EXCEPT ![t] = None]
    BY <1>0, <1>4 DEF markHostWrite, Shape, TypeOK
  <2>2. HandlesCurrent'
    BY <1>1, <1>2, <1>3, <2>1 DEF Coherence, HandlesCurrent, Known, Unexecuted,
      Touched, Current
  <2>3. RunningExclusive'
    BY <1>1, <1>3, <2>1 DEF Coherence, RunningExclusive, Unexecuted, Conflict,
      AcqConflict, Touched, Reads
  <2>4. ReadsHold'
    BY <1>1 DEF Coherence, ReadsHold, Holds, Pending, Unexecuted, Copy, Reads
  <2>5. SequenceHolds'
    <3> SUFFICES ASSUME NEW h \in Handles, Current(h),
                        \A u \in Threads : marking'[u] # h[1]
                 PROVE  Holds(h, nops + 1, seqval[h[1]])'
      BY <1>1 DEF SequenceHolds, Current
    <3>1. h[1] # a
      BY <1>4, CurrentRegistered
    <3>2. Holds(h, nops + 1, seqval[h[1]])
      BY <1>0, <1>2, <1>3, <3>1 DEF Coherence, SequenceHolds
    <3> QED BY <1>1, <3>2 DEF Holds, Pending, Unexecuted, Copy
  <2>6. AvailableStable'
    BY <1>1 DEF Coherence, AvailableStable, Pending, Unexecuted, Current
  <2>7. MarkedQuiet'
    <3>1. \A u \in Threads : marking'[u] \in Addrs => u # t /\ InMark(u)'
      BY <1>3, <2>1 DEF Coherence, MarkedQuiet, InMark, Shape, TypeOK
    <3>2. \A u \in Threads : pc'[u] = "insert" => pc[u] = "insert"
      BY <1>3, <2>1
    <3>3. marking'[t] \notin Addrs
      BY <2>1 DEF Shape, TypeOK
    <3> QED BY <1>1, <1>3, <3>1, <3>2, <3>3 DEF Coherence, MarkedQuiet, Unexecuted,
          Touched
  <2> QED BY <2>2, <2>3, <2>4, <2>5, <2>6, <2>7 DEF Coherence
<1>5. CASE registry[a] # 0
  <2>1. /\ marking' = marking /\ pc'[t] = "acquire"
        /\ acq'[t] = [h |-> <<a, registry[a]>>, mode |-> "W", pos |-> nops]
    BY <1>0, <1>5 DEF markHostWrite, Shape, TypeOK
  <2>2. acq'[t].pos = nops /\ Current(acq'[t].h) /\ acq'[t].mode = "W"
    BY <2>1 DEF Current
  <2>3. \A u \in Threads : InMark(u) => InMark(u)'
    BY <1>3, <2>1, <2>2 DEF InMark
  <2>4. /\ \A u \in Threads : pc'[u] = "insert" =>
              pc[u] = "insert" /\ req'[u] = req[u]
        /\ \A u \in Threads : pc'[u] = "acquire" =>
              \/ pc[u] = "acquire" /\ acq'[u] = acq[u]
              \/ acq'[u].pos = nops /\ (starpuRunning => Current(acq'[u].h))
    BY <1>1, <1>3, <2>1, <2>2
  <2> QED BY <1>1, <1>2, <2>1, <2>3, <2>4, QuietCoherent
<1> QED BY <1>4, <1>5

\* The acquire in mode W that marks a host write: main memory, which holds the
\* sequential value, becomes the only replica, and nothing pending uses it.
LEMMA AcquireCoherent ==
    ASSUME Inv, Shape', NEW t \in Threads, acquireHostWrite(t)
    PROVE  Coherence'
<1> USE BoundsAssumption, NoneAssumption DEF Inv
<1>0. PICK h : h = acq[t].h
  OBVIOUS
<1>1. /\ UNCHANGED <<ram, dev, registry, nops, task, st, node, starpuRunning, req,
                     seqval, avail>>
      /\ pc[t] = "acquire" /\ acq[t].mode = "W"
      /\ valid' = [valid EXCEPT ![h] = {MainRam}]
      /\ marking' = [marking EXCEPT ![t] = None]
  BY <1>0 DEF acquireHostWrite, reg, queue, ghosts
<1>2. starpuRunning
  BY <1>1 DEF Coherence, HandlesCurrent
<1>3. h \in Handles /\ Current(h) /\ h[1] \in Addrs /\ marking[t] = h[1]
  BY <1>0, <1>1, <1>2 DEF Shape, ThreadsShape, ThreadShape, Coherence,
    HandlesCurrent, AcqRec, Handles
<1>4. /\ h[1] \in avail
      /\ \A i \in Ops : Unexecuted(i) => \A g \in Touched(task[i]) : g[1] # h[1]
  BY <1>3 DEF Coherence, MarkedQuiet
<1>5. pc'[t] = "idle" /\ \A u \in Threads \ {t} :
         pc'[u] = pc[u] /\ acq'[u] = acq[u] /\ marking'[u] = marking[u]
  BY <1>1 DEF acquireHostWrite, Shape, TypeOK
<1>6. \A g \in Handles : g # h => valid'[g] = valid[g]
  BY <1>1, <1>3 DEF Shape, TypeOK
<1>7. \A g \in Handles : g # h => \A k, v : Holds(g, k, v) => Holds(g, k, v)'
  BY <1>1, <1>6 DEF Holds, Pending, Unexecuted, Copy
<1>8. valid'[h] = {MainRam}
  BY <1>1, <1>3 DEF Shape, TypeOK
<1>9. HandlesCurrent'
  <2>1. \A g \in Handles : Current(g) => valid'[g] # {}
    BY <1>2, <1>6, <1>8 DEF Coherence, HandlesCurrent
  <2> QED BY <1>1, <1>2, <1>5, <2>1 DEF Coherence, HandlesCurrent, Known, Unexecuted,
        Touched, Current
<1>10. RunningExclusive'
  <2> SUFFICES ASSUME NEW k \in Ops, st[k] = "running"
               PROVE  (/\ \A j \in 1..(k - 1) :
                             Unexecuted(j) => ~Conflict(task[j], task[k])
                       /\ \A u \in Threads : pc[u] = "acquire" /\ acq[u].pos < k =>
                             ~AcqConflict(acq[u], task[k])
                       /\ valid[task[k].out] = {node[k]}
                       /\ \A g \in Reads(task[k]) : node[k] \in valid[g])'
    BY <1>1 DEF RunningExclusive
  <2>1. (\A j \in 1..(k - 1) : Unexecuted(j) => ~Conflict(task[j], task[k]))'
    BY <1>1 DEF Coherence, RunningExclusive, Unexecuted, Conflict, Touched
  <2>2. (\A u \in Threads : pc[u] = "acquire" /\ acq[u].pos < k =>
            ~AcqConflict(acq[u], task[k]))'
    BY <1>1, <1>5 DEF Coherence, RunningExclusive, AcqConflict
  <2>3. \A g \in Touched(task[k]) : g \in Handles /\ g # h
    BY <1>4, KnownHandles DEF Known, Unexecuted
  <2>4. task[k].out \in Touched(task[k]) /\ Reads(task[k]) \subseteq Touched(task[k])
    BY KnownHandles DEF Known, Touched
  <2>5. (/\ valid[task[k].out] = {node[k]}
         /\ \A g \in Reads(task[k]) : node[k] \in valid[g])'
    BY <1>1, <1>6, <2>3, <2>4 DEF Coherence, RunningExclusive, Reads
  <2> QED BY <2>1, <2>2, <2>5
<1>11. ReadsHold'
  <2> SUFFICES ASSUME NEW k \in Ops, Unexecuted(k), NEW g \in Reads(task[k])
               PROVE  Holds(g, k, task[k].exp[g[1]])'
    BY <1>1 DEF ReadsHold, Reads, Unexecuted
  <2>1. g \in Handles /\ g # h
    BY <1>4, KnownHandles DEF Known, Unexecuted
  <2>2. Holds(g, k, task[k].exp[g[1]])
    BY DEF Coherence, ReadsHold
  <2> QED BY <1>1, <1>7, <2>1, <2>2
<1>12. SequenceHolds'
  <2> SUFFICES ASSUME NEW g \in Handles, Current(g),
                      \A u \in Threads : marking'[u] # g[1]
               PROVE  Holds(g, nops + 1, seqval[g[1]])'
    BY <1>1 DEF SequenceHolds, Current
  <2>1. CASE g = h
    <3>1. ram[h[1]] = seqval[h[1]] /\ \A j \in Ops : ~Pending(j, h)
      BY <1>2, <1>3, <1>4 DEF Coherence, AvailableStable
    <3>2. \A j \in 1..((nops + 1) - 1) : j \in Ops
      BY DEF Shape, TypeOK, Ops, Versions
    <3> QED BY <1>1, <1>8, <2>1, <3>1, <3>2 DEF Holds, Pending, Unexecuted, Copy
  <2>2. CASE g # h
    <3>1. g[1] # h[1]
      BY <1>3, <2>2, CurrentUnique
    <3>2. Holds(g, nops + 1, seqval[g[1]])
      BY <1>2, <1>3, <1>5, <3>1 DEF Coherence, SequenceHolds
    <3> QED BY <1>1, <1>7, <2>2, <3>2
  <2> QED BY <2>1, <2>2
<1>13. AvailableStable'
  BY <1>1, <1>2, <1>6, <1>8 DEF Coherence, AvailableStable, Pending, Unexecuted,
    Current
<1>14. MarkedQuiet'
  <2>1. marking'[t] \notin Addrs
    BY <1>1 DEF Shape, TypeOK
  <2>2. \A u \in Threads : marking'[u] \in Addrs => InMark(u)'
    BY <1>5, <2>1 DEF Coherence, MarkedQuiet, InMark
  <2>3. \A u \in Threads : pc'[u] = "insert" => pc[u] = "insert"
    BY <1>5
  <2> QED BY <1>1, <1>5, <2>1, <2>2, <2>3 DEF Coherence, MarkedQuiet, Unexecuted,
        Touched
<1> QED BY <1>9, <1>10, <1>11, <1>12, <1>13, <1>14 DEF Coherence

----------------------------------------------------------------------------
(* StarPU's steps *)

\* A ready task conflicts with no running task.
LEMMA ReadyExclusive ==
    ASSUME Inv, NEW i \in Ops, Ready(i), NEW k \in Ops, st[k] = "running"
    PROVE  ~Conflict(task[i], task[k]) /\ k # i
<1>1. k # i
  BY DEF Ready
<1>2. Unexecuted(i) /\ Unexecuted(k)
  BY DEF Ready, Unexecuted
<1>3. CASE k < i
  <2>1. k \in 1..(i - 1)
    BY <1>3 DEF Ops
  <2> QED BY <1>1, <1>2, <2>1 DEF Ready, Conflict
<1>4. CASE i < k
  <2>1. i \in 1..(k - 1)
    BY <1>4 DEF Ops
  <2> QED BY <1>1, <1>2, <2>1 DEF Inv, Coherence, RunningExclusive
<1> QED BY <1>1, <1>3, <1>4 DEF Ops

\* A transfer for a ready task.
LEMMA FetchCoherent ==
    ASSUME Inv, Shape', NEW i \in Ops, NEW h \in Handles, NEW n \in Nodes,
           Fetch(i, h, n)
    PROVE  Coherence'
<1> USE DEF Inv
<1>1. /\ UNCHANGED <<registry, nops, task, st, node, starpuRunning, pc, req, acq,
                     marking, seqval, avail>>
      /\ Ready(i) /\ h \in Fetched(task[i]) /\ n \in Nodes \ valid[h]
      /\ valid' = [valid EXCEPT ![h] = @ \cup {n}]
  BY DEF Fetch, reg, queue, threads, ghosts
<1>2. PICK src \in valid[h] : SetCopy(h, n, Copy(h, src))
  BY DEF Fetch
<1>3. Known(i) /\ Unexecuted(i)
  BY <1>1 DEF Ready, Known, Unexecuted
<1>4. starpuRunning
  BY <1>3 DEF Coherence, HandlesCurrent
<1>5. h \in Touched(task[i]) /\ Current(h)
  BY <1>1, <1>3, <1>4, KnownHandles DEF Coherence, HandlesCurrent
<1>6. \A k \in Ops : st[k] = "running" => task[k].out # h
  BY <1>1, <1>5, ReadyExclusive DEF Conflict
<1>7. \A u \in Threads : InMark(u) => InMark(u)'
  BY <1>1 DEF InMark
<1>8. ReplicaStep(h, n, src)
  BY <1>1, <1>2, <1>4, <1>5, <1>6, <1>7 DEF ReplicaStep, Shape, TypeOK
<1> QED BY <1>8, ReplicateCoherent

\* The start of a codelet, which invalidates the other replicas of its output.
LEMMA StartCoherent ==
    ASSUME Inv, Shape', NEW i \in Ops, NEW n \in Nodes, Start(i, n)
    PROVE  Coherence'
<1> USE BoundsAssumption DEF Inv
<1>0. PICK out : out = task[i].out
  OBVIOUS
<1>1. /\ UNCHANGED <<ram, dev, registry, nops, task, starpuRunning, pc, req, acq,
                     marking, seqval, avail>>
      /\ Ready(i) /\ st[i] = "submitted"
      /\ \A h \in Fetched(task[i]) : n \in valid[h]
      /\ st' = [st EXCEPT ![i] = "running"]
      /\ node' = [node EXCEPT ![i] = n]
      /\ valid' = [valid EXCEPT ![out] = {n}]
  BY <1>0 DEF Start, Ready, reg, threads, ghosts
<1>2. \A j \in Ops : /\ Unexecuted(j)' <=> Unexecuted(j)
                     /\ Known(j)' <=> Known(j)
                     /\ st'[j] = "running" <=> st[j] = "running" \/ j = i
  BY <1>1 DEF Unexecuted, Known, Shape, TypeOK
<1>3. Known(i) /\ Unexecuted(i) /\ Pending(i, out)
  BY <1>0, <1>1 DEF Known, Unexecuted, Pending
<1>4. starpuRunning
  BY <1>3 DEF Coherence, HandlesCurrent
<1>5. out \in Handles /\ Current(out) /\ out \in Touched(task[i])
  BY <1>0, <1>3, <1>4, KnownHandles DEF Coherence, HandlesCurrent, Touched
<1>6. valid'[out] = {n} /\ \A h \in Handles : h # out => valid'[h] = valid[h]
  BY <1>1, <1>5 DEF Shape, TypeOK
<1>7. \A j \in Ops : \A h : Pending(j, h)' <=> Pending(j, h)
  BY <1>1, <1>2 DEF Pending
<1>8. \A h, m : Copy(h, m)' = Copy(h, m)
  BY <1>1 DEF Copy
<1>9. \A h \in Handles : h # out => \A k \in 1..(MaxOps + 1) :
         \A v : Holds(h, k, v) => Holds(h, k, v)'
  <2>1. \A k \in 1..(MaxOps + 1) : \A j \in 1..(k - 1) : j \in Ops
    BY DEF Ops
  <2> QED BY <1>6, <1>7, <1>8, <2>1 DEF Holds
<1>10. \A k \in (i + 1)..(MaxOps + 1) : \A v :
          Holds(out, k, v) => Holds(out, k, v)'
  <2> SUFFICES ASSUME NEW k \in (i + 1)..(MaxOps + 1), NEW v, Holds(out, k, v)
               PROVE  Holds(out, k, v)'
    OBVIOUS
  <2>1. i \in 1..(k - 1) /\ \A j \in 1..(k - 1) : j \in Ops
    BY DEF Ops
  <2> QED BY <1>3, <1>7, <2>1 DEF Holds
<1>11. HandlesCurrent'
  <2>1. \A h \in Handles : Current(h) => valid'[h] # {}
    BY <1>4, <1>6 DEF Coherence, HandlesCurrent
  <2> QED BY <1>1, <1>2, <1>4, <2>1 DEF Coherence, HandlesCurrent, Touched, Current
<1>12. RunningExclusive'
  <2> SUFFICES ASSUME NEW k \in Ops, st'[k] = "running"
               PROVE  (/\ \A j \in 1..(k - 1) :
                             Unexecuted(j) => ~Conflict(task[j], task[k])
                       /\ \A u \in Threads : pc[u] = "acquire" /\ acq[u].pos < k =>
                             ~AcqConflict(acq[u], task[k])
                       /\ valid[task[k].out] = {node[k]}
                       /\ \A g \in Reads(task[k]) : node[k] \in valid[g])'
    BY DEF RunningExclusive
  <2>1. \A j \in 1..(k - 1) : j \in Ops
    BY DEF Ops
  <2>2. CASE k = i
    <3>1. (/\ \A j \in 1..(k - 1) : Unexecuted(j) => ~Conflict(task[j], task[k])
           /\ \A u \in Threads : pc[u] = "acquire" /\ acq[u].pos < k =>
                 ~AcqConflict(acq[u], task[k]))'
      BY <1>1, <1>2, <2>1, <2>2 DEF Ready, Conflict, AcqConflict, Touched
    <3>2. node'[i] = n
      BY <1>1 DEF Shape, TypeOK
    <3>3. \A g \in Reads(task[i]) : g \in Handles /\ n \in valid[g]
      BY <1>1, <1>3, KnownHandles
    <3>4. \A g \in Reads(task[i]) : n \in valid'[g]
      BY <1>6, <3>3
    <3> QED BY <1>0, <1>1, <1>6, <2>2, <3>1, <3>2, <3>4 DEF Reads
  <2>3. CASE k # i
    <3>1. st[k] = "running" /\ node'[k] = node[k]
      BY <1>1, <1>2, <2>3 DEF Shape, TypeOK
    <3>2. ~Conflict(task[i], task[k])
      BY <1>1, <3>1, ReadyExclusive
    <3>3. /\ \A g \in Touched(task[k]) : g \in Handles /\ g # out
          /\ task[k].out \in Touched(task[k])
          /\ Reads(task[k]) \subseteq Touched(task[k])
      BY <1>0, <3>1, <3>2, KnownHandles DEF Conflict, Touched, Known
    <3>4. (/\ \A j \in 1..(k - 1) : Unexecuted(j) => ~Conflict(task[j], task[k])
           /\ \A u \in Threads : pc[u] = "acquire" /\ acq[u].pos < k =>
                 ~AcqConflict(acq[u], task[k]))'
      BY <1>1, <1>2, <2>1, <3>1 DEF Coherence, RunningExclusive, Conflict,
        AcqConflict, Touched
    <3>5. (/\ valid[task[k].out] = {node[k]}
           /\ \A g \in Reads(task[k]) : node[k] \in valid[g])'
      BY <1>1, <1>6, <3>1, <3>3 DEF Coherence, RunningExclusive, Reads
    <3> QED BY <3>4, <3>5
  <2> QED BY <2>2, <2>3
<1>13. ReadsHold'
  <2> SUFFICES ASSUME NEW k \in Ops, Unexecuted(k), NEW h \in Reads(task[k])
               PROVE  Holds(h, k, task[k].exp[h[1]])'
    BY <1>1, <1>2 DEF ReadsHold, Reads
  <2>1. PICK v : v = task[k].exp[h[1]] /\ Holds(h, k, v)
    BY DEF Coherence, ReadsHold
  <2>2. h \in Handles /\ h \in Touched(task[k])
    BY KnownHandles DEF Known, Unexecuted
  <2>3. CASE h # out
    <3>1. k \in 1..(MaxOps + 1)
      BY DEF Ops
    <3> QED BY <1>1, <1>9, <2>1, <2>2, <2>3, <3>1
  <2>4. CASE h = out /\ k < i
    <3>1. k \in 1..(i - 1) /\ Conflict(task[k], task[i])
      BY <1>0, <2>2, <2>4 DEF Ops, Conflict
    <3> QED BY <1>1, <3>1 DEF Ready
  <2>5. CASE h = out /\ k = i
    <3>1. \A j \in 1..(i - 1) : ~Pending(j, out)
      <4>1. ASSUME NEW j \in 1..(i - 1), Pending(j, out) PROVE FALSE
        <5>1. Unexecuted(j) /\ Conflict(task[j], task[i])
          BY <1>0, <4>1 DEF Pending, Conflict, Touched
        <5> QED BY <1>1, <5>1 DEF Ready
      <4> QED BY <4>1
    <3>2. n \in valid[out]
      BY <1>1, <1>3, <2>5, KnownHandles
    <3>3. Copy(out, n) = v
      BY <2>1, <2>5, <3>1, <3>2 DEF Holds
    <3>4. \A j \in 1..(i - 1) : j \in Ops
      BY DEF Ops
    <3>5. Holds(out, i, v)'
      BY <1>6, <1>7, <1>8, <3>1, <3>3, <3>4 DEF Holds
    <3> QED BY <1>1, <2>1, <2>5, <3>5
  <2>6. CASE h = out /\ k > i
    <3>1. k \in (i + 1)..(MaxOps + 1)
      BY <2>6 DEF Ops
    <3> QED BY <1>1, <1>10, <2>1, <2>6, <3>1
  <2> QED BY <2>3, <2>4, <2>5, <2>6 DEF Ops
<1>14. SequenceHolds'
  <2> SUFFICES ASSUME NEW h \in Handles, Current(h),
                      \A u \in Threads : marking[u] # h[1]
               PROVE  Holds(h, nops + 1, seqval[h[1]])'
    BY <1>1 DEF SequenceHolds, Current
  <2>1. PICK v : v = seqval[h[1]] /\ Holds(h, nops + 1, v)
    BY <1>4 DEF Coherence, SequenceHolds
  <2>2. nops + 1 \in (i + 1)..(MaxOps + 1) /\ nops + 1 \in 1..(MaxOps + 1)
    BY <1>1 DEF Shape, TypeOK, TasksShape, TaskShape, Ops, Versions
  <2>3. Holds(h, nops + 1, v)'
    BY <1>1, <1>9, <1>10, <2>1, <2>2
  <2> QED BY <1>1, <2>1, <2>3
<1>15. AvailableStable'
  <2>1. out[1] \notin avail
    BY <1>3, <1>4, <1>5 DEF Coherence, AvailableStable
  <2> QED BY <1>1, <1>6, <1>7, <2>1 DEF Coherence, AvailableStable, Current
<1>16. MarkedQuiet'
  BY <1>1, <1>2 DEF Coherence, MarkedQuiet, InMark, Touched
<1> QED BY <1>11, <1>12, <1>13, <1>14, <1>15, <1>16 DEF Coherence

\* The end of a codelet: its version moves from pending to its node's replica.
LEMMA CompleteCoherent ==
    ASSUME Inv, Shape', NEW i \in Ops, Complete(i)
    PROVE  Coherence'
<1> USE BoundsAssumption DEF Inv
<1>0. PICK out, n : out = task[i].out /\ n = node[i]
  OBVIOUS
<1>1. /\ UNCHANGED <<valid, registry, nops, task, node, starpuRunning, pc, req, acq,
                     marking, seqval, avail>>
      /\ st[i] = "running"
      /\ st' = [st EXCEPT ![i] = "executed"]
      /\ SetCopy(out, n, i)
  BY <1>0 DEF Complete, reg, threads, ghosts
<1>2. \A j \in Ops : /\ Unexecuted(j)' <=> Unexecuted(j) /\ j # i
                     /\ Known(j)' <=> Known(j)
                     /\ st'[j] = "running" => st[j] = "running"
  BY <1>1 DEF Unexecuted, Known, Shape, TypeOK
<1>3. Known(i) /\ Unexecuted(i) /\ Pending(i, out)
  BY <1>0, <1>1 DEF Known, Unexecuted, Pending
<1>4. starpuRunning
  BY <1>3 DEF Coherence, HandlesCurrent
<1>5. out \in Handles /\ Current(out) /\ n \in Nodes
  BY <1>0, <1>3, <1>4, KnownHandles DEF Coherence, HandlesCurrent, Touched, Shape,
    TypeOK
<1>6. valid[out] = {n} /\ \A j \in 1..(i - 1) : ~Pending(j, out)
  BY <1>0, <1>1 DEF Coherence, RunningExclusive, Pending, Conflict, Touched
<1>7. \A j \in Ops : \A h : Pending(j, h)' <=> Pending(j, h) /\ j # i
  BY <1>1, <1>2 DEF Pending
<1>8. \A h \in Handles : Current(h) => \A m \in Nodes :
         Copy(h, m)' = IF h = out /\ m = n THEN i ELSE Copy(h, m)
  BY <1>1, <1>5, CurrentUnique, CopySet DEF Shape
<1>9. \A h \in Handles : h # out /\ Current(h) => \A k \in 1..(MaxOps + 1) :
         \A v : Holds(h, k, v) => Holds(h, k, v)'
  <2>1. \A k \in 1..(MaxOps + 1) : \A j \in 1..(k - 1) : j \in Ops
    BY DEF Ops
  <2>2. \A h \in Handles : \A m \in valid[h] : m \in Nodes
    BY DEF Shape, TypeOK
  <2>3. \A h \in Handles : h # out => ~Pending(i, h)
    BY <1>0 DEF Pending
  <2> QED BY <1>1, <1>7, <1>8, <2>1, <2>2, <2>3 DEF Holds
<1>10. \A k \in (i + 1)..(MaxOps + 1) : \A v :
          Holds(out, k, v) => Holds(out, k, v)'
  <2> SUFFICES ASSUME NEW k \in (i + 1)..(MaxOps + 1), NEW v, Holds(out, k, v)
               PROVE  Holds(out, k, v)'
    OBVIOUS
  <2>1. i \in 1..(k - 1) /\ \A j \in 1..(k - 1) : j \in Ops
    BY DEF Ops
  <2>2. /\ v \in 1..(k - 1) /\ Pending(v, out)
        /\ \A j \in 1..(k - 1) : Pending(j, out) => j <= v
    BY <1>3, <2>1 DEF Holds
  <2>3. CASE v = i
    <3>1. \A j \in 1..(k - 1) : ~Pending(j, out)'
      <4>1. \A j \in 1..(k - 1) : j <= i => j = i \/ j \in 1..(i - 1)
        BY DEF Ops
      <4> QED BY <1>6, <1>7, <2>1, <2>2, <2>3, <4>1
    <3>2. \A m \in valid'[out] : Copy(out, m)' = v
      BY <1>1, <1>5, <1>6, <1>8, <2>3
    <3> QED BY <3>1, <3>2 DEF Holds
  <2>4. CASE v # i
    BY <1>7, <2>1, <2>2, <2>4 DEF Holds
  <2> QED BY <2>3, <2>4
<1>11. HandlesCurrent'
  BY <1>1, <1>2, <1>4 DEF Coherence, HandlesCurrent, Touched, Current
<1>12. RunningExclusive'
  <2> SUFFICES ASSUME NEW k \in Ops, st[k] = "running"
               PROVE  (/\ \A j \in 1..(k - 1) :
                             Unexecuted(j) => ~Conflict(task[j], task[k])
                       /\ \A u \in Threads : pc[u] = "acquire" /\ acq[u].pos < k =>
                             ~AcqConflict(acq[u], task[k])
                       /\ valid[task[k].out] = {node[k]}
                       /\ \A g \in Reads(task[k]) : node[k] \in valid[g])'
    BY <1>2 DEF RunningExclusive
  <2>1. \A j \in 1..(k - 1) : j \in Ops
    BY DEF Ops
  <2> QED BY <1>1, <1>2, <2>1 DEF Coherence, RunningExclusive, Conflict, AcqConflict,
        Touched, Reads
<1>13. ReadsHold'
  <2> SUFFICES ASSUME NEW k \in Ops, Unexecuted(k), k # i, NEW h \in Reads(task[k])
               PROVE  Holds(h, k, task[k].exp[h[1]])'
    BY <1>1, <1>2 DEF ReadsHold, Reads
  <2>1. PICK v : v = task[k].exp[h[1]] /\ Holds(h, k, v)
    BY DEF Coherence, ReadsHold
  <2>2. Known(k) BY DEF Known, Unexecuted
  <2>3. h \in Handles /\ h \in Touched(task[k]) /\ Current(h)
    BY <1>4, <2>2, KnownHandles DEF Coherence, HandlesCurrent
  <2>4. CASE h # out
    <3>1. k \in 1..(MaxOps + 1)
      BY DEF Ops
    <3> QED BY <1>1, <1>9, <2>1, <2>3, <2>4, <3>1
  <2>5. CASE h = out /\ k < i
    <3>1. k \in 1..(i - 1) /\ Conflict(task[k], task[i])
      BY <1>0, <2>3, <2>5 DEF Ops, Conflict
    <3> QED BY <1>1, <3>1 DEF Coherence, RunningExclusive
  <2>6. CASE h = out /\ k > i
    <3>1. k \in (i + 1)..(MaxOps + 1)
      BY <2>6 DEF Ops
    <3> QED BY <1>1, <1>10, <2>1, <2>6, <3>1
  <2> QED BY <2>4, <2>5, <2>6 DEF Ops
<1>14. SequenceHolds'
  <2> SUFFICES ASSUME NEW h \in Handles, Current(h),
                      \A u \in Threads : marking[u] # h[1]
               PROVE  Holds(h, nops + 1, seqval[h[1]])'
    BY <1>1 DEF SequenceHolds, Current
  <2>1. PICK v : v = seqval[h[1]] /\ Holds(h, nops + 1, v)
    BY <1>4 DEF Coherence, SequenceHolds
  <2>2. nops + 1 \in (i + 1)..(MaxOps + 1) /\ nops + 1 \in 1..(MaxOps + 1)
    BY <1>1 DEF Shape, TypeOK, TasksShape, TaskShape, Ops, Versions
  <2>3. Holds(h, nops + 1, v)'
    BY <1>1, <1>9, <1>10, <2>1, <2>2
  <2> QED BY <1>1, <2>1, <2>3
<1>15. AvailableStable'
  <2>1. out[1] \notin avail
    BY <1>3, <1>4, <1>5 DEF Coherence, AvailableStable
  <2>2. \A a \in Addrs : a # out[1] => ram'[a] = ram[a]
    BY <1>1 DEF SetCopy, Shape, TypeOK
  <2>3. \A a \in avail' : ram'[a] = seqval'[a]
    BY <1>1, <2>1, <2>2 DEF Coherence, AvailableStable, Shape, TypeOK
  <2> QED BY <1>1, <1>7, <2>3 DEF Coherence, AvailableStable, Current
<1>16. MarkedQuiet'
  BY <1>1, <1>2 DEF Coherence, MarkedQuiet, InMark, Touched
<1> QED BY <1>11, <1>12, <1>13, <1>14, <1>15, <1>16 DEF Coherence

\* The completion callback changes nothing the data depend on.
LEMMA CallbackCoherent ==
    ASSUME Inv, Shape', NEW i \in Ops, taskCompleted(i)
    PROVE  Coherence'
<1> USE DEF Inv
<1>1. /\ UNCHANGED <<ram, dev, valid, registry, nops, task, node, starpuRunning, pc,
                     req, acq, marking, seqval, avail>>
      /\ st[i] = "executed" /\ st' = [st EXCEPT ![i] = "finished"]
  BY DEF taskCompleted, data, reg, threads, ghosts
<1>2. \A j \in Ops : /\ Unexecuted(j)' <=> Unexecuted(j)
                     /\ Known(j)' <=> Known(j)
                     /\ st'[j] = "running" <=> st[j] = "running"
  BY <1>1 DEF Unexecuted, Known, Shape, TypeOK
<1>3. \A j \in Ops : \A h : Pending(j, h)' <=> Pending(j, h)
  BY <1>1, <1>2 DEF Pending
<1>4. \A h, k, v : k \in 1..(MaxOps + 1) /\ Holds(h, k, v) => Holds(h, k, v)'
  <2>1. \A k \in 1..(MaxOps + 1) : \A j \in 1..(k - 1) : j \in Ops
    BY BoundsAssumption DEF Ops
  <2> QED BY <1>1, <1>3, <2>1 DEF Holds, Copy
<1>5. HandlesCurrent'
  BY <1>1, <1>2 DEF Coherence, HandlesCurrent, Touched, Current
<1>6. RunningExclusive'
  <2>1. \A k \in Ops : \A j \in 1..(k - 1) : j \in Ops
    BY BoundsAssumption DEF Ops
  <2> QED BY <1>1, <1>2, <2>1 DEF Coherence, RunningExclusive, Conflict, AcqConflict,
        Touched, Reads
<1>7. ReadsHold'
  <2>1. \A k \in Ops : k \in 1..(MaxOps + 1)
    BY BoundsAssumption DEF Ops
  <2> QED BY <1>1, <1>2, <1>4, <2>1 DEF Coherence, ReadsHold, Reads
<1>8. SequenceHolds'
  <2>1. nops + 1 \in 1..(MaxOps + 1)
    BY BoundsAssumption DEF Shape, TypeOK, Versions
  <2> QED BY <1>1, <1>4, <2>1 DEF Coherence, SequenceHolds, Current
<1>9. AvailableStable'
  BY <1>1, <1>3 DEF Coherence, AvailableStable, Current
<1>10. MarkedQuiet'
  BY <1>1, <1>2 DEF Coherence, MarkedQuiet, InMark, Touched
<1> QED BY <1>5, <1>6, <1>7, <1>8, <1>9, <1>10 DEF Coherence

\* Shutdown unregisters the handles of a quiescent backend.
LEMMA ShutdownCoherent ==
    ASSUME Inv, Shape', shutdownIyokanStarpu
    PROVE  Coherence'
<1> USE DEF Inv
<1>1. /\ UNCHANGED <<ram, nops, task, st, node, pc, req, acq, marking, seqval,
                     avail>>
      /\ ~starpuRunning'
      /\ \A t \in Threads : pc[t] \in {"idle", "thrown"}
      /\ \A i \in Ops : ~Unexecuted(i) /\ st[i] # "running"
  BY DEF shutdownIyokanStarpu, queue, threads, ghosts, Unexecuted
<1>2. HandlesCurrent' /\ RunningExclusive' /\ ReadsHold' /\ SequenceHolds'
  BY <1>1 DEF HandlesCurrent, RunningExclusive, ReadsHold, SequenceHolds, Unexecuted
<1>3. AvailableStable'
  BY <1>1 DEF Coherence, AvailableStable
<1>4. MarkedQuiet'
  BY <1>1 DEF Coherence, MarkedQuiet, InMark, Touched, Unexecuted
<1> QED BY <1>2, <1>3, <1>4 DEF Coherence

----------------------------------------------------------------------------
(* The inductive invariant *)

\* It holds initially.
LEMMA InitCoherent ==
    ASSUME Init PROVE Inv
<1> USE BoundsAssumption, NoneAssumption DEF Init
<1>1. Shape
  BY InitShape
<1>2. \A i \in Ops : ~Unexecuted(i) /\ ~Known(i) /\ st[i] # "running"
  BY DEF Unexecuted, Known
<1>3. \A h \in Handles : ~Current(h)
  BY DEF Current, Handles
<1>4. HandlesCurrent
  BY <1>2, <1>3 DEF HandlesCurrent
<1>5. RunningExclusive /\ ReadsHold /\ SequenceHolds
  BY <1>2, <1>3 DEF RunningExclusive, ReadsHold, SequenceHolds
<1>6. AvailableStable
  BY <1>3 DEF AvailableStable
<1>7. MarkedQuiet
  BY DEF MarkedQuiet
<1> QED BY <1>1, <1>4, <1>5, <1>6, <1>7 DEF Inv, Coherence

\* Every step preserves it.
LEMMA NextCoherent ==
    ASSUME Inv, [Next]_vars
    PROVE  Inv'
<1>1. Shape'
  BY NextShape DEF Inv
<1>2. ASSUME NEW t \in Threads, ThreadStep(t)
      PROVE  Coherence'
  <2>1. CASE GateCalls(t) \/ RamCalls(t)
    BY <1>1, <2>1, CallsPrepare, PrepareCoherent
  <2>2. CASE Continue(t)
    BY <1>1, <2>2, SubmitCoherent, QuietSteps, SynchronizeCoherent, MarkCoherent,
      AcquireCoherent DEF Continue
  <2>3. CASE \E a \in Addrs : HostWrite(t, a)
    BY <1>1, <2>3, HostWriteCoherent
  <2> QED BY <1>1, <1>2, <2>1, <2>2, <2>3, QuietSteps DEF ThreadStep
<1>3. ASSUME NEW i \in Ops, WorkerStep(i)
      PROVE  Coherence'
  BY <1>1, <1>3, FetchCoherent, StartCoherent, CompleteCoherent, CallbackCoherent
    DEF WorkerStep, Transfer, Execute
<1>4. ASSUME UNCHANGED vars
      PROVE  Coherence'
  <2>1. UNCHANGED <<ram, dev, valid, registry, nops, task, st, node, starpuRunning,
                     pc, req, acq, marking, seqval, avail>>
    BY <1>4 DEF vars, data, reg, queue, threads, ghosts
  <2>2. ~starpuRunning => \A u \in Threads : pc[u] \in {"idle", "thrown"}
    BY DEF Inv, Coherence, HandlesCurrent
  <2>3. \A u \in Threads : InMark(u) => InMark(u)'
    BY <2>1 DEF InMark
  <2> QED BY <1>1, <2>1, <2>2, <2>3, QuietCoherent
<1> QED BY <1>1, <1>2, <1>3, <1>4, ShutdownCoherent DEF Next, Terminated, Inv

\* The whole inductive invariant holds of every behaviour.
THEOREM CoherenceInvariant == Spec => []CoherenceInv
<1>1. Init => Inv
  BY InitCoherent
<1>2. Inv /\ [Next]_vars => Inv'
  BY NextCoherent
<1>3. Inv => CoherenceInv
  BY DEF Inv, Shape, Coherence, CoherenceInv
<1> QED BY <1>1, <1>2, <1>3, PTL DEF Spec

\* A running codelet's operands are not pending any more, so the version its node
\* holds is the one of submission order.
LEMMA InvReads ==
    ASSUME Inv PROVE CoherentReads
<1> USE DEF Inv
<1> SUFFICES ASSUME NEW i \in Ops, st[i] = "running", NEW h \in Reads(task[i])
             PROVE  Copy(h, node[i]) = task[i].exp[h[1]]
  BY DEF CoherentReads
<1>1. Unexecuted(i) /\ h \in Touched(task[i])
  BY KnownHandles DEF Known, Unexecuted
<1>2. Holds(h, i, task[i].exp[h[1]])
  BY <1>1 DEF Coherence, ReadsHold
<1>3. \A j \in 1..(i - 1) : ~Pending(j, h)
  BY <1>1 DEF Coherence, RunningExclusive, Pending, Conflict
<1>4. node[i] \in valid[h]
  BY DEF Coherence, RunningExclusive
<1> QED BY <1>2, <1>3, <1>4 DEF Holds

\* Every codelet reads the versions its operands had in submission order, for any
\* number of threads, values, devices and operations.
THEOREM ReadsAreCoherent == Spec => []CoherentReads
<1>1. Init => Inv
  BY InitCoherent
<1>2. Inv /\ [Next]_vars => Inv'
  BY NextCoherent
<1>3. Inv => CoherentReads
  BY InvReads
<1> QED BY <1>1, <1>2, <1>3, PTL DEF Spec

\* Every value the frontend takes as available is in main memory.
THEOREM OutputsAreSynchronized == Spec => []SynchronizedOutputs
<1>1. Init => Inv
  BY InitCoherent
<1>2. Inv /\ [Next]_vars => Inv'
  BY NextCoherent
<1>3. Inv => SynchronizedOutputs
  BY DEF Inv, Coherence, AvailableStable, SynchronizedOutputs
<1> QED BY <1>1, <1>2, <1>3, PTL DEF Spec
============================================================================
