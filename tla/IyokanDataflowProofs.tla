------------------------ MODULE IyokanDataflowProofs ------------------------
(***************************************************************************)
(* TLAPS proof that IyokanBackend implements Dataflow, under the mapping   *)
(* of IyokanDataflow.  Coherence, proved in IyokanCoherenceProofs, turns   *)
(* the observed replicas into versions of the submission order; what is    *)
(* left is that every step is a step of Dataflow on these.                 *)
(***************************************************************************)
EXTENDS IyokanCoherenceProofs, IyokanDataflow

----------------------------------------------------------------------------
(* What the mapping reads *)

\* The replicas a running codelet reads hold what it was planned to read.
LEMMA ObservedPlanned ==
    Inv => Observed = [i \in {j \in Ops : st[j] = "running"} |->
                          [a \in ReadAddrs(i) |-> task[i].exp[a]]]
<1> SUFFICES ASSUME Inv
             PROVE  Observed = [i \in {j \in Ops : st[j] = "running"} |->
                                   [a \in ReadAddrs(i) |-> task[i].exp[a]]]
  OBVIOUS
<1>1. ASSUME NEW i \in Ops, st[i] = "running", NEW a \in ReadAddrs(i)
      PROVE  Copy(HandleRead(i, a), node[i]) = task[i].exp[a]
  <2>1. \E h \in Reads(task[i]) : AddrOf(h) = a
    BY <1>1 DEF ReadAddrs
  <2>2. HandleRead(i, a) \in Reads(task[i]) /\ AddrOf(HandleRead(i, a)) = a
    BY <2>1 DEF HandleRead
  <2> QED BY <1>1, <2>2, InvReads DEF CoherentReads
<1> QED BY <1>1 DEF Observed

\* Main memory holds the last version of everything the host may look at.
LEMMA HostViewIsLast ==
    Inv => HostView = [a \in avail |-> seqval[a]]
BY DEF Inv, Coherence, AvailableStable, HostView

\* In submission order a value has the version of an operation that writes it.
VersionOf(a, v, n) ==
    \/ v = 0
    \/ /\ v \in 1..n
       /\ st[v] = "host" \/ (Known(v) /\ AddrOf(task[v].out) = a)

Provenance ==
    /\ \A a \in Addrs : VersionOf(a, seqval[a], nops)
    /\ \A i \in Ops : Known(i) =>
          \A a \in Addrs : VersionOf(a, task[i].exp[a], i - 1)

\* A step that neither submits nor writes preserves it.
LEMMA SameProvenance ==
    ASSUME Inv, Provenance, UNCHANGED <<nops, task, seqval>>,
           \A i \in Ops : /\ Known(i)' <=> Known(i)
                          /\ st'[i] = "host" <=> st[i] = "host"
    PROVE  Provenance'
<1>1. \A n \in Versions : \A v \in 1..n : v \in Ops
  BY BoundsAssumption DEF Versions, Ops
<1>2. \A a, v : \A n \in Versions : VersionOf(a, v, n) => VersionOf(a, v, n)'
  BY <1>1 DEF VersionOf
<1>3. nops \in Versions /\ \A i \in Ops : i - 1 \in Versions
  BY BoundsAssumption DEF Inv, Shape, TypeOK, Versions, Ops
<1> QED BY <1>2, <1>3 DEF Provenance

\* The next operation writes a: what was there before keeps its writers.
LEMMA NewProvenance ==
    ASSUME Inv, Provenance, NEW a \in Addrs,
           nops < MaxOps, nops' = nops + 1,
           \A i \in Ops : i # nops + 1 => st'[i] = st[i] /\ task'[i] = task[i],
           seqval' = [seqval EXCEPT ![a] = nops + 1],
           \/ st'[nops + 1] = "host"
           \/ /\ st'[nops + 1] = "submitted"
              /\ AddrOf(task'[nops + 1].out) = a
              /\ task'[nops + 1].exp = seqval
    PROVE  Provenance'
<1> USE BoundsAssumption
<1>1. nops \in 0..MaxOps /\ nops + 1 \in Ops
  BY DEF Inv, Shape, TypeOK, Versions, Ops
<1>2. \A b, v : \A n \in 0..nops : VersionOf(b, v, n) => VersionOf(b, v, n)'
  <2> SUFFICES ASSUME NEW b, NEW v, NEW n \in 0..nops, VersionOf(b, v, n), v # 0
               PROVE  VersionOf(b, v, n)'
    BY DEF VersionOf
  <2>1. v \in 1..n /\ v \in Ops /\ v # nops + 1
    BY <1>1 DEF VersionOf, Ops
  <2>2. st'[v] = st[v] /\ task'[v] = task[v]
    BY <2>1
  <2> QED BY <2>1, <2>2 DEF VersionOf, Known
<1>3. ASSUME NEW b \in Addrs
      PROVE  VersionOf(b, seqval[b], nops)'
  <2>1. CASE b = a
    <3>1. seqval'[b] = nops + 1
      BY <2>1 DEF Inv, Shape, TypeOK
    <3> QED BY <1>1, <2>1, <3>1 DEF VersionOf, Known
  <2>2. CASE b # a
    <3>1. seqval'[b] = seqval[b] /\ VersionOf(b, seqval[b], nops)
      BY <2>2 DEF Inv, Shape, TypeOK, Provenance
    <3>2. seqval'[b] = 0 \/ (seqval[b] \in 1..nops /\ seqval[b] \in 1..(nops + 1))
      BY <1>1, <3>1 DEF VersionOf
    <3>3. seqval[b] \in 1..nops => seqval[b] \in Ops /\ seqval[b] # nops + 1
      BY <1>1 DEF Ops
    <3> QED BY <1>1, <3>1, <3>2, <3>3 DEF VersionOf, Known
  <2> QED BY <2>1, <2>2
<1>4. ASSUME NEW i \in Ops, Known(i)', NEW b \in Addrs
      PROVE  VersionOf(b, task[i].exp[b], i - 1)'
  <2>1. CASE i = nops + 1
    <3>1. task'[i].exp[b] = seqval[b]
      BY <1>4, <2>1 DEF Known
    <3>2. i - 1 \in 0..nops /\ i - 1 = nops /\ VersionOf(b, seqval[b], nops)
      BY <1>1, <2>1 DEF Provenance
    <3> QED BY <1>2, <3>1, <3>2 DEF VersionOf
  <2>2. CASE i # nops + 1
    <3>1. Known(i) /\ task'[i] = task[i]
      BY <1>4, <2>2 DEF Known
    <3>2. i <= nops
      BY <3>1, <1>1 DEF Inv, Shape, TasksShape, TaskShape, Known, Ops
    <3>3. i - 1 \in 0..nops /\ VersionOf(b, task[i].exp[b], i - 1)
      BY <1>1, <3>1, <3>2 DEF Provenance, Ops
    <3> QED BY <1>2, <3>1, <3>3 DEF VersionOf
  <2> QED BY <2>1, <2>2
<1> QED BY <1>3, <1>4 DEF Provenance

----------------------------------------------------------------------------
(* The steps *)

\* The names of what a step changes, under the mapping.
LEMMA Mapping ==
    ASSUME Inv, Inv'
    PROVE  /\ Observed = [i \in {j \in Ops : st[j] = "running"} |->
                             [a \in ReadAddrs(i) |-> task[i].exp[a]]]
           /\ (Observed = [i \in {j \in Ops : st[j] = "running"} |->
                             [a \in ReadAddrs(i) |-> task[i].exp[a]]])'
           /\ HostView = [a \in avail |-> seqval[a]]
           /\ (HostView = [a \in avail |-> seqval[a]])'
<1>1. Inv' => (Observed = [i \in {j \in Ops : st[j] = "running"} |->
                             [a \in ReadAddrs(i) |-> task[i].exp[a]]])'
  BY ObservedPlanned, PTL
<1>2. Inv' => (HostView = [a \in avail |-> seqval[a]])'
  BY HostViewIsLast, PTL
<1> QED BY <1>1, <1>2, ObservedPlanned, HostViewIsLast

\* A step that submits, starts, ends and publishes nothing changes nothing
\* Dataflow knows of.
LEMMA StutterStep ==
    ASSUME Inv, Inv', UNCHANGED <<nops, task, seqval, avail>>,
           \A i \in Ops : /\ Unexecuted(i)' <=> Unexecuted(i)
                          /\ st'[i] = "running" <=> st[i] = "running"
    PROVE  UNCHANGED Abstract!dvars
<1>1. {j \in Ops : Unexecuted(j)}' = {j \in Ops : Unexecuted(j)}
  OBVIOUS
<1>2. {j \in Ops : st[j] = "running"}' = {j \in Ops : st[j] = "running"}
  OBVIOUS
<1>3. \A i : ReadAddrs(i)' = ReadAddrs(i)
  BY DEF ReadAddrs, Reads
<1>4. Planned' = Planned
  BY <1>1, <1>3 DEF Planned
<1>5. Observed' = Observed
  BY <1>2, <1>3, Mapping
<1>6. HostView' = HostView
  BY Mapping
<1> QED BY <1>4, <1>5, <1>6 DEF Abstract!dvars

\* starpu_task_insert submits an operation.
LEMMA SubmitStep ==
    ASSUME Inv, Inv', NEW t \in Threads, submitAsync(t)
    PROVE  Abstract!Next
<1> USE BoundsAssumption
<1>0. PICK i, out : i = nops + 1 /\ out = AddrOf(req[t].out)
  OBVIOUS
<1>1. /\ nops < MaxOps /\ nops' = i
      /\ task' = [task EXCEPT ![i] = [out |-> req[t].out, mode |-> req[t].mode,
                                      ins |-> req[t].ins, where |-> req[t].where,
                                      exp |-> seqval]]
      /\ st' = [st EXCEPT ![i] = "submitted"]
      /\ seqval' = [seqval EXCEPT ![out] = i]
      /\ avail' = avail \ {out}
      /\ pc[t] = "insert"
  BY <1>0 DEF submitAsync
<1>2. i \in Ops /\ st[i] = "free"
  BY <1>0, <1>1 DEF Inv, Shape, TypeOK, TasksShape, TaskShape, Versions, Ops
<1>3. req[t] \in ReqRec
  BY <1>1 DEF Inv, Shape, ThreadsShape, ThreadShape
<1>4. out \in Addrs
  BY <1>0, <1>3 DEF ReqRec, Handles, AddrOf
<1>5. \A j \in Ops : /\ Unexecuted(j)' <=> Unexecuted(j) \/ j = i
                     /\ st'[j] = "running" <=> st[j] = "running"
                     /\ j # i => task'[j] = task[j]
  BY <1>1, <1>2 DEF Unexecuted, Inv, Shape, TypeOK
<1>6. task'[i].exp = seqval /\ Known(i)'
  BY <1>1, <1>2 DEF Known, Inv, Shape, TypeOK
<1>7. ReadAddrs(i)' \in SUBSET Addrs
  <2>1. task'[i].out = req[t].out /\ task'[i].ins = req[t].ins
    BY <1>1, <1>2 DEF Inv, Shape, TypeOK
  <2>2. Reads(task'[i]) \subseteq Handles
    BY <1>3, <2>1 DEF Reads, ReqRec
  <2> QED BY <2>2 DEF ReadAddrs, Handles, AddrOf
<1>8. \A j \in Ops : j # i => ReadAddrs(j)' = ReadAddrs(j)
  BY <1>5 DEF ReadAddrs, Reads
<1>9. Planned' = Abstract!With(Planned, i, [r \in ReadAddrs(i)' |-> seqval[r]])
  <2>1. {j \in Ops : Unexecuted(j)}' = {j \in Ops : Unexecuted(j)} \cup {i}
    BY <1>2, <1>5
  <2>2. DOMAIN Planned = {j \in Ops : Unexecuted(j)}
    BY DEF Planned
  <2>3. \A j \in {k \in Ops : Unexecuted(k)} : j # i =>
           [a \in ReadAddrs(j)' |-> task'[j].exp[a]] = Planned[j]
    BY <1>5, <1>8 DEF Planned
  <2>4. [a \in ReadAddrs(i)' |-> task'[i].exp[a]] = [r \in ReadAddrs(i)' |-> seqval[r]]
    BY <1>6
  <2> QED BY <2>1, <2>2, <2>3, <2>4 DEF Planned, Abstract!With
<1>10. Observed' = Observed
  <2>1. {j \in Ops : st[j] = "running"}' = {j \in Ops : st[j] = "running"}
    BY <1>5
  <2>2. \A j \in Ops : st[j] = "running" => j # i
    BY <1>2
  <2> QED BY <1>5, <1>8, <2>1, <2>2, Mapping
<1>11. HostView' = Abstract!Without(HostView, out)
  <2>1. \A a \in avail \ {out} : seqval'[a] = seqval[a]
    BY <1>1 DEF Inv, Shape, TypeOK
  <2> QED BY <1>1, <2>1, Mapping DEF Abstract!Without
<1>12. Abstract!Submit(out, ReadAddrs(i)')
  BY <1>0, <1>1, <1>2, <1>9, <1>10, <1>11 DEF Abstract!Submit
<1> QED BY <1>4, <1>7, <1>12 DEF Abstract!Next

\* The result of a codelet is what is left of the operations it depends on: none
\* of the versions it reads is still to be computed.
LEMMA ReadsAvailable ==
    ASSUME Inv, Provenance, NEW i \in Ops, Ready(i), NEW a \in ReadAddrs(i)
    PROVE  task[i].exp[a] \notin {j \in Ops : Unexecuted(j)}
<1> SUFFICES ASSUME NEW v \in Ops, v = task[i].exp[a], Unexecuted(v)
             PROVE  FALSE
  OBVIOUS
<1>1. PICK h \in Reads(task[i]) : AddrOf(h) = a
  BY DEF ReadAddrs
<1>2. Known(i) /\ Unexecuted(i) /\ Known(v)
  BY DEF Ready, Known, Unexecuted
<1>3. h \in Handles /\ h \in Touched(task[i]) /\ a \in Addrs
  BY <1>1, <1>2, KnownHandles DEF Inv, Handles, AddrOf
<1>4. v \in 1..(i - 1) /\ AddrOf(task[v].out) = a
  BY <1>2, <1>3 DEF Provenance, VersionOf, Unexecuted, Ops
<1>5. starpuRunning
  BY <1>2 DEF Inv, Coherence, HandlesCurrent
<1>6. Current(h) /\ Current(task[v].out) /\ task[v].out \in Handles
  BY <1>2, <1>3, <1>5, KnownHandles DEF Inv, Coherence, HandlesCurrent, Touched
<1>7. task[v].out = h
  BY <1>1, <1>3, <1>4, <1>6, CurrentUnique DEF AddrOf
<1>8. Conflict(task[v], task[i])
  BY <1>3, <1>7 DEF Conflict
<1> QED BY <1>4, <1>8 DEF Ready

\* A worker starts an operation.
LEMMA StartStep ==
    ASSUME Inv, Inv', Provenance, NEW i \in Ops, NEW n \in Nodes, Start(i, n)
    PROVE  Abstract!Next
<1>1. /\ Ready(i) /\ st[i] = "submitted" /\ st' = [st EXCEPT ![i] = "running"]
      /\ UNCHANGED <<nops, task, seqval, avail>>
  BY DEF Start, Ready, ghosts
<1>2. \A j \in Ops : /\ Unexecuted(j)' <=> Unexecuted(j)
                     /\ st'[j] = "running" <=> st[j] = "running" \/ j = i
  BY <1>1 DEF Unexecuted, Inv, Shape, TypeOK
<1>3. \A j : ReadAddrs(j)' = ReadAddrs(j)
  BY <1>1 DEF ReadAddrs, Reads
<1>4. Planned' = Planned
  <2>1. {j \in Ops : Unexecuted(j)}' = {j \in Ops : Unexecuted(j)}
    BY <1>2
  <2> QED BY <1>1, <1>3, <2>1 DEF Planned
<1>5. i \in DOMAIN Planned \ DOMAIN Observed
  BY <1>1 DEF Planned, Observed, Unexecuted
<1>6. Planned[i] = [a \in ReadAddrs(i) |-> task[i].exp[a]]
  BY <1>5 DEF Planned
<1>7. Observed' = Abstract!With(Observed, i, Planned[i])
  <2>1. {j \in Ops : st[j] = "running"}' = {j \in Ops : st[j] = "running"} \cup {i}
    BY <1>2
  <2> QED BY <1>1, <1>3, <1>6, <2>1, Mapping DEF Abstract!With
<1>8. HostView' = HostView
  BY <1>1, Mapping
<1>9. \A r \in DOMAIN Planned[i] : Abstract!Available(Planned[i][r])
  BY <1>1, <1>6, ReadsAvailable DEF Abstract!Available, Planned
<1>10. Abstract!Start(i)
  BY <1>1, <1>4, <1>5, <1>7, <1>8, <1>9 DEF Abstract!Start
<1> QED BY <1>10 DEF Abstract!Next

\* A codelet that has stored its result finishes the operation.
LEMMA FinishStep ==
    ASSUME Inv, Inv', NEW i \in Ops, Complete(i)
    PROVE  Abstract!Next
<1>1. /\ st[i] = "running" /\ st' = [st EXCEPT ![i] = "executed"]
      /\ UNCHANGED <<nops, task, seqval, avail>>
  BY DEF Complete, ghosts
<1>2. \A j \in Ops : /\ Unexecuted(j)' <=> Unexecuted(j) /\ j # i
                     /\ st'[j] = "running" <=> st[j] = "running" /\ j # i
  BY <1>1 DEF Unexecuted, Inv, Shape, TypeOK
<1>3. \A j : ReadAddrs(j)' = ReadAddrs(j)
  BY <1>1 DEF ReadAddrs, Reads
<1>4. Planned' = Abstract!Without(Planned, i)
  <2>1. {j \in Ops : Unexecuted(j)}' = {j \in Ops : Unexecuted(j)} \ {i}
    BY <1>2
  <2> QED BY <1>1, <1>3, <2>1 DEF Planned, Abstract!Without
<1>5. Observed' = Abstract!Without(Observed, i)
  <2>1. {j \in Ops : st[j] = "running"}' = {j \in Ops : st[j] = "running"} \ {i}
    BY <1>2
  <2> QED BY <1>1, <1>3, <2>1, Mapping DEF Abstract!Without
<1>6. HostView' = HostView
  BY <1>1, Mapping
<1>7. i \in DOMAIN Observed
  BY <1>1 DEF Observed
<1>8. Abstract!Finish(i)
  BY <1>1, <1>4, <1>5, <1>6, <1>7 DEF Abstract!Finish
<1> QED BY <1>8 DEF Abstract!Next

\* A synchronized output is published, unless it was submitted again meanwhile.
LEMMA PublishStep ==
    ASSUME Inv, Inv', NEW t \in Threads, synchronizeOutput(t)
    PROVE  Abstract!Next \/ UNCHANGED Abstract!dvars
<1>0. PICK call, out : call = await[t].call /\ out = AddrOf(task[call].out)
  OBVIOUS
<1>1. /\ pc[t] = "acquire" /\ acq[t].mode = "R"
      /\ UNCHANGED <<nops, task, st, seqval>>
      /\ avail' = IF seqval[out] = call THEN avail \cup {out} ELSE avail
  BY <1>0 DEF synchronizeOutput, queue
<1>2. call \in Ops /\ st[call] = "finished"
  BY <1>0, <1>1 DEF Inv, Shape, ThreadsShape, ThreadShape, TokensShape
<1>3. out \in Addrs
  BY <1>0, <1>2, KnownHandles DEF Inv, Known, Handles, AddrOf
<1>4. \A i : ReadAddrs(i)' = ReadAddrs(i)
  BY <1>1 DEF ReadAddrs, Reads
<1>5. Planned' = Planned
  <2>1. {j \in Ops : Unexecuted(j)}' = {j \in Ops : Unexecuted(j)}
    BY <1>1 DEF Unexecuted
  <2> QED BY <1>1, <1>4, <2>1 DEF Planned
<1>6. Observed' = Observed
  BY <1>1, <1>4, Mapping
<1>7. CASE seqval[out] = call
  <2>1. HostView' = Abstract!With(HostView, out, seqval[out])
    BY <1>1, <1>7, Mapping DEF Abstract!With
  <2>2. Abstract!Available(seqval[out])
    BY <1>2, <1>7 DEF Abstract!Available, Planned, Unexecuted
  <2>3. Abstract!Publish(out)
    BY <1>1, <1>5, <1>6, <2>1, <2>2 DEF Abstract!Publish
  <2> QED BY <1>3, <2>3 DEF Abstract!Next
<1>8. CASE seqval[out] # call
  BY <1>1, <1>8, StutterStep DEF Unexecuted
<1> QED BY <1>7, <1>8

\* A host write is an operation of the host.
LEMMA HostWriteStep ==
    ASSUME Inv, Inv', NEW t \in Threads, NEW a \in Addrs, HostWrite(t, a)
    PROVE  Abstract!Next
<1> USE BoundsAssumption
<1>1. /\ a \in avail /\ nops' = nops + 1 /\ st' = [st EXCEPT ![nops + 1] = "host"]
      /\ seqval' = [seqval EXCEPT ![a] = nops + 1]
      /\ UNCHANGED <<task, avail>>
      /\ nops < MaxOps
  BY DEF HostWrite, Budget
<1>2. nops + 1 \in Ops /\ st[nops + 1] = "free"
  BY <1>1 DEF Inv, Shape, TypeOK, TasksShape, TaskShape, Versions, Ops
<1>3. \A j \in Ops : /\ Unexecuted(j)' <=> Unexecuted(j)
                     /\ st'[j] = "running" <=> st[j] = "running"
  BY <1>1, <1>2 DEF Unexecuted, Inv, Shape, TypeOK
<1>4. \A i : ReadAddrs(i)' = ReadAddrs(i)
  BY <1>1 DEF ReadAddrs, Reads
<1>5. Planned' = Planned
  <2>1. {j \in Ops : Unexecuted(j)}' = {j \in Ops : Unexecuted(j)}
    BY <1>3
  <2> QED BY <1>1, <1>4, <2>1 DEF Planned
<1>6. Observed' = Observed
  <2>1. {j \in Ops : st[j] = "running"}' = {j \in Ops : st[j] = "running"}
    BY <1>3
  <2> QED BY <1>1, <1>4, <2>1, Mapping
<1>7. HostView' = [HostView EXCEPT ![a] = nops + 1]
  <2>1. \A b \in avail : seqval'[b] = IF b = a THEN nops + 1 ELSE seqval[b]
    BY <1>1 DEF Inv, Shape, TypeOK
  <2> QED BY <1>1, <2>1, Mapping
<1>8. a \in DOMAIN HostView
  BY <1>1 DEF HostView
<1>9. Abstract!HostWrite(a)
  BY <1>1, <1>2, <1>5, <1>6, <1>7, <1>8 DEF Abstract!HostWrite
<1> QED BY <1>9 DEF Abstract!Next

----------------------------------------------------------------------------
(* The refinement *)

\* Every step of the backend is a step of Dataflow, or none, and keeps the
\* provenance of versions.
LEMMA StepSimulated ==
    ASSUME Inv, Inv', Provenance, [Next]_vars
    PROVE  [Abstract!Next]_(Abstract!dvars) /\ Provenance'
<1>1. ASSUME UNCHANGED <<nops, task, st, seqval, avail>>
      PROVE  UNCHANGED Abstract!dvars /\ Provenance'
  BY <1>1, StutterStep, SameProvenance DEF Unexecuted, Known
<1>2. ASSUME NEW t \in Threads, submitAsync(t)
      PROVE  Abstract!Next /\ Provenance'
  <2>1. req[t] \in ReqRec
    BY <1>2 DEF submitAsync, Inv, Shape, ThreadsShape, ThreadShape
  <2>2. AddrOf(req[t].out) \in Addrs
    BY <2>1 DEF ReqRec, Handles, AddrOf
  <2>3. nops + 1 \in Ops
    BY <1>2, BoundsAssumption DEF submitAsync, Inv, Shape, TypeOK, Versions, Ops
  <2>4. /\ nops < MaxOps /\ nops' = nops + 1
        /\ seqval' = [seqval EXCEPT ![AddrOf(req[t].out)] = nops + 1]
        /\ \A i \in Ops : i # nops + 1 => st'[i] = st[i] /\ task'[i] = task[i]
        /\ st'[nops + 1] = "submitted"
        /\ task'[nops + 1].out = req[t].out /\ task'[nops + 1].exp = seqval
    BY <1>2, <2>3 DEF submitAsync, Inv, Shape, TypeOK
  <2> QED BY <1>2, <2>2, <2>4, SubmitStep, NewProvenance
<1>3. ASSUME NEW t \in Threads, NEW a \in Addrs, HostWrite(t, a)
      PROVE  Abstract!Next /\ Provenance'
  <2>1. nops + 1 \in Ops
    BY <1>3, BoundsAssumption DEF HostWrite, Budget, Inv, Shape, TypeOK, Versions, Ops
  <2>2. /\ nops < MaxOps /\ nops' = nops + 1
        /\ seqval' = [seqval EXCEPT ![a] = nops + 1]
        /\ \A i \in Ops : i # nops + 1 => st'[i] = st[i] /\ task'[i] = task[i]
        /\ st'[nops + 1] = "host"
    BY <1>3, <2>1 DEF HostWrite, Budget, Inv, Shape, TypeOK
  <2> QED BY <1>3, <2>2, HostWriteStep, NewProvenance
<1>4. ASSUME NEW t \in Threads, synchronizeOutput(t)
      PROVE  (Abstract!Next \/ UNCHANGED Abstract!dvars) /\ Provenance'
  BY <1>4, PublishStep, SameProvenance DEF synchronizeOutput, queue, Known
<1>5. ASSUME NEW i \in Ops, Start(i, node'[i]) \/ Complete(i) \/ taskCompleted(i)
      PROVE  Provenance'
  <2>1. UNCHANGED <<nops, task, seqval>>
    BY <1>5 DEF Start, Complete, taskCompleted, ghosts
  <2>2. /\ st[i] \in {"submitted", "running", "executed"}
        /\ \/ st' = [st EXCEPT ![i] = "running"]
           \/ st' = [st EXCEPT ![i] = "executed"]
           \/ st' = [st EXCEPT ![i] = "finished"]
    BY <1>5 DEF Start, Ready, Complete, taskCompleted
  <2>3. \A j \in Ops : /\ Known(j)' <=> Known(j)
                       /\ st'[j] = "host" <=> st[j] = "host"
    BY <2>2 DEF Known, Inv, Shape, TypeOK
  <2> QED BY <2>1, <2>3, SameProvenance
<1>6. ASSUME NEW i \in Ops, NEW n \in Nodes, Start(i, n)
      PROVE  Abstract!Next /\ Provenance'
  <2>1. n = node'[i]
    BY <1>6 DEF Start, Inv, Shape, TypeOK
  <2> QED BY <1>5, <1>6, <2>1, StartStep
<1>7. ASSUME NEW i \in Ops, Complete(i)
      PROVE  Abstract!Next /\ Provenance'
  BY <1>5, <1>7, FinishStep
<1>8. ASSUME NEW i \in Ops, taskCompleted(i)
      PROVE  UNCHANGED Abstract!dvars /\ Provenance'
  <2>1. \A j \in Ops : /\ Unexecuted(j)' <=> Unexecuted(j)
                       /\ st'[j] = "running" <=> st[j] = "running"
    BY <1>8 DEF taskCompleted, Unexecuted, Inv, Shape, TypeOK
  <2> QED BY <1>5, <1>8, <2>1, StutterStep DEF taskCompleted, ghosts
<1>9. ASSUME NEW t \in Threads, ThreadStep(t)
      PROVE  [Abstract!Next]_(Abstract!dvars) /\ Provenance'
  <2>1. CASE GateCalls(t) \/ RamCalls(t)
    <3>1. PICK out \in Addrs, mode \in {"W", "RW"}, ins \in SUBSET Addrs,
               where \in SUBSET Nodes : Prepare(t, out, mode, ins, where)
      BY <2>1, CallsPrepare
    <3> QED BY <1>1, <3>1 DEF Prepare, queue, ghosts
  <2>2. CASE CaptureCalls(t) \/ (\E k \in tokens : PollToken(t, k)) \/ Fails(t)
             \/ waitForTask(t) \/ markHostWrite(t) \/ acquireHostWrite(t)
    <3>1. UNCHANGED <<nops, task, st, seqval, avail>>
      BY <2>2 DEF CaptureCalls, beginIyokanStarpuCapture, endIyokanStarpuCapture,
        synchronizeIyokanStarpuCapture, Throw, PollToken, waitForTask, Fails,
        submitFails, synchronizeFails, acquireHostWriteFails, markHostWrite,
        acquireHostWrite, queue, ghosts
    <3> QED BY <1>1, <3>1
  <2> QED BY <1>2, <1>3, <1>4, <1>9, <2>1, <2>2 DEF ThreadStep, Continue
<1>10. ASSUME NEW i \in Ops, WorkerStep(i)
       PROVE  [Abstract!Next]_(Abstract!dvars) /\ Provenance'
  <2>1. CASE Transfer(i)
    <3>1. UNCHANGED <<nops, task, st, seqval, avail>>
      BY <2>1 DEF Transfer, Fetch, queue, ghosts
    <3> QED BY <1>1, <3>1
  <2> QED BY <1>6, <1>7, <1>8, <1>10, <2>1 DEF WorkerStep, Execute
<1>11. CASE shutdownIyokanStarpu \/ Terminated \/ UNCHANGED vars
  <2>1. UNCHANGED <<nops, task, st, seqval, avail>>
    BY <1>11 DEF shutdownIyokanStarpu, Terminated, vars, queue, ghosts
  <2> QED BY <1>1, <2>1
<1> QED BY <1>9, <1>10, <1>11 DEF Next

\* The initial state of the backend is the initial state of Dataflow.
LEMMA InitSimulated ==
    ASSUME Init PROVE Abstract!Init /\ Provenance
<1>1. \A i \in Ops : ~Unexecuted(i) /\ ~Known(i) /\ st[i] # "running"
  BY DEF Init, Unexecuted, Known
<1>2. {i \in Ops : Unexecuted(i)} = {} /\ {i \in Ops : st[i] = "running"} = {}
  BY <1>1
<1>3. Planned = Abstract!NoReads /\ Observed = Abstract!NoReads
  BY <1>2 DEF Planned, Observed, Abstract!NoReads
<1>4. HostView = [a \in Addrs |-> 0]
  BY DEF Init, HostView
<1>5. Provenance
  BY <1>1 DEF Init, Provenance, VersionOf
<1> QED BY <1>3, <1>4, <1>5 DEF Init, Abstract!Init

\* The backend implements its contract for any number of threads, values, devices
\* and operations: codelets and host read what the order of submission gives them.
THEOREM BackendImplementsDataflow == Spec => ImplementsDataflow
<1>1. Init => Inv /\ Abstract!Init /\ Provenance
  BY InitCoherent, InitSimulated
<1>2. Inv /\ [Next]_vars => Inv'
  BY NextCoherent
<1>3. Inv /\ Inv' /\ Provenance /\ [Next]_vars =>
         [Abstract!Next]_(Abstract!dvars) /\ Provenance'
  BY StepSimulated
<1> QED BY <1>1, <1>2, <1>3, PTL DEF Spec, ImplementsDataflow, Abstract!Spec
============================================================================
