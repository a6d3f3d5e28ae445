--------------------------- MODULE IyokanDataflow ---------------------------
(***************************************************************************)
(* IyokanBackend implements Dataflow.  The abstract memory is the order of *)
(* submission; what an operation sees and what the host sees are read from *)
(* the real replicas: the buffers of the node the codelet runs on, and main *)
(* memory.                                                                 *)
(***************************************************************************)
EXTENDS IyokanBackend

ReadAddrs(i) == {AddrOf(h) : h \in Reads(task[i])}
HandleRead(i, a) == CHOOSE h \in Reads(task[i]) : AddrOf(h) = a

Planned ==
    [i \in {j \in Ops : Unexecuted(j)} |->
        [a \in ReadAddrs(i) |-> task[i].exp[a]]]
Observed ==
    [i \in {j \in Ops : st[j] = "running"} |->
        [a \in ReadAddrs(i) |-> Copy(HandleRead(i, a), node[i])]]
HostView == [a \in avail |-> ram[a]]

Abstract == INSTANCE Dataflow WITH
    Values <- Addrs, Operations <- Ops,
    last <- nops, mem <- seqval, plan <- Planned, seen <- Observed, view <- HostView

\* The backend implements its contract: every step of the registry, of StarPU's
\* queue and replicas, of captures, marks, failures and shutdown is a step of
\* Dataflow on what codelets and host really read, or changes nothing there.
ImplementsDataflow == Abstract!Spec
============================================================================
