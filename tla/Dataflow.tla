------------------------------ MODULE Dataflow ------------------------------
(***************************************************************************)
(* What the KVSP backend promises its frontend, without handles, replicas, *)
(* queues or threads: operations on shared values take effect in the order *)
(* of their submission, although they are executed later and side by side; *)
(* each is executed once, on the values that order gives its operands; and *)
(* the host sees a value only as that order leaves it.                     *)
(***************************************************************************)
EXTENDS Integers

CONSTANTS
    Values,       \* the names of the values
    Operations    \* operation numbers; 0 stands for the initial contents

VARIABLES
    last,         \* number of the last operation
    mem,          \* mem[a]: the operation that last wrote a, in submission order
    plan,         \* plan[i]: what operation i is to read, until it has run
    seen,         \* seen[i]: what operation i reads while it runs
    view          \* view[a]: what the host sees of a, where it may look

dvars == <<last, mem, plan, seen, view>>

With(f, x, v) == [y \in DOMAIN f \cup {x} |-> IF y = x THEN v ELSE f[y]]
Without(f, x) == [y \in DOMAIN f \ {x} |-> f[y]]
NoReads == [i \in {} |-> 0]

Init ==
    /\ last = 0
    /\ mem = [a \in Values |-> 0]
    /\ plan = NoReads
    /\ seen = NoReads
    /\ view = [a \in Values |-> 0]

\* Version v is no longer to be computed.
Available(v) == v \notin DOMAIN plan

\* The next operation is to compute a from the values R; the host may not look
\* at a until it is published again.
Submit(a, R) ==
    /\ last + 1 \in Operations
    /\ last' = last + 1
    /\ plan' = With(plan, last', [r \in R |-> mem[r]])
    /\ mem' = [mem EXCEPT ![a] = last']
    /\ view' = Without(view, a)
    /\ seen' = seen

\* An operation starts when those it depends on are finished.
Start(i) ==
    /\ i \in DOMAIN plan \ DOMAIN seen
    /\ \A r \in DOMAIN plan[i] : Available(plan[i][r])
    /\ seen' = With(seen, i, plan[i])
    /\ UNCHANGED <<last, mem, plan, view>>

Finish(i) ==
    /\ i \in DOMAIN seen
    /\ seen' = Without(seen, i)
    /\ plan' = Without(plan, i)
    /\ UNCHANGED <<last, mem, view>>

\* The host gets to see the last version of a, once it is computed.
Publish(a) ==
    /\ Available(mem[a])
    /\ view' = With(view, a, mem[a])
    /\ UNCHANGED <<last, mem, plan, seen>>

\* The host overwrites a value it may look at, which is an operation as well.
HostWrite(a) ==
    /\ a \in DOMAIN view
    /\ last + 1 \in Operations
    /\ last' = last + 1
    /\ mem' = [mem EXCEPT ![a] = last']
    /\ view' = [view EXCEPT ![a] = last']
    /\ UNCHANGED <<plan, seen>>

Next ==
    \/ \E i \in Operations : Start(i) \/ Finish(i)
    \/ \E a \in Values : HostWrite(a) \/ Publish(a)
    \/ \E a \in Values, R \in SUBSET Values : Submit(a, R)

Spec == Init /\ [][Next]_dvars
============================================================================
