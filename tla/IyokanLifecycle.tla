-------------------------- MODULE IyokanLifecycle --------------------------
(***************************************************************************)
(* The lifetime of Tangor's KVSP backend: worker configuration, the        *)
(* one-time start of StarPU, the evaluation key and its copy on the GPUs,  *)
(* shutdown, and the handlers registered with atexit                       *)
(* (src/iyokan-starpu-codelets.cpp, src/iyokan-cufhepp-starpu.cu).  What a *)
(* gate computes and which data it touches is IyokanBackend's subject; here*)
(* a task is the key it was submitted with and where it runs, and a call   *)
(* holds handles that shutdown may unregister under it.                    *)
(***************************************************************************)
EXTENDS Integers, Sequences, FiniteSets

CONSTANTS
    Threads,      \* frontend threads
    Main,         \* the thread that calls exit
    Keys,         \* evaluation keys, by address
    NoKey,        \* nullptr
    CpuCounts,    \* numbers of CPU workers the frontend may configure
    CudaCounts,   \* values of --num-gpu the frontend may configure
    MaxTasks,     \* bound: tasks ever inserted
    Discipline    \* what the environment respects, see below

\* "alone": the workers are configured while no other thread is in a call;
\* "drain": exit is called when every task has finished and no thread is in a
\*          call, and no call is made after it;
\* "stop":  shutdown is called when no other thread is in a call, and no call is
\*          made after it;
\* "probe": cudaGetDeviceCount finds the devices StarPU's CUDA workers run on.
Rules == {"alone", "drain", "stop", "probe"}

ASSUME LifecycleAssumption ==
    /\ Main \in Threads
    /\ NoKey \notin Keys
    /\ CpuCounts \subseteq Nat
    /\ CudaCounts \subseteq Nat
    /\ MaxTasks \in Nat
    /\ Discipline \subseteq Rules

TaskIds == 1..MaxTasks
Configs == [cpu : CpuCounts \cup {0}, cuda : CudaCounts \cup {0}]
DefaultConfig == [cpu |-> 0, cuda |-> 0]

VARIABLES
    backendMutex,      \* {} or the set of its one holder
    once,              \* starpuInitOnce: "new", "running", "done"
    configured,        \* configuredCpuWorkers and configuredCudaDevices
    conf,              \* the starpu_conf handed to starpu_init
    starpuInitStatus,  \* -1 before starpu_init, then 0 or an error, 1
    starpuRunning,
    currentEvalKey,
    cufhepp,           \* the key on the GPUs, NoKey when not initialized
    handlers,          \* functions registered with atexit, last one first
    pc, arg,           \* where each thread is in its call, and its argument
    await,             \* the task a blocking call waits for, 0 when none
    stale,             \* threads whose handles were unregistered under them
    exiting,           \* Main has called exit
    ntasks,            \* tasks inserted so far
    tkey, tst,         \* tkey[i], tst[i]: key of task i, where it is
    accepted,          \* ghost: the last configuration that was not refused
    evaluated          \* ghost: keys the workers have evaluated gates with

process == <<backendMutex, once, configured, conf, starpuInitStatus>>
keys == <<currentEvalKey, cufhepp>>
tasks == <<ntasks, tkey, tst>>
ghosts == <<accepted, evaluated>>
held == <<await, stale>>
vars == <<process, starpuRunning, keys, handlers, pc, arg, held, exiting, tasks,
          ghosts>>

Init ==
    /\ backendMutex = {}
    /\ once = "new"
    /\ configured = DefaultConfig
    /\ conf = DefaultConfig
    /\ starpuInitStatus = -1
    /\ starpuRunning = FALSE
    /\ currentEvalKey = NoKey
    /\ cufhepp = NoKey
    /\ handlers = <<>>
    /\ pc = [t \in Threads |-> "idle"]
    /\ arg = [t \in Threads |-> NoKey]
    /\ await = [t \in Threads |-> 0]
    /\ stale = {}
    /\ exiting = FALSE
    /\ ntasks = 0
    /\ tkey = [i \in TaskIds |-> NoKey]
    /\ tst = [i \in TaskIds |-> "free"]
    /\ accepted = DefaultConfig
    /\ evaluated = {}

Goto(t, where) == pc' = [pc EXCEPT ![t] = where]

\* A call returns, or throws: to the frontend, or to the exit handlers.
Return(t) == Goto(t, IF exiting /\ t = Main THEN "exit" ELSE "idle")

\* The call of a gate goes on with its key, or ends.
Proceed(t, where) == Goto(t, where) /\ UNCHANGED arg
EndCall(t) == Return(t) /\ arg' = [arg EXCEPT ![t] = NoKey]

\* Undefined behaviour: nothing is claimed of the process from here on.
Undefined == pc' = [t \in Threads |-> "undefined"]

\* The process has neither ended nor done something undefined.
Alive == pc[Main] \notin {"gone", "undefined"}

Quiet(t) == \A u \in Threads \ {t} : pc[u] = "idle"
Unfinished(i) == tst[i] \in {"queued", "cpu", "cuda"}
Stopped == starpuInitStatus = 0 /\ ~starpuRunning

\* Where a thread is that has not inserted its task yet.
BeforeTask == {"ensure", "init", "key", "insert", "submit"}

\* Where a thread is that shuts down, and from where on it holds backendMutex.
Closing == {"drain", "unregister", "cleanup", "drop", "stop"}
Shutting == {"shutdown"} \cup Closing

\* A thread may begin a call.
MayCall(t) ==
    /\ Alive
    /\ pc[t] = "idle"
    /\ "drain" \in Discipline => ~exiting
    /\ "stop" \in Discipline =>
          ~Stopped /\ \A u \in Threads : pc[u] \notin Shutting
    /\ "alone" \in Discipline => \A u \in Threads : pc[u] # "configure"

----------------------------------------------------------------------------
(* Configuration *)

\* Defect: a failed start of StarPU is forgotten.
FixedWhileRunning == starpuRunning

\* The workers can no longer be configured.
Fixed == starpuRunning \/ starpuInitStatus # -1

\* Refused once StarPU has been started or has failed to; otherwise the first
\* of the two assignments.  backendMutex does not exclude the start of StarPU,
\* which reads both values without it.
configureIyokanStarpu(t, c) ==
    /\ MayCall(t)
    /\ "alone" \in Discipline => Quiet(t)
    /\ backendMutex = {}
    /\ IF Fixed
       THEN UNCHANGED vars
       ELSE /\ backendMutex' = {t}
            /\ configured' = [configured EXCEPT !.cpu = c.cpu]
            /\ accepted' = c
            /\ Goto(t, "configure")
            /\ UNCHANGED <<once, conf, starpuInitStatus, starpuRunning, keys,
                           handlers, arg, held, exiting, tasks, evaluated>>

\* Defect: one device more than asked for.
configureCudaPlusOne(t) ==
    /\ pc[t] = "configure"
    /\ configured' = [configured EXCEPT !.cuda = accepted.cuda + 1]
    /\ backendMutex' = {}
    /\ Return(t)
    /\ UNCHANGED <<once, conf, starpuInitStatus, starpuRunning, keys, handlers,
                   arg, held, exiting, tasks, ghosts>>

\* The second assignment, and the end of the critical section.
configureCuda(t) ==
    /\ pc[t] = "configure"
    /\ configured' = [configured EXCEPT !.cuda = accepted.cuda]
    /\ backendMutex' = {}
    /\ Return(t)
    /\ UNCHANGED <<once, conf, starpuInitStatus, starpuRunning, keys, handlers,
                   arg, held, exiting, tasks, ghosts>>

----------------------------------------------------------------------------
(* Starting StarPU *)

\* runIyokanStarpu* or prepareIyokanStarpu is called, with a key except for NOT
\* and CMUXFFT.
Call(t, k) ==
    /\ MayCall(t)
    /\ ntasks + Cardinality({u \in Threads : pc[u] \in BeforeTask}) < MaxTasks
    /\ arg' = [arg EXCEPT ![t] = k]
    /\ Goto(t, "ensure")
    /\ UNCHANGED <<process, starpuRunning, keys, handlers, held, exiting, tasks,
                   ghosts>>

\* call_once: one caller runs the initializer; the others wait for it.
enterOnce(t) ==
    /\ pc[t] = "ensure"
    /\ once = "new"
    /\ once' = "running"
    /\ conf' = [conf EXCEPT !.cpu = configured.cpu]
    /\ Goto(t, "init")
    /\ UNCHANGED <<backendMutex, configured, starpuInitStatus, starpuRunning, keys,
                   handlers, arg, held, exiting, tasks, ghosts>>

\* atexit: the handlers run in reverse order of registration.
AtExit(f) == <<f>> \o handlers

\* starpu_init with the configuration read, and its registration with atexit.
starpuInit(t) ==
    /\ pc[t] = "init"
    /\ conf' = [conf EXCEPT !.cuda = configured.cuda]
    /\ once' = "done"
    /\ \/ /\ starpuInitStatus' = 0
          /\ starpuRunning' = TRUE
          /\ handlers' = AtExit("shutdown")
       \/ /\ starpuInitStatus' = 1
          /\ UNCHANGED <<starpuRunning, handlers>>
    /\ Goto(t, "ensure")
    /\ UNCHANGED <<backendMutex, configured, keys, arg, held, exiting, tasks, ghosts>>

\* Defect: a failed start is waited for instead of reported.
ensureStarpuRetries(t) ==
    /\ pc[t] = "ensure"
    /\ once = "done"
    /\ pc' = IF starpuInitStatus # 0 THEN pc
             ELSE [pc EXCEPT ![t] = IF arg[t] = NoKey THEN "insert" ELSE "key"]
    /\ UNCHANGED <<process, starpuRunning, keys, handlers, arg, held, exiting, tasks,
                   ghosts>>

\* Past call_once: throw if StarPU could not start, else go on to the key.
ensureStarpuRuntime(t) ==
    /\ pc[t] = "ensure"
    /\ once = "done"
    /\ IF starpuInitStatus # 0
       THEN EndCall(t)
       ELSE Proceed(t, IF arg[t] = NoKey THEN "insert" ELSE "key")
    /\ UNCHANGED <<process, starpuRunning, keys, handlers, held, exiting, tasks, ghosts>>

\* The GPUs get the first key there is, if StarPU has CUDA workers and the
\* devices are found; the caller ignores the result.
initializeIyokanCufhepp(k) ==
    \/ /\ cufhepp # NoKey \/ conf.cuda = 0 \/ "probe" \notin Discipline
       /\ UNCHANGED <<cufhepp, handlers>>
    \/ /\ cufhepp = NoKey
       /\ conf.cuda > 0
       /\ cufhepp' = k
       /\ handlers' = AtExit("cleanup")

\* Defect: the key is not compared with the one in use.
AcceptsAny(k) == k # NoKey

\* The key is the one in use, or none is in use.
Accepts(k) == currentEvalKey \in {NoKey, k}

\* The critical section of ensureStarpu: one key per process.
ensureStarpu(t) ==
    LET k == arg[t]
    IN  /\ pc[t] = "key"
        /\ backendMutex = {}
        /\ \/ /\ ~Accepts(k)
              /\ EndCall(t)
              /\ UNCHANGED <<keys, handlers>>
           \/ /\ Accepts(k)
              /\ currentEvalKey' = k
              /\ initializeIyokanCufhepp(k)
              /\ Proceed(t, "insert")
        /\ UNCHANGED <<process, starpuRunning, held, exiting, tasks, ghosts>>

\* The handles of the operands are looked up; prepareIyokanStarpu returns.
lookUpHandles(t) ==
    /\ pc[t] = "insert"
    /\ \/ Proceed(t, "submit")
       \/ arg[t] # NoKey /\ EndCall(t)
    /\ UNCHANGED <<process, starpuRunning, keys, handlers, held, exiting, tasks,
                   ghosts>>

\* starpu_task_insert with these handles, without backendMutex.  It may fail; a
\* task it takes after StarPU has stopped stays in the queue.  A call that is not
\* captured goes on to wait for the task.
insertTask(t) ==
    LET i == ntasks + 1
    IN  /\ pc[t] = "submit"
        /\ t \notin stale
        /\ \/ /\ EndCall(t)
              /\ UNCHANGED <<await, tasks>>
           \/ /\ i \in TaskIds
              /\ ntasks' = i
              /\ tkey' = [tkey EXCEPT ![i] = arg[t]]
              /\ tst' = [tst EXCEPT ![i] = "queued"]
              /\ \/ EndCall(t) /\ UNCHANGED await
                 \/ Proceed(t, "wait") /\ await' = [await EXCEPT ![t] = i]
        /\ UNCHANGED <<process, starpuRunning, keys, handlers, stale, exiting, ghosts>>

\* waitForTask: once the task is done, its output is acquired and released.
waitForTask(t) ==
    /\ pc[t] = "wait"
    /\ tst[await[t]] = "done"
    /\ t \notin stale
    /\ await' = [await EXCEPT ![t] = 0]
    /\ EndCall(t)
    /\ UNCHANGED <<process, starpuRunning, keys, handlers, stale, exiting, tasks,
                   ghosts>>

\* A task is inserted with, or an output acquired through, a handle that was
\* unregistered in the meantime.
useStaleHandle(t) ==
    /\ t \in stale
    /\ \/ pc[t] = "submit"
       \/ pc[t] = "wait" /\ tst[await[t]] = "done"
    /\ Undefined
    /\ UNCHANGED <<process, starpuRunning, keys, handlers, arg, held, exiting, tasks,
                   ghosts>>

----------------------------------------------------------------------------
(* StarPU's workers *)

\* CPU codelets dereference currentEvalKey, CUDA codelets use cuFHEpp's copy.
\* Tasks without a key run on CPUs.  Workers run until starpu_shutdown.
startTask(i) ==
    /\ Alive
    /\ starpuRunning
    /\ tst[i] = "queued"
    /\ \/ /\ tst' = [tst EXCEPT ![i] = "cpu"]
          /\ evaluated' = evaluated \cup
                (IF tkey[i] = NoKey THEN {} ELSE {currentEvalKey} \ {NoKey})
       \/ /\ conf.cuda > 0
          /\ tkey[i] # NoKey
          /\ tst' = [tst EXCEPT ![i] = "cuda"]
          /\ evaluated' = evaluated \cup ({cufhepp} \ {NoKey})
    /\ UNCHANGED <<process, starpuRunning, keys, handlers, pc, arg, held, exiting,
                   ntasks, tkey, accepted>>

\* The key the task needs where it runs is there.
Served(i) ==
    \/ tst[i] = "cpu" /\ (tkey[i] = NoKey \/ currentEvalKey # NoKey)
    \/ tst[i] = "cuda" /\ cufhepp # NoKey

\* A gate that runs without its key dereferences a null pointer or freed device
\* memory.
endTask(i) ==
    /\ Alive
    /\ tst[i] \in {"cpu", "cuda"}
    /\ \/ tst' = [tst EXCEPT ![i] = "done"] /\ UNCHANGED pc
       \/ ~Served(i) /\ Undefined /\ UNCHANGED tst
    /\ UNCHANGED <<process, starpuRunning, keys, handlers, arg, held, exiting, ntasks,
                   tkey, ghosts>>

----------------------------------------------------------------------------
(* Shutdown and exit *)

\* Defect: only the queue is waited for, not the tasks that execute.
QueueEmpty == \A i \in TaskIds : tst[i] # "queued"

\* What starpu_task_wait_for_all waits for.
Drained == \A i \in TaskIds : ~Unfinished(i)

callShutdown(t) ==
    /\ MayCall(t)
    /\ "stop" \in Discipline => Quiet(t)
    /\ Goto(t, "shutdown")
    /\ UNCHANGED <<process, starpuRunning, keys, handlers, arg, held, exiting, tasks,
                   ghosts>>

\* Defect: the early return leaves backendMutex locked.
shutdownStaysLocked(t) ==
    /\ pc[t] = "shutdown"
    /\ backendMutex = {}
    /\ backendMutex' = {t}
    /\ IF starpuRunning THEN Goto(t, "drain") ELSE Return(t)
    /\ UNCHANGED <<once, configured, conf, starpuInitStatus, starpuRunning, keys,
                   handlers, arg, held, exiting, tasks, ghosts>>

\* shutdownIyokanStarpu up to starpu_task_wait_for_all; nothing to do the second
\* time.
shutdownIyokanStarpu(t) ==
    /\ pc[t] = "shutdown"
    /\ backendMutex = {}
    /\ IF starpuRunning
       THEN backendMutex' = {t} /\ Goto(t, "drain")
       ELSE backendMutex' = backendMutex /\ Return(t)
    /\ UNCHANGED <<once, configured, conf, starpuInitStatus, starpuRunning, keys,
                   handlers, arg, held, exiting, tasks, ghosts>>

\* starpu_task_wait_for_all returns.  A thread past ensureStarpu may go on to
\* insert a task.
waitForAll(t) ==
    /\ pc[t] = "drain"
    /\ Drained
    /\ Goto(t, "unregister")
    /\ UNCHANGED <<process, starpuRunning, keys, handlers, arg, held, exiting, tasks,
                   ghosts>>

\* All handles are unregistered, which waits for the tasks that use them; a thread
\* that has looked its handles up keeps them.
unregisterHandles(t) ==
    /\ pc[t] = "unregister"
    /\ Drained
    /\ stale' = {u \in Threads : pc[u] \in {"submit", "wait"}}
    /\ Goto(t, "cleanup")
    /\ UNCHANGED <<process, starpuRunning, keys, handlers, arg, await, exiting, tasks,
                   ghosts>>

\* cleanupIyokanCufhepp: the GPU keys are freed.
cleanupIyokanCufhepp(t) ==
    /\ pc[t] = "cleanup"
    /\ cufhepp' = NoKey
    /\ Goto(t, "drop")
    /\ UNCHANGED <<process, starpuRunning, currentEvalKey, handlers, arg, held,
                   exiting, tasks, ghosts>>

\* currentEvalKey = nullptr.
dropKey(t) ==
    /\ pc[t] = "drop"
    /\ currentEvalKey' = NoKey
    /\ Goto(t, "stop")
    /\ UNCHANGED <<process, starpuRunning, cufhepp, handlers, arg, held, exiting,
                   tasks, ghosts>>

\* starpu_shutdown: the workers end their tasks and stop, the queue is lost; the
\* critical section ends.
stopStarpu(t) ==
    /\ pc[t] = "stop"
    /\ \A i \in TaskIds : tst[i] \notin {"cpu", "cuda"}
    /\ starpuRunning' = FALSE
    /\ backendMutex' = {}
    /\ Return(t)
    /\ UNCHANGED <<once, configured, conf, starpuInitStatus, keys, handlers, arg, held,
                   exiting, tasks, ghosts>>

\* Main calls exit, possibly on an error while the others are in their calls.
callExit ==
    /\ pc[Main] = "idle"
    /\ ~exiting
    /\ "drain" \in Discipline => Quiet(Main) /\ Drained
    /\ exiting' = TRUE
    /\ Goto(Main, "exit")
    /\ UNCHANGED <<process, starpuRunning, keys, handlers, arg, held, tasks, ghosts>>

\* exit runs the last registered handler and removes it; cleanupIyokanCufhepp
\* drops the GPU keys.
runHandler ==
    /\ pc[Main] = "exit"
    /\ handlers # <<>>
    /\ handlers' = Tail(handlers)
    /\ IF Head(handlers) = "shutdown"
       THEN Goto(Main, "shutdown") /\ UNCHANGED keys
       ELSE cufhepp' = NoKey /\ UNCHANGED <<pc, currentEvalKey>>
    /\ UNCHANGED <<process, starpuRunning, arg, held, exiting, tasks, ghosts>>

\* The handlers have run: the process ends, whatever the other threads do.
endProcess ==
    /\ pc[Main] = "exit"
    /\ handlers = <<>>
    /\ Goto(Main, "gone")
    /\ UNCHANGED <<process, starpuRunning, keys, handlers, arg, held, exiting, tasks,
                   ghosts>>

\* Nothing is left to do.
Terminated == ~Alive /\ UNCHANGED vars

----------------------------------------------------------------------------

Continue(t) ==
    /\ Alive
    /\ \/ configureCuda(t)
       \/ enterOnce(t)
       \/ starpuInit(t)
       \/ ensureStarpuRuntime(t)
       \/ ensureStarpu(t)
       \/ lookUpHandles(t)
       \/ insertTask(t)
       \/ waitForTask(t)
       \/ useStaleHandle(t)
       \/ shutdownIyokanStarpu(t)
       \/ waitForAll(t)
       \/ unregisterHandles(t)
       \/ cleanupIyokanCufhepp(t)
       \/ dropKey(t)
       \/ stopStarpu(t)

Next ==
    \/ \E t \in Threads :
          \/ \E c \in Configs : configureIyokanStarpu(t, c)
          \/ \E k \in Keys \cup {NoKey} : Call(t, k)
          \/ callShutdown(t)
          \/ Continue(t)
    \/ \E i \in TaskIds : startTask(i) \/ endTask(i)
    \/ callExit
    \/ runHandler
    \/ endProcess
    \/ Terminated

Spec == Init /\ [][Next]_vars

\* Threads inside a call and the exit handlers run, and StarPU executes its
\* tasks; a mutex that is free again and again is eventually obtained.
Fairness ==
    /\ \A t \in Threads : SF_vars(Continue(t))
    /\ \A i \in TaskIds : WF_vars(startTask(i)) /\ WF_vars(endTask(i))
    /\ WF_vars(runHandler)
    /\ WF_vars(endProcess)

FairSpec == Spec /\ Fairness

----------------------------------------------------------------------------
(* Properties *)

\* Type invariant.
TypeOK ==
    /\ backendMutex \subseteq Threads
    /\ once \in {"new", "running", "done"}
    /\ configured \in Configs
    /\ conf \in Configs
    /\ starpuInitStatus \in {-1, 0, 1}
    /\ starpuRunning \in BOOLEAN
    /\ currentEvalKey \in Keys \cup {NoKey}
    /\ cufhepp \in Keys \cup {NoKey}
    /\ handlers \in Seq({"shutdown", "cleanup"})
    /\ pc \in [Threads -> {"idle", "configure", "ensure", "init", "key", "insert",
                           "submit", "wait", "exit", "gone", "undefined"}
                             \cup Shutting]
    /\ arg \in [Threads -> Keys \cup {NoKey}]
    /\ await \in [Threads -> 0..MaxTasks]
    /\ stale \subseteq Threads
    /\ exiting \in BOOLEAN
    /\ ntasks \in 0..MaxTasks
    /\ tkey \in [TaskIds -> Keys \cup {NoKey}]
    /\ tst \in [TaskIds -> {"free", "queued", "cpu", "cuda", "done"}]
    /\ accepted \in Configs
    /\ evaluated \subseteq Keys

\* Wherever a bootstrapped gate executes, the key it needs is there, and it is
\* the one the gate was submitted with: currentEvalKey on a CPU worker,
\* cuFHEpp's copy on a GPU, across first use by several threads, explicit
\* shutdown and the exit handlers.
KeysLive ==
    \A i \in TaskIds :
        /\ tst[i] = "cpu" /\ tkey[i] # NoKey => currentEvalKey = tkey[i]
        /\ tst[i] = "cuda" => cufhepp = tkey[i]

\* A configuration that was not refused is the one StarPU was started with.
ConfigurationApplied ==
    once = "done" => conf = accepted

\* No process evaluates gates with two keys, whatever its threads do: a second
\* key is let through only after shutdown, when StarPU cannot be started again.
OneKeyPerProcess ==
    Cardinality(evaluated) <= 1

\* A gate executes on a GPU only while cuFHEpp holds keys there, also when the
\* process exits: gates have StarPU's lifetime, which ends after wait_for_all.
GpuKeysOutliveTasks ==
    \A i \in TaskIds : tst[i] = "cuda" => cufhepp # NoKey

\* Calls, shutdown and exit race freely: whoever enters the backend leaves it, so
\* the mutex, call_once, waitForTask and starpu_task_wait_for_all never wait for
\* one another.  Only a blocking call whose StarPU is stopped under it, or a
\* process that has used something shutdown took away, is left out.
CallsReturn ==
    \A t \in Threads :
        pc[t] \notin {"idle", "exit"} ~>
            pc[t] \in {"idle", "exit"} \/ ~Alive \/ (pc[t] = "wait" /\ Stopped)

\* A process that calls exit ends, although its handlers contend with the calls,
\* the shutdown and the tasks of other threads, unless calls that begin meanwhile
\* load the GPU keys again each time a handler has freed them, or the process has
\* used something that was taken away.
ExitCompletes ==
    \/ exiting ~> ~Alive
    \/ []<>(exiting /\ cufhepp = NoKey) /\ []<>(exiting /\ cufhepp # NoKey)
============================================================================
