----------------------- MODULE IyokanLifecycleProofs -----------------------
(***************************************************************************)
(* TLAPS proofs about IyokanLifecycle: a process evaluates one key whatever*)
(* its threads do, the key every running gate needs is in place, and StarPU*)
(* is started with the configuration that was accepted, each under the     *)
(* rules of Discipline it depends on.                                      *)
(***************************************************************************)
EXTENDS IyokanLifecycle, FiniteSetTheorems, SequenceTheorems, TLAPS

----------------------------------------------------------------------------
(* The inductive invariant, by subject *)

\* A call that goes on to ensureStarpu has a key.
Typed ==
    /\ TypeOK
    /\ \A t \in Threads : pc[t] = "key" => arg[t] # NoKey

\* Between its two assignments, and while it shuts down, a thread holds
\* backendMutex.
Locked ==
    \A t \in Threads : pc[t] \in {"configure"} \cup Closing => backendMutex = {t}

\* One thread runs the initializer; keys, tasks and handlers come after it.
Started ==
    /\ once = "new" => handlers = <<>>
    /\ once = "running" => \E t \in Threads : pc[t] = "init"
    /\ \A t \in Threads : pc[t] = "init" =>
          once = "running" /\ \A u \in Threads \ {t} : pc[u] # "init"
    /\ once = "done" <=> starpuInitStatus # -1
    /\ starpuRunning => starpuInitStatus = 0
    /\ currentEvalKey # NoKey => starpuInitStatus = 0
    /\ \A t \in Threads : pc[t] \in {"key", "insert", "submit", "wait"} =>
          starpuInitStatus = 0
    /\ \A t \in Threads : pc[t] \in Closing => starpuRunning
    /\ \A i \in TaskIds : tst[i] # "free" => starpuInitStatus = 0

\* Nobody reads the configuration while it is written.
Configured ==
    "alone" \in Discipline =>
        /\ \A t \in Threads : pc[t] = "configure" =>
              /\ once = "new"
              /\ \A u \in Threads \ {t} : pc[u] \in {"idle", "exit", "gone"}
        /\ configured.cpu = accepted.cpu
        /\ (\A t \in Threads : pc[t] # "configure") => configured = accepted
        /\ once = "running" => conf.cpu = accepted.cpu
        /\ once = "done" => conf = accepted

\* Only Main exits, with the rule "drain" on a quiet backend; what is undefined is
\* the whole process.
Exits ==
    /\ \A t \in Threads : pc[t] = "undefined" => pc[Main] = "undefined"
    /\ \A t \in Threads : pc[t] \in {"exit", "gone"} => t = Main /\ exiting
    /\ "drain" \in Discipline /\ exiting =>
          /\ pc[Main] \in {"exit", "gone"} \cup Shutting
          /\ \A u \in Threads \ {Main} : pc[u] = "idle"
          /\ Drained

\* The GPUs have the key in use, and lose it first.
KeysHeld ==
    /\ cufhepp # NoKey => currentEvalKey = cufhepp
    /\ \A t \in Threads : pc[t] \in {"drop", "stop"} => cufhepp = NoKey
    /\ \A t \in Threads : pc[t] = "stop" => currentEvalKey = NoKey
    /\ \A i \in TaskIds : tst[i] = "cuda" => conf.cuda > 0 /\ tkey[i] # NoKey

\* As long as StarPU runs, the key in use is the only one ever evaluated; when it
\* has been dropped, StarPU is about to stop for good.
OneKey ==
    /\ \A k, l \in evaluated : k = l
    /\ starpuInitStatus # 0 => evaluated = {}
    /\ starpuRunning /\ (\A t \in Threads : pc[t] \notin {"stop", "undefined"}) =>
          evaluated \subseteq {currentEvalKey}

\* The rules under which the keys outlive the tasks.
Rest == {"drain", "probe", "stop"}

\* With them shutdown is exclusive and final, a task that has not finished keeps
\* StarPU running and its key in use, and nothing undefined happens.
Ruled ==
    Rest \subseteq Discipline =>
        /\ stale = {} /\ \A t \in Threads : pc[t] # "undefined"
        /\ \A t \in Threads : pc[t] \in Shutting => Quiet(t)
        /\ \A t \in Threads : pc[t] \in Closing \ {"drain"} => Drained
        /\ Stopped => \A u \in Threads :
              pc[u] \in {"idle", "exit", "gone", "shutdown"}
        /\ \A i \in TaskIds :
              Unfinished(i) => starpuRunning /\ tkey[i] \in {NoKey, currentEvalKey}
        /\ \A t \in Threads : pc[t] \in {"insert", "submit"} =>
              starpuRunning /\ arg[t] \in {NoKey, currentEvalKey}
        /\ ~exiting /\ conf.cuda > 0 /\ (\A t \in Threads : pc[t] # "drop") =>
              cufhepp = currentEvalKey

LifecycleInv ==
    /\ Typed
    /\ Locked
    /\ Started
    /\ Configured
    /\ Exits
    /\ KeysHeld
    /\ OneKey
    /\ Ruled

----------------------------------------------------------------------------
(* Configurations and handlers *)

\* Writing one half of a configuration.
LEMMA ConfigHalves ==
    ASSUME NEW c \in Configs, NEW d \in Configs
    PROVE  /\ [c EXCEPT !.cpu = d.cpu] \in Configs
           /\ [c EXCEPT !.cpu = d.cpu].cpu = d.cpu
           /\ [c EXCEPT !.cpu = d.cpu].cuda = c.cuda
           /\ [c EXCEPT !.cuda = d.cuda] \in Configs
           /\ [c EXCEPT !.cuda = d.cuda].cpu = c.cpu
           /\ [c EXCEPT !.cuda = d.cuda].cuda = d.cuda
           /\ c.cpu = d.cpu => [c EXCEPT !.cuda = d.cuda] = d
BY DEF Configs

\* Registering a handler.
LEMMA AtExitType ==
    ASSUME handlers \in Seq({"shutdown", "cleanup"}),
           NEW f \in {"shutdown", "cleanup"}
    PROVE  AtExit(f) \in Seq({"shutdown", "cleanup"}) /\ AtExit(f) # <<>>
BY DEF AtExit

----------------------------------------------------------------------------
(* Every step preserves it *)

\* A configuration is refused, or its first half is written.
LEMMA ConfigureStep ==
    ASSUME LifecycleInv, NEW t \in Threads, NEW c \in Configs,
           configureIyokanStarpu(t, c)
    PROVE  LifecycleInv'
<1> USE LifecycleAssumption DEF LifecycleInv
<1>1. Typed'
  <2>1. CASE Fixed
    BY <2>1 DEF configureIyokanStarpu, Typed, TypeOK, vars, process, keys, held,
      tasks, ghosts
  <2>2. CASE ~Fixed
    <3>1. configured \in Configs /\ configured' = [configured EXCEPT !.cpu = c.cpu]
      BY <2>2 DEF configureIyokanStarpu, Typed, TypeOK
    <3>2. configured' \in Configs
      BY <3>1, ConfigHalves
    <3> QED BY <2>2, <3>2 DEF configureIyokanStarpu, Typed, TypeOK, Goto, keys,
        held, tasks
  <2> QED BY <2>1, <2>2
<1>2. Locked'
  BY DEF Locked, Typed, TypeOK, Closing, configureIyokanStarpu, Goto, vars,
    process
<1>3. Started'
  BY DEF Started, Typed, TypeOK, Closing, configureIyokanStarpu, Goto, vars,
    process, keys, tasks, MayCall
<1>4. Configured'
  <2>1. CASE Fixed
    BY <2>1 DEF configureIyokanStarpu, Configured, vars, process, ghosts
  <2>2. CASE ~Fixed
    <3>1. configured'.cpu = accepted'.cpu
      <4>1. configured \in Configs /\ configured' = [configured EXCEPT !.cpu = c.cpu]
        BY <2>2 DEF configureIyokanStarpu, Typed, TypeOK
      <4>2. accepted' = c
        BY <2>2 DEF configureIyokanStarpu
      <4> QED BY <4>1, <4>2, ConfigHalves
    <3>2. once # "done" /\ ("alone" \in Discipline => once = "new")
      BY <2>2 DEF Fixed, Started, configureIyokanStarpu, MayCall, Quiet, Typed,
        TypeOK
    <3>3. pc'[t] = "configure"
      BY <2>2 DEF configureIyokanStarpu, Goto, Typed, TypeOK
    <3> QED BY <2>2, <3>1, <3>2, <3>3 DEF Configured, configureIyokanStarpu, Quiet,
        Goto, Typed, TypeOK
  <2> QED BY <2>1, <2>2
<1>5. Exits'
  BY DEF Exits, Typed, TypeOK, Shutting, Closing, Drained, Unfinished,
    configureIyokanStarpu, Goto, vars, tasks, MayCall
<1>6. KeysHeld'
  BY DEF KeysHeld, Typed, TypeOK, Closing, configureIyokanStarpu, Goto, vars,
    process, keys, tasks
<1>7. OneKey'
  BY DEF OneKey, Typed, TypeOK, configureIyokanStarpu, Goto, vars, process,
    keys, ghosts, MayCall
<1>8. Ruled'
  BY DEF Ruled, Typed, TypeOK, Shutting, Closing, Quiet, Drained, Unfinished,
    Stopped, Rest, configureIyokanStarpu, Goto, vars, process, keys, held,
    tasks, MayCall
<1> QED BY <1>1, <1>2, <1>3, <1>4, <1>5, <1>6, <1>7, <1>8

\* Its second half is written.
LEMMA ConfigureCudaStep ==
    ASSUME LifecycleInv, NEW t \in Threads, configureCuda(t)
    PROVE  LifecycleInv'
<1> USE LifecycleAssumption DEF LifecycleInv
<1>1. Typed'
  <2>1. configured' \in Configs
    BY ConfigHalves DEF configureCuda, Typed, TypeOK
  <2> QED BY <2>1 DEF configureCuda, Return, Goto, Typed, TypeOK, keys, held, tasks,
      ghosts
<1>2. Locked'
  BY DEF Locked, Typed, TypeOK, Closing, configureCuda, Return, Goto
<1>3. Started'
  BY DEF Started, Typed, TypeOK, Closing, configureCuda, Return, Goto, keys,
    tasks
<1>4. Configured'
  <2>1. "alone" \in Discipline => configured' = accepted /\ once = "new"
    <3>1. /\ configured \in Configs /\ accepted \in Configs
          /\ configured' = [configured EXCEPT !.cuda = accepted.cuda]
          /\ pc[t] = "configure"
      BY DEF configureCuda, Typed, TypeOK
    <3>2. "alone" \in Discipline => configured.cpu = accepted.cpu /\ once = "new"
      BY <3>1 DEF Configured
    <3>3. configured.cpu = accepted.cpu => configured' = accepted
      <4>1. PICK c, d : c = configured /\ d = accepted
        OBVIOUS
      <4>2. c \in Configs /\ d \in Configs /\ configured' = [c EXCEPT !.cuda = d.cuda]
        BY <3>1, <4>1, Zenon
      <4>3. c.cpu = d.cpu => [c EXCEPT !.cuda = d.cuda] = d
        BY <4>2, ConfigHalves, Zenon
      <4> QED BY <4>1, <4>2, <4>3, Zenon
    <3> QED BY <3>2, <3>3
  <2> QED BY <2>1 DEF configureCuda, Return, Goto, Configured, ghosts
<1>5. Exits'
  BY DEF Exits, Typed, TypeOK, Shutting, Closing, Drained, Unfinished,
    configureCuda, Return, Goto, tasks
<1>6. KeysHeld'
  BY DEF KeysHeld, Typed, TypeOK, Closing, configureCuda, Return, Goto, keys,
    tasks
<1>7. OneKey'
  BY DEF OneKey, Typed, TypeOK, configureCuda, Return, Goto, keys, ghosts
<1>8. Ruled'
  BY DEF Ruled, Typed, TypeOK, Shutting, Closing, Quiet, Drained, Unfinished,
    Stopped, Rest, configureCuda, Return, Goto, keys, held, tasks
<1> QED BY <1>1, <1>2, <1>3, <1>4, <1>5, <1>6, <1>7, <1>8

\* A gate is called.
LEMMA CallStep ==
    ASSUME LifecycleInv, NEW t \in Threads, NEW k \in Keys \cup {NoKey}, Call(t, k)
    PROVE  LifecycleInv'
<1> USE LifecycleAssumption DEF LifecycleInv
<1>1. Typed'
  BY DEF Typed, TypeOK, Shutting, Closing, Call, MayCall, Goto, process, keys,
    held, tasks, ghosts
<1>2. Locked'
  BY DEF Locked, Typed, TypeOK, Closing, Call, MayCall, Goto, process
<1>3. Started'
  BY DEF Started, Typed, TypeOK, Closing, Call, MayCall, Goto, process, keys,
    tasks
<1>4. Configured'
  BY DEF Configured, Typed, TypeOK, Call, MayCall, Goto, process, ghosts
<1>5. Exits'
  BY DEF Exits, Typed, TypeOK, Shutting, Closing, Drained, Unfinished, Call,
    MayCall, Goto, tasks
<1>6. KeysHeld'
  BY DEF KeysHeld, Typed, TypeOK, Closing, Call, MayCall, Goto, process, keys,
    tasks
<1>7. OneKey'
  BY DEF OneKey, Typed, TypeOK, Call, MayCall, Goto, process, keys, ghosts
<1>8. Ruled'
  BY DEF Ruled, Typed, TypeOK, Shutting, Closing, Quiet, Drained, Unfinished,
    Stopped, Rest, Call, MayCall, Goto, process, keys, held, tasks
<1> QED BY <1>1, <1>2, <1>3, <1>4, <1>5, <1>6, <1>7, <1>8

\* The initializer begins.
LEMMA EnterOnceStep ==
    ASSUME LifecycleInv, NEW t \in Threads, enterOnce(t)
    PROVE  LifecycleInv'
<1> USE LifecycleAssumption DEF LifecycleInv
<1>1. Typed'
  <2>1. conf' \in Configs
    BY ConfigHalves DEF enterOnce, Typed, TypeOK
  <2> QED BY <2>1 DEF enterOnce, Goto, Typed, TypeOK, keys, held, tasks, ghosts
<1>2. Locked'
  BY DEF Locked, Typed, TypeOK, Closing, enterOnce, Goto
<1>3. Started'
  BY DEF Started, Typed, TypeOK, Closing, enterOnce, Goto, keys, tasks
<1>4. Configured'
  BY DEF Configured, Goto, enterOnce, ghosts
<1>5. Exits'
  BY DEF Exits, Typed, TypeOK, Shutting, Closing, Drained, Unfinished,
    enterOnce, Goto, tasks
<1>6. KeysHeld'
  BY ConfigHalves DEF KeysHeld, Typed, TypeOK, Closing, enterOnce, Goto, keys,
    tasks
<1>7. OneKey'
  BY DEF OneKey, Typed, TypeOK, enterOnce, Goto, keys, ghosts
<1>8. Ruled'
  <2>1. conf'.cuda = conf.cuda
    BY ConfigHalves DEF enterOnce, Typed, TypeOK
  <2> QED BY <2>1 DEF Ruled, Typed, TypeOK, Shutting, Closing, Quiet, Drained,
      Unfinished, Stopped, Rest, enterOnce, Goto, keys, held, tasks
<1> QED BY <1>1, <1>2, <1>3, <1>4, <1>5, <1>6, <1>7, <1>8

\* StarPU is started, or fails to.
LEMMA StarpuInitStep ==
    ASSUME LifecycleInv, NEW t \in Threads, starpuInit(t)
    PROVE  LifecycleInv'
<1> USE LifecycleAssumption DEF LifecycleInv
<1>1. Typed'
  <2>1. conf' \in Configs
    BY ConfigHalves DEF starpuInit, Typed, TypeOK
  <2>2. handlers' \in Seq({"shutdown", "cleanup"})
    BY AtExitType DEF starpuInit, Typed, TypeOK
  <2> QED BY <2>1, <2>2 DEF starpuInit, Goto, Typed, TypeOK, keys, held, tasks,
      ghosts
<1>2. Locked'
  BY DEF Locked, Typed, TypeOK, Closing, starpuInit, Goto
<1>3. Started'
  BY DEF Started, Typed, TypeOK, Closing, starpuInit, Goto, keys, tasks
<1>4. Configured'
  <2>1. once = "running"
    BY DEF starpuInit, Started
  <2>2. "alone" \in Discipline => conf' = accepted
    <3>1. /\ conf \in Configs /\ accepted \in Configs
          /\ conf' = [conf EXCEPT !.cuda = configured.cuda]
      BY DEF starpuInit, Typed, TypeOK
    <3>2. ASSUME "alone" \in Discipline
          PROVE  conf' = accepted
      <4>1. configured = accepted /\ conf.cpu = accepted.cpu
        BY <2>1, <3>2 DEF Configured
      <4>2. conf' = [conf EXCEPT !.cuda = accepted.cuda]
        BY <3>1, <4>1
      <4> QED BY <3>1, <4>1, <4>2, ConfigHalves
    <3> QED BY <3>2
  <2> QED BY <2>1, <2>2 DEF starpuInit, Goto, Configured, ghosts
<1>5. Exits'
  BY DEF Exits, Typed, TypeOK, Shutting, Closing, Drained, Unfinished,
    starpuInit, Goto, tasks
<1>6. KeysHeld'
  BY DEF KeysHeld, Typed, TypeOK, Closing, starpuInit, Goto, keys, tasks,
    Started
<1>7. OneKey'
  BY DEF OneKey, Typed, TypeOK, starpuInit, Goto, keys, ghosts, Started
<1>8. Ruled'
  BY DEF Ruled, Typed, TypeOK, Shutting, Closing, Quiet, Drained, Unfinished,
    Stopped, Rest, starpuInit, Goto, keys, held, tasks, Started, KeysHeld
<1> QED BY <1>1, <1>2, <1>3, <1>4, <1>5, <1>6, <1>7, <1>8

\* A call goes on to its key or to the insertion, or throws.
LEMMA RuntimeStep ==
    ASSUME LifecycleInv, NEW t \in Threads, ensureStarpuRuntime(t)
    PROVE  LifecycleInv'
<1> USE LifecycleAssumption DEF LifecycleInv
<1>1. Typed'
  BY DEF Typed, TypeOK, Shutting, Closing, ensureStarpuRuntime, Proceed,
    EndCall, Return, Goto, process, keys, held, tasks, ghosts
<1>2. Locked'
  BY ZenonT(30) DEF Locked, Typed, TypeOK, Closing, ensureStarpuRuntime, Proceed, EndCall,
    Return, Goto, process
<1>3. Started'
  BY DEF Started, Typed, TypeOK, Closing, ensureStarpuRuntime, Proceed, EndCall,
    Return, Goto, process, keys, tasks
<1>4. Configured'
  BY DEF Configured, Typed, TypeOK, ensureStarpuRuntime, Proceed, EndCall,
    Return, Goto, process, ghosts
<1>5. Exits'
  <2>1. /\ pc[t] = "ensure"
        /\ pc'[t] \in {"idle", "exit", "insert", "key"}
        /\ pc'[t] = "exit" => t = Main /\ exiting
        /\ \A u \in Threads \ {t} : pc'[u] = pc[u]
    BY DEF ensureStarpuRuntime, Proceed, EndCall, Return, Goto, Typed, TypeOK
  <2>2. UNCHANGED <<exiting, tst>>
    BY DEF ensureStarpuRuntime, tasks
  <2> QED BY <2>1, <2>2 DEF Exits, Drained, Unfinished, Shutting, Closing
<1>6. KeysHeld'
  BY DEF KeysHeld, Typed, TypeOK, Closing, ensureStarpuRuntime, Proceed,
    EndCall, Return, Goto, process, keys, tasks
<1>7. OneKey'
  BY DEF OneKey, Typed, TypeOK, ensureStarpuRuntime, Proceed, EndCall, Return,
    Goto, process, keys, ghosts
<1>8. Ruled'
  <2> SUFFICES ASSUME Rest \subseteq Discipline PROVE Ruled'
    BY DEF Ruled
  <2>1. /\ pc[t] = "ensure" /\ ~Stopped
        /\ \A u \in Threads : pc[u] \notin Shutting
    BY DEF Ruled, Quiet, Shutting, Closing, ensureStarpuRuntime, Typed, TypeOK
  <2>2. pc'[t] \notin Shutting \cup {"undefined"}
    BY DEF ensureStarpuRuntime, Proceed, EndCall, Return, Goto, Shutting, Closing,
      Typed, TypeOK
  <2>3. \A u \in Threads \ {t} : pc'[u] = pc[u] /\ arg'[u] = arg[u]
    BY DEF ensureStarpuRuntime, Proceed, EndCall, Return, Goto, Typed, TypeOK
  <2>4. pc'[t] = "insert" => starpuRunning /\ arg'[t] = NoKey
    BY <2>1 DEF ensureStarpuRuntime, Proceed, EndCall, Return, Goto, Typed, TypeOK,
      Stopped
  <2>5. pc'[t] # "submit"
    BY DEF ensureStarpuRuntime, Proceed, EndCall, Return, Goto, Typed, TypeOK
  <2>6. UNCHANGED <<starpuInitStatus, starpuRunning, currentEvalKey, cufhepp, conf,
                    stale, exiting, tst, tkey>>
    BY DEF ensureStarpuRuntime, process, keys, held, tasks
  <2> QED BY <2>1, <2>2, <2>3, <2>4, <2>5, <2>6 DEF Ruled, Stopped, Unfinished,
      Shutting, Closing
<1> QED BY <1>1, <1>2, <1>3, <1>4, <1>5, <1>6, <1>7, <1>8

\* The key of a call is refused or put in place.
LEMMA EnsureStep ==
    ASSUME LifecycleInv, NEW t \in Threads, ensureStarpu(t)
    PROVE  LifecycleInv'
<1> USE LifecycleAssumption DEF LifecycleInv
<1>1. Typed'
  <2>1. arg[t] \in Keys
    BY DEF ensureStarpu, Typed, TypeOK
  <2>2. /\ handlers' \in Seq({"shutdown", "cleanup"})
        /\ {currentEvalKey', cufhepp'} \subseteq Keys \cup {NoKey}
    BY <2>1, AtExitType DEF ensureStarpu, initializeIyokanCufhepp, Typed, TypeOK,
      keys
  <2>3. arg' \in [Threads -> Keys \cup {NoKey}]
    BY DEF ensureStarpu, Proceed, EndCall, Typed, TypeOK
  <2> QED BY <2>2, <2>3 DEF ensureStarpu, Proceed, EndCall, Return, Goto, Typed,
      TypeOK, process, held, tasks, ghosts
<1>2. Locked'
  BY DEF Locked, Typed, TypeOK, Closing, ensureStarpu, initializeIyokanCufhepp,
    Accepts, Proceed, EndCall, Return, Goto, process
<1>3. Started'
  BY DEF Started, Typed, TypeOK, Closing, ensureStarpu, initializeIyokanCufhepp,
    Accepts, Proceed, EndCall, Return, Goto, process, keys, tasks
<1>4. Configured'
  BY DEF Configured, Typed, TypeOK, ensureStarpu, initializeIyokanCufhepp,
    Accepts, Proceed, EndCall, Return, Goto, process, ghosts
<1>5. Exits'
  BY DEF Exits, Typed, TypeOK, Shutting, Closing, Drained, Unfinished,
    ensureStarpu, initializeIyokanCufhepp, Accepts, Proceed, EndCall, Return,
    Goto, tasks
<1>6. KeysHeld'
  BY DEF KeysHeld, Typed, TypeOK, Closing, ensureStarpu,
    initializeIyokanCufhepp, Accepts, Proceed, EndCall, Return, Goto, process,
    keys, tasks, Locked
<1>7. OneKey'
  BY DEF OneKey, Typed, TypeOK, ensureStarpu, initializeIyokanCufhepp, Accepts,
    Proceed, EndCall, Return, Goto, process, keys, ghosts, Locked, Started
<1>8. Ruled'
  <2> SUFFICES ASSUME Rest \subseteq Discipline PROVE Ruled'
    BY DEF Ruled
  <2>1. /\ pc[t] = "key" /\ ~Stopped
        /\ \A u \in Threads : pc[u] \notin Shutting
    BY DEF Ruled, Quiet, Shutting, Closing, ensureStarpu, Typed, TypeOK
  <2>2. pc'[t] \notin Shutting \cup {"undefined"}
    BY DEF ensureStarpu, Proceed, EndCall, Return, Goto, Shutting, Closing,
      Typed, TypeOK
  <2>3. \A u \in Threads \ {t} : pc'[u] = pc[u] /\ arg'[u] = arg[u]
    BY DEF ensureStarpu, Proceed, EndCall, Return, Goto, Typed, TypeOK
  <2>4. UNCHANGED <<starpuInitStatus, starpuRunning, conf, stale, exiting, tst, tkey>>
    BY DEF ensureStarpu, process, held, tasks
  <2>5. starpuRunning
    BY <2>1 DEF Started, Stopped
  <2>6. CASE Accepts(arg[t]) /\ currentEvalKey' = arg[t]
    <3>1. /\ initializeIyokanCufhepp(arg[t])
          /\ Proceed(t, "insert")
      BY <2>6 DEF ensureStarpu
    <3>2. pc'[t] = "insert" /\ arg' = arg
      BY <3>1 DEF Proceed, Goto, Typed, TypeOK
    <3>3. ~exiting /\ conf.cuda > 0 => cufhepp' = currentEvalKey'
      BY <2>1, <2>6, <3>1 DEF Ruled, Rest, Shutting, Closing, Accepts,
        initializeIyokanCufhepp
    <3> QED BY <2>1, <2>2, <2>3, <2>4, <2>5, <2>6, <3>2, <3>3 DEF Ruled, Accepts,
        Stopped, Unfinished, Shutting, Closing
  <2>7. CASE EndCall(t) /\ UNCHANGED keys
    <3>1. pc'[t] \notin {"insert", "submit"}
      BY <2>7 DEF EndCall, Return, Goto, Typed, TypeOK
    <3> QED BY <2>1, <2>2, <2>3, <2>4, <2>5, <2>7, <3>1 DEF Ruled, Stopped,
        Unfinished, Shutting, Closing, keys
  <2> QED BY <2>6, <2>7 DEF ensureStarpu
<1> QED BY <1>1, <1>2, <1>3, <1>4, <1>5, <1>6, <1>7, <1>8

\* The handles are looked up, or the call returns.
LEMMA LookUpStep ==
    ASSUME LifecycleInv, NEW t \in Threads, lookUpHandles(t)
    PROVE  LifecycleInv'
<1> USE LifecycleAssumption DEF LifecycleInv
<1>1. Typed'
  BY DEF Typed, TypeOK, Shutting, Closing, lookUpHandles, Proceed, EndCall,
    Return, Goto, process, keys, held, tasks, ghosts
<1>2. Locked'
  BY DEF Locked, Typed, TypeOK, Closing, lookUpHandles, Proceed, EndCall,
    Return, Goto, process
<1>3. Started'
  BY DEF Started, Typed, TypeOK, Closing, lookUpHandles, Proceed, EndCall,
    Return, Goto, process, keys, tasks
<1>4. Configured'
  BY ZenonT(30) DEF Configured, Typed, TypeOK, lookUpHandles, Proceed, EndCall, Return,
    Goto, process, ghosts
<1>5. Exits'
  BY DEF Exits, Typed, TypeOK, Shutting, Closing, Drained, Unfinished,
    lookUpHandles, Proceed, EndCall, Return, Goto, tasks
<1>6. KeysHeld'
  BY DEF KeysHeld, Typed, TypeOK, Closing, lookUpHandles, Proceed, EndCall,
    Return, Goto, process, keys, tasks
<1>7. OneKey'
  BY DEF OneKey, Typed, TypeOK, lookUpHandles, Proceed, EndCall, Return, Goto,
    process, keys, ghosts
<1>8. Ruled'
  <2> SUFFICES ASSUME Rest \subseteq Discipline PROVE Ruled'
    BY DEF Ruled
  <2>1. /\ pc[t] = "insert" /\ ~Stopped
        /\ \A u \in Threads : pc[u] \notin Shutting
    BY DEF Ruled, Quiet, Shutting, Closing, lookUpHandles, Typed, TypeOK
  <2>2. pc'[t] \notin Shutting \cup {"undefined"}
    BY DEF lookUpHandles, Proceed, EndCall, Return, Goto, Shutting, Closing,
      Typed, TypeOK
  <2>3. \A u \in Threads \ {t} : pc'[u] = pc[u] /\ arg'[u] = arg[u]
    BY DEF lookUpHandles, Proceed, EndCall, Return, Goto, Typed, TypeOK
  <2>4. /\ starpuRunning /\ arg[t] \in {NoKey, currentEvalKey}
        /\ arg'[t] \in {NoKey, arg[t]}
    BY <2>1 DEF Ruled, lookUpHandles, Proceed, EndCall, Return, Goto, Typed, TypeOK
  <2>5. UNCHANGED <<starpuInitStatus, starpuRunning, currentEvalKey, cufhepp, conf,
                    stale, exiting, tst, tkey>>
    BY DEF lookUpHandles, process, keys, held, tasks
  <2> QED BY <2>1, <2>2, <2>3, <2>4, <2>5 DEF Ruled, Stopped, Unfinished, Shutting,
      Closing
<1> QED BY <1>1, <1>2, <1>3, <1>4, <1>5, <1>6, <1>7, <1>8

\* A task is inserted, or not.
LEMMA InsertStep ==
    ASSUME LifecycleInv, NEW t \in Threads, insertTask(t)
    PROVE  LifecycleInv'
<1> USE LifecycleAssumption DEF LifecycleInv
<1>1. Typed'
  <2>1. ntasks' \in 0..MaxTasks
    BY DEF insertTask, Typed, TypeOK, TaskIds, tasks
  <2>2. /\ tkey' \in [TaskIds -> Keys \cup {NoKey}]
        /\ tst' \in [TaskIds -> {"free", "queued", "cpu", "cuda", "done"}]
    BY DEF insertTask, Typed, TypeOK, tasks
  <2>3. ntasks + 1 \in TaskIds => ntasks + 1 \in 0..MaxTasks
    BY DEF TaskIds, Typed, TypeOK
  <2>4. await' \in [Threads -> 0..MaxTasks]
    BY <2>3 DEF insertTask, Typed, TypeOK
  <2>5. arg' \in [Threads -> Keys \cup {NoKey}]
    BY DEF insertTask, Proceed, EndCall, Typed, TypeOK
  <2>6. \E w \in {"idle", "exit", "wait"} : pc' = [pc EXCEPT ![t] = w]
    BY DEF insertTask, Proceed, EndCall, Return, Goto
  <2>7. \A u \in Threads : pc'[u] = "key" => pc[u] = "key" /\ arg'[u] = arg[u]
    BY DEF insertTask, Proceed, EndCall, Return, Goto, Typed, TypeOK
  <2>8. UNCHANGED <<process, starpuRunning, keys, handlers, stale, exiting, ghosts>>
    BY DEF insertTask
  <2> QED BY <2>1, <2>2, <2>4, <2>5, <2>6, <2>7, <2>8 DEF Typed, TypeOK, process,
      keys, ghosts
<1>2. Locked'
  BY DEF Locked, Typed, TypeOK, Closing, insertTask, Proceed, EndCall, Return,
    Goto, process
<1>3. Started'
  BY DEF Started, Typed, TypeOK, Closing, insertTask, Proceed, EndCall, Return,
    Goto, process, keys, tasks
<1>4. Configured'
  <2>1. pc[t] = "submit" /\ pc'[t] # "configure"
    BY DEF insertTask, Proceed, EndCall, Return, Goto, Typed, TypeOK
  <2>2. \A u \in Threads \ {t} : pc'[u] = pc[u]
    BY DEF insertTask, Proceed, EndCall, Return, Goto, Typed, TypeOK
  <2> QED BY <2>1, <2>2 DEF Configured, insertTask, process, ghosts
<1>5. Exits'
  BY DEF Exits, Typed, TypeOK, Shutting, Closing, Drained, Unfinished,
    insertTask, Proceed, EndCall, Return, Goto, tasks
<1>6. KeysHeld'
  BY DEF KeysHeld, Typed, TypeOK, Closing, insertTask, Proceed, EndCall, Return,
    Goto, process, keys, tasks
<1>7. OneKey'
  BY DEF OneKey, Typed, TypeOK, insertTask, Proceed, EndCall, Return, Goto,
    process, keys, ghosts
<1>8. Ruled'
  <2> SUFFICES ASSUME Rest \subseteq Discipline PROVE Ruled'
    BY DEF Ruled
  <2>1. /\ pc[t] = "submit" /\ ~Stopped
        /\ \A u \in Threads : pc[u] \notin Shutting
    BY DEF Ruled, Quiet, Shutting, Closing, insertTask, Typed, TypeOK
  <2>2. pc'[t] \notin Shutting \cup {"undefined"}
    BY DEF insertTask, Proceed, EndCall, Return, Goto, Shutting, Closing,
      Typed, TypeOK
  <2>3. \A u \in Threads \ {t} : pc'[u] = pc[u] /\ arg'[u] = arg[u]
    BY DEF insertTask, Proceed, EndCall, Return, Goto, Typed, TypeOK
  <2>4. /\ starpuRunning /\ arg[t] \in {NoKey, currentEvalKey}
        /\ pc'[t] \notin {"insert", "submit"}
    BY <2>1 DEF Ruled, insertTask, Proceed, EndCall, Return, Goto, Typed, TypeOK
  <2>5. UNCHANGED <<starpuInitStatus, starpuRunning, currentEvalKey, cufhepp, conf,
                    stale, exiting>>
    BY DEF insertTask, process, keys
  <2>6. \A i \in TaskIds : \/ tst'[i] = tst[i] /\ tkey'[i] = tkey[i]
                           \/ tkey'[i] = arg[t]
    BY DEF insertTask, tasks, Typed, TypeOK
  <2> QED BY <2>1, <2>2, <2>3, <2>4, <2>5, <2>6 DEF Ruled, Stopped, Unfinished,
      Shutting, Closing
<1> QED BY <1>1, <1>2, <1>3, <1>4, <1>5, <1>6, <1>7, <1>8

\* A blocking call ends.
LEMMA WaitStep ==
    ASSUME LifecycleInv, NEW t \in Threads, waitForTask(t)
    PROVE  LifecycleInv'
<1> USE LifecycleAssumption DEF LifecycleInv
<1>1. Typed'
  BY DEF Typed, TypeOK, Shutting, Closing, waitForTask, EndCall, Return, Goto,
    process, keys, tasks, ghosts
<1>2. Locked'
  BY DEF Locked, Typed, TypeOK, Closing, waitForTask, EndCall, Return, Goto,
    process
<1>3. Started'
  BY DEF Started, Typed, TypeOK, Closing, waitForTask, EndCall, Return, Goto,
    process, keys, tasks
<1>4. Configured'
  BY DEF Configured, Typed, TypeOK, waitForTask, EndCall, Return, Goto, process,
    ghosts
<1>5. Exits'
  BY DEF Exits, Typed, TypeOK, Shutting, Closing, Drained, Unfinished,
    waitForTask, EndCall, Return, Goto, tasks
<1>6. KeysHeld'
  BY DEF KeysHeld, Typed, TypeOK, Closing, waitForTask, EndCall, Return, Goto,
    process, keys, tasks
<1>7. OneKey'
  BY DEF OneKey, Typed, TypeOK, waitForTask, EndCall, Return, Goto, process,
    keys, ghosts
<1>8. Ruled'
  BY DEF Ruled, Typed, TypeOK, Shutting, Closing, Quiet, Drained, Unfinished,
    Stopped, Rest, waitForTask, EndCall, Return, Goto, process, keys, tasks
<1> QED BY <1>1, <1>2, <1>3, <1>4, <1>5, <1>6, <1>7, <1>8

\* An unregistered handle is used.
LEMMA StaleStep ==
    ASSUME LifecycleInv, NEW t \in Threads, useStaleHandle(t)
    PROVE  LifecycleInv'
<1> USE LifecycleAssumption DEF LifecycleInv
<1>1. Typed'
  BY DEF Typed, TypeOK, Shutting, Closing, useStaleHandle, Undefined, process,
    keys, held, tasks, ghosts
<1>2. Locked'
  BY DEF Locked, Typed, TypeOK, Closing, useStaleHandle, Undefined, process
<1>3. Started'
  BY DEF Started, Typed, TypeOK, Closing, useStaleHandle, Undefined, process,
    keys, tasks
<1>4. Configured'
  BY DEF Configured, Typed, TypeOK, useStaleHandle, Undefined, process, ghosts,
    Started
<1>5. Exits'
  BY DEF Exits, Typed, TypeOK, Shutting, Closing, Drained, Unfinished,
    useStaleHandle, Undefined, tasks
<1>6. KeysHeld'
  BY DEF KeysHeld, Typed, TypeOK, Closing, useStaleHandle, Undefined, process,
    keys, tasks
<1>7. OneKey'
  BY DEF OneKey, Typed, TypeOK, useStaleHandle, Undefined, process, keys, ghosts
<1>8. Ruled'
  BY DEF Ruled, Typed, TypeOK, Shutting, Closing, Quiet, Drained, Unfinished,
    Stopped, Rest, useStaleHandle, Undefined, process, keys, held, tasks
<1> QED BY <1>1, <1>2, <1>3, <1>4, <1>5, <1>6, <1>7, <1>8

\* Shutdown is called.
LEMMA CallShutdownStep ==
    ASSUME LifecycleInv, NEW t \in Threads, callShutdown(t)
    PROVE  LifecycleInv'
<1> USE LifecycleAssumption DEF LifecycleInv
<1>1. Typed'
  BY DEF Typed, TypeOK, Shutting, Closing, callShutdown, MayCall, Goto, process,
    keys, held, tasks, ghosts
<1>2. Locked'
  BY DEF Locked, Typed, TypeOK, Closing, callShutdown, MayCall, Goto, process
<1>3. Started'
  BY DEF Started, Typed, TypeOK, Closing, callShutdown, MayCall, Goto, process,
    keys, tasks
<1>4. Configured'
  BY DEF Configured, Typed, TypeOK, callShutdown, MayCall, Goto, process, ghosts
<1>5. Exits'
  BY DEF Exits, Typed, TypeOK, Shutting, Closing, Drained, Unfinished,
    callShutdown, MayCall, Goto, tasks
<1>6. KeysHeld'
  BY DEF KeysHeld, Typed, TypeOK, Closing, callShutdown, MayCall, Goto, process,
    keys, tasks
<1>7. OneKey'
  BY DEF OneKey, Typed, TypeOK, callShutdown, MayCall, Goto, process, keys,
    ghosts
<1>8. Ruled'
  BY DEF Ruled, Typed, TypeOK, Shutting, Closing, Quiet, Drained, Unfinished,
    Stopped, Rest, callShutdown, MayCall, Goto, process, keys, held, tasks
<1> QED BY <1>1, <1>2, <1>3, <1>4, <1>5, <1>6, <1>7, <1>8

\* Shutdown takes the mutex, or has nothing to do.
LEMMA ShutdownStep ==
    ASSUME LifecycleInv, NEW t \in Threads, shutdownIyokanStarpu(t)
    PROVE  LifecycleInv'
<1> USE LifecycleAssumption DEF LifecycleInv
<1>1. Typed'
  <2>1. \E w \in {"idle", "exit", "drain"} : pc' = [pc EXCEPT ![t] = w]
    BY DEF shutdownIyokanStarpu, Return, Goto
  <2>2. backendMutex' \in {{}, {t}}
    BY DEF shutdownIyokanStarpu
  <2> QED BY <2>1, <2>2 DEF Typed, TypeOK, Shutting, Closing, shutdownIyokanStarpu,
      keys, held, tasks, ghosts
<1>2. Locked'
  BY DEF Locked, Typed, TypeOK, Closing, shutdownIyokanStarpu, Return, Goto
<1>3. Started'
  BY DEF Started, Typed, TypeOK, Closing, shutdownIyokanStarpu, Return, Goto,
    keys, tasks
<1>4. Configured'
  BY DEF Configured, Typed, TypeOK, shutdownIyokanStarpu, Return, Goto, ghosts
<1>5. Exits'
  <2>1. /\ pc[t] = "shutdown"
        /\ pc'[t] \in {"idle", "exit", "drain"}
        /\ pc'[t] = "exit" <=> pc'[t] # "drain" /\ t = Main /\ exiting
        /\ \A u \in Threads \ {t} : pc'[u] = pc[u]
    BY DEF shutdownIyokanStarpu, Return, Goto, Typed, TypeOK
  <2>2. UNCHANGED <<exiting, tst>>
    BY DEF shutdownIyokanStarpu, tasks
  <2> QED BY <2>1, <2>2 DEF Exits, Drained, Unfinished, Shutting, Closing
<1>6. KeysHeld'
  BY DEF KeysHeld, Typed, TypeOK, Closing, shutdownIyokanStarpu, Return, Goto,
    keys, tasks
<1>7. OneKey'
  BY DEF OneKey, Typed, TypeOK, shutdownIyokanStarpu, Return, Goto, keys, ghosts
<1>8. Ruled'
  <2> SUFFICES ASSUME Rest \subseteq Discipline PROVE Ruled'
    BY DEF Ruled
  <2>1. pc[t] = "shutdown" /\ Quiet(t)
    BY DEF Ruled, Shutting, shutdownIyokanStarpu
  <2>2. /\ pc'[t] \in {"drain", "idle", "exit"}
        /\ pc'[t] = "drain" => ~Stopped
    BY DEF shutdownIyokanStarpu, Return, Goto, Stopped, Typed, TypeOK
  <2>3. \A u \in Threads \ {t} : pc'[u] = pc[u] /\ pc[u] = "idle"
    BY <2>1 DEF shutdownIyokanStarpu, Return, Goto, Quiet, Typed, TypeOK
  <2>4. UNCHANGED <<starpuInitStatus, starpuRunning, currentEvalKey, cufhepp, conf,
                    stale, exiting, arg, tst, tkey>>
    BY DEF shutdownIyokanStarpu, keys, held, tasks
  <2>5. \A u \in Threads : pc[u] # "drop"
    BY <2>1 DEF Quiet
  <2> QED BY <2>2, <2>3, <2>4, <2>5 DEF Ruled, Stopped, Unfinished, Quiet, Shutting,
      Closing
<1> QED BY <1>1, <1>2, <1>3, <1>4, <1>5, <1>6, <1>7, <1>8

\* All tasks have finished.
LEMMA WaitForAllStep ==
    ASSUME LifecycleInv, NEW t \in Threads, waitForAll(t)
    PROVE  LifecycleInv'
<1> USE LifecycleAssumption DEF LifecycleInv
<1>1. Typed'
  BY DEF Typed, TypeOK, Shutting, Closing, waitForAll, Goto, process, keys,
    held, tasks, ghosts
<1>2. Locked'
  BY DEF Locked, Typed, TypeOK, Closing, waitForAll, Goto, process
<1>3. Started'
  BY DEF Started, Typed, TypeOK, Closing, waitForAll, Goto, process, keys, tasks
<1>4. Configured'
  BY DEF Configured, Typed, TypeOK, waitForAll, Goto, process, ghosts
<1>5. Exits'
  BY DEF Exits, Typed, TypeOK, Shutting, Closing, Drained, Unfinished,
    waitForAll, Goto, tasks
<1>6. KeysHeld'
  BY DEF KeysHeld, Typed, TypeOK, Closing, waitForAll, Goto, process, keys,
    tasks
<1>7. OneKey'
  BY DEF OneKey, Typed, TypeOK, waitForAll, Goto, process, keys, ghosts
<1>8. Ruled'
  BY DEF Ruled, Typed, TypeOK, Shutting, Closing, Quiet, Drained, Unfinished,
    Stopped, Rest, waitForAll, Goto, process, keys, held, tasks
<1> QED BY <1>1, <1>2, <1>3, <1>4, <1>5, <1>6, <1>7, <1>8

\* The handles are unregistered.
LEMMA UnregisterStep ==
    ASSUME LifecycleInv, NEW t \in Threads, unregisterHandles(t)
    PROVE  LifecycleInv'
<1> USE LifecycleAssumption DEF LifecycleInv
<1>1. Typed'
  BY DEF Typed, TypeOK, Shutting, Closing, unregisterHandles, Goto, process,
    keys, tasks, ghosts
<1>2. Locked'
  BY DEF Locked, Typed, TypeOK, Closing, unregisterHandles, Goto, process
<1>3. Started'
  BY DEF Started, Typed, TypeOK, Closing, unregisterHandles, Goto, process,
    keys, tasks
<1>4. Configured'
  BY DEF Configured, Typed, TypeOK, unregisterHandles, Goto, process, ghosts
<1>5. Exits'
  BY DEF Exits, Typed, TypeOK, Shutting, Closing, Drained, Unfinished,
    unregisterHandles, Goto, tasks
<1>6. KeysHeld'
  BY DEF KeysHeld, Typed, TypeOK, Closing, unregisterHandles, Goto, process,
    keys, tasks
<1>7. OneKey'
  BY DEF OneKey, Typed, TypeOK, unregisterHandles, Goto, process, keys, ghosts
<1>8. Ruled'
  BY DEF Ruled, Typed, TypeOK, Shutting, Closing, Quiet, Drained, Unfinished,
    Stopped, Rest, unregisterHandles, Goto, process, keys, tasks
<1> QED BY <1>1, <1>2, <1>3, <1>4, <1>5, <1>6, <1>7, <1>8

\* The GPU keys are freed.
LEMMA CleanupStep ==
    ASSUME LifecycleInv, NEW t \in Threads, cleanupIyokanCufhepp(t)
    PROVE  LifecycleInv'
<1> USE LifecycleAssumption DEF LifecycleInv
<1>1. Typed'
  BY DEF Typed, TypeOK, Shutting, Closing, cleanupIyokanCufhepp, Goto, process,
    held, tasks, ghosts
<1>2. Locked'
  BY DEF Locked, Typed, TypeOK, Closing, cleanupIyokanCufhepp, Goto, process
<1>3. Started'
  BY DEF Started, Typed, TypeOK, Closing, cleanupIyokanCufhepp, Goto, process,
    tasks
<1>4. Configured'
  BY DEF Configured, Typed, TypeOK, cleanupIyokanCufhepp, Goto, process, ghosts
<1>5. Exits'
  BY DEF Exits, Typed, TypeOK, Shutting, Closing, Drained, Unfinished,
    cleanupIyokanCufhepp, Goto, tasks
<1>6. KeysHeld'
  BY DEF KeysHeld, Typed, TypeOK, Closing, cleanupIyokanCufhepp, Goto, process,
    tasks
<1>7. OneKey'
  BY DEF OneKey, Typed, TypeOK, cleanupIyokanCufhepp, Goto, process, ghosts
<1>8. Ruled'
  BY DEF Ruled, Typed, TypeOK, Shutting, Closing, Quiet, Drained, Unfinished,
    Stopped, Rest, cleanupIyokanCufhepp, Goto, process, held, tasks
<1> QED BY <1>1, <1>2, <1>3, <1>4, <1>5, <1>6, <1>7, <1>8

\* The key is dropped.
LEMMA DropStep ==
    ASSUME LifecycleInv, NEW t \in Threads, dropKey(t)
    PROVE  LifecycleInv'
<1> USE LifecycleAssumption DEF LifecycleInv
<1>1. Typed'
  BY DEF Typed, TypeOK, Shutting, Closing, dropKey, Goto, process, held, tasks,
    ghosts
<1>2. Locked'
  BY DEF Locked, Typed, TypeOK, Closing, dropKey, Goto, process
<1>3. Started'
  BY DEF Started, Typed, TypeOK, Closing, dropKey, Goto, process, tasks
<1>4. Configured'
  BY DEF Configured, Typed, TypeOK, dropKey, Goto, process, ghosts
<1>5. Exits'
  BY DEF Exits, Typed, TypeOK, Shutting, Closing, Drained, Unfinished, dropKey,
    Goto, tasks
<1>6. KeysHeld'
  BY DEF KeysHeld, Typed, TypeOK, Closing, dropKey, Goto, process, tasks
<1>7. OneKey'
  BY DEF OneKey, Typed, TypeOK, dropKey, Goto, process, ghosts
<1>8. Ruled'
  <2> SUFFICES ASSUME Rest \subseteq Discipline PROVE Ruled'
    BY DEF Ruled
  <2>1. pc[t] = "drop" /\ Quiet(t) /\ Drained /\ cufhepp = NoKey /\ ~Stopped
    BY DEF dropKey, Ruled, Shutting, Closing, KeysHeld
  <2>2. pc'[t] = "stop" /\ \A u \in Threads \ {t} : pc'[u] = "idle"
    BY <2>1 DEF dropKey, Goto, Quiet, Typed, TypeOK
  <2>3. /\ UNCHANGED <<starpuInitStatus, starpuRunning, cufhepp, stale, tst>>
        /\ currentEvalKey' = NoKey
    BY DEF dropKey, process, held, tasks
  <2> QED BY <2>1, <2>2, <2>3 DEF Ruled, Stopped, Drained, Unfinished, Quiet,
      Shutting, Closing
<1> QED BY <1>1, <1>2, <1>3, <1>4, <1>5, <1>6, <1>7, <1>8

\* StarPU stops.
LEMMA StopStep ==
    ASSUME LifecycleInv, NEW t \in Threads, stopStarpu(t)
    PROVE  LifecycleInv'
<1> USE LifecycleAssumption DEF LifecycleInv
<1>1. Typed'
  BY DEF Typed, TypeOK, Shutting, Closing, stopStarpu, Return, Goto, keys, held,
    tasks, ghosts
<1>2. Locked'
  BY ZenonT(30) DEF Locked, Typed, TypeOK, Closing, stopStarpu, Return, Goto
<1>3. Started'
  BY ZenonT(30) DEF Started, Typed, TypeOK, Closing, stopStarpu, Return, Goto, keys, tasks,
    Locked
<1>4. Configured'
  BY DEF Configured, Typed, TypeOK, stopStarpu, Return, Goto, ghosts
<1>5. Exits'
  BY DEF Exits, Typed, TypeOK, Shutting, Closing, Drained, Unfinished,
    stopStarpu, Return, Goto, tasks
<1>6. KeysHeld'
  BY DEF KeysHeld, Typed, TypeOK, Closing, stopStarpu, Return, Goto, keys, tasks
<1>7. OneKey'
  BY DEF OneKey, Typed, TypeOK, stopStarpu, Return, Goto, keys, ghosts
<1>8. Ruled'
  BY DEF Ruled, Typed, TypeOK, Shutting, Closing, Quiet, Drained, Unfinished,
    Stopped, Rest, stopStarpu, Return, Goto, keys, held, tasks, KeysHeld
<1> QED BY <1>1, <1>2, <1>3, <1>4, <1>5, <1>6, <1>7, <1>8

\* A worker starts a task.
LEMMA StartTaskStep ==
    ASSUME LifecycleInv, NEW i \in TaskIds, startTask(i)
    PROVE  LifecycleInv'
<1> USE LifecycleAssumption DEF LifecycleInv
<1>1. Typed'
  BY DEF Typed, TypeOK, Shutting, Closing, startTask, process, keys, held
<1>2. Locked'
  BY DEF Locked, Typed, TypeOK, Closing, startTask, process
<1>3. Started'
  BY DEF Started, Typed, TypeOK, Closing, startTask, process, keys
<1>4. Configured'
  BY DEF Configured, Typed, TypeOK, startTask, process
<1>5. Exits'
  BY DEF Exits, Typed, TypeOK, Shutting, Closing, Drained, Unfinished, startTask
<1>6. KeysHeld'
  BY DEF KeysHeld, Typed, TypeOK, Closing, startTask, process, keys
<1>7. OneKey'
  <2>1. /\ UNCHANGED <<starpuInitStatus, starpuRunning, currentEvalKey, pc>>
        /\ starpuRunning /\ starpuInitStatus = 0
    BY DEF startTask, Started, process, keys
  <2>2. evaluated' \subseteq evaluated \cup ({currentEvalKey} \ {NoKey})
    BY DEF startTask, KeysHeld
  <2>3. CASE \E t \in Threads : pc[t] = "stop"
    BY <2>1, <2>2, <2>3 DEF OneKey, KeysHeld
  <2>4. CASE \A t \in Threads : pc[t] # "stop"
    <3>1. \A t \in Threads : pc[t] # "undefined"
      BY DEF startTask, Alive, Exits
    <3>2. evaluated \subseteq {currentEvalKey}
      BY <2>1, <2>4, <3>1 DEF OneKey
    <3> QED BY <2>1, <2>2, <3>2 DEF OneKey
  <2> QED BY <2>3, <2>4
<1>8. Ruled'
  BY DEF Ruled, Typed, TypeOK, Shutting, Closing, Quiet, Drained, Unfinished,
    Stopped, Rest, startTask, process, keys, held
<1> QED BY <1>1, <1>2, <1>3, <1>4, <1>5, <1>6, <1>7, <1>8

\* A worker ends a task, or needs a key that is gone.
LEMMA EndTaskStep ==
    ASSUME LifecycleInv, NEW i \in TaskIds, endTask(i)
    PROVE  LifecycleInv'
<1> USE LifecycleAssumption DEF LifecycleInv
<1>1. Typed'
  BY ZenonT(30) DEF Typed, TypeOK, Shutting, Closing, endTask, Undefined, process, keys,
    held, ghosts
<1>2. Locked'
  BY DEF Locked, Typed, TypeOK, Closing, endTask, Undefined, process
<1>3. Started'
  BY DEF Started, Typed, TypeOK, Closing, endTask, Undefined, process, keys
<1>4. Configured'
  BY DEF Configured, Typed, TypeOK, endTask, Undefined, process, ghosts, Started
<1>5. Exits'
  BY DEF Exits, Typed, TypeOK, Shutting, Closing, Drained, Unfinished, endTask,
    Undefined
<1>6. KeysHeld'
  BY DEF KeysHeld, Typed, TypeOK, Closing, endTask, Undefined, process, keys
<1>7. OneKey'
  BY DEF OneKey, Typed, TypeOK, endTask, Undefined, process, keys, ghosts
<1>8. Ruled'
  BY DEF Ruled, Typed, TypeOK, Shutting, Closing, Quiet, Drained, Unfinished,
    Stopped, Rest, endTask, Undefined, process, keys, held, Served, Exits,
    KeysHeld
<1> QED BY <1>1, <1>2, <1>3, <1>4, <1>5, <1>6, <1>7, <1>8

\* Main calls exit.
LEMMA ExitStep ==
    ASSUME LifecycleInv, callExit
    PROVE  LifecycleInv'
<1> USE LifecycleAssumption DEF LifecycleInv
<1>1. Typed'
  BY DEF Typed, TypeOK, Shutting, Closing, callExit, Quiet, Goto, process, keys,
    held, tasks, ghosts
<1>2. Locked'
  BY DEF Locked, Typed, TypeOK, Closing, callExit, Quiet, Goto, process
<1>3. Started'
  BY DEF Started, Typed, TypeOK, Closing, callExit, Quiet, Goto, process, keys,
    tasks
<1>4. Configured'
  BY DEF Configured, Typed, TypeOK, callExit, Quiet, Goto, process, ghosts
<1>5. Exits'
  BY DEF Exits, Typed, TypeOK, Shutting, Closing, Drained, Unfinished, callExit,
    Quiet, Goto, tasks
<1>6. KeysHeld'
  BY DEF KeysHeld, Typed, TypeOK, Closing, callExit, Quiet, Goto, process, keys,
    tasks
<1>7. OneKey'
  BY DEF OneKey, Typed, TypeOK, callExit, Quiet, Goto, process, keys, ghosts
<1>8. Ruled'
  BY DEF Ruled, Typed, TypeOK, Shutting, Closing, Quiet, Drained, Unfinished,
    Stopped, Rest, callExit, Goto, process, keys, held, tasks
<1> QED BY <1>1, <1>2, <1>3, <1>4, <1>5, <1>6, <1>7, <1>8

\* exit runs a handler.
LEMMA HandlerStep ==
    ASSUME LifecycleInv, runHandler
    PROVE  LifecycleInv'
<1> USE LifecycleAssumption DEF LifecycleInv
<1>1. Typed'
  <2>1. handlers' \in Seq({"shutdown", "cleanup"})
    BY DEF runHandler, Typed, TypeOK
  <2>2. /\ pc' = pc \/ pc' = [pc EXCEPT ![Main] = "shutdown"]
        /\ cufhepp' \in {cufhepp, NoKey} /\ currentEvalKey' = currentEvalKey
        /\ pc[Main] = "exit"
    BY DEF runHandler, Goto, keys
  <2> QED BY <2>1, <2>2 DEF runHandler, Typed, TypeOK, Shutting, process, held,
      tasks, ghosts
<1>2. Locked'
  BY DEF Locked, Typed, TypeOK, Closing, runHandler, Goto, process
<1>3. Started'
  BY DEF Started, Typed, TypeOK, Closing, runHandler, Goto, process, keys, tasks
<1>4. Configured'
  BY DEF Configured, Typed, TypeOK, runHandler, Goto, process, ghosts, Started
<1>5. Exits'
  BY DEF Exits, Typed, TypeOK, Shutting, Closing, Drained, Unfinished,
    runHandler, Goto, tasks
<1>6. KeysHeld'
  BY DEF KeysHeld, Typed, TypeOK, Closing, runHandler, Goto, process, keys,
    tasks
<1>7. OneKey'
  BY DEF OneKey, Typed, TypeOK, runHandler, Goto, process, keys, ghosts
<1>8. Ruled'
  <2> SUFFICES ASSUME Rest \subseteq Discipline PROVE Ruled'
    BY DEF Ruled
  <2>1. /\ pc[Main] = "exit" /\ exiting /\ Drained
        /\ \A u \in Threads \ {Main} : pc[u] = "idle"
    BY DEF runHandler, Exits, Rest
  <2>2. /\ pc'[Main] \in {"exit", "shutdown"}
        /\ \A u \in Threads \ {Main} : pc'[u] = "idle"
    BY <2>1 DEF runHandler, Goto, Typed, TypeOK
  <2>3. UNCHANGED <<starpuInitStatus, starpuRunning, currentEvalKey, stale, exiting,
                    tst>>
    BY DEF runHandler, process, keys, held, tasks
  <2> QED BY <2>1, <2>2, <2>3 DEF Ruled, Quiet, Drained, Unfinished, Shutting,
      Closing
<1> QED BY <1>1, <1>2, <1>3, <1>4, <1>5, <1>6, <1>7, <1>8

\* The process ends.
LEMMA EndStep ==
    ASSUME LifecycleInv, endProcess
    PROVE  LifecycleInv'
<1> USE LifecycleAssumption DEF LifecycleInv
<1>1. Typed'
  BY DEF Typed, TypeOK, Shutting, Closing, endProcess, Goto, process, keys,
    held, tasks, ghosts
<1>2. Locked'
  BY DEF Locked, Typed, TypeOK, Closing, endProcess, Goto, process
<1>3. Started'
  BY DEF Started, Typed, TypeOK, Closing, endProcess, Goto, process, keys, tasks
<1>4. Configured'
  BY DEF Configured, Typed, TypeOK, endProcess, Goto, process, ghosts
<1>5. Exits'
  BY DEF Exits, Typed, TypeOK, Shutting, Closing, Drained, Unfinished,
    endProcess, Goto, tasks
<1>6. KeysHeld'
  BY DEF KeysHeld, Typed, TypeOK, Closing, endProcess, Goto, process, keys,
    tasks
<1>7. OneKey'
  BY DEF OneKey, Typed, TypeOK, endProcess, Goto, process, keys, ghosts
<1>8. Ruled'
  BY DEF Ruled, Typed, TypeOK, Shutting, Closing, Quiet, Drained, Unfinished,
    Stopped, Rest, endProcess, Goto, process, keys, held, tasks
<1> QED BY <1>1, <1>2, <1>3, <1>4, <1>5, <1>6, <1>7, <1>8

\* Nothing changes.
LEMMA SameStep ==
    ASSUME LifecycleInv, UNCHANGED vars
    PROVE  LifecycleInv'
<1> USE LifecycleAssumption DEF LifecycleInv
<1>1. Typed'
  BY DEF Typed, TypeOK, Shutting, Closing, vars, process, keys, held, tasks,
    ghosts
<1>2. Locked'
  BY DEF Locked, Typed, TypeOK, Closing, vars, process
<1>3. Started'
  BY DEF Started, Typed, TypeOK, Closing, vars, process, keys, tasks
<1>4. Configured'
  BY DEF Configured, Typed, TypeOK, vars, process, ghosts
<1>5. Exits'
  BY DEF Exits, Typed, TypeOK, Shutting, Closing, Drained, Unfinished, vars,
    tasks
<1>6. KeysHeld'
  BY DEF KeysHeld, Typed, TypeOK, Closing, vars, process, keys, tasks
<1>7. OneKey'
  BY DEF OneKey, Typed, TypeOK, vars, process, keys, ghosts
<1>8. Ruled'
  BY DEF Ruled, Typed, TypeOK, Shutting, Closing, Quiet, Drained, Unfinished,
    Stopped, Rest, vars, process, keys, held, tasks
<1> QED BY <1>1, <1>2, <1>3, <1>4, <1>5, <1>6, <1>7, <1>8

----------------------------------------------------------------------------
(* The theorems *)

\* The invariant holds initially.
LEMMA InitLifecycle ==
    ASSUME Init PROVE LifecycleInv
<1> USE LifecycleAssumption DEF Init
<1>1. DefaultConfig \in Configs
  BY DEF DefaultConfig, Configs
<1>2. Typed
  <2>1. handlers \in Seq({"shutdown", "cleanup"}) /\ ntasks \in 0..MaxTasks
    OBVIOUS
  <2> QED BY <1>1, <2>1 DEF Typed, TypeOK
<1>3. Locked /\ Started /\ Configured /\ Exits
  BY DEF Locked, Closing, Started, Configured, Exits
<1>4. KeysHeld /\ OneKey
  BY DEF KeysHeld, OneKey
<1>5. Ruled
  BY DEF Ruled, Shutting, Closing, Unfinished, Stopped
<1> QED BY <1>2, <1>3, <1>4, <1>5 DEF LifecycleInv

\* Every step preserves it.
LEMMA NextLifecycle ==
    ASSUME LifecycleInv, [Next]_vars PROVE LifecycleInv'
<1>1. ASSUME NEW t \in Threads, Continue(t)
      PROVE  LifecycleInv'
  BY <1>1, ConfigureCudaStep, EnterOnceStep, StarpuInitStep, RuntimeStep, EnsureStep,
    LookUpStep, InsertStep, WaitStep, StaleStep, ShutdownStep, WaitForAllStep,
    UnregisterStep, CleanupStep, DropStep, StopStep DEF Continue
<1> QED BY <1>1, ConfigureStep, CallStep, CallShutdownStep, StartTaskStep,
    EndTaskStep, ExitStep, HandlerStep, EndStep, SameStep DEF Next, Terminated

\* The inductive invariant holds of every behaviour, whatever the environment
\* respects.
THEOREM LifecycleInvariant == Spec => []LifecycleInv
<1>1. Init => LifecycleInv
  BY InitLifecycle
<1>2. LifecycleInv /\ [Next]_vars => LifecycleInv'
  BY NextLifecycle
<1> QED BY <1>1, <1>2, PTL DEF Spec

\* Every variable has its type.
THEOREM LifecycleTypeCorrect == Spec => []TypeOK
<1>1. LifecycleInv => TypeOK
  BY DEF LifecycleInv, Typed
<1> QED BY <1>1, LifecycleInvariant, PTL

\* Where a bootstrapped gate executes it finds the key it was submitted with, for
\* any number of threads, keys and tasks, if the frontend's threads are out of the
\* backend when it shuts down and stay out, exit waits for the tasks, and the CUDA
\* runtime finds StarPU's devices.
THEOREM KeysStayLive ==
    ASSUME {"drain", "probe", "stop"} \subseteq Discipline
    PROVE  Spec => []KeysLive
<1>1. LifecycleInv => KeysLive
  <2> SUFFICES ASSUME LifecycleInv, NEW i \in TaskIds, tst[i] \in {"cpu", "cuda"}
               PROVE  /\ tkey[i] # NoKey => currentEvalKey = tkey[i]
                      /\ tst[i] = "cuda" => cufhepp = tkey[i]
    BY DEF KeysLive
  <2>1. tkey[i] \in {NoKey, currentEvalKey}
    BY DEF LifecycleInv, Ruled, Rest, Unfinished
  <2>2. ~exiting /\ \A t \in Threads : pc[t] # "drop"
    BY DEF LifecycleInv, Exits, Ruled, Rest, Closing, Drained, Unfinished
  <2> QED BY <2>1, <2>2 DEF LifecycleInv, KeysHeld, Ruled, Rest
<1> QED BY <1>1, LifecycleInvariant, PTL

\* Under the same rules the GPUs have keys as long as a gate executes there, which
\* is what fails when exit does not wait for the tasks.
THEOREM GpuKeysStay ==
    ASSUME {"drain", "probe", "stop"} \subseteq Discipline
    PROVE  Spec => []GpuKeysOutliveTasks
<1>1. LifecycleInv /\ KeysLive => GpuKeysOutliveTasks
  BY DEF LifecycleInv, KeysHeld, KeysLive, GpuKeysOutliveTasks
<1> QED BY <1>1, LifecycleInvariant, KeysStayLive, PTL

\* StarPU is started with the configuration that was accepted, if the workers are
\* configured while no other thread is in a call.
THEOREM ConfigurationIsApplied ==
    ASSUME "alone" \in Discipline
    PROVE  Spec => []ConfigurationApplied
<1>1. LifecycleInv => ConfigurationApplied
  BY DEF LifecycleInv, Configured, ConfigurationApplied
<1> QED BY <1>1, LifecycleInvariant, PTL

\* A process evaluates at most one key, whatever its threads do and whenever they
\* shut down, call again or exit: nothing is assumed of the environment.
THEOREM OneKeyIsEvaluated == Spec => []OneKeyPerProcess
<1>1. LifecycleInv => OneKeyPerProcess
  <2> SUFFICES ASSUME LifecycleInv PROVE Cardinality(evaluated) <= 1
    BY DEF OneKeyPerProcess
  <2>1. \A k, l \in evaluated : k = l
    BY DEF LifecycleInv, OneKey
  <2>2. CASE evaluated = {}
    BY <2>2, FS_EmptySet
  <2>3. CASE evaluated # {}
    <3>1. PICK k \in evaluated : evaluated = {k}
      BY <2>1, <2>3
    <3> QED BY <3>1, FS_Singleton
  <2> QED BY <2>2, <2>3
<1> QED BY <1>1, LifecycleInvariant, PTL
============================================================================
