---------------------------- MODULE DaemonProofs ---------------------------
(***************************************************************************)
(* Theorems about Daemon, for every set of configuration texts, key files, *)
(* keys and addresses and any number of edits and signals.                 *)
(*                                                                         *)
(* The invariants are not inductive alone.  What the monitor holds between *)
(* its steps must be tied to where it is (Control), what was read must be  *)
(* known to be valid (Validated), and, while no reload is requested, what  *)
(* it has read so far must be what is on disk (Tracks).                    *)
(***************************************************************************)
EXTENDS DaemonProcess, TLAPS

PoolProofs == INSTANCE ServePoolProofs WITH main <- serve

Starting == {"load", "loadKey", "check", "install"}

(* Where a thread is determines what load holds; no SIGHUP survives start-up *)
Control ==
    /\ main = "load" => loading = None /\ loaded = None
    /\ main = "loadKey" => loading # None /\ loaded = None
    /\ main \in {"check", "install"} => loading = None /\ loaded # None
    /\ main \in Starting => monitor = "unborn" /\ ~announced /\ active = None
    /\ main \in {"serving", "joining"} =>
         /\ monitor # "unborn"
         /\ active # None
         /\ IF monitor = "readKey" THEN loading # None ELSE loading = None
         /\ IF monitor = "apply" THEN loaded # None ELSE loaded = None
    /\ monitor # "unborn" => active # None

Validated ==
    /\ loading # None => loading.parses
    /\ loaded # None => loaded.text.parses
    /\ main = "install" => FipsOk(loaded.text)
    /\ ActiveIsValid

OnDisk == [text |-> text, key |-> keys[text.keyFile]]

Tracks ==
    (announced /\ ~RELOAD /\ Acceptable) =>
        /\ monitor \in {"look", "swap", "sleep"} => active = OnDisk
        /\ monitor = "readKey" => loading = text
        /\ monitor = "apply" => loaded = OnDisk

IInv == TypeOK /\ Control /\ Validated /\ Tracks

-----------------------------------------------------------------------------

LEMMA InitIInv == Init => IInv
<1> SUFFICES ASSUME Init PROVE IInv
  OBVIOUS
<1>1. TypeOK
  <2>1. edits \in 0..MaxEdits
    BY DaemonAssumption DEF Init
  <2> QED
    BY <2>1 DEF Init, TypeOK
<1>2. Control /\ Validated /\ Tracks
  BY DEF Init, Control, Validated, ActiveIsValid, Tracks, Starting
<1> QED
  BY <1>1, <1>2 DEF IInv

(* The text part of RuntimeConfig::load, wherever it is called from *)
LEMMA ReadTextTypes ==
    ASSUME TypeOK, NEW ok, NEW rejected, ReadText(ok, rejected)
    PROVE  /\ loading' \in Texts \cup {None}
           /\ loading' # None => loading' = text /\ loading'.parses /\ ok
           /\ loading' = None => rejected /\ ~text.parses
  BY DaemonAssumption DEF TypeOK, ReadText

(* The key part of RuntimeConfig::load: what it returns is a validated pair *)
LEMMA ReadKeyTypes ==
    ASSUME TypeOK, NEW ok, NEW rejected, ReadKey(ok, rejected)
    PROVE  /\ loading # None /\ loading' = None
           /\ loaded' \in Configs \cup {None}
           /\ loaded' # None => /\ loaded' = [text |-> loading, key |-> keys[loading.keyFile]]
                                /\ loaded'.text = loading /\ ok
           /\ loaded' = None => rejected /\ keys[loading.keyFile] = BadKey
<1>1. loading \in Texts /\ loading' = None
  BY DEF ReadKey, TypeOK
<1>2. keys[loading.keyFile] \in Keys \cup {BadKey}
  BY <1>1, DaemonAssumption DEF TypeOK, TextRecords
<1>3. CASE keys[loading.keyFile] = BadKey
  BY <1>1, <1>3, DaemonAssumption DEF ReadKey
<1>4. CASE keys[loading.keyFile] # BadKey
  <2>1. loaded' = [text |-> loading, key |-> keys[loading.keyFile]] /\ ok
    BY <1>4 DEF ReadKey
  <2>2. loaded' \in Configs
    BY <1>1, <1>2, <1>4, <2>1 DEF Configs
  <2> QED
    BY <1>1, <2>1, <2>2, DaemonAssumption
<1> QED
  BY <1>3, <1>4

-----------------------------------------------------------------------------
(* Every step preserves the invariant *)

LEMMA NextIInv == IInv /\ [Next]_vars => IInv'
<1> SUFFICES ASSUME IInv, [Next]_vars PROVE IInv'
  OBVIOUS
<1> USE DEF diskVars, flagVars, loadVars
<1>1. TypeOK /\ Control /\ Validated /\ Tracks
  BY DEF IInv
<1>2. CASE StartReadText
  <2>1. TypeOK' /\ Control' /\ Validated'
    BY <1>1, <1>2, ReadTextTypes
    DEF StartReadText, ReadText, TypeOK, Control, Validated, ActiveIsValid, FipsOk, Starting
  <2>2. Tracks'
    BY <1>1, <1>2 DEF StartReadText, Control, Tracks, Starting
  <2> QED
    BY <2>1, <2>2 DEF IInv
<1>3. CASE StartReadKey
  <2>1. TypeOK' /\ Control' /\ Validated'
    BY <1>1, <1>3, ReadKeyTypes
    DEF StartReadKey, ReadKey, TypeOK, Control, Validated, ActiveIsValid, FipsOk, Starting
  <2>2. Tracks'
    BY <1>1, <1>3 DEF StartReadKey, Control, Tracks, Starting
  <2> QED
    BY <2>1, <2>2 DEF IInv
<1>4. CASE StartCheck
  <2>1. TypeOK' /\ Control' /\ Validated'
    BY <1>1, <1>4
    DEF StartCheck, TypeOK, Control, Validated, ActiveIsValid, FipsOk, Starting
  <2>2. Tracks'
    BY <1>1, <1>4 DEF StartCheck, Control, Tracks, Starting
  <2> QED
    BY <2>1, <2>2 DEF IInv
<1>5. CASE Start
  <2>1. TypeOK' /\ Control'
    BY <1>1, <1>5 DEF Start, TypeOK, Control, Starting
  <2>2. loaded \in Configs /\ loaded.key \in Keys
    BY <1>1, <1>5 DEF Start, TypeOK, Control, Configs
  <2>3. Validated'
    BY <1>1, <1>5, <2>2 DEF Start, Control, Validated, ActiveIsValid, FipsOk
  <2>4. Tracks'
    BY <1>1, <1>5 DEF Start, Control, Tracks, Starting
  <2> QED
    BY <2>1, <2>3, <2>4 DEF IInv
<1>6. CASE JoinMonitor
  <2>1. TypeOK' /\ Control' /\ Validated'
    BY <1>1, <1>6 DEF JoinMonitor, TypeOK, Control, Validated, ActiveIsValid, FipsOk, Starting
  <2>2. Tracks'
    BY <1>1, <1>6 DEF JoinMonitor, Tracks, Acceptable, FipsOk, OnDisk
  <2> QED
    BY <2>1, <2>2 DEF IInv
<1>7. CASE ServeReturns
  <2>1. TypeOK' /\ Control' /\ Validated'
    BY <1>1, <1>7 DEF ServeReturns, TypeOK, Control, Validated, ActiveIsValid, FipsOk, Starting
  <2>2. Tracks'
    BY <1>1, <1>7 DEF ServeReturns, Tracks, Acceptable, FipsOk, OnDisk
  <2> QED
    BY <2>1, <2>2 DEF IInv
<1>8. CASE MonitorEnds
  <2>1. TypeOK' /\ Control' /\ Validated'
    BY <1>1, <1>8
    DEF MonitorEnds, MonitorAt, TypeOK, Control, Validated, ActiveIsValid, FipsOk, Starting
  <2>2. Tracks'
    BY <1>1, <1>8 DEF MonitorEnds, MonitorAt, Tracks, Acceptable, FipsOk, OnDisk
  <2> QED
    BY <2>1, <2>2 DEF IInv
<1>9. CASE MonitorLooks
  <2>1. TypeOK' /\ Control' /\ Validated'
    BY <1>1, <1>9
    DEF MonitorLooks, MonitorAt, TypeOK, Control, Validated, ActiveIsValid, FipsOk, Starting
  <2>2. Tracks'
    BY <1>1, <1>9 DEF MonitorLooks, MonitorAt, Tracks, Acceptable, FipsOk, OnDisk
  <2> QED
    BY <2>1, <2>2 DEF IInv
<1>10. CASE SwapReload
  <2>1. TypeOK'
    BY <1>1, <1>10 DEF SwapReload, TypeOK
  <2>2. Control' /\ Validated'
    BY <1>1, <1>10
    DEF SwapReload, MonitorAt, TypeOK, Control, Validated, ActiveIsValid, FipsOk, Starting
  <2>3. Tracks'
    BY <1>1, <1>10 DEF SwapReload, MonitorAt, Tracks, TypeOK, Acceptable, FipsOk, OnDisk
  <2> QED
    BY <2>1, <2>2, <2>3 DEF IInv
<1>11. CASE MonitorReadText
  <2>1. TypeOK' /\ Control' /\ Validated'
    BY <1>1, <1>11, ReadTextTypes
    DEF MonitorReadText, MonitorAt, Running, ReadText, TypeOK, Control, Validated,
        ActiveIsValid, FipsOk, Starting
  <2>2. Tracks'
    (* a text that is rejected is not acceptable *)
    BY <1>1, <1>11, ReadTextTypes
    DEF MonitorReadText, MonitorAt, ReadText, Tracks, Acceptable, FipsOk, OnDisk
  <2> QED
    BY <2>1, <2>2 DEF IInv
<1>12. CASE MonitorReadKey
  <2>1. TypeOK' /\ Control' /\ Validated'
    BY <1>1, <1>12, ReadKeyTypes
    DEF MonitorReadKey, MonitorAt, Running, ReadKey, TypeOK, Control, Validated,
        ActiveIsValid, FipsOk, Starting
  <2>2. Tracks'
    (* nothing was edited since the text was read, or nothing is claimed *)
    BY <1>1, <1>12, ReadKeyTypes
    DEF MonitorReadKey, MonitorAt, ReadKey, Tracks, Acceptable, FipsOk, OnDisk
  <2> QED
    BY <2>1, <2>2 DEF IInv
<1>13. CASE Apply
  <2>1. loaded \in Configs /\ loaded.key \in Keys
    BY <1>1, <1>13 DEF Apply, MonitorAt, Running, TypeOK, Control, Starting, Configs
  <2>2. TypeOK' /\ Control'
    BY <1>1, <1>13, <2>1, DaemonAssumption
    DEF Apply, MonitorAt, Running, TypeOK, Control, Starting
  <2>3. Validated'
    BY <1>1, <1>13, <2>1 DEF Apply, MonitorAt, Running, TypeOK, Control, Validated,
       ActiveIsValid, FipsOk, Starting
  <2>4. Tracks'
    (* the running address is the initial one, so an acceptable pair passes *)
    BY <1>1, <1>13 DEF Apply, MonitorAt, Running, TypeOK, Control, Validated,
       ActiveIsValid, Tracks, Acceptable, FipsOk, OnDisk, Starting
  <2> QED
    BY <2>2, <2>3, <2>4 DEF IInv
<1>14. CASE Wake
  <2>1. TypeOK' /\ Control' /\ Validated'
    BY <1>1, <1>14
    DEF Wake, MonitorAt, TypeOK, Control, Validated, ActiveIsValid, FipsOk, Starting
  <2>2. Tracks'
    BY <1>1, <1>14 DEF Wake, MonitorAt, Tracks, Acceptable, FipsOk, OnDisk
  <2> QED
    BY <2>1, <2>2 DEF IInv
<1>15. CASE Edit
  <2>1. TypeOK'
    <3>1. edits' \in 0..MaxEdits
      BY <1>1, <1>15, DaemonAssumption DEF Edit, TypeOK
    <3>2. text' \in Texts /\ keys' \in [KeyFiles -> Keys \cup {BadKey}]
      BY <1>1, <1>15 DEF Edit, TypeOK
    <3>3. announced' \in BOOLEAN
      BY <1>15 DEF Edit
    <3>4. UNCHANGED <<flagVars, main, monitor, loadVars, initial, active>>
      BY <1>15 DEF Edit
    <3> QED
      BY <1>1, <3>1, <3>2, <3>3, <3>4 DEF TypeOK
  <2>2. Control' /\ Validated'
    BY <1>1, <1>15 DEF Edit, Running, Control, Validated, ActiveIsValid, FipsOk, Starting
  <2>3. Tracks'
    BY <1>15 DEF Edit, Tracks
  <2> QED
    BY <2>1, <2>2, <2>3 DEF IInv
<1>16. CASE Hangup
  <2>1. TypeOK'
    BY <1>1, <1>16 DEF Hangup, HandlersInstalled, TypeOK
  <2>2. Control' /\ Validated'
    BY <1>1, <1>16 DEF Hangup, Running, HandlersInstalled, TypeOK, Control, Validated,
       ActiveIsValid, FipsOk, Starting
  <2>3. Tracks'
    BY <1>1, <1>16 DEF Hangup, Running, HandlersInstalled, TypeOK, Control, Tracks, Starting
  <2> QED
    BY <2>1, <2>2, <2>3 DEF IInv
<1>17. CASE Terminate
  <2>1. TypeOK'
    BY <1>1, <1>17 DEF Terminate, HandlersInstalled, TypeOK
  <2>2. Control' /\ Validated'
    BY <1>1, <1>17 DEF Terminate, Running, HandlersInstalled, TypeOK, Control, Validated,
       ActiveIsValid, FipsOk, Starting
  <2>3. Tracks'
    BY <1>1, <1>17 DEF Terminate, Tracks, Acceptable, FipsOk, OnDisk
  <2> QED
    BY <2>1, <2>2, <2>3 DEF IInv
<1>18. CASE InstallFails
  <2>1. TypeOK' /\ Control' /\ Validated'
    BY <1>1, <1>18 DEF InstallFails, TypeOK, Control, Validated, ActiveIsValid, FipsOk, Starting
  <2>2. Tracks'
    BY <1>1, <1>18 DEF InstallFails, Control, Tracks, Starting
  <2> QED
    BY <2>1, <2>2 DEF IInv
<1>19. CASE UNCHANGED vars
  BY <1>1, <1>19 DEF vars, IInv, TypeOK, Control, Validated, ActiveIsValid, Tracks,
     Acceptable, FipsOk, OnDisk, Starting
<1> QED
  BY <1>2, <1>3, <1>4, <1>5, <1>6, <1>7, <1>8, <1>9, <1>10, <1>11, <1>12, <1>13,
     <1>14, <1>15, <1>16, <1>17, <1>18, <1>19
  DEF Next, Main, Monitor, Over

THEOREM Invariant == Spec => []IInv
<1> QED
  BY InitIInv, NextIInv, PTL DEF Spec

(* THEOREM: the daemon's state is well typed. *)
THEOREM TypeCorrect == Spec => []TypeOK
<1>1. IInv => TypeOK
  BY DEF IInv
<1> QED
  BY <1>1, Invariant, PTL

(* THEOREM: no SIGHUP is lost (RELOAD.swap before the load in run_daemon).  *)
THEOREM NoReloadLost == Spec => []QuiescentIsCurrent
<1>1. IInv => QuiescentIsCurrent
  BY DEF IInv, Tracks, OnDisk, QuiescentIsCurrent
<1> QED
  BY <1>1, Invariant, PTL

(* THEOREM: only validated configurations for the address bound at start    *)
(* ever come into force (the checks of the monitor thread in run_daemon).   *)
THEOREM OnlyValidConfigurations == Spec => []ActiveIsValid
<1>1. IInv => ActiveIsValid
  BY DEF IInv, Validated
<1> QED
  BY <1>1, Invariant, PTL

-----------------------------------------------------------------------------
(* The process *)

(* THEOREM: whatever serve does inside the main thread, the daemon sees     *)
(* nothing but its return (run_daemon and milter::serve meet in the flag    *)
(* and in that return only).                                                *)
THEOREM ProcessRefinesDaemon == ProcessInit /\ [][ProcessNext]_allVars => Spec
<1>1. ProcessInit => Init
  BY DEF ProcessInit
<1>2. [ProcessNext]_allVars => [Next]_vars
  BY DEF ProcessNext, allVars, DaemonMain, DaemonMonitor, ServeEnds, MainServes, WorkerServes,
     Environment, ProcessOver, Next
<1> QED
  BY <1>1, <1>2, PTL DEF Spec

(* THEOREM: the daemon is an environment in which serve is what ServePool   *)
(* says: it raises the shutdown flag and never lowers it.                   *)
THEOREM ProcessRefinesPool == ProcessInit /\ [][ProcessNext]_allVars => Pool!Spec
<1>1. ProcessInit => Pool!Init
  BY DEF ProcessInit
<1>2. TypeOK /\ [ProcessNext]_allVars => [Pool!Next]_(Pool!vars)
  <2> SUFFICES ASSUME TypeOK, ProcessNext, ~UNCHANGED Pool!vars PROVE Pool!Next
    BY DEF allVars, vars, flagVars, poolVars, Pool!vars, Pool!mainVars, Pool!workerVars
  <2> USE DEF Pool!vars, Pool!mainVars, Pool!workerVars, vars, flagVars, poolVars, allVars
  <2>1. CASE DaemonMain
    BY <2>1 DEF DaemonMain, Main, StartReadText, StartReadKey, StartCheck, InstallFails,
       Start, JoinMonitor
  <2>2. CASE DaemonMonitor
    <3>1. CASE MonitorEnds
      BY <2>2, <3>1 DEF DaemonMonitor, MonitorEnds, TypeOK, Pool!Next, Pool!Shutdown
    <3> QED
      BY <2>2, <3>1 DEF DaemonMonitor, Monitor, MonitorLooks, SwapReload, MonitorReadText,
         MonitorReadKey, Apply, Wake
  <2>3. CASE ServeEnds
    BY <2>3 DEF ServeEnds, ServeReturns
  <2>4. CASE MainServes
    BY <2>4 DEF MainServes, Pool!Next
  <2>5. CASE \E w \in Workers : WorkerServes(w)
    BY <2>5 DEF WorkerServes, Pool!Next
  <2>6. CASE Environment
    <3>1. CASE \E c \in Clients : Pool!Connect(c) \/ Pool!Withdraw(c)
      BY <3>1 DEF Pool!Next
    <3> QED
      BY <2>6, <3>1 DEF Environment, Edit, Hangup, Terminate
  <2> QED
    BY <2>1, <2>2, <2>3, <2>4, <2>5, <2>6 DEF ProcessNext, ProcessOver
<1> QED
  BY <1>1, <1>2, ProcessRefinesDaemon, TypeCorrect, PTL DEF Pool!Spec

(* Before the monitor exists nothing is served; main leaves serve, and the  *)
(* process ends after that, only by the return of serve                     *)
ServedWithin ==
    /\ main \in Starting => monitor = "unborn"
    /\ monitor = "unborn" => /\ main \notin {"serving", "joining"}
                             /\ \A w \in Workers : serving[w] = None
    /\ main = "joining" => serve \in {"returned", "failed"}
    /\ main = "exited" /\ monitor # "unborn" => serve \in {"returned", "failed"}

LEMMA ServedWithinHolds == ProcessInit /\ [][ProcessNext]_allVars => []ServedWithin
<1>1. ProcessInit => ServedWithin
  BY DEF ProcessInit, Init, Pool!Init, ServedWithin, Starting
<1>2. ServedWithin /\ [ProcessNext]_allVars => ServedWithin'
  <2> SUFFICES ASSUME ServedWithin, [ProcessNext]_allVars PROVE ServedWithin'
    OBVIOUS
  <2> USE DEF ServedWithin, Starting, poolVars
  <2>1. CASE DaemonMain
    BY <2>1 DEF DaemonMain, Main, StartReadText, ReadText, StartReadKey, ReadKey, StartCheck,
       InstallFails, Start, JoinMonitor
  <2>2. CASE DaemonMonitor
    <3>1. /\ monitor # "unborn" /\ monitor' # "unborn" /\ main' = main
      <4> USE DEF MonitorAt, flagVars
      <4>1. CASE MonitorEnds \/ MonitorLooks \/ SwapReload \/ Apply \/ Wake
        BY <4>1 DEF MonitorEnds, MonitorLooks, SwapReload, Apply, Wake
      <4>2. CASE MonitorReadText
        BY <4>2 DEF MonitorReadText, ReadText
      <4>3. CASE MonitorReadKey
        BY <4>3 DEF MonitorReadKey, ReadKey
      <4> QED
        BY <2>2, <4>1, <4>2, <4>3 DEF DaemonMonitor, Monitor
    <3>2. UNCHANGED <<serve, serving>>
      BY <2>2 DEF DaemonMonitor
    <3> QED
      BY <3>1, <3>2
  <2>3. CASE ServeEnds
    BY <2>3 DEF ServeEnds, ServeReturns
  <2>4. CASE MainServes
    BY <2>4 DEF MainServes, vars
  <2>5. CASE \E w \in Workers : WorkerServes(w)
    <3>1. serve' = serve
      BY <2>5 DEF WorkerServes, Pool!Worker, Pool!Take, Pool!LockReceiver, Pool!Receive,
         Pool!Disconnected, Pool!CheckShutdown, Pool!Served, Pool!Panic, Pool!mainVars
    <3> QED
      BY <2>5, <3>1 DEF WorkerServes, vars
  <2>6. CASE Environment
    BY <2>6 DEF Environment, Edit, Hangup, HandlersInstalled, Terminate, vars
  <2>7. CASE UNCHANGED allVars
    BY <2>7 DEF allVars, vars
  <2> QED
    BY <2>1, <2>2, <2>3, <2>4, <2>5, <2>6, <2>7 DEF ProcessNext, ProcessOver
<1> QED
  BY <1>1, <1>2, PTL

(* THEOREM: a process that ends by itself, serve not having failed, leaves  *)
(* no connection half served (the joins in serve and in run_daemon).        *)
THEOREM ProcessExitsGracefully == ProcessInit /\ [][ProcessNext]_allVars => []ExitIsGraceful
<1>1. Pool!Spec => []Pool!ReturnsJoined
  <2>1. PoolProofs!PoolAssumption
    BY ProcessAssumption DEF PoolProofs!PoolAssumption, PoolProofs!IsFiniteSet, IsFiniteSet
  <2>2. PoolProofs!Spec => []PoolProofs!ReturnsJoined
    BY <2>1, PoolProofs!SuccessMeansJoined
  <2>3. Pool!Init => PoolProofs!Init
    BY DEF Pool!Init, PoolProofs!Init
  <2>4. [Pool!Next]_(Pool!vars) => [PoolProofs!Next]_(PoolProofs!vars)
    <3> USE DEF Pool!vars, Pool!mainVars, Pool!workerVars, Pool!MainAt, Pool!WorkerAt,
           PoolProofs!vars, PoolProofs!mainVars, PoolProofs!workerVars, PoolProofs!MainAt,
           PoolProofs!WorkerAt
    <3>1. Pool!QueueBound = PoolProofs!QueueBound
      BY DEF Pool!QueueBound, PoolProofs!QueueBound, Pool!Cardinality, PoolProofs!Cardinality
    <3>2. Pool!Accept => PoolProofs!Accept
      BY <3>1 DEF Pool!Accept, PoolProofs!Accept
    <3>3. Pool!Main => PoolProofs!Main
      BY <3>2 DEF Pool!Main, PoolProofs!Main, Pool!LoopHead, PoolProofs!LoopHead, Pool!Poll,
         PoolProofs!Poll, Pool!Recheck, PoolProofs!Recheck, Pool!DrainHead,
         PoolProofs!DrainHead, Pool!AcceptError, PoolProofs!AcceptError,
         Pool!PollError, PoolProofs!PollError, Pool!Fails, PoolProofs!Fails, Pool!Ended,
         PoolProofs!Ended, Pool!JoinPanicked, PoolProofs!JoinPanicked, Pool!More, PoolProofs!More, Pool!DropSender, PoolProofs!DropSender, Pool!JoinWorkers,
         PoolProofs!JoinWorkers
    <3>4. ASSUME NEW w \in Workers PROVE Pool!Worker(w) => PoolProofs!Worker(w)
      BY DEF Pool!Worker, PoolProofs!Worker, Pool!Take, PoolProofs!Take, Pool!Released,
         PoolProofs!Released, Pool!Ended, PoolProofs!Ended, Pool!LockReceiver, PoolProofs!LockReceiver,
         Pool!Receive, PoolProofs!Receive, Pool!Disconnected, PoolProofs!Disconnected,
         Pool!CheckShutdown, PoolProofs!CheckShutdown, Pool!LastOwner, PoolProofs!LastOwner,
         Pool!Served, PoolProofs!Served, Pool!Panic, PoolProofs!Panic
    <3>5. ASSUME NEW c \in Clients
          PROVE  Pool!Connect(c) \/ Pool!Withdraw(c) => PoolProofs!Connect(c) \/ PoolProofs!Withdraw(c)
      BY DEF Pool!Connect, PoolProofs!Connect, Pool!Withdraw, PoolProofs!Withdraw,
         Pool!InSeq, PoolProofs!InSeq
    <3> QED
      BY <3>3, <3>4, <3>5 DEF Pool!Next, PoolProofs!Next, Pool!Shutdown,
         PoolProofs!Shutdown, Pool!Terminated, PoolProofs!Terminated
  <2>5. PoolProofs!ReturnsJoined => Pool!ReturnsJoined
    BY DEF Pool!ReturnsJoined, PoolProofs!ReturnsJoined
  <2> QED
    BY <2>2, <2>3, <2>4, <2>5, PTL DEF Pool!Spec, PoolProofs!Spec
<1>2. ServedWithin /\ Pool!ReturnsJoined => ExitIsGraceful
  BY DEF ServedWithin, Pool!ReturnsJoined, ExitIsGraceful
<1> QED
  BY <1>1, <1>2, ProcessRefinesPool, ServedWithinHolds, PTL
=============================================================================
