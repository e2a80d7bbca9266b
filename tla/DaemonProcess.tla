--------------------------- MODULE DaemonProcess ---------------------------
(***************************************************************************)
(* The whole process: run_daemon and its monitor thread (Daemon) with the  *)
(* serve of ServePool inside the main thread.  They meet in the shutdown   *)
(* flag, which only the monitor raises, and in the return of serve.  The   *)
(* end of the process takes all threads with it.                           *)
(***************************************************************************)
EXTENDS Daemon, FiniteSets

CONSTANTS
    Workers,       \* the worker threads
    Clients,       \* the connections clients may open, again and again
    ListenerFails, \* whether poll and accept may fail for good
    WorkersPanic   \* whether a worker may panic

ASSUME ProcessAssumption ==
    /\ IsFiniteSet(Workers) /\ Workers # {}
    /\ None \notin Workers \cup Clients
    /\ ListenerFails \in BOOLEAN /\ WorkersPanic \in BOOLEAN

VARIABLES
    serve,  \* where the main thread is in serve, once it serves
    backlog, queue, senderOpen, receiver, worker, serving

Pool == INSTANCE ServePool WITH main <- serve

poolVars == <<serve, backlog, queue, senderOpen, receiver, worker, serving>>
allVars == <<vars, poolVars>>

ProcessInit == Init /\ Pool!Init

(* run_daemon and its monitor, serve apart *)
DaemonMain == Main /\ UNCHANGED poolVars
DaemonMonitor == Monitor /\ UNCHANGED poolVars

(* milter::serve has returned, with or without an error *)
ServeEnds ==
    /\ serve \in {"returned", "failed"}
    /\ ServeReturns
    /\ UNCHANGED poolVars

(* The threads of serve; the workers outlive a serve that has failed *)
MainServes == main = "serving" /\ Pool!Main /\ UNCHANGED vars
WorkerServes(w) == main \in {"serving", "joining"} /\ Pool!Worker(w) /\ UNCHANGED vars

Environment ==
    \/ (Edit \/ Hangup \/ Terminate) /\ UNCHANGED poolVars
    \/ /\ main = "serving"
       /\ \E c \in Clients : Pool!Connect(c) \/ Pool!Withdraw(c)
       /\ UNCHANGED vars

ProcessOver == ~Running /\ UNCHANGED allVars

ProcessNext == \/ DaemonMain \/ DaemonMonitor \/ ServeEnds \/ MainServes
               \/ \E w \in Workers : WorkerServes(w)
               \/ Environment \/ ProcessOver

(* Every thread is scheduled.  That serve returns is not assumed. *)
ProcessSpec == /\ ProcessInit /\ [][ProcessNext]_allVars
               /\ WF_allVars(DaemonMain) /\ WF_allVars(DaemonMonitor)
               /\ WF_allVars(ServeEnds) /\ WF_allVars(MainServes)
               /\ \A w \in Workers : WF_allVars(WorkerServes(w))

-----------------------------------------------------------------------------
(* What Daemon assumes of serve is true of it: the process implements       *)
(* Daemon, its fairness included, so serve returns once the monitor has     *)
(* raised the flag, whatever connections come.                              *)
ImplementsDaemon == FairSpec

(* A process that ends without a failure of serve and without a kill has    *)
(* finished every connection it had begun to serve.                         *)
ExitIsGraceful ==
    main = "exited" /\ serve # "failed" =>
        \A w \in Workers : serving[w] = None
=============================================================================
