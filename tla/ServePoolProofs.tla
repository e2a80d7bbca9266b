-------------------------- MODULE ServePoolProofs --------------------------
(***************************************************************************)
(* Theorems about ServePool, for any number of workers and clients.        *)
(*                                                                         *)
(* That a worker ends only after shutdown rests on the main thread: the    *)
(* sender goes away only at the end of serve (Sender), which is reached    *)
(* only with the flag raised or by a failure (Stopping).  That serve       *)
(* leaves nothing behind when it succeeds rests on its joins and on the    *)
(* mutex of the receiver, which only a worker in recv holds (Locking).     *)
(***************************************************************************)
EXTENDS ServePool, TLAPS, FiniteSetTheorems, SequenceTheorems

Stopping == main \in {"stop", "join", "returned"} => shutdown
Sender == ~senderOpen <=> main \in {"join", "returned", "failed"}
Locking == \A w \in Workers : receiver = w => worker[w] = "recv"
Holding == \A w \in Workers : worker[w] \in {"idle", "recv", "exited"} => serving[w] = None
Joined == main = "returned" => queue = <<>> /\ \A w \in Workers : worker[w] = "exited"

Control == Stopping /\ Sender /\ Locking /\ Holding /\ Joined /\ PoolNeverShrinks

IInv == TypeOK /\ Control

LEMMA QueueBoundType == QueueBound \in Nat
<1>1. Cardinality(Workers) \in Nat
  BY PoolAssumption, FS_CardinalityType
<1> QED
  BY <1>1 DEF QueueBound

LEMMA InitIInv == Init => IInv
<1> SUFFICES ASSUME Init PROVE IInv
  OBVIOUS
<1>1. TypeOK
  <2>1. backlog \in Seq(Clients) /\ queue \in Seq(Clients) /\ Len(queue) <= QueueBound
    BY QueueBoundType DEF Init
  <2> QED
    BY <2>1 DEF Init, TypeOK
<1>2. Control
  BY PoolAssumption DEF Init, Control, Stopping, Sender, Locking, Holding, Joined, PoolNeverShrinks
<1> QED
  BY <1>1, <1>2 DEF IInv

(* Every step of the main thread *)
LEMMA MainStep == IInv /\ Main => IInv'
<1> SUFFICES ASSUME TypeOK, Control, Main PROVE TypeOK' /\ Control'
  BY DEF IInv
<1> USE DEF MainAt, workerVars
<1> USE DEF Control, Stopping, Sender, Locking, Holding, Joined, PoolNeverShrinks
<1>1. CASE LoopHead
  BY <1>1 DEF LoopHead, TypeOK
<1>2. CASE Poll
  BY <1>2 DEF Poll, TypeOK
<1>3. CASE Recheck
  BY <1>3 DEF Recheck, TypeOK
<1>4. CASE DrainHead
  BY <1>4 DEF DrainHead, TypeOK
<1>5. CASE Accept
  <2>1. backlog' \in Seq(Clients) /\ queue' \in Seq(Clients) /\ Len(queue') <= QueueBound
    <3>1. CASE backlog = <<>>
      BY <1>5, <3>1 DEF Accept, TypeOK
    <3>2. CASE backlog # <<>>
      <4>1. Head(backlog) \in Clients /\ Tail(backlog) \in Seq(Clients)
        BY <3>2 DEF TypeOK
      <4>2. /\ Append(queue, Head(backlog)) \in Seq(Clients)
            /\ Len(Append(queue, Head(backlog))) = Len(queue) + 1
        BY <4>1 DEF TypeOK
      <4>3. Len(queue) \in Nat /\ Len(queue) <= QueueBound /\ queue \in Seq(Clients)
        BY DEF TypeOK
      <4>4. backlog' = Tail(backlog)
        BY <1>5, <3>2 DEF Accept
      <4>5. CASE Len(queue) < QueueBound
        <5>1. queue' = Append(queue, Head(backlog))
          BY <1>5, <3>2, <4>5 DEF Accept
        <5>2. Len(queue) + 1 <= QueueBound
          BY <4>3, <4>5, QueueBoundType
        <5> QED
          BY <4>1, <4>2, <4>4, <5>1, <5>2
      <4>6. CASE ~(Len(queue) < QueueBound)
        <5>1. queue' = queue
          BY <1>5, <3>2, <4>6 DEF Accept
        <5> QED
          BY <4>1, <4>3, <4>4, <5>1
      <4> QED
        BY <4>5, <4>6
    <3> QED
      BY <3>1, <3>2
  <2>2. TypeOK'
    BY <1>5, <2>1 DEF Accept, TypeOK
  <2>3. Control'
    BY <1>5 DEF Accept
  <2> QED
    BY <2>2, <2>3
<1>6. CASE PollError \/ AcceptError \/ JoinPanicked
  <2>1. CASE Fails
    <3>1. queue' \in Seq(Clients) /\ Len(queue') <= QueueBound
      BY <2>1, QueueBoundType DEF Fails, TypeOK
    <3>2. TypeOK'
      BY <2>1, <3>1 DEF Fails, TypeOK
    <3>3. Control'
      BY <2>1 DEF Fails
    <3> QED
      BY <3>2, <3>3
  <2>2. CASE main = "accept" /\ main' = "loop" /\ UNCHANGED <<shutdown, senderOpen, backlog, queue, workerVars>>
    BY <2>2 DEF TypeOK
  <2> QED
    BY <1>6, <2>1, <2>2 DEF PollError, AcceptError, JoinPanicked
<1>7. CASE More
  BY <1>7 DEF More, TypeOK
<1>8. CASE DropSender
  BY <1>8 DEF DropSender, TypeOK
<1>9. CASE JoinWorkers
  BY <1>9, QueueBoundType DEF JoinWorkers, TypeOK
<1> QED
  BY <1>1, <1>2, <1>3, <1>4, <1>5, <1>6, <1>7, <1>8, <1>9 DEF Main

(* Every step of a worker thread *)
LEMMA WorkerStep == ASSUME IInv, NEW w \in Workers, Worker(w) PROVE IInv'
<1> SUFFICES TypeOK' /\ Control'
  BY DEF IInv
<1> USE DEF WorkerAt, mainVars, Released
<1> USE DEF IInv, Control, Stopping, Sender, Locking, Holding, Joined, PoolNeverShrinks
<1>1. CASE LockReceiver(w)
  BY <1>1, PoolAssumption DEF LockReceiver, TypeOK
<1>2. CASE Receive(w)
  <2>1. /\ Head(queue) \in Clients
        /\ queue' \in Seq(Clients) /\ Len(queue') <= QueueBound
    BY <1>2, QueueBoundType DEF Receive, TypeOK
  <2>2. TypeOK'
    BY <1>2, <2>1 DEF Receive, TypeOK
  <2>3. Locking'
    BY <1>2, PoolAssumption DEF Receive, TypeOK
  <2>4. Stopping' /\ Sender' /\ Holding' /\ PoolNeverShrinks'
    BY <1>2 DEF Receive, TypeOK
  <2>5. Joined'
    BY <1>2 DEF Receive, TypeOK
  <2> QED
    BY <2>2, <2>3, <2>4, <2>5
<1>3. CASE Disconnected(w)
  <2>1. TypeOK' /\ Holding' /\ Stopping' /\ Sender' /\ Joined' /\ PoolNeverShrinks'
    BY <1>3 DEF Disconnected, TypeOK
  <2>2. Locking'
    BY <1>3, PoolAssumption DEF Disconnected, TypeOK
  <2> QED
    BY <2>1, <2>2
<1>4. CASE CheckShutdown(w)
  <2>1. queue' \in Seq(Clients) /\ Len(queue') <= QueueBound
    BY <1>4, QueueBoundType DEF CheckShutdown, TypeOK
  <2>2. TypeOK'
    BY <1>4, <2>1 DEF CheckShutdown, TypeOK
  <2>3. Control'
    BY <1>4 DEF CheckShutdown, TypeOK
  <2> QED
    BY <2>2, <2>3
<1>5. CASE Served(w)
  BY <1>5 DEF Served, TypeOK
<1>6. CASE Panic(w)
  <2>1. queue' \in Seq(Clients) /\ Len(queue') <= QueueBound
    BY <1>6, QueueBoundType DEF Panic, TypeOK
  <2>2. TypeOK'
    BY <1>6, <2>1 DEF Panic, TypeOK
  <2>3. Control'
    BY <1>6 DEF Panic, TypeOK
  <2> QED
    BY <2>2, <2>3
<1> QED
  BY <1>1, <1>2, <1>3, <1>4, <1>5, <1>6 DEF Worker, Take

(* Every step of the environment *)
LEMMA EnvironmentStep ==
    ASSUME IInv, \/ \E c \in Clients : Connect(c) \/ Withdraw(c)
                 \/ Shutdown
                 \/ UNCHANGED vars
    PROVE  IInv'
<1> USE DEF mainVars, workerVars
<1> USE DEF IInv, Control, Stopping, Sender, Locking, Holding, Joined, PoolNeverShrinks
<1>1. CASE \E c \in Clients : Connect(c)
  BY <1>1 DEF Connect, TypeOK
<1>2. CASE \E c \in Clients : Withdraw(c)
  <2>1. PICK i \in 1..Len(backlog) :
          backlog' = SubSeq(backlog, 1, i - 1) \o SubSeq(backlog, i + 1, Len(backlog))
    BY <1>2 DEF Withdraw
  <2>2. SubSeq(backlog, 1, i - 1) \in Seq(Clients)
    BY SubSeqProperties DEF TypeOK
  <2>3. SubSeq(backlog, i + 1, Len(backlog)) \in Seq(Clients)
    BY SubSeqProperties DEF TypeOK
  <2>4. backlog' \in Seq(Clients)
    BY <2>1, <2>2, <2>3, ConcatProperties
  <2> QED
    BY <1>2, <2>4 DEF Withdraw, TypeOK
<1>3. CASE Shutdown
  BY <1>3 DEF Shutdown, TypeOK
<1>4. CASE UNCHANGED vars
  BY <1>4 DEF vars, TypeOK
<1> QED
  BY <1>1, <1>2, <1>3, <1>4

THEOREM Invariant == Spec => []IInv
<1>1. IInv /\ [Next]_vars => IInv'
  BY MainStep, WorkerStep, EnvironmentStep DEF Next, Terminated
<1> QED
  BY <1>1, InitIInv, PTL DEF Spec

(* THEOREM: the state is well typed; the channel never exceeds twice the    *)
(* number of workers (sync_channel and try_send in serve).                  *)
THEOREM TypeCorrect == Spec => []TypeOK
<1>1. IInv => TypeOK
  BY DEF IInv
<1> QED
  BY <1>1, Invariant, PTL

(* THEOREM: serve returns success only once shutdown began and every worker *)
(* has ended without a panic; then nobody is served, the channel is closed  *)
(* and empty, and its mutex free (the end of serve).                        *)
THEOREM SuccessMeansJoined == Spec => []ReturnsJoined
<1>1. IInv => ReturnsJoined
  BY DEF IInv, TypeOK, Control, Stopping, Sender, Locking, Joined, Holding, ReturnsJoined
<1> QED
  BY <1>1, Invariant, PTL

(* THEOREM: no worker ends before shutdown or a failure of serve, whatever  *)
(* happens to its connections (the worker loop in serve).                   *)
THEOREM WorkersSurvive == Spec => []PoolNeverShrinks
<1>1. IInv => PoolNeverShrinks
  BY DEF IInv, Control
<1> QED
  BY <1>1, Invariant, PTL

(* THEOREM: once the flag is raised no worker begins to serve and the main  *)
(* thread does not return to accept (the looks at the flag in serve, in     *)
(* drain_backlog and in the worker loop).                                   *)
THEOREM ShutdownIsFinal == Spec => NothingStartsAfterShutdown
<1> DEFINE Quiet == shutdown => /\ \A w \in Workers : worker'[w] = "serving" => worker[w] = "serving"
                                /\ main' = "accept" => main = "accept"
<1>1. IInv /\ [Next]_vars => [Quiet]_vars
  <2> SUFFICES ASSUME IInv, Next PROVE Quiet
    OBVIOUS
  <2> USE DEF workerVars, mainVars
  <2>1. CASE Main
    BY <2>1 DEF Main, MainAt, LoopHead, Poll, Recheck, DrainHead, Accept, PollError,
       AcceptError, Fails, More, DropSender, JoinWorkers, JoinPanicked
  <2>2. ASSUME NEW w \in Workers, Worker(w) PROVE Quiet
    <3>1. main' = main
      BY <2>2 DEF Worker, Take, LockReceiver, Receive, Disconnected, CheckShutdown, Served, Panic
    <3>2. worker \in [Workers -> {"idle", "recv", "received", "serving", "exited", "panicked"}]
      BY DEF IInv, TypeOK
    <3>3. \E to \in {"recv", "received", "idle", "exited", "panicked",
                     IF shutdown THEN "exited" ELSE "serving"} :
            worker' = [worker EXCEPT ![w] = to]
      BY <2>2 DEF Worker, Take, WorkerAt, LockReceiver, Receive, Disconnected, CheckShutdown,
         Served, Panic
    <3> QED
      BY <3>1, <3>2, <3>3
  <2>3. CASE \E c \in Clients : Connect(c) \/ Withdraw(c)
    BY <2>3 DEF Connect, Withdraw
  <2>4. CASE Shutdown \/ Terminated
    BY <2>4 DEF Shutdown, Terminated, vars
  <2> QED
    BY <2>1, <2>2, <2>3, <2>4 DEF Next
<1> QED
  BY <1>1, Invariant, PTL DEF Spec, NothingStartsAfterShutdown
=============================================================================
