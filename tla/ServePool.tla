----------------------------- MODULE ServePool -----------------------------
(***************************************************************************)
(* milter::serve: the main thread accepts connections and hands them to    *)
(* worker threads over a bounded channel, until shutdown.                  *)
(*                                                                         *)
(* The channel is std::sync::mpsc::sync_channel, whose single receiver the *)
(* workers share under a mutex: a worker holds the mutex while it blocks   *)
(* in recv.  Serving a connection is one step here, Framing shows that its *)
(* deadline ends it.  Clients connect, leave and connect again without     *)
(* end, so the backlog may stay readable forever.                          *)
(***************************************************************************)
EXTENDS Integers, Sequences, FiniteSets

CONSTANTS
    None,          \* no connection, no thread
    Workers,       \* the worker threads
    Clients,       \* the connections clients may open, again and again
    ListenerFails, \* whether poll and accept may fail for good (EMFILE, ...)
    WorkersPanic   \* whether a worker may panic (eprintln! with a broken stderr)

ASSUME PoolAssumption ==
    /\ IsFiniteSet(Workers) /\ Workers # {}
    /\ None \notin Workers \cup Clients
    /\ ListenerFails \in BOOLEAN /\ WorkersPanic \in BOOLEAN

(* sync_channel(workers * 2) *)
QueueBound == 2 * Cardinality(Workers)

VARIABLES
    shutdown,    \* the flag the monitor thread raises
    main,        \* where the main thread is in serve and drain_backlog
    backlog,     \* connections the kernel holds for the listener, in order
    queue,       \* connections in the channel
    senderOpen,  \* the sending half of the channel is alive
    receiver,    \* the worker that holds the mutex of the receiver, or None
    worker,      \* where each worker is in its loop
    serving      \* the connection each worker holds, or None

mainVars == <<main, senderOpen>>
workerVars == <<receiver, worker, serving>>
vars == <<shutdown, mainVars, backlog, queue, workerVars>>

Init == /\ shutdown = FALSE
        /\ main = "loop"
        /\ backlog = <<>>
        /\ queue = <<>>
        /\ senderOpen = TRUE
        /\ receiver = None
        /\ worker = [w \in Workers |-> "idle"]
        /\ serving = [w \in Workers |-> None]

InSeq(c, s) == \E i \in 1..Len(s) : s[i] = c

Ended(w) == worker[w] \in {"exited", "panicked"}

-----------------------------------------------------------------------------
(* The main thread *)

MainAt(from, to) == main = from /\ main' = to

(* while !shutdown *)
LoopHead == /\ MainAt("loop", IF shutdown THEN "stop" ELSE "poll")
            /\ UNCHANGED <<shutdown, senderOpen, backlog, queue, workerVars>>

(* wait_readable(100 ms), then the second look at the flag *)
Poll == /\ MainAt("poll", IF backlog = <<>> THEN "loop" ELSE "recheck")
        /\ UNCHANGED <<shutdown, senderOpen, backlog, queue, workerVars>>

Recheck == /\ MainAt("recheck", IF shutdown THEN "stop" ELSE "drain")
           /\ UNCHANGED <<shutdown, senderOpen, backlog, queue, workerVars>>

(* drain_backlog: while !shutdown *)
DrainHead == /\ MainAt("drain", IF shutdown THEN "loop" ELSE "accept")
             /\ UNCHANGED <<shutdown, senderOpen, backlog, queue, workerVars>>

(* MUTANT of Accept: the connection is put into the channel unconditionally *)
AcceptUnbounded ==
    /\ main = "accept"
    /\ IF backlog = <<>>
       THEN main' = "loop" /\ UNCHANGED <<backlog, queue>>
       ELSE /\ main' = "more"
            /\ backlog' = Tail(backlog)
            /\ queue' = Append(queue, Head(backlog))
    /\ UNCHANGED <<shutdown, senderOpen, workerVars>>

(* accept and try_send: a full channel drops the connection; an empty       *)
(* backlog (the client has gone since the poll) is WouldBlock               *)
Accept ==
    /\ main = "accept"
    /\ IF backlog = <<>>
       THEN main' = "loop" /\ UNCHANGED <<backlog, queue>>
       ELSE /\ main' = "more"
            /\ backlog' = Tail(backlog)
            /\ queue' = IF Len(queue) < QueueBound
                        THEN Append(queue, Head(backlog)) ELSE queue
    /\ UNCHANGED <<shutdown, senderOpen, workerVars>>

(* serve returns an error: it joins nobody (else) and drops its ends of the *)
(* channel, with them what is queued unless a worker still owns the receiver *)
Fails == /\ main' = "failed"
         /\ senderOpen' = FALSE
         /\ queue' = IF \A w \in Workers : Ended(w) THEN <<>> ELSE queue
         /\ UNCHANGED <<shutdown, backlog, workerVars>>

(* wait_readable fails, in serve or in drain_backlog, shutdown or not *)
PollError == /\ ListenerFails
             /\ main \in {"poll", "more"}
             /\ Fails

(* accept fails otherwise: ignored once shutdown began *)
AcceptError == /\ ListenerFails
               /\ main = "accept"
               /\ \/ ~shutdown /\ Fails
                  \/ /\ shutdown /\ main' = "loop"
                     /\ UNCHANGED <<shutdown, senderOpen, backlog, queue, workerVars>>

(* wait_readable(0) *)
More == /\ MainAt("more", IF backlog = <<>> THEN "loop" ELSE "drain")
        /\ UNCHANGED <<shutdown, senderOpen, backlog, queue, workerVars>>

(* MUTANT of DropSender: the workers are joined while the sender is alive *)
DropSenderForgotten == /\ MainAt("stop", "join")
                       /\ UNCHANGED <<shutdown, senderOpen, backlog, queue, workerVars>>

DropSender == /\ MainAt("stop", "join")
              /\ senderOpen' = FALSE
              /\ UNCHANGED <<shutdown, backlog, queue, workerVars>>

(* MUTANT of JoinWorkers: one worker is enough *)
JoinAnyWorker == /\ MainAt("join", "returned")
                 /\ \E w \in Workers : worker[w] = "exited"
                 /\ queue' = <<>>
                 /\ UNCHANGED <<shutdown, senderOpen, backlog, workerVars>>

(* join blocks until each thread has ended; with the last of them the       *)
(* receiver goes, and connections still in the channel are closed           *)
JoinWorkers == /\ MainAt("join", "returned")
               /\ \A w \in Workers : worker[w] = "exited"
               /\ queue' = <<>>
               /\ UNCHANGED <<shutdown, senderOpen, backlog, workerVars>>

(* A join that meets a panic makes serve return an error at once.  Workers  *)
(* that would have been joined after that one may still run; in which order *)
(* the threads are joined is left open.                                     *)
JoinPanicked == /\ main = "join"
                /\ \E w \in Workers : worker[w] = "panicked"
                /\ Fails

Main == \/ LoopHead \/ Poll \/ PollError \/ Recheck \/ DrainHead \/ Accept \/ AcceptError
        \/ More \/ DropSender \/ JoinWorkers \/ JoinPanicked

-----------------------------------------------------------------------------
(* The worker threads *)

WorkerAt(w, from, to) == worker[w] = from /\ worker' = [worker EXCEPT ![w] = to]

(* What a worker holds of the mutex is dropped when its iteration ends, if  *)
(* not before                                                               *)
Released(w) == IF receiver = w THEN None ELSE receiver

LockReceiver(w) ==
    /\ WorkerAt(w, "idle", "recv")
    /\ receiver = None
    /\ receiver' = w
    /\ UNCHANGED <<shutdown, mainVars, backlog, queue, serving>>

(* MUTANT of Receive: the guard outlives recv, into handle_connection *)
ReceiveKeepsLock(w) ==
    /\ WorkerAt(w, "recv", "received")
    /\ queue # <<>>
    /\ queue' = Tail(queue)
    /\ serving' = [serving EXCEPT ![w] = Head(queue)]
    /\ UNCHANGED <<shutdown, mainVars, backlog, receiver>>

(* recv returns a connection; the guard is a temporary of that statement *)
Receive(w) ==
    /\ WorkerAt(w, "recv", "received")
    /\ queue # <<>>
    /\ queue' = Tail(queue)
    /\ serving' = [serving EXCEPT ![w] = Head(queue)]
    /\ receiver' = Released(w)
    /\ UNCHANGED <<shutdown, mainVars, backlog>>

(* recv fails once the channel is empty and the sender is gone *)
Disconnected(w) ==
    /\ WorkerAt(w, "recv", "exited")
    /\ queue = <<>> /\ ~senderOpen
    /\ receiver' = Released(w)
    /\ UNCHANGED <<shutdown, mainVars, backlog, queue, serving>>

(* MUTANT of CheckShutdown: the flag is not consulted *)
CheckNothing(w) ==
    /\ WorkerAt(w, "received", "serving")
    /\ UNCHANGED <<shutdown, mainVars, backlog, queue, receiver, serving>>

(* The receiver goes with its last owner.  serve holds one as long as it    *)
(* runs, so after a failure the last worker closes what is in the channel.  *)
LastOwner(w) == main = "failed" /\ \A v \in Workers \ {w} : Ended(v)

(* a worker that finds the flag raised drops the connection and ends *)
CheckShutdown(w) ==
    /\ WorkerAt(w, "received", IF shutdown THEN "exited" ELSE "serving")
    /\ serving' = IF shutdown THEN [serving EXCEPT ![w] = None] ELSE serving
    /\ queue' = IF shutdown /\ LastOwner(w) THEN <<>> ELSE queue
    /\ receiver' = IF shutdown THEN Released(w) ELSE receiver
    /\ UNCHANGED <<shutdown, mainVars, backlog>>

(* MUTANT of Served: a connection that ends in an error ends the thread *)
ServedOnce(w) ==
    /\ WorkerAt(w, "serving", "exited")
    /\ serving' = [serving EXCEPT ![w] = None]
    /\ UNCHANGED <<shutdown, mainVars, backlog, queue, receiver>>

(* handle_connection returns, with Ok or with an error that is logged *)
Served(w) ==
    /\ WorkerAt(w, "serving", "idle")
    /\ serving' = [serving EXCEPT ![w] = None]
    /\ receiver' = Released(w)
    /\ UNCHANGED <<shutdown, mainVars, backlog, queue>>

(* ... or panics; the thread and its connection are gone *)
Panic(w) ==
    /\ WorkersPanic
    /\ WorkerAt(w, "serving", "panicked")
    /\ serving' = [serving EXCEPT ![w] = None]
    /\ receiver' = Released(w)
    /\ queue' = IF LastOwner(w) THEN <<>> ELSE queue
    /\ UNCHANGED <<shutdown, mainVars, backlog>>

(* The way of a worker to its next connection, or to its end *)
Take(w) == LockReceiver(w) \/ Receive(w) \/ Disconnected(w) \/ CheckShutdown(w)

Worker(w) == Take(w) \/ Served(w) \/ Panic(w)

-----------------------------------------------------------------------------
(* The environment *)

Connect(c) ==
    /\ main \notin {"returned", "failed"}
    /\ ~InSeq(c, backlog) /\ ~InSeq(c, queue)
    /\ \A w \in Workers : serving[w] # c
    /\ backlog' = Append(backlog, c)
    /\ UNCHANGED <<shutdown, mainVars, queue, workerVars>>

(* a client resets its connection before it was accepted *)
Withdraw(c) ==
    /\ \E i \in 1..Len(backlog) :
         /\ backlog[i] = c
         /\ backlog' = SubSeq(backlog, 1, i - 1) \o SubSeq(backlog, i + 1, Len(backlog))
    /\ UNCHANGED <<shutdown, mainVars, queue, workerVars>>

Shutdown == /\ ~shutdown
            /\ shutdown' = TRUE
            /\ UNCHANGED <<mainVars, backlog, queue, workerVars>>

(* serve has returned *)
Terminated == main \in {"returned", "failed"} /\ UNCHANGED vars

Next == \/ Main
        \/ \E w \in Workers : Worker(w)
        \/ \E c \in Clients : Connect(c) \/ Withdraw(c)
        \/ Shutdown
        \/ Terminated

Spec == Init /\ [][Next]_vars

(* The threads are scheduled on their way to a connection.  How long one is *)
(* served is up to its MTA, so nothing is assumed of Served; nor of the     *)
(* main thread.                                                             *)
FairSpec == Spec /\ \A w \in Workers : WF_vars(Take(w))

-----------------------------------------------------------------------------
(* Properties *)

(* Type invariant; the channel never exceeds its bound. *)
TypeOK ==
    /\ shutdown \in BOOLEAN
    /\ main \in {"loop", "poll", "recheck", "drain", "accept", "more",
                 "stop", "join", "returned", "failed"}
    /\ backlog \in Seq(Clients)
    /\ queue \in Seq(Clients) /\ Len(queue) <= QueueBound
    /\ senderOpen \in BOOLEAN
    /\ receiver \in Workers \cup {None}
    /\ worker \in [Workers -> {"idle", "recv", "received", "serving", "exited", "panicked"}]
    /\ serving \in [Workers -> Clients \cup {None}]

(* serve returns success only after shutdown began and every worker ended,  *)
(* none of them by a panic: nothing is being served, nothing is left in the *)
(* channel, and its mutex is free.                                          *)
ReturnsJoined ==
    main = "returned" =>
        /\ shutdown
        /\ \A w \in Workers : worker[w] = "exited" /\ serving[w] = None
        /\ queue = <<>> /\ ~senderOpen /\ receiver = None

(* The pool never shrinks while the daemon serves: but for a panic, a       *)
(* worker ends only after shutdown began or serve failed, whatever its      *)
(* connections did.                                                         *)
PoolNeverShrinks ==
    \A w \in Workers : worker[w] = "exited" => shutdown \/ main = "failed"

(* Once the flag is raised, a worker that is not serving never serves       *)
(* again, and a main thread that is not at accept never accepts again,      *)
(* wherever they were when it was raised.                                   *)
NothingStartsAfterShutdown ==
    [][shutdown => /\ \A w \in Workers : worker'[w] = "serving" => worker[w] = "serving"
                   /\ main' = "accept" => main = "accept"]_vars

(* A slow connection occupies its own worker and no other: a connection in  *)
(* the channel is taken, or closed, unless every worker that is left is     *)
(* serving, however long the others take to serve theirs.                   *)
QueuedIsTaken ==
    \A c \in Clients : InSeq(c, queue) ~> \/ ~InSeq(c, queue)
                                          \/ \A w \in Workers : worker[w] = "serving" \/ Ended(w)
=============================================================================
