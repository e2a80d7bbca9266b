------------------------------ MODULE Listener ------------------------------
(***************************************************************************)
(* Listener::bind: how a daemon takes over its address, step by step, with *)
(* the debris of killed daemons, restarts by the service manager, a second *)
(* daemon started for the same address, and an administrator who puts a    *)
(* file at the path of the socket or removes it.  A socket outlives its    *)
(* daemon as a name of the file system; a TCP port does not.               *)
(***************************************************************************)
EXTENDS Naturals

CONSTANTS
    Daemons,   \* daemons configured with the same address
    Managed,   \* those a service manager starts and restarts
    MaxKills,  \* bound on kills
    MaxFiles   \* bound on the files the administrator creates

ASSUME ListenerAssumption ==
    Managed \subseteq Daemons /\ MaxKills \in Nat /\ MaxFiles \in Nat

VARIABLES
    kind,    \* ListenAddr: "unix" or "tcp"
    path,    \* what the path leads to
    phase,   \* where each daemon is
    unseen,  \* daemons that had looked before the file at the path appeared
    kills, files

listenerVars == <<kind, path, phase, unseen, kills, files>>

Nothing == [type |-> "none"]
File == [type |-> "file", mode |-> "own"]
Socket(d, mode) == [type |-> "socket", of |-> d, mode |-> mode]
SocketOf(d) == path.type = "socket" /\ path.of = d

ListenerInit == /\ kind \in {"unix", "tcp"} /\ path = Nothing
                /\ phase = [d \in Daemons |-> "down"]
                /\ unseen = {} /\ kills = 0 /\ files = 0

Go(d, to) == phase' = [phase EXCEPT ![d] = to]
Fail(d) == Go(d, "down")
Rest == UNCHANGED <<kind, unseen, kills, files>>

-----------------------------------------------------------------------------
(* Started after any end, by the service manager or by hand *)
StartDaemon(d) == /\ phase[d] = "down"
                  /\ Go(d, IF kind = "unix" THEN "look" ELSE "bindTcp")
                  /\ UNCHANGED path /\ Rest

(* The kernel gives a port to one process and takes it back when that ends *)
BindTcp(d) == /\ phase[d] = "bindTcp"
              /\ IF \E other \in Daemons : phase[other] = "serve"
                 THEN Fail(d) ELSE Go(d, "serve")
              /\ UNCHANGED path /\ Rest

(* MUTANT of Look: whatever is there is removed *)
LookNever(d) ==
    /\ phase[d] = "look"
    /\ Go(d, IF path = Nothing THEN "bind" ELSE "remove")
    /\ UNCHANGED path /\ Rest

(* MUTANT of Look: only a path that does not exist is taken *)
LookForNothing(d) ==
    /\ phase[d] = "look"
    /\ IF path = Nothing THEN Go(d, "bind") ELSE Fail(d)
    /\ UNCHANGED path /\ Rest

(* symlink_metadata: anything but a socket is refused *)
Look(d) == /\ phase[d] = "look"
           /\ CASE path.type = "none" -> Go(d, "bind")
                [] path.type = "file" -> Fail(d)
                [] path.type = "socket" -> Go(d, "remove")
           /\ UNCHANGED path /\ Rest

(* remove_file takes what is there by now *)
Remove(d) == /\ phase[d] = "remove"
             /\ IF path = Nothing THEN Fail(d) /\ UNCHANGED path
                ELSE Go(d, "bind") /\ path' = Nothing
             /\ Rest

(* MUTANT of Bind: the mode is left to the umask *)
BindAndServe(d) ==
    /\ phase[d] = "bind"
    /\ IF path # Nothing THEN Fail(d) /\ UNCHANGED path
       ELSE Go(d, "serve") /\ path' = Socket(d, "umask")
    /\ Rest

(* UnixListener::bind; EADDRINUSE if another was faster *)
Bind(d) == /\ phase[d] = "bind"
           /\ IF path # Nothing THEN Fail(d) /\ UNCHANGED path
              ELSE Go(d, "chmod") /\ path' = Socket(d, "umask")
           /\ Rest

(* set_permissions goes by the path again, not by the socket just bound *)
Chmod(d) == /\ phase[d] = "chmod"
            /\ IF path = Nothing THEN Fail(d) /\ UNCHANGED path
               ELSE Go(d, "serve") /\ path' = [path EXCEPT !.mode = "0660"]
            /\ Rest

(* The process ends, by itself or not: nothing removes the socket *)
KillDaemon(d) == /\ phase[d] # "down" /\ kills < MaxKills
                 /\ Fail(d) /\ kills' = kills + 1
                 /\ UNCHANGED <<kind, path, unseen, files>>

Daemon(d) == \/ StartDaemon(d) \/ BindTcp(d) \/ Look(d) \/ Remove(d) \/ Bind(d) \/ Chmod(d)

(* The administrator *)
CreateFile == /\ path = Nothing /\ files < MaxFiles
              /\ path' = File /\ files' = files + 1
              /\ unseen' = {d \in Daemons : phase[d] \in {"remove", "bind", "chmod"}}
              /\ UNCHANGED <<kind, phase, kills>>

Clear == /\ path # Nothing
         /\ path.type = "file" \/ \A d \in Daemons : phase[d] = "down"
         /\ path' = Nothing
         /\ UNCHANGED phase /\ Rest

(* A daemon left alone serves forever *)
Serving == (\E d \in Daemons : phase[d] = "serve") /\ UNCHANGED listenerVars

ListenerNext == \/ \E d \in Daemons : Daemon(d) \/ KillDaemon(d)
                \/ CreateFile \/ Clear
                \/ Serving

ListenerSpec == ListenerInit /\ [][ListenerNext]_listenerVars

(* The service manager restarts the managed daemons; the others need not be *)
(* started, and every process that was is scheduled                         *)
FairSpec == /\ ListenerSpec
            /\ \A d \in Managed : WF_listenerVars(Daemon(d))
            /\ \A d \in Daemons \ Managed : WF_listenerVars(phase[d] # "down" /\ Daemon(d))

-----------------------------------------------------------------------------
(* A client that connects to the address is served by d *)
Reachable(d) == phase[d] = "serve" /\ (kind = "unix" => SocketOf(d))

(* No start-up touches a file, by removing it or by changing its mode,      *)
(* unless the file appeared after that start-up had looked at the path.     *)
FilesSurvive ==
    [][path.type = "file" /\ path' # path =>
          \/ UNCHANGED phase
          \/ \E d \in unseen : phase[d] \in {"remove", "chmod"} /\ phase'[d] # phase[d]]_listenerVars

(* Clients of a daemon that serves meet a socket with the mode the code     *)
(* gives it, although a rival may rebind the path between its bind and its  *)
(* chmod, and although the chmod may hit the rival's socket.                *)
ServedSocketIsRestricted ==
    \A d \in Daemons : phase[d] = "serve" /\ SocketOf(d) => path.mode = "0660"

(* No rival is between its look at the path and its end or its service; and *)
(* none holds the port                                                      *)
Undisturbed(d) == \A rival \in Daemons \ {d} :
                      \/ phase[rival] = "down"
                      \/ phase[rival] = "serve" /\ kind = "unix"

(* Wherever a daemon ended, what it left does not stop it from being        *)
(* reachable again, and neither does the socket of another one, unless a    *)
(* file takes the path or a rival starts meanwhile.                         *)
Recovers == \A d \in Managed :
    phase[d] = "down" ~> Reachable(d) \/ path.type = "file" \/ ~Undisturbed(d)
=============================================================================
