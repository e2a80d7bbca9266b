------------------------------- MODULE Daemon ------------------------------
(***************************************************************************)
(* run_daemon: start-up, the signal handlers, the monitor thread that      *)
(* reloads the configuration and relays shutdown, and the exit.            *)
(*                                                                         *)
(* The configuration lives in two files that are read one after the other: *)
(* the text, then the private key it names.  An administrator edits either *)
(* at any time and signals the daemon.  milter::serve is reduced to what   *)
(* the daemon sees of it: it returns when told to, or with an error.       *)
(***************************************************************************)
EXTENDS Integers

CONSTANTS
    None,         \* no configuration
    KeyFiles,     \* paths of private keys
    Keys,         \* usable private keys
    BadKey,       \* a missing, malformed or out-of-range key file
    Listens,      \* listen addresses
    Texts,        \* contents of the configuration file
    FipsActive,   \* the kernel and OpenSSL are in FIPS mode
    MaxEdits      \* bound on the edits of the administrator

(* What RuntimeConfig::load makes of a text before it opens the key *)
TextRecords == [parses : BOOLEAN, keyFile : KeyFiles, listen : Listens,
                require_fips : BOOLEAN]

Configs == [text : Texts, key : Keys]

ASSUME DaemonAssumption ==
    /\ Texts \subseteq TextRecords
    /\ BadKey \notin Keys
    /\ None \notin Configs /\ None \notin Texts
    /\ FipsActive \in BOOLEAN
    /\ MaxEdits \in Nat

VARIABLES
    text,       \* the configuration file
    keys,       \* the key files
    edits,      \* how often either was edited
    announced,  \* a SIGHUP followed the last edit
    RELOAD,     \* static flag of on_reload
    SHUTDOWN,   \* static flag of on_shutdown
    shutdown,   \* the flag shared with milter::serve
    main,       \* where run_daemon is
    monitor,    \* where the monitor thread is
    loading,    \* the text RuntimeConfig::load has read, or None
    loaded,     \* the configuration it returned, or None
    initial,    \* the configuration the daemon started with, or None
    active      \* the configuration in the shared RwLock, or None

diskVars == <<text, keys, edits>>
flagVars == <<RELOAD, SHUTDOWN, shutdown>>
loadVars == <<loading, loaded>>
vars == <<diskVars, announced, flagVars, main, monitor, loadVars, initial, active>>

Init == /\ text \in Texts
        /\ keys \in [KeyFiles -> Keys \cup {BadKey}]
        /\ edits = 0 /\ announced = FALSE
        /\ RELOAD = FALSE /\ SHUTDOWN = FALSE /\ shutdown = FALSE
        /\ main = "load" /\ monitor = "unborn"
        /\ loading = None /\ loaded = None
        /\ initial = None /\ active = None

FipsOk(t) == t.require_fips => FipsActive

-----------------------------------------------------------------------------
(* RuntimeConfig::load, used by both threads, never at the same time *)

(* The text is read and parsed; a rejected one never opens a key file *)
ReadText(ok, rejected) ==
    /\ loading = None /\ loaded = None
    /\ IF text.parses THEN loading' = text /\ ok ELSE loading' = None /\ rejected
    /\ UNCHANGED <<diskVars, loaded, initial, active>>

(* The key file is read, parsed, measured and tried *)
ReadKey(ok, rejected) ==
    /\ loading # None
    /\ LET key == keys[loading.keyFile]
       IN  IF key # BadKey THEN loaded' = [text |-> loading, key |-> key] /\ ok
                           ELSE loaded' = None /\ rejected
    /\ loading' = None
    /\ UNCHANGED <<diskVars, initial, active>>

-----------------------------------------------------------------------------
(* The main thread *)

StartReadText ==
    /\ main = "load"
    /\ ReadText(main' = "loadKey", main' = "exited")
    /\ UNCHANGED <<announced, flagVars, monitor>>

StartReadKey ==
    /\ main = "loadKey"
    /\ ReadKey(main' = "check", main' = "exited")
    /\ UNCHANGED <<announced, flagVars, monitor>>

(* check_fips_environment; --check-config ends here with success *)
StartCheck ==
    /\ main = "check"
    /\ \/ FipsOk(loaded.text) /\ main' = "install"
       \/ main' = "exited"
    /\ UNCHANGED <<diskVars, announced, flagVars, monitor, loadVars, initial, active>>

(* install_signal_handlers fails *)
InstallFails ==
    /\ main = "install"
    /\ main' = "exited"
    /\ UNCHANGED <<diskVars, announced, flagVars, monitor, loadVars, initial, active>>

(* The handlers are installed: the shared configuration, the monitor thread *)
Start ==
    /\ main = "install"
    /\ main' = "serving"
    /\ monitor' = "look"
    /\ initial' = loaded /\ active' = loaded /\ loaded' = None
    /\ UNCHANGED <<diskVars, announced, flagVars, loading>>

(* milter::serve returns because it was told to or because it failed *)
ServeReturns ==
    /\ main = "serving"
    /\ main' = "joining"
    /\ SHUTDOWN' = TRUE
    /\ UNCHANGED <<diskVars, announced, RELOAD, shutdown, monitor, loadVars, initial, active>>

JoinMonitor ==
    /\ main = "joining" /\ monitor = "ended"
    /\ main' = "exited"
    /\ UNCHANGED <<diskVars, announced, flagVars, monitor, loadVars, initial, active>>

Main == StartReadText \/ StartReadKey \/ StartCheck \/ InstallFails \/ Start \/ JoinMonitor

-----------------------------------------------------------------------------
(* The monitor thread; it dies with the process *)

Running == main \notin {"exited", "killed"}

MonitorAt(from) == Running /\ monitor = from

(* MUTANT of MonitorEnds: the flag of milter::serve is not raised *)
MonitorEndsSilently ==
    /\ MonitorAt("look") /\ SHUTDOWN
    /\ monitor' = "ended"
    /\ UNCHANGED <<diskVars, announced, flagVars, main, loadVars, initial, active>>

MonitorEnds ==
    /\ MonitorAt("look") /\ SHUTDOWN
    /\ monitor' = "ended"
    /\ shutdown' = TRUE
    /\ UNCHANGED <<diskVars, announced, RELOAD, SHUTDOWN, main, loadVars, initial, active>>

MonitorLooks ==
    /\ MonitorAt("look") /\ ~SHUTDOWN
    /\ monitor' = "swap"
    /\ UNCHANGED <<diskVars, announced, flagVars, main, loadVars, initial, active>>

(* RELOAD.swap(false): the request is taken before the files are read *)
SwapReload ==
    /\ MonitorAt("swap")
    /\ monitor' = IF RELOAD THEN "readText" ELSE "sleep"
    /\ RELOAD' = FALSE
    /\ UNCHANGED <<diskVars, announced, SHUTDOWN, shutdown, main, loadVars, initial, active>>

MonitorReadText ==
    /\ MonitorAt("readText")
    /\ ReadText(monitor' = "readKey", monitor' = "sleep")
    /\ UNCHANGED <<announced, flagVars, main>>

(* MUTANT of MonitorReadKey: the request is cleared once the load is done *)
ReadKeyThenClear ==
    /\ MonitorAt("readKey")
    /\ ReadKey(monitor' = "apply", monitor' = "sleep")
    /\ RELOAD' = FALSE
    /\ UNCHANGED <<announced, SHUTDOWN, shutdown, main>>

MonitorReadKey ==
    /\ MonitorAt("readKey")
    /\ ReadKey(monitor' = "apply", monitor' = "sleep")
    /\ UNCHANGED <<announced, flagVars, main>>

(* MUTANT of Apply: the listen address is not compared *)
ApplyAnyListen ==
    /\ MonitorAt("apply")
    /\ active' = IF FipsOk(loaded.text) THEN loaded ELSE active
    /\ loaded' = None
    /\ monitor' = "sleep"
    /\ UNCHANGED <<diskVars, announced, flagVars, main, loading, initial>>

(* FIPS, then the listen address, then the swap under the write lock *)
Apply ==
    /\ MonitorAt("apply")
    /\ active' = IF FipsOk(loaded.text) /\ active.text.listen = loaded.text.listen
                 THEN loaded ELSE active
    /\ loaded' = None
    /\ monitor' = "sleep"
    /\ UNCHANGED <<diskVars, announced, flagVars, main, loading, initial>>

Wake ==
    /\ MonitorAt("sleep")
    /\ monitor' = "look"
    /\ UNCHANGED <<diskVars, announced, flagVars, main, loadVars, initial, active>>

Monitor == \/ MonitorEnds \/ MonitorLooks \/ SwapReload \/ MonitorReadText
           \/ MonitorReadKey \/ Apply \/ Wake

-----------------------------------------------------------------------------
(* The administrator and the service manager *)

Edit ==
    /\ Running /\ edits < MaxEdits
    /\ edits' = edits + 1
    /\ announced' = FALSE
    /\ \/ text' \in Texts /\ UNCHANGED keys
       \/ /\ \E f \in KeyFiles, k \in Keys \cup {BadKey} : keys' = [keys EXCEPT ![f] = k]
          /\ UNCHANGED text
    /\ UNCHANGED <<flagVars, main, monitor, loadVars, initial, active>>

HandlersInstalled == main \in {"serving", "joining"}

(* SIGHUP: on_reload, or the default action before the handlers exist *)
Hangup ==
    /\ Running
    /\ announced' = TRUE
    /\ IF HandlersInstalled THEN RELOAD' = TRUE /\ UNCHANGED main
                            ELSE main' = "killed" /\ UNCHANGED RELOAD
    /\ UNCHANGED <<diskVars, SHUTDOWN, shutdown, monitor, loadVars, initial, active>>

(* SIGTERM, SIGINT *)
Terminate ==
    /\ Running
    /\ IF HandlersInstalled THEN SHUTDOWN' = TRUE /\ UNCHANGED main
                            ELSE main' = "killed" /\ UNCHANGED SHUTDOWN
    /\ UNCHANGED <<diskVars, announced, RELOAD, shutdown, monitor, loadVars, initial, active>>

Over == ~Running /\ UNCHANGED vars

Next == Main \/ ServeReturns \/ Monitor \/ Edit \/ Hangup \/ Terminate \/ Over

Spec == Init /\ [][Next]_vars

(* Both threads are scheduled; serve returns once told to (ServePool), and *)
(* need not return before.                                                 *)
FairSpec == Spec /\ WF_vars(Main) /\ WF_vars(Monitor) /\ WF_vars(shutdown /\ ServeReturns)

-----------------------------------------------------------------------------
(* Properties *)

(* Type invariant. *)
TypeOK ==
    /\ text \in Texts
    /\ keys \in [KeyFiles -> Keys \cup {BadKey}]
    /\ edits \in 0..MaxEdits
    /\ announced \in BOOLEAN
    /\ RELOAD \in BOOLEAN /\ SHUTDOWN \in BOOLEAN /\ shutdown \in BOOLEAN
    /\ main \in {"load", "loadKey", "check", "install", "serving", "joining",
                 "exited", "killed"}
    /\ monitor \in {"unborn", "look", "swap", "readText", "readKey", "apply",
                    "sleep", "ended"}
    /\ loading \in Texts \cup {None}
    /\ loaded \in Configs \cup {None}
    /\ initial \in Configs \cup {None}
    /\ active \in Configs \cup {None}

(* The configuration on disk is one the running daemon would take over *)
Acceptable ==
    /\ text.parses
    /\ keys[text.keyFile] # BadKey
    /\ FipsOk(text)
    /\ text.listen = initial.text.listen

(* No SIGHUP is lost.  When the files were announced by a SIGHUP, nothing   *)
(* is pending and no load is under way, the daemon runs on what is on disk, *)
(* however edits, signals and an earlier reload interleaved.                *)
QuiescentIsCurrent ==
    (/\ announced /\ ~RELOAD
     /\ monitor \in {"look", "swap", "sleep"}
     /\ Acceptable) => active = [text |-> text, key |-> keys[text.keyFile]]

(* A reload never replaces the configuration by one that was not validated: *)
(* the key is usable, FIPS holds, and the address is the one bound at start. *)
ActiveIsValid ==
    active # None =>
        /\ active.text.parses
        /\ active.key \in Keys
        /\ FipsOk(active.text)
        /\ active.text.listen = initial.text.listen

(* An announced, acceptable configuration is eventually the one in force,   *)
(* unless it is edited again or the daemon stops.                           *)
ReloadTakesEffect ==
    (announced /\ monitor # "unborn" /\ Acceptable) ~>
        \/ active = [text |-> text, key |-> keys[text.keyFile]]
        \/ ~announced \/ SHUTDOWN

(* A termination signal, and a failure of serve, end the process: neither   *)
(* thread waits forever for the other.                                      *)
StopCompletes == (SHUTDOWN \/ main = "joining") ~> main = "exited"
=============================================================================
