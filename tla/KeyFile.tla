------------------------------ MODULE KeyFile ------------------------------
(***************************************************************************)
(* `dkim-lite generate-key`: write_private_key run by several processes    *)
(* for one target path, with failing system calls, killed processes and    *)
(* power losses.                                                           *)
(*                                                                         *)
(* A run is one process that executes the command once.  It makes at most  *)
(* one file, so run, key and inode are the same value; a name of the       *)
(* directory leads to the run whose file it is.  The kernel may write back *)
(* a name or a file at any time, and a power loss leaves what was written  *)
(* back.  A process id may be used again after its process has ended.      *)
(***************************************************************************)
EXTENDS Integers, FiniteSets, TLC

CONSTANTS
    None,       \* no file, no name
    Runs,       \* the processes
    Pids,       \* process ids, fewer than runs to have them used again
    MaxTries,   \* attempts at a temporary name; 100 in the code
    MaxLosses,  \* bound on power losses
    Faults      \* the system calls that may fail

Calls == {"create", "secure", "write", "sync", "link", "unlink", "remove", "syncdir"}

ASSUME KeyFileAssumption ==
    /\ MaxTries \in Nat \ {0}
    /\ MaxLosses \in Nat
    /\ Faults \subseteq Calls
    /\ None \notin Runs \cup Pids

VARIABLES
    pc,       \* where each run is in generate and write_private_key
    pid,      \* the process id of each run
    tries,    \* its sequence number, TEMP_SEQUENCE
    tmp,      \* the temporary name it created
    dir,      \* the directory: which file a name leads to
    whole,    \* the files whose content is complete
    disk,     \* the directory as it was last written back
    safe,     \* the complete files that were written back
    stranded, \* runs for which a removal or the directory sync failed
    losses    \* power losses so far

vars == <<pc, pid, tries, tmp, dir, whole, disk, safe, stranded, losses>>

Target == <<None, 0>>   \* no run has such a process id
Temps == Pids \X (0..MaxTries)
Names == {Target} \cup Temps
Live(r) == pc[r] \notin {"idle", "done", "failed", "dead"}

Init == /\ pc = [r \in Runs |-> "idle"]
        /\ pid = [r \in Runs |-> None]
        /\ tries = [r \in Runs |-> 0]
        /\ tmp = [r \in Runs |-> None]
        /\ dir = [n \in Names |-> None] /\ disk = dir
        /\ whole = {} /\ safe = {}
        /\ stranded = {} /\ losses = 0

-----------------------------------------------------------------------------
(* One run *)

Goto(r, from, to) == /\ pc[r] = from
                     /\ pc' = [pc EXCEPT ![r] = to]

MayFail(call) == call \in Faults

Start(r) == /\ Goto(r, "idle", "check")
            /\ \E p \in Pids : /\ \A q \in Runs : Live(q) => pid[q] # p
                               /\ pid' = [pid EXCEPT ![r] = p]
            /\ UNCHANGED <<tries, tmp, dir, whole, disk, safe, stranded, losses>>

(* The checks of generate and write_private_key that create nothing: any    *)
(* of them may refuse, an existing target always does                       *)
Check(r) == /\ \/ dir[Target] = None /\ Goto(r, "check", "create")
               \/ Goto(r, "check", "failed")
            /\ UNCHANGED <<pid, tries, tmp, dir, whole, disk, safe, stranded, losses>>

TempName(r) == <<pid[r], tries[r]>>

(* An attempt of create_temporary: the name is taken, or new *)
Create(r) ==
    /\ tries[r] < MaxTries
    /\ IF dir[TempName(r)] # None
       THEN /\ pc[r] = "create"
            /\ UNCHANGED <<pc, tmp, dir>>
       ELSE /\ Goto(r, "create", "secure")
            /\ tmp' = [tmp EXCEPT ![r] = TempName(r)]
            /\ dir' = [dir EXCEPT ![TempName(r)] = r]
    /\ tries' = [tries EXCEPT ![r] = @ + 1]
    /\ UNCHANGED <<pid, whole, disk, safe, stranded, losses>>

CreateFails(r) ==
    /\ tries[r] = MaxTries \/ MayFail("create")
    /\ Goto(r, "create", "failed")
    /\ UNCHANGED <<pid, tries, tmp, dir, whole, disk, safe, stranded, losses>>

Secure(r) == /\ \/ Goto(r, "secure", "write")
                \/ MayFail("secure") /\ Goto(r, "secure", "cleanup")
             /\ UNCHANGED <<pid, tries, tmp, dir, whole, disk, safe, stranded, losses>>

(* MUTANT of WriteFails: an early return without the cleanup *)
WriteFailsEarly(r) ==
    /\ MayFail("write")
    /\ Goto(r, "write", "failed")
    /\ UNCHANGED <<pid, tries, tmp, dir, whole, disk, safe, stranded, losses>>

WriteAll(r) == /\ Goto(r, "write", "sync")
               /\ whole' = whole \cup {r}
               /\ UNCHANGED <<pid, tries, tmp, dir, disk, safe, stranded, losses>>

WriteFails(r) ==
    /\ MayFail("write")
    /\ Goto(r, "write", "cleanup")
    /\ UNCHANGED <<pid, tries, tmp, dir, whole, disk, safe, stranded, losses>>

(* MUTANT of Sync: without sync_all *)
SyncSkipped(r) ==
    /\ Goto(r, "sync", "link")
    /\ UNCHANGED <<pid, tries, tmp, dir, whole, disk, safe, stranded, losses>>

Sync(r) == /\ \/ /\ Goto(r, "sync", "link")
                 /\ safe' = safe \cup {r}
              \/ /\ MayFail("sync")
                 /\ Goto(r, "sync", "cleanup")
                 /\ UNCHANGED safe
           /\ UNCHANGED <<pid, tries, tmp, dir, whole, disk, stranded, losses>>

(* MUTANT of Link: the temporary file is renamed over the target *)
LinkOverwrites(r) ==
    /\ Goto(r, "link", "syncdir")
    /\ dir' = [dir EXCEPT ![Target] = r, ![tmp[r]] = None]
    /\ UNCHANGED <<pid, tries, tmp, whole, disk, safe, stranded, losses>>

(* hard_link fails on an existing target *)
Link(r) == /\ \/ /\ dir[Target] = None
                 /\ Goto(r, "link", "unlink")
                 /\ dir' = [dir EXCEPT ![Target] = r]
              \/ /\ dir[Target] # None \/ MayFail("link")
                 /\ Goto(r, "link", "cleanup")
                 /\ UNCHANGED dir
           /\ UNCHANGED <<pid, tries, tmp, whole, disk, safe, stranded, losses>>

(* remove_file of the temporary name, on success and as cleanup; its result *)
(* decides the outcome only on success                                      *)
Unlink(r) == /\ \/ /\ Goto(r, "unlink", "syncdir")
                   /\ dir' = [dir EXCEPT ![tmp[r]] = None]
                   /\ UNCHANGED stranded
                \/ /\ MayFail("unlink")
                   /\ Goto(r, "unlink", "cleanup")
                   /\ stranded' = stranded \cup {r}
                   /\ UNCHANGED dir
             /\ UNCHANGED <<pid, tries, tmp, whole, disk, safe, losses>>

Cleanup(r) == /\ Goto(r, "cleanup", "failed")
              /\ \/ /\ dir' = [dir EXCEPT ![tmp[r]] = None]
                    /\ UNCHANGED stranded
                 \/ /\ MayFail("remove")
                    /\ stranded' = stranded \cup {r}
                    /\ UNCHANGED dir
              /\ UNCHANGED <<pid, tries, tmp, whole, disk, safe, losses>>

(* MUTANT of SyncDirectory: success is reported without it *)
SyncDirectorySkipped(r) ==
    /\ Goto(r, "syncdir", "done")
    /\ UNCHANGED <<pid, tries, tmp, dir, whole, disk, safe, stranded, losses>>

(* The directory is synced if it can be, and success is reported either way *)
SyncDirectory(r) ==
    /\ Goto(r, "syncdir", "done")
    /\ \/ /\ disk' = dir
          /\ UNCHANGED stranded
       \/ /\ MayFail("syncdir")
          /\ stranded' = stranded \cup {r}
          /\ UNCHANGED disk
    /\ UNCHANGED <<pid, tries, tmp, dir, whole, safe, losses>>

Run(r) == \/ Start(r) \/ Check(r) \/ Create(r) \/ CreateFails(r) \/ Secure(r)
          \/ WriteAll(r) \/ WriteFails(r) \/ Sync(r) \/ Link(r) \/ Unlink(r)
          \/ Cleanup(r) \/ SyncDirectory(r)

-----------------------------------------------------------------------------
(* The system around it *)

Kill(r) == /\ Live(r)
           /\ pc' = [pc EXCEPT ![r] = "dead"]
           /\ UNCHANGED <<pid, tries, tmp, dir, whole, disk, safe, stranded, losses>>

WriteBack == /\ \/ /\ \E n \in Names : disk' = [disk EXCEPT ![n] = dir[n]]
                   /\ UNCHANGED safe
                \/ /\ \E r \in whole : safe' = safe \cup {r}
                   /\ UNCHANGED disk
             /\ UNCHANGED <<pc, pid, tries, tmp, dir, whole, stranded, losses>>

PowerLoss == /\ losses < MaxLosses
             /\ losses' = losses + 1
             /\ pc' = [r \in Runs |-> IF Live(r) THEN "dead" ELSE pc[r]]
             /\ dir' = disk
             /\ whole' = safe
             /\ UNCHANGED <<pid, tries, tmp, disk, safe, stranded>>

(* Every run is over *)
Over == /\ \A r \in Runs : ~Live(r) /\ pc[r] # "idle"
        /\ UNCHANGED vars

Next == (\E r \in Runs : Run(r) \/ Kill(r)) \/ WriteBack \/ PowerLoss \/ Over

Spec == Init /\ [][Next]_vars

-----------------------------------------------------------------------------
(* Properties *)

(* Type invariant: a temporary name is made of the run's own process id and *)
(* of a sequence number within the attempts of create_temporary.            *)
TypeOK ==
    /\ pc \in [Runs -> {"idle", "check", "create", "secure", "write", "sync", "link",
                        "unlink", "syncdir", "cleanup", "done", "failed", "dead"}]
    /\ pid \in [Runs -> Pids \cup {None}]
    /\ tries \in [Runs -> 0..MaxTries]
    /\ tmp \in [Runs -> Temps \cup {None}]
    /\ \A r \in Runs : tmp[r] # None => tmp[r][1] = pid[r]
    /\ dir \in [Names -> Runs \cup {None}]
    /\ disk \in [Names -> Runs \cup {None}]
    /\ safe \subseteq whole /\ whole \subseteq Runs
    /\ stranded \subseteq Runs
    /\ losses \in 0..MaxLosses

(* The target is never a partial key, whenever a generator is killed or the *)
(* power fails: content reaches the disk before the target name exists.     *)
TargetIsWhole == dir[Target] # None => dir[Target] \in whole

(* An installed key is never replaced or removed, whoever else generates a  *)
(* key for the same path; only a power loss may undo an installation.       *)
NeverReplaced ==
    [][dir[Target] # None => dir'[Target] = dir[Target] \/ losses' # losses]_vars

(* A run that reports success has its own key at the target, for good, even *)
(* over a power loss, unless syncing the directory failed.                  *)
SuccessIsInstalled ==
    \A r \in Runs : pc[r] = "done" /\ r \notin stranded => dir[Target] = r

(* A run that reports failure leaves no file, at the target or elsewhere,   *)
(* unless a removal failed or the power did.                                *)
FailureLeavesNothing ==
    \A r \in Runs : pc[r] = "failed" /\ r \notin stranded /\ losses = 0 =>
        \A n \in Names : dir[n] # r

Symmetry == Permutations(Runs)
=============================================================================
