-------------------------- MODULE FileSystemProofs --------------------------
(***************************************************************************)
(* Theorems about the two parts of the program that contend for a name of  *)
(* the file system: the generator of keys (KeyFile) and a daemon that      *)
(* takes over its socket (Listener).  They share no state; each has its    *)
(* own inductive invariant.                                                *)
(***************************************************************************)
EXTENDS KeyFile, Listener, TLAPS

-----------------------------------------------------------------------------
(* KeyFile: for any number of generators, process ids, attempts, failing    *)
(* calls, kills and power losses.                                           *)
(*                                                                          *)
(* What makes an installation safe is the order of write_private_key: the   *)
(* content is on disk before the target name exists (Durable), the name     *)
(* stays this run's until it ends and is on disk before success is reported *)
(* (Placed), and no other name a run touches is the target (Named).  And a  *)
(* name that leads to a run's file is accounted for by where the run is, so *)
(* the cleanup removes all there is (Accounted).                            *)

HasFile == {"secure", "write", "sync", "link", "unlink", "cleanup"}

Named == \A r \in Runs : /\ Live(r) => pid[r] \in Pids
                         /\ pc[r] = "idle" => tmp[r] = None
                         /\ pc[r] \in HasFile => tmp[r] \in Temps

Durable == /\ dir[Target] # None => dir[Target] \in safe
           /\ disk[Target] # None => disk[Target] = dir[Target]

Placed == \A r \in Runs :
            /\ pc[r] = "sync" => r \in whole
            /\ pc[r] \in {"link", "unlink", "syncdir"} => r \in safe
            /\ pc[r] \in {"unlink", "syncdir"} => dir[Target] = r
            /\ pc[r] = "done" /\ r \notin stranded => disk[Target] = r

IInv == TypeOK /\ Named /\ Durable /\ Placed

LEMMA NamesApart == /\ Target \in Names /\ Target \notin Temps
                    /\ Temps \subseteq Names /\ None \notin Runs
<1>1. Target \notin Temps
  BY KeyFileAssumption DEF Target, Temps
<1> QED
  BY <1>1, KeyFileAssumption DEF Names, Target

LEMMA InitIInv == Init => IInv
<1> SUFFICES ASSUME Init PROVE IInv
  OBVIOUS
<1>1. TypeOK
  BY KeyFileAssumption DEF Init, TypeOK
<1>2. Named /\ Durable /\ Placed
  BY NamesApart DEF Init, Named, HasFile, Durable, Placed, Live
<1> QED
  BY <1>1, <1>2 DEF IInv

-----------------------------------------------------------------------------
(* A run that neither touches the directory nor any record of the disk *)
LEMMA QuietStep ==
    ASSUME IInv, NEW r \in Runs, NEW from, NEW to, Goto(r, from, to),
           from # "idle", from \notin {"done", "failed", "dead"},
           to \in {"create", "secure", "write", "sync", "link", "cleanup", "failed"},
           to \in HasFile => from \in HasFile,
           to = "sync" => r \in whole', to = "link" => r \in safe',
           whole \subseteq whole', safe \subseteq safe', safe' \subseteq whole', whole' \subseteq Runs,
           UNCHANGED <<pid, tries, tmp, dir, disk, stranded, losses>>
    PROVE  IInv'
<1>1. TypeOK'
  BY DEF IInv, TypeOK, Goto
<1>2. Named'
  BY DEF IInv, TypeOK, Named, HasFile, Live, Goto
<1>3. Durable'
  BY DEF IInv, Durable
<1>4. Placed'
  BY DEF IInv, TypeOK, Placed, Goto
<1> QED
  BY <1>1, <1>2, <1>3, <1>4 DEF IInv

(* The names of a run are not the target *)
LEMMA OwnNames ==
    ASSUME IInv, NEW r \in Runs
    PROVE  /\ Live(r) /\ tries[r] < MaxTries => TempName(r) \in Temps /\ TempName(r)[1] = pid[r]
           /\ pc[r] \in HasFile => tmp[r] \in Names /\ tmp[r] # Target
<1>1. ASSUME Live(r) PROVE TempName(r) \in Temps /\ TempName(r)[1] = pid[r]
  BY <1>1 DEF IInv, TypeOK, Named, TempName, Temps
<1>2. ASSUME pc[r] \in HasFile PROVE tmp[r] \in Names /\ tmp[r] # Target
  BY <1>2, NamesApart DEF IInv, Named
<1> QED
  BY <1>1, <1>2

LEMMA RunStep ==
    ASSUME IInv, NEW r \in Runs, Run(r)
    PROVE  IInv' /\ (dir[Target] # None => dir'[Target] = dir[Target])
<1>0. /\ TypeOK /\ Named /\ Durable /\ Placed
      /\ safe \subseteq whole /\ whole \subseteq Runs /\ Target \in Names /\ None \notin Runs
  BY NamesApart DEF IInv, TypeOK
<1>1. CASE Start(r)
  <2>1. TypeOK'
    BY <1>0, <1>1 DEF Start, Goto, TypeOK, Named
  <2>2. Named' /\ Durable' /\ Placed'
    BY <1>0, <1>1 DEF Start, Goto, TypeOK, Named, HasFile, Live, Durable, Placed
  <2> QED
    BY <1>1, <2>1, <2>2 DEF Start, IInv
<1>2. CASE Check(r)
  <2>1. \E to \in {"create", "failed"} : Goto(r, "check", to)
    BY <1>2 DEF Check
  <2> QED
    BY <1>0, <1>2, <2>1, QuietStep DEF Check, HasFile
<1>3. CASE Create(r)
  <2>1. pc[r] = "create" /\ Live(r)
    BY <1>3 DEF Create, Goto, Live
  <2>2. TempName(r) \in Temps /\ TempName(r) \in Names /\ TempName(r) # Target
        /\ TempName(r)[1] = pid[r]
    BY <1>3, <2>1, OwnNames, NamesApart DEF Create
  <2>3. tries' \in [Runs -> 0..MaxTries]
    <3>1. tries[r] \in 0..MaxTries /\ tries[r] < MaxTries /\ MaxTries \in Nat
      BY <1>0, <1>3, KeyFileAssumption DEF Create, TypeOK
    <3>2. tries[r] + 1 \in 0..MaxTries
      BY <3>1
    <3> QED
      BY <1>0, <1>3, <3>2 DEF Create, TypeOK
  <2>4. CASE dir[TempName(r)] # None
    <3>1. UNCHANGED <<pc, pid, tmp, dir, whole, disk, safe, stranded, losses>>
      BY <1>3, <2>4 DEF Create
    <3> QED
      BY <1>0, <2>3, <3>1 DEF IInv, TypeOK, Named, Live, Durable, Placed
  <2>5. CASE dir[TempName(r)] = None
    <3>1. /\ Goto(r, "create", "secure")
          /\ tmp' = [tmp EXCEPT ![r] = TempName(r)]
          /\ dir' = [dir EXCEPT ![TempName(r)] = r]
          /\ UNCHANGED <<pid, whole, disk, safe, stranded, losses>>
      BY <1>3, <2>5 DEF Create
    <3>2. dir' \in [Names -> Runs \cup {None}] /\ dir'[Target] = dir[Target]
      BY <1>0, <2>2, <3>1 DEF TypeOK
    <3>3. /\ tmp' \in [Runs -> Temps \cup {None}]
          /\ \A q \in Runs : tmp'[q] # None => tmp'[q][1] = pid'[q]
      BY <1>0, <2>2, <3>1 DEF TypeOK
    <3>4. TypeOK'
      BY <1>0, <2>3, <3>1, <3>2, <3>3 DEF TypeOK, Goto
    <3>5. Named'
      BY <1>0, <2>1, <2>2, <3>1 DEF TypeOK, Named, HasFile, Live, Goto
    <3>6. Durable' /\ Placed'
      BY <1>0, <3>1, <3>2 DEF TypeOK, Durable, Placed, Goto
    <3> QED
      BY <3>2, <3>4, <3>5, <3>6 DEF IInv
  <2> QED
    BY <2>4, <2>5
<1>4. CASE CreateFails(r)
  BY <1>0, <1>4, QuietStep DEF CreateFails, HasFile
<1>5. CASE Secure(r)
  <2>1. \E to \in {"write", "cleanup"} : Goto(r, "secure", to)
    BY <1>5 DEF Secure
  <2> QED
    BY <1>0, <1>5, <2>1, QuietStep DEF Secure, HasFile
<1>6. CASE WriteAll(r)
  BY <1>0, <1>6, QuietStep DEF WriteAll, HasFile
<1>7. CASE WriteFails(r)
  BY <1>0, <1>7, QuietStep DEF WriteFails, HasFile
<1>8. CASE Sync(r)
  <2>1. r \in whole /\ \E to \in {"link", "cleanup"} : Goto(r, "sync", to)
    BY <1>0, <1>8 DEF Sync, Goto, Placed
  <2> QED
    BY <1>0, <1>8, <2>1, QuietStep DEF Sync, Goto, HasFile
<1>9. CASE Link(r)
  <2>1. CASE dir[Target] = None /\ Goto(r, "link", "unlink") /\ dir' = [dir EXCEPT ![Target] = r]
    <3>1. dir' \in [Names -> Runs \cup {None}] /\ dir'[Target] = r
      BY <1>0, <2>1 DEF TypeOK
    <3>2. r \in safe /\ UNCHANGED <<pid, tries, tmp, whole, disk, safe, stranded, losses>>
      BY <1>0, <1>9, <2>1 DEF Link, Placed, Goto
    <3>3. TypeOK' /\ Named'
      BY <1>0, <2>1, <3>1, <3>2 DEF TypeOK, Named, HasFile, Live, Goto
    <3>4. Durable'
      BY <1>0, <2>1, <3>1, <3>2 DEF Durable
    <3>5. Placed'
      BY <1>0, <2>1, <3>1, <3>2 DEF TypeOK, Durable, Placed, Goto
    <3> QED
      BY <2>1, <3>3, <3>4, <3>5 DEF IInv
  <2>2. CASE Goto(r, "link", "cleanup") /\ UNCHANGED dir
    BY <1>0, <1>9, <2>2, QuietStep DEF Link, HasFile
  <2> QED
    BY <1>9, <2>1, <2>2 DEF Link
<1>10. ASSUME pc[r] \in {"unlink", "cleanup"}, NEW to \in {"syncdir", "failed"},
              pc[r] = "cleanup" => to = "failed",
              pc' = [pc EXCEPT ![r] = to],
              dir' = [dir EXCEPT ![tmp[r]] = None] \/ UNCHANGED dir,
              stranded \subseteq stranded', stranded' \subseteq Runs,
              UNCHANGED <<pid, tries, tmp, whole, disk, safe, losses>>
       PROVE  IInv' /\ dir'[Target] = dir[Target]
  <2>1. /\ dir' \in [Names -> Runs \cup {None}]
        /\ dir'[Target] = dir[Target]
    <3>1. tmp[r] # Target
      BY <1>10, OwnNames DEF HasFile
    <3> QED
      BY <1>0, <1>10, <3>1 DEF TypeOK
  <2>2. TypeOK' /\ Named'
    BY <1>0, <1>10, <2>1 DEF TypeOK, Named, HasFile, Live
  <2>3. Durable' /\ Placed'
    BY <1>0, <1>10, <2>1 DEF TypeOK, Durable, Placed
  <2> QED
    BY <2>1, <2>2, <2>3 DEF IInv
<1>11. CASE Unlink(r)
  <2>1. CASE Goto(r, "unlink", "cleanup")
    <3>1. /\ stranded \subseteq stranded' /\ stranded' \subseteq Runs
          /\ UNCHANGED <<pid, tries, tmp, dir, whole, disk, safe, losses>>
      BY <1>0, <1>11, <2>1 DEF Unlink, Goto, TypeOK
    <3>2. TypeOK' /\ Named'
      BY <1>0, <2>1, <3>1 DEF TypeOK, Named, HasFile, Live, Goto
    <3>3. Durable' /\ Placed'
      BY <1>0, <2>1, <3>1 DEF TypeOK, Durable, Placed, Goto
    <3> QED
      BY <3>1, <3>2, <3>3 DEF IInv
  <2>2. CASE Goto(r, "unlink", "syncdir")
    BY <1>0, <1>10, <1>11, <2>2 DEF Unlink, Goto, TypeOK
  <2> QED
    BY <1>11, <2>1, <2>2 DEF Unlink
<1>12. CASE Cleanup(r)
  BY <1>0, <1>10, <1>12 DEF Cleanup, Goto, TypeOK
<1>13. CASE SyncDirectory(r)
  <2>1. /\ Goto(r, "syncdir", "done") /\ UNCHANGED <<pid, tries, tmp, dir, whole, safe, losses>>
        /\ stranded \subseteq stranded' /\ stranded' \subseteq Runs
        /\ \/ disk' = dir
           \/ UNCHANGED disk /\ r \in stranded'
    BY <1>0, <1>13 DEF SyncDirectory, TypeOK
  <2>2. dir[Target] = r
    BY <1>0, <2>1 DEF Placed, Goto
  <2>3. TypeOK' /\ Named'
    BY <1>0, <2>1 DEF TypeOK, Named, HasFile, Live, Goto
  <2>4. Durable'
    BY <1>0, <2>1 DEF Durable
  <2>5. Placed'
    <3>1. \A q \in Runs : disk[Target] = q => disk'[Target] = q
      BY <1>0, <2>1 DEF Durable
    <3> QED
      BY <1>0, <2>1, <2>2, <3>1 DEF TypeOK, Placed, Goto
  <2> QED
    BY <2>1, <2>3, <2>4, <2>5 DEF IInv
<1> QED
  BY <1>1, <1>2, <1>3, <1>4, <1>5, <1>6, <1>7, <1>8, <1>9, <1>11, <1>12, <1>13 DEF Run

(* The kernel, the administrator who kills a run, the power *)
LEMMA SystemStep ==
    ASSUME IInv, (\E r \in Runs : Kill(r)) \/ WriteBack \/ PowerLoss \/ UNCHANGED vars
    PROVE  IInv' /\ (dir[Target] # None => dir'[Target] = dir[Target] \/ losses' # losses)
<1>0. /\ TypeOK /\ Named /\ Durable /\ Placed
      /\ safe \subseteq whole /\ whole \subseteq Runs /\ Target \in Names /\ None \notin Runs
  BY NamesApart DEF IInv, TypeOK
<1>1. CASE \E r \in Runs : Kill(r)
  BY <1>0, <1>1 DEF Kill, IInv, TypeOK, Named, HasFile, Live, Durable, Placed
<1>2. CASE WriteBack
  <2>1. /\ UNCHANGED <<pc, pid, tries, tmp, dir, whole, stranded, losses>>
        /\ disk' \in [Names -> Runs \cup {None}]
        /\ disk'[Target] \in {disk[Target], dir[Target]}
        /\ safe \subseteq safe' /\ safe' \subseteq whole
    BY <1>0, <1>2 DEF WriteBack, TypeOK
  <2>2. TypeOK' /\ Named'
    BY <1>0, <2>1 DEF TypeOK, Named, HasFile, Live
  <2>3. Durable' /\ Placed'
    BY <1>0, <2>1 DEF Durable, Placed
  <2> QED
    BY <2>1, <2>2, <2>3 DEF IInv
<1>3. CASE PowerLoss
  <2>1. /\ pc' \in [Runs -> {"idle", "done", "failed", "dead"}]
        /\ \A r \in Runs : pc'[r] # "dead" => pc'[r] = pc[r]
        /\ UNCHANGED <<pid, tries, tmp, disk, safe, stranded>>
        /\ dir' = disk /\ whole' = safe
    BY <1>0, <1>3 DEF PowerLoss, TypeOK, Live
  <2>2. losses' \in 0..MaxLosses /\ losses' # losses
    <3>1. losses \in Int /\ losses >= 0 /\ losses < MaxLosses /\ losses' = losses + 1
      BY <1>0, <1>3, KeyFileAssumption DEF PowerLoss, TypeOK
    <3> QED
      BY <3>1, KeyFileAssumption
  <2>3. TypeOK'
    BY <1>0, <2>1, <2>2 DEF TypeOK
  <2>4. Named' /\ Durable' /\ Placed'
    BY <1>0, <2>1 DEF Named, HasFile, Live, Durable, Placed
  <2> QED
    BY <2>2, <2>3, <2>4 DEF IInv
<1>4. CASE UNCHANGED vars
  BY <1>0, <1>4 DEF vars, IInv, TypeOK, Named, HasFile, Live, Durable, Placed
<1> QED
  BY <1>1, <1>2, <1>3, <1>4

LEMMA NextIInv ==
    IInv /\ [Next]_vars =>
        IInv' /\ (dir[Target] # None => dir'[Target] = dir[Target] \/ losses' # losses)
  BY RunStep, SystemStep DEF Next, Over

THEOREM Invariant == Spec => []IInv
<1>1. IInv /\ [Next]_vars => IInv'
  BY NextIInv
<1> QED
  BY <1>1, InitIInv, PTL DEF Spec

(* THEOREM: the state is well typed, and no run makes more than the allowed *)
(* attempts at a temporary name (create_temporary).                         *)
THEOREM TypeCorrect == Spec => []TypeOK
<1>1. IInv => TypeOK
  BY DEF IInv
<1> QED
  BY <1>1, Invariant, PTL

(* THEOREM: what the target name leads to is a complete key, at every       *)
(* moment and after every crash (sync_all before hard_link).                *)
THEOREM NeverPartial == Spec => []TargetIsWhole
<1>1. IInv => TargetIsWhole
  BY DEF IInv, TypeOK, Durable, TargetIsWhole
<1> QED
  BY <1>1, Invariant, PTL

(* THEOREM: an installed key stays, whatever other generators do; only a    *)
(* power loss may undo an installation that was not synced (hard_link does  *)
(* not replace).                                                            *)
THEOREM InstalledKeyStays == Spec => NeverReplaced
<1>1. IInv /\ [Next]_vars =>
        [dir[Target] # None => dir'[Target] = dir[Target] \/ losses' # losses]_vars
  BY NextIInv
<1> QED
  BY <1>1, Invariant, PTL DEF Spec, NeverReplaced

(* THEOREM: a reported success is a fact: the run's own key is at the       *)
(* target and on disk, unless syncing the directory failed, which           *)
(* write_private_key ignores.                                               *)
THEOREM SuccessIsTrue == Spec => []SuccessIsInstalled
<1>1. IInv => SuccessIsInstalled
  BY NamesApart DEF IInv, Durable, Placed, SuccessIsInstalled
<1> QED
  BY <1>1, Invariant, PTL

-----------------------------------------------------------------------------
(* What a name that leads to a run's file says about the run *)
Accounts(r, n) == \/ pc[r] \in HasFile /\ n = tmp[r]
                  \/ pc[r] \in {"unlink", "syncdir", "done", "dead"}
                  \/ r \in stranded

Accounted == losses = 0 => \A r \in Runs, n \in Names : dir[n] = r => Accounts(r, n)

LEMMA AccountedInit == Init => Accounted
  BY NamesApart DEF Init, Accounted

LEMMA AccountedNext == IInv /\ Accounted /\ [Next]_vars => Accounted'
<1> SUFFICES ASSUME IInv, Accounted, [Next]_vars, losses' = 0,
                    NEW q \in Runs, NEW n \in Names, dir'[n] = q
             PROVE  Accounts(q, n)'
  BY DEF Accounted
<1>0. TypeOK /\ Named /\ None \notin Runs /\ dir \in [Names -> Runs \cup {None}]
      /\ pc \in [Runs -> {"idle", "check", "create", "secure", "write", "sync", "link",
                        "unlink", "syncdir", "cleanup", "done", "failed", "dead"}]
      /\ tmp \in [Runs -> Temps \cup {None}]
  BY NamesApart DEF IInv, TypeOK
<1>1. ASSUME losses = 0, dir[n] = q PROVE Accounts(q, n)
  BY <1>1 DEF Accounted
<1>2. ASSUME NEW r \in Runs, Run(r) PROVE Accounts(q, n)'
  <2>0. UNCHANGED losses /\ losses = 0
    BY <1>2 DEF Run, Start, Check, Create, CreateFails, Secure, WriteAll, WriteFails, Sync,
                Link, Unlink, Cleanup, SyncDirectory
  <2>1. CASE Start(r) \/ Check(r) \/ CreateFails(r) \/ Secure(r) \/ WriteAll(r)
             \/ WriteFails(r) \/ Sync(r)
    <3>1. /\ UNCHANGED <<dir, tmp, stranded>>
          /\ \E to : /\ pc' = [pc EXCEPT ![r] = to]
                    /\ \/ pc[r] \in HasFile \ {"unlink"} /\ to \in HasFile
                       \/ pc[r] \in {"idle", "check", "create"}
      BY <2>1 DEF Start, Check, CreateFails, Secure, WriteAll, WriteFails, Sync, Goto, HasFile
    <3>2. Accounts(q, n)
      BY <1>1, <2>0, <3>1
    <3> QED
      BY <1>0, <3>1, <3>2 DEF Accounts, HasFile
  <2>2. CASE Create(r)
    <3>1. CASE UNCHANGED <<pc, tmp, dir>>
      <4>1. UNCHANGED stranded
        BY <2>2 DEF Create
      <4> QED
        BY <1>1, <2>0, <3>1, <4>1 DEF Accounts
    <3>2. CASE /\ Goto(r, "create", "secure")
               /\ tmp' = [tmp EXCEPT ![r] = TempName(r)]
               /\ dir' = [dir EXCEPT ![TempName(r)] = r]
      <4>1. UNCHANGED stranded /\ tmp'[r] = TempName(r) /\ pc'[r] = "secure"
        BY <1>0, <2>2, <3>2 DEF Create, Goto
      <4>2. CASE n = TempName(r)
        BY <1>0, <3>2, <4>1, <4>2 DEF Accounts, HasFile
      <4>3. CASE n # TempName(r)
        BY <1>0, <1>1, <2>0, <3>2, <4>1, <4>3 DEF Accounts, HasFile, Goto
      <4> QED
        BY <4>2, <4>3
    <3> QED
      BY <2>2, <3>1, <3>2 DEF Create
  <2>3. CASE Link(r)
    <3>1. UNCHANGED <<tmp, stranded>>
      BY <2>3 DEF Link
    <3>2. CASE Goto(r, "link", "unlink") /\ dir' = [dir EXCEPT ![Target] = r]
      BY <1>0, <1>1, <2>0, <3>1, <3>2 DEF Accounts, HasFile, Goto
    <3>3. CASE Goto(r, "link", "cleanup") /\ UNCHANGED dir
      BY <1>0, <1>1, <2>0, <3>1, <3>3 DEF Accounts, HasFile, Goto
    <3> QED
      BY <2>3, <3>2, <3>3 DEF Link
  <2>4. CASE Unlink(r) \/ Cleanup(r)
    <3>1. /\ UNCHANGED tmp /\ stranded \subseteq stranded'
          /\ pc[r] \in {"unlink", "cleanup"} /\ tmp[r] \in Names
          /\ \E to \in {"syncdir", "cleanup", "failed"} :
               /\ pc' = [pc EXCEPT ![r] = to]
               /\ \/ /\ dir' = [dir EXCEPT ![tmp[r]] = None]
                     /\ pc[r] = "unlink" => to = "syncdir"
                  \/ UNCHANGED dir /\ r \in stranded'
      BY <2>4, OwnNames DEF Unlink, Cleanup, Goto, HasFile
    <3>2. Accounts(q, n) /\ (dir' = [dir EXCEPT ![tmp[r]] = None] => n # tmp[r])
      BY <1>0, <1>1, <2>0, <3>1
    <3> QED
      BY <1>0, <3>1, <3>2 DEF Accounts, HasFile
  <2>5. CASE SyncDirectory(r)
    <3>1. /\ UNCHANGED <<dir, tmp>> /\ stranded \subseteq stranded'
          /\ pc' = [pc EXCEPT ![r] = "done"] /\ pc[r] = "syncdir"
      BY <2>5 DEF SyncDirectory, Goto
    <3> QED
      BY <1>0, <1>1, <2>0, <3>1 DEF Accounts, HasFile
  <2> QED
    BY <1>2, <2>1, <2>2, <2>3, <2>4, <2>5 DEF Run
<1>3. ASSUME NEW r \in Runs, Kill(r) PROVE Accounts(q, n)'
  <2>1. UNCHANGED <<dir, tmp, stranded, losses>> /\ pc' = [pc EXCEPT ![r] = "dead"]
    BY <1>3 DEF Kill
  <2> QED
    BY <1>0, <1>1, <2>1 DEF Accounts, HasFile
<1>4. CASE WriteBack \/ UNCHANGED vars
  <2>1. UNCHANGED <<pc, dir, tmp, stranded, losses>>
    BY <1>4 DEF WriteBack, vars
  <2> QED
    BY <1>1, <2>1 DEF Accounts
<1>5. CASE PowerLoss
  <2>1. losses \in 0..MaxLosses /\ MaxLosses \in Nat /\ losses' = losses + 1
    BY <1>5, KeyFileAssumption DEF PowerLoss, IInv, TypeOK
  <2> QED
    BY <2>1
<1> QED
  BY <1>2, <1>3, <1>4, <1>5 DEF Next, Over

(* THEOREM: a failed run leaves no file under any name, its temporary name  *)
(* and the target included, unless a removal failed or the power did        *)
(* (write_private_key removes the temporary file on every error).           *)
THEOREM FailureIsClean == Spec => []FailureLeavesNothing
<1>1. Spec => []Accounted
  BY AccountedInit, AccountedNext, Invariant, PTL DEF Spec
<1>2. Accounted => FailureLeavesNothing
  BY DEF Accounted, Accounts, HasFile, FailureLeavesNothing
<1> QED
  BY <1>1, <1>2, PTL

-----------------------------------------------------------------------------
(* Listener: for any number of daemons at one address, any number of kills  *)
(* and of files put at the path.                                            *)
(*                                                                          *)
(* Listener::bind goes by the path three times after it has looked.  A      *)
(* served socket is restricted because a daemon serves only after a chmod   *)
(* of whatever is at the path, and because a TCP daemon never meets a       *)
(* socket there (Apart).  A file is safe because a start-up that goes on    *)
(* has seen a socket or nothing, so whoever is past the look while a file   *)
(* is there had looked before it came (Looked).                             *)

Objects == {Nothing, File} \cup {Socket(d, mode) : d \in Daemons, mode \in {"umask", "0660"}}
Changed == [type |-> "file", mode |-> "0660"]

Past == {d \in Daemons : phase[d] \in {"remove", "bind", "chmod"}}

Types == /\ kind \in {"unix", "tcp"}
         /\ path \in Objects \cup {Changed}
         /\ phase \in [Daemons -> {"down", "look", "remove", "bind", "chmod", "bindTcp", "serve"}]

(* A TCP port leaves the file system alone *)
Apart == /\ kind = "tcp" => /\ path.type # "socket"
                            /\ \A d \in Daemons : phase[d] \in {"down", "bindTcp", "serve"}
         /\ kind = "unix" => \A d \in Daemons : phase[d] # "bindTcp"

Looked == path.type = "file" => Past \subseteq unseen

ListenerInv == Types /\ Apart /\ Looked /\ ServedSocketIsRestricted

(* The objects, told apart *)
LEMMA Kinds ==
    /\ Nothing.type = "none" /\ File.type = "file" /\ Changed.type = "file"
    /\ \A d, mode : /\ Socket(d, mode).type = "socket" /\ Socket(d, mode).of = d
                    /\ Socket(d, mode).mode = mode
    /\ \A o \in Objects \cup {Changed} :
         \/ o = Nothing
         \/ o.type = "file" /\ [o EXCEPT !.mode = "0660"] = Changed
         \/ \E d \in Daemons : /\ o.type = "socket" /\ o.of = d
                               /\ [o EXCEPT !.mode = "0660"] = Socket(d, "0660")
  BY DEF Nothing, File, Changed, Socket, Objects

LEMMA ListenerInvInit == ListenerInit => ListenerInv
<1> SUFFICES ASSUME ListenerInit PROVE ListenerInv
  OBVIOUS
<1>1. path = Nothing /\ path.type = "none"
  BY Kinds DEF ListenerInit
<1>2. Types
  BY <1>1 DEF ListenerInit, Types, Objects
<1>3. Apart /\ Looked /\ ServedSocketIsRestricted
  BY <1>1 DEF ListenerInit, Apart, Looked, ServedSocketIsRestricted
<1> QED
  BY <1>2, <1>3 DEF ListenerInv

(* Steps that leave the path alone: nobody comes past the look while a file *)
(* is there, and nobody with a socket there begins to serve                 *)
LEMMA PathStays ==
    ASSUME ListenerInv, NEW d \in Daemons, NEW to, Go(d, to), UNCHANGED <<kind, path, unseen>>,
           to \in {"down", "look", "remove", "bind", "bindTcp", "serve"},
           to \in {"remove", "bind"} => path.type # "file",
           kind = "tcp" <=> to \in {"bindTcp", "serve"} \/ (to = "down" /\ kind = "tcp")
    PROVE  ListenerInv'
<1>1. Types /\ Apart /\ Looked /\ ServedSocketIsRestricted
  BY DEF ListenerInv
<1>2. phase' = [phase EXCEPT ![d] = to]
  BY DEF Go
<1>3. Types'
  BY <1>1, <1>2 DEF Types
<1>4. Apart'
  BY <1>1, <1>2 DEF Types, Apart
<1>5. Looked'
  BY <1>1, <1>2 DEF Types, Looked, Past
<1>6. ServedSocketIsRestricted'
  BY <1>1, <1>2 DEF Types, Apart, ServedSocketIsRestricted, SocketOf
<1> QED
  BY <1>3, <1>4, <1>5, <1>6 DEF ListenerInv

LEMMA Touches ==
    ASSUME ListenerInv, NEW d \in Daemons, Remove(d) \/ Bind(d) \/ Chmod(d)
    PROVE  ListenerInv'
<1>1. /\ Types /\ Apart /\ Looked /\ ServedSocketIsRestricted
      /\ UNCHANGED <<kind, unseen>> /\ kind = "unix"
  BY DEF ListenerInv, Remove, Bind, Chmod, Rest, Apart, Types
<1>2. CASE path' = path /\ phase' = [phase EXCEPT ![d] = "down"]
  BY <1>1, <1>2, PathStays DEF Go
<1>3. CASE path' = Nothing /\ phase' = [phase EXCEPT ![d] = "bind"]
  <2>1. path'.type = "none" /\ path' \in Objects
    BY <1>3, Kinds DEF Objects
  <2> QED
    BY <1>1, <1>3, <2>1 DEF ListenerInv, Types, Apart, Looked, ServedSocketIsRestricted, SocketOf
<1>4. CASE path' = Socket(d, "umask") /\ phase' = [phase EXCEPT ![d] = "chmod"]
  <2>1. path'.type = "socket" /\ path'.of = d /\ path' \in Objects
    BY <1>4, Kinds DEF Objects
  <2> QED
    BY <1>1, <1>4, <2>1 DEF ListenerInv, Types, Apart, Looked, ServedSocketIsRestricted, SocketOf
<1>5. CASE /\ path # Nothing /\ path' = [path EXCEPT !.mode = "0660"]
           /\ phase[d] = "chmod" /\ phase' = [phase EXCEPT ![d] = "serve"]
  <2>1. Past' \subseteq Past
    BY <1>1, <1>5 DEF Types, Past
  <2>2. CASE path.type = "file" /\ path' = Changed
    <3>1. path'.type = "file"
      BY <2>2, Kinds
    <3> QED
      BY <1>1, <1>5, <2>1, <2>2, <3>1
         DEF ListenerInv, Types, Apart, Looked, ServedSocketIsRestricted, SocketOf
  <2>3. CASE \E e \in Daemons : path' = Socket(e, "0660")
    <3>1. path'.type = "socket" /\ path'.mode = "0660" /\ path' \in Objects
      BY <2>3, Kinds DEF Objects
    <3> QED
      BY <1>1, <1>5, <3>1 DEF ListenerInv, Types, Apart, Looked, ServedSocketIsRestricted
  <2> QED
    BY <1>1, <1>5, <2>2, <2>3, Kinds DEF Types
<1> QED
  BY <1>2, <1>3, <1>4, <1>5 DEF Remove, Bind, Chmod, Go, Fail

LEMMA ListenerInvNext == ListenerInv /\ [ListenerNext]_listenerVars => ListenerInv'
<1> SUFFICES ASSUME ListenerInv, [ListenerNext]_listenerVars PROVE ListenerInv'
  OBVIOUS
<1>0. Types /\ Apart /\ Looked /\ ServedSocketIsRestricted
  BY DEF ListenerInv
<1>1. ASSUME NEW d \in Daemons, StartDaemon(d) PROVE ListenerInv'
  BY <1>0, <1>1, PathStays DEF StartDaemon, Rest, Types
<1>2. ASSUME NEW d \in Daemons, BindTcp(d) PROVE ListenerInv'
  <2>1. kind = "tcp"
    BY <1>0, <1>2 DEF BindTcp, Types, Apart
  <2> QED
    BY <1>0, <1>2, <2>1, PathStays DEF BindTcp, Fail, Rest, Types
<1>3. ASSUME NEW d \in Daemons, Look(d) PROVE ListenerInv'
  <2>1. kind = "unix" /\ path.type \in {"none", "file", "socket"}
    BY <1>0, <1>3, Kinds DEF Look, Types, Apart
  <2> QED
    BY <1>0, <1>3, <2>1, PathStays DEF Look, Fail, Rest, Types
<1>4. ASSUME NEW d \in Daemons, KillDaemon(d) PROVE ListenerInv'
  BY <1>0, <1>4, PathStays DEF KillDaemon, Fail, Types
<1>5. CASE CreateFile
  <2>1. /\ path' = File /\ path'.type = "file" /\ path' \in Objects /\ unseen' = Past
        /\ UNCHANGED <<kind, phase>>
    BY <1>5, Kinds DEF CreateFile, Objects, Past
  <2> QED
    BY <1>0, <2>1 DEF ListenerInv, Types, Apart, Looked, Past, ServedSocketIsRestricted, SocketOf
<1>6. CASE Clear
  <2>1. path' = Nothing /\ path'.type = "none" /\ path' \in Objects /\ UNCHANGED <<kind, phase>>
    BY <1>6, Kinds DEF Clear, Rest, Objects
  <2> QED
    BY <1>0, <2>1 DEF ListenerInv, Types, Apart, Looked, ServedSocketIsRestricted, SocketOf
<1>7. CASE UNCHANGED listenerVars
  BY <1>0, <1>7
     DEF listenerVars, ListenerInv, Types, Apart, Looked, Past, ServedSocketIsRestricted, SocketOf
<1> QED
  BY <1>1, <1>2, <1>3, <1>4, <1>5, <1>6, <1>7, Touches DEF ListenerNext, Daemon, Serving

LEMMA ListenerInvariant == ListenerSpec => []ListenerInv
  BY ListenerInvInit, ListenerInvNext, PTL DEF ListenerSpec

(* THEOREM: clients never meet a served socket with the mode of the umask,  *)
(* although set_permissions goes by a path that rivals may have rebound.    *)
THEOREM SocketIsRestricted == ListenerSpec => []ServedSocketIsRestricted
<1>1. ListenerInv => ServedSocketIsRestricted
  BY DEF ListenerInv
<1> QED
  BY <1>1, ListenerInvariant, PTL

(* THEOREM: remove_file and set_permissions never touch a file that was     *)
(* there when the start-up looked at the path with symlink_metadata.        *)
THEOREM FilesAreSpared == ListenerSpec => FilesSurvive
<1> DEFINE Spared == path.type = "file" /\ path' # path =>
              UNCHANGED phase \/ \E d \in unseen : phase[d] \in {"remove", "chmod"} /\ phase'[d] # phase[d]
<1>1. ListenerInv /\ [ListenerNext]_listenerVars => [Spared]_listenerVars
  <2> SUFFICES ASSUME ListenerInv, ListenerNext, path.type = "file", path' # path
               PROVE  UNCHANGED phase \/ \E d \in unseen : phase[d] \in {"remove", "chmod"}
                                                        /\ phase'[d] # phase[d]
    BY DEF listenerVars
  <2>0. Types /\ Looked /\ path # Nothing
    BY Kinds DEF ListenerInv
  <2>1. ASSUME NEW d \in Daemons, Daemon(d) \/ KillDaemon(d)
        PROVE  \E e \in unseen : phase[e] \in {"remove", "chmod"} /\ phase'[e] # phase[e]
    <3>1. Remove(d) \/ Chmod(d)
      BY <2>0, <2>1 DEF Daemon, StartDaemon, BindTcp, Look, Bind, KillDaemon
    <3>2. d \in unseen /\ phase[d] \in {"remove", "chmod"}
      BY <2>0, <3>1 DEF Remove, Chmod, Looked, Past
    <3>3. phase'[d] # phase[d]
      BY <2>0, <3>1 DEF Remove, Chmod, Go, Fail, Types
    <3> QED
      BY <3>2, <3>3
  <2>2. CASE CreateFile \/ Clear \/ Serving
    BY <2>0, <2>2 DEF CreateFile, Clear, Serving, listenerVars
  <2> QED
    BY <2>1, <2>2 DEF ListenerNext
<1> QED
  BY <1>1, ListenerInvariant, PTL DEF ListenerSpec, FilesSurvive
=============================================================================
