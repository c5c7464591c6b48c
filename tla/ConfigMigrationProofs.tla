------------------------ MODULE ConfigMigrationProofs ------------------------
(***************************************************************************)
(* Proofs about ConfigMigration for any processes, layers, documents and   *)
(* number of rewrites, failures, kills and power losses.                   *)
(*                                                                         *)
(* ControlOK and DataOK together are TypeOK: the lock of a file says who   *)
(* migrates it. BackupInv says how far the backup is at each stage of the  *)
(* lock's holder; with it no file is migrated before what a power loss may *)
(* leave of its backup is the backup.                                      *)
(*                                                                         *)
(* ViewKept rests on DurableInv (a legacy file is all a power loss may     *)
(* leave), StageInv (what a process has seen at each stage) and, while the *)
(* history is undisturbed, ViewInv: each layer has one original, and what  *)
(* is migrated was proven, or its stacks are in no other layer and a file  *)
(* was migrated apart from the others before.                              *)
(***************************************************************************)
EXTENDS ConfigMigration, TLAPS

Place == Ended \cup Holding \cup {"start", "preflight", "check", "lock", "reload", "edit"}

ControlOK ==
    /\ lock \in [Layers -> Procs \cup {None}]
    /\ cmd \in [Procs -> Commands]
    /\ pc \in [Procs -> Place]
    /\ \A l \in Layers : \A p \in Procs : lock[l] = p <=> pc[p] \in Holding /\ Own(p) = l

DataOK ==
    /\ file \in [Layers -> Contents] /\ backup \in [Layers -> Docs \cup {None, Partial}]
    /\ fdur \in [Layers -> SUBSET Contents] /\ bdur \in [Layers -> SUBSET (Docs \cup {None, Partial})]
    /\ todo \in [Procs -> SUBSET Layers]
    /\ snap \in [Procs -> [Layers -> Contents \cup {None}]]
    /\ edits \in 0 .. MaxEdits /\ troubles \in 0 .. MaxTroubles
    /\ unsynced \subseteq Layers /\ killed \in BOOLEAN
    /\ apart \in BOOLEAN /\ disturbed \in BOOLEAN

LEMMA TypeSplit == TypeOK <=> ControlOK /\ DataOK
BY DEF TypeOK, ControlOK, DataOK, Place

LEMMA Owned == ControlOK => \A p \in Procs : Own(p) \in Layers
BY MigrationAssumption DEF ControlOK, Own, Command

LEMMA Documents ==
    /\ None \notin Docs /\ Partial \notin Docs /\ Partial # None
    /\ None \notin Contents /\ None \notin Procs
    /\ \A d \in Docs : Migrated(d) \in Contents /\ Legacy(d) \in Contents
    /\ \A c \in Contents : \A d \in Docs : [c EXCEPT !.doc = Convert(d)] \in Contents
<1>1. None \notin Docs /\ Partial \notin Docs /\ Partial # None /\ None \notin Contents /\ None \notin Procs
  BY MigrationAssumption
<1>2. \A d \in Docs : Convert(d) \in Docs
  BY MigrationAssumption
<1>3. \A d \in Docs : Migrated(d) \in Contents /\ Legacy(d) \in Contents
  BY <1>2 DEF Contents, Migrated, Legacy
<1>4. \A c \in Contents : \A d \in Docs : [c EXCEPT !.doc = Convert(d)] \in Contents
  BY <1>2 DEF Contents
<1> QED BY <1>1, <1>3, <1>4

-----------------------------------------------------------------------------
(***************************************************************************)
(* Type correctness.                                                       *)
(***************************************************************************)
\* A process goes on with the lock it has, or without one.
LEMMA GoesOn ==
    ASSUME ControlOK, NEW p \in Procs, NEW to \in Place, Go(p, to),
           pc[p] \in Holding <=> to \in Holding, UNCHANGED <<lock, cmd>>
    PROVE  ControlOK'
BY DEF ControlOK, Go, Own

\* A process ends its migration, or ends.
LEMMA LetsGo ==
    ASSUME ControlOK, NEW p \in Procs, NEW to \in Place \ Holding, Go(p, to), Unlock(p), UNCHANGED cmd
    PROVE  ControlOK'
<1>1. lock' \in [Layers -> Procs \cup {None}] /\ pc' \in [Procs -> Place]
  BY DEF ControlOK, Go, Unlock
<1>2. ASSUME NEW l \in Layers, NEW q \in Procs
      PROVE  lock'[l] = q <=> pc'[q] \in Holding /\ cmd[q].layer = l
  <2>1. CASE q = p
    BY <2>1, Documents DEF ControlOK, Go, Unlock
  <2>2. CASE q # p
    BY <2>2, Documents DEF ControlOK, Go, Unlock, Own
  <2> QED BY <2>1, <2>2
<1> QED BY <1>1, <1>2 DEF ControlOK, Own

LEMMA Finishes ==
    ASSUME ControlOK, NEW p \in Procs, NEW to \in Place \ Holding, Finish(p, to)
    PROVE  ControlOK' /\ UNCHANGED <<cmd, todo, snap>>
BY LetsGo DEF Finish

LEMMA ControlNext == ControlOK /\ [Next]_vars => ControlOK'
<1> SUFFICES ASSUME ControlOK, [Next]_vars PROVE ControlOK'
  OBVIOUS
<1> USE DEF Place, Ended, Holding, InBackup
<1>1. ASSUME NEW p \in Procs, Work(p) PROVE ControlOK'
  <2>1. CASE Start(p)
    <3>1. \E to \in {"preflight", "edit", "lock", "loaded"} : Go(p, to)
      <4>1. cmd[p].op \in {"load", "set", "alone", "explicit"}
        BY MigrationAssumption DEF ControlOK, Command
      <4>2. CASE cmd[p].op = "load" \/ (cmd[p].op = "set" /\ IsLegacy(file[Own(p)]))
        BY <2>1, <4>2 DEF Start
      <4>3. CASE cmd[p].op = "set" /\ ~IsLegacy(file[Own(p)])
        BY <2>1, <4>3 DEF Start
      <4>4. CASE cmd[p].op \in {"alone", "explicit"}
        BY <2>1, <4>4 DEF Start
      <4> QED BY <4>1, <4>2, <4>3, <4>4
    <3>2. pc[p] = "start" /\ UNCHANGED <<lock, cmd>>
      BY <2>1 DEF Start
    <3> QED BY <3>1, <3>2, GoesOn
  <2>2. CASE Look(p)
    <3>1. Go(p, "preflight") \/ \E v \in {"check", "edit", "lock", "failed"} : Go(p, v)
      BY <2>2 DEF Look, Verdict, Go, ControlOK
    <3> QED BY <2>2, <3>1, GoesOn DEF Look
  <2>3. CASE Check(p)
    <3>1. \E to \in {"check", "failed", "loaded"} : Go(p, to)
      BY <2>3 DEF Check, Go, ControlOK
    <3> QED BY <2>3, <3>1, GoesOn DEF Check
  <2>4. CASE Lock(p)
    <3>1. /\ lock[Own(p)] = None /\ lock' = [lock EXCEPT ![Own(p)] = p]
          /\ pc' = [pc EXCEPT ![p] = "reread"] /\ pc[p] = "lock" /\ cmd' = cmd
      BY <2>4 DEF Lock, Go
    <3>2. ASSUME NEW l \in Layers, NEW q \in Procs
          PROVE  lock'[l] = q <=> pc'[q] \in Holding /\ cmd[q].layer = l
      <4>1. lock[l] = q <=> pc[q] \in Holding /\ cmd[q].layer = l
        BY DEF ControlOK, Own
      <4>2. \A r \in Procs : pc[r] \in Holding => cmd[r].layer # Own(p)
        BY <3>1, Owned, Documents DEF ControlOK, Own
      <4>3. pc'[p] = "reread" /\ (q # p => pc'[q] = pc[q])
        BY <3>1 DEF ControlOK
      <4>4. lock'[l] = IF l = Own(p) THEN p ELSE lock[l]
        BY <3>1 DEF ControlOK
      <4>5. CASE q = p
        <5>1. pc'[q] \in Holding /\ pc[q] \notin Holding
          BY <3>1, <4>3, <4>5
        <5>2. lock[l] # p
          BY <4>1, <4>5, <5>1
        <5> HIDE DEF Holding
        <5> QED BY <4>4, <4>5, <5>1, <5>2 DEF Own
      <4>6. CASE q # p
        <5> HIDE DEF Holding
        <5> QED BY <4>1, <4>2, <4>3, <4>4, <4>6
      <4> QED BY <4>5, <4>6
    <3>3. lock' \in [Layers -> Procs \cup {None}] /\ pc' \in [Procs -> Place] /\ cmd' \in [Procs -> Commands]
      BY <3>1, Owned DEF ControlOK
    <3> HIDE DEF Holding, Place
    <3> QED BY <3>1, <3>2, <3>3 DEF ControlOK, Own
  <2>5. CASE LockTimesOut(p)
    BY <2>5, Finishes DEF LockTimesOut
  <2>6. CASE Reread(p)
    <3>1. \/ pc[p] = "reread" /\ Go(p, "backup") /\ UNCHANGED <<lock, cmd>>
          \/ Finish(p, "failed") \/ Finish(p, "loaded")
      BY <2>6 DEF Reread
    <3> QED BY <3>1, GoesOn, Finishes
  <2>7. CASE Backup(p)
    <3>1. \/ \E to \in {"write", "validate"} : Go(p, to) /\ UNCHANGED <<lock, cmd>>
          \/ Finish(p, "deferred")
      BY <2>7 DEF Backup
    <3> QED BY <2>7, <3>1, GoesOn, Finishes DEF Backup
  <2>8. CASE WriteBackup(p) \/ SyncBackup(p) \/ SyncEntry(p)
    BY <2>8, GoesOn DEF WriteBackup, SyncBackup, SyncEntry
  <2>9. CASE Validate(p)
    <3>1. (Go(p, "rename") /\ UNCHANGED <<lock, cmd>>) \/ Finish(p, "deferred")
      BY <2>9 DEF Validate
    <3> QED BY <2>9, <3>1, GoesOn, Finishes DEF Validate
  <2>10. CASE Rename(p)
    BY <2>10, GoesOn DEF Rename
  <2>11. CASE Settle(p)
    <3>1. \E to \in {"reload", "loaded"} : Finish(p, to)
      BY <2>11 DEF Settle
    <3> QED BY <3>1, Finishes
  <2>12. CASE Reload(p)
    <3>1. \E to \in {"failed", "edit"} : Go(p, to)
      BY <2>12 DEF Reload
    <3> QED BY <2>12, <3>1, GoesOn DEF Reload
  <2>13. CASE Edit(p)
    <3>1. \E to \in {"failed", "loaded"} : Finish(p, to)
      BY <2>13 DEF Edit
    <3> QED BY <3>1, Finishes
  <2>14. CASE Again(p)
    BY <2>14, GoesOn DEF Again
  <2> QED
    BY <1>1, <2>1, <2>2, <2>3, <2>4, <2>5, <2>6, <2>7, <2>8, <2>9, <2>10, <2>11, <2>12, <2>13, <2>14 DEF Work
<1>2. ASSUME NEW p \in Procs, Fail(p) PROVE ControlOK'
  <2>1. CASE SecretsFail(p) \/ BackupFails(p) \/ WriteFails(p)
    BY <2>1, Finishes DEF SecretsFail, BackupFails, WriteFails
  <2>2. CASE Crash(p)
    BY <2>2, LetsGo DEF Crash
  <2> QED BY <1>2, <2>1, <2>2 DEF Fail
<1>3. ASSUME NEW l \in Layers, OldWrite(l) PROVE ControlOK'
  BY <1>3 DEF OldWrite, procs, ControlOK, Own
<1>4. CASE PowerLoss
  BY <1>4, Documents DEF PowerLoss, ControlOK, Own
<1>5. CASE UNCHANGED vars
  BY <1>5 DEF vars, procs, ControlOK, Own
<1> QED BY <1>1, <1>2, <1>3, <1>4, <1>5 DEF Next

\* What a process sees of a file has the type of a file.
LEMMA Sees ==
    ASSUME DataOK, NEW p \in Procs, NEW l, See(p, l)
    PROVE  snap' \in [Procs -> [Layers -> Contents \cup {None}]]
<1>1. \A k \in Layers : file[k] \in Contents
  BY DEF DataOK
<1>2. [snap[p] EXCEPT ![l] = file[l]] \in [Layers -> Contents \cup {None}]
  <2>1. snap[p] \in [Layers -> Contents \cup {None}]
    BY DEF DataOK
  <2>2. CASE l \in Layers
    BY <1>1, <2>1, <2>2
  <2>3. CASE l \notin Layers
    BY <2>1, <2>3
  <2> QED BY <2>2, <2>3
<1> QED BY <1>2 DEF See, DataOK

\* The document of the snapshot, once the file was read under the lock.
Reads == {"backup", "write", "sync", "entry", "validate", "rename"}
SeenOK == \A p \in Procs : pc[p] \in Reads => snap[p][Own(p)] \in Contents

LEMMA Seen ==
    ASSUME ControlOK, SeenOK, NEW p \in Procs, pc[p] \in Reads
    PROVE  snap[p][Own(p)] \in Contents /\ snap[p][Own(p)].doc \in Docs
BY DEF SeenOK, Contents

LEMMA DataNext == ControlOK /\ DataOK /\ SeenOK /\ [Next]_vars => DataOK'
<1> SUFFICES ASSUME ControlOK, DataOK, SeenOK, [Next]_vars PROVE DataOK'
  OBVIOUS
<1>b. ASSUME NEW kind, Trouble(kind) PROVE troubles' \in 0 .. MaxTroubles
  BY <1>b, MigrationAssumption DEF Trouble, DataOK
<1>c. \A p \in Procs : Own(p) \in Layers
  BY Owned
<1>d. ASSUME NEW p \in Procs, NEW b \in Docs \cup {None, Partial},
             NEW durable \in SUBSET (Docs \cup {None, Partial}), Keep(Own(p), b, durable)
      PROVE  /\ backup' \in [Layers -> Docs \cup {None, Partial}]
             /\ bdur' \in [Layers -> SUBSET (Docs \cup {None, Partial})]
  BY <1>c, <1>d DEF Keep, DataOK
<1>e. \A l \in Layers : EntrySynced(l) \subseteq Docs \cup {None, Partial}
  BY DEF EntrySynced, DataOK
<1>1. ASSUME NEW p \in Procs, Work(p) PROVE DataOK'
  <2>1. CASE Start(p)
    <3>1. See(p, Own(p)) \/ UNCHANGED snap
      <4>1. cmd[p].op \in {"load", "set", "alone", "explicit"}
        BY MigrationAssumption DEF ControlOK, Command
      <4> QED BY <2>1, <4>1 DEF Start
    <3>2. todo' = [todo EXCEPT ![p] = Layers] \/ UNCHANGED todo
      <4>1. cmd[p].op \in {"load", "set", "alone", "explicit"}
        BY MigrationAssumption DEF ControlOK, Command
      <4> QED BY <2>1, <4>1 DEF Start
    <3>3. snap' \in [Procs -> [Layers -> Contents \cup {None}]] /\ todo' \in [Procs -> SUBSET Layers]
      BY <3>1, <3>2, Sees DEF DataOK
    <3>4. UNCHANGED <<files, marks>>
      BY <2>1 DEF Start
    <3> QED BY <3>3, <3>4 DEF DataOK, files, marks
  <2>2. CASE Look(p)
    <3>1. See(p, Min(todo[p])) /\ UNCHANGED <<files, marks>>
      BY <2>2 DEF Look
    <3>2. todo' \in [Procs -> SUBSET Layers]
      <4>1. \E S \in SUBSET Layers : todo' = [todo EXCEPT ![p] = S]
        <5>1. \A l : todo[p] \ {l} \in SUBSET Layers
          BY DEF DataOK
        <5> QED BY <2>2, <5>1 DEF Look
      <4> QED BY <4>1 DEF DataOK
    <3>3. snap' \in [Procs -> [Layers -> Contents \cup {None}]]
      BY <3>1, Sees
    <3> QED BY <3>1, <3>2, <3>3 DEF DataOK, files, marks
  <2>3. CASE Check(p)
    <3>1. \E l : todo' = [todo EXCEPT ![p] = @ \ {l}]
      BY <2>3 DEF Check
    <3> QED BY <2>3, <3>1 DEF Check, DataOK, files, marks
  <2>4. CASE Lock(p) \/ LockTimesOut(p) \/ Validate(p)
    BY <2>4 DEF Lock, LockTimesOut, Validate, Finish, DataOK, files, marks
  <2>5. CASE Reread(p)
    <3>1. See(p, Own(p)) \/ UNCHANGED snap
      BY <2>5 DEF Reread, Finish
    <3>2. UNCHANGED <<todo, files, marks>>
      BY <2>5 DEF Reread, Finish
    <3> QED BY <3>1, <3>2, Sees DEF DataOK, files, marks
  <2>6. CASE Backup(p)
    <3>1. \/ UNCHANGED <<backup, bdur>>
          \/ Keep(Own(p), Partial, bdur[Own(p)] \cup {Partial})
      BY <2>6 DEF Backup
    <3>2. bdur[Own(p)] \cup {Partial} \subseteq Docs \cup {None, Partial}
      BY <1>c DEF DataOK
    <3>3. /\ backup' \in [Layers -> Docs \cup {None, Partial}]
          /\ bdur' \in [Layers -> SUBSET (Docs \cup {None, Partial})]
      BY <1>d, <3>1, <3>2 DEF DataOK
    <3>4. unsynced' \subseteq Layers
      BY <1>c, <2>6 DEF Backup, DataOK
    <3>5. UNCHANGED <<todo, snap, file, fdur, edits, troubles, killed, apart, disturbed>>
      BY <2>6 DEF Backup, Finish
    <3> QED BY <3>3, <3>4, <3>5 DEF DataOK
  <2>7. CASE WriteBackup(p) \/ SyncBackup(p) \/ SyncEntry(p)
    <3> DEFINE l == Own(p)
    <3>1. PICK b \in Docs \cup {None, Partial}, durable \in SUBSET (Docs \cup {None, Partial}) :
            Keep(l, b, durable)
      <4>1. CASE WriteBackup(p)
        <5>1. snap[p][l].doc \in Docs
          BY <4>1, Seen DEF WriteBackup, Reads
        <5>2. bdur[l] \cup {snap[p][l].doc} \subseteq Docs \cup {None, Partial}
          BY <1>c, <5>1 DEF DataOK
        <5> QED BY <4>1, <5>1, <5>2 DEF WriteBackup
      <4>2. CASE SyncBackup(p) \/ SyncEntry(p)
        <5>1. backup[l] \in Docs \cup {None, Partial} /\ bdur[l] \ {Partial} \subseteq Docs \cup {None, Partial}
          BY <1>c DEF DataOK
        <5> QED BY <1>c, <1>e, <4>2, <5>1 DEF SyncBackup, SyncEntry
      <4> QED BY <2>7, <4>1, <4>2
    <3>2. UNCHANGED <<todo, snap, file, fdur, marks>>
      BY <2>7 DEF WriteBackup, SyncBackup, SyncEntry
    <3> QED BY <1>d, <3>1, <3>2 DEF DataOK, marks
  <2>8. CASE Rename(p)
    <3> DEFINE l == Own(p)
               c == Migrated(snap[p][l].doc)
    <3>1. c \in Contents
      BY <2>8, Seen, Documents DEF Rename, Reads
    <3>2. file' = [file EXCEPT ![l] = c] /\ fdur' = [fdur EXCEPT ![l] = @ \cup {c}]
      BY <2>8 DEF Rename
    <3> HIDE DEF c
    <3>3. file' \in [Layers -> Contents] /\ fdur' \in [Layers -> SUBSET Contents]
      BY <3>1, <3>2 DEF DataOK
    <3>4. disturbed' \in BOOLEAN /\ apart' \in BOOLEAN
      BY <2>8 DEF Rename, DataOK
    <3>5. UNCHANGED <<backup, bdur, todo, snap, edits, troubles, unsynced, killed>>
      BY <2>8 DEF Rename
    <3> QED BY <3>3, <3>4, <3>5 DEF DataOK
  <2>9. CASE Settle(p)
    <3>1. fdur' \in [Layers -> SUBSET Contents] /\ bdur' \in [Layers -> SUBSET (Docs \cup {None, Partial})]
      BY <1>c, <1>e, <2>9 DEF Settle, DataOK
    <3>2. troubles' \in 0 .. MaxTroubles
      BY <1>b, <2>9 DEF Settle, DataOK
    <3>3. UNCHANGED <<file, backup, todo, snap, edits, unsynced, killed, apart, disturbed>>
      BY <2>9 DEF Settle, Finish
    <3> QED BY <3>1, <3>2, <3>3 DEF DataOK
  <2>10. CASE Reload(p)
    BY <2>10, Sees DEF Reload, DataOK, files, marks
  <2>11. CASE Edit(p)
    <3>1. UNCHANGED <<backup, bdur, todo, snap, troubles, unsynced, killed, apart>> /\ disturbed' \in BOOLEAN
      BY <2>11 DEF Edit, Finish, DataOK
    <3>2. CASE UNCHANGED <<file, fdur, edits>>
      BY <3>1, <3>2 DEF DataOK
    <3>3. CASE ~UNCHANGED <<file, fdur, edits>>
      <4> DEFINE l == Own(p)
      <4>1. PICK d \in Docs : file' = [file EXCEPT ![l].doc = Convert(d)] /\ fdur' = [fdur EXCEPT ![l] = {file'[l]}]
        BY <2>11, <3>3 DEF Edit
      <4>2. [file[l] EXCEPT !.doc = Convert(d)] \in Contents
        BY <1>c, Documents DEF DataOK
      <4>3. edits' \in 0 .. MaxEdits
        <5>1. edits < MaxEdits /\ edits' = edits + 1
          BY <2>11, <3>3 DEF Edit
        <5> QED BY <5>1, MigrationAssumption DEF DataOK
      <4>4. file' \in [Layers -> Contents] /\ fdur' \in [Layers -> SUBSET Contents]
        BY <1>c, <4>1, <4>2 DEF DataOK
      <4> QED BY <3>1, <4>3, <4>4 DEF DataOK
    <3> QED BY <3>2, <3>3
  <2>12. CASE Again(p)
    BY <2>12 DEF Again, DataOK, files, marks
  <2> QED
    BY <1>1, <2>1, <2>2, <2>3, <2>4, <2>5, <2>6, <2>7, <2>8, <2>9, <2>10, <2>11, <2>12 DEF Work
<1>2. ASSUME NEW p \in Procs, Fail(p) PROVE DataOK'
  <2>1. CASE SecretsFail(p) \/ WriteFails(p) \/ Crash(p)
    <3>1. \E kind : Trouble(kind)
      BY <2>1 DEF SecretsFail, WriteFails, Crash
    <3>2. troubles' \in 0 .. MaxTroubles
      BY <1>b, <3>1
    <3>3. killed' \in BOOLEAN
      BY <2>1 DEF SecretsFail, WriteFails, Crash, DataOK
    <3>4. UNCHANGED <<files, todo, snap, edits, unsynced, apart, disturbed>>
      BY <2>1 DEF SecretsFail, WriteFails, Crash, Finish
    <3> QED BY <3>2, <3>3, <3>4 DEF DataOK, files
  <2>2. CASE BackupFails(p)
    <3>1. troubles' \in 0 .. MaxTroubles /\ killed' \in BOOLEAN
      BY <1>b, <2>2 DEF BackupFails, DataOK
    <3>2. bdur[Own(p)] \cup {None} \in SUBSET (Docs \cup {None, Partial})
      BY <1>c DEF DataOK
    <3>3. /\ backup' \in [Layers -> Docs \cup {None, Partial}]
          /\ bdur' \in [Layers -> SUBSET (Docs \cup {None, Partial})]
      <4>1. Keep(Own(p), None, bdur[Own(p)] \cup {None}) \/ UNCHANGED <<backup, bdur>>
        BY <2>2 DEF BackupFails
      <4> QED BY <1>d, <3>2, <4>1 DEF DataOK
    <3>4. UNCHANGED <<file, fdur, todo, snap, edits, unsynced, apart, disturbed>>
      BY <2>2 DEF BackupFails, Finish
    <3> QED BY <3>1, <3>3, <3>4 DEF DataOK
  <2> QED BY <1>2, <2>1, <2>2 DEF Fail
<1>3. ASSUME NEW l \in Layers, OldWrite(l) PROVE DataOK'
  <2>1. PICK d \in Docs : file' = [file EXCEPT ![l] = Legacy(d)]
    BY <1>3 DEF OldWrite
  <2>2. fdur' = [fdur EXCEPT ![l] = {file'[l]}]
    BY <1>3 DEF OldWrite
  <2>3. file' \in [Layers -> Contents]
    BY <2>1, Documents DEF DataOK
  <2>4. fdur' \in [Layers -> SUBSET Contents]
    BY <2>2, <2>3 DEF DataOK
  <2>5. edits' \in 0 .. MaxEdits /\ disturbed' \in BOOLEAN
    BY <1>3, MigrationAssumption DEF OldWrite, DataOK
  <2>6. UNCHANGED <<backup, bdur, todo, snap, troubles, unsynced, killed, apart>>
    BY <1>3 DEF OldWrite, procs
  <2> QED BY <2>3, <2>4, <2>5, <2>6 DEF DataOK
<1>4. CASE PowerLoss
  <2>1. file' \in [Layers -> Contents] /\ backup' \in [Layers -> Docs \cup {None, Partial}]
    <3>1. file' \in [Layers -> UNION {fdur[l] : l \in Layers}]
      BY <1>4 DEF PowerLoss
    <3>2. UNION {fdur[l] : l \in Layers} \subseteq Contents
      BY DEF DataOK
    <3>3. backup' \in [Layers -> UNION {bdur[l] : l \in Layers}]
      BY <1>4 DEF PowerLoss
    <3>4. UNION {bdur[l] : l \in Layers} \subseteq Docs \cup {None, Partial}
      BY DEF DataOK
    <3> QED BY <3>1, <3>2, <3>3, <3>4
  <2>2. fdur' = [l \in Layers |-> {file'[l]}] /\ bdur' = [l \in Layers |-> {backup'[l]}]
    BY <1>4 DEF PowerLoss
  <2>3. fdur' \in [Layers -> SUBSET Contents] /\ bdur' \in [Layers -> SUBSET (Docs \cup {None, Partial})]
    BY <2>1, <2>2
  <2>4. troubles' \in 0 .. MaxTroubles /\ killed' \in BOOLEAN
    BY <1>4, <1>b DEF PowerLoss
  <2>5. UNCHANGED <<todo, snap, edits, unsynced, apart, disturbed>>
    BY <1>4 DEF PowerLoss
  <2> QED BY <2>1, <2>3, <2>4, <2>5 DEF DataOK
<1>5. CASE UNCHANGED vars
  BY <1>5 DEF vars, procs, files, marks, DataOK
<1> QED BY <1>1, <1>2, <1>3, <1>4, <1>5 DEF Next

LEMMA SeenNext == ControlOK /\ DataOK /\ SeenOK /\ [Next]_vars => SeenOK'
<1> SUFFICES ASSUME ControlOK, DataOK, SeenOK, [Next]_vars PROVE SeenOK'
  OBVIOUS
<1> USE DEF Reads
<1>a. \A p \in Procs : Own(p) \in Layers
  BY Owned
<1>b. ASSUME UNCHANGED cmd,
             \A q \in Procs : pc'[q] \in Reads => pc[q] \in Reads /\ snap'[q] = snap[q]
      PROVE  SeenOK'
  BY <1>b DEF SeenOK, Own
<1>c. ASSUME NEW p \in Procs, NEW to, Go(p, to), UNCHANGED <<cmd, snap>>, to \in Reads => pc[p] \in Reads
      PROVE  SeenOK'
  BY <1>b, <1>c DEF Go, ControlOK
<1>d. ASSUME NEW p \in Procs, NEW to, to \notin Reads, Go(p, to), UNCHANGED cmd,
             \A q \in Procs \ {p} : snap'[q] = snap[q]
      PROVE  SeenOK'
  BY <1>b, <1>d DEF Go, ControlOK
<1>e. ASSUME NEW p \in Procs, NEW l, See(p, l) PROVE \A q \in Procs \ {p} : snap'[q] = snap[q]
  BY <1>e DEF See, DataOK
<1>1. ASSUME NEW p \in Procs, Work(p) PROVE SeenOK'
  <2>1. CASE Start(p)
    <3>1. cmd[p].op \in {"load", "set", "alone", "explicit"}
      BY MigrationAssumption DEF ControlOK, Command
    <3>2. \E to \in {"preflight", "edit", "lock", "loaded"} : Go(p, to)
      BY <2>1, <3>1 DEF Start
    <3>3. (See(p, Own(p)) \/ UNCHANGED snap) /\ UNCHANGED cmd
      BY <2>1, <3>1 DEF Start
    <3> QED BY <3>2, <3>3, <1>d, <1>e
  <2>2. CASE Look(p)
    <3>1. See(p, Min(todo[p])) /\ UNCHANGED cmd
      BY <2>2 DEF Look
    <3>2. \E to \in {"preflight", "check", "edit", "lock", "failed"} : Go(p, to)
      BY <2>2 DEF Look, Verdict, Go, ControlOK
    <3> QED BY <3>1, <3>2, <1>d, <1>e
  <2>3. CASE Check(p)
    <3>1. \E to \in {"check", "failed", "loaded"} : Go(p, to)
      BY <2>3 DEF Check, Go, ControlOK
    <3> QED BY <2>3, <3>1, <1>c DEF Check
  <2>4. CASE Reread(p)
    <3>1. CASE Finish(p, "failed") \/ Finish(p, "loaded")
      BY <3>1, <1>c DEF Finish
    <3>2. CASE ~(Finish(p, "failed") \/ Finish(p, "loaded"))
      <4>1. Go(p, "backup") /\ See(p, Own(p)) /\ UNCHANGED cmd
        BY <2>4, <3>2 DEF Reread
      <4>2. snap'[p][Own(p)] = file[Own(p)] /\ file[Own(p)] \in Contents
        BY <1>a, <4>1 DEF See, DataOK
      <4>3. \A q \in Procs \ {p} : snap'[q] = snap[q] /\ pc'[q] = pc[q]
        BY <1>e, <4>1 DEF Go, ControlOK
      <4> QED BY <4>1, <4>2, <4>3 DEF SeenOK, Own
    <3> QED BY <3>1, <3>2
  <2>5. CASE Lock(p) \/ LockTimesOut(p) \/ Validate(p) \/ WriteBackup(p) \/ SyncBackup(p) \/ SyncEntry(p)
               \/ Rename(p)
    BY <2>5, <1>c DEF Lock, LockTimesOut, Validate, WriteBackup, SyncBackup, SyncEntry, Rename, Finish
  <2>6. CASE Backup(p)
    <3>1. \E to \in {"write", "validate", "deferred"} : Go(p, to)
      BY <2>6 DEF Backup, Finish
    <3>2. pc[p] \in Reads /\ UNCHANGED <<cmd, snap>>
      BY <2>6 DEF Backup, Finish
    <3> QED BY <3>1, <3>2, <1>c
  <2>7. CASE Settle(p) \/ Edit(p)
    <3>1. \E to \in {"reload", "loaded", "failed"} : Finish(p, to)
      BY <2>7 DEF Settle, Edit
    <3> QED BY <3>1, <1>c DEF Finish
  <2>8. CASE Reload(p)
    <3>1. \E to \in {"failed", "edit"} : Go(p, to)
      BY <2>8 DEF Reload
    <3>2. See(p, Own(p)) /\ UNCHANGED cmd
      BY <2>8 DEF Reload
    <3> QED BY <3>1, <3>2, <1>d, <1>e
  <2>9. CASE Again(p)
    <3>1. \A q \in Procs \ {p} : snap'[q] = snap[q]
      BY <2>9 DEF Again, DataOK
    <3> QED BY <2>9, <3>1, <1>d DEF Again
  <2> QED BY <1>1, <2>1, <2>2, <2>3, <2>4, <2>5, <2>6, <2>7, <2>8, <2>9 DEF Work
<1>2. ASSUME NEW p \in Procs, Fail(p) PROVE SeenOK'
  BY <1>2, <1>c DEF Fail, SecretsFail, BackupFails, WriteFails, Crash, Finish
<1>3. ASSUME NEW l \in Layers, OldWrite(l) PROVE SeenOK'
  BY <1>3, <1>b DEF OldWrite, procs
<1>4. CASE PowerLoss
  BY <1>4, <1>b DEF PowerLoss
<1>5. CASE UNCHANGED vars
  BY <1>5, <1>b DEF vars, procs
<1> QED BY <1>1, <1>2, <1>3, <1>4, <1>5 DEF Next

LEMMA TypesAlways == Spec => [](ControlOK /\ DataOK /\ SeenOK)
<1>1. Init => ControlOK /\ DataOK /\ SeenOK
  <2> SUFFICES ASSUME Init PROVE ControlOK /\ DataOK /\ SeenOK
    OBVIOUS
  <2>1. ControlOK
    BY Documents DEF Init, ControlOK, Place, Ended, Holding, InBackup
  <2>2. file \in [Layers -> Contents] /\ \A l \in Layers : file[l].from \in Docs \cup {None}
    BY MigrationAssumption DEF Init, Contents
  <2>3. DataOK
    <3>1. /\ backup = [l \in Layers |-> file[l].from] /\ bdur = [l \in Layers |-> {backup[l]}]
          /\ fdur = [l \in Layers |-> {file[l]}]
      BY DEF Init
    <3>2. backup \in [Layers -> Docs \cup {None, Partial}]
      BY <2>2, <3>1
    <3>3. bdur \in [Layers -> SUBSET (Docs \cup {None, Partial})] /\ fdur \in [Layers -> SUBSET Contents]
      BY <2>2, <3>1, <3>2
    <3>4. edits \in 0 .. MaxEdits /\ troubles \in 0 .. MaxTroubles
      BY MigrationAssumption DEF Init
    <3>5. /\ todo \in [Procs -> SUBSET Layers]
          /\ snap \in [Procs -> [Layers -> Contents \cup {None}]]
          /\ unsynced \subseteq Layers /\ killed \in BOOLEAN
          /\ apart \in BOOLEAN /\ disturbed \in BOOLEAN
      BY DEF Init
    <3> QED BY <2>2, <3>2, <3>3, <3>4, <3>5 DEF DataOK
  <2>4. SeenOK
    BY DEF Init, SeenOK, Reads
  <2> QED BY <2>1, <2>3, <2>4
<1>2. ControlOK /\ DataOK /\ SeenOK /\ [Next]_vars => (ControlOK /\ DataOK /\ SeenOK)'
  BY ControlNext, DataNext, SeenNext
<1> QED BY <1>1, <1>2, PTL DEF Spec

\* The types hold; the write lock of a file is with the process that migrates it, from
\* when it has it to when it ends, fails or is killed.
THEOREM TypesHold == Spec => []TypeOK
BY TypesAlways, TypeSplit, PTL

-----------------------------------------------------------------------------
(***************************************************************************)
(* The backup at each stage of the process that holds the lock.            *)
(***************************************************************************)
BackupOf(p) ==
    LET l == Own(p)
        d == snap[p][l].doc
    IN
    /\ pc[p] \in InBackup => None \in bdur[l]
    /\ pc[p] \in {"sync", "entry"} => backup[l] = d
    /\ pc[p] = "entry" => Partial \notin bdur[l]
    /\ pc[p] \in {"validate", "rename"} => l \in unsynced \/ (backup[l] = d /\ bdur[l] = {d})

BackupInv ==
    /\ \A l \in Layers : backup[l] \in bdur[l]
    /\ \A p \in Procs : BackupOf(p)

Types == ControlOK /\ DataOK /\ SeenOK

\* Two processes do not migrate one file.
LEMMA Alone ==
    ASSUME ControlOK, NEW p \in Procs, NEW q \in Procs, pc[p] \in Holding, pc[q] \in Holding,
           Own(p) = Own(q)
    PROVE  p = q
BY Owned DEF ControlOK

\* A step that leaves the backups alone, and whose process goes no further with its own.
LEMMA BackupQuiet ==
    ASSUME ControlOK, BackupInv, UNCHANGED <<backup, bdur, cmd>>, unsynced \subseteq unsynced',
           \A q \in Procs : pc'[q] \in InBackup \cup {"validate", "rename"} =>
                /\ snap'[q] = snap[q]
                /\ pc'[q] = pc[q] \/ (pc[q] = "validate" /\ pc'[q] = "rename")
    PROVE  BackupInv'
<1>1. ASSUME NEW q \in Procs PROVE BackupOf(q)'
  BY DEF BackupInv, BackupOf, Own, InBackup
<1> QED BY <1>1 DEF BackupInv

\* A step of the process that holds the lock changes the backup of its own file.
LEMMA BackupOwn ==
    ASSUME ControlOK, DataOK, BackupInv, NEW p \in Procs, pc[p] \in Holding,
           NEW b, NEW durable, Keep(Own(p), b, durable), b \in durable,
           UNCHANGED <<cmd, snap>>, unsynced \subseteq unsynced',
           \A q \in Procs \ {p} : pc'[q] = pc[q],
           BackupOf(p)'
    PROVE  BackupInv'
<1>1. /\ \A l \in Layers \ {Own(p)} : backup'[l] = backup[l] /\ bdur'[l] = bdur[l]
      /\ backup'[Own(p)] = b /\ bdur'[Own(p)] = durable
  BY Owned DEF Keep, DataOK
<1>2. ASSUME NEW q \in Procs \ {p} PROVE BackupOf(q)'
  <2>1. CASE pc[q] \in Holding
    <3>1. Own(q) \in Layers \ {Own(p)}
      BY <2>1, Alone, Owned
    <3> QED BY <1>1, <3>1 DEF BackupInv, BackupOf, Own
  <2>2. CASE pc[q] \notin Holding
    BY <2>2 DEF BackupOf, Holding, InBackup
  <2> QED BY <2>1, <2>2
<1> QED BY <1>1, <1>2 DEF BackupInv

LEMMA BackupNext == Types /\ BackupInv /\ [Next]_vars => BackupInv'
<1> SUFFICES ASSUME Types, BackupInv, [Next]_vars PROVE BackupInv'
  OBVIOUS
<1> USE DEF Types
<1>a. \A p \in Procs : Own(p) \in Layers
  BY Owned
<1>b. ASSUME NEW p \in Procs, NEW to, Go(p, to), UNCHANGED <<backup, bdur, cmd>>, unsynced \subseteq unsynced',
             to \notin InBackup \cup {"validate", "rename"} \/ (pc[p] = "validate" /\ to = "rename" /\ UNCHANGED snap),
             \A q \in Procs \ {p} : snap'[q] = snap[q]
      PROVE  BackupInv'
  <2>1. pc'[p] = to /\ \A q \in Procs \ {p} : pc'[q] = pc[q]
    BY <1>b DEF Go, ControlOK
  <2> QED BY <1>b, <2>1, BackupQuiet
<1>c. ASSUME NEW p \in Procs, NEW to, Finish(p, to), UNCHANGED <<backup, bdur>>, unsynced \subseteq unsynced',
             to \in Ended
      PROVE  BackupInv'
  BY <1>b, <1>c DEF Finish, Ended, InBackup
<1>d. ASSUME NEW p \in Procs, NEW l, See(p, l) PROVE \A q \in Procs \ {p} : snap'[q] = snap[q]
  BY <1>d DEF See, DataOK
<1>e. ASSUME NEW p \in Procs, NEW to, Go(p, to), UNCHANGED <<backup, bdur, cmd, unsynced>>,
             to \notin InBackup \cup {"validate", "rename"}, (\E l : See(p, l)) \/ UNCHANGED snap
      PROVE  BackupInv'
  BY <1>b, <1>d, <1>e
<1>1. ASSUME NEW p \in Procs, Start(p) \/ Look(p) \/ Check(p) \/ Reload(p) PROVE BackupInv'
  <2>1. (\E l : See(p, l)) \/ UNCHANGED snap
    <3>1. cmd[p].op \in {"load", "set", "alone", "explicit"}
      BY MigrationAssumption DEF ControlOK, Command
    <3> QED BY <1>1, <3>1 DEF Start, Look, Check, Reload
  <2>2. \E to \in {"preflight", "check", "edit", "lock", "loaded", "failed"} : Go(p, to)
    <3>1. cmd[p].op \in {"load", "set", "alone", "explicit"}
      BY MigrationAssumption DEF ControlOK, Command
    <3>2. CASE Start(p)
      BY <3>1, <3>2 DEF Start
    <3>3. CASE Look(p)
      BY <3>3 DEF Look, Verdict, Go, ControlOK
    <3>4. CASE Check(p) \/ Reload(p)
      BY <3>4 DEF Check, Reload, Go, ControlOK
    <3> QED BY <1>1, <3>2, <3>3, <3>4
  <2>3. UNCHANGED <<backup, bdur, cmd, unsynced>>
    BY <1>1 DEF Start, Look, Check, Reload, files, marks
  <2> QED BY <2>1, <2>2, <2>3, <1>e DEF InBackup
<1>2. ASSUME NEW p \in Procs, Reread(p) PROVE BackupInv'
  <2>1. UNCHANGED <<backup, bdur, cmd, unsynced>>
    BY <1>2 DEF Reread, Finish, files, marks
  <2>2. \/ Finish(p, "failed") \/ Finish(p, "loaded")
        \/ Go(p, "backup") /\ See(p, Own(p))
    BY <1>2 DEF Reread
  <2> QED BY <2>1, <2>2, <1>c, <1>e DEF InBackup, Ended
<1>3. ASSUME NEW p \in Procs,
             Lock(p) \/ LockTimesOut(p) \/ Validate(p) \/ Edit(p) \/ Again(p) \/ SecretsFail(p) \/ WriteFails(p)
      PROVE  BackupInv'
  <2>1. CASE Lock(p)
    BY <2>1, <1>e DEF Lock, files, marks, InBackup
  <2>2. CASE Validate(p)
    <3>1. (Go(p, "rename") /\ UNCHANGED <<cmd, snap>>) \/ Finish(p, "deferred")
      BY <2>2 DEF Validate
    <3>2. UNCHANGED <<backup, bdur, unsynced>> /\ pc[p] = "validate"
      BY <2>2 DEF Validate, files, marks
    <3> QED BY <3>1, <3>2, <1>b, <1>c DEF Ended
  <2>3. CASE LockTimesOut(p) \/ SecretsFail(p) \/ WriteFails(p)
    BY <2>3, <1>c DEF LockTimesOut, SecretsFail, WriteFails, files, marks, Ended
  <2>4. CASE Edit(p)
    <3>1. Finish(p, "failed") \/ Finish(p, "loaded")
      BY <2>4 DEF Edit
    <3> QED BY <2>4, <3>1, <1>c DEF Edit, Ended
  <2>5. CASE Again(p)
    <3>1. \A q \in Procs \ {p} : snap'[q] = snap[q]
      BY <2>5 DEF Again, DataOK
    <3> QED BY <2>5, <3>1, <1>b DEF Again, files, marks, InBackup
  <2> QED BY <1>3, <2>1, <2>2, <2>3, <2>4, <2>5
<1>4. ASSUME NEW p \in Procs, Rename(p) PROVE BackupInv'
  BY <1>4, <1>e DEF Rename, InBackup
<1>5. ASSUME NEW p \in Procs, Backup(p) PROVE BackupInv'
  <2> DEFINE l == Own(p)
             d == snap[p][l].doc
  <2>1. UNCHANGED <<cmd, snap>> /\ unsynced \subseteq unsynced' /\ pc[p] \in Holding
    BY <1>5 DEF Backup, Finish, Holding
  <2>2. CASE backup[l] = None /\ Keep(l, Partial, bdur[l] \cup {Partial}) /\ Go(p, "write")
    <3>1. None \in bdur[l]
      BY <1>a, <2>2 DEF BackupInv
    <3>2. bdur'[l] = bdur[l] \cup {Partial} /\ pc'[p] = "write" /\ \A q \in Procs \ {p} : pc'[q] = pc[q]
      BY <1>a, <2>2 DEF Keep, Go, DataOK, ControlOK
    <3>3. BackupOf(p)'
      BY <2>1, <3>1, <3>2 DEF BackupOf, Own, InBackup
    <3> QED BY <2>1, <2>2, <3>2, <3>3, BackupOwn
  <2>3. CASE backup[l] = d /\ Go(p, "validate") /\ UNCHANGED <<backup, bdur>>
             /\ unsynced' = IF bdur[l] = {d} THEN unsynced ELSE unsynced \cup {l}
    <3>1. pc'[p] = "validate" /\ \A q \in Procs \ {p} : pc'[q] = pc[q]
      BY <2>3 DEF Go, ControlOK
    <3>2. BackupOf(p)'
      BY <1>a, <2>1, <2>3, <3>1 DEF BackupOf, Own, InBackup
    <3>3. ASSUME NEW q \in Procs \ {p} PROVE BackupOf(q)'
      BY <2>1, <2>3, <3>1 DEF BackupInv, BackupOf, Own
    <3> QED BY <2>3, <3>2, <3>3 DEF BackupInv
  <2>4. CASE Finish(p, "deferred") /\ UNCHANGED <<backup, bdur>>
    BY <2>1, <2>4, <1>c DEF Ended
  <2> QED BY <1>5, <2>2, <2>3, <2>4 DEF Backup
<1>6. ASSUME NEW p \in Procs, WriteBackup(p) \/ SyncBackup(p) \/ SyncEntry(p) PROVE BackupInv'
  <2> DEFINE l == Own(p)
             d == snap[p][l].doc
  <2>1. /\ UNCHANGED <<cmd, snap, unsynced>> /\ pc[p] \in Holding /\ pc[p] \in InBackup
        /\ None \in bdur[l] /\ backup[l] \in bdur[l]
    BY <1>6, <1>a DEF WriteBackup, SyncBackup, SyncEntry, marks, Holding, InBackup, BackupInv, BackupOf
  <2>2. d \in Docs
    BY <2>1, Seen DEF Reads, InBackup
  <2>3. ASSUME NEW to, Go(p, to) PROVE pc'[p] = to /\ \A q \in Procs \ {p} : pc'[q] = pc[q]
    BY <2>3 DEF Go, ControlOK
  <2>4. ASSUME NEW b, NEW durable, Keep(l, b, durable) PROVE backup'[l] = b /\ bdur'[l] = durable
    BY <1>a, <2>4 DEF Keep, DataOK
  <2>5. CASE WriteBackup(p)
    <3>1. Keep(l, d, bdur[l] \cup {d}) /\ Go(p, "sync")
      BY <2>5 DEF WriteBackup
    <3>2. BackupOf(p)'
      BY <2>1, <2>3, <2>4, <3>1 DEF BackupOf, Own, InBackup
    <3> HIDE DEF l, d
    <3> QED BY <2>1, <2>3, <3>1, <3>2, BackupOwn DEF l
  <2>6. CASE SyncBackup(p)
    <3>1. Keep(l, backup[l], bdur[l] \ {Partial}) /\ Go(p, "entry") /\ pc[p] = "sync"
      BY <2>6 DEF SyncBackup
    <3>2. backup[l] = d
      BY <3>1 DEF BackupInv, BackupOf
    <3>3. BackupOf(p)'
      BY <2>1, <2>3, <2>4, <3>1, <3>2, Documents DEF BackupOf, Own, InBackup
    <3>4. backup[l] \in bdur[l] \ {Partial}
      BY <2>1, <2>2, <3>2, Documents
    <3> HIDE DEF l, d
    <3> QED BY <2>1, <2>3, <3>1, <3>3, <3>4, BackupOwn DEF l
  <2>7. CASE SyncEntry(p)
    <3>1. Keep(l, backup[l], EntrySynced(l)) /\ Go(p, "validate") /\ pc[p] = "entry"
      BY <2>7 DEF SyncEntry
    <3>2. backup[l] = d /\ Partial \notin bdur[l]
      BY <3>1 DEF BackupInv, BackupOf
    <3>3. EntrySynced(l) = {d}
      BY <2>1, <2>2, <3>2, Documents DEF EntrySynced
    <3>4. BackupOf(p)'
      BY <2>1, <2>3, <2>4, <3>1, <3>2, <3>3 DEF BackupOf, Own, InBackup
    <3> HIDE DEF l, d
    <3> QED BY <2>1, <2>3, <3>1, <3>2, <3>3, <3>4, BackupOwn DEF l
  <2> QED BY <1>6, <2>5, <2>6, <2>7
<1>7. ASSUME NEW p \in Procs, BackupFails(p) PROVE BackupInv'
  <2>1. CASE UNCHANGED <<backup, bdur>>
    BY <1>7, <2>1, <1>c DEF BackupFails, Ended
  <2>2. CASE Keep(Own(p), None, bdur[Own(p)] \cup {None})
    <3>1. Go(p, "deferred") /\ UNCHANGED <<cmd, snap, unsynced>> /\ pc[p] \in Holding
      BY <1>7 DEF BackupFails, Finish, Holding
    <3>2. pc'[p] = "deferred" /\ \A q \in Procs \ {p} : pc'[q] = pc[q]
      BY <3>1 DEF Go, ControlOK
    <3>3. BackupOf(p)'
      BY <3>2 DEF BackupOf, InBackup
    <3> QED BY <2>2, <3>1, <3>2, <3>3, BackupOwn
  <2> QED BY <1>7, <2>1, <2>2 DEF BackupFails
<1>8. ASSUME NEW p \in Procs, Settle(p) PROVE BackupInv'
  <2>1. \E to \in {"reload", "loaded"} : Finish(p, to)
    BY <1>8 DEF Settle
  <2>2. /\ \A q \in Procs \ {p} : pc'[q] = pc[q]
        /\ pc'[p] \in {"reload", "loaded"} /\ UNCHANGED <<cmd, snap, unsynced, backup>> /\ pc[p] \in Holding
    BY <1>8, <2>1 DEF Settle, Finish, Go, ControlOK, Holding
  <2>3. CASE UNCHANGED bdur
    BY <2>2, <2>3, BackupQuiet DEF InBackup
  <2>4. CASE bdur' = [bdur EXCEPT ![Own(p)] = EntrySynced(Own(p))]
    <3>1. Keep(Own(p), backup[Own(p)], EntrySynced(Own(p)))
      BY <1>a, <2>2, <2>4 DEF Keep, DataOK
    <3>2. backup[Own(p)] \in EntrySynced(Own(p))
      BY <1>a DEF EntrySynced, BackupInv
    <3>3. BackupOf(p)'
      BY <2>2 DEF BackupOf, InBackup
    <3> QED BY <2>2, <3>1, <3>2, <3>3, BackupOwn
  <2> QED BY <1>8, <2>3, <2>4 DEF Settle
<1>9. ASSUME NEW p \in Procs, Crash(p) PROVE BackupInv'
  BY <1>9, <1>e DEF Crash, files, InBackup
<1>10. ASSUME NEW l \in Layers, OldWrite(l) PROVE BackupInv'
  BY <1>10, BackupQuiet DEF OldWrite, procs
<1>11. CASE PowerLoss
  <2>1. bdur' = [l \in Layers |-> {backup'[l]}] /\ \A q \in Procs : pc'[q] = "failed"
    BY <1>11 DEF PowerLoss
  <2> QED BY <2>1 DEF BackupInv, BackupOf, InBackup
<1>12. CASE UNCHANGED vars
  <2>1. UNCHANGED <<backup, bdur, cmd, pc, snap, unsynced>>
    BY <1>12 DEF vars, files, procs, marks
  <2>2. ControlOK
    OBVIOUS
  <2> QED BY <2>1, <2>2, BackupQuiet
<1> QED
  BY <1>1, <1>2, <1>3, <1>4, <1>5, <1>6, <1>7, <1>8, <1>9, <1>10, <1>11, <1>12
  DEF Next, Work, Fail

-----------------------------------------------------------------------------
(***************************************************************************)
(* RollbackSafe, layer by layer.                                           *)
(***************************************************************************)
Rolled(l) ==
    l \in unsynced \/
    \A c \in fdur[l] \cup {file[l]} : c.from # None =>
        \A b \in bdur[l] \cup {backup[l]} : b = c.from

LEMMA RolledAll == RollbackSafe <=> \A l \in Layers : Rolled(l)
BY DEF RollbackSafe, Rolled

\* Nothing new at a layer: no content of another origin and no other backup.
LEMMA RolledQuiet ==
    ASSUME NEW l \in Layers, Rolled(l), unsynced \subseteq unsynced',
           \A c \in fdur'[l] \cup {file'[l]} :
               c.from = None \/ \E k \in fdur[l] \cup {file[l]} : c.from = k.from,
           bdur'[l] \cup {backup'[l]} \subseteq bdur[l] \cup {backup[l]}
    PROVE  Rolled(l)'
BY DEF Rolled

\* While there may be no backup after a power loss, the file is not a migrated one.
LEMMA RolledBefore ==
    ASSUME DataOK, NEW l \in Layers, Rolled(l), None \in bdur[l], UNCHANGED <<file, fdur>>,
           unsynced \subseteq unsynced'
    PROVE  Rolled(l)'
BY DEF Rolled

LEMMA RollbackNext == Types /\ BackupInv /\ RollbackSafe /\ [Next]_vars => RollbackSafe'
<1> SUFFICES ASSUME Types, BackupInv, RollbackSafe, [Next]_vars, NEW l \in Layers PROVE Rolled(l)'
  BY DEF RollbackSafe, Rolled, Layers
<1> USE DEF Types
<1>a. Rolled(l) /\ file[l] \in Contents /\ backup[l] \in bdur[l]
  BY RolledAll DEF DataOK, BackupInv
<1>b. ASSUME UNCHANGED <<file, fdur, backup, bdur>>, unsynced \subseteq unsynced' PROVE Rolled(l)'
  BY <1>a, <1>b, RolledQuiet
<1>c. \A p \in Procs : Own(p) \in Layers
  BY Owned
<1>1. ASSUME NEW p \in Procs, Work(p) PROVE Rolled(l)'
  <2>1. CASE Start(p) \/ Look(p) \/ Check(p) \/ Lock(p) \/ LockTimesOut(p) \/ Reread(p) \/ Validate(p)
               \/ Reload(p) \/ Again(p)
    <3>1. UNCHANGED <<files, marks>>
      BY <2>1 DEF Start, Look, Check, Lock, LockTimesOut, Reread, Validate, Reload, Again
    <3> QED BY <3>1, <1>b DEF files, marks
  <2>2. CASE Backup(p)
    <3>1. UNCHANGED <<file, fdur>> /\ unsynced \subseteq unsynced'
      BY <2>2 DEF Backup
    <3>2. CASE UNCHANGED <<backup, bdur>>
      BY <3>1, <3>2, <1>b
    <3>3. CASE backup[Own(p)] = None /\ Keep(Own(p), Partial, bdur[Own(p)] \cup {Partial})
      <4>1. CASE l = Own(p)
        BY <1>a, <3>1, <3>3, <4>1, RolledBefore
      <4>2. CASE l # Own(p)
        <5>1. backup'[l] = backup[l] /\ bdur'[l] = bdur[l]
          BY <3>3, <4>2 DEF Keep, DataOK
        <5> QED BY <1>a, <3>1, <5>1, RolledQuiet
      <4> QED BY <4>1, <4>2
    <3> QED BY <2>2, <3>2, <3>3 DEF Backup
  <2>3. CASE WriteBackup(p) \/ SyncBackup(p) \/ SyncEntry(p)
    <3>1. UNCHANGED <<file, fdur, unsynced>> /\ None \in bdur[Own(p)]
      BY <2>3 DEF WriteBackup, SyncBackup, SyncEntry, marks, BackupInv, BackupOf, InBackup
    <3>2. PICK b, durable : Keep(Own(p), b, durable)
      BY <2>3 DEF WriteBackup, SyncBackup, SyncEntry
    <3>3. CASE l = Own(p)
      BY <1>a, <3>1, <3>3, RolledBefore
    <3>4. CASE l # Own(p)
      <4>1. backup'[l] = backup[l] /\ bdur'[l] = bdur[l]
        BY <3>2, <3>4 DEF Keep, DataOK
      <4> QED BY <1>a, <3>1, <4>1, RolledQuiet
    <3> QED BY <3>3, <3>4
  <2>4. CASE Rename(p)
    <3> DEFINE d == snap[p][Own(p)].doc
    <3>1. /\ file' = [file EXCEPT ![Own(p)] = Migrated(d)]
          /\ fdur' = [fdur EXCEPT ![Own(p)] = @ \cup {Migrated(d)}]
          /\ UNCHANGED <<backup, bdur, unsynced>> /\ pc[p] = "rename"
      BY <2>4 DEF Rename
    <3>2. CASE l = Own(p)
      <4>1. l \in unsynced \/ (backup[l] = d /\ bdur[l] = {d})
        BY <3>1, <3>2 DEF BackupInv, BackupOf
      <4>2. Migrated(d).from = d
        BY DEF Migrated
      <4>3. file'[l] = Migrated(d) /\ fdur'[l] = fdur[l] \cup {Migrated(d)}
        BY <3>1, <3>2 DEF DataOK
      <4> HIDE DEF d
      <4> QED BY <1>a, <3>1, <4>1, <4>2, <4>3 DEF Rolled
    <3>3. CASE l # Own(p)
      <4>1. file'[l] = file[l] /\ fdur'[l] = fdur[l]
        BY <3>1, <3>3 DEF DataOK
      <4> QED BY <1>a, <3>1, <4>1, RolledQuiet
    <3> QED BY <3>2, <3>3
  <2>5. CASE Settle(p)
    <3>1. UNCHANGED <<file, backup, unsynced>>
      BY <2>5 DEF Settle
    <3>2. fdur'[l] \subseteq fdur[l] \cup {file[l]}
      BY <2>5 DEF Settle, DataOK
    <3>3. bdur'[l] \subseteq bdur[l] \cup {backup[l]}
      BY <1>a, <2>5 DEF Settle, DataOK, EntrySynced
    <3> QED BY <1>a, <3>1, <3>2, <3>3, RolledQuiet
  <2>6. CASE Edit(p)
    <3>1. UNCHANGED <<backup, bdur, unsynced>>
      BY <2>6 DEF Edit
    <3>2. CASE UNCHANGED <<file, fdur>>
      BY <3>1, <3>2, <1>b
    <3>3. CASE ~UNCHANGED <<file, fdur>>
      <4>1. PICK d \in Docs : /\ file' = [file EXCEPT ![Own(p)].doc = Convert(d)]
                              /\ fdur' = [fdur EXCEPT ![Own(p)] = {file'[Own(p)]}]
        BY <2>6, <3>3 DEF Edit
      <4>2. CASE l = Own(p)
        <5>1. file'[l] = [file[l] EXCEPT !.doc = Convert(d)] /\ fdur'[l] = {file'[l]}
          BY <4>1, <4>2 DEF DataOK
        <5>2. file'[l].from = file[l].from
          BY <1>a, <5>1 DEF Contents
        <5> QED BY <1>a, <3>1, <5>1, <5>2, RolledQuiet
      <4>3. CASE l # Own(p)
        <5>1. file'[l] = file[l] /\ fdur'[l] = fdur[l]
          BY <4>1, <4>3 DEF DataOK
        <5> QED BY <1>a, <3>1, <5>1, RolledQuiet
      <4> QED BY <4>2, <4>3
    <3> QED BY <3>2, <3>3
  <2> QED BY <1>1, <2>1, <2>2, <2>3, <2>4, <2>5, <2>6 DEF Work
<1>2. ASSUME NEW p \in Procs, Fail(p) PROVE Rolled(l)'
  <2>1. CASE SecretsFail(p) \/ WriteFails(p) \/ Crash(p)
    BY <2>1, <1>b DEF SecretsFail, WriteFails, Crash, files
  <2>2. CASE BackupFails(p)
    <3>1. UNCHANGED <<file, fdur, unsynced>> /\ None \in bdur[Own(p)]
      BY <2>2 DEF BackupFails, BackupInv, BackupOf
    <3>2. CASE UNCHANGED <<backup, bdur>>
      BY <3>1, <3>2, <1>b
    <3>3. CASE Keep(Own(p), None, bdur[Own(p)] \cup {None})
      <4>1. CASE l = Own(p)
        BY <1>a, <3>1, <4>1, RolledBefore
      <4>2. CASE l # Own(p)
        <5>1. backup'[l] = backup[l] /\ bdur'[l] = bdur[l]
          BY <3>3, <4>2 DEF Keep, DataOK
        <5> QED BY <1>a, <3>1, <5>1, RolledQuiet
      <4> QED BY <4>1, <4>2
    <3> QED BY <2>2, <3>2, <3>3 DEF BackupFails
  <2> QED BY <1>2, <2>1, <2>2 DEF Fail
<1>3. ASSUME NEW k \in Layers, OldWrite(k) PROVE Rolled(l)'
  <2>1. PICK d \in Docs : file' = [file EXCEPT ![k] = Legacy(d)]
    BY <1>3 DEF OldWrite
  <2>2. fdur' = [fdur EXCEPT ![k] = {file'[k]}] /\ UNCHANGED <<backup, bdur, unsynced>>
    BY <1>3 DEF OldWrite
  <2>3. CASE l = k
    <3>1. file'[l] = Legacy(d) /\ fdur'[l] = {Legacy(d)} /\ Legacy(d).from = None
      BY <2>1, <2>2, <2>3 DEF DataOK, Legacy
    <3> QED BY <1>a, <2>2, <3>1, RolledQuiet
  <2>4. CASE l # k
    <3>1. file'[l] = file[l] /\ fdur'[l] = fdur[l]
      BY <2>1, <2>2, <2>4 DEF DataOK
    <3> QED BY <1>a, <2>2, <3>1, RolledQuiet
  <2> QED BY <2>3, <2>4
<1>4. CASE PowerLoss
  <2>1. file'[l] \in fdur[l] /\ fdur'[l] = {file'[l]} /\ backup'[l] \in bdur[l] /\ bdur'[l] = {backup'[l]}
    BY <1>4 DEF PowerLoss
  <2>2. UNCHANGED unsynced
    BY <1>4 DEF PowerLoss
  <2> QED BY <1>a, <2>1, <2>2, RolledQuiet
<1>5. CASE UNCHANGED vars
  BY <1>5, <1>b DEF vars, files, marks
<1> QED BY <1>1, <1>2, <1>3, <1>4, <1>5 DEF Next

\* RollbackSafe for every instance: the order of writeLegacyBackup (the backup's data and
\* its entry are on disk before the rename) survives any number of kills and power losses.
THEOREM BackupsExact == Spec => []RollbackSafe
<1>1. Init => BackupInv /\ RollbackSafe
  <2> SUFFICES ASSUME Init PROVE BackupInv /\ RollbackSafe
    OBVIOUS
  <2>1. \A p \in Procs : pc[p] = "start"
    BY DEF Init
  <2>2. \A l \in Layers : backup[l] = file[l].from /\ bdur[l] = {backup[l]} /\ fdur[l] = {file[l]}
    BY DEF Init
  <2> QED BY <2>1, <2>2 DEF BackupInv, BackupOf, InBackup, RollbackSafe
<1>2. Types /\ BackupInv /\ RollbackSafe /\ [Next]_vars => (BackupInv /\ RollbackSafe)'
  BY BackupNext, RollbackNext
<1> QED BY <1>1, <1>2, TypesAlways, PTL DEF Spec, Types

-----------------------------------------------------------------------------
(***************************************************************************)
(* ViewKept. The original of a content is the legacy document it says or   *)
(* was made from; as long as the history is undisturbed, a layer has one,  *)
(* whatever a power loss leaves of it.                                     *)
(***************************************************************************)
Originals == [l \in Layers |-> Original(file[l])]

\* The stacks of the layers mean the same in both schemas.
StacksKept(docs) ==
    \A c \in Contexts : Whole(Stacks(docs, c), StackFields) = ByField(Stacks(docs, c), StackFields)

\* What the preflights have shown: of a set with a file migrated apart it is less.
Shown(docs) == IF apart THEN StacksKept(docs) ELSE Proven(docs)

\* No other layer has a stack that this one has.
StackApart(l, docs) ==
    \A k \in Layers \ {l} : \A c \in Contexts :
        Nothing(StackFields) \in {docs[l][c].stack, docs[k][c].stack}

\* What allows a layer to be migrated.
Cleared(l, docs) == Shown(docs) \/ (apart /\ StackApart(l, docs))

Migrates == {"lock", "reread"} \cup Reads

\* The file that is there may be left by a power loss, and a legacy one is all there is;
\* another was made from one.
DurableInv ==
    \A l \in Layers : /\ file[l] \in fdur[l]
                      /\ IsLegacy(file[l]) => fdur[l] = {file[l]}
                      /\ \A c \in fdur[l] : ~IsLegacy(c) => c.from # None

\* What a process has seen at each stage.
StageOf(p) ==
    /\ pc[p] \in Migrates => snap[p][Own(p)] # None /\ IsLegacy(snap[p][Own(p)])
    /\ pc[p] = "edit" => snap[p][Own(p)] # None /\ ~IsLegacy(snap[p][Own(p)])
    /\ pc[p] = "preflight" => \A l \in Layers \ todo[p] : snap[p][l] # None
    /\ pc[p] \in Migrates /\ cmd[p].op = "set" => \A l \in Layers : snap[p][l] # None
    /\ pc[p] \in {"check", "loaded"} /\ cmd[p].op = "load" =>
          (\A l \in Layers : snap[p][l] # None) /\ Safe(snap[p])
    /\ pc[p] \in {"lock", "reload", "edit"} \cup Holding => cmd[p].op # "load"

StageInv == \A p \in Procs : StageOf(p)

OriginInv ==
    \A l \in Layers :
        /\ \A c \in fdur[l] : Original(c) = Original(file[l])
        /\ \A p \in Procs : snap[p][l] # None => Original(snap[p][l]) = Original(file[l])

\* A file stays as it was read under its lock, and v1 as long as a process lives that saw
\* it so.
HeldInv ==
    \A p \in Procs :
        /\ pc[p] \in Reads => file[Own(p)] = snap[p][Own(p)]
        /\ \A l \in Layers : pc[p] # "failed" /\ snap[p][l] # None /\ ~IsLegacy(snap[p][l])
                                => ~IsLegacy(file[l])

\* A v1 file is edited only where no power loss brings back a legacy one.
EditInv ==
    (\/ \E l \in Layers : \E c \in fdur[l] : IsEdited(c)
     \/ \E p \in Procs, l \in Layers : snap[p][l] # None /\ IsEdited(snap[p][l]))
    => \A l \in Layers : \A c \in fdur[l] : ~IsLegacy(c)

\* A layer that is v1, or about to be, was cleared, or is the one that is loaded alone.
ClearedInv(only) ==
    /\ \A l \in Layers : ~IsLegacy(file[l]) => Cleared(l, Originals) \/ (apart /\ l = only)
    /\ \A p \in Procs : pc[p] \in Migrates /\ cmd[p].op = "set" /\ IsLegacy(file[Own(p)])
                            => Cleared(Own(p), Originals)

ViewInv(only) == ~disturbed => OriginInv /\ HeldInv /\ EditInv /\ ClearedInv(only)

\* Nothing of a process changes.
Still(p) == pc'[p] = pc[p] /\ todo'[p] = todo[p] /\ snap'[p] = snap[p]

LEMMA Acts ==
    ASSUME Types, NEW p \in Procs, Work(p) \/ Fail(p)
    PROVE  UNCHANGED cmd /\ \A q \in Procs \ {p} : Still(q)
<1> USE DEF Types
<1>1. ASSUME NEW to, Go(p, to) PROVE \A q \in Procs \ {p} : pc'[q] = pc[q]
  BY <1>1 DEF Go, ControlOK
<1>2. ASSUME NEW l, See(p, l) PROVE \A q \in Procs \ {p} : snap'[q] = snap[q]
  BY <1>2 DEF See, DataOK
<1>3. ASSUME NEW S, todo' = [todo EXCEPT ![p] = S] PROVE \A q \in Procs \ {p} : todo'[q] = todo[q]
  BY <1>3 DEF DataOK
<1>4. ASSUME NEW to, Finish(p, to) PROVE UNCHANGED cmd /\ \A q \in Procs \ {p} : Still(q)
  BY <1>1, <1>4 DEF Finish, Still
<1>5. CASE Start(p)
  <2>1. cmd[p].op \in {"load", "set", "alone", "explicit"}
    BY MigrationAssumption DEF ControlOK, Command
  <2>2. \E to : Go(p, to)
    BY <1>5, <2>1 DEF Start
  <2>3. See(p, Own(p)) \/ UNCHANGED snap
    BY <1>5, <2>1 DEF Start
  <2>4. UNCHANGED cmd /\ (UNCHANGED todo \/ \E S : todo' = [todo EXCEPT ![p] = S])
    BY <1>5, <2>1 DEF Start
  <2> QED BY <2>2, <2>3, <2>4, <1>1, <1>2, <1>3 DEF Still
<1>6. CASE Look(p)
  <2>1. (\E to : Go(p, to)) \/ UNCHANGED pc
    BY <1>6 DEF Look
  <2>2. UNCHANGED cmd /\ See(p, Min(todo[p])) /\ \E S : todo' = [todo EXCEPT ![p] = S]
    BY <1>6 DEF Look
  <2> QED BY <2>1, <2>2, <1>1, <1>2, <1>3 DEF Still
<1>7. CASE Check(p)
  <2>1. (\E to : Go(p, to)) \/ UNCHANGED pc
    BY <1>7 DEF Check
  <2>2. UNCHANGED <<cmd, snap>> /\ \E S : todo' = [todo EXCEPT ![p] = S]
    BY <1>7 DEF Check
  <2> QED BY <2>1, <2>2, <1>1, <1>3 DEF Still
<1>8. CASE Lock(p) \/ WriteBackup(p) \/ SyncBackup(p) \/ SyncEntry(p) \/ Rename(p) \/ Crash(p)
  BY <1>8, <1>1 DEF Lock, WriteBackup, SyncBackup, SyncEntry, Rename, Crash, Still
<1>9. CASE LockTimesOut(p) \/ Settle(p) \/ Edit(p) \/ SecretsFail(p) \/ BackupFails(p) \/ WriteFails(p)
  <2>1. \E to : Finish(p, to)
    BY <1>9 DEF LockTimesOut, Settle, Edit, SecretsFail, BackupFails, WriteFails
  <2> QED BY <2>1, <1>4
<1>10. CASE Reread(p) \/ Backup(p) \/ Validate(p) \/ Reload(p)
  <2>1. \/ \E to : Finish(p, to)
        \/ UNCHANGED <<cmd, todo>> /\ (UNCHANGED snap \/ See(p, Own(p))) /\ \E to : Go(p, to)
    BY <1>10 DEF Reread, Backup, Validate, Reload
  <2> QED BY <2>1, <1>1, <1>2, <1>4 DEF Still
<1>11. CASE Again(p)
  <2>1. \A q \in Procs \ {p} : snap'[q] = snap[q]
    BY <1>11 DEF Again, DataOK
  <2> QED BY <1>11, <2>1, <1>1, <1>3 DEF Again, Still
<1> QED BY <1>5, <1>6, <1>7, <1>8, <1>9, <1>10, <1>11 DEF Work, Fail

\* What becomes of the files in a step.
Quiet ==
    /\ UNCHANGED <<file, apart, disturbed>>
    /\ \A l \in Layers : fdur'[l] = fdur[l] \/ fdur'[l] = {file[l]}

Edits(p, d) ==
    LET l == Own(p) IN
    /\ pc[p] = "edit" /\ file[l] = snap[p][l] /\ lock[l] = None
    /\ file' = [file EXCEPT ![l].doc = Convert(d)] /\ fdur' = [fdur EXCEPT ![l] = {file'[l]}]
    /\ disturbed' = (disturbed \/ (file' # file /\ \E k \in Layers \ {l} : \E c \in fdur[k] : IsLegacy(c)))
    /\ UNCHANGED <<snap, apart>> /\ pc' = [pc EXCEPT ![p] = "loaded"]

LEMMA FileSteps ==
    ASSUME Types, [Next]_vars
    PROVE  \/ Quiet
           \/ \E p \in Procs : Rename(p) \/ \E d \in Docs : Edits(p, d)
           \/ \E l \in Layers : OldWrite(l)
           \/ PowerLoss
<1>1. ASSUME UNCHANGED <<file, fdur, apart, disturbed>> PROVE Quiet
  BY <1>1 DEF Quiet
<1>2. ASSUME NEW p \in Procs, Work(p), ~Rename(p) PROVE Quiet \/ \E d \in Docs : Edits(p, d)
  <2>1. CASE Settle(p)
    <3>1. fdur' = fdur \/ fdur' = [fdur EXCEPT ![Own(p)] = {file[Own(p)]}]
      BY <2>1 DEF Settle
    <3>2. \A l \in Layers : fdur'[l] = fdur[l] \/ fdur'[l] = {file[l]}
      BY <3>1 DEF Types, DataOK
    <3> QED BY <2>1, <3>2 DEF Settle, Quiet
  <2>2. CASE Edit(p)
    BY <2>2, <1>1 DEF Edit, Edits, Finish, Go
  <2>3. CASE ~Settle(p) /\ ~Edit(p)
    BY <1>2, <2>3, <1>1 DEF Work, Start, Look, Check, Lock, LockTimesOut, Reread, Backup, WriteBackup,
       SyncBackup, SyncEntry, Validate, Reload, Again, files, marks
  <2> QED BY <2>1, <2>2, <2>3
<1>3. ASSUME NEW p \in Procs, Fail(p) PROVE Quiet
  BY <1>3, <1>1 DEF Fail, SecretsFail, BackupFails, WriteFails, Crash, files
<1>4. CASE UNCHANGED vars
  BY <1>4, <1>1 DEF vars, files, marks
<1> QED BY <1>2, <1>3, <1>4 DEF Next

LEMMA StageNext == Types /\ StageInv /\ [Next]_vars => StageInv'
<1> SUFFICES ASSUME Types, StageInv, [Next]_vars PROVE StageInv'
  OBVIOUS
<1> USE DEF Types
<1>a. ASSUME NEW q \in Procs, Still(q), UNCHANGED cmd PROVE StageOf(q)'
  <2>1. StageOf(q)
    BY DEF StageInv
  <2> QED BY <1>a, <2>1 DEF Still, StageOf, Own
<1>b. ASSUME NEW p \in Procs, Work(p) \/ Fail(p), StageOf(p)' PROVE StageInv'
  <2>1. UNCHANGED cmd /\ \A q \in Procs \ {p} : StageOf(q)'
    BY <1>a, <1>b, Acts
  <2> QED BY <1>b, <2>1 DEF StageInv
<1>c. ASSUME NEW p \in Procs, NEW to, Go(p, to) PROVE pc'[p] = to
  BY <1>c DEF Go, ControlOK
<1>d. \A p \in Procs : Own(p) \in Layers /\ StageOf(p)
  BY Owned DEF StageInv
<1>e. ASSUME NEW p \in Procs, NEW l \in Layers, See(p, l)
      PROVE  /\ snap'[p][l] = file[l] /\ snap'[p][l] # None
             /\ \A k \in Layers \ {l} : snap'[p][k] = snap[p][k]
  BY <1>e, Documents DEF See, DataOK
<1>f. ASSUME NEW p \in Procs, NEW to, Go(p, to), UNCHANGED cmd,
             to \in {"failed", "deferred"} \/ (to = "loaded" /\ cmd[p].op # "load")
      PROVE  StageOf(p)'
  BY <1>c, <1>f DEF StageOf, Migrates, Reads, Holding, InBackup, Own
<1>g. ASSUME NEW p \in Procs, NEW to, Go(p, to), UNCHANGED <<cmd, snap>>, pc[p] \in Migrates,
             to \in Migrates, cmd[p].op # "load"
      PROVE  StageOf(p)'
  <2>1. pc'[p] = to /\ to \notin {"edit", "preflight", "check", "loaded"}
    BY <1>c, <1>g DEF Migrates, Reads
  <2> QED BY <1>d, <1>g, <2>1 DEF StageOf, Own
<1>1. ASSUME NEW p \in Procs, Work(p) PROVE StageOf(p)'
  <2>0. UNCHANGED cmd
    BY <1>1, Acts
  <2>1. CASE Start(p)
    <3>0. cmd[p].op \in {"load", "set", "alone", "explicit"}
      BY MigrationAssumption DEF ControlOK, Command
    <3>1. CASE cmd[p].op = "load" \/ (cmd[p].op = "set" /\ IsLegacy(file[Own(p)]))
      <4>1. Go(p, "preflight") /\ todo' = [todo EXCEPT ![p] = Layers]
        BY <2>1, <3>1 DEF Start
      <4>2. pc'[p] = "preflight" /\ todo'[p] = Layers
        BY <4>1, <1>c DEF DataOK
      <4> QED BY <4>2 DEF StageOf, Migrates, Reads, Holding, InBackup
    <3>2. CASE cmd[p].op = "set" /\ ~IsLegacy(file[Own(p)])
      <4>1. Go(p, "edit") /\ See(p, Own(p))
        BY <2>1, <3>2 DEF Start
      <4>2. pc'[p] = "edit" /\ snap'[p][Own(p)] = file[Own(p)] /\ snap'[p][Own(p)] # None
        BY <4>1, <1>c, <1>d, <1>e
      <4> QED BY <2>0, <3>2, <4>2 DEF StageOf, Migrates, Reads, Holding, InBackup, Own
    <3>3. CASE cmd[p].op \in {"alone", "explicit"}
      <4>1. Go(p, IF IsLegacy(file[Own(p)]) THEN "lock" ELSE "loaded") /\ See(p, Own(p))
        BY <2>1, <3>3 DEF Start
      <4>2. /\ pc'[p] = IF IsLegacy(file[Own(p)]) THEN "lock" ELSE "loaded"
            /\ snap'[p][Own(p)] = file[Own(p)] /\ snap'[p][Own(p)] # None
        BY <4>1, <1>c, <1>d, <1>e
      <4> QED BY <2>0, <3>3, <4>2 DEF StageOf, Migrates, Reads, Holding, InBackup, Own
    <3> QED BY <3>0, <3>1, <3>2, <3>3
  <2>2. CASE Look(p)
    <3> DEFINE l == Min(todo[p])
               s == [snap[p] EXCEPT ![l] = file[l]]
               v == Verdict(cmd[p], s)
    <3>0. cmd[p].op \in {"load", "set", "alone", "explicit"}
      BY MigrationAssumption DEF ControlOK, Command
    <3>1. snap' = [snap EXCEPT ![p] = s] /\ pc[p] = "preflight"
      BY <2>2 DEF Look, See
    <3>2. snap'[p] = s
      BY <3>1 DEF DataOK
    <3>3. \A k \in Layers : k \notin todo[p] \/ k = l => s[k] # None
      BY <1>d, <3>1, Documents DEF StageOf, DataOK
    <3>4. CASE todo[p] = {l}
      <4>1. pc'[p] = v
        BY <2>2, <3>4, <1>c DEF Look
      <4>2. \A k \in Layers : s[k] # None
        BY <3>3, <3>4
      <4>3. \/ v = "check" /\ cmd[p].op = "load" /\ Safe(s)
            \/ v = "edit" /\ cmd[p].op = "set" /\ ~IsLegacy(s[Own(p)])
            \/ v = "lock" /\ cmd[p].op = "set" /\ IsLegacy(s[Own(p)])
            \/ v = "failed"
        BY DEF Verdict, Own
      <4> HIDE DEF s, v, l
      <4> QED BY <1>d, <2>0, <3>2, <4>1, <4>2, <4>3
              DEF StageOf, Migrates, Reads, Holding, InBackup, Own
    <3>5. CASE todo[p] # {l}
      <4>1. UNCHANGED pc /\ todo' = [todo EXCEPT ![p] = @ \ {l}]
        BY <2>2, <3>5 DEF Look
      <4>2. pc'[p] = "preflight" /\ todo'[p] = todo[p] \ {l}
        BY <3>1, <4>1 DEF DataOK
      <4>3. \A k \in Layers \ todo'[p] : s[k] # None
        BY <3>3, <4>2
      <4> HIDE DEF s, l
      <4> QED BY <3>2, <4>2, <4>3 DEF StageOf, Migrates, Reads, Holding, InBackup
    <3> QED BY <3>4, <3>5
  <2>3. CASE Check(p)
    <3>1. pc'[p] \in {"check", "loaded", "failed"} /\ UNCHANGED snap /\ pc[p] = "check"
      BY <2>3 DEF Check, Go, ControlOK
    <3> QED BY <1>d, <2>0, <3>1 DEF StageOf, Migrates, Reads, Holding, InBackup, Own
  <2>4. CASE Lock(p)
    <3>1. Go(p, "reread") /\ UNCHANGED snap /\ pc[p] = "lock"
      BY <2>4 DEF Lock
    <3> QED BY <1>d, <1>g, <2>0, <3>1 DEF Migrates, StageOf
  <2>5. CASE LockTimesOut(p)
    BY <2>0, <2>5, <1>f DEF LockTimesOut, Finish
  <2>6. CASE Reread(p)
    <3>1. pc[p] = "reread" /\ cmd[p].op # "load"
      BY <1>d, <2>6 DEF Reread, StageOf, Holding
    <3>2. CASE Finish(p, "failed") \/ Finish(p, "loaded")
      BY <2>0, <3>1, <3>2, <1>f DEF Finish
    <3>3. CASE ~(Finish(p, "failed") \/ Finish(p, "loaded"))
      <4>1. /\ Go(p, "backup") /\ See(p, Own(p))
            /\ IsLegacy(file[Own(p)]) \/ file[Own(p)] = snap[p][Own(p)]
        BY <2>6, <3>3 DEF Reread
      <4>2. IsLegacy(snap[p][Own(p)])
        BY <1>d, <3>1 DEF StageOf, Migrates
      <4>3. /\ pc'[p] = "backup" /\ snap'[p][Own(p)] = file[Own(p)] /\ snap'[p][Own(p)] # None
            /\ \A k \in Layers \ {Own(p)} : snap'[p][k] = snap[p][k]
        BY <4>1, <1>c, <1>d, <1>e
      <4>4. cmd[p].op = "set" => \A k \in Layers : snap'[p][k] # None
        BY <1>d, <3>1, <4>3 DEF StageOf, Migrates
      <4> QED BY <2>0, <3>1, <4>1, <4>2, <4>3, <4>4 DEF StageOf, Migrates, Reads, Holding, InBackup, Own
    <3> QED BY <3>2, <3>3
  <2>7. CASE Backup(p) \/ WriteBackup(p) \/ SyncBackup(p) \/ SyncEntry(p) \/ Validate(p)
    <3>1. /\ UNCHANGED snap /\ pc[p] \in Migrates /\ pc[p] \in Holding
          /\ \E to \in {"write", "sync", "entry", "validate", "rename", "deferred"} : Go(p, to)
      BY <2>7 DEF Backup, WriteBackup, SyncBackup, SyncEntry, Validate, Finish, Migrates, Reads, Holding, InBackup
    <3>2. cmd[p].op # "load"
      BY <1>d, <3>1 DEF StageOf
    <3> QED BY <2>0, <3>1, <3>2, <1>f, <1>g DEF Migrates, Reads
  <2>8. CASE Rename(p)
    <3>1. pc'[p] = "settle" /\ pc[p] = "rename"
      BY <2>8, <1>c DEF Rename
    <3> QED BY <1>d, <2>0, <3>1 DEF StageOf, Migrates, Reads, Holding, InBackup, Own
  <2>9. CASE Settle(p)
    <3>1. /\ Finish(p, IF cmd[p].op = "set" THEN "reload" ELSE "loaded")
          /\ pc[p] = "settle"
      BY <2>9 DEF Settle
    <3>2. cmd[p].op # "load" /\ pc'[p] = IF cmd[p].op = "set" THEN "reload" ELSE "loaded"
      BY <1>c, <1>d, <3>1 DEF StageOf, Holding, Finish
    <3> QED BY <2>0, <3>2 DEF StageOf, Migrates, Reads, Holding, InBackup, Own
  <2>10. CASE Reload(p)
    <3>1. /\ See(p, Own(p)) /\ Go(p, IF IsLegacy(file[Own(p)]) THEN "failed" ELSE "edit")
          /\ pc[p] = "reload"
      BY <2>10 DEF Reload
    <3>2. /\ pc'[p] = IF IsLegacy(file[Own(p)]) THEN "failed" ELSE "edit"
          /\ snap'[p][Own(p)] = file[Own(p)] /\ snap'[p][Own(p)] # None
      BY <3>1, <1>c, <1>d, <1>e
    <3> QED BY <1>d, <2>0, <3>1, <3>2 DEF StageOf, Migrates, Reads, Holding, InBackup, Own
  <2>11. CASE Edit(p)
    <3>1. (Finish(p, "failed") \/ Finish(p, "loaded")) /\ pc[p] = "edit"
      BY <2>11 DEF Edit
    <3>2. cmd[p].op # "load"
      BY <1>d, <3>1 DEF StageOf
    <3> QED BY <2>0, <3>1, <3>2, <1>f DEF Finish
  <2>12. CASE Again(p)
    <3>1. pc'[p] = "start"
      BY <2>12, <1>c DEF Again
    <3> QED BY <3>1 DEF StageOf, Migrates, Reads, Holding, InBackup
  <2> QED BY <1>1, <2>1, <2>2, <2>3, <2>4, <2>5, <2>6, <2>7, <2>8, <2>9, <2>10, <2>11, <2>12 DEF Work
<1>2. ASSUME NEW p \in Procs, Fail(p) PROVE StageOf(p)'
  <2>1. UNCHANGED cmd
    BY <1>2, Acts
  <2>2. \E to \in {"deferred", "failed"} : Go(p, to)
    BY <1>2 DEF Fail, SecretsFail, BackupFails, WriteFails, Crash, Finish
  <2> QED BY <2>1, <2>2, <1>f
<1>3. ASSUME NEW l \in Layers, OldWrite(l) PROVE StageInv'
  <2>1. UNCHANGED <<cmd, pc, todo, snap>>
    BY <1>3 DEF OldWrite, procs
  <2> QED BY <2>1, <1>a DEF Still, StageInv
<1>4. CASE PowerLoss
  <2>1. \A p \in Procs : pc'[p] = "failed"
    BY <1>4 DEF PowerLoss
  <2> QED BY <2>1 DEF StageInv, StageOf, Migrates, Reads, Holding, InBackup
<1>5. CASE UNCHANGED vars
  <2>1. UNCHANGED <<cmd, pc, todo, snap>>
    BY <1>5 DEF vars, procs
  <2> QED BY <2>1, <1>a DEF Still, StageInv
<1> QED BY <1>b, <1>1, <1>2, <1>3, <1>4, <1>5 DEF Next

\* A change of one file.
LEMMA OneFile ==
    ASSUME DataOK, NEW l \in Layers, NEW c, NEW S,
           file' = [file EXCEPT ![l] = c], fdur' = [fdur EXCEPT ![l] = S]
    PROVE  /\ file'[l] = c /\ fdur'[l] = S
           /\ \A k \in Layers \ {l} : file'[k] = file[k] /\ fdur'[k] = fdur[k]
BY DEF DataOK

LEMMA Edited ==
    ASSUME Types, NEW p \in Procs, NEW d \in Docs, Edits(p, d)
    PROVE  LET l == Own(p) IN
           /\ file'[l].from = file[l].from /\ IsLegacy(file'[l]) = IsLegacy(file[l]) /\ fdur'[l] = {file'[l]}
           /\ \A k \in Layers \ {l} : file'[k] = file[k] /\ fdur'[k] = fdur[k]
<1>1. Own(p) \in Layers /\ file[Own(p)] \in Contents
  BY Owned DEF Types, DataOK
<1>2. file'[Own(p)] = [file[Own(p)] EXCEPT !.doc = Convert(d)] /\ fdur'[Own(p)] = {file'[Own(p)]}
  BY <1>1 DEF Edits, Types, DataOK
<1>3. \A k \in Layers \ {Own(p)} : file'[k] = file[k] /\ fdur'[k] = fdur[k]
  BY <1>1 DEF Edits, Types, DataOK
<1> QED BY <1>1, <1>2, <1>3 DEF Contents, IsLegacy

LEMMA DurableNext == Types /\ DurableInv /\ [Next]_vars => DurableInv'
<1> SUFFICES ASSUME Types, DurableInv, [Next]_vars, NEW l \in Layers
             PROVE  /\ file'[l] \in fdur'[l] /\ (IsLegacy(file'[l]) => fdur'[l] = {file'[l]})
                    /\ \A c \in fdur'[l] : ~IsLegacy(c) => c.from # None
  BY DEF DurableInv, Layers, IsLegacy
<1> DEFINE Goal == /\ file'[l] \in fdur'[l] /\ (IsLegacy(file'[l]) => fdur'[l] = {file'[l]})
                   /\ \A c \in fdur'[l] : ~IsLegacy(c) => c.from # None
<1>a. /\ file[l] \in fdur[l] /\ (IsLegacy(file[l]) => fdur[l] = {file[l]})
      /\ \A c \in fdur[l] : ~IsLegacy(c) => c.from # None
  BY DEF DurableInv
<1>1. CASE Quiet
  BY <1>a, <1>1 DEF Quiet
<1>2. ASSUME NEW p \in Procs, Rename(p) PROVE Goal
  <2> DEFINE d == snap[p][Own(p)].doc
             c == Migrated(d)
  <2>1. /\ Own(p) \in Layers /\ file' = [file EXCEPT ![Own(p)] = c]
        /\ fdur' = [fdur EXCEPT ![Own(p)] = fdur[Own(p)] \cup {c}]
    BY <1>2, Owned DEF Rename, Types
  <2>2. d \in Docs
    BY <1>2, Seen DEF Rename, Reads, Types
  <2>3. ~IsLegacy(c) /\ c.from # None
    BY <2>2, Documents DEF Migrated, IsLegacy
  <2> HIDE DEF c
  <2>4. /\ file'[Own(p)] = c /\ fdur'[Own(p)] = fdur[Own(p)] \cup {c}
        /\ \A k \in Layers \ {Own(p)} : file'[k] = file[k] /\ fdur'[k] = fdur[k]
    BY <2>1, OneFile DEF Types
  <2> QED BY <1>a, <2>3, <2>4
<1>3. ASSUME NEW p \in Procs, NEW d \in Docs, Edits(p, d) PROVE Goal
  BY <1>a, <1>3, Edited
<1>4. ASSUME NEW k \in Layers, OldWrite(k) PROVE Goal
  <2>1. PICK d \in Docs : file' = [file EXCEPT ![k] = Legacy(d)] /\ fdur' = [fdur EXCEPT ![k] = {file'[k]}]
    BY <1>4 DEF OldWrite
  <2>2. file' = [file EXCEPT ![k] = Legacy(d)] /\ fdur' = [fdur EXCEPT ![k] = {Legacy(d)}]
    BY <2>1 DEF Types, DataOK
  <2>3. /\ file'[k] = Legacy(d) /\ fdur'[k] = {Legacy(d)}
        /\ \A j \in Layers \ {k} : file'[j] = file[j] /\ fdur'[j] = fdur[j]
    BY <2>2, OneFile DEF Types
  <2>4. IsLegacy(Legacy(d))
    BY DEF IsLegacy, Legacy
  <2> QED BY <1>a, <2>3, <2>4
<1>5. CASE PowerLoss
  BY <1>a, <1>5 DEF PowerLoss
<1> QED BY <1>1, <1>2, <1>3, <1>4, <1>5, FileSteps

LEMMA SameCommand == Types /\ [Next]_vars => UNCHANGED cmd
BY Acts DEF Next, OldWrite, PowerLoss, vars, procs

\* What a process sees of a file is what is there, and it starts over with nothing.
LEMMA SnapSteps ==
    ASSUME Types, [Next]_vars, NEW q \in Procs
    PROVE  /\ UNCHANGED cmd
           /\ \A l \in Layers : \/ snap'[q][l] \in {snap[q][l], None}
                                \/ snap'[q][l] = file[l] /\ UNCHANGED file
           /\ pc[q] = "failed" /\ pc'[q] # "failed" => \A l \in Layers : snap'[q][l] = None
           /\ pc'[q] \in Reads => \/ pc[q] \in Reads /\ snap'[q] = snap[q]
                                  \/ snap'[q][Own(q)] = file[Own(q)] /\ UNCHANGED file
<1> USE DEF Types
<1> DEFINE Goal == /\ \A l \in Layers : \/ snap'[q][l] \in {snap[q][l], None}
                                        \/ snap'[q][l] = file[l] /\ UNCHANGED file
                   /\ pc[q] = "failed" /\ pc'[q] # "failed" => \A l \in Layers : snap'[q][l] = None
                   /\ pc'[q] \in Reads => \/ pc[q] \in Reads /\ snap'[q] = snap[q]
                                          \/ snap'[q][Own(q)] = file[Own(q)] /\ UNCHANGED file
<1>a. ASSUME NEW to, Go(q, to) PROVE pc'[q] = to
  BY <1>a DEF Go, ControlOK
<1>b. ASSUME Still(q) PROVE Goal
  BY <1>b DEF Still
<1>c. ASSUME NEW l, See(q, l), UNCHANGED file
      PROVE  \A k \in Layers : snap'[q][k] = snap[q][k] \/ (snap'[q][k] = file[k] /\ UNCHANGED file)
  <2>1. \A k \in Layers : snap'[q][k] = snap[q][k] \/ snap'[q][k] = file[k]
    BY <1>c DEF See, DataOK
  <2> QED BY <1>c, <2>1
<1>d. ASSUME NEW to, Go(q, to), UNCHANGED snap, pc[q] # "failed", to \in Reads => pc[q] \in Reads PROVE Goal
  BY <1>a, <1>d
<1>e. ASSUME NEW to, Go(q, to) \/ UNCHANGED pc, to \notin Reads, pc[q] \notin Reads \cup {"failed"},
             UNCHANGED file, (\E l : See(q, l)) \/ UNCHANGED snap
      PROVE  Goal
  <2>1. pc'[q] \notin Reads
    BY <1>a, <1>e
  <2> QED BY <1>c, <1>e, <2>1
<1>1. ASSUME Work(q) PROVE Goal
  <2>1. CASE Start(q)
    <3>1. cmd[q].op \in {"load", "set", "alone", "explicit"}
      BY MigrationAssumption DEF ControlOK, Command
    <3>2. \E to \in {"preflight", "edit", "lock", "loaded"} : Go(q, to)
      BY <2>1, <3>1 DEF Start
    <3>3. (See(q, Own(q)) \/ UNCHANGED snap) /\ UNCHANGED file /\ pc[q] = "start"
      BY <2>1, <3>1 DEF Start, files
    <3> QED BY <3>2, <3>3, <1>e DEF Reads
  <2>2. CASE Look(q)
    <3>1. \E to \in {"preflight", "check", "edit", "lock", "failed"} : Go(q, to)
      BY <2>2 DEF Look, Verdict, Go, ControlOK
    <3>2. See(q, Min(todo[q])) /\ UNCHANGED file /\ pc[q] = "preflight"
      BY <2>2 DEF Look, files
    <3> QED BY <3>1, <3>2, <1>e DEF Reads
  <2>3. CASE Check(q)
    <3>1. \E to \in {"check", "failed", "loaded"} : Go(q, to)
      BY <2>3 DEF Check, Go, ControlOK
    <3> QED BY <2>3, <3>1, <1>d DEF Check, Reads
  <2>4. CASE Lock(q) \/ LockTimesOut(q) \/ WriteBackup(q) \/ SyncBackup(q) \/ SyncEntry(q) \/ Validate(q)
    <3>1. \E to : Go(q, to) /\ (to \in Reads => pc[q] \in Reads)
      BY <2>4 DEF Lock, LockTimesOut, WriteBackup, SyncBackup, SyncEntry, Validate, Finish, Reads
    <3>2. UNCHANGED snap /\ pc[q] # "failed"
      BY <2>4 DEF Lock, LockTimesOut, WriteBackup, SyncBackup, SyncEntry, Validate, Finish
    <3> QED BY <3>1, <3>2, <1>d
  <2>5. CASE Rename(q)
    BY <2>5, <1>d DEF Rename, Reads
  <2>6. CASE Backup(q)
    <3>1. pc[q] = "backup" /\ UNCHANGED snap /\ \E to : Go(q, to)
      BY <2>6 DEF Backup, Finish
    <3> QED BY <3>1, <1>d DEF Reads
  <2>7. CASE Reread(q)
    <3>1. pc[q] = "reread" /\ UNCHANGED file
      BY <2>7 DEF Reread, files
    <3>2. CASE Finish(q, "failed") \/ Finish(q, "loaded")
      BY <3>1, <3>2, <1>d DEF Finish, Reads
    <3>3. CASE ~(Finish(q, "failed") \/ Finish(q, "loaded"))
      <4>1. See(q, Own(q)) /\ Go(q, "backup")
        BY <2>7, <3>3 DEF Reread
      <4>2. snap'[q][Own(q)] = file[Own(q)]
        BY <4>1, Owned DEF See, DataOK
      <4> QED BY <3>1, <4>1, <4>2, <1>c
    <3> QED BY <3>2, <3>3
  <2>8. CASE Settle(q) \/ Edit(q)
    <3>1. \E to \in {"reload", "loaded", "failed"} : Finish(q, to)
      BY <2>8 DEF Settle, Edit
    <3>2. pc[q] \in {"settle", "edit"}
      BY <2>8 DEF Settle, Edit
    <3> QED BY <3>1, <3>2, <1>d DEF Finish, Reads
  <2>9. CASE Reload(q)
    <3>1. \E to \in {"failed", "edit"} : Go(q, to)
      BY <2>9 DEF Reload
    <3>2. See(q, Own(q)) /\ UNCHANGED file /\ pc[q] = "reload"
      BY <2>9 DEF Reload, files
    <3> QED BY <3>1, <3>2, <1>e DEF Reads
  <2>10. CASE Again(q)
    <3>1. \A l \in Layers : snap'[q][l] = None
      BY <2>10 DEF Again, DataOK
    <3>2. pc'[q] = "start"
      BY <2>10, <1>a DEF Again
    <3> QED BY <3>1, <3>2 DEF Reads
  <2> QED BY <1>1, <2>1, <2>2, <2>3, <2>4, <2>5, <2>6, <2>7, <2>8, <2>9, <2>10 DEF Work
<1>2. ASSUME Fail(q) PROVE Goal
  <2>1. UNCHANGED snap /\ \E to \in {"deferred", "failed"} : Go(q, to)
    BY <1>2 DEF Fail, SecretsFail, BackupFails, WriteFails, Crash, Finish
  <2>2. pc'[q] \in {"deferred", "failed"} /\ pc[q] # "failed"
    BY <1>2, <2>1, <1>a DEF Fail, SecretsFail, BackupFails, WriteFails, Crash, InBackup, Ended
  <2> QED BY <2>1, <2>2 DEF Reads
<1>3. ASSUME NEW p \in Procs, Work(p) \/ Fail(p) PROVE UNCHANGED cmd /\ Goal
  <2>1. CASE p = q
    BY <1>1, <1>2, <1>3, <2>1, Acts
  <2>2. CASE p # q
    BY <1>3, <1>b, <2>2, Acts
  <2> QED BY <2>1, <2>2
<1>4. ASSUME NEW l \in Layers, OldWrite(l) PROVE UNCHANGED cmd /\ Goal
  BY <1>4, <1>b DEF OldWrite, procs, Still
<1>5. CASE PowerLoss
  BY <1>5 DEF PowerLoss, Reads
<1>6. CASE UNCHANGED vars
  BY <1>6, <1>b DEF vars, procs, Still
<1>7. UNCHANGED cmd /\ Goal
  BY <1>3, <1>4, <1>5, <1>6 DEF Next
<1> QED BY <1>7

LEMMA Disturbs == [Next]_vars /\ ~disturbed' => ~disturbed
BY DEF Next, Work, Fail, Start, Look, Check, Lock, LockTimesOut, Reread, Backup, WriteBackup, SyncBackup,
   SyncEntry, Validate, Rename, Settle, Reload, Edit, Again, SecretsFail, BackupFails, WriteFails, Crash,
   OldWrite, PowerLoss, marks, vars

\* The file that a migration replaces is the legacy one it read.
LEMMA Renamed ==
    ASSUME Types, StageInv, HeldInv, NEW p \in Procs, Rename(p)
    PROVE  LET l == Own(p)
               c == Migrated(file[l].doc)
           IN  /\ IsLegacy(file[l]) /\ file'[l] = c /\ fdur'[l] = fdur[l] \cup {c}
               /\ \A k \in Layers \ {l} : file'[k] = file[k] /\ fdur'[k] = fdur[k]
               /\ UNCHANGED snap /\ pc[p] = "rename" /\ pc'[p] = "settle"
               /\ \A q \in Procs \ {p} : pc'[q] = pc[q]
<1> DEFINE l == Own(p)
           c == Migrated(file[l].doc)
<1>1. pc[p] = "rename" /\ pc' = [pc EXCEPT ![p] = "settle"] /\ UNCHANGED snap
  BY DEF Rename, Go
<1>2. file[l] = snap[p][l] /\ IsLegacy(file[l])
  BY <1>1 DEF HeldInv, StageInv, StageOf, Migrates, Reads
<1>3. l \in Layers /\ file' = [file EXCEPT ![l] = c] /\ fdur' = [fdur EXCEPT ![l] = fdur[l] \cup {c}]
  BY <1>2, Owned DEF Rename, Types
<1> HIDE DEF c
<1>4. /\ file'[l] = c /\ fdur'[l] = fdur[l] \cup {c}
      /\ \A k \in Layers \ {l} : file'[k] = file[k] /\ fdur'[k] = fdur[k]
  BY <1>3, OneFile DEF Types
<1>5. pc'[p] = "settle" /\ \A q \in Procs \ {p} : pc'[q] = pc[q]
  BY <1>1 DEF Types, ControlOK
<1> QED BY <1>1, <1>2, <1>4, <1>5 DEF c

\* An older gcx that disturbs nothing writes beside legacy files what nobody has seen.
LEMMA OldWritten ==
    ASSUME Types, NEW l \in Layers, OldWrite(l), ~disturbed'
    PROVE  /\ \E d \in Docs : file'[l] = Legacy(d) /\ fdur'[l] = {Legacy(d)}
           /\ \A k \in Layers \ {l} : file'[k] = file[k] /\ fdur'[k] = fdur[k] /\ IsLegacy(file[k])
           /\ \A p \in Procs : snap[p][l] = None
           /\ UNCHANGED <<cmd, pc, todo, snap>>
<1>1. PICK d \in Docs : file' = [file EXCEPT ![l] = Legacy(d)] /\ fdur' = [fdur EXCEPT ![l] = {file'[l]}]
  BY DEF OldWrite
<1>2. file' = [file EXCEPT ![l] = Legacy(d)] /\ fdur' = [fdur EXCEPT ![l] = {Legacy(d)}]
  BY <1>1 DEF Types, DataOK
<1>3. /\ file'[l] = Legacy(d) /\ fdur'[l] = {Legacy(d)}
      /\ \A j \in Layers \ {l} : file'[j] = file[j] /\ fdur'[j] = fdur[j]
  BY <1>2, OneFile DEF Types
<1>4. (\A k \in Layers \ {l} : IsLegacy(file[k])) /\ \A p \in Procs : snap[p][l] = None
  BY DEF OldWrite
<1>5. UNCHANGED <<cmd, pc, todo, snap>>
  BY DEF OldWrite, procs
<1> QED BY <1>3, <1>4, <1>5

LEMMA Lost ==
    ASSUME PowerLoss
    PROVE  /\ \A l \in Layers : file'[l] \in fdur[l] /\ fdur'[l] = {file'[l]}
           /\ UNCHANGED <<snap, apart, disturbed>> /\ \A p \in Procs : pc'[p] = "failed"
BY DEF PowerLoss

\* Only an older gcx gives a layer another original.
LEMMA SameOrigin ==
    ASSUME Types, DurableInv, StageInv, OriginInv, HeldInv, [Next]_vars, NEW l \in Layers, ~OldWrite(l)
    PROVE  \A c \in fdur'[l] \cup {file'[l]} : Original(c) = Original(file[l])
<1>a. \A c \in fdur[l] : Original(c) = Original(file[l])
  BY DEF OriginInv
<1>1. CASE Quiet
  BY <1>a, <1>1 DEF Quiet
<1>2. ASSUME NEW p \in Procs, Rename(p)
      PROVE  \A c \in fdur'[l] \cup {file'[l]} : Original(c) = Original(file[l])
  <2>1. IsLegacy(file[l]) => Original(Migrated(file[l].doc)) = Original(file[l])
    BY DEF Original, Migrated, IsLegacy
  <2>2. CASE l = Own(p)
    <3>1. /\ IsLegacy(file[l]) /\ file'[l] = Migrated(file[l].doc)
          /\ fdur'[l] = fdur[l] \cup {Migrated(file[l].doc)}
      BY <1>2, <2>2, Renamed
    <3> QED BY <1>a, <2>1, <3>1
  <2>3. CASE l # Own(p)
    <3>1. file'[l] = file[l] /\ fdur'[l] = fdur[l]
      BY <1>2, <2>3, Renamed
    <3> QED BY <1>a, <3>1
  <2> QED BY <2>2, <2>3
<1>3. ASSUME NEW p \in Procs, NEW d \in Docs, Edits(p, d)
      PROVE  \A c \in fdur'[l] \cup {file'[l]} : Original(c) = Original(file[l])
  <2>1. CASE l = Own(p)
    <3>1. file'[l].from = file[l].from /\ IsLegacy(file'[l]) = IsLegacy(file[l]) /\ fdur'[l] = {file'[l]}
      BY <1>3, <2>1, Edited
    <3>2. ~IsLegacy(file[l])
      BY <1>3, <2>1 DEF Edits, StageInv, StageOf
    <3> QED BY <3>1, <3>2 DEF Original
  <2>2. CASE l # Own(p)
    <3>1. file'[l] = file[l] /\ fdur'[l] = fdur[l]
      BY <1>3, <2>2, Edited
    <3> QED BY <1>a, <3>1
  <2> QED BY <2>1, <2>2
<1>4. ASSUME NEW k \in Layers, OldWrite(k)
      PROVE  \A c \in fdur'[l] \cup {file'[l]} : Original(c) = Original(file[l])
  <2>1. file'[l] = file[l] /\ fdur'[l] = fdur[l]
    BY <1>4 DEF OldWrite, Types, DataOK
  <2> QED BY <1>a, <2>1
<1>5. CASE PowerLoss
  BY <1>a, <1>5, Lost
<1> QED BY <1>1, <1>2, <1>3, <1>4, <1>5, FileSteps

LEMMA OriginNext ==
    ASSUME Types, DurableInv, StageInv, OriginInv, HeldInv, [Next]_vars, ~disturbed'
    PROVE  OriginInv'
<1> SUFFICES ASSUME NEW l \in Layers
             PROVE  /\ \A c \in fdur'[l] : Original(c) = Original(file'[l])
                    /\ \A p \in Procs : snap'[p][l] # None => Original(snap'[p][l]) = Original(file'[l])
  BY DEF OriginInv, Original, IsLegacy, Layers
<1>1. CASE OldWrite(l)
  BY <1>1, OldWritten
<1>2. CASE ~OldWrite(l)
  <2>1. \A c \in fdur'[l] \cup {file'[l]} : Original(c) = Original(file[l])
    BY <1>2, SameOrigin
  <2>2. \A p \in Procs : snap[p][l] # None => Original(snap[p][l]) = Original(file[l])
    BY DEF OriginInv
  <2>3. \A p \in Procs : snap'[p][l] \in {snap[p][l], None} \/ snap'[p][l] = file[l]
    BY SnapSteps
  <2> QED BY <2>1, <2>2, <2>3
<1> QED BY <1>1, <1>2

LEMMA HeldNext ==
    ASSUME Types, DurableInv, StageInv, HeldInv, [Next]_vars, ~disturbed'
    PROVE  HeldInv'
<1> SUFFICES ASSUME NEW p \in Procs
             PROVE  /\ pc'[p] \in Reads => file'[Own(p)] = snap'[p][Own(p)]
                    /\ \A l \in Layers : pc'[p] # "failed" /\ snap'[p][l] # None /\ ~IsLegacy(snap'[p][l])
                                            => ~IsLegacy(file'[l])
  <2>1. UNCHANGED cmd
    BY SameCommand
  <2> QED BY <2>1 DEF HeldInv, Own, IsLegacy
<1>a. /\ Own(p) \in Layers
      /\ pc[p] \in Reads => file[Own(p)] = snap[p][Own(p)]
      /\ \A l \in Layers : pc[p] # "failed" /\ snap[p][l] # None /\ ~IsLegacy(snap[p][l]) => ~IsLegacy(file[l])
  BY Owned DEF HeldInv, Types
<1>b. /\ pc[p] \in Reads => snap[p][Own(p)] # None
      /\ pc[p] \in Reads => lock[Own(p)] = p
  BY <1>a DEF StageInv, StageOf, Migrates, Reads, Types, ControlOK, Holding, InBackup
<1>1. CASE Quiet
  <2>1. UNCHANGED file
    BY <1>1 DEF Quiet
  <2>2. /\ \A l \in Layers : snap'[p][l] \in {snap[p][l], None} \/ snap'[p][l] = file[l]
        /\ pc[p] = "failed" /\ pc'[p] # "failed" => \A l \in Layers : snap'[p][l] = None
        /\ pc'[p] \in Reads => \/ pc[p] \in Reads /\ snap'[p] = snap[p]
                               \/ snap'[p][Own(p)] = file[Own(p)]
    BY SnapSteps
  <2> QED BY <1>a, <2>1, <2>2
<1>2. ASSUME NEW q \in Procs, Rename(q)
      PROVE  /\ pc'[p] \in Reads => file'[Own(p)] = snap'[p][Own(p)]
             /\ \A l \in Layers : pc'[p] # "failed" /\ snap'[p][l] # None /\ ~IsLegacy(snap'[p][l])
                                     => ~IsLegacy(file'[l])
  <2>1. /\ IsLegacy(file[Own(q)]) /\ file'[Own(q)] = Migrated(file[Own(q)].doc)
        /\ \A k \in Layers \ {Own(q)} : file'[k] = file[k]
        /\ UNCHANGED snap /\ pc[q] = "rename" /\ pc'[q] = "settle"
        /\ \A r \in Procs \ {q} : pc'[r] = pc[r]
    BY <1>2, Renamed
  <2>2. ~IsLegacy(Migrated(file[Own(q)].doc))
    BY DEF Migrated, IsLegacy
  <2>3. pc'[p] \in Reads => pc[p] \in Reads /\ Own(p) # Own(q)
    <3>1. pc'[p] \in Reads => p # q /\ pc[p] \in Reads
      BY <2>1 DEF Reads
    <3>2. pc[p] \in Reads => pc[p] \in Holding
      BY DEF Reads, Holding, InBackup
    <3>3. pc[q] \in Holding
      BY <2>1 DEF Holding
    <3> QED BY <3>1, <3>2, <3>3, Alone DEF Types
  <2>4. pc[p] = "failed" => pc'[p] = "failed"
    BY <2>1
  <2> QED BY <1>a, <2>1, <2>2, <2>3, <2>4
<1>3. ASSUME NEW q \in Procs, NEW d \in Docs, Edits(q, d)
      PROVE  /\ pc'[p] \in Reads => file'[Own(p)] = snap'[p][Own(p)]
             /\ \A l \in Layers : pc'[p] # "failed" /\ snap'[p][l] # None /\ ~IsLegacy(snap'[p][l])
                                     => ~IsLegacy(file'[l])
  <2>1. /\ IsLegacy(file'[Own(q)]) = IsLegacy(file[Own(q)])
        /\ \A k \in Layers \ {Own(q)} : file'[k] = file[k]
    BY <1>3, Edited
  <2>2. /\ UNCHANGED snap /\ lock[Own(q)] = None /\ pc[q] = "edit" /\ pc'[q] = "loaded"
        /\ \A r \in Procs \ {q} : pc'[r] = pc[r]
    BY <1>3 DEF Edits, Types, ControlOK
  <2>3. pc'[p] \in Reads => pc[p] \in Reads /\ Own(p) # Own(q)
    <3>1. pc'[p] \in Reads => p # q /\ pc[p] \in Reads
      BY <2>2 DEF Reads
    <3> QED BY <1>b, <2>2, <3>1, Documents
  <2>4. pc[p] = "failed" => pc'[p] = "failed"
    BY <2>2
  <2> QED BY <1>a, <2>1, <2>2, <2>3, <2>4
<1>4. ASSUME NEW k \in Layers, OldWrite(k)
      PROVE  /\ pc'[p] \in Reads => file'[Own(p)] = snap'[p][Own(p)]
             /\ \A l \in Layers : pc'[p] # "failed" /\ snap'[p][l] # None /\ ~IsLegacy(snap'[p][l])
                                     => ~IsLegacy(file'[l])
  <2>1. /\ \A l \in Layers \ {k} : file'[l] = file[l]
        /\ snap[p][k] = None /\ UNCHANGED <<snap, pc>>
    BY <1>4, OldWritten
  <2> QED BY <1>a, <1>b, <2>1
<1>5. CASE PowerLoss
  BY <1>5, Lost DEF Reads
<1> QED BY <1>1, <1>2, <1>3, <1>4, <1>5, FileSteps

\* Somewhere there is an edited file, or was when it was read.
EditedSomewhere ==
    \/ \E l \in Layers : \E c \in fdur[l] : IsEdited(c)
    \/ \E p \in Procs, l \in Layers : snap[p][l] # None /\ IsEdited(snap[p][l])

LEMMA EditNext ==
    ASSUME Types, DurableInv, StageInv, HeldInv, EditInv, [Next]_vars, ~disturbed'
    PROVE  EditInv'
<1> SUFFICES ASSUME EditedSomewhere', NEW l \in Layers, NEW c \in fdur'[l], IsLegacy(c) PROVE FALSE
  BY DEF EditInv, EditedSomewhere, IsEdited, IsLegacy, Layers
<1>a. EditedSomewhere => \A k \in Layers : \A b \in fdur[k] : ~IsLegacy(b)
  BY DEF EditInv, EditedSomewhere
<1>b. \A k \in Layers : file[k] \in fdur[k] /\ (IsLegacy(file[k]) => fdur[k] = {file[k]})
  BY DEF DurableInv
<1>c. ASSUME \A k \in Layers : \A b \in fdur'[k] : IsEdited(b) => \E e \in fdur[k] : IsEdited(e)
      PROVE  EditedSomewhere
  <2>1. ASSUME NEW p \in Procs, NEW k \in Layers
        PROVE  snap'[p][k] \in {snap[p][k], None} \/ snap'[p][k] = file[k]
    BY SnapSteps
  <2> QED BY <1>b, <1>c, <2>1 DEF EditedSomewhere, IsEdited, IsLegacy
<1>1. CASE Quiet
  <2>1. \A k \in Layers : fdur'[k] \subseteq fdur[k]
    BY <1>b, <1>1 DEF Quiet
  <2> QED BY <1>a, <1>c, <2>1
<1>2. ASSUME NEW p \in Procs, Rename(p) PROVE FALSE
  <2> DEFINE m == Migrated(file[Own(p)].doc)
  <2>1. ~IsEdited(m) /\ ~IsLegacy(m)
    BY DEF IsEdited, Migrated, IsLegacy
  <2>2. /\ fdur'[Own(p)] = fdur[Own(p)] \cup {m}
        /\ \A k \in Layers \ {Own(p)} : fdur'[k] = fdur[k]
    BY <1>2, Renamed
  <2> HIDE DEF m
  <2> QED BY <1>a, <1>c, <2>1, <2>2
<1>3. ASSUME NEW p \in Procs, NEW d \in Docs, Edits(p, d) PROVE FALSE
  <2>1. ~IsLegacy(file[Own(p)]) /\ Own(p) \in Layers
    BY <1>3, Owned DEF Edits, StageInv, StageOf, Types
  <2>2. /\ ~IsLegacy(file'[Own(p)]) /\ fdur'[Own(p)] = {file'[Own(p)]}
        /\ \A k \in Layers \ {Own(p)} : fdur'[k] = fdur[k]
    BY <1>3, <2>1, Edited
  <2>3. CASE file' = file
    BY <1>a, <1>b, <1>c, <2>1, <2>2, <2>3
  <2>4. CASE file' # file
    <3>1. \A k \in Layers \ {Own(p)} : \A b \in fdur[k] : ~IsLegacy(b)
      BY <1>3, <2>4 DEF Edits
    <3> QED BY <2>2, <3>1
  <2> QED BY <2>3, <2>4
<1>4. ASSUME NEW k \in Layers, OldWrite(k) PROVE FALSE
  <2>1. PICK d \in Docs : file'[k] = Legacy(d) /\ fdur'[k] = {Legacy(d)}
    BY <1>4, OldWritten
  <2>2. /\ \A j \in Layers \ {k} : file'[j] = file[j] /\ fdur'[j] = fdur[j] /\ IsLegacy(file[j])
        /\ \A p \in Procs : snap[p][k] = None
        /\ UNCHANGED snap
    BY <1>4, OldWritten
  <2>3. ~IsEdited(Legacy(d))
    BY DEF IsEdited, IsLegacy, Legacy
  <2>4. \A j \in Layers \ {k} : fdur[j] = {file[j]}
    BY <1>b, <2>2
  <2>5. PICK p \in Procs, j \in Layers : snap[p][j] # None /\ IsEdited(snap[p][j])
    BY <2>1, <2>2, <2>3, <2>4 DEF EditedSomewhere, IsEdited, IsLegacy
  <2> QED BY <1>a, <2>2, <2>4, <2>5 DEF EditedSomewhere
<1>5. CASE PowerLoss
  BY <1>a, <1>c, <1>5, Lost
<1> QED BY <1>1, <1>2, <1>3, <1>4, <1>5, FileSteps

\* What the original says of stacks is what a conversion says of them.
LEMMA SameStacks ==
    ASSUME NEW d \in Doc, NEW c \in Contexts
    PROVE  Convert(d)[c].stack = d[c].stack
<1>1. d[c] \in Entry
  BY DEF Doc
<1> QED BY <1>1 DEF Convert, Entry

LEMMA StacksOnly ==
    ASSUME NEW d, NEW e, \A l \in Layers : \A c \in Contexts : d[l][c].stack = e[l][c].stack, StacksKept(d)
    PROVE  StacksKept(e)
<1>1. \A c \in Contexts : Stacks(d, c) = Stacks(e, c)
  BY DEF Stacks
<1> QED BY <1>1 DEF StacksKept

LEMMA MergedStack ==
    ASSUME NEW docs, NEW c \in Contexts
    PROVE  Convert(FieldMerge(docs))[c].stack = ByField(Stacks(docs, c), StackFields)
BY DEF Convert, FieldMerge

LEMMA ProofKeepsStacks ==
    ASSUME NEW docs \in [Layers -> Doc], Proven(docs)
    PROVE  StacksKept(docs)
<1> SUFFICES ASSUME NEW c \in Contexts
             PROVE  Whole(Stacks(docs, c), StackFields) = ByField(Stacks(docs, c), StackFields)
  BY DEF StacksKept
<1>1. Stacks(Converted(docs), c) = Stacks(docs, c)
  BY SameStacks DEF Stacks, Converted
<1>2. EntryMerge(Converted(docs))[c].stack = Whole(Stacks(docs, c), StackFields)
  BY <1>1 DEF EntryMerge
<1> QED BY <1>2, MergedStack DEF Proven

\* Stacks of which no two layers have one mean the same in both schemas.
LEMMA Apart ==
    ASSUME NEW docs \in [Layers -> Doc], \A l \in Layers : StackApart(l, docs)
    PROVE  StacksKept(docs)
<1> SUFFICES ASSUME NEW c \in Contexts
             PROVE  Whole(Stacks(docs, c), StackFields) = ByField(Stacks(docs, c), StackFields)
  BY DEF StacksKept
<1> DEFINE g == Stacks(docs, c)
           none == Nothing(StackFields)
           set == {l \in Layers : g[l] # none}
           Of(f) == {l \in Layers : g[l][f] # None}
<1>1. \A l \in Layers : g[l] \in [StackFields -> Value]
  <2>1. \A l \in Layers : docs[l][c] \in Entry
    BY DEF Doc
  <2> QED BY <2>1 DEF Stacks, Entry
<1>2. \A k, l \in Layers : k # l => g[k] = none \/ g[l] = none
  BY DEF Stacks, StackApart
<1>3. Whole(g, StackFields) = IF set = {} THEN none ELSE g[Max(set)]
  BY DEF Whole, Override
<1>4. ByField(g, StackFields) = [f \in StackFields |-> IF Of(f) = {} THEN None ELSE g[Max(Of(f))][f]]
  <2>1. \A f \in StackFields : Override([l \in Layers |-> g[l][f]], None)
          = IF Of(f) = {} THEN None ELSE g[Max(Of(f))][f]
    <3> SUFFICES ASSUME NEW f \in StackFields
                 PROVE  Override([l \in Layers |-> g[l][f]], None) = IF Of(f) = {} THEN None ELSE g[Max(Of(f))][f]
      OBVIOUS
    <3> DEFINE h == [l \in Layers |-> g[l][f]]
    <3>1. {l \in Layers : h[l] # None} = Of(f) /\ \A l \in Layers : h[l] = g[l][f]
      OBVIOUS
    <3> HIDE DEF h
    <3>2. Override(h, None) = IF Of(f) = {} THEN None ELSE h[Max(Of(f))]
      BY <3>1 DEF Override
    <3>3. Of(f) # {} => Max(Of(f)) \in Layers
      <4>1. ASSUME NEW l \in Of(f) PROVE Of(f) = {l}
        BY <1>2, <4>1 DEF Nothing
      <4>2. \A l \in Layers : Max({l}) = l
        BY DEF Max, Layers
      <4> QED BY <4>1, <4>2
    <3> QED BY <3>1, <3>2, <3>3 DEF h
  <2> QED BY <2>1 DEF ByField
<1> HIDE DEF g
<1>5. CASE set = {}
  <2>1. \A f \in StackFields : Of(f) = {}
    BY <1>5 DEF Nothing
  <2> QED BY <1>3, <1>4, <1>5, <2>1 DEF Nothing, g
<1>6. CASE set # {}
  <2>1. PICK l \in Layers : g[l] # none
    BY <1>6
  <2>2. set = {l} /\ Max({l}) = l
    <3>1. set = {l}
      BY <1>2, <2>1
    <3>2. Max({l}) = l
      BY DEF Max, Layers
    <3> QED BY <3>1, <3>2
  <2>3. \A f \in StackFields : Of(f) = IF g[l][f] = None THEN {} ELSE {l}
    BY <1>2, <2>1 DEF Nothing
  <2>4. \A f \in StackFields : (IF Of(f) = {} THEN None ELSE g[Max(Of(f))][f]) = g[l][f]
    BY <2>2, <2>3
  <2>5. Whole(g, StackFields) = g[l]
    BY <1>3, <2>1, <2>2
  <2>6. ByField(g, StackFields) = [f \in StackFields |-> g[l][f]]
    BY <1>4, <2>4
  <2> QED BY <1>1, <2>5, <2>6 DEF g
<1> QED BY <1>5, <1>6

LEMMA OriginalsTyped ==
    ASSUME Types, DurableInv
    PROVE  Originals \in [Layers -> Doc]
<1>1. ASSUME NEW l \in Layers PROVE Original(file[l]) \in Doc
  <2>1. file[l] \in Contents /\ (~IsLegacy(file[l]) => file[l].from # None)
    BY DEF Types, DataOK, DurableInv
  <2> QED BY <2>1, MigrationAssumption DEF Contents, Original
<1> QED BY <1>1 DEF Originals

\* Contents that say what the originals say, and are v1 only where the files are.
Faithful(s) ==
    \A l \in Layers : /\ ~IsEdited(s[l]) /\ Original(s[l]) = Originals[l]
                      /\ ~IsLegacy(s[l]) => ~IsLegacy(file[l])

LEMMA FaithfulDocs ==
    ASSUME Types, DurableInv, NEW s, Faithful(s), NEW l \in Layers
    PROVE  /\ IsLegacy(s[l]) => s[l].doc = Originals[l]
           /\ ~IsLegacy(s[l]) => s[l].doc = Convert(Originals[l])
           /\ \A c \in Contexts : s[l].doc[c].stack = Originals[l][c].stack
<1>1. Originals[l] \in Doc
  BY OriginalsTyped
<1>2. /\ IsLegacy(s[l]) => s[l].doc = Originals[l]
      /\ ~IsLegacy(s[l]) => s[l].doc = Convert(Originals[l])
  BY DEF Faithful, IsEdited, Original
<1> QED BY <1>1, <1>2, SameStacks

\* The contents a preflight ends with, where the layer to migrate is a legacy one.
LEMMA LooksAtOriginals ==
    ASSUME Types, DurableInv, StageInv, OriginInv, HeldInv, EditInv, NEW p \in Procs, Look(p),
           NEW s, s = [snap[p] EXCEPT ![Min(todo[p])] = file[Min(todo[p])]],
           todo[p] = {Min(todo[p])}, IsLegacy(file[Own(p)])
    PROVE  Faithful(s)
<1>1. \A l \in Layers : s[l] # None
  BY Documents DEF StageInv, StageOf, Look, Types, DataOK
<1>2. Own(p) \in Layers /\ file[Own(p)] \in fdur[Own(p)]
  BY Owned DEF Types, DurableInv
<1>3. \A l \in Layers : s[l] = snap[p][l] \/ s[l] = file[l]
  BY DEF Types, DataOK
<1>4. \A l \in Layers : ~IsEdited(s[l]) /\ Original(s[l]) = Original(file[l])
  <2>1. ASSUME NEW l \in Layers, s[l] = file[l] PROVE ~IsEdited(s[l]) /\ Original(s[l]) = Original(file[l])
    BY <1>2, <2>1 DEF DurableInv, EditInv
  <2>2. ASSUME NEW l \in Layers, s[l] = snap[p][l] PROVE ~IsEdited(s[l]) /\ Original(s[l]) = Original(file[l])
    BY <1>1, <1>2, <2>2 DEF OriginInv, EditInv
  <2> QED BY <1>3, <2>1, <2>2
<1>5. \A l \in Layers : ~IsLegacy(s[l]) => ~IsLegacy(file[l])
  BY <1>1, <1>3 DEF HeldInv, Look
<1> QED BY <1>4, <1>5 DEF Faithful, Originals

\* A preflight that lets a legacy layer be migrated has cleared it.
LEMMA Clears ==
    ASSUME NEW only \in Layers, Types, DurableInv, ClearedInv(only), NEW s, Faithful(s),
           NEW l \in Layers, IsLegacy(s[l]), Safe(s) \/ Interrupted(s)
    PROVE  Cleared(l, Originals)
<1>1. Originals \in [Layers -> Doc]
  BY OriginalsTyped
<1>2. CASE \A k \in Layers : IsLegacy(s[k])
  <2>1. DocsOf(s) = Originals
    BY <1>2, FaithfulDocs DEF DocsOf, Originals
  <2>2. Proven(Originals)
    BY <1>2, <2>1 DEF Safe, Interrupted
  <2> QED BY <1>1, <2>2, ProofKeepsStacks DEF Cleared, Shown
<1>3. CASE ~apart /\ \E k \in Layers : ~IsLegacy(s[k])
  BY <1>3 DEF Faithful, ClearedInv, Cleared, Shown
<1>4. CASE apart /\ \E k \in Layers : ~IsLegacy(s[k])
  <2>1. CASE Safe(s)
    <3>1. ~Overlap(s)
      BY <1>4, <2>1 DEF Safe
    <3>2. StackApart(l, Originals)
      BY <3>1, FaithfulDocs DEF Overlap, StackApart
    <3> QED BY <1>4, <3>2 DEF Cleared
  <2>2. CASE Interrupted(s)
    <3> DEFINE docs == [k \in Layers |-> IF IsLegacy(s[k]) THEN s[k].doc ELSE backup[k]]
    <3>1. \A k \in Layers : ~IsLegacy(s[k]) => backup[k] \in Doc /\ Convert(backup[k]) = s[k].doc
      <4>1. \A k \in Layers : backup[k] \in Docs \cup {None, Partial}
        BY DEF Types, DataOK
      <4> QED BY <2>2, <4>1, MigrationAssumption DEF Interrupted
    <3>2. Proven(docs)
      BY <2>2 DEF Interrupted
    <3>3. docs \in [Layers -> Doc]
      BY <1>1, <3>1, FaithfulDocs
    <3>4. \A k \in Layers : \A c \in Contexts : docs[k][c].stack = Originals[k][c].stack
      BY <3>1, FaithfulDocs, SameStacks
    <3> HIDE DEF docs
    <3>5. StacksKept(Originals)
      BY <3>2, <3>3, <3>4, ProofKeepsStacks, StacksOnly
    <3> QED BY <1>4, <3>5 DEF Cleared, Shown
  <2> QED BY <2>1, <2>2
<1> QED BY <1>2, <1>3, <1>4

\* Who migrates in "set" had its layer cleared when it went there.
LEMMA SetSteps ==
    ASSUME NEW only \in Layers, Types, DurableInv, StageInv, OriginInv, HeldInv, EditInv, ClearedInv(only),
           [Next]_vars, NEW p \in Procs,
           pc'[p] \in Migrates, pc[p] \notin Migrates, cmd[p].op = "set", IsLegacy(file[Own(p)])
    PROVE  Cleared(Own(p), Originals)
<1> USE DEF Types
<1>a. ASSUME NEW to, Go(p, to) PROVE pc'[p] = to
  BY <1>a DEF Go, ControlOK
<1>b. ~Still(p) /\ ~PowerLoss
  BY DEF Still, PowerLoss, Migrates, Reads
<1>1. Work(p) \/ Fail(p)
  <2>1. \A l \in Layers : ~OldWrite(l)
    BY <1>b DEF OldWrite, procs, Still
  <2>2. ~UNCHANGED vars
    BY <1>b DEF vars, procs, Still
  <2>3. \E q \in Procs : Work(q) \/ Fail(q)
    BY <1>b, <2>1, <2>2 DEF Next
  <2> QED BY <1>b, <2>3, Acts
<1>2. ~Fail(p)
  <2>1. Fail(p) => \E to \in {"deferred", "failed"} : Go(p, to)
    BY DEF Fail, SecretsFail, BackupFails, WriteFails, Crash, Finish
  <2> QED BY <1>a, <2>1 DEF Migrates, Reads
<1>3. Look(p)
  <2>1. ~Start(p)
    <3>1. Start(p) => \E to \in {"preflight", "edit"} : Go(p, to)
      BY DEF Start
    <3> QED BY <1>a, <3>1 DEF Migrates, Reads
  <2>2. ~Check(p)
    <3>1. Check(p) => \E to \in {"check", "failed", "loaded"} : Go(p, to)
      BY DEF Check, Go, ControlOK
    <3> QED BY <1>a, <3>1 DEF Migrates, Reads
  <2>3. ~(Lock(p) \/ LockTimesOut(p) \/ Reread(p) \/ Backup(p) \/ WriteBackup(p) \/ SyncBackup(p)
          \/ SyncEntry(p) \/ Validate(p) \/ Rename(p))
    BY DEF Lock, LockTimesOut, Reread, Backup, WriteBackup, SyncBackup, SyncEntry, Validate, Rename,
       Migrates, Reads
  <2>4. ~(Settle(p) \/ Edit(p) \/ Reload(p) \/ Again(p))
    <3>1. Settle(p) \/ Edit(p) \/ Reload(p) \/ Again(p)
            => \E to \in {"reload", "loaded", "failed", "edit", "start"} : Go(p, to)
      BY DEF Settle, Edit, Reload, Again, Finish
    <3> QED BY <1>a, <3>1 DEF Migrates, Reads
  <2> QED BY <1>1, <1>2, <2>1, <2>2, <2>3, <2>4 DEF Work
<1> DEFINE s == [snap[p] EXCEPT ![Min(todo[p])] = file[Min(todo[p])]]
<1>4. todo[p] = {Min(todo[p])} /\ Go(p, Verdict(cmd[p], s))
  BY <1>3 DEF Look, Migrates, Reads
<1>5. Verdict(cmd[p], s) \in Migrates
  BY <1>4, <1>a
<1> HIDE DEF s
<1>6. IsLegacy(s[Own(p)]) /\ (Safe(s) \/ Interrupted(s))
  BY <1>5 DEF Verdict, Own, Migrates, Reads
<1>7. Faithful(s)
  BY <1>3, <1>4, LooksAtOriginals DEF s
<1>8. Own(p) \in Layers
  BY Owned
<1> QED BY <1>6, <1>7, <1>8, Clears

\* What was cleared stays so when a file is migrated apart.
LEMMA StaysCleared ==
    ASSUME Types, DurableInv, NEW l \in Layers, Cleared(l, Originals), Originals' = Originals, apart => apart'
    PROVE  Cleared(l, Originals)'
<1>1. /\ Cleared(l, Originals)' <=> (IF apart' THEN StacksKept(Originals) ELSE Proven(Originals))
                                       \/ (apart' /\ StackApart(l, Originals))
      /\ Cleared(l, Originals) <=> (IF apart THEN StacksKept(Originals) ELSE Proven(Originals))
                                       \/ (apart /\ StackApart(l, Originals))
  <2> DEFINE e == Originals
  <2>1. e' = e
    OBVIOUS
  <2> HIDE DEF e
  <2>2. StacksKept(e)' <=> StacksKept(e)
    BY <2>1 DEF StacksKept, Whole, ByField, Override, Stacks, Nothing, Layers
  <2>3. Proven(e)' <=> Proven(e)
    <3>1. Converted(e)' = Converted(e)
      BY <2>1 DEF Converted, Convert, Nothing, Layers
    <3> DEFINE m == Converted(e)
    <3>2. m' = m
      BY <3>1
    <3> HIDE DEF m
    <3>3. EntryMerge(m)' = EntryMerge(m)
      BY <3>2 DEF EntryMerge, Whole, ByField, Override, Stacks, Clouds, Sources, Nothing, Layers
    <3>4. FieldMerge(e)' = FieldMerge(e)
      BY <2>1 DEF FieldMerge, ByField, Override, Stacks, Clouds, Sources, Flats, Layers
    <3> DEFINE u == FieldMerge(e)
    <3>5. u' = u
      BY <3>4
    <3> HIDE DEF u
    <3>6. Convert(u)' = Convert(u)
      BY <3>5 DEF Convert, Nothing
    <3> QED BY <3>3, <3>6 DEF Proven, m, u
  <2>4. StackApart(l, e)' <=> StackApart(l, e)
    BY <2>1 DEF StackApart, Nothing, Layers
  <2>5. Cleared(l, e)' <=> (IF apart' THEN StacksKept(e)' ELSE Proven(e)') \/ (apart' /\ StackApart(l, e)')
    BY DEF Cleared, Shown
  <2>6. Cleared(l, e) <=> (IF apart THEN StacksKept(e) ELSE Proven(e)) \/ (apart /\ StackApart(l, e))
    BY DEF Cleared, Shown
  <2> QED BY <2>2, <2>3, <2>4, <2>5, <2>6 DEF e
<1>2. Proven(Originals) => StacksKept(Originals)
  BY OriginalsTyped, ProofKeepsStacks
<1> QED BY <1>1, <1>2

LEMMA ClearedNext ==
    ASSUME NEW only \in Layers, OnlyAlone(only), Types, DurableInv, StageInv, OriginInv, HeldInv, EditInv,
           ClearedInv(only), [Next]_vars, ~disturbed'
    PROVE  ClearedInv(only)'
<1>a. /\ \A l \in Layers : ~IsLegacy(file[l]) => Cleared(l, Originals) \/ (apart /\ l = only)
      /\ \A p \in Procs : pc[p] \in Migrates /\ cmd[p].op = "set" /\ IsLegacy(file[Own(p)])
                            => Cleared(Own(p), Originals)
  BY DEF ClearedInv
<1>b. UNCHANGED cmd
  BY SameCommand
<1>c. \A p \in Procs : Own(p) \in Layers
  BY Owned DEF Types
<1>1. ASSUME NEW k \in Layers, OldWrite(k) PROVE ClearedInv(only)'
  <2>1. /\ \E d \in Docs : file'[k] = Legacy(d)
        /\ \A j \in Layers \ {k} : file'[j] = file[j] /\ IsLegacy(file[j])
        /\ \A p \in Procs : snap[p][k] = None
        /\ UNCHANGED pc
    BY <1>1, OldWritten
  <2>2. \A l \in Layers : IsLegacy(file'[l])
    BY <2>1 DEF IsLegacy, Legacy
  <2>3. \A p \in Procs : ~(pc[p] \in Migrates /\ cmd[p].op = "set")
    BY <2>1 DEF StageInv, StageOf
  <2> QED BY <1>b, <2>1, <2>2, <2>3 DEF ClearedInv, IsLegacy
<1>2. ASSUME \A l \in Layers : ~OldWrite(l), apart => apart',
             \A l \in Layers : ~IsLegacy(file'[l]) => Cleared(l, Originals) \/ (apart' /\ l = only),
             \A p \in Procs : pc'[p] \in Migrates /\ cmd[p].op = "set" /\ IsLegacy(file'[Own(p)])
                 => Cleared(Own(p), Originals)
      PROVE  ClearedInv(only)'
  <2>1. \A l \in Layers : Original(file'[l]) = Original(file[l])
    BY <1>2, SameOrigin
  <2>2. Originals' = Originals
    BY <2>1 DEF Originals, Original, IsLegacy
  <2>3. \A l \in Layers : Cleared(l, Originals) => Cleared(l, Originals)'
    BY <1>2, <2>2, StaysCleared
  <2> QED BY <1>b, <1>c, <1>2, <2>3 DEF ClearedInv, Own, IsLegacy
<1>3. ASSUME \A l \in Layers : IsLegacy(file'[l]) => IsLegacy(file[l]), NEW p \in Procs,
             pc'[p] \in Migrates, cmd[p].op = "set", IsLegacy(file'[Own(p)])
      PROVE  Cleared(Own(p), Originals)
  BY <1>a, <1>c, <1>3, SetSteps
<1>4. CASE Quiet
  <2>1. UNCHANGED <<file, apart>>
    BY <1>4 DEF Quiet
  <2>2. \A l \in Layers : IsLegacy(file'[l]) => IsLegacy(file[l])
    BY <2>1
  <2> QED BY <1>1, <1>2, <1>3, <1>a, <2>1, <2>2
<1>5. ASSUME NEW p \in Procs, Rename(p) PROVE ClearedInv(only)'
  <2>1. /\ IsLegacy(file[Own(p)]) /\ pc[p] = "rename"
        /\ \A k \in Layers \ {Own(p)} : file'[k] = file[k]
    BY <1>5, Renamed
  <2>2. \A l \in Layers : IsLegacy(file'[l]) => IsLegacy(file[l])
    BY <2>1
  <2>3. apart' = (apart \/ cmd[p].op = "alone") /\ (disturbed' <=> disturbed \/ cmd[p].op = "explicit")
    BY <1>5 DEF Rename
  <2>4. (apart' /\ Own(p) = only) \/ Cleared(Own(p), Originals)
    <3>1. cmd[p] \in Commands /\ cmd[p].op \in {"load", "set", "alone", "explicit"}
      BY MigrationAssumption DEF Types, ControlOK, Command
    <3>2. cmd[p].op \notin {"load", "explicit"}
      BY <2>1, <2>3 DEF StageInv, StageOf, Holding
    <3>3. CASE cmd[p].op = "alone"
      BY <2>3, <3>1, <3>3 DEF OnlyAlone, Own
    <3>4. CASE cmd[p].op = "set"
      BY <1>a, <2>1, <3>4 DEF Migrates, Reads
    <3> QED BY <3>1, <3>2, <3>3, <3>4
  <2>5. \A l \in Layers : ~IsLegacy(file'[l]) => Cleared(l, Originals) \/ (apart' /\ l = only)
    <3>1. \A l \in Layers \ {Own(p)} : ~IsLegacy(file'[l]) => Cleared(l, Originals) \/ (apart' /\ l = only)
      BY <1>a, <2>1, <2>3
    <3> QED BY <2>4, <3>1
  <2> QED BY <1>1, <1>2, <1>3, <2>2, <2>3, <2>5
<1>6. ASSUME NEW p \in Procs, NEW d \in Docs, Edits(p, d) PROVE ClearedInv(only)'
  <2>1. (\A l \in Layers : IsLegacy(file'[l]) = IsLegacy(file[l])) /\ UNCHANGED apart
    BY <1>6, Edited DEF Edits
  <2> QED BY <1>1, <1>2, <1>3, <1>a, <2>1
<1>7. CASE PowerLoss
  <2>1. /\ \A l \in Layers : file'[l] \in fdur[l]
        /\ \A p \in Procs : pc'[p] \notin Migrates
        /\ UNCHANGED apart
    BY <1>7, Lost DEF Migrates, Reads
  <2>2. \A l \in Layers : ~IsLegacy(file'[l]) => ~IsLegacy(file[l])
    BY <2>1 DEF DurableInv
  <2> QED BY <1>1, <1>2, <1>a, <2>1, <2>2
<1> QED BY <1>1, <1>4, <1>5, <1>6, <1>7, FileSteps

\* What a load that was allowed has seen was proven, or means the same in its stacks: a
\* layer other than the user's own that is v1 was cleared, and one that is not has no stack
\* that another has.
LEMMA LoadsShown ==
    ASSUME NEW only \in Layers, Types, DurableInv, ClearedInv(only), NEW s, Faithful(s), Safe(s)
    PROVE  Shown(Originals)
<1>1. Originals \in [Layers -> Doc]
  BY OriginalsTyped
<1>2. CASE \A k \in Layers : IsLegacy(s[k])
  <2>1. DocsOf(s) = Originals
    BY <1>2, FaithfulDocs DEF DocsOf, Originals
  <2>2. Proven(Originals)
    BY <1>2, <2>1 DEF Safe, Layers, MigrationAssumption
  <2> QED BY <1>1, <2>2, ProofKeepsStacks DEF Shown
<1>3. CASE ~apart /\ \E k \in Layers : ~IsLegacy(s[k])
  BY <1>3 DEF Faithful, ClearedInv, Cleared
<1>4. CASE apart /\ (\E k \in Layers : ~IsLegacy(s[k])) /\ ~Shown(Originals)
  <2>1. ASSUME NEW l \in Layers \ {only} PROVE StackApart(l, Originals)
    <3>1. CASE ~IsLegacy(s[l])
      BY <1>4, <3>1 DEF Faithful, ClearedInv, Cleared
    <3>2. CASE IsLegacy(s[l])
      <4>1. ~Overlap(s)
        BY <1>4, <3>2 DEF Safe
      <4> QED BY <3>2, <4>1, FaithfulDocs DEF Overlap, StackApart
    <3> QED BY <3>1, <3>2
  <2>2. StackApart(only, Originals)
    BY <2>1 DEF StackApart
  <2> QED BY <1>1, <1>4, <2>1, <2>2, Apart DEF Shown
<1> QED BY <1>2, <1>3, <1>4

LEMMA KeepsView ==
    ASSUME NEW only \in Layers, Types, DurableInv, StageInv, ViewInv(only)
    PROVE  ViewKept
<1> SUFFICES ASSUME NEW p \in Procs, pc[p] = "loaded", cmd[p].op = "load", ~disturbed,
                    \A l \in Layers : ~IsEdited(snap[p][l])
             PROVE  IF apart THEN \A c \in Contexts : Means(snap[p])[c].stack = Meant(snap[p])[c].stack
                             ELSE Means(snap[p]) = Meant(snap[p])
  BY DEF ViewKept
<1> DEFINE s == snap[p]
<1>1. (\A l \in Layers : s[l] # None) /\ Safe(s)
  BY DEF StageInv, StageOf
<1>2. OriginInv /\ HeldInv /\ ClearedInv(only)
  BY DEF ViewInv
<1>3. Faithful(s)
  BY <1>1, <1>2 DEF Faithful, OriginInv, HeldInv, Originals
<1> HIDE DEF s
<1>4. Shown(Originals)
  BY <1>1, <1>2, <1>3, LoadsShown
<1>5. Means(s) = EntryMerge(Converted(Originals))
  <2>1. [l \in Layers |-> IF IsLegacy(s[l]) THEN Convert(s[l].doc) ELSE s[l].doc] = Converted(Originals)
    BY <1>3, FaithfulDocs DEF Converted
  <2> QED BY <2>1 DEF Means
<1>6. Meant(s) = Convert(FieldMerge(Originals))
  <2>1. [l \in Layers |-> Original(s[l])] = Originals
    BY <1>3 DEF Faithful, Originals
  <2> QED BY <2>1 DEF Meant
<1>7. CASE apart
  <2>1. StacksKept(Originals)
    BY <1>4, <1>7 DEF Shown
  <2>2. ASSUME NEW c \in Contexts
        PROVE  /\ Means(s)[c].stack = Whole(Stacks(Originals, c), StackFields)
               /\ Meant(s)[c].stack = ByField(Stacks(Originals, c), StackFields)
    <3>1. Stacks(Converted(Originals), c) = Stacks(Originals, c)
      BY OriginalsTyped, SameStacks DEF Stacks, Converted
    <3>2. Means(s)[c].stack = Whole(Stacks(Originals, c), StackFields)
      BY <1>5, <3>1 DEF EntryMerge
    <3>3. Meant(s)[c].stack = ByField(Stacks(Originals, c), StackFields)
      BY <1>6, MergedStack
    <3> QED BY <3>2, <3>3
  <2> QED BY <1>7, <2>1, <2>2 DEF StacksKept, s
<1>8. CASE ~apart
  BY <1>4, <1>5, <1>6, <1>8 DEF Shown, Proven, s
<1> QED BY <1>7, <1>8

\* ViewKept for every instance: however commands, an older gcx, kills and power losses
\* interleave, the preflights of migrate_preflight.go let no layer be migrated with which a
\* later load would mean something else, or, once a file was migrated apart from the others,
\* would have other stacks.
THEOREM ViewStays == ASSUME OneAlone PROVE Spec => []ViewKept
<1>1. PICK only \in Layers : OnlyAlone(only)
  BY DEF OneAlone
<1> DEFINE Kind == DurableInv /\ StageInv /\ ViewInv(only)
<1>2. Init => Kind
  <2> SUFFICES ASSUME Init PROVE Kind
    OBVIOUS
  <2>1. /\ \A p \in Procs : pc[p] = "start" /\ \A l \in Layers : snap[p][l] = None
        /\ \A l \in Layers : fdur[l] = {file[l]}
    BY DEF Init
  <2>2. \A l \in Layers : \E d \in Docs : file[l] = Legacy(d) \/ (l = only /\ file[l] = Migrated(d))
    BY <1>1 DEF Init, OnlyAlone
  <2>3. DurableInv
    <3>1. \A l \in Layers : ~IsLegacy(file[l]) => file[l].from # None
      <4>1. \A d \in Docs : IsLegacy(Legacy(d)) /\ Migrated(d).from = d
        BY DEF IsLegacy, Legacy, Migrated
      <4> QED BY <1>1, <4>1, Documents DEF Init, OnlyAlone
    <3> QED BY <2>1, <3>1 DEF DurableInv
  <2>4. StageInv
    BY <2>1 DEF StageInv, StageOf, Migrates, Reads, Holding, InBackup
  <2>5. OriginInv /\ HeldInv
    BY <2>1 DEF OriginInv, HeldInv, Reads
  <2>6. \A l \in Layers : ~IsEdited(file[l]) /\ (IsLegacy(file[l]) \/ l = only)
    <3>1. \A d : ~IsEdited(Legacy(d)) /\ IsLegacy(Legacy(d)) /\ ~IsEdited(Migrated(d))
      BY DEF IsEdited, IsLegacy, Legacy, Migrated
    <3> QED BY <2>2, <3>1
  <2>7. EditInv
    BY <2>1, <2>6 DEF EditInv
  <2>8. ClearedInv(only)
    <3>1. \A d : IsLegacy(Legacy(d)) /\ Migrated(d).schema = "v1"
      BY DEF IsLegacy, Legacy, Migrated
    <3>2. \A l \in Layers : ~IsLegacy(file[l]) => apart
      BY <2>2, <3>1 DEF Init
    <3> QED BY <2>1, <2>6, <3>2 DEF ClearedInv, Migrates, Reads
  <2> QED BY <2>3, <2>4, <2>5, <2>7, <2>8 DEF ViewInv
<1>3. Types /\ Kind /\ [Next]_vars => Kind'
  <2> SUFFICES ASSUME Types, Kind, [Next]_vars PROVE Kind'
    OBVIOUS
  <2>1. DurableInv' /\ StageInv'
    BY DurableNext, StageNext
  <2>2. ASSUME ~disturbed' PROVE OriginInv' /\ HeldInv' /\ EditInv' /\ ClearedInv(only)'
    <3>1. OriginInv /\ HeldInv /\ EditInv /\ ClearedInv(only)
      BY <2>2, Disturbs DEF ViewInv
    <3> QED BY <1>1, <2>2, <3>1, OriginNext, HeldNext, EditNext, ClearedNext
  <2> QED BY <2>1, <2>2 DEF ViewInv
<1>4. Types /\ Kind => ViewKept
  BY KeepsView
<1> HIDE DEF Kind
<1> QED BY <1>2, <1>3, <1>4, TypesAlways, PTL DEF Spec, Types
===============================================================================
