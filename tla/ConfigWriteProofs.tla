-------------------------- MODULE ConfigWriteProofs --------------------------
(***************************************************************************)
(* Theorems about ConfigWrite, for any processes, credential fields,       *)
(* values, accounts and faults.                                            *)
(*                                                                         *)
(* IInv: only the holder of the lock is past it, its transaction names no  *)
(* account but those it staged and those that were there, and what a power *)
(* loss may leave names accounts with a value. ValuesHeld: what it writes  *)
(* are the values asked for, what it would put back those that were there; *)
(* from the two, the writes implement the store of CredentialFile.         *)
(***************************************************************************)
EXTENDS ConfigWrite, TLAPS

USE ConfigWriteAssumption

-----------------------------------------------------------------------------
(***************************************************************************)
(* Type correctness.                                                       *)
(***************************************************************************)
\* The entries and the empty transaction are what their names say.
LEMMA EntryTypes ==
    /\ Absent \in Entry
    /\ \A v \in Secrets : Plain(v) \in Entry
    /\ \A a \in Accts : Bound(a) \in Entry /\ Bound(a).acct = a
    /\ \A e \in Entry : e.acct \in Accts \cup {0} /\ e.val \in Secrets \cup {None}
    /\ \A v \in Secrets \cup {None} : Plain(v).acct = 0 /\ Plain(v).val = v
    /\ Absent.acct = 0
<1>1. Absent.acct = 0 /\ Absent.val = None
  BY DEF Absent
<1>2. \A a : Bound(a).acct = a /\ Bound(a).val = None
  BY DEF Bound
<1>3. \A v : Plain(v).acct = 0 /\ Plain(v).val = v
  BY DEF Plain
<1>4. ASSUME NEW e \in Entry PROVE e.acct \in Accts \cup {0} /\ e.val \in Secrets \cup {None}
  BY <1>1, <1>2, <1>3 DEF Entry
<1>5. QED
  BY <1>1, <1>2, <1>3, <1>4 DEF Entry

LEMMA NoTxnType == NoTxn \in Txn
BY EntryTypes DEF NoTxn, Txn, Contents, Status

LEMMA TypeInit == Init => TypeOK
<1> SUFFICES ASSUME Init PROVE TypeOK
  OBVIOUS
<1>1. used \in 0 .. MaxAcct /\ Accts \cap (1 .. used) = 1 .. used
  BY DEF Init, Accts
<1>2. file \in Contents
  BY <1>1, EntryTypes DEF Init, Contents, Accts, Entry
<1>3. QED
  BY <1>1, <1>2, NoTxnType DEF Init, TypeOK, Stage

\* A transaction with one field changed is a transaction.
LEMMA TxnTypes ==
    ASSUME NEW t \in Txn
    PROVE  /\ \A c \in Contents, b \in BOOLEAN : [t EXCEPT !.snap = c, !.off = b] \in Txn
           /\ \A s \in [Fields -> Status] : [t EXCEPT !.status = s] \in Txn
           /\ \A S \in SUBSET Fields, v \in Secrets \cup {None} :
                 [t EXCEPT !.fields = S, !.val = v] \in Txn
           /\ \A c \in Contents, S \in SUBSET Fields, A \in SUBSET Accts :
                 [t EXCEPT !.new = c, !.todo = S, !.deletes = A] \in Txn
           /\ \A A \in SUBSET Accts : [t EXCEPT !.writes = A] \in Txn
           /\ \A pr \in [Accts -> Secrets \cup {None}] : [t EXCEPT !.prev = pr] \in Txn
           /\ \A A, B \in SUBSET Accts : [t EXCEPT !.deletes = A, !.gone = B] \in Txn
           /\ \A A \in SUBSET Accts, b \in BOOLEAN :
                 /\ [t EXCEPT !.gone = A] \in Txn
                 /\ [t EXCEPT !.gone = A, !.complete = b] \in Txn
BY DEF Txn

LEMMA TxnFields ==
    ASSUME NEW t \in Txn
    PROVE  /\ t.snap \in Contents /\ t.new \in Contents
           /\ t.status \in [Fields -> Status]
           /\ t.fields \subseteq Fields /\ t.todo \subseteq Fields
           /\ t.val \in Secrets \cup {None}
           /\ t.writes \subseteq Accts /\ t.deletes \subseteq Accts /\ t.gone \subseteq Accts
           /\ t.prev \in [Accts -> Secrets \cup {None}]
           /\ t.complete \in BOOLEAN /\ t.off \in BOOLEAN
BY DEF Txn

LEMMA LockTypes ==
    ASSUME NEW t \in Txn
    PROVE  Kept(t) \in Contents /\ ToStage(t) \subseteq Fields /\ Removed(t) \subseteq Accts
<1>1. Kept(t) \in Contents
  BY TxnFields, EntryTypes DEF Kept, Contents
<1>2. \A f \in Fields : IsBound(t.snap[f]) => t.snap[f].acct \in Accts
  BY TxnFields, EntryTypes DEF Contents, IsBound
<1>3. QED
  BY <1>1, <1>2, TxnFields DEF ToStage, Removed

\* What is staged for a field.
LEMMA ValueTypes ==
    ASSUME NEW t \in Txn, NEW f \in Fields
    PROVE  /\ ValueOf(t, f) \in Secrets \cup {None}
           /\ Plain(ValueOf(t, f)) \in Entry
           /\ f \in ToStage(t) => ValueOf(t, f) \in Secrets
<1>1. ValueOf(t, f) \in Secrets \cup {None}
  BY TxnFields, EntryTypes DEF ValueOf, Contents
<1>2. Plain(ValueOf(t, f)) \in Entry
  BY <1>1, EntryTypes DEF Plain, Absent
<1>3. f \in ToStage(t) => ValueOf(t, f) \in Secrets
  BY <1>1, TxnFields, EntryTypes DEF ToStage, ValueOf, IsPlain
<1>4. QED
  BY <1>1, <1>2, <1>3

LEMMA ReturnType ==
    ASSUME TypeOK, NEW p \in Procs, NEW o \in Stage, Return(p, o)
    PROVE  /\ pc' \in [Procs -> Stage]
           /\ txn' \in [Procs -> Txn]
           /\ lock' \in Procs \cup {None}
BY NoTxnType DEF Return, TypeOK

LEMMA TypeStep == TypeOK /\ [Next]_vars => TypeOK'
<1> SUFFICES ASSUME TypeOK, [Next]_vars PROVE TypeOK'
  OBVIOUS
<1> USE DEF TypeOK
<1>1. ASSUME NEW p \in Procs, Write(p) PROVE TypeOK'
  <2> DEFINE t == txn[p]
  <2>0. t \in Txn
    OBVIOUS
  <2>1. CASE ReadFile(p)
    <3>1. PICK off \in BOOLEAN : txn' = [txn EXCEPT ![p].snap = file, ![p].off = off]
      BY <2>1 DEF ReadFile
    <3>2. [t EXCEPT !.snap = file, !.off = off] \in Txn
      BY <2>0, TxnTypes
    <3>3. QED
      BY <2>1, <3>1, <3>2 DEF ReadFile, Stage
  <2>2. CASE Resolve(p)
    <3>1. PICK s \in [Fields -> Status] : txn' = [txn EXCEPT ![p].status = s]
      BY <2>2 DEF Resolve, Status
    <3>2. [t EXCEPT !.status = s] \in Txn
      BY <2>0, TxnTypes
    <3>3. QED
      BY <2>2, <3>1, <3>2 DEF Resolve, Stage
  <2>3. CASE Change(p)
    <3>1. PICK S \in SUBSET Fields, v \in Secrets \cup {None} :
             txn' = [txn EXCEPT ![p].fields = S, ![p].val = v]
      BY <2>3 DEF Change
    <3>2. [t EXCEPT !.fields = S, !.val = v] \in Txn
      BY <2>0, TxnTypes
    <3>3. QED
      BY <2>3, <3>1, <3>2 DEF Change, Stage
  <2>4. CASE ReadOnly(p)
    BY <2>4, NoTxnType DEF ReadOnly, Stage
  <2>5. CASE Again(p)
    BY <2>5 DEF Again, Stage
  <2>6. CASE LockTimesOut(p) \/ Stale(p)
    BY <2>6, ReturnType DEF LockTimesOut, Stale, Stage
  <2>7. CASE Lock(p)
    <3>1. [t EXCEPT !.new = Kept(t), !.todo = ToStage(t), !.deletes = Removed(t)] \in Txn
      BY <2>0, LockTypes, TxnTypes
    <3>2. QED
      BY <2>7, <3>1 DEF Lock, Stage
  <2>8. ASSUME NEW f \in Fields, StageSet(p, f) PROVE TypeOK'
    <3> DEFINE a == used + 1
               d == IF IsBound(t.snap[f]) /\ t.status[f] \in Deletable
                    THEN t.deletes \cup {t.snap[f].acct} ELSE t.deletes
               u == [t EXCEPT !.new[f] = Bound(a), !.todo = t.todo \ {f},
                              !.writes = t.writes \cup {a}, !.deletes = d]
    <3>1. a \in Accts /\ used' = a /\ used' \in 0 .. MaxAcct
      BY <2>8 DEF StageSet, Accts
    <3>2. IsBound(t.snap[f]) => t.snap[f].acct \in Accts
      BY <2>0, TxnFields, EntryTypes DEF Contents, IsBound
    <3>3. u \in Txn
      BY <2>0, <3>1, <3>2, EntryTypes DEF Txn, Contents
    <3>4. txn' = [txn EXCEPT ![p] = u]
      BY <2>8 DEF StageSet
    <3>5. keychain' \in [Accts -> Secrets \cup {None}]
      BY <2>0, <2>8, ValueTypes DEF StageSet
    <3>6. QED
      BY <2>8, <3>1, <3>3, <3>4, <3>5 DEF StageSet
  <2>9. ASSUME NEW f \in Fields, StageFallback(p, f) PROVE TypeOK'
    <3> DEFINE u == [t EXCEPT !.new[f] = Plain(ValueOf(t, f)), !.todo = t.todo \ {f}]
    <3>1. u \in Txn
      BY <2>0, ValueTypes DEF Txn, Contents
    <3>2. txn' = [txn EXCEPT ![p] = u]
      BY <2>9 DEF StageFallback
    <3>3. QED
      BY <2>9, <3>1, <3>2 DEF StageFallback
  <2>10. CASE StageFails(p)
    <3>1. CASE UNCHANGED <<keychain, used, txn>>
      BY <2>10, <3>1 DEF StageFails, Stage
    <3>2. CASE ~UNCHANGED <<keychain, used, txn>>
      <4>1. used + 1 \in Accts /\ used' = used + 1 /\ used' \in 0 .. MaxAcct
        BY <2>10, <3>2 DEF StageFails, Accts
      <4>2. [t EXCEPT !.writes = t.writes \cup {used + 1}] \in Txn
        <5>1. t.writes \cup {used + 1} \in SUBSET Accts
          BY <2>0, <4>1, TxnFields
        <5>2. QED
          BY <2>0, <5>1, TxnTypes
      <4>3. keychain' \in [Accts -> Secrets \cup {None}]
        BY <2>0, <2>10, <3>2, ValueTypes, TxnFields DEF StageFails
      <4>4. txn' = [txn EXCEPT ![p] = [t EXCEPT !.writes = t.writes \cup {used + 1}]]
        BY <2>10, <3>2 DEF StageFails
      <4>5. QED
        BY <2>10, <4>1, <4>2, <4>3, <4>4 DEF StageFails, Stage
    <3>3. QED
      BY <3>1, <3>2
  <2>11. CASE Preflight(p)
    <3> DEFINE pr == [a \in Accts |-> IF a \in t.deletes THEN keychain[a] ELSE None]
    <3>1. [t EXCEPT !.prev = pr] \in Txn
      BY <2>0, TxnTypes
    <3>2. CASE Return(p, "ok")
      BY <2>11, <3>2, ReturnType DEF Preflight, Stage
    <3>3. CASE ~Return(p, "ok")
      BY <2>11, <3>1, <3>3 DEF Preflight, Stage
    <3>4. QED
      BY <3>2, <3>3
  <2>12. CASE PreflightFails(p) \/ RenameFails(p)
    BY <2>12 DEF PreflightFails, RenameFails, Stage
  <2>13. CASE Rollback(p)
    BY <2>13, ReturnType DEF Rollback, Stage
  <2>14. CASE Rename(p)
    BY <2>0, <2>14, TxnFields DEF Rename, Stage
  <2>15. CASE SyncDir(p)
    BY <2>15 DEF SyncDir, Stage
  <2>16. CASE SyncFails(p) \/ RestoreFails(p) \/ Committed(p)
    BY <2>16, ReturnType DEF SyncFails, RestoreFails, Committed, Stage
  <2>17. ASSUME NEW a \in Accts, DeleteOld(p, a) \/ DeleteFails(p, a) PROVE TypeOK'
    <3>1. [t EXCEPT !.deletes = t.deletes \ {a}, !.gone = t.gone \cup {a}] \in Txn
      <4>1. t.deletes \ {a} \in SUBSET Accts /\ t.gone \cup {a} \in SUBSET Accts
        BY <2>0, TxnFields
      <4>2. QED
        BY <2>0, <4>1, TxnTypes
    <3>2. txn' = [txn EXCEPT ![p] = [t EXCEPT !.deletes = t.deletes \ {a}, !.gone = t.gone \cup {a}]]
      BY <2>17 DEF DeleteOld, DeleteFails
    <3>3. keychain' \in [Accts -> Secrets \cup {None}]
      BY <2>17 DEF DeleteOld, DeleteFails
    <3>4. QED
      BY <2>17, <3>1, <3>2, <3>3 DEF DeleteOld, DeleteFails, Stage
  <2>18. ASSUME NEW a \in Accts, Undelete(p, a) PROVE TypeOK'
    <3>1. [t EXCEPT !.gone = t.gone \ {a}] \in Txn
      BY <2>0, TxnTypes, TxnFields
    <3>2. txn' = [txn EXCEPT ![p] = [t EXCEPT !.gone = t.gone \ {a}]]
      BY <2>18 DEF Undelete
    <3>3. keychain' \in [Accts -> Secrets \cup {None}]
      BY <2>0, <2>18, TxnFields DEF Undelete
    <3>4. QED
      BY <2>18, <3>1, <3>2, <3>3 DEF Undelete
  <2>19. ASSUME NEW a \in Accts, UndeleteFails(p, a) PROVE TypeOK'
    <3>1. [t EXCEPT !.gone = t.gone \ {a}, !.complete = FALSE] \in Txn
      BY <2>0, TxnTypes, TxnFields
    <3>2. txn' = [txn EXCEPT ![p] = [t EXCEPT !.gone = t.gone \ {a}, !.complete = FALSE]]
      BY <2>19 DEF UndeleteFails
    <3>3. QED
      BY <2>19, <3>1, <3>2 DEF UndeleteFails
  <2>20. CASE Undeleted(p)
    <3>1. CASE Return(p, "unsettled")
      BY <2>20, <3>1, ReturnType DEF Undeleted, Stage
    <3>2. CASE ~Return(p, "unsettled")
      BY <2>20, <3>2 DEF Undeleted, Stage
    <3>3. QED
      BY <3>1, <3>2
  <2>21. CASE RestoreFile(p)
    BY <2>0, <2>21, TxnFields DEF RestoreFile, Stage
  <2>22. CASE Resync(p)
    BY <2>22 DEF Resync, Stage
  <2>23. QED
    BY <1>1, <2>1, <2>2, <2>3, <2>4, <2>5, <2>6, <2>7, <2>8, <2>9, <2>10, <2>11, <2>12, <2>13,
       <2>14, <2>15, <2>16, <2>17, <2>18, <2>19, <2>20, <2>21, <2>22 DEF Write
<1>2. ASSUME NEW p \in Procs, Crash(p) PROVE TypeOK'
  BY <1>2, ReturnType DEF Crash, Stage
<1>3. CASE PowerLoss
  BY <1>3, NoTxnType DEF PowerLoss, Stage
<1>4. CASE UNCHANGED vars
  BY <1>4 DEF vars
<1>5. QED
  BY <1>1, <1>2, <1>3, <1>4 DEF Next

\* The types of the file, the keychain and the transactions, in every reachable state.
THEOREM TypesHold == Spec => []TypeOK
BY TypeInit, TypeStep, PTL DEF Spec
-----------------------------------------------------------------------------
(***************************************************************************)
(* The inductive invariant: what the contents a power loss may leave and   *)
(* the holder of the lock have in common.                                  *)
(***************************************************************************)
Working == {"stage", "rename", "sync", "delete", "undelete", "restore", "resync", "rollback"}
Settled == {"idle", "ok", "failed", "unsettled"}

\* No two fields of c name one account; every account it names has a value.
Distinct(c) == \A f, g \in Fields : IsBound(c[f]) /\ c[f].acct = c[g].acct => f = g
Present(c)  == \A f \in Fields : IsBound(c[f]) => keychain[c[f].acct] # None
Avoids(c, A) == \A f \in Fields : c[f].acct \notin A

FilesOK == /\ file \in durable
           /\ \A c \in durable : Distinct(c) /\ Present(c)
           /\ \A a \in Accts : a > used => keychain[a] = None

\* Only the holder of the lock is past it, and nobody has staged before it.
LockOK == \A p \in Procs :
    /\ pc[p] \in Working => lock = p
    /\ pc[p] \in Settled => txn[p] = NoTxn
    /\ pc[p] \notin Working =>
          txn[p].writes = {} /\ txn[p].gone = {} /\ txn[p].complete

\* What a transaction holds all along: it staged accounts of its own, writes only
\* those or what was there, and deletes only what the fields it changes named.
Sound(t) ==
    /\ Distinct(t.snap)
    /\ Avoids(t.snap, t.writes)
    /\ \A a \in t.writes \cup t.deletes \cup t.gone : a <= used
    /\ \A f \in Fields : IsBound(t.new[f]) =>
          t.new[f].acct \in t.writes \/ (f \notin t.fields /\ t.new[f] = t.snap[f])
    /\ Distinct(t.new)
    /\ \A a \in t.deletes \cup t.gone : \E f \in t.fields : t.snap[f].acct = a

\* The deletions still to come, or tried, are those of what it replaces.
Scheduled(t) ==
    /\ t.todo \subseteq ToStage(t)
    /\ \A f \in t.fields :
          /\ IsBound(t.snap[f])
          /\ t.status[f] \in Deletable
          /\ ~t.off
          => f \in t.todo \/ t.snap[f].acct \in t.deletes \cup t.gone

\* The values a commit would put back are known.
Captured(t) == \A a \in t.deletes \cup t.gone : t.prev[a] # None

\* Everything the old contents name is there or can be put back.
Undoable(t) == \A f \in Fields : IsBound(t.snap[f]) =>
                  keychain[t.snap[f].acct] # None \/ t.snap[f].acct \in t.gone

AtStage(t, stage) ==
    /\ stage \in {"stage", "rename", "sync", "delete"} =>
          /\ Scheduled(t)
          /\ \A a \in t.writes : keychain[a] # None
          /\ t.complete
    /\ stage \in {"stage", "rename"} =>
          file = t.snap /\ t.gone = {} /\ \A c \in durable : Avoids(c, t.writes)
    /\ stage \in {"rename", "sync", "delete", "undelete"} => t.todo = {} /\ Captured(t)
    /\ stage \in {"sync", "delete", "undelete", "restore"} => file = t.new
    /\ stage = "sync" => t.gone = {} /\ Present(t.snap)
    /\ stage \in {"delete", "undelete", "restore"} => durable = {t.new}
    /\ stage = "delete" => Undoable(t) /\ \A a \in t.gone : keychain[a] = None
    /\ stage = "undelete" => (t.complete => Undoable(t))
    /\ stage = "restore" => Present(t.snap)
    /\ stage = "resync" => file = t.snap
    /\ stage = "rollback" => \A c \in durable : Avoids(c, t.writes)

TxnsOK == \A p \in Procs : pc[p] \in Working => Sound(txn[p]) /\ AtStage(txn[p], pc[p])

IInv == TypeOK /\ FilesOK /\ LockOK /\ TxnsOK

\* What a transaction deletes is not named by what it writes.
LEMMA NotNamed ==
    ASSUME NEW t \in Txn, Sound(t), NEW a \in t.deletes \cup t.gone
    PROVE  \A f \in Fields : t.new[f].acct # a
<1> SUFFICES ASSUME NEW f \in Fields, t.new[f].acct = a PROVE FALSE
  OBVIOUS
<1>1. a \in Accts /\ a # 0
  BY TxnFields DEF Accts
<1>2. PICK g \in t.fields : t.snap[g].acct = a
  BY DEF Sound
<1>3. g \in Fields /\ IsBound(t.new[f]) /\ IsBound(t.snap[g])
  BY <1>1, <1>2, TxnFields DEF IsBound
<1>4. CASE t.new[f].acct \in t.writes
  BY <1>2, <1>3, <1>4 DEF Sound, Avoids
<1>5. CASE f \notin t.fields /\ t.new[f] = t.snap[f]
  <2>1. f = g
    BY <1>2, <1>3, <1>5 DEF Sound, Distinct
  <2>2. QED
    BY <1>2, <1>5, <2>1
<1>6. QED
  BY <1>3, <1>4, <1>5 DEF Sound

\* The account that is staged next is new to everybody.
LEMMA FreshAccount ==
    ASSUME IInv, used < MaxAcct
    PROVE  /\ used + 1 \in Accts
           /\ keychain[used + 1] = None
           /\ \A c \in durable : \A f \in Fields : c[f].acct # used + 1
<1>1. used \in Nat /\ used + 1 \in Accts /\ used + 1 > used
  BY DEF IInv, TypeOK, Accts
<1>2. keychain[used + 1] = None
  BY <1>1 DEF IInv, FilesOK
<1>3. QED
  BY <1>1, <1>2 DEF IInv, FilesOK, Present, IsBound

\* A process's own step leaves the others alone; only the holder of the lock
\* touches the file and the keychain.
LEMMA WriteLocal ==
    ASSUME TypeOK, NEW p \in Procs, Write(p) \/ Crash(p)
    PROVE  /\ \A q \in Procs : q # p => pc'[q] = pc[q] /\ txn'[q] = txn[q]
           /\ pc[p] \in Working \/ UNCHANGED <<file, durable, keychain, used>>
<1>1. CASE Crash(p)
  BY <1>1 DEF Crash, Return, TypeOK
<1>2. CASE ReadFile(p) \/ Resolve(p) \/ Change(p) \/ ReadOnly(p) \/ Again(p)
  BY <1>2 DEF ReadFile, Resolve, Change, ReadOnly, Again, TypeOK
<1>3. CASE LockTimesOut(p) \/ Stale(p) \/ Lock(p)
  BY <1>3 DEF LockTimesOut, Stale, Lock, Return, TypeOK
<1>4. ASSUME NEW f \in Fields, StageSet(p, f) \/ StageFallback(p, f)
      PROVE  /\ \A q \in Procs : q # p => pc'[q] = pc[q] /\ txn'[q] = txn[q]
             /\ pc[p] \in Working
  BY <1>4 DEF StageSet, StageFallback, Working, TypeOK
<1>5. CASE StageFails(p) \/ Preflight(p) \/ PreflightFails(p) \/ Rollback(p)
  BY <1>5 DEF StageFails, Preflight, PreflightFails, Rollback, Return, Working, TypeOK
<1>6. CASE Rename(p) \/ RenameFails(p) \/ SyncDir(p) \/ SyncFails(p)
  BY <1>6 DEF Rename, RenameFails, SyncDir, SyncFails, Return, Working, TypeOK
<1>7. ASSUME NEW a \in Accts,
             DeleteOld(p, a) \/ DeleteFails(p, a) \/ Undelete(p, a) \/ UndeleteFails(p, a)
      PROVE  /\ \A q \in Procs : q # p => pc'[q] = pc[q] /\ txn'[q] = txn[q]
             /\ pc[p] \in Working
  BY <1>7 DEF DeleteOld, DeleteFails, Undelete, UndeleteFails, Working, TypeOK
<1>8. CASE Committed(p) \/ Undeleted(p) \/ RestoreFile(p) \/ RestoreFails(p) \/ Resync(p)
  BY <1>8 DEF Committed, Undeleted, RestoreFile, RestoreFails, Resync, Return, Working, TypeOK
<1>9. QED
  BY <1>1, <1>2, <1>3, <1>4, <1>5, <1>6, <1>7, <1>8 DEF Write

\* What the others hold stays as it is.
LEMMA OthersKept ==
    ASSUME IInv, TypeOK', NEW p \in Procs, Write(p) \/ Crash(p),
           NEW q \in Procs, q # p, pc'[q] \in Working
    PROVE  Sound(txn[q])' /\ AtStage(txn[q], pc[q])'
<1>1. pc'[q] = pc[q] /\ txn'[q] = txn[q]
  BY WriteLocal DEF IInv
<1>2. lock = q
  BY <1>1 DEF IInv, LockOK
<1>3. UNCHANGED <<file, durable, keychain, used>>
  BY <1>2, WriteLocal DEF IInv, LockOK
<1>4. Sound(txn[q]) /\ AtStage(txn[q], pc[q])
  BY <1>1 DEF IInv, TxnsOK
<1>5. Sound(txn[q])'
  BY <1>1, <1>3, <1>4 DEF Sound
<1>6. AtStage(txn[q], pc[q])'
  BY <1>1, <1>3, <1>4 DEF AtStage, Scheduled, Captured, Undoable, Present
<1>7. QED
  BY <1>5, <1>6

LEMMA LockStep == IInv /\ [Next]_vars => LockOK'
<1> SUFFICES ASSUME IInv, [Next]_vars PROVE LockOK'
  OBVIOUS
<1>0. TypeOK /\ TypeOK' /\ LockOK
  BY TypeStep DEF IInv
<1>1. ASSUME NEW p \in Procs, Write(p) \/ Crash(p) PROVE LockOK'
  <2>1. ASSUME NEW q \in Procs, q # p
        PROVE  /\ pc'[q] \in Working => lock' = q
               /\ pc'[q] \in Settled => txn'[q] = NoTxn
               /\ pc'[q] \notin Working =>
                     txn'[q].writes = {} /\ txn'[q].gone = {} /\ txn'[q].complete
    <3>1. pc'[q] = pc[q] /\ txn'[q] = txn[q]
      BY <1>0, <1>1, <2>1, WriteLocal
    <3>2. lock = q => lock' = q
      <4>1. CASE Crash(p)
        BY <2>1, <4>1 DEF Crash, Return
      <4>2. ASSUME NEW f \in Fields, StageSet(p, f) \/ StageFallback(p, f) PROVE lock' = lock
        BY <4>2 DEF StageSet, StageFallback
      <4>3. ASSUME NEW a \in Accts, DeleteOld(p, a) \/ DeleteFails(p, a) \/ Undelete(p, a)
                                    \/ UndeleteFails(p, a)
            PROVE  lock' = lock
        BY <4>3 DEF DeleteOld, DeleteFails, Undelete, UndeleteFails
      <4>4. CASE Lock(p)
        BY <2>1, <4>4 DEF Lock
      <4>5. QED
        BY <1>1, <2>1, <4>1, <4>2, <4>3, <4>4
        DEF Write, ReadFile, Resolve, Change, ReadOnly, Again, LockTimesOut, Stale, StageFails,
            Preflight, PreflightFails, Rollback, Rename, RenameFails, SyncDir, SyncFails,
            Committed, Undeleted, RestoreFile, RestoreFails, Resync, Return
    <3>3. QED
      BY <1>0, <3>1, <3>2 DEF LockOK
  <2>2. /\ pc'[p] \in Working => lock' = p
        /\ pc'[p] \in Settled => txn'[p] = NoTxn
        /\ pc'[p] \notin Working =>
              txn'[p].writes = {} /\ txn'[p].gone = {} /\ txn'[p].complete
    <3> USE <1>0 DEF LockOK, Working, Settled
    <3>0. NoTxn.writes = {} /\ NoTxn.gone = {} /\ NoTxn.complete
      BY DEF NoTxn
    <3>1. CASE \E o \in Settled : Return(p, o)
      BY <3>0, <3>1 DEF Return, TypeOK
    <3>2. CASE ReadFile(p)
      <4>1. /\ pc'[p] = "read" /\ txn'[p].writes = txn[p].writes /\ txn'[p].gone = txn[p].gone
            /\ txn'[p].complete = txn[p].complete /\ pc[p] = "idle"
        BY <3>2, TxnFields DEF ReadFile, TypeOK, Txn
      <4>2. QED
        BY <4>1
    <3>3. CASE Resolve(p)
      <4>1. /\ pc'[p] = "loaded" /\ txn'[p].writes = txn[p].writes /\ txn'[p].gone = txn[p].gone
            /\ txn'[p].complete = txn[p].complete /\ pc[p] = "read"
        <5>1. PICK s : txn' = [txn EXCEPT ![p].status = s]
          BY <3>3 DEF Resolve
        <5>2. pc[p] = "read" /\ pc' = [pc EXCEPT ![p] = "loaded"]
          BY <3>3 DEF Resolve
        <5>3. QED
          BY <5>1, <5>2 DEF TypeOK, Txn
      <4>2. QED
        BY <4>1
    <3>4. CASE Change(p)
      <4>1. /\ pc'[p] = "lock" /\ txn'[p].writes = txn[p].writes /\ txn'[p].gone = txn[p].gone
            /\ txn'[p].complete = txn[p].complete /\ pc[p] = "loaded"
        BY <3>4, TxnFields DEF Change, TypeOK, Txn
      <4>2. QED
        BY <4>1
    <3>5. CASE ReadOnly(p)
      BY <3>0, <3>5 DEF ReadOnly, TypeOK
    <3>6. CASE Again(p)
      BY <3>0, <3>6 DEF Again, TypeOK
    <3>7. CASE Lock(p)
      BY <3>7 DEF Lock, TypeOK
    <3>8. ASSUME NEW f \in Fields, StageSet(p, f) \/ StageFallback(p, f)
          PROVE  pc'[p] \in Working /\ lock' = p
      BY <3>8 DEF StageSet, StageFallback, TypeOK
    <3>9. ASSUME NEW a \in Accts, DeleteOld(p, a) \/ DeleteFails(p, a) \/ Undelete(p, a)
                                  \/ UndeleteFails(p, a)
          PROVE  pc'[p] \in Working /\ lock' = p
      BY <3>9 DEF DeleteOld, DeleteFails, Undelete, UndeleteFails, TypeOK
    <3>10. CASE StageFails(p) \/ PreflightFails(p) \/ Rename(p) \/ RenameFails(p) \/ SyncDir(p)
                \/ RestoreFile(p) \/ Resync(p)
      BY <3>10 DEF StageFails, PreflightFails, Rename, RenameFails, SyncDir, RestoreFile, Resync, TypeOK
    <3>11. CASE Preflight(p) /\ ~Return(p, "ok")
      BY <3>11 DEF Preflight, TypeOK
    <3>12. CASE Undeleted(p) /\ ~Return(p, "unsettled")
      BY <3>12 DEF Undeleted, TypeOK
    <3>13. ~(\E o \in Settled : Return(p, o)) =>
              ~(LockTimesOut(p) \/ Stale(p) \/ Rollback(p) \/ SyncFails(p) \/ Committed(p)
                \/ RestoreFails(p) \/ Crash(p))
      BY DEF LockTimesOut, Stale, Rollback, SyncFails, Committed, RestoreFails, Crash
    <3>14. QED
      BY <1>1, <3>1, <3>2, <3>3, <3>4, <3>5, <3>6, <3>7, <3>8, <3>9, <3>10, <3>11, <3>12, <3>13
      DEF Write
  <2>3. QED
    BY <2>1, <2>2 DEF LockOK
<1>2. CASE PowerLoss
  BY <1>2 DEF PowerLoss, LockOK, Working, Settled, NoTxn
<1>3. CASE UNCHANGED vars
  BY <1>0, <1>3 DEF vars, LockOK
<1>4. QED
  BY <1>1, <1>2, <1>3 DEF Next

\* An account that surviving contents name has been allocated.
LEMMA NamedUsed ==
    ASSUME IInv, NEW c \in durable, NEW f \in Fields, IsBound(c[f])
    PROVE  c[f].acct \in Accts /\ c[f].acct <= used
<1>1. c[f].acct \in Accts
  BY EntryTypes DEF IInv, TypeOK, Contents, IsBound
<1>2. keychain[c[f].acct] # None
  BY DEF IInv, FilesOK, Present
<1>3. QED
  BY <1>1, <1>2 DEF IInv, FilesOK, TypeOK, Accts

-----------------------------------------------------------------------------
(***************************************************************************)
(* The steps of a process, one lemma for each stage.                       *)
(***************************************************************************)
Holds(p) == /\ FilesOK
            /\ pc[p] \in Working => Sound(txn[p]) /\ AtStage(txn[p], pc[p])

\* A step that ends or has not begun the work, with the files as they are.
LEMMA NoWork ==
    ASSUME IInv, NEW p \in Procs, UNCHANGED <<file, durable, keychain, used>>,
           pc'[p] \notin Working
    PROVE  Holds(p)'
BY DEF IInv, FilesOK, Present, Holds

LEMMA LockHolds ==
    ASSUME IInv, TypeOK', NEW p \in Procs, Lock(p)
    PROVE  Holds(p)'
<1> DEFINE t == txn[p]
           u == txn'[p]
<1>1. t \in Txn /\ u \in Txn
  BY DEF IInv, TypeOK
<1>2. /\ u.new = Kept(t) /\ u.todo = ToStage(t) /\ u.deletes = Removed(t)
      /\ u.snap = t.snap /\ u.writes = {} /\ u.gone = {} /\ u.fields = t.fields /\ u.val = t.val
      /\ u.status = t.status /\ u.complete /\ u.off = t.off /\ file = t.snap
  BY <1>1 DEF Lock, IInv, TypeOK, LockOK, Working, Txn
<1>3. pc'[p] = "stage" /\ UNCHANGED <<file, durable, keychain, used>>
  BY DEF Lock, IInv, TypeOK
<1>4. FilesOK'
  BY <1>3 DEF IInv, FilesOK, Present
<1>5. Distinct(t.snap)
  BY <1>2 DEF IInv, FilesOK
<1>6. \A f \in Fields : u.new[f] = IF f \in t.fields THEN Absent ELSE t.snap[f]
  BY <1>2 DEF Kept
<1>7. \A f \in Fields : IsBound(u.new[f]) => f \notin t.fields /\ u.new[f] = t.snap[f]
  BY <1>6, EntryTypes DEF IsBound
<1>8. Distinct(u.new)
  BY <1>5, <1>7 DEF Distinct, IsBound
<1>9. \A a \in u.deletes : \E f \in t.fields : t.snap[f].acct = a
  BY <1>2 DEF Removed
<1>10. Sound(txn[p])'
  <2>1. \A a \in u.deletes : a <= used
    BY <1>1, <1>2, NamedUsed, TxnFields DEF Removed, IInv, FilesOK
  <2>2. QED
    BY <1>2, <1>3, <1>5, <1>7, <1>8, <1>9, <2>1 DEF Sound, Avoids
<1>11. Scheduled(u)
  <2>1. ToStage(u) = ToStage(t)
    BY <1>2 DEF ToStage
  <2>2. ASSUME NEW f \in t.fields, IsBound(t.snap[f]), t.status[f] \in Deletable
        PROVE  f \in u.todo \/ t.snap[f].acct \in u.deletes
    BY <1>1, <1>2, <2>2, TxnFields DEF ToStage, Removed
  <2>3. QED
    BY <1>2, <2>1, <2>2 DEF Scheduled
<1>12. AtStage(txn[p], "stage")'
  BY <1>2, <1>3, <1>11 DEF AtStage, Avoids
<1>13. QED
  BY <1>3, <1>4, <1>10, <1>12 DEF Holds

LEMMA StageSetHolds ==
    ASSUME IInv, TypeOK', NEW p \in Procs, NEW f \in Fields, StageSet(p, f)
    PROVE  Holds(p)'
<1> DEFINE t == txn[p]
           u == txn'[p]
           a == used + 1
<1>1. t \in Txn /\ u \in Txn /\ Sound(t) /\ AtStage(t, "stage") /\ pc[p] = "stage" /\ pc'[p] = "stage"
  BY DEF IInv, TypeOK, TxnsOK, Working, StageSet
<1>2. /\ u.new = [t.new EXCEPT ![f] = Bound(a)]
      /\ u.todo = t.todo \ {f} /\ u.writes = t.writes \cup {a}
      /\ u.deletes = IF IsBound(t.snap[f]) /\ t.status[f] \in Deletable
                     THEN t.deletes \cup {t.snap[f].acct} ELSE t.deletes
      /\ u.snap = t.snap /\ u.gone = t.gone /\ u.fields = t.fields /\ u.val = t.val
      /\ u.status = t.status /\ u.complete = t.complete /\ u.off = t.off
  BY <1>1 DEF StageSet, IInv, TypeOK, Txn
<1>3. /\ file' = file /\ durable' = durable /\ used' = a
      /\ keychain' = [keychain EXCEPT ![a] = ValueOf(t, f)] /\ f \in t.todo
  BY DEF StageSet
<1>4. /\ a \in Accts /\ keychain[a] = None
      /\ \A c \in durable : \A g \in Fields : c[g].acct # a
  BY FreshAccount DEF StageSet
<1>5. f \in ToStage(t) /\ ValueOf(t, f) \in Secrets
  BY <1>1, <1>3, ValueTypes DEF AtStage, Scheduled
<1>6. keychain'[a] # None /\ \A b \in Accts : b # a => keychain'[b] = keychain[b]
  BY <1>3, <1>4, <1>5 DEF IInv, TypeOK
<1>7. FilesOK'
  <2>1. \A c \in durable : Present(c)'
    <3> SUFFICES ASSUME NEW c \in durable, NEW g \in Fields, IsBound(c[g])
                 PROVE  keychain'[c[g].acct] # None
      BY DEF Present
    <3>1. c[g].acct \in Accts
      BY EntryTypes DEF IInv, TypeOK, Contents, IsBound
    <3>2. QED
      BY <1>4, <1>6, <3>1 DEF IInv, FilesOK, Present
  <2>2. \A b \in Accts : b > used' => keychain'[b] = None
    BY <1>3, <1>6 DEF IInv, FilesOK, TypeOK, Accts
  <2>3. QED
    BY <1>3, <2>1, <2>2 DEF IInv, FilesOK
<1>8. t.snap \in durable
  BY <1>1 DEF AtStage, IInv, FilesOK
<1>9. Sound(txn[p])'
  <2>1. \A b \in u.writes \cup u.deletes \cup u.gone : b <= used'
    <3>1. IsBound(t.snap[f]) => t.snap[f].acct <= used
      BY <1>8, NamedUsed
    <3>2. \A b \in u.writes \cup u.deletes \cup u.gone : b = a \/ b <= used
      BY <1>1, <1>2, <3>1 DEF Sound
    <3>3. u.writes \cup u.deletes \cup u.gone \subseteq Accts
      BY <1>1, TxnFields
    <3>4. QED
      BY <1>3, <3>2, <3>3 DEF IInv, TypeOK, Accts
  <2>2. Avoids(t.snap, u.writes)
    BY <1>1, <1>2, <1>4, <1>8 DEF Sound, Avoids
  <2>3. \A g \in Fields : u.new[g] = IF g = f THEN Bound(a) ELSE t.new[g]
    BY <1>1, <1>2, TxnFields DEF Contents
  <2>4. \A g \in Fields : IsBound(u.new[g]) =>
           u.new[g].acct \in u.writes \/ (g \notin u.fields /\ u.new[g] = u.snap[g])
    BY <1>1, <1>2, <1>4, <2>3, EntryTypes DEF Sound
  <2>5. \A g \in Fields : t.new[g].acct # a
    <3> SUFFICES ASSUME NEW g \in Fields, t.new[g].acct = a PROVE FALSE
      OBVIOUS
    <3>1. IsBound(t.new[g])
      BY <1>4 DEF IsBound, Accts
    <3>2. CASE t.new[g].acct \in t.writes
      BY <1>1, <1>4, <3>2 DEF Sound, IInv, TypeOK, Accts
    <3>3. CASE t.new[g] = t.snap[g]
      BY <1>4, <1>8, <3>3
    <3>4. QED
      BY <1>1, <3>1, <3>2, <3>3 DEF Sound
  <2>6. Distinct(u.new)
    <3> SUFFICES ASSUME NEW g \in Fields, NEW h \in Fields, IsBound(u.new[g]),
                        u.new[g].acct = u.new[h].acct
                 PROVE  g = h
      BY DEF Distinct
    <3>1. CASE g = f \/ h = f
      BY <1>4, <2>3, <2>5, <3>1, EntryTypes
    <3>2. CASE g # f /\ h # f
      BY <1>1, <2>3, <3>2 DEF Sound, Distinct
    <3>3. QED
      BY <3>1, <3>2
  <2>7. \A b \in u.deletes \cup u.gone : \E g \in u.fields : u.snap[g].acct = b
    <3>1. IsBound(t.snap[f]) => f \in t.fields
      BY <1>1, <1>5, TxnFields DEF ToStage, IsPlain, IsBound
    <3>2. QED
      BY <1>1, <1>2, <3>1 DEF Sound
  <2>8. QED
    BY <1>1, <1>2, <2>1, <2>2, <2>4, <2>6, <2>7 DEF Sound
<1>10. Scheduled(u)
  <2>1. ToStage(u) = ToStage(t)
    BY <1>2 DEF ToStage
  <2>2. QED
    BY <1>1, <1>2, <2>1 DEF AtStage, Scheduled
<1>11. AtStage(txn[p], "stage")'
  <2>1. \A b \in u.writes : keychain'[b] # None
    BY <1>1, <1>2, <1>6, TxnFields DEF AtStage
  <2>2. \A c \in durable' : Avoids(c, u.writes)
    BY <1>1, <1>2, <1>3, <1>4 DEF AtStage, Avoids
  <2>3. QED
    BY <1>1, <1>2, <1>3, <1>10, <2>1, <2>2 DEF AtStage
<1>12. QED
  BY <1>1, <1>7, <1>9, <1>11 DEF Holds

LEMMA StageFallbackHolds ==
    ASSUME IInv, TypeOK', NEW p \in Procs, NEW f \in Fields, StageFallback(p, f)
    PROVE  Holds(p)'
<1> DEFINE t == txn[p]
           u == txn'[p]
<1>1. t \in Txn /\ u \in Txn /\ Sound(t) /\ AtStage(t, "stage") /\ pc[p] = "stage" /\ pc'[p] = "stage"
  BY DEF IInv, TypeOK, TxnsOK, Working, StageFallback
<1>2. /\ u.new = [t.new EXCEPT ![f] = Plain(ValueOf(t, f))]
      /\ u.todo = t.todo \ {f} /\ u.writes = t.writes /\ u.deletes = t.deletes
      /\ u.snap = t.snap /\ u.gone = t.gone /\ u.fields = t.fields /\ u.val = t.val
      /\ u.status = t.status /\ u.complete = t.complete /\ u.off = t.off
  BY <1>1 DEF StageFallback, IInv, TypeOK, Txn
<1>3. UNCHANGED <<file, durable, keychain, used>> /\ (t.off \/ ~IsBound(t.snap[f]))
  BY DEF StageFallback
<1>4. FilesOK'
  BY <1>3 DEF IInv, FilesOK, Present
<1>5. \A g \in Fields : u.new[g] = IF g = f THEN Plain(ValueOf(t, f)) ELSE t.new[g]
  BY <1>1, <1>2, TxnFields DEF Contents
<1>6. ~IsBound(Plain(ValueOf(t, f)))
  BY <1>1, EntryTypes, ValueTypes DEF IsBound
<1>7. Distinct(u.new)
  BY <1>1, <1>5, <1>6 DEF Sound, Distinct, IsBound
<1>8. Sound(txn[p])'
  BY <1>1, <1>2, <1>3, <1>5, <1>6, <1>7 DEF Sound
<1>9. Scheduled(u)
  <2>1. ToStage(u) = ToStage(t)
    BY <1>2 DEF ToStage
  <2>2. QED
    BY <1>1, <1>2, <1>3, <2>1 DEF AtStage, Scheduled
<1>10. AtStage(txn[p], "stage")'
  BY <1>1, <1>2, <1>3, <1>9 DEF AtStage
<1>11. QED
  BY <1>1, <1>4, <1>8, <1>10 DEF Holds

LEMMA StageFailsHolds ==
    ASSUME IInv, TypeOK', NEW p \in Procs, StageFails(p)
    PROVE  Holds(p)'
<1> DEFINE t == txn[p]
           u == txn'[p]
           a == used + 1
<1>1. t \in Txn /\ u \in Txn /\ Sound(t) /\ AtStage(t, "stage") /\ pc[p] = "stage" /\ pc'[p] = "rollback"
  BY DEF IInv, TypeOK, TxnsOK, Working, StageFails
<1>2. CASE UNCHANGED <<keychain, used, txn>>
  <2>1. UNCHANGED <<file, durable, keychain, used, txn>>
    BY <1>2 DEF StageFails
  <2>2. QED
    BY <1>1, <2>1 DEF Holds, IInv, FilesOK, Present, Sound, AtStage
<1>3. CASE ~UNCHANGED <<keychain, used, txn>>
  <2>1. PICK f \in t.todo : /\ keychain' = [keychain EXCEPT ![a] = ValueOf(t, f)]
                            /\ txn' = [txn EXCEPT ![p].writes = @ \cup {a}]
                            /\ used < MaxAcct /\ used' = a
    BY <1>3 DEF StageFails
  <2>2. file' = file /\ durable' = durable
    BY DEF StageFails
  <2>3. /\ u.new = t.new /\ u.writes = t.writes \cup {a} /\ u.deletes = t.deletes
        /\ u.snap = t.snap /\ u.gone = t.gone /\ u.fields = t.fields
    BY <1>1, <2>1 DEF IInv, TypeOK, Txn
  <2>4. /\ a \in Accts
        /\ \A c \in durable : \A g \in Fields : c[g].acct # a
    BY <2>1, FreshAccount
  <2>5. \A b \in Accts : b # a => keychain'[b] = keychain[b]
    BY <2>1, <2>4 DEF IInv, TypeOK
  <2>6. FilesOK'
    <3>1. \A c \in durable : Present(c)'
      <4> SUFFICES ASSUME NEW c \in durable, NEW g \in Fields, IsBound(c[g])
                   PROVE  keychain'[c[g].acct] # None
        BY DEF Present
      <4>1. c[g].acct \in Accts
        BY EntryTypes DEF IInv, TypeOK, Contents, IsBound
      <4>2. QED
        BY <2>4, <2>5, <4>1 DEF IInv, FilesOK, Present
    <3>2. \A b \in Accts : b > used' => keychain'[b] = None
      BY <2>1, <2>5 DEF IInv, FilesOK, TypeOK, Accts
    <3>3. QED
      BY <2>2, <3>1, <3>2 DEF IInv, FilesOK
  <2>7. t.snap \in durable
    BY <1>1 DEF AtStage, IInv, FilesOK
  <2>8. Sound(txn[p])'
    <3>1. \A b \in u.writes \cup u.deletes \cup u.gone : b <= used'
      <4>1. \A b \in u.writes \cup u.deletes \cup u.gone : b = a \/ b <= used
        BY <1>1, <2>3 DEF Sound
      <4>2. u.writes \cup u.deletes \cup u.gone \subseteq Accts
        BY <1>1, TxnFields
      <4>3. QED
        BY <2>1, <4>1, <4>2 DEF IInv, TypeOK, Accts
    <3>2. Avoids(t.snap, u.writes)
      BY <1>1, <2>3, <2>4, <2>7 DEF Sound, Avoids
    <3>3. QED
      BY <1>1, <2>3, <3>1, <3>2 DEF Sound
  <2>9. AtStage(txn[p], "rollback")'
    BY <1>1, <2>2, <2>3, <2>4 DEF AtStage, Avoids
  <2>10. QED
    BY <1>1, <2>6, <2>8, <2>9 DEF Holds
<1>4. QED
  BY <1>2, <1>3

\* A step that moves on with the files and the keychain as they are.
LEMMA MoveOn ==
    ASSUME IInv, NEW p \in Procs, UNCHANGED <<file, durable, keychain, used>>,
           pc[p] \in Working, pc'[p] \in Working, txn'[p] = txn[p],
           AtStage(txn[p], pc'[p])
    PROVE  Holds(p)'
<1>1. Sound(txn[p])
  BY DEF IInv, TxnsOK
<1>2. Sound(txn[p])'
  BY <1>1 DEF Sound
<1>3. AtStage(txn[p], pc[p])'
  BY DEF AtStage, Scheduled, Captured, Undoable, Present
<1>4. FilesOK'
  BY DEF IInv, FilesOK, Present
<1>5. QED
  BY <1>2, <1>3, <1>4 DEF Holds

\* The work ends without touching files or keychain.
LEMMA ReturnHolds ==
    ASSUME IInv, NEW p \in Procs, UNCHANGED <<file, durable, keychain, used>>,
           NEW o \in Settled, Return(p, o)
    PROVE  Holds(p)'
<1>1. pc'[p] \notin Working
  BY DEF Return, IInv, TypeOK, Settled, Working
<1>2. QED
  BY <1>1, NoWork

LEMMA PreflightHolds ==
    ASSUME IInv, TypeOK', NEW p \in Procs, Preflight(p)
    PROVE  Holds(p)'
<1> DEFINE t == txn[p]
           u == txn'[p]
<1>0. UNCHANGED <<file, durable, keychain, used>>
  BY DEF Preflight
<1>1. CASE Return(p, "ok")
  BY <1>0, <1>1, ReturnHolds DEF Settled
<1>2. CASE ~Return(p, "ok")
  <2>1. t \in Txn /\ u \in Txn /\ Sound(t) /\ AtStage(t, "stage") /\ t.todo = {} /\ pc'[p] = "rename"
    BY <1>2 DEF IInv, TypeOK, TxnsOK, Working, Preflight
  <2>2. /\ u.prev = [a \in Accts |-> IF a \in t.deletes THEN keychain[a] ELSE None]
        /\ u.new = t.new /\ u.todo = t.todo /\ u.writes = t.writes /\ u.deletes = t.deletes
        /\ u.snap = t.snap /\ u.gone = t.gone /\ u.fields = t.fields /\ u.val = t.val
        /\ u.status = t.status /\ u.complete = t.complete /\ u.off = t.off
    <3>1. txn' = [txn EXCEPT ![p].prev = [a \in Accts |-> IF a \in t.deletes THEN keychain[a]
                                                                            ELSE None]]
      BY <1>2 DEF Preflight
    <3>2. QED
      BY <2>1, <3>1 DEF IInv, TypeOK, Txn
  <2>3. FilesOK'
    BY <1>0 DEF IInv, FilesOK, Present
  <2>4. Sound(txn[p])'
    BY <1>0, <2>1, <2>2 DEF Sound
  <2>5. Captured(u)
    <3> SUFFICES ASSUME NEW a \in t.deletes PROVE keychain[a] # None
      BY <2>1, <2>2, TxnFields DEF Captured, AtStage
    <3>1. a \in Accts
      BY <2>1, TxnFields
    <3>2. PICK f \in t.fields : t.snap[f].acct = a
      BY <2>1 DEF Sound
    <3>3. f \in Fields /\ IsBound(t.snap[f])
      BY <2>1, <3>1, <3>2, TxnFields DEF IsBound, Accts
    <3>4. t.snap \in durable
      BY <2>1 DEF AtStage, IInv, FilesOK
    <3>5. QED
      BY <3>2, <3>3, <3>4 DEF IInv, FilesOK, Present
  <2>6. Scheduled(u)
    <3>1. ToStage(u) = ToStage(t)
      BY <2>2 DEF ToStage
    <3>2. QED
      BY <2>1, <2>2, <3>1 DEF AtStage, Scheduled
  <2>7. AtStage(txn[p], "rename")'
    BY <1>0, <2>1, <2>2, <2>5, <2>6 DEF AtStage
  <2>8. QED
    BY <2>1, <2>3, <2>4, <2>7 DEF Holds
<1>3. QED
  BY <1>1, <1>2

\* Staged accounts go with a failed write; no contents name them.
LEMMA RollbackHolds ==
    ASSUME IInv, TypeOK', NEW p \in Procs, Rollback(p)
    PROVE  Holds(p)'
<1> DEFINE t == txn[p]
<1>1. t \in Txn /\ AtStage(t, "rollback") /\ Return(p, "failed")
      /\ UNCHANGED <<file, durable, used>>
  BY DEF IInv, TypeOK, TxnsOK, Working, Rollback
<1>2. \A a \in Accts : /\ keychain'[a] = keychain[a] \/ keychain'[a] = None
                       /\ a \notin t.writes => keychain'[a] = keychain[a]
  BY DEF Rollback
<1>3. pc'[p] \notin Working
  BY <1>1 DEF Return, IInv, TypeOK, Working
<1>4. \A c \in durable : Present(c)'
  <2> SUFFICES ASSUME NEW c \in durable, NEW f \in Fields, IsBound(c[f])
               PROVE  keychain'[c[f].acct] # None
    BY DEF Present
  <2>1. c[f].acct \in Accts /\ c[f].acct \notin t.writes
    BY <1>1, EntryTypes DEF IInv, TypeOK, Contents, IsBound, AtStage, Avoids
  <2>2. QED
    BY <1>2, <2>1 DEF IInv, FilesOK, Present
<1>5. FilesOK'
  BY <1>1, <1>2, <1>4 DEF IInv, FilesOK
<1>6. QED
  BY <1>3, <1>5 DEF Holds

\* The contents written name staged accounts and old ones, and both are there.
LEMMA NewPresent ==
    ASSUME NEW t \in Txn, Sound(t), Present(t.snap), \A a \in t.writes : keychain[a] # None
    PROVE  Present(t.new)
BY DEF Sound, Present

LEMMA RenameHolds ==
    ASSUME IInv, TypeOK', NEW p \in Procs, Rename(p)
    PROVE  Holds(p)'
<1> DEFINE t == txn[p]
<1>1. t \in Txn /\ Sound(t) /\ AtStage(t, "rename") /\ pc'[p] = "sync" /\ txn'[p] = t
  BY DEF IInv, TypeOK, TxnsOK, Working, Rename
<1>2. /\ file' = t.new /\ durable' = durable \cup {t.new}
      /\ UNCHANGED <<keychain, used>>
  BY DEF Rename
<1>3. t.snap \in durable /\ Present(t.snap)
  BY <1>1 DEF AtStage, IInv, FilesOK
<1>4. Present(t.new) /\ Distinct(t.new)
  BY <1>1, <1>3, NewPresent DEF AtStage, Sound
<1>5. FilesOK'
  BY <1>2, <1>4 DEF IInv, FilesOK, Present
<1>6. Sound(txn[p])'
  BY <1>1, <1>2 DEF Sound
<1>7. AtStage(txn[p], "sync")'
  BY <1>1, <1>2, <1>3 DEF AtStage, Scheduled, Captured, Present
<1>8. QED
  BY <1>1, <1>5, <1>6, <1>7 DEF Holds

LEMMA SyncHolds ==
    ASSUME IInv, TypeOK', NEW p \in Procs, SyncDir(p)
    PROVE  Holds(p)'
<1> DEFINE t == txn[p]
<1>1. t \in Txn /\ Sound(t) /\ AtStage(t, "sync") /\ pc'[p] = "delete" /\ txn'[p] = t
  BY DEF IInv, TypeOK, TxnsOK, Working, SyncDir
<1>2. durable' = {file} /\ UNCHANGED <<file, keychain, used>>
  BY DEF SyncDir
<1>3. FilesOK'
  BY <1>2 DEF IInv, FilesOK, Present
<1>4. Sound(txn[p])'
  BY <1>1, <1>2 DEF Sound
<1>5. AtStage(txn[p], "delete")'
  BY <1>1, <1>2 DEF AtStage, Scheduled, Captured, Undoable, Present
<1>6. QED
  BY <1>1, <1>3, <1>4, <1>5 DEF Holds

\* An account that the surviving contents do not name may change.
LEMMA ChangeUnnamed ==
    ASSUME IInv, NEW a \in Accts, NEW v,
           \A c \in durable : \A f \in Fields : c[f].acct # a,
           keychain' = [keychain EXCEPT ![a] = v], v = None \/ a <= used,
           UNCHANGED <<file, durable, used>>
    PROVE  FilesOK'
<1>1. \A c \in durable : Present(c)'
  <2> SUFFICES ASSUME NEW c \in durable, NEW g \in Fields, IsBound(c[g])
               PROVE  keychain'[c[g].acct] # None
    BY DEF Present
  <2>1. c[g].acct \in Accts
    BY EntryTypes DEF IInv, TypeOK, Contents, IsBound
  <2>2. QED
    BY <2>1 DEF IInv, TypeOK, FilesOK, Present
<1>2. \A b \in Accts : b > used => keychain'[b] = None
  BY DEF IInv, FilesOK, TypeOK, Accts
<1>3. QED
  BY <1>1, <1>2 DEF IInv, FilesOK

LEMMA DeleteHolds ==
    ASSUME IInv, TypeOK', NEW p \in Procs, NEW a \in Accts, DeleteOld(p, a) \/ DeleteFails(p, a)
    PROVE  Holds(p)'
<1> DEFINE t == txn[p]
           u == txn'[p]
<1>1. t \in Txn /\ u \in Txn /\ Sound(t) /\ AtStage(t, "delete") /\ a \in t.deletes
      /\ UNCHANGED <<file, durable, used>>
  BY DEF IInv, TypeOK, TxnsOK, Working, DeleteOld, DeleteFails
<1>2. /\ u.deletes = t.deletes \ {a} /\ u.gone = t.gone \cup {a} /\ u.prev = t.prev
      /\ u.new = t.new /\ u.todo = t.todo /\ u.writes = t.writes
      /\ u.snap = t.snap /\ u.fields = t.fields /\ u.val = t.val
      /\ u.status = t.status /\ u.complete = t.complete /\ u.off = t.off
  BY <1>1 DEF DeleteOld, DeleteFails, IInv, TypeOK, Txn
<1>3. u.deletes \cup u.gone = t.deletes \cup t.gone
  BY <1>1, <1>2
<1>4. \A f \in Fields : t.new[f].acct # a
  BY <1>1, NotNamed
<1>5. keychain' = keychain \/ keychain' = [keychain EXCEPT ![a] = None]
  BY DEF DeleteOld, DeleteFails
<1>6. FilesOK'
  <2>1. CASE keychain' = keychain
    BY <1>1, <2>1 DEF IInv, FilesOK, Present
  <2>2. CASE keychain' = [keychain EXCEPT ![a] = None]
    <3>1. \A c \in durable : \A f \in Fields : c[f].acct # a
      BY <1>1, <1>4 DEF AtStage
    <3>2. QED
      BY <1>1, <2>2, <3>1, ChangeUnnamed
  <2>3. QED
    BY <1>5, <2>1, <2>2
<1>7. Sound(txn[p])'
  BY <1>1, <1>2, <1>3 DEF Sound
<1>8. Captured(u)
  BY <1>1, <1>2, <1>3 DEF AtStage, Captured
<1>9. \A b \in Accts : b # a => keychain'[b] = keychain[b]
  BY <1>5 DEF IInv, TypeOK
<1>10. Undoable(txn[p])'
  <2> SUFFICES ASSUME NEW f \in Fields, IsBound(t.snap[f])
               PROVE  keychain'[t.snap[f].acct] # None \/ t.snap[f].acct \in t.gone \cup {a}
    BY <1>2 DEF Undoable
  <2>1. t.snap[f].acct \in Accts
    BY <1>1, EntryTypes, TxnFields DEF Contents, IsBound
  <2>2. QED
    BY <1>1, <1>9, <2>1 DEF AtStage, Undoable
<1>11. CASE DeleteOld(p, a)
  <2>1. pc'[p] = "delete" /\ keychain'[a] = None
    BY <1>11 DEF DeleteOld, IInv, TypeOK
  <2>2. Scheduled(u)
    <3>1. ToStage(u) = ToStage(t)
      BY <1>2 DEF ToStage
    <3>2. QED
      BY <1>1, <1>2, <1>3, <3>1 DEF AtStage, Scheduled
  <2>3. \A b \in u.gone : keychain'[b] = None
    BY <1>1, <1>2, <1>9, <2>1, TxnFields DEF AtStage
  <2>4. \A b \in u.writes : keychain'[b] # None
    <3> SUFFICES ASSUME NEW b \in t.writes PROVE keychain'[b] # None
      BY <1>2
    <3>1. b # a
      BY <1>1 DEF Sound, Avoids, Txn
    <3>2. QED
      BY <1>1, <1>9, <3>1, TxnFields DEF AtStage
  <2>5. AtStage(txn[p], "delete")'
    BY <1>1, <1>2, <1>8, <1>10, <2>2, <2>3, <2>4 DEF AtStage
  <2>6. QED
    BY <1>6, <1>7, <2>1, <2>5 DEF Holds
<1>12. CASE DeleteFails(p, a)
  <2>1. pc'[p] = "undelete"
    BY <1>12 DEF DeleteFails, IInv, TypeOK
  <2>2. AtStage(txn[p], "undelete")'
    BY <1>1, <1>2, <1>8, <1>10 DEF AtStage
  <2>3. QED
    BY <1>6, <1>7, <2>1, <2>2 DEF Holds
<1>13. QED
  BY <1>11, <1>12

LEMMA UndeleteHolds ==
    ASSUME IInv, TypeOK', NEW p \in Procs, NEW a \in Accts, Undelete(p, a) \/ UndeleteFails(p, a)
    PROVE  Holds(p)'
<1> DEFINE t == txn[p]
           u == txn'[p]
<1>1. t \in Txn /\ u \in Txn /\ Sound(t) /\ AtStage(t, "undelete") /\ a \in t.gone
      /\ UNCHANGED <<file, durable, used>> /\ pc'[p] = "undelete"
  BY DEF IInv, TypeOK, TxnsOK, Working, Undelete, UndeleteFails
<1>2. /\ u.deletes = t.deletes /\ u.gone = t.gone \ {a} /\ u.prev = t.prev
      /\ u.new = t.new /\ u.todo = t.todo /\ u.writes = t.writes
      /\ u.snap = t.snap /\ u.fields = t.fields
      /\ u.complete => t.complete /\ Undelete(p, a)
  BY <1>1 DEF Undelete, UndeleteFails, IInv, TypeOK, Txn
<1>3. t.prev[a] # None
  BY <1>1 DEF AtStage, Captured
<1>4. keychain' = keychain \/ keychain' = [keychain EXCEPT ![a] = t.prev[a]]
  BY DEF Undelete, UndeleteFails
<1>5. FilesOK'
  <2>1. CASE keychain' = keychain
    BY <1>1, <2>1 DEF IInv, FilesOK, Present
  <2>2. CASE keychain' = [keychain EXCEPT ![a] = t.prev[a]]
    <3>1. \A c \in durable : Present(c)'
      <4> SUFFICES ASSUME NEW c \in durable, NEW g \in Fields, IsBound(c[g])
                   PROVE  keychain'[c[g].acct] # None
        BY DEF Present
      <4>1. c[g].acct \in Accts
        BY EntryTypes DEF IInv, TypeOK, Contents, IsBound
      <4>2. QED
        BY <1>3, <2>2, <4>1 DEF IInv, TypeOK, FilesOK, Present
    <3>2. a <= used
      BY <1>1 DEF Sound
    <3>3. \A b \in Accts : b > used => keychain'[b] = None
      BY <2>2, <3>2 DEF IInv, FilesOK, TypeOK, Accts
    <3>4. QED
      BY <1>1, <3>1, <3>3 DEF IInv, FilesOK
  <2>3. QED
    BY <1>4, <2>1, <2>2
<1>6. Sound(txn[p])'
  BY <1>1, <1>2 DEF Sound
<1>7. Captured(u)
  BY <1>1, <1>2 DEF AtStage, Captured
<1>8. u.complete => Undoable(txn[p])'
  <2> SUFFICES ASSUME u.complete, NEW f \in Fields, IsBound(t.snap[f])
               PROVE  keychain'[t.snap[f].acct] # None \/ t.snap[f].acct \in t.gone \ {a}
    BY <1>2 DEF Undoable
  <2>1. keychain' = [keychain EXCEPT ![a] = t.prev[a]]
    BY <1>2, <1>3 DEF Undelete
  <2>2. t.snap[f].acct \in Accts
    BY <1>1, EntryTypes, TxnFields DEF Contents, IsBound
  <2>3. QED
    BY <1>1, <1>2, <1>3, <2>1, <2>2 DEF AtStage, Undoable, IInv, TypeOK
<1>9. AtStage(txn[p], "undelete")'
  BY <1>1, <1>2, <1>7, <1>8 DEF AtStage
<1>10. QED
  BY <1>1, <1>5, <1>6, <1>9 DEF Holds

LEMMA RestoreHolds ==
    ASSUME IInv, TypeOK', NEW p \in Procs, RestoreFile(p)
    PROVE  Holds(p)'
<1> DEFINE t == txn[p]
<1>1. t \in Txn /\ Sound(t) /\ AtStage(t, "restore") /\ pc'[p] = "resync" /\ txn'[p] = t
  BY DEF IInv, TypeOK, TxnsOK, Working, RestoreFile
<1>2. /\ file' = t.snap /\ durable' = durable \cup {t.snap}
      /\ UNCHANGED <<keychain, used>>
  BY DEF RestoreFile
<1>3. FilesOK'
  BY <1>1, <1>2 DEF IInv, FilesOK, Present, AtStage, Sound
<1>4. Sound(txn[p])'
  BY <1>1, <1>2 DEF Sound
<1>5. AtStage(txn[p], "resync")'
  BY <1>1, <1>2 DEF AtStage
<1>6. QED
  BY <1>1, <1>3, <1>4, <1>5 DEF Holds

LEMMA ResyncHolds ==
    ASSUME IInv, TypeOK', NEW p \in Procs, Resync(p)
    PROVE  Holds(p)'
<1> DEFINE t == txn[p]
<1>1. t \in Txn /\ Sound(t) /\ AtStage(t, "resync") /\ pc'[p] = "rollback" /\ txn'[p] = t
  BY DEF IInv, TypeOK, TxnsOK, Working, Resync
<1>2. durable' = {file} /\ UNCHANGED <<file, keychain, used>>
  BY DEF Resync
<1>3. FilesOK'
  BY <1>2 DEF IInv, FilesOK, Present
<1>4. Sound(txn[p])'
  BY <1>1, <1>2 DEF Sound
<1>5. AtStage(txn[p], "rollback")'
  BY <1>1, <1>2 DEF AtStage, Sound
<1>6. QED
  BY <1>1, <1>3, <1>4, <1>5 DEF Holds

LEMMA WriteHolds ==
    ASSUME IInv, TypeOK', NEW p \in Procs, Write(p) \/ Crash(p)
    PROVE  Holds(p)'
<1>1. CASE ReadFile(p) \/ Resolve(p) \/ Change(p) \/ ReadOnly(p) \/ Again(p)
  <2>1. UNCHANGED <<file, durable, keychain, used>>
    BY <1>1 DEF ReadFile, Resolve, Change, ReadOnly, Again
  <2>2. pc'[p] \notin Working
    BY <1>1 DEF ReadFile, Resolve, Change, ReadOnly, Again, Working, IInv, TypeOK
  <2>3. QED
    BY <2>1, <2>2, NoWork
<1>2. CASE LockTimesOut(p) \/ Stale(p) \/ SyncFails(p) \/ Committed(p) \/ RestoreFails(p) \/ Crash(p)
  <2>1. UNCHANGED <<file, durable, keychain, used>>
    BY <1>2 DEF LockTimesOut, Stale, SyncFails, Committed, RestoreFails, Crash
  <2>2. \E o \in Settled : Return(p, o)
    BY <1>2 DEF LockTimesOut, Stale, SyncFails, Committed, RestoreFails, Crash, Settled
  <2>3. QED
    BY <2>1, <2>2, ReturnHolds
<1>3. CASE PreflightFails(p) \/ RenameFails(p)
  <2>1. /\ UNCHANGED <<file, durable, keychain, used>> /\ txn'[p] = txn[p]
        /\ pc[p] \in {"stage", "rename"} /\ pc'[p] = "rollback"
    BY <1>3 DEF PreflightFails, RenameFails, IInv, TypeOK
  <2>2. AtStage(txn[p], pc[p])
    BY <2>1 DEF IInv, TxnsOK, Working
  <2>3. AtStage(txn[p], "rollback")
    BY <2>1, <2>2 DEF AtStage
  <2>4. QED
    BY <2>1, <2>3, MoveOn DEF Working
<1>4. CASE Undeleted(p)
  <2>1. UNCHANGED <<file, durable, keychain, used>>
    BY <1>4 DEF Undeleted
  <2>2. CASE Return(p, "unsettled")
    BY <2>1, <2>2, ReturnHolds DEF Settled
  <2>3. CASE ~Return(p, "unsettled")
    <3>1. /\ txn'[p] = txn[p] /\ txn[p].complete /\ txn[p].gone = {}
          /\ pc[p] = "undelete" /\ pc'[p] = "restore"
      BY <1>4, <2>3 DEF Undeleted, IInv, TypeOK
    <3>2. AtStage(txn[p], "undelete")
      BY <3>1 DEF IInv, TxnsOK, Working
    <3>3. AtStage(txn[p], "restore")
      BY <3>1, <3>2 DEF AtStage, Undoable, Present
    <3>4. QED
      BY <2>1, <3>1, <3>3, MoveOn DEF Working
  <2>4. QED
    BY <2>2, <2>3
<1>5. QED
  BY <1>1, <1>2, <1>3, <1>4, LockHolds, StageSetHolds, StageFallbackHolds, StageFailsHolds,
     PreflightHolds, RollbackHolds, RenameHolds, SyncHolds, DeleteHolds, UndeleteHolds,
     RestoreHolds, ResyncHolds
  DEF Write

LEMMA InitOK == Init => IInv
<1> SUFFICES ASSUME Init PROVE IInv
  OBVIOUS
<1>1. TypeOK
  BY TypeInit
<1>2. NoTxn.writes = {} /\ NoTxn.gone = {} /\ NoTxn.complete
  BY DEF NoTxn
<1>3. LockOK /\ TxnsOK
  BY <1>2 DEF Init, LockOK, TxnsOK, Working, Settled
<1>4. FilesOK
  <2>1. PICK number \in [Fields -> 1 .. used] :
           /\ \A f, g \in Fields : f # g => number[f] # number[g]
           /\ \A f \in Fields : IsBound(file[f]) => file[f].acct = number[f]
           /\ \A f \in Fields : keychain[number[f]] # None <=> IsBound(file[f])
    BY DEF Init
  <2>2. Distinct(file)
    BY <2>1 DEF Distinct, IsBound
  <2>3. Present(file)
    BY <2>1 DEF Present
  <2>4. QED
    BY <2>2, <2>3 DEF Init, FilesOK
<1>5. QED
  BY <1>1, <1>3, <1>4 DEF IInv

LEMMA Inductive == Spec => []IInv
<1>1. IInv /\ [Next]_vars => IInv'
  <2> SUFFICES ASSUME IInv, [Next]_vars PROVE IInv'
    OBVIOUS
  <2>1. TypeOK' /\ LockOK'
    BY TypeStep, LockStep DEF IInv
  <2>2. ASSUME NEW p \in Procs, Write(p) \/ Crash(p) PROVE FilesOK' /\ TxnsOK'
    <3>1. Holds(p)'
      BY <2>1, <2>2, WriteHolds
    <3>2. \A q \in Procs : q # p /\ pc'[q] \in Working => Sound(txn[q])' /\ AtStage(txn[q], pc[q])'
      BY <2>1, <2>2, OthersKept
    <3>3. QED
      BY <3>1, <3>2 DEF Holds, TxnsOK
  <2>3. CASE PowerLoss
    <3>1. TxnsOK'
      BY <2>3 DEF PowerLoss, TxnsOK, Working
    <3>2. FilesOK'
      BY <2>3 DEF PowerLoss, IInv, FilesOK, Present
    <3>3. QED
      BY <2>1, <3>1, <3>2 DEF IInv
  <2>4. CASE UNCHANGED vars
    <3>1. FilesOK'
      BY <2>4 DEF vars, IInv, FilesOK, Present
    <3>2. TxnsOK'
      BY <2>4 DEF vars, IInv, TxnsOK, Sound, AtStage, Present, Undoable
    <3>3. QED
      BY <2>1, <3>1, <3>2 DEF IInv
  <2>5. QED
    BY <2>1, <2>2, <2>3, <2>4 DEF Next, IInv
<1>2. QED
  BY <1>1, InitOK, PTL DEF Spec

-----------------------------------------------------------------------------
(***************************************************************************)
(* What follows from it.                                                   *)
(***************************************************************************)
\* writeConfig with its keychainWriteTransaction: whatever contents survive, they
\* never name an account without its value, and those are all the contents a reader
\* or a power loss can find.
THEOREM NoMissingAccount == Spec => []NeverDangling
<1>1. IInv => NeverDangling
  BY DEF IInv, FilesOK, Present, NeverDangling
<1>2. QED
  BY <1>1, Inductive, PTL

\* The deferred rollback: the accounts it removes are named by no contents.
THEOREM RollbackIsClean == Spec => []FailureLeavesNoTrace
<1>1. IInv => FailureLeavesNoTrace
  BY DEF IInv, TxnsOK, AtStage, Avoids, Working, FailureLeavesNoTrace
<1>2. QED
  BY <1>1, Inductive, PTL

\* commit returns nil only when the new file is durable and the credentials it
\* replaced or removed are gone.
THEOREM CommitSettles == Spec => SuccessSettles
<1>1. IInv /\ [Next]_vars => [\A p \in Procs :
          pc[p] = "delete" /\ pc'[p] = "ok" =>
              /\ durable = {txn[p].new}
              /\ file = txn[p].new
              /\ \A f \in txn[p].fields :
                    /\ txn[p].status[f] \in Deletable
                    /\ IsBound(txn[p].snap[f])
                    /\ ~txn[p].off
                    => keychain[txn[p].snap[f].acct] = None]_vars
  <2> SUFFICES ASSUME IInv, [Next]_vars, NEW p \in Procs, pc[p] = "delete", pc'[p] = "ok"
               PROVE  /\ durable = {txn[p].new}
                      /\ file = txn[p].new
                      /\ \A f \in txn[p].fields :
                            /\ txn[p].status[f] \in Deletable
                            /\ IsBound(txn[p].snap[f])
                            /\ ~txn[p].off
                            => keychain[txn[p].snap[f].acct] = None
    OBVIOUS
  <2>1. AtStage(txn[p], "delete")
    BY DEF IInv, TxnsOK, Working
  <2>2. txn[p].deletes = {}
    <3>1. ASSUME NEW q \in Procs, Write(q) \/ Crash(q) PROVE txn[p].deletes = {}
      <4>1. q = p
        BY <3>1, WriteLocal DEF IInv
      <4>2. CASE Crash(p)
        BY <4>2 DEF Crash, Return, IInv, TypeOK
      <4>3. ASSUME NEW f \in Fields, StageSet(p, f) \/ StageFallback(p, f) PROVE FALSE
        BY <4>3 DEF StageSet, StageFallback
      <4>4. ASSUME NEW a \in Accts, DeleteOld(p, a) \/ DeleteFails(p, a) \/ Undelete(p, a)
                                    \/ UndeleteFails(p, a)
            PROVE  FALSE
        BY <4>4 DEF DeleteOld, DeleteFails, Undelete, UndeleteFails, IInv, TypeOK
      <4>5. CASE Committed(p)
        BY <4>5 DEF Committed
      <4>6. QED
        BY <3>1, <4>1, <4>2, <4>3, <4>4, <4>5
        DEF Write, ReadFile, Resolve, Change, ReadOnly, Again, LockTimesOut, Stale, Lock,
            StageFails, Preflight, PreflightFails, Rollback, Rename, RenameFails, SyncDir,
            SyncFails, Undeleted, RestoreFile, RestoreFails, Resync
    <3>2. CASE PowerLoss
      BY <3>2 DEF PowerLoss
    <3>3. CASE UNCHANGED vars
      BY <3>3 DEF vars
    <3>4. QED
      BY <3>1, <3>2, <3>3 DEF Next
  <2>3. ASSUME NEW f \in txn[p].fields, txn[p].status[f] \in Deletable,
               IsBound(txn[p].snap[f]), ~txn[p].off
        PROVE  keychain[txn[p].snap[f].acct] = None
    BY <2>1, <2>2, <2>3 DEF AtStage, Scheduled
  <2>4. QED
    BY <2>1, <2>3 DEF AtStage
<1>2. QED
  BY <1>1, Inductive, PTL DEF Spec, SuccessSettles

-----------------------------------------------------------------------------
(***************************************************************************)
(* The refinement. What a transaction writes are the values asked for, and *)
(* what it would put back are the values that were there.                  *)
(***************************************************************************)
\* What a field of t is to hold.
Wanted(t, f) == IF f \in t.fields THEN t.val ELSE Value(t.snap[f])

WritesWanted(t) == \A f \in Fields \ t.todo : Value(t.new[f]) = Wanted(t, f)

PutsBack(t) == \A a \in Accts : t.prev[a] # None /\ a \notin t.gone => keychain[a] = t.prev[a]

Undoing == {"sync", "delete", "undelete", "restore"}

Valued(p) ==
    /\ pc[p] \in {"stage", "rename"} => WritesWanted(txn[p])
    /\ pc[p] \in Undoing \cup {"rename"} /\ txn[p].complete => PutsBack(txn[p])
    /\ pc[p] = "restore" => txn[p].complete /\ txn[p].gone = {}

ValuesHeld == \A p \in Procs : Valued(p)

\* An entry means the same while its account is left alone.
LEMMA SameValue ==
    ASSUME IInv, TypeOK', NEW e \in Entry,
           IsBound(e) => keychain'[e.acct] = keychain[e.acct]
    PROVE  Value(e)' = Value(e)
BY DEF Value, IsBound

LEMMA ValuesOthers ==
    ASSUME IInv, NEW p \in Procs, Write(p) \/ Crash(p), ValuesHeld, NEW q \in Procs, q # p
    PROVE  Valued(q)'
<1>1. pc'[q] = pc[q] /\ txn'[q] = txn[q]
  BY WriteLocal DEF IInv
<1>2. CASE pc[q] \in Working
  <2>1. UNCHANGED <<file, durable, keychain, used>>
    BY <1>2, WriteLocal DEF IInv, LockOK
  <2>2. QED
    BY <1>1, <2>1 DEF ValuesHeld, Valued, WritesWanted, Wanted, Value, PutsBack
<1>3. CASE pc[q] \notin Working
  BY <1>1, <1>3 DEF Valued, Working, Undoing
<1>4. QED
  BY <1>2, <1>3

LEMMA ValuesLock ==
    ASSUME IInv, TypeOK', NEW p \in Procs, Lock(p)
    PROVE  Valued(p)'
<1> DEFINE t == txn[p]
           u == txn'[p]
<1>1. t \in Txn /\ u \in Txn /\ pc'[p] = "stage" /\ keychain' = keychain
  BY DEF Lock, IInv, TypeOK
<1>2. /\ u.new = Kept(t) /\ u.todo = ToStage(t) /\ u.snap = t.snap
      /\ u.fields = t.fields /\ u.val = t.val
  BY <1>1 DEF Lock, IInv, TypeOK, Txn
<1>3. ASSUME NEW f \in Fields \ ToStage(t)
      PROVE  Value(Kept(t)[f]) = IF f \in t.fields THEN t.val ELSE Value(t.snap[f])
  <2>1. CASE f \in t.fields
    <3>1. t.val = None /\ Kept(t)[f] = Absent
      BY <2>1 DEF ToStage, Kept
    <3>2. QED
      BY <2>1, <3>1 DEF Value, Absent, IsBound
  <2>2. CASE f \notin t.fields
    BY <2>2 DEF Kept
  <2>3. QED
    BY <2>1, <2>2
<1>4. QED
  BY <1>1, <1>2, <1>3 DEF Valued, Undoing, WritesWanted, Wanted, Value

LEMMA ValuesStageSet ==
    ASSUME IInv, TypeOK', ValuesHeld, NEW p \in Procs, NEW f \in Fields, StageSet(p, f)
    PROVE  Valued(p)'
<1> DEFINE t == txn[p]
           u == txn'[p]
           a == used + 1
           After(e) == IF IsBound(e) THEN keychain'[e.acct] ELSE e.val
<1>1. t \in Txn /\ u \in Txn /\ Sound(t) /\ AtStage(t, "stage") /\ pc[p] = "stage" /\ pc'[p] = "stage"
      /\ WritesWanted(t)
  BY DEF IInv, TypeOK, TxnsOK, Working, StageSet, ValuesHeld, Valued
<1>2. /\ u.new = [t.new EXCEPT ![f] = Bound(a)] /\ u.todo = t.todo \ {f}
      /\ u.snap = t.snap /\ u.fields = t.fields /\ u.val = t.val
  BY <1>1 DEF StageSet, IInv, TypeOK, Txn
<1>3. keychain' = [keychain EXCEPT ![a] = ValueOf(t, f)] /\ f \in t.todo
  BY DEF StageSet
<1>4. /\ a \in Accts
      /\ \A c \in durable : \A g \in Fields : c[g].acct # a
  BY FreshAccount DEF StageSet
<1>5. t.snap \in durable
  BY <1>1 DEF AtStage, IInv, FilesOK
<1>6. \A g \in Fields : After(t.snap[g]) = Value(t.snap[g])
  <2> SUFFICES ASSUME NEW g \in Fields, IsBound(t.snap[g])
               PROVE  keychain'[t.snap[g].acct] = keychain[t.snap[g].acct]
    BY DEF Value
  <2>1. QED
    BY <1>3, <1>4, <1>5, NamedUsed DEF IInv, TypeOK
<1>7. ASSUME NEW g \in Fields \ u.todo
      PROVE  After(u.new[g]) = IF g \in t.fields THEN t.val ELSE Value(t.snap[g])
  <2>1. CASE g = f
    <3>1. u.new[g] = Bound(a)
      BY <1>1, <1>2, <2>1, TxnFields DEF Contents
    <3>2. keychain'[a] = ValueOf(t, f)
      BY <1>3, <1>4 DEF IInv, TypeOK
    <3>3. Bound(a).acct = a /\ IsBound(Bound(a))
      BY <1>4, EntryTypes DEF IsBound, Accts
    <3>4. f \in t.fields \/ IsPlain(t.snap[f])
      BY <1>1, <1>3 DEF AtStage, Scheduled, ToStage
    <3>5. ValueOf(t, f) = IF f \in t.fields THEN t.val ELSE Value(t.snap[f])
      BY <3>4 DEF ValueOf, Value, IsPlain, IsBound
    <3>6. After(u.new[g]) = keychain'[a]
      BY <3>1, <3>3
    <3>7. QED
      BY <2>1, <3>2, <3>5, <3>6
  <2>2. CASE g # f
    <3>1. u.new[g] = t.new[g] /\ g \notin t.todo
      BY <1>1, <1>2, <2>2, TxnFields DEF Contents
    <3>2. Value(t.new[g]) = IF g \in t.fields THEN t.val ELSE Value(t.snap[g])
      BY <1>1, <3>1 DEF WritesWanted, Wanted
    <3>3. IsBound(t.new[g]) => t.new[g].acct \in Accts /\ t.new[g].acct # a
      <4>1. CASE t.new[g].acct \in t.writes
        BY <1>1, <4>1, TxnFields DEF Sound, IInv, TypeOK, Accts
      <4>2. CASE t.new[g] = t.snap[g]
        BY <1>4, <1>5, <4>2, NamedUsed
      <4>3. QED
        BY <1>1, <4>1, <4>2 DEF Sound
    <3>4. IsBound(t.new[g]) => keychain'[t.new[g].acct] = keychain[t.new[g].acct]
      BY <1>3, <1>4, <3>3 DEF IInv, TypeOK
    <3>5. After(u.new[g]) = Value(t.new[g])
      BY <3>1, <3>4 DEF Value
    <3>6. QED
      BY <3>2, <3>5
  <2>3. QED
    BY <2>1, <2>2
<1>8. WritesWanted(txn[p])'
  <2>1. \A g \in Fields \ u.todo : After(u.new[g]) = IF g \in u.fields THEN u.val ELSE After(u.snap[g])
    BY <1>2, <1>6, <1>7
  <2>2. QED
    BY <2>1 DEF WritesWanted, Wanted, Value, IsBound
<1>9. QED
  BY <1>1, <1>8 DEF Valued, Undoing

LEMMA ValuesStageFallback ==
    ASSUME IInv, TypeOK', ValuesHeld, NEW p \in Procs, NEW f \in Fields, StageFallback(p, f)
    PROVE  Valued(p)'
<1> DEFINE t == txn[p]
           u == txn'[p]
<1>1. t \in Txn /\ u \in Txn /\ AtStage(t, "stage") /\ pc[p] = "stage" /\ pc'[p] = "stage"
      /\ WritesWanted(t) /\ keychain' = keychain /\ f \in t.todo
  BY DEF IInv, TypeOK, TxnsOK, Working, StageFallback, ValuesHeld, Valued
<1>2. /\ u.new = [t.new EXCEPT ![f] = Plain(ValueOf(t, f))] /\ u.todo = t.todo \ {f}
      /\ u.snap = t.snap /\ u.fields = t.fields /\ u.val = t.val
  BY <1>1 DEF StageFallback, IInv, TypeOK, Txn
<1>3. ASSUME NEW g \in Fields \ u.todo
      PROVE  Value(u.new[g]) = IF g \in t.fields THEN t.val ELSE Value(t.snap[g])
  <2>1. CASE g = f
    <3>1. u.new[g] = Plain(ValueOf(t, f))
      BY <1>1, <1>2, <2>1, TxnFields DEF Contents
    <3>2. f \in t.fields \/ IsPlain(t.snap[f])
      BY <1>1 DEF AtStage, Scheduled, ToStage
    <3>3. ValueOf(t, f) = IF f \in t.fields THEN t.val ELSE Value(t.snap[f])
      BY <3>2 DEF ValueOf, Value, IsPlain, IsBound
    <3>4. Value(Plain(ValueOf(t, f))) = ValueOf(t, f)
      BY DEF Value, Plain, IsBound
    <3>5. QED
      BY <2>1, <3>1, <3>3, <3>4
  <2>2. CASE g # f
    <3>1. u.new[g] = t.new[g] /\ g \notin t.todo
      BY <1>1, <1>2, <2>2, TxnFields DEF Contents
    <3>2. QED
      BY <1>1, <3>1 DEF WritesWanted, Wanted
  <2>3. QED
    BY <2>1, <2>2
<1>4. QED
  BY <1>1, <1>2, <1>3 DEF Valued, Undoing, WritesWanted, Wanted, Value

LEMMA ValuesPreflight ==
    ASSUME IInv, TypeOK', ValuesHeld, NEW p \in Procs, Preflight(p)
    PROVE  Valued(p)'
<1> DEFINE t == txn[p]
           u == txn'[p]
<1>1. CASE Return(p, "ok")
  BY <1>1 DEF Return, IInv, TypeOK, Valued, Undoing
<1>2. CASE ~Return(p, "ok")
  <2>1. t \in Txn /\ u \in Txn /\ pc'[p] = "rename" /\ keychain' = keychain /\ WritesWanted(t)
        /\ txn' = [txn EXCEPT ![p].prev = [a \in Accts |-> IF a \in t.deletes THEN keychain[a]
                                                                            ELSE None]]
    BY <1>2 DEF IInv, TypeOK, Preflight, ValuesHeld, Valued
  <2>2. /\ u.prev = [a \in Accts |-> IF a \in t.deletes THEN keychain[a] ELSE None]
        /\ u.new = t.new /\ u.todo = t.todo /\ u.snap = t.snap /\ u.fields = t.fields
        /\ u.val = t.val
    BY <2>1 DEF IInv, TypeOK, Txn
  <2>3. WritesWanted(txn[p])'
    BY <2>1, <2>2 DEF WritesWanted, Wanted, Value
  <2>4. PutsBack(txn[p])'
    BY <2>1, <2>2 DEF PutsBack
  <2>5. QED
    BY <2>1, <2>3, <2>4 DEF Valued
<1>3. QED
  BY <1>1, <1>2

LEMMA ValuesDelete ==
    ASSUME IInv, TypeOK', ValuesHeld, NEW p \in Procs, NEW a \in Accts,
           DeleteOld(p, a) \/ DeleteFails(p, a) \/ Undelete(p, a) \/ UndeleteFails(p, a)
    PROVE  Valued(p)'
<1> DEFINE t == txn[p]
           u == txn'[p]
<1>1. t \in Txn /\ u \in Txn /\ pc[p] \in {"delete", "undelete"} /\ pc'[p] \in {"delete", "undelete"}
      /\ (t.complete => PutsBack(t))
  BY DEF IInv, TypeOK, ValuesHeld, Valued, Undoing, DeleteOld, DeleteFails, Undelete, UndeleteFails
<1>2. u.prev = t.prev /\ (u.complete => t.complete /\ ~UndeleteFails(p, a))
  BY <1>1 DEF DeleteOld, DeleteFails, Undelete, UndeleteFails, IInv, TypeOK, Txn
<1>3. CASE DeleteOld(p, a) \/ DeleteFails(p, a)
  <2>1. u.gone = t.gone \cup {a}
    BY <1>1, <1>3 DEF DeleteOld, DeleteFails, IInv, TypeOK, Txn
  <2>2. \A b \in Accts : b # a => keychain'[b] = keychain[b]
    BY <1>3 DEF DeleteOld, DeleteFails, IInv, TypeOK
  <2>3. QED
    BY <1>1, <1>2, <2>1, <2>2 DEF Valued, PutsBack
<1>4. CASE Undelete(p, a) /\ ~UndeleteFails(p, a)
  <2>1. u.gone = t.gone \ {a}
    BY <1>1, <1>4 DEF Undelete, IInv, TypeOK, Txn
  <2>2. \A b \in Accts : b # a => keychain'[b] = keychain[b]
    BY <1>4 DEF Undelete, IInv, TypeOK
  <2>3. t.prev[a] # None => keychain'[a] = t.prev[a]
    BY <1>4 DEF Undelete, IInv, TypeOK
  <2>4. QED
    BY <1>1, <1>2, <2>1, <2>2, <2>3 DEF Valued, PutsBack
<1>5. CASE UndeleteFails(p, a)
  BY <1>1, <1>2, <1>5 DEF Valued
<1>6. QED
  BY <1>3, <1>4, <1>5

LEMMA ValuesStep == IInv /\ ValuesHeld /\ [Next]_vars => ValuesHeld'
<1> SUFFICES ASSUME IInv, ValuesHeld, [Next]_vars PROVE ValuesHeld'
  OBVIOUS
<1>0. TypeOK /\ TypeOK'
  BY TypeStep DEF IInv
<1>1. ASSUME NEW p \in Procs, Write(p) \/ Crash(p) PROVE ValuesHeld'
  <2>1. CASE ReadFile(p) \/ Resolve(p) \/ Change(p) \/ ReadOnly(p) \/ Again(p) \/ LockTimesOut(p)
               \/ Stale(p) \/ StageFails(p) \/ PreflightFails(p) \/ Rollback(p) \/ RenameFails(p)
               \/ SyncFails(p) \/ Committed(p) \/ RestoreFile(p) \/ RestoreFails(p) \/ Resync(p)
               \/ Crash(p)
    <3>1. pc'[p] \notin {"stage", "rename"} \cup Undoing
      BY <1>0, <2>1
      DEF ReadFile, Resolve, Change, ReadOnly, Again, LockTimesOut, Stale, StageFails,
          PreflightFails, Rollback, RenameFails, SyncFails, Committed, RestoreFile, RestoreFails,
          Resync, Crash, Return, TypeOK, Undoing
    <3>2. Valued(p)'
      BY <3>1 DEF Valued, Undoing
    <3>3. QED
      BY <1>1, <3>2, ValuesOthers DEF ValuesHeld
  <2>2. CASE Rename(p) \/ SyncDir(p) \/ Undeleted(p)
    <3>1. CASE Return(p, "unsettled")
      BY <1>0, <1>1, <3>1, ValuesOthers DEF ValuesHeld, Valued, Return, TypeOK, Undoing
    <3>2. CASE ~Return(p, "unsettled")
      <4>1. /\ keychain' = keychain /\ txn'[p] = txn[p] /\ pc'[p] \in Undoing
            /\ pc[p] \in Undoing \cup {"rename"}
            /\ pc'[p] = "restore" => txn[p].complete /\ txn[p].gone = {}
        BY <1>0, <2>2, <3>2 DEF Rename, SyncDir, Undeleted, TypeOK, Undoing
      <4>2. Valued(p)'
        BY <4>1 DEF ValuesHeld, Valued, PutsBack, Undoing
      <4>3. QED
        BY <1>1, <4>2, ValuesOthers DEF ValuesHeld
    <3>3. QED
      BY <3>1, <3>2
  <2>3. ASSUME Valued(p)' PROVE ValuesHeld'
    BY <1>1, <2>3, ValuesOthers DEF ValuesHeld
  <2>4. QED
    BY <1>0, <1>1, <2>1, <2>2, <2>3, ValuesLock, ValuesStageSet, ValuesStageFallback,
       ValuesPreflight, ValuesDelete
    DEF Write
<1>2. CASE PowerLoss
  BY <1>2 DEF PowerLoss, ValuesHeld, Valued, Undoing
<1>3. CASE UNCHANGED vars
  BY <1>3 DEF vars, ValuesHeld, Valued, WritesWanted, Wanted, Value, PutsBack
<1>4. QED
  BY <1>1, <1>2, <1>3 DEF Next

LEMMA ValuesInductive == Spec => []ValuesHeld
<1>1. Init => ValuesHeld
  BY DEF Init, ValuesHeld, Valued, Undoing
<1>2. QED
  BY <1>1, ValuesStep, Inductive, PTL DEF Spec

-----------------------------------------------------------------------------
\* The state of the store that CredentialFile describes.
Cur     == Resolved(file)
Undoers == {q \in Procs : pc[q] \in Undoing /\ txn[q].complete}
Back    == ({Resolved(c) : c \in durable} \cup {Restorable(txn[p]) : p \in Undoers}) \ {Cur}
Req     == [p \in Procs |-> [fields |-> txn[p].fields, val |-> txn[p].val]]

LEMMA StoreSteps ==
    /\ Store!Ask = (Req' \in [Procs -> Store!Request] /\ Back' \subseteq Back /\ Cur' = Cur)
    /\ Store!FallBack = (/\ Cur' \in Back /\ Back' \subseteq Back \cup {Cur}
                         /\ Req' \in [Procs -> Store!Request])
    /\ \A p \in Procs : Store!Apply(p) = (/\ Req[p] # Store!NoRequest
                                          /\ Cur' = Store!With(Cur, Req[p])
                                          /\ Back' \subseteq Back \cup {Cur}
                                          /\ Req' = Req)
BY DEF Store!Ask, Store!FallBack, Store!Apply, Cur, Back, Undoers, Undoing, Req

LEMMA Requests == ASSUME TypeOK' PROVE Req' \in [Procs -> Store!Request]
BY DEF TypeOK, Txn, Req, Store!Request

\* Whatever may survive resolves to values.
LEMMA Resolves ==
    ASSUME IInv, NEW c \in durable
    PROVE  /\ Resolved(c) = [f \in Fields |-> Value(c[f])]
           /\ Resolved(c) \in Store!Values
<1>1. \A f \in Fields : IsBound(c[f]) => keychain[c[f].acct] # None
  BY DEF IInv, FilesOK, Present
<1>2. \A f \in Fields : Value(c[f]) \in Secrets \cup {None}
  BY NamedUsed, EntryTypes DEF Value, IInv, TypeOK, Contents
<1>3. Resolved(c) = [f \in Fields |-> Value(c[f])]
  BY <1>1 DEF Resolved
<1>4. QED
  BY <1>2, <1>3 DEF Store!Values

LEMMA SameResolved ==
    ASSUME NEW c, \A f \in Fields : IsBound(c[f]) => keychain'[c[f].acct] = keychain[c[f].acct]
    PROVE  Resolved(c)' = Resolved(c)
BY DEF Resolved, Value, IsBound

\* Fall-backs may expire; the rest of the store stays as it is.
LEMMA Asks ==
    ASSUME TypeOK', Cur' = Cur, durable' \subseteq durable,
           \A c \in durable : Resolved(c)' = Resolved(c),
           \A q \in Undoers' : q \in Undoers /\ Restorable(txn[q])' = Restorable(txn[q])
    PROVE  Store!Ask
<1>1. Back' \subseteq Back
  <2> SUFFICES ASSUME NEW b \in Back' PROVE b \in Back
    OBVIOUS
  <2>1. b # Cur
    BY DEF Back
  <2>2. CASE b \in {Resolved(c) : c \in durable}'
    BY <2>1, <2>2 DEF Back
  <2>3. CASE b \in {Restorable(txn[p]) : p \in Undoers}'
    BY <2>1, <2>3 DEF Back
  <2>4. QED
    BY <2>2, <2>3 DEF Back
<1>2. QED
  BY <1>1, Requests, StoreSteps

LEMMA OnlyHolder ==
    ASSUME IInv, TypeOK', NEW p \in Procs, Write(p) \/ Crash(p), pc[p] \in Working
    PROVE  Undoers' \subseteq {p}
<1> SUFFICES ASSUME NEW q \in Procs, q # p, pc'[q] \in Undoing PROVE FALSE
  BY DEF Undoers
<1>1. pc[q] \in Working
  BY WriteLocal DEF IInv, Undoing, Working
<1>2. QED
  BY <1>1 DEF IInv, LockOK

\* The file and the keychain are left alone.
LEMMA Quiet ==
    ASSUME IInv, TypeOK', NEW p \in Procs, Write(p) \/ Crash(p),
           UNCHANGED <<file, keychain>>, durable' \subseteq durable,
           p \in Undoers' => /\ p \in Undoers
                             /\ txn'[p].snap = txn[p].snap /\ txn'[p].prev = txn[p].prev
    PROVE  Store!Ask
<1>1. \A c : Resolved(c)' = Resolved(c)
  BY DEF Resolved, Value
<1>2. ASSUME NEW q \in Undoers'
      PROVE  q \in Undoers /\ txn'[q].snap = txn[q].snap /\ txn'[q].prev = txn[q].prev
  BY <1>2, WriteLocal DEF IInv, Undoers
<1>3. ASSUME NEW q \in Undoers' PROVE Restorable(txn[q])' = Restorable(txn[q])
  BY <1>1, <1>2 DEF Restorable
<1>4. Cur' = Cur
  BY <1>1 DEF Cur
<1>5. QED
  BY <1>1, <1>2, <1>3, <1>4, Asks

\* No account that a surviving file names is touched, and nothing can be undone.
LEMMA Unnamed ==
    ASSUME IInv, TypeOK', NEW p \in Procs, Write(p) \/ Crash(p), pc[p] \in Working,
           UNCHANGED <<file, durable>>, pc'[p] \notin Undoing,
           \A c \in durable : \A f \in Fields :
               IsBound(c[f]) => keychain'[c[f].acct] = keychain[c[f].acct]
    PROVE  Store!Ask
<1>1. \A c \in durable : Resolved(c)' = Resolved(c)
  BY SameResolved
<1>2. Cur' = Cur
  BY <1>1 DEF Cur, IInv, FilesOK
<1>3. Undoers' = {}
  BY OnlyHolder DEF Undoers
<1>4. QED
  BY <1>1, <1>2, <1>3, Asks

LEMMA StagingAsks ==
    ASSUME IInv, TypeOK', NEW p \in Procs, Write(p),
           \/ \E f \in Fields : StageSet(p, f)
           \/ StageFails(p)
           \/ Rollback(p)
    PROVE  Store!Ask
<1>1. ASSUME NEW v, used < MaxAcct, keychain' = [keychain EXCEPT ![used + 1] = v]
      PROVE  \A c \in durable : \A f \in Fields :
                 IsBound(c[f]) => keychain'[c[f].acct] = keychain[c[f].acct]
  BY <1>1, FreshAccount, NamedUsed DEF IInv, TypeOK
<1>2. CASE \E f \in Fields : StageSet(p, f)
  <2>1. PICK f \in Fields : StageSet(p, f)
    BY <1>2
  <2>2. /\ UNCHANGED <<file, durable>> /\ pc[p] \in Working /\ pc'[p] \notin Undoing
        /\ used < MaxAcct /\ keychain' = [keychain EXCEPT ![used + 1] = ValueOf(txn[p], f)]
    BY <2>1 DEF StageSet, Working, Undoing
  <2>3. QED
    BY <1>1, <2>2, Unnamed
<1>3. CASE StageFails(p)
  <2>1. /\ UNCHANGED <<file, durable>> /\ pc[p] \in Working /\ pc'[p] \notin Undoing
    BY <1>3 DEF StageFails, Working, Undoing, IInv, TypeOK
  <2>2. CASE keychain' = keychain
    BY <2>1, <2>2, Unnamed
  <2>3. CASE keychain' # keychain
    <3>1. PICK f \in txn[p].todo : /\ keychain' = [keychain EXCEPT ![used + 1] = ValueOf(txn[p], f)]
                                   /\ used < MaxAcct
      BY <1>3, <2>3 DEF StageFails
    <3>2. QED
      BY <1>1, <2>1, <3>1, Unnamed
  <2>4. QED
    BY <2>2, <2>3
<1>4. CASE Rollback(p)
  <2>1. /\ UNCHANGED <<file, durable>> /\ pc[p] = "rollback" /\ pc'[p] \notin Undoing
    BY <1>4 DEF Rollback, Return, Undoing, IInv, TypeOK
  <2>2. PICK left : keychain' = [a \in Accts |-> IF a \in txn[p].writes \ left THEN None
                                                                       ELSE keychain[a]]
    BY <1>4 DEF Rollback
  <2>3. \A c \in durable : \A f \in Fields : c[f].acct \notin txn[p].writes
    BY <2>1 DEF IInv, TxnsOK, AtStage, Avoids, Working
  <2>4. \A c \in durable : \A f \in Fields :
            IsBound(c[f]) => keychain'[c[f].acct] = keychain[c[f].acct]
    BY <2>2, <2>3, NamedUsed
  <2>5. QED
    BY <2>1, <2>4, Unnamed DEF Working
<1>5. QED
  BY <1>2, <1>3, <1>4

LEMMA DeletingAsks ==
    ASSUME IInv, TypeOK', NEW p \in Procs, NEW a \in Accts, Write(p),
           DeleteOld(p, a) \/ DeleteFails(p, a) \/ Undelete(p, a) \/ UndeleteFails(p, a)
    PROVE  Store!Ask
<1> DEFINE t == txn[p]
           u == txn'[p]
<1>1. /\ pc[p] \in {"delete", "undelete"} /\ a \in t.deletes \cup t.gone /\ t \in Txn
      /\ u.prev = t.prev /\ u.snap = t.snap /\ (u.complete => t.complete)
      /\ UNCHANGED <<file, durable>>
  BY DEF DeleteOld, DeleteFails, Undelete, UndeleteFails, IInv, TypeOK, Txn
<1>2. Sound(t) /\ Captured(t) /\ durable = {t.new} /\ file = t.new
  BY <1>1 DEF IInv, TxnsOK, AtStage, Working
<1>3. \A b \in Accts : b # a => keychain'[b] = keychain[b]
  BY DEF DeleteOld, DeleteFails, Undelete, UndeleteFails, IInv, TypeOK
<1>4. \A f \in Fields : t.new[f].acct # a
  BY <1>1, <1>2, NotNamed
<1>5. \A c \in durable : Resolved(c)' = Resolved(c)
  <2> SUFFICES ASSUME NEW c \in durable, NEW f \in Fields, IsBound(c[f])
               PROVE  keychain'[c[f].acct] = keychain[c[f].acct]
    BY SameResolved
  <2>1. QED
    BY <1>2, <1>3, <1>4, NamedUsed
<1>6. \A f \in Fields : t.snap[f].acct \in Accts \cup {0}
  BY <1>1, TxnFields, EntryTypes DEF Contents
<1>7. Restorable(txn[p])' = Restorable(txn[p])
  <2> DEFINE Said(k) == [f \in Fields |->
               IF IsBound(t.snap[f]) /\ t.prev[t.snap[f].acct] # None
               THEN t.prev[t.snap[f].acct]
               ELSE IF IsBound(t.snap[f]) /\ k[t.snap[f].acct] = None THEN Missing
               ELSE IF IsBound(t.snap[f]) THEN k[t.snap[f].acct] ELSE t.snap[f].val]
  <2>1. Restorable(txn[p]) = Said(keychain)
    BY DEF Restorable, Resolved, Value
  <2>2. Restorable(txn[p])' = Said(keychain')
    BY <1>1 DEF Restorable, Resolved, Value, IsBound, Missing
  <2>3. ASSUME NEW f \in Fields, IsBound(t.snap[f]), t.prev[t.snap[f].acct] = None
        PROVE  keychain'[t.snap[f].acct] = keychain[t.snap[f].acct]
    BY <1>1, <1>2, <1>3, <1>6, <2>3 DEF Captured, IsBound
  <2>4. Said(keychain') = Said(keychain)
    BY <2>3
  <2>5. QED
    BY <2>1, <2>2, <2>4
<1>8. \A q \in Undoers' : q = p
  BY <1>1, OnlyHolder DEF Working
<1>9. p \in Undoers' => p \in Undoers
  BY <1>1 DEF Undoers, Undoing
<1>10. Cur' = Cur
  BY <1>1, <1>2, <1>5 DEF Cur
<1>11. QED
  BY <1>1, <1>5, <1>7, <1>8, <1>9, <1>10, Asks

\* The old contents resolve to what was put back, or to what is there.
LEMMA PutBack ==
    ASSUME IInv, NEW t \in Txn, PutsBack(t), t.gone = {}
    PROVE  Restorable(t) = Resolved(t.snap)
<1>1. ASSUME NEW f \in Fields, IsBound(t.snap[f]), t.prev[t.snap[f].acct] # None
      PROVE  t.prev[t.snap[f].acct] = Resolved(t.snap)[f]
  <2>1. t.snap[f].acct \in Accts
    BY <1>1, TxnFields, EntryTypes DEF Contents, IsBound
  <2>2. keychain[t.snap[f].acct] = t.prev[t.snap[f].acct]
    BY <1>1, <2>1 DEF PutsBack
  <2>3. QED
    BY <1>1, <2>2 DEF Resolved, Value
<1>2. \A f \in Fields : (IF IsBound(t.snap[f]) /\ t.prev[t.snap[f].acct] # None
                         THEN t.prev[t.snap[f].acct] ELSE Resolved(t.snap)[f]) = Resolved(t.snap)[f]
  BY <1>1
<1>3. Resolved(t.snap) = [f \in Fields |-> Resolved(t.snap)[f]]
  BY DEF Resolved
<1>4. QED
  BY <1>2, <1>3 DEF Restorable

\* A rename is what applies a request; an automatic migration has none.
LEMMA RenameApplies ==
    ASSUME IInv, TypeOK', ValuesHeld, NEW p \in Procs, Write(p), Rename(p)
    PROVE  Store!Ask \/ Store!Apply(p)
<1> DEFINE t == txn[p]
<1>1. /\ t \in Txn /\ pc[p] = "rename" /\ pc'[p] = "sync" /\ UNCHANGED <<txn, keychain>>
      /\ file' = t.new /\ durable' = durable \cup {t.new}
  BY DEF Rename, IInv, TypeOK
<1>2. /\ t.complete /\ t.gone = {} /\ t.todo = {} /\ file = t.snap /\ Sound(t)
      /\ \A a \in t.writes : keychain[a] # None
  BY <1>1 DEF IInv, TxnsOK, AtStage, Working
<1>3. file \in durable
  BY DEF IInv, FilesOK
<1>4. Restorable(t) = Cur
  BY <1>1, <1>2, PutBack DEF ValuesHeld, Valued, Cur
<1>5. \A c : Resolved(c)' = Resolved(c)
  BY <1>1 DEF Resolved, Value
<1>6. Cur' = Store!With(Cur, Req[p])
  <2>1. Present(t.new)
    BY <1>1, <1>2, <1>3, NewPresent DEF IInv, FilesOK
  <2>2. Resolved(t.new) = [f \in Fields |-> Value(t.new[f])]
    BY <2>1 DEF Resolved, Present
  <2>3. \A f \in Fields : Value(t.new[f]) = IF f \in t.fields THEN t.val ELSE Value(t.snap[f])
    BY <1>1, <1>2 DEF ValuesHeld, Valued, WritesWanted, Wanted
  <2>4. \A f \in Fields : Cur[f] = Value(t.snap[f])
    BY <1>2, <1>3, Resolves DEF Cur
  <2>5. Cur' = Resolved(t.new)
    BY <1>1, <1>5 DEF Cur
  <2>6. QED
    BY <2>2, <2>3, <2>4, <2>5 DEF Store!With, Req
<1>7. Back' \subseteq Back \cup {Cur}
  <2> SUFFICES ASSUME NEW b \in Back' PROVE b \in Back \cup {Cur}
    OBVIOUS
  <2>1. b # Cur'
    BY DEF Back
  <2>2. CASE b \in {Resolved(c) : c \in durable}'
    <3>1. PICK c \in durable' : b = Resolved(c)
      BY <1>5, <2>2
    <3>2. c \in durable
      BY <1>1, <1>5, <2>1, <3>1 DEF Cur
    <3>3. QED
      BY <3>1, <3>2 DEF Back
  <2>3. CASE b \in {Restorable(txn[q]) : q \in Undoers}'
    <3>1. \A q \in Undoers' : q = p
      BY <1>1, OnlyHolder DEF Working
    <3>2. Restorable(txn[p])' = Restorable(txn[p])
      BY <1>1, <1>5 DEF Restorable
    <3>3. QED
      BY <1>4, <2>3, <3>1, <3>2
  <2>4. QED
    BY <2>2, <2>3 DEF Back
<1>8. Req' = Req
  BY <1>1 DEF Req
<1>9. CASE Req[p] # Store!NoRequest
  BY <1>6, <1>7, <1>8, <1>9, StoreSteps
<1>10. CASE Req[p] = Store!NoRequest
  <2>1. Cur' = [f \in Fields |-> Cur[f]]
    BY <1>6, <1>10 DEF Store!With, Store!NoRequest
  <2>2. Cur' = Cur
    BY <2>1 DEF Cur, Resolved
  <2>3. Back' \subseteq Back
    BY <1>7, <2>2 DEF Back
  <2>4. QED
    BY <2>2, <2>3, Requests, StoreSteps
<1>11. QED
  BY <1>9, <1>10

LEMMA RestoreFallsBack ==
    ASSUME IInv, TypeOK', ValuesHeld, NEW p \in Procs, Write(p), RestoreFile(p)
    PROVE  Store!Ask \/ Store!FallBack
<1> DEFINE t == txn[p]
<1>1. /\ t \in Txn /\ pc[p] = "restore" /\ pc'[p] = "resync" /\ UNCHANGED <<txn, keychain>>
      /\ file' = t.snap /\ durable' = durable \cup {t.snap}
  BY DEF RestoreFile, IInv, TypeOK
<1>2. /\ t.complete /\ t.gone = {} /\ durable = {file}
      /\ PutsBack(t)
  BY <1>1 DEF IInv, TxnsOK, AtStage, Working, ValuesHeld, Valued, Undoing
<1>3. \A c : Resolved(c)' = Resolved(c)
  BY <1>1 DEF Resolved, Value
<1>4. Cur' = Restorable(t)
  BY <1>1, <1>2, <1>3, PutBack DEF Cur
<1>5. Cur' = Cur \/ Cur' \in Back
  BY <1>1, <1>2, <1>4 DEF Back, Undoers, Undoing
<1>6. Undoers' = {}
  BY <1>1, OnlyHolder DEF Undoers, Undoing, Working
<1>7. Back' \subseteq {Cur} \ {Cur'}
  BY <1>1, <1>2, <1>3, <1>6 DEF Back, Cur
<1>8. CASE Cur' = Cur
  BY <1>7, <1>8, Requests, StoreSteps
<1>9. CASE Cur' \in Back
  BY <1>7, <1>9, Requests, StoreSteps
<1>10. QED
  BY <1>5, <1>8, <1>9

LEMMA PowerLossFallsBack ==
    ASSUME IInv, TypeOK', PowerLoss
    PROVE  Store!Ask \/ Store!FallBack
<1>1. /\ file' \in durable /\ durable' = {file'} /\ keychain' = keychain
      /\ \A p \in Procs : pc'[p] = "idle"
  BY DEF PowerLoss
<1>2. \A c : Resolved(c)' = Resolved(c)
  BY <1>1 DEF Resolved, Value
<1>3. Undoers' = {}
  BY <1>1 DEF Undoers, Undoing
<1>4. Cur' = Resolved(file')
  BY <1>1 DEF Cur, Resolved, Value
<1>5. Back' = {}
  BY <1>1, <1>2, <1>3, <1>4 DEF Back
<1>6. Cur' = Cur \/ Cur' \in Back
  BY <1>1, <1>4 DEF Back
<1>7. CASE Cur' = Cur
  BY <1>5, <1>7, Requests, StoreSteps
<1>8. CASE Cur' \in Back
  BY <1>5, <1>8, Requests, StoreSteps
<1>9. QED
  BY <1>6, <1>7, <1>8

LEMMA StoreInit == Init => Store!Init
<1> SUFFICES ASSUME Init PROVE Store!Init
  OBVIOUS
<1>1. IInv
  BY InitOK
<1>2. durable = {file} /\ file \in durable /\ Undoers = {}
  BY DEF Init, Undoers, Undoing
<1>3. Cur \in Store!Values
  BY <1>1, <1>2, Resolves DEF Cur
<1>4. Back = {}
  BY <1>2 DEF Back, Cur
<1>5. Req = [p \in Procs |-> Store!NoRequest]
  BY DEF Init, Req, NoTxn, Store!NoRequest
<1>6. QED
  BY <1>3, <1>4, <1>5 DEF Store!Init, Cur, Back, Undoers, Undoing, Req

LEMMA StoreStep ==
    IInv /\ TypeOK' /\ ValuesHeld /\ [Next]_vars => [Store!Next]_<<Cur, Back, Req>>
<1> SUFFICES ASSUME IInv, TypeOK', ValuesHeld, [Next]_vars
             PROVE  Store!Ask \/ Store!FallBack \/ \E p \in Procs : Store!Apply(p)
  BY DEF Store!Next
<1>1. ASSUME NEW p \in Procs, Write(p) \/ Crash(p)
      PROVE  Store!Ask \/ Store!FallBack \/ \E q \in Procs : Store!Apply(q)
  <2>0. /\ file \in durable /\ TypeOK
        /\ \A o \in Settled \cup {"read", "loaded", "lock", "stage", "rename", "resync", "rollback"} :
              o \notin Undoing
    BY DEF IInv, FilesOK, Settled, Undoing
  <2>1. CASE ReadFile(p) \/ Resolve(p) \/ Change(p) \/ ReadOnly(p) \/ Again(p) \/ LockTimesOut(p)
             \/ Stale(p) \/ Lock(p) \/ Preflight(p) \/ PreflightFails(p) \/ RenameFails(p)
             \/ SyncFails(p) \/ Committed(p) \/ RestoreFails(p) \/ Resync(p) \/ Crash(p)
    <3>1. UNCHANGED <<file, keychain>> /\ durable' \subseteq durable
      BY <2>0, <2>1
      DEF ReadFile, Resolve, Change, ReadOnly, Again, LockTimesOut, Stale, Lock, Preflight,
          PreflightFails, RenameFails, SyncFails, Committed, RestoreFails, Resync, Crash
    <3>2. pc'[p] \notin Undoing
      BY <2>0, <2>1
      DEF ReadFile, Resolve, Change, ReadOnly, Again, LockTimesOut, Stale, Lock, Preflight,
          PreflightFails, RenameFails, SyncFails, Committed, RestoreFails, Resync, Crash,
          Return, TypeOK, Settled
    <3>3. QED
      BY <1>1, <3>1, <3>2, Quiet DEF Undoers
  <2>2. CASE SyncDir(p) \/ Undeleted(p)
    <3>1. UNCHANGED <<file, keychain>> /\ durable' \subseteq durable
      BY <2>0, <2>2 DEF SyncDir, Undeleted
    <3>2. p \in Undoers' => /\ p \in Undoers
                            /\ txn'[p].snap = txn[p].snap /\ txn'[p].prev = txn[p].prev
      BY <2>0, <2>2 DEF SyncDir, Undeleted, Return, TypeOK, Undoers, Undoing
    <3>3. QED
      BY <1>1, <3>1, <3>2, Quiet
  <2>3. ASSUME NEW f \in Fields, StageFallback(p, f) PROVE Store!Ask
    <3>1. UNCHANGED <<file, durable, keychain>> /\ pc'[p] \notin Undoing
      BY <2>0, <2>3 DEF StageFallback, TypeOK, Undoing
    <3>2. QED
      BY <1>1, <3>1, Quiet DEF Undoers
  <2>4. CASE Write(p)
    BY <2>1, <2>2, <2>3, <2>4, StagingAsks, DeletingAsks, RenameApplies, RestoreFallsBack DEF Write
  <2>5. QED
    BY <1>1, <2>1, <2>4
<1>2. CASE PowerLoss
  BY <1>2, PowerLossFallsBack
<1>3. CASE UNCHANGED vars
  <2>1. Back' = Back /\ Cur' = Cur
    BY <1>3 DEF vars, Back, Cur, Undoers, Restorable, Resolved, Value
  <2>2. QED
    BY <2>1, Requests, StoreSteps
<1>4. QED
  BY <1>1, <1>2, <1>3 DEF Next

\* Whatever fails, whoever writes and whenever the machine stops, the file and
\* the keychain together are a store that is never without a value, loses no
\* update and falls back only to what the last unsettled write replaced.
THEOREM WritesImplementStore == Spec => ImplementsStore
<1>1. IInv => TypeOK
  BY DEF IInv
<1>2. Spec => Store!Init /\ [][Store!Next]_<<Cur, Back, Req>>
  BY <1>1, StoreInit, StoreStep, Inductive, ValuesInductive, PTL DEF Spec
<1>3. QED
  BY <1>2, PTL DEF ImplementsStore, Store!Spec, Cur, Back, Undoers, Undoing, Req
=============================================================================
