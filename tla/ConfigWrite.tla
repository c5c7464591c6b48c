----------------------------- MODULE ConfigWrite -----------------------------
(***************************************************************************)
(* How gcx replaces a configuration file whose credentials live in the OS  *)
(* keychain: writeConfig of internal/config/loader.go around the           *)
(* keychainWriteTransaction of internal/config/keychain.go. New values are *)
(* staged under fresh accounts, the file is replaced and its directory     *)
(* synced, and only then are the old accounts deleted; each step may fail, *)
(* other gcx processes do the same, and the machine may stop at any point. *)
(*                                                                         *)
(* The file is what its credential fields hold; everything else in it is   *)
(* left out. The keychain is external and survives a power loss.           *)
(***************************************************************************)
EXTENDS Integers, FiniteSets

CONSTANTS
    Procs,      \* gcx processes
    Fields,     \* credential fields of the file
    Secrets,    \* credential values
    None,       \* no value, no process
    MaxAcct,    \* bound: keychain accounts allocated over a behaviour
    Faults      \* what the environment does in this instance (AllFaults)

\* The keychain or the file system fails, a process has the keychain switched
\* off by GCX_KEYCHAIN, a process is killed, the machine loses power.
AllFaults == {"keychain", "disabled", "disk", "crash", "power"}

ASSUME ConfigWriteAssumption ==
    /\ None \notin Secrets
    /\ None \notin Procs
    /\ IsFiniteSet(Fields)
    /\ Cardinality(Fields) \in Nat
    /\ MaxAcct \in Nat
    /\ Cardinality(Fields) <= MaxAcct
    /\ Faults \subseteq AllFaults

VARIABLES
    file,       \* the visible contents
    durable,    \* the contents a power loss may leave behind
    keychain,   \* the value each account holds, or None
    used,       \* accounts 1..used have been allocated
    lock,       \* the "write" flock: its holder or None
    pc, txn     \* each process and its write

vars == <<file, durable, keychain, used, lock, pc, txn>>

-----------------------------------------------------------------------------
Accts == 1 .. MaxAcct

\* A field is absent, plaintext, or a sentinel naming a keychain account.
Absent   == [acct |-> 0, val |-> None]
Plain(v) == [acct |-> 0, val |-> v]
Bound(a) == [acct |-> a, val |-> None]
Entry    == {Absent} \cup {Plain(v) : v \in Secrets} \cup {Bound(a) : a \in Accts}
IsBound(e) == e.acct # 0
IsPlain(e) == e.acct = 0 /\ e.val # None
Contents == [Fields -> Entry]

Stage == {"idle", "read", "loaded", "lock", "stage", "rename", "sync", "delete",
          "undelete", "restore", "resync", "rollback", "ok", "failed", "unsettled"}

\* The status of a resolved sentinel (keychainFieldState). Sentinels of other
\* contexts stay unresolved, which a write treats as it treats a backed one.
Status == {"unbound", "backed", "missing", "preserved"}
Deletable == {"backed", "preserved"}

\* keychainWriteTransaction, the Config it works on and the caller's change.
Txn == [snap: Contents,                 \* the contents as loaded: sourceRevision
        status: [Fields -> Status],
        fields: SUBSET Fields,          \* what the caller changes ...
        val: Secrets \cup {None},       \* ... and to what; None unsets
        new: Contents,                  \* what will be written
        todo: SUBSET Fields,            \* values yet to be staged
        writes: SUBSET Accts,           \* staged accounts
        deletes: SUBSET Accts,          \* accounts to delete once committed
        prev: [Accts -> Secrets \cup {None}],   \* their values, by preflightDeletes
        gone: SUBSET Accts,             \* those whose deletion was tried
        complete: BOOLEAN,              \* rollbackComplete
        off: BOOLEAN]                   \* GCX_KEYCHAIN switches the keychain off
NoTxn == [snap |-> [f \in Fields |-> Absent],
          status |-> [f \in Fields |-> "unbound"],
          fields |-> {}, val |-> None,
          new |-> [f \in Fields |-> Absent],
          todo |-> {}, writes |-> {}, deletes |-> {},
          prev |-> [a \in Accts |-> None], gone |-> {}, complete |-> TRUE,
          off |-> FALSE]

Init ==
    /\ used = Cardinality(Fields)
    /\ keychain \in [Accts -> Secrets \cup {None}]
    /\ \A a \in Accts : a > used => keychain[a] = None
    /\ \E number \in [Fields -> 1 .. used] :
        /\ \A f, g \in Fields : f # g => number[f] # number[g]
        /\ file \in [Fields -> {Absent} \cup {Plain(v) : v \in Secrets}
                                        \cup {Bound(a) : a \in 1 .. used}]
        /\ \A f \in Fields : IsBound(file[f]) => file[f].acct = number[f]
        /\ \A f \in Fields : keychain[number[f]] # None <=> IsBound(file[f])
    /\ durable = {file}
    /\ lock = None
    /\ pc = [p \in Procs |-> "idle"]
    /\ txn = [p \in Procs |-> NoTxn]

-----------------------------------------------------------------------------
(***************************************************************************)
(* Load: the file is read without the lock, its sentinels are resolved     *)
(* afterwards, and the caller changes some fields.                         *)
(***************************************************************************)
ReadFile(p) ==
    /\ pc[p] = "idle"
    /\ pc' = [pc EXCEPT ![p] = "read"]
    /\ \E off \in IF "disabled" \in Faults THEN BOOLEAN ELSE {FALSE} :
         txn' = [txn EXCEPT ![p].snap = file, ![p].off = off]
    /\ UNCHANGED <<file, durable, keychain, used, lock>>

\* resolveSentinelsForOwner
Resolve(p) ==
    /\ pc[p] = "read"
    /\ pc' = [pc EXCEPT ![p] = "loaded"]
    /\ \E failing \in CASE txn[p].off             -> {Fields}
                          [] "keychain" \in Faults -> SUBSET Fields
                          [] OTHER                 -> {{}} :
         txn' = [txn EXCEPT ![p].status = [f \in Fields |->
                    CASE ~IsBound(txn[p].snap[f])              -> "unbound"
                      [] f \in failing                         -> "preserved"
                      [] keychain[txn[p].snap[f].acct] = None  -> "missing"
                      [] OTHER                                 -> "backed"]]
    /\ UNCHANGED <<file, durable, keychain, used, lock>>

\* The caller changes fields, or Load itself starts a migration of plaintext
\* (no field changed: autoMigrationOnly).
Change(p) ==
    /\ pc[p] = "loaded"
    /\ \E S \in SUBSET Fields, v \in Secrets \cup {None} :
        /\ S = {} => v = None /\ \E f \in Fields : IsPlain(txn[p].snap[f])
        /\ txn' = [txn EXCEPT ![p].fields = S, ![p].val = v]
    /\ pc' = [pc EXCEPT ![p] = "lock"]
    /\ UNCHANGED <<file, durable, keychain, used, lock>>

\* A command that only reads is done.
ReadOnly(p) ==
    /\ pc[p] = "loaded"
    /\ pc' = [pc EXCEPT ![p] = "idle"]
    /\ txn' = [txn EXCEPT ![p] = NoTxn]
    /\ UNCHANGED <<file, durable, keychain, used, lock>>

Return(p, outcome) ==
    /\ pc' = [pc EXCEPT ![p] = outcome]
    /\ lock' = IF lock = p THEN None ELSE lock
    /\ txn' = [txn EXCEPT ![p] = NoTxn]

Again(p) ==
    /\ pc[p] \in {"ok", "failed", "unsettled"}
    /\ pc' = [pc EXCEPT ![p] = "idle"]
    /\ UNCHANGED <<file, durable, keychain, used, lock, txn>>

-----------------------------------------------------------------------------
(***************************************************************************)
(* The lock, validateConfigWriteSnapshot and reconcileKeychain.            *)
(***************************************************************************)
LockTimesOut(p) ==
    /\ pc[p] = "lock"
    /\ lock # None
    /\ Return(p, "failed")
    /\ UNCHANGED <<file, durable, keychain, used>>

\* "config changed since it was loaded"
Stale(p) ==
    /\ pc[p] = "lock"
    /\ lock = None
    /\ file # txn[p].snap
    /\ Return(p, "failed")
    /\ UNCHANGED <<file, durable, keychain, used>>

\* What an untouched field keeps, which values must be staged and which
\* accounts a removed field leaves to delete.
Kept(t)    == [f \in Fields |-> IF f \in t.fields THEN Absent ELSE t.snap[f]]
ToStage(t) == {f \in Fields : IF f \in t.fields THEN t.val # None ELSE IsPlain(t.snap[f])}
Removed(t) == {t.snap[f].acct : f \in {g \in t.fields :
                    t.val = None /\ IsBound(t.snap[g]) /\ t.status[g] \in Deletable}}

\* A mutant: the snapshot is not validated under the lock.
LockUnchecked(p) ==
    /\ pc[p] = "lock"
    /\ lock = None
    /\ lock' = p
    /\ pc' = [pc EXCEPT ![p] = "stage"]
    /\ txn' = [txn EXCEPT ![p].new = Kept(txn[p]), ![p].todo = ToStage(txn[p]),
                          ![p].deletes = Removed(txn[p])]
    /\ UNCHANGED <<file, durable, keychain, used>>

Lock(p) ==
    /\ pc[p] = "lock"
    /\ lock = None
    /\ file = txn[p].snap
    /\ lock' = p
    /\ pc' = [pc EXCEPT ![p] = "stage"]
    /\ txn' = [txn EXCEPT ![p].new = Kept(txn[p]), ![p].todo = ToStage(txn[p]),
                          ![p].deletes = Removed(txn[p])]
    /\ UNCHANGED <<file, durable, keychain, used>>

\* stageBoundSet: a fresh account, written and read back; the account it
\* replaces is deleted after the commit.
ValueOf(t, f) == IF f \in t.fields THEN t.val ELSE t.snap[f].val

\* A mutant: the replaced account is not scheduled for deletion.
StageSetLeavingOld(p, f) ==
    /\ pc[p] = "stage"
    /\ f \in txn[p].todo
    /\ ~txn[p].off
    /\ used < MaxAcct
    /\ used' = used + 1
    /\ keychain' = [keychain EXCEPT ![used + 1] = ValueOf(txn[p], f)]
    /\ txn' = [txn EXCEPT ![p].new[f] = Bound(used + 1), ![p].todo = @ \ {f},
                          ![p].writes = @ \cup {used + 1}]
    /\ UNCHANGED <<file, durable, lock, pc>>

StageSet(p, f) ==
    LET t == txn[p]
        a == used + 1
        old == t.snap[f]
    IN
    /\ pc[p] = "stage"
    /\ f \in t.todo
    /\ ~t.off
    /\ used < MaxAcct
    /\ used' = a
    /\ keychain' = [keychain EXCEPT ![a] = ValueOf(t, f)]
    /\ txn' = [txn EXCEPT
                 ![p].new[f] = Bound(a),
                 ![p].todo = @ \ {f},
                 ![p].writes = @ \cup {a},
                 ![p].deletes = IF IsBound(old) /\ t.status[f] \in Deletable
                                THEN @ \cup {old.acct} ELSE @]
    /\ UNCHANGED <<file, durable, lock, pc>>

\* A mutant: the plaintext joins the reference instead of replacing it.
StageFallbackBeside(p, f) ==
    /\ pc[p] = "stage"
    /\ f \in txn[p].todo
    /\ txn[p].off
    /\ txn' = [txn EXCEPT ![p].new[f] = [acct |-> txn[p].snap[f].acct, val |-> ValueOf(txn[p], f)],
                          ![p].todo = @ \ {f}]
    /\ UNCHANGED <<file, durable, keychain, used, lock, pc>>

\* The store is unavailable: a value with no reference yet stays in plaintext.
\* With the keychain switched off this holds for any value, and the account of
\* the replaced one is abandoned.
StageFallback(p, f) ==
    LET t == txn[p] IN
    /\ pc[p] = "stage"
    /\ f \in t.todo
    /\ \/ t.off
       \/ "keychain" \in Faults /\ ~IsBound(t.snap[f])
    /\ txn' = [txn EXCEPT ![p].new[f] = Plain(ValueOf(t, f)), ![p].todo = @ \ {f}]
    /\ UNCHANGED <<file, durable, keychain, used, lock, pc>>

\* Any other failure, and the end of the model's accounts. The account may have
\* been created, and is then one of the staged writes.
StageFails(p) ==
    /\ pc[p] = "stage"
    /\ txn[p].todo # {}
    /\ ~txn[p].off
    /\ \/ /\ used = MaxAcct \/ "keychain" \in Faults
          /\ UNCHANGED <<keychain, used, txn>>
       \/ /\ "keychain" \in Faults
          /\ used < MaxAcct
          /\ used' = used + 1
          /\ \E f \in txn[p].todo :
               keychain' = [keychain EXCEPT ![used + 1] = ValueOf(txn[p], f)]
          /\ txn' = [txn EXCEPT ![p].writes = @ \cup {used + 1}]
    /\ pc' = [pc EXCEPT ![p] = "rollback"]
    /\ UNCHANGED <<file, durable, lock>>

\* preflightDeletes captures the values that the deletions will remove. An
\* automatic migration that staged nothing leaves the file alone.
Preflight(p) ==
    LET t == txn[p] IN
    /\ pc[p] = "stage"
    /\ t.todo = {}
    /\ t.off => t.deletes = {}
    /\ \/ /\ t.fields = {}
          /\ t.writes = {}
          /\ Return(p, "ok")
       \/ /\ t.fields # {} \/ t.writes # {}
          /\ pc' = [pc EXCEPT ![p] = "rename"]
          /\ txn' = [txn EXCEPT ![p].prev =
                        [a \in Accts |-> IF a \in t.deletes THEN keychain[a] ELSE None]]
          /\ UNCHANGED lock
    /\ UNCHANGED <<file, durable, keychain, used>>

PreflightFails(p) ==
    /\ pc[p] = "stage"
    /\ txn[p].todo = {}
    /\ txn[p].deletes # {}
    /\ txn[p].off \/ "keychain" \in Faults
    /\ pc' = [pc EXCEPT ![p] = "rollback"]
    /\ UNCHANGED <<file, durable, keychain, used, lock, txn>>

\* The deferred rollback removes the staged accounts, as far as the store lets it.
Rollback(p) ==
    /\ pc[p] = "rollback"
    /\ \E left \in IF "keychain" \in Faults THEN SUBSET txn[p].writes ELSE {{}} :
         keychain' = [a \in Accts |-> IF a \in txn[p].writes \ left THEN None ELSE keychain[a]]
    /\ Return(p, "failed")
    /\ UNCHANGED <<file, durable, used>>

-----------------------------------------------------------------------------
(***************************************************************************)
(* The file: a synced temporary, a rename, a sync of the directory.        *)
(***************************************************************************)
Rename(p) ==
    /\ pc[p] = "rename"
    /\ file' = txn[p].new
    /\ durable' = durable \cup {txn[p].new}
    /\ pc' = [pc EXCEPT ![p] = "sync"]
    /\ UNCHANGED <<keychain, used, lock, txn>>

\* Nothing has been replaced: creating, encoding or renaming the temporary.
RenameFails(p) ==
    /\ pc[p] = "rename"
    /\ "disk" \in Faults
    /\ pc' = [pc EXCEPT ![p] = "rollback"]
    /\ UNCHANGED <<file, durable, keychain, used, lock, txn>>

SyncDir(p) ==
    /\ pc[p] = "sync"
    /\ durable' = {file}
    /\ pc' = [pc EXCEPT ![p] = "delete"]
    /\ UNCHANGED <<file, keychain, used, lock, txn>>

\* A mutant: the staged accounts are rolled back after the rename.
SyncFailsRollingBack(p) ==
    /\ pc[p] = "sync"
    /\ "disk" \in Faults
    /\ pc' = [pc EXCEPT ![p] = "rollback"]
    /\ UNCHANGED <<file, durable, keychain, used, lock, txn>>

\* configDurabilityError: both generations are kept.
SyncFails(p) ==
    /\ pc[p] = "sync"
    /\ "disk" \in Faults
    /\ Return(p, "unsettled")
    /\ UNCHANGED <<file, durable, keychain, used>>

-----------------------------------------------------------------------------
(***************************************************************************)
(* commit: the old accounts go; a failure puts back what went, then the    *)
(* old file, or keeps the new file when that is not possible.              *)
(***************************************************************************)
\* A mutant: the deletions do not wait for the sync of the directory.
DeleteOldUnsynced(p, a) ==
    /\ pc[p] \in {"sync", "delete"}
    /\ a \in txn[p].deletes
    /\ keychain' = [keychain EXCEPT ![a] = None]
    /\ txn' = [txn EXCEPT ![p].deletes = @ \ {a}, ![p].gone = @ \cup {a}]
    /\ UNCHANGED <<file, durable, used, lock, pc>>

DeleteOld(p, a) ==
    /\ pc[p] = "delete"
    /\ a \in txn[p].deletes
    /\ keychain' = [keychain EXCEPT ![a] = None]
    /\ txn' = [txn EXCEPT ![p].deletes = @ \ {a}, ![p].gone = @ \cup {a}]
    /\ UNCHANGED <<file, durable, used, lock, pc>>

DeleteFails(p, a) ==
    /\ pc[p] = "delete"
    /\ a \in txn[p].deletes
    /\ "keychain" \in Faults
    /\ keychain' \in {keychain, [keychain EXCEPT ![a] = None]}
    /\ txn' = [txn EXCEPT ![p].deletes = @ \ {a}, ![p].gone = @ \cup {a}]
    /\ pc' = [pc EXCEPT ![p] = "undelete"]
    /\ UNCHANGED <<file, durable, used, lock>>

Committed(p) ==
    /\ pc[p] = "delete"
    /\ txn[p].deletes = {}
    /\ Return(p, "ok")
    /\ UNCHANGED <<file, durable, keychain, used>>

\* A mutant: a deleted account is not put back.
UndeleteNothing(p, a) ==
    /\ pc[p] = "undelete"
    /\ a \in txn[p].gone
    /\ txn' = [txn EXCEPT ![p].gone = @ \ {a}]
    /\ UNCHANGED <<file, durable, keychain, used, lock, pc>>

Undelete(p, a) ==
    /\ pc[p] = "undelete"
    /\ a \in txn[p].gone
    /\ txn' = [txn EXCEPT ![p].gone = @ \ {a}]
    /\ keychain' = IF txn[p].prev[a] = None THEN keychain
                   ELSE [keychain EXCEPT ![a] = txn[p].prev[a]]
    /\ UNCHANGED <<file, durable, used, lock, pc>>

UndeleteFails(p, a) ==
    /\ pc[p] = "undelete"
    /\ a \in txn[p].gone
    /\ txn[p].prev[a] # None
    /\ txn' = [txn EXCEPT ![p].gone = @ \ {a}, ![p].complete = FALSE]
    /\ UNCHANGED <<file, durable, keychain, used, lock, pc>>

\* A mutant: the old file returns even when its accounts could not.
UndeletedRegardless(p) ==
    /\ pc[p] = "undelete"
    /\ txn[p].gone = {}
    /\ pc' = [pc EXCEPT ![p] = "restore"]
    /\ UNCHANGED <<file, durable, keychain, used, lock, txn>>

Undeleted(p) ==
    /\ pc[p] = "undelete"
    /\ txn[p].gone = {}
    /\ \/ /\ txn[p].complete
          /\ pc' = [pc EXCEPT ![p] = "restore"]
          /\ UNCHANGED <<lock, txn>>
       \/ /\ ~txn[p].complete
          /\ Return(p, "unsettled")
    /\ UNCHANGED <<file, durable, keychain, used>>

\* restoreConfigContents
RestoreFile(p) ==
    /\ pc[p] = "restore"
    /\ file' = txn[p].snap
    /\ durable' = durable \cup {txn[p].snap}
    /\ pc' = [pc EXCEPT ![p] = "resync"]
    /\ UNCHANGED <<keychain, used, lock, txn>>

RestoreFails(p) ==
    /\ pc[p] \in {"restore", "resync"}
    /\ "disk" \in Faults
    /\ Return(p, "unsettled")
    /\ UNCHANGED <<file, durable, keychain, used>>

Resync(p) ==
    /\ pc[p] = "resync"
    /\ durable' = {file}
    /\ pc' = [pc EXCEPT ![p] = "rollback"]
    /\ UNCHANGED <<file, keychain, used, lock, txn>>

-----------------------------------------------------------------------------
\* A process is killed: the kernel drops its lock.
Crash(p) ==
    /\ "crash" \in Faults
    /\ pc[p] # "idle"
    /\ Return(p, "idle")
    /\ UNCHANGED <<file, durable, keychain, used>>

\* The machine stops: one of the contents whose replacement was not synced.
PowerLoss ==
    /\ "power" \in Faults
    /\ file' \in durable
    /\ durable' = {file'}
    /\ lock' = None
    /\ pc' = [p \in Procs |-> "idle"]
    /\ txn' = [p \in Procs |-> NoTxn]
    /\ UNCHANGED <<keychain, used>>

Write(p) ==
    \/ ReadFile(p) \/ Resolve(p) \/ Change(p) \/ ReadOnly(p) \/ Again(p)
    \/ LockTimesOut(p) \/ Stale(p) \/ Lock(p)
    \/ \E f \in Fields : StageSet(p, f) \/ StageFallback(p, f)
    \/ StageFails(p) \/ Preflight(p) \/ PreflightFails(p) \/ Rollback(p)
    \/ Rename(p) \/ RenameFails(p) \/ SyncDir(p) \/ SyncFails(p)
    \/ \E a \in Accts : \/ DeleteOld(p, a) \/ DeleteFails(p, a)
                        \/ Undelete(p, a) \/ UndeleteFails(p, a)
    \/ Committed(p) \/ Undeleted(p)
    \/ RestoreFile(p) \/ RestoreFails(p) \/ Resync(p)

Next == PowerLoss \/ \E p \in Procs : Write(p) \/ Crash(p)

Spec == Init /\ [][Next]_vars

-----------------------------------------------------------------------------
(***************************************************************************)
(* Properties.                                                             *)
(***************************************************************************)
\* The types of the file, the keychain and the transactions.
TypeOK ==
    /\ file \in Contents
    /\ durable \subseteq Contents
    /\ keychain \in [Accts -> Secrets \cup {None}]
    /\ used \in 0 .. MaxAcct
    /\ lock \in Procs \cup {None}
    /\ pc \in [Procs -> Stage]
    /\ txn \in [Procs -> Txn]

\* The ADR's "the surviving file never points at a missing account": whatever
\* the machine may come back with, each sentinel in it names an account that
\* still holds its value.
NeverDangling ==
    \A c \in durable \cup {file} : \A f \in Fields :
        IsBound(c[f]) => keychain[c[f].acct] # None

\* A write that succeeds is durable, and the credentials it replaced or removed
\* are no longer in the keychain. Two exceptions: the keychain is switched off, or
\* the write found the credential missing when it was loaded.
SuccessSettles ==
    [][\A p \in Procs :
          pc[p] = "delete" /\ pc'[p] = "ok" =>
              /\ durable = {txn[p].new}
              /\ file = txn[p].new
              /\ \A f \in txn[p].fields :
                    /\ txn[p].status[f] \in Deletable
                    /\ IsBound(txn[p].snap[f])
                    /\ ~txn[p].off
                    => keychain[txn[p].snap[f].acct] = None]_vars

\* A write that fails before or after its rename leaves nothing of itself in the
\* file: the file its staged accounts are removed for never names them.
FailureLeavesNoTrace ==
    \A p \in Procs : pc[p] = "rollback" =>
        \A c \in durable : \A f \in Fields : c[f].acct \notin txn[p].writes

\* What a reader resolves, and what the store may fall back to.
Value(e) == IF IsBound(e) THEN keychain[e.acct] ELSE e.val
Missing  == "missing"
Resolved(c) == [f \in Fields |->
    IF IsBound(c[f]) /\ keychain[c[f].acct] = None THEN Missing ELSE Value(c[f])]
\* What restoreConfigContents would bring back, with the accounts of the commit.
Restorable(t) == [f \in Fields |->
    IF IsBound(t.snap[f]) /\ t.prev[t.snap[f].acct] # None
    THEN t.prev[t.snap[f].acct] ELSE Resolved(t.snap)[f]]

\* The writes implement a store that is never without a value, loses no update
\* and only falls back to what the last unsettled writes replaced.
Store == INSTANCE CredentialFile WITH
    cur  <- Resolved(file),
    back <- ({Resolved(c) : c \in durable} \cup
             {Restorable(txn[p]) : p \in {q \in Procs :
                 pc[q] \in {"sync", "delete", "undelete", "restore"} /\ txn[q].complete}})
            \ {Resolved(file)},
    req  <- [p \in Procs |-> [fields |-> txn[p].fields, val |-> txn[p].val]]
ImplementsStore == Store!Spec
===============================================================================
