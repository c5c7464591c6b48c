--------------------------- MODULE ConfigMigration ---------------------------
(***************************************************************************)
(* How gcx moves configuration files from the legacy schema to v1: the     *)
(* preflight of several layers (internal/config/migrate_preflight.go), the *)
(* loads that call it (LoadLayered, LoadForWrite and loadExplicit of       *)
(* loader.go) and the migration of one file under its lock, behind a       *)
(* write-once backup (migrate.go). In the legacy schema a layer overrides  *)
(* single fields of the layers below it; in v1 it replaces whole stacks    *)
(* and cloud entries, and single data sources.                             *)
(*                                                                         *)
(* The write that ends a migration is the one of ConfigWrite; here it is a *)
(* comparison, a rename and a sync of the directory. An older gcx, or an   *)
(* editor, rewrites a file without the lock.                               *)
(***************************************************************************)
EXTENDS Integers, FiniteSetsExt

CONSTANTS
    Procs,
    Last,           \* the layers are 1 .. Last; a later one wins
    Contexts,
    StackFields,    \* what makes a stack: grafana, providers, resources, the slug
    CloudFields,    \* cloud credentials and their endpoints
    Kinds,          \* of data sources that may have a default
    Values,
    None,           \* no entry, field, backup or process
    Partial,        \* a backup that is not written to its end
    Docs,           \* bound: what a file says
    Starts,         \* bound: the files at first
    Commands,       \* bound: the commands that are run, a subset of Command
    MaxEdits,       \* bound: files that are rewritten
    MaxTroubles,    \* bound: failures, kills and power losses
    Faults          \* what the environment does in this instance (AllFaults)

\* The keychain or the file system fails, a process is killed, the machine loses
\* power, an older gcx writes the legacy schema.
AllFaults == {"keychain", "disk", "crash", "power", "old"}

Layers == 1 .. Last
Value  == Values \cup {None}

\* What a file says of a context, if anything. The legacy schema has default data
\* sources in a map by kind and in fields of their own, v1 in the map only.
Entry == [stack : [StackFields -> Value], cloud : [CloudFields -> Value],
          map : [Kinds -> Value], flat : [Kinds -> Value]]
Doc   == [Contexts -> Entry]

Nothing(S) == [f \in S |-> None]

\* convertLegacyConfig: a stack or a cloud entry has the fields of the context, if there
\* are any; a data source of the map goes before the one of a field.
Convert(d) ==
    [c \in Contexts |->
        [d[c] EXCEPT !.map  = [k \in Kinds |-> IF @[k] # None THEN @[k] ELSE d[c].flat[k]],
                     !.flat = Nothing(Kinds)]]

\* A file of the v1 schema remembers here which legacy file it was made from.
Legacy(d)   == [schema |-> "legacy", doc |-> d, from |-> None]
Migrated(d) == [schema |-> "v1", doc |-> Convert(d), from |-> d]
Contents    == [schema : {"legacy", "v1"}, doc : Docs, from : Docs \cup {None}]

\* LoadLayered over all layers, LoadForWrite with --file and the write that follows,
\* LoadLayered where one layer is all there is, --config.
Command == [op : {"load", "set", "alone", "explicit"}, layer : Layers]

ASSUME MigrationAssumption ==
    /\ Last \in Nat \ {0} /\ MaxEdits \in Nat /\ MaxTroubles \in Nat
    /\ None \notin Values \cup Entry \cup Procs \cup Doc \cup Contents
    /\ Partial \notin Doc \cup {None}
    /\ Docs \subseteq Doc /\ \A d \in Docs : Convert(d) \in Docs
    /\ Starts \subseteq [Layers -> Contents]
    /\ Commands \subseteq Command /\ Faults \subseteq AllFaults

VARIABLES
    file, fdur,     \* each layer's file, and what a power loss may leave of it
    backup, bdur,   \* the same of its backup
    lock,           \* each file's "write" flock
    cmd, pc,        \* each process: its command, and where it is or what came of it
    todo,           \* layers it still has to look at
    snap,           \* the contents it has seen
    edits, troubles,
    unsynced,       \* history: migrated behind a backup that its writer did not sync
    killed,         \* history: a backup's writer could not clean up
    apart,          \* history: a file was migrated where it was the only layer
    disturbed       \* history: the schemas were mixed behind the back of the preflight: the
                    \* legacy one was written beside v1 files or to a file a command had
                    \* seen, or a v1 file was changed beside what may still be legacy

procs == <<cmd, pc, todo, snap>>
files == <<file, fdur, backup, bdur>>
marks == <<edits, troubles, unsynced, killed, apart, disturbed>>
vars  == <<files, lock, procs, marks>>

Ended == {"loaded", "deferred", "failed"}
InBackup == {"write", "sync", "entry"}
Holding  == InBackup \cup {"reread", "backup", "validate", "rename", "settle"}

Init ==
    /\ file \in Starts /\ fdur = [l \in Layers |-> {file[l]}]
    /\ backup = [l \in Layers |-> file[l].from] /\ bdur = [l \in Layers |-> {backup[l]}]
    /\ lock = [l \in Layers |-> None]
    /\ cmd \in [Procs -> Commands]
    /\ pc = [p \in Procs |-> "start"]
    /\ todo = [p \in Procs |-> {}]
    /\ snap = [p \in Procs |-> [l \in Layers |-> None]]
    /\ edits = 0 /\ troubles = 0
    /\ unsynced = {} /\ killed = FALSE /\ disturbed = FALSE
    /\ apart = (\E l \in Layers : file[l].schema = "v1")

-----------------------------------------------------------------------------
(***************************************************************************)
(* The preflight.                                                          *)
(***************************************************************************)
\* The value of the last layer that has one.
Override(g, none) ==
    LET set == {l \in Layers : g[l] # none}
    IN  IF set = {} THEN none ELSE g[Max(set)]

ByField(g, S) == [f \in S |-> Override([l \in Layers |-> g[l][f]], None)]
Whole(g, S)   == Override(g, Nothing(S))

Stacks(docs, c)  == [l \in Layers |-> docs[l][c].stack]
Clouds(docs, c)  == [l \in Layers |-> docs[l][c].cloud]
Sources(docs, c) == [l \in Layers |-> docs[l][c].map]
Flats(docs, c)   == [l \in Layers |-> docs[l][c].flat]

\* mergeLegacyConfigs
FieldMerge(docs) ==
    [c \in Contexts |->
        [stack |-> ByField(Stacks(docs, c), StackFields), cloud |-> ByField(Clouds(docs, c), CloudFields),
         map |-> ByField(Sources(docs, c), Kinds), flat |-> ByField(Flats(docs, c), Kinds)]]

\* MergeConfigs and Resolve. A stack is named for its context, and a layer's replaces
\* those below it. A cloud entry's name has the layer in it; a context refers to that of
\* the last layer that gives it one.
EntryMerge(docs) ==
    [c \in Contexts |->
        [stack |-> Whole(Stacks(docs, c), StackFields), cloud |-> Whole(Clouds(docs, c), CloudFields),
         map |-> ByField(Sources(docs, c), Kinds), flat |-> Nothing(Kinds)]]

Converted(docs) == [l \in Layers |-> Convert(docs[l])]

\* proveLayeredLegacyConversion
Proven(docs) == EntryMerge(Converted(docs)) = Convert(FieldMerge(docs))

IsLegacy(c) == c.schema = "legacy"
DocsOf(s)   == [l \in Layers |-> s[l].doc]

\* rejectMixedLayerEntryOverlap: a legacy layer and another have one stack.
Overlap(s) ==
    \E k, l \in Layers :
        /\ k # l /\ IsLegacy(s[k])
        /\ \E c \in Contexts : Nothing(StackFields) \notin {s[k].doc[c].stack, s[l].doc[c].stack}

\* preflightLayeredSources returns no error. A mixed set needs no proof.
Safe(s) ==
    \/ \A l \in Layers : ~IsLegacy(s[l])
    \/ (\A l \in Layers : IsLegacy(s[l])) /\ Proven(DocsOf(s))
    \/ (\E l \in Layers : ~IsLegacy(s[l])) /\ ~Overlap(s)

\* A mutant: a v1 layer needs no backup that proves where it is from.
InterruptedAnyhow(s) ==
    (\E l \in Layers : ~IsLegacy(s[l])) /\ (\E l \in Layers : IsLegacy(s[l]))

\* reconstructInterruptedLegacyLayers and the proof: the error allows a targeted
\* migration of what is still legacy.
Interrupted(s) ==
    /\ \E l \in Layers : ~IsLegacy(s[l])
    /\ \A l \in Layers : ~IsLegacy(s[l]) =>
          backup[l] \notin {None, Partial} /\ Convert(backup[l]) = s[l].doc
    /\ Proven([l \in Layers |-> IF IsLegacy(s[l]) THEN s[l].doc ELSE backup[l]])

-----------------------------------------------------------------------------
(***************************************************************************)
(* A command starts, looks at the layers and goes on.                      *)
(***************************************************************************)
Own(p) == cmd[p].layer

Go(p, to)     == pc' = [pc EXCEPT ![p] = to]
See(p, l)     == snap' = [snap EXCEPT ![p][l] = file[l]]
Unlock(p)     == lock' = [l \in Layers |-> IF lock[l] = p THEN None ELSE lock[l]]
Finish(p, to) == Go(p, to) /\ Unlock(p) /\ UNCHANGED <<cmd, todo, snap>>

Start(p) ==
    LET c == file[Own(p)] IN
    /\ pc[p] = "start"
    /\ CASE cmd[p].op = "load" \/ (cmd[p].op = "set" /\ IsLegacy(c)) ->
              Go(p, "preflight") /\ todo' = [todo EXCEPT ![p] = Layers] /\ UNCHANGED snap
         [] cmd[p].op = "set" /\ ~IsLegacy(c) ->
              Go(p, "edit") /\ See(p, Own(p)) /\ UNCHANGED todo
         [] cmd[p].op \in {"alone", "explicit"} ->
              /\ Go(p, IF IsLegacy(c) THEN "lock" ELSE "loaded")
              /\ See(p, Own(p)) /\ UNCHANGED todo
    /\ UNCHANGED <<files, lock, cmd, marks>>

\* Where the preflight of these contents leads a command.
Verdict(c, s) ==
    CASE c.op = "load" /\ Safe(s)                         -> "check"
      [] c.op = "set" /\ Safe(s) /\ ~IsLegacy(s[c.layer]) -> "edit"
      [] c.op = "set" /\ IsLegacy(s[c.layer])
           /\ (Safe(s) \/ Interrupted(s))                 -> "lock"
      [] OTHER                                            -> "failed"

Look(p) ==
    /\ pc[p] = "preflight"
    /\ LET l == Min(todo[p])
           s == [snap[p] EXCEPT ![l] = file[l]]
           v == Verdict(cmd[p], s)
       IN  /\ See(p, l)
           /\ IF todo[p] = {l}
              THEN Go(p, v) /\ todo' = [todo EXCEPT ![p] = IF v = "check" THEN Layers ELSE {}]
              ELSE UNCHANGED pc /\ todo' = [todo EXCEPT ![p] = @ \ {l}]
    /\ UNCHANGED <<files, lock, cmd, marks>>

\* LoadLayered loads each layer from what the preflight saw, a legacy one without
\* writing it, and compares it with the file.
Check(p) ==
    /\ pc[p] = "check"
    /\ LET l == Min(todo[p]) IN
         /\ todo' = [todo EXCEPT ![p] = @ \ {l}]
         /\ IF file[l] # snap[p][l] THEN Go(p, "failed")
            ELSE IF todo[p] = {l} THEN Go(p, "loaded") ELSE UNCHANGED pc
    /\ UNCHANGED <<files, lock, cmd, snap, marks>>

-----------------------------------------------------------------------------
(***************************************************************************)
(* migrateLegacyConfig, of the process's own layer.                        *)
(***************************************************************************)
Lock(p) ==
    /\ pc[p] = "lock"
    /\ lock[Own(p)] = None
    /\ lock' = [lock EXCEPT ![Own(p)] = p]
    /\ Go(p, "reread")
    /\ UNCHANGED <<files, cmd, todo, snap, marks>>

\* After 30 seconds the migration stays in memory.
LockTimesOut(p) ==
    /\ pc[p] = "lock"
    /\ lock[Own(p)] # None
    /\ Finish(p, "deferred")
    /\ UNCHANGED <<files, marks>>

Reread(p) ==
    LET c == file[Own(p)] IN
    /\ pc[p] = "reread"
    /\ CASE cmd[p].op # "explicit" /\ c # snap[p][Own(p)]    -> Finish(p, "failed")
         [] cmd[p].op = "explicit" /\ ~IsLegacy(c)           -> Finish(p, "loaded")
         [] OTHER -> Go(p, "backup") /\ See(p, Own(p)) /\ UNCHANGED <<lock, cmd, todo>>
    /\ UNCHANGED <<files, marks>>

Trouble(kind) ==
    /\ kind \in Faults
    /\ troubles < MaxTroubles /\ troubles' = troubles + 1

\* A mutant: a migration that stays in memory keeps the lock.
SecretsFailHolding(p) ==
    /\ pc[p] = "backup"
    /\ Trouble("keychain")
    /\ Go(p, "deferred")
    /\ UNCHANGED <<files, lock, cmd, todo, snap, edits, unsynced, killed, apart, disturbed>>

\* collectLegacySecrets: the credential store cannot be read now.
SecretsFail(p) ==
    /\ pc[p] = "backup"
    /\ Trouble("keychain")
    /\ Finish(p, "deferred")
    /\ UNCHANGED <<files, edits, unsynced, killed, apart, disturbed>>

Keep(l, b, durable) ==
    /\ backup' = [backup EXCEPT ![l] = b]
    /\ bdur' = [bdur EXCEPT ![l] = durable]

\* writeLegacyBackup creates the backup, or takes one that is the same as the source.
Backup(p) ==
    LET l == Own(p)
        d == snap[p][l].doc
    IN
    /\ pc[p] = "backup"
    /\ \/ /\ backup[l] = None
          /\ Keep(l, Partial, bdur[l] \cup {Partial}) /\ Go(p, "write")
          /\ UNCHANGED <<lock, cmd, todo, snap, unsynced>>
       \/ /\ backup[l] = d
          /\ Go(p, "validate")
          /\ unsynced' = IF bdur[l] = {d} THEN unsynced ELSE unsynced \cup {l}
          /\ UNCHANGED <<backup, bdur, lock, cmd, todo, snap>>
       \/ /\ backup[l] \notin {None, d}
          /\ Finish(p, "deferred")
          /\ UNCHANGED <<backup, bdur, unsynced>>
    /\ UNCHANGED <<file, fdur, edits, troubles, killed, apart, disturbed>>

WriteBackup(p) ==
    LET d == snap[p][Own(p)].doc IN
    /\ pc[p] = "write"
    /\ Keep(Own(p), d, bdur[Own(p)] \cup {d})
    /\ Go(p, "sync")
    /\ UNCHANGED <<file, fdur, lock, cmd, todo, snap, marks>>

\* A mutant: nothing waits for the backup to reach the disk.
SyncBackupUnwaited(p) ==
    /\ pc[p] = "sync"
    /\ Go(p, "entry")
    /\ UNCHANGED <<files, lock, cmd, todo, snap, marks>>

\* What a sync of the directory leaves to chance: the data of a backup that is there.
EntrySynced(l) == IF backup[l] = None THEN {None} ELSE bdur[l] \cap {Partial, backup[l]}

\* The data reaches the disk, then the directory's entry.
SyncBackup(p) ==
    /\ pc[p] = "sync"
    /\ Keep(Own(p), backup[Own(p)], bdur[Own(p)] \ {Partial})
    /\ Go(p, "entry")
    /\ UNCHANGED <<file, fdur, lock, cmd, todo, snap, marks>>

SyncEntry(p) ==
    /\ pc[p] = "entry"
    /\ Keep(Own(p), backup[Own(p)], EntrySynced(Own(p)))
    /\ Go(p, "validate")
    /\ UNCHANGED <<file, fdur, lock, cmd, todo, snap, marks>>

\* A mutant: what was begun stays.
BackupFailsLeaving(p) ==
    /\ pc[p] \in InBackup
    /\ Trouble("disk")
    /\ Finish(p, "deferred")
    /\ UNCHANGED <<files, edits, unsynced, killed, apart, disturbed>>

\* A step of it fails: the backup is removed, if it can be.
BackupFails(p) ==
    LET l == Own(p) IN
    /\ pc[p] \in InBackup
    /\ Trouble("disk")
    /\ \/ Keep(l, None, bdur[l] \cup {None}) /\ UNCHANGED killed
       \/ UNCHANGED <<backup, bdur>> /\ killed' = TRUE
    /\ Finish(p, "deferred")
    /\ UNCHANGED <<file, fdur, edits, unsynced, apart, disturbed>>

\* Write, under the lock that is held: validateConfigWriteSnapshot, then a rename.
Validate(p) ==
    /\ pc[p] = "validate"
    /\ \/ file[Own(p)] = snap[p][Own(p)] /\ Go(p, "rename") /\ UNCHANGED <<lock, cmd, todo, snap>>
       \/ file[Own(p)] # snap[p][Own(p)] /\ Finish(p, "deferred")
    /\ UNCHANGED <<files, marks>>

WriteFails(p) ==
    /\ pc[p] \in {"validate", "rename"}
    /\ Trouble("disk")
    /\ Finish(p, "deferred")
    /\ UNCHANGED <<files, edits, unsynced, killed, apart, disturbed>>

Rename(p) ==
    LET l == Own(p)
        c == Migrated(snap[p][l].doc)
    IN
    /\ pc[p] = "rename"
    /\ file' = [file EXCEPT ![l] = c]
    /\ fdur' = [fdur EXCEPT ![l] = @ \cup {c}]
    /\ apart' = (apart \/ cmd[p].op = "alone")
    /\ disturbed' = (disturbed \/ cmd[p].op = "explicit")
    /\ Go(p, "settle")
    /\ UNCHANGED <<backup, bdur, lock, cmd, todo, snap, edits, troubles, unsynced, killed>>

\* The directory is synced, with the entry of the backup; a failure is only logged.
Settle(p) ==
    LET l == Own(p) IN
    /\ pc[p] = "settle"
    /\ \/ /\ fdur' = [fdur EXCEPT ![l] = {file[l]}]
          /\ bdur' = [bdur EXCEPT ![l] = EntrySynced(l)]
          /\ UNCHANGED troubles
       \/ Trouble("disk") /\ UNCHANGED <<fdur, bdur>>
    /\ Finish(p, IF cmd[p].op = "set" THEN "reload" ELSE "loaded")
    /\ UNCHANGED <<file, backup, edits, unsynced, killed, apart, disturbed>>

-----------------------------------------------------------------------------
(***************************************************************************)
(* "config set --file": Load reads what it persisted, and the change is    *)
(* written if the file is still that.                                      *)
(***************************************************************************)
Reload(p) ==
    /\ pc[p] = "reload"
    /\ See(p, Own(p))
    /\ Go(p, IF IsLegacy(file[Own(p)]) THEN "failed" ELSE "edit")
    /\ UNCHANGED <<files, lock, cmd, todo, marks>>

Edit(p) ==
    LET l == Own(p) IN
    /\ pc[p] = "edit"
    /\ \/ file[l] # snap[p][l] /\ Finish(p, "failed") /\ UNCHANGED <<file, fdur, edits, disturbed>>
       \/ Finish(p, "loaded") /\ UNCHANGED <<file, fdur, edits, disturbed>>
       \/ /\ file[l] = snap[p][l] /\ lock[l] = None
          /\ edits < MaxEdits /\ edits' = edits + 1
          /\ \E d \in Docs : /\ file' = [file EXCEPT ![l].doc = Convert(d)]
                             /\ fdur' = [fdur EXCEPT ![l] = {file'[l]}]
          /\ disturbed' = (\/ disturbed
                           \/ file' # file /\ \E k \in Layers \ {l} : \E c \in fdur[k] : IsLegacy(c))
          /\ Finish(p, "loaded")
    /\ UNCHANGED <<backup, bdur, troubles, unsynced, killed, apart>>

Again(p) ==
    /\ pc[p] \in Ended
    /\ Go(p, "start")
    /\ todo' = [todo EXCEPT ![p] = {}]
    /\ snap' = [snap EXCEPT ![p] = [l \in Layers |-> None]]
    /\ UNCHANGED <<files, lock, cmd, marks>>

-----------------------------------------------------------------------------
\* An older gcx writes a file in its own schema.
OldWrite(l) ==
    /\ "old" \in Faults
    /\ edits < MaxEdits /\ edits' = edits + 1
    /\ \E d \in Docs : file' = [file EXCEPT ![l] = Legacy(d)]
    /\ fdur' = [fdur EXCEPT ![l] = {file'[l]}]
    /\ disturbed' = (\/ disturbed
                     \/ \E k \in Layers \ {l} : ~IsLegacy(file[k])
                     \/ \E p \in Procs : snap[p][l] # None)
    /\ UNCHANGED <<backup, bdur, lock, procs, troubles, unsynced, killed, apart>>

Crash(p) ==
    /\ pc[p] \notin Ended \cup {"start"}
    /\ Trouble("crash")
    /\ killed' = (killed \/ pc[p] \in InBackup)
    /\ Go(p, "failed") /\ Unlock(p)
    /\ UNCHANGED <<files, cmd, todo, snap, edits, unsynced, apart, disturbed>>

PowerLoss ==
    /\ Trouble("power")
    /\ file' \in {c \in [Layers -> UNION {fdur[l] : l \in Layers}] : \A l \in Layers : c[l] \in fdur[l]}
    /\ fdur' = [l \in Layers |-> {file'[l]}]
    /\ backup' \in {b \in [Layers -> UNION {bdur[l] : l \in Layers}] : \A l \in Layers : b[l] \in bdur[l]}
    /\ bdur' = [l \in Layers |-> {backup'[l]}]
    /\ lock' = [l \in Layers |-> None]
    /\ pc' = [p \in Procs |-> "failed"]
    /\ killed' = TRUE
    /\ UNCHANGED <<cmd, todo, snap, edits, unsynced, apart, disturbed>>

Work(p) ==
    \/ Start(p) \/ Look(p) \/ Check(p)
    \/ Lock(p) \/ LockTimesOut(p) \/ Reread(p)
    \/ Backup(p) \/ WriteBackup(p) \/ SyncBackup(p) \/ SyncEntry(p)
    \/ Validate(p) \/ Rename(p) \/ Settle(p) \/ Reload(p) \/ Edit(p) \/ Again(p)

Fail(p) == SecretsFail(p) \/ BackupFails(p) \/ WriteFails(p) \/ Crash(p)

Next == \/ \E p \in Procs : Work(p) \/ Fail(p)
        \/ \E l \in Layers : OldWrite(l)
        \/ PowerLoss

Spec == Init /\ [][Next]_vars

\* Users run their commands again, and the kernel runs the processes.
FairSpec == Spec /\ \A p \in Procs : WF_vars(Work(p))

-----------------------------------------------------------------------------
(***************************************************************************)
(* Properties.                                                             *)
(***************************************************************************)
\* The types; a lock is held by the process that migrates the file, and no longer.
TypeOK ==
    /\ file \in [Layers -> Contents] /\ backup \in [Layers -> Docs \cup {None, Partial}]
    /\ fdur \in [Layers -> SUBSET Contents] /\ bdur \in [Layers -> SUBSET (Docs \cup {None, Partial})]
    /\ lock \in [Layers -> Procs \cup {None}]
    /\ cmd \in [Procs -> Commands]
    /\ pc \in [Procs -> Ended \cup Holding \cup
                 {"start", "preflight", "check", "lock", "reload", "edit"}]
    /\ \A l \in Layers : \A p \in Procs : lock[l] = p <=> pc[p] \in Holding /\ Own(p) = l
    /\ todo \in [Procs -> SUBSET Layers]
    /\ snap \in [Procs -> [Layers -> Contents \cup {None}]]
    /\ edits \in 0 .. MaxEdits /\ troubles \in 0 .. MaxTroubles
    /\ unsynced \subseteq Layers /\ killed \in BOOLEAN
    /\ apart \in BOOLEAN /\ disturbed \in BOOLEAN

\* Whatever a power loss leaves, beside a file that was migrated there is the backup of
\* exactly what it was made from; unless the migration took a backup whose writer had
\* not got as far as its sync.
RollbackSafe ==
    \A l \in Layers \ unsynced :
        \A c \in fdur[l] \cup {file[l]} : c.from # None =>
            \A b \in bdur[l] \cup {backup[l]} : b = c.from

\* What the layers mean to a load, and what their legacy originals meant together.
Original(c) == IF IsLegacy(c) THEN c.doc ELSE c.from
Means(s) == EntryMerge([l \in Layers |-> IF IsLegacy(s[l]) THEN Convert(s[l].doc) ELSE s[l].doc])
Meant(s) == Convert(FieldMerge([l \in Layers |-> Original(s[l])]))

IsEdited(c) == ~IsLegacy(c) /\ c.doc # Convert(c.from)

\* A load of all layers that succeeds gives what the legacy schema gave, whichever of
\* them have been migrated by then, while none of these is an edited one and the schemas
\* were not mixed otherwise. Of a set in which a file was migrated apart from the others
\* this is so of the stacks: a mixed set is loaded without a proof.
ViewKept ==
    \A p \in Procs :
        LET s == snap[p] IN
        pc[p] = "loaded" /\ cmd[p].op = "load" /\ ~disturbed /\ (\A l \in Layers : ~IsEdited(s[l]))
        => IF apart THEN \A c \in Contexts : Means(s)[c].stack = Meant(s)[c].stack
                    ELSE Means(s) = Meant(s)

\* What that rests on: one file at most, the user's own, is also loaded where it is the
\* only layer, and no other was migrated before.
OnlyAlone(only) ==
    /\ \A c \in Commands : c.op = "alone" => c.layer = only
    /\ \A s \in Starts : \A l \in Layers : \E d \in Docs :
          s[l] = Legacy(d) \/ (l = only /\ s[l] = Migrated(d))

OneAlone == \E only \in Layers : OnlyAlone(only)

\* A failed migration leaves nothing behind that stops the next one: a file that a
\* command migrates again and again ends up in the new schema, unless its backup is of
\* something else or its writer was killed, or it cannot be proven that the layers keep
\* their meaning.
Blocked(c) ==
    \/ backup[c.layer] \notin {None, file[c.layer].doc} /\ (backup[c.layer] = Partial => killed)
    \/ c.op = "set" /\ ~Safe(file) /\ ~Interrupted(file)

KeepsTrying ==
    \A p \in Procs : []<>(\/ cmd[p].op = "load"
                          \/ ~IsLegacy(file[Own(p)])
                          \/ Blocked(cmd[p]))
===============================================================================
