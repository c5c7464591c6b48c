---------------------------- MODULE ResourcePush ----------------------------
(***************************************************************************)
(* `gcx resources push` (internal/resources/remote): the folders of a      *)
(* request level by level, parents first, then everything else, each batch *)
(* by a bounded group of goroutines that get, match and then update or     *)
(* create one resource each. The Grafana API is external. A resource that  *)
(* has a natural key is of a provider's type: its adapter sends no         *)
(* resourceVersion and never sends a dry run. One such type is modelled,   *)
(* so there is one natural-key list.                                       *)
(***************************************************************************)
EXTENDS Integers, FiniteSets

CONSTANTS
    Folders, Others,    \* the resources of the request
    Strangers,          \* objects that only the target has
    Keys,               \* natural keys
    None,               \* no folder, no key, no object, no list
    Old,                \* what the target had before the push
    Kinds,              \* what else there may be about a resource
    MaxConcurrency,
    Faults              \* what the environment does in this instance

Items   == Folders \cup Others
Objects == Items \cup Strangers

\* A resource is an ordinary one, not served by the API (or not processed), managed
\* by another tool, or of a type whose API ignores server-side dry-run.
AllKinds == {"plain", "unsupported", "foreign", "unverified"}

\* A call fails, the API applies a write that the client has given up, the user
\* interrupts the command.
AllFaults == {"api", "ghost", "interrupt"}

ASSUME ResourcePushAssumption ==
    /\ IsFiniteSet(Items)
    /\ Folders \cap Others = {} /\ Items \cap Strangers = {}
    /\ None \notin Objects \cup Keys /\ None \notin [Objects -> Keys \cup {None}]
    /\ Old \notin Objects \cup {None}
    /\ Kinds \subseteq AllKinds
    /\ MaxConcurrency \in Nat \ {0}
    /\ Faults \subseteq AllFaults

VARIABLES
    request,    \* PushRequest: stop on error, dry run, include managed resources
    parent,     \* the folder of the request a resource is in, or None
    kind, key,  \* about each resource
    oldKey,     \* the natural key of what the target had before
    phase,      \* what Push is doing
    level,      \* the folders of the level being pushed
    at,         \* where the goroutine of each resource is
    to,         \* the object it is about to write, None to create one
    fetched,    \* the natural-key list it has fetched
    cache,      \* the natural-key list of the push
    result,     \* OperationSummary, by resource
    cancelled,  \* the context of the batch is cancelled
    target,     \* per object, whose content the target has
    ghost,      \* writes of which an attempt was given up that the API may still apply
    late        \* the resources not yet counted as pushed that were written after
                \* the cancellation

given == <<request, parent, kind, key, oldKey>>
run   == <<at, to, fetched, result>>
vars  == <<given, phase, level, run, cache, cancelled, target, ghost, late>>

Init ==
    /\ request \in [stop : BOOLEAN, dry : BOOLEAN, include : BOOLEAN]
    /\ request.include => "foreign" \in Kinds    \* it would make no difference
    /\ parent \in [Items -> Folders \cup {None}]
    /\ kind \in [Items -> Kinds]
    /\ key \in [Items -> Keys \cup {None}]
    /\ oldKey \in [Objects -> Keys \cup {None}]
    /\ target \in [Objects -> {Old, None}]
    /\ \A f \in Folders : key[f] = None /\ oldKey[f] = None
    /\ \A o \in Objects : target[o] = None => oldKey[o] = None
    /\ phase = "sort" /\ level = {}
    /\ at = [i \in Items |-> "wait"]
    /\ to = [i \in Items |-> None]
    /\ fetched = [i \in Items |-> None]
    /\ cache = None
    /\ result = [i \in Items |-> "none"]
    /\ cancelled = FALSE
    /\ ghost = {} /\ late = {}

-----------------------------------------------------------------------------
(***************************************************************************)
(* SortFoldersByDependency and the batches of Push.                        *)
(***************************************************************************)
\* A folder whose parent is not in the request is a root.
Roots == {f \in Folders : parent[f] = None}

\* A mutant: every resource in the folders, not only the folders.
ChildrenOfAllKinds(S) == {i \in Items : parent[i] \in S}

Children(S) == {f \in Folders : parent[f] \in S}

\* Every folder is reached from a root: none is in, or below, a cycle of parents.
HaveLevels ==
    \A C \in SUBSET Folders : C # {} => \E f \in C : parent[f] \notin C

\* A mutant: the folders that have a level are pushed all the same.
SortIgnoringCycles ==
    /\ phase = "sort"
    /\ phase' = "folders"
    /\ level' = Roots
    /\ UNCHANGED <<given, run, cache, cancelled, target, ghost, late>>

\* "has invalid level (circular dependency?)"
Sort ==
    /\ phase = "sort"
    /\ IF HaveLevels
       THEN phase' = "folders" /\ level' = Roots
       ELSE phase' = "error" /\ UNCHANGED level
    /\ UNCHANGED <<given, run, cache, cancelled, target, ghost, late>>

Batch == CASE phase = "folders" -> level
           [] phase = "others"  -> Others
           [] OTHER             -> {}

Counted == {i \in Items : result[i] \in {"ok", "failed"}}

\* What follows a batch that ended without an error. Folders that were skipped
\* are not counted; then the other batch runs, and finds nothing to do.
Onward ==
    \/ /\ phase = "others"
       /\ phase' = "done"
       /\ UNCHANGED level
    \/ /\ phase = "folders" /\ Children(level) # {}
       /\ level' = Children(level)
       /\ UNCHANGED phase
    \/ /\ phase = "folders" /\ Children(level) = {}
       /\ phase' = IF Counted = Items THEN "done" ELSE "others"
       /\ UNCHANGED level

Stopped == request.stop /\ \E i \in Batch : result[i] = "failed"

\* A mutant: the batch is not waited for.
NextBatchEarly ==
    /\ phase \in {"folders", "others"}
    /\ Onward
    /\ UNCHANGED <<given, run, cache, cancelled, target, ghost, late>>

\* A mutant: the error of a batch of folders is dropped.
NextBatchUnchecked ==
    /\ phase \in {"folders", "others"}
    /\ \A i \in Batch : at[i] = "done"
    /\ Onward
    /\ cancelled' = FALSE
    /\ UNCHANGED <<given, run, cache, target, ghost, late>>

\* A mutant: a resource that is skipped is waited for.
NextBatchCounting ==
    /\ phase \in {"folders", "others"}
    /\ Batch \subseteq Counted
    /\ IF Stopped THEN phase' = "error" /\ UNCHANGED level ELSE Onward
    /\ UNCHANGED <<given, run, cache, cancelled, target, ghost, late>>

\* A mutant: the push has ended when anything has been counted.
NextBatchFoldersOnly ==
    /\ phase \in {"folders", "others"}
    /\ \A i \in Batch : at[i] = "done"
    /\ IF Stopped
       THEN phase' = "error" /\ UNCHANGED level
       ELSE IF Counted # {} THEN phase' = "done" /\ UNCHANGED level
       ELSE Onward
    /\ UNCHANGED <<given, run, cache, cancelled, target, ghost, late>>

\* The end of ForEachConcurrently: every goroutine of the batch has returned.
NextBatch ==
    /\ phase \in {"folders", "others"}
    /\ \A i \in Batch : at[i] = "done"
    /\ IF Stopped THEN phase' = "error" /\ UNCHANGED level ELSE Onward
    /\ UNCHANGED <<given, run, cache, cancelled, target, ghost, late>>

\* The user interrupts the command: its context, and every batch's, is cancelled.
Interrupt ==
    /\ "interrupt" \in Faults /\ ~cancelled
    /\ phase \in {"folders", "others"}
    /\ cancelled' = TRUE
    /\ UNCHANGED <<given, phase, level, run, cache, target, ghost, late>>

-----------------------------------------------------------------------------
(***************************************************************************)
(* pushSingleResource and upsertResource.                                  *)
(***************************************************************************)
KeyOn(o) == CASE target[o] = Old   -> oldKey[o]
              [] target[o] = None  -> None
              [] OTHER             -> key[target[o]]

\* The list of the type that has natural keys.
Listing == [o \in Objects |-> KeyOn(o)]

Go(i, place) == at' = [at EXCEPT ![i] = place]

Return(i, outcome) ==
    /\ Go(i, "done")
    /\ result' = [result EXCEPT ![i] = outcome]

\* With an error and StopOnError, errgroup cancels the context of the batch.
Fail(i) ==
    /\ Return(i, "failed")
    /\ cancelled' = (cancelled \/ request.stop)

\* What a call to the API comes to when its context is cancelled, or it fails.
CallFails == cancelled \/ "api" \in Faults

Running == {i \in Items : at[i] \notin {"wait", "done"}}

\* A mutant: the group has no limit.
StartAll(i) ==
    /\ i \in Batch /\ at[i] = "wait"
    /\ Go(i, "get")
    /\ UNCHANGED <<given, phase, level, to, fetched, result, cache, cancelled, target, ghost, late>>

\* A goroutine is started whether or not the context is cancelled.
Start(i) ==
    /\ i \in Batch /\ at[i] = "wait"
    /\ Cardinality(Running) < MaxConcurrency
    /\ \/ /\ kind[i] = "unsupported"
          /\ Fail(i)
       \/ /\ kind[i] = "foreign" /\ ~request.include
          /\ Return(i, "ignored")
          /\ UNCHANGED cancelled
       \/ /\ \/ kind[i] \in {"plain", "unverified"}
             \/ request.include /\ kind[i] = "foreign"
          /\ Go(i, "get")
          /\ UNCHANGED <<result, cancelled>>
    /\ UNCHANGED <<given, phase, level, to, fetched, cache, target, ghost, late>>

Get(i) ==
    /\ at[i] = "get"
    /\ \/ /\ CallFails
          /\ Fail(i)
          /\ UNCHANGED to
       \/ /\ ~cancelled /\ target[i] # None
          /\ Go(i, "write")
          /\ to' = [to EXCEPT ![i] = i]
          /\ UNCHANGED <<result, cancelled>>
       \/ /\ ~cancelled /\ target[i] = None
          /\ Go(i, IF key[i] = None THEN "write" ELSE "list")
          /\ UNCHANGED <<to, result, cancelled>>
    /\ UNCHANGED <<given, phase, level, fetched, cache, target, ghost, late>>

\* A mutant: a failed listing falls back to creating the resource.
ListFallingBack(i) ==
    /\ at[i] = "list"
    /\ \/ /\ cache # None
          /\ Go(i, "match") /\ UNCHANGED fetched
       \/ /\ cache = None /\ CallFails
          /\ Go(i, "write") /\ UNCHANGED fetched
       \/ /\ cache = None /\ ~cancelled
          /\ Go(i, "match")
          /\ fetched' = [fetched EXCEPT ![i] = Listing]
    /\ UNCHANGED <<given, phase, level, to, result, cancelled, cache, target, ghost, late>>

\* The list is fetched without the lock.
List(i) ==
    /\ at[i] = "list"
    /\ \/ /\ cache # None
          /\ Go(i, "match")
          /\ UNCHANGED <<fetched, result, cancelled>>
       \/ /\ cache = None /\ CallFails
          /\ Fail(i)
          /\ UNCHANGED fetched
       \/ /\ cache = None /\ ~cancelled
          /\ Go(i, "match")
          /\ fetched' = [fetched EXCEPT ![i] = Listing]
          /\ UNCHANGED <<result, cancelled>>
    /\ UNCHANGED <<given, phase, level, to, cache, target, ghost, late>>

\* A mutant: an object that has no key matches.
MatchesLoosely(i, list) == {o \in Objects \ Folders : target[o] # None /\ list[o] \in {key[i], None}}

Matches(i, list) == {o \in Objects : list[o] = key[i]}

\* The first list that was stored stays; the first match in it is updated.
Match(i) ==
    /\ at[i] = "match"
    /\ cache' = IF cache = None THEN fetched[i] ELSE cache
    /\ IF Matches(i, cache') = {}
       THEN UNCHANGED to
       ELSE \E o \in Matches(i, cache') : to' = [to EXCEPT ![i] = o]
    /\ Go(i, "write")
    /\ UNCHANGED <<given, phase, level, fetched, result, cancelled, target, ghost, late>>

\* A mutant: the guard lets every dry run through.
SendUnguarded(i) ==
    /\ at[i] = "write"
    /\ \/ /\ cancelled
          /\ Fail(i)
       \/ /\ ~cancelled
          /\ Go(i, "sent")
          /\ UNCHANGED <<result, cancelled>>
    /\ UNCHANGED <<given, phase, level, to, fetched, cache, target, ghost, late>>

\* The guard, or the adapter of a provider's type, does not send a dry run that
\* the API would not take for one.
Blocked(i) == request.dry /\ (kind[i] = "unverified" \/ key[i] # None)

\* An update or a create. An adapter that can validate answers a dry run itself.
Send(i) ==
    /\ at[i] = "write"
    /\ \/ /\ Blocked(i)
          /\ Return(i, "skipped")
          /\ UNCHANGED cancelled
       \/ /\ Blocked(i) /\ key[i] # None
          /\ \/ Return(i, "ok") /\ UNCHANGED cancelled
             \/ CallFails /\ Fail(i)
       \/ /\ ~Blocked(i) /\ cancelled
          /\ Fail(i)
       \/ /\ ~Blocked(i) /\ ~cancelled
          /\ Go(i, "sent")
          /\ UNCHANGED <<result, cancelled>>
    /\ UNCHANGED <<given, phase, level, to, fetched, cache, target, ghost, late>>

\* Only the API of a type that is on the allowlist honours a dry run.
Takes(i) == ~request.dry \/ Blocked(i)

\* A write takes effect; the object that a resource without a match creates is
\* named after the resource.
TakeEffect(i) ==
    IF Takes(i)
    THEN /\ target' = [target EXCEPT ![IF to[i] = None THEN i ELSE to[i]] = i]
         /\ to' = [to EXCEPT ![i] = IF @ = None THEN i ELSE @]
         /\ late' = IF cancelled /\ result[i] # "ok" THEN late \cup {i} ELSE late
    ELSE UNCHANGED <<target, to, late>>

\* The API applies a write.
Apply(i) ==
    /\ at[i] = "sent"
    /\ Go(i, "answer")
    /\ TakeEffect(i)
    /\ UNCHANGED <<given, phase, level, fetched, result, cache, cancelled, ghost>>

\* An attempt fails, and the client's transport sends the write again.
Retry(i) ==
    /\ at[i] = "sent"
    /\ {"api", "ghost"} \subseteq Faults /\ ~cancelled
    /\ Go(i, "sent")
    /\ ghost' = ghost \cup {i}
    /\ UNCHANGED <<given, phase, level, to, fetched, result, cache, cancelled, target, late>>

\* The API refuses a write, or the client gives it up (a timeout, the cancellation)
\* and the API may still apply it.
Refuse(i) ==
    /\ at[i] = "sent"
    /\ CallFails
    /\ Fail(i)
    /\ \/ UNCHANGED ghost
       \/ "ghost" \in Faults /\ ghost' = ghost \cup {i}
    /\ UNCHANGED <<given, phase, level, to, fetched, cache, target, late>>

\* The API applies an attempt that the client has given up, at any time.
ApplyGhost(i) ==
    /\ i \in ghost
    /\ TakeEffect(i)
    /\ UNCHANGED <<given, phase, level, at, fetched, result, cache, cancelled, ghost>>

\* The answer of a write that was applied, or the error when it does not arrive.
Answer(i) ==
    /\ at[i] = "answer"
    /\ \/ /\ Return(i, "ok")
          /\ UNCHANGED cancelled
       \/ /\ CallFails
          /\ Fail(i)
    /\ UNCHANGED <<given, phase, level, to, fetched, cache, target, ghost, late>>

-----------------------------------------------------------------------------
Push1(i) ==
    \/ Start(i) \/ Get(i) \/ List(i) \/ Match(i)
    \/ Send(i) \/ Apply(i) \/ Retry(i) \/ Refuse(i) \/ Answer(i)

Next ==
    \/ Sort \/ NextBatch \/ Interrupt
    \/ \E i \in Items : Push1(i) \/ ApplyGhost(i)

Spec == Init /\ [][Next]_vars

\* The scheduler runs every goroutine, and every call ends: the API answers, or
\* the HTTP client's timeout does, after the transport's few attempts. Nothing makes
\* the API apply what was given up.
FairSpec ==
    /\ Spec
    /\ WF_vars(Sort) /\ WF_vars(NextBatch)
    /\ \A i \in Items : WF_vars(Push1(i))

-----------------------------------------------------------------------------
(***************************************************************************)
(* Properties.                                                             *)
(***************************************************************************)
TypeOK ==
    /\ request \in [stop : BOOLEAN, dry : BOOLEAN, include : BOOLEAN]
    /\ phase \in {"sort", "folders", "others", "done", "error"}
    /\ level \subseteq Folders
    /\ at \in [Items -> {"wait", "get", "list", "match", "write", "sent", "answer", "done"}]
    /\ to \in [Items -> Objects \cup {None}]
    /\ \A i \in Items : fetched[i] = None \/ fetched[i] \in [Objects -> Keys \cup {None}]
    /\ cache = None \/ cache \in [Objects -> Keys \cup {None}]
    /\ result \in [Items -> {"none", "ok", "failed", "skipped", "ignored"}]
    /\ cancelled \in BOOLEAN
    /\ target \in [Objects -> Items \cup {Old, None}]
    /\ ghost \subseteq Items /\ late \subseteq Items

Started(i) == at[i] # "wait"
Wrote(i)   == at[i] = "answer" \/ result[i] = "ok"

\* No goroutine starts on a resource before those of its folder and of the
\* folders above it have ended, and on another resource before those of all
\* folders (pushFolders, Push).
ParentFirst ==
    \A i \in Items : Started(i) =>
        /\ parent[i] # None => at[parent[i]] = "done"
        /\ i \in Others => \A f \in Folders : at[f] = "done"

\* "Parent folders are created before their children" (Push): what is written
\* has its folder on the target.
ParentExists ==
    \A i \in Items : Wrote(i) /\ ~request.dry /\ parent[i] # None => target[parent[i]] # None

\* The same where --on-error abort ends the push with the first failure, and
\* no folder is left to another tool (Push, ForEachConcurrently).
ParentExistsOrStopped ==
    request.stop /\ (\A f \in Folders : kind[f] # "foreign") => ParentExists

\* A request whose folders have a cycle pushes nothing at all
\* (SortFoldersByDependency).
CyclesPushNothing == (\E i \in Items : Started(i)) => HaveLevels

\* A dry run never changes the target (dryRunGuard, typedAdapter).
DryRunWritesNothing == [][request.dry => UNCHANGED target]_vars

\* With --on-error abort, what still takes effect after the first failure or an
\* interrupt is at most one resource of each of the MaxConcurrency goroutines that run
\* at a time (ForEachConcurrently): of the others what they had sent, and of the one
\* that failed the write it gave up.
LateWritesBounded == request.stop => Cardinality(late) <= MaxConcurrency

\* A push that ends without an error has an outcome for every resource: none
\* is forgotten between the batches (Push's early return).
Accounted == phase = "done" => \A i \in Items : result[i] # "none"

DistinctKeys == \A i, j \in Items : i # j /\ key[i] # None => key[i] # key[j]

\* The error of a listing is not taken for the absence of a match, "which would
\* produce duplicates": no created object has the key of another one, if the
\* resources of the request have different keys (findByNaturalKey).
CreatesNoDuplicate ==
    [][ DistinctKeys =>
        \A o \in Objects : target[o] = None /\ target'[o] # None /\ KeyOn(o)' # None =>
            \A p \in Objects \ {o} : KeyOn(p)' # KeyOn(o)' ]_vars

\* "Treats local files as authoritative": what the summary counts as pushed is what
\* the target holds in the end, unless a resource takes the former key of another one
\* of the request: a match takes no object of another resource (findByNaturalKey).
PushedStaysUnlessReused ==
    /\ phase = "done" /\ DistinctKeys /\ ~request.dry
    /\ \A i, j \in Items : i # j /\ key[i] # None => key[i] # oldKey[j]
    => \A i \in Items : result[i] = "ok" => target[to[i]] = i

\* Every push returns (errgroup, the natural-key lock).
PushReturns == <>(phase \in {"done", "error"})
===============================================================================
