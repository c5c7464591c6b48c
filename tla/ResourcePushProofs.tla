------------------------- MODULE ResourcePushProofs -------------------------
(***************************************************************************)
(* Theorems of ResourcePush, for every request, target and number of       *)
(* goroutines: folders come first, cyclic folders push nothing, nothing is *)
(* forgotten, and a dry run writes nothing; an aborted push leaves no      *)
(* resource without its folder and few late writes; keys are not created   *)
(* twice, and what was pushed stays.                                       *)
(***************************************************************************)
EXTENDS ResourcePush, FiniteSetTheorems, TLAPS

Place   == {"wait", "get", "list", "match", "write", "sent", "answer", "done"}
Outcome == {"none", "ok", "failed", "skipped", "ignored"}

Typed ==
    /\ parent \in [Items -> Folders \cup {None}]
    /\ phase \in {"sort", "folders", "others", "done", "error"}
    /\ level \subseteq Folders
    /\ at \in [Items -> Place]
    /\ result \in [Items -> Outcome]

\* Nothing starts before the sort has accepted the folders.
Accepted ==
    /\ phase = "sort" => \A i \in Items : at[i] = "wait"
    /\ phase \in {"folders", "others", "done"} => HaveLevels

\* A folder that waits and is not in the level being pushed is below one that
\* is, or below one that waits like itself.
Waiting(f) == f \in Folders /\ at[f] = "wait" /\ f \notin level

LevelByLevel ==
    phase = "folders" =>
        /\ \A f \in Folders : at[f] \in {"wait", "done"} \/ f \in level
        /\ \A f \in level : parent[f] = None \/ at[parent[f]] = "done"
        /\ \A f \in Folders : Waiting(f) =>
              parent[f] \in Folders /\ (Waiting(parent[f]) \/ parent[f] \in level)

FoldersDone == phase \in {"others", "done"} => \A f \in Folders : at[f] = "done"

DoneHasOutcome == \A i \in Items : at[i] = "done" => result[i] # "none"

SentNotBlocked == \A i \in Items : at[i] = "sent" \/ i \in ghost => ~Blocked(i)

PushInv ==
    /\ Typed
    /\ Accepted
    /\ CyclesPushNothing
    /\ ParentFirst
    /\ LevelByLevel
    /\ FoldersDone
    /\ DoneHasOutcome
    /\ Accounted
    /\ SentNotBlocked

-----------------------------------------------------------------------------
\* What a step of the goroutine of a resource comes to: it is started if the
\* batch has come to it, it goes on, or it ends with an outcome.
Advance(i) ==
    /\ at[i] # "done"
    /\ at[i] = "wait" => i \in Batch
    /\ UNCHANGED <<given, phase, level>>
    /\ ghost' = ghost \/ (at[i] = "sent" /\ ghost' = ghost \cup {i})
    /\ \E place \in Place \ {"wait"} :
        /\ at' = [at EXCEPT ![i] = place]
        /\ place = "sent" => at[i] = "sent" \/ ~Blocked(i)
        /\ \/ place # "done" /\ UNCHANGED result
           \/ \E outcome \in Outcome \ {"none"} : result' = [result EXCEPT ![i] = outcome]

LEMMA PushAdvances ==
    ASSUME NEW i \in Items, Push1(i)
    PROVE  Advance(i)
<1> USE DEF Go, Return, Fail, Place, Outcome, given, run
<1>1. CASE Start(i)
  <2>1. /\ at[i] = "wait" /\ i \in Batch
        /\ UNCHANGED <<given, phase, level, ghost>>
    BY <1>1 DEF Start
  <2>2. \/ at' = [at EXCEPT ![i] = "done"] /\ \E o \in {"failed", "ignored"} : result' = [result EXCEPT ![i] = o]
        \/ at' = [at EXCEPT ![i] = "get"] /\ UNCHANGED result
    BY <1>1 DEF Start
  <2> QED BY <2>1, <2>2 DEF Advance
<1>2. CASE Get(i)
  <2>1. /\ at[i] = "get"
        /\ UNCHANGED <<given, phase, level, ghost>>
    BY <1>2 DEF Get
  <2>2. \/ at' = [at EXCEPT ![i] = "done"] /\ result' = [result EXCEPT ![i] = "failed"]
        \/ at' = [at EXCEPT ![i] = "write"] /\ UNCHANGED result
        \/ at' = [at EXCEPT ![i] = "list"] /\ UNCHANGED result
    BY <1>2 DEF Get
  <2> QED BY <2>1, <2>2 DEF Advance
<1>3. CASE List(i)
  <2>1. /\ at[i] = "list"
        /\ UNCHANGED <<given, phase, level, ghost>>
    BY <1>3 DEF List
  <2>2. \/ at' = [at EXCEPT ![i] = "done"] /\ result' = [result EXCEPT ![i] = "failed"]
        \/ at' = [at EXCEPT ![i] = "match"] /\ UNCHANGED result
    BY <1>3 DEF List
  <2> QED BY <2>1, <2>2 DEF Advance
<1>4. CASE Match(i)
  <2>1. /\ at[i] = "match" /\ at' = [at EXCEPT ![i] = "write"] /\ UNCHANGED result
        /\ UNCHANGED <<given, phase, level, ghost>>
    BY <1>4 DEF Match
  <2>2. "write" \in Place \ {"wait"} /\ "write" # "done" /\ "write" # "sent"
    OBVIOUS
  <2>3. at[i] # "done" /\ at[i] # "wait"
    BY <2>1
  <2>4. \E place \in Place \ {"wait"} : at' = [at EXCEPT ![i] = place] /\ place # "sent" /\ place # "done"
    BY <2>1, <2>2, Zenon
  <2> QED BY <2>1, <2>3, <2>4, Zenon DEF Advance
<1>5. CASE Send(i)
  <2>1. /\ at[i] = "write"
        /\ UNCHANGED <<given, phase, level, ghost>>
    BY <1>5 DEF Send
  <2>2. \/ at' = [at EXCEPT ![i] = "done"] /\ \E o \in {"failed", "skipped", "ok"} : result' = [result EXCEPT ![i] = o]
        \/ ~Blocked(i) /\ at' = [at EXCEPT ![i] = "sent"] /\ UNCHANGED result
    BY <1>5 DEF Send
  <2> QED BY <2>1, <2>2 DEF Advance
<1>6. CASE Apply(i)
  <2>1. /\ at[i] = "sent" /\ at' = [at EXCEPT ![i] = "answer"] /\ UNCHANGED result
        /\ UNCHANGED <<given, phase, level, ghost>>
    BY <1>6 DEF Apply
  <2>2. "answer" \in Place \ {"wait"} /\ "answer" # "done" /\ "answer" # "sent"
    OBVIOUS
  <2>3. at[i] # "done" /\ at[i] # "wait"
    BY <2>1
  <2>4. \E place \in Place \ {"wait"} : at' = [at EXCEPT ![i] = place] /\ place # "sent" /\ place # "done"
    BY <2>1, <2>2, Zenon
  <2> QED BY <2>1, <2>3, <2>4, Zenon DEF Advance
<1>7. CASE Retry(i)
  <2>1. /\ at[i] = "sent" /\ at' = [at EXCEPT ![i] = "sent"] /\ UNCHANGED result
        /\ UNCHANGED <<given, phase, level>> /\ ghost' = ghost \cup {i}
    BY <1>7 DEF Retry
  <2>2. "sent" \in Place \ {"wait"} /\ "sent" # "done"
    OBVIOUS
  <2>3. at[i] # "done" /\ at[i] # "wait"
    BY <2>1
  <2> QED BY <2>1, <2>2, <2>3, Zenon DEF Advance
<1>8. CASE Refuse(i)
  <2>1. /\ at[i] = "sent" /\ at' = [at EXCEPT ![i] = "done"] /\ result' = [result EXCEPT ![i] = "failed"]
        /\ UNCHANGED <<given, phase, level>>
        /\ ghost' = ghost \/ ghost' = ghost \cup {i}
    BY <1>8 DEF Refuse
  <2> QED BY <2>1 DEF Advance
<1>9. CASE Answer(i)
  <2>1. /\ at[i] = "answer" /\ at' = [at EXCEPT ![i] = "done"]
        /\ \E o \in Outcome \ {"none"} : result' = [result EXCEPT ![i] = o]
        /\ UNCHANGED <<given, phase, level, ghost>>
    BY <1>9 DEF Answer
  <2>2. "done" \in Place \ {"wait"} /\ "done" # "sent"
    OBVIOUS
  <2> QED BY <2>1, <2>2, Zenon DEF Advance
<1> QED BY <1>1, <1>2, <1>3, <1>4, <1>5, <1>6, <1>7, <1>8, <1>9 DEF Push1

LEMMA AdvanceKeeps ==
    ASSUME PushInv, NEW i \in Items, Advance(i)
    PROVE  PushInv'
<1> USE ResourcePushAssumption
<1>1. PICK place \in Place \ {"wait"} :
        /\ at' = [at EXCEPT ![i] = place]
        /\ place = "sent" => at[i] = "sent" \/ ~Blocked(i)
        /\ \/ place # "done" /\ UNCHANGED result
           \/ \E outcome \in Outcome \ {"none"} : result' = [result EXCEPT ![i] = outcome]
  BY DEF Advance
<1>2. UNCHANGED <<request, parent, kind, key, phase, level>>
  BY DEF Advance, given
<1>3. Typed'
  BY <1>1, <1>2 DEF PushInv, Typed
<1>4. \A j \in Items : j # i => at'[j] = at[j]
  BY <1>1 DEF PushInv, Typed
<1>5. at'[i] = place /\ at'[i] # "wait"
  BY <1>1 DEF PushInv, Typed, Place
<1>6. at[i] # "done" /\ (at[i] = "wait" => i \in Batch)
  BY DEF Advance
<1>7. \A j \in Items : at[j] = "done" => at'[j] = "done"
  BY <1>4, <1>6
<1>8. \A j \in Items : at'[j] = "wait" => at[j] = "wait"
  BY <1>4, <1>5
<1>9. at[i] = "wait" => \/ phase = "folders" /\ i \in level
                        \/ phase = "others" /\ i \in Others
  BY <1>6 DEF Batch, PushInv, Typed
<1>10. HaveLevels' <=> HaveLevels
  BY <1>2 DEF HaveLevels
<1>11. phase # "sort"
  BY <1>6, <1>9 DEF PushInv, Accepted
<1>12. HaveLevels
  <2>1. CASE at[i] = "wait"
    BY <1>9, <2>1 DEF PushInv, Accepted
  <2>2. CASE at[i] # "wait"
    BY <2>2 DEF PushInv, CyclesPushNothing, Started
  <2> QED BY <2>1, <2>2
<1>13. Accepted' /\ CyclesPushNothing'
  BY <1>2, <1>10, <1>11, <1>12 DEF Accepted, CyclesPushNothing
<1>14. ParentFirst'
  <2> SUFFICES ASSUME NEW j \in Items, at'[j] # "wait"
               PROVE  /\ parent[j] # None => at'[parent[j]] = "done"
                      /\ j \in Others => \A f \in Folders : at'[f] = "done"
    BY <1>2 DEF ParentFirst, Started
  <2>1. parent[j] # None => parent[j] \in Folders
    BY DEF PushInv, Typed
  <2>2. CASE at[j] # "wait"
    BY <1>7, <2>1, <2>2 DEF PushInv, ParentFirst, Started, Items
  <2>3. CASE at[j] = "wait"
    <3>1. j = i
      BY <1>4, <2>3
    <3>2. CASE phase = "folders" /\ i \in level
      BY <1>7, <2>1, <3>1, <3>2 DEF PushInv, Typed, LevelByLevel, Items
    <3>3. CASE phase = "others" /\ i \in Others
      BY <1>7, <2>1, <3>1, <3>3 DEF PushInv, FoldersDone, Items
    <3> QED BY <1>9, <2>3, <3>1, <3>2, <3>3
  <2> QED BY <2>2, <2>3
<1>15. LevelByLevel'
  <2> SUFFICES ASSUME phase = "folders"
               PROVE  /\ \A f \in Folders : at'[f] \in {"wait", "done"} \/ f \in level
                      /\ \A f \in level : parent[f] = None \/ at'[parent[f]] = "done"
                      /\ \A f \in Folders : Waiting(f)' =>
                            parent[f] \in Folders /\ (Waiting(parent[f])' \/ parent[f] \in level)
    BY <1>2 DEF LevelByLevel
  <2>1. ASSUME NEW f \in Folders
        PROVE  at'[f] \in {"wait", "done"} \/ f \in level
    <3>1. f \in Items
      BY DEF Items
    <3>2. CASE f # i
      BY <1>4, <3>1, <3>2 DEF PushInv, LevelByLevel
    <3>3. CASE f = i
      BY <1>6, <1>9, <3>3 DEF PushInv, LevelByLevel
    <3> QED BY <3>2, <3>3
  <2>2. ASSUME NEW f \in level
        PROVE  parent[f] = None \/ at'[parent[f]] = "done"
    BY <1>7 DEF PushInv, Typed, LevelByLevel, Items
  <2>3. ASSUME NEW f \in Folders, Waiting(f)'
        PROVE  parent[f] \in Folders /\ (Waiting(parent[f])' \/ parent[f] \in level)
    <3>1. Waiting(f)
      BY <1>2, <1>8, <2>3 DEF Waiting, Items
    <3>2. parent[f] \in Folders /\ (Waiting(parent[f]) \/ parent[f] \in level)
      BY <3>1 DEF PushInv, LevelByLevel
    <3>3. CASE Waiting(parent[f])
      <4>1. parent[f] # i
        BY <1>9, <3>2, <3>3 DEF Waiting
      <4> QED BY <1>2, <1>4, <3>2, <3>3, <4>1 DEF Waiting, Items
    <3> QED BY <3>2, <3>3
  <2> QED BY <2>1, <2>2, <2>3
<1>16. FoldersDone'
  BY <1>2, <1>7 DEF PushInv, FoldersDone, Items
<1>17. \A j \in Items : result[j] # "none" => result'[j] # "none"
  BY <1>1 DEF PushInv, Typed
<1>18. DoneHasOutcome'
  <2> SUFFICES ASSUME NEW j \in Items, at'[j] = "done"
               PROVE  result'[j] # "none"
    BY DEF DoneHasOutcome
  <2>1. CASE j = i
    BY <1>1, <1>5, <2>1 DEF PushInv, Typed
  <2>2. CASE j # i
    BY <1>4, <1>17, <2>2 DEF PushInv, DoneHasOutcome
  <2> QED BY <2>1, <2>2
<1>19. Accounted'
  BY <1>2, <1>17 DEF PushInv, Accounted
<1>20. SentNotBlocked'
  <2>1. \A j \in Items : Blocked(j)' = Blocked(j)
    BY <1>2 DEF Blocked
  <2>2. ghost' = ghost \/ (at[i] = "sent" /\ ghost' = ghost \cup {i})
    BY DEF Advance
  <2>3. ~Blocked(i) \/ (at'[i] # "sent" /\ i \notin ghost')
    BY <1>1, <1>5, <2>2 DEF PushInv, SentNotBlocked
  <2> QED BY <1>4, <2>1, <2>2, <2>3 DEF PushInv, SentNotBlocked
<1> QED BY <1>3, <1>13, <1>14, <1>15, <1>16, <1>18, <1>19, <1>20 DEF PushInv

LEMMA SortKeeps ==
    ASSUME PushInv, Sort
    PROVE  PushInv'
<1> USE ResourcePushAssumption
<1>1. /\ phase = "sort" /\ UNCHANGED <<request, parent, kind, key, at, result, ghost>>
      /\ \/ HaveLevels /\ phase' = "folders" /\ level' = Roots
         \/ phase' = "error" /\ UNCHANGED level
  BY DEF Sort, given, run
<1>2. HaveLevels' <=> HaveLevels
  BY <1>1 DEF HaveLevels
<1>3. \A i \in Items : at[i] = "wait"
  BY <1>1 DEF PushInv, Accepted
<1>4. Typed'
  BY <1>1 DEF PushInv, Typed, Roots
<1>5. Accepted' /\ CyclesPushNothing' /\ ParentFirst' /\ FoldersDone' /\ DoneHasOutcome'
  BY <1>1, <1>2, <1>3 DEF Accepted, CyclesPushNothing, ParentFirst, FoldersDone, DoneHasOutcome, Started
<1>6. LevelByLevel'
  <2> SUFFICES ASSUME phase' = "folders"
               PROVE  /\ \A f \in Folders : at'[f] \in {"wait", "done"} \/ f \in level'
                      /\ \A f \in level' : parent'[f] = None \/ at'[parent'[f]] = "done"
                      /\ \A f \in Folders : Waiting(f)' =>
                            parent'[f] \in Folders /\ (Waiting(parent[f])' \/ parent'[f] \in level')
    BY DEF LevelByLevel
  <2>1. level' = Roots
    BY <1>1
  <2>2. \A f \in Folders : at'[f] = "wait"
    BY <1>1, <1>3 DEF Items
  <2>3. \A f \in Folders : parent[f] \in Folders \cup {None}
    BY DEF PushInv, Typed, Items
  <2> QED BY <1>1, <2>1, <2>2, <2>3 DEF Roots, Waiting
<1>7. Accounted' /\ SentNotBlocked'
  BY <1>1 DEF PushInv, Accounted, SentNotBlocked, Blocked
<1> QED BY <1>4, <1>5, <1>6, <1>7 DEF PushInv

\* When no folder is below the last level, the folders that were never reached
\* would be closed under their parents, and so a cycle.
LEMMA AllReached ==
    ASSUME PushInv, phase = "folders", \A f \in level : at[f] = "done", Children(level) = {}
    PROVE  \A f \in Folders : at[f] = "done"
<1> DEFINE Rest == {f \in Folders : at[f] = "wait"}
<1>1. \A f \in Rest : Waiting(f)
  BY DEF Waiting
<1>2. \A f \in Rest : parent[f] \in Folders /\ (Waiting(parent[f]) \/ parent[f] \in level)
  BY <1>1 DEF PushInv, LevelByLevel
<1>3. \A f \in Rest : parent[f] \notin level
  BY DEF Children
<1>4. \A f \in Rest : parent[f] \in Rest
  BY <1>2, <1>3 DEF Waiting
<1>5. Rest = {}
  <2>1. HaveLevels /\ Rest \in SUBSET Folders
    BY DEF PushInv, Accepted
  <2> HIDE DEF Rest
  <2> QED BY <1>4, <2>1 DEF HaveLevels
<1>6. \A f \in Folders : at[f] # "wait"
  BY <1>5
<1> QED BY <1>6 DEF PushInv, LevelByLevel

LEMMA NextBatchKeeps ==
    ASSUME PushInv, NextBatch
    PROVE  PushInv'
<1> USE ResourcePushAssumption
<1>1. /\ phase \in {"folders", "others"}
      /\ \A i \in Batch : at[i] = "done"
      /\ UNCHANGED <<request, parent, kind, key, at, result, ghost>>
      /\ \/ phase' = "error" /\ UNCHANGED level
         \/ Onward
  BY DEF NextBatch, given, run
<1>2. HaveLevels /\ HaveLevels'
  BY <1>1 DEF PushInv, Accepted, HaveLevels
<1>3. CyclesPushNothing' /\ ParentFirst' /\ DoneHasOutcome' /\ SentNotBlocked'
  BY <1>1, <1>2 DEF PushInv, CyclesPushNothing, ParentFirst, DoneHasOutcome, SentNotBlocked, Started, Blocked
<1>4. Typed'
  BY <1>1 DEF PushInv, Typed, Onward, Children
<1>5. Accepted'
  BY <1>1, <1>2 DEF Accepted, Onward
<1>6. CASE phase' = "error"
  <2>1. LevelByLevel' /\ FoldersDone' /\ Accounted'
    BY <1>6 DEF LevelByLevel, FoldersDone, Accounted
  <2> QED BY <1>3, <1>4, <1>5, <2>1 DEF PushInv
<1>7. CASE phase = "others" /\ phase' = "done"
  <2>1. \A i \in Items : at[i] = "done"
    BY <1>1, <1>7 DEF PushInv, FoldersDone, Batch, Items
  <2>2. LevelByLevel' /\ FoldersDone' /\ Accounted'
    BY <1>1, <1>7, <2>1 DEF PushInv, DoneHasOutcome, LevelByLevel, FoldersDone, Accounted, Items
  <2> QED BY <1>3, <1>4, <1>5, <2>2 DEF PushInv
<1>8. CASE phase = "folders" /\ Children(level) = {} /\ phase' = IF Counted = Items THEN "done" ELSE "others"
  <2>1. \A f \in Folders : at[f] = "done"
    BY <1>1, <1>8, AllReached DEF Batch
  <2>2. FoldersDone' /\ LevelByLevel'
    BY <1>1, <1>8, <2>1 DEF FoldersDone, LevelByLevel
  <2>3. Accounted'
    BY <1>1, <1>8 DEF Accounted, Counted
  <2> QED BY <1>3, <1>4, <1>5, <2>2, <2>3 DEF PushInv
<1>9. CASE phase = "folders" /\ phase' = "folders" /\ level' = Children(level)
  <2>1. \A f \in level : at[f] = "done"
    BY <1>1, <1>9 DEF Batch
  <2>2. \A f \in Folders : at[f] \in {"wait", "done"}
    BY <1>9, <2>1 DEF PushInv, LevelByLevel
  <2>3. \A f \in level' : at[parent[f]] = "done"
    BY <1>9, <2>1 DEF Children
  <2>4. ASSUME NEW f \in Folders, Waiting(f)'
        PROVE  parent[f] \in Folders /\ (Waiting(parent[f])' \/ parent[f] \in level')
    <3>1. at[f] = "wait" /\ f \notin Children(level)
      BY <1>1, <1>9, <2>4 DEF Waiting
    <3>2. Waiting(f)
      BY <2>1, <3>1 DEF Waiting
    <3>3. parent[f] \in Folders /\ Waiting(parent[f])
      BY <1>9, <3>1, <3>2 DEF PushInv, LevelByLevel, Children
    <3> QED BY <1>1, <3>3 DEF Waiting
  <2>5. LevelByLevel'
    BY <1>1, <1>9, <2>2, <2>3, <2>4 DEF LevelByLevel
  <2>6. FoldersDone' /\ Accounted'
    BY <1>9 DEF FoldersDone, Accounted
  <2> QED BY <1>3, <1>4, <1>5, <2>5, <2>6 DEF PushInv
<1> QED BY <1>1, <1>6, <1>7, <1>8, <1>9 DEF Onward

-----------------------------------------------------------------------------
LEMMA PushInvInit == Init => PushInv
<1> SUFFICES ASSUME Init PROVE PushInv
  OBVIOUS
<1>1. Typed
  BY DEF Init, Typed, Place, Outcome
<1>2. /\ phase = "sort"
      /\ \A i \in Items : at[i] = "wait"
  BY DEF Init
<1>3. ghost = {}
  BY DEF Init
<1> QED BY <1>1, <1>2, <1>3 DEF PushInv, Accepted, CyclesPushNothing, ParentFirst, LevelByLevel, FoldersDone,
                         DoneHasOutcome, Accounted, SentNotBlocked, Started

LEMMA PushInvNext == PushInv /\ [Next]_vars => PushInv'
<1> SUFFICES ASSUME PushInv, [Next]_vars PROVE PushInv'
  OBVIOUS
<1>1. CASE Sort
  BY <1>1, SortKeeps
<1>2. CASE NextBatch
  BY <1>2, NextBatchKeeps
<1>3. ASSUME NEW i \in Items, Push1(i)
      PROVE  PushInv'
  BY <1>3, PushAdvances, AdvanceKeeps
<1>4. ASSUME UNCHANGED <<request, parent, kind, key, phase, level, at, result, ghost>>
      PROVE  PushInv'
  BY <1>4 DEF PushInv, Typed, Accepted, CyclesPushNothing, ParentFirst, LevelByLevel, FoldersDone,
              DoneHasOutcome, Accounted, SentNotBlocked, Started, Waiting, HaveLevels, Blocked
<1>5. CASE Interrupt
  BY <1>4, <1>5 DEF Interrupt, given, run
<1>6. CASE UNCHANGED vars
  BY <1>4, <1>6 DEF vars, given, run
<1>7. ASSUME NEW i \in Items, ApplyGhost(i)
      PROVE  PushInv'
  BY <1>4, <1>7 DEF ApplyGhost, given
<1> QED BY <1>1, <1>2, <1>3, <1>5, <1>6, <1>7 DEF Next

LEMMA PushInvAlways == Spec => []PushInv
BY PushInvInit, PushInvNext, PTL DEF Spec

\* Folders come before what is in them, and all folders before everything else
\* (pushFolders, Push), whatever the hierarchy and the number of goroutines.
THEOREM FoldersFirst == Spec => []ParentFirst
<1>1. PushInv => ParentFirst
  BY DEF PushInv
<1> QED BY <1>1, PushInvAlways, PTL

\* A request whose folders have a cycle pushes nothing (SortFoldersByDependency).
THEOREM CyclesRefused == Spec => []CyclesPushNothing
<1>1. PushInv => CyclesPushNothing
  BY DEF PushInv
<1> QED BY <1>1, PushInvAlways, PTL

\* A push that ends without an error has forgotten no resource (Push).
THEOREM NothingForgotten == Spec => []Accounted
<1>1. PushInv => Accounted
  BY DEF PushInv
<1> QED BY <1>1, PushInvAlways, PTL

\* A dry run changes nothing on the target (dryRunGuard, typedAdapter).
THEOREM DryRunIsDry == Spec => DryRunWritesNothing
<1>1. PushInv /\ [Next]_vars => [request.dry => UNCHANGED target]_vars
  <2> SUFFICES ASSUME PushInv, Next, request.dry
               PROVE  UNCHANGED target
    OBVIOUS
  <2>1. ASSUME NEW i \in Items, Apply(i) \/ ApplyGhost(i)
        PROVE  UNCHANGED target
    <3>1. ~Blocked(i) /\ TakeEffect(i)
      BY <2>1 DEF PushInv, SentNotBlocked, Apply, ApplyGhost
    <3> QED BY <3>1 DEF TakeEffect, Takes
  <2>2. ASSUME NEW i \in Items, Push1(i)
        PROVE  UNCHANGED target
    BY <2>1, <2>2 DEF Push1, Start, Get, List, Match, Send, Retry, Refuse, Answer
  <2> QED BY <2>1, <2>2 DEF Next, Sort, NextBatch, Interrupt
<1> QED BY <1>1, PushInvAlways, PTL DEF Spec, DryRunWritesNothing

-----------------------------------------------------------------------------
List0  == [Objects -> Keys \cup {None}]
TypeInv ==
    /\ TypeOK
    /\ key \in [Items -> Keys \cup {None}] /\ oldKey \in List0
    /\ \A f \in Folders : key[f] = None
    /\ fetched \in [Items -> List0 \cup {None}]

LEMMA ListingTyped ==
    ASSUME TypeInv
    PROVE  Listing \in List0
<1>1. ASSUME NEW o \in Objects PROVE KeyOn(o) \in Keys \cup {None}
  BY DEF KeyOn, TypeInv, TypeOK, List0, Items, Objects
<1> QED BY <1>1 DEF Listing, List0

LEMMA EffectTyped ==
    ASSUME TypeInv, NEW i \in Items, TakeEffect(i)
    PROVE  /\ to' \in [Items -> Objects \cup {None}]
           /\ target' \in [Objects -> Items \cup {Old, None}]
           /\ late' \subseteq Items
<1>1. i \in Objects
  BY DEF Objects
<1> QED BY <1>1 DEF TakeEffect, TypeInv, TypeOK

LEMMA TypeInvNext == TypeInv /\ [Next]_vars => TypeInv'
<1> SUFFICES ASSUME TypeInv, [Next]_vars PROVE TypeInv'
  OBVIOUS
<1> USE DEF TypeInv, TypeOK, List0, given, run
<1>1. CASE Sort
  BY <1>1 DEF Sort, Roots
<1>2. CASE NextBatch
  BY <1>2 DEF NextBatch, Onward, Children
<1>3. CASE Interrupt
  BY <1>3 DEF Interrupt
<1>4. ASSUME NEW i \in Items, Push1(i)
      PROVE  TypeInv'
  <2> USE DEF Go, Return, Fail
  <2>1. CASE Start(i)
    BY <2>1 DEF Start
  <2>2. CASE Get(i)
    <3>1. /\ UNCHANGED <<given, phase, level, fetched, cache, target, ghost, late>>
          /\ at' \in [Items -> Place]
      BY <2>2 DEF Get, Place
    <3>2. to' \in [Items -> Objects \cup {None}]
      BY <2>2 DEF Get, Objects
    <3>3. result' \in [Items -> Outcome]
      BY <2>2 DEF Get, Outcome
    <3>4. cancelled' \in BOOLEAN
      BY <2>2 DEF Get
    <3> QED BY <3>1, <3>2, <3>3, <3>4 DEF Place, Outcome
  <2>3. CASE List(i)
    <3>1. \/ UNCHANGED fetched
          \/ fetched' = [fetched EXCEPT ![i] = Listing]
      BY <2>3 DEF List
    <3>2. fetched' \in [Items -> List0 \cup {None}]
      BY <3>1, ListingTyped
    <3>3. /\ UNCHANGED <<request, parent, kind, key, oldKey, phase, level, to, cache, target, ghost, late>>
          /\ at' \in [Items -> Place] /\ result' \in [Items -> Outcome] /\ cancelled' \in BOOLEAN
      BY <2>3 DEF List, Place, Outcome
    <3> HIDE DEF List0
    <3> QED BY <3>2, <3>3 DEF List0, Place, Outcome
  <2>4. CASE Match(i)
    <3>1. /\ UNCHANGED <<request, parent, kind, key, oldKey, phase, level, fetched, result, cancelled, target, ghost, late>>
          /\ at' \in [Items -> Place] /\ cache' \in List0 \cup {None}
      BY <2>4 DEF Match, Place
    <3>2. to' \in [Items -> Objects \cup {None}]
      BY <2>4 DEF Match, Matches
    <3> QED BY <3>1, <3>2 DEF Place
  <2>5. CASE Send(i)
    BY <2>5 DEF Send
  <2>6. CASE Apply(i)
    <3>1. /\ UNCHANGED <<request, parent, kind, key, oldKey, phase, level, fetched, result, cache, cancelled, ghost>>
          /\ at' \in [Items -> Place]
      BY <2>6 DEF Apply, Place
    <3>2. TakeEffect(i)
      BY <2>6 DEF Apply
    <3> QED BY <3>1, <3>2, EffectTyped DEF Place
  <2>7. CASE Refuse(i)
    BY <2>7 DEF Refuse
  <2>8. CASE Answer(i)
    BY <2>8 DEF Answer
  <2>9. CASE Retry(i)
    BY <2>9 DEF Retry
  <2> QED BY <1>4, <2>1, <2>2, <2>3, <2>4, <2>5, <2>6, <2>7, <2>8, <2>9 DEF Push1
<1>5. CASE UNCHANGED vars
  BY <1>5 DEF vars
<1>6. ASSUME NEW i \in Items, ApplyGhost(i)
      PROVE  TypeInv'
  <2>1. UNCHANGED <<request, parent, kind, key, oldKey, phase, level, at, fetched, result, cache, cancelled, ghost>>
    BY <1>6 DEF ApplyGhost
  <2>2. TakeEffect(i)
    BY <1>6 DEF ApplyGhost
  <2> QED BY <2>1, <2>2, EffectTyped
<1> QED BY <1>1, <1>2, <1>3, <1>4, <1>5, <1>6 DEF Next

LEMMA TypeInvInit == Init => TypeInv
<1> SUFFICES ASSUME Init PROVE TypeInv
  OBVIOUS
<1>1. /\ request \in [stop : BOOLEAN, dry : BOOLEAN, include : BOOLEAN]
      /\ target \in [Objects -> Items \cup {Old, None}]
      /\ key \in [Items -> Keys \cup {None}] /\ oldKey \in List0
      /\ \A f \in Folders : key[f] = None
  BY DEF Init, List0
<1>2. /\ phase \in {"sort", "folders", "others", "done", "error"} /\ level \subseteq Folders
      /\ at \in [Items -> Place] /\ result \in [Items -> Outcome]
      /\ cancelled \in BOOLEAN /\ ghost \subseteq Items /\ late \subseteq Items
  BY DEF Init, Place, Outcome
<1>3. /\ to \in [Items -> Objects \cup {None}] /\ cache = None
      /\ fetched \in [Items -> List0 \cup {None}] /\ \A i \in Items : fetched[i] = None
  BY DEF Init
<1> QED BY <1>1, <1>2, <1>3 DEF TypeInv, TypeOK, Place, Outcome

\* The variables keep their types.
THEOREM TypesHold == Spec => []TypeOK
<1>1. TypeInv => TypeOK
  BY DEF TypeInv
<1> QED BY <1>1, TypeInvInit, TypeInvNext, PTL DEF Spec

-----------------------------------------------------------------------------
\* The folders below the level being pushed wait, and are not in it themselves.
LevelsApart ==
    phase = "folders" => \A f \in Children(level) : at[f] = "wait" /\ f \notin level

\* With --on-error abort, no batch follows one with a failure: a folder that failed
\* is in the level being pushed, or the push has ended.
NoFailureBehind ==
    request.stop /\ phase \in {"folders", "others", "done"} =>
        \A f \in Folders : result[f] = "failed" => phase = "folders" /\ f \in level

\* So the folder of what has started did not fail, then or since.
FolderNotFailed ==
    request.stop => \A i \in Items : Started(i) /\ parent[i] # None => result[parent[i]] # "failed"

\* What the other outcomes are about; only what has ended has one.
Outcomes ==
    \A i \in Items : /\ at[i] # "done" => result[i] = "none"
                     /\ result[i] = "ignored" => kind[i] = "foreign"
                     /\ result[i] = "skipped" => request.dry

AbortInv == LevelsApart /\ NoFailureBehind /\ FolderNotFailed /\ Outcomes

LEMMA OutcomesKeep ==
    ASSUME PushInv, Outcomes, NEW i \in Items, Push1(i)
    PROVE  Outcomes'
<1>1. UNCHANGED <<request, kind>> /\ result \in [Items -> Outcome] /\ at \in [Items -> Place]
  BY PushAdvances DEF Advance, given, PushInv, Typed
<1>2. at[i] # "done" /\ \A j \in Items : j # i => at'[j] = at[j]
  BY <1>1, PushAdvances DEF Advance
<1>3. \/ UNCHANGED result
      \/ \E outcome : /\ result' = [result EXCEPT ![i] = outcome]
                      /\ at' = [at EXCEPT ![i] = "done"]
                      /\ outcome = "ignored" => kind[i] = "foreign"
                      /\ outcome = "skipped" => request.dry
  BY DEF Push1, Start, Get, List, Match, Send, Apply, Retry, Refuse, Answer, Go, Return, Fail, Blocked
<1>4. CASE UNCHANGED result
  BY <1>1, <1>2, <1>4 DEF Outcomes
<1>5. ASSUME NEW outcome, result' = [result EXCEPT ![i] = outcome], at' = [at EXCEPT ![i] = "done"],
             outcome = "ignored" => kind[i] = "foreign",
             outcome = "skipped" => request.dry
      PROVE  Outcomes'
  BY <1>1, <1>2, <1>5 DEF Outcomes
<1> QED BY <1>3, <1>4, <1>5

LEMMA AbortAdvance ==
    ASSUME PushInv, AbortInv, NEW i \in Items, Push1(i)
    PROVE  AbortInv'
<1> USE ResourcePushAssumption
<1>1. PICK place \in Place \ {"wait"} :
        /\ at' = [at EXCEPT ![i] = place]
        /\ \/ place # "done" /\ UNCHANGED result
           \/ \E outcome \in Outcome \ {"none"} : result' = [result EXCEPT ![i] = outcome]
  BY PushAdvances DEF Advance
<1>2. /\ UNCHANGED <<request, parent, kind, phase, level>>
      /\ at[i] # "done" /\ (at[i] = "wait" => i \in Batch)
  BY PushAdvances DEF Advance, given
<1>3. /\ \A j \in Items : j # i => at'[j] = at[j] /\ result'[j] = result[j]
      /\ at'[i] # "wait"
      /\ \A j \in Items : parent[j] \in Folders \cup {None}
      /\ level \subseteq Folders /\ Folders \subseteq Items
  BY <1>1 DEF PushInv, Typed, Items
<1>4. CASE at[i] = "wait" /\ phase = "folders" /\ i \in level
  <2>1. i \notin Children(level)
    BY <1>4 DEF AbortInv, LevelsApart
  <2>2. LevelsApart'
    BY <1>2, <1>3, <2>1 DEF AbortInv, LevelsApart, Children
  <2>3. parent[i] # None => parent[i] \in Folders /\ parent[i] \notin level
    BY <1>3, <1>4, <2>1 DEF Children
  <2>4. NoFailureBehind'
    BY <1>2, <1>3, <1>4 DEF AbortInv, NoFailureBehind
  <2>5. ASSUME request.stop, NEW j \in Items, at'[j] # "wait", parent[j] # None
        PROVE  result'[parent[j]] # "failed"
    <3>1. parent[j] # i
      <4>1. j # i => at[j] # "wait"
        BY <1>3, <2>5
      <4>2. CASE j # i
        BY <1>2, <2>5, <4>1, <4>2 DEF PushInv, ParentFirst, Started
      <4>3. CASE j = i
        BY <1>4, <2>3, <2>5, <4>3
      <4> QED BY <4>2, <4>3
    <3>2. parent[j] \in Items
      BY <1>3, <2>5
    <3>3. result[parent[j]] # "failed"
      <4>1. CASE j = i
        BY <1>4, <2>3, <2>5, <4>1 DEF AbortInv, NoFailureBehind
      <4>2. CASE j # i
        BY <1>3, <2>5, <4>2 DEF AbortInv, FolderNotFailed, Started
      <4> QED BY <4>1, <4>2
    <3> QED BY <1>3, <3>1, <3>2, <3>3
  <2>6. FolderNotFailed'
    BY <1>2, <2>5 DEF FolderNotFailed, Started
  <2> QED BY <2>2, <2>4, <2>6, OutcomesKeep DEF AbortInv
<1>5. CASE at[i] = "wait" /\ phase = "others" /\ i \in Others
  <2>1. i \notin Folders
    BY <1>5
  <2>2. LevelsApart' /\ NoFailureBehind'
    BY <1>2, <1>3, <1>5, <2>1 DEF AbortInv, LevelsApart, NoFailureBehind
  <2>3. ASSUME request.stop, NEW j \in Items, at'[j] # "wait", parent[j] # None
        PROVE  result'[parent[j]] # "failed"
    <3>1. parent[j] \in Folders /\ parent[j] # i /\ parent[j] \in Items
      BY <1>3, <2>1, <2>3
    <3>2. result[parent[j]] # "failed"
      BY <1>5, <2>3, <3>1 DEF AbortInv, NoFailureBehind
    <3> QED BY <1>3, <3>1, <3>2
  <2>4. FolderNotFailed'
    BY <1>2, <2>3 DEF FolderNotFailed, Started
  <2> QED BY <2>2, <2>4, OutcomesKeep DEF AbortInv
<1>6. CASE at[i] # "wait"
  <2>1. i \in Folders => phase \notin {"others", "done"} /\ (phase = "folders" => i \in level)
    BY <1>2, <1>6 DEF PushInv, FoldersDone, LevelByLevel
  <2>2. NoFailureBehind'
    BY <1>2, <1>3, <2>1 DEF AbortInv, NoFailureBehind
  <2>3. LevelsApart'
    BY <1>2, <1>3, <1>6 DEF AbortInv, LevelsApart, Children
  <2>4. ASSUME request.stop, NEW j \in Items, at'[j] # "wait", parent[j] # None
        PROVE  result'[parent[j]] # "failed"
    <3>1. at[j] # "wait"
      BY <1>3, <1>6, <2>4
    <3>2. parent[j] # i
      BY <1>2, <2>4, <3>1 DEF PushInv, ParentFirst, Started
    <3>3. result[parent[j]] # "failed" /\ parent[j] \in Items
      BY <1>3, <2>4, <3>1 DEF AbortInv, FolderNotFailed, Started
    <3> QED BY <1>3, <3>2, <3>3
  <2>5. FolderNotFailed'
    BY <1>2, <2>4 DEF FolderNotFailed, Started
  <2> QED BY <2>2, <2>3, <2>5, OutcomesKeep DEF AbortInv
<1>7. at[i] = "wait" => (phase = "folders" /\ i \in level) \/ (phase = "others" /\ i \in Others)
  BY <1>2 DEF Batch, PushInv, Typed
<1> QED BY <1>4, <1>5, <1>6, <1>7

LEMMA AbortNext == PushInv /\ AbortInv /\ [Next]_vars => AbortInv'
<1> SUFFICES ASSUME PushInv, AbortInv, [Next]_vars PROVE AbortInv'
  OBVIOUS
<1> USE ResourcePushAssumption
<1>1. ASSUME NEW i \in Items, Push1(i)
      PROVE  AbortInv'
  BY <1>1, AbortAdvance
<1>2. CASE Sort
  <2>1. /\ UNCHANGED <<request, parent, kind, at, result>>
        /\ (phase' = "folders" /\ level' = Roots) \/ phase' = "error"
    BY <1>2 DEF Sort, given, run
  <2>2. \A i \in Items : at[i] = "wait"
    BY <1>2 DEF Sort, PushInv, Accepted
  <2>3. LevelsApart'
    BY <2>1, <2>2 DEF LevelsApart, Children, Roots, Items, Objects
  <2>4. \A i \in Items : result[i] = "none"
    BY <2>2 DEF AbortInv, Outcomes
  <2>5. NoFailureBehind'
    BY <2>1, <2>4 DEF NoFailureBehind, Items
  <2>6. FolderNotFailed' /\ Outcomes'
    BY <2>1, <2>2 DEF AbortInv, FolderNotFailed, Outcomes, Started
  <2> QED BY <2>3, <2>5, <2>6 DEF AbortInv
<1>3. CASE NextBatch
  <2>1. /\ UNCHANGED <<request, parent, kind, at, result>>
        /\ phase \in {"folders", "others"}
        /\ \A i \in Batch : at[i] = "done"
        /\ phase' = "error" \/ (~Stopped /\ Onward)
    BY <1>3 DEF NextBatch, given, run
  <2>2. FolderNotFailed' /\ Outcomes'
    BY <2>1 DEF AbortInv, FolderNotFailed, Outcomes, Started
  <2>3. CASE phase' = "error"
    BY <2>2, <2>3 DEF AbortInv, LevelsApart, NoFailureBehind
  <2>4. CASE ~Stopped /\ Onward
    <3>1. request.stop => \A f \in Folders : result[f] # "failed"
      BY <2>1, <2>4 DEF AbortInv, NoFailureBehind, Stopped, Batch
    <3>2. NoFailureBehind'
      BY <2>1, <3>1 DEF NoFailureBehind
    <3>3. LevelsApart'
      <4> SUFFICES ASSUME phase' = "folders", NEW f \in Folders, parent[f] \in level'
                   PROVE  at[f] = "wait" /\ f \notin level'
        BY <2>1 DEF LevelsApart, Children
      <4>1. phase = "folders" /\ level' = Children(level)
        BY <2>1, <2>4 DEF Onward
      <4>2. parent[f] \in Folders /\ at[parent[f]] = "wait"
        BY <4>1 DEF Children, AbortInv, LevelsApart
      <4>3. at[f] = "wait"
        <5>1. f \in Items /\ parent[f] # None /\ at[parent[f]] # "done"
          BY <4>2 DEF Items, Objects
        <5> QED BY <5>1 DEF PushInv, ParentFirst, Started
      <4>4. parent[f] \notin level
        BY <2>1, <4>1, <4>2 DEF Batch
      <4> QED BY <4>1, <4>3, <4>4 DEF Children
    <3> QED BY <2>2, <3>2, <3>3 DEF AbortInv
  <2> QED BY <2>1, <2>3, <2>4
<1>4. CASE Interrupt
  BY <1>4 DEF Interrupt, given, run, AbortInv, LevelsApart, NoFailureBehind, FolderNotFailed, Outcomes, Started, Children
<1>5. CASE UNCHANGED vars
  BY <1>5 DEF vars, given, run, AbortInv, LevelsApart, NoFailureBehind, FolderNotFailed, Outcomes, Started, Children
<1>6. ASSUME NEW i \in Items, ApplyGhost(i)
      PROVE  AbortInv'
  BY <1>6 DEF ApplyGhost, given, AbortInv, LevelsApart, NoFailureBehind, FolderNotFailed, Outcomes, Started, Children
<1> QED BY <1>1, <1>2, <1>3, <1>4, <1>5, <1>6 DEF Next

-----------------------------------------------------------------------------
\* A list tells the keys of what the target had before, and lists what exists.
Tells(list) ==
    \A o \in Objects : /\ target[o] = Old => list[o] = oldKey[o]
                       /\ list[o] # None => target[o] # None

ListsTell ==
    /\ cache # None => Tells(cache)
    /\ \A i \in Items : fetched[i] # None => Tells(fetched[i])

\* Only a resource with a natural key is looked up by it, in a list that was fetched.
LookedUp(i) ==
    /\ at[i] \in {"list", "match"} => key[i] # None
    /\ at[i] = "match" => cache # None \/ fetched[i] # None
    /\ key[i] = None => to[i] \in {None, i}

\* What is about to be updated exists, and what was written is there; a resource for
\* which no object is known is not on the target.
OnTarget(i) ==
    /\ to[i] # None => target[to[i]] # None
    /\ Wrote(i) /\ ~request.dry => to[i] # None
    /\ to[i] = None => \A o \in Objects : target[o] # i

\* What is about to be created, or may still be, has no match on the target.
NoMatch(i) ==
    (at[i] \in {"write", "sent"} \/ i \in ghost) /\ key[i] # None /\ to[i] = None =>
        \A o \in Objects : target[o] = Old => oldKey[o] # key[i]

ObjectInv ==
    /\ ListsTell
    /\ \A i \in Items : LookedUp(i) /\ OnTarget(i) /\ NoMatch(i)

\* What is on the target stays, under its own content or that of the request.
LEMMA TargetGrows ==
    ASSUME TypeInv, [Next]_vars
    PROVE  /\ UNCHANGED given
           /\ \A o \in Objects : /\ target[o] # None => target'[o] # None
                                 /\ target'[o] = Old => target[o] = Old
<1> USE ResourcePushAssumption DEF given, run
<1>1. CASE Sort \/ NextBatch \/ Interrupt \/ UNCHANGED vars
  BY <1>1 DEF Sort, NextBatch, Interrupt, vars
<1>2. ASSUME NEW i \in Items, Apply(i) \/ ApplyGhost(i)
      PROVE  /\ UNCHANGED given
             /\ \A o \in Objects : /\ target[o] # None => target'[o] # None
                                   /\ target'[o] = Old => target[o] = Old
  <2>1. i # None /\ i # Old /\ target \in [Objects -> Items \cup {Old, None}]
    BY DEF TypeInv, TypeOK, Objects
  <2>2. \/ UNCHANGED target
        \/ \E p : target' = [target EXCEPT ![p] = i]
    BY <1>2 DEF Apply, ApplyGhost, TakeEffect
  <2>3. UNCHANGED given
    BY <1>2 DEF Apply, ApplyGhost
  <2> QED BY <2>1, <2>2, <2>3
<1>3. ASSUME NEW i \in Items, Push1(i), ~Apply(i)
      PROVE  UNCHANGED <<given, target>>
  BY <1>3 DEF Push1, Start, Get, List, Match, Send, Retry, Refuse, Answer
<1> QED BY <1>1, <1>2, <1>3 DEF Next

\* A list is fetched as it is on the target, and the cache is one that was fetched.
LEMMA ListSteps ==
    ASSUME TypeInv, [Next]_vars
    PROVE  /\ \A i \in Items : fetched'[i] = fetched[i] \/ fetched'[i] = Listing
           /\ cache' = cache \/ \E i \in Items : cache' = fetched[i]
<1>1. \A i \in Items : fetched'[i] = fetched[i] \/ fetched'[i] = Listing
  <2>1. ASSUME NEW i \in Items, List(i)
        PROVE  \A j \in Items : fetched'[j] = fetched[j] \/ fetched'[j] = Listing
    BY <2>1 DEF List, TypeInv
  <2>2. ASSUME NEW i \in Items, Push1(i), ~List(i)
        PROVE  UNCHANGED fetched
    BY <2>2 DEF Push1, Start, Get, Match, Send, Apply, Retry, Refuse, Answer
  <2> QED BY <2>1, <2>2 DEF Next, Sort, NextBatch, Interrupt, ApplyGhost, vars, run
<1>2. cache' = cache \/ \E i \in Items : cache' = fetched[i]
  <2>1. ASSUME NEW i \in Items, Push1(i), ~Match(i)
        PROVE  UNCHANGED cache
    BY <2>1 DEF Push1, Start, Get, List, Send, Apply, Retry, Refuse, Answer
  <2>2. ASSUME NEW i \in Items, Match(i)
        PROVE  cache' = cache \/ cache' = fetched[i]
    BY <2>2 DEF Match
  <2> QED BY <2>1, <2>2 DEF Next, Sort, NextBatch, Interrupt, ApplyGhost, vars
<1> QED BY <1>1, <1>2

LEMMA ListsTellNext ==
    ASSUME TypeInv, ListsTell, [Next]_vars
    PROVE  ListsTell'
<1>1. ASSUME NEW list, Tells(list)
      PROVE  \A o \in Objects : /\ target'[o] = Old => list[o] = oldKey'[o]
                                /\ list[o] # None => target'[o] # None
  BY <1>1, TargetGrows DEF Tells, given
<1>2. Tells(Listing)
  BY ResourcePushAssumption DEF Tells, Listing, KeyOn, Objects
<1>3. /\ \A i \in Items : fetched'[i] = fetched[i] \/ fetched'[i] = Listing
      /\ cache' = cache \/ \E i \in Items : cache' = fetched[i]
  BY ListSteps
<1>5. cache' # None => Tells(cache')
  BY <1>3 DEF ListsTell
<1>6. \A i \in Items : fetched'[i] # None => Tells(fetched'[i])
  BY <1>2, <1>3 DEF ListsTell
<1>7. cache' # None => Tells(cache)'
  BY <1>1, <1>5 DEF Tells
<1>8. ASSUME NEW i \in Items, fetched'[i] # None
      PROVE  Tells(fetched[i])'
  BY <1>1, <1>6, <1>8 DEF Tells
<1> QED BY <1>7, <1>8 DEF ListsTell

\* What the other goroutines do leaves a resource as it was.
LEMMA OthersKeep ==
    ASSUME TypeInv, ObjectInv, [Next]_vars, NEW j \in Items, j \in ghost' => j \in ghost,
           at'[j] = at[j], to'[j] = to[j], result'[j] = result[j], fetched'[j] = fetched[j],
           cache # None => cache' # None,
           \A o \in Objects : target'[o] = j => target[o] = j
    PROVE  LookedUp(j)' /\ OnTarget(j)' /\ NoMatch(j)'
<1>1. /\ UNCHANGED <<request, key, oldKey>>
      /\ \A o \in Objects : /\ target[o] # None => target'[o] # None
                            /\ target'[o] = Old => target[o] = Old
  BY TargetGrows DEF given
<1>2. LookedUp(j) /\ OnTarget(j) /\ NoMatch(j)
  BY DEF ObjectInv
<1>3. to[j] \in Objects \cup {None}
  BY DEF TypeInv, TypeOK
<1>4. LookedUp(j)'
  BY <1>1, <1>2 DEF LookedUp
<1>5. OnTarget(j)'
  BY <1>1, <1>2, <1>3 DEF OnTarget, Wrote
<1>6. NoMatch(j)'
  BY <1>1, <1>2 DEF NoMatch
<1> QED BY <1>4, <1>5, <1>6

\* A write that takes effect, of a goroutine that waits for it or has given it up.
LEMMA EffectKeeps ==
    ASSUME TypeInv, ObjectInv, NEW i \in Items, TakeEffect(i),
           UNCHANGED <<request, key, oldKey, fetched, cache, result, ghost>>,
           \/ UNCHANGED at
           \/ at[i] = "sent" /\ at' = [at EXCEPT ![i] = "answer"]
    PROVE  /\ LookedUp(i)' /\ OnTarget(i)' /\ NoMatch(i)'
           /\ cache # None => cache' # None
           /\ \A j \in Items \ {i} :
                 /\ j \in ghost' => j \in ghost
                 /\ at'[j] = at[j] /\ to'[j] = to[j] /\ result'[j] = result[j] /\ fetched'[j] = fetched[j]
                 /\ \A o \in Objects : target'[o] = j => target[o] = j
<1> DEFINE Rest == \A j \in Items \ {i} :
                 /\ j \in ghost' => j \in ghost
                 /\ at'[j] = at[j] /\ to'[j] = to[j] /\ result'[j] = result[j] /\ fetched'[j] = fetched[j]
                 /\ \A o \in Objects : target'[o] = j => target[o] = j
<1> USE ResourcePushAssumption
<1>1. /\ at \in [Items -> Place] /\ target \in [Objects -> Items \cup {Old, None}]
      /\ to \in [Items -> Objects \cup {None}]
      /\ i \in Objects /\ i # None /\ None \notin Objects /\ Old \notin Items
  BY DEF TypeInv, TypeOK, Place, Objects
<1>2. LookedUp(i) /\ OnTarget(i) /\ NoMatch(i)
  BY DEF ObjectInv
<1>3. at'[i] = at[i] \/ (at[i] = "sent" /\ at'[i] = "answer")
  BY <1>1
<1>4. CASE ~Takes(i)
  <2>1. UNCHANGED <<target, to>> /\ request.dry
    BY <1>4 DEF TakeEffect, Takes
  <2>2. Rest
    BY <1>1, <2>1
  <2> QED BY <1>2, <1>3, <2>1, <2>2 DEF LookedUp, OnTarget, NoMatch
<1>5. CASE Takes(i)
  <2> DEFINE p == IF to[i] = None THEN i ELSE to[i]
  <2>1. target' = [target EXCEPT ![p] = i] /\ to' = [to EXCEPT ![i] = p]
    BY <1>1, <1>5 DEF TakeEffect
  <2>2. p \in Objects /\ p # None /\ (to[i] # None => p = to[i]) /\ (to[i] = None => p = i)
    BY <1>1
  <2> HIDE DEF p
  <2>3. to'[i] = p /\ target'[p] = i
    BY <1>1, <2>1, <2>2
  <2>4. Rest
    BY <1>1, <2>1
  <2>5. LookedUp(i)' /\ NoMatch(i)'
    BY <1>2, <1>3, <2>2, <2>3 DEF LookedUp, NoMatch
  <2>6. OnTarget(i)'
    BY <1>1, <2>2, <2>3 DEF OnTarget
  <2> QED BY <2>4, <2>5, <2>6
<1> QED BY <1>4, <1>5

LEMMA ItemAdvances ==
    ASSUME TypeInv, PushInv, ObjectInv, NEW i \in Items, Push1(i)
    PROVE  /\ LookedUp(i)' /\ OnTarget(i)' /\ NoMatch(i)'
           /\ cache # None => cache' # None
           /\ \A j \in Items \ {i} :
                 /\ j \in ghost' => j \in ghost
                 /\ at'[j] = at[j] /\ to'[j] = to[j] /\ result'[j] = result[j] /\ fetched'[j] = fetched[j]
                 /\ \A o \in Objects : target'[o] = j => target[o] = j
<1> DEFINE Rest == \A j \in Items \ {i} :
                 /\ j \in ghost' => j \in ghost
                 /\ at'[j] = at[j] /\ to'[j] = to[j] /\ result'[j] = result[j] /\ fetched'[j] = fetched[j]
                 /\ \A o \in Objects : target'[o] = j => target[o] = j
<1> USE ResourcePushAssumption DEF given
<1>1. /\ at \in [Items -> Place] /\ result \in [Items -> Outcome] /\ target \in [Objects -> Items \cup {Old, None}]
      /\ to \in [Items -> Objects \cup {None}] /\ fetched \in [Items -> List0 \cup {None}]
      /\ i \in Objects /\ i # None /\ None \notin Objects /\ Old \notin Items
  BY DEF TypeInv, TypeOK, Place, Outcome, Objects
<1>2. LookedUp(i) /\ OnTarget(i) /\ NoMatch(i) /\ ListsTell
  BY DEF ObjectInv
<1>3. CASE Start(i)
  <2>1. /\ UNCHANGED <<request, key, oldKey, to, fetched, cache, target, ghost>>
        /\ at[i] = "wait"
        /\ \/ at' = [at EXCEPT ![i] = "get"] /\ UNCHANGED result
           \/ /\ at' = [at EXCEPT ![i] = "done"]
              /\ \E o \in {"failed", "ignored"} : result' = [result EXCEPT ![i] = o]
    BY <1>3 DEF Start, Go, Return, Fail
  <2>2. at'[i] \in {"get", "done"} /\ Rest /\ (Wrote(i)' => Wrote(i))
    BY <1>1, <2>1 DEF Wrote
  <2>3. LookedUp(i)' /\ NoMatch(i)'
    BY <1>2, <2>1, <2>2 DEF LookedUp, NoMatch
  <2>4. OnTarget(i)'
    BY <1>2, <2>1, <2>2 DEF OnTarget
  <2> QED BY <2>1, <2>2, <2>3, <2>4
<1>4. CASE Get(i)
  <2>1. /\ UNCHANGED <<request, key, oldKey, fetched, cache, target, ghost>>
        /\ at[i] = "get"
        /\ \/ /\ at' = [at EXCEPT ![i] = "done"] /\ UNCHANGED to
              /\ result' = [result EXCEPT ![i] = "failed"]
           \/ /\ at' = [at EXCEPT ![i] = "write"] /\ to' = [to EXCEPT ![i] = i]
              /\ target[i] # None /\ UNCHANGED result
           \/ /\ at' = [at EXCEPT ![i] = "write"] /\ key[i] = None /\ UNCHANGED <<to, result>>
           \/ /\ at' = [at EXCEPT ![i] = "list"] /\ key[i] # None /\ UNCHANGED <<to, result>>
    BY <1>4 DEF Get, Go, Return, Fail
  <2>2. /\ Rest /\ at'[i] \in {"done", "write", "list"} /\ (Wrote(i)' => Wrote(i))
        /\ at'[i] = "write" => to'[i] = i \/ key[i] = None
        /\ at'[i] = "list" => key[i] # None
        /\ to'[i] = to[i] \/ (to'[i] = i /\ target[i] # None)
    BY <1>1, <2>1 DEF Wrote
  <2>3. LookedUp(i)' /\ NoMatch(i)'
    BY <1>1, <1>2, <2>1, <2>2 DEF LookedUp, NoMatch
  <2>4. OnTarget(i)'
    BY <1>1, <1>2, <2>1, <2>2 DEF OnTarget
  <2> QED BY <2>1, <2>2, <2>3, <2>4
<1>5. CASE List(i)
  <2>1. /\ UNCHANGED <<request, key, oldKey, to, cache, target, ghost>>
        /\ at[i] = "list"
        /\ \/ at' = [at EXCEPT ![i] = "match"] /\ cache # None /\ UNCHANGED <<fetched, result>>
           \/ at' = [at EXCEPT ![i] = "match"] /\ fetched' = [fetched EXCEPT ![i] = Listing] /\ UNCHANGED result
           \/ /\ at' = [at EXCEPT ![i] = "done"] /\ UNCHANGED fetched
              /\ result' = [result EXCEPT ![i] = "failed"]
    BY <1>5 DEF List, Go, Return, Fail
  <2>2. Listing # None
    BY ListingTyped DEF List0
  <2>3. /\ Rest /\ at'[i] \in {"done", "match"} /\ (Wrote(i)' => Wrote(i))
        /\ at'[i] = "match" => cache' # None \/ fetched'[i] # None
    BY <1>1, <2>1, <2>2 DEF Wrote
  <2>4. LookedUp(i)' /\ NoMatch(i)'
    BY <1>2, <2>1, <2>3 DEF LookedUp, NoMatch
  <2>5. OnTarget(i)'
    BY <1>2, <2>1, <2>3 DEF OnTarget
  <2> QED BY <2>1, <2>3, <2>4, <2>5
<1>6. CASE Match(i)
  <2>1. /\ UNCHANGED <<request, key, oldKey, fetched, result, target, ghost>>
        /\ at[i] = "match" /\ at' = [at EXCEPT ![i] = "write"]
        /\ cache' = IF cache = None THEN fetched[i] ELSE cache
    BY <1>6 DEF Match, Go
  <2>2. cache' # None /\ key[i] # None /\ Tells(cache')
    BY <1>2, <2>1 DEF LookedUp, ListsTell
  <2>3. \/ UNCHANGED to /\ \A o \in Objects : cache'[o] # key[i]
        \/ \E o \in Objects : cache'[o] = key[i] /\ to' = [to EXCEPT ![i] = o]
    BY <1>6 DEF Match, Matches
  <2>4. Rest /\ at'[i] = "write" /\ (Wrote(i)' => Wrote(i))
    BY <1>1, <2>1, <2>3 DEF Wrote
  <2>5. to'[i] = to[i] \/ (to'[i] \in Objects /\ target[to'[i]] # None /\ to'[i] # None)
    BY <1>1, <2>2, <2>3 DEF Tells
  <2>6. to'[i] = None => \A o \in Objects : cache'[o] # key[i]
    BY <1>1, <2>3
  <2>7. NoMatch(i)'
    BY <2>1, <2>2, <2>6 DEF NoMatch, Tells
  <2>8. LookedUp(i)'
    BY <2>1, <2>2, <2>4 DEF LookedUp
  <2>9. OnTarget(i)'
    BY <1>2, <2>1, <2>4, <2>5 DEF OnTarget
  <2> QED BY <2>2, <2>4, <2>7, <2>8, <2>9
<1>7. CASE Send(i)
  <2>1. /\ UNCHANGED <<request, key, oldKey, to, fetched, cache, target, ghost>>
        /\ at[i] = "write"
        /\ \/ at' = [at EXCEPT ![i] = "sent"] /\ UNCHANGED result
           \/ /\ at' = [at EXCEPT ![i] = "done"]
              /\ \E o \in {"failed", "skipped", "ok"} :
                    result' = [result EXCEPT ![i] = o] /\ (o = "ok" => request.dry)
    BY <1>7 DEF Send, Go, Return, Fail, Blocked
  <2>2. Rest /\ at'[i] \in {"sent", "done"} /\ (Wrote(i)' => Wrote(i) \/ request.dry)
    BY <1>1, <2>1 DEF Wrote
  <2>3. LookedUp(i)' /\ NoMatch(i)'
    BY <1>2, <2>1, <2>2 DEF LookedUp, NoMatch
  <2>4. OnTarget(i)'
    BY <1>2, <2>1, <2>2 DEF OnTarget
  <2> QED BY <2>1, <2>2, <2>3, <2>4
<1>8. CASE Apply(i)
  BY <1>8, EffectKeeps DEF Apply, Go
<1>9. CASE Retry(i)
  <2>1. /\ UNCHANGED <<request, key, oldKey, to, fetched, cache, result, target>>
        /\ at[i] = "sent" /\ at' = [at EXCEPT ![i] = "sent"] /\ ghost' = ghost \cup {i}
    BY <1>9 DEF Retry, Go
  <2>2. Rest /\ at' = at
    BY <1>1, <2>1
  <2> QED BY <1>2, <2>1, <2>2 DEF LookedUp, OnTarget, NoMatch, Wrote
<1>10. CASE Refuse(i) \/ Answer(i)
  <2>1. /\ UNCHANGED <<request, key, oldKey, to, fetched, cache, target>>
        /\ at' = [at EXCEPT ![i] = "done"]
        /\ ghost' = ghost \/ (at[i] = "sent" /\ ghost' = ghost \cup {i})
        /\ \E o : result' = [result EXCEPT ![i] = o] /\ (o = "ok" => at[i] = "answer")
    BY <1>10 DEF Refuse, Answer, Go, Return, Fail
  <2>2. Rest /\ at'[i] = "done" /\ (Wrote(i)' => Wrote(i))
    BY <1>1, <2>1 DEF Wrote
  <2>3. LookedUp(i)' /\ NoMatch(i)'
    BY <1>2, <2>1, <2>2 DEF LookedUp, NoMatch
  <2>4. OnTarget(i)'
    BY <1>2, <2>1, <2>2 DEF OnTarget
  <2> QED BY <2>1, <2>2, <2>3, <2>4
<1> QED BY <1>3, <1>4, <1>5, <1>6, <1>7, <1>8, <1>9, <1>10 DEF Push1

LEMMA ObjectNext == TypeInv /\ PushInv /\ ObjectInv /\ [Next]_vars => ObjectInv'
<1> SUFFICES ASSUME TypeInv, PushInv, ObjectInv, [Next]_vars PROVE ObjectInv'
  OBVIOUS
<1>1. ListsTell'
  BY ListsTellNext DEF ObjectInv
<1>2. ASSUME NEW i \in Items, Push1(i)
      PROVE  \A j \in Items : LookedUp(j)' /\ OnTarget(j)' /\ NoMatch(j)'
  BY <1>2, ItemAdvances, OthersKeep
<1>3. ASSUME UNCHANGED <<at, to, fetched, cache, result, target, ghost>>
      PROVE  \A j \in Items : LookedUp(j)' /\ OnTarget(j)' /\ NoMatch(j)'
  <2>1. ASSUME NEW j \in Items
        PROVE  LookedUp(j)' /\ OnTarget(j)' /\ NoMatch(j)'
    <3>1. /\ at'[j] = at[j] /\ to'[j] = to[j] /\ result'[j] = result[j] /\ fetched'[j] = fetched[j]
          /\ cache # None => cache' # None
          /\ j \in ghost' => j \in ghost
          /\ \A o \in Objects : target'[o] = j => target[o] = j
      BY <1>3
    <3> QED BY <3>1, OthersKeep
  <2> QED BY <2>1
<1>4. UNCHANGED <<at, to, fetched, cache, result, target, ghost>> \/ \E i \in Items : Push1(i) \/ ApplyGhost(i)
  BY DEF Next, Sort, NextBatch, Interrupt, vars, run
<1>5. ASSUME NEW i \in Items, ApplyGhost(i)
      PROVE  \A j \in Items : LookedUp(j)' /\ OnTarget(j)' /\ NoMatch(j)'
  BY <1>5, EffectKeeps, OthersKeep DEF ApplyGhost, given
<1> QED BY <1>1, <1>2, <1>3, <1>4, <1>5 DEF ObjectInv

-----------------------------------------------------------------------------
\* The objects that can be those of a resource.
Own(i) == {i} \cup {s \in Strangers : key[i] # None /\ oldKey[s] = key[i]}

\* No resource of the request has the key of another, or its former one.
OwnKeys ==
    /\ DistinctKeys
    /\ \A i, j \in Items : i # j /\ key[i] # None => key[i] # oldKey[j]

\* A list leads a resource to objects of its own.
Leads(list) ==
    \A i \in Items, o \in Objects : key[i] # None /\ list[o] = key[i] => o \in Own(i)

OnOwn(i) ==
    /\ to[i] # None => to[i] \in Own(i)
    /\ \A o \in Objects : target[o] = i => o \in Own(i)
    /\ Wrote(i) /\ ~request.dry => to[i] # None /\ target[to[i]] = i

OwnInv ==
    OwnKeys =>
        /\ cache # None => Leads(cache)
        /\ \A i \in Items : OnOwn(i) /\ (fetched[i] # None => Leads(fetched[i]))

LEMMA OwnApart ==
    ASSUME OwnKeys, NEW i \in Items, NEW j \in Items, i # j
    PROVE  Own(i) \cap Own(j) = {}
BY ResourcePushAssumption DEF OwnKeys, DistinctKeys, Own, Objects

LEMMA ListingLeads ==
    ASSUME TypeInv, OwnInv, OwnKeys
    PROVE  Leads(Listing)
<1> SUFFICES ASSUME NEW i \in Items, NEW o \in Objects, key[i] # None, KeyOn(o) = key[i]
             PROVE  o \in Own(i)
  BY DEF Leads, Listing
<1>1. target[o] \in Items \cup {Old, None}
  BY DEF TypeInv, TypeOK
<1>2. CASE target[o] = Old
  BY <1>2, ResourcePushAssumption DEF KeyOn, OwnKeys, Own, Objects
<1>3. CASE target[o] = None
  BY <1>3, ResourcePushAssumption DEF KeyOn, Objects
<1>4. CASE target[o] \in Items
  <2>1. key[target[o]] = key[i]
    BY <1>4, ResourcePushAssumption DEF KeyOn, Objects
  <2>2. target[o] = i
    BY <1>4, <2>1 DEF OwnKeys, DistinctKeys
  <2> QED BY <2>2 DEF OwnInv, OnOwn
<1> QED BY <1>1, <1>2, <1>3, <1>4

\* Where a step of a goroutine puts what it writes, and what it leaves there.
LEMMA ToSteps ==
    ASSUME TypeInv, AbortInv, ObjectInv, NEW i \in Items, Push1(i) \/ ApplyGhost(i)
    PROVE  \/ /\ UNCHANGED <<to, target>>
              /\ Wrote(i)' /\ ~request.dry => Wrote(i)
           \/ /\ UNCHANGED target /\ ~Wrote(i)'
              /\ \E o \in Objects : /\ to' = [to EXCEPT ![i] = o]
                                    /\ o = i \/ (key[i] # None /\ cache' # None /\ cache'[o] = key[i])
           \/ \E p \in Objects : /\ p = IF to[i] = None THEN i ELSE to[i]
                                 /\ target' = [target EXCEPT ![p] = i]
                                 /\ to' = [to EXCEPT ![i] = p]
<1>1. /\ at \in [Items -> Place] /\ result \in [Items -> Outcome] /\ to[i] \in Objects \cup {None}
      /\ i \in Objects
      /\ at[i] # "done" => result[i] = "none"
  BY DEF TypeInv, TypeOK, Place, Outcome, Objects, AbortInv, Outcomes
<1>2. ASSUME at' = [at EXCEPT ![i] = "write"], UNCHANGED result, at[i] # "done"
      PROVE  ~Wrote(i)'
  BY <1>1, <1>2 DEF Wrote
<1>3. CASE Start(i) \/ List(i)
  BY <1>1, <1>3 DEF Start, List, Go, Return, Fail, Wrote
<1>4. CASE Get(i)
  <2>1. \/ /\ UNCHANGED <<to, target>> /\ at'[i] \in {"write", "list", "done"}
           /\ UNCHANGED result \/ result' = [result EXCEPT ![i] = "failed"]
        \/ /\ UNCHANGED <<target, result>> /\ at[i] # "done"
           /\ to' = [to EXCEPT ![i] = i] /\ at' = [at EXCEPT ![i] = "write"]
    BY <1>1, <1>4 DEF Get, Go, Return, Fail
  <2> QED BY <1>1, <1>2, <2>1 DEF Wrote
<1>5. CASE Match(i)
  <2>1. /\ at[i] = "match" /\ at' = [at EXCEPT ![i] = "write"] /\ UNCHANGED <<result, target>>
        /\ cache' = IF cache = None THEN fetched[i] ELSE cache
        /\ UNCHANGED to \/ \E o \in Objects : cache'[o] = key[i] /\ to' = [to EXCEPT ![i] = o]
    BY <1>5 DEF Match, Matches, Go
  <2>2. ~Wrote(i)'
    BY <1>2, <2>1
  <2>3. key[i] # None /\ cache' # None
    BY <2>1 DEF ObjectInv, LookedUp
  <2> QED BY <2>1, <2>2, <2>3
<1>6. CASE Send(i)
  <2>1. /\ UNCHANGED <<to, target>>
        /\ \/ at' = [at EXCEPT ![i] = "sent"] /\ UNCHANGED result
           \/ /\ at' = [at EXCEPT ![i] = "done"]
              /\ \E o \in {"failed", "skipped", "ok"} :
                    result' = [result EXCEPT ![i] = o] /\ (o = "ok" => request.dry)
    BY <1>6 DEF Send, Go, Return, Fail, Blocked
  <2> QED BY <1>1, <2>1 DEF Wrote
<1>7. CASE Apply(i) \/ ApplyGhost(i)
  <2> TakeEffect(i) /\ UNCHANGED request
    BY <1>7 DEF Apply, ApplyGhost, given
  <2>1. CASE Takes(i)
    BY <1>1, <2>1 DEF TakeEffect
  <2>2. CASE ~Takes(i)
    <3>1. UNCHANGED <<to, target>> /\ request.dry
      BY <2>2 DEF TakeEffect, Takes
    <3> QED BY <3>1
  <2> QED BY <2>1, <2>2
<1>8. CASE Refuse(i) \/ Answer(i)
  <2>1. /\ UNCHANGED <<to, target>>
        /\ at' = [at EXCEPT ![i] = "done"]
        /\ \E o : result' = [result EXCEPT ![i] = o] /\ (o = "ok" => at[i] = "answer")
    BY <1>8 DEF Refuse, Answer, Go, Return, Fail
  <2> QED BY <1>1, <2>1 DEF Wrote
<1>9. CASE Retry(i)
  BY <1>1, <1>9 DEF Retry, Go, Wrote
<1> QED BY <1>3, <1>4, <1>5, <1>6, <1>7, <1>8, <1>9 DEF Push1

LEMMA OwnNext == TypeInv /\ PushInv /\ AbortInv /\ ObjectInv /\ OwnInv /\ [Next]_vars => OwnInv'
<1> SUFFICES ASSUME TypeInv, PushInv, AbortInv, ObjectInv, OwnInv, [Next]_vars, OwnKeys'
             PROVE  OwnInv'
  BY DEF OwnInv
<1> USE ResourcePushAssumption
<1>1. UNCHANGED <<request, key, oldKey>> /\ OwnKeys
  BY TargetGrows DEF given, OwnKeys, DistinctKeys
<1>2. \A i \in Items : Own(i)' = Own(i)
  BY <1>1 DEF Own
<1>3. /\ \A i \in Items : fetched'[i] = fetched[i] \/ fetched'[i] = Listing
      /\ cache' = cache \/ \E i \in Items : cache' = fetched[i]
  BY ListSteps
<1>4. /\ cache' # None => Leads(cache')
      /\ \A i \in Items : fetched'[i] # None => Leads(fetched'[i])
  BY <1>1, <1>3, ListingLeads DEF OwnInv
<1>5. /\ cache' # None => Leads(cache)'
      /\ \A i \in Items : fetched'[i] # None => Leads(fetched[i])'
  BY <1>1, <1>2, <1>4 DEF Leads
<1>6. ASSUME NEW j \in Items, to'[j] = to[j], UNCHANGED target, Wrote(j)' /\ ~request.dry => Wrote(j)
      PROVE  OnOwn(j)'
  BY <1>1, <1>2, <1>6 DEF OwnInv, OnOwn
<1>7. ASSUME NEW i \in Items, Push1(i) \/ ApplyGhost(i)
      PROVE  \A j \in Items : OnOwn(j)'
  <2>1. /\ to \in [Items -> Objects \cup {None}] /\ target \in [Objects -> Items \cup {Old, None}]
        /\ i \in Objects /\ i \in Own(i)
    BY DEF TypeInv, TypeOK, Objects, Own
  <2>2. \A j \in Items \ {i} : to'[j] = to[j] /\ (Wrote(j)' => Wrote(j))
    BY <1>7, ItemAdvances, EffectKeeps DEF Wrote, ApplyGhost, given
  <2>3. CASE /\ UNCHANGED <<to, target>>
             /\ Wrote(i)' /\ ~request.dry => Wrote(i)
    BY <1>6, <2>2, <2>3
  <2>4. ASSUME UNCHANGED target, ~Wrote(i)', NEW o \in Objects, to' = [to EXCEPT ![i] = o],
               o = i \/ (key[i] # None /\ cache' # None /\ cache'[o] = key[i])
        PROVE  \A j \in Items : OnOwn(j)'
    <3>1. o \in Own(i)
      BY <1>4, <2>1, <2>4 DEF Leads
    <3>2. OnOwn(i)'
      BY <1>1, <1>2, <2>1, <2>4, <3>1 DEF OwnInv, OnOwn
    <3> QED BY <1>6, <2>2, <2>4, <3>2
  <2>5. ASSUME NEW p \in Objects, p = IF to[i] = None THEN i ELSE to[i],
               target' = [target EXCEPT ![p] = i], to' = [to EXCEPT ![i] = p]
        PROVE  \A j \in Items : OnOwn(j)'
    <3>1. p \in Own(i) /\ p # None
      BY <1>1, <2>1, <2>5 DEF OwnInv, OnOwn, Objects
    <3>2. OnOwn(i)'
      BY <1>1, <1>2, <2>1, <2>5, <3>1 DEF OwnInv, OnOwn
    <3>3. ASSUME NEW j \in Items, j # i
          PROVE  OnOwn(j)'
      <4>1. OnOwn(j) /\ to'[j] = to[j] /\ (Wrote(j)' => Wrote(j))
        BY <1>1, <2>2, <3>3 DEF OwnInv
      <4>2. p \notin Own(j)
        BY <1>1, <3>1, <3>3, OwnApart
      <4>3. \A o \in Objects : o # p => target'[o] = target[o]
        BY <2>1, <2>5
      <4>4. to[j] # None => to[j] # p /\ to[j] \in Objects
        BY <2>1, <4>1, <4>2 DEF OnOwn
      <4>5. \A o \in Objects : target'[o] = j => target[o] = j
        BY <2>1, <2>5, <3>3
      <4> QED BY <1>1, <1>2, <3>3, <4>1, <4>3, <4>4, <4>5 DEF OnOwn
    <3> QED BY <3>2, <3>3
  <2> QED BY <1>7, <2>3, <2>4, <2>5, ToSteps
<1>8. ASSUME UNCHANGED <<at, to, result, target>>
      PROVE  \A j \in Items : OnOwn(j)'
  BY <1>6, <1>8 DEF Wrote
<1>9. UNCHANGED <<at, to, result, target>> \/ \E i \in Items : Push1(i) \/ ApplyGhost(i)
  BY DEF Next, Sort, NextBatch, Interrupt, vars, run
<1> QED BY <1>5, <1>7, <1>8, <1>9 DEF OwnInv

-----------------------------------------------------------------------------
\* The resources whose write has taken effect late, or still may.
Unsettled ==
    late \cup {i \in Items : at[i] = "sent"} \cup {i \in ghost : result[i] # "ok"}

\* How many goroutines there are, and how many writes they can still have under way
\* when one of them, or the user, has cancelled the context.
CountInv ==
    /\ Cardinality(Running) <= MaxConcurrency
    /\ request.stop /\ ~cancelled =>
          /\ late = {}
          /\ \A i \in ghost : at[i] \in {"sent", "answer"} \/ result[i] = "ok"
    /\ request.stop /\ cancelled => Cardinality(Unsettled) <= MaxConcurrency

\* What a step of a goroutine does to these.
LEMMA CountSteps ==
    ASSUME TypeInv, NEW i \in Items, Push1(i)
    PROVE  /\ \A j \in Items : j # i => at'[j] = at[j] /\ result'[j] = result[j]
           /\ at[i] # "done" /\ UNCHANGED request
           /\ at[i] = "wait" => Cardinality(Running) < MaxConcurrency
           /\ cancelled => at'[i] # "sent"
           /\ \/ UNCHANGED cancelled
              \/ cancelled' = TRUE /\ at'[i] = "done"
           /\ \/ UNCHANGED late
              \/ at[i] = "sent" /\ cancelled /\ late' = late \cup {i}
           /\ \/ UNCHANGED ghost
              \/ at[i] = "sent" /\ ghost' = ghost \cup {i}
           /\ at[i] \in {"sent", "answer"} =>
                 at'[i] \in {"sent", "answer"} \/ result'[i] = "ok" \/ (request.stop => cancelled')
<1> USE DEF Go, Return, Fail, given
<1>1. /\ at \in [Items -> Place] /\ cancelled \in BOOLEAN /\ result \in [Items -> Outcome]
      /\ request.stop \in BOOLEAN
  BY DEF TypeInv, TypeOK, Place, Outcome
<1>2. CASE Start(i)
  BY <1>1, <1>2 DEF Start
<1>3. CASE Get(i)
  BY <1>1, <1>3 DEF Get
<1>4. CASE List(i)
  BY <1>1, <1>4 DEF List
<1>5. CASE Match(i)
  BY <1>1, <1>5 DEF Match
<1>6. CASE Send(i)
  BY <1>1, <1>6 DEF Send
<1>7. CASE Apply(i)
  BY <1>1, <1>7 DEF Apply, TakeEffect
<1>8. CASE Refuse(i)
  BY <1>1, <1>8 DEF Refuse
<1>9. CASE Answer(i)
  BY <1>1, <1>9 DEF Answer
<1>10. CASE Retry(i)
  BY <1>1, <1>10 DEF Retry
<1> QED BY <1>2, <1>3, <1>4, <1>5, <1>6, <1>7, <1>8, <1>9, <1>10 DEF Push1

LEMMA Fewer ==
    ASSUME NEW S, NEW T, IsFiniteSet(S), T \subseteq S
    PROVE  Cardinality(T) \in Nat /\ Cardinality(S) \in Nat /\ Cardinality(T) <= Cardinality(S)
BY FS_Subset, FS_CardinalityType

LEMMA AtMostOneMore ==
    ASSUME NEW S, NEW T, NEW x, IsFiniteSet(S), T \subseteq S \cup {x}
    PROVE  Cardinality(T) \in Nat /\ Cardinality(S) \in Nat /\ Cardinality(T) <= Cardinality(S) + 1
<1>1. /\ IsFiniteSet(S \cup {x}) /\ Cardinality(S) \in Nat
      /\ Cardinality(S \cup {x}) = IF x \in S THEN Cardinality(S) ELSE Cardinality(S) + 1
  BY FS_AddElement, FS_CardinalityType
<1>2. Cardinality(T) \in Nat /\ Cardinality(T) <= Cardinality(S \cup {x})
  BY <1>1, Fewer
<1> QED BY <1>1, <1>2

\* What is under way when the context is cancelled is of goroutines that run.
LEMMA UnsettledRun ==
    ASSUME TypeInv, CountInv, request.stop, ~cancelled
    PROVE  \A j \in Unsettled : j \in Running
BY DEF TypeInv, TypeOK, CountInv, Unsettled, Running

LEMMA CountAdvance ==
    ASSUME TypeInv, AbortInv, CountInv, NEW i \in Items, Push1(i)
    PROVE  CountInv'
<1>1. /\ MaxConcurrency \in Nat \ {0} /\ cancelled \in BOOLEAN /\ cancelled' \in BOOLEAN
      /\ late \subseteq Items /\ ghost \subseteq Items /\ late' \subseteq Items /\ ghost' \subseteq Items
  <2>1. TypeInv'
    BY TypeInvNext DEF Next
  <2> QED BY <2>1, ResourcePushAssumption DEF TypeInv, TypeOK
<1>2. IsFiniteSet(Running) /\ IsFiniteSet(Unsettled)
  <2>1. IsFiniteSet(Items) /\ Running \subseteq Items /\ Unsettled \subseteq Items
    BY <1>1, ResourcePushAssumption DEF Running, Unsettled
  <2> QED BY <2>1, FS_Subset
<1>3. /\ \A j \in Items : j # i => at'[j] = at[j] /\ result'[j] = result[j]
      /\ at[i] # "done" /\ UNCHANGED request
      /\ at[i] = "wait" => Cardinality(Running) < MaxConcurrency
      /\ at[i] # "wait" => i \in Running
      /\ result[i] = "none"
  BY CountSteps DEF Running, AbortInv, Outcomes
<1>4. Cardinality(Running)' <= MaxConcurrency
  <2>1. CASE at[i] = "wait"
    <3>1. Running' \subseteq Running \cup {i}
      BY <1>3 DEF Running
    <3>2. Cardinality(Running') \in Nat /\ Cardinality(Running) \in Nat
          /\ Cardinality(Running') <= Cardinality(Running) + 1
      BY <1>2, <3>1, AtMostOneMore
    <3> QED BY <1>1, <1>3, <2>1, <3>2
  <2>2. CASE at[i] # "wait"
    <3>1. Running' \subseteq Running
      BY <1>3, <2>2 DEF Running
    <3>2. Cardinality(Running') \in Nat /\ Cardinality(Running) \in Nat
          /\ Cardinality(Running') <= Cardinality(Running)
      BY <1>2, <3>1, Fewer
    <3> QED BY <1>1, <3>2 DEF CountInv
  <2> QED BY <2>1, <2>2
<1>5. ASSUME request.stop, ~cancelled'
      PROVE  /\ late' = {}
             /\ \A j \in ghost' : at'[j] \in {"sent", "answer"} \/ result'[j] = "ok"
  <2>1. ~cancelled /\ late' = {}
    BY <1>1, <1>5, CountSteps DEF CountInv
  <2>2. ASSUME NEW j \in ghost', j # i
        PROVE  at'[j] \in {"sent", "answer"} \/ result'[j] = "ok"
    <3>1. j \in ghost /\ j \in Items
      BY <1>1, <2>2, CountSteps
    <3> QED BY <1>3, <1>5, <2>1, <2>2, <3>1 DEF CountInv
  <2>3. ASSUME i \in ghost'
        PROVE  at'[i] \in {"sent", "answer"} \/ result'[i] = "ok"
    <3>1. at[i] \in {"sent", "answer"}
      BY <1>3, <1>5, <2>1, <2>3, CountSteps DEF CountInv
    <3> QED BY <1>5, <3>1, CountSteps
  <2> QED BY <2>1, <2>2, <2>3
<1>6. ASSUME request.stop, cancelled, cancelled'
      PROVE  Cardinality(Unsettled') <= MaxConcurrency
  <2>1. Unsettled' \subseteq Unsettled
    <3> SUFFICES ASSUME NEW j \in Unsettled' PROVE j \in Unsettled
      OBVIOUS
    <3>1. CASE j \in late'
      BY <3>1, CountSteps DEF Unsettled
    <3>2. CASE j \in Items /\ at'[j] = "sent"
      BY <1>3, <1>6, <3>2, CountSteps DEF Unsettled
    <3>3. CASE j \in ghost' /\ result'[j] # "ok"
      <4>1. j \in Items /\ (j # i => result'[j] = result[j])
        BY <1>1, <1>3, <3>3
      <4>2. j \in ghost \/ (j = i /\ at[i] = "sent")
        BY <3>3, CountSteps
      <4> QED BY <1>3, <3>3, <4>1, <4>2 DEF Unsettled
    <3> QED BY <3>1, <3>2, <3>3 DEF Unsettled
  <2>2. Cardinality(Unsettled') \in Nat /\ Cardinality(Unsettled) \in Nat
        /\ Cardinality(Unsettled') <= Cardinality(Unsettled)
    BY <1>2, <2>1, Fewer
  <2> QED BY <1>1, <1>6, <2>2 DEF CountInv
<1>7. ASSUME request.stop, ~cancelled, cancelled'
      PROVE  Cardinality(Unsettled') <= MaxConcurrency
  <2>1. at'[i] = "done" /\ late' = {}
    BY <1>1, <1>7, CountSteps DEF CountInv
  <2>2. Unsettled' \subseteq Running
    <3> SUFFICES ASSUME NEW j \in Unsettled' PROVE j \in Running
      OBVIOUS
    <3>1. CASE j \in Items /\ at'[j] = "sent"
      BY <1>3, <2>1, <3>1 DEF Running
    <3>2. CASE j \in ghost' /\ result'[j] # "ok"
      <4>1. j \in Items /\ (j # i => result'[j] = result[j])
        BY <1>1, <1>3, <3>2
      <4>2. j \in ghost \/ (j = i /\ at[i] = "sent")
        BY <3>2, CountSteps
      <4>3. at[j] \in {"sent", "answer"}
        BY <1>3, <1>7, <3>2, <4>1, <4>2 DEF CountInv
      <4> QED BY <4>1, <4>3 DEF Running
    <3> QED BY <2>1, <3>1, <3>2 DEF Unsettled
  <2>3. Cardinality(Unsettled') \in Nat /\ Cardinality(Running) \in Nat
        /\ Cardinality(Unsettled') <= Cardinality(Running)
    BY <1>2, <2>2, Fewer
  <2> QED BY <1>1, <2>3 DEF CountInv
<1> QED BY <1>1, <1>3, <1>4, <1>5, <1>6, <1>7 DEF CountInv

LEMMA CountNext == TypeInv /\ AbortInv /\ CountInv /\ [Next]_vars => CountInv'
<1> SUFFICES ASSUME TypeInv, AbortInv, CountInv, [Next]_vars PROVE CountInv'
  OBVIOUS
<1>1. ASSUME NEW i \in Items, Push1(i)
      PROVE  CountInv'
  BY <1>1, CountAdvance
<1>2. CASE Sort \/ NextBatch \/ UNCHANGED vars
  BY <1>2 DEF Sort, NextBatch, vars, run, given, CountInv, Running, Unsettled
<1>3. /\ MaxConcurrency \in Nat /\ late \subseteq Items /\ ghost \subseteq Items
      /\ IsFiniteSet(Running) /\ IsFiniteSet(Unsettled)
  <2>1. /\ IsFiniteSet(Items) /\ MaxConcurrency \in Nat
        /\ late \subseteq Items /\ ghost \subseteq Items
    BY ResourcePushAssumption DEF TypeInv, TypeOK
  <2>2. Running \subseteq Items /\ Unsettled \subseteq Items
    BY <2>1 DEF Running, Unsettled
  <2> QED BY <2>1, <2>2, FS_Subset
<1>4. CASE Interrupt
  <2>1. UNCHANGED <<request, at, ghost, result, late>> /\ ~cancelled /\ cancelled'
    BY <1>4 DEF Interrupt, run, given
  <2>2. Running' = Running /\ Unsettled' = Unsettled
    BY <2>1 DEF Running, Unsettled
  <2>3. request.stop => Cardinality(Unsettled) <= MaxConcurrency
    <3> SUFFICES ASSUME request.stop PROVE Cardinality(Unsettled) <= MaxConcurrency
      OBVIOUS
    <3>1. Unsettled \subseteq Running
      BY <2>1, UnsettledRun
    <3>2. /\ Cardinality(Unsettled) \in Nat /\ Cardinality(Running) \in Nat
          /\ Cardinality(Unsettled) <= Cardinality(Running)
      BY <1>3, <3>1, Fewer
    <3> QED BY <1>3, <3>2 DEF CountInv
  <2> QED BY <2>1, <2>2, <2>3 DEF CountInv
<1>5. ASSUME NEW i \in Items, ApplyGhost(i)
      PROVE  CountInv'
  <2>1. /\ UNCHANGED <<request, at, ghost, result, cancelled>> /\ i \in ghost
        /\ late' = late \/ (cancelled /\ result[i] # "ok" /\ late' = late \cup {i})
    BY <1>5 DEF ApplyGhost, TakeEffect, given
  <2>2. Running' = Running /\ Unsettled' \subseteq Unsettled
    BY <2>1 DEF Running, Unsettled
  <2>3. Cardinality(Unsettled') \in Nat /\ Cardinality(Unsettled) \in Nat
        /\ Cardinality(Unsettled') <= Cardinality(Unsettled)
    BY <1>3, <2>2, Fewer
  <2> QED BY <1>3, <2>1, <2>2, <2>3 DEF CountInv
<1> QED BY <1>1, <1>2, <1>4, <1>5 DEF Next

-----------------------------------------------------------------------------
Invariant == TypeInv /\ PushInv /\ AbortInv /\ ObjectInv /\ OwnInv /\ CountInv

LEMMA InvariantAlways == Spec => []Invariant
<1>1. Init => Invariant
  <2> SUFFICES ASSUME Init PROVE Invariant
    OBVIOUS
  <2> USE ResourcePushAssumption
  <2>1. /\ \A i \in Items : /\ at[i] = "wait" /\ to[i] = None /\ fetched[i] = None /\ result[i] = "none"
        /\ phase = "sort" /\ cache = None /\ ~cancelled /\ late = {} /\ ghost = {}
        /\ \A o \in Objects : target[o] \in {Old, None}
    BY DEF Init
  <2>2. AbortInv
    BY <2>1 DEF AbortInv, LevelsApart, NoFailureBehind, FolderNotFailed, Outcomes, Started
  <2>3. ObjectInv
    BY <2>1 DEF ObjectInv, ListsTell, LookedUp, OnTarget, NoMatch, Wrote, Objects
  <2>4. OwnInv
    BY <2>1 DEF OwnInv, OnOwn, Wrote, Objects
  <2>5. CountInv
    <3>1. Running = {}
      BY <2>1 DEF Running
    <3> QED BY <2>1, <3>1, FS_EmptySet DEF CountInv
  <2> QED BY <2>2, <2>3, <2>4, <2>5, PushInvInit, TypeInvInit DEF Invariant
<1>2. Invariant /\ [Next]_vars => Invariant'
  BY TypeInvNext, PushInvNext, AbortNext, ObjectNext, OwnNext, CountNext DEF Invariant
<1> QED BY <1>1, <1>2, PTL DEF Spec

\* With --on-error abort, and no folder left to another tool, what is written has its
\* folder on the target (Push, ForEachConcurrently): a folder that failed ends the
\* push with the batch it is in.
THEOREM FolderThereOrStopped == Spec => []ParentExistsOrStopped
<1>1. Invariant => ParentExistsOrStopped
  <2> SUFFICES ASSUME Invariant, request.stop, \A f \in Folders : kind[f] # "foreign",
                      NEW i \in Items, Wrote(i), ~request.dry, parent[i] # None
               PROVE  target[parent[i]] # None
    BY DEF ParentExistsOrStopped, ParentExists
  <2> DEFINE f == parent[i]
  <2>1. f \in Folders /\ f \in Items /\ result[f] \in Outcome /\ at[i] \in Place
    BY DEF Invariant, PushInv, Typed, Items
  <2>2. Started(i)
    BY DEF Wrote, Started, Invariant, AbortInv, Outcomes
  <2>3. at[f] = "done" /\ result[f] # "failed"
    BY <2>2 DEF Invariant, PushInv, ParentFirst, AbortInv, FolderNotFailed
  <2>4. result[f] = "ok"
    BY <2>1, <2>3 DEF Outcome, Invariant, PushInv, DoneHasOutcome, AbortInv, Outcomes
  <2>5. to[f] # None /\ target[to[f]] # None
    BY <2>1, <2>4 DEF Wrote, Invariant, ObjectInv, OnTarget
  <2>6. to[f] = f
    BY <2>1, <2>5 DEF Invariant, ObjectInv, LookedUp, TypeInv
  <2> QED BY <2>5, <2>6
<1> QED BY <1>1, InvariantAlways, PTL

\* With --on-error abort, no more resources are written after the first failure or an
\* interrupt than there are goroutines (ForEachConcurrently), whatever their number and
\* whatever the API still applies of what was given up.
THEOREM LateWritesFew == Spec => []LateWritesBounded
<1>1. Invariant => LateWritesBounded
  <2> SUFFICES ASSUME Invariant, request.stop
               PROVE  Cardinality(late) <= MaxConcurrency
    BY DEF LateWritesBounded
  <2>1. /\ MaxConcurrency \in Nat \ {0} /\ cancelled \in BOOLEAN
        /\ late \subseteq Items /\ ghost \subseteq Items
    BY ResourcePushAssumption DEF Invariant, TypeInv, TypeOK
  <2>2. CASE ~cancelled
    BY <2>1, <2>2, FS_EmptySet DEF Invariant, CountInv
  <2>3. CASE cancelled
    <3>1. Unsettled \subseteq Items /\ late \subseteq Unsettled
      BY <2>1 DEF Unsettled
    <3>2. IsFiniteSet(Unsettled)
      BY <3>1, ResourcePushAssumption, FS_Subset
    <3>3. Cardinality(late) \in Nat /\ Cardinality(Unsettled) \in Nat /\ Cardinality(late) <= Cardinality(Unsettled)
      BY <3>1, <3>2, Fewer
    <3> QED BY <2>1, <2>3, <3>3 DEF Invariant, CountInv
  <2> QED BY <2>1, <2>2, <2>3
<1> QED BY <1>1, InvariantAlways, PTL

\* What the summary counts as pushed is what the target holds in the end
\* (findByNaturalKey, upsertResource), whatever the goroutines did in between.
THEOREM PushedStays == Spec => []PushedStaysUnlessReused
<1>1. Invariant => PushedStaysUnlessReused
  BY DEF Invariant, OwnInv, OwnKeys, OnOwn, Wrote, PushedStaysUnlessReused
<1> QED BY <1>1, InvariantAlways, PTL

\* No created object has the natural key of another one (findByNaturalKey).
THEOREM NoDuplicateCreated == Spec => CreatesNoDuplicate
<1> DEFINE Once ==
      DistinctKeys =>
        \A o \in Objects : target[o] = None /\ target'[o] # None /\ KeyOn(o)' # None =>
            \A p \in Objects \ {o} : KeyOn(p)' # KeyOn(o)'
<1>1. Invariant /\ [Next]_vars => [Once]_vars
  <2> SUFFICES ASSUME Invariant, Next, DistinctKeys,
                      NEW o \in Objects, target[o] = None, target'[o] # None, KeyOn(o)' # None,
                      NEW p \in Objects \ {o}
               PROVE  KeyOn(p)' # KeyOn(o)'
    OBVIOUS
  <2> USE ResourcePushAssumption
  <2>1. PICK i \in Items : Apply(i) \/ ApplyGhost(i)
    BY DEF Next, Push1, Sort, NextBatch, Interrupt, Start, Get, List, Match, Send, Retry, Refuse, Answer, run
  <2>2. /\ target \in [Objects -> Items \cup {Old, None}] /\ to[i] \in Objects \cup {None}
        /\ i \in Objects /\ i # Old /\ i # None /\ None \notin Keys
        /\ key[i] \in Keys \cup {None}
    BY DEF Invariant, TypeInv, TypeOK, Objects
  <2>3. /\ UNCHANGED <<key, oldKey>> /\ (at[i] = "sent" \/ i \in ghost)
        /\ target' = [target EXCEPT ![IF to[i] = None THEN i ELSE to[i]] = i]
    BY <2>1 DEF Apply, ApplyGhost, TakeEffect, given
  <2>4. to[i] = None /\ o = i
    BY <2>2, <2>3 DEF Invariant, ObjectInv, OnTarget
  <2>5. target'[o] = i /\ target'[p] = target[p] /\ target[p] # i
    BY <2>2, <2>3, <2>4 DEF Invariant, ObjectInv, OnTarget
  <2>6. KeyOn(o)' = key[i] /\ key[i] # None
    BY <2>2, <2>3, <2>5 DEF KeyOn
  <2>7. target[p] = Old => oldKey[p] # key[i]
    BY <2>3, <2>4, <2>6 DEF Invariant, ObjectInv, NoMatch
  <2>8. target[p] \in Items => key[target[p]] # key[i]
    BY <2>5, <2>6 DEF DistinctKeys
  <2> QED BY <2>2, <2>3, <2>5, <2>6, <2>7, <2>8 DEF KeyOn
<1> QED BY <1>1, InvariantAlways, PTL DEF Spec, CreatesNoDuplicate
===============================================================================
