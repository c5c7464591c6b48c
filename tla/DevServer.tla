------------------------------ MODULE DevServer ------------------------------
(***************************************************************************)
(* `gcx dev serve` between the files, the collection in memory and the     *)
(* browsers that save dashboards: the command (cmd/gcx/resources/serve.go) *)
(* with the reader's pipeline (internal/resources/local/reader.go), the    *)
(* watcher (internal/server/watch) and the PUT handler of dashboards       *)
(* (internal/server/handlers/dashboards-proxy.go). They share the          *)
(* collection without a lock, and the files.                               *)
(*                                                                         *)
(* The callbacks of Resources.Add broadcast to browsers: LiveReload.       *)
(***************************************************************************)
EXTENDS Integers, FiniteSets

CONSTANTS
    Files,
    Names, Versions, Bodies,
    Docs, Starts,   \* bounds: what is written to a file, and the files at first
    Scripts,        \* bound: the input of --script, or None without it
    Savers,         \* requests that are handled at a time
    None,           \* no file, document or object
    Empty,          \* a file that was truncated
    Mixed,          \* a file with the bytes of two documents
    MaxEdits, MaxSaves  \* bounds: changes by the user, saves

\* Resources are kept by kind, version and name, and found by kind and name.
Ref == Names \X Versions
Doc == [ref : Ref, body : Bodies]
NameOf(d) == d.ref[1]

ASSUME DevServerAssumption ==
    /\ Docs \subseteq Doc /\ Starts \subseteq [Files -> Docs \cup {None}] /\ Scripts \subseteq Files \cup {None}
    /\ None \notin Files \cup Doc /\ {Empty, Mixed} \cap (Doc \cup {None}) = {}
    /\ None \notin [doc : Doc, src : Files \cup {None}]
    /\ MaxEdits \in Nat /\ MaxSaves \in Nat

VARIABLES
    file,
    script,         \* the file that the script makes its resource from
    phase,          \* "reading", "serving" or "stopped"
    unread, read,   \* files the reader has not read yet, and what it read and has not added
    coll,           \* the collection
    events,         \* files with an event that the watcher has not received
    watch,          \* the callback of the watcher: where it is, and what it read
    save,           \* each request
    edits, saves,
    missed,         \* history: files changed after they were read and before they were watched
    said,           \* history: the names that each file has said
    hurt            \* history: files whose save was cut off, failed or met another write

readers == <<unread, read>>
bounds  == <<edits, saves>>
vars    == <<file, script, phase, readers, coll, events, watch, save, bounds, missed, said, hurt>>

\* A request has a resource's name and a document, None if it cannot be decoded. It
\* holds the pointer it found: to the object under "key", if that is still "there"
\* in the collection. "linked": the file it opened is still the one of that name.
\* "alone": nobody has written the file since it was opened.
Idle == [at |-> "idle", name |-> None, doc |-> None, key |-> None, src |-> None,
         there |-> FALSE, linked |-> FALSE, alone |-> FALSE]
Waiting == [at |-> "select", doc |-> None]

Object(d, f) == [doc |-> d, src |-> f]
NameIn(d)    == IF d \in Doc THEN {NameOf(d)} ELSE {}

Init ==
    /\ file \in Starts /\ script \in Scripts
    /\ phase = "reading"
    /\ unread = Files /\ read = {}
    /\ coll = [r \in Ref |-> None]
    /\ events = {} /\ watch = Waiting
    /\ save = [s \in Savers |-> Idle]
    /\ edits = 0 /\ saves = 0
    /\ missed = {} /\ hurt = {}
    /\ said = [f \in Files |-> NameIn(file[f])]

-----------------------------------------------------------------------------
(***************************************************************************)
(* The collection.                                                         *)
(***************************************************************************)
\* Resources.Add replaces the object: who has found the old one keeps it.
Add(d, f) ==
    /\ coll' = [coll EXCEPT ![d.ref] = Object(d, f)]
    /\ save' = [s \in Savers |-> IF save[s].key = d.ref THEN [save[s] EXCEPT !.there = FALSE]
                                 ELSE save[s]]

\* Resources.Find ranges over the map and returns any that fits.
Find(name) == {r \in Ref : coll[r] # None /\ NameOf(coll[r].doc) = name}

\* What the script makes has no source.
SourceOf(f) == IF f = script THEN None ELSE f

-----------------------------------------------------------------------------
(***************************************************************************)
(* FSReader.Read, then the script; after it the watcher and the server.    *)
(***************************************************************************)
ReadFile(f) ==
    /\ phase = "reading" /\ f \in unread /\ f # script
    /\ unread' = unread \ {f}
    /\ read' = IF file[f] \in Doc THEN read \cup {Object(file[f], SourceOf(f))} ELSE read
    /\ UNCHANGED <<file, script, phase, coll, events, watch, save, bounds, missed, said, hurt>>

Collect(o) ==
    /\ phase = "reading" /\ o \in read
    /\ read' = read \ {o}
    /\ Add(o.doc, o.src)
    /\ UNCHANGED <<file, script, phase, unread, events, watch, bounds, missed, said, hurt>>

\* parseFromScript, when the files are read; the command ends if it fails.
RunScript ==
    /\ phase = "reading" /\ unread = {script} /\ read = {}
    /\ unread' = {}
    /\ IF file[script] \in Doc THEN Add(file[script], SourceOf(script)) /\ UNCHANGED phase
       ELSE phase' = "stopped" /\ UNCHANGED <<coll, save>>
    /\ UNCHANGED <<file, script, read, events, watch, bounds, missed, said, hurt>>

Serve ==
    /\ phase = "reading" /\ unread = {} /\ read = {}
    /\ phase' = "serving"
    /\ UNCHANGED <<file, script, readers, coll, events, watch, save, bounds, missed, said, hurt>>

-----------------------------------------------------------------------------
(***************************************************************************)
(* The watcher. Events of one file that were not received yet are one.     *)
(***************************************************************************)
Receive(f) ==
    /\ phase = "serving" /\ watch.at = "select" /\ f \in events
    /\ events' = events \ {f}
    /\ watch' = [at |-> "read", doc |-> None, src |-> IF script = None THEN f ELSE script]
    /\ UNCHANGED <<file, script, phase, readers, coll, save, bounds, missed, said, hurt>>

\* A file that cannot be read or parsed is skipped.
Reload ==
    /\ phase = "serving" /\ watch.at = "read"
    /\ watch' = IF file[watch.src] \in Doc
                THEN [watch EXCEPT !.at = "add", !.doc = file[watch.src]] ELSE Waiting
    /\ UNCHANGED <<file, script, phase, readers, coll, events, save, bounds, missed, said, hurt>>

\* A mutant: what happens during a callback is not seen.
UpdateDropping ==
    /\ phase = "serving" /\ watch.at = "add"
    /\ Add(watch.doc, SourceOf(watch.src))
    /\ events' = events \ {watch.src}
    /\ watch' = Waiting
    /\ UNCHANGED <<file, script, phase, readers, bounds, missed, said, hurt>>

Update ==
    /\ phase = "serving" /\ watch.at = "add"
    /\ Add(watch.doc, SourceOf(watch.src))
    /\ watch' = Waiting
    /\ UNCHANGED <<file, script, phase, readers, events, bounds, missed, said, hurt>>

-----------------------------------------------------------------------------
(***************************************************************************)
(* A save: dashboardJSONPostHandler.                                       *)
(***************************************************************************)
Begin(s) ==
    /\ phase = "serving" /\ save[s].at = "idle"
    /\ saves < MaxSaves /\ saves' = saves + 1
    /\ \E n \in Names : \E d \in {x \in Docs : NameOf(x) = n} \cup {None} :
         save' = [save EXCEPT ![s] = [Idle EXCEPT !.at = "find", !.name = n, !.doc = d]]
    /\ UNCHANGED <<file, script, phase, readers, coll, events, watch, edits, missed, said, hurt>>

At(s, stage) == phase = "serving" /\ save[s].at = stage
End(s)       == save' = [save EXCEPT ![s] = Idle]

\* A mutant: the first dashboard there is.
LookupAny(s) ==
    /\ At(s, "find")
    /\ \E r \in Ref : /\ coll[r] # None /\ coll[r].src # None
                      /\ save' = [save EXCEPT ![s].at = "open", ![s].key = r,
                                              ![s].src = coll[r].src, ![s].there = TRUE]
    /\ UNCHANGED <<file, script, phase, readers, coll, events, watch, bounds, missed, said, hurt>>

\* 404 without a resource, 400 without a source.
Lookup(s) ==
    /\ At(s, "find")
    /\ \/ \E r \in Find(save[s].name) :
            IF coll[r].src = None THEN End(s)
            ELSE save' = [save EXCEPT ![s].at = "open", ![s].key = r,
                                      ![s].src = coll[r].src, ![s].there = TRUE]
       \/ Find(save[s].name) = {} /\ End(s)
    /\ UNCHANGED <<file, script, phase, readers, coll, events, watch, bounds, missed, said, hurt>>

Touching(f, t) == save[t].src = f /\ save[t].at \in {"write", "set"}

\* A mutant: the request is decoded when the file is open.
OpenFirst(s) ==
    LET f == save[s].src IN
    /\ At(s, "open")
    /\ file' = [file EXCEPT ![f] = Empty]
    /\ events' = events \cup {f}
    /\ missed' = missed \ {f}
    /\ save' = [t \in Savers |->
         IF t = s THEN IF save[s].doc = None THEN Idle
                       ELSE [save[s] EXCEPT !.at = "write", !.linked = TRUE, !.alone = TRUE]
         ELSE IF Touching(f, t) THEN [save[t] EXCEPT !.alone = FALSE] ELSE save[t]]
    /\ UNCHANGED <<script, phase, readers, coll, watch, bounds, said, hurt>>

\* The request is decoded; then the file is truncated, or made. Or it is no document
\* (400), or the file cannot be opened (500).
Open(s) ==
    LET f == save[s].src IN
    /\ At(s, "open")
    /\ \/ /\ save[s].doc # None
          /\ file' = [file EXCEPT ![f] = Empty]
          /\ events' = events \cup {f}
          /\ missed' = missed \ {f}
          /\ save' = [t \in Savers |->
               IF t = s THEN [save[s] EXCEPT !.at = "write", !.linked = TRUE, !.alone = TRUE]
               ELSE IF Touching(f, t) THEN [save[t] EXCEPT !.alone = FALSE] ELSE save[t]]
       \/ End(s) /\ UNCHANGED <<file, events, missed>>
    /\ UNCHANGED <<script, phase, readers, coll, watch, bounds, said, hurt>>

\* Two writes at the start of a file leave the end of the longer one.
Write(s) ==
    LET f == save[s].src
        d == save[s].doc
    IN
    /\ At(s, "write")
    /\ \/ /\ save[s].linked
          /\ \E c \in IF file[f] = Empty THEN {d} ELSE {d, Mixed} :
               /\ file' = [file EXCEPT ![f] = c]
               /\ hurt' = IF c = Mixed THEN hurt \cup {f} ELSE hurt \ {f}
          /\ events' = events \cup {f}
          /\ said' = [said EXCEPT ![f] = @ \cup {NameOf(d)}]
          /\ save' = [t \in Savers |->
               IF t = s THEN [save[s] EXCEPT !.at = "set"]
               ELSE IF Touching(f, t) THEN [save[t] EXCEPT !.alone = FALSE] ELSE save[t]]
       \/ /\ ~save[s].linked
          /\ save' = [save EXCEPT ![s].at = "set"]
          /\ UNCHANGED <<file, events, said, hurt>>
    /\ UNCHANGED <<script, phase, readers, coll, watch, bounds, missed>>

\* A mutant: an error of Encode is not looked at.
WriteFailsUnseen(s) ==
    /\ At(s, "write")
    /\ hurt' = hurt \cup {save[s].src}
    /\ save' = [save EXCEPT ![s].at = "set"]
    /\ UNCHANGED <<file, script, phase, readers, coll, events, watch, bounds, missed, said>>

WriteFails(s) ==
    /\ At(s, "write")
    /\ hurt' = IF save[s].linked THEN hurt \cup {save[s].src} ELSE hurt
    /\ End(s)
    /\ UNCHANGED <<file, script, phase, readers, coll, events, watch, bounds, missed, said>>

\* resource.Raw of the object that was found; then 200.
SetRaw(s) ==
    /\ At(s, "set")
    /\ coll' = IF save[s].there THEN [coll EXCEPT ![save[s].key].doc = save[s].doc] ELSE coll
    /\ End(s)
    /\ UNCHANGED <<file, script, phase, readers, events, watch, bounds, missed, said, hurt>>

-----------------------------------------------------------------------------
\* The user changes a file in place, puts another one in its place, or removes it. The
\* kernel tells the watcher of the first two.
Edit(f) ==
    /\ edits < MaxEdits /\ edits' = edits + 1
    /\ \E d \in Docs \cup {None} : \E replaced \in BOOLEAN :
         /\ d = None => replaced
         /\ file' = [file EXCEPT ![f] = d]
         /\ said' = [said EXCEPT ![f] = @ \cup NameIn(d)]
         /\ save' = [t \in Savers |->
              IF Touching(f, t)
              THEN [save[t] EXCEPT !.alone = FALSE, !.linked = @ /\ ~replaced] ELSE save[t]]
         /\ events' = IF phase = "serving" /\ d # None THEN events \cup {f} ELSE events
    /\ hurt' = hurt \ {f}
    /\ missed' = IF phase = "reading" /\ f \notin unread THEN missed \cup {f}
                 ELSE IF phase = "reading" THEN missed ELSE missed \ {f}
    /\ UNCHANGED <<script, phase, readers, coll, watch, saves>>

\* The process ends while its requests are handled: Start does not wait for Shutdown,
\* and the runtime may end it when the watcher adds while a request ranges over the map.
Stop ==
    /\ phase = "serving"
    /\ phase' = "stopped"
    /\ hurt' = hurt \cup {save[s].src : s \in {t \in Savers : save[t].at = "write" /\ save[t].linked}}
    /\ save' = [s \in Savers |-> Idle]
    /\ watch' = Waiting /\ events' = {}
    /\ UNCHANGED <<file, script, readers, coll, bounds, missed, said>>

Startup == (\E f \in Files : ReadFile(f)) \/ (\E o \in read : Collect(o)) \/ RunScript \/ Serve
Watch   == (\E f \in Files : Receive(f)) \/ Reload \/ Update
Save(s) == Lookup(s) \/ Open(s) \/ Write(s) \/ WriteFails(s) \/ SetRaw(s)

Next == \/ Startup \/ Watch \/ Stop
        \/ \E s \in Savers : Begin(s) \/ Save(s)
        \/ \E f \in Files : Edit(f)

Spec == Init /\ [][Next]_vars

\* The runtime runs the goroutines; requests, edits and the end are up to the user.
FairSpec == Spec /\ WF_vars(Startup) /\ WF_vars(Watch) /\ \A s \in Savers : WF_vars(Save(s))

-----------------------------------------------------------------------------
(***************************************************************************)
(* Properties.                                                             *)
(***************************************************************************)
\* The types; only a resource that came from a file has one to be saved to.
TypeOK ==
    /\ file \in [Files -> Docs \cup {None, Empty, Mixed}] /\ script \in Scripts
    /\ phase \in {"reading", "serving", "stopped"}
    /\ unread \subseteq Files
    /\ read \subseteq [doc : Docs, src : Files \cup {None}]
    /\ coll \in [Ref -> [doc : Docs, src : Files \cup {None}] \cup {None}]
    /\ events \subseteq Files
    /\ watch = Waiting \/ watch \in [at : {"read", "add"}, doc : Docs \cup {None}, src : Files]
    /\ \A s \in Savers :
         \/ save[s].at \in {"idle", "find"} /\ save[s].src = None
         \/ save[s].at \in {"open", "write", "set"} /\ save[s].src \in Files \ {script}
    /\ edits \in 0 .. MaxEdits /\ saves \in 0 .. MaxSaves
    /\ missed \subseteq Files /\ hurt \subseteq Files /\ said \in [Files -> SUBSET Names]

\* A save that is about to be answered with 200 is in its file, unless somebody else
\* has written or replaced the file since the save truncated it.
SavedIsOnDisk ==
    \A s \in Savers : save[s].at = "set" /\ save[s].alone => file[save[s].src] = save[s].doc

\* A file without a document is one that a save is writing, or whose save was cut off,
\* failed or met another write: what the server refuses leaves the file as it was.
TornExplained ==
    \A f \in Files :
        file[f] \in {Empty, Mixed} =>
            f \in hurt \/ \E s \in Savers : save[s].at = "write" /\ save[s].src = f

\* A save goes to a file that has said the name it saves, whatever the watcher has
\* added or replaced since.
SourceSaidIt ==
    \A s \in Savers : save[s].src # None => save[s].name \in said[save[s].src]

\* When users leave the files alone, memory is what they say: under the version and
\* name that a file has now there is its document, or another file's of the same name.
\* A change between the first reading and the start of the watcher is not seen.
Shown(f) ==
    file[f] \in Doc =>
        /\ coll[file[f].ref] # None
        /\ coll[file[f].ref].src = SourceOf(f) => coll[file[f].ref].doc = file[f]

Inputs == IF script = None THEN Files ELSE {script}

Settles == <>[](phase = "stopped" \/ \A f \in Inputs \ missed : Shown(f))
===============================================================================
