--------------------------- MODULE DevServerProofs ---------------------------
(***************************************************************************)
(* Proofs about DevServer for any files, documents and savers, and any     *)
(* number of edits and saves.                                              *)
(*                                                                         *)
(* TypeInv: a request is one of four records, by how far it has come.      *)
(* SaidInv: whatever is on the way from a file into the collection, or     *)
(* there already, has a name that the file has said.                       *)
(* DiskInv: a file without a document has a request that has it open and   *)
(* still linked, or is hurt; a request that is alone has its file to       *)
(* itself.                                                                 *)
(***************************************************************************)
EXTENDS DevServer, TLAPS

Homes   == Files \ {script}
Kept    == [doc : Docs, src : Homes \cup {None}]
Content == Docs \cup {None, Empty, Mixed}

Resting == [at : {"idle"}, name : {None}, doc : {None}, key : {None}, src : {None},
            there : {FALSE}, linked : {FALSE}, alone : {FALSE}]
Asked  == [at : {"find"}, name : Names, doc : Docs \cup {None}, key : {None}, src : {None},
           there : {FALSE}, linked : {FALSE}, alone : {FALSE}]
Found  == [at : {"open"}, name : Names, doc : Docs \cup {None}, key : Ref, src : Homes,
           there : BOOLEAN, linked : {FALSE}, alone : {FALSE}]
Opened == [at : {"write", "set"}, name : Names, doc : Docs, key : Ref, src : Homes,
           there : BOOLEAN, linked : BOOLEAN, alone : BOOLEAN]
Request == Resting \cup Asked \cup Found \cup Opened

Watching == {Waiting} \cup [at : {"read"}, doc : {None}, src : Files]
                      \cup [at : {"add"}, doc : Docs, src : Files]

Rest == /\ file \in [Files -> Content] /\ script \in Scripts
        /\ phase \in {"reading", "serving", "stopped"}
        /\ unread \subseteq Files /\ read \subseteq Kept
        /\ events \subseteq Files /\ watch \in Watching
        /\ edits \in 0 .. MaxEdits /\ saves \in 0 .. MaxSaves
        /\ missed \subseteq Files /\ hurt \subseteq Files /\ said \in [Files -> SUBSET Names]

TypeInv ==
    /\ Rest
    /\ coll \in [Ref -> Kept \cup {None}]
    /\ save \in [Savers -> Request]
    /\ \A s \in Savers : save[s].key \in Ref /\ save[s].there => coll[save[s].key] # None

-----------------------------------------------------------------------------
LEMMA Documents ==
    /\ Docs \subseteq Doc /\ None \notin Docs /\ None \notin Files
    /\ Empty \notin Doc /\ Mixed \notin Doc /\ None \notin Doc
    /\ \A d \in Doc : d.ref \in Ref /\ NameOf(d) \in Names
    /\ \A d \in Content : d \in Doc => d \in Docs
    /\ \A o \in Kept : o # None /\ o.doc \in Docs /\ o.src \in Homes \cup {None}
    /\ \A d \in Docs, f \in Files : Object(d, SourceOf(f)) \in Kept
<1>1. Docs \subseteq Doc /\ None \notin Doc /\ None \notin Files /\ Empty \notin Doc /\ Mixed \notin Doc
  BY DevServerAssumption
<1>2. \A d \in Doc : d.ref \in Ref /\ NameOf(d) \in Names
  BY DEF Doc, Ref, NameOf
<1>3. \A o \in Kept : o # None /\ o.doc \in Docs /\ o.src \in Homes \cup {None}
  <2> SUFFICES ASSUME NEW o \in Kept PROVE o # None /\ o.doc \in Docs /\ o.src \in Homes \cup {None}
    OBVIOUS
  <2>1. o \in [doc : Doc, src : Files \cup {None}]
    BY <1>1 DEF Kept, Homes
  <2> QED BY <2>1, DevServerAssumption DEF Kept
<1>4. \A d \in Docs, f \in Files : Object(d, SourceOf(f)) \in Kept
  BY DEF Object, SourceOf, Kept, Homes
<1>5. \A d \in Content : d \in Doc => d \in Docs
  BY <1>1 DEF Content
<1> QED BY <1>1, <1>2, <1>3, <1>4, <1>5

\* Add keeps the types, whatever it adds.
LEMMA AddTyped ==
    ASSUME TypeInv, script' = script, NEW o \in Kept, Add(o.doc, o.src)
    PROVE  /\ coll' \in [Ref -> Kept \cup {None}]
           /\ save' \in [Savers -> Request]
           /\ \A s \in Savers : save'[s].key \in Ref /\ save'[s].there => coll'[save'[s].key] # None
<1> USE DEF TypeInv
<1>1. o.doc.ref \in Ref /\ Object(o.doc, o.src) \in Kept /\ o \in Kept
  BY Documents DEF Object, Kept
<1>2. coll' \in [Ref -> Kept \cup {None}]
  <2>1. coll' = [coll EXCEPT ![o.doc.ref] = Object(o.doc, o.src)]
    BY DEF Add
  <2>2. coll \in [Ref -> Kept \cup {None}]
    OBVIOUS
  <2> HIDE DEF TypeInv
  <2> QED BY <1>1, <2>1, <2>2
<1>3. ASSUME NEW s \in Savers
      PROVE  save'[s] \in Request /\ save'[s].key = save[s].key /\ (save'[s].there => save[s].there)
  <2>1. CASE save[s].key = o.doc.ref
    <3>1. save'[s] = [save[s] EXCEPT !.there = FALSE]
      BY <2>1 DEF Add
    <3>2. CASE save[s] \in Resting
      BY <3>1, <3>2 DEF Resting, Request
    <3>3. CASE save[s] \in Asked
      BY <3>1, <3>3 DEF Asked, Request
    <3>4. CASE save[s] \in Found
      BY <3>1, <3>4 DEF Found, Request
    <3>5. CASE save[s] \in Opened
      BY <3>1, <3>5 DEF Opened, Request
    <3> QED BY <3>2, <3>3, <3>4, <3>5 DEF Request
  <2>2. CASE save[s].key # o.doc.ref
    BY <2>2 DEF Add
  <2> QED BY <2>1, <2>2
<1>4. \A r \in Ref : coll[r] # None => coll'[r] # None
  BY <1>1, <1>2, Documents DEF Add
<1>5. save' \in [Savers -> Request]
  <2>1. save' = [s \in Savers |-> save'[s]]
    BY DEF Add
  <2> QED BY <2>1, <1>3
<1> QED BY <1>2, <1>3, <1>4, <1>5

LEMMA SameHomes ==
    ASSUME script' = script
    PROVE  Homes' = Homes /\ Kept' = Kept /\ Request' = Request /\ Content' = Content
                          /\ Watching' = Watching
BY DEF Homes, Kept, Request, Resting, Asked, Found, Opened, Content, Watching, Ref, Waiting

\* A step that adds nothing, whose requests all get on without losing their object.
LEMMA StillTyped ==
    ASSUME TypeInv, script' = script, Rest', coll' \in [Ref -> Kept \cup {None}],
           \A r \in Ref : coll[r] # None => coll'[r] # None,
           save' \in [Savers -> Request],
           \A s \in Savers : save'[s].key \in Ref /\ save'[s].there =>
                                 \/ save'[s].key = save[s].key /\ save[s].there
                                 \/ coll[save'[s].key] # None
    PROVE  TypeInv'
<1>1. \A s \in Savers : save'[s].key \in Ref /\ save'[s].there => coll'[save'[s].key] # None
  BY DEF TypeInv
<1> QED BY <1>1, SameHomes DEF TypeInv, Ref

\* A request ends: it is idle.
LEMMA IdleTyped ==
    /\ Idle \in Request /\ Idle.there = FALSE
    /\ Idle.at = "idle" /\ Idle.src = None /\ Idle.alone = FALSE
BY DEF Idle, Request, Resting

\* One request gets on, or ends.
LEMMA OneTyped ==
    ASSUME TypeInv, script' = script, Rest', UNCHANGED coll,
           NEW s \in Savers, NEW r \in Request, save' = [save EXCEPT ![s] = r],
           r.there => (r.key = save[s].key /\ save[s].there) \/ coll[r.key] # None
    PROVE  TypeInv'
<1>1. save \in [Savers -> Request] /\ coll \in [Ref -> Kept \cup {None}]
  BY DEF TypeInv
<1>2. save' \in [Savers -> Request]
  BY <1>1
<1>3. ASSUME NEW t \in Savers, save'[t].key \in Ref, save'[t].there
      PROVE  (save'[t].key = save[t].key /\ save[t].there) \/ coll[save'[t].key] # None
  BY <1>1, <1>3
<1> QED BY <1>1, <1>2, <1>3, StillTyped

\* What another's write, or the user's, does to a request that has the file open.
LEMMA TouchedTyped ==
    ASSUME TypeInv, NEW t \in Savers, NEW f \in Files, Touching(f, t)
    PROVE  /\ save[t] \in Opened
           /\ [save[t] EXCEPT !.alone = FALSE] \in Opened
           /\ [save[t] EXCEPT !.alone = FALSE].key = save[t].key
           /\ [save[t] EXCEPT !.alone = FALSE].there = save[t].there
           /\ \A b \in BOOLEAN :
                LET r == [save[t] EXCEPT !.alone = FALSE, !.linked = @ /\ ~b] IN
                r \in Opened /\ r.key = save[t].key /\ r.there = save[t].there
<1>1. save[t] \in Opened
  BY DEF TypeInv, Touching, Request, Resting, Asked, Found
<1> QED BY <1>1 DEF Opened

LEMMA Stages ==
    ASSUME TypeInv, NEW s \in Savers
    PROVE  /\ At(s, "find") => save[s] \in Asked
           /\ At(s, "open") => save[s] \in Found
           /\ At(s, "write") \/ At(s, "set") => save[s] \in Opened
BY DEF TypeInv, At, Request, Resting, Asked, Found, Opened

LEMMA TypeInvNext == TypeInv /\ [Next]_vars => TypeInv'
<1> SUFFICES ASSUME TypeInv, [Next]_vars PROVE TypeInv'
  OBVIOUS
<1>0. script' = script
  BY DEF Next, Startup, Watch, Save, ReadFile, Collect, RunScript, Serve, Receive, Reload, Update, Begin,
         Lookup, Open, Write, WriteFails, SetRaw, Edit, Stop, vars
<1>a. /\ file \in [Files -> Content] /\ coll \in [Ref -> Kept \cup {None}] /\ save \in [Savers -> Request]
      /\ read \subseteq Kept /\ watch \in Watching
  BY DEF TypeInv, Rest
<1>b. /\ Homes' = Homes /\ Kept' = Kept /\ Content' = Content /\ Watching' = Watching
  BY <1>0, SameHomes
<1>c. ASSUME Rest', UNCHANGED <<coll, save>> PROVE TypeInv'
  BY <1>0, <1>a, <1>c, StillTyped DEF TypeInv
<1>d. ASSUME Rest', NEW o \in Kept, Add(o.doc, o.src) PROVE TypeInv'
  BY <1>0, <1>d, AddTyped, SameHomes DEF TypeInv, Ref
<1>1. ASSUME NEW f \in Files, ReadFile(f) PROVE TypeInv'
  <2>1. read' \subseteq Kept
    BY <1>1, <1>a, Documents DEF ReadFile
  <2>2. Rest'
    BY <1>1, <2>1, <1>b DEF ReadFile, Rest, TypeInv, bounds, Waiting
  <2> QED BY <1>1, <2>2, <1>c DEF ReadFile
<1>2. ASSUME NEW o \in read, Collect(o) PROVE TypeInv'
  <2>1. Rest'
    BY <1>2, <1>b DEF Collect, Rest, TypeInv, bounds
  <2> QED BY <1>2, <1>a, <1>d, <2>1 DEF Collect
<1>3. CASE RunScript
  <2>1. Rest'
    BY <1>3, <1>b DEF RunScript, Rest, TypeInv, bounds
  <2>2. script \in Files
    BY <1>3 DEF RunScript, TypeInv, Rest
  <2>3. CASE file[script] \in Doc
    <3> DEFINE o == Object(file[script], SourceOf(script))
    <3>1. o \in Kept /\ o.doc = file[script] /\ o.src = SourceOf(script)
      BY <2>2, <2>3, <1>a, Documents DEF Object
    <3>2. Add(o.doc, o.src)
      BY <1>3, <2>3, <3>1 DEF RunScript
    <3> HIDE DEF o
    <3> QED BY <2>1, <3>1, <3>2, <1>d
  <2>4. CASE file[script] \notin Doc
    BY <1>3, <2>1, <2>4, <1>c DEF RunScript
  <2> QED BY <2>3, <2>4
<1>4. CASE Serve
  <2>1. Rest'
    BY <1>4, <1>b DEF Serve, Rest, TypeInv, bounds, readers
  <2> QED BY <1>4, <2>1, <1>c DEF Serve
<1>5. ASSUME NEW f \in Files, Receive(f) PROVE TypeInv'
  <2>1. watch' \in Watching
    <3>1. (IF script = None THEN f ELSE script) \in Files
      BY DevServerAssumption DEF TypeInv, Rest
    <3> QED BY <1>5, <3>1 DEF Receive, Watching
  <2>2. Rest'
    BY <1>5, <2>1, <1>b DEF Receive, Rest, TypeInv, bounds, readers
  <2> QED BY <1>5, <2>2, <1>c DEF Receive
<1>6. CASE Reload
  <2>1. watch \in [at : {"read"}, doc : {None}, src : Files]
    BY <1>6, <1>a DEF Reload, Watching, Waiting
  <2>2. watch' \in Watching
    <3>1. file[watch.src] \in Doc => file[watch.src] \in Docs
      BY <2>1, <1>a, Documents
    <3> QED BY <1>6, <2>1, <3>1 DEF Reload, Watching
  <2>3. Rest'
    BY <1>6, <2>2, <1>b DEF Reload, Rest, TypeInv, bounds, readers
  <2> QED BY <1>6, <2>3, <1>c DEF Reload
<1>7. CASE Update
  <2>1. watch \in [at : {"add"}, doc : Docs, src : Files]
    BY <1>7, <1>a DEF Update, Watching, Waiting
  <2>2. Rest'
    BY <1>7, <1>b DEF Update, Rest, TypeInv, bounds, readers, Watching
  <2> DEFINE o == Object(watch.doc, SourceOf(watch.src))
  <2>3. o \in Kept /\ o.doc = watch.doc /\ o.src = SourceOf(watch.src)
    BY <2>1, Documents DEF Object
  <2>4. Add(o.doc, o.src)
    BY <1>7, <2>3 DEF Update
  <2> HIDE DEF o
  <2> QED BY <2>2, <2>3, <2>4, <1>d
<1>8. ASSUME NEW s \in Savers, Begin(s) PROVE TypeInv'
  <2>1. PICK n \in Names : \E d \in {x \in Docs : NameOf(x) = n} \cup {None} :
          save' = [save EXCEPT ![s] = [Idle EXCEPT !.at = "find", !.name = n, !.doc = d]]
    BY <1>8 DEF Begin
  <2>2. PICK d \in Docs \cup {None} :
          save' = [save EXCEPT ![s] = [Idle EXCEPT !.at = "find", !.name = n, !.doc = d]]
    BY <2>1
  <2> DEFINE r == [Idle EXCEPT !.at = "find", !.name = n, !.doc = d]
  <2>3. r \in Request /\ ~r.there
    BY DEF Idle, Asked, Request
  <2>4. Rest'
    BY <1>8, <1>b, DevServerAssumption DEF Begin, Rest, TypeInv, readers
  <2>5. UNCHANGED coll /\ save' = [save EXCEPT ![s] = r]
    BY <1>8, <2>2 DEF Begin
  <2> HIDE DEF r
  <2> QED BY <1>0, <2>3, <2>4, <2>5, OneTyped
<1>e. ASSUME NEW s \in Savers, End(s), Rest', UNCHANGED coll PROVE TypeInv'
  BY <1>0, <1>e, IdleTyped, OneTyped DEF End
<1>9. ASSUME NEW s \in Savers, Lookup(s) PROVE TypeInv'
  <2>1. Rest' /\ UNCHANGED coll
    BY <1>9, <1>b DEF Lookup, Rest, TypeInv, bounds, readers
  <2>2. CASE End(s)
    BY <2>1, <2>2, <1>e
  <2>3. CASE ~End(s)
    <3>1. PICK r \in Find(save[s].name) :
            /\ coll[r].src # None
            /\ save' = [save EXCEPT ![s].at = "open", ![s].key = r,
                                    ![s].src = coll[r].src, ![s].there = TRUE]
      BY <1>9, <2>3 DEF Lookup
    <3>2. r \in Ref /\ coll[r] # None /\ coll[r].src \in Homes
      BY <3>1, <1>a, Documents DEF Find
    <3> DEFINE q == [save[s] EXCEPT !.at = "open", !.key = r, !.src = coll[r].src, !.there = TRUE]
    <3>3. save[s] \in Asked
      BY <1>9, Stages DEF Lookup
    <3>4. q \in Found /\ q.key = r
      BY <3>2, <3>3 DEF Asked, Found
    <3>5. save' = [save EXCEPT ![s] = q]
      BY <3>1
    <3>6. q \in Request
      BY <3>4 DEF Request
    <3> HIDE DEF q
    <3> QED BY <1>0, <2>1, <3>2, <3>4, <3>5, <3>6, OneTyped
  <2> QED BY <2>2, <2>3
<1>10. ASSUME NEW s \in Savers, Open(s) PROVE TypeInv'
  <2>1. save[s] \in Found /\ UNCHANGED coll
    BY <1>10, Stages DEF Open
  <2>2. save[s].src \in Files
    BY <2>1 DEF Found, Homes
  <2>3. Rest'
    BY <1>10, <2>2, <1>b DEF Open, Rest, TypeInv, bounds, readers, Content
  <2>4. CASE End(s)
    BY <2>1, <2>3, <2>4, <1>e
  <2>5. CASE ~End(s)
    <3> DEFINE f == save[s].src
               r == [save[s] EXCEPT !.at = "write", !.linked = TRUE, !.alone = TRUE]
    <3>1. /\ save[s].doc # None
          /\ save' = [t \in Savers |->
               IF t = s THEN r ELSE IF Touching(f, t) THEN [save[t] EXCEPT !.alone = FALSE] ELSE save[t]]
      BY <1>10, <2>5 DEF Open
    <3>2. r \in Opened /\ r.key = save[s].key /\ r.there = save[s].there
      BY <2>1, <3>1 DEF Found, Opened
    <3>3. ASSUME NEW t \in Savers
          PROVE  save'[t] \in Request /\ save'[t].key = save[t].key /\ save'[t].there = save[t].there
      <4> HIDE DEF r
      <4> QED BY <1>a, <2>2, <3>1, <3>2, TouchedTyped DEF Request
    <3>4. save' \in [Savers -> Request]
      BY <3>1, <3>3
    <3> QED BY <1>0, <1>a, <2>1, <2>3, <3>3, <3>4, StillTyped
  <2> QED BY <2>4, <2>5
<1>11. ASSUME NEW s \in Savers, Write(s) PROVE TypeInv'
  <2>1. save[s] \in Opened /\ UNCHANGED coll
    BY <1>11, Stages DEF Write
  <2>2. save[s].src \in Files /\ save[s].doc \in Docs /\ NameOf(save[s].doc) \in Names
    BY <2>1, Documents DEF Opened, Homes
  <2> DEFINE f == save[s].src
             r == [save[s] EXCEPT !.at = "set"]
  <2>3. Rest'
    BY <1>11, <2>2, <1>b DEF Write, Rest, TypeInv, bounds, readers, Content
  <2>4. r \in Opened /\ r.key = save[s].key /\ r.there = save[s].there
    BY <2>1 DEF Opened
  <2>5. CASE save[s].linked
    <3>1. save' = [t \in Savers |->
             IF t = s THEN r ELSE IF Touching(f, t) THEN [save[t] EXCEPT !.alone = FALSE] ELSE save[t]]
      BY <1>11, <2>5 DEF Write
    <3>2. ASSUME NEW t \in Savers
          PROVE  save'[t] \in Request /\ save'[t].key = save[t].key /\ save'[t].there = save[t].there
      <4> HIDE DEF r
      <4> QED BY <1>a, <2>2, <3>1, <2>4, TouchedTyped DEF Request
    <3>3. save' \in [Savers -> Request]
      BY <3>1, <3>2
    <3> QED BY <1>0, <1>a, <2>1, <2>3, <3>2, <3>3, StillTyped
  <2>6. CASE ~save[s].linked
    <3>1. save' = [save EXCEPT ![s] = r]
      BY <1>11, <2>6 DEF Write
    <3>2. r \in Request
      BY <2>4 DEF Request
    <3> HIDE DEF r
    <3> QED BY <1>0, <2>1, <2>3, <2>4, <3>1, <3>2, OneTyped
  <2> QED BY <2>5, <2>6
<1>12. ASSUME NEW s \in Savers, WriteFails(s) PROVE TypeInv'
  <2>1. save[s].src \in Files
    BY <1>12, Stages DEF WriteFails, Opened, Homes
  <2>2. Rest'
    BY <1>12, <2>1, <1>b DEF WriteFails, Rest, TypeInv, bounds, readers
  <2> QED BY <1>12, <2>2, <1>e DEF WriteFails
<1>13. ASSUME NEW s \in Savers, SetRaw(s) PROVE TypeInv'
  <2>1. save[s] \in Opened
    BY <1>13, Stages DEF SetRaw
  <2>2. Rest'
    BY <1>13, <1>b DEF SetRaw, Rest, TypeInv, bounds, readers
  <2>3. coll' \in [Ref -> Kept \cup {None}] /\ \A r \in Ref : coll[r] # None => coll'[r] # None
    <3>1. CASE save[s].there
      <4> DEFINE k == save[s].key
                 o == [coll[k] EXCEPT !.doc = save[s].doc]
      <4>1. k \in Ref /\ coll[k] # None
        BY <2>1, <3>1 DEF TypeInv, Opened
      <4>2. o \in Kept
        BY <1>a, <2>1, <4>1 DEF Opened, Kept
      <4>3. coll' = [coll EXCEPT ![k] = o]
        BY <1>13, <3>1 DEF SetRaw
      <4> HIDE DEF o, k
      <4> QED BY <1>a, <4>1, <4>2, <4>3, Documents
    <3> QED BY <1>13, <1>a, <3>1 DEF SetRaw
  <2>4. save' \in [Savers -> Request]
    BY <1>13, <1>a, IdleTyped DEF SetRaw, End
  <2>5. ASSUME NEW t \in Savers, save'[t].there
        PROVE  save'[t].key = save[t].key /\ save[t].there
    BY <1>13, <1>a, <2>5, IdleTyped DEF SetRaw, End
  <2> QED BY <1>0, <2>2, <2>3, <2>4, <2>5, StillTyped
<1>14. ASSUME NEW f \in Files, Edit(f) PROVE TypeInv'
  <2>1. PICK d \in Docs \cup {None}, b \in BOOLEAN :
          /\ file' = [file EXCEPT ![f] = d]
          /\ said' = [said EXCEPT ![f] = @ \cup NameIn(d)]
          /\ save' = [t \in Savers |->
               IF Touching(f, t)
               THEN [save[t] EXCEPT !.alone = FALSE, !.linked = @ /\ ~b] ELSE save[t]]
    BY <1>14 DEF Edit
  <2>2. NameIn(d) \subseteq Names
    BY Documents DEF NameIn
  <2>3. file' \in [Files -> Content] /\ said' \in [Files -> SUBSET Names]
    BY <1>a, <2>1, <2>2 DEF Content, TypeInv, Rest
  <2>4. events' \subseteq Files /\ missed' \subseteq Files /\ hurt' \subseteq Files /\ edits' \in 0 .. MaxEdits
    <3>1. /\ events' \in {events, events \cup {f}} /\ hurt' = hurt \ {f}
          /\ missed' \in {missed, missed \cup {f}, missed \ {f}}
          /\ edits < MaxEdits /\ edits' = edits + 1
      BY <1>14 DEF Edit
    <3>2. events' \subseteq Files /\ missed' \subseteq Files /\ hurt' \subseteq Files
      BY <3>1 DEF TypeInv, Rest
    <3> QED BY <3>1, <3>2, DevServerAssumption DEF TypeInv, Rest
  <2>5. Rest'
    BY <1>14, <2>3, <2>4, <1>b DEF Edit, Rest, TypeInv, readers
  <2>6. ASSUME NEW t \in Savers
        PROVE  save'[t] \in Request /\ save'[t].key = save[t].key /\ save'[t].there = save[t].there
    <3>1. CASE Touching(f, t)
      BY <2>1, <3>1, TouchedTyped DEF Request
    <3>2. CASE ~Touching(f, t)
      BY <1>a, <2>1, <3>2
    <3> QED BY <3>1, <3>2
  <2>7. save' \in [Savers -> Request] /\ UNCHANGED coll
    BY <1>14, <2>1, <2>6 DEF Edit
  <2> QED BY <1>0, <1>a, <2>5, <2>6, <2>7, StillTyped
<1>15. CASE Stop
  <2>1. {save[s].src : s \in {t \in Savers : save[t].at = "write" /\ save[t].linked}} \subseteq Files
    BY <1>a DEF Request, Resting, Asked, Found, Opened, Homes
  <2>2. Rest'
    BY <1>15, <2>1, <1>b DEF Stop, Rest, TypeInv, bounds, readers, Watching
  <2>3. save' \in [Savers -> Request] /\ UNCHANGED coll /\ \A s \in Savers : save'[s] = Idle
    BY <1>15, IdleTyped DEF Stop
  <2> QED BY <1>0, <1>a, <2>2, <2>3, IdleTyped, StillTyped
<1>16. CASE UNCHANGED vars
  <2>1. Rest' /\ UNCHANGED <<coll, save>>
    BY <1>16, <1>b DEF vars, Rest, TypeInv, bounds, readers
  <2> QED BY <2>1, <1>c
<1> QED
  BY <1>1, <1>2, <1>3, <1>4, <1>5, <1>6, <1>7, <1>8, <1>9, <1>10, <1>11, <1>12, <1>13, <1>14, <1>15, <1>16
  DEF Next, Startup, Watch, Save

LEMMA TypeInvInit == Init => TypeInv
<1> SUFFICES ASSUME Init PROVE TypeInv
  OBVIOUS
<1>1. file \in [Files -> Docs \cup {None}] /\ file \in [Files -> Content] /\ script \in Scripts
  BY DevServerAssumption DEF Init, Content
<1>2. said \in [Files -> SUBSET Names]
  BY <1>1, Documents DEF Init, NameIn
<1>3. Rest
  BY <1>1, <1>2, DevServerAssumption DEF Init, Rest, Watching
<1>4. coll \in [Ref -> Kept \cup {None}] /\ save \in [Savers -> Request]
  BY IdleTyped DEF Init
<1>5. \A s \in Savers : ~save[s].there
  BY IdleTyped DEF Init
<1> QED BY <1>3, <1>4, <1>5 DEF TypeInv

\* The types hold, and only a resource that came from a file has one to be saved to.
THEOREM TypesHold == Spec => []TypeOK
<1>1. TypeInv => TypeOK
  <2> SUFFICES ASSUME TypeInv PROVE TypeOK
    OBVIOUS
  <2>1. read \subseteq [doc : Docs, src : Files \cup {None}]
    BY DEF TypeInv, Rest, Kept, Homes
  <2>2. coll \in [Ref -> [doc : Docs, src : Files \cup {None}] \cup {None}]
    BY DEF TypeInv, Kept, Homes
  <2>3. watch = Waiting \/ watch \in [at : {"read", "add"}, doc : Docs \cup {None}, src : Files]
    BY DEF TypeInv, Rest, Watching
  <2>4. \A s \in Savers :
          \/ save[s].at \in {"idle", "find"} /\ save[s].src = None
          \/ save[s].at \in {"open", "write", "set"} /\ save[s].src \in Files \ {script}
    BY DEF TypeInv, Request, Resting, Asked, Found, Opened, Homes
  <2> QED BY <2>1, <2>2, <2>3, <2>4 DEF TypeInv, Rest, TypeOK, Content
<1> QED BY <1>1, TypeInvInit, TypeInvNext, PTL DEF Spec

-----------------------------------------------------------------------------
DiskInv ==
    /\ \A f \in Files : file[f] \in {Empty, Mixed} =>
          \/ f \in hurt
          \/ \E s \in Savers : save[s].at = "write" /\ save[s].linked /\ save[s].src = f
    /\ \A s \in Savers : save[s].at = "write" /\ save[s].alone =>
          save[s].linked /\ file[save[s].src] = Empty
    /\ SavedIsOnDisk

\* A step that leaves the files alone and opens none; a request that has one open keeps
\* it, or leaves it hurt.
LEMMA DiskCalm ==
    ASSUME DiskInv, UNCHANGED file, hurt \subseteq hurt',
           \A t \in Savers : save'[t].at \in {"write", "set"} =>
                /\ save'[t].at = save[t].at /\ save'[t].src = save[t].src
                /\ save'[t].doc = save[t].doc
                /\ save'[t].linked = save[t].linked /\ save'[t].alone = save[t].alone,
           \A t \in Savers : save[t].at = "write" /\ save[t].linked =>
                \/ save'[t].at = "write" /\ save'[t].linked /\ save'[t].src = save[t].src
                \/ save[t].src \in hurt'
    PROVE  DiskInv'
<1>1. \A f \in Files : file'[f] \in {Empty, Mixed} =>
          \/ f \in hurt'
          \/ \E s \in Savers : save'[s].at = "write" /\ save'[s].linked /\ save'[s].src = f
  BY DEF DiskInv
<1>2. \A s \in Savers : save'[s].at = "write" /\ save'[s].alone =>
          save'[s].linked /\ file'[save'[s].src] = Empty
  BY DEF DiskInv
<1>3. SavedIsOnDisk'
  BY DEF DiskInv, SavedIsOnDisk
<1> QED BY <1>1, <1>2, <1>3 DEF DiskInv

\* Replacing an object changes nothing of a request but what it says of the object.
LEMMA AddCalm ==
    ASSUME TypeInv, NEW o \in Kept, Add(o.doc, o.src), NEW t \in Savers
    PROVE  /\ save'[t].at = save[t].at /\ save'[t].src = save[t].src
           /\ save'[t].doc = save[t].doc /\ save'[t].name = save[t].name
           /\ save'[t].linked = save[t].linked /\ save'[t].alone = save[t].alone
           /\ save'[t].key = save[t].key /\ (save'[t].there => save[t].there)
<1>1. save[t] \in Request
  BY DEF TypeInv
<1>2. CASE save[t].key = o.doc.ref
  <2>1. save'[t] = [save[t] EXCEPT !.there = FALSE]
    BY <1>2 DEF Add
  <2> QED BY <1>1, <2>1 DEF Request, Resting, Asked, Found, Opened
<1>3. CASE save[t].key # o.doc.ref
  BY <1>3 DEF Add
<1> QED BY <1>2, <1>3

\* A write to the file of a request takes from it only that it is alone.
LEMMA WriteDisturbs ==
    ASSUME TypeInv, NEW t \in Savers, NEW f \in Files,
           save'[t] = IF Touching(f, t) THEN [save[t] EXCEPT !.alone = FALSE] ELSE save[t]
    PROVE  /\ save'[t].at = save[t].at /\ save'[t].src = save[t].src /\ save'[t].doc = save[t].doc
           /\ save'[t].linked = save[t].linked
           /\ save'[t].alone => save[t].alone /\ ~Touching(f, t)
<1>1. CASE Touching(f, t)
  <2>1. save[t] \in Opened /\ save'[t] = [save[t] EXCEPT !.alone = FALSE]
    BY <1>1, TouchedTyped
  <2> QED BY <2>1 DEF Opened
<1>2. CASE ~Touching(f, t)
  BY <1>2
<1> QED BY <1>1, <1>2

LEMMA DiskNext == TypeInv /\ DiskInv /\ [Next]_vars => DiskInv'
<1> SUFFICES ASSUME TypeInv, DiskInv, [Next]_vars PROVE DiskInv'
  OBVIOUS
<1>a. /\ file \in [Files -> Content] /\ save \in [Savers -> Request] /\ read \subseteq Kept
  BY DEF TypeInv, Rest
<1>b. ASSUME UNCHANGED <<file, hurt, save>> PROVE DiskInv'
  BY <1>b, DiskCalm
<1>c. ASSUME UNCHANGED <<file, hurt>>, NEW o \in Kept, Add(o.doc, o.src) PROVE DiskInv'
  BY <1>c, AddCalm, DiskCalm
<1>d. ASSUME NEW s \in Savers, NEW r \in Request, r.at \notin {"write", "set"}, UNCHANGED file,
             save' = [save EXCEPT ![s] = r], hurt \subseteq hurt',
             save[s].at # "write" \/ ~save[s].linked \/ save[s].src \in hurt'
      PROVE  DiskInv'
  BY <1>a, <1>d, DiskCalm
<1>1. ASSUME NEW f \in Files, ReadFile(f) PROVE DiskInv'
  BY <1>1, <1>b DEF ReadFile
<1>2. ASSUME NEW o \in read, Collect(o) PROVE DiskInv'
  BY <1>2, <1>a, <1>c DEF Collect
<1>3. CASE RunScript
  <2>1. CASE file[script] \in Doc
    <3> DEFINE o == Object(file[script], SourceOf(script))
    <3>1. o \in Kept /\ o.doc = file[script] /\ o.src = SourceOf(script)
      BY <1>3, <2>1, <1>a, Documents DEF Object, RunScript, TypeInv, Rest
    <3>2. Add(o.doc, o.src)
      BY <1>3, <2>1, <3>1 DEF RunScript
    <3> HIDE DEF o
    <3> QED BY <1>3, <3>1, <3>2, <1>c DEF RunScript
  <2>2. CASE file[script] \notin Doc
    BY <1>3, <2>2, <1>b DEF RunScript
  <2> QED BY <2>1, <2>2
<1>4. CASE Serve \/ (\E f \in Files : Receive(f)) \/ Reload
  BY <1>4, <1>b DEF Serve, Receive, Reload
<1>5. CASE Update
  <2>1. watch \in [at : {"add"}, doc : Docs, src : Files]
    BY <1>5 DEF TypeInv, Rest, Update, Watching, Waiting
  <2> DEFINE o == Object(watch.doc, SourceOf(watch.src))
  <2>2. o \in Kept /\ o.doc = watch.doc /\ o.src = SourceOf(watch.src)
    BY <2>1, Documents DEF Object
  <2>3. Add(o.doc, o.src)
    BY <1>5, <2>2 DEF Update
  <2> HIDE DEF o
  <2> QED BY <1>5, <2>2, <2>3, <1>c DEF Update
<1>6. ASSUME NEW s \in Savers, Begin(s) PROVE DiskInv'
  <2>1. PICK n \in Names : \E d \in {x \in Docs : NameOf(x) = n} \cup {None} :
          save' = [save EXCEPT ![s] = [Idle EXCEPT !.at = "find", !.name = n, !.doc = d]]
    BY <1>6 DEF Begin
  <2>2. PICK d \in Docs \cup {None} :
          save' = [save EXCEPT ![s] = [Idle EXCEPT !.at = "find", !.name = n, !.doc = d]]
    BY <2>1
  <2> DEFINE r == [Idle EXCEPT !.at = "find", !.name = n, !.doc = d]
  <2>3. r \in Request /\ r.at = "find"
    BY DEF Idle, Asked, Request
  <2>4. save' = [save EXCEPT ![s] = r] /\ UNCHANGED <<file, hurt>> /\ save[s].at = "idle"
    BY <1>6, <2>2 DEF Begin
  <2> HIDE DEF r
  <2> QED BY <2>3, <2>4, <1>d
<1>7. ASSUME NEW s \in Savers, Lookup(s) PROVE DiskInv'
  <2>1. save[s] \in Asked /\ UNCHANGED <<file, hurt>>
    BY <1>7, Stages DEF Lookup
  <2>2. CASE End(s)
    BY <2>1, <2>2, <1>d, IdleTyped DEF End, Asked
  <2>3. CASE ~End(s)
    <3>1. PICK r \in Find(save[s].name) :
            save' = [save EXCEPT ![s].at = "open", ![s].key = r,
                                 ![s].src = coll[r].src, ![s].there = TRUE]
      BY <1>7, <2>3 DEF Lookup
    <3>2. save'[s].at = "open" /\ \A t \in Savers \ {s} : save'[t] = save[t]
      BY <1>a, <2>1, <3>1 DEF Asked
    <3> QED BY <2>1, <3>2, DiskCalm DEF Asked
  <2> QED BY <2>2, <2>3
<1>8. ASSUME NEW s \in Savers, WriteFails(s) PROVE DiskInv'
  BY <1>8, <1>d, IdleTyped DEF WriteFails, End
<1>9. ASSUME NEW s \in Savers, SetRaw(s) PROVE DiskInv'
  BY <1>9, <1>d, IdleTyped DEF SetRaw, End, At
<1>10. CASE Stop
  <2>1. \A t \in Savers : save'[t] = Idle
    BY <1>10 DEF Stop
  <2>2. \A t \in Savers : save[t].at = "write" /\ save[t].linked => save[t].src \in hurt'
    BY <1>10 DEF Stop
  <2> QED BY <1>10, <2>1, <2>2, IdleTyped, DiskCalm DEF Stop
<1>11. CASE UNCHANGED vars
  BY <1>11, <1>b DEF vars
<1>12. ASSUME NEW s \in Savers, Open(s) PROVE DiskInv'
  <2> DEFINE f == save[s].src
             r == [save[s] EXCEPT !.at = "write", !.linked = TRUE, !.alone = TRUE]
  <2>1. save[s] \in Found /\ f \in Files
    BY <1>12, Stages DEF Open, Found, Homes
  <2>2. CASE UNCHANGED file /\ End(s)
    BY <1>12, <2>1, <2>2, <1>d, IdleTyped DEF Open, End, Found
  <2>3. CASE ~(UNCHANGED file /\ End(s))
    <3>1. /\ file' = [file EXCEPT ![f] = Empty] /\ UNCHANGED hurt
          /\ save' = [t \in Savers |->
               IF t = s THEN r ELSE IF Touching(f, t) THEN [save[t] EXCEPT !.alone = FALSE] ELSE save[t]]
      BY <1>12, <2>3 DEF Open
    <3>2. r.at = "write" /\ r.linked /\ r.src = f
      BY <2>1 DEF Found
    <3>3. ASSUME NEW t \in Savers, t # s
          PROVE  /\ save'[t].at = save[t].at /\ save'[t].src = save[t].src /\ save'[t].doc = save[t].doc
                 /\ save'[t].linked = save[t].linked
                 /\ save'[t].alone => save[t].alone /\ ~Touching(f, t)
      <4>1. save'[t] = IF Touching(f, t) THEN [save[t] EXCEPT !.alone = FALSE] ELSE save[t]
        BY <3>1, <3>3
      <4> HIDE DEF r, f
      <4> QED BY <2>1, <4>1, WriteDisturbs
    <3>4. save'[s].at = "write" /\ save'[s].linked /\ save'[s].src = f
      BY <3>1, <3>2
    <3> HIDE DEF r, f
    <3>5. \A g \in Files : file'[g] \in {Empty, Mixed} =>
             g \in hurt' \/ \E t \in Savers : save'[t].at = "write" /\ save'[t].linked /\ save'[t].src = g
      <4> SUFFICES ASSUME NEW g \in Files, file'[g] \in {Empty, Mixed}, g \notin hurt', g # f
                   PROVE  \E t \in Savers : save'[t].at = "write" /\ save'[t].linked /\ save'[t].src = g
        BY <3>4
      <4>1. file[g] \in {Empty, Mixed} /\ g \notin hurt
        BY <1>a, <3>1
      <4>2. PICK t \in Savers : save[t].at = "write" /\ save[t].linked /\ save[t].src = g
        BY <4>1 DEF DiskInv
      <4>3. t # s
        BY <2>1, <4>2 DEF Found
      <4> QED BY <3>3, <4>2, <4>3
    <3>6. ASSUME NEW t \in Savers, save'[t].at = "write", save'[t].alone
          PROVE  save'[t].linked /\ file'[save'[t].src] = Empty
      BY <1>a, <2>1, <3>1, <3>3, <3>4, <3>6 DEF DiskInv, Touching
    <3>7. ASSUME NEW t \in Savers, save'[t].at = "set", save'[t].alone
          PROVE  file'[save'[t].src] = save'[t].doc
      BY <1>a, <2>1, <3>1, <3>3, <3>4, <3>7 DEF DiskInv, SavedIsOnDisk, Touching
    <3> QED BY <3>5, <3>6, <3>7 DEF DiskInv, SavedIsOnDisk
  <2> QED BY <2>2, <2>3
<1>13. ASSUME NEW s \in Savers, Write(s) PROVE DiskInv'
  <2> DEFINE f == save[s].src
             d == save[s].doc
             r == [save[s] EXCEPT !.at = "set"]
  <2>1. save[s] \in Opened /\ f \in Files /\ save[s].at = "write" /\ d \in Docs
    BY <1>13, Stages DEF Write, At, Opened, Homes
  <2>2. r.at = "set" /\ r.src = f /\ r.doc = d /\ r.alone = save[s].alone /\ r.linked = save[s].linked
    BY <2>1 DEF Opened
  <2>3. CASE ~save[s].linked
    <3>1. /\ UNCHANGED <<file, hurt>> /\ save' = [save EXCEPT ![s] = r]
          /\ ~save[s].alone
      BY <1>13, <2>1, <2>3 DEF Write, DiskInv
    <3> HIDE DEF r, f, d
    <3>2. \A t \in Savers \ {s} : save'[t] = save[t]
      BY <1>a, <3>1
    <3>3. save'[s].at = "set" /\ ~save'[s].alone
      BY <1>a, <2>2, <3>1
    <3> QED BY <2>3, <3>1, <3>2, <3>3 DEF DiskInv, SavedIsOnDisk
  <2>4. CASE save[s].linked
    <3>1. PICK c \in (IF file[f] = Empty THEN {d} ELSE {d, Mixed}) :
            /\ file' = [file EXCEPT ![f] = c]
            /\ hurt' = IF c = Mixed THEN hurt \cup {f} ELSE hurt \ {f}
      BY <1>13, <2>4 DEF Write
    <3>2. save' = [t \in Savers |->
             IF t = s THEN r ELSE IF Touching(f, t) THEN [save[t] EXCEPT !.alone = FALSE] ELSE save[t]]
      BY <1>13, <2>4 DEF Write
    <3>3. ASSUME NEW t \in Savers, t # s
          PROVE  /\ save'[t].at = save[t].at /\ save'[t].src = save[t].src /\ save'[t].doc = save[t].doc
                 /\ save'[t].linked = save[t].linked
                 /\ save'[t].alone => save[t].alone /\ ~Touching(f, t)
      <4>1. save'[t] = IF Touching(f, t) THEN [save[t] EXCEPT !.alone = FALSE] ELSE save[t]
        BY <3>2, <3>3
      <4> HIDE DEF r, f
      <4> QED BY <2>1, <4>1, WriteDisturbs
    <3>4. /\ save'[s].at = "set" /\ save'[s].src = f /\ save'[s].doc = d
          /\ save'[s].alone = save[s].alone
      BY <2>2, <3>2
    <3>5. file'[f] = c /\ \A g \in Files \ {f} : file'[g] = file[g]
      BY <1>a, <2>1, <3>1
    <3>6. c \in {Empty, Mixed} => f \in hurt'
      BY <2>1, <3>1, Documents
    <3>7. \A g \in Files \ {f} : g \in hurt <=> g \in hurt'
      BY <3>1
    <3>8. save[s].alone => c = d
      BY <2>1, <3>1 DEF DiskInv
    <3> HIDE DEF r, f, d
    <3>9. \A g \in Files : file'[g] \in {Empty, Mixed} =>
             g \in hurt' \/ \E t \in Savers : save'[t].at = "write" /\ save'[t].linked /\ save'[t].src = g
      <4> SUFFICES ASSUME NEW g \in Files, file'[g] \in {Empty, Mixed}, g \notin hurt', g # f
                   PROVE  \E t \in Savers : save'[t].at = "write" /\ save'[t].linked /\ save'[t].src = g
        BY <3>5, <3>6
      <4>1. PICK t \in Savers : save[t].at = "write" /\ save[t].linked /\ save[t].src = g
        BY <3>5, <3>7 DEF DiskInv
      <4>2. t # s
        BY <4>1 DEF f
      <4> QED BY <3>3, <4>1, <4>2
    <3>10. ASSUME NEW t \in Savers, save'[t].at = "write", save'[t].alone
           PROVE  save'[t].linked /\ file'[save'[t].src] = Empty
      <4>1. t # s /\ save[t].at = "write" /\ save[t].alone /\ save[t].src # f
        BY <3>3, <3>4, <3>10 DEF Touching
      <4>2. save[t].src \in Files
        BY <1>a, <4>1 DEF Request, Resting, Asked, Found, Opened, Homes
      <4> QED BY <3>3, <3>5, <4>1, <4>2 DEF DiskInv
    <3>11. ASSUME NEW t \in Savers, save'[t].at = "set", save'[t].alone
           PROVE  file'[save'[t].src] = save'[t].doc
      <4>1. CASE t = s
        BY <3>4, <3>5, <3>8, <3>11, <4>1
      <4>2. CASE t # s
        <5>1. save[t].at = "set" /\ save[t].alone /\ save[t].src # f
          BY <3>3, <3>11, <4>2 DEF Touching
        <5>2. save[t].src \in Files
          BY <1>a, <5>1 DEF Request, Resting, Asked, Found, Opened, Homes
        <5> QED BY <3>3, <3>5, <4>2, <5>1, <5>2 DEF DiskInv, SavedIsOnDisk
      <4> QED BY <4>1, <4>2
    <3> QED BY <3>9, <3>10, <3>11 DEF DiskInv, SavedIsOnDisk
  <2> QED BY <2>3, <2>4
<1>14. ASSUME NEW f \in Files, Edit(f) PROVE DiskInv'
  <2>1. PICK d \in Docs \cup {None}, b \in BOOLEAN :
          /\ file' = [file EXCEPT ![f] = d]
          /\ save' = [t \in Savers |->
               IF Touching(f, t)
               THEN [save[t] EXCEPT !.alone = FALSE, !.linked = @ /\ ~b] ELSE save[t]]
    BY <1>14 DEF Edit
  <2>2. hurt' = hurt \ {f}
    BY <1>14 DEF Edit
  <2>3. file'[f] \notin {Empty, Mixed} /\ \A g \in Files \ {f} : file'[g] = file[g]
    BY <1>a, <2>1, Documents, DevServerAssumption
  <2>4. ASSUME NEW t \in Savers, ~Touching(f, t) PROVE save'[t] = save[t]
    BY <2>1, <2>4
  <2>5. ASSUME NEW t \in Savers, Touching(f, t) PROVE ~save'[t].alone
    <3>1. save'[t] = [save[t] EXCEPT !.alone = FALSE, !.linked = @ /\ ~b]
      BY <2>1, <2>5
    <3>2. save[t] \in Opened
      BY <2>5, TouchedTyped
    <3> QED BY <3>1, <3>2 DEF Opened
  <2>6. \A g \in Files : file'[g] \in {Empty, Mixed} =>
           g \in hurt' \/ \E t \in Savers : save'[t].at = "write" /\ save'[t].linked /\ save'[t].src = g
    BY <2>2, <2>3, <2>4 DEF DiskInv, Touching
  <2>7. ASSUME NEW t \in Savers, save'[t].at \in {"write", "set"}, save'[t].alone
        PROVE  /\ save'[t] = save[t] /\ file'[save'[t].src] = file[save[t].src]
    <3>1. ~Touching(f, t)
      BY <2>5, <2>7
    <3>2. save'[t] = save[t]
      BY <2>4, <3>1
    <3>3. save[t].src \in Files /\ save[t].src # f
      BY <1>a, <2>7, <3>1, <3>2 DEF Request, Resting, Asked, Found, Opened, Homes, Touching
    <3> QED BY <2>3, <3>2, <3>3
  <2> QED BY <2>6, <2>7 DEF DiskInv, SavedIsOnDisk
<1> QED
  BY <1>1, <1>2, <1>3, <1>4, <1>5, <1>6, <1>7, <1>8, <1>9, <1>10, <1>11, <1>12, <1>13, <1>14
  DEF Next, Startup, Watch, Save

-----------------------------------------------------------------------------
\* What a request knows of the resource it saves.
SaveSaid(s) ==
    /\ save[s].src # None => save[s].name \in said[save[s].src]
    /\ save[s].doc # None => NameOf(save[s].doc) = save[s].name
    /\ save[s].key \in Ref /\ save[s].there => save[s].key[1] = save[s].name

CollSaid(r) ==
    coll[r] # None => /\ NameOf(coll[r].doc) = r[1]
                      /\ coll[r].src # None => r[1] \in said[coll[r].src]

SaidInv ==
    /\ \A f \in Files : file[f] \in Doc => NameOf(file[f]) \in said[f]
    /\ \A o \in read : o.src # None => NameOf(o.doc) \in said[o.src]
    /\ watch.at = "add" => NameOf(watch.doc) \in said[watch.src]
    /\ \A r \in Ref : CollSaid(r)
    /\ \A s \in Savers : SaveSaid(s)

\* A step that adds nothing to memory, when what files say has only grown.
LEMMA SaidCalm ==
    ASSUME TypeInv, SaidInv, \A f \in Files : said[f] \subseteq said'[f],
           \A f \in Files : file'[f] \in Doc => NameOf(file'[f]) \in said'[f],
           read' \subseteq read, watch' = watch \/ watch'.at # "add", UNCHANGED coll,
           \A s \in Savers : \/ /\ save'[s].src = save[s].src /\ save'[s].name = save[s].name
                                /\ save'[s].doc = save[s].doc /\ save'[s].key = save[s].key
                                /\ save'[s].there => save[s].there
                             \/ SaveSaid(s)'
    PROVE  SaidInv'
<1>1. /\ \A o \in read : o.src \in Files \cup {None}
      /\ \A r \in Ref : coll[r] # None => coll[r].src \in Files \cup {None}
      /\ watch.at = "add" => watch.src \in Files
      /\ \A s \in Savers : save[s].src \in Files \cup {None}
  <2>1. \A o \in read : o.src \in Files \cup {None}
    BY DEF TypeInv, Rest, Kept, Homes
  <2>2. \A r \in Ref : coll[r] # None => coll[r].src \in Files \cup {None}
    BY DEF TypeInv, Kept, Homes
  <2>3. watch.at = "add" => watch.src \in Files
    BY DEF TypeInv, Rest, Watching, Waiting
  <2>4. \A s \in Savers : save[s].src \in Files \cup {None}
    BY DEF TypeInv, Request, Resting, Asked, Found, Opened, Homes
  <2> QED BY <2>1, <2>2, <2>3, <2>4
<1>2. \A o \in read' : o.src # None => NameOf(o.doc) \in said'[o.src]
  BY <1>1 DEF SaidInv
<1>3. watch'.at = "add" => NameOf(watch'.doc) \in said'[watch'.src]
  BY <1>1 DEF SaidInv
<1>4. ASSUME NEW r \in Ref PROVE CollSaid(r)'
  BY <1>1 DEF SaidInv, CollSaid
<1>5. ASSUME NEW s \in Savers PROVE SaveSaid(s)'
  <2>1. CASE SaveSaid(s)'
    BY <2>1
  <2>2. CASE ~SaveSaid(s)'
    <3>1. /\ save'[s].src = save[s].src /\ save'[s].name = save[s].name
          /\ save'[s].doc = save[s].doc /\ save'[s].key = save[s].key
          /\ save'[s].there => save[s].there
      BY <2>2
    <3>2. SaveSaid(s)
      BY DEF SaidInv
    <3> QED BY <1>1, <3>1, <3>2 DEF SaveSaid, Ref
  <2> QED BY <2>1, <2>2
<1> QED BY <1>2, <1>3, <1>4, <1>5 DEF SaidInv, Ref

\* Adding what a file has said, or what has no file.
LEMMA SaidAdd ==
    ASSUME TypeInv, SaidInv, UNCHANGED <<file, said>>, read' \subseteq read,
           watch' = watch \/ watch'.at # "add",
           NEW o \in Kept, Add(o.doc, o.src), o.src # None => NameOf(o.doc) \in said[o.src]
    PROVE  SaidInv'
<1>1. o.doc.ref \in Ref /\ o.doc.ref[1] = NameOf(o.doc)
  BY Documents DEF NameOf
<1>2. coll' = [coll EXCEPT ![o.doc.ref] = Object(o.doc, o.src)] /\ coll \in [Ref -> Kept \cup {None}]
  BY DEF Add, TypeInv
<1>3. ASSUME NEW r \in Ref PROVE CollSaid(r)'
  <2>1. CASE r = o.doc.ref
    BY <1>1, <1>2, <2>1 DEF CollSaid, Object
  <2>2. CASE r # o.doc.ref
    BY <1>2, <2>2 DEF CollSaid, SaidInv
  <2> QED BY <2>1, <2>2
<1>4. ASSUME NEW s \in Savers PROVE SaveSaid(s)'
  BY AddCalm DEF SaveSaid, SaidInv, Ref
<1> QED BY <1>3, <1>4 DEF SaidInv, Ref

LEMMA SaidNext == TypeInv /\ SaidInv /\ [Next]_vars => SaidInv'
<1> SUFFICES ASSUME TypeInv, SaidInv, [Next]_vars PROVE SaidInv'
  OBVIOUS
<1>a. /\ file \in [Files -> Content] /\ save \in [Savers -> Request] /\ read \subseteq Kept
      /\ said \in [Files -> SUBSET Names]
  BY DEF TypeInv, Rest
<1>b. ASSUME UNCHANGED <<file, said, coll, save>>, read' \subseteq read, watch' = watch \/ watch'.at # "add"
      PROVE  SaidInv'
  BY <1>b, SaidCalm DEF SaidInv
<1>c. ASSUME UNCHANGED <<file, said, coll, read, watch>>, NEW s \in Savers, NEW r \in Request,
             save' = [save EXCEPT ![s] = r], SaveSaid(s)'
      PROVE  SaidInv'
  BY <1>a, <1>c, SaidCalm DEF SaidInv
<1>d. ASSUME NEW s \in Savers, save'[s].src = None, save'[s].doc = None, ~save'[s].there PROVE SaveSaid(s)'
  BY <1>d DEF SaveSaid
<1>e. Idle.src = None /\ Idle.doc = None /\ Idle.there = FALSE /\ Idle \in Request
  BY IdleTyped DEF Idle
<1>f. ASSUME NEW s \in Savers, End(s), UNCHANGED <<file, said, coll, read, watch>> PROVE SaidInv'
  BY <1>a, <1>c, <1>d, <1>e, <1>f DEF End
<1>1. ASSUME NEW f \in Files, ReadFile(f) PROVE SaidInv'
  <2>1. \A o \in read' : o.src # None => NameOf(o.doc) \in said[o.src]
    BY <1>1, <1>a DEF ReadFile, SaidInv, Object, SourceOf
  <2> QED BY <1>1, <2>1 DEF ReadFile, SaidInv, CollSaid, SaveSaid, Ref
<1>2. ASSUME NEW o \in read, Collect(o) PROVE SaidInv'
  <2>1. o \in Kept /\ (o.src # None => NameOf(o.doc) \in said[o.src])
    BY <1>2, <1>a DEF SaidInv
  <2> QED BY <1>2, <2>1, SaidAdd DEF Collect
<1>3. CASE RunScript
  <2>1. CASE file[script] \in Doc
    <3> DEFINE o == Object(file[script], SourceOf(script))
    <3>1. o \in Kept /\ o.doc = file[script] /\ o.src = None
      BY <1>3, <2>1, <1>a, Documents DEF Object, RunScript, TypeInv, Rest, SourceOf
    <3>2. Add(o.doc, o.src) /\ UNCHANGED <<file, said, read, watch>>
      BY <1>3, <2>1, <3>1 DEF RunScript, Object
    <3> HIDE DEF o
    <3> QED BY <3>1, <3>2, SaidAdd
  <2>2. CASE file[script] \notin Doc
    BY <1>3, <2>2, <1>b DEF RunScript
  <2> QED BY <2>1, <2>2
<1>4. CASE Serve \/ \E f \in Files : Receive(f)
  BY <1>4, <1>b DEF Serve, Receive, readers
<1>5. CASE Reload
  <2>1. watch.src \in Files
    BY <1>5 DEF Reload, TypeInv, Rest, Watching, Waiting
  <2>2. watch'.at = "add" => NameOf(watch'.doc) \in said[watch'.src]
    BY <1>5, <2>1 DEF Reload, TypeInv, Rest, Watching, Waiting, SaidInv
  <2> QED BY <1>5, <2>2 DEF Reload, readers, SaidInv, CollSaid, SaveSaid, Ref
<1>6. CASE Update
  <2>1. watch \in [at : {"add"}, doc : Docs, src : Files]
    BY <1>6 DEF TypeInv, Rest, Update, Watching, Waiting
  <2> DEFINE o == Object(watch.doc, SourceOf(watch.src))
  <2>2. o \in Kept /\ o.doc = watch.doc /\ o.src = SourceOf(watch.src)
    BY <2>1, Documents DEF Object
  <2>3. Add(o.doc, o.src) /\ (o.src # None => NameOf(o.doc) \in said[o.src])
    BY <1>6, <2>1, <2>2 DEF Update, SaidInv, SourceOf
  <2>4. UNCHANGED <<file, said, read>> /\ watch'.at # "add"
    BY <1>6 DEF Update, readers, Waiting
  <2> HIDE DEF o
  <2> QED BY <2>2, <2>3, <2>4, SaidAdd
<1>7. CASE Stop
  <2>1. UNCHANGED <<file, said, coll, read>> /\ watch'.at # "add" /\ \A s \in Savers : save'[s] = Idle
    BY <1>7 DEF Stop, readers, Waiting
  <2>2. \A s \in Savers : SaveSaid(s)'
    BY <2>1, <1>d, <1>e
  <2> QED BY <2>1, <2>2, SaidCalm DEF SaidInv
<1>8. CASE UNCHANGED vars
  BY <1>8, <1>b DEF vars, readers
<1>9. ASSUME NEW s \in Savers, Begin(s) PROVE SaidInv'
  <2>1. PICK n \in Names : \E d \in {x \in Docs : NameOf(x) = n} \cup {None} :
          save' = [save EXCEPT ![s] = [Idle EXCEPT !.at = "find", !.name = n, !.doc = d]]
    BY <1>9 DEF Begin
  <2>2. PICK d \in {x \in Docs : NameOf(x) = n} \cup {None} :
          save' = [save EXCEPT ![s] = [Idle EXCEPT !.at = "find", !.name = n, !.doc = d]]
    BY <2>1
  <2> DEFINE r == [Idle EXCEPT !.at = "find", !.name = n, !.doc = d]
  <2>3. r \in Request /\ r.src = None /\ r.name = n /\ r.doc = d /\ ~r.there
    BY DEF Idle, Asked, Request
  <2>4. save' = [save EXCEPT ![s] = r] /\ UNCHANGED <<file, said, coll, read, watch>>
    BY <1>9, <2>2 DEF Begin, readers
  <2> HIDE DEF r
  <2>5. SaveSaid(s)'
    BY <1>a, <2>2, <2>3, <2>4 DEF SaveSaid
  <2> QED BY <2>3, <2>4, <2>5, <1>c
<1>10. ASSUME NEW s \in Savers, Lookup(s) PROVE SaidInv'
  <2>1. save[s] \in Asked /\ UNCHANGED <<file, said, coll, read, watch>>
    BY <1>10, Stages DEF Lookup, readers
  <2>2. CASE End(s)
    BY <2>1, <2>2, <1>f
  <2>3. CASE ~End(s)
    <3>1. PICK r \in Find(save[s].name) :
            /\ coll[r].src # None
            /\ save' = [save EXCEPT ![s].at = "open", ![s].key = r,
                                    ![s].src = coll[r].src, ![s].there = TRUE]
      BY <1>10, <2>3 DEF Lookup
    <3>2. r \in Ref /\ r[1] = save[s].name /\ coll[r].src \in Homes /\ r[1] \in said[coll[r].src]
      <4>1. r \in Ref /\ coll[r] # None /\ NameOf(coll[r].doc) = save[s].name
        BY DEF Find
      <4>2. CollSaid(r)
        BY <4>1 DEF SaidInv
      <4>3. coll[r] \in Kept
        BY <4>1 DEF TypeInv
      <4> QED BY <3>1, <4>1, <4>2, <4>3, Documents DEF CollSaid
    <3> DEFINE q == [save[s] EXCEPT !.at = "open", !.key = r, !.src = coll[r].src, !.there = TRUE]
    <3>3. q \in Found /\ q.key = r /\ q.src = coll[r].src /\ q.name = save[s].name /\ q.doc = save[s].doc
      BY <2>1, <3>2 DEF Asked, Found
    <3>4. save' = [save EXCEPT ![s] = q] /\ q \in Request
      BY <3>1, <3>3 DEF Request
    <3> HIDE DEF q
    <3>5. SaveSaid(s)'
      BY <1>a, <2>1, <3>2, <3>3, <3>4 DEF SaveSaid, SaidInv
    <3> QED BY <2>1, <3>4, <3>5, <1>c
  <2> QED BY <2>2, <2>3
<1>11. ASSUME NEW s \in Savers, Open(s) PROVE SaidInv'
  <2> DEFINE f == save[s].src
             r == [save[s] EXCEPT !.at = "write", !.linked = TRUE, !.alone = TRUE]
  <2>1. /\ save[s] \in Found /\ f \in Files /\ UNCHANGED <<said, coll, read, watch>>
    BY <1>11, Stages DEF Open, Found, Homes, readers
  <2>2. CASE UNCHANGED file /\ End(s)
    BY <2>1, <2>2, <1>f
  <2>3. CASE ~(UNCHANGED file /\ End(s))
    <3>1. /\ file' = [file EXCEPT ![f] = Empty]
          /\ save' = [t \in Savers |->
               IF t = s THEN r ELSE IF Touching(f, t) THEN [save[t] EXCEPT !.alone = FALSE] ELSE save[t]]
      BY <1>11, <2>3 DEF Open
    <3>2. ASSUME NEW t \in Savers
          PROVE  /\ save'[t].src = save[t].src /\ save'[t].name = save[t].name
                 /\ save'[t].doc = save[t].doc /\ save'[t].key = save[t].key
                 /\ save'[t].there = save[t].there
      <4>1. \/ t = s /\ save'[t] = r
            \/ save'[t] = save[t]
            \/ Touching(f, t) /\ save'[t] = [save[t] EXCEPT !.alone = FALSE]
        BY <3>1
      <4>2. Touching(f, t) => save[t] \in Opened
        BY <2>1, TouchedTyped
      <4>3. /\ r.src = save[s].src /\ r.name = save[s].name /\ r.doc = save[s].doc
            /\ r.key = save[s].key /\ r.there = save[s].there
        BY <2>1 DEF Found
      <4> HIDE DEF f, r
      <4> QED BY <4>1, <4>2, <4>3 DEF Opened
    <3>3. \A g \in Files : file'[g] \in Doc => NameOf(file'[g]) \in said'[g]
      BY <1>a, <2>1, <3>1, Documents DEF SaidInv
    <3> QED BY <2>1, <3>2, <3>3, SaidCalm
  <2> QED BY <2>2, <2>3
<1>12. ASSUME NEW s \in Savers, Write(s) PROVE SaidInv'
  <2> DEFINE f == save[s].src
             d == save[s].doc
             r == [save[s] EXCEPT !.at = "set"]
  <2>1. save[s] \in Opened /\ f \in Files /\ d \in Docs /\ UNCHANGED <<coll, read, watch>>
    BY <1>12, Stages DEF Write, Opened, Homes, readers
  <2>2. ASSUME NEW t \in Savers
        PROVE  /\ save'[t].src = save[t].src /\ save'[t].name = save[t].name
               /\ save'[t].doc = save[t].doc /\ save'[t].key = save[t].key
               /\ save'[t].there = save[t].there
    <3>1. \/ t = s /\ save'[t] = [save[t] EXCEPT !.at = "set"]
          \/ save'[t] = save[t]
          \/ Touching(f, t) /\ save'[t] = [save[t] EXCEPT !.alone = FALSE]
      BY <1>12, <1>a DEF Write
    <3>2. Touching(f, t) => save[t] \in Opened
      BY <2>1, TouchedTyped
    <3> QED BY <2>1, <3>1, <3>2 DEF Opened
  <2>3. /\ \A g \in Files : said[g] \subseteq said'[g]
        /\ \A g \in Files : file'[g] \in Doc => NameOf(file'[g]) \in said'[g]
    <3>1. CASE ~save[s].linked
      BY <1>12, <3>1 DEF Write, SaidInv
    <3>2. CASE save[s].linked
      <4>1. PICK c \in {d, Mixed} : file' = [file EXCEPT ![f] = c]
        BY <1>12, <3>2 DEF Write
      <4>2. said' = [said EXCEPT ![f] = @ \cup {NameOf(d)}]
        BY <1>12, <3>2 DEF Write
      <4> HIDE DEF f, d
      <4> QED BY <1>a, <2>1, <4>1, <4>2, Documents DEF SaidInv
    <3> QED BY <3>1, <3>2
  <2> QED BY <2>1, <2>2, <2>3, SaidCalm
<1>13. ASSUME NEW s \in Savers, WriteFails(s) PROVE SaidInv'
  BY <1>13, <1>f DEF WriteFails, readers
<1>14. ASSUME NEW s \in Savers, SetRaw(s) PROVE SaidInv'
  <2>1. save[s] \in Opened /\ UNCHANGED <<file, said, read, watch>> /\ save' = [save EXCEPT ![s] = Idle]
    BY <1>14, Stages DEF SetRaw, readers, End
  <2>2. CASE ~save[s].there
    BY <1>14, <2>1, <2>2, <1>f DEF SetRaw
  <2>3. CASE save[s].there
    <3> DEFINE k == save[s].key
               o == [coll[k] EXCEPT !.doc = save[s].doc]
    <3>1. k \in Ref /\ coll[k] # None /\ coll[k] \in Kept /\ CollSaid(k) /\ SaveSaid(s)
      BY <2>1, <2>3 DEF TypeInv, Opened, SaidInv
    <3>2. o.src = coll[k].src /\ o.doc = save[s].doc
      BY <3>1 DEF Kept
    <3>3. coll' = [coll EXCEPT ![k] = o] /\ coll \in [Ref -> Kept \cup {None}]
      BY <1>14, <2>3 DEF SetRaw, TypeInv
    <3>4. NameOf(save[s].doc) = k[1]
      BY <2>1, <2>3, <3>1, Documents DEF SaveSaid, Opened
    <3> HIDE DEF o, k
    <3>5. ASSUME NEW r \in Ref PROVE CollSaid(r)'
      <4>1. CASE r = k
        BY <2>1, <3>1, <3>2, <3>3, <3>4, <4>1 DEF CollSaid
      <4>2. CASE r # k
        BY <2>1, <3>3, <4>2 DEF CollSaid, SaidInv
      <4> QED BY <4>1, <4>2
    <3>6. ASSUME NEW t \in Savers PROVE SaveSaid(t)'
      <4>1. CASE t = s
        BY <1>a, <1>d, <1>e, <2>1, <4>1
      <4>2. CASE t # s
        BY <1>a, <2>1, <4>2 DEF SaveSaid, SaidInv, Ref
      <4> QED BY <4>1, <4>2
    <3> QED BY <2>1, <3>5, <3>6 DEF SaidInv, Ref
  <2> QED BY <2>2, <2>3
<1>15. ASSUME NEW f \in Files, Edit(f) PROVE SaidInv'
  <2>1. PICK d \in Docs \cup {None}, b \in BOOLEAN :
          /\ file' = [file EXCEPT ![f] = d]
          /\ said' = [said EXCEPT ![f] = @ \cup NameIn(d)]
          /\ save' = [t \in Savers |->
               IF Touching(f, t)
               THEN [save[t] EXCEPT !.alone = FALSE, !.linked = @ /\ ~b] ELSE save[t]]
    BY <1>15 DEF Edit
  <2>2. UNCHANGED <<coll, read, watch>>
    BY <1>15 DEF Edit, readers
  <2>3. ASSUME NEW t \in Savers
        PROVE  /\ save'[t].src = save[t].src /\ save'[t].name = save[t].name
               /\ save'[t].doc = save[t].doc /\ save'[t].key = save[t].key
               /\ save'[t].there = save[t].there
    <3>1. \/ save'[t] = save[t]
          \/ /\ Touching(f, t)
             /\ save'[t] = [save[t] EXCEPT !.alone = FALSE, !.linked = @ /\ ~b]
      BY <2>1
    <3>2. Touching(f, t) => save[t] \in Opened
      BY TouchedTyped
    <3> QED BY <3>1, <3>2 DEF Opened
  <2>4. /\ \A g \in Files : said[g] \subseteq said'[g]
        /\ \A g \in Files : file'[g] \in Doc => NameOf(file'[g]) \in said'[g]
    BY <1>a, <2>1 DEF SaidInv, NameIn
  <2> QED BY <2>2, <2>3, <2>4, SaidCalm
<1> QED
  BY <1>1, <1>2, <1>3, <1>4, <1>5, <1>6, <1>7, <1>8, <1>9, <1>10, <1>11, <1>12, <1>13, <1>14, <1>15
  DEF Next, Startup, Watch, Save

-----------------------------------------------------------------------------
LEMMA InvAlways == Spec => [](TypeInv /\ DiskInv /\ SaidInv)
<1>1. Init => DiskInv /\ SaidInv
  <2> SUFFICES ASSUME Init PROVE DiskInv /\ SaidInv
    OBVIOUS
  <2>1. file \in [Files -> Docs \cup {None}]
    BY DevServerAssumption DEF Init
  <2>2. \A s \in Savers : save[s] = Idle
    BY DEF Init
  <2>3. DiskInv
    BY <2>1, <2>2, Documents, DevServerAssumption, IdleTyped DEF DiskInv, SavedIsOnDisk
  <2>4. /\ \A f \in Files : file[f] \in Doc => NameOf(file[f]) \in said[f]
        /\ read = {} /\ watch.at # "add" /\ \A r \in Ref : coll[r] = None
    BY DEF Init, NameIn, Waiting
  <2>5. \A s \in Savers : SaveSaid(s)
    BY <2>2 DEF SaveSaid, Idle
  <2> QED BY <2>3, <2>4, <2>5 DEF SaidInv, CollSaid
<1>2. TypeInv /\ DiskInv /\ SaidInv /\ [Next]_vars => (TypeInv /\ DiskInv /\ SaidInv)'
  BY TypeInvNext, DiskNext, SaidNext
<1> QED BY <1>1, <1>2, TypeInvInit, PTL DEF Spec

\* SavedIsOnDisk for every instance: an answered save is in its file, unless somebody
\* else has written or replaced the file since dashboardJSONPostHandler truncated it.
THEOREM SavesReachDisk == Spec => []SavedIsOnDisk
BY InvAlways, PTL DEF DiskInv

\* TornExplained for every instance: no step but an open, failed or cut-off save, or two
\* writes at once, leaves a file without a document.
THEOREM TearsExplained == Spec => []TornExplained
<1>1. DiskInv => TornExplained
  BY DEF DiskInv, TornExplained
<1> QED BY <1>1, InvAlways, PTL

\* SourceSaidIt for every instance: the source of the object that Find returned is a file
\* that has said the name under which it is saved.
THEOREM SourceIsRight == Spec => []SourceSaidIt
<1>1. SaidInv => SourceSaidIt
  BY DEF SaidInv, SaveSaid, SourceSaidIt
<1> QED BY <1>1, InvAlways, PTL
===============================================================================
