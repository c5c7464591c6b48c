--------------------- MODULE InstrumentationUpdateProofs ---------------------
(***************************************************************************)
(* For any number of commands and namespaces, whatever the server loses or *)
(* delays: a write undoes only what changed since the read it was compared *)
(* with. A change of a namespace looks at that namespace alone, and making *)
(* it twice is making it once. So what a command reports, it has done.     *)
(***************************************************************************)
EXTENDS InstrumentationUpdate, TLAPS

Item == Entry \cup {Absent}

LEMMA ChangedItem ==
  ASSUME NEW c \in Command, NEW e \in Item
  PROVE  Changed(c, e) \in Item /\ Changed(c, Changed(c, e)) = Changed(c, e)
  <1>1. c.svc \in Services
    BY DEF Command
  <1>2. Absent \notin Entry
    BY UpdateAssumption DEF UpdateAssumption
  <1>3. Defaults \in Entry
    BY DEF Defaults, Entry, Override
  <1>4. ASSUME NEW x \in Entry, NEW o \in Override
        PROVE  /\ Overridden(x, c.svc, o) \in Entry
               /\ Overridden(x, c.svc, o).auto = x.auto
               /\ Overridden(x, c.svc, o).apps[c.svc] = o
               /\ x.apps[c.svc] = o => Overridden(x, c.svc, o) = x
               /\ x.apps[c.svc] \in Override
    <2>1. x.apps \in [Services -> Override]
      BY DEF Entry
    <2>2. [x.apps EXCEPT ![c.svc] = o] \in [Services -> Override]
      BY <1>1, <2>1
    <2>3. x.apps[c.svc] = o => [x.apps EXCEPT ![c.svc] = o] = x.apps
      BY <1>1, <2>1
    <2> QED
      BY <1>1, <2>1, <2>2, <2>3 DEF Entry, Overridden
  <1>5. CASE e \in Entry /\ c.op = "include"
    <2> DEFINE o == IF ~e.auto THEN "INCLUDED"
                    ELSE IF e.apps[c.svc] = "EXCLUDED" THEN "none" ELSE e.apps[c.svc]
               x == Overridden(e, c.svc, o)
               r == IF ~x.auto THEN "INCLUDED"
                    ELSE IF x.apps[c.svc] = "EXCLUDED" THEN "none" ELSE x.apps[c.svc]
    <2>1. o \in Override
      BY <1>4, <1>5 DEF Override
    <2>2. x \in Entry /\ x.auto = e.auto /\ x.apps[c.svc] = o
      BY <1>4, <1>5, <2>1
    <2>3. r = o
      BY <2>2
    <2>4. Overridden(x, c.svc, r) = x
      BY <1>4, <2>1, <2>2, <2>3
    <2>5. Changed(c, e) = x
      BY <1>2, <1>5 DEF Changed, Included
    <2>6. Changed(c, x) = Overridden(x, c.svc, r)
      BY <1>2, <1>5, <2>2 DEF Changed, Included
    <2> QED
      BY <2>2, <2>4, <2>5, <2>6 DEF Item
  <1>6. CASE e \in Entry /\ c.op = "exclude"
    <2> DEFINE o == IF e.auto THEN "EXCLUDED"
                    ELSE IF e.apps[c.svc] = "INCLUDED" THEN "none" ELSE e.apps[c.svc]
               x == Overridden(e, c.svc, o)
               r == IF x.auto THEN "EXCLUDED"
                    ELSE IF x.apps[c.svc] = "INCLUDED" THEN "none" ELSE x.apps[c.svc]
    <2>1. o \in Override
      BY <1>4, <1>6 DEF Override
    <2>2. x \in Entry /\ x.auto = e.auto /\ x.apps[c.svc] = o
      BY <1>4, <1>6, <2>1
    <2>3. r = o
      BY <2>2
    <2>4. Overridden(x, c.svc, r) = x
      BY <1>4, <2>1, <2>2, <2>3
    <2>5. Changed(c, e) = x
      BY <1>2, <1>6 DEF Changed, Excluded
    <2>6. Changed(c, x) = Overridden(x, c.svc, r)
      BY <1>2, <1>6, <2>2 DEF Changed, Excluded
    <2> QED
      BY <2>2, <2>4, <2>5, <2>6 DEF Item
  <1>7. CASE e \in Entry /\ c.op = "clear"
    <2> DEFINE x == Overridden(e, c.svc, "none")
    <2>1. "none" \in Override
      BY DEF Override
    <2>2. x \in Entry /\ x.apps[c.svc] = "none"
      BY <1>4, <1>7, <2>1
    <2>3. Overridden(x, c.svc, "none") = x
      BY <1>4, <2>1, <2>2
    <2>4. Changed(c, e) = x /\ Changed(c, x) = Overridden(x, c.svc, "none")
      BY <1>2, <1>7, <2>2 DEF Changed
    <2> QED
      BY <2>2, <2>3, <2>4 DEF Item
  <1>8. CASE c.op = "configure"
    <2>1. CASE e = Absent
      <3>1. Changed(c, e) = Defaults
        BY <1>8, <2>1 DEF Changed
      <3>2. Changed(c, Defaults) = [Defaults EXCEPT !.apps = Defaults.apps]
        BY <1>2, <1>3, <1>8 DEF Changed
      <3>3. [Defaults EXCEPT !.apps = Defaults.apps] = Defaults
        BY DEF Defaults
      <3> QED
        BY <1>3, <3>1, <3>2, <3>3 DEF Item
    <2>2. CASE e \in Entry
      <3> DEFINE x == [Defaults EXCEPT !.apps = e.apps]
      <3>1. x \in Entry /\ [Defaults EXCEPT !.apps = x.apps] = x
        BY <2>2 DEF Entry, Defaults
      <3>2. Changed(c, e) = x /\ Changed(c, x) = [Defaults EXCEPT !.apps = x.apps]
        BY <1>2, <1>8, <2>2, <3>1 DEF Changed
      <3> QED
        BY <3>1, <3>2 DEF Item
    <2> QED
      BY <2>1, <2>2 DEF Item
  <1>9. CASE c.op \in {"defaults", "remove"}
    BY <1>3, <1>9 DEF Changed, Item
  <1>10. CASE e = Absent /\ c.op \in {"include", "exclude", "clear"}
    BY <1>10 DEF Changed, Item
  <1> QED
    BY <1>5, <1>6, <1>7, <1>8, <1>9, <1>10 DEF Item, Command

LEMMA Mutated ==
  ASSUME NEW c \in Command, NEW list \in Config
  PROVE  /\ Mutate(c, list) \in Config
         /\ Mutate(c, Mutate(c, list)) = Mutate(c, list)
         /\ \A n \in Namespaces :
              Mutate(c, list)[n] = IF n = c.ns THEN Changed(c, list[n]) ELSE list[n]
  <1>1. c.ns \in Namespaces /\ list \in [Namespaces -> Item]
    BY DEF Command, Config, Item
  <1>2. Changed(c, list[c.ns]) \in Item
        /\ Changed(c, Changed(c, list[c.ns])) = Changed(c, list[c.ns])
    BY <1>1, ChangedItem
  <1> QED
    BY <1>1, <1>2 DEF Mutate, Config, Item

\* A write that is compared with a list stays so when somebody changes the list, if what
\* was changed is added to what the writer has not seen.
LEMMA FreshKept ==
  ASSUME NEW c \in Command, NEW list, NEW since, NEW new \in Config,
         cfg \in Config, cfg' = new, Fresh(c, list, since)
  PROVE  \A n \in Namespaces : list[n] # Mutate(c, cfg')[n] => n \in since \cup Differs(new)
  <1> SUFFICES ASSUME NEW n \in Namespaces, new[n] = cfg[n], list[n] # Mutate(c, new)[n]
               PROVE  n \in since
    BY DEF Differs
  <1>1. Mutate(c, new)[n] = Mutate(c, cfg)[n]
    BY Mutated
  <1> QED
    BY <1>1 DEF Fresh

Late == [cmd : Command, list : Config, moved : SUBSET Namespaces]

LEMMA UnseenLate ==
  ASSUME NEW S \in SUBSET Late, NEW list
  PROVE  /\ Unseen(S, list) \subseteq Late
         /\ \A v \in Unseen(S, list) :
              \E w \in S : /\ v.cmd = w.cmd /\ v.list = w.list
                           /\ v.moved = w.moved \cup Differs(list)
  BY DEF Unseen, Late, Differs

\* The write of a process is a list.
LEMMA ProposedList ==
  ASSUME TypeOK, NEW p \in Procs, pc[p] = "write"
  PROVE  cmd[p] \in Command /\ snapshot[p] \in Config /\ Proposed(p) \in Config
  BY Mutated DEF TypeOK, Proposed

\* Replacing the list keeps the types and what is known of the writes of the others.
LEMMA ReplaceKeeps ==
  ASSUME TypeOK, UndoesOnlyTheUnseen,
         NEW list \in Config, NEW others \in SUBSET Procs, NEW S \in SUBSET late,
         Replace(list, others), late' = Unseen(S, list)
  PROVE  /\ cfg' \in Config
         /\ late' \subseteq Late
         /\ moved' \in [Procs -> SUBSET Namespaces]
         /\ \A w \in late' : Fresh(w.cmd, w.list, w.moved)'
         /\ \A q \in others : pc[q] = "write" =>
              \A n \in Namespaces :
                Proposed(q)[n] # Mutate(cmd[q], cfg')[n] => n \in moved'[q]
  <1>1. cfg' = list /\ cfg \in Config /\ S \in SUBSET Late
    BY DEF Replace, TypeOK, Late
  <1>2. late' \subseteq Late
    BY <1>1, UnseenLate
  <1>3. moved' \in [Procs -> SUBSET Namespaces]
    BY DEF Replace, TypeOK, Differs
  <1>4. ASSUME NEW v \in late'
        PROVE  Fresh(v.cmd, v.list, v.moved)'
    <2>1. PICK w \in S : v.cmd = w.cmd /\ v.list = w.list /\ v.moved = w.moved \cup Differs(list)
      BY <1>1, UnseenLate
    <2>2. Fresh(w.cmd, w.list, w.moved) /\ w.cmd \in Command
      BY <1>1 DEF UndoesOnlyTheUnseen, Late
    <2>3. \A n \in Namespaces : w.list[n] # Mutate(w.cmd, cfg')[n] => n \in w.moved \cup Differs(list)
      BY <1>1, <2>2, FreshKept
    <2> QED
      BY <2>1, <2>3 DEF Fresh
  <1>5. ASSUME NEW q \in others, pc[q] = "write"
        PROVE  \A n \in Namespaces :
                 Proposed(q)[n] # Mutate(cmd[q], cfg')[n] => n \in moved'[q]
    <2>1. Fresh(cmd[q], Proposed(q), moved[q]) /\ cmd[q] \in Command
      BY <1>5 DEF UndoesOnlyTheUnseen, TypeOK
    <2>2. moved'[q] = moved[q] \cup Differs(list)
      BY <1>5 DEF Replace
    <2> QED
      BY <1>1, <2>1, <2>2, FreshKept
  <1> QED
    BY <1>1, <1>2, <1>3, <1>4, <1>5

Inv == TypeOK /\ UndoesOnlyTheUnseen

\* Where a process goes, what it remembers has its type.
LEMMA GoTypes ==
  ASSUME TypeOK, NEW p \in Procs,
         NEW to \in {"precheck", "read", "reread", "write"} \cup Ended,
         NEW list \in Config \cup {Absent},
         to \in {"reread", "write"} => list # Absent,
         NEW r \in 0 .. MaxRounds, NEW a \in 0 .. MaxRetries,
         Go(p, to, list, r, a)
  PROVE  /\ pc' \in [Procs -> {"precheck", "read", "reread", "write"} \cup Ended]
         /\ snapshot' \in [Procs -> Config \cup {Absent}]
         /\ \A q \in Procs : pc'[q] \in {"reread", "write"} => snapshot'[q] # Absent
         /\ round' \in [Procs -> 0 .. MaxRounds] /\ attempt' \in [Procs -> 0 .. MaxRetries]
         /\ pc'[p] = to /\ snapshot'[p] = list
         /\ \A q \in Procs \ {p} : pc'[q] = pc[q] /\ snapshot'[q] = snapshot[q]
  BY DEF TypeOK, Go

\* A step that leaves the list alone: the other processes are as they were.
LEMMA OwnStep ==
  ASSUME Inv, NEW p \in Procs, UNCHANGED <<cfg, late, cmd>>,
         NEW to \in {"precheck", "read", "reread", "write"} \cup Ended,
         NEW list \in Config \cup {Absent},
         to = "reread" => list # Absent,
         to = "write" => list = cfg,
         NEW r \in 0 .. MaxRounds, NEW a \in 0 .. MaxRetries,
         Go(p, to, list, r, a),
         moved' = moved \/ moved' = [moved EXCEPT ![p] = {}]
  PROVE  Inv'
  <1>1. cfg \in Config
    BY DEF Inv, TypeOK
  <1>2. /\ pc' \in [Procs -> {"precheck", "read", "reread", "write"} \cup Ended]
        /\ snapshot' \in [Procs -> Config \cup {Absent}]
        /\ \A q \in Procs : pc'[q] \in {"reread", "write"} => snapshot'[q] # Absent
        /\ round' \in [Procs -> 0 .. MaxRounds] /\ attempt' \in [Procs -> 0 .. MaxRetries]
        /\ pc'[p] = to /\ snapshot'[p] = list
        /\ \A q \in Procs \ {p} : pc'[q] = pc[q] /\ snapshot'[q] = snapshot[q]
    <2>1. to \in {"reread", "write"} => list # Absent
      BY <1>1, UpdateAssumption DEF UpdateAssumption
    <2>2. TypeOK
      BY DEF Inv
    <2> HIDE DEF Inv
    <2> QED
      BY <2>1, <2>2, GoTypes
  <1>3. moved' \in [Procs -> SUBSET Namespaces] /\ \A q \in Procs \ {p} : moved'[q] = moved[q]
    BY DEF Inv, TypeOK
  <1>4. TypeOK'
    BY <1>2, <1>3 DEF Inv, TypeOK
  <1>5. ASSUME NEW q \in Procs, pc'[q] = "write"
        PROVE  Fresh(cmd[q], Proposed(q), moved[q])'
    <2>1. CASE q = p
      BY <1>2, <1>5, <2>1 DEF Fresh, Proposed
    <2>2. CASE q # p
      BY <1>2, <1>3, <1>5, <2>2 DEF Inv, UndoesOnlyTheUnseen, Fresh, Proposed, Mutate
    <2> QED
      BY <2>1, <2>2
  <1>6. \A w \in late' : Fresh(w.cmd, w.list, w.moved)'
    BY DEF Inv, UndoesOnlyTheUnseen, Fresh, Mutate
  <1> QED
    BY <1>4, <1>5, <1>6 DEF Inv, UndoesOnlyTheUnseen

\* An attempt of a write, whatever comes of it.
LEMMA WriteStep ==
  ASSUME Inv, NEW p \in Procs, Write(p)
  PROVE  Inv'
  <1> DEFINE proposed == Proposed(p)
  <1>1. pc[p] = "write" /\ UNCHANGED cmd /\ TypeOK /\ UndoesOnlyTheUnseen
    BY DEF Write, Inv
  <1>2. cmd[p] \in Command /\ snapshot[p] \in Config /\ proposed \in Config
    BY <1>1, ProposedList
  <1>3. PICK answer \in Answers :
          /\ Effect(p, answer)
          /\ \/ End(p, "changed")
             \/ /\ ShouldRetry("POST", answer, attempt[p])
                /\ Go(p, "write", snapshot[p], round[p], attempt[p] + 1)
             \/ NextRound(p)
    BY DEF Write
  <1>4. PICK to \in {"read", "write", "changed", "error"}, list \in Config \cup {Absent},
             r \in 0 .. MaxRounds, a \in 0 .. MaxRetries :
          Go(p, to, list, r, a) /\ (to = "write" => list = snapshot[p])
    <2>1. /\ MaxRounds \in Nat /\ MaxRetries \in Nat
          /\ round[p] \in 0 .. MaxRounds /\ attempt[p] \in 0 .. MaxRetries
      BY <1>1, UpdateAssumption, RetryAssumption DEF UpdateAssumption, RetryAssumption, TypeOK
    <2>2. CASE End(p, "changed")
      BY <2>1, <2>2 DEF End
    <2>3. CASE ShouldRetry("POST", answer, attempt[p])
               /\ Go(p, "write", snapshot[p], round[p], attempt[p] + 1)
      <3>1. attempt[p] + 1 \in 0 .. MaxRetries
        BY <2>1, <2>3 DEF ShouldRetry
      <3> QED
        BY <1>2, <2>1, <2>3, <3>1
    <2>4. CASE NextRound(p)
      <3>1. CASE ~Unguarded(cmd[p]) /\ round[p] < MaxRounds
        <4>1. round[p] + 1 \in 0 .. MaxRounds /\ 0 \in 0 .. MaxRetries
          BY <2>1, <3>1
        <4>2. Go(p, "read", Absent, round[p] + 1, 0)
          BY <2>4, <3>1 DEF NextRound
        <4> QED
          BY <4>1, <4>2
      <3>2. CASE ~(~Unguarded(cmd[p]) /\ round[p] < MaxRounds)
        BY <2>1, <2>4, <3>2 DEF NextRound, End
      <3> QED
        BY <3>1, <3>2
    <2> QED
      BY <1>3, <2>2, <2>3, <2>4
  <1>5. /\ pc' \in [Procs -> {"precheck", "read", "reread", "write"} \cup Ended]
        /\ snapshot' \in [Procs -> Config \cup {Absent}]
        /\ \A q \in Procs : pc'[q] \in {"reread", "write"} => snapshot'[q] # Absent
        /\ round' \in [Procs -> 0 .. MaxRounds] /\ attempt' \in [Procs -> 0 .. MaxRetries]
        /\ pc'[p] = to /\ snapshot'[p] = list
        /\ \A q \in Procs \ {p} : pc'[q] = pc[q] /\ snapshot'[q] = snapshot[q]
    <2>1. to \in {"reread", "write"} => list # Absent
      BY <1>2, <1>4, UpdateAssumption DEF UpdateAssumption
    <2>2. to \in {"precheck", "read", "reread", "write"} \cup Ended
      BY DEF Ended
    <2> QED
      BY <1>1, <1>4, <2>1, <2>2, GoTypes
  <1>6. /\ cfg' \in Config /\ late' \subseteq Late /\ moved' \in [Procs -> SUBSET Namespaces]
        /\ \A w \in late' : Fresh(w.cmd, w.list, w.moved)'
        /\ \A q \in Procs \ {p} : pc[q] = "write" =>
             \A n \in Namespaces :
               Proposed(q)[n] # Mutate(cmd[q], cfg')[n] => n \in moved'[q]
        /\ \/ cfg' = proposed
           \/ cfg' = cfg /\ moved' = moved
    <2>1. CASE Replace(proposed, Procs \ {p}) /\ late' = Unseen(late, proposed)
      <3>1. cfg' = proposed
        BY <2>1 DEF Replace
      <3> QED
        BY <1>1, <1>2, <2>1, <3>1, ReplaceKeeps
    <2>2. CASE /\ UNCHANGED <<cfg, moved>>
               /\ \/ late' = late
                  \/ late' = late \cup {[cmd |-> cmd[p], list |-> proposed, moved |-> moved[p]]}
      <3>1. Fresh(cmd[p], proposed, moved[p]) /\ moved[p] \in SUBSET Namespaces
        BY <1>1 DEF UndoesOnlyTheUnseen, TypeOK
      <3>2. late' \subseteq Late
        BY <1>1, <1>2, <2>2, <3>1 DEF TypeOK, Late
      <3>3. ASSUME NEW w \in late'
            PROVE  Fresh(w.cmd, w.list, w.moved)'
        <4>1. Fresh(w.cmd, w.list, w.moved)
          BY <1>1, <2>2, <3>1 DEF UndoesOnlyTheUnseen
        <4> QED
          BY <2>2, <4>1 DEF Fresh, Mutate
      <3>4. ASSUME NEW q \in Procs \ {p}, pc[q] = "write", NEW n \in Namespaces,
                   Proposed(q)[n] # Mutate(cmd[q], cfg')[n]
            PROVE  n \in moved'[q]
        BY <1>1, <2>2, <3>4 DEF UndoesOnlyTheUnseen, Fresh, Mutate
      <3> QED
        BY <1>1, <2>2, <3>2, <3>3, <3>4 DEF TypeOK
    <2>3. Effect(p, answer)
      BY <1>3
    <2> QED
      BY <2>1, <2>2, <2>3 DEF Effect
  <1>7. TypeOK'
    BY <1>1, <1>5, <1>6 DEF TypeOK, Late
  <1>8. ASSUME NEW q \in Procs, pc'[q] = "write"
        PROVE  Fresh(cmd[q], Proposed(q), moved[q])'
    <2>1. CASE q = p
      <3>1. Proposed(q)' = proposed
        BY <1>1, <1>4, <1>5, <1>8, <2>1 DEF Proposed, Mutate
      <3>2. CASE cfg' = proposed
        <4>1. Mutate(cmd[p], proposed) = proposed
          BY <1>2, Mutated DEF Proposed
        <4> QED
          BY <1>1, <2>1, <3>1, <3>2, <4>1 DEF Fresh
      <3>3. CASE cfg' = cfg /\ moved' = moved
        <4>1. Fresh(cmd[p], proposed, moved[p])
          BY <1>1 DEF UndoesOnlyTheUnseen
        <4> QED
          BY <1>1, <2>1, <3>1, <3>3, <4>1 DEF Fresh, Mutate
      <3> QED
        BY <1>6, <3>2, <3>3
    <2>2. CASE q # p
      <3>1. pc[q] = "write" /\ Proposed(q)' = Proposed(q)
        BY <1>1, <1>5, <1>8, <2>2 DEF Proposed, Mutate
      <3> QED
        BY <1>1, <1>6, <2>2, <3>1 DEF Fresh, Mutate
    <2> QED
      BY <2>1, <2>2
  <1> QED
    BY <1>6, <1>7, <1>8 DEF Inv, UndoesOnlyTheUnseen

LEMMA LateStep ==
  ASSUME Inv, NEW w \in late, ApplyLate(w)
  PROVE  Inv'
  <1>1. TypeOK /\ UndoesOnlyTheUnseen /\ w.list \in Config
        /\ UNCHANGED <<cmd, pc, snapshot, round, attempt>>
    BY DEF Inv, TypeOK, ApplyLate
  <1>2. Replace(w.list, Procs) /\ late' = Unseen(late \ {w}, w.list)
    BY DEF ApplyLate
  <1>3. /\ cfg' \in Config /\ late' \subseteq Late /\ moved' \in [Procs -> SUBSET Namespaces]
        /\ \A v \in late' : Fresh(v.cmd, v.list, v.moved)'
        /\ \A q \in Procs : pc[q] = "write" =>
             \A n \in Namespaces :
               Proposed(q)[n] # Mutate(cmd[q], cfg')[n] => n \in moved'[q]
    <2>1. late \ {w} \in SUBSET late /\ Procs \in SUBSET Procs
      OBVIOUS
    <2> QED
      BY <1>1, <1>2, <2>1, ReplaceKeeps
  <1>4. TypeOK'
    BY <1>1, <1>3 DEF TypeOK, Late
  <1>5. \A q \in Procs : pc'[q] = "write" => Fresh(cmd[q], Proposed(q), moved[q])'
    BY <1>1, <1>3 DEF Fresh, Proposed, Mutate
  <1> QED
    BY <1>3, <1>4, <1>5 DEF Inv, UndoesOnlyTheUnseen

THEOREM InvHolds == Spec => []Inv
  <1>1. Init => Inv
    <2> SUFFICES ASSUME Init PROVE Inv
      OBVIOUS
    <2>1. MaxRounds \in Nat /\ MaxRetries \in Nat /\ Commands \subseteq Command
          /\ Configs \subseteq Config
      BY UpdateAssumption, RetryAssumption DEF UpdateAssumption, RetryAssumption
    <2>2. TypeOK
      BY <2>1 DEF Init, TypeOK, Ended
    <2>3. UndoesOnlyTheUnseen
      BY DEF Init, UndoesOnlyTheUnseen
    <2> QED
      BY <2>2, <2>3 DEF Inv
  <1>2. Inv /\ [Next]_vars => Inv'
    <2> SUFFICES ASSUME Inv, [Next]_vars
                 PROVE  Inv'
      OBVIOUS
    <2>1. /\ MaxRounds \in Nat /\ MaxRetries \in Nat
          /\ cfg \in Config
          /\ \A p \in Procs : cmd[p] \in Command /\ round[p] \in 0 .. MaxRounds
      BY UpdateAssumption, RetryAssumption DEF UpdateAssumption, RetryAssumption, Inv, TypeOK
    <2>2. cfg # Absent
      BY <2>1, UpdateAssumption DEF UpdateAssumption
    <2>3. ASSUME NEW p \in Procs, Precheck(p)
          PROVE  Inv'
      <3>1. PICK to \in {"error", "noop", "read", "write"}, list \in {Absent, cfg} :
              Go(p, to, list, 0, 0) /\ (to = "write" => list = cfg)
        BY <2>3 DEF Precheck, End
      <3>2. UNCHANGED <<cfg, late, cmd>> /\ moved' = [moved EXCEPT ![p] = {}]
        BY <2>3 DEF Precheck
      <3>3. /\ to \in {"precheck", "read", "reread", "write"} \cup Ended /\ to # "reread"
            /\ list \in Config \cup {Absent} /\ 0 \in 0 .. MaxRounds /\ 0 \in 0 .. MaxRetries
        BY <2>1 DEF Ended
      <3> QED
        BY <2>2, <3>1, <3>2, <3>3, OwnStep
    <2>4. ASSUME NEW p \in Procs, Read(p)
          PROVE  Inv'
      BY <2>1, <2>2, <2>4, OwnStep DEF Read
    <2>5. ASSUME NEW p \in Procs, Reread(p)
          PROVE  Inv'
      <3>1. PICK to \in {"write", "conflict"}, list \in {Absent, cfg}, r \in 0 .. MaxRounds :
              Go(p, to, list, r, 0) /\ (to = "write" => list = cfg)
        BY <2>1, <2>5 DEF Reread, End
      <3>2. UNCHANGED <<cfg, late, cmd>> /\ moved' = [moved EXCEPT ![p] = {}]
        BY <2>5 DEF Reread
      <3>3. /\ to \in {"precheck", "read", "reread", "write"} \cup Ended /\ to # "reread"
            /\ list \in Config \cup {Absent} /\ 0 \in 0 .. MaxRounds /\ 0 \in 0 .. MaxRetries
        BY <2>1 DEF Ended
      <3> QED
        BY <2>2, <3>1, <3>2, <3>3, OwnStep
    <2>6. ASSUME NEW p \in Procs, Write(p)
          PROVE  Inv'
      BY <2>6, WriteStep
    <2>7. ASSUME NEW p \in Procs, ReadFails(p)
          PROVE  Inv'
      BY <2>1, <2>2, <2>7, OwnStep DEF ReadFails, End, Ended
    <2>8. ASSUME NEW w \in late, ApplyLate(w)
          PROVE  Inv'
      BY <2>8, LateStep
    <2>9. CASE UNCHANGED vars
      BY <2>9 DEF vars, Inv, TypeOK, UndoesOnlyTheUnseen, Fresh, Proposed, Mutate
    <2> QED
      BY <2>3, <2>4, <2>5, <2>6, <2>7, <2>8, <2>9 DEF Next, Step
  <1> QED
    BY <1>1, <1>2, PTL DEF Spec

\* The attempts of retry.Transport and the rounds of rmw.Update stay within their bounds.
THEOREM TypesHold == Spec => []TypeOK
  <1>1. Inv => TypeOK
    BY DEF Inv
  <1> QED
    BY <1>1, InvHolds, PTL

\* rmw.Update compares before it writes, so that a write, sent again or applied late, undoes
\* nothing but what changed after that.
THEOREM OnlyTheUnseenUndone == Spec => []UndoesOnlyTheUnseen
  <1>1. Inv => UndoesOnlyTheUnseen
    BY DEF Inv
  <1> QED
    BY <1>1, InvHolds, PTL

-----------------------------------------------------------------------------
\* What a command makes of an entry is what it was asked for, where there is an entry.
LEMMA ChangedWanted ==
  ASSUME NEW c \in Command, NEW e \in Item
  PROVE  Wanted(c, Changed(c, e)) \/ Changed(c, e) = Absent
  <1> USE UpdateAssumption DEF Item, Override
  <1>1. c.svc \in Services
    BY DEF Command
  <1>2. CASE c.op \in {"defaults", "remove", "configure"}
    BY <1>2 DEF Changed, Wanted, Defaults
  <1>3. CASE e = Absent /\ c.op \in {"include", "exclude", "clear"}
    BY <1>3 DEF Changed
  <1>4. ASSUME e \in Entry, NEW o \in Override
        PROVE  /\ Overridden(e, c.svc, o).auto = e.auto
               /\ Overridden(e, c.svc, o).apps[c.svc] = o
    BY <1>1, <1>4 DEF Entry, Overridden
  <1>5. CASE e \in Entry /\ c.op \in {"include", "exclude", "clear"}
    <2>1. e.apps[c.svc] \in Override /\ e # Absent
      BY <1>1, <1>5 DEF Entry
    <2>2. CASE c.op = "include"
      <3> DEFINE o == IF ~e.auto THEN "INCLUDED"
                      ELSE IF e.apps[c.svc] = "EXCLUDED" THEN "none" ELSE e.apps[c.svc]
      <3>1. o \in Override /\ Changed(c, e) = Overridden(e, c.svc, o)
        BY <1>5, <2>1, <2>2 DEF Changed, Included
      <3>2. Changed(c, e).auto = e.auto /\ Changed(c, e).apps[c.svc] = o
        BY <1>4, <1>5, <3>1
      <3>3. o = "INCLUDED" \/ (e.auto /\ o # "EXCLUDED")
        BY <2>1
      <3> HIDE DEF o
      <3> QED BY <2>2, <3>2, <3>3 DEF Wanted, InForce
    <2>3. CASE c.op = "exclude"
      <3> DEFINE o == IF e.auto THEN "EXCLUDED"
                      ELSE IF e.apps[c.svc] = "INCLUDED" THEN "none" ELSE e.apps[c.svc]
      <3>1. o \in Override /\ Changed(c, e) = Overridden(e, c.svc, o)
        BY <1>5, <2>1, <2>3 DEF Changed, Excluded
      <3>2. Changed(c, e).auto = e.auto /\ Changed(c, e).apps[c.svc] = o
        BY <1>4, <1>5, <3>1
      <3>3. o # "INCLUDED" /\ (~e.auto \/ o = "EXCLUDED")
        BY <2>1
      <3> HIDE DEF o
      <3> QED BY <2>3, <3>2, <3>3 DEF Wanted, InForce
    <2>4. CASE c.op = "clear"
      <3>1. Changed(c, e) = Overridden(e, c.svc, "none")
        BY <1>5, <2>1, <2>4 DEF Changed
      <3>2. Changed(c, e).apps[c.svc] = "none"
        BY <1>4, <1>5, <3>1
      <3> QED BY <2>4, <3>2 DEF Wanted
    <2> QED
      BY <1>5, <2>2, <2>3, <2>4
  <1> QED
    BY <1>2, <1>3, <1>5 DEF Command

\* A change is reported only by a write that was answered, and so applied.
LEMMA ReportedStep ==
  ASSUME Inv, Next, NEW p \in Procs, pc[p] # pc'[p], pc'[p] \in {"changed", "noop"}
  PROVE  \/ /\ pc'[p] = "noop" /\ UNCHANGED cfg /\ Mutate(cmd[p], cfg) = cfg
            /\ ~(cmd[p].op = "include" /\ cfg[cmd[p].ns] = Absent)
         \/ /\ pc'[p] = "changed" /\ pc[p] = "write" /\ cfg' = Proposed(p)
  <1>1. pc \in [Procs -> {"precheck", "read", "reread", "write"} \cup Ended]
    BY DEF Inv, TypeOK
  <1>2. ASSUME NEW q \in Procs, NEW to, NEW list, NEW r, NEW a, Go(q, to, list, r, a)
        PROVE  q = p /\ pc'[p] = to
    BY <1>1, <1>2 DEF Go
  <1>3. CASE Precheck(p)
    BY <1>2, <1>3 DEF Precheck, End
  <1>4. CASE Write(p)
    <2>1. PICK answer \in Answers :
            /\ Effect(p, answer)
            /\ \/ answer = "ok"
               \/ Go(p, "write", snapshot[p], round[p], attempt[p] + 1)
               \/ NextRound(p)
      BY <1>4 DEF Write
    <2>2. answer = "ok"
      BY <1>2, <2>1 DEF NextRound, End
    <2>3. pc[p] = "write" /\ End(p, "changed")
      BY <1>2, <1>4, <2>2 DEF Write, NextRound, End
    <2>4. cfg' = Proposed(p)
      BY <2>1, <2>2 DEF Effect, Effects, Replace
    <2> QED
      BY <1>2, <2>3, <2>4 DEF End
  <1>5. CASE Read(p) \/ Reread(p) \/ ReadFails(p)
    BY <1>2, <1>5 DEF Read, Reread, ReadFails, End
  <1>6. ASSUME NEW q \in Procs, Step(q) \/ ReadFails(q)
        PROVE  q = p
    BY <1>2, <1>6 DEF Step, Precheck, Read, Reread, Write, ReadFails, NextRound, End
  <1>7. ~\E w \in late : ApplyLate(w)
    BY DEF ApplyLate
  <1> QED
    BY <1>3, <1>4, <1>5, <1>6, <1>7 DEF Next, Step

\* A command that says that it changed something, or that there was nothing to change,
\* leaves what it was asked for (runMutation, rmw.Update): its own change of what it had
\* read is what the server then has.
THEOREM ReportsAreTrue == Spec => ReportIsTrue
  <1> DEFINE Truthful ==
        \A p \in Procs :
          pc[p] # pc'[p] /\ pc'[p] \in {"changed", "noop"} =>
            \/ Wanted(cmd[p], cfg'[cmd[p].ns])
            \/ pc'[p] = "changed" /\ cfg'[cmd[p].ns] = Absent
  <1>1. Inv /\ [Next]_vars => [Truthful]_vars
    <2> SUFFICES ASSUME Inv, Next, NEW p \in Procs, pc[p] # pc'[p], pc'[p] \in {"changed", "noop"}
                 PROVE  \/ Wanted(cmd[p], cfg'[cmd[p].ns])
                        \/ pc'[p] = "changed" /\ cfg'[cmd[p].ns] = Absent
      OBVIOUS
    <2> DEFINE c == cmd[p]
    <2>1. c \in Command /\ c.ns \in Namespaces /\ cfg \in Config /\ cfg[c.ns] \in Item
      BY DEF Inv, TypeOK, Command, Config, Item
    <2>2. CASE /\ pc'[p] = "noop" /\ UNCHANGED cfg /\ Mutate(c, cfg) = cfg
               /\ ~(c.op = "include" /\ cfg[c.ns] = Absent)
      <3>1. Changed(c, cfg[c.ns]) = cfg[c.ns]
        BY <2>1, <2>2, Mutated
      <3>2. Wanted(c, cfg[c.ns])
        <4>1. CASE cfg[c.ns] = Absent
          <5>1. c.op \notin {"configure", "defaults"}
            <6>1. Defaults \in Entry /\ Absent \notin Entry
              BY UpdateAssumption DEF Defaults, Entry, Override
            <6>2. c.op \in {"configure", "defaults"} => Changed(c, Absent) = Defaults
              BY DEF Changed
            <6> QED BY <3>1, <4>1, <6>1, <6>2
          <5> QED BY <2>2, <4>1, <5>1 DEF Wanted, InForce
        <4>2. CASE cfg[c.ns] # Absent
          BY <2>1, <3>1, <4>2, ChangedWanted
        <4> QED BY <4>1, <4>2
      <3> QED BY <2>2, <3>2
    <2>3. CASE pc'[p] = "changed" /\ pc[p] = "write" /\ cfg' = Proposed(p)
      <3>1. snapshot[p] \in Config /\ snapshot[p][c.ns] \in Item
        BY <2>1, <2>3, ProposedList DEF Inv, Config, Item
      <3>2. cfg'[c.ns] = Changed(c, snapshot[p][c.ns])
        BY <2>1, <2>3, <3>1, Mutated DEF Proposed
      <3> QED BY <2>1, <2>3, <3>1, <3>2, ChangedWanted
    <2> QED
      BY <2>2, <2>3, ReportedStep
  <1> QED
    BY <1>1, InvHolds, PTL DEF Spec, ReportIsTrue
===============================================================================
