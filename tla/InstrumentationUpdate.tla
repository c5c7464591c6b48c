------------------------ MODULE InstrumentationUpdate ------------------------
(***************************************************************************)
(* Several gcx commands change the app instrumentation of one cluster: the *)
(* list of its namespaces, which the server replaces as a whole and keeps  *)
(* no version of (cmd/gcx/instrumentation/services, clusters/apps, and     *)
(* internal/providers/instrumentation/rmw/update.go). rmw.Update reads the *)
(* list, changes it, reads again and compares before it writes; "remove"   *)
(* and "configure --use-defaults" read once and write. A write is one POST *)
(* through retry.Transport.                                                *)
(***************************************************************************)
EXTENDS RetryTransport, FiniteSets

CONSTANTS
    Procs, Namespaces, Services,
    Commands,       \* bound: the commands that are run, a subset of Command
    Configs,        \* bound: what is configured at first
    MaxRounds,      \* maxRetries of rmw.Update: 3 or 2 in the code
    MaxLate,        \* bound: writes the server applies later, at one time
    Faults,         \* what the environment does in this instance (AllFaults)
    Absent          \* a namespace that is not in the list

\* Requests are lost or refused, and answered before they are applied. A cancelled
\* request is one that is lost, and so is every request after it.
AllFaults == {"late", "lost"}

Override == {"none", "INCLUDED", "EXCLUDED"}
Entry    == [auto : BOOLEAN, tracing : BOOLEAN, apps : [Services -> Override]]
Config   == [Namespaces -> Entry \cup {Absent}]
Command  == [op : {"include", "exclude", "clear", "configure", "defaults", "remove"},
             ns : Namespaces, svc : Services]

ASSUME UpdateAssumption ==
    /\ MaxRounds \in Nat /\ MaxLate \in Nat
    /\ Faults \subseteq AllFaults
    /\ Commands \subseteq Command /\ Configs \subseteq Config
    /\ Absent \notin Entry \cup Config

VARIABLES
    cfg,        \* the list, at the server
    late,       \* writes that the server will still apply
    cmd, pc,    \* each process: its command, and where it is or what it reported
    snapshot,   \* snapshot1, or the one read of an unguarded command
    round,      \* attempt of rmw.Update
    attempt,    \* attempt of RoundTrip
    moved       \* history: what others changed since a writer's last read

vars == <<cfg, late, cmd, pc, snapshot, round, attempt, moved>>

Ended == {"noop", "changed", "conflict", "error"}

Init ==
    /\ cfg \in Configs
    /\ late = {}
    /\ cmd \in [Procs -> Commands]
    /\ pc = [p \in Procs |-> "precheck"]
    /\ snapshot = [p \in Procs |-> Absent]
    /\ round = [p \in Procs |-> 0] /\ attempt = [p \in Procs |-> 0]
    /\ moved = [p \in Procs |-> {}]

-----------------------------------------------------------------------------
(***************************************************************************)
(* What the commands make of a namespace's entry.                          *)
(***************************************************************************)
Defaults == [auto |-> TRUE, tracing |-> TRUE, apps |-> [s \in Services |-> "none"]]

Overridden(e, s, o) == [e EXCEPT !.apps[s] = o]

\* A mutant: the override is added whatever the namespace's own setting.
IncludedAsOverridden(e, s) ==
    Overridden(e, s, IF e.apps[s] = "EXCLUDED" THEN "none" ELSE e.apps[s])

\* applyIncludeMutation: an override is needed only where the namespace is off.
Included(e, s) ==
    Overridden(e, s, IF ~e.auto THEN "INCLUDED"
                     ELSE IF e.apps[s] = "EXCLUDED" THEN "none" ELSE e.apps[s])

Excluded(e, s) ==
    Overridden(e, s, IF e.auto THEN "EXCLUDED"
                     ELSE IF e.apps[s] = "INCLUDED" THEN "none" ELSE e.apps[s])

\* The services commands leave a list without their namespace as it is.
Changed(c, e) ==
    CASE c.op = "defaults"                                 -> Defaults
      [] c.op = "remove"                                   -> Absent
      [] c.op = "configure" /\ e = Absent                  -> Defaults
      [] c.op = "configure" /\ e # Absent                  -> [Defaults EXCEPT !.apps = e.apps]
      [] c.op = "include" /\ e # Absent                    -> Included(e, c.svc)
      [] c.op = "exclude" /\ e # Absent                    -> Excluded(e, c.svc)
      [] c.op = "clear" /\ e # Absent                      -> Overridden(e, c.svc, "none")
      [] c.op \in {"include", "exclude", "clear"} /\ e = Absent -> Absent

Mutate(c, list) == [list EXCEPT ![c.ns] = Changed(c, @)]

Unguarded(c) == c.op \in {"defaults", "remove"}

\* What a process writes.
Proposed(p) == Mutate(cmd[p], snapshot[p])

-----------------------------------------------------------------------------
(***************************************************************************)
(* The commands.                                                           *)
(***************************************************************************)
Go(p, to, list, r, a) ==
    /\ pc' = [pc EXCEPT ![p] = to]
    /\ snapshot' = [snapshot EXCEPT ![p] = list]
    /\ round' = [round EXCEPT ![p] = r]
    /\ attempt' = [attempt EXCEPT ![p] = a]

End(p, o) == Go(p, o, Absent, 0, 0)

\* The first read: a missing namespace, and nothing to do, end the command here.
\* "remove" writes whatever it has read.
Precheck(p) ==
    /\ pc[p] = "precheck"
    /\ LET c       == cmd[p]
           missing == c.op \in {"include", "exclude"} /\ cfg[c.ns] = Absent
           same    == Mutate(c, cfg) = cfg /\ c.op # "remove"
       IN  \/ missing /\ End(p, "error")
           \/ ~missing /\ same /\ End(p, "noop")
           \/ ~missing /\ ~same /\ ~Unguarded(c) /\ Go(p, "read", Absent, 0, 0)
           \/ ~same /\ Unguarded(c) /\ Go(p, "write", cfg, 0, 0)
    /\ moved' = [moved EXCEPT ![p] = {}]
    /\ UNCHANGED <<cfg, late, cmd>>

Read(p) ==
    /\ pc[p] = "read"
    /\ Go(p, "reread", cfg, round[p], 0)
    /\ UNCHANGED <<cfg, late, cmd, moved>>

\* A mutant: the comparison looks at the command's own namespace only.
RereadOwn(p) ==
    /\ pc[p] = "reread"
    /\ IF snapshot[p][cmd[p].ns] = cfg[cmd[p].ns]
       THEN Go(p, "write", snapshot[p], round[p], 0)
       ELSE End(p, "conflict")
    /\ moved' = [moved EXCEPT ![p] = {}]
    /\ UNCHANGED <<cfg, late, cmd>>

Reread(p) ==
    /\ pc[p] = "reread"
    /\ IF snapshot[p] = cfg
       THEN Go(p, "write", snapshot[p], round[p], 0)
       ELSE End(p, "conflict")
    /\ moved' = [moved EXCEPT ![p] = {}]
    /\ UNCHANGED <<cfg, late, cmd>>

\* A failing read ends the command, and so does the read that follows a cancellation.
ReadFails(p) ==
    /\ "lost" \in Faults
    /\ pc[p] \in {"precheck", "read", "reread"}
    /\ End(p, "error")
    /\ UNCHANGED <<cfg, late, cmd, moved>>

Differs(list) == {n \in Namespaces : list[n] # cfg[n]}

\* The server replaces the list; the other writers have not seen this.
Replace(list, others) ==
    /\ cfg' = list
    /\ moved' = [q \in Procs |-> IF q \in others /\ pc[q] = "write" THEN moved[q] \cup Differs(list)
                                                                  ELSE moved[q]]

Unseen(writes, list) == {[w EXCEPT !.moved = @ \cup Differs(list)] : w \in writes}

Effect(p, answer) ==
    \/ /\ "applied" \in Effects(answer)
       /\ Replace(Proposed(p), Procs \ {p})
       /\ late' = Unseen(late, Proposed(p))
    \/ /\ "ignored" \in Effects(answer)
       /\ UNCHANGED <<cfg, late, moved>>
    \/ /\ "late" \in Effects(answer) /\ "late" \in Faults
       /\ Cardinality(late) < MaxLate
       /\ late' = late \cup {[cmd |-> cmd[p], list |-> Proposed(p), moved |-> moved[p]]}
       /\ UNCHANGED <<cfg, moved>>

\* What setFn's error leads to: rmw.Update starts again from its first read.
NextRound(p) ==
    IF ~Unguarded(cmd[p]) /\ round[p] < MaxRounds
    THEN Go(p, "read", Absent, round[p] + 1, 0)
    ELSE End(p, "error")

Answers == IF "lost" \in Faults THEN Answer ELSE {"ok"}

\* A mutant: an attempt of RoundTrip is not counted.
WriteUncounted(p) ==
    /\ pc[p] = "write"
    /\ \E answer \in Answers :
         /\ Effect(p, answer)
         /\ \/ answer = "ok" /\ End(p, "changed")
            \/ ShouldRetry("POST", answer, 0) /\ Go(p, "write", snapshot[p], round[p], 0)
            \/ answer # "ok" /\ ~ShouldRetry("POST", answer, 0) /\ NextRound(p)
    /\ UNCHANGED cmd

\* One attempt of the write. Nothing is read between two of them.
Write(p) ==
    /\ pc[p] = "write"
    /\ \E answer \in Answers :
         /\ Effect(p, answer)
         /\ \/ /\ answer = "ok"
               /\ End(p, "changed")
            \/ /\ ShouldRetry("POST", answer, attempt[p])
               /\ Go(p, "write", snapshot[p], round[p], attempt[p] + 1)
            \/ /\ answer # "ok" /\ ~ShouldRetry("POST", answer, attempt[p])
               /\ NextRound(p)
    /\ UNCHANGED cmd

\* The server applies a write that its caller has given up.
ApplyLate(w) ==
    /\ Replace(w.list, Procs)
    /\ late' = Unseen(late \ {w}, w.list)
    /\ UNCHANGED <<cmd, pc, snapshot, round, attempt>>

Step(p) == Precheck(p) \/ Read(p) \/ Reread(p) \/ Write(p)

Next == \/ \E p \in Procs : Step(p) \/ ReadFails(p)
        \/ \E w \in late : ApplyLate(w)

Spec == Init /\ [][Next]_vars

\* Every request is answered: http.Client gives it up after a minute.
Fairness == \A p \in Procs : WF_vars(Step(p))
FairSpec == Spec /\ Fairness

-----------------------------------------------------------------------------
(***************************************************************************)
(* Properties.                                                             *)
(***************************************************************************)
\* The types; rounds and attempts are bounded.
TypeOK ==
    /\ cfg \in Config
    /\ late \subseteq [cmd : Command, list : Config, moved : SUBSET Namespaces]
    /\ cmd \in [Procs -> Command]
    /\ pc \in [Procs -> {"precheck", "read", "reread", "write"} \cup Ended]
    /\ snapshot \in [Procs -> Config \cup {Absent}]
    /\ \A p \in Procs : pc[p] \in {"reread", "write"} => snapshot[p] # Absent
    /\ round \in [Procs -> 0 .. MaxRounds] /\ attempt \in [Procs -> 0 .. MaxRetries]
    /\ moved \in [Procs -> SUBSET Namespaces]

\* Where a write that is about to be sent, or is still on its way, would leave anything
\* but its own change on the list, somebody has changed that since the read that the
\* write was compared with.
Fresh(c, list, since) == \A n \in Namespaces : list[n] # Mutate(c, cfg)[n] => n \in since

UndoesOnlyTheUnseen ==
    /\ \A p \in Procs : pc[p] = "write" => Fresh(cmd[p], Proposed(p), moved[p])
    /\ \A w \in late : Fresh(w.cmd, w.list, w.moved)

\* Whether a service is instrumented.
InForce(e, s) == e # Absent /\ (e.apps[s] = "INCLUDED" \/ (e.auto /\ e.apps[s] # "EXCLUDED"))

Wanted(c, e) ==
    /\ c.op = "include" => InForce(e, c.svc)
    /\ c.op = "exclude" => ~InForce(e, c.svc)
    /\ c.op = "clear" /\ e # Absent => e.apps[c.svc] = "none"
    /\ c.op \in {"configure", "defaults"} => e # Absent /\ e.auto /\ e.tracing
    /\ c.op = "remove" => e = Absent

\* A command that reports a change, or that there was nothing to change, leaves what it
\* was asked for, unless the namespace was removed after its precheck.
ReportIsTrue ==
    [][\A p \in Procs :
         pc[p] # pc'[p] /\ pc'[p] \in {"changed", "noop"} =>
           \/ Wanted(cmd[p], cfg'[cmd[p].ns])
           \/ pc'[p] = "changed" /\ cfg'[cmd[p].ns] = Absent]_vars

\* Every command ends, whatever the server does.
CommandsEnd == \A p \in Procs : <>(pc[p] \in Ended)
===============================================================================
