----------------------- MODULE MCInstrumentationUpdate -----------------------
(***************************************************************************)
(* Two commands on two namespaces, of which the first starts in any state. *)
(***************************************************************************)
EXTENDS InstrumentationUpdate

CONSTANTS n1, n2, s

Off     == [auto |-> FALSE, tracing |-> FALSE, apps |-> [x \in {s} |-> "none"]]
Initial == {[n \in {n1, n2} |-> IF n = n1 THEN e ELSE Off] :
              e \in {Absent} \cup {x \in Entry : ~x.tracing}}

\* On the second namespace, one command of each kind: guarded, unguarded.
Chosen  == {c \in Command : c.ns = n1 \/ c.op \in {"include", "remove"}}
===============================================================================
