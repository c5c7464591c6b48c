--------------------------- MODULE CredentialFile ---------------------------
(***************************************************************************)
(* What a gcx user may expect of the stored credentials, whatever becomes  *)
(* of the configuration file, the keychain and the machine: every field    *)
(* always has the value some request gave it. A request changes its own    *)
(* fields, all at once, on top of what is there; until it is settled the   *)
(* store may fall back to what was there before.                           *)
(*                                                                         *)
(* src/docs/adrs/config-v1/001-versioned-split-config-and-secret-trust.md, *)
(* section 3, promises this of a rotation.                                 *)
(***************************************************************************)
CONSTANTS Procs, Fields, Secrets, None

VARIABLES
    cur,        \* what a reader resolves: a value, or None, for every field
    back,       \* what the store may still fall back to
    req         \* the request each process is carrying out

Request   == [fields: SUBSET Fields, val: Secrets \cup {None}]
NoRequest == [fields |-> {}, val |-> None]
Values    == [Fields -> Secrets \cup {None}]

With(values, r) == [f \in Fields |-> IF f \in r.fields THEN r.val ELSE values[f]]

Init == /\ cur \in Values
        /\ back = {}
        /\ req = [p \in Procs |-> NoRequest]

\* A process takes a request or is done with one; fall-backs may expire.
Ask == /\ req' \in [Procs -> Request]
       /\ back' \subseteq back
       /\ UNCHANGED cur

Apply(p) == /\ req[p] # NoRequest
            /\ cur' = With(cur, req[p])
            /\ back' \subseteq back \cup {cur}
            /\ UNCHANGED req

\* Every process may have ended with the machine.
FallBack == /\ cur' \in back
            /\ back' \subseteq back \cup {cur}
            /\ req' \in [Procs -> Request]

Next == Ask \/ FallBack \/ \E p \in Procs : Apply(p)

Spec == Init /\ [][Next]_<<cur, back, req>>
===============================================================================
