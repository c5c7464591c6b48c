--------------------------- MODULE MCTokenRefresh ---------------------------
(***************************************************************************)
(* Instances of TokenRefresh: two processes of one goroutine each, which   *)
(* meet at the file and its lock, and one process whose goroutines meet at *)
(* the flight.                                                             *)
(***************************************************************************)
EXTENDS TokenRefresh, TLC

CONSTANTS p1, p2, r1, r2, d1, d2

TwoProcs   == {p1, p2}
OneProc    == {p1}
TwoReqs    == {r1, r2}
OneEach    == (r1 :> p1) @@ (r2 :> p2)
SameProc   == [r \in Reqs |-> p1]

\* The two processes are alike if each takes its goroutine along, and so are
\* the destinations.
Alike == {(p1 :> p2) @@ (p2 :> p1) @@ (r1 :> r2) @@ (r2 :> r1)} \cup Permutations(Dests)
===============================================================================
