---------------------------- MODULE MCLiveReload ----------------------------
(* Instances of LiveReload for TLC: what runs where files are watched, two   *)
(* hubs and two callbacks. A channel of one message is as good as the code's *)
(* 256: what matters is that it can be full and empty.                       *)
EXTENDS LiveReload, TLC

Interchangeable == Permutations(Hubs) \cup Permutations(Conns)
===============================================================================
