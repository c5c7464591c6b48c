---------------------------- MODULE MCConfigWrite ----------------------------
(* Instances of ConfigWrite for TLC: processes, fields and secrets are      *)
(* interchangeable.                                                         *)
EXTENDS ConfigWrite, TLC

Interchangeable == Permutations(Procs) \cup Permutations(Fields) \cup Permutations(Secrets)
===============================================================================
