--------------------------- MODULE MCResourcePush ---------------------------
(* Instances of ResourcePush for TLC.                                        *)
EXTENDS ResourcePush, TLC

Interchangeable == Permutations(Folders) \cup Permutations(Others)
                     \cup Permutations(Strangers) \cup Permutations(Keys)
===============================================================================
