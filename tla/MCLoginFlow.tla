----------------------------- MODULE MCLoginFlow -----------------------------
(***************************************************************************)
(* The instances of LoginFlow that TLC checks.                             *)
(***************************************************************************)
EXTENDS LoginFlow
===============================================================================
