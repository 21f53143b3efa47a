----------------------------- MODULE MCFirstBoot -----------------------------
(***************************************************************************)
(* Instances of FirstBoot for TLC.                                         *)
(***************************************************************************)
EXTENDS FirstBoot
=============================================================================
