--------------------------- MODULE MCAppLifecycle ---------------------------
(***************************************************************************)
(* Instances of AppLifecycle for TLC.                                      *)
(***************************************************************************)
EXTENDS AppLifecycle, TLC

CONSTANTS oidcApp, plainApp

\* Both apps prefer the first port of the range.
MCPreferred == [a \in Apps |-> 1]

MCSymmetry == Permutations(Jobs)
=============================================================================
