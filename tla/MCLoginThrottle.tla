-------------------------- MODULE MCLoginThrottle --------------------------
(***************************************************************************)
(* Instances of LoginThrottle for TLC.                                     *)
(***************************************************************************)
EXTENDS LoginThrottle, TLC

\* Workers are interchangeable, and so are the usernames.
MCSymmetry == Permutations(Workers) \cup Permutations(Names)
=============================================================================
