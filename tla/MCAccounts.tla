----------------------------- MODULE MCAccounts -----------------------------
(***************************************************************************)
(* Instances of Accounts for TLC.                                          *)
(***************************************************************************)
EXTENDS Accounts, TLC

\* Handlers, session tokens and names are interchangeable.
MCSymmetry == Permutations(Procs) \cup Permutations(Sids) \cup Permutations(Names)
=============================================================================
