------------------------------ MODULE MCTokens ------------------------------
(***************************************************************************)
(* Instances of Tokens for TLC.                                            *)
(***************************************************************************)
EXTENDS Tokens, TLC

\* Calls are interchangeable, and so are the users.
MCSymmetry == Permutations(Calls) \cup Permutations(Users)
=============================================================================
