------------------------------ MODULE MCPool ------------------------------
(***************************************************************************)
(* Handlers and connections in any number; rooms are numbered.             *)
(***************************************************************************)
EXTENDS Pool, TLC

Symmetry == Permutations(Handler)
=============================================================================
