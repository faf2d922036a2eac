------------------------------ MODULE MCAttach ------------------------------
(***************************************************************************)
(* Attach with interchangeable controllers and calls.                      *)
(***************************************************************************)
EXTENDS Attach, TLC

AttachSymmetry == Permutations(Controllers) \cup Permutations(Calls)
=============================================================================
