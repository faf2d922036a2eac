----------------------------- MODULE MCListing ------------------------------
(***************************************************************************)
(* Listing with interchangeable volumes of a kind.                         *)
(***************************************************************************)
EXTENDS Listing, TLC

ListingSymmetry == Permutations(Blocks) \cup Permutations(Volumes \ Blocks)
=============================================================================
