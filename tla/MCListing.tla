------------------------------ MODULE MCListing ------------------------------
(***************************************************************************)
(* A small instance of Listing for TLC: pages of one document, so that a   *)
(* walk has as many as it can, and of two, so that the last is not full.   *)
(***************************************************************************)
EXTENDS Listing

CONSTANTS d1, d2, d3
=============================================================================
