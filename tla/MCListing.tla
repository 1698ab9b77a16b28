----------------------------- MODULE MCListing ------------------------------
(* Listing on a small instance: words of six bits, so that a number of     *)
(* seconds overflows within a few dozen; a second is four ticks.           *)
EXTENDS Listing, TLC

EveryInt == Int64
=============================================================================
