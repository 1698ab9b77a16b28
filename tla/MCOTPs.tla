------------------------------- MODULE MCOTPs -------------------------------
(* OTPs on a small instance. *)
EXTENDS OTPs, TLC

Symmetry == Permutations(Otps) \cup Permutations(Clients) \cup Permutations(Subjects)
=============================================================================
