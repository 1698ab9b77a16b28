----------------------------- MODULE MCRegistry -----------------------------
(* Small instances of Registry: the keys' scopes, and symmetric requests.  *)
EXTENDS Registry, TLC

CONSTANTS c1, c2, k1, k2, t1

WriteAndAdmin == k1 :> "write" @@ k2 :> "admin"

Symmetry == Permutations({c1, c2})
=============================================================================
