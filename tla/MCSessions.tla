----------------------------- MODULE MCSessions -----------------------------
(* Sessions on a small instance: the account admin is configured with p1,  *)
(* and an operator makes it with p1 or changes its password to p2.         *)
EXTENDS Sessions, TLC

CONSTANTS admin, p1, p2

Configured == [name |-> admin, password |-> p1]

AdminCreates == {<<[name |-> admin, password |-> p2], TRUE>>,
                 <<[name |-> admin, password |-> p1], FALSE>>}
=============================================================================
