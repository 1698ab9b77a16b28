----------------------------- MODULE TokenLedger -----------------------------
(***************************************************************************)
(* What the service promises about a token, with no rows, requests, clock  *)
(* or clean-up in it: a token is issued once, with a limit fixed at issue; *)
(* it is spent one use at a time, never past the limit; and once it is     *)
(* closed - revoked, or its record removed - it is never spent again and   *)
(* never comes back.                                                       *)
(***************************************************************************)
EXTENDS Naturals

CONSTANTS Tokens, Limit, Null

VARIABLES
    issued,   \* the tokens handed out so far
    limit,    \* how many uses each was issued for, or Null for no limit
    accepted, \* how many redemptions of each were accepted
    closed    \* the tokens somebody or the clean-up put an end to

vars == <<issued, limit, accepted, closed>>

Init == /\ issued = {}
        /\ limit = [t \in Tokens |-> Null]
        /\ accepted = [t \in Tokens |-> 0]
        /\ closed = {}

Issue(t, m) == /\ t \notin issued
               /\ issued' = issued \cup {t}
               /\ limit' = [limit EXCEPT ![t] = m]
               /\ UNCHANGED <<accepted, closed>>

Spend(t) == /\ t \in issued \ closed
            /\ limit[t] # Null => accepted[t] < limit[t]
            /\ accepted' = [accepted EXCEPT ![t] = @ + 1]
            /\ UNCHANGED <<issued, limit, closed>>

Close(S) == /\ S \subseteq issued
            /\ closed' = closed \cup S
            /\ UNCHANGED <<issued, limit, accepted>>

Next == \/ \E t \in Tokens : Spend(t) \/ \E m \in Limit : Issue(t, m)
        \/ \E S \in SUBSET Tokens : Close(S)

Spec == Init /\ [][Next]_vars
=============================================================================
