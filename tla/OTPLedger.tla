------------------------------ MODULE OTPLedger ------------------------------
(***************************************************************************)
(* What the service promises about a one-time code: it is accepted at most *)
(* once, and only while fewer wrong guesses were made at it than it was    *)
(* issued for; once closed - revoked, or its record removed - it is        *)
(* neither accepted nor guessed at again.                                  *)
(***************************************************************************)
EXTENDS Naturals

CONSTANTS Otps, Ceilings

VARIABLES
    issued,   \* the codes handed out so far
    ceiling,  \* how many wrong guesses each allows
    guesses,  \* wrong guesses answered while the code could have been right
    accepted, \* how often each was accepted
    closed    \* the codes revoked or removed

vars == <<issued, ceiling, guesses, accepted, closed>>

Init == /\ issued = {}
        /\ ceiling = [o \in Otps |-> 0]
        /\ guesses = [o \in Otps |-> 0]
        /\ accepted = [o \in Otps |-> 0]
        /\ closed = {}

Issue(o, m) == /\ o \notin issued
               /\ issued' = issued \cup {o}
               /\ ceiling' = [ceiling EXCEPT ![o] = m]
               /\ UNCHANGED <<guesses, accepted, closed>>

Open == {o \in issued \ closed : accepted[o] = 0 /\ guesses[o] < ceiling[o]}

Guess(S) == /\ S \subseteq Open
            /\ guesses' = [o \in Otps |-> IF o \in S THEN guesses[o] + 1 ELSE guesses[o]]
            /\ UNCHANGED <<issued, ceiling, accepted, closed>>

Accept(S) == /\ S \subseteq Open
             /\ accepted' = [o \in Otps |-> IF o \in S THEN 1 ELSE accepted[o]]
             /\ UNCHANGED <<issued, ceiling, guesses, closed>>

Close(S) == /\ S \subseteq issued
            /\ closed' = closed \cup S
            /\ UNCHANGED <<issued, ceiling, guesses, accepted>>

Next == \/ \E o \in Otps, m \in Ceilings : Issue(o, m)
        \/ \E S \in SUBSET Otps : Guess(S) \/ Accept(S) \/ Close(S)

Spec == Init /\ [][Next]_vars
=============================================================================
