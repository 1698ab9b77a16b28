--------------------------- MODULE DeliveryLedger ---------------------------
(***************************************************************************)
(* What the dispatcher promises about a delivery, the pair of one event    *)
(* and one webhook: it is recorded once, tried one attempt at a time until *)
(* the receiver accepts it or the attempts run out, and then left alone.   *)
(* Its record may be dropped once it is settled; before, only together     *)
(* with its webhook, for which nothing is recorded from then on.           *)
(***************************************************************************)
EXTENDS Naturals

CONSTANTS Events, Hooks,   \* the deliveries there can be are their pairs
          Tries            \* attempts allowed for each

VARIABLES state,   \* of each delivery: none, pending, delivered, gaveup or dropped
          tried,   \* attempts recorded for it
          gone     \* the webhooks deleted

vars == <<state, tried, gone>>

Pairs == [event: Events, hook: Hooks]

Init == /\ state = [p \in Pairs |-> "none"]
        /\ tried = [p \in Pairs |-> 0]
        /\ gone = {}

Record(p) == /\ state[p] = "none"
             /\ p.hook \notin gone
             /\ state' = [state EXCEPT ![p] = "pending"]
             /\ UNCHANGED <<tried, gone>>

Attempt(p) == /\ state[p] = "pending"
              /\ tried[p] < Tries
              /\ tried' = [tried EXCEPT ![p] = @ + 1]
              /\ \/ state' = [state EXCEPT ![p] = "delivered"]
                 \/ tried'[p] < Tries /\ UNCHANGED state
                 \/ tried'[p] = Tries /\ state' = [state EXCEPT ![p] = "gaveup"]
              /\ UNCHANGED gone

(* The records of S are no more. *)
Dropped(S) == /\ state' = [p \in Pairs |-> IF p \in S THEN "dropped" ELSE state[p]]
              /\ tried' = [p \in Pairs |-> IF p \in S THEN 0 ELSE tried[p]]

Drop(S) == /\ \A p \in S : state[p] \in {"delivered", "gaveup"}
           /\ Dropped(S)
           /\ UNCHANGED gone

Forget(h) == /\ h \notin gone
             /\ gone' = gone \cup {h}
             /\ Dropped({p \in Pairs : p.hook = h /\ state[p] # "none"})

Next == \/ \E p \in Pairs : Record(p) \/ Attempt(p)
        \/ \E S \in SUBSET Pairs : Drop(S)
        \/ \E h \in Hooks : Forget(h)

Spec == Init /\ [][Next]_vars
=============================================================================
