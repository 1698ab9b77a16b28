----------------------------- MODULE MCDispatch -----------------------------
(* Dispatch on small sets. *)
EXTENDS Dispatch, TLC

(* An environment or an event type has no property but its name. *)
Symmetry == Permutations(Envs) \cup Permutations(EventTypes)
AllOrOne == {{}} \cup {{t} : t \in EventTypes}
Everything == {{}}
=============================================================================
