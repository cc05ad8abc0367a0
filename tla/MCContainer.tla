---------------------------- MODULE MCContainer ----------------------------
(* TLC instances of Container.  Request slots are interchangeable. *)
EXTENDS Container, TLC

Slots == Permutations(Handlers)

(* A message that sets both limits, and two that set one of them. *)
Messages ==
  {[memory |-> {1}, cpu |-> {1}], [memory |-> {2}, cpu |-> {}], [memory |-> {}, cpu |-> {2}]}
=============================================================================
