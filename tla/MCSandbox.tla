------------------------------ MODULE MCSandbox ------------------------------
(* Instances of Sandbox for TLC: two or three sandbox ids of one pod, or of
   two. *)
EXTENDS Sandbox, TLC

CONSTANTS a, b, s1, s2, s3

OnePod  == [s \in Sandboxes |-> a]
TwoPods == [s \in Sandboxes |-> IF s = s3 THEN b ELSE a]

Slots == Permutations(Handlers) \cup Permutations(Pids)
=============================================================================
