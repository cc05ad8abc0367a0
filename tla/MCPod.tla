-------------------------------- MODULE MCPod --------------------------------
(* Instances of Pod for TLC: three sandbox ids of two pods, and a container
   that is created in any of them. *)
EXTENDS Pod, TLC

CONSTANTS a, b, s1, s2, s3

TwoPods == [s \in Sandboxes |-> IF s = s3 THEN b ELSE a]

Slots == Permutations(Handlers) \cup Permutations(Pids)
=============================================================================
