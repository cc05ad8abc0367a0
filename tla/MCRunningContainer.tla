------------------------- MODULE MCRunningContainer -------------------------
(* A line in one or two chunks on stdout, a byte between them on stderr.   *)
EXTENDS RunningContainer

SmallOutput == [s \in Streams |-> IF s = "stdout" THEN 2 ELSE 1]
=============================================================================
