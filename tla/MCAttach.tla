------------------------------ MODULE MCAttach ------------------------------
(* Constants of Attach for TLC. *)
EXTENDS Attach, TLC

CONSTANTS c1, c2, t1

Transports == (c1 :> "spdy") @@ (c2 :> "ws")

Once(streams) == [tty |-> FALSE, want |-> streams, once |-> TRUE]

Partial == {Once({"stdin", "stdout"})}
=============================================================================
