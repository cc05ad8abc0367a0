------------------------------- MODULE MCExec -------------------------------
(* Constants of Exec for TLC. *)
EXTENDS Exec, TLC

CONSTANTS c1, c2, t1

Transports == (c1 :> "spdy") @@ (c2 :> "v1")

(* a shell, with and without a terminal, and a command without stdin *)
Asks == {[tty |-> TRUE,  want |-> {"stdin", "stdout"},  once |-> FALSE],
         [tty |-> FALSE, want |-> {"stdin", "stdout"},  once |-> FALSE],
         [tty |-> FALSE, want |-> {"stdout", "stderr"}, once |-> FALSE]}
=============================================================================
