---------------------------- MODULE Collections ----------------------------
(***************************************************************************)
(* Rust's collections: Vec::retain, Iterator::filter and HashMap::extend.  *)
(***************************************************************************)
EXTENDS Sequences, SequencesExt

(* the elements that pass a test, in their order *)
Retain(seq, Test(_)) ==
  FlattenSeq([i \in DOMAIN seq |-> IF Test(seq[i]) THEN <<seq[i]>> ELSE <<>>])

(* all entries of the new map, and those of the old one it does not replace *)
Extend(old, new) ==
  [x \in DOMAIN old \cup DOMAIN new |-> IF x \in DOMAIN new THEN new[x] ELSE old[x]]
=============================================================================
