---------------------------- MODULE MCImageStore ----------------------------
(* Instances of ImageStore for TLC: two images on one base layer, or one. *)
EXTENDS ImageStore, TLC

CONSTANTS a, b, base, top, tag, digest

SharedLayers == (a :> <<base, top>>) @@ (b :> <<base>>)
OneImage     == (a :> <<base, top>>)

(* tag moved from a to b; digest names a for good *)
MovingTag   == (tag :> {a, b}) @@ (digest :> {a})
TwoNames    == (tag :> {a}) @@ (digest :> {a})

Slots == Permutations(Handlers)
=============================================================================
