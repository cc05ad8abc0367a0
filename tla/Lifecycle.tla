----------------------------- MODULE Lifecycle -----------------------------
(***************************************************************************)
(* What a CRI client may rely on about the state of a container: an id is  *)
(* created once, its state moves only along ContainerState's legal         *)
(* transitions (crates/metadata/src/records.rs), and a removed container   *)
(* stays removed.  Container.tla is checked against this specification.    *)
(***************************************************************************)
CONSTANT Containers
VARIABLE st

LiveStates == {"Created", "Running", "Exited", "Unknown"}

(* ContainerState::can_transition_to *)
CanTransition(a, b) ==
  \/ a = "Created" /\ b \in {"Running", "Exited"}
  \/ a = "Running" /\ b = "Exited"
  \/ b = "Unknown"
  \/ a = "Unknown" /\ b \in {"Running", "Exited"}
  \/ a = b

Init == st = [c \in Containers |-> "Fresh"]

Create(c) == st[c] = "Fresh" /\ st' = [st EXCEPT ![c] = "Created"]

Move(c) ==
  /\ st[c] \in LiveStates
  /\ \E s \in LiveStates : CanTransition(st[c], s) /\ st' = [st EXCEPT ![c] = s]

Remove(c) == st[c] \in LiveStates /\ st' = [st EXCEPT ![c] = "Removed"]

Next == \E c \in Containers : Create(c) \/ Move(c) \/ Remove(c)

Spec == Init /\ [][Next]_st
=============================================================================
