-------------------------- MODULE RunningContainer --------------------------
(***************************************************************************)
(* A container from StartContainer to its end: the log it writes and the   *)
(* ExecSync requests that run beside it.  crun can only put a process into *)
(* a container that runs, and the container's end ends every process in it.*)
(***************************************************************************)
EXTENDS ContainerLog, ExecSync

vars == <<logVars, exec>>

Init == LogInit /\ ExecInit

(* get_container: the record is there from CreateContainer on. *)
ExecSyncCalled(e) == ExecSpawn(e) /\ UNCHANGED logVars

CrunEnters(e) == box.proc = "run" /\ CrunForks(e) /\ UNCHANGED logVars

ContainerEnds == (CtrExit \/ StopKill) /\ exec' = AllKilled

Next ==
  \/ LogStep /\ UNCHANGED exec
  \/ ContainerEnds
  \/ \E e \in Execs : ExecSyncCalled(e) \/ CrunEnters(e) \/ (ExecStep(e) /\ UNCHANGED logVars)

Spec == Init /\ [][Next]_vars
=============================================================================
