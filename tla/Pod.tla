--------------------------------- MODULE Pod ---------------------------------
(***************************************************************************)
(* A pod as the kubelet sees it: the sandboxes of Sandbox together with    *)
(* the containers that CreateContainer and StartContainer put into them.   *)
(*                                                                         *)
(* The two halves of the RuntimeService meet in paths.  CreateContainer    *)
(* copies the sandbox's netns_path and /proc/<pid_holder_pid>/ns/... from  *)
(* the record into config.json, and `crun run' opens whatever is at those  *)
(* paths when the container is started.  Nothing in the code keeps what    *)
(* they name alive or checks that it is still the pod's: the sandbox       *)
(* handlers do not look at containers, StartContainer not at the sandbox.  *)
(*                                                                         *)
(* The client's part of the bargain is Protocol.  Left out: the steps      *)
(* inside CreateContainer and StartContainer (module Container); here      *)
(* crun opens the paths within StartContainer.                             *)
(***************************************************************************)
EXTENDS Sandbox

CONSTANTS
  Ctrs,    \* container ids, each used once
  HostNet  \* the host's network namespace

ASSUME PodAssumption == HostNet \notin Sandboxes

VARIABLE ctr  \* per container, its configuration and what it has joined

podVars == <<meta, ids, netns, cni, proc, hs, ctr>>

(* "net" is the sandbox whose /run/netns file the spec names, "pid" the    *)
(* holder it names; pidns is the process whose namespaces were joined.     *)
NoCtr == [st |-> "none", s |-> None, net |-> None, pid |-> {}, pidns |-> None]

In(s, states) == {c \in Ctrs : ctr[c].s = s /\ ctr[c].st \in states} # {}

PodInit == Init /\ ctr = [c \in Ctrs |-> NoCtr]

-----------------------------------------------------------------------------
(* What the bundle takes from the sandbox's record: no shared namespaces   *)
(* without a holder.                                                       *)
NsPaths(s) == [net |-> IF meta[s].host THEN HostNet ELSE s, pid |-> meta[s].holder]

(* CreateContainer: the sandbox must exist; its state is not looked at. *)
CreateContainer(c, s) ==
  /\ ctr[c].st = "none"
  /\ Serial => ~Busy(PodOf[s])
  /\ meta[s].state # "Absent"
  /\ ctr' = [ctr EXCEPT ![c] = [st |-> "created", s |-> s, net |-> NsPaths(s).net,
                                pid |-> NsPaths(s).pid, pidns |-> None]]
  /\ UNCHANGED vars

(* The paths can be opened: the file is there, the process is there. *)
PathsExist(c) ==
  /\ ctr[c].net # HostNet => ctr[c].net \in netns
  /\ \A p \in ctr[c].pid : proc[p] # None

(* StartContainer: crun joins what the paths name now, or fails. *)
StartContainer(c) ==
  /\ ctr[c].st = "created"
  /\ Serial => ~Busy(PodOf[ctr[c].s])
  /\ ctr' = [ctr EXCEPT ![c] =
       IF PathsExist(c)
         THEN [@ EXCEPT !.st = "running",
                        !.pidns = IF ctr[c].pid = {} THEN None
                                  ELSE proc[CHOOSE p \in ctr[c].pid : TRUE]]
         ELSE [@ EXCEPT !.st = "failed"]]
  /\ UNCHANGED vars

(* The workload ends by itself or by StopContainer. *)
ContainerEnds(c) ==
  /\ ctr[c].st = "running"
  /\ ctr' = [ctr EXCEPT ![c].st = "exited"]
  /\ UNCHANGED vars

-----------------------------------------------------------------------------
(* A PID namespace ends with its init, and takes its members along. *)
Bereft(c) ==
  /\ ctr[c].st = "running"
  /\ ctr[c].pidns \in Sandboxes
  /\ \A p \in Pids : proc'[p] # ctr[c].pidns

NamespacesEnd ==
  ctr' = [c \in Ctrs |-> IF Bereft(c) THEN [ctr[c] EXCEPT !.st = "exited"] ELSE ctr[c]]

(* The client starts what it has created before it stops the pod, and has  *)
(* every container stopped before it removes the sandbox.                  *)
Protocol ==
  \A h \in Handlers : hs[h].pc = "idle" =>
    /\ hs'[h].pc = "kill" => ~In(hs'[h].s, {"created"})
    /\ hs'[h].pc = "teardown" => ~In(hs'[h].s, {"created", "running"})

PodNext ==
  \/ Next /\ Protocol /\ NamespacesEnd
  \/ \E c \in Ctrs, s \in Sandboxes : CreateContainer(c, s)
  \/ \E c \in Ctrs : StartContainer(c) \/ ContainerEnds(c)

PodSpec == PodInit /\ [][PodNext]_podVars

-----------------------------------------------------------------------------
(* A running container is in its own pod, although it was configured with
   paths and pids only: its network is the host's or its sandbox's with the
   whole CNI chain added, and the PID and IPC namespaces it shares are the ones
   its sandbox's holder keeps, never those of a process that got the pid later.
   And crun finds what the paths name whenever a container is started. *)
WorkloadInItsPod ==
  \A c \in Ctrs :
    LET s == ctr[c].s IN
    /\ ctr[c].st # "failed"
    /\ ctr[c].st = "running" =>
         /\ IF ctr[c].net = HostNet THEN s \notin netns ELSE s \in netns /\ cni[s] = Plugins
         /\ ctr[c].pid # {} => ctr[c].pidns = s /\ \E p \in Pids : proc[p] = s
=============================================================================
