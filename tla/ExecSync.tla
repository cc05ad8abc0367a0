------------------------------ MODULE ExecSync ------------------------------
(***************************************************************************)
(* ExecSync: the handler, the `crun exec' it spawns, the process crun puts *)
(* into the container in a session of its own, and the pid file by which   *)
(* the handler can find that process when the deadline passes.             *)
(***************************************************************************)
CONSTANTS
  Execs,          \* ExecSync requests
  PromptPidFile   \* TRUE: crun has written the pid file, or given up, by the deadline

VARIABLE exec     \* per request: the handler, crun, the process, what is on disk

(* "tail": something the process started in the background keeps its output open *)
NoExec == [pc |-> "idle", timed |-> FALSE, saw |-> FALSE, reply |-> "none",
           crun |-> "none", proc |-> "none", pidfile |-> FALSE, tail |-> FALSE]

ExecInit == exec = [e \in Execs |-> NoExec]

-----------------------------------------------------------------------------
(* The handler.  A timeout of zero or less is none. *)
ExecSpawn(e) ==
  /\ exec[e].pc = "idle"
  /\ \E timed \in BOOLEAN :
       exec' = [exec EXCEPT ![e].pc = "wait", ![e].timed = timed, ![e].crun = "run"]

(* wait_with_output: crun has ended, and so has its output *)
WaiterDone(e) == exec[e].crun = "gone" /\ exec[e].proc # "run" /\ ~ exec[e].tail

ExecReply(e) ==
  /\ exec[e].pc = "wait" /\ WaiterDone(e)
  /\ exec' = [exec EXCEPT ![e].pc = "done", ![e].reply = "output", ![e].pidfile = FALSE]

(* The deadline: the pid file is read ... *)
ExecDeadline(e) ==
  /\ exec[e].pc = "wait" /\ exec[e].timed
  /\ PromptPidFile => exec[e].pidfile \/ exec[e].crun = "gone"
  /\ exec' = [exec EXCEPT ![e].pc = "kill", ![e].saw = exec[e].pidfile]

(* Mutant: only crun's process group is killed. *)
ExecKillNobody(e) ==
  /\ exec[e].pc = "kill"
  /\ exec' = [exec EXCEPT ![e].pc = "group"]

(* ... the process in it killed, if it is still there ... *)
ExecKill(e) ==
  /\ exec[e].pc = "kill"
  /\ exec' = [exec EXCEPT ![e].pc = "group",
                          ![e].proc = IF exec[e].saw /\ @ = "run" THEN "dead" ELSE @]

(* ... then crun, which leads its own process group, and the file removed. *)
ExecKillGroup(e) ==
  /\ exec[e].pc = "group"
  /\ exec' = [exec EXCEPT ![e].pc = "unlink", ![e].crun = "gone"]

ExecUnlink(e) ==
  /\ exec[e].pc = "unlink"
  /\ exec' = [exec EXCEPT ![e].pc = "done", ![e].reply = "deadline", ![e].pidfile = FALSE]

(* The client drops the request: the waiter and all it waits for go on. *)
ExecDropped(e) ==
  /\ exec[e].pc = "wait"
  /\ exec' = [exec EXCEPT ![e].pc = "done", ![e].reply = "dropped"]

-----------------------------------------------------------------------------
(* crun and the process *)
CrunForks(e) ==
  /\ exec[e].crun = "run" /\ exec[e].proc = "none"
  /\ exec' = [exec EXCEPT ![e].proc = "run"]

CrunFails(e) ==
  /\ exec[e].crun = "run" /\ exec[e].proc = "none"
  /\ exec' = [exec EXCEPT ![e].crun = "gone"]

CrunWritesPid(e) ==
  /\ exec[e].crun = "run" /\ exec[e].proc # "none" /\ ~ exec[e].pidfile
  /\ exec' = [exec EXCEPT ![e].pidfile = TRUE]

CrunExits(e) ==
  /\ exec[e].crun = "run" /\ exec[e].proc = "dead" /\ exec[e].pidfile
  /\ exec' = [exec EXCEPT ![e].crun = "gone"]

ProcExits(e) ==
  /\ exec[e].proc = "run"
  /\ \E tail \in BOOLEAN : exec' = [exec EXCEPT ![e].proc = "dead", ![e].tail = tail]

TailEnds(e) ==
  /\ exec[e].tail
  /\ exec' = [exec EXCEPT ![e].tail = FALSE]

(* the container's end takes every process in it along *)
AllKilled == [e \in Execs |->
                [exec[e] EXCEPT !.proc = IF @ = "run" THEN "dead" ELSE @, !.tail = FALSE]]

ExecStep(e) ==
  \/ ExecReply(e) \/ ExecDeadline(e) \/ ExecKill(e) \/ ExecKillGroup(e) \/ ExecUnlink(e)
  \/ ExecDropped(e)
  \/ CrunFails(e) \/ CrunWritesPid(e) \/ CrunExits(e) \/ ProcExits(e) \/ TailEnds(e)

-----------------------------------------------------------------------------
(* An ExecSync that answered, with the output or that its time is up, has   *)
(* left neither the process it started nor crun nor the pid file behind,    *)
(* whenever the deadline fell (exec_sync, whose comment says that killing   *)
(* crun alone is not enough).                                               *)
ExecLeavesNothing ==
  \A e \in Execs :
    exec[e].reply \in {"output", "deadline"} =>
      exec[e].proc # "run" /\ exec[e].crun = "gone" /\ ~ exec[e].pidfile
=============================================================================
