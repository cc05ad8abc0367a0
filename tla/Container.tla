------------------------------ MODULE Container ------------------------------
(***************************************************************************)
(* The container half of the CRI RuntimeService (crates/cri/src/server.rs) *)
(* together with what it drives: the ContainerRecord in metadata.db, the   *)
(* OCI bundle on disk, the `crun' runtime and its `crun run' processes,    *)
(* and the supervision task StartContainer leaves behind.                  *)
(*                                                                         *)
(* The daemon runs on tokio's multi-thread runtime and takes no lock       *)
(* around a record: every metadata get and put is a transaction of its own *)
(* (crates/metadata/src/lib.rs), so a handler is split at each of them and *)
(* at each crun command.  Handlers, supervision tasks, `crun run'          *)
(* processes, the workload and restarts of the daemon interleave.          *)
(*                                                                         *)
(* Left out: log files, live streams and the CRI event broadcast, which    *)
(* nothing in this module reads back.                                      *)
(***************************************************************************)
EXTENDS Integers, FiniteSets

CONSTANTS
  Containers,   \* container ids CreateContainer can generate (each once)
  Tty,          \* those whose config.json says terminal: true
  Handlers,     \* CRI requests that can be in progress at the same time
  ExitCodes,    \* exit codes of workloads and of `crun run'; 0 is success
  LimitFields,  \* the limits a resource message has a field for
  LimitValues,  \* the values such a field can have
  Limits,       \* the resource messages a client sends in this instance
  Ops,          \* the CRI operations the client uses in this instance
  Serial,       \* TRUE: the client has one request per container in flight
  PromptCrun,   \* TRUE: crun registers a container before StartContainer
                \*   gives up its 2 s wait, and starts it before a restarted
                \*   daemon is up
  Cancels,      \* the steps at which the client may drop a request
  CrunFaults,   \* TRUE: `crun state' may fail for a container crun knows
  MaxCrashes,   \* bound on the number of crashes of the daemon
  None          \* no container, no request

Forced == -1    \* exit code recorded when the real one is not known

AllOps == {"Create", "Start", "Stop", "Remove", "Update"}

(* The awaits of the handlers: StartContainer's wait, StopContainer's sleep *)
(* and commands, RemoveContainer's delete and UpdateContainerResources' own *)
(* command.  A command that was started is finished by its blocking thread, *)
(* so a drop takes effect before or after it.                               *)
AwaitSteps == {"wait", "poll", "kill", "final", "forget", "persist"}

(* An Option of S: nothing, or one element. *)
Opt(S) == {{}} \cup {{x} : x \in S}

ASSUME ContainerAssumption ==
  /\ Tty \subseteq Containers
  /\ None \notin Containers \cup Handlers
  /\ ExitCodes \subseteq Nat
  /\ 0 \in ExitCodes
  /\ ExitCodes \ {0} # {}
  /\ Limits \subseteq [LimitFields -> Opt(LimitValues)]
  /\ Ops \subseteq AllOps
  /\ Serial \in BOOLEAN
  /\ PromptCrun \in BOOLEAN
  /\ Cancels \subseteq AwaitSteps
  /\ CrunFaults \in BOOLEAN
  /\ MaxCrashes \in Nat

VARIABLES
  meta,     \* Kind::Container table of metadata.db (persistent)
  bundle,   \* bundle directory: config.json present, limits in it (persistent)
  ids,      \* which container ids have been generated, and published
  crun,     \* crun's own state directory (survives the daemon)
  cg,       \* limits programmed in the container's cgroup (survives the daemon)
  run,      \* `crun run' processes, one per launching request (survive it too)
  hs,       \* request handlers in progress, with their copy of the record
  task,     \* supervision tasks spawned by StartContainer
  daemon,   \* "up", "down" or "reconcile", and the number of crashes so far
  todo,     \* records reconcile() has still to visit
  rc        \* reconcile()'s current record

diskVars == <<meta, bundle, ids>>
crunVars == <<crun, cg, run>>
recVars  == <<daemon, todo, rc>>
vars     == <<meta, bundle, ids, crun, cg, run, hs, task, daemon, todo, rc>>

-----------------------------------------------------------------------------
ContainerStates == {"Created", "Running", "Exited", "Unknown"}
Codes    == ExitCodes \cup {Forced}
Failures == ExitCodes \ {0}

(* The fields of ContainerRecord that change after CreateContainer, or     *)
(* decide how it is treated.  "Absent" stands for no record under the key. *)
Record == [state  : ContainerStates \cup {"Absent"},
           exit   : Opt(Codes),
           reason : {"", "Completed", "Error", "Unknown"},
           limits : Opt(Limits)]
NoRecord == [state |-> "Absent", exit |-> {}, reason |-> "", limits |-> {}]
CreatedRecord(lim) ==
  [state |-> "Created", exit |-> {}, reason |-> "", limits |-> lim]

Bundle   == [present : BOOLEAN, limits : Opt(Limits)]
NoBundle == [present |-> FALSE, limits |-> {}]

(* The limits in effect in a cgroup; {} is no limit.  A message changes the *)
(* fields it sets (update_args) and leaves the others as they are.          *)
Cgroup  == [LimitFields -> Opt(LimitValues)]
NoLimit == [f \in LimitFields |-> {}]
Limited(set, lim) ==
  [f \in LimitFields |-> IF lim[f] = {} THEN set[f] ELSE lim[f]]

(* crun's view of an id; "by" is the request whose `crun run' registered it *)
CrunStatus == {"absent", "created", "running", "stopped"}
CrunState  == [st : CrunStatus, by : Handlers \cup {None}, code : Opt(ExitCodes)]
NoCrun     == [st |-> "absent", by |-> None, code |-> {}]

RunPC == {"none", "spawned", "attached", "detached", "failed", "exited"}
Run   == [pc : RunPC, c : Containers \cup {None}, code : Opt(ExitCodes)]
NoRun == [pc |-> "none", c |-> None, code |-> {}]
NewRun(c) == [pc |-> "spawned", c |-> c, code |-> {}]

TaskPC == {"none", "spawn", "wait", "get", "put"}
Task   == [pc : TaskPC, c : Containers \cup {None}, code : Opt(Codes), r : Record]
NoTask == [pc |-> "none", c |-> None, code |-> {}, r |-> NoRecord]
NewTask(c) == [pc |-> "spawn", c |-> c, code |-> {}, r |-> NoRecord]

HandlerPC == {"idle", "write", "check", "mark", "wait",
              "term", "poll", "kill", "delete", "final", "settle",
              "forget", "unlink", "apply", "persist"}
Handler == [op : AllOps \cup {"none"}, pc : HandlerPC,
            c : Containers \cup {None}, r : Record]
Idle == [op |-> "none", pc |-> "idle", c |-> None, r |-> NoRecord]

Reconcile == [pc : {"idle", "delete", "put"}, c : Containers \cup {None},
              seen : CrunStatus \cup {"error"}]
NoRc == [pc |-> "idle", c |-> None, seen |-> "absent"]

Typed ==
  /\ meta   \in [Containers -> Record]
  /\ bundle \in [Containers -> Bundle]
  /\ ids    \in [Containers -> {"fresh", "reserved", "known"}]
  /\ crun   \in [Containers -> CrunState]
  /\ cg     \in [Containers -> Cgroup]
  /\ run    \in [Handlers -> Run]
  /\ hs     \in [Handlers -> Handler]
  /\ task   \in [Handlers -> Task]
  /\ daemon \in [phase : {"up", "down", "reconcile"}, crashes : 0..MaxCrashes]
  /\ todo   \in SUBSET Containers
  /\ rc     \in Reconcile

(* Whatever is in progress is about some container. *)
Placed ==
  /\ \A h \in Handlers : hs[h].pc # "idle" => hs[h].c \in Containers
  /\ \A h \in Handlers : task[h].pc # "none" => task[h].c \in Containers
  /\ \A h \in Handlers : run[h].pc # "none" => run[h].c \in Containers
  /\ rc.pc # "idle" => rc.c \in Containers

(* The type invariant: what each store, handler, task and process holds. *)
TypeOK == Typed /\ Placed

Init ==
  /\ meta   = [c \in Containers |-> NoRecord]
  /\ bundle = [c \in Containers |-> NoBundle]
  /\ ids    = [c \in Containers |-> "fresh"]
  /\ crun   = [c \in Containers |-> NoCrun]
  /\ cg     = [c \in Containers |-> NoLimit]
  /\ run    = [h \in Handlers |-> NoRun]
  /\ hs     = [h \in Handlers |-> Idle]
  /\ task   = [h \in Handlers |-> NoTask]
  /\ daemon = [phase |-> "up", crashes |-> 0]
  /\ todo   = {}
  /\ rc     = NoRc

-----------------------------------------------------------------------------
(* crun, as the daemon's commands see it.                                  *)

Live(c) == crun[c].st \in {"created", "running"}

(* `crun delete --force c': kills what runs and forgets the id. *)
CrunDelete(c) == crun' = [crun EXCEPT ![c] = NoCrun]

(* The init process of c ends with code; crun keeps the id. *)
CrunStop(c, code) ==
  crun' = [crun EXCEPT ![c] = [@ EXCEPT !.st = "stopped", !.code = {code}]]

(* The process of request h's `crun run' has not reached registration. *)
Launching(h) == task[h].pc = "spawn" \/ run[h].pc = "spawned"

(* ... or has registered the id and not started the workload yet. *)
Unsettled(h) ==
  \/ run[h].pc = "spawned"
  \/ run[h].pc = "attached" /\ crun[run[h].c].st = "created"

-----------------------------------------------------------------------------
(* Request handlers.                                                       *)

Busy(c) == \E h \in Handlers : hs[h].pc # "idle" /\ hs[h].c = c

(* A client may send op for container c, and slot h takes the request. *)
Accept(h, op, c) ==
  /\ daemon.phase = "up"
  /\ op \in Ops
  /\ hs[h].pc = "idle"
  /\ Serial => ~Busy(c)

At(h, pc) == hs[h].pc = pc
Goto(h, pc) == hs' = [hs EXCEPT ![h] = [@ EXCEPT !.pc = pc]]
Enter(h, op, pc, c, r) ==
  hs' = [hs EXCEPT ![h] = [op |-> op, pc |-> pc, c |-> c, r |-> r]]
Return(h) == hs' = [hs EXCEPT ![h] = Idle]

(* CreateContainer: a generated id, then the bundle with its config.json;  *)
(* an unpack or spec error returns with the directory left behind.         *)
CreateBundle(h, c, lim) ==
  /\ Accept(h, "Create", c)
  /\ ids[c] = "fresh"
  /\ ids' = [ids EXCEPT ![c] = "reserved"]
  /\ \/ /\ bundle' = [bundle EXCEPT ![c] = [present |-> TRUE, limits |-> lim]]
        /\ Enter(h, "Create", "write", c, CreatedRecord(lim))
     \/ UNCHANGED <<bundle, hs>>
  /\ UNCHANGED <<meta, crunVars, task, recVars>>

(* ... and the record last, so that no record lacks its bundle. *)
CreatePut(h) ==
  /\ At(h, "write")
  /\ meta' = [meta EXCEPT ![hs[h].c] = hs[h].r]
  /\ ids' = [ids EXCEPT ![hs[h].c] = "known"]
  /\ Return(h)
  /\ UNCHANGED <<bundle, crunVars, task, recVars>>

(* Mutant of StartGet: any record can be started. *)
StartGetAnyState(h, c) ==
  /\ Accept(h, "Start", c)
  /\ meta[c].state # "Absent"
  /\ task[h].pc = "none" /\ run[h].pc = "none"
  /\ Enter(h, "Start", "check", c, meta[c])
  /\ UNCHANGED <<diskVars, crunVars, task, recVars>>

(* StartContainer: only a Created record is started. *)
StartGet(h, c) ==
  /\ Accept(h, "Start", c)
  /\ meta[c].state = "Created"
  /\ task[h].pc = "none" /\ run[h].pc = "none"
  /\ Enter(h, "Start", "check", c, meta[c])
  /\ UNCHANGED <<diskVars, crunVars, task, recVars>>

StartCheck(h) ==
  /\ At(h, "check")
  /\ IF bundle[hs[h].c].present THEN Goto(h, "mark") ELSE Return(h)
  /\ UNCHANGED <<diskVars, crunVars, task, recVars>>

(* The copy read above is stored as Running, and supervision spawned. *)
StartMark(h) ==
  /\ At(h, "mark")
  /\ meta' = [meta EXCEPT ![hs[h].c] = [hs[h].r EXCEPT !.state = "Running"]]
  /\ task' = [task EXCEPT ![h] = NewTask(hs[h].c)]
  /\ Goto(h, "wait")
  /\ UNCHANGED <<bundle, ids, crunVars, recVars>>

(* Mutant of StartWait: supervision is dropped with the request. *)
StartWaitAborts(h) ==
  /\ At(h, "wait")
  /\ crun[hs[h].c].st # "absent" \/ ~(PromptCrun /\ Launching(h))
  /\ Return(h)
  /\ task' = [task EXCEPT ![h] = IF crun[hs[h].c].st = "absent" THEN NoTask ELSE @]
  /\ UNCHANGED <<diskVars, crunVars, recVars>>

(* Poll `crun state' until it knows the id, for 2 s at most. *)
StartWait(h) ==
  /\ At(h, "wait")
  /\ \/ crun[hs[h].c].st # "absent"
     \/ ~(PromptCrun /\ Launching(h))
  /\ Return(h)
  /\ UNCHANGED <<diskVars, crunVars, task, recVars>>

(* StopContainer: nothing to do without a record or when it is Exited. *)
StopGet(h, c) ==
  /\ Accept(h, "Stop", c)
  /\ meta[c].state \notin {"Absent", "Exited"}
  /\ Enter(h, "Stop", "term", c, NoRecord)
  /\ UNCHANGED <<diskVars, crunVars, task, recVars>>

(* SIGTERM, which the workload may act on in its own time or ignore; a     *)
(* positive timeout waits for the record, none escalates at once.          *)
StopTerm(h) ==
  /\ At(h, "term")
  /\ \E next \in {"poll", "kill"} : Goto(h, next)
  /\ UNCHANGED <<diskVars, crunVars, task, recVars>>

(* Mutant of StopPoll: past the deadline the record is settled, no KILL. *)
StopPollNoKill(h) ==
  /\ At(h, "poll")
  /\ Goto(h, "final")
  /\ UNCHANGED <<diskVars, crunVars, task, recVars>>

(* Mutant of StopPoll: past the deadline the request returns. *)
StopPollReturns(h) ==
  /\ At(h, "poll")
  /\ \/ meta[hs[h].c].state = "Exited" /\ Goto(h, "final")
     \/ Return(h)
  /\ UNCHANGED <<diskVars, crunVars, task, recVars>>

(* The record turned Exited, or the deadline passed. *)
StopPoll(h) ==
  /\ At(h, "poll")
  /\ \/ meta[hs[h].c].state = "Exited" /\ Goto(h, "final")
     \/ Goto(h, "kill")
  /\ UNCHANGED <<diskVars, crunVars, task, recVars>>

(* `crun kill KILL' *)
StopKill(h) ==
  /\ At(h, "kill")
  /\ LET c == hs[h].c IN
     IF Live(c)
       THEN \E code \in Failures : CrunStop(c, code)
       ELSE UNCHANGED crun
  /\ Goto(h, "delete")
  /\ UNCHANGED <<diskVars, cg, run, task, recVars>>

(* `crun delete --force' *)
StopDelete(h) ==
  /\ At(h, "delete")
  /\ CrunDelete(hs[h].c)
  /\ Goto(h, "final")
  /\ UNCHANGED <<diskVars, cg, run, task, recVars>>

(* Re-read; a record that is gone or Exited is left as it is. *)
StopFinal(h) ==
  /\ At(h, "final")
  /\ LET r == meta[hs[h].c] IN
     IF r.state \in {"Absent", "Exited"}
       THEN Return(h)
       ELSE Enter(h, "Stop", "settle", hs[h].c, r)
  /\ UNCHANGED <<diskVars, crunVars, task, recVars>>

(* Mutant of StopSettle: the reason is not set. *)
StopSettleNoReason(h) ==
  /\ At(h, "settle")
  /\ meta' = [meta EXCEPT ![hs[h].c] =
                [hs[h].r EXCEPT !.state = "Exited", !.exit = {Forced}]]
  /\ Return(h)
  /\ UNCHANGED <<bundle, ids, crunVars, task, recVars>>

StopSettle(h) ==
  /\ At(h, "settle")
  /\ meta' = [meta EXCEPT ![hs[h].c] =
                [hs[h].r EXCEPT !.state = "Exited", !.exit = {Forced},
                                !.reason = "Error"]]
  /\ Return(h)
  /\ UNCHANGED <<bundle, ids, crunVars, task, recVars>>

(* Mutant of RemoveDelete: only a stopped container is deleted. *)
RemoveDeleteStopped(h, c) ==
  /\ Accept(h, "Remove", c)
  /\ ids[c] = "known"
  /\ IF Live(c) THEN UNCHANGED crun ELSE CrunDelete(c)
  /\ Enter(h, "Remove", "forget", c, NoRecord)
  /\ UNCHANGED <<diskVars, cg, run, task, recVars>>

(* RemoveContainer: force-delete, whatever the state; then the record;     *)
(* then the bundle.                                                        *)
RemoveDelete(h, c) ==
  /\ Accept(h, "Remove", c)
  /\ ids[c] = "known"
  /\ CrunDelete(c)
  /\ Enter(h, "Remove", "forget", c, NoRecord)
  /\ UNCHANGED <<diskVars, cg, run, task, recVars>>

RemoveForget(h) ==
  /\ At(h, "forget")
  /\ meta' = [meta EXCEPT ![hs[h].c] = NoRecord]
  /\ Goto(h, "unlink")
  /\ UNCHANGED <<bundle, ids, crunVars, task, recVars>>

RemoveUnlink(h) ==
  /\ At(h, "unlink")
  /\ bundle' = [bundle EXCEPT ![hs[h].c] = NoBundle]
  /\ Return(h)
  /\ UNCHANGED <<meta, ids, crunVars, task, recVars>>

(* UpdateContainerResources: copy of the record, `crun update' with the    *)
(* fields the message sets, and the copy stored again with the whole       *)
(* message.  A request without Linux limits stores nothing; a failed       *)
(* `crun update' returns an error.                                         *)
UpdateGet(h, c) ==
  /\ Accept(h, "Update", c)
  /\ meta[c].state # "Absent"
  /\ Enter(h, "Update", "apply", c, meta[c])
  /\ UNCHANGED <<diskVars, crunVars, task, recVars>>

UpdateApply(h) ==
  /\ At(h, "apply")
  /\ \/ \E lim \in Limits :
          /\ Live(hs[h].c)
          /\ cg' = [cg EXCEPT ![hs[h].c] = Limited(@, lim)]
          /\ Enter(h, "Update", "persist", hs[h].c, [hs[h].r EXCEPT !.limits = {lim}])
     \/ Return(h) /\ UNCHANGED cg
  /\ UNCHANGED <<diskVars, crun, run, task, recVars>>

(* Mutant of UpdatePut: the new limits are not stored. *)
UpdatePutSkipped(h) ==
  /\ At(h, "persist")
  /\ Return(h)
  /\ UNCHANGED <<diskVars, crunVars, task, recVars>>

UpdatePut(h) ==
  /\ At(h, "persist")
  /\ meta' = [meta EXCEPT ![hs[h].c] = hs[h].r]
  /\ Return(h)
  /\ UNCHANGED <<bundle, ids, crunVars, task, recVars>>

(* The client gives up: the handler's future is dropped at an await point. *)
(* The supervision task it spawned and the command it waits for go on.     *)
Cancel(h) ==
  /\ hs[h].pc \in Cancels
  /\ Return(h)
  /\ UNCHANGED <<diskVars, crunVars, task, recVars>>

-----------------------------------------------------------------------------
(* `crun run' processes and workloads.                                     *)

(* The cgroup a config.json made from the message asks for. *)
SpecLimits(o) ==
  [f \in LimitFields |-> UNION {lim[f] : lim \in o}]

(* create: the id is new and the bundle is there. *)
RunRegister(h) ==
  LET c == run[h].c IN
  /\ run[h].pc = "spawned"
  /\ bundle[c].present
  /\ crun[c].st = "absent"
  /\ crun' = [crun EXCEPT ![c] = [st |-> "created", by |-> h, code |-> {}]]
  /\ cg' = [cg EXCEPT ![c] = SpecLimits(bundle[c].limits)]
  /\ run' = [run EXCEPT ![h] = [@ EXCEPT !.pc = "attached"]]
  /\ UNCHANGED <<diskVars, hs, task, recVars>>

(* The outcome of h's `crun run': kept for the supervision task waiting on *)
(* it, lost when there is none.                                            *)
Ended(h, pc, code) ==
  IF task[h].pc = "wait" THEN [run[h] EXCEPT !.pc = pc, !.code = {code}] ELSE NoRun

(* crun gives up before registering the id (known already, no bundle, a    *)
(* spec it rejects).  It never connects to a console socket.               *)
RunFail(h) ==
  /\ run[h].pc = "spawned"
  /\ \E code \in Failures : run' = [run EXCEPT ![h] = Ended(h, "failed", code)]
  /\ UNCHANGED <<diskVars, crun, cg, hs, task, recVars>>

(* start: foreground crun stays to wait; a detached one (tty) returns. *)
RunStart(h) ==
  LET c == run[h].c IN
  /\ run[h].pc = "attached"
  /\ crun[c].st = "created" /\ crun[c].by = h
  /\ crun' = [crun EXCEPT ![c] = [@ EXCEPT !.st = "running"]]
  /\ run' = IF c \in Tty
              THEN [run EXCEPT ![h] = IF task[h].pc = "wait"
                                        THEN [@ EXCEPT !.pc = "detached"]
                                        ELSE NoRun]
              ELSE run
  /\ UNCHANGED <<diskVars, cg, hs, task, recVars>>

(* The workload ends by itself. *)
ProcExit(c) ==
  /\ crun[c].st = "running"
  /\ \E code \in ExitCodes : CrunStop(c, code)
  /\ UNCHANGED <<diskVars, cg, run, hs, task, recVars>>

(* `crun run' returns: its container ended, and it deletes the id, or      *)
(* another command deleted the container under it.                         *)
RunReap(h) ==
  LET c    == run[h].c
      mine == crun[c].by = h
  IN
  /\ run[h].pc = "attached"
  /\ \/ /\ mine /\ crun[c].st = "stopped"
        /\ CrunDelete(c)
        /\ \E code \in crun[c].code :
             run' = [run EXCEPT ![h] = Ended(h, "exited", code)]
     \/ /\ ~mine
        /\ \E code \in Failures :
             run' = [run EXCEPT ![h] = Ended(h, "exited", code)]
        /\ UNCHANGED crun
  /\ UNCHANGED <<diskVars, cg, hs, task, recVars>>

-----------------------------------------------------------------------------
(* The supervision task.                                                   *)

TaskGoto(h, pc, code) ==
  task' = [task EXCEPT ![h] = [@ EXCEPT !.pc = pc, !.code = {code}]]

TaskSpawn(h) ==
  /\ task[h].pc = "spawn"
  /\ \/ /\ run' = [run EXCEPT ![h] = NewRun(task[h].c)]
        /\ task' = [task EXCEPT ![h] = [@ EXCEPT !.pc = "wait"]]
     \/ /\ TaskGoto(h, "get", Forced)      \* crun could not be executed
        /\ UNCHANGED run
  /\ UNCHANGED <<diskVars, crun, cg, hs, recVars>>

(* Mutant of TaskReap: a launch that failed is not an exit. *)
TaskReapExitedOnly(h) ==
  /\ task[h].pc = "wait" /\ task[h].c \notin Tty
  /\ run[h].pc = "exited"
  /\ \E code \in run[h].code : TaskGoto(h, "get", code)
  /\ run' = [run EXCEPT ![h] = NoRun]
  /\ UNCHANGED <<diskVars, crun, cg, hs, recVars>>

(* supervise_container: the exit code is that of `crun run'. *)
TaskReap(h) ==
  /\ task[h].pc = "wait" /\ task[h].c \notin Tty
  /\ run[h].pc \in {"failed", "exited"}
  /\ \E code \in run[h].code : TaskGoto(h, "get", code)
  /\ run' = [run EXCEPT ![h] = NoRun]
  /\ UNCHANGED <<diskVars, crun, cg, hs, recVars>>

(* supervise_tty: with the pty in hand a failed `crun run --detach' is an  *)
(* error.  Without it, accept() waits for a connection nobody will make:   *)
(* there is no step from run "failed" for a terminal.                      *)
TaskTtyError(h) ==
  /\ task[h].pc = "wait" /\ task[h].c \in Tty
  /\ run[h].pc = "exited"
  /\ TaskGoto(h, "get", Forced)
  /\ run' = [run EXCEPT ![h] = NoRun]
  /\ UNCHANGED <<diskVars, crun, cg, hs, recVars>>

(* End of file on the pty: the id is deleted, and 0 reported. *)
TaskTtyEof(h) ==
  LET c == task[h].c IN
  /\ task[h].pc = "wait" /\ c \in Tty
  /\ run[h].pc = "detached"
  /\ ~(crun[c].st = "running" /\ crun[c].by = h)
  /\ CrunDelete(c)
  /\ TaskGoto(h, "get", 0)
  /\ run' = [run EXCEPT ![h] = NoRun]
  /\ UNCHANGED <<diskVars, cg, hs, recVars>>

TaskGet(h) ==
  /\ task[h].pc = "get"
  /\ task' = IF meta[task[h].c].state = "Absent"
               THEN [task EXCEPT ![h] = NoTask]
               ELSE [task EXCEPT ![h] = [@ EXCEPT !.pc = "put", !.r = meta[task[h].c]]]
  /\ UNCHANGED <<diskVars, crunVars, hs, recVars>>

ExitedRecord(r, code) ==
  [r EXCEPT !.state = "Exited", !.exit = {code},
            !.reason = IF code = 0 THEN "Completed" ELSE "Error"]

TaskPut(h) ==
  /\ task[h].pc = "put"
  /\ \E code \in task[h].code :
       meta' = [meta EXCEPT ![task[h].c] = ExitedRecord(task[h].r, code)]
  /\ task' = [task EXCEPT ![h] = NoTask]
  /\ UNCHANGED <<bundle, ids, crunVars, hs, recVars>>

-----------------------------------------------------------------------------
(* Crash and restart of the daemon.                                        *)

(* Handlers and tasks are gone; disk, crun, workloads and the `crun run'   *)
(* processes stay.                                                         *)
Crash ==
  /\ daemon.phase # "down"
  /\ daemon.crashes < MaxCrashes
  /\ daemon' = [phase |-> "down", crashes |-> daemon.crashes + 1]
  /\ hs' = [h \in Handlers |-> Idle]
  /\ task' = [h \in Handlers |-> NoTask]
  /\ run' = [h \in Handlers |->
               IF run[h].pc \in {"spawned", "attached"} THEN run[h] ELSE NoRun]
  /\ todo' = {}
  /\ rc' = NoRc
  /\ UNCHANGED <<diskVars, crun, cg>>

(* reconcile() runs before the daemon serves; it lists the records. *)
Restart ==
  /\ daemon.phase = "down"
  /\ PromptCrun => \A h \in Handlers : ~Unsettled(h)
  /\ daemon' = [daemon EXCEPT !.phase = "reconcile"]
  /\ todo' = {c \in Containers : meta[c].state = "Running"}
  /\ UNCHANGED <<diskVars, crunVars, hs, task, rc>>

(* Mutant of ReconcileProbe: a running container is not re-adopted. *)
ReconcileProbeAll(c) ==
  /\ daemon.phase = "reconcile" /\ rc.pc = "idle" /\ c \in todo
  /\ rc' = [pc |-> "delete", c |-> c, seen |-> crun[c].st]
  /\ UNCHANGED <<diskVars, crunVars, hs, task, daemon, todo>>

(* `crun state': a running container is kept as it is (re-adopted). *)
ReconcileProbe(c) ==
  /\ daemon.phase = "reconcile" /\ rc.pc = "idle" /\ c \in todo
  /\ \E seen \in {crun[c].st} \cup (IF CrunFaults THEN {"error"} ELSE {}) :
       IF seen = "running"
         THEN todo' = todo \ {c} /\ UNCHANGED rc
         ELSE rc' = [pc |-> "delete", c |-> c, seen |-> seen] /\ UNCHANGED todo
  /\ UNCHANGED <<diskVars, crunVars, hs, task, daemon>>

ReconcileDelete ==
  /\ rc.pc = "delete"
  /\ CrunDelete(rc.c)
  /\ rc' = [rc EXCEPT !.pc = "put"]
  /\ UNCHANGED <<diskVars, cg, run, hs, task, daemon, todo>>

(* Mutant of ReconciledRecord: what crun does not know was never started. *)
ReconciledRecordCreated(r, seen) ==
  IF seen \in {"created", "stopped"}
    THEN [r EXCEPT !.state = "Exited", !.exit = {Forced}, !.reason = "Unknown"]
    ELSE [r EXCEPT !.state = "Created"]

(* Mutant of ReconciledRecord: crun's status is stored as it is. *)
ReconciledRecordRaw(r, seen) == [r EXCEPT !.state = seen]

(* What the probe saw decides: created or stopped is an exit that nobody   *)
(* witnessed, anything else leaves the record Unknown.                     *)
ReconciledRecord(r, seen) ==
  IF seen \in {"created", "stopped"}
    THEN IF r.exit = {}
           THEN [r EXCEPT !.state = "Exited", !.exit = {Forced}, !.reason = "Unknown"]
           ELSE [r EXCEPT !.state = "Exited"]
    ELSE [r EXCEPT !.state = "Unknown"]

ReconcilePut ==
  /\ rc.pc = "put"
  /\ meta' = [meta EXCEPT ![rc.c] = ReconciledRecord(@, rc.seen)]
  /\ todo' = todo \ {rc.c}
  /\ rc' = NoRc
  /\ UNCHANGED <<bundle, ids, crunVars, hs, task, daemon>>

Serve ==
  /\ daemon.phase = "reconcile" /\ todo = {} /\ rc.pc = "idle"
  /\ daemon' = [daemon EXCEPT !.phase = "up"]
  /\ UNCHANGED <<diskVars, crunVars, hs, task, todo, rc>>

-----------------------------------------------------------------------------
(* What a handler does next, once it has accepted a request. *)
HandlerStep(h) ==
  \/ CreatePut(h)
  \/ StartCheck(h) \/ StartMark(h) \/ StartWait(h)
  \/ StopTerm(h) \/ StopPoll(h) \/ StopKill(h) \/ StopDelete(h)
  \/ StopFinal(h) \/ StopSettle(h)
  \/ RemoveForget(h) \/ RemoveUnlink(h)
  \/ UpdateApply(h) \/ UpdatePut(h)

RunStep(h)  == RunRegister(h) \/ RunFail(h) \/ RunStart(h) \/ RunReap(h)
TaskStep(h) == \/ TaskSpawn(h) \/ TaskReap(h) \/ TaskTtyError(h)
               \/ TaskTtyEof(h) \/ TaskGet(h) \/ TaskPut(h)
Recovery    == \/ Restart \/ ReconcileDelete \/ ReconcilePut \/ Serve
               \/ \E c \in Containers : ReconcileProbe(c)

Request(h, c) ==
  \/ \E lim \in Opt(Limits) : CreateBundle(h, c, lim)
  \/ StartGet(h, c) \/ StopGet(h, c) \/ RemoveDelete(h, c) \/ UpdateGet(h, c)

Next ==
  \/ \E h \in Handlers, c \in Containers : Request(h, c)
  \/ \E h \in Handlers : HandlerStep(h) \/ Cancel(h) \/ RunStep(h) \/ TaskStep(h)
  \/ \E c \in Containers : ProcExit(c)
  \/ Crash
  \/ Recovery

Spec == Init /\ [][Next]_vars

-----------------------------------------------------------------------------
(* Properties.                                                             *)

(* The exit fields of a record are those its state calls for: StartContainer,
   StopContainer, the supervision task, UpdateContainerResources and
   reconcile() all store whole records, often from an old copy, and none of
   them may leave a live state with an exit code, an exit without one, or a
   reason that contradicts the code. *)
Coherent(r) ==
  /\ r.state \in {"Absent", "Created", "Running", "Unknown"}
       => r.exit = {} /\ r.reason = ""
  /\ r.state = "Exited"
       => \/ r.exit = {Forced} /\ r.reason \in {"Error", "Unknown"}
          \/ r.exit = {0} /\ r.reason = "Completed"
          \/ r.exit \in {{e} : e \in Failures} /\ r.reason = "Error"
RecordsCoherent == \A c \in Containers : Coherent(meta[c])

(* A container reported Exited has no process left: the kubelet starts its
   successor on that report (StopContainer escalates before it records).  It
   holds for a client that has one request per container in flight and sees
   StartContainer through, with a crun that registers within its wait; a
   StartContainer dropped in its wait leaves a launch that the next
   StopContainer cannot see, and the property fails. *)
ExitedMeansDead == \A c \in Containers : meta[c].state = "Exited" => ~Live(c)

(* A process crun keeps alive always has a record to find it by, through
   failed creates, removes, crashes and restarts, for the same client as
   above: RemoveContainer's force-delete cannot see a launch either. *)
NoOrphanProcess == \A c \in Containers : Live(c) => meta[c].state # "Absent"

(* Once started, a container is never Created again: StartContainer accepts
   a Created record only, so no id is launched twice. *)
NeverRelaunched ==
  [][\A c \in Containers :
       meta'[c].state = "Created" => meta[c].state = "Created" \/ ids[c] = "reserved"]_vars

(* While the daemon that launched it lives, a live container has its
   supervision task waiting for it, whatever requests raced its start. *)
LiveIsSupervised ==
  \A c \in Containers :
    Live(c) /\ daemon.crashes = 0 =>
      /\ task[crun[c].by].pc = "wait" /\ task[crun[c].by].c = c
      /\ run[crun[c].by].pc \in {"attached", "detached"}

(* reconcile() never force-deletes a workload that is running. *)
RestartSparesWorkloads ==
  [][\A c \in Containers :
       daemon.phase = "reconcile" /\ crun[c].st = "running"
         => crun'[c].st \in {"running", "stopped"}]_vars

(* Every limit of o, as a record reports it, has its value in cgroup set. *)
InEffect(o, set) ==
  \A lim \in o : \A f \in LimitFields : lim[f] # {} => set[f] = lim[f]

(* Every limit ContainerStatus reports for a running container is in effect
   in its cgroup whenever no request for it is in progress: StartContainer's
   copy of the record, config.json and any sequence of resizes, also partial
   ones.  The converse does not hold: UpdateContainerResources stores the
   message it got, so a limit it did not set goes on without being reported. *)
LimitsAgree ==
  \A c \in Containers :
    Live(c) /\ ~Busy(c) /\ meta[c].state = "Running" => InEffect(meta[c].limits, cg[c])

(* The record's state, as a client sees it over time. *)
status == [c \in Containers |->
             IF meta[c].state # "Absent" THEN meta[c].state
             ELSE IF ids[c] = "known" THEN "Removed" ELSE "Fresh"]

Life == INSTANCE Lifecycle WITH st <- status

(* The handlers, tasks and restarts implement the lifecycle of Lifecycle.tla:
   can_transition_to is never consulted by the code, so every stored state
   has to respect it by construction. *)
ImplementsLifecycle == Life!Spec

-----------------------------------------------------------------------------
(* Liveness.  tokio polls every task that is ready, crun commands return,   *)
(* StopContainer's and StartContainer's waits have deadlines, and the       *)
(* service manager restarts the daemon; clients, workloads and crashes owe  *)
(* nothing.                                                                 *)
Fairness ==
  /\ \A h \in Handlers : WF_vars(HandlerStep(h))
  /\ \A h \in Handlers : WF_vars(RunStep(h))
  /\ \A h \in Handlers : WF_vars(TaskStep(h))
  /\ WF_vars(Recovery)

FairSpec == Spec /\ Fairness

(* An exit that a supervision task is there to see ends the record's Running
   for good, whatever request runs beside the task, for a client with one of
   them in flight.  Two things can still make it Running: a launch that has yet
   to come up, and an UpdateContainerResources that changed the cgroup before
   the exit and is about to store the Running copy it read. *)
ExitIsRecorded ==
  \A c \in Containers :
    (meta[c].state = "Running" /\ ~Live(c) /\ \E h \in Handlers : task[h].c = c)
      ~> \/ [](meta[c].state # "Running")
         \/ Live(c)
         \/ \E h \in Handlers : hs[h].c = c /\ hs[h].pc = "persist"

(* A StopContainer that is not abandoned ends the workload, also one that
   ignores SIGTERM. *)
StopEndsWorkload ==
  \A c \in Containers :
    (\E h \in Handlers : hs[h].op = "Stop" /\ hs[h].c = c) ~> ~Live(c)
=============================================================================
