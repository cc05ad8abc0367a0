------------------------------- MODULE Sandbox -------------------------------
(***************************************************************************)
(* The pod sandbox half of the CRI RuntimeService (crates/cri/src/         *)
(* server.rs): RunPodSandbox, StopPodSandbox and RemovePodSandbox, with    *)
(* the network namespace and the CNI chain (crates/sandbox/src/cni.rs) and *)
(* the process that holds a shared PID/IPC namespace (pid_holder.rs).      *)
(*                                                                         *)
(* The handlers take no lock and hold no transaction from one metadata     *)
(* access to the next, so each is split at every access and command.  None *)
(* of them awaits: only a crash ends one early.                            *)
(*                                                                         *)
(* Left out: resolv.conf and the pod cgroup directory, which no handler    *)
(* reads back or removes, and the options a record merely carries.         *)
(***************************************************************************)
EXTENDS Integers, FiniteSets

CONSTANTS
  Pods,       \* pods (namespace, name, uid)
  Sandboxes,  \* sandbox ids: gen_id salts with the time, each is used once
  PodOf,      \* the pod a sandbox id is made for
  Handlers,   \* requests that can be in progress at the same time
  Plugins,    \* length of the CNI chain, loopback included
  Pids,       \* host process ids
  Serial,     \* TRUE: the client has one request per pod in flight
  CniFaults,  \* TRUE: namespaces, CNI ADDs and the holder can fail
  DelFaults,  \* TRUE: CNI DELs can fail, or the conflist be gone
  PidFaults,  \* TRUE: the pid file of a holder can fail to be written
  Crashes,    \* TRUE: the daemon can crash
  HolderDeaths, \* TRUE: a holder can die without being killed by a handler
  Foreign,    \* a process that is not ours
  None        \* no process, no sandbox

ASSUME SandboxAssumption ==
  /\ PodOf \in [Sandboxes -> Pods]
  /\ Plugins \in Nat \ {0}
  /\ Foreign \notin Sandboxes
  /\ None \notin Sandboxes \cup {Foreign}
  /\ Serial \in BOOLEAN
  /\ CniFaults \in BOOLEAN
  /\ DelFaults \in BOOLEAN
  /\ PidFaults \in BOOLEAN
  /\ Crashes \in BOOLEAN
  /\ HolderDeaths \in BOOLEAN

VARIABLES
  meta,    \* Kind::Sandbox table of metadata.db
  ids,     \* sandbox ids generated so far
  netns,   \* sandboxes whose network namespace is bound under /run/netns
  cni,     \* per sandbox, how many plugins of the chain are added
  proc,    \* host processes: the holder of a sandbox, Foreign, or None
  hs       \* requests in progress

vars == <<meta, ids, netns, cni, proc, hs>>

-----------------------------------------------------------------------------
(* An Option of S: nothing, or one element. *)
Opt(S) == {{}} \cup {{x} : x \in S}

(* SandboxRecord: "host" is netns_path == "host", "holder" pid_holder_pid. *)
Record == [state : {"Absent", "Ready", "NotReady"}, host : BOOLEAN, holder : Opt(Pids)]
NoRecord == [state |-> "Absent", host |-> FALSE, holder |-> {}]

(* r is the record the handler builds or has read, todo the sandboxes it has
   still to demote and seen the records it listed. *)
RunPC    == {"netns", "add", "undo", "holder", "list", "demote", "put"}
StopPC   == {"kill", "settle"}
RemovePC == {"teardown", "reap", "forget"}
Handler == [pc : RunPC \cup StopPC \cup RemovePC \cup {"idle"},
            s : Sandboxes \cup {None}, shared : BOOLEAN, r : Record,
            todo : SUBSET Sandboxes, seen : [Sandboxes -> Record]]
NoList == [s \in Sandboxes |-> NoRecord]
Idle == [pc |-> "idle", s |-> None, shared |-> FALSE, r |-> NoRecord,
         todo |-> {}, seen |-> NoList]

(* The type invariant: what the store, the kernel and the handlers hold. *)
TypeOK ==
  /\ meta \in [Sandboxes -> Record]
  /\ ids \in SUBSET Sandboxes
  /\ netns \in SUBSET Sandboxes
  /\ cni \in [Sandboxes -> 0..Plugins]
  /\ proc \in [Pids -> Sandboxes \cup {Foreign, None}]
  /\ hs \in [Handlers -> Handler]
  /\ \A h \in Handlers : hs[h].pc # "idle" => hs[h].s \in Sandboxes

Init ==
  /\ meta = NoList
  /\ ids = {}
  /\ netns = {}
  /\ cni = [s \in Sandboxes |-> 0]
  /\ proc = [p \in Pids |-> None]
  /\ hs = [h \in Handlers |-> Idle]

-----------------------------------------------------------------------------
Busy(pod) == \E h \in Handlers : hs[h].pc # "idle" /\ PodOf[hs[h].s] = pod

Accept(h, s) == hs[h].pc = "idle" /\ (Serial => ~Busy(PodOf[s]))

At(h, pc) == hs[h].pc = pc
Goto(h, pc) == hs' = [hs EXCEPT ![h] = [@ EXCEPT !.pc = pc]]
Enter(h, pc, s, shared, r) ==
  hs' = [hs EXCEPT ![h] = [Idle EXCEPT !.pc = pc, !.s = s, !.shared = shared, !.r = r]]
Return(h) == hs' = [hs EXCEPT ![h] = Idle]

(* A thread unshares, and its namespace is bound to the file. *)
BindNetns(s) == netns' = netns \cup {s}

DeleteNetns(s) == netns' = netns \ {s}

(* Cni::teardown: DEL for every plugin, best effort, and the namespace. *)
Teardown(s) ==
  /\ DeleteNetns(s)
  /\ \/ cni' = [cni EXCEPT ![s] = 0]
     \/ DelFaults /\ UNCHANGED cni

(* kill_holder: SIGKILL to whatever has the pid now. *)
KillHolder(holder) ==
  proc' = [p \in Pids |-> IF p \in holder THEN None ELSE proc[p]]

(* RunPodSandbox: a new id; a host-network pod needs no namespace. *)
Run(h, s, host, shared) ==
  /\ Accept(h, s)
  /\ s \notin ids
  /\ ids' = ids \cup {s}
  /\ Enter(h, IF host THEN "holder" ELSE "netns", s, shared,
           [state |-> "Ready", host |-> host, holder |-> {}])
  /\ UNCHANGED <<meta, netns, cni, proc>>

RunNetns(h) ==
  /\ At(h, "netns")
  /\ \/ BindNetns(hs[h].s) /\ Goto(h, "add")
     \/ CniFaults /\ Goto(h, "undo") /\ UNCHANGED netns
  /\ UNCHANGED <<meta, ids, cni, proc>>

(* Mutant of RunAdd: one plugin more than the chain has. *)
RunAddOneMore(h) ==
  LET s == hs[h].s IN
  /\ At(h, "add")
  /\ cni' = [cni EXCEPT ![s] = @ + 1]
  /\ IF cni[s] = Plugins THEN Goto(h, "holder") ELSE UNCHANGED hs
  /\ UNCHANGED <<meta, ids, netns, proc>>

(* Mutant of RunAdd: a pod whose CNI setup fails runs all the same. *)
RunAddTolerant(h) ==
  LET s == hs[h].s IN
  /\ At(h, "add")
  /\ \/ /\ cni' = [cni EXCEPT ![s] = @ + 1]
        /\ IF cni[s] + 1 = Plugins THEN Goto(h, "holder") ELSE UNCHANGED hs
     \/ CniFaults /\ Goto(h, "holder") /\ UNCHANGED cni
  /\ UNCHANGED <<meta, ids, netns, proc>>

(* exec_plugin, for ADD: one that fails, or whose result cannot be used,   *)
(* may have taken effect.                                                  *)
ExecPlugin(s, ok) ==
  \E n \in {cni[s] + 1} \cup (IF ok THEN {} ELSE {cni[s]}) : cni' = [cni EXCEPT ![s] = n]

(* Cni::setup: ADD for one plugin after the other; the last one's result   *)
(* carries the pod's address.                                              *)
RunAdd(h) ==
  LET s == hs[h].s IN
  /\ At(h, "add")
  /\ \/ /\ ExecPlugin(s, TRUE)
        /\ IF cni[s] + 1 = Plugins THEN Goto(h, "holder") ELSE UNCHANGED hs
     \/ CniFaults /\ ExecPlugin(s, FALSE) /\ Goto(h, "undo")
  /\ UNCHANGED <<meta, ids, netns, proc>>

(* No CNI, no sandbox: what was set up is torn down and the call fails. *)
RunUndo(h) ==
  /\ At(h, "undo")
  /\ Teardown(hs[h].s)
  /\ Return(h)
  /\ UNCHANGED <<meta, ids, proc>>

(* run_holder, the helper: the reaper is forked, then its pid published. *)
RunHelper(s, p, known) ==
  /\ proc[p] = None
  /\ proc' = [proc EXCEPT ![p] = s]
  /\ known = {p} \/ (PidFaults /\ known = {})

(* spawn_holder: what the daemon knows of the holder, {} for an error. *)
SpawnHolder(s, known) ==
  \/ \E p \in Pids : RunHelper(s, p, known)
  \/ /\ CniFaults \/ \A p \in Pids : proc[p] # None
     /\ known = {}
     /\ UNCHANGED proc

(* A holder for a shared namespace; without one the pod runs all the same. *)
RunHolder(h) ==
  /\ At(h, "holder")
  /\ \E known \in Opt(Pids) :
       /\ IF hs[h].shared THEN SpawnHolder(hs[h].s, known) ELSE known = {} /\ UNCHANGED proc
       /\ hs' = [hs EXCEPT ![h] =
                   [@ EXCEPT !.pc = "list", !.r = [hs[h].r EXCEPT !.holder = known]]]
  /\ UNCHANGED <<meta, ids, netns, cni>>

(* Mutant of RunList: nothing is demoted. *)
RunListNone(h) ==
  /\ At(h, "list")
  /\ Goto(h, "put")
  /\ UNCHANGED <<meta, ids, netns, cni, proc>>

(* The Ready sandboxes of the same pod are listed ... *)
RunList(h) ==
  LET old == {o \in Sandboxes \ {hs[h].s} :
                meta[o].state = "Ready" /\ PodOf[o] = PodOf[hs[h].s]}
  IN
  /\ At(h, "list")
  /\ hs' = [hs EXCEPT ![h] =
              [@ EXCEPT !.pc = IF old = {} THEN "put" ELSE "demote",
                        !.todo = old,
                        !.seen = [o \in Sandboxes |-> IF o \in old THEN meta[o] ELSE NoRecord]]]
  /\ UNCHANGED <<meta, ids, netns, cni, proc>>

(* ... and each copy is stored as NotReady ... *)
RunDemote(h) ==
  /\ At(h, "demote")
  /\ \E o \in hs[h].todo :
       /\ meta' = [meta EXCEPT ![o] = [hs[h].seen[o] EXCEPT !.state = "NotReady"]]
       /\ hs' = [hs EXCEPT ![h] =
                   [@ EXCEPT !.pc = IF hs[h].todo = {o} THEN "put" ELSE "demote",
                             !.todo = hs[h].todo \ {o}]]
  /\ UNCHANGED <<ids, netns, cni, proc>>

(* ... before the new one is. *)
RunPut(h) ==
  /\ At(h, "put")
  /\ meta' = [meta EXCEPT ![hs[h].s] = hs[h].r]
  /\ Return(h)
  /\ UNCHANGED <<ids, netns, cni, proc>>

-----------------------------------------------------------------------------
(* StopPodSandbox: the holder is killed, and the copy stored without it. *)
StopGet(h, s) ==
  /\ Accept(h, s)
  /\ meta[s].state # "Absent"
  /\ Enter(h, "kill", s, FALSE, meta[s])
  /\ UNCHANGED <<meta, ids, netns, cni, proc>>

StopKill(h) ==
  /\ At(h, "kill")
  /\ KillHolder(hs[h].r.holder)
  /\ Goto(h, "settle")
  /\ UNCHANGED <<meta, ids, netns, cni>>

(* Mutant of StopPut: the killed holder stays in the record. *)
StopPutKeepsHolder(h) ==
  /\ At(h, "settle")
  /\ meta' = [meta EXCEPT ![hs[h].s] = [hs[h].r EXCEPT !.state = "NotReady"]]
  /\ Return(h)
  /\ UNCHANGED <<ids, netns, cni, proc>>

(* Mutant of StopPut: the copy is stored with the state it was read with. *)
StopPutStale(h) ==
  /\ At(h, "settle")
  /\ meta' = [meta EXCEPT ![hs[h].s] = [hs[h].r EXCEPT !.holder = {}]]
  /\ Return(h)
  /\ UNCHANGED <<ids, netns, cni, proc>>

StopPut(h) ==
  /\ At(h, "settle")
  /\ meta' = [meta EXCEPT ![hs[h].s] = [hs[h].r EXCEPT !.state = "NotReady", !.holder = {}]]
  /\ Return(h)
  /\ UNCHANGED <<ids, netns, cni, proc>>

(* RemovePodSandbox: network, holder and record, in any state of the pod. *)
RemoveGet(h, s) ==
  /\ Accept(h, s)
  /\ meta[s].state # "Absent"
  /\ Enter(h, "teardown", s, FALSE, meta[s])
  /\ UNCHANGED <<meta, ids, netns, cni, proc>>

(* Mutant of RemoveTeardown: the network of a stopped pod is left alone. *)
RemoveTeardownReady(h) ==
  /\ At(h, "teardown")
  /\ IF hs[h].r.host \/ hs[h].r.state = "NotReady"
       THEN UNCHANGED <<netns, cni>> ELSE Teardown(hs[h].s)
  /\ Goto(h, "reap")
  /\ UNCHANGED <<meta, ids, proc>>

RemoveTeardown(h) ==
  /\ At(h, "teardown")
  /\ IF hs[h].r.host THEN UNCHANGED <<netns, cni>> ELSE Teardown(hs[h].s)
  /\ Goto(h, "reap")
  /\ UNCHANGED <<meta, ids, proc>>

RemoveReap(h) ==
  /\ At(h, "reap")
  /\ KillHolder(hs[h].r.holder)
  /\ Goto(h, "forget")
  /\ UNCHANGED <<meta, ids, netns, cni>>

RemoveForget(h) ==
  /\ At(h, "forget")
  /\ meta' = [meta EXCEPT ![hs[h].s] = NoRecord]
  /\ Return(h)
  /\ UNCHANGED <<ids, netns, cni, proc>>

-----------------------------------------------------------------------------
(* A free pid goes to a process of the host. *)
Fork(p) ==
  /\ proc[p] = None
  /\ proc' = [proc EXCEPT ![p] = Foreign]
  /\ UNCHANGED <<meta, ids, netns, cni, hs>>

(* A holder dies on its own, out of memory or killed by hand: nobody waits  *)
(* for it, so the record keeps its pid.                                    *)
HolderDies(p) ==
  /\ HolderDeaths
  /\ proc[p] \in Sandboxes
  /\ proc' = [proc EXCEPT ![p] = None]
  /\ UNCHANGED <<meta, ids, netns, cni, hs>>

(* The daemon crashes and restarts: reconcile() looks at containers only. *)
Crash ==
  /\ Crashes
  /\ hs' = [h \in Handlers |-> Idle]
  /\ UNCHANGED <<meta, ids, netns, cni, proc>>

RunStep(h) == \/ RunNetns(h) \/ RunAdd(h) \/ RunUndo(h) \/ RunHolder(h)
              \/ RunList(h) \/ RunDemote(h) \/ RunPut(h)
StopStep(h) == StopKill(h) \/ StopPut(h)
RemoveStep(h) == RemoveTeardown(h) \/ RemoveReap(h) \/ RemoveForget(h)

Next ==
  \/ \E h \in Handlers, s \in Sandboxes :
       \/ \E host, shared \in BOOLEAN : Run(h, s, host, shared)
       \/ StopGet(h, s) \/ RemoveGet(h, s)
  \/ \E h \in Handlers : RunStep(h) \/ StopStep(h) \/ RemoveStep(h)
  \/ \E p \in Pids : Fork(p) \/ HolderDies(p)
  \/ Crash

Spec == Init /\ [][Next]_vars

-----------------------------------------------------------------------------
Quiet(s) == ~Busy(PodOf[s])

(* A namespace, an address or a holder process belongs to a sandbox with a
   record, or to one a request is working on: a setup that fails half-way and a
   removal leave nothing behind. *)
NoResourceLeak ==
  \A s \in Sandboxes :
    Quiet(s) /\ meta[s].state = "Absent" =>
      s \notin netns /\ cni[s] = 0 /\ \A p \in Pids : proc[p] # s

(* Between requests, as long as no holder has died on its own, the holder a
   record names is the process that holds the namespaces of that sandbox, not
   one that got its pid later: what StopPodSandbox, RemovePodSandbox and a
   starting container take the pid for. *)
HolderIsOurs ==
  \A s \in Sandboxes :
    Quiet(s) => meta[s].holder = {p \in Pids : proc[p] = s}

(* A pod has at most one Ready sandbox, or the kubelet recreates it: a new one
   demotes the others before it is recorded. *)
OneReadySandbox ==
  \A s, t \in Sandboxes :
    s # t /\ PodOf[s] = PodOf[t] => ~(meta[s].state = "Ready" /\ meta[t].state = "Ready")

(* The sandbox is past its RunPodSandbox and not Ready. *)
Retired(s) ==
  /\ s \in ids
  /\ meta[s].state # "Ready"
  /\ \A h \in Handlers : hs[h].s = s => hs[h].pc \notin RunPC

(* Stopped, demoted or removed, a sandbox is never Ready again, whatever old
   copy a concurrent StopPodSandbox or RunPodSandbox stores. *)
NeverReadyAgain == [][\A s \in Sandboxes : Retired(s) => meta'[s].state # "Ready"]_vars
=============================================================================
