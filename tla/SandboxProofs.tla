---------------------------- MODULE SandboxProofs ----------------------------
(***************************************************************************)
(* Proofs about Sandbox.tla: its type invariant and NeverReadyAgain for    *)
(* any number of overlapping requests and crashes, then, for a client with *)
(* one request per pod in flight, what a sandbox owns and who is Ready.    *)
(*                                                                         *)
(* Then about Pod.tla: a container that runs is in the namespaces of its   *)
(* own pod.                                                                *)
(***************************************************************************)
EXTENDS Pod, TLAPS

AllPC == RunPC \cup StopPC \cup RemovePC \cup {"idle"}

(* A RunPodSandbox is alone in making its id, and the plugins it has added
   are fewer than the chain has until it is past them. *)
RunAlone ==
  /\ \A h \in Handlers : hs[h].pc \in RunPC => hs[h].s \in ids
  /\ \A h, i \in Handlers :
       hs[h].pc \in RunPC /\ hs[i].pc \in RunPC /\ hs[h].s = hs[i].s => h = i
ChainOpen ==
  /\ \A s \in Sandboxes : s \notin ids => cni[s] = 0
  /\ \A h \in Handlers : hs[h].pc = "netns" => cni[hs[h].s] = 0
  /\ \A h \in Handlers : hs[h].pc = "add" => cni[hs[h].s] < Plugins

TypeInv == TypeOK /\ RunAlone /\ ChainOpen

(* A serial client: nobody else works on the pod of a request, so the copies
   a request holds are what the store has. *)
OneRequest ==
  \A h, i \in Handlers :
    hs[h].pc # "idle" /\ hs[i].pc # "idle" /\ PodOf[hs[h].s] = PodOf[hs[i].s] => h = i
StoreInv ==
  /\ \A s \in Sandboxes : meta[s].state = "Absent" => meta[s] = NoRecord
  /\ \A s \in Sandboxes : s \notin ids => meta[s].state = "Absent"
Sibling(o, s) == o # s /\ PodOf[o] = PodOf[s]
RequestInv(h) ==
  /\ hs[h].pc \in RunPC => meta[hs[h].s].state = "Absent" /\ hs[h].r.state = "Ready"
  /\ hs[h].pc \in StopPC \cup RemovePC => hs[h].r = meta[hs[h].s] /\ hs[h].r.state # "Absent"
  /\ hs[h].pc = "demote" =>
       \A o \in Sandboxes :
         /\ o \in hs[h].todo => hs[h].seen[o] = meta[o]
         /\ o \in hs[h].todo <=> Sibling(o, hs[h].s) /\ meta[o].state = "Ready"
  /\ hs[h].pc = "put" =>
       \A o \in Sandboxes : Sibling(o, hs[h].s) => meta[o].state # "Ready"

SerialInv == OneRequest /\ StoreInv /\ (\A h \in Handlers : RequestInv(h)) /\ OneReadySandbox

(* The holder of each sandbox: named by its record, or by the request that
   makes it, or gone. *)
Holders(s) == {p \in Pids : proc[p] = s}
RecordHolds(s) ==
  (\A h \in Handlers : hs[h].s = s => hs[h].pc \notin RunPC \cup {"settle", "forget"})
    => Holders(s) = meta[s].holder
RequestHolds(h) ==
  /\ hs[h].pc \in RunPC => Holders(hs[h].s) = hs[h].r.holder
  /\ hs[h].pc \in {"settle", "forget"} => Holders(hs[h].s) = {}
  /\ hs[h].pc \in {"netns", "add", "undo", "holder"} => hs[h].r.holder = {}
HolderInv ==
  (\A s \in Sandboxes : RecordHolds(s)) /\ (\A h \in Handlers : RequestHolds(h))

(* The network of each sandbox: what its record says, or as far as the
   request that works on it has got. *)
Unwired(s) == s \notin netns /\ cni[s] = 0
Wired(s, host) == IF host THEN Unwired(s) ELSE s \in netns /\ cni[s] = Plugins
RecordWired(s) ==
  (\A h \in Handlers : hs[h].s = s => hs[h].pc \in StopPC \cup {"teardown", "idle"}) =>
    IF meta[s].state = "Absent" THEN Unwired(s) ELSE Wired(s, meta[s].host)
RequestWired(h) ==
  /\ hs[h].pc \in {"netns", "reap", "forget"} => Unwired(hs[h].s)
  /\ hs[h].pc = "add" => hs[h].s \in netns
  /\ hs[h].pc \in {"holder", "list", "demote", "put"} => Wired(hs[h].s, hs[h].r.host)
  /\ hs[h].pc \in {"netns", "add"} => ~hs[h].r.host
NetInv ==
  (\A s \in Sandboxes : RecordWired(s)) /\ (\A h \in Handlers : RequestWired(h))

-----------------------------------------------------------------------------
(* What the helpers do to the requests, field by field. *)

Same(x, y) ==
  y.s = x.s /\ y.shared = x.shared /\ y.r = x.r /\ y.todo = x.todo /\ y.seen = x.seen
Others(h) == \A i \in Handlers : i # h => hs'[i] = hs[i]

LEMMA IdleFields ==
  /\ NoRecord \in Record /\ NoRecord.state = "Absent" /\ NoRecord.holder = {}
  /\ NoList \in [Sandboxes -> Record]
  /\ Idle \in Handler /\ Idle.pc = "idle" /\ Idle.s = None /\ Idle.r = NoRecord
<1>1. {} \in Opt(Pids)
  BY DEF Opt
<1>2. NoRecord \in Record /\ NoRecord.state = "Absent" /\ NoRecord.holder = {}
  BY <1>1 DEF NoRecord, Record
<1>3. NoList \in [Sandboxes -> Record]
  BY <1>2 DEF NoList
<1> QED BY <1>2, <1>3 DEF Idle, Handler

LEMMA GotoFields ==
  ASSUME TypeOK, NEW h \in Handlers, NEW pc \in AllPC, Goto(h, pc)
  PROVE  /\ hs' \in [Handlers -> Handler] /\ Others(h)
         /\ hs'[h].pc = pc /\ Same(hs[h], hs'[h])
<1> DEFINE y == [hs[h] EXCEPT !.pc = pc]
<1>1. hs \in [Handlers -> Handler] /\ hs[h] \in Handler
  BY DEF TypeOK
<1>2. y \in Handler /\ y.pc = pc /\ Same(hs[h], y)
  BY <1>1 DEF Handler, AllPC, Same
<1>3. hs' = [hs EXCEPT ![h] = y]
  BY DEF Goto
<1> HIDE DEF y
<1> QED BY <1>1, <1>2, <1>3 DEF Others

LEMMA ReturnFields ==
  ASSUME TypeOK, NEW h \in Handlers, Return(h)
  PROVE  /\ hs' \in [Handlers -> Handler] /\ Others(h)
         /\ hs'[h].pc = "idle" /\ hs'[h].s = None
  BY IdleFields DEF TypeOK, Return, Others

LEMMA EnterFields ==
  ASSUME TypeOK, NEW h \in Handlers, NEW pc \in AllPC, NEW s \in Sandboxes,
         NEW shared \in BOOLEAN, NEW r \in Record, Enter(h, pc, s, shared, r)
  PROVE  /\ hs' \in [Handlers -> Handler] /\ Others(h)
         /\ hs'[h].pc = pc /\ hs'[h].s = s /\ hs'[h].shared = shared /\ hs'[h].r = r
<1> DEFINE y == [Idle EXCEPT !.pc = pc, !.s = s, !.shared = shared, !.r = r]
<1>1. y \in Handler /\ y.pc = pc /\ y.s = s /\ y.shared = shared /\ y.r = r
  BY IdleFields DEF Handler, AllPC
<1>2. hs' = [hs EXCEPT ![h] = y]
  BY DEF Enter
<1> HIDE DEF y
<1> QED BY <1>1, <1>2 DEF Others, TypeOK

LEMMA HolderFields ==
  ASSUME TypeOK, NEW h \in Handlers, NEW known \in Opt(Pids),
         hs' = [hs EXCEPT ![h] = [@ EXCEPT !.pc = "list", !.r = [hs[h].r EXCEPT !.holder = known]]]
  PROVE  /\ hs' \in [Handlers -> Handler] /\ Others(h)
         /\ hs'[h].pc = "list" /\ hs'[h].s = hs[h].s
         /\ hs'[h].r.holder = known /\ hs'[h].r.state = hs[h].r.state
         /\ hs'[h].r.host = hs[h].r.host
<1> DEFINE q == [hs[h].r EXCEPT !.holder = known]
           y == [hs[h] EXCEPT !.pc = "list", !.r = q]
<1>1. hs \in [Handlers -> Handler] /\ hs[h] \in Handler /\ hs[h].r \in Record
  BY DEF TypeOK, Handler
<1>2. q \in Record /\ q.holder = known /\ q.state = hs[h].r.state /\ q.host = hs[h].r.host
  BY <1>1 DEF Record
<1> HIDE DEF q
<1>3. y \in Handler /\ y.pc = "list" /\ y.s = hs[h].s /\ y.r = q
  BY <1>1, <1>2 DEF Handler, RunPC
<1>4. hs' = [hs EXCEPT ![h] = y]
  BY DEF q
<1> HIDE DEF y
<1> QED BY <1>1, <1>2, <1>3, <1>4 DEF Others

LEMMA ListFields ==
  ASSUME TypeOK, NEW h \in Handlers, NEW pc \in AllPC, NEW old \in SUBSET Sandboxes,
         NEW seen \in [Sandboxes -> Record],
         hs' = [hs EXCEPT ![h] = [@ EXCEPT !.pc = pc, !.todo = old, !.seen = seen]]
  PROVE  /\ hs' \in [Handlers -> Handler] /\ Others(h)
         /\ hs'[h].pc = pc /\ hs'[h].s = hs[h].s /\ hs'[h].r = hs[h].r
         /\ hs'[h].todo = old /\ hs'[h].seen = seen
<1> DEFINE y == [hs[h] EXCEPT !.pc = pc, !.todo = old, !.seen = seen]
<1>1. hs \in [Handlers -> Handler] /\ hs[h] \in Handler
  BY DEF TypeOK
<1>2. /\ y \in Handler /\ y.pc = pc /\ y.s = hs[h].s /\ y.r = hs[h].r
      /\ y.todo = old /\ y.seen = seen
  BY <1>1 DEF Handler, AllPC
<1>3. hs' = [hs EXCEPT ![h] = y]
  OBVIOUS
<1> HIDE DEF y
<1> QED BY <1>1, <1>2, <1>3 DEF Others

LEMMA DemoteFields ==
  ASSUME TypeOK, NEW h \in Handlers, NEW pc \in AllPC, NEW o,
         hs' = [hs EXCEPT ![h] = [@ EXCEPT !.pc = pc, !.todo = hs[h].todo \ {o}]]
  PROVE  /\ hs' \in [Handlers -> Handler] /\ Others(h)
         /\ hs'[h].pc = pc /\ hs'[h].s = hs[h].s /\ hs'[h].r = hs[h].r
         /\ hs'[h].todo = hs[h].todo \ {o} /\ hs'[h].seen = hs[h].seen
<1> DEFINE y == [hs[h] EXCEPT !.pc = pc, !.todo = hs[h].todo \ {o}]
<1>1. hs \in [Handlers -> Handler] /\ hs[h] \in Handler
  BY DEF TypeOK
<1>2. /\ y \in Handler /\ y.pc = pc /\ y.s = hs[h].s /\ y.r = hs[h].r
      /\ y.todo = hs[h].todo \ {o} /\ y.seen = hs[h].seen
  BY <1>1 DEF Handler, AllPC
<1>3. hs' = [hs EXCEPT ![h] = y]
  OBVIOUS
<1> HIDE DEF y
<1> QED BY <1>1, <1>2, <1>3 DEF Others

-----------------------------------------------------------------------------
(* What each operation does, with the requests described by their fields. *)

Moved(h) == hs' \in [Handlers -> Handler] /\ Others(h)
Left(h) == Moved(h) /\ hs'[h].pc = "idle" /\ hs'[h].s = None

(* What a step of RunPodSandbox, StopPodSandbox or RemovePodSandbox works on. *)
LEMMA Working ==
  ASSUME TypeOK, NEW h \in Handlers, hs[h].pc # "idle"
  PROVE  /\ hs[h].s \in Sandboxes /\ hs[h].r \in Record /\ hs[h].todo \in SUBSET Sandboxes
         /\ hs[h].seen \in [Sandboxes -> Record] /\ hs[h].shared \in BOOLEAN
  BY DEF TypeOK, Handler

LEMMA RunEffect ==
  ASSUME TypeOK, NEW h \in Handlers, NEW s \in Sandboxes, NEW host \in BOOLEAN,
         NEW shared \in BOOLEAN, Run(h, s, host, shared)
  PROVE  /\ Moved(h) /\ hs[h].pc = "idle" /\ hs'[h].pc = (IF host THEN "holder" ELSE "netns")
         /\ hs'[h].s = s /\ hs'[h].r \in Record
         /\ hs'[h].r.state = "Ready" /\ hs'[h].r.host = host /\ hs'[h].r.holder = {}
<1> DEFINE r == [state |-> "Ready", host |-> host, holder |-> {}]
           pc == IF host THEN "holder" ELSE "netns"
<1>1. r \in Record /\ r.state = "Ready" /\ r.host = host /\ r.holder = {}
  BY DEF Record, Opt
<1>2. pc \in AllPC
  BY DEF AllPC, RunPC
<1>3. Enter(h, pc, s, shared, r) /\ hs[h].pc = "idle"
  BY DEF Run, Accept
<1> HIDE DEF r, pc
<1>4. Moved(h) /\ hs'[h].pc = pc /\ hs'[h].s = s /\ hs'[h].r = r
  BY <1>1, <1>2, <1>3, EnterFields DEF Moved
<1> QED BY <1>1, <1>3, <1>4 DEF pc

LEMMA NetnsEffect ==
  ASSUME TypeOK, NEW h \in Handlers, RunNetns(h)
  PROVE  /\ hs[h].pc = "netns" /\ Moved(h) /\ Same(hs[h], hs'[h])
         /\ \/ hs'[h].pc = "add" /\ netns' = netns \cup {hs[h].s}
            \/ hs'[h].pc = "undo" /\ netns' = netns
<1>1. CASE Goto(h, "add") /\ BindNetns(hs[h].s)
  BY <1>1, GotoFields DEF RunNetns, At, AllPC, RunPC, BindNetns, Moved
<1>2. CASE Goto(h, "undo") /\ netns' = netns
  BY <1>2, GotoFields DEF RunNetns, At, AllPC, RunPC, Moved
<1> QED BY <1>1, <1>2 DEF RunNetns

LEMMA AddEffect ==
  ASSUME TypeOK, NEW h \in Handlers, RunAdd(h)
  PROVE  /\ hs[h].pc = "add" /\ Moved(h) /\ Same(hs[h], hs'[h])
         /\ \E n \in {cni[hs[h].s], cni[hs[h].s] + 1} :
              /\ cni' = [cni EXCEPT ![hs[h].s] = n]
              /\ \/ hs'[h].pc = "holder" /\ n = cni[hs[h].s] + 1 /\ n = Plugins
                 \/ hs'[h].pc = "add" /\ n = cni[hs[h].s] + 1 /\ n # Plugins
                 \/ hs'[h].pc = "undo"
<1>1. hs[h].pc = "add"
  BY DEF RunAdd, At
<1>2. CASE ExecPlugin(hs[h].s, TRUE) /\ cni[hs[h].s] + 1 = Plugins /\ Goto(h, "holder")
  <2>1. Moved(h) /\ hs'[h].pc = "holder" /\ Same(hs[h], hs'[h])
    BY <1>2, GotoFields DEF AllPC, RunPC, Moved
  <2>2. cni' = [cni EXCEPT ![hs[h].s] = cni[hs[h].s] + 1]
    BY <1>2 DEF ExecPlugin
  <2> QED BY <1>1, <1>2, <2>1, <2>2
<1>3. CASE ExecPlugin(hs[h].s, TRUE) /\ cni[hs[h].s] + 1 # Plugins /\ hs' = hs
  <2>1. Moved(h) /\ hs'[h].pc = "add" /\ Same(hs[h], hs'[h])
    BY <1>1, <1>3 DEF TypeOK, Moved, Others, Same
  <2>2. cni' = [cni EXCEPT ![hs[h].s] = cni[hs[h].s] + 1]
    BY <1>3 DEF ExecPlugin
  <2> QED BY <1>1, <1>3, <2>1, <2>2
<1>4. CASE ExecPlugin(hs[h].s, FALSE) /\ Goto(h, "undo")
  <2>1. Moved(h) /\ hs'[h].pc = "undo" /\ Same(hs[h], hs'[h])
    BY <1>4, GotoFields DEF AllPC, RunPC, Moved
  <2>2. PICK n \in {cni[hs[h].s], cni[hs[h].s] + 1} : cni' = [cni EXCEPT ![hs[h].s] = n]
    BY <1>4 DEF ExecPlugin
  <2> QED BY <1>1, <2>1, <2>2
<1> QED BY <1>2, <1>3, <1>4 DEF RunAdd

LEMMA HolderEffect ==
  ASSUME TypeOK, NEW h \in Handlers, RunHolder(h)
  PROVE  /\ hs[h].pc = "holder" /\ Moved(h) /\ hs'[h].pc = "list" /\ hs'[h].s = hs[h].s
         /\ hs'[h].r \in Record
         /\ hs'[h].r.state = hs[h].r.state /\ hs'[h].r.host = hs[h].r.host
         /\ \/ hs'[h].r.holder = {} /\ proc' = proc
            \/ \E p \in Pids : RunHelper(hs[h].s, p, hs'[h].r.holder)
<1>1. PICK known \in Opt(Pids) :
        /\ IF hs[h].shared THEN SpawnHolder(hs[h].s, known) ELSE known = {} /\ proc' = proc
        /\ hs' = [hs EXCEPT ![h] =
                    [@ EXCEPT !.pc = "list", !.r = [hs[h].r EXCEPT !.holder = known]]]
  BY DEF RunHolder
<1>2. /\ Moved(h) /\ hs'[h].pc = "list" /\ hs'[h].s = hs[h].s
      /\ hs'[h].r.holder = known /\ hs'[h].r.state = hs[h].r.state
      /\ hs'[h].r.host = hs[h].r.host
  BY <1>1, HolderFields DEF Moved
<1>3. hs'[h].r \in Record
  BY <1>2 DEF Moved, Handler
<1>4. \/ known = {} /\ proc' = proc
      \/ \E p \in Pids : RunHelper(hs[h].s, p, known)
  BY <1>1 DEF SpawnHolder
<1> QED BY <1>2, <1>3, <1>4 DEF RunHolder, At

LEMMA ListEffect ==
  ASSUME TypeOK, NEW h \in Handlers, RunList(h)
  PROVE  /\ hs[h].pc = "list" /\ Moved(h) /\ hs'[h].s = hs[h].s /\ hs'[h].r = hs[h].r
         /\ hs'[h].pc = IF hs'[h].todo = {} THEN "put" ELSE "demote"
         /\ \A o \in Sandboxes :
              /\ o \in hs'[h].todo <=> Sibling(o, hs[h].s) /\ meta[o].state = "Ready"
              /\ o \in hs'[h].todo => hs'[h].seen[o] = meta[o]
         /\ hs'[h].todo \in SUBSET Sandboxes
<1> DEFINE old == {o \in Sandboxes \ {hs[h].s} :
                    meta[o].state = "Ready" /\ PodOf[o] = PodOf[hs[h].s]}
           seen == [o \in Sandboxes |-> IF o \in old THEN meta[o] ELSE NoRecord]
           pc == IF old = {} THEN "put" ELSE "demote"
<1>1. old \in SUBSET Sandboxes /\ seen \in [Sandboxes -> Record]
  BY IdleFields DEF TypeOK
<1>2. pc \in AllPC
  BY DEF AllPC, RunPC
<1>3. hs' = [hs EXCEPT ![h] = [@ EXCEPT !.pc = pc, !.todo = old, !.seen = seen]]
  BY DEF RunList
<1>4. \A o \in Sandboxes :
        /\ o \in old <=> Sibling(o, hs[h].s) /\ meta[o].state = "Ready"
        /\ o \in old => seen[o] = meta[o]
  BY DEF Sibling
<1> HIDE DEF old, seen, pc
<1>5. /\ Moved(h) /\ hs'[h].pc = pc /\ hs'[h].s = hs[h].s /\ hs'[h].r = hs[h].r
      /\ hs'[h].todo = old /\ hs'[h].seen = seen
  <2>1. hs' \in [Handlers -> Handler] /\ Others(h)
    BY <1>1, <1>2, <1>3, ListFields
  <2>2. hs'[h].pc = pc /\ hs'[h].s = hs[h].s /\ hs'[h].r = hs[h].r
    BY <1>1, <1>2, <1>3, ListFields
  <2>3. hs'[h].todo = old /\ hs'[h].seen = seen
    BY <1>1, <1>2, <1>3, ListFields, ZenonT(30)
  <2> QED BY <2>1, <2>2, <2>3 DEF Moved
<1> QED BY <1>1, <1>4, <1>5 DEF RunList, At, pc

LEMMA DemoteEffect ==
  ASSUME TypeOK, NEW h \in Handlers, RunDemote(h)
  PROVE  /\ hs[h].pc = "demote" /\ Moved(h) /\ hs'[h].s = hs[h].s /\ hs'[h].r = hs[h].r
         /\ hs'[h].seen = hs[h].seen
         /\ hs'[h].pc = IF hs'[h].todo = {} THEN "put" ELSE "demote"
         /\ \E o \in hs[h].todo :
              /\ hs'[h].todo = hs[h].todo \ {o}
              /\ \E r \in Record :
                   /\ r.state = "NotReady" /\ r.host = hs[h].seen[o].host
                   /\ r.holder = hs[h].seen[o].holder
                   /\ meta' = [meta EXCEPT ![o] = r]
<1> DEFINE pc(o) == IF hs[h].todo = {o} THEN "put" ELSE "demote"
<1>1. PICK o \in hs[h].todo :
        /\ meta' = [meta EXCEPT ![o] = [hs[h].seen[o] EXCEPT !.state = "NotReady"]]
        /\ hs' = [hs EXCEPT ![h] = [@ EXCEPT !.pc = pc(o), !.todo = hs[h].todo \ {o}]]
  BY DEF RunDemote
<1>2. pc(o) \in AllPC
  BY DEF AllPC, RunPC
<1>3. hs[h].todo = {o} <=> hs[h].todo \ {o} = {}
  OBVIOUS
<1> HIDE DEF pc
<1>4. /\ Moved(h) /\ hs'[h].pc = pc(o) /\ hs'[h].s = hs[h].s /\ hs'[h].r = hs[h].r
      /\ hs'[h].todo = hs[h].todo \ {o} /\ hs'[h].seen = hs[h].seen
  BY <1>1, <1>2, DemoteFields DEF Moved
<1>5. hs[h].pc = "demote" /\ hs[h].seen[o] \in Record
  BY Working DEF RunDemote, At
<1> DEFINE r == [hs[h].seen[o] EXCEPT !.state = "NotReady"]
<1>6. /\ r \in Record /\ r.state = "NotReady" /\ r.host = hs[h].seen[o].host
      /\ r.holder = hs[h].seen[o].holder
  BY <1>5 DEF Record
<1>7. meta' = [meta EXCEPT ![o] = r]
  BY <1>1
<1> HIDE DEF r
<1> QED BY <1>3, <1>4, <1>5, <1>6, <1>7 DEF pc

LEMMA GetEffect ==
  ASSUME TypeOK, NEW h \in Handlers, NEW s \in Sandboxes, NEW pc \in {"kill", "teardown"},
         Enter(h, pc, s, FALSE, meta[s])
  PROVE  /\ Moved(h) /\ hs'[h].pc = pc /\ hs'[h].s = s /\ hs'[h].r = meta[s]
         /\ meta[s] \in Record
<1>1. meta[s] \in Record /\ pc \in AllPC
  BY DEF TypeOK, AllPC, StopPC, RemovePC
<1> QED BY <1>1, EnterFields DEF Moved

LEMMA StopPutEffect ==
  ASSUME TypeOK, NEW h \in Handlers, StopPut(h)
  PROVE  /\ hs[h].pc = "settle" /\ Left(h)
         /\ \E r \in Record :
              /\ r.state = "NotReady" /\ r.host = hs[h].r.host /\ r.holder = {}
              /\ meta' = [meta EXCEPT ![hs[h].s] = r]
<1> DEFINE r == [hs[h].r EXCEPT !.state = "NotReady", !.holder = {}]
<1>1. hs[h].pc = "settle" /\ hs[h].r \in Record
  BY Working DEF StopPut, At
<1>2. r \in Record /\ r.state = "NotReady" /\ r.host = hs[h].r.host /\ r.holder = {}
  BY <1>1 DEF Record, Opt
<1>3. meta' = [meta EXCEPT ![hs[h].s] = r]
  BY DEF StopPut
<1>4. Left(h)
  BY ReturnFields DEF StopPut, Left, Moved
<1> HIDE DEF r
<1> QED BY <1>1, <1>2, <1>3, <1>4

-----------------------------------------------------------------------------
(* Every step keeps the types, with any overlap of requests. *)

LEMMA InitTypes == ASSUME Init PROVE TypeInv
<1>1. \A h \in Handlers : hs[h] = Idle
  BY DEF Init
<1>2. TypeOK
  BY <1>1, IdleFields, SandboxAssumption DEF Init, TypeOK
<1>3. RunAlone /\ ChainOpen
  BY <1>1, IdleFields DEF Init, RunAlone, ChainOpen, RunPC
<1> QED BY <1>2, <1>3 DEF TypeInv

(* A step of one request after its first. *)
LEMMA KeepTypes ==
  ASSUME TypeInv, NEW h \in Handlers,
         Moved(h),
         hs'[h].pc # "idle" => hs'[h].s \in Sandboxes,
         hs'[h].pc \in RunPC => hs[h].pc \in RunPC /\ hs'[h].s = hs[h].s,
         hs'[h].pc # "netns",
         hs'[h].pc = "add" => cni'[hs'[h].s] < Plugins,
         meta' \in [Sandboxes -> Record], ids' = ids, netns' \in SUBSET Sandboxes,
         proc' \in [Pids -> Sandboxes \cup {Foreign, None}],
         cni' \in [Sandboxes -> 0..Plugins],
         \A s \in Sandboxes : s # hs[h].s => cni'[s] = cni[s],
         \A s \in Sandboxes : hs[h].pc \in RunPC \/ cni'[s] = cni[s] \/ cni'[s] = 0
  PROVE  TypeInv'
<1>1. TypeOK'
  BY DEF TypeInv, TypeOK, Moved, Others
<1>2. RunAlone'
  BY DEF TypeInv, RunAlone, Moved, Others
<1>3. \A s \in Sandboxes : s \notin ids => cni'[s] = 0
  BY DEF TypeInv, RunAlone, ChainOpen
<1>4. \A i \in Handlers : hs'[i].pc = "netns" => cni'[hs'[i].s] = 0
  <2> SUFFICES ASSUME NEW i \in Handlers, hs'[i].pc = "netns" PROVE cni'[hs'[i].s] = 0
    OBVIOUS
  <2>1. i # h /\ hs'[i] = hs[i] /\ hs[i].s \in Sandboxes /\ hs[i].pc \in RunPC
    BY DEF Moved, Others, TypeInv, TypeOK, RunPC
  <2>2. hs[h].pc \in RunPC => hs[h].s # hs[i].s
    BY <2>1 DEF TypeInv, RunAlone
  <2> QED BY <2>1, <2>2 DEF TypeInv, ChainOpen
<1>5. \A i \in Handlers : hs'[i].pc = "add" => cni'[hs'[i].s] < Plugins
  <2> SUFFICES ASSUME NEW i \in Handlers, hs'[i].pc = "add", i # h PROVE cni'[hs'[i].s] < Plugins
    OBVIOUS
  <2>1. hs'[i] = hs[i] /\ hs[i].s \in Sandboxes /\ hs[i].pc \in RunPC
    BY DEF Moved, Others, TypeInv, TypeOK, RunPC
  <2>2. hs[h].pc \in RunPC => hs[h].s # hs[i].s
    BY <2>1 DEF TypeInv, RunAlone
  <2> QED BY <2>1, <2>2, SandboxAssumption DEF TypeInv, ChainOpen
<1> QED BY <1>1, <1>2, <1>3, <1>4, <1>5 DEF TypeInv, ChainOpen

LEMMA TeardownTypes ==
  ASSUME TypeOK, NEW s \in Sandboxes, Teardown(s)
  PROVE  /\ netns' \in SUBSET Sandboxes /\ cni' \in [Sandboxes -> 0..Plugins]
         /\ \A t \in Sandboxes : t # s => cni'[t] = cni[t]
         /\ \A t \in Sandboxes : cni'[t] = cni[t] \/ cni'[t] = 0
  BY SandboxAssumption DEF TypeOK, Teardown, DeleteNetns

LEMMA KillTypes ==
  ASSUME TypeOK, NEW holder, KillHolder(holder)
  PROVE  proc' \in [Pids -> Sandboxes \cup {Foreign, None}]
  BY DEF TypeOK, KillHolder

LEMMA RunTypes ==
  ASSUME TypeInv, NEW h \in Handlers, NEW s \in Sandboxes, NEW host \in BOOLEAN,
         NEW shared \in BOOLEAN, Run(h, s, host, shared)
  PROVE  TypeInv'
<1>1. /\ Moved(h) /\ hs'[h].pc \in {"holder", "netns"} /\ hs'[h].s = s
  BY RunEffect DEF TypeInv
<1>2. TypeOK'
  BY <1>1 DEF TypeInv, TypeOK, Run, Moved, Others
<1>3. RunAlone'
  BY <1>1 DEF TypeInv, RunAlone, Run, Accept, RunPC, Moved, Others
<1>4. ChainOpen'
  BY <1>1 DEF TypeInv, TypeOK, ChainOpen, Run, Moved, Others
<1> QED BY <1>2, <1>3, <1>4 DEF TypeInv

LEMMA RunStepTypes ==
  ASSUME TypeInv, NEW h \in Handlers, RunStep(h)
  PROVE  TypeInv'
<1> TypeOK
  BY DEF TypeInv
<1> hs[h].pc \in RunPC /\ hs[h].pc # "idle"
  BY DEF RunStep, RunNetns, RunAdd, RunUndo, RunHolder, RunList, RunDemote, RunPut, RunPC, At
<1> /\ hs[h].s \in Sandboxes /\ hs[h].r \in Record /\ hs[h].todo \in SUBSET Sandboxes
    /\ hs[h].seen \in [Sandboxes -> Record]
  BY Working
<1>1. CASE RunNetns(h)
  <2>1. cni' = cni /\ cni[hs[h].s] = 0
    BY <1>1, NetnsEffect DEF RunNetns, TypeInv, ChainOpen
  <2> QED BY <1>1, <2>1, NetnsEffect, KeepTypes, SandboxAssumption DEF RunNetns, TypeOK, Same, RunPC
<1>2. CASE RunAdd(h)
  <2>1. /\ cni[hs[h].s] \in 0..(Plugins - 1)
        /\ meta' = meta /\ ids' = ids /\ netns' = netns /\ proc' = proc
    <3>1. hs[h].pc = "add"
      BY <1>2 DEF RunAdd, At
    <3> QED BY <1>2, <3>1, SandboxAssumption DEF RunAdd, TypeInv, TypeOK, ChainOpen
  <2>2. PICK n \in {cni[hs[h].s], cni[hs[h].s] + 1} :
          /\ cni' = [cni EXCEPT ![hs[h].s] = n]
          /\ hs'[h].pc \in {"holder", "add", "undo"}
          /\ hs'[h].pc = "add" => n # Plugins
    BY <1>2, AddEffect
  <2>3. n \in 0..Plugins /\ cni' \in [Sandboxes -> 0..Plugins]
    BY <2>1, <2>2, SandboxAssumption DEF TypeOK
  <2>4. Moved(h) /\ hs'[h].s = hs[h].s
    BY <1>2, AddEffect DEF Same
  <2> QED BY <2>1, <2>2, <2>3, <2>4, KeepTypes, SandboxAssumption DEF TypeOK, RunPC
<1>3. CASE RunUndo(h)
  <2>1. Left(h)
    BY <1>3, ReturnFields DEF RunUndo, Left, Moved
  <2>2. Teardown(hs[h].s) /\ meta' = meta /\ ids' = ids /\ proc' = proc
    BY <1>3 DEF RunUndo
  <2>3. /\ netns' \in SUBSET Sandboxes /\ cni' \in [Sandboxes -> 0..Plugins]
        /\ \A t \in Sandboxes : t # hs[h].s => cni'[t] = cni[t]
    BY <2>2, TeardownTypes
  <2> QED BY <2>1, <2>2, <2>3, KeepTypes DEF TypeOK, RunPC, Left
<1>4. CASE RunHolder(h)
  <2>1. proc' \in [Pids -> Sandboxes \cup {Foreign, None}]
    BY <1>4, HolderEffect DEF RunHelper, TypeOK
  <2> QED BY <1>4, <2>1, HolderEffect, KeepTypes DEF RunHolder, TypeOK, RunPC
<1>5. CASE RunList(h)
  <2>1. Moved(h) /\ hs'[h].s = hs[h].s /\ hs'[h].pc \in {"put", "demote"}
    BY <1>5, ListEffect
  <2> QED BY <1>5, <2>1, KeepTypes DEF RunList, TypeOK, RunPC
<1>6. CASE RunDemote(h)
  <2>1. Moved(h) /\ hs'[h].s = hs[h].s /\ hs'[h].pc \in {"put", "demote"}
    BY <1>6, DemoteEffect
  <2>2. meta' \in [Sandboxes -> Record]
    BY <1>6, DemoteEffect DEF TypeOK
  <2> QED BY <1>6, <2>1, <2>2, KeepTypes DEF RunDemote, TypeOK, RunPC
<1>7. CASE RunPut(h)
  <2>1. Left(h)
    BY <1>7, ReturnFields DEF RunPut, Left, Moved
  <2>2. meta' \in [Sandboxes -> Record]
    BY <1>7 DEF RunPut, TypeOK
  <2> QED BY <1>7, <2>1, <2>2, KeepTypes DEF RunPut, TypeOK, RunPC, Left
<1> QED BY <1>1, <1>2, <1>3, <1>4, <1>5, <1>6, <1>7 DEF RunStep

LEMMA StopRemoveTypes ==
  ASSUME TypeInv, NEW h \in Handlers, StopStep(h) \/ RemoveStep(h)
  PROVE  TypeInv'
<1> TypeOK
  BY DEF TypeInv
<1> hs[h].pc \in StopPC \cup RemovePC /\ hs[h].pc # "idle"
  BY DEF StopStep, StopKill, StopPut, RemoveStep, RemoveTeardown, RemoveReap, RemoveForget,
         StopPC, RemovePC, At
<1> hs[h].s \in Sandboxes /\ hs[h].r \in Record
  BY Working
<1>1. CASE StopKill(h)
  <2>1. Moved(h) /\ hs'[h].pc = "settle" /\ Same(hs[h], hs'[h])
    BY <1>1, GotoFields DEF StopKill, AllPC, StopPC, Moved
  <2>2. proc' \in [Pids -> Sandboxes \cup {Foreign, None}]
    BY <1>1, KillTypes DEF StopKill
  <2> QED BY <1>1, <2>1, <2>2, KeepTypes DEF StopKill, TypeOK, RunPC, Same
<1>2. CASE StopPut(h)
  <2>1. Left(h) /\ meta' \in [Sandboxes -> Record]
    BY <1>2, StopPutEffect DEF TypeOK
  <2> QED BY <1>2, <2>1, KeepTypes DEF StopPut, TypeOK, RunPC, Left
<1>3. CASE RemoveTeardown(h)
  <2>1. Moved(h) /\ hs'[h].pc = "reap" /\ Same(hs[h], hs'[h])
    BY <1>3, GotoFields DEF RemoveTeardown, AllPC, RemovePC, Moved
  <2>2. /\ netns' \in SUBSET Sandboxes /\ cni' \in [Sandboxes -> 0..Plugins]
        /\ \A t \in Sandboxes : t # hs[h].s => cni'[t] = cni[t]
        /\ \A t \in Sandboxes : cni'[t] = cni[t] \/ cni'[t] = 0
    BY <1>3, TeardownTypes DEF RemoveTeardown, TypeOK
  <2> QED BY <1>3, <2>1, <2>2, KeepTypes DEF RemoveTeardown, TypeOK, RunPC, Same
<1>4. CASE RemoveReap(h)
  <2>1. Moved(h) /\ hs'[h].pc = "forget" /\ Same(hs[h], hs'[h])
    BY <1>4, GotoFields DEF RemoveReap, AllPC, RemovePC, Moved
  <2>2. proc' \in [Pids -> Sandboxes \cup {Foreign, None}]
    BY <1>4, KillTypes DEF RemoveReap
  <2> QED BY <1>4, <2>1, <2>2, KeepTypes DEF RemoveReap, TypeOK, RunPC, Same
<1>5. CASE RemoveForget(h)
  <2>1. Left(h)
    BY <1>5, ReturnFields DEF RemoveForget, Left, Moved
  <2>2. meta' \in [Sandboxes -> Record]
    BY <1>5, IdleFields DEF RemoveForget, TypeOK
  <2> QED BY <1>5, <2>1, <2>2, KeepTypes DEF RemoveForget, TypeOK, RunPC, Left
<1> QED BY <1>1, <1>2, <1>3, <1>4, <1>5 DEF StopStep, RemoveStep

LEMMA NextTypes == ASSUME TypeInv, [Next]_vars PROVE TypeInv'
<1> TypeOK
  BY DEF TypeInv
<1>1. CASE UNCHANGED vars
  BY <1>1 DEF vars, TypeInv, TypeOK, RunAlone, ChainOpen
<1>2. ASSUME NEW h \in Handlers, NEW s \in Sandboxes,
             NEW host \in BOOLEAN, NEW shared \in BOOLEAN, Run(h, s, host, shared)
      PROVE  TypeInv'
  BY <1>2, RunTypes
<1>3. ASSUME NEW h \in Handlers, NEW s \in Sandboxes, StopGet(h, s) \/ RemoveGet(h, s)
      PROVE  TypeInv'
  <2>1. Moved(h) /\ hs'[h].pc \in {"kill", "teardown"} /\ hs'[h].s = s
    BY <1>3, GetEffect DEF StopGet, RemoveGet
  <2> QED BY <1>3, <2>1, KeepTypes DEF StopGet, RemoveGet, TypeOK, RunPC
<1>4. ASSUME NEW h \in Handlers, RunStep(h) PROVE TypeInv'
  BY <1>4, RunStepTypes
<1>5. ASSUME NEW h \in Handlers, StopStep(h) \/ RemoveStep(h) PROVE TypeInv'
  BY <1>5, StopRemoveTypes
<1>6. ASSUME NEW p \in Pids, Fork(p) \/ HolderDies(p) PROVE TypeInv'
  BY <1>6 DEF Fork, HolderDies, TypeInv, TypeOK, RunAlone, ChainOpen
<1>7. CASE Crash
  <2>1. \A h \in Handlers : hs'[h] = Idle
    BY <1>7 DEF Crash
  <2>2. TypeOK'
    BY <1>7, <2>1, IdleFields DEF Crash, TypeOK
  <2> QED BY <1>7, <2>1, <2>2, IdleFields DEF Crash, TypeInv, RunAlone, ChainOpen, RunPC
<1> QED BY <1>1, <1>2, <1>3, <1>4, <1>5, <1>6, <1>7 DEF Next

(* The store, the namespaces, the CNI chain and the requests keep their types:
   in particular Cni::setup never adds a plugin more than the chain has, with
   any overlap of requests, any failure and a crash at any point. *)
THEOREM SandboxTypes == Spec => []TypeOK
<1>1. Init => TypeInv
  BY InitTypes
<1>2. TypeInv /\ [Next]_vars => TypeInv'
  BY NextTypes
<1>3. TypeInv => TypeOK
  BY DEF TypeInv
<1> QED BY <1>1, <1>2, <1>3, PTL DEF Spec
-----------------------------------------------------------------------------
(* Only the put that ends a RunPodSandbox stores a Ready record. *)

LEMMA StoredReady ==
  ASSUME TypeOK, [Next]_vars, NEW s \in Sandboxes,
         meta'[s].state = "Ready", meta[s].state # "Ready"
  PROVE  \E h \in Handlers : hs[h].pc = "put" /\ hs[h].s = s
<1>1. meta' # meta
  OBVIOUS
<1>2. PICK h \in Handlers : RunDemote(h) \/ RunPut(h) \/ StopPut(h) \/ RemoveForget(h)
  BY <1>1 DEF Next, vars, Run, StopGet, RemoveGet, RunStep, StopStep, RemoveStep, RunNetns,
     RunAdd, RunUndo, RunHolder, RunList, StopKill, RemoveTeardown, RemoveReap, Fork, HolderDies, Crash
<1>3. ~RunDemote(h)
  BY DemoteEffect, Working DEF TypeOK
<1>4. ~StopPut(h)
  BY StopPutEffect DEF TypeOK
<1>5. ~RemoveForget(h)
  BY IdleFields DEF RemoveForget, TypeOK
<1>6. hs[h].pc = "put" /\ hs[h].s = s
  BY <1>2, <1>3, <1>4, <1>5 DEF RunPut, At, TypeOK
<1> QED BY <1>6

(* Whatever old copy a concurrent StopPodSandbox or RunPodSandbox stores, a
   sandbox that was stopped, demoted or removed is never recorded Ready again:
   with any overlap of requests, and a crash at any point. *)
THEOREM RetiredForGood == Spec => NeverReadyAgain
<1>1. TypeOK /\ [Next]_vars => [\A s \in Sandboxes : Retired(s) => meta'[s].state # "Ready"]_vars
  <2> SUFFICES ASSUME TypeOK, [Next]_vars, NEW s \in Sandboxes, Retired(s)
               PROVE  meta'[s].state # "Ready"
    OBVIOUS
  <2> QED BY StoredReady DEF Retired, RunPC
<1> QED BY <1>1, SandboxTypes, PTL DEF Spec, NeverReadyAgain

-----------------------------------------------------------------------------
(* One request per pod: what a step of a request leaves alone. *)

(* The steps of one request after its first, and the pod they touch. *)
Local(h) ==
  /\ Moved(h)
  /\ hs[h].pc # "idle" /\ hs[h].s \in Sandboxes
  /\ hs'[h].pc # "idle" => hs'[h].s = hs[h].s
  /\ ids' = ids
  /\ \A o \in Sandboxes : PodOf[o] # PodOf[hs[h].s] => meta'[o] = meta[o]

LEMMA OthersElsewhere ==
  ASSUME TypeOK, OneRequest, NEW h \in Handlers, Local(h), NEW i \in Handlers, i # h,
         hs[i].pc # "idle"
  PROVE  /\ hs'[i] = hs[i] /\ hs[i].s \in Sandboxes /\ hs[i].s # hs[h].s
         /\ \A o \in Sandboxes : PodOf[o] = PodOf[hs[i].s] => meta'[o] = meta[o]
  BY DEF TypeOK, OneRequest, Local, Moved, Others

LEMMA LocalKeeps ==
  ASSUME TypeOK, SerialInv, NEW h \in Handlers, Local(h)
  PROVE  OneRequest' /\ \A i \in Handlers : i # h => RequestInv(i)'
<1>1. OneRequest'
  BY DEF SerialInv, OneRequest, Local, Moved, Others
<1>2. ASSUME NEW i \in Handlers, i # h, hs[i].pc # "idle" PROVE RequestInv(i)'
  <2>1. /\ hs'[i] = hs[i] /\ hs[i].s \in Sandboxes
        /\ \A o \in Sandboxes : PodOf[o] = PodOf[hs[i].s] => meta'[o] = meta[o]
    BY <1>2, OthersElsewhere DEF SerialInv
  <2>2. RequestInv(i)
    BY DEF SerialInv
  <2>3. hs[i].pc = "demote" => hs[i].todo \in SUBSET Sandboxes
    BY DEF TypeOK, Handler
  <2> QED BY <2>1, <2>2, <2>3 DEF RequestInv, Sibling
<1>3. ASSUME NEW i \in Handlers, i # h, hs[i].pc = "idle" PROVE RequestInv(i)'
  BY <1>3 DEF Local, Moved, Others, RequestInv, RunPC, StopPC, RemovePC
<1> QED BY <1>1, <1>2, <1>3
(* A step that leaves the records alone. *)
LEMMA SilentSerial ==
  ASSUME TypeOK, SerialInv, NEW h \in Handlers, Local(h), meta' = meta, RequestInv(h)'
  PROVE  SerialInv'
<1>1. OneRequest' /\ \A i \in Handlers : i # h => RequestInv(i)'
  BY LocalKeeps
<1>2. StoreInv' /\ OneReadySandbox'
  BY DEF Local, SerialInv, StoreInv, OneReadySandbox
<1> QED BY <1>1, <1>2 DEF SerialInv

LEMMA RunStepSerial ==
  ASSUME TypeInv, SerialInv, NEW h \in Handlers, RunStep(h)
  PROVE  SerialInv'
<1> TypeOK /\ RequestInv(h)
  BY DEF TypeInv, SerialInv
<1> hs[h].pc \in RunPC /\ hs[h].pc # "idle"
  BY DEF RunStep, RunNetns, RunAdd, RunUndo, RunHolder, RunList, RunDemote, RunPut, RunPC, At
<1> /\ hs[h].s \in Sandboxes /\ hs[h].r \in Record /\ hs[h].todo \in SUBSET Sandboxes
    /\ hs[h].seen \in [Sandboxes -> Record]
  BY Working
<1> hs[h].s \in ids
  BY DEF TypeInv, RunAlone
<1>1. CASE RunNetns(h)
  <2>1. Moved(h) /\ Same(hs[h], hs'[h]) /\ hs'[h].pc \in {"add", "undo"}
    BY <1>1, NetnsEffect
  <2>2. meta' = meta /\ Local(h)
    BY <1>1, <2>1 DEF RunNetns, Local, Same
  <2>3. RequestInv(h)'
    BY <2>1, <2>2 DEF RequestInv, Same, RunPC, StopPC, RemovePC
  <2> QED BY <2>2, <2>3, SilentSerial
<1>2. CASE RunAdd(h)
  <2>1. Moved(h) /\ Same(hs[h], hs'[h]) /\ hs'[h].pc \in {"add", "undo", "holder"}
    BY <1>2, AddEffect
  <2>2. meta' = meta /\ Local(h)
    BY <1>2, <2>1 DEF RunAdd, Local, Same
  <2>3. RequestInv(h)'
    BY <2>1, <2>2 DEF RequestInv, Same, RunPC, StopPC, RemovePC
  <2> QED BY <2>2, <2>3, SilentSerial
<1>3. CASE RunUndo(h)
  <2>1. Left(h)
    BY <1>3, ReturnFields DEF RunUndo, Left, Moved
  <2>2. meta' = meta /\ Local(h)
    BY <1>3, <2>1 DEF RunUndo, Local, Left
  <2>3. RequestInv(h)'
    BY <2>1 DEF RequestInv, Left, RunPC, StopPC, RemovePC
  <2> QED BY <2>2, <2>3, SilentSerial
<1>4. CASE RunHolder(h)
  <2>1. /\ Moved(h) /\ hs'[h].pc = "list" /\ hs'[h].s = hs[h].s
        /\ hs'[h].r.state = hs[h].r.state
    BY <1>4, HolderEffect
  <2>2. meta' = meta /\ Local(h)
    BY <1>4, <2>1 DEF RunHolder, Local
  <2>3. RequestInv(h)'
    BY <2>1, <2>2 DEF RequestInv, RunPC, StopPC, RemovePC
  <2> QED BY <2>2, <2>3, SilentSerial
<1>5. CASE RunList(h)
  <2>1. /\ Moved(h) /\ hs'[h].s = hs[h].s /\ hs'[h].r = hs[h].r
        /\ hs'[h].pc = IF hs'[h].todo = {} THEN "put" ELSE "demote"
        /\ \A o \in Sandboxes :
             /\ o \in hs'[h].todo <=> Sibling(o, hs[h].s) /\ meta[o].state = "Ready"
             /\ o \in hs'[h].todo => hs'[h].seen[o] = meta[o]
    BY <1>5, ListEffect
  <2>2. meta' = meta /\ Local(h)
    BY <1>5, <2>1 DEF RunList, Local
  <2>3. RequestInv(h)'
    <3>1. \A o \in Sandboxes : Sibling(o, hs[h].s)' <=> Sibling(o, hs[h].s)
      BY <2>1 DEF Sibling
    <3> QED BY <2>1, <2>2, <3>1 DEF RequestInv, RunPC, StopPC, RemovePC
  <2> QED BY <2>2, <2>3, SilentSerial
<1>6. CASE RunDemote(h)
  <2>1. /\ Moved(h) /\ hs'[h].s = hs[h].s /\ hs'[h].r = hs[h].r /\ hs'[h].seen = hs[h].seen
        /\ hs[h].pc = "demote"
        /\ hs'[h].pc = IF hs'[h].todo = {} THEN "put" ELSE "demote"
    BY <1>6, DemoteEffect
  <2>2. PICK o \in hs[h].todo, r \in Record :
          /\ hs'[h].todo = hs[h].todo \ {o}
          /\ r.state = "NotReady" /\ meta' = [meta EXCEPT ![o] = r]
    BY <1>6, DemoteEffect
  <2>3. o \in Sandboxes /\ Sibling(o, hs[h].s) /\ meta[o].state = "Ready"
    BY <2>1, <2>2 DEF RequestInv
  <2>4. ids' = ids /\ Local(h)
    BY <1>6, <2>1, <2>2, <2>3 DEF RunDemote, Local, Sibling, TypeOK
  <2>5. meta'[o] = r /\ \A t \in Sandboxes : t # o => meta'[t] = meta[t]
    BY <2>2, <2>3 DEF TypeOK
  <2>6. RequestInv(h)'
    <3>1. \A t \in Sandboxes : t \in hs'[h].todo <=> Sibling(t, hs[h].s) /\ meta'[t].state = "Ready"
      BY <2>1, <2>2, <2>5 DEF RequestInv
    <3>2. \A t \in Sandboxes : t \in hs'[h].todo => hs'[h].seen[t] = meta'[t]
      BY <2>1, <2>2, <2>5 DEF RequestInv
    <3>3. meta'[hs[h].s] = meta[hs[h].s]
      BY <2>3, <2>5 DEF Sibling
    <3> QED BY <2>1, <3>1, <3>2, <3>3 DEF RequestInv, Sibling, RunPC, StopPC, RemovePC
  <2>7. StoreInv'
    BY <2>2, <2>3, <2>4, <2>5 DEF SerialInv, StoreInv
  <2>8. OneReadySandbox'
    BY <2>2, <2>5 DEF SerialInv, OneReadySandbox
  <2> QED BY <2>4, <2>6, <2>7, <2>8, LocalKeeps DEF SerialInv
<1>7. CASE RunPut(h)
  <2>1. Left(h) /\ hs[h].pc = "put"
    BY <1>7, ReturnFields DEF RunPut, Left, Moved, At
  <2>2. ids' = ids /\ meta' = [meta EXCEPT ![hs[h].s] = hs[h].r]
    BY <1>7 DEF RunPut
  <2>3. meta'[hs[h].s] = hs[h].r /\ \A t \in Sandboxes : t # hs[h].s => meta'[t] = meta[t]
    BY <2>2 DEF TypeOK
  <2>4. Local(h)
    BY <2>1, <2>2, <2>3 DEF Local, Left
  <2>5. RequestInv(h)'
    BY <2>1 DEF RequestInv, Left, RunPC, StopPC, RemovePC
  <2>6. StoreInv'
    BY <2>2, <2>3 DEF SerialInv, StoreInv, RequestInv
  <2>7. OneReadySandbox'
    BY <2>1, <2>3 DEF SerialInv, OneReadySandbox, RequestInv, Sibling
  <2> QED BY <2>4, <2>5, <2>6, <2>7, LocalKeeps DEF SerialInv
<1> QED BY <1>1, <1>2, <1>3, <1>4, <1>5, <1>6, <1>7 DEF RunStep

LEMMA StopRemoveSerial ==
  ASSUME TypeInv, SerialInv, NEW h \in Handlers, StopStep(h) \/ RemoveStep(h)
  PROVE  SerialInv'
<1> TypeOK /\ RequestInv(h)
  BY DEF TypeInv, SerialInv
<1> hs[h].pc \in StopPC \cup RemovePC /\ hs[h].pc # "idle" /\ hs[h].pc \notin RunPC
  BY DEF StopStep, StopKill, StopPut, RemoveStep, RemoveTeardown, RemoveReap, RemoveForget,
         RunPC, StopPC, RemovePC, At
<1> hs[h].s \in Sandboxes /\ hs[h].r \in Record /\ hs[h].s \in ids
  BY Working DEF SerialInv, StoreInv, RequestInv
<1>1. CASE StopKill(h) \/ RemoveTeardown(h) \/ RemoveReap(h)
  <2>1. Moved(h) /\ hs'[h].pc \in {"settle", "reap", "forget"} /\ Same(hs[h], hs'[h])
    BY <1>1, GotoFields DEF StopKill, RemoveTeardown, RemoveReap, AllPC, StopPC, RemovePC, Moved
  <2>2. meta' = meta /\ Local(h)
    BY <1>1, <2>1 DEF StopKill, RemoveTeardown, RemoveReap, Local, Same
  <2>3. RequestInv(h)'
    BY <2>1, <2>2 DEF RequestInv, Same, RunPC, StopPC, RemovePC
  <2> QED BY <2>2, <2>3, SilentSerial
<1>2. CASE StopPut(h) \/ RemoveForget(h)
  <2>1. Left(h)
    BY <1>2, StopPutEffect, ReturnFields DEF RemoveForget, Left, Moved
  <2>2. PICK r \in Record : /\ meta' = [meta EXCEPT ![hs[h].s] = r]
                            /\ r.state = "NotReady" \/ r = NoRecord
    BY <1>2, StopPutEffect, IdleFields DEF RemoveForget
  <2>3. meta'[hs[h].s] = r /\ \A t \in Sandboxes : t # hs[h].s => meta'[t] = meta[t]
    BY <2>2 DEF TypeOK
  <2>4. ids' = ids /\ Local(h)
    BY <1>2, <2>1, <2>3 DEF Local, Left, StopPut, RemoveForget
  <2>5. RequestInv(h)'
    BY <2>1 DEF RequestInv, Left, RunPC, StopPC, RemovePC
  <2>6. StoreInv'
    BY <2>2, <2>3, <2>4 DEF SerialInv, StoreInv
  <2>7. OneReadySandbox'
    BY <2>2, <2>3, IdleFields DEF SerialInv, OneReadySandbox
  <2> QED BY <2>4, <2>5, <2>6, <2>7, LocalKeeps DEF SerialInv
<1> QED BY <1>1, <1>2 DEF StopStep, RemoveStep
(* A new request finds nobody else at work on its pod. *)
Entered(h, s) ==
  /\ Moved(h) /\ hs[h].pc = "idle" /\ hs'[h].s = s
  /\ \A i \in Handlers : hs[i].pc # "idle" => PodOf[hs[i].s] # PodOf[s]
  /\ meta' = meta

LEMMA EnteredSerial ==
  ASSUME TypeOK, SerialInv, NEW h \in Handlers, NEW s \in Sandboxes, Entered(h, s),
         ids \subseteq ids', RequestInv(h)'
  PROVE  SerialInv'
<1>1. OneRequest'
  BY DEF SerialInv, OneRequest, Entered, Moved, Others
<1>2. ASSUME NEW i \in Handlers, i # h PROVE RequestInv(i)'
  BY <1>2 DEF SerialInv, RequestInv, Sibling, Entered, Moved, Others
<1>3. StoreInv' /\ OneReadySandbox'
  BY DEF SerialInv, StoreInv, OneReadySandbox, Entered
<1> QED BY <1>1, <1>2, <1>3 DEF SerialInv

LEMMA Entering ==
  ASSUME TypeOK, Serial, NEW h \in Handlers, NEW s \in Sandboxes,
         \/ \E host, shared \in BOOLEAN : Run(h, s, host, shared)
         \/ StopGet(h, s) \/ RemoveGet(h, s)
  PROVE  Entered(h, s)
<1>1. \A i \in Handlers : hs[i].pc # "idle" => PodOf[hs[i].s] # PodOf[s]
  BY DEF Run, StopGet, RemoveGet, Accept, Busy
<1>2. hs[h].pc = "idle" /\ meta' = meta
  BY DEF Run, StopGet, RemoveGet, Accept
<1>3. Moved(h) /\ hs'[h].s = s
  <2>1. ASSUME NEW host \in BOOLEAN, NEW shared \in BOOLEAN, Run(h, s, host, shared)
        PROVE  Moved(h) /\ hs'[h].s = s
    BY <2>1, RunEffect
  <2>2. CASE StopGet(h, s) \/ RemoveGet(h, s)
    BY <2>2, GetEffect DEF StopGet, RemoveGet
  <2> QED BY <2>1, <2>2
<1> QED BY <1>1, <1>2, <1>3 DEF Entered

LEMMA NextSerial ==
  ASSUME Serial, TypeInv, SerialInv, [Next]_vars PROVE SerialInv'
<1> TypeOK
  BY DEF TypeInv
<1>1. CASE UNCHANGED vars
  BY <1>1 DEF vars, SerialInv, OneRequest, StoreInv, RequestInv, OneReadySandbox
<1>2. ASSUME NEW h \in Handlers, NEW s \in Sandboxes,
             NEW host \in BOOLEAN, NEW shared \in BOOLEAN, Run(h, s, host, shared)
      PROVE  SerialInv'
  <2>1. Entered(h, s)
    BY <1>2, Entering
  <2>2. hs'[h].pc \in {"holder", "netns"} /\ hs'[h].s = s /\ hs'[h].r.state = "Ready"
    BY <1>2, RunEffect
  <2>3. ids \subseteq ids' /\ meta[s].state = "Absent"
    BY <1>2 DEF Run, SerialInv, StoreInv
  <2>4. RequestInv(h)'
    BY <2>1, <2>2, <2>3 DEF RequestInv, Entered, RunPC, StopPC, RemovePC
  <2> QED BY <2>1, <2>3, <2>4, EnteredSerial
<1>3. ASSUME NEW h \in Handlers, NEW s \in Sandboxes, StopGet(h, s) \/ RemoveGet(h, s)
      PROVE  SerialInv'
  <2>1. Entered(h, s)
    BY <1>3, Entering
  <2>2. hs'[h].pc \in {"kill", "teardown"} /\ hs'[h].s = s /\ hs'[h].r = meta[s]
    BY <1>3, GetEffect DEF StopGet, RemoveGet
  <2>3. ids' = ids /\ meta[s].state # "Absent"
    BY <1>3 DEF StopGet, RemoveGet
  <2>4. RequestInv(h)'
    BY <2>1, <2>2, <2>3 DEF RequestInv, Entered, RunPC, StopPC, RemovePC
  <2> QED BY <2>1, <2>3, <2>4, EnteredSerial
<1>4. ASSUME NEW h \in Handlers, RunStep(h) PROVE SerialInv'
  BY <1>4, RunStepSerial
<1>5. ASSUME NEW h \in Handlers, StopStep(h) \/ RemoveStep(h) PROVE SerialInv'
  BY <1>5, StopRemoveSerial
<1>6. ASSUME NEW p \in Pids, Fork(p) \/ HolderDies(p) PROVE SerialInv'
  BY <1>6 DEF Fork, HolderDies, SerialInv, OneRequest, StoreInv, RequestInv, OneReadySandbox
<1>7. CASE Crash
  <2>1. \A h \in Handlers : hs'[h] = Idle
    BY <1>7 DEF Crash
  <2>2. meta' = meta /\ ids' = ids
    BY <1>7 DEF Crash
  <2>3. OneRequest' /\ \A h \in Handlers : RequestInv(h)'
    BY <2>1, IdleFields DEF OneRequest, RequestInv, RunPC, StopPC, RemovePC
  <2>4. StoreInv' /\ OneReadySandbox'
    BY <2>2 DEF SerialInv, StoreInv, OneReadySandbox
  <2> QED BY <2>3, <2>4 DEF SerialInv
<1> QED BY <1>1, <1>2, <1>3, <1>4, <1>5, <1>6, <1>7 DEF Next

LEMMA InitSerial == ASSUME Init PROVE SerialInv
<1>1. \A h \in Handlers : hs[h] = Idle
  BY DEF Init
<1>2. \A s \in Sandboxes : meta[s] = NoRecord
  BY DEF Init, NoList
<1>3. OneRequest /\ \A h \in Handlers : RequestInv(h)
  BY <1>1, IdleFields DEF OneRequest, RequestInv, RunPC, StopPC, RemovePC
<1>4. StoreInv /\ OneReadySandbox
  BY <1>2, IdleFields DEF StoreInv, OneReadySandbox
<1> QED BY <1>3, <1>4 DEF SerialInv

(* With one request per pod in flight a pod has at most one Ready sandbox: the
   demotions of run_pod_sandbox leave no sibling Ready when its own record is
   put, also when plugins fail, holders are lost or the daemon crashes in
   between. *)
THEOREM OneReadyPerPod == ASSUME Serial PROVE Spec => []OneReadySandbox
<1>1. Init => TypeInv /\ SerialInv
  BY InitTypes, InitSerial
<1>2. TypeInv /\ SerialInv /\ [Next]_vars => (TypeInv /\ SerialInv)'
  BY NextTypes, NextSerial
<1>3. SerialInv => OneReadySandbox
  BY DEF SerialInv
<1> QED BY <1>1, <1>2, <1>3, PTL DEF Spec
-----------------------------------------------------------------------------
(* Holders, with one request per pod, no crash and every pid file written. *)

LEMMA HolderFrame ==
  ASSUME TypeOK, SerialInv, HolderInv, NEW h \in Handlers, Local(h),
         NEW s \in Sandboxes, hs[h].s = s,
         \A t \in Sandboxes : t # s =>
           Holders(t)' = Holders(t) /\ meta'[t].holder = meta[t].holder,
         RecordHolds(s)', RequestHolds(h)'
  PROVE  HolderInv'
<1>1. ASSUME NEW i \in Handlers, i # h PROVE RequestHolds(i)'
  <2>1. CASE hs[i].pc = "idle"
    BY <1>1, <2>1 DEF Local, Moved, Others, RequestHolds, RunPC
  <2>2. CASE hs[i].pc # "idle"
    <3>1. PICK t \in Sandboxes : hs'[i] = hs[i] /\ hs[i].s = t /\ t # s
      BY <1>1, <2>2, OthersElsewhere DEF SerialInv
    <3>2. Holders(t)' = Holders(t) /\ Holders(hs[i].s) = Holders(t) /\ Holders(hs[i].s)' = Holders(t)'
      BY <3>1 DEF Holders
    <3>3. RequestHolds(i)
      BY DEF HolderInv
    <3> QED BY <3>1, <3>2, <3>3 DEF RequestHolds
  <2> QED BY <2>1, <2>2
<1>2. ASSUME NEW t \in Sandboxes, t # s PROVE RecordHolds(t)'
  <2>1. Holders(t)' = Holders(t) /\ meta'[t].holder = meta[t].holder
    BY <1>2
  <2>2. RecordHolds(t)
    BY DEF HolderInv
  <2> QED BY <1>2, <2>1, <2>2 DEF RecordHolds, Local, Moved, Others
<1> QED BY <1>1, <1>2 DEF HolderInv

(* A step that leaves the processes and the records alone. *)
LEMMA SilentHolder ==
  ASSUME TypeOK, SerialInv, HolderInv, NEW h \in Handlers, Local(h), meta' = meta, proc' = proc,
         hs'[h].pc # "idle",
         hs[h].pc \in RunPC => hs'[h].pc \in RunPC,
         hs[h].pc \notin {"settle", "forget"},
         RequestHolds(h)'
  PROVE  HolderInv'
<1>1. PICK s \in Sandboxes : hs[h].s = s
  BY DEF Local
<1>2. hs'[h].s = s
  BY <1>1 DEF Local
<1>3. RecordHolds(s)'
  <2>1. RecordHolds(s)
    BY DEF HolderInv
  <2> QED BY <1>1, <1>2, <2>1 DEF RecordHolds, Holders, Local, Moved, Others
<1>4. \A t \in Sandboxes : Holders(t)' = Holders(t)
  BY DEF Holders
<1> QED BY <1>1, <1>3, <1>4, HolderFrame

LEMMA RunStepHolder ==
  ASSUME ~PidFaults, TypeInv, SerialInv, HolderInv, NEW h \in Handlers, RunStep(h)
  PROVE  HolderInv'
<1> TypeOK /\ RequestInv(h) /\ RequestHolds(h)
  BY DEF TypeInv, SerialInv, HolderInv
<1> hs[h].pc \in RunPC /\ hs[h].pc # "idle" /\ hs[h].pc \notin {"settle", "forget"}
  BY DEF RunStep, RunNetns, RunAdd, RunUndo, RunHolder, RunList, RunDemote, RunPut, RunPC, At
<1>s. PICK s \in Sandboxes : hs[h].s = s
  BY Working
<1> /\ hs[h].r \in Record /\ hs[h].todo \in SUBSET Sandboxes
    /\ hs[h].seen \in [Sandboxes -> Record]
  BY Working
<1>0. Holders(s) = hs[h].r.holder
  BY <1>s DEF RequestHolds
<1>1. CASE RunNetns(h) \/ RunAdd(h)
  <2>1. /\ Moved(h) /\ Same(hs[h], hs'[h]) /\ hs'[h].pc \in {"add", "undo", "holder"}
        /\ hs[h].pc \in {"netns", "add"}
    BY <1>1, NetnsEffect, AddEffect
  <2>2. meta' = meta /\ proc' = proc /\ Local(h)
    BY <1>1, <1>s, <2>1 DEF RunNetns, RunAdd, Local, Same
  <2>3. RequestHolds(h)'
    BY <2>1, <2>2 DEF RequestHolds, Same, RunPC, Holders
  <2>4. hs'[h].pc \in RunPC /\ hs'[h].pc # "idle"
    BY <2>1 DEF RunPC
  <2> QED BY <2>2, <2>3, <2>4, SilentHolder
<1>2. CASE RunUndo(h)
  <2>1. Left(h) /\ hs[h].pc = "undo"
    BY <1>2, ReturnFields DEF RunUndo, Left, Moved, At
  <2>2. meta' = meta /\ proc' = proc /\ Local(h)
    BY <1>2, <1>s, <2>1 DEF RunUndo, Local, Left
  <2>3. RequestHolds(h)'
    BY <2>1 DEF RequestHolds, Left, RunPC
  <2>4. meta[s].holder = {} /\ Holders(s) = {}
    <3>1. meta[s] = NoRecord /\ hs[h].r.holder = {}
      BY <1>s, <2>1 DEF SerialInv, StoreInv, RequestInv, RequestHolds
    <3> QED BY <1>0, <3>1, IdleFields
  <2>5. \A t \in Sandboxes : Holders(t)' = Holders(t)
    BY <2>2 DEF Holders
  <2>6. RecordHolds(s)'
    BY <2>2, <2>4, <2>5 DEF RecordHolds
  <2> QED BY <1>s, <2>2, <2>3, <2>5, <2>6, HolderFrame
<1>3. CASE RunHolder(h)
  <2>1. /\ Moved(h) /\ hs[h].pc = "holder" /\ hs'[h].pc = "list" /\ hs'[h].s = s
        /\ \/ hs'[h].r.holder = {} /\ proc' = proc
           \/ \E p \in Pids : RunHelper(s, p, hs'[h].r.holder)
    BY <1>3, <1>s, HolderEffect
  <2>2. meta' = meta /\ Local(h)
    BY <1>3, <1>s, <2>1 DEF RunHolder, Local
  <2>3. \A p \in Pids : proc[p] # s
    BY <1>0, <2>1 DEF Holders, RequestHolds
  <2>4. /\ Holders(s)' = hs'[h].r.holder
        /\ \A t \in Sandboxes : t # s => Holders(t)' = Holders(t)
    <3>1. CASE hs'[h].r.holder = {} /\ proc' = proc
      BY <2>3, <3>1 DEF Holders
    <3>2. ASSUME NEW p \in Pids, RunHelper(s, p, hs'[h].r.holder)
          PROVE  <2>4!:
      <4>1. proc[p] = None /\ hs'[h].r.holder = {p} /\ proc' = [proc EXCEPT ![p] = s]
        BY <3>2 DEF RunHelper
      <4>2. \A q \in Pids : proc'[q] = IF q = p THEN s ELSE proc[q]
        BY <4>1 DEF TypeOK
      <4> QED BY <2>3, <4>1, <4>2, SandboxAssumption DEF Holders
    <3> QED BY <2>1, <3>1, <3>2
  <2>5. RequestHolds(h)'
    <3>1. Holders(hs[h].s)' = Holders(s)'
      BY <2>1 DEF Holders
    <3> QED BY <2>1, <2>4, <3>1 DEF RequestHolds, RunPC
  <2>6. RecordHolds(s)'
    BY <2>1 DEF RecordHolds, RunPC
  <2> QED BY <1>s, <2>2, <2>4, <2>5, <2>6, HolderFrame
<1>4. CASE RunList(h)
  <2>1. /\ Moved(h) /\ hs'[h].s = hs[h].s /\ hs'[h].r = hs[h].r
        /\ hs'[h].pc \in {"put", "demote"}
    BY <1>4, ListEffect
  <2>2. meta' = meta /\ proc' = proc /\ Local(h)
    BY <1>4, <1>s, <2>1 DEF RunList, Local
  <2>3. RequestHolds(h)'
    BY <1>0, <1>s, <2>1, <2>2 DEF RequestHolds, RunPC, Holders
  <2>4. hs'[h].pc \in RunPC /\ hs'[h].pc # "idle"
    BY <2>1 DEF RunPC
  <2> QED BY <2>2, <2>3, <2>4, SilentHolder
<1>5. CASE RunDemote(h)
  <2>1. /\ Moved(h) /\ hs'[h].s = hs[h].s /\ hs'[h].r = hs[h].r /\ hs[h].pc = "demote"
        /\ hs'[h].pc \in {"put", "demote"}
    BY <1>5, DemoteEffect
  <2>2. PICK o \in hs[h].todo, r \in Record :
          r.holder = hs[h].seen[o].holder /\ meta' = [meta EXCEPT ![o] = r]
    BY <1>5, DemoteEffect
  <2>3. o \in Sandboxes /\ Sibling(o, hs[h].s) /\ hs[h].seen[o] = meta[o]
    BY <2>1, <2>2 DEF RequestInv
  <2>4. proc' = proc /\ Local(h)
    BY <1>5, <1>s, <2>1, <2>2, <2>3 DEF RunDemote, Local, Sibling, TypeOK
  <2>5. \A t \in Sandboxes : meta'[t].holder = meta[t].holder /\ Holders(t)' = Holders(t)
    BY <2>2, <2>3, <2>4 DEF TypeOK, Holders
  <2>6. RequestHolds(h)'
    BY <1>0, <1>s, <2>1, <2>4 DEF RequestHolds, RunPC, Holders
  <2>7. RecordHolds(s)'
    BY <1>s, <2>1 DEF RecordHolds, RunPC
  <2> QED BY <1>s, <2>4, <2>5, <2>6, <2>7, HolderFrame
<1>6. CASE RunPut(h)
  <2>1. Left(h) /\ hs[h].pc = "put"
    BY <1>6, ReturnFields DEF RunPut, Left, Moved, At
  <2>2. ids' = ids /\ proc' = proc /\ meta' = [meta EXCEPT ![s] = hs[h].r]
    BY <1>6, <1>s DEF RunPut
  <2>3. meta'[s] = hs[h].r /\ \A t \in Sandboxes : t # s => meta'[t] = meta[t]
    BY <2>2 DEF TypeOK
  <2>4. Local(h)
    BY <1>s, <2>1, <2>2, <2>3 DEF Local, Left
  <2>5. RequestHolds(h)'
    BY <2>1 DEF RequestHolds, Left, RunPC
  <2>6. \A t \in Sandboxes : Holders(t)' = Holders(t)
    BY <2>2 DEF Holders
  <2>7. RecordHolds(s)'
    BY <1>0, <2>3, <2>6 DEF RecordHolds
  <2> QED BY <1>s, <2>3, <2>4, <2>5, <2>6, <2>7, HolderFrame
<1> QED BY <1>1, <1>2, <1>3, <1>4, <1>5, <1>6 DEF RunStep

(* The holder a stop or a removal kills is its own sandbox's. *)
LEMMA KillsItsOwn ==
  ASSUME TypeOK, SerialInv, HolderInv, NEW h \in Handlers, hs[h].pc \in {"kill", "reap"},
         KillHolder(hs[h].r.holder), NEW s \in Sandboxes, hs[h].s = s
  PROVE  /\ \A p \in Pids : proc'[p] = IF proc[p] = s THEN None ELSE proc[p]
         /\ Holders(s)' = {}
         /\ \A t \in Sandboxes : t # s => Holders(t)' = Holders(t)
<1>1. hs[h].r = meta[s] /\ RecordHolds(s)
  BY DEF SerialInv, RequestInv, HolderInv, StopPC, RemovePC
<1>2. \A i \in Handlers : hs[i].s = s => hs[i].pc \notin RunPC \cup {"settle", "forget"}
  BY DEF SerialInv, OneRequest, RunPC
<1>3. Holders(s) = hs[h].r.holder
  BY <1>1, <1>2 DEF RecordHolds
<1>4. \A p \in Pids : proc'[p] = IF proc[p] = s THEN None ELSE proc[p]
  BY <1>3 DEF KillHolder, Holders
<1> QED BY <1>4, SandboxAssumption DEF Holders

LEMMA StopRemoveHolder ==
  ASSUME TypeInv, SerialInv, HolderInv, NEW h \in Handlers, StopStep(h) \/ RemoveStep(h)
  PROVE  HolderInv'
<1> TypeOK /\ RequestInv(h) /\ RequestHolds(h)
  BY DEF TypeInv, SerialInv, HolderInv
<1> hs[h].pc # "idle" /\ hs[h].pc \notin RunPC
  BY DEF StopStep, StopKill, StopPut, RemoveStep, RemoveTeardown, RemoveReap, RemoveForget,
         RunPC, At
<1>s. PICK s \in Sandboxes : hs[h].s = s
  BY Working
<1>1. CASE StopKill(h) \/ RemoveReap(h)
  <2>1. Moved(h) /\ hs'[h].pc \in {"settle", "forget"} /\ Same(hs[h], hs'[h])
    BY <1>1, GotoFields DEF StopKill, RemoveReap, AllPC, StopPC, RemovePC, Moved
  <2>2. meta' = meta /\ Local(h) /\ hs'[h].s = s
    BY <1>1, <1>s, <2>1 DEF StopKill, RemoveReap, Local, Same
  <2>3. Holders(s)' = {} /\ \A t \in Sandboxes : t # s => Holders(t)' = Holders(t)
    BY <1>1, <1>s, KillsItsOwn DEF StopKill, RemoveReap, At
  <2>4. RequestHolds(h)'
    <3>1. Holders(hs[h].s)' = Holders(s)'
      BY <2>2 DEF Holders
    <3> QED BY <2>1, <2>3, <3>1 DEF RequestHolds, RunPC
  <2>5. RecordHolds(s)'
    BY <2>1, <2>2 DEF RecordHolds
  <2> QED BY <1>s, <2>2, <2>3, <2>4, <2>5, HolderFrame
<1>2. CASE RemoveTeardown(h)
  <2>1. /\ Moved(h) /\ hs[h].pc = "teardown" /\ hs'[h].pc = "reap" /\ Same(hs[h], hs'[h])
    BY <1>2, GotoFields DEF RemoveTeardown, AllPC, RemovePC, Moved, At
  <2>2. meta' = meta /\ proc' = proc /\ Local(h)
    BY <1>2, <1>s, <2>1 DEF RemoveTeardown, Local, Same
  <2>3. RequestHolds(h)'
    BY <2>1 DEF RequestHolds, RunPC
  <2> QED BY <2>1, <2>2, <2>3, SilentHolder
<1>3. CASE StopPut(h) \/ RemoveForget(h)
  <2>1. Left(h) /\ hs[h].pc \in {"settle", "forget"}
    BY <1>3, StopPutEffect, ReturnFields DEF RemoveForget, Left, Moved, At
  <2>2. PICK r \in Record : meta' = [meta EXCEPT ![s] = r] /\ r.holder = {}
    BY <1>3, <1>s, StopPutEffect, IdleFields DEF RemoveForget
  <2>3. meta'[s].holder = {} /\ \A t \in Sandboxes : t # s => meta'[t] = meta[t]
    BY <2>2 DEF TypeOK
  <2>4. ids' = ids /\ proc' = proc /\ Local(h)
    BY <1>3, <1>s, <2>1, <2>3 DEF Local, Left, StopPut, RemoveForget
  <2>5. \A t \in Sandboxes : Holders(t)' = Holders(t)
    BY <2>4 DEF Holders
  <2>6. RequestHolds(h)'
    BY <2>1 DEF RequestHolds, Left, RunPC
  <2>7. RecordHolds(s)'
    BY <1>s, <2>1, <2>3, <2>5 DEF RecordHolds, RequestHolds
  <2> QED BY <1>s, <2>3, <2>4, <2>5, <2>6, <2>7, HolderFrame
<1> QED BY <1>1, <1>2, <1>3 DEF StopStep, RemoveStep
LEMMA EnteredHolder ==
  ASSUME Serial, TypeInv, SerialInv, HolderInv, NEW h \in Handlers, NEW s \in Sandboxes,
         \/ \E host, shared \in BOOLEAN : Run(h, s, host, shared)
         \/ StopGet(h, s) \/ RemoveGet(h, s)
  PROVE  HolderInv'
<1> TypeOK
  BY DEF TypeInv
<1>1. Entered(h, s) /\ proc' = proc
  BY Entering DEF Run, StopGet, RemoveGet
<1>2. \A i \in Handlers : i # h => hs'[i] = hs[i]
  BY <1>1 DEF Entered, Moved, Others
<1>3. \A t \in Sandboxes : Holders(t)' = Holders(t)
  BY <1>1 DEF Holders
<1>4. ASSUME NEW i \in Handlers, i # h PROVE RequestHolds(i)'
  BY <1>1, <1>2, <1>4 DEF HolderInv, RequestHolds, Holders
<1>5. ASSUME NEW t \in Sandboxes, t # s PROVE RecordHolds(t)'
  BY <1>1, <1>2, <1>3, <1>5 DEF HolderInv, RecordHolds, Entered, RunPC
<1>6. Holders(s) = meta[s].holder
  BY <1>1 DEF HolderInv, RecordHolds, Entered, RunPC
<1>7. RequestHolds(h)' /\ RecordHolds(s)'
  <2>1. Holders(hs[h].s)' = Holders(s)'
    BY <1>1 DEF Holders, Entered
  <2>2. ASSUME NEW host \in BOOLEAN, NEW shared \in BOOLEAN, Run(h, s, host, shared)
        PROVE  <1>7!:
    <3>1. hs'[h].pc \in {"holder", "netns"} /\ hs'[h].s = s /\ hs'[h].r.holder = {}
      BY <2>2, RunEffect
    <3>2. meta[s] = NoRecord
      BY <2>2 DEF Run, SerialInv, StoreInv
    <3> QED BY <1>3, <1>6, <2>1, <3>1, <3>2, IdleFields DEF RequestHolds, RecordHolds, RunPC
  <2>3. CASE StopGet(h, s) \/ RemoveGet(h, s)
    <3>1. hs'[h].pc \in {"kill", "teardown"}
      BY <2>3, GetEffect DEF StopGet, RemoveGet
    <3> QED BY <1>1, <1>3, <1>6, <3>1 DEF RequestHolds, RecordHolds, Entered, RunPC
  <2> QED BY <2>2, <2>3
<1> QED BY <1>4, <1>5, <1>7 DEF HolderInv

LEMMA NextHolder ==
  ASSUME Serial, ~PidFaults, ~HolderDeaths, ~Crashes, TypeInv, SerialInv, HolderInv, [Next]_vars
  PROVE  HolderInv'
<1>1. CASE UNCHANGED vars
  BY <1>1 DEF vars, HolderInv, RecordHolds, RequestHolds, Holders
<1>2. ASSUME NEW p \in Pids, Fork(p) PROVE HolderInv'
  <2>1. \A q \in Pids : proc'[q] = IF q = p THEN Foreign ELSE proc[q]
    BY <1>2 DEF Fork, TypeInv, TypeOK
  <2>2. meta' = meta /\ hs' = hs /\ proc[p] = None
    BY <1>2 DEF Fork
  <2>3. \A t \in Sandboxes : Holders(t)' = Holders(t)
    BY <2>1, <2>2, SandboxAssumption DEF Holders
  <2>4. \A h \in Handlers : RequestHolds(h)'
    <3> SUFFICES ASSUME NEW h \in Handlers PROVE RequestHolds(h)'
      OBVIOUS
    <3>1. CASE hs[h].pc = "idle"
      BY <2>2, <3>1 DEF RequestHolds, RunPC
    <3>2. CASE hs[h].pc # "idle"
      <4>1. PICK s \in Sandboxes : hs[h].s = s
        BY <3>2, Working DEF TypeInv
      <4>2. Holders(hs[h].s)' = Holders(s)' /\ Holders(hs[h].s) = Holders(s)
        BY <2>2, <4>1 DEF Holders
      <4> QED BY <2>2, <2>3, <4>2 DEF HolderInv, RequestHolds
    <3> QED BY <3>1, <3>2
  <2> QED BY <2>2, <2>3, <2>4 DEF HolderInv, RecordHolds
<1> QED BY <1>1, <1>2, EnteredHolder, RunStepHolder, StopRemoveHolder DEF Next, HolderDies, Crash

LEMMA InitHolder == ASSUME Init PROVE HolderInv
<1>1. \A h \in Handlers : hs[h] = Idle
  BY DEF Init
<1>2. \A s \in Sandboxes : Holders(s) = {} /\ meta[s].holder = {}
  BY IdleFields, SandboxAssumption DEF Init, Holders, NoList
<1> QED BY <1>1, <1>2, IdleFields DEF HolderInv, RecordHolds, RequestHolds, RunPC

(* With one request per pod in flight, no crash, the pid file always
   written and no holder that dies on its own, the pid_holder_pid of a record is the process spawn_holder left for
   that sandbox, and a record that names none has none. *)
THEOREM HolderOfItsRecord ==
  ASSUME Serial, ~PidFaults, ~HolderDeaths, ~Crashes PROVE Spec => []HolderIsOurs
<1>1. Init => TypeInv /\ SerialInv /\ HolderInv
  BY InitTypes, InitSerial, InitHolder
<1>2. TypeInv /\ SerialInv /\ HolderInv /\ [Next]_vars => (TypeInv /\ SerialInv /\ HolderInv)'
  BY NextTypes, NextSerial, NextHolder
<1>3. HolderInv => HolderIsOurs
  BY DEF HolderInv, HolderIsOurs, RecordHolds, Holders, Quiet, Busy, RunPC
<1> QED BY <1>1, <1>2, <1>3, PTL DEF Spec

-----------------------------------------------------------------------------
(* The network, with one request per pod, no crash and DELs that work. *)

SameNet(t) ==
  /\ t \in netns' <=> t \in netns
  /\ cni'[t] = cni[t]
SameRecordNet(t) ==
  /\ meta'[t].host = meta[t].host
  /\ meta'[t].state = "Absent" <=> meta[t].state = "Absent"

LEMMA NetFrame ==
  ASSUME TypeOK, SerialInv, NetInv, NEW h \in Handlers, Local(h),
         NEW s \in Sandboxes, hs[h].s = s,
         \A t \in Sandboxes : t # s => SameNet(t) /\ SameRecordNet(t),
         RecordWired(s)', RequestWired(h)'
  PROVE  NetInv'
<1>1. ASSUME NEW i \in Handlers, i # h PROVE RequestWired(i)'
  <2>1. CASE hs[i].pc = "idle"
    BY <1>1, <2>1 DEF Local, Moved, Others, RequestWired
  <2>2. CASE hs[i].pc # "idle"
    <3>1. hs'[i] = hs[i] /\ hs[i].s \in Sandboxes /\ hs[i].s # s
      BY <1>1, <2>2, OthersElsewhere DEF SerialInv
    <3>2. RequestWired(i)
      BY DEF NetInv
    <3> QED BY <3>1, <3>2 DEF RequestWired, SameNet, Wired, Unwired
  <2> QED BY <2>1, <2>2
<1>2. ASSUME NEW t \in Sandboxes, t # s PROVE RecordWired(t)'
  <2>1. SameNet(t) /\ SameRecordNet(t)
    BY <1>2
  <2>2. RecordWired(t)
    BY DEF NetInv
  <2>3. \A i \in Handlers : hs[i].s = t => i # h /\ hs'[i] = hs[i]
    BY <1>2 DEF Local, Moved, Others
  <2> QED BY <2>1, <2>2, <2>3 DEF RecordWired, SameNet, SameRecordNet, Wired, Unwired
<1> QED BY <1>1, <1>2 DEF NetInv

LEMMA TornDown ==
  ASSUME ~DelFaults, TypeOK, NEW s \in Sandboxes, Teardown(s)
  PROVE  Unwired(s)' /\ \A t \in Sandboxes : t # s => SameNet(t)
  BY DEF Teardown, DeleteNetns, Unwired, SameNet, TypeOK

LEMMA RunStepNet ==
  ASSUME ~DelFaults, TypeInv, SerialInv, NetInv, NEW h \in Handlers, RunStep(h)
  PROVE  NetInv'
<1> TypeOK /\ RequestInv(h) /\ RequestWired(h)
  BY DEF TypeInv, SerialInv, NetInv
<1> hs[h].pc \in RunPC /\ hs[h].pc # "idle" /\ hs[h].pc \notin StopPC \cup {"teardown"}
  BY DEF RunStep, RunNetns, RunAdd, RunUndo, RunHolder, RunList, RunDemote, RunPut, RunPC,
         StopPC, At
<1>s. PICK s \in Sandboxes : hs[h].s = s
  BY Working
<1> /\ hs[h].r \in Record /\ hs[h].todo \in SUBSET Sandboxes
    /\ hs[h].seen \in [Sandboxes -> Record]
  BY Working
<1>1. CASE RunNetns(h)
  <2>1. /\ Moved(h) /\ Same(hs[h], hs'[h]) /\ hs[h].pc = "netns"
        /\ \/ hs'[h].pc = "add" /\ netns' = netns \cup {s}
           \/ hs'[h].pc = "undo" /\ netns' = netns
    BY <1>1, <1>s, NetnsEffect
  <2>2. meta' = meta /\ cni' = cni /\ Local(h) /\ hs'[h].s = s
    BY <1>1, <1>s, <2>1 DEF RunNetns, Local, Same
  <2>3. RequestWired(h)'
    BY <2>1, <2>2 DEF RequestWired, Same
  <2>4. RecordWired(s)'
    BY <2>1, <2>2 DEF RecordWired, StopPC
  <2>5. \A t \in Sandboxes : t # s => SameNet(t) /\ SameRecordNet(t)
    BY <2>1, <2>2 DEF SameNet, SameRecordNet
  <2> QED BY <1>s, <2>2, <2>3, <2>4, <2>5, NetFrame
<1>2. CASE RunAdd(h)
  <2>1. Moved(h) /\ Same(hs[h], hs'[h]) /\ hs[h].pc = "add"
    BY <1>2, AddEffect
  <2>2. PICK n : /\ cni' = [cni EXCEPT ![s] = n]
                 /\ hs'[h].pc \in {"holder", "add", "undo"}
                 /\ hs'[h].pc = "holder" => n = Plugins
    BY <1>2, <1>s, AddEffect
  <2>3. meta' = meta /\ netns' = netns /\ Local(h) /\ hs'[h].s = s
    BY <1>2, <1>s, <2>1 DEF RunAdd, Local, Same
  <2>4. RequestWired(h)'
    BY <1>s, <2>1, <2>2, <2>3 DEF RequestWired, Same, Wired, TypeOK
  <2>5. RecordWired(s)'
    BY <2>2, <2>3 DEF RecordWired, StopPC
  <2>6. \A t \in Sandboxes : t # s => SameNet(t) /\ SameRecordNet(t)
    BY <2>2, <2>3 DEF SameNet, SameRecordNet, TypeOK
  <2> QED BY <1>s, <2>3, <2>4, <2>5, <2>6, NetFrame
<1>3. CASE RunUndo(h)
  <2>1. Left(h)
    BY <1>3, ReturnFields DEF RunUndo, Left, Moved
  <2>2. meta' = meta /\ Local(h)
    BY <1>3, <1>s, <2>1 DEF RunUndo, Local, Left
  <2>3. Unwired(s)' /\ \A t \in Sandboxes : t # s => SameNet(t)
    BY <1>3, <1>s, TornDown DEF RunUndo
  <2>4. RequestWired(h)'
    BY <2>1 DEF RequestWired, Left
  <2>5. RecordWired(s)'
    BY <1>s, <2>2, <2>3 DEF RecordWired, RequestInv
  <2>6. \A t \in Sandboxes : SameRecordNet(t)
    BY <2>2 DEF SameRecordNet
  <2> QED BY <1>s, <2>2, <2>3, <2>4, <2>5, <2>6, NetFrame
<1>4. CASE RunHolder(h) \/ RunList(h)
  <2>1. /\ Moved(h) /\ hs[h].pc \in {"holder", "list"}
        /\ hs'[h].pc \in {"list", "demote", "put"} /\ hs'[h].s = s
        /\ hs'[h].r.host = hs[h].r.host
    BY <1>4, <1>s, HolderEffect, ListEffect
  <2>2. meta' = meta /\ netns' = netns /\ cni' = cni /\ Local(h)
    BY <1>4, <1>s, <2>1 DEF RunHolder, RunList, Local
  <2>3. RequestWired(h)'
    BY <1>s, <2>1, <2>2 DEF RequestWired, Wired, Unwired
  <2>4. RecordWired(s)'
    BY <2>1 DEF RecordWired, StopPC
  <2>5. \A t \in Sandboxes : SameNet(t) /\ SameRecordNet(t)
    BY <2>2 DEF SameNet, SameRecordNet
  <2> QED BY <1>s, <2>2, <2>3, <2>4, <2>5, NetFrame
<1>5. CASE RunDemote(h)
  <2>1. /\ Moved(h) /\ hs'[h].s = s /\ hs'[h].r = hs[h].r /\ hs[h].pc = "demote"
        /\ hs'[h].pc \in {"put", "demote"}
    BY <1>5, <1>s, DemoteEffect
  <2>2. PICK o \in hs[h].todo, r \in Record :
          /\ r.host = hs[h].seen[o].host /\ r.state = "NotReady"
          /\ meta' = [meta EXCEPT ![o] = r]
    BY <1>5, DemoteEffect
  <2>3. /\ o \in Sandboxes /\ Sibling(o, s) /\ hs[h].seen[o] = meta[o]
        /\ meta[o].state = "Ready"
    BY <1>s, <2>1, <2>2 DEF RequestInv
  <2>4. netns' = netns /\ cni' = cni /\ Local(h)
    BY <1>5, <1>s, <2>1, <2>2, <2>3 DEF RunDemote, Local, Sibling, TypeOK
  <2>5. \A t \in Sandboxes : SameNet(t) /\ SameRecordNet(t)
    BY <2>2, <2>3, <2>4 DEF TypeOK, SameNet, SameRecordNet
  <2>6. RequestWired(h)'
    BY <1>s, <2>1, <2>4 DEF RequestWired, Wired, Unwired
  <2>7. RecordWired(s)'
    BY <2>1 DEF RecordWired, StopPC
  <2> QED BY <1>s, <2>4, <2>5, <2>6, <2>7, NetFrame
<1>6. CASE RunPut(h)
  <2>1. Left(h) /\ hs[h].pc = "put"
    BY <1>6, ReturnFields DEF RunPut, Left, Moved, At
  <2>2. ids' = ids /\ netns' = netns /\ cni' = cni /\ meta' = [meta EXCEPT ![s] = hs[h].r]
    BY <1>6, <1>s DEF RunPut
  <2>3. meta'[s] = hs[h].r /\ \A t \in Sandboxes : t # s => meta'[t] = meta[t]
    BY <2>2 DEF TypeOK
  <2>4. Local(h)
    BY <1>s, <2>1, <2>2, <2>3 DEF Local, Left
  <2>5. RequestWired(h)'
    BY <2>1 DEF RequestWired, Left
  <2>6. RecordWired(s)'
    BY <1>s, <2>1, <2>2, <2>3 DEF RecordWired, RequestWired, RequestInv, Wired, Unwired
  <2>7. \A t \in Sandboxes : t # s => SameNet(t) /\ SameRecordNet(t)
    BY <2>2, <2>3 DEF SameNet, SameRecordNet
  <2> QED BY <1>s, <2>4, <2>5, <2>6, <2>7, NetFrame
<1> QED BY <1>1, <1>2, <1>3, <1>4, <1>5, <1>6 DEF RunStep

LEMMA StopRemoveNet ==
  ASSUME ~DelFaults, TypeInv, SerialInv, NetInv, NEW h \in Handlers, StopStep(h) \/ RemoveStep(h)
  PROVE  NetInv'
<1> TypeOK /\ RequestInv(h) /\ RequestWired(h)
  BY DEF TypeInv, SerialInv, NetInv
<1> hs[h].pc # "idle" /\ hs[h].pc \in StopPC \cup RemovePC
  BY DEF StopStep, StopKill, StopPut, RemoveStep, RemoveTeardown, RemoveReap, RemoveForget,
         StopPC, RemovePC, At
<1>s. PICK s \in Sandboxes : hs[h].s = s
  BY Working
<1>0. hs[h].r = meta[s] /\ meta[s].state # "Absent" /\ meta[s] \in Record
  BY <1>s DEF RequestInv, TypeOK
<1>1. hs[h].pc \in StopPC \cup {"teardown"} => Wired(s, meta[s].host)
  <2>1. RecordWired(s)
    BY DEF NetInv
  <2> SUFFICES ASSUME hs[h].pc \in StopPC \cup {"teardown"} PROVE Wired(s, meta[s].host)
    OBVIOUS
  <2>2. \A i \in Handlers : hs[i].s = s => i = h \/ hs[i].pc = "idle"
    BY <1>s DEF SerialInv, OneRequest
  <2> QED BY <1>0, <2>1, <2>2 DEF RecordWired
<1>2. CASE StopKill(h) \/ RemoveReap(h)
  <2>1. /\ Moved(h) /\ Same(hs[h], hs'[h])
        /\ \/ hs[h].pc = "kill" /\ hs'[h].pc = "settle"
           \/ hs[h].pc = "reap" /\ hs'[h].pc = "forget"
    BY <1>2, GotoFields DEF StopKill, RemoveReap, AllPC, StopPC, RemovePC, Moved, At
  <2>2. meta' = meta /\ netns' = netns /\ cni' = cni /\ Local(h) /\ hs'[h].s = s
    BY <1>2, <1>s, <2>1 DEF StopKill, RemoveReap, Local, Same
  <2>3. RequestWired(h)'
    BY <1>s, <2>1, <2>2 DEF RequestWired, Unwired
  <2>4. RecordWired(s)'
    BY <1>0, <1>1, <2>1, <2>2 DEF RecordWired, Wired, Unwired, StopPC
  <2>5. \A t \in Sandboxes : SameNet(t) /\ SameRecordNet(t)
    BY <2>2 DEF SameNet, SameRecordNet
  <2> QED BY <1>s, <2>2, <2>3, <2>4, <2>5, NetFrame
<1>3. CASE RemoveTeardown(h)
  <2>1. /\ Moved(h) /\ hs[h].pc = "teardown" /\ hs'[h].pc = "reap" /\ Same(hs[h], hs'[h])
    BY <1>3, GotoFields DEF RemoveTeardown, AllPC, RemovePC, Moved, At
  <2>2. meta' = meta /\ Local(h) /\ hs'[h].s = s
    BY <1>3, <1>s, <2>1 DEF RemoveTeardown, Local, Same
  <2>3. Unwired(s)' /\ \A t \in Sandboxes : t # s => SameNet(t)
    <3>1. CASE hs[h].r.host
      BY <1>0, <1>1, <1>3, <2>1, <3>1 DEF RemoveTeardown, Wired, Unwired, SameNet
    <3>2. CASE ~hs[h].r.host
      BY <1>3, <1>s, <3>2, TornDown DEF RemoveTeardown
    <3> QED BY <3>1, <3>2
  <2>4. RequestWired(h)'
    BY <2>1, <2>2, <2>3 DEF RequestWired, Unwired
  <2>5. RecordWired(s)'
    BY <2>1, <2>2 DEF RecordWired, StopPC
  <2>6. \A t \in Sandboxes : SameRecordNet(t)
    BY <2>2 DEF SameRecordNet
  <2> QED BY <1>s, <2>2, <2>3, <2>4, <2>5, <2>6, NetFrame
<1>4. CASE StopPut(h) \/ RemoveForget(h)
  <2>1. Left(h)
    BY <1>4, StopPutEffect, ReturnFields DEF RemoveForget, Left, Moved
  <2>2. PICK r \in Record :
          /\ meta' = [meta EXCEPT ![s] = r]
          /\ \/ hs[h].pc = "settle" /\ r.state = "NotReady" /\ r.host = meta[s].host
             \/ hs[h].pc = "forget" /\ r = NoRecord
    BY <1>4, <1>s, <1>0, StopPutEffect, IdleFields DEF RemoveForget, At
  <2>3. meta'[s] = r /\ \A t \in Sandboxes : t # s => meta'[t] = meta[t]
    BY <2>2 DEF TypeOK
  <2>4. netns' = netns /\ cni' = cni /\ Local(h)
    BY <1>4, <1>s, <2>1, <2>3 DEF Local, Left, StopPut, RemoveForget
  <2>5. RequestWired(h)'
    BY <2>1 DEF RequestWired, Left
  <2>6. RecordWired(s)'
    BY <1>s, <1>1, <2>2, <2>3, <2>4, IdleFields DEF RecordWired, RequestWired, Wired, Unwired, StopPC
  <2>7. \A t \in Sandboxes : t # s => SameNet(t) /\ SameRecordNet(t)
    BY <2>3, <2>4 DEF SameNet, SameRecordNet
  <2> QED BY <1>s, <2>4, <2>5, <2>6, <2>7, NetFrame
<1> QED BY <1>2, <1>3, <1>4 DEF StopStep, RemoveStep
LEMMA EnteredNet ==
  ASSUME Serial, TypeInv, SerialInv, NetInv, NEW h \in Handlers, NEW s \in Sandboxes,
         \/ \E host, shared \in BOOLEAN : Run(h, s, host, shared)
         \/ StopGet(h, s) \/ RemoveGet(h, s)
  PROVE  NetInv'
<1> TypeOK
  BY DEF TypeInv
<1>1. Entered(h, s) /\ netns' = netns /\ cni' = cni
  BY Entering DEF Run, StopGet, RemoveGet
<1>2. meta' = meta /\ hs'[h].s = s /\ \A i \in Handlers : i # h => hs'[i] = hs[i]
  BY <1>1 DEF Entered, Moved, Others
<1>3. ASSUME NEW i \in Handlers, i # h PROVE RequestWired(i)'
  BY <1>1, <1>2, <1>3 DEF NetInv, RequestWired, Wired, Unwired
<1>4. ASSUME NEW t \in Sandboxes, t # s PROVE RecordWired(t)'
  <2>1. RecordWired(t)
    BY DEF NetInv
  <2>2. \A i \in Handlers : hs[i].s = t => hs'[i] = hs[i] \/ hs[i].pc = "idle"
    BY <1>1, <1>2 DEF Entered
  <2> QED BY <1>1, <1>2, <2>1, <2>2 DEF RecordWired, Wired, Unwired
<1>5. IF meta[s].state = "Absent" THEN Unwired(s) ELSE Wired(s, meta[s].host)
  <2>1. RecordWired(s)
    BY DEF NetInv
  <2> QED BY <1>1, <2>1 DEF RecordWired, Entered
<1>6. RequestWired(h)' /\ RecordWired(s)'
  <2>1. ASSUME NEW host \in BOOLEAN, NEW shared \in BOOLEAN, Run(h, s, host, shared)
        PROVE  <1>6!:
    <3>1. hs'[h].pc = (IF host THEN "holder" ELSE "netns") /\ hs'[h].r.host = host
      BY <2>1, RunEffect
    <3>2. Unwired(s)
      BY <1>5, <2>1 DEF Run, SerialInv, StoreInv
    <3> QED BY <1>1, <1>2, <3>1, <3>2 DEF RequestWired, RecordWired, Wired, Unwired, StopPC
  <2>2. CASE StopGet(h, s) \/ RemoveGet(h, s)
    <3>1. hs'[h].pc \in {"kill", "teardown"}
      BY <2>2, GetEffect DEF StopGet, RemoveGet
    <3> QED BY <1>1, <1>2, <1>5, <3>1 DEF RequestWired, RecordWired, Wired, Unwired
  <2> QED BY <2>1, <2>2
<1> QED BY <1>3, <1>4, <1>6 DEF NetInv

LEMMA NextNet ==
  ASSUME Serial, ~DelFaults, ~Crashes, TypeInv, SerialInv, NetInv, [Next]_vars
  PROVE  NetInv'
<1>1. CASE UNCHANGED vars
  BY <1>1 DEF vars, NetInv, RecordWired, RequestWired, Wired, Unwired
<1>2. ASSUME NEW p \in Pids, Fork(p) \/ HolderDies(p) PROVE NetInv'
  BY <1>2 DEF Fork, HolderDies, NetInv, RecordWired, RequestWired, Wired, Unwired
<1> QED BY <1>1, <1>2, EnteredNet, RunStepNet, StopRemoveNet DEF Next, Crash

LEMMA InitNet == ASSUME Init PROVE NetInv
<1>1. \A h \in Handlers : hs[h] = Idle
  BY DEF Init
<1>2. \A s \in Sandboxes : Unwired(s) /\ meta[s].state = "Absent"
  BY IdleFields DEF Init, Unwired, NoList
<1> QED BY <1>1, <1>2, IdleFields DEF NetInv, RecordWired, RequestWired

(* With one request per pod in flight, no crash, pid files written and DELs
   that work, a sandbox without a record owns nothing between requests: neither
   a setup that failed half-way nor RemovePodSandbox leaves a namespace, an
   address or a holder process. *)
THEOREM NothingLeaks ==
  ASSUME Serial, ~PidFaults, ~HolderDeaths, ~DelFaults, ~Crashes PROVE Spec => []NoResourceLeak
<1> DEFINE Inv == TypeInv /\ SerialInv /\ HolderInv /\ NetInv
<1>1. Init => Inv
  BY InitTypes, InitSerial, InitHolder, InitNet
<1>2. Inv /\ [Next]_vars => Inv'
  BY NextTypes, NextSerial, NextHolder, NextNet
<1>3. Inv => NoResourceLeak
  <2> SUFFICES ASSUME Inv, NEW s \in Sandboxes, Quiet(s), meta[s].state = "Absent"
               PROVE  s \notin netns /\ cni[s] = 0 /\ \A p \in Pids : proc[p] # s
    BY DEF NoResourceLeak
  <2>1. \A h \in Handlers : hs[h].s = s => hs[h].pc = "idle"
    BY DEF Quiet, Busy
  <2>2. Unwired(s)
    BY <2>1 DEF NetInv, RecordWired
  <2>3. Holders(s) = {}
    BY <2>1, IdleFields DEF HolderInv, RecordHolds, RunPC, SerialInv, StoreInv
  <2> QED BY <2>2, <2>3 DEF Unwired, Holders
<1> QED BY <1>1, <1>2, <1>3, PTL DEF Spec
-----------------------------------------------------------------------------
(* A container's configuration names its own sandbox, and agrees with the
   record until the sandbox is stopped or removed. *)
CtrType ==
  ctr \in [Ctrs -> [st : {"none", "created", "running", "exited"},
                    s : Sandboxes \cup {None}, net : Sandboxes \cup {HostNet, None},
                    pid : Opt(Pids), pidns : Sandboxes \cup {Foreign, None}]]
AtWork(s, pcs) == \E h \in Handlers : hs[h].s = s /\ hs[h].pc \in pcs
Attached(s, net) ==
  /\ s \in Sandboxes
  /\ meta[s].state # "Absent"
  /\ net = IF meta[s].host THEN HostNet ELSE s
  /\ ~AtWork(s, RemovePC)
CtrInv(c) ==
  /\ ctr[c].st \in {"created", "running"} => Attached(ctr[c].s, ctr[c].net)
  /\ ctr[c].st = "created" => ctr[c].pid = meta[ctr[c].s].holder /\ ~AtWork(ctr[c].s, StopPC)
  /\ ctr[c].st = "running" /\ ctr[c].pid # {} =>
       ctr[c].pidns = ctr[c].s /\ Holders(ctr[c].s) # {}
PodInv == CtrType /\ \A c \in Ctrs : CtrInv(c)
-----------------------------------------------------------------------------
(* What a step of the sandboxes does to a recorded one. *)

LEMMA RecordKept ==
  ASSUME TypeInv, SerialInv, [Next]_vars, NEW s \in Sandboxes, meta[s].state # "Absent",
         ~AtWork(s, RemovePC)
  PROVE  /\ meta'[s].state # "Absent" /\ meta'[s].host = meta[s].host
         /\ ~AtWork(s, StopPC) => meta'[s].holder = meta[s].holder
<1> TypeOK
  BY DEF TypeInv
<1>1. CASE meta' = meta
  BY <1>1
<1>2. ASSUME NEW h \in Handlers, RunDemote(h)
      PROVE  meta'[s].state # "Absent" /\ meta'[s].host = meta[s].host
             /\ meta'[s].holder = meta[s].holder
  <2>1. PICK o \in hs[h].todo, r \in Record :
          /\ r.state = "NotReady" /\ r.host = hs[h].seen[o].host
          /\ r.holder = hs[h].seen[o].holder /\ meta' = [meta EXCEPT ![o] = r]
    BY <1>2, DemoteEffect
  <2>2. hs[h].pc = "demote" /\ o \in Sandboxes
    BY <1>2, <2>1, DemoteEffect, Working
  <2>3. hs[h].seen[o] = meta[o]
    BY <2>1, <2>2 DEF SerialInv, RequestInv
  <2> QED BY <2>1, <2>2, <2>3 DEF TypeOK
<1>3. ASSUME NEW h \in Handlers, RunPut(h) PROVE meta'[s] = meta[s]
  <2>1. hs[h].pc = "put" /\ meta' = [meta EXCEPT ![hs[h].s] = hs[h].r]
    BY <1>3 DEF RunPut, At
  <2>2. hs[h].s # s
    BY <2>1 DEF SerialInv, RequestInv, RunPC
  <2> QED BY <2>1, <2>2 DEF TypeOK
<1>4. ASSUME NEW h \in Handlers, StopPut(h)
      PROVE  /\ meta'[s].state # "Absent" /\ meta'[s].host = meta[s].host
             /\ ~AtWork(s, StopPC) => meta'[s].holder = meta[s].holder
  <2>1. PICK r \in Record : /\ r.state = "NotReady" /\ r.host = hs[h].r.host
                            /\ meta' = [meta EXCEPT ![hs[h].s] = r]
    BY <1>4, StopPutEffect
  <2>2. hs[h].pc = "settle" /\ hs[h].s \in Sandboxes /\ hs[h].r = meta[hs[h].s]
    BY <1>4, StopPutEffect, Working DEF SerialInv, RequestInv, StopPC
  <2>3. hs[h].s = s => AtWork(s, StopPC)
    BY <2>2 DEF AtWork, StopPC
  <2> QED BY <2>1, <2>2, <2>3 DEF TypeOK
<1>5. ASSUME NEW h \in Handlers, RemoveForget(h) PROVE meta'[s] = meta[s]
  <2>1. hs[h].pc = "forget" /\ meta' = [meta EXCEPT ![hs[h].s] = NoRecord]
    BY <1>5 DEF RemoveForget, At
  <2>2. hs[h].s # s
    BY <2>1 DEF AtWork, RemovePC
  <2> QED BY <2>1, <2>2 DEF TypeOK
<1>6. meta' = meta \/ \E h \in Handlers : RunDemote(h) \/ RunPut(h) \/ StopPut(h) \/ RemoveForget(h)
  BY DEF Next, vars, Run, StopGet, RemoveGet, RunStep, StopStep, RemoveStep, RunNetns,
     RunAdd, RunUndo, RunHolder, RunList, StopKill, RemoveTeardown, RemoveReap, Fork, HolderDies, Crash
<1> QED BY <1>1, <1>2, <1>3, <1>4, <1>5, <1>6

(* A stop or a removal that is in progress was so before, or begins. *)
LEMMA WorkBegins ==
  ASSUME TypeOK, [Next]_vars, NEW i \in Handlers, hs'[i].pc \in StopPC \cup RemovePC
  PROVE  \/ hs[i].pc = "idle" /\ hs'[i].pc \in {"kill", "teardown"}
         \/ /\ hs[i].s = hs'[i].s
            /\ hs'[i].pc \in StopPC => hs[i].pc \in StopPC
            /\ hs'[i].pc \in RemovePC => hs[i].pc \in RemovePC
<1> USE DEF StopPC, RemovePC
<1>1. CASE hs' = hs
  BY <1>1
<1>2. ASSUME NEW h \in Handlers, Moved(h), hs'[h].pc \notin StopPC \cup RemovePC
      PROVE  hs'[i] = hs[i]
  BY <1>2 DEF Moved, Others
<1>3. ASSUME NEW h \in Handlers, NEW s \in Sandboxes,
             NEW host \in BOOLEAN, NEW shared \in BOOLEAN, Run(h, s, host, shared)
      PROVE  hs'[i] = hs[i]
  <2>1. Moved(h) /\ hs'[h].pc \in {"holder", "netns"}
    BY <1>3, RunEffect
  <2> QED BY <2>1, <1>2
<1>4. ASSUME NEW h \in Handlers, NEW s \in Sandboxes, StopGet(h, s) \/ RemoveGet(h, s)
      PROVE  hs'[i] = hs[i] \/ (hs[i].pc = "idle" /\ hs'[i].pc \in {"kill", "teardown"})
  <2>1. Moved(h) /\ hs[h].pc = "idle" /\ hs'[h].pc \in {"kill", "teardown"}
    BY <1>4, GetEffect DEF StopGet, RemoveGet, Accept
  <2> QED BY <2>1 DEF Moved, Others
<1>5. ASSUME NEW h \in Handlers, RunStep(h) PROVE hs'[i] = hs[i]
  <2>1. Moved(h) /\ hs'[h].pc \notin StopPC \cup RemovePC
    <3>1. CASE RunUndo(h) \/ RunPut(h)
      BY <3>1, ReturnFields DEF RunUndo, RunPut, Moved
    <3>2. CASE RunNetns(h)
      BY <3>2, NetnsEffect
    <3>3. CASE RunAdd(h)
      BY <3>3, AddEffect
    <3>4. CASE RunHolder(h)
      BY <3>4, HolderEffect
    <3>5. CASE RunList(h)
      BY <3>5, ListEffect
    <3>6. CASE RunDemote(h)
      BY <3>6, DemoteEffect
    <3> QED BY <1>5, <3>1, <3>2, <3>3, <3>4, <3>5, <3>6 DEF RunStep
  <2> QED BY <2>1, <1>2
<1>6. ASSUME NEW h \in Handlers, StopStep(h) \/ RemoveStep(h)
      PROVE  \/ hs'[i] = hs[i]
             \/ hs[i].pc = "kill" /\ hs'[i].pc = "settle" /\ hs[i].s = hs'[i].s
             \/ hs[i].pc \in RemovePC /\ hs'[i].pc \in RemovePC /\ hs[i].s = hs'[i].s
  <2>1. CASE StopPut(h) \/ RemoveForget(h)
    <3>1. Moved(h) /\ hs'[h].pc = "idle"
      BY <2>1, ReturnFields DEF StopPut, RemoveForget, Moved
    <3> QED BY <3>1, <1>2
  <2>2. CASE StopKill(h)
    <3>1. hs[h].pc = "kill" /\ Moved(h) /\ hs'[h].pc = "settle" /\ Same(hs[h], hs'[h])
      BY <2>2, GotoFields DEF StopKill, AllPC, Moved, At
    <3> QED BY <3>1 DEF Moved, Others, Same
  <2>3. CASE RemoveTeardown(h) \/ RemoveReap(h)
    <3>1. /\ hs[h].pc \in RemovePC /\ Moved(h) /\ hs'[h].pc \in RemovePC
          /\ Same(hs[h], hs'[h])
      BY <2>3, GotoFields DEF RemoveTeardown, RemoveReap, AllPC, Moved, At
    <3> QED BY <3>1 DEF Moved, Others, Same
  <2> QED BY <1>6, <2>1, <2>2, <2>3 DEF StopStep, RemoveStep
<1>7. ~Crash
  BY IdleFields DEF Crash
<1>8. (\E p \in Pids : Fork(p) \/ HolderDies(p)) => hs' = hs
  BY DEF Fork, HolderDies
<1>9. UNCHANGED vars => hs' = hs
  BY DEF vars
<1> QED BY <1>1, <1>3, <1>4, <1>5, <1>6, <1>7, <1>8, <1>9 DEF Next
-----------------------------------------------------------------------------
(* The steps of a pod. *)

SandboxInv == TypeInv /\ SerialInv /\ HolderInv /\ NetInv

LEMMA PodStepIsSandboxStep == ASSUME [PodNext]_podVars PROVE [Next]_vars
  BY DEF PodNext, podVars, vars, CreateContainer, StartContainer, ContainerEnds

LEMMA SandboxInvKept ==
  ASSUME Serial, ~PidFaults, ~HolderDeaths, ~DelFaults, ~Crashes, SandboxInv, [PodNext]_podVars
  PROVE  SandboxInv'
<1>1. [Next]_vars
  BY PodStepIsSandboxStep
<1> QED BY <1>1, NextTypes, NextSerial, NextHolder, NextNet DEF SandboxInv

(* Nobody at work: the network and the holder are what the record says. *)
LEMMA AttachedNet ==
  ASSUME SandboxInv, NEW s, NEW net, Attached(s, net)
  PROVE  /\ Wired(s, meta[s].host)
         /\ ~AtWork(s, StopPC) => Holders(s) = meta[s].holder
<1> s \in Sandboxes /\ RecordWired(s) /\ RecordHolds(s)
  BY DEF Attached, SandboxInv, NetInv, HolderInv
<1>1. ASSUME NEW h \in Handlers, hs[h].s = s PROVE hs[h].pc \in StopPC \cup {"idle"}
  <2>1. hs[h].pc \notin RunPC /\ hs[h].pc \notin RemovePC
    BY <1>1 DEF Attached, AtWork, SandboxInv, SerialInv, RequestInv
  <2> QED BY <1>1, <2>1 DEF SandboxInv, TypeInv, TypeOK, Handler
<1>2. Wired(s, meta[s].host)
  BY <1>1 DEF RecordWired, Attached
<1>3. ASSUME ~AtWork(s, StopPC) PROVE Holders(s) = meta[s].holder
  BY <1>1, <1>3 DEF RecordHolds, AtWork, RunPC
<1> QED BY <1>2, <1>3

LEMMA SandboxStepPod ==
  ASSUME SandboxInv, PodInv, Next, Protocol, NamespacesEnd
  PROVE  PodInv'
<1>1. \A c \in Ctrs : ctr'[c] = IF Bereft(c) THEN [ctr[c] EXCEPT !.st = "exited"] ELSE ctr[c]
  BY DEF NamespacesEnd
<1>2. CtrType'
  BY <1>1 DEF NamespacesEnd, PodInv, CtrType
<1>3. ASSUME NEW c \in Ctrs PROVE CtrInv(c)'
  <2> TypeOK /\ TypeInv /\ SerialInv /\ CtrInv(c) /\ CtrType
    BY DEF SandboxInv, TypeInv, PodInv
  <2>1. CASE ctr'[c].st \notin {"created", "running"}
    BY <2>1 DEF CtrInv
  <2>2. CASE ctr'[c].st \in {"created", "running"}
    <3>1. ctr'[c] = ctr[c] /\ ~Bereft(c)
      BY <1>1, <2>2 DEF CtrType
    <3>s. PICK s \in Sandboxes : ctr[c].s = s
      BY <2>2, <3>1 DEF CtrInv, Attached
    <3>2. Attached(s, ctr[c].net)
      BY <2>2, <3>1, <3>s DEF CtrInv
    <3>3. /\ meta'[s].state # "Absent" /\ meta'[s].host = meta[s].host
          /\ ~AtWork(s, StopPC) => meta'[s].holder = meta[s].holder
      BY <3>2, RecordKept DEF Attached
    <3>4. In(s, {ctr[c].st}) /\ In(s, {"created", "running"})
      BY <2>2, <3>1, <3>s DEF In
    <3>5. ~AtWork(s, RemovePC)'
      <4> SUFFICES ASSUME NEW h \in Handlers, hs'[h].s = s, hs'[h].pc \in RemovePC PROVE FALSE
        BY DEF AtWork
      <4>1. hs[h].pc = "idle" /\ hs'[h].pc = "teardown"
        BY <3>2, WorkBegins DEF Attached, AtWork, RemovePC
      <4> QED BY <3>4, <4>1 DEF Protocol
    <3>6. Attached(s, ctr[c].net)'
      BY <3>1, <3>2, <3>3, <3>5 DEF Attached
    <3>7. ASSUME ctr[c].st = "created"
          PROVE  ctr[c].pid = meta'[s].holder /\ ~AtWork(s, StopPC)'
      <4>1. ctr[c].pid = meta[s].holder /\ ~AtWork(s, StopPC)
        BY <3>s, <3>7 DEF CtrInv
      <4>2. ~AtWork(s, StopPC)'
        <5> SUFFICES ASSUME NEW h \in Handlers, hs'[h].s = s, hs'[h].pc \in StopPC PROVE FALSE
          BY DEF AtWork
        <5>1. hs[h].pc = "idle" /\ hs'[h].pc = "kill"
          BY <4>1, WorkBegins DEF AtWork, StopPC
        <5> QED BY <3>4, <3>7, <5>1 DEF Protocol
      <4> QED BY <3>3, <4>1, <4>2
    <3>8. ASSUME ctr[c].st = "running", ctr[c].pid # {}
          PROVE  ctr[c].pidns = s /\ Holders(s)' # {}
      <4>1. ctr[c].pidns = s
        BY <3>s, <3>8 DEF CtrInv
      <4> QED BY <3>1, <3>8, <4>1 DEF Bereft, Holders
    <3> QED BY <3>1, <3>s, <3>6, <3>7, <3>8 DEF CtrInv, AtWork, Attached, Holders
  <2> QED BY <2>1, <2>2
<1> QED BY <1>2, <1>3 DEF PodInv

LEMMA CreateStepPod ==
  ASSUME Serial, SandboxInv, PodInv, NEW c \in Ctrs, NEW s \in Sandboxes, CreateContainer(c, s)
  PROVE  PodInv'
<1> DEFINE x == [st |-> "created", s |-> s, net |-> NsPaths(s).net,
                 pid |-> NsPaths(s).pid, pidns |-> None]
<1>1. ctr' = [ctr EXCEPT ![c] = x]
  BY DEF CreateContainer
<1>2. /\ x.st = "created" /\ x.s = s /\ x.net = (IF meta[s].host THEN HostNet ELSE s)
      /\ x.pid = meta[s].holder
  BY DEF NsPaths
<1>3. meta[s].holder \in Opt(Pids)
  BY DEF SandboxInv, TypeInv, TypeOK, Record
<1>4. x \in [st : {"none", "created", "running", "exited"},
             s : Sandboxes \cup {None}, net : Sandboxes \cup {HostNet, None},
             pid : Opt(Pids), pidns : Sandboxes \cup {Foreign, None}]
  BY <1>3 DEF NsPaths
<1>5. UNCHANGED vars /\ ~Busy(PodOf[s]) /\ meta[s].state # "Absent"
  BY DEF CreateContainer
<1> HIDE DEF x
<1>6. CtrType' /\ ctr'[c] = x /\ \A d \in Ctrs : d # c => ctr'[d] = ctr[d]
  BY <1>1, <1>4 DEF PodInv, CtrType
<1>7. ~AtWork(s, StopPC) /\ ~AtWork(s, RemovePC)
  BY <1>5 DEF AtWork, Busy, StopPC, RemovePC
<1>8. CtrInv(c)'
  BY <1>2, <1>5, <1>6, <1>7 DEF CtrInv, Attached, AtWork, vars
<1>9. \A d \in Ctrs : d # c => CtrInv(d)'
  BY <1>5, <1>6 DEF PodInv, CtrInv, Attached, AtWork, Holders, vars
<1> QED BY <1>6, <1>8, <1>9 DEF PodInv

LEMMA StartStepPod ==
  ASSUME Serial, SandboxInv, PodInv, NEW c \in Ctrs, StartContainer(c)
  PROVE  PodInv'
<1> CtrType /\ CtrInv(c)
  BY DEF PodInv
<1>0. ctr[c].st = "created" /\ UNCHANGED vars
  BY DEF StartContainer
<1>s. PICK s \in Sandboxes : ctr[c].s = s
  BY <1>0 DEF CtrInv, Attached
<1>1. Attached(s, ctr[c].net) /\ ctr[c].pid = meta[s].holder /\ ~AtWork(s, StopPC)
  BY <1>0, <1>s DEF CtrInv
<1>2. Wired(s, meta[s].host) /\ Holders(s) = ctr[c].pid
  BY <1>1, AttachedNet
<1>3. PathsExist(c)
  BY <1>1, <1>2, PodAssumption, SandboxAssumption DEF PathsExist, Wired, Attached, Holders
<1> DEFINE ns == IF ctr[c].pid = {} THEN None ELSE proc[CHOOSE p \in ctr[c].pid : TRUE]
           x == [ctr[c] EXCEPT !.st = "running", !.pidns = ns]
<1>4. ctr[c].pid # {} => ns = s
  BY <1>2 DEF Holders
<1>5. ns \in Sandboxes \cup {Foreign, None}
  BY <1>4
<1>6. ctr' = [ctr EXCEPT ![c] = x]
  BY <1>3 DEF StartContainer
<1> HIDE DEF ns
<1>7. /\ x.st = "running" /\ x.s = s /\ x.net = ctr[c].net /\ x.pid = ctr[c].pid /\ x.pidns = ns
      /\ x \in [st : {"none", "created", "running", "exited"},
                s : Sandboxes \cup {None}, net : Sandboxes \cup {HostNet, None},
                pid : Opt(Pids), pidns : Sandboxes \cup {Foreign, None}]
  BY <1>5, <1>s DEF CtrType
<1> HIDE DEF x
<1>8. CtrType' /\ ctr'[c] = x /\ \A d \in Ctrs : d # c => ctr'[d] = ctr[d]
  BY <1>6, <1>7 DEF CtrType
<1>9. CtrInv(c)'
  BY <1>0, <1>1, <1>2, <1>4, <1>7, <1>8 DEF CtrInv, Attached, AtWork, Holders, vars
<1>10. \A d \in Ctrs : d # c => CtrInv(d)'
  BY <1>0, <1>8 DEF PodInv, CtrInv, Attached, AtWork, Holders, vars
<1> QED BY <1>8, <1>9, <1>10 DEF PodInv

LEMMA NextPod ==
  ASSUME Serial, SandboxInv, PodInv, [PodNext]_podVars PROVE PodInv'
<1>1. CASE UNCHANGED podVars
  BY <1>1 DEF podVars, PodInv, CtrType, CtrInv, Attached, AtWork, Holders
<1>2. ASSUME NEW c \in Ctrs, ContainerEnds(c) PROVE PodInv'
  <2>1. /\ UNCHANGED vars /\ CtrType' /\ ctr'[c].st = "exited"
        /\ \A d \in Ctrs : d # c => ctr'[d] = ctr[d]
    BY <1>2 DEF ContainerEnds, PodInv, CtrType
  <2>2. \A d \in Ctrs : CtrInv(d)'
    BY <2>1 DEF PodInv, CtrInv, Attached, AtWork, Holders, vars
  <2> QED BY <2>1, <2>2 DEF PodInv
<1> QED BY <1>1, <1>2, SandboxStepPod, CreateStepPod, StartStepPod DEF PodNext

(* For a client that keeps to the protocol, without crashes and with a host
   that cleans up when asked to, the paths CreateContainer copied into
   config.json name the container's own pod when crun opens them, a start never
   fails for want of them, and what a running container has joined stays up. *)
THEOREM WorkloadsInTheirPod ==
  ASSUME Serial, ~PidFaults, ~HolderDeaths, ~DelFaults, ~Crashes PROVE PodSpec => []WorkloadInItsPod
<1>1. PodInit => SandboxInv /\ PodInv
  <2> SUFFICES ASSUME PodInit PROVE SandboxInv /\ PodInv
    OBVIOUS
  <2>1. SandboxInv
    BY InitTypes, InitSerial, InitHolder, InitNet DEF PodInit, SandboxInv
  <2>2. \A c \in Ctrs : ctr[c].st = "none"
    BY DEF PodInit, NoCtr
  <2>3. NoCtr \in [st : {"none", "created", "running", "exited"},
                   s : Sandboxes \cup {None}, net : Sandboxes \cup {HostNet, None},
                   pid : Opt(Pids), pidns : Sandboxes \cup {Foreign, None}]
    BY DEF NoCtr, Opt
  <2> QED BY <2>1, <2>2, <2>3 DEF PodInit, PodInv, CtrType, CtrInv
<1>2. SandboxInv /\ PodInv /\ [PodNext]_podVars => (SandboxInv /\ PodInv)'
  BY SandboxInvKept, NextPod
<1>3. SandboxInv /\ PodInv => WorkloadInItsPod
  <2> SUFFICES ASSUME SandboxInv, PodInv, NEW c \in Ctrs, NEW s, s = ctr[c].s
               PROVE  /\ ctr[c].st # "failed"
                      /\ ctr[c].st = "running" =>
                         /\ IF ctr[c].net = HostNet THEN s \notin netns
                                                    ELSE s \in netns /\ cni[s] = Plugins
                         /\ ctr[c].pid # {} => ctr[c].pidns = s /\ \E p \in Pids : proc[p] = s
    BY DEF WorkloadInItsPod
  <2>1. ctr[c].st # "failed"
    BY DEF PodInv, CtrType
  <2>2. ASSUME ctr[c].st = "running" PROVE Attached(s, ctr[c].net) /\ Wired(s, meta[s].host)
    BY <2>2, AttachedNet DEF PodInv, CtrInv
  <2> QED BY <2>1, <2>2, PodAssumption DEF PodInv, CtrInv, Attached, Wired, Unwired, Holders
<1> QED BY <1>1, <1>2, <1>3, PTL DEF PodSpec
=============================================================================
