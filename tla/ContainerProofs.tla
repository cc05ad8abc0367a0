-------------------------- MODULE ContainerProofs --------------------------
(***************************************************************************)
(* Theorems about Container: the types of its state and what its records   *)
(* hold; then what crun keeps alive, who supervises it, what a restart     *)
(* does to it, and the life of a record over time.                         *)
(***************************************************************************)
EXTENDS Container, TLAPS

(* Membership of the values the actions store. *)
LEMMA OptTypes ==
  ASSUME NEW S
  PROVE  {} \in Opt(S) /\ \A x \in S : {x} \in Opt(S)
  BY DEF Opt

LEMMA OptSubset ==
  ASSUME NEW S
  PROVE  \A o \in Opt(S) : o \subseteq S
  BY DEF Opt

LEMMA RecordTypes ==
  /\ NoRecord \in Record
  /\ \A lim \in Opt(Limits) : CreatedRecord(lim) \in Record
  /\ \A r \in Record :
       /\ [r EXCEPT !.state = "Running"] \in Record
       /\ [r EXCEPT !.state = "Exited", !.exit = {Forced}, !.reason = "Error"] \in Record
       /\ \A code \in Codes : ExitedRecord(r, code) \in Record
       /\ \A seen : ReconciledRecord(r, seen) \in Record
       /\ \A lim \in Opt(Limits) : [r EXCEPT !.limits = lim] \in Record
<1>1. Forced \in Codes
  BY DEF Codes
<1>2. {} \in Opt(Codes) /\ {} \in Opt(Limits) /\ \A x \in Codes : {x} \in Opt(Codes)
  BY OptTypes
<1>3. NoRecord \in Record /\ \A lim \in Opt(Limits) : CreatedRecord(lim) \in Record
  BY <1>2 DEF NoRecord, CreatedRecord, Record, ContainerStates
<1>4. ASSUME NEW r \in Record
      PROVE  /\ [r EXCEPT !.state = "Running"] \in Record
             /\ [r EXCEPT !.state = "Exited", !.exit = {Forced}, !.reason = "Error"] \in Record
             /\ \A code \in Codes : ExitedRecord(r, code) \in Record
             /\ \A lim \in Opt(Limits) : [r EXCEPT !.limits = lim] \in Record
  BY <1>1, <1>2 DEF Record, ContainerStates, ExitedRecord
<1>5. ASSUME NEW r \in Record, NEW seen
      PROVE  ReconciledRecord(r, seen) \in Record
  BY <1>1, <1>2 DEF Record, ContainerStates, ReconciledRecord
<1> QED BY <1>3, <1>4, <1>5

LEMMA HandlerTypes ==
  /\ Idle \in Handler
  /\ \A x \in Handler : /\ \A pc \in HandlerPC : [x EXCEPT !.pc = pc] \in Handler
                        /\ x.c \in Containers \cup {None}
                        /\ x.r \in Record
  /\ \A op \in AllOps, pc \in HandlerPC, c \in Containers \cup {None}, r \in Record :
       [op |-> op, pc |-> pc, c |-> c, r |-> r] \in Handler
  BY RecordTypes DEF Handler, Idle, HandlerPC, AllOps

LEMMA TaskTypes ==
  /\ NoTask \in Task
  /\ \A x \in Task :
       /\ x.c \in Containers \cup {None} /\ x.r \in Record /\ x.code \in Opt(Codes)
       /\ \A pc \in TaskPC : [x EXCEPT !.pc = pc] \in Task
       /\ \A pc \in TaskPC, code \in Codes : [x EXCEPT !.pc = pc, !.code = {code}] \in Task
       /\ \A pc \in TaskPC, r \in Record : [x EXCEPT !.pc = pc, !.r = r] \in Task
  /\ \A c \in Containers \cup {None} : NewTask(c) \in Task
<1>1. {} \in Opt(Codes) /\ \A x \in Codes : {x} \in Opt(Codes)
  BY OptTypes
<1>2. NoTask \in Task
  BY <1>1, RecordTypes DEF Task, NoTask, TaskPC
<1> QED BY <1>1, <1>2, RecordTypes DEF Task, TaskPC, NewTask

LEMMA RunTypes ==
  /\ NoRun \in Run
  /\ \A x \in Run :
       /\ x.c \in Containers \cup {None} /\ x.code \in Opt(ExitCodes)
       /\ \A pc \in RunPC : [x EXCEPT !.pc = pc] \in Run
       /\ \A pc \in RunPC, code \in ExitCodes : [x EXCEPT !.pc = pc, !.code = {code}] \in Run
  /\ \A c \in Containers \cup {None} : NewRun(c) \in Run
<1>1. {} \in Opt(ExitCodes) /\ \A x \in ExitCodes : {x} \in Opt(ExitCodes)
  BY OptTypes
<1>2. NoRun \in Run
  BY <1>1 DEF Run, NoRun, RunPC
<1> QED BY <1>1, <1>2 DEF Run, RunPC, NewRun

LEMMA CrunTypes ==
  /\ NoCrun \in CrunState
  /\ \A x \in CrunState :
       /\ x.code \in Opt(ExitCodes) /\ x.st \in CrunStatus
       /\ [x EXCEPT !.st = "running"] \in CrunState
       /\ \A code \in ExitCodes : [x EXCEPT !.st = "stopped", !.code = {code}] \in CrunState
  /\ \A h \in Handlers : [st |-> "created", by |-> h, code |-> {}] \in CrunState
<1>1. {} \in Opt(ExitCodes) /\ \A x \in ExitCodes : {x} \in Opt(ExitCodes)
  BY OptTypes
<1> QED BY <1>1 DEF CrunState, CrunStatus, NoCrun

LEMMA CgroupTypes ==
  /\ NoLimit \in Cgroup
  /\ \A set \in Cgroup, lim \in Limits : Limited(set, lim) \in Cgroup
  /\ \A o \in Opt(Limits) : SpecLimits(o) \in Cgroup
<1>1. {} \in Opt(LimitValues)
  BY OptTypes
<1>2. NoLimit \in Cgroup
  BY <1>1 DEF NoLimit, Cgroup
<1>3. ASSUME NEW set \in Cgroup, NEW lim \in Limits PROVE Limited(set, lim) \in Cgroup
  BY ContainerAssumption DEF Limited, Cgroup
<1>4. ASSUME NEW o \in Opt(Limits) PROVE SpecLimits(o) \in Cgroup
  <2>1. CASE o = {}
    <3>1. \A f \in LimitFields : UNION {lim[f] : lim \in o} = {}
      BY <2>1
    <3> QED BY <1>1, <3>1 DEF SpecLimits, Cgroup
  <2>2. ASSUME NEW x \in Limits, o = {x} PROVE SpecLimits(o) \in Cgroup
    <3>1. x \in [LimitFields -> Opt(LimitValues)]
      BY <2>2, ContainerAssumption
    <3>2. \A f \in LimitFields : UNION {lim[f] : lim \in o} = x[f]
      BY <2>2
    <3> QED BY <3>1, <3>2 DEF SpecLimits, Cgroup
  <2> QED BY <2>1, <2>2 DEF Opt
<1> QED BY <1>2, <1>3, <1>4

LEMMA OtherTypes ==
  /\ NoBundle \in Bundle /\ NoRc \in Reconcile
  /\ \A lim \in Opt(Limits) : [present |-> TRUE, limits |-> lim] \in Bundle
  /\ \A x \in Bundle : x.limits \in Opt(Limits)
  /\ \A c \in Containers, seen \in CrunStatus \cup {"error"} :
       [pc |-> "delete", c |-> c, seen |-> seen] \in Reconcile
  /\ \A x \in Reconcile : [x EXCEPT !.pc = "put"] \in Reconcile
<1>1. {} \in Opt(Limits)
  BY OptTypes
<1> QED BY <1>1 DEF Bundle, NoBundle, Reconcile, NoRc, CrunStatus

LEMMA InitTypeOK == Init => TypeOK
<1> SUFFICES ASSUME Init PROVE TypeOK
  OBVIOUS
<1>1. NoLimit \in Cgroup
  BY CgroupTypes
<1>2. daemon \in [phase : {"up", "down", "reconcile"}, crashes : 0..MaxCrashes]
  BY ContainerAssumption DEF Init
<1>3. Typed
  BY <1>1, <1>2, RecordTypes, HandlerTypes, TaskTypes, RunTypes, CrunTypes, OtherTypes
  DEF Init, Typed
<1>4. Placed
  BY DEF Init, Placed, Idle, NoTask, NoRun, NoRc
<1> QED BY <1>3, <1>4 DEF TypeOK

LEMMA HandlerTyped ==
  ASSUME TypeOK, NEW h \in Handlers, HandlerStep(h)
  PROVE  Typed'
<1> USE DEF diskVars, crunVars, recVars, Goto, Enter, Return, HandlerPC
<1>t. /\ hs[h] \in Handler /\ hs[h].r \in Record /\ Idle \in Handler
      /\ \A pc \in HandlerPC : [hs[h] EXCEPT !.pc = pc] \in Handler
      /\ NoTask \in Task
  BY HandlerTypes, TaskTypes DEF TypeOK, Typed, Placed, At
<1>1. CASE CreatePut(h) BY <1>1, <1>t DEF CreatePut, TypeOK, Typed, Placed, At
<1>2. CASE StartCheck(h) BY <1>2, <1>t DEF StartCheck, TypeOK, Typed, Placed, At
<1>3. CASE StartMark(h)
  <2>1. [hs[h].r EXCEPT !.state = "Running"] \in Record
    BY <1>t, RecordTypes
  <2>2. NewTask(hs[h].c) \in Task
    BY <1>t, HandlerTypes, TaskTypes
  <2> QED BY <1>3, <1>t, <2>1, <2>2 DEF StartMark, TypeOK, Typed, Placed, At
<1>4. CASE StartWait(h) BY <1>4, <1>t DEF StartWait, TypeOK, Typed, Placed, At
<1>5. CASE StopTerm(h) BY <1>5, <1>t DEF StopTerm, TypeOK, Typed, Placed, At
<1>6. CASE StopPoll(h) BY <1>6, <1>t DEF StopPoll, TypeOK, Typed, Placed, At
<1>7. CASE StopKill(h)
  <2>1. \A c \in Containers, code \in Failures :
          [crun[c] EXCEPT !.st = "stopped", !.code = {code}] \in CrunState
    BY CrunTypes DEF TypeOK, Typed, Failures
  <2>2. crun' \in [Containers -> CrunState]
    <3>1. hs[h].c \in Containers
      BY <1>7 DEF StopKill, At, TypeOK, Placed
    <3>2. crun' = crun \/ \E code \in Failures : CrunStop(hs[h].c, code)
      BY <1>7 DEF StopKill
    <3>3. ASSUME NEW code \in Failures, CrunStop(hs[h].c, code)
          PROVE  crun' \in [Containers -> CrunState]
      <4>1. [crun[hs[h].c] EXCEPT !.st = "stopped", !.code = {code}] \in CrunState
        BY <2>1, <3>1
      <4> QED BY <3>3, <4>1 DEF CrunStop, TypeOK, Typed
    <3> QED BY <3>2, <3>3 DEF TypeOK, Typed
  <2> QED BY <1>7, <1>t, <2>2 DEF StopKill, TypeOK, Typed
<1>8. CASE StopDelete(h) BY <1>8, <1>t, CrunTypes DEF StopDelete, CrunDelete, TypeOK, Typed, Placed, At
<1>9. CASE StopFinal(h)
  <2>1. meta[hs[h].c] \in Record => [op |-> "Stop", pc |-> "settle", c |-> hs[h].c, r |-> meta[hs[h].c]] \in Handler
    BY <1>t, HandlerTypes DEF AllOps
  <2> QED BY <1>9, <1>t, <2>1 DEF StopFinal, TypeOK, Typed, Placed, At
<1>10. CASE StopSettle(h) BY <1>10, <1>t, RecordTypes DEF StopSettle, TypeOK, Typed, Placed, At
<1>11. CASE RemoveForget(h) BY <1>11, <1>t, RecordTypes DEF RemoveForget, TypeOK, Typed, Placed, At
<1>12. CASE RemoveUnlink(h) BY <1>12, <1>t, OtherTypes DEF RemoveUnlink, TypeOK, Typed, Placed, At
<1>13. CASE UpdateApply(h)
  <2>1. \A lim \in Limits : {lim} \in Opt(Limits)
    BY OptTypes
  <2>2. \A lim \in Limits : [hs[h].r EXCEPT !.limits = {lim}] \in Record
    BY <1>t, <2>1, RecordTypes
  <2>3. \A lim \in Limits : [op |-> "Update", pc |-> "persist", c |-> hs[h].c,
                            r |-> [hs[h].r EXCEPT !.limits = {lim}]] \in Handler
    BY <1>t, <2>2, HandlerTypes DEF AllOps
  <2>4. CASE \E lim \in Limits :
              /\ cg' = [cg EXCEPT ![hs[h].c] = Limited(@, lim)]
              /\ hs' = [hs EXCEPT ![h] = [op |-> "Update", pc |-> "persist", c |-> hs[h].c,
                                          r |-> [hs[h].r EXCEPT !.limits = {lim}]]]
    <3>1. PICK lim \in Limits :
            /\ cg' = [cg EXCEPT ![hs[h].c] = Limited(@, lim)]
            /\ hs' = [hs EXCEPT ![h] = [op |-> "Update", pc |-> "persist", c |-> hs[h].c,
                                        r |-> [hs[h].r EXCEPT !.limits = {lim}]]]
      BY <2>4
    <3>2. cg \in [Containers -> Cgroup] /\ hs[h].c \in Containers
      BY <1>13 DEF TypeOK, Typed, Placed, UpdateApply, At
    <3>a. Limited(cg[hs[h].c], lim) \in Cgroup
      BY <3>2, CgroupTypes
    <3>3. cg' \in [Containers -> Cgroup]
      BY <3>1, <3>2, <3>a
    <3>4. hs' \in [Handlers -> Handler]
      BY <2>3, <3>1 DEF TypeOK, Typed
    <3>5. UNCHANGED <<diskVars, crun, run, task, recVars>>
      BY <1>13 DEF UpdateApply
    <3> QED BY <3>3, <3>4, <3>5 DEF TypeOK, Typed
  <2>5. CASE Return(h) /\ UNCHANGED cg
    BY <1>13, <1>t, <2>5 DEF UpdateApply, TypeOK, Typed
  <2> QED BY <1>13, <2>4, <2>5 DEF UpdateApply
<1>14. CASE UpdatePut(h) BY <1>14, <1>t DEF UpdatePut, TypeOK, Typed, Placed, At
<1> QED BY <1>1, <1>2, <1>3, <1>4, <1>5, <1>6, <1>7, <1>8, <1>9, <1>10,
           <1>11, <1>12, <1>13, <1>14 DEF HandlerStep

LEMMA RequestTyped ==
  ASSUME TypeOK, NEW h \in Handlers, NEW c \in Containers, Request(h, c)
  PROVE  Typed'
<1> USE DEF diskVars, crunVars, recVars, Enter, HandlerPC
<1>t. \A op \in AllOps, pc \in HandlerPC, r \in Record :
        [op |-> op, pc |-> pc, c |-> c, r |-> r] \in Handler
  BY HandlerTypes
<1>1. ASSUME NEW lim \in Opt(Limits), CreateBundle(h, c, lim) PROVE Typed'
  <2>1. [op |-> "Create", pc |-> "write", c |-> c, r |-> CreatedRecord(lim)] \in Handler
    BY <1>t, RecordTypes DEF AllOps
  <2>2. [present |-> TRUE, limits |-> lim] \in Bundle
    BY OtherTypes
  <2>3. bundle' \in [Containers -> Bundle]
    BY <1>1, <2>2 DEF CreateBundle, TypeOK, Typed
  <2>4. hs' \in [Handlers -> Handler]
    BY <1>1, <2>1 DEF CreateBundle, TypeOK, Typed
  <2>5. ids' \in [Containers -> {"fresh", "reserved", "known"}]
    BY <1>1 DEF CreateBundle, TypeOK, Typed
  <2>6. UNCHANGED <<meta, crunVars, task, recVars>>
    BY <1>1 DEF CreateBundle
  <2> QED BY <2>3, <2>4, <2>5, <2>6 DEF TypeOK, Typed
<1>2. meta[c] \in Record /\ NoRecord \in Record
  BY RecordTypes DEF TypeOK, Typed
<1>3. CASE StartGet(h, c) BY <1>t, <1>2, <1>3 DEF StartGet, TypeOK, Typed, AllOps
<1>4. CASE StopGet(h, c) BY <1>t, <1>2, <1>4 DEF StopGet, TypeOK, Typed, AllOps
<1>5. CASE RemoveDelete(h, c)
  BY <1>t, <1>2, <1>5, CrunTypes DEF RemoveDelete, CrunDelete, TypeOK, Typed, AllOps
<1>6. CASE UpdateGet(h, c) BY <1>t, <1>2, <1>6 DEF UpdateGet, TypeOK, Typed, AllOps
<1> QED BY <1>1, <1>3, <1>4, <1>5, <1>6 DEF Request

LEMMA EndedType ==
  ASSUME TypeOK, NEW h \in Handlers, NEW pc \in RunPC, NEW code \in ExitCodes
  PROVE  Ended(h, pc, code) \in Run
  BY RunTypes DEF Ended, TypeOK, Typed

LEMMA RunTyped ==
  ASSUME TypeOK, NEW h \in Handlers, RunStep(h)
  PROVE  Typed'
<1> USE DEF diskVars, recVars, RunPC
<1>t. run[h] \in Run /\ NoRun \in Run /\ \A pc \in RunPC : [run[h] EXCEPT !.pc = pc] \in Run
  BY RunTypes DEF TypeOK, Typed
<1>1. CASE RunRegister(h)
  <2>1. run[h].c \in Containers /\ bundle[run[h].c].limits \in Opt(Limits)
    BY <1>1, OtherTypes DEF RunRegister, TypeOK, Typed, Placed
  <2>2. [st |-> "created", by |-> h, code |-> {}] \in CrunState
    BY CrunTypes
  <2>3. SpecLimits(bundle[run[h].c].limits) \in Cgroup
    BY <2>1, CgroupTypes
  <2> QED BY <1>1, <1>t, <2>1, <2>2, <2>3 DEF RunRegister, TypeOK, Typed
<1>2. CASE RunFail(h)
  <2>1. \A code \in Failures : Ended(h, "failed", code) \in Run
    BY EndedType DEF Failures
  <2> QED BY <1>2, <2>1 DEF RunFail, TypeOK, Typed
<1>3. CASE RunStart(h)
  <2>1. run[h].c \in Containers /\ [crun[run[h].c] EXCEPT !.st = "running"] \in CrunState
    BY <1>3, CrunTypes DEF RunStart, TypeOK, Typed, Placed
  <2> QED BY <1>3, <1>t, <2>1 DEF RunStart, TypeOK, Typed
<1>4. CASE RunReap(h)
  <2>1. \A code \in ExitCodes : Ended(h, "exited", code) \in Run
    BY EndedType
  <2>2. run[h].c \in Containers /\ crun[run[h].c].code \in Opt(ExitCodes)
    BY <1>4, CrunTypes DEF RunReap, TypeOK, Typed, Placed
  <2>3. crun[run[h].c].code \subseteq ExitCodes
    BY <2>2, OptSubset
  <2>4. \E code \in ExitCodes : run' = [run EXCEPT ![h] = Ended(h, "exited", code)]
    BY <1>4, <2>3 DEF RunReap, Failures
  <2>5. run' \in [Handlers -> Run]
    BY <2>1, <2>4 DEF TypeOK, Typed
  <2>6. crun' \in [Containers -> CrunState]
    BY <1>4, CrunTypes DEF RunReap, CrunDelete, TypeOK, Typed
  <2> QED BY <1>4, <2>5, <2>6 DEF RunReap, TypeOK, Typed
<1> QED BY <1>1, <1>2, <1>3, <1>4 DEF RunStep

LEMMA TaskTyped ==
  ASSUME TypeOK, NEW h \in Handlers, TaskStep(h)
  PROVE  Typed'
<1> USE DEF diskVars, crunVars, recVars, TaskPC, TaskGoto
<1>t. /\ task[h] \in Task /\ NoTask \in Task /\ NoRun \in Run
      /\ \A pc \in TaskPC : [task[h] EXCEPT !.pc = pc] \in Task
      /\ \A pc \in TaskPC, code \in Codes : [task[h] EXCEPT !.pc = pc, !.code = {code}] \in Task
  BY TaskTypes, RunTypes DEF TypeOK, Typed
<1>c. Forced \in Codes /\ 0 \in Codes /\ ExitCodes \subseteq Codes
  BY ContainerAssumption DEF Codes
<1>1. CASE TaskSpawn(h)
  <2>1. NewRun(task[h].c) \in Run
    BY <1>t, TaskTypes, RunTypes
  <2> QED BY <1>1, <1>t, <1>c, <2>1 DEF TaskSpawn, TypeOK, Typed
<1>2. CASE TaskReap(h)
  <2>1. run[h].code \subseteq ExitCodes
    <3>1. run[h].code \in Opt(ExitCodes)
      BY RunTypes DEF TypeOK, Typed
    <3> QED BY <3>1, OptSubset
  <2>2. \E code \in Codes : TaskGoto(h, "get", code)
    BY <1>2, <1>c, <2>1 DEF TaskReap
  <2> QED BY <1>2, <1>t, <2>2 DEF TaskReap, TypeOK, Typed
<1>3. CASE TaskTtyError(h) BY <1>3, <1>t, <1>c DEF TaskTtyError, TypeOK, Typed
<1>4. CASE TaskTtyEof(h)
  BY <1>4, <1>t, <1>c, CrunTypes DEF TaskTtyEof, CrunDelete, TypeOK, Typed
<1>5. CASE TaskGet(h)
  <2>1. task[h].c \in Containers /\ meta[task[h].c] \in Record
    BY <1>5 DEF TaskGet, TypeOK, Typed, Placed
  <2>2. [task[h] EXCEPT !.pc = "put", !.r = meta[task[h].c]] \in Task
    BY <1>t, <2>1, TaskTypes
  <2> QED BY <1>5, <1>t, <2>2 DEF TaskGet, TypeOK, Typed
<1>6. CASE TaskPut(h)
  <2>1. task[h].code \subseteq Codes /\ task[h].r \in Record
    <3>1. task[h].code \in Opt(Codes) /\ task[h].r \in Record
      BY <1>t, TaskTypes
    <3> QED BY <3>1, OptSubset
  <2>2. \A code \in task[h].code : ExitedRecord(task[h].r, code) \in Record
    BY <2>1, RecordTypes
  <2> QED BY <1>6, <1>t, <2>2 DEF TaskPut, TypeOK, Typed
<1> QED BY <1>1, <1>2, <1>3, <1>4, <1>5, <1>6 DEF TaskStep

LEMMA DaemonTyped ==
  ASSUME TypeOK, Crash \/ Recovery
  PROVE  Typed'
<1> USE DEF diskVars, crunVars
<1>t. NoRc \in Reconcile /\ NoRun \in Run /\ NoTask \in Task /\ Idle \in Handler
  BY OtherTypes, RunTypes, TaskTypes, HandlerTypes
<1>1. CASE Crash
  <2>1. daemon' \in [phase : {"up", "down", "reconcile"}, crashes : 0..MaxCrashes]
    BY <1>1, ContainerAssumption DEF Crash, TypeOK, Typed
  <2> QED BY <1>1, <1>t, <2>1 DEF Crash, TypeOK, Typed
<1>2. CASE Restart BY <1>2 DEF Restart, TypeOK, Typed
<1>3. ASSUME NEW c \in Containers, ReconcileProbe(c) PROVE Typed'
  <2>1. crun[c].st \in CrunStatus
    BY CrunTypes DEF TypeOK, Typed
  <2>2. \A seen \in CrunStatus \cup {"error"} : [pc |-> "delete", c |-> c, seen |-> seen] \in Reconcile
    BY OtherTypes
  <2>3. rc' \in Reconcile /\ todo' \in SUBSET Containers
    BY <1>3, <2>1, <2>2 DEF ReconcileProbe, TypeOK, Typed
  <2> QED BY <1>3, <2>3 DEF ReconcileProbe, TypeOK, Typed
<1>4. CASE ReconcileDelete
  BY <1>4, CrunTypes, OtherTypes DEF ReconcileDelete, CrunDelete, TypeOK, Typed
<1>5. CASE ReconcilePut
  <2>1. rc.c \in Containers /\ ReconciledRecord(meta[rc.c], rc.seen) \in Record
    BY <1>5, RecordTypes DEF ReconcilePut, TypeOK, Typed, Placed
  <2> QED BY <1>5, <1>t, <2>1 DEF ReconcilePut, TypeOK, Typed
<1>6. CASE Serve BY <1>6 DEF Serve, TypeOK, Typed
<1> QED BY <1>1, <1>2, <1>3, <1>4, <1>5, <1>6 DEF Recovery

LEMMA NextPlaced ==
  ASSUME TypeOK, [Next]_vars
  PROVE  Placed'
<1> USE DEF TypeOK, Typed, Placed, diskVars, crunVars, recVars
<1>1. ASSUME NEW h \in Handlers, NEW c \in Containers, Request(h, c) PROVE Placed'
  BY <1>1 DEF Request, CreateBundle, StartGet, StopGet, RemoveDelete, UpdateGet, Enter
<1>2. ASSUME NEW h \in Handlers, HandlerStep(h) PROVE Placed'
  <2>i. Idle.pc = "idle"
    BY DEF Idle
  <2>t. hs[h] \in Handler /\ DOMAIN hs = Handlers /\ \A pc : [hs[h] EXCEPT !.pc = pc].c = hs[h].c
    BY DEF Handler
  <2>1. CASE CreatePut(h) BY <2>1, <2>i, <2>t DEF CreatePut, At, Goto, Enter, Return
  <2>g. ASSUME NEW pc, Goto(h, pc), hs[h].c \in Containers
        PROVE  \A i \in Handlers : hs'[i].pc # "idle" => hs'[i].c \in Containers
    BY <2>g, <2>t DEF Goto
  <2>r. ASSUME Return(h)
        PROVE  \A i \in Handlers : hs'[i].pc # "idle" => hs'[i].c \in Containers
    BY <2>r, <2>t, <2>i DEF Return
  <2>2. CASE StartCheck(h)
    <3>1. hs[h].c \in Containers /\ (Goto(h, "mark") \/ Return(h))
      BY <2>2 DEF StartCheck, At
    <3> QED BY <2>2, <2>g, <2>r, <3>1 DEF StartCheck
  <2>3. CASE StartMark(h) BY <2>3, <2>i, <2>t DEF StartMark, NewTask, At, Goto, Enter, Return
  <2>4. CASE StartWait(h) BY <2>4, <2>i, <2>t DEF StartWait, At, Goto, Enter, Return
  <2>5. CASE StopTerm(h) BY <2>5, <2>i, <2>t DEF StopTerm, At, Goto, Enter, Return
  <2>6. CASE StopPoll(h)
    <3>1. hs[h].c \in Containers /\ (Goto(h, "final") \/ Goto(h, "kill"))
      BY <2>6 DEF StopPoll, At
    <3> QED BY <2>6, <2>g, <3>1 DEF StopPoll
  <2>7. CASE StopKill(h) BY <2>7, <2>i, <2>t DEF StopKill, At, Goto, Enter, Return
  <2>8. CASE StopDelete(h) BY <2>8, <2>i, <2>t DEF StopDelete, At, Goto, Enter, Return
  <2>9. CASE StopFinal(h) BY <2>9, <2>i, <2>t DEF StopFinal, At, Goto, Enter, Return
  <2>10. CASE StopSettle(h) BY <2>10, <2>i, <2>t DEF StopSettle, At, Goto, Enter, Return
  <2>11. CASE RemoveForget(h) BY <2>11, <2>i, <2>t DEF RemoveForget, At, Goto, Enter, Return
  <2>12. CASE RemoveUnlink(h) BY <2>12, <2>i, <2>t DEF RemoveUnlink, At, Goto, Enter, Return
  <2>13. CASE UpdateApply(h) BY <2>13, <2>i, <2>t DEF UpdateApply, At, Goto, Enter, Return
  <2>14. CASE UpdatePut(h) BY <2>14, <2>i, <2>t DEF UpdatePut, At, Goto, Enter, Return
  <2> QED BY <1>2, <2>1, <2>2, <2>3, <2>4, <2>5, <2>6, <2>7, <2>8, <2>9, <2>10, <2>11, <2>12, <2>13, <2>14 DEF HandlerStep
<1>3. ASSUME NEW h \in Handlers, Cancel(h) PROVE Placed'
  BY <1>3 DEF Cancel, Return, Idle
<1>4. ASSUME NEW h \in Handlers, RunStep(h) PROVE Placed'
  <2>1. NoRun.pc = "none" /\ run[h] \in Run /\ DOMAIN run = Handlers
    BY DEF NoRun
  <2>2. \A pc : [run[h] EXCEPT !.pc = pc].c = run[h].c
    BY <2>1 DEF Run
  <2>3. \A pc, code : Ended(h, pc, code).pc = "none" \/ Ended(h, pc, code).c = run[h].c
    BY <2>1 DEF Ended, Run
  <2>4. \A i \in Handlers : run'[i] = run[i] \/ (i = h /\ (run'[i].pc = "none" \/ run'[i].c = run[h].c))
    <3>1. CASE RunRegister(h) BY <3>1, <2>1, <2>2 DEF RunRegister
    <3>2. CASE RunFail(h) BY <3>2, <2>1, <2>3 DEF RunFail
    <3>3. CASE RunStart(h)
      <4>1. \/ run' = run \/ run' = [run EXCEPT ![h] = NoRun]
            \/ run' = [run EXCEPT ![h] = [run[h] EXCEPT !.pc = "detached"]]
        BY <3>3 DEF RunStart
      <4> QED BY <4>1, <2>1, <2>2
    <3>4. CASE RunReap(h) BY <3>4, <2>1, <2>3 DEF RunReap
    <3> QED BY <1>4, <3>1, <3>2, <3>3, <3>4 DEF RunStep
  <2>5. run[h].pc # "none" /\ hs' = hs /\ task' = task /\ rc' = rc
    BY <1>4 DEF RunStep, RunRegister, RunFail, RunStart, RunReap
  <2> QED BY <2>4, <2>5
<1>5. ASSUME NEW h \in Handlers, TaskStep(h) PROVE Placed'
  <2>1. NoRun.pc = "none" /\ NoTask.pc = "none" /\ task[h] \in Task /\ run[h] \in Run
    BY DEF NoRun, NoTask
  <2>2. /\ \A pc : [task[h] EXCEPT !.pc = pc].c = task[h].c
        /\ \A pc, code : [task[h] EXCEPT !.pc = pc, !.code = {code}].c = task[h].c
        /\ \A pc, r : [task[h] EXCEPT !.pc = pc, !.r = r].c = task[h].c
    BY <2>1 DEF Task
  <2>3. NewRun(task[h].c).c = task[h].c
    BY DEF NewRun
  <2>4. /\ \A i \in Handlers : task'[i] = task[i] \/ (i = h /\ (task'[i].pc = "none" \/ task'[i].c = task[h].c))
        /\ \A i \in Handlers : run'[i] = run[i] \/ (i = h /\ (run'[i].pc = "none" \/ run'[i].c = task[h].c))
    <3>1. CASE TaskSpawn(h)
      <4>1. \/ /\ run' = [run EXCEPT ![h] = NewRun(task[h].c)]
               /\ task' = [task EXCEPT ![h] = [task[h] EXCEPT !.pc = "wait"]]
            \/ /\ run' = run
               /\ task' = [task EXCEPT ![h] = [task[h] EXCEPT !.pc = "get", !.code = {Forced}]]
        BY <3>1 DEF TaskSpawn, TaskGoto
      <4>2. [task[h] EXCEPT !.pc = "wait"].c = task[h].c
        BY <2>2
      <4>3. [task[h] EXCEPT !.pc = "get", !.code = {Forced}].c = task[h].c
        BY <2>2
      <4> QED BY <4>1, <4>2, <4>3, <2>3
    <3>2. CASE TaskReap(h) BY <3>2, <2>1, <2>2 DEF TaskReap, TaskGoto
    <3>3. CASE TaskTtyError(h) BY <3>3, <2>1, <2>2 DEF TaskTtyError, TaskGoto
    <3>4. CASE TaskTtyEof(h) BY <3>4, <2>1, <2>2 DEF TaskTtyEof, TaskGoto
    <3>5. CASE TaskGet(h)
      <4>1. \/ task' = [task EXCEPT ![h] = NoTask]
            \/ task' = [task EXCEPT ![h] = [task[h] EXCEPT !.pc = "put", !.r = meta[task[h].c]]]
        BY <3>5 DEF TaskGet
      <4> QED BY <3>5, <4>1, <2>1, <2>2 DEF TaskGet
    <3>6. CASE TaskPut(h) BY <3>6, <2>1 DEF TaskPut
    <3> QED BY <1>5, <3>1, <3>2, <3>3, <3>4, <3>5, <3>6 DEF TaskStep
  <2>5. task[h].pc # "none" /\ hs' = hs /\ rc' = rc
    BY <1>5 DEF TaskStep, TaskSpawn, TaskReap, TaskTtyError, TaskTtyEof, TaskGet, TaskPut
  <2> QED BY <2>4, <2>5
<1>6. ASSUME NEW c \in Containers, ProcExit(c) PROVE Placed'
  BY <1>6 DEF ProcExit
<1>7. CASE Crash
  BY <1>7 DEF Crash, Idle, NoTask, NoRun, NoRc
<1>8. CASE Recovery
  <2>1. rc'.pc # "idle" => rc'.c \in Containers
    BY <1>8 DEF Recovery, Restart, ReconcileProbe, ReconcileDelete, ReconcilePut, Serve, NoRc, Reconcile
  <2> QED BY <1>8, <2>1 DEF Recovery, Restart, ReconcileProbe, ReconcileDelete, ReconcilePut, Serve
<1>9. CASE UNCHANGED vars
  BY <1>9 DEF vars
<1> QED BY <1>1, <1>2, <1>3, <1>4, <1>5, <1>6, <1>7, <1>8, <1>9 DEF Next

LEMMA NextTyped ==
  ASSUME TypeOK, [Next]_vars
  PROVE  Typed'
<1>1. ASSUME NEW h \in Handlers, Cancel(h) PROVE Typed'
  BY <1>1, HandlerTypes DEF Cancel, Return, TypeOK, Typed, diskVars, crunVars, recVars
<1>2. ASSUME NEW c \in Containers, ProcExit(c) PROVE Typed'
  <2>1. \A code \in ExitCodes : [crun[c] EXCEPT !.st = "stopped", !.code = {code}] \in CrunState
    BY CrunTypes DEF TypeOK, Typed
  <2> QED BY <1>2, <2>1 DEF ProcExit, CrunStop, TypeOK, Typed, diskVars, recVars
<1>3. CASE UNCHANGED vars
  BY <1>3 DEF vars, TypeOK, Typed
<1> QED BY <1>1, <1>2, <1>3, RequestTyped, HandlerTyped, RunTyped, TaskTyped, DaemonTyped
        DEF Next

(* Every store, handler, task and process keeps its type, for any number of
   containers, requests and crashes. *)
THEOREM ContainerTypes == Spec => []TypeOK
<1>1. TypeOK /\ [Next]_vars => TypeOK'
  BY NextTyped, NextPlaced DEF TypeOK
<1> QED BY InitTypeOK, <1>1, PTL DEF Spec

-----------------------------------------------------------------------------
(* Coherent records.  A record in the store is coherent because every copy
   that is about to be stored is, and because reconcile(), which rewrites
   what it lists, works on records nobody else can touch. *)

CopiesCoherent ==
  \A h \in Handlers :
    /\ hs[h].pc \in {"write", "check", "mark", "apply", "persist"} => Coherent(hs[h].r)
    /\ hs[h].pc \in {"check", "mark"} => hs[h].r.state = "Created"

(* Nothing but reconcile() runs until the daemon serves. *)
Quiet ==
  daemon.phase # "up" => \A h \in Handlers : hs[h].pc = "idle" /\ task[h].pc = "none"

ReconcileAlone ==
  /\ todo # {} => daemon.phase = "reconcile"
  /\ rc.pc # "idle" => rc.c \in todo
  /\ \A c \in todo : meta[c].state = "Running"

CoherenceInv == TypeOK /\ RecordsCoherent /\ CopiesCoherent /\ Quiet /\ ReconcileAlone

LEMMA CoherentValues ==
  /\ Coherent(NoRecord)
  /\ \A lim : Coherent(CreatedRecord(lim))
  /\ \A r \in Record :
       /\ Coherent(r) /\ r.state = "Created" => Coherent([r EXCEPT !.state = "Running"])
       /\ Coherent([r EXCEPT !.state = "Exited", !.exit = {Forced}, !.reason = "Error"])
       /\ \A code \in Codes : Coherent(ExitedRecord(r, code))
       /\ \A seen : Coherent(r) /\ r.state = "Running" => Coherent(ReconciledRecord(r, seen))
       /\ \A lim : Coherent(r) => Coherent([r EXCEPT !.limits = lim])
<1>1. Coherent(NoRecord) /\ \A lim : Coherent(CreatedRecord(lim))
  BY DEF Coherent, NoRecord, CreatedRecord
<1>2. ASSUME NEW r \in Record
      PROVE  /\ Coherent(r) /\ r.state = "Created" => Coherent([r EXCEPT !.state = "Running"])
             /\ Coherent([r EXCEPT !.state = "Exited", !.exit = {Forced}, !.reason = "Error"])
             /\ \A lim : Coherent(r) => Coherent([r EXCEPT !.limits = lim])
  BY DEF Coherent, Record
<1>3. ASSUME NEW r \in Record, NEW code \in Codes
      PROVE  Coherent(ExitedRecord(r, code))
  <2>1. code = Forced \/ code = 0 \/ code \in Failures
    BY DEF Codes, Failures
  <2>2. Forced # 0 /\ 0 \notin Failures
    BY DEF Forced, Failures
  <2> QED BY <2>1, <2>2 DEF Coherent, Record, ExitedRecord
<1>4. ASSUME NEW r \in Record, NEW seen, Coherent(r), r.state = "Running"
      PROVE  Coherent(ReconciledRecord(r, seen))
  BY <1>4 DEF Coherent, Record, ReconciledRecord
<1> QED BY <1>1, <1>2, <1>3, <1>4

LEMMA InitCoherence == Init => CoherenceInv
<1> SUFFICES ASSUME Init PROVE CoherenceInv
  OBVIOUS
<1>1. RecordsCoherent
  BY CoherentValues DEF Init, RecordsCoherent
<1>2. CopiesCoherent
  BY DEF Init, CopiesCoherent, Idle
<1>3. Quiet
  BY DEF Init, Quiet
<1>4. ReconcileAlone
  BY DEF Init, ReconcileAlone, NoRc
<1> QED BY InitTypeOK, <1>1, <1>2, <1>3, <1>4 DEF CoherenceInv

LEMMA HandlerCoherence ==
  ASSUME CoherenceInv, NEW h \in Handlers, HandlerStep(h)
  PROVE  RecordsCoherent' /\ CopiesCoherent' /\ Quiet' /\ ReconcileAlone'
<1> USE DEF CoherenceInv, RecordsCoherent, CopiesCoherent, Quiet, ReconcileAlone
<1>t. /\ hs \in [Handlers -> Handler] /\ meta \in [Containers -> Record]
      /\ hs[h].r \in Record /\ Idle.pc = "idle"
  BY HandlerTypes DEF TypeOK, Typed, Idle
<1>p. hs[h].pc # "idle" /\ hs[h].c \in Containers
  BY DEF HandlerStep, CreatePut, StartCheck, StartMark, StartWait, StopTerm, StopPoll,
    StopKill, StopDelete, StopFinal, StopSettle, RemoveForget, RemoveUnlink, UpdateApply,
    UpdatePut, At, TypeOK, Placed
<1>u. daemon.phase = "up" /\ todo = {} /\ rc.pc = "idle"
  BY <1>p
<1>f. daemon' = daemon /\ todo' = todo /\ rc' = rc
  BY DEF HandlerStep, CreatePut, StartCheck, StartMark, StartWait, StopTerm, StopPoll,
    StopKill, StopDelete, StopFinal, StopSettle, RemoveForget, RemoveUnlink, UpdateApply,
    UpdatePut, recVars
<1>a. Quiet' /\ ReconcileAlone'
  BY <1>u, <1>f
<1>g. ASSUME NEW pc, pc \notin {"write", "check", "mark", "apply", "persist"}, Goto(h, pc)
      PROVE  CopiesCoherent'
  BY <1>g, <1>t DEF Goto, Handler
<1>r. ASSUME Return(h) PROVE CopiesCoherent'
  BY <1>r, <1>t DEF Return
<1>1. CASE CreatePut(h) BY <1>1, <1>t, <1>p, <1>a, <1>r DEF CreatePut, At
<1>2. CASE StartCheck(h)
  <2>1. CASE Goto(h, "mark") BY <1>2, <1>t, <1>a, <2>1 DEF StartCheck, At, Goto, Handler, diskVars
  <2>2. CASE Return(h) BY <1>2, <1>a, <1>r, <2>2 DEF StartCheck, diskVars
  <2> QED BY <1>2, <2>1, <2>2 DEF StartCheck
<1>3. CASE StartMark(h)
  <2>1. Coherent([hs[h].r EXCEPT !.state = "Running"])
    BY <1>3, <1>t, CoherentValues DEF StartMark, At
  <2>2. CopiesCoherent'
    BY <1>3, <1>g DEF StartMark
  <2> QED BY <1>3, <1>t, <1>p, <1>a, <2>1, <2>2 DEF StartMark
<1>4. CASE StartWait(h) BY <1>4, <1>a, <1>r DEF StartWait, diskVars
<1>5. CASE StopTerm(h)
  <2>1. Goto(h, "poll") \/ Goto(h, "kill")
    BY <1>5 DEF StopTerm
  <2> QED BY <1>5, <1>a, <1>g, <2>1 DEF StopTerm, diskVars
<1>6. CASE StopPoll(h)
  <2>1. Goto(h, "final") \/ Goto(h, "kill")
    BY <1>6 DEF StopPoll
  <2> QED BY <1>6, <1>a, <1>g, <2>1 DEF StopPoll, diskVars
<1>7. CASE StopKill(h) BY <1>7, <1>a, <1>g DEF StopKill, diskVars
<1>8. CASE StopDelete(h) BY <1>8, <1>a, <1>g DEF StopDelete, diskVars
<1>9. CASE StopFinal(h)
  <2>1. CASE Return(h) BY <1>9, <1>a, <1>r, <2>1 DEF StopFinal, diskVars
  <2>2. CASE Enter(h, "Stop", "settle", hs[h].c, meta[hs[h].c])
    BY <1>9, <1>t, <1>a, <2>2 DEF StopFinal, Enter, diskVars
  <2> QED BY <1>9, <2>1, <2>2 DEF StopFinal
<1>10. CASE StopSettle(h)
  <2>1. Coherent([hs[h].r EXCEPT !.state = "Exited", !.exit = {Forced}, !.reason = "Error"])
    BY <1>t, CoherentValues
  <2> QED BY <1>10, <1>t, <1>p, <1>a, <1>r, <2>1 DEF StopSettle
<1>11. CASE RemoveForget(h) BY <1>11, <1>t, <1>p, <1>a, <1>g, CoherentValues DEF RemoveForget
<1>12. CASE RemoveUnlink(h) BY <1>12, <1>a, <1>r DEF RemoveUnlink
<1>13. CASE UpdateApply(h)
  <2>1. CASE Return(h) BY <1>13, <1>a, <1>r, <2>1 DEF UpdateApply, diskVars
  <2>2. ASSUME NEW lim \in Limits,
               Enter(h, "Update", "persist", hs[h].c, [hs[h].r EXCEPT !.limits = {lim}])
        PROVE  CopiesCoherent'
    <3>1. Coherent([hs[h].r EXCEPT !.limits = {lim}])
      BY <1>13, <1>t, CoherentValues DEF UpdateApply, At
    <3> QED BY <1>t, <2>2, <3>1 DEF Enter
  <2> QED BY <1>13, <1>a, <2>1, <2>2 DEF UpdateApply, diskVars
<1>14. CASE UpdatePut(h) BY <1>14, <1>t, <1>p, <1>a, <1>r DEF UpdatePut, At
<1> QED BY <1>1, <1>2, <1>3, <1>4, <1>5, <1>6, <1>7, <1>8, <1>9, <1>10,
           <1>11, <1>12, <1>13, <1>14 DEF HandlerStep

LEMMA RequestCoherence ==
  ASSUME CoherenceInv, NEW h \in Handlers, NEW c \in Containers, Request(h, c)
  PROVE  RecordsCoherent' /\ CopiesCoherent' /\ Quiet' /\ ReconcileAlone'
<1> USE DEF CoherenceInv, RecordsCoherent, CopiesCoherent, Quiet, ReconcileAlone
<1>t. hs \in [Handlers -> Handler]
  BY DEF TypeOK, Typed
<1>u. /\ daemon.phase = "up" /\ meta' = meta
      /\ daemon' = daemon /\ todo' = todo /\ rc' = rc
  BY DEF Request, CreateBundle, StartGet, StopGet, RemoveDelete, UpdateGet, Accept,
         recVars, diskVars
<1>a. RecordsCoherent' /\ Quiet' /\ ReconcileAlone'
  BY <1>u
<1>e. ASSUME NEW op, NEW pc, NEW r, Enter(h, op, pc, c, r),
             pc \in {"write", "check", "mark", "apply", "persist"} => Coherent(r),
             pc \in {"check", "mark"} => r.state = "Created"
      PROVE  CopiesCoherent'
  <2> DEFINE new == [op |-> op, pc |-> pc, c |-> c, r |-> r]
  <2>1. hs' = [hs EXCEPT ![h] = new]
    BY <1>e DEF Enter
  <2>2. new.pc = pc /\ new.r = r
    OBVIOUS
  <2> HIDE DEF new
  <2>3. \A i \in Handlers : hs'[i] = IF i = h THEN new ELSE hs[i]
    BY <2>1, <1>t
  <2> QED BY <2>2, <2>3, <1>e
<1>1. ASSUME NEW lim \in Opt(Limits), CreateBundle(h, c, lim) PROVE CopiesCoherent'
  <2>1. hs' = hs \/ Enter(h, "Create", "write", c, CreatedRecord(lim))
    BY <1>1 DEF CreateBundle
  <2>2. CASE hs' = hs BY <2>2
  <2>3. CASE Enter(h, "Create", "write", c, CreatedRecord(lim)) BY <2>3, <1>e, CoherentValues
  <2> QED BY <2>1, <2>2, <2>3
<1>2. CASE StartGet(h, c)
  <2>1. Enter(h, "Start", "check", c, meta[c])
    BY <1>2 DEF StartGet
  <2>2. Coherent(meta[c]) /\ meta[c].state = "Created"
    BY <1>2 DEF StartGet
  <2> QED BY <2>1, <2>2, <1>a, <1>e
<1>3. CASE StopGet(h, c)
  <2>1. Enter(h, "Stop", "term", c, NoRecord)
    BY <1>3 DEF StopGet
  <2> QED BY <2>1, <1>a, <1>e
<1>4. CASE RemoveDelete(h, c)
  <2>1. Enter(h, "Remove", "forget", c, NoRecord)
    BY <1>4 DEF RemoveDelete
  <2> QED BY <2>1, <1>a, <1>e
<1>5. CASE UpdateGet(h, c)
  <2>1. Enter(h, "Update", "apply", c, meta[c])
    BY <1>5 DEF UpdateGet
  <2>2. Coherent(meta[c])
    BY <1>5 DEF UpdateGet
  <2> QED BY <2>1, <2>2, <1>a, <1>e
<1> QED BY <1>a, <1>1, <1>2, <1>3, <1>4, <1>5 DEF Request

LEMMA TaskCoherence ==
  ASSUME CoherenceInv, NEW h \in Handlers, TaskStep(h)
  PROVE  RecordsCoherent' /\ CopiesCoherent' /\ Quiet' /\ ReconcileAlone'
<1> USE DEF CoherenceInv, RecordsCoherent, CopiesCoherent, Quiet, ReconcileAlone
<1>t. /\ meta \in [Containers -> Record]
      /\ task[h].r \in Record /\ task[h].code \in Opt(Codes)
  BY TaskTypes DEF TypeOK, Typed
<1>p. task[h].pc # "none" /\ task[h].c \in Containers
  BY DEF TaskStep, TaskSpawn, TaskReap, TaskTtyError, TaskTtyEof, TaskGet, TaskPut,
         TypeOK, Placed
<1>u. daemon.phase = "up" /\ todo = {} /\ rc.pc = "idle"
  BY <1>p
<1>f. daemon' = daemon /\ todo' = todo /\ rc' = rc /\ hs' = hs
  BY DEF TaskStep, TaskSpawn, TaskReap, TaskTtyError, TaskTtyEof, TaskGet, TaskPut, recVars
<1>a. CopiesCoherent' /\ Quiet' /\ ReconcileAlone'
  BY <1>u, <1>f
<1>1. CASE TaskPut(h)
  <2>1. \A code \in task[h].code : Coherent(ExitedRecord(task[h].r, code))
    BY <1>t, OptSubset, CoherentValues
  <2> QED BY <1>1, <1>t, <1>p, <1>a, <2>1 DEF TaskPut
<1>2. CASE meta' = meta
  BY <1>a, <1>2
<1> QED BY <1>1, <1>2
        DEF TaskStep, TaskSpawn, TaskReap, TaskTtyError, TaskTtyEof, TaskGet, diskVars

LEMMA RecoveryCoherence ==
  ASSUME CoherenceInv, Recovery
  PROVE  RecordsCoherent' /\ CopiesCoherent' /\ Quiet' /\ ReconcileAlone'
<1> USE DEF CoherenceInv, RecordsCoherent, CopiesCoherent, Quiet, ReconcileAlone
<1>t. /\ meta \in [Containers -> Record] /\ rc \in Reconcile
      /\ daemon \in [phase : {"up", "down", "reconcile"}, crashes : 0..MaxCrashes]
  BY DEF TypeOK, Typed
<1>1. CASE Restart BY <1>1, <1>t DEF Restart, diskVars
<1>2. CASE ReconcileDelete BY <1>2, <1>t DEF ReconcileDelete, diskVars, Reconcile
<1>3. CASE ReconcilePut
  <2>1. rc.c \in todo /\ rc.c \in Containers /\ meta[rc.c].state = "Running"
    BY <1>3 DEF ReconcilePut, TypeOK, Placed
  <2>2. Coherent(ReconciledRecord(meta[rc.c], rc.seen))
    BY <2>1, <1>t, CoherentValues
  <2>3. NoRc.pc = "idle"
    BY DEF NoRc
  <2> QED BY <1>3, <1>t, <2>1, <2>2, <2>3 DEF ReconcilePut
<1>4. CASE Serve BY <1>4, <1>t DEF Serve, diskVars
<1>5. ASSUME NEW c \in Containers, ReconcileProbe(c)
      PROVE  RecordsCoherent' /\ CopiesCoherent' /\ Quiet' /\ ReconcileAlone'
  BY <1>5, <1>t DEF ReconcileProbe, diskVars
<1> QED BY <1>1, <1>2, <1>3, <1>4, <1>5 DEF Recovery

LEMMA NextCoherence == CoherenceInv /\ [Next]_vars => CoherenceInv'
<1> SUFFICES ASSUME CoherenceInv, [Next]_vars
             PROVE  RecordsCoherent' /\ CopiesCoherent' /\ Quiet' /\ ReconcileAlone'
  BY NextTyped, NextPlaced DEF CoherenceInv, TypeOK
<1>1. ASSUME NEW h \in Handlers, Cancel(h)
      PROVE  RecordsCoherent' /\ CopiesCoherent' /\ Quiet' /\ ReconcileAlone'
  BY <1>1 DEF CoherenceInv, RecordsCoherent, CopiesCoherent, Quiet, ReconcileAlone,
              Cancel, Return, Idle, diskVars, recVars, TypeOK, Typed
<1>2. ASSUME NEW h \in Handlers, RunStep(h)
      PROVE  RecordsCoherent' /\ CopiesCoherent' /\ Quiet' /\ ReconcileAlone'
  BY <1>2 DEF CoherenceInv, RecordsCoherent, CopiesCoherent, Quiet, ReconcileAlone,
              RunStep, RunRegister, RunFail, RunStart, RunReap, diskVars, recVars
<1>3. ASSUME NEW c \in Containers, ProcExit(c)
      PROVE  RecordsCoherent' /\ CopiesCoherent' /\ Quiet' /\ ReconcileAlone'
  BY <1>3 DEF CoherenceInv, RecordsCoherent, CopiesCoherent, Quiet, ReconcileAlone,
              ProcExit, diskVars, recVars
<1>4. CASE Crash
  BY <1>4 DEF CoherenceInv, RecordsCoherent, CopiesCoherent, Quiet, ReconcileAlone,
              Crash, Idle, NoTask, NoRc, diskVars
<1>5. CASE UNCHANGED vars
  BY <1>5 DEF CoherenceInv, RecordsCoherent, CopiesCoherent, Quiet, ReconcileAlone, vars
<1> QED BY <1>1, <1>2, <1>3, <1>4, <1>5, RequestCoherence, HandlerCoherence,
           TaskCoherence, RecoveryCoherence DEF Next

(* No interleaving of handlers, supervision tasks, crashes and reconcile(),
   whatever stale copies they store, leaves a record whose exit code and reason
   contradict its state. *)
THEOREM RecordsStayCoherent == Spec => []RecordsCoherent
<1>1. CoherenceInv => RecordsCoherent
  BY DEF CoherenceInv
<1> QED BY InitCoherence, NextCoherence, <1>1, PTL DEF Spec

-----------------------------------------------------------------------------
(* What each operation does, with requests, tasks and processes described by
   their fields. *)

Others(h) == \A i \in Handlers : i # h => hs'[i] = hs[i]
Goes(h, pc) == Others(h) /\ hs'[h].pc = pc /\ hs'[h].c = hs[h].c /\ hs'[h].r = hs[h].r
Begins(h, pc, c, r) == Others(h) /\ hs'[h].pc = pc /\ hs'[h].c = c /\ hs'[h].r = r
Leaves(h) == Others(h) /\ hs'[h].pc = "idle"

Stores(c, r) == meta'[c] = r /\ \A d \in Containers : d # c => meta'[d] = meta[d]
IdTo(c, x) == ids'[c] = x /\ \A d \in Containers : d # c => ids'[d] = ids[d]
Deletes(c) == crun'[c].st = "absent" /\ \A d \in Containers : d # c => crun'[d] = crun[d]
Stops(c) ==
  /\ crun[c].st \in {"created", "running"} /\ crun'[c].st = "stopped" /\ crun'[c].by = crun[c].by
  /\ \A d \in Containers : d # c => crun'[d] = crun[d]
TaskTo(h, pc) ==
  /\ \A i \in Handlers : i # h => task'[i] = task[i]
  /\ task'[h].pc = pc /\ (pc # "none" => task'[h].c = task[h].c)
RunTo(h, pcs) ==
  /\ \A i \in Handlers : i # h => run'[i] = run[i]
  /\ run'[h].pc \in pcs /\ (run'[h].pc # "none" => run'[h].c = run[h].c)

LEMMA GotoGoes == ASSUME TypeOK, NEW h \in Handlers, NEW pc, Goto(h, pc) PROVE Goes(h, pc)
<1>1. hs \in [Handlers -> Handler] /\ hs[h] \in Handler
  BY DEF TypeOK, Typed
<1>2. /\ [hs[h] EXCEPT !.pc = pc].pc = pc /\ [hs[h] EXCEPT !.pc = pc].c = hs[h].c
      /\ [hs[h] EXCEPT !.pc = pc].r = hs[h].r
  BY <1>1 DEF Handler
<1> QED BY <1>1, <1>2 DEF Goto, Goes, Others

LEMMA EnterBegins ==
  ASSUME TypeOK, NEW h \in Handlers, NEW op, NEW pc, NEW c, NEW r, Enter(h, op, pc, c, r)
  PROVE  Begins(h, pc, c, r)
  BY DEF TypeOK, Typed, Enter, Begins, Others

LEMMA ReturnLeaves == ASSUME TypeOK, NEW h \in Handlers, Return(h) PROVE Leaves(h)
  BY DEF TypeOK, Typed, Return, Leaves, Others, Idle

LEMMA Placement ==
  ASSUME TypeOK, NEW h \in Handlers
  PROVE  /\ hs[h].pc # "idle" => hs[h].c \in Containers /\ hs[h].r \in Record
         /\ task[h].pc # "none" => task[h].c \in Containers /\ task[h].code \in Opt(Codes)
         /\ run[h].pc # "none" => run[h].c \in Containers
         /\ meta \in [Containers -> Record] /\ crun \in [Containers -> CrunState]
         /\ \A c \in Containers : crun[c] \in CrunState /\ meta[c] \in Record
         /\ task \in [Handlers -> Task] /\ run \in [Handlers -> Run] /\ hs \in [Handlers -> Handler]
         /\ ids \in [Containers -> {"fresh", "reserved", "known"}]
         /\ hs[h] \in Handler /\ task[h] \in Task /\ run[h] \in Run
<1>1. /\ hs \in [Handlers -> Handler] /\ task \in [Handlers -> Task] /\ run \in [Handlers -> Run]
      /\ meta \in [Containers -> Record] /\ crun \in [Containers -> CrunState]
      /\ ids \in [Containers -> {"fresh", "reserved", "known"}]
  BY DEF TypeOK, Typed
<1>2. hs[h].r \in Record /\ task[h].code \in Opt(Codes)
  BY <1>1 DEF Handler, Task
<1> QED BY <1>1, <1>2 DEF TypeOK, Placed

LEMMA CrunStops ==
  ASSUME TypeOK, NEW c \in Containers, NEW code, Live(c), CrunStop(c, code) PROVE Stops(c)
<1>1. crun \in [Containers -> CrunState] /\ crun[c] \in CrunState
  BY DEF TypeOK, Typed
<1> DEFINE y == [crun[c] EXCEPT !.st = "stopped", !.code = {code}]
<1>2. y.st = "stopped" /\ y.by = crun[c].by
  BY <1>1 DEF CrunState
<1>3. crun' = [crun EXCEPT ![c] = y]
  BY DEF CrunStop
<1> HIDE DEF y
<1> QED BY <1>1, <1>2, <1>3 DEF Live, Stops

LEMMA CrunDeletes ==
  ASSUME TypeOK, NEW c \in Containers, CrunDelete(c) PROVE Deletes(c)
  BY DEF TypeOK, Typed, CrunDelete, Deletes, NoCrun

LEMMA MetaStores ==
  ASSUME TypeOK, NEW c \in Containers, NEW r, meta' = [meta EXCEPT ![c] = r] PROVE Stores(c, r)
  BY DEF TypeOK, Typed, Stores

KeepStore  == meta' = meta /\ ids' = ids
KeepCrun   == crun' = crun
KeepRun    == run' = run
KeepTask   == task' = task
KeepDaemon == daemon' = daemon /\ todo' = todo /\ rc' = rc

(* The first step of each request. *)
LEMMA CreateEffect ==
  ASSUME TypeOK, NEW h \in Handlers, NEW c \in Containers, NEW lim \in Opt(Limits),
         CreateBundle(h, c, lim)
  PROVE  /\ daemon.phase = "up" /\ hs[h].pc = "idle" /\ (Serial => ~Busy(c))
         /\ ids[c] = "fresh" /\ IdTo(c, "reserved") /\ meta' = meta
         /\ hs' = hs \/ Begins(h, "write", c, CreatedRecord(lim))
         /\ KeepCrun /\ KeepRun /\ KeepTask /\ KeepDaemon
<1>1. /\ daemon.phase = "up" /\ hs[h].pc = "idle" /\ (Serial => ~Busy(c)) /\ ids[c] = "fresh"
      /\ ids' = [ids EXCEPT ![c] = "reserved"] /\ meta' = meta
      /\ hs' = hs \/ Enter(h, "Create", "write", c, CreatedRecord(lim))
      /\ KeepCrun /\ KeepRun /\ KeepTask /\ KeepDaemon
  BY DEF CreateBundle, Accept, KeepCrun, KeepRun, KeepTask, KeepDaemon, crunVars, recVars
<1>2. IdTo(c, "reserved")
  BY <1>1, Placement DEF IdTo
<1> QED BY <1>1, <1>2, EnterBegins

LEMMA StartGetEffect ==
  ASSUME TypeOK, NEW h \in Handlers, NEW c \in Containers, StartGet(h, c)
  PROVE  /\ daemon.phase = "up" /\ hs[h].pc = "idle" /\ (Serial => ~Busy(c)) /\ "Start" \in Ops
         /\ meta[c].state = "Created" /\ task[h].pc = "none" /\ run[h].pc = "none"
         /\ Begins(h, "check", c, meta[c])
         /\ KeepStore /\ KeepCrun /\ KeepRun /\ KeepTask /\ KeepDaemon
  BY EnterBegins, CrunDeletes
  DEF StartGet, Accept, KeepStore, KeepCrun, KeepRun, KeepTask, KeepDaemon, diskVars, crunVars, recVars

LEMMA StopGetEffect ==
  ASSUME TypeOK, NEW h \in Handlers, NEW c \in Containers, StopGet(h, c)
  PROVE  /\ daemon.phase = "up" /\ hs[h].pc = "idle" /\ (Serial => ~Busy(c)) /\ "Stop" \in Ops
         /\ meta[c].state \notin {"Absent", "Exited"}
         /\ Begins(h, "term", c, NoRecord)
         /\ KeepStore /\ KeepCrun /\ KeepRun /\ KeepTask /\ KeepDaemon
  BY EnterBegins, CrunDeletes
  DEF StopGet, Accept, KeepStore, KeepCrun, KeepRun, KeepTask, KeepDaemon, diskVars, crunVars, recVars

LEMMA RemoveEffect ==
  ASSUME TypeOK, NEW h \in Handlers, NEW c \in Containers, RemoveDelete(h, c)
  PROVE  /\ daemon.phase = "up" /\ hs[h].pc = "idle" /\ (Serial => ~Busy(c)) /\ "Remove" \in Ops
         /\ ids[c] = "known" /\ Deletes(c)
         /\ Begins(h, "forget", c, NoRecord)
         /\ KeepStore /\ KeepRun /\ KeepTask /\ KeepDaemon
  BY EnterBegins, CrunDeletes
  DEF RemoveDelete, Accept, KeepStore, KeepCrun, KeepRun, KeepTask, KeepDaemon, diskVars, crunVars, recVars

LEMMA UpdateGetEffect ==
  ASSUME TypeOK, NEW h \in Handlers, NEW c \in Containers, UpdateGet(h, c)
  PROVE  /\ daemon.phase = "up" /\ hs[h].pc = "idle" /\ (Serial => ~Busy(c)) /\ "Update" \in Ops
         /\ meta[c].state # "Absent"
         /\ Begins(h, "apply", c, meta[c])
         /\ KeepStore /\ KeepCrun /\ KeepRun /\ KeepTask /\ KeepDaemon
  BY EnterBegins, CrunDeletes
  DEF UpdateGet, Accept, KeepStore, KeepCrun, KeepRun, KeepTask, KeepDaemon, diskVars, crunVars, recVars

(* The steps after it. *)
LEMMA CreatePutEffect ==
  ASSUME TypeOK, NEW h \in Handlers, CreatePut(h)
  PROVE  /\ hs[h].pc = "write"
         /\ Stores(hs[h].c, hs[h].r) /\ IdTo(hs[h].c, "known") /\ Leaves(h)
         /\ KeepCrun /\ KeepRun /\ KeepTask /\ KeepDaemon
<1>1. hs[h].pc = "write" /\ hs[h].c \in Containers
  BY Placement DEF CreatePut, At
<1>2. Stores(hs[h].c, hs[h].r) /\ IdTo(hs[h].c, "known")
  BY <1>1, Placement DEF CreatePut, Stores, IdTo
<1> QED BY <1>1, <1>2, ReturnLeaves
        DEF CreatePut, KeepCrun, KeepRun, KeepTask, KeepDaemon, crunVars, recVars

LEMMA StartCheckEffect ==
  ASSUME TypeOK, NEW h \in Handlers, StartCheck(h)
  PROVE  /\ hs[h].pc = "check"
         /\ Goes(h, "mark") \/ Leaves(h)
         /\ KeepStore /\ KeepCrun /\ KeepRun /\ KeepTask /\ KeepDaemon
<1>1. hs[h].pc = "check" /\ hs[h].c \in Containers /\ hs[h].r \in Record
  BY Placement DEF StartCheck, At
<1> QED BY <1>1, GotoGoes, ReturnLeaves
        DEF StartCheck, At, KeepStore, KeepCrun, KeepRun, KeepTask, KeepDaemon, diskVars, crunVars, recVars

LEMMA StartMarkEffect ==
  ASSUME TypeOK, NEW h \in Handlers, StartMark(h)
  PROVE  /\ hs[h].pc = "mark" /\ Goes(h, "wait") /\ ids' = ids
         /\ \E r \in Record : /\ r.state = "Running" /\ r.limits = hs[h].r.limits
                              /\ Stores(hs[h].c, r)
         /\ \A i \in Handlers : i # h => task'[i] = task[i]
         /\ task'[h].pc = "spawn" /\ task'[h].c = hs[h].c
         /\ KeepCrun /\ KeepRun /\ KeepDaemon
<1>1. hs[h].pc = "mark" /\ hs[h].c \in Containers /\ hs[h].r \in Record
  BY Placement DEF StartMark, At
<1> DEFINE r == [hs[h].r EXCEPT !.state = "Running"]
<1>2. r \in Record /\ r.state = "Running" /\ r.limits = hs[h].r.limits
  BY <1>1 DEF Record, ContainerStates
<1>3. meta' = [meta EXCEPT ![hs[h].c] = r]
  BY DEF StartMark
<1> HIDE DEF r
<1>4. Stores(hs[h].c, r)
  BY <1>1, <1>3, MetaStores
<1>5. /\ \A i \in Handlers : i # h => task'[i] = task[i]
      /\ task'[h].pc = "spawn" /\ task'[h].c = hs[h].c
  BY Placement DEF StartMark, NewTask
<1>6. Goes(h, "wait")
  BY GotoGoes DEF StartMark
<1> QED BY <1>1, <1>2, <1>4, <1>5, <1>6
        DEF StartMark, KeepCrun, KeepRun, KeepDaemon, crunVars, recVars

LEMMA StartWaitEffect ==
  ASSUME TypeOK, NEW h \in Handlers, StartWait(h)
  PROVE  /\ hs[h].pc = "wait"
         /\ Leaves(h)
         /\ crun[hs[h].c].st # "absent" \/ ~(PromptCrun /\ Launching(h))
         /\ KeepStore /\ KeepCrun /\ KeepRun /\ KeepTask /\ KeepDaemon
<1>1. hs[h].pc = "wait" /\ hs[h].c \in Containers /\ hs[h].r \in Record
  BY Placement DEF StartWait, At
<1> QED BY <1>1, ReturnLeaves
        DEF StartWait, At, KeepStore, KeepCrun, KeepRun, KeepTask, KeepDaemon, diskVars, crunVars, recVars

LEMMA StopTermEffect ==
  ASSUME TypeOK, NEW h \in Handlers, StopTerm(h)
  PROVE  /\ hs[h].pc = "term"
         /\ Goes(h, "poll") \/ Goes(h, "kill")
         /\ KeepStore /\ KeepCrun /\ KeepRun /\ KeepTask /\ KeepDaemon
<1>1. hs[h].pc = "term" /\ hs[h].c \in Containers /\ hs[h].r \in Record
  BY Placement DEF StopTerm, At
<1> QED BY <1>1, GotoGoes
        DEF StopTerm, At, KeepStore, KeepCrun, KeepRun, KeepTask, KeepDaemon, diskVars, crunVars, recVars

LEMMA StopPollEffect ==
  ASSUME TypeOK, NEW h \in Handlers, StopPoll(h)
  PROVE  /\ hs[h].pc = "poll"
         /\ (meta[hs[h].c].state = "Exited" /\ Goes(h, "final")) \/ Goes(h, "kill")
         /\ KeepStore /\ KeepCrun /\ KeepRun /\ KeepTask /\ KeepDaemon
<1>1. hs[h].pc = "poll" /\ hs[h].c \in Containers /\ hs[h].r \in Record
  BY Placement DEF StopPoll, At
<1> QED BY <1>1, GotoGoes
        DEF StopPoll, At, KeepStore, KeepCrun, KeepRun, KeepTask, KeepDaemon, diskVars, crunVars, recVars

LEMMA StopKillEffect ==
  ASSUME TypeOK, NEW h \in Handlers, StopKill(h)
  PROVE  /\ hs[h].pc = "kill"
         /\ Goes(h, "delete")
         /\ Stops(hs[h].c) \/ KeepCrun
         /\ KeepStore /\ KeepRun /\ KeepTask /\ KeepDaemon
<1>1. hs[h].pc = "kill" /\ hs[h].c \in Containers /\ hs[h].r \in Record
  BY Placement DEF StopKill, At
<1> QED BY <1>1, GotoGoes, CrunStops
        DEF StopKill, At, KeepStore, KeepCrun, KeepRun, KeepTask, KeepDaemon, diskVars, crunVars, recVars

LEMMA StopDeleteEffect ==
  ASSUME TypeOK, NEW h \in Handlers, StopDelete(h)
  PROVE  /\ hs[h].pc = "delete"
         /\ Goes(h, "final")
         /\ Deletes(hs[h].c)
         /\ KeepStore /\ KeepRun /\ KeepTask /\ KeepDaemon
<1>1. hs[h].pc = "delete" /\ hs[h].c \in Containers /\ hs[h].r \in Record
  BY Placement DEF StopDelete, At
<1> QED BY <1>1, GotoGoes, CrunDeletes
        DEF StopDelete, At, KeepStore, KeepCrun, KeepRun, KeepTask, KeepDaemon, diskVars, crunVars, recVars

LEMMA StopFinalEffect ==
  ASSUME TypeOK, NEW h \in Handlers, StopFinal(h)
  PROVE  /\ hs[h].pc = "final"
         /\ \/ Leaves(h)
            \/ meta[hs[h].c].state # "Absent" /\ Begins(h, "settle", hs[h].c, meta[hs[h].c])
         /\ KeepStore /\ KeepCrun /\ KeepRun /\ KeepTask /\ KeepDaemon
<1>1. hs[h].pc = "final" /\ hs[h].c \in Containers /\ hs[h].r \in Record
  BY Placement DEF StopFinal, At
<1> QED BY <1>1, ReturnLeaves, EnterBegins
        DEF StopFinal, At, KeepStore, KeepCrun, KeepRun, KeepTask, KeepDaemon, diskVars, crunVars, recVars

LEMMA StopSettleEffect ==
  ASSUME TypeOK, NEW h \in Handlers, StopSettle(h)
  PROVE  /\ hs[h].pc = "settle" /\ Leaves(h) /\ ids' = ids
         /\ \E r \in Record : r.state = "Exited" /\ Stores(hs[h].c, r)
         /\ KeepCrun /\ KeepRun /\ KeepTask /\ KeepDaemon
<1>1. hs[h].pc = "settle" /\ hs[h].c \in Containers /\ hs[h].r \in Record
  BY Placement DEF StopSettle, At
<1> DEFINE r == [hs[h].r EXCEPT !.state = "Exited", !.exit = {Forced}, !.reason = "Error"]
<1>2. r \in Record
  BY <1>1, RecordTypes
<1>3. r.state = "Exited"
  BY <1>1 DEF Record
<1>4. meta' = [meta EXCEPT ![hs[h].c] = r]
  BY DEF StopSettle
<1> HIDE DEF r
<1>5. Stores(hs[h].c, r)
  BY <1>1, <1>4, MetaStores
<1> QED BY <1>1, <1>2, <1>3, <1>5, ReturnLeaves
        DEF StopSettle, KeepCrun, KeepRun, KeepTask, KeepDaemon, crunVars, recVars

LEMMA RemoveForgetEffect ==
  ASSUME TypeOK, NEW h \in Handlers, RemoveForget(h)
  PROVE  /\ hs[h].pc = "forget" /\ Goes(h, "unlink") /\ ids' = ids
         /\ Stores(hs[h].c, NoRecord)
         /\ KeepCrun /\ KeepRun /\ KeepTask /\ KeepDaemon
<1>1. hs[h].pc = "forget" /\ hs[h].c \in Containers
  BY Placement DEF RemoveForget, At
<1> QED BY <1>1, GotoGoes, MetaStores
        DEF RemoveForget, KeepCrun, KeepRun, KeepTask, KeepDaemon, crunVars, recVars

LEMMA RemoveUnlinkEffect ==
  ASSUME TypeOK, NEW h \in Handlers, RemoveUnlink(h)
  PROVE  /\ hs[h].pc = "unlink"
         /\ Leaves(h)
         /\ KeepStore /\ KeepCrun /\ KeepRun /\ KeepTask /\ KeepDaemon
<1>1. hs[h].pc = "unlink" /\ hs[h].c \in Containers /\ hs[h].r \in Record
  BY Placement DEF RemoveUnlink, At
<1> QED BY <1>1, ReturnLeaves
        DEF RemoveUnlink, At, KeepStore, KeepCrun, KeepRun, KeepTask, KeepDaemon, diskVars, crunVars, recVars

LEMMA UpdateApplyEffect ==
  ASSUME TypeOK, NEW h \in Handlers, UpdateApply(h)
  PROVE  /\ hs[h].pc = "apply"
         /\ \/ Leaves(h)
            \/ /\ Live(hs[h].c) /\ Others(h)
               /\ hs'[h].pc = "persist" /\ hs'[h].c = hs[h].c /\ hs'[h].r.state = hs[h].r.state
         /\ KeepStore /\ KeepCrun /\ KeepRun /\ KeepTask /\ KeepDaemon
<1>1. hs[h].pc = "apply" /\ hs[h].c \in Containers /\ hs[h].r \in Record
  BY Placement DEF UpdateApply, At
<1>2. ASSUME NEW lim \in Limits, Live(hs[h].c),
             Enter(h, "Update", "persist", hs[h].c, [hs[h].r EXCEPT !.limits = {lim}])
      PROVE  /\ Others(h) /\ hs'[h].pc = "persist" /\ hs'[h].c = hs[h].c
             /\ hs'[h].r.state = hs[h].r.state
  <2> DEFINE r == [hs[h].r EXCEPT !.limits = {lim}]
  <2>1. r.state = hs[h].r.state
    BY <1>1 DEF Record
  <2>2. Begins(h, "persist", hs[h].c, r)
    BY <1>2, EnterBegins
  <2> HIDE DEF r
  <2> QED BY <2>1, <2>2 DEF Begins
<1>3. KeepStore /\ KeepCrun /\ KeepRun /\ KeepTask /\ KeepDaemon
  BY DEF UpdateApply, KeepStore, KeepCrun, KeepRun, KeepTask, KeepDaemon, diskVars, recVars
<1> QED BY <1>1, <1>2, <1>3, ReturnLeaves DEF UpdateApply

LEMMA UpdatePutEffect ==
  ASSUME TypeOK, NEW h \in Handlers, UpdatePut(h)
  PROVE  /\ hs[h].pc = "persist"
         /\ Leaves(h) /\ ids' = ids
         /\ Stores(hs[h].c, hs[h].r)
         /\ KeepCrun /\ KeepRun /\ KeepTask /\ KeepDaemon
<1>1. hs[h].pc = "persist" /\ hs[h].c \in Containers /\ hs[h].r \in Record
  BY Placement DEF UpdatePut, At
<1> QED BY <1>1, ReturnLeaves, MetaStores
        DEF UpdatePut, At, KeepStore, KeepCrun, KeepRun, KeepTask, KeepDaemon, diskVars, crunVars, recVars

LEMMA CancelEffect ==
  ASSUME TypeOK, NEW h \in Handlers, Cancel(h)
  PROVE  /\ hs[h].pc \in {"wait", "poll", "kill", "final", "forget", "persist"}
         /\ hs[h].pc \in Cancels
         /\ Leaves(h)
         /\ KeepStore /\ KeepCrun /\ KeepRun /\ KeepTask /\ KeepDaemon
  BY ReturnLeaves, ContainerAssumption
  DEF Cancel, AwaitSteps, KeepStore, KeepCrun, KeepRun, KeepTask, KeepDaemon, diskVars, crunVars, recVars
(* `crun run', the workload and the supervision task. *)
KeepOthers(h) == \A i \in Handlers : i # h => run'[i] = run[i]

LEMMA RegisterEffect ==
  ASSUME TypeOK, NEW h \in Handlers, RunRegister(h)
  PROVE  /\ run[h].pc = "spawned" /\ crun[run[h].c].st = "absent"
         /\ crun'[run[h].c].st = "created" /\ crun'[run[h].c].by = h
         /\ \A d \in Containers : d # run[h].c => crun'[d] = crun[d]
         /\ RunTo(h, {"attached"}) /\ hs' = hs /\ KeepStore /\ KeepTask /\ KeepDaemon
<1>1. run[h].pc = "spawned" /\ crun[run[h].c].st = "absent" /\ run[h].c \in Containers
  BY Placement DEF RunRegister
<1>2. /\ crun'[run[h].c].st = "created" /\ crun'[run[h].c].by = h
      /\ \A d \in Containers : d # run[h].c => crun'[d] = crun[d]
  BY <1>1, Placement DEF RunRegister
<1>3. RunTo(h, {"attached"})
  BY Placement DEF RunRegister, RunTo, Run
<1> QED BY <1>1, <1>2, <1>3
        DEF RunRegister, KeepStore, KeepTask, KeepDaemon, diskVars, recVars

LEMMA EndedFields ==
  ASSUME TypeOK, NEW h \in Handlers, NEW pc, NEW code
  PROVE  /\ task[h].pc = "wait" => Ended(h, pc, code).pc = pc /\ Ended(h, pc, code).c = run[h].c
         /\ task[h].pc # "wait" => Ended(h, pc, code).pc = "none"
<1>1. run[h] \in Run
  BY Placement
<1> QED BY <1>1 DEF Ended, Run, NoRun

LEMMA RunFailEffect ==
  ASSUME TypeOK, NEW h \in Handlers, RunFail(h)
  PROVE  /\ run[h].pc = "spawned"
         /\ RunTo(h, IF task[h].pc = "wait" THEN {"failed"} ELSE {"none"})
         /\ hs' = hs /\ KeepStore /\ KeepCrun /\ KeepTask /\ KeepDaemon
<1>1. PICK code \in Failures : run' = [run EXCEPT ![h] = Ended(h, "failed", code)]
  BY DEF RunFail
<1>2. RunTo(h, IF task[h].pc = "wait" THEN {"failed"} ELSE {"none"})
  BY <1>1, EndedFields, Placement DEF RunTo
<1> QED BY <1>2
        DEF RunFail, KeepStore, KeepCrun, KeepTask, KeepDaemon, diskVars, recVars

LEMMA RunStartEffect ==
  ASSUME TypeOK, NEW h \in Handlers, RunStart(h)
  PROVE  /\ run[h].pc = "attached" /\ crun[run[h].c].st = "created" /\ crun[run[h].c].by = h
         /\ crun'[run[h].c].st = "running" /\ crun'[run[h].c].by = h
         /\ \A d \in Containers : d # run[h].c => crun'[d] = crun[d]
         /\ RunTo(h, IF task[h].pc = "wait" THEN {"attached", "detached"} ELSE {"attached", "none"})
         /\ hs' = hs /\ KeepStore /\ KeepTask /\ KeepDaemon
<1>1. /\ run[h].pc = "attached" /\ crun[run[h].c].st = "created" /\ crun[run[h].c].by = h
      /\ run[h].c \in Containers /\ crun[run[h].c] \in CrunState /\ run[h] \in Run
  BY Placement DEF RunStart
<1>2. /\ crun'[run[h].c].st = "running" /\ crun'[run[h].c].by = h
      /\ \A d \in Containers : d # run[h].c => crun'[d] = crun[d]
  BY <1>1, Placement DEF RunStart, CrunState
<1>3. RunTo(h, IF task[h].pc = "wait" THEN {"attached", "detached"} ELSE {"attached", "none"})
  <2>1. CASE run' = run
    BY <1>1, <2>1, Placement DEF RunTo
  <2>2. CASE run' = [run EXCEPT ![h] = IF task[h].pc = "wait"
                                         THEN [run[h] EXCEPT !.pc = "detached"] ELSE NoRun]
    <3>1. [run[h] EXCEPT !.pc = "detached"].pc = "detached"
          /\ [run[h] EXCEPT !.pc = "detached"].c = run[h].c /\ NoRun.pc = "none"
      BY <1>1 DEF Run, NoRun
    <3> QED BY <2>2, <3>1, Placement DEF RunTo
  <2> QED BY <2>1, <2>2 DEF RunStart
<1> QED BY <1>1, <1>2, <1>3
        DEF RunStart, KeepStore, KeepTask, KeepDaemon, diskVars, recVars

LEMMA RunReapEffect ==
  ASSUME TypeOK, NEW h \in Handlers, RunReap(h)
  PROVE  /\ run[h].pc = "attached"
         /\ \/ crun[run[h].c].by = h /\ crun[run[h].c].st = "stopped" /\ Deletes(run[h].c)
            \/ crun[run[h].c].by # h /\ KeepCrun
         /\ RunTo(h, IF task[h].pc = "wait" THEN {"exited"} ELSE {"none"})
         /\ hs' = hs /\ KeepStore /\ KeepTask /\ KeepDaemon
<1>1. run[h].pc = "attached" /\ run[h].c \in Containers
  BY Placement DEF RunReap
<1>2. \/ crun[run[h].c].by = h /\ crun[run[h].c].st = "stopped" /\ Deletes(run[h].c)
      \/ crun[run[h].c].by # h /\ KeepCrun
  BY <1>1, CrunDeletes DEF RunReap, KeepCrun
<1>3. \E code : run' = [run EXCEPT ![h] = Ended(h, "exited", code)]
  BY DEF RunReap
<1>4. RunTo(h, IF task[h].pc = "wait" THEN {"exited"} ELSE {"none"})
  BY <1>3, EndedFields, Placement DEF RunTo
<1> QED BY <1>1, <1>2, <1>4 DEF RunReap, KeepStore, KeepTask, KeepDaemon, diskVars, recVars

LEMMA ProcExitEffect ==
  ASSUME TypeOK, NEW c \in Containers, ProcExit(c)
  PROVE  /\ crun[c].st = "running" /\ Stops(c)
         /\ hs' = hs /\ KeepStore /\ KeepRun /\ KeepTask /\ KeepDaemon
  BY CrunStops
  DEF ProcExit, Live, KeepStore, KeepRun, KeepTask, KeepDaemon, diskVars, recVars

LEMMA TaskFields ==
  ASSUME TypeOK, NEW h \in Handlers, NEW pc, NEW code, TaskGoto(h, pc, code)
  PROVE  TaskTo(h, pc)
<1>1. task[h] \in Task /\ task \in [Handlers -> Task]
  BY Placement
<1> DEFINE y == [task[h] EXCEPT !.pc = pc, !.code = {code}]
<1>2. y.pc = pc /\ y.c = task[h].c
  BY <1>1 DEF Task
<1>3. task' = [task EXCEPT ![h] = y]
  BY DEF TaskGoto
<1> HIDE DEF y
<1> QED BY <1>1, <1>2, <1>3 DEF TaskTo

LEMMA NoRunTo ==
  ASSUME TypeOK, NEW h \in Handlers, run' = [run EXCEPT ![h] = NoRun] PROVE RunTo(h, {"none"})
  BY Placement DEF RunTo, NoRun

LEMMA TaskSpawnEffect ==
  ASSUME TypeOK, NEW h \in Handlers, TaskSpawn(h)
  PROVE  /\ task[h].pc = "spawn"
         /\ \/ /\ TaskTo(h, "wait") /\ KeepOthers(h)
               /\ run'[h].pc = "spawned" /\ run'[h].c = task[h].c
            \/ TaskTo(h, "get") /\ KeepRun
         /\ hs' = hs /\ KeepStore /\ KeepCrun /\ KeepDaemon
<1>1. CASE /\ run' = [run EXCEPT ![h] = NewRun(task[h].c)]
           /\ task' = [task EXCEPT ![h] = [@ EXCEPT !.pc = "wait"]]
  <2>1. KeepOthers(h) /\ run'[h].pc = "spawned" /\ run'[h].c = task[h].c
    BY <1>1, Placement DEF NewRun, KeepOthers
  <2>2. [task[h] EXCEPT !.pc = "wait"].pc = "wait" /\ [task[h] EXCEPT !.pc = "wait"].c = task[h].c
    BY Placement DEF Task
  <2>3. TaskTo(h, "wait")
    BY <1>1, <2>2, Placement DEF TaskTo
  <2> QED BY <2>1, <2>3 DEF TaskSpawn, KeepStore, KeepCrun, KeepDaemon, diskVars, recVars
<1>2. CASE TaskGoto(h, "get", Forced) /\ UNCHANGED run
  BY <1>2, TaskFields
  DEF TaskSpawn, KeepRun, KeepStore, KeepCrun, KeepDaemon, diskVars, recVars
<1> QED BY <1>1, <1>2 DEF TaskSpawn

LEMMA TaskEndEffect ==
  ASSUME TypeOK, NEW h \in Handlers, TaskReap(h) \/ TaskTtyError(h)
  PROVE  /\ task[h].pc = "wait" /\ run[h].pc \in {"failed", "exited"}
         /\ TaskTo(h, "get") /\ RunTo(h, {"none"})
         /\ hs' = hs /\ KeepStore /\ KeepCrun /\ KeepDaemon
  BY TaskFields, NoRunTo
  DEF TaskReap, TaskTtyError, KeepStore, KeepCrun, KeepDaemon, diskVars, recVars

LEMMA TaskEofEffect ==
  ASSUME TypeOK, NEW h \in Handlers, TaskTtyEof(h)
  PROVE  /\ task[h].pc = "wait" /\ run[h].pc = "detached"
         /\ ~(crun[task[h].c].st = "running" /\ crun[task[h].c].by = h)
         /\ TaskTo(h, "get") /\ RunTo(h, {"none"}) /\ Deletes(task[h].c)
         /\ hs' = hs /\ KeepStore /\ KeepDaemon
<1>1. task[h].c \in Containers
  BY Placement DEF TaskTtyEof
<1> QED BY <1>1, TaskFields, NoRunTo, CrunDeletes
        DEF TaskTtyEof, KeepStore, KeepDaemon, diskVars, recVars

LEMMA NoTaskTo ==
  ASSUME TypeOK, NEW h \in Handlers, task' = [task EXCEPT ![h] = NoTask] PROVE TaskTo(h, "none")
  BY Placement DEF TaskTo, NoTask

LEMMA TaskGetEffect ==
  ASSUME TypeOK, NEW h \in Handlers, TaskGet(h)
  PROVE  /\ task[h].pc = "get"
         /\ \/ meta[task[h].c].state = "Absent" /\ TaskTo(h, "none")
            \/ meta[task[h].c].state # "Absent" /\ TaskTo(h, "put")
         /\ hs' = hs /\ KeepStore /\ KeepCrun /\ KeepRun /\ KeepDaemon
<1>1. task[h].pc = "get" /\ task[h] \in Task /\ task \in [Handlers -> Task]
  BY Placement DEF TaskGet
<1> DEFINE y == [task[h] EXCEPT !.pc = "put", !.r = meta[task[h].c]]
<1>2. y.pc = "put" /\ y.c = task[h].c
  BY <1>1 DEF Task
<1>3. task' = IF meta[task[h].c].state = "Absent" THEN [task EXCEPT ![h] = NoTask]
                                                  ELSE [task EXCEPT ![h] = y]
  BY DEF TaskGet
<1> HIDE DEF y
<1>4. \/ meta[task[h].c].state = "Absent" /\ TaskTo(h, "none")
      \/ meta[task[h].c].state # "Absent" /\ TaskTo(h, "put")
  BY <1>1, <1>2, <1>3, NoTaskTo DEF TaskTo
<1> QED BY <1>1, <1>4
        DEF TaskGet, KeepStore, KeepCrun, KeepRun, KeepDaemon, diskVars, crunVars, recVars

LEMMA TaskPutEffect ==
  ASSUME TypeOK, NEW h \in Handlers, TaskPut(h)
  PROVE  /\ task[h].pc = "put" /\ TaskTo(h, "none") /\ ids' = ids
         /\ \E r \in Record : r.state = "Exited" /\ Stores(task[h].c, r)
         /\ hs' = hs /\ KeepCrun /\ KeepRun /\ KeepDaemon
<1>1. task[h].pc = "put" /\ task[h].c \in Containers /\ task[h].r \in Record
  BY Placement DEF TaskPut, Task
<1>2. PICK code \in task[h].code : meta' = [meta EXCEPT ![task[h].c] = ExitedRecord(task[h].r, code)]
  BY DEF TaskPut
<1>3. code \in Codes
  BY <1>1, <1>2, OptSubset, Placement
<1>4. ExitedRecord(task[h].r, code) \in Record
  BY <1>1, <1>3, RecordTypes
<1>5. ExitedRecord(task[h].r, code).state = "Exited"
  BY <1>1 DEF ExitedRecord, Record
<1>6. Stores(task[h].c, ExitedRecord(task[h].r, code))
  BY <1>1, <1>2, MetaStores
<1> QED BY <1>1, <1>4, <1>5, <1>6, NoTaskTo
        DEF TaskPut, KeepCrun, KeepRun, KeepDaemon, crunVars, recVars

(* Crash and restart. *)
LEMMA CrashEffect ==
  ASSUME TypeOK, Crash
  PROVE  /\ daemon'.phase = "down" /\ daemon'.crashes > 0 /\ todo' = {} /\ rc'.pc = "idle"
         /\ \A h \in Handlers : hs'[h].pc = "idle" /\ task'[h].pc = "none"
         /\ \A h \in Handlers :
              \/ run[h].pc \in {"spawned", "attached"} /\ run'[h] = run[h]
              \/ run[h].pc \notin {"spawned", "attached"} /\ run'[h].pc = "none"
         /\ KeepStore /\ KeepCrun
<1>1. daemon.crashes \in Nat
  BY ContainerAssumption DEF TypeOK, Typed
<1>2. /\ daemon'.phase = "down" /\ daemon'.crashes > 0
  BY <1>1 DEF Crash
<1> QED BY <1>2 DEF Crash, Idle, NoTask, NoRun, NoRc, KeepStore, KeepCrun, diskVars

LEMMA RestartEffect ==
  ASSUME TypeOK, Restart
  PROVE  /\ daemon.phase = "down" /\ daemon'.phase = "reconcile" /\ daemon'.crashes = daemon.crashes
         /\ PromptCrun => \A h \in Handlers : ~Unsettled(h)
         /\ todo' = {c \in Containers : meta[c].state = "Running"} /\ rc' = rc
         /\ hs' = hs /\ KeepStore /\ KeepCrun /\ KeepRun /\ KeepTask
  BY DEF Restart, TypeOK, Typed, KeepStore, KeepCrun, KeepRun, KeepTask, diskVars, crunVars

LEMMA ProbeEffect ==
  ASSUME TypeOK, NEW c \in Containers, ReconcileProbe(c)
  PROVE  /\ daemon.phase = "reconcile" /\ rc.pc = "idle" /\ c \in todo
         /\ \/ todo' = todo \ {c} /\ rc' = rc
            \/ /\ rc'.pc = "delete" /\ rc'.c = c /\ todo' = todo
               /\ ~CrunFaults => crun[c].st # "running"
         /\ hs' = hs /\ daemon' = daemon /\ KeepStore /\ KeepCrun /\ KeepRun /\ KeepTask
  BY DEF ReconcileProbe, KeepStore, KeepCrun, KeepRun, KeepTask, diskVars, crunVars

LEMMA ReconcileDeleteEffect ==
  ASSUME TypeOK, ReconcileDelete
  PROVE  /\ rc.pc = "delete" /\ rc.c \in Containers /\ Deletes(rc.c)
         /\ rc'.pc = "put" /\ rc'.c = rc.c /\ rc'.seen = rc.seen
         /\ hs' = hs /\ daemon' = daemon /\ todo' = todo /\ KeepStore /\ KeepRun /\ KeepTask
<1>1. rc.pc = "delete" /\ rc.c \in Containers /\ rc \in Reconcile
  BY DEF ReconcileDelete, TypeOK, Typed, Placed
<1> QED BY <1>1, CrunDeletes
        DEF ReconcileDelete, Reconcile, KeepStore, KeepRun, KeepTask, diskVars

LEMMA ReconcilePutEffect ==
  ASSUME TypeOK, ReconcilePut
  PROVE  /\ rc.pc = "put" /\ rc.c \in Containers /\ rc'.pc = "idle" /\ todo' = todo \ {rc.c}
         /\ \E r \in Record : r.state \in {"Exited", "Unknown"} /\ Stores(rc.c, r)
         /\ hs' = hs /\ daemon' = daemon /\ ids' = ids /\ KeepCrun /\ KeepRun /\ KeepTask
<1>1. rc.pc = "put" /\ rc.c \in Containers /\ meta[rc.c] \in Record
  BY DEF ReconcilePut, TypeOK, Typed, Placed
<1> DEFINE r == ReconciledRecord(meta[rc.c], rc.seen)
<1>2. r \in Record
  BY <1>1, RecordTypes
<1>3. r.state \in {"Exited", "Unknown"}
  BY <1>1 DEF ReconciledRecord, Record
<1>4. meta' = [meta EXCEPT ![rc.c] = r]
  BY DEF ReconcilePut
<1> HIDE DEF r
<1>5. Stores(rc.c, r)
  BY <1>1, <1>4, MetaStores
<1> QED BY <1>1, <1>2, <1>3, <1>5
        DEF ReconcilePut, NoRc, KeepCrun, KeepRun, KeepTask, crunVars

LEMMA ServeEffect ==
  ASSUME TypeOK, Serve
  PROVE  /\ daemon.phase = "reconcile" /\ todo = {} /\ rc.pc = "idle"
         /\ daemon'.phase = "up" /\ daemon'.crashes = daemon.crashes
         /\ hs' = hs /\ todo' = todo /\ rc' = rc
         /\ KeepStore /\ KeepCrun /\ KeepRun /\ KeepTask
  BY DEF Serve, TypeOK, Typed, KeepStore, KeepCrun, KeepRun, KeepTask, diskVars, crunVars
-----------------------------------------------------------------------------
(* Supervision, with any overlap of requests and any behaviour of crun. *)

(* The steps that neither launch nor end a `crun run'. *)
Bystander ==
  \/ \E h \in Handlers, c \in Containers : Request(h, c)
  \/ \E h \in Handlers : (HandlerStep(h) /\ ~StartMark(h)) \/ Cancel(h)
  \/ \E c \in Containers : ProcExit(c)
  \/ Recovery
  \/ UNCHANGED vars

LEMMA StopsLive ==
  ASSUME NEW c \in Containers, Deletes(c) \/ Stops(c) \/ KeepCrun
  PROVE  \A d \in Containers : Live(d)' => Live(d) /\ crun'[d] = crun[d]
  BY DEF Deletes, Stops, KeepCrun, Live

LEMMA KeepsLive ==
  ASSUME KeepCrun PROVE \A d \in Containers : Live(d)' => Live(d) /\ crun'[d] = crun[d]
  BY DEF KeepCrun, Live

LEMMA BystanderEffect ==
  ASSUME TypeOK, Bystander
  PROVE  /\ KeepRun /\ KeepTask /\ daemon'.crashes = daemon.crashes
         /\ \A d \in Containers : Live(d)' => Live(d) /\ crun'[d] = crun[d]
         /\ \A i \in Handlers : hs'[i].pc \in {"check", "mark"} =>
              hs[i].pc \in {"check", "mark"} \/ (task[i].pc = "none" /\ run[i].pc = "none")
<1> DEFINE P == /\ KeepRun /\ KeepTask /\ daemon'.crashes = daemon.crashes
                /\ \A d \in Containers : Live(d)' => Live(d) /\ crun'[d] = crun[d]
                /\ \A i \in Handlers : hs'[i].pc \in {"check", "mark"} =>
                     hs[i].pc \in {"check", "mark"} \/ (task[i].pc = "none" /\ run[i].pc = "none")
<1>1. ASSUME NEW h \in Handlers, NEW c \in Containers, Request(h, c) PROVE P
  <2>1. ASSUME NEW lim \in Opt(Limits), CreateBundle(h, c, lim) PROVE P
    BY <2>1, CreateEffect, KeepsLive DEF KeepDaemon, Begins, Others
  <2>2. CASE StartGet(h, c)
    BY <2>2, StartGetEffect, KeepsLive DEF KeepDaemon, Begins, Others
  <2>3. CASE StopGet(h, c)
    BY <2>3, StopGetEffect, KeepsLive DEF KeepDaemon, Begins, Others
  <2>4. CASE RemoveDelete(h, c)
    BY <2>4, RemoveEffect, StopsLive DEF KeepDaemon, Begins, Others
  <2>5. CASE UpdateGet(h, c)
    BY <2>5, UpdateGetEffect, KeepsLive DEF KeepDaemon, Begins, Others
  <2> QED BY <1>1, <2>1, <2>2, <2>3, <2>4, <2>5 DEF Request
<1>2. ASSUME NEW h \in Handlers, HandlerStep(h), ~StartMark(h) PROVE P
  <2> USE DEF KeepDaemon, Leaves, Goes, Begins, Others
  <2>0. hs[h].pc # "idle" => hs[h].c \in Containers
    BY Placement
  <2>1. CASE CreatePut(h) BY <2>1, CreatePutEffect, KeepsLive
  <2>2. CASE StartCheck(h) BY <2>2, StartCheckEffect, KeepsLive
  <2>3. CASE StartWait(h) BY <2>3, StartWaitEffect, KeepsLive
  <2>4. CASE StopTerm(h) BY <2>4, StopTermEffect, KeepsLive
  <2>5. CASE StopPoll(h) BY <2>5, StopPollEffect, KeepsLive
  <2>6. CASE StopKill(h) BY <2>0, <2>6, StopKillEffect, StopsLive
  <2>7. CASE StopDelete(h) BY <2>0, <2>7, StopDeleteEffect, StopsLive
  <2>8. CASE StopFinal(h) BY <2>8, StopFinalEffect, KeepsLive
  <2>9. CASE StopSettle(h) BY <2>9, StopSettleEffect, KeepsLive
  <2>10. CASE RemoveForget(h) BY <2>10, RemoveForgetEffect, KeepsLive
  <2>11. CASE RemoveUnlink(h) BY <2>11, RemoveUnlinkEffect, KeepsLive
  <2>12. CASE UpdateApply(h) BY <2>12, UpdateApplyEffect, KeepsLive
  <2>13. CASE UpdatePut(h) BY <2>13, UpdatePutEffect, KeepsLive
  <2> QED BY <1>2, <2>1, <2>2, <2>3, <2>4, <2>5, <2>6, <2>7, <2>8, <2>9, <2>10, <2>11, <2>12,
             <2>13 DEF HandlerStep
<1>3. ASSUME NEW h \in Handlers, Cancel(h) PROVE P
  BY <1>3, CancelEffect, KeepsLive DEF KeepDaemon, Leaves, Others
<1>4. ASSUME NEW c \in Containers, ProcExit(c) PROVE P
  BY <1>4, ProcExitEffect, StopsLive DEF KeepDaemon
<1>5. CASE Recovery
  <2>1. CASE Restart BY <2>1, RestartEffect, KeepsLive
  <2>2. CASE ReconcileDelete BY <2>2, ReconcileDeleteEffect, StopsLive
  <2>3. CASE ReconcilePut BY <2>3, ReconcilePutEffect, KeepsLive
  <2>4. CASE Serve BY <2>4, ServeEffect, KeepsLive
  <2>5. ASSUME NEW c \in Containers, ReconcileProbe(c) PROVE P
    BY <2>5, ProbeEffect, KeepsLive
  <2> QED BY <1>5, <2>1, <2>2, <2>3, <2>4, <2>5 DEF Recovery
<1>6. CASE UNCHANGED vars
  BY <1>6, KeepsLive DEF vars, KeepRun, KeepTask, KeepCrun
<1> QED BY <1>1, <1>2, <1>3, <1>4, <1>5, <1>6 DEF Bystander

(* A slot launches one `crun run' at a time.  Until a crash every `crun run'
   has its task waiting, and what is live was registered by one of them. *)
Slots ==
  /\ \A h \in Handlers : hs[h].pc \in {"check", "mark"} => task[h].pc = "none" /\ run[h].pc = "none"
  /\ \A h \in Handlers : task[h].pc = "spawn" => run[h].pc = "none"
Watched(h) == run[h].pc # "none" => task[h].pc = "wait" /\ task[h].c = run[h].c
Keeper(c) ==
  Live(c) =>
    /\ crun[c].by \in Handlers /\ run[crun[c].by].c = c
    /\ run[crun[c].by].pc \in {"attached", "detached"}
    /\ crun[c].st = "created" => run[crun[c].by].pc = "attached"
SupervisionInv ==
  /\ TypeOK
  /\ Slots
  /\ daemon.crashes = 0 =>
       (\A h \in Handlers : Watched(h)) /\ (\A c \in Containers : Keeper(c))

LEMMA InitSupervision == ASSUME Init PROVE SupervisionInv
<1>1. TypeOK
  BY InitTypeOK
<1>2. \A h \in Handlers : hs[h].pc = "idle" /\ task[h].pc = "none" /\ run[h].pc = "none"
  BY DEF Init, Idle, NoTask, NoRun
<1>3. \A c \in Containers : ~Live(c)
  BY DEF Init, NoCrun, Live
<1> QED BY <1>1, <1>2, <1>3 DEF SupervisionInv, Slots, Watched, Keeper

LEMMA NextSupervision == ASSUME SupervisionInv, [Next]_vars PROVE SupervisionInv'
<1> TypeOK /\ Slots /\ TypeOK'
  BY NextTyped, NextPlaced DEF SupervisionInv, TypeOK
<1> DEFINE P == /\ Slots'
                /\ daemon'.crashes = 0 =>
                     (\A h \in Handlers : Watched(h)') /\ (\A c \in Containers : Keeper(c)')
<1> SUFFICES P
  BY DEF SupervisionInv
<1>1. CASE Bystander
  <2>1. /\ KeepRun /\ KeepTask /\ daemon'.crashes = daemon.crashes
        /\ \A d \in Containers : Live(d)' => Live(d) /\ crun'[d] = crun[d]
        /\ \A i \in Handlers : hs'[i].pc \in {"check", "mark"} =>
             hs[i].pc \in {"check", "mark"} \/ (task[i].pc = "none" /\ run[i].pc = "none")
    BY <1>1, BystanderEffect
  <2> QED BY <2>1 DEF SupervisionInv, Slots, Watched, Keeper, KeepRun, KeepTask
<1>2. ASSUME NEW h \in Handlers, StartMark(h) PROVE P
  <2>1. run[h].pc = "none" /\ daemon' = daemon /\ run' = run /\ crun' = crun
    BY <1>2, StartMarkEffect DEF Slots, KeepDaemon, KeepRun, KeepCrun
  <2>2. Slots'
    BY <1>2, <2>1, StartMarkEffect DEF Slots, Goes, Others
  <2>3. ASSUME daemon.crashes = 0 PROVE \A i \in Handlers : Watched(i)'
    BY <1>2, <2>1, <2>3, StartMarkEffect DEF SupervisionInv, Watched
  <2>4. ASSUME daemon.crashes = 0 PROVE \A c \in Containers : Keeper(c)'
    BY <2>1, <2>4 DEF SupervisionInv, Keeper, Live
  <2> QED BY <2>1, <2>2, <2>3, <2>4
<1>3. ASSUME NEW h \in Handlers, RunStep(h) PROVE P
  <2>1. hs' = hs /\ task' = task /\ daemon' = daemon
    BY <1>3, RegisterEffect, RunFailEffect, RunStartEffect, RunReapEffect
    DEF RunStep, KeepTask, KeepDaemon
  <2>2. \A i \in Handlers : i # h => run'[i] = run[i]
    BY <1>3, RegisterEffect, RunFailEffect, RunStartEffect, RunReapEffect DEF RunStep, RunTo
  <2>3. run[h].pc \in {"spawned", "attached"} /\ (run'[h].pc # "none" => run'[h].c = run[h].c)
    BY <1>3, RegisterEffect, RunFailEffect, RunStartEffect, RunReapEffect DEF RunStep, RunTo
  <2>4. Slots'
    BY <2>1, <2>2, <2>3 DEF Slots
  <2> SUFFICES ASSUME daemon.crashes = 0
               PROVE  (\A i \in Handlers : Watched(i)') /\ (\A c \in Containers : Keeper(c)')
    BY <2>1, <2>4
  <2>5. \A i \in Handlers : Watched(i)'
    BY <2>1, <2>2, <2>3 DEF SupervisionInv, Watched
  <2>6. task[h].pc = "wait" /\ run[h].c \in Containers
    BY <2>3, Placement DEF SupervisionInv, Watched
  <2> SUFFICES ASSUME NEW c \in Containers PROVE Keeper(c)'
    BY <2>5
  <2>7. Keeper(c)
    BY DEF SupervisionInv
  <2>8. CASE RunRegister(h)
    <3>1. RunTo(h, {"attached"}) /\ crun[run[h].c].st = "absent"
          /\ crun'[run[h].c].st = "created" /\ crun'[run[h].c].by = h
          /\ \A d \in Containers : d # run[h].c => crun'[d] = crun[d]
      BY <2>8, RegisterEffect
    <3> QED BY <2>2, <2>7, <3>1 DEF Keeper, Live, RunTo
  <2>9. CASE RunFail(h)
    <3>1. RunTo(h, {"failed"}) /\ run[h].pc = "spawned" /\ crun' = crun
      BY <2>6, <2>9, RunFailEffect DEF KeepCrun
    <3> QED BY <2>2, <2>7, <3>1 DEF Keeper, Live
  <2>10. CASE RunStart(h)
    <3>1. /\ RunTo(h, {"attached", "detached"}) /\ crun[run[h].c].by = h
          /\ crun'[run[h].c].st = "running" /\ crun'[run[h].c].by = h
          /\ crun[run[h].c].st = "created"
          /\ \A d \in Containers : d # run[h].c => crun'[d] = crun[d]
      BY <2>6, <2>10, RunStartEffect
    <3> QED BY <2>2, <2>3, <2>7, <3>1 DEF Keeper, Live, RunTo
  <2>11. CASE RunReap(h)
    <3>1. \/ crun[run[h].c].by = h /\ crun[run[h].c].st = "stopped" /\ Deletes(run[h].c)
          \/ crun[run[h].c].by # h /\ crun' = crun
      BY <2>11, RunReapEffect DEF KeepCrun
    <3> QED BY <2>2, <2>6, <2>7, <3>1 DEF Keeper, Live, Deletes
  <2> QED BY <1>3, <2>8, <2>9, <2>10, <2>11 DEF RunStep
<1>4. ASSUME NEW h \in Handlers, TaskStep(h) PROVE P
  <2>1. hs' = hs /\ daemon' = daemon /\ \A i \in Handlers : i # h => task'[i] = task[i]
    BY <1>4, TaskSpawnEffect, TaskEndEffect, TaskEofEffect, TaskGetEffect, TaskPutEffect
    DEF TaskStep, KeepDaemon, TaskTo
  <2>2. \A i \in Handlers : i # h => run'[i] = run[i]
    BY <1>4, TaskSpawnEffect, TaskEndEffect, TaskEofEffect, TaskGetEffect, TaskPutEffect
    DEF TaskStep, KeepRun, KeepOthers, RunTo
  <2>3. task[h].pc # "none" /\ task'[h].pc # "spawn" /\ task[h].c \in Containers
    <3>1. task[h].pc # "none" /\ task'[h].pc # "spawn"
      BY <1>4, TaskSpawnEffect, TaskEndEffect, TaskEofEffect, TaskGetEffect, TaskPutEffect
      DEF TaskStep, TaskTo
    <3> QED BY <3>1, Placement
  <2>4. Slots'
    BY <2>1, <2>2, <2>3 DEF Slots
  <2> SUFFICES ASSUME daemon.crashes = 0
               PROVE  (\A i \in Handlers : Watched(i)') /\ (\A c \in Containers : Keeper(c)')
    BY <2>1, <2>4
  <2>5. Watched(h) /\ \A c \in Containers : Keeper(c)
    BY DEF SupervisionInv
  <2>6. \A i \in Handlers : i # h => Watched(i)'
    BY <2>1, <2>2 DEF SupervisionInv, Watched
  <2>7. CASE TaskSpawn(h)
    <3>1. run[h].pc = "none" /\ crun' = crun
      BY <2>7, TaskSpawnEffect DEF Slots, KeepCrun
    <3>2. Watched(h)'
      BY <2>7, <3>1, TaskSpawnEffect DEF Watched, TaskTo, KeepRun
    <3>3. \A c \in Containers : Keeper(c)'
      BY <2>2, <2>5, <3>1 DEF Keeper, Live
    <3> QED BY <2>6, <3>2, <3>3
  <2>8. CASE TaskReap(h) \/ TaskTtyError(h)
    <3>1. run[h].pc \in {"failed", "exited"} /\ run'[h].pc = "none" /\ crun' = crun
      BY <2>8, TaskEndEffect DEF RunTo, KeepCrun
    <3>2. \A c \in Containers : Keeper(c)'
      BY <2>2, <2>5, <3>1 DEF Keeper, Live
    <3> QED BY <2>6, <3>1, <3>2 DEF Watched
  <2>9. CASE TaskTtyEof(h)
    <3>1. /\ run[h].pc = "detached" /\ run'[h].pc = "none" /\ Deletes(task[h].c)
          /\ task[h].c = run[h].c
      BY <2>5, <2>9, TaskEofEffect DEF RunTo, Watched
    <3>2. \A c \in Containers : Keeper(c)'
      BY <2>2, <2>3, <2>5, <3>1 DEF Keeper, Live, Deletes
    <3> QED BY <2>6, <3>1, <3>2 DEF Watched
  <2>10. CASE TaskGet(h) \/ TaskPut(h)
    <3>1. run' = run /\ crun' = crun /\ run[h].pc = "none"
      BY <2>5, <2>10, TaskGetEffect, TaskPutEffect DEF KeepRun, KeepCrun, Watched
    <3>2. \A c \in Containers : Keeper(c)'
      BY <2>5, <3>1 DEF Keeper, Live
    <3> QED BY <2>6, <3>1, <3>2 DEF Watched
  <2> QED BY <1>4, <2>7, <2>8, <2>9, <2>10 DEF TaskStep
<1>5. CASE Crash
  BY <1>5, CrashEffect DEF Slots
<1> QED BY <1>1, <1>2, <1>3, <1>4, <1>5 DEF Next, Bystander

(* As long as the daemon has not crashed, whatever crun keeps alive has its
   supervision task waiting on the `crun run' that registered it: no order of
   StartContainer, StopContainer, RemoveContainer and dropped requests leaves
   an unwatched workload. *)
THEOREM LiveStaysSupervised == Spec => []LiveIsSupervised
<1>1. Init => SupervisionInv
  BY InitSupervision
<1>2. SupervisionInv /\ [Next]_vars => SupervisionInv'
  BY NextSupervision
<1>3. SupervisionInv => LiveIsSupervised
  BY DEF SupervisionInv, Watched, Keeper, LiveIsSupervised
<1> QED BY <1>1, <1>2, <1>3, PTL DEF Spec
-----------------------------------------------------------------------------
(* What a restart does to the workloads. *)

(* Requests, handlers and tasks act only where there is one. *)
LEMMA StepsAreSomeones ==
  ASSUME NEW h \in Handlers
  PROVE  /\ \A c \in Containers : Request(h, c) => daemon.phase = "up"
         /\ HandlerStep(h) \/ Cancel(h) => hs[h].pc # "idle"
         /\ TaskStep(h) => task[h].pc # "none"
<1>1. ASSUME NEW c \in Containers, Request(h, c) PROVE daemon.phase = "up"
  BY <1>1 DEF Request, CreateBundle, StartGet, StopGet, RemoveDelete, UpdateGet, Accept
<1>2. HandlerStep(h) \/ Cancel(h) => hs[h].pc # "idle"
  BY ContainerAssumption
  DEF HandlerStep, Cancel, AwaitSteps, At, CreatePut, StartCheck, StartMark, StartWait, StopTerm, StopPoll,
         StopKill, StopDelete, StopFinal, StopSettle, RemoveForget, RemoveUnlink, UpdateApply,
         UpdatePut
<1>3. TaskStep(h) => task[h].pc # "none"
  BY DEF TaskStep, TaskSpawn, TaskReap, TaskTtyError, TaskTtyEof, TaskGet, TaskPut
<1> QED BY <1>1, <1>2, <1>3

(* The daemon goes down and comes back in these steps only. *)
LEMMA DaemonSteps ==
  ASSUME [Next]_vars
  PROVE  daemon' = daemon \/ Crash \/ Restart \/ Serve
<1>1. \A h \in Handlers, c \in Containers : Request(h, c) => daemon' = daemon
  BY DEF Request, CreateBundle, StartGet, StopGet, RemoveDelete, UpdateGet, recVars
<1>2. \A h \in Handlers : HandlerStep(h) \/ Cancel(h) => daemon' = daemon
  BY DEF HandlerStep, Cancel, CreatePut, StartCheck, StartMark, StartWait, StopTerm, StopPoll,
         StopKill, StopDelete, StopFinal, StopSettle, RemoveForget, RemoveUnlink, UpdateApply,
         UpdatePut, recVars
<1>3. \A h \in Handlers : RunStep(h) \/ TaskStep(h) => daemon' = daemon
  BY DEF RunStep, RunRegister, RunFail, RunStart, RunReap, TaskStep, TaskSpawn, TaskReap,
         TaskTtyError, TaskTtyEof, TaskGet, TaskPut, recVars
<1>4. \A c \in Containers : ProcExit(c) \/ ReconcileProbe(c) => daemon' = daemon
  BY DEF ProcExit, ReconcileProbe, recVars
<1>5. ReconcileDelete \/ ReconcilePut \/ UNCHANGED vars => daemon' = daemon
  BY DEF ReconcileDelete, ReconcilePut, vars
<1> QED BY <1>1, <1>2, <1>3, <1>4, <1>5 DEF Next, Recovery

(* While reconcile() runs, no `crun run' is about to register or to start
   its container, and what is about to be deleted is not running. *)
Settled == daemon.phase = "reconcile" => \A h \in Handlers : ~Unsettled(h)
SparedByRc == rc.pc = "delete" => crun[rc.c].st # "running"
RestartInv == CoherenceInv /\ Settled /\ SparedByRc

(* What can happen then: a `crun run' or a workload ends, reconcile() goes
   on, or the daemon crashes again. *)
LEMMA ReconcileSteps ==
  ASSUME RestartInv, [Next]_vars, daemon.phase = "reconcile"
  PROVE  \/ \E h \in Handlers : RunReap(h)
         \/ \E c \in Containers : ProcExit(c)
         \/ Crash \/ Recovery \/ UNCHANGED vars
<1>1. \A h \in Handlers : hs[h].pc = "idle" /\ task[h].pc = "none" /\ ~Unsettled(h)
  BY DEF RestartInv, CoherenceInv, Quiet, Settled
<1>2. \A h \in Handlers : ~RunRegister(h) /\ ~RunFail(h) /\ ~RunStart(h)
  BY <1>1 DEF RunRegister, RunFail, RunStart, Unsettled
<1> QED BY <1>1, <1>2, StepsAreSomeones DEF Next, RunStep

LEMMA InitRestart == ASSUME Init PROVE RestartInv
<1>1. Settled /\ SparedByRc
  BY DEF Init, NoRc, Settled, SparedByRc
<1> QED BY <1>1, InitCoherence DEF RestartInv

LEMMA NextRestart ==
  ASSUME PromptCrun, ~CrunFaults, RestartInv, [Next]_vars
  PROVE  RestartInv'
<1> TypeOK /\ CoherenceInv /\ CoherenceInv'
  BY NextCoherence DEF RestartInv, CoherenceInv
<1> SUFFICES Settled' /\ SparedByRc'
  BY DEF RestartInv
<1>1. CASE daemon.phase = "reconcile"
  <2>0. \A h \in Handlers : run[h].pc # "none" => run[h].c \in Containers
    BY Placement
  <2>1. ASSUME NEW h \in Handlers, RunReap(h) PROVE Settled' /\ SparedByRc'
    <3>1. /\ Deletes(run[h].c) \/ KeepCrun
          /\ RunTo(h, {"exited", "none"}) /\ run[h].c \in Containers /\ KeepDaemon
      BY <2>0, <2>1, RunReapEffect DEF RunTo
    <3>2. \A i \in Handlers : Unsettled(i)' => Unsettled(i)
      BY <2>0, <3>1 DEF Unsettled, RunTo, Deletes, KeepCrun
    <3>3. rc.pc = "delete" => rc.c \in Containers
      BY DEF TypeOK, Placed
    <3> QED BY <3>1, <3>2, <3>3 DEF RestartInv, Settled, SparedByRc, Deletes, KeepCrun, KeepDaemon
  <2>2. ASSUME NEW c \in Containers, ProcExit(c) PROVE Settled' /\ SparedByRc'
    <3>1. Stops(c) /\ KeepRun /\ KeepDaemon
      BY <2>2, ProcExitEffect
    <3>2. \A i \in Handlers : Unsettled(i)' => Unsettled(i)
      BY <2>0, <3>1 DEF Unsettled, Stops, KeepRun
    <3>3. rc.pc = "delete" => rc.c \in Containers
      BY DEF TypeOK, Placed
    <3> QED BY <3>1, <3>2, <3>3 DEF RestartInv, Settled, SparedByRc, Stops, KeepDaemon
  <2>3. CASE Crash
    BY <2>3, CrashEffect DEF Settled, SparedByRc
  <2>4. CASE Restart
    BY <1>1, <2>4 DEF Restart
  <2>5. CASE ReconcileDelete
    <3>1. Deletes(rc.c) /\ KeepRun /\ daemon' = daemon /\ rc'.pc = "put" /\ rc.c \in Containers
      BY <2>5, ReconcileDeleteEffect
    <3>2. \A i \in Handlers : Unsettled(i)' => Unsettled(i)
      BY <2>0, <3>1 DEF Unsettled, Deletes, KeepRun
    <3> QED BY <3>1, <3>2 DEF RestartInv, Settled, SparedByRc
  <2>6. CASE ReconcilePut
    BY <2>6, ReconcilePutEffect DEF RestartInv, Settled, SparedByRc, Unsettled, KeepRun, KeepCrun
  <2>7. CASE Serve
    BY <2>7, ServeEffect DEF Settled, SparedByRc
  <2>8. ASSUME NEW c \in Containers, ReconcileProbe(c) PROVE Settled' /\ SparedByRc'
    BY <2>8, ProbeEffect DEF RestartInv, Settled, SparedByRc, Unsettled, KeepRun, KeepCrun
  <2>9. CASE UNCHANGED vars
    BY <2>9 DEF vars, RestartInv, Settled, SparedByRc, Unsettled
  <2> QED BY <1>1, <2>1, <2>2, <2>3, <2>4, <2>5, <2>6, <2>7, <2>8, <2>9, ReconcileSteps DEF Recovery
<1>2. CASE daemon.phase # "reconcile" /\ daemon'.phase = "reconcile"
  <2>1. Restart
    BY <1>2, DaemonSteps, CrashEffect, ServeEffect
  <2>2. rc' = rc /\ rc.pc = "idle" /\ KeepCrun /\ KeepRun /\ \A h \in Handlers : ~Unsettled(h)
    BY <1>2, <2>1, RestartEffect DEF CoherenceInv, ReconcileAlone
  <2> QED BY <2>2 DEF Settled, SparedByRc, Unsettled, KeepCrun, KeepRun
<1>3. CASE daemon'.phase # "reconcile"
  BY <1>3 DEF CoherenceInv, ReconcileAlone, Settled, SparedByRc
<1> QED BY <1>1, <1>2, <1>3

(* reconcile() never force-deletes a container that runs, however many
   crashes and restarts there are and whatever was in progress at each: when
   crun answers truthfully and a `crun run' left behind by the last crash has
   settled before the daemon is up again. *)
THEOREM WorkloadsSurviveRestart ==
  ASSUME PromptCrun, ~CrunFaults
  PROVE  Spec => RestartSparesWorkloads
<1> DEFINE Spares == \A c \in Containers :
             daemon.phase = "reconcile" /\ crun[c].st = "running"
               => crun'[c].st \in {"running", "stopped"}
<1>1. Init => RestartInv
  BY InitRestart
<1>2. RestartInv /\ [Next]_vars => RestartInv'
  BY NextRestart
<1>3. RestartInv /\ [Next]_vars => [Spares]_vars
  <2> SUFFICES ASSUME RestartInv, [Next]_vars, daemon.phase = "reconcile",
                      NEW c \in Containers, crun[c].st = "running"
               PROVE  crun'[c].st \in {"running", "stopped"}
    OBVIOUS
  <2> TypeOK
    BY DEF RestartInv, CoherenceInv
  <2>1. ASSUME NEW h \in Handlers, RunReap(h) PROVE crun'[c].st \in {"running", "stopped"}
    <3>1. run[h].c \in Containers
      BY <2>1, RunReapEffect, Placement
    <3> QED BY <2>1, <3>1, RunReapEffect DEF Deletes, KeepCrun
  <2>2. ASSUME NEW d \in Containers, ProcExit(d) PROVE crun'[c].st \in {"running", "stopped"}
    BY <2>2, ProcExitEffect DEF Stops
  <2>3. CASE Crash BY <2>3, CrashEffect DEF KeepCrun
  <2>4. CASE Recovery
    <3>1. CASE ReconcileDelete
      BY <3>1, ReconcileDeleteEffect DEF RestartInv, SparedByRc, Deletes
    <3> QED BY <2>4, <3>1, RestartEffect, ReconcilePutEffect, ServeEffect, ProbeEffect
            DEF Recovery, KeepCrun
  <2>5. CASE UNCHANGED vars BY <2>5 DEF vars
  <2> QED BY <2>1, <2>2, <2>3, <2>4, <2>5, ReconcileSteps
<1> QED BY <1>1, <1>2, <1>3, PTL DEF Spec, RestartSparesWorkloads
-----------------------------------------------------------------------------
(* One request per container at a time, and a crun that registers an id while
   its StartContainer waits: which processes can be alive under which record. *)

(* The slot's supervision task, or its `crun run', is about c; and the id is
   not registered yet. *)
Involved(h, c) ==
  \/ task[h].pc # "none" /\ task[h].c = c
  \/ run[h].pc # "none" /\ run[h].c = c
Launch(h, c) ==
  \/ task[h].pc = "spawn" /\ task[h].c = c
  \/ run[h].pc = "spawned" /\ run[h].c = c

OneRequest ==
  \A h, i \in Handlers : hs[h].pc # "idle" /\ hs[i].pc # "idle" /\ hs[h].c = hs[i].c => h = i
OneLauncher ==
  \A h, i \in Handlers, c \in Containers : Involved(h, c) /\ Involved(i, c) => h = i

(* Nothing has been launched for a container that was not started, and what
   is alive is Running, or Unknown after a restart that could not tell. *)
RecordFits(c) ==
  /\ ids[c] # "known" => meta[c].state = "Absent"
  /\ meta[c].state = "Created" \/ ids[c] # "known" =>
       crun[c].st = "absent" /\ \A h \in Handlers : ~Involved(h, c)
  /\ Live(c) => meta[c].state \in {"Running", "Unknown"}

(* What a request relies on: StartContainer's record is still Created and
   its slot free; where StopContainer and RemoveContainer record the end, and
   where UpdateContainerResources puts back an ended record, the container is
   dead. *)
RequestFits(h) ==
  /\ hs[h].pc = "write" => ids[hs[h].c] = "reserved"
  /\ hs[h].pc \notin {"idle", "write"} => ids[hs[h].c] = "known"
  /\ hs[h].pc \in {"check", "mark"} =>
       meta[hs[h].c].state = "Created" /\ task[h].pc = "none" /\ run[h].pc = "none"
  /\ hs[h].pc \in {"final", "settle", "forget", "unlink"} => ~Live(hs[h].c)
  /\ hs[h].pc = "apply" /\ hs[h].r.state \notin {"Running", "Unknown"} => ~Live(hs[h].c)
  /\ hs[h].pc = "persist" => hs[h].r.state \in {"Running", "Unknown"}

(* What supervision relies on: the id is registered before StartContainer
   returns or before the daemon is back, and the outcome is reported when
   the container is dead. *)
SlotFits(h) ==
  /\ task[h].pc \in {"spawn", "get", "put"} => run[h].pc = "none"
  /\ task[h].pc = "wait" => run[h].pc # "none" /\ run[h].c = task[h].c
  /\ \A c \in Containers : Launch(h, c) =>
       /\ meta[c].state = "Running" /\ crun[c].st = "absent"
       /\ daemon.phase = "down" \/ (daemon.phase = "up" /\ hs[h].pc = "wait" /\ hs[h].c = c)
  /\ task[h].pc \in {"get", "put"} => ~Live(task[h].c)
  /\ run[h].pc \in {"failed", "exited"} => ~Live(run[h].c)
  /\ run[h].pc = "attached" => crun[run[h].c].st = "absent" \/ crun[run[h].c].by = h

DeadRc == rc.pc = "put" => ~Live(rc.c)

SerialParts ==
  /\ OneRequest /\ OneLauncher /\ DeadRc
  /\ \A c \in Containers : RecordFits(c)
  /\ \A h \in Handlers : RequestFits(h)
  /\ \A h \in Handlers : SlotFits(h)
SerialInv == CoherenceInv /\ SerialParts

LEMMA InitSerial == ASSUME Init PROVE SerialInv
<1>1. /\ \A h \in Handlers : hs[h].pc = "idle" /\ task[h].pc = "none" /\ run[h].pc = "none"
      /\ \A c \in Containers : ~Live(c) /\ crun[c].st = "absent" /\ meta[c].state = "Absent"
      /\ rc.pc = "idle"
  BY DEF Init, Idle, NoTask, NoRun, NoCrun, NoRc, NoRecord, Live
<1>2. SerialParts
  BY <1>1 DEF SerialParts, OneRequest, OneLauncher, RecordFits, RequestFits, SlotFits, DeadRc,
     Involved, Launch
<1> QED BY <1>2, InitCoherence DEF SerialInv

(* Nothing comes to life. *)
Fades ==
  \A d \in Containers :
    /\ Live(d)' => Live(d)
    /\ crun[d].st = "absent" => crun'[d].st = "absent"
    /\ crun'[d].st = "absent" \/ crun'[d].by = crun[d].by

LEMMA CrunFades ==
  ASSUME NEW c \in Containers, Deletes(c) \/ Stops(c) \/ KeepCrun PROVE Fades
  BY DEF Deletes, Stops, KeepCrun, Fades, Live

LEMMA KeepFades == ASSUME KeepCrun PROVE Fades
  BY DEF KeepCrun, Fades, Live

(* A request's step is about its own container, which no other request and
   no launch can be about. *)
LEMMA RequestFrame ==
  ASSUME SerialInv, NEW h \in Handlers, NEW c \in Containers,
         KeepRun, KeepTask, KeepDaemon, Fades, Others(h), daemon.phase = "up",
         \A d \in Containers : d # c => meta'[d] = meta[d] /\ ids'[d] = ids[d],
         (hs[h].pc = "idle" /\ ~Busy(c)) \/ (hs[h].pc # "idle" /\ hs[h].c = c),
         hs'[h].pc # "idle" => hs'[h].c = c,
         hs[h].pc = "wait" => ~Launch(h, c),
         RequestFits(h)', RecordFits(c)'
  PROVE  SerialParts'
<1> TypeOK /\ SerialParts
  BY DEF SerialInv, CoherenceInv
<1> USE DEF Involved, Launch, KeepRun, KeepTask, KeepDaemon, Others
<1>0. \A i \in Handlers : i # h /\ hs[i].pc # "idle" => hs[i].c \in Containers /\ hs[i].c # c
  BY Placement DEF SerialParts, OneRequest, Busy
<1>1. OneRequest'
  BY <1>0 DEF SerialParts, OneRequest
<1>2. OneLauncher'
  BY DEF SerialParts, OneLauncher
<1>3. DeadRc'
  BY DEF SerialParts, DeadRc, Fades, TypeOK, Placed
<1>4. ASSUME NEW d \in Containers PROVE RecordFits(d)'
  <2>1. CASE d # c
    BY <2>1 DEF SerialParts, RecordFits, Fades
  <2> QED BY <2>1
<1>5. ASSUME NEW i \in Handlers PROVE RequestFits(i)'
  <2>1. CASE i # h
    BY <1>0, <2>1 DEF SerialParts, RequestFits, Fades
  <2> QED BY <2>1
<1>6. ASSUME NEW i \in Handlers PROVE SlotFits(i)'
  <2>1. SlotFits(i)
    BY DEF SerialParts
  <2>2. ~Launch(i, c)
    BY <1>0, <2>1 DEF SlotFits
  <2>3. /\ task[i].pc # "none" => task[i].c \in Containers
        /\ run[i].pc # "none" => run[i].c \in Containers
    BY Placement
  <2>4. \A d \in Containers : Launch(i, d)' =>
          /\ meta'[d].state = "Running" /\ crun'[d].st = "absent"
          /\ daemon'.phase = "up" /\ hs'[i].pc = "wait" /\ hs'[i].c = d
    BY <2>1, <2>2 DEF SlotFits, Fades
  <2> QED BY <2>1, <2>3, <2>4 DEF SlotFits, Fades
<1> QED BY <1>1, <1>2, <1>3, <1>4, <1>5, <1>6 DEF SerialParts
(* A slot's step, of its task or of its `crun run', is about the container it
   launched. *)
LEMMA SlotFrame ==
  ASSUME SerialInv, NEW h \in Handlers, NEW c \in Containers,
         hs' = hs, KeepDaemon, ids' = ids, Involved(h, c),
         \A i \in Handlers : i # h => task'[i] = task[i] /\ run'[i] = run[i],
         \A d \in Containers : d # c => meta'[d] = meta[d] /\ crun'[d] = crun[d],
         \A d \in Containers : Involved(h, d)' => d = c,
         Fades \/ \A i \in Handlers : hs[i].pc # "idle" /\ hs[i].c = c => hs[i].pc = "wait",
         Fades \/ daemon.phase # "reconcile",
         RecordFits(c)', SlotFits(h)'
  PROVE  SerialParts'
<1> TypeOK /\ SerialParts
  BY DEF SerialInv, CoherenceInv
<1> USE DEF KeepDaemon
<1>0. meta[c].state # "Created" /\ ids[c] = "known"
      /\ \A i \in Handlers : i # h => ~Involved(i, c)
  BY DEF SerialParts, RecordFits, OneLauncher
<1>1. OneRequest'
  BY DEF SerialParts, OneRequest
<1>2. OneLauncher'
  BY <1>0 DEF SerialParts, OneLauncher, Involved
<1>3. DeadRc'
  BY DEF SerialParts, DeadRc, Fades, TypeOK, Placed, SerialInv, CoherenceInv, ReconcileAlone
<1>4. ASSUME NEW d \in Containers PROVE RecordFits(d)'
  <2>1. CASE d # c
    <3>1. \A i \in Handlers : Involved(i, d)' => Involved(i, d)
      BY <2>1 DEF Involved
    <3> QED BY <2>1, <3>1 DEF SerialParts, RecordFits, Live
  <2> QED BY <2>1
<1>5. ASSUME NEW i \in Handlers PROVE RequestFits(i)'
  <2>1. hs[i].pc # "idle" => hs[i].c \in Containers
    BY Placement
  <2>2. hs[i].pc \in {"check", "mark"} => hs[i].c # c /\ i # h
    BY <1>0, <2>1 DEF SerialParts, RequestFits, Involved
  <2>3. hs[i].pc # "idle" /\ hs[i].pc # "wait" /\ Live(hs[i].c)' => Live(hs[i].c)
    <3>1. CASE hs[i].c = c
      BY <2>1, <3>1 DEF Fades
    <3>2. CASE hs[i].c # c
      BY <2>1, <3>2 DEF Live
    <3> QED BY <3>1, <3>2
  <2> QED BY <2>1, <2>2, <2>3 DEF SerialParts, RequestFits
<1>6. ASSUME NEW i \in Handlers PROVE SlotFits(i)'
  <2>1. CASE i # h
    <3>1. SlotFits(i) /\ ~Involved(i, c)
      BY <1>0, <2>1 DEF SerialParts
    <3>2. /\ task[i].pc # "none" => task[i].c \in Containers /\ task[i].c # c
          /\ run[i].pc # "none" => run[i].c \in Containers /\ run[i].c # c
      BY <3>1, Placement DEF Involved
    <3> QED BY <2>1, <3>1, <3>2 DEF SlotFits, Launch, Live
  <2> QED BY <2>1
<1> QED BY <1>1, <1>2, <1>3, <1>4, <1>5, <1>6 DEF SerialParts

LEMMA RequestSerial ==
  ASSUME Serial, SerialInv, NEW h \in Handlers, NEW c \in Containers, Request(h, c)
  PROVE  SerialParts'
<1> TypeOK /\ SerialParts /\ RecordFits(c)
  BY DEF SerialInv, CoherenceInv, SerialParts
<1> USE DEF KeepStore, KeepRun, KeepTask, KeepDaemon, Begins
<1>1. ASSUME NEW lim \in Opt(Limits), CreateBundle(h, c, lim) PROVE SerialParts'
  <2>1. RecordFits(c)'
    BY <1>1, CreateEffect DEF RecordFits, Involved, Live, KeepCrun, IdTo
  <2>2. CASE hs' = hs
    <3>1. RequestFits(h)' /\ Others(h)
      BY <1>1, <2>2, CreateEffect DEF RequestFits, Others
    <3> QED BY <1>1, <2>1, <2>2, <3>1, CreateEffect, KeepFades, RequestFrame DEF IdTo
  <2>3. CASE Begins(h, "write", c, CreatedRecord(lim))
    <3>1. RequestFits(h)'
      BY <1>1, <2>3, CreateEffect DEF RequestFits, IdTo
    <3> QED BY <1>1, <2>1, <2>3, <3>1, CreateEffect, KeepFades, RequestFrame DEF IdTo
  <2> QED BY <1>1, <2>2, <2>3, CreateEffect
<1>2. CASE StartGet(h, c)
  <2>1. RequestFits(h)' /\ RecordFits(c)'
    BY <1>2, StartGetEffect DEF RequestFits, RecordFits, Involved, Live, KeepCrun
  <2> QED BY <1>2, <2>1, StartGetEffect, KeepFades, RequestFrame
<1>3. CASE StopGet(h, c)
  <2>1. RequestFits(h)' /\ RecordFits(c)'
    BY <1>3, StopGetEffect DEF RequestFits, RecordFits, Involved, Live, KeepCrun
  <2> QED BY <1>3, <2>1, StopGetEffect, KeepFades, RequestFrame
<1>4. CASE RemoveDelete(h, c)
  <2>1. RequestFits(h)' /\ RecordFits(c)'
    BY <1>4, RemoveEffect DEF RequestFits, RecordFits, Involved, Live, Deletes
  <2> QED BY <1>4, <2>1, RemoveEffect, CrunFades, RequestFrame
<1>5. CASE UpdateGet(h, c)
  <2>1. RequestFits(h)' /\ RecordFits(c)'
    BY <1>5, UpdateGetEffect DEF RequestFits, RecordFits, Involved, Live, KeepCrun
  <2> QED BY <1>5, <2>1, UpdateGetEffect, KeepFades, RequestFrame
<1> QED BY <1>1, <1>2, <1>3, <1>4, <1>5 DEF Request
LEMMA HandlerSerial ==
  ASSUME PromptCrun, "wait" \notin Cancels, SerialInv, NEW h \in Handlers,
         HandlerStep(h) \/ Cancel(h), ~StartMark(h)
  PROVE  SerialParts'
<1> TypeOK /\ SerialParts /\ hs[h].pc # "idle" /\ daemon.phase = "up"
  BY StepsAreSomeones DEF SerialInv, CoherenceInv, Quiet
<1> PICK c \in Containers : hs[h].c = c
  BY Placement
<1> /\ hs[h].r \in Record /\ RecordFits(c) /\ RequestFits(h) /\ SlotFits(h)
    /\ \A i \in Handlers : Launch(i, c) => hs[i].pc = "wait" /\ hs[i].c = c
  BY Placement DEF SerialParts, SlotFits
<1> USE DEF KeepStore, KeepRun, KeepTask, KeepDaemon, Goes, Begins, Leaves, Stores
<1>1. CASE CreatePut(h)
  <2>1. RequestFits(h)' /\ RecordFits(c)'
    BY <1>1, CreatePutEffect DEF RequestFits, RecordFits, Involved, Live, KeepCrun, IdTo
  <2> QED BY <1>1, <2>1, CreatePutEffect, KeepFades, RequestFrame DEF IdTo
<1>2. CASE StartCheck(h)
  <2>1. RequestFits(h)' /\ RecordFits(c)'
    BY <1>2, StartCheckEffect DEF RequestFits, RecordFits, Involved, Live, KeepCrun
  <2> QED BY <1>2, <2>1, StartCheckEffect, KeepFades, RequestFrame
<1>3. CASE StartWait(h)
  <2>1. RequestFits(h)' /\ RecordFits(c)'
    BY <1>3, StartWaitEffect DEF RequestFits, RecordFits, Involved, Live, KeepCrun
  <2>2. ~Launch(h, c)
    BY <1>3, StartWaitEffect DEF SlotFits, Launch, Launching
  <2> QED BY <1>3, <2>1, <2>2, StartWaitEffect, KeepFades, RequestFrame
<1>4. CASE StopTerm(h)
  <2>1. RequestFits(h)' /\ RecordFits(c)'
    BY <1>4, StopTermEffect DEF RequestFits, RecordFits, Involved, Live, KeepCrun
  <2> QED BY <1>4, <2>1, StopTermEffect, KeepFades, RequestFrame
<1>5. CASE StopPoll(h)
  <2>1. RequestFits(h)' /\ RecordFits(c)'
    BY <1>5, StopPollEffect DEF RequestFits, RecordFits, Involved, Live, KeepCrun
  <2> QED BY <1>5, <2>1, StopPollEffect, KeepFades, RequestFrame
<1>6. CASE StopKill(h)
  <2>1. RequestFits(h)' /\ RecordFits(c)'
    BY <1>6, StopKillEffect DEF RequestFits, RecordFits, Involved, Live, Stops, KeepCrun
  <2> QED BY <1>6, <2>1, StopKillEffect, CrunFades, RequestFrame
<1>7. CASE StopDelete(h)
  <2>1. RequestFits(h)' /\ RecordFits(c)'
    BY <1>7, StopDeleteEffect DEF RequestFits, RecordFits, Involved, Live, Deletes
  <2> QED BY <1>7, <2>1, StopDeleteEffect, CrunFades, RequestFrame
<1>8. CASE StopFinal(h)
  <2>1. RequestFits(h)' /\ RecordFits(c)'
    BY <1>8, StopFinalEffect DEF RequestFits, RecordFits, Involved, Live, KeepCrun
  <2> QED BY <1>8, <2>1, StopFinalEffect, KeepFades, RequestFrame
<1>9. CASE StopSettle(h)
  <2>1. RequestFits(h)' /\ RecordFits(c)'
    BY <1>9, StopSettleEffect DEF RequestFits, RecordFits, Involved, Live, KeepCrun
  <2> QED BY <1>9, <2>1, StopSettleEffect, KeepFades, RequestFrame
<1>10. CASE RemoveForget(h)
  <2>1. RequestFits(h)' /\ RecordFits(c)'
    <3>1. NoRecord.state = "Absent"
      BY DEF NoRecord
    <3> QED BY <1>10, <3>1, RemoveForgetEffect DEF RequestFits, RecordFits, Involved, Live, KeepCrun
  <2> QED BY <1>10, <2>1, RemoveForgetEffect, KeepFades, RequestFrame
<1>11. CASE RemoveUnlink(h)
  <2>1. RequestFits(h)' /\ RecordFits(c)'
    BY <1>11, RemoveUnlinkEffect DEF RequestFits, RecordFits, Involved, Live, KeepCrun
  <2> QED BY <1>11, <2>1, RemoveUnlinkEffect, KeepFades, RequestFrame
<1>12. CASE UpdateApply(h)
  <2>1. RequestFits(h)' /\ RecordFits(c)'
    BY <1>12, UpdateApplyEffect DEF RequestFits, RecordFits, Involved, Live, KeepCrun
  <2> QED BY <1>12, <2>1, UpdateApplyEffect, KeepFades, RequestFrame
<1>13. CASE UpdatePut(h)
  <2>1. RequestFits(h)' /\ RecordFits(c)'
    BY <1>13, UpdatePutEffect DEF RequestFits, RecordFits, Involved, Live, KeepCrun
  <2> QED BY <1>13, <2>1, UpdatePutEffect, KeepFades, RequestFrame
<1>14. CASE Cancel(h)
  <2>1. RequestFits(h)' /\ RecordFits(c)'
    BY <1>14, CancelEffect DEF RequestFits, RecordFits, Involved, Live, KeepCrun
  <2> QED BY <1>14, <2>1, CancelEffect, KeepFades, RequestFrame
<1> QED BY <1>1, <1>2, <1>3, <1>4, <1>5, <1>6, <1>7, <1>8, <1>9, <1>10, <1>11, <1>12, <1>13, <1>14
        DEF HandlerStep
LEMMA MarkSerial ==
  ASSUME SerialInv, NEW h \in Handlers, StartMark(h)
  PROVE  SerialParts'
<1> TypeOK /\ SerialParts /\ hs[h].pc = "mark" /\ daemon.phase = "up"
  BY StartMarkEffect DEF SerialInv, CoherenceInv, Quiet
<1> PICK c \in Containers : hs[h].c = c
  BY Placement
<1> /\ RecordFits(c) /\ RequestFits(h) /\ OneRequest /\ OneLauncher
    /\ meta[c].state = "Created" /\ task[h].pc = "none" /\ run[h].pc = "none"
    /\ crun[c].st = "absent" /\ \A i \in Handlers : ~Involved(i, c)
  BY DEF SerialParts, RecordFits, RequestFits
<1>0. /\ Goes(h, "wait") /\ ids' = ids /\ daemon' = daemon /\ rc' = rc /\ crun' = crun /\ run' = run
      /\ meta'[c].state = "Running" /\ \A d \in Containers : d # c => meta'[d] = meta[d]
      /\ task'[h].pc = "spawn" /\ task'[h].c = c
      /\ \A i \in Handlers : i # h => task'[i] = task[i]
  BY StartMarkEffect DEF KeepCrun, KeepRun, KeepDaemon, Stores
<1>1. OneRequest'
  BY <1>0 DEF OneRequest, Goes, Others
<1>2. OneLauncher'
  BY <1>0 DEF OneLauncher, Involved
<1>3. DeadRc'
  BY <1>0 DEF SerialParts, DeadRc, Live
<1>4. ASSUME NEW d \in Containers PROVE RecordFits(d)'
  <2>1. CASE d = c
    BY <1>0, <2>1 DEF RequestFits, RecordFits, Live
  <2>2. CASE d # c
    <3>1. \A i \in Handlers : Involved(i, d)' => Involved(i, d)
      BY <1>0, <2>2 DEF Involved
    <3> QED BY <1>0, <2>2, <3>1 DEF SerialParts, RecordFits, Live
  <2> QED BY <2>1, <2>2
<1>5. ASSUME NEW i \in Handlers PROVE RequestFits(i)'
  <2>1. CASE i = h
    BY <1>0, <2>1 DEF RequestFits, Goes
  <2>2. CASE i # h
    <3>1. hs[i].pc # "idle" => hs[i].c \in Containers /\ hs[i].c # c
      BY <2>2, Placement DEF OneRequest
    <3> QED BY <1>0, <2>2, <3>1 DEF SerialParts, RequestFits, Goes, Others, Live
  <2> QED BY <2>1, <2>2
<1>6. ASSUME NEW i \in Handlers PROVE SlotFits(i)'
  <2>1. CASE i = h
    BY <1>0, <2>1 DEF SlotFits, Launch, Goes
  <2>2. CASE i # h
    <3>1. SlotFits(i) /\ ~Involved(i, c) /\ hs'[i] = hs[i]
      BY <1>0, <2>2 DEF SerialParts, Goes, Others
    <3> QED BY <1>0, <2>2, <3>1 DEF SlotFits, Launch, Involved, Live
  <2> QED BY <2>1, <2>2
<1> QED BY <1>1, <1>2, <1>3, <1>4, <1>5, <1>6 DEF SerialParts

LEMMA RunSerial ==
  ASSUME SerialInv, NEW h \in Handlers, RunStep(h)
  PROVE  SerialParts'
<1> TypeOK /\ SerialParts
  BY DEF SerialInv, CoherenceInv
<1>0. /\ run[h].pc \in {"spawned", "attached"} /\ hs' = hs /\ KeepStore /\ KeepTask /\ KeepDaemon
      /\ KeepOthers(h) /\ (run'[h].pc # "none" => run'[h].c = run[h].c)
  BY RegisterEffect, RunFailEffect, RunStartEffect, RunReapEffect
  DEF RunStep, RunTo, KeepOthers
<1> PICK c \in Containers : run[h].c = c
  BY <1>0, Placement
<1> /\ RecordFits(c) /\ SlotFits(h) /\ Involved(h, c)
    /\ task[h].pc # "none" => task[h].pc = "wait" /\ task[h].c = c
  BY <1>0, Placement DEF SerialParts, SlotFits, Involved, Task, TaskPC
<1>1. /\ \A i \in Handlers : i # h => task'[i] = task[i] /\ run'[i] = run[i]
      /\ \A d \in Containers : Involved(h, d)' => d = c
      /\ KeepStore /\ ids' = ids /\ \A d \in Containers : d # c => meta'[d] = meta[d]
  BY <1>0 DEF KeepStore, KeepTask, KeepOthers, Involved
<1>2. CASE RunRegister(h)
  <2>1. /\ Launch(h, c) /\ crun'[c].st = "created" /\ crun'[c].by = h
        /\ run'[h].pc = "attached" /\ run'[h].c = c
        /\ \A d \in Containers : d # c => crun'[d] = crun[d]
    BY <1>2, RegisterEffect DEF Launch, RunTo
  <2>2. meta[c].state = "Running" /\ daemon.phase # "reconcile"
        /\ \A i \in Handlers : hs[i].pc # "idle" /\ hs[i].c = c => hs[i].pc = "wait"
    BY <2>1 DEF SlotFits, SerialInv, CoherenceInv, Quiet, SerialParts, OneRequest
  <2>3. RecordFits(c)'
    BY <1>0, <2>1, <2>2 DEF RecordFits, Live, KeepStore
  <2>4. SlotFits(h)'
    BY <1>0, <2>1, <2>2 DEF SlotFits, Launch, KeepTask
  <2> QED BY <1>0, <1>1, <2>1, <2>2, <2>3, <2>4, SlotFrame
<1>3. CASE RunFail(h)
  <2>1. run[h].pc = "spawned" /\ run'[h].pc \in {"failed", "none"} /\ crun' = crun
        /\ (task[h].pc = "wait" => run'[h].pc = "failed")
    BY <1>3, RunFailEffect DEF RunTo, KeepCrun
  <2>2. Fades /\ crun[c].st = "absent"
    BY <2>1, KeepFades DEF KeepCrun, SlotFits, Launch
  <2>3. RecordFits(c)'
    BY <1>0, <1>1, <2>1 DEF RecordFits, Live, KeepStore, Involved
  <2>4. SlotFits(h)'
    BY <1>0, <2>1, <2>2 DEF SlotFits, Launch, Live, KeepTask
  <2> QED BY <1>0, <1>1, <2>1, <2>2, <2>3, <2>4, SlotFrame
<1>4. CASE RunStart(h)
  <2>1. /\ run[h].pc = "attached" /\ crun[c].st = "created" /\ crun[c].by = h
        /\ crun'[c].st = "running" /\ crun'[c].by = h
        /\ \A d \in Containers : d # c => crun'[d] = crun[d]
        /\ run'[h].pc \in {"attached", "detached", "none"}
        /\ (task[h].pc = "wait" => run'[h].pc # "none")
    BY <1>4, RunStartEffect DEF RunTo
  <2>2. Fades
    BY <2>1 DEF Fades, Live
  <2>3. RecordFits(c)'
    BY <1>0, <1>1, <2>1 DEF RecordFits, Live, KeepStore
  <2>4. SlotFits(h)'
    BY <1>0, <2>1, <2>2 DEF SlotFits, Launch, Live, KeepTask
  <2> QED BY <1>0, <1>1, <2>1, <2>2, <2>3, <2>4, SlotFrame
<1>5. CASE RunReap(h)
  <2>1. /\ run[h].pc = "attached" /\ (Deletes(c) \/ KeepCrun)
        /\ ~Live(c)' /\ run'[h].pc \in {"exited", "none"}
        /\ (task[h].pc = "wait" => run'[h].pc # "none")
    BY <1>5, RunReapEffect DEF RunTo, SlotFits, Live, Deletes, KeepCrun
  <2>2. Fades /\ \A d \in Containers : d # c => crun'[d] = crun[d]
    BY <2>1, CrunFades DEF Deletes, KeepCrun
  <2>3. RecordFits(c)'
    BY <1>0, <1>1, <2>1, <2>2 DEF RecordFits, Fades, KeepStore
  <2>4. SlotFits(h)'
    BY <1>0, <2>1, <2>2 DEF SlotFits, Launch, KeepTask
  <2> QED BY <1>0, <1>1, <2>1, <2>2, <2>3, <2>4, SlotFrame
<1> QED BY <1>2, <1>3, <1>4, <1>5 DEF RunStep
LEMMA TaskSerial ==
  ASSUME SerialInv, NEW h \in Handlers, TaskStep(h)
  PROVE  SerialParts'
<1> TypeOK /\ SerialParts
  BY DEF SerialInv, CoherenceInv
<1>0. /\ task[h].pc # "none" /\ hs' = hs /\ KeepDaemon /\ ids' = ids
      /\ (\A i \in Handlers : i # h => task'[i] = task[i]) /\ KeepOthers(h)
      /\ (task'[h].pc # "none" => task'[h].c = task[h].c)
  BY TaskSpawnEffect, TaskEndEffect, TaskEofEffect, TaskGetEffect, TaskPutEffect
  DEF TaskStep, TaskTo, RunTo, KeepRun, KeepOthers, KeepStore
<1> PICK c \in Containers : task[h].c = c
  BY <1>0, Placement
<1> /\ RecordFits(c) /\ SlotFits(h) /\ Involved(h, c)
  BY <1>0 DEF SerialParts, Involved
<1>1. meta[c].state # "Created" /\ ids[c] = "known"
  BY DEF RecordFits
<1>2. CASE TaskSpawn(h)
  <2>1. /\ Launch(h, c) /\ KeepStore /\ KeepCrun /\ run[h].pc = "none"
        /\ \/ task'[h].pc = "wait" /\ task'[h].c = c /\ run'[h].pc = "spawned" /\ run'[h].c = c
           \/ task'[h].pc = "get" /\ task'[h].c = c /\ run'[h] = run[h]
    BY <1>2, TaskSpawnEffect DEF Launch, TaskTo, KeepRun, SlotFits
  <2>2. Fades /\ (\A d \in Containers : Involved(h, d)' => d = c)
    BY <2>1, KeepFades DEF Involved
  <2>3. RecordFits(c)'
    BY <1>1, <2>1 DEF RecordFits, Live, KeepStore, KeepCrun
  <2>4. /\ meta[c].state = "Running" /\ crun[c].st = "absent"
        /\ daemon.phase = "down" \/ (daemon.phase = "up" /\ hs[h].pc = "wait" /\ hs[h].c = c)
    BY <2>1 DEF SlotFits
  <2>5. SlotFits(h)'
    BY <1>0, <2>1, <2>4 DEF SlotFits, Launch, Live, KeepStore, KeepCrun, KeepDaemon
  <2> QED BY <1>0, <2>1, <2>2, <2>3, <2>5, SlotFrame DEF KeepOthers, KeepStore, KeepCrun
<1>3. CASE TaskReap(h) \/ TaskTtyError(h)
  <2>1. /\ KeepStore /\ KeepCrun /\ ~Live(c) /\ run'[h].pc = "none"
        /\ task'[h].pc = "get" /\ task'[h].c = c
    BY <1>3, TaskEndEffect DEF SlotFits, TaskTo, RunTo
  <2>2. Fades /\ (\A d \in Containers : Involved(h, d)' => d = c)
    BY <2>1, KeepFades DEF Involved
  <2>3. RecordFits(c)'
    BY <1>1, <2>1 DEF RecordFits, Live, KeepStore, KeepCrun
  <2>4. SlotFits(h)'
    BY <2>1, <2>2 DEF SlotFits, Launch, Fades
  <2> QED BY <1>0, <2>1, <2>2, <2>3, <2>4, SlotFrame DEF KeepOthers, KeepStore, KeepCrun
<1>4. CASE TaskTtyEof(h)
  <2>1. /\ KeepStore /\ Deletes(c) /\ run'[h].pc = "none"
        /\ task'[h].pc = "get" /\ task'[h].c = c
    BY <1>4, TaskEofEffect DEF TaskTo, RunTo
  <2>2. Fades /\ ~Live(c)' /\ (\A d \in Containers : Involved(h, d)' => d = c)
    BY <2>1, CrunFades DEF Involved, Deletes, Live
  <2>3. RecordFits(c)'
    BY <1>1, <2>1, <2>2 DEF RecordFits, KeepStore
  <2>4. SlotFits(h)'
    BY <2>1, <2>2 DEF SlotFits, Launch
  <2> QED BY <1>0, <2>1, <2>2, <2>3, <2>4, SlotFrame DEF KeepOthers, KeepStore, Deletes
<1>5. CASE TaskGet(h)
  <2>1. /\ KeepStore /\ KeepCrun /\ KeepRun /\ ~Live(c) /\ run[h].pc = "none"
        /\ task'[h].pc \in {"none", "put"} /\ (task'[h].pc # "none" => task'[h].c = c)
    BY <1>5, TaskGetEffect DEF SlotFits, TaskTo
  <2>2. Fades /\ (\A d \in Containers : Involved(h, d)' => d = c)
    BY <2>1, KeepFades DEF Involved, KeepRun
  <2>3. RecordFits(c)'
    BY <1>1, <2>1 DEF RecordFits, Live, KeepStore, KeepCrun
  <2>4. SlotFits(h)'
    BY <2>1, <2>2 DEF SlotFits, Launch, Fades, KeepRun
  <2> QED BY <1>0, <2>1, <2>2, <2>3, <2>4, SlotFrame DEF KeepOthers, KeepStore, KeepCrun
<1>6. CASE TaskPut(h)
  <2>1. /\ KeepCrun /\ KeepRun /\ ~Live(c) /\ run[h].pc = "none" /\ task'[h].pc = "none"
        /\ meta'[c].state = "Exited" /\ \A d \in Containers : d # c => meta'[d] = meta[d]
    BY <1>6, TaskPutEffect DEF SlotFits, TaskTo, Stores
  <2>2. Fades /\ (\A d \in Containers : Involved(h, d)' => d = c)
    BY <2>1, KeepFades DEF Involved, KeepRun
  <2>3. RecordFits(c)'
    BY <1>0, <1>1, <2>1 DEF RecordFits, Live, KeepCrun
  <2>4. SlotFits(h)'
    BY <2>1, <2>2 DEF SlotFits, Launch, Fades, KeepRun
  <2> QED BY <1>0, <2>1, <2>2, <2>3, <2>4, SlotFrame DEF KeepOthers, KeepCrun
<1> QED BY <1>2, <1>3, <1>4, <1>5, <1>6 DEF TaskStep

(* The workload's end and reconcile()'s force-delete. *)
LEMMA FadeFrame ==
  ASSUME SerialInv, hs' = hs, KeepStore, KeepRun, KeepTask, Fades,
         daemon'.phase = daemon.phase,
         DeadRc'
  PROVE  SerialParts'
<1> TypeOK /\ SerialParts
  BY DEF SerialInv, CoherenceInv
<1> USE DEF KeepStore, KeepRun, KeepTask, Involved, Launch
<1>1. OneRequest' /\ OneLauncher'
  BY DEF SerialParts, OneRequest, OneLauncher
<1>2. ASSUME NEW d \in Containers PROVE RecordFits(d)'
  BY DEF SerialParts, RecordFits, Fades
<1>3. ASSUME NEW i \in Handlers PROVE RequestFits(i)' /\ SlotFits(i)'
  <2>1. /\ hs[i].pc # "idle" => hs[i].c \in Containers
        /\ task[i].pc # "none" => task[i].c \in Containers
        /\ run[i].pc # "none" => run[i].c \in Containers
    BY Placement
  <2>2. RequestFits(i)'
    BY <2>1 DEF SerialParts, RequestFits, Fades
  <2>3. SlotFits(i)'
    BY <2>1 DEF SerialParts, SlotFits, Fades
  <2> QED BY <2>2, <2>3
<1> QED BY <1>1, <1>2, <1>3 DEF SerialParts

LEMMA RecoverySerial ==
  ASSUME PromptCrun, SerialInv, Recovery
  PROVE  SerialParts'
<1> TypeOK /\ SerialParts /\ CoherenceInv
  BY DEF SerialInv, CoherenceInv
<1>0. rc.pc # "idle" => rc.c \in Containers
  BY DEF TypeOK, Placed
<1>1. CASE Restart
  <2>1. /\ daemon.phase = "down" /\ hs' = hs /\ rc' = rc /\ KeepStore /\ KeepCrun /\ KeepRun /\ KeepTask
        /\ \A h \in Handlers : task[h].pc = "none" /\ run[h].pc # "spawned"
    BY <1>1, RestartEffect DEF CoherenceInv, Quiet, Unsettled
  <2> USE <2>1 DEF KeepStore, KeepCrun, KeepRun, KeepTask, Involved, Launch, Live
  <2>2. OneRequest' /\ OneLauncher' /\ DeadRc'
    BY DEF SerialParts, OneRequest, OneLauncher, DeadRc
  <2>3. \A d \in Containers : RecordFits(d)'
    BY DEF SerialParts, RecordFits
  <2>4. \A i \in Handlers : RequestFits(i)'
    BY DEF SerialParts, RequestFits
  <2>5. \A i \in Handlers : SlotFits(i)'
    BY DEF SerialParts, SlotFits
  <2> QED BY <2>2, <2>3, <2>4, <2>5 DEF SerialParts
<1>2. CASE ReconcileDelete
  <2>1. DeadRc' /\ Fades
    BY <1>0, <1>2, ReconcileDeleteEffect, CrunFades DEF DeadRc, Deletes, Live
  <2> QED BY <1>2, <2>1, ReconcileDeleteEffect, FadeFrame
<1>3. CASE ReconcilePut
  <2>1. /\ daemon.phase = "reconcile" /\ hs' = hs /\ KeepCrun /\ KeepRun /\ KeepTask /\ ids' = ids
        /\ daemon' = daemon /\ rc'.pc = "idle" /\ ~Live(rc.c) /\ meta[rc.c].state = "Running"
        /\ meta'[rc.c].state \in {"Exited", "Unknown"}
        /\ \A d \in Containers : d # rc.c => meta'[d] = meta[d]
        /\ \A i \in Handlers : hs[i].pc = "idle" /\ task[i].pc = "none"
    BY <1>3, ReconcilePutEffect
    DEF SerialParts, DeadRc, CoherenceInv, ReconcileAlone, Quiet, Stores
  <2> USE <2>1 DEF KeepCrun, KeepRun, KeepTask, Involved, Launch, Live
  <2>2. OneRequest' /\ OneLauncher' /\ DeadRc'
    BY DEF SerialParts, OneRequest, OneLauncher, DeadRc
  <2>3. \A d \in Containers : RecordFits(d)'
    BY DEF SerialParts, RecordFits
  <2>4. \A i \in Handlers : RequestFits(i)'
    BY DEF SerialParts, RequestFits
  <2>5. \A i \in Handlers : SlotFits(i)'
    BY DEF SerialParts, SlotFits
  <2> QED BY <2>2, <2>3, <2>4, <2>5 DEF SerialParts
<1>4. CASE Serve
  <2>1. /\ daemon.phase = "reconcile" /\ hs' = hs /\ rc' = rc
        /\ KeepStore /\ KeepCrun /\ KeepRun /\ KeepTask
        /\ \A i \in Handlers : hs[i].pc = "idle" /\ task[i].pc = "none"
    BY <1>4, ServeEffect DEF CoherenceInv, Quiet
  <2> USE <2>1 DEF KeepStore, KeepCrun, KeepRun, KeepTask, Involved, Launch, Live
  <2>2. OneRequest' /\ OneLauncher' /\ DeadRc'
    BY DEF SerialParts, OneRequest, OneLauncher, DeadRc
  <2>3. \A d \in Containers : RecordFits(d)'
    BY DEF SerialParts, RecordFits
  <2>4. \A i \in Handlers : RequestFits(i)'
    BY DEF SerialParts, RequestFits
  <2>5. ASSUME NEW i \in Handlers PROVE SlotFits(i)'
    <3>1. SlotFits(i) /\ \A d \in Containers : ~Launch(i, d)
      BY DEF SerialParts, SlotFits
    <3> QED BY <3>1 DEF SlotFits
  <2> QED BY <2>2, <2>3, <2>4, <2>5 DEF SerialParts
<1>5. ASSUME NEW c \in Containers, ReconcileProbe(c) PROVE SerialParts'
  <2>1. DeadRc' /\ Fades
    BY <1>5, ProbeEffect, KeepFades DEF DeadRc
  <2> QED BY <1>5, <2>1, ProbeEffect, FadeFrame
<1> QED BY <1>1, <1>2, <1>3, <1>4, <1>5 DEF Recovery

LEMMA NextSerial ==
  ASSUME Serial, PromptCrun, "wait" \notin Cancels, SerialInv, [Next]_vars
  PROVE  SerialInv'
<1> TypeOK /\ SerialParts /\ CoherenceInv'
  BY NextCoherence DEF SerialInv, CoherenceInv
<1> SUFFICES SerialParts'
  BY DEF SerialInv
<1>1. ASSUME NEW h \in Handlers, NEW c \in Containers, Request(h, c) PROVE SerialParts'
  BY <1>1, RequestSerial
<1>2. ASSUME NEW h \in Handlers, HandlerStep(h) \/ Cancel(h) PROVE SerialParts'
  BY <1>2, HandlerSerial, MarkSerial
<1>3. ASSUME NEW h \in Handlers, RunStep(h) PROVE SerialParts'
  BY <1>3, RunSerial
<1>4. ASSUME NEW h \in Handlers, TaskStep(h) PROVE SerialParts'
  BY <1>4, TaskSerial
<1>5. ASSUME NEW c \in Containers, ProcExit(c) PROVE SerialParts'
  <2>1. Fades /\ KeepDaemon
    BY <1>5, ProcExitEffect, CrunFades
  <2>2. DeadRc'
    BY <2>1 DEF SerialParts, DeadRc, Fades, KeepDaemon, TypeOK, Placed
  <2> QED BY <1>5, <2>1, <2>2, ProcExitEffect, FadeFrame DEF KeepDaemon
<1>6. CASE Crash
  <2>1. /\ daemon'.phase = "down" /\ rc'.pc = "idle" /\ KeepStore /\ KeepCrun
        /\ \A h \in Handlers : hs'[h].pc = "idle" /\ task'[h].pc = "none"
        /\ \A h \in Handlers : run'[h].pc # "none" =>
             run'[h] = run[h] /\ run[h].pc \in {"spawned", "attached"}
    BY <1>6, CrashEffect
  <2> USE <2>1 DEF KeepStore, KeepCrun, Involved, Launch, Live
  <2>2. OneRequest' /\ OneLauncher' /\ DeadRc'
    BY DEF SerialParts, OneRequest, OneLauncher, DeadRc
  <2>3. \A d \in Containers : RecordFits(d)'
    BY DEF SerialParts, RecordFits
  <2>4. \A i \in Handlers : RequestFits(i)'
    BY DEF SerialParts, RequestFits
  <2>5. ASSUME NEW i \in Handlers PROVE SlotFits(i)'
    BY DEF SerialParts, SlotFits
  <2> QED BY <2>2, <2>3, <2>4, <2>5 DEF SerialParts
<1>7. CASE Recovery
  BY <1>7, RecoverySerial
<1>8. CASE UNCHANGED vars
  <2>1. Fades /\ DeadRc'
    BY <1>8, KeepFades DEF vars, KeepCrun, SerialParts, DeadRc, Live
  <2> QED BY <1>8, <2>1, FadeFrame DEF vars, KeepStore, KeepRun, KeepTask
<1> QED BY <1>1, <1>2, <1>3, <1>4, <1>5, <1>6, <1>7, <1>8 DEF Next

(* A container reported Exited has no process left, through any sequence of
   requests of which at most one at a time is about it, abandoned ones
   included but for StartContainer in its wait, and through any number of
   crashes of the daemon: given that crun registers an id while its
   StartContainer waits for it. *)
THEOREM ExitedStaysDead ==
  ASSUME Serial, PromptCrun, "wait" \notin Cancels
  PROVE  Spec => []ExitedMeansDead
<1>1. Init => SerialInv
  BY InitSerial
<1>2. SerialInv /\ [Next]_vars => SerialInv'
  BY NextSerial
<1>3. SerialInv => ExitedMeansDead
  BY DEF SerialInv, SerialParts, RecordFits, ExitedMeansDead
<1> QED BY <1>1, <1>2, <1>3, PTL DEF Spec

(* Under the same conditions no live process loses its record. *)
THEOREM LiveKeepsItsRecord ==
  ASSUME Serial, PromptCrun, "wait" \notin Cancels
  PROVE  Spec => []NoOrphanProcess
<1>1. Init => SerialInv
  BY InitSerial
<1>2. SerialInv /\ [Next]_vars => SerialInv'
  BY NextSerial
<1>3. SerialInv => NoOrphanProcess
  BY DEF SerialInv, SerialParts, RecordFits, NoOrphanProcess
<1> QED BY <1>1, <1>2, <1>3, PTL DEF Spec
-----------------------------------------------------------------------------
(* The life of a record. *)

(* The steps that store a record or publish an id; no other step does. *)
StoreStep ==
  \/ \E h \in Handlers, c \in Containers, lim \in Opt(Limits) : CreateBundle(h, c, lim)
  \/ \E h \in Handlers : \/ CreatePut(h) \/ StartMark(h) \/ StopSettle(h) \/ RemoveForget(h)
                         \/ UpdatePut(h) \/ TaskPut(h)
  \/ ReconcilePut

LEMMA StoreSteps == ASSUME TypeOK, [Next]_vars PROVE StoreStep \/ KeepStore
<1>1. ASSUME NEW h \in Handlers, NEW c \in Containers, Request(h, c) PROVE StoreStep \/ KeepStore
  BY <1>1, StartGetEffect, StopGetEffect, RemoveEffect, UpdateGetEffect DEF Request, StoreStep
<1>2. ASSUME NEW h \in Handlers, HandlerStep(h) \/ Cancel(h) PROVE StoreStep \/ KeepStore
  BY <1>2, StartCheckEffect, StartWaitEffect, StopTermEffect, StopPollEffect, StopKillEffect,
     StopDeleteEffect, StopFinalEffect, RemoveUnlinkEffect, UpdateApplyEffect, CancelEffect
  DEF HandlerStep, StoreStep
<1>3. ASSUME NEW h \in Handlers, RunStep(h) PROVE KeepStore
  BY <1>3, RegisterEffect, RunFailEffect, RunStartEffect, RunReapEffect DEF RunStep
<1>4. ASSUME NEW h \in Handlers, TaskStep(h) PROVE StoreStep \/ KeepStore
  BY <1>4, TaskSpawnEffect, TaskEndEffect, TaskEofEffect, TaskGetEffect DEF TaskStep, StoreStep
<1>5. ASSUME NEW c \in Containers, ProcExit(c) PROVE KeepStore
  BY <1>5, ProcExitEffect
<1>6. CASE Crash BY <1>6, CrashEffect
<1>7. CASE Recovery
  BY <1>7, RestartEffect, ProbeEffect, ReconcileDeleteEffect, ServeEffect DEF Recovery, StoreStep
<1>8. CASE UNCHANGED vars BY <1>8 DEF vars, KeepStore
<1> QED BY <1>1, <1>2, <1>3, <1>4, <1>5, <1>6, <1>7, <1>8 DEF Next

(* A record becomes Created where CreateContainer or UpdateContainerResources
   stores such a copy. *)
LEMMA CreatedBy ==
  ASSUME TypeOK, [Next]_vars, NEW c \in Containers,
         meta'[c].state = "Created", meta[c].state # "Created"
  PROVE  \E h \in Handlers : /\ hs[h].pc \in {"write", "persist"}
                             /\ hs[h].c = c /\ hs[h].r.state = "Created"
<1>1. ~KeepStore
  BY DEF KeepStore
<1>2. ASSUME NEW h \in Handlers, CreatePut(h) \/ UpdatePut(h)
      PROVE  hs[h].pc \in {"write", "persist"} /\ hs[h].c = c /\ hs[h].r.state = "Created"
  BY <1>2, CreatePutEffect, UpdatePutEffect, Placement DEF Stores
<1>3. ASSUME NEW h \in Handlers, NEW d \in Containers, NEW lim \in Opt(Limits), CreateBundle(h, d, lim)
      PROVE  FALSE
  BY <1>3, CreateEffect
<1>4. ASSUME NEW h \in Handlers, StartMark(h) \/ StopSettle(h) \/ RemoveForget(h) \/ TaskPut(h)
      PROVE  FALSE
  <2>1. NoRecord.state # "Created"
    BY DEF NoRecord
  <2> QED BY <1>4, <2>1, StartMarkEffect, StopSettleEffect, RemoveForgetEffect, TaskPutEffect, Placement
          DEF Stores
<1>5. CASE ReconcilePut
  BY <1>5, ReconcilePutEffect DEF Stores
<1> QED BY <1>1, <1>2, <1>3, <1>4, <1>5, StoreSteps DEF StoreStep

(* Under the conditions of ExitedStaysDead, no container is started twice:
   once it has left Created no request, crash or restart stores it as Created
   again, and UpdateContainerResources does not put an old copy back. *)
THEOREM StartedOnce ==
  ASSUME Serial, PromptCrun, "wait" \notin Cancels
  PROVE  Spec => NeverRelaunched
<1> DEFINE Once == \A c \in Containers :
             meta'[c].state = "Created" => meta[c].state = "Created" \/ ids[c] = "reserved"
<1>1. Init => SerialInv
  BY InitSerial
<1>2. SerialInv /\ [Next]_vars => SerialInv'
  BY NextSerial
<1>3. SerialInv /\ [Next]_vars => [Once]_vars
  <2> SUFFICES ASSUME SerialInv, [Next]_vars, NEW c \in Containers,
                      meta'[c].state = "Created", meta[c].state # "Created"
               PROVE  ids[c] = "reserved"
    OBVIOUS
  <2>1. PICK h \in Handlers : /\ hs[h].pc \in {"write", "persist"}
                              /\ hs[h].c = c /\ hs[h].r.state = "Created"
    BY CreatedBy DEF SerialInv, CoherenceInv
  <2> QED BY <2>1 DEF SerialInv, SerialParts, RequestFits
<1> QED BY <1>1, <1>2, <1>3, PTL DEF Spec, NeverRelaunched
(* With CreateContainer, StartContainer and StopContainer, one at a time per
   container: an id is known exactly when it has a record, a Created record
   has no supervision task yet, and StartContainer's is still Created. *)
LifeRecord(c) ==
  /\ ids[c] = "known" <=> meta[c].state # "Absent"
  /\ meta[c].state = "Created" => \A h \in Handlers : ~(task[h].pc # "none" /\ task[h].c = c)
LifeRequest(h) ==
  /\ hs[h].pc \notin {"forget", "unlink", "apply", "persist"}
  /\ hs[h].pc = "write" => ids[hs[h].c] = "reserved" /\ hs[h].r.state = "Created"
  /\ hs[h].pc \notin {"idle", "write"} => ids[hs[h].c] = "known"
  /\ hs[h].pc \in {"check", "mark"} => meta[hs[h].c].state = "Created"
LifeTask(h) == task[h].pc # "none" => ids[task[h].c] = "known"
LifeParts ==
  /\ OneRequest
  /\ \A c \in Containers : LifeRecord(c)
  /\ \A h \in Handlers : LifeRequest(h)
  /\ \A h \in Handlers : LifeTask(h)
LifeInv == CoherenceInv /\ LifeParts

LEMMA InitLife == ASSUME Init PROVE LifeInv
<1>1. /\ \A h \in Handlers : hs[h].pc = "idle" /\ task[h].pc = "none"
      /\ \A c \in Containers : meta[c].state = "Absent" /\ ids[c] = "fresh"
  BY DEF Init, Idle, NoTask, NoRecord
<1>2. LifeParts
  BY <1>1 DEF LifeParts, OneRequest, LifeRecord, LifeRequest, LifeTask
<1> QED BY <1>2, InitCoherence DEF LifeInv

LEMMA LifeFrame ==
  ASSUME LifeInv, NEW h \in Handlers, NEW c \in Containers, KeepTask, Others(h),
         \A d \in Containers : d # c => meta'[d] = meta[d] /\ ids'[d] = ids[d],
         (hs[h].pc = "idle" /\ ~Busy(c)) \/ (hs[h].pc # "idle" /\ hs[h].c = c),
         hs'[h].pc # "idle" => hs'[h].c = c,
         ids[c] = "known" => ids'[c] = "known",
         LifeRequest(h)', LifeRecord(c)'
  PROVE  LifeParts'
<1> TypeOK /\ LifeParts
  BY DEF LifeInv, CoherenceInv
<1>0. \A i \in Handlers : i # h /\ hs[i].pc # "idle" => hs[i].c \in Containers /\ hs[i].c # c
  BY Placement DEF LifeParts, OneRequest, Busy
<1>1. OneRequest'
  BY <1>0 DEF LifeParts, OneRequest, Others
<1>2. \A d \in Containers : LifeRecord(d)'
  BY DEF LifeParts, LifeRecord, KeepTask
<1>3. \A i \in Handlers : LifeRequest(i)'
  BY <1>0 DEF LifeParts, LifeRequest, Others
<1>4. \A i \in Handlers : LifeTask(i)'
  BY Placement DEF LifeParts, LifeTask, KeepTask
<1> QED BY <1>1, <1>2, <1>3, <1>4 DEF LifeParts

(* Steps that touch neither records nor requests, and launch nothing. *)
LEMMA LifeRest ==
  ASSUME LifeInv, hs' = hs \/ \A h \in Handlers : hs'[h].pc = "idle", KeepStore,
         \A h \in Handlers : task'[h].pc # "none" => task[h].pc # "none" /\ task'[h].c = task[h].c
  PROVE  LifeParts'
<1> LifeParts
  BY DEF LifeInv
<1>1. OneRequest'
  BY DEF LifeParts, OneRequest
<1>2. \A d \in Containers : LifeRecord(d)'
  BY DEF LifeParts, LifeRecord, KeepStore
<1>3. \A i \in Handlers : LifeRequest(i)'
  BY DEF LifeParts, LifeRequest, KeepStore
<1>4. \A i \in Handlers : LifeTask(i)'
  BY DEF LifeParts, LifeTask, KeepStore
<1> QED BY <1>1, <1>2, <1>3, <1>4 DEF LifeParts

LEMMA RequestLife ==
  ASSUME Serial, Ops \subseteq {"Create", "Start", "Stop"}, LifeInv,
         NEW h \in Handlers, NEW c \in Containers, Request(h, c)
  PROVE  LifeParts'
<1> TypeOK /\ LifeRecord(c)
  BY DEF LifeInv, CoherenceInv, LifeParts
<1> USE DEF KeepStore, KeepTask, Begins
<1>1. ASSUME NEW lim \in Opt(Limits), CreateBundle(h, c, lim) PROVE LifeParts'
  <2>1. LifeRecord(c)' /\ ids'[c] = "reserved" /\ ids[c] = "fresh"
    BY <1>1, CreateEffect DEF LifeRecord, IdTo
  <2>2. CreatedRecord(lim).state = "Created"
    BY DEF CreatedRecord
  <2>3. LifeRequest(h)' /\ Others(h) /\ (hs'[h].pc # "idle" => hs'[h].c = c)
    BY <1>1, <2>1, <2>2, CreateEffect DEF LifeRequest, Others
  <2> QED BY <1>1, <2>1, <2>3, CreateEffect, LifeFrame DEF IdTo
<1>2. CASE StartGet(h, c)
  <2>1. LifeRequest(h)' /\ LifeRecord(c)'
    BY <1>2, StartGetEffect DEF LifeRequest, LifeRecord
  <2> QED BY <1>2, <2>1, StartGetEffect, LifeFrame
<1>3. CASE StopGet(h, c)
  <2>1. LifeRequest(h)' /\ LifeRecord(c)'
    BY <1>3, StopGetEffect DEF LifeRequest, LifeRecord
  <2> QED BY <1>3, <2>1, StopGetEffect, LifeFrame
<1>4. ~RemoveDelete(h, c) /\ ~UpdateGet(h, c)
  BY RemoveEffect, UpdateGetEffect
<1> QED BY <1>1, <1>2, <1>3, <1>4 DEF Request

LEMMA HandlerLife ==
  ASSUME LifeInv, NEW h \in Handlers, HandlerStep(h) \/ Cancel(h)
  PROVE  LifeParts'
<1> TypeOK /\ LifeParts /\ hs[h].pc # "idle"
  BY StepsAreSomeones DEF LifeInv, CoherenceInv
<1> PICK c \in Containers : hs[h].c = c
  BY Placement
<1> LifeRecord(c) /\ LifeRequest(h)
  BY DEF LifeParts
<1> USE DEF KeepStore, KeepTask, Goes, Begins, Leaves, Stores
<1>1. CASE CreatePut(h)
  <2>1. \A i \in Handlers : ~(task[i].pc # "none" /\ task[i].c = c)
    BY <1>1, CreatePutEffect DEF LifeParts, LifeTask, LifeRequest
  <2>2. LifeRequest(h)' /\ LifeRecord(c)'
    BY <1>1, <2>1, CreatePutEffect DEF LifeRequest, LifeRecord, IdTo
  <2> QED BY <1>1, <2>2, CreatePutEffect, LifeFrame DEF IdTo
<1>2. CASE StartCheck(h)
  <2>1. LifeRequest(h)' /\ LifeRecord(c)'
    BY <1>2, StartCheckEffect DEF LifeRequest, LifeRecord
  <2> QED BY <1>2, <2>1, StartCheckEffect, LifeFrame
<1>3. CASE StartMark(h)
  <2>0. /\ Goes(h, "wait") /\ ids' = ids /\ meta'[c].state = "Running"
        /\ \A d \in Containers : d # c => meta'[d] = meta[d]
        /\ task'[h].c = c /\ \A i \in Handlers : i # h => task'[i] = task[i]
        /\ ids[c] = "known"
    BY <1>3, StartMarkEffect DEF LifeRequest
  <2>1. OneRequest'
    BY <2>0 DEF LifeParts, OneRequest, Others
  <2>2. \A d \in Containers : LifeRecord(d)'
    BY <2>0 DEF LifeParts, LifeRecord
  <2>3. ASSUME NEW i \in Handlers PROVE LifeRequest(i)'
    <3>1. CASE i = h
      BY <2>0, <3>1 DEF LifeRequest
    <3>2. CASE i # h
      <4>1. hs[i].pc # "idle" => hs[i].c \in Containers /\ hs[i].c # c
        BY <3>2, Placement DEF LifeParts, OneRequest
      <4> QED BY <2>0, <3>2, <4>1 DEF LifeParts, LifeRequest, Others
    <3> QED BY <3>1, <3>2
  <2>4. \A i \in Handlers : LifeTask(i)'
    BY <2>0 DEF LifeParts, LifeTask
  <2> QED BY <2>1, <2>2, <2>3, <2>4 DEF LifeParts
<1>4. CASE StartWait(h)
  <2>1. LifeRequest(h)' /\ LifeRecord(c)'
    BY <1>4, StartWaitEffect DEF LifeRequest, LifeRecord
  <2> QED BY <1>4, <2>1, StartWaitEffect, LifeFrame
<1>5. CASE StopTerm(h)
  <2>1. LifeRequest(h)' /\ LifeRecord(c)'
    BY <1>5, StopTermEffect DEF LifeRequest, LifeRecord
  <2> QED BY <1>5, <2>1, StopTermEffect, LifeFrame
<1>6. CASE StopPoll(h)
  <2>1. LifeRequest(h)' /\ LifeRecord(c)'
    BY <1>6, StopPollEffect DEF LifeRequest, LifeRecord
  <2> QED BY <1>6, <2>1, StopPollEffect, LifeFrame
<1>7. CASE StopKill(h)
  <2>1. LifeRequest(h)' /\ LifeRecord(c)'
    BY <1>7, StopKillEffect DEF LifeRequest, LifeRecord
  <2> QED BY <1>7, <2>1, StopKillEffect, LifeFrame
<1>8. CASE StopDelete(h)
  <2>1. LifeRequest(h)' /\ LifeRecord(c)'
    BY <1>8, StopDeleteEffect DEF LifeRequest, LifeRecord
  <2> QED BY <1>8, <2>1, StopDeleteEffect, LifeFrame
<1>9. CASE StopFinal(h)
  <2>1. LifeRequest(h)' /\ LifeRecord(c)'
    BY <1>9, StopFinalEffect DEF LifeRequest, LifeRecord
  <2> QED BY <1>9, <2>1, StopFinalEffect, LifeFrame
<1>10. CASE StopSettle(h)
  <2>1. LifeRequest(h)' /\ LifeRecord(c)'
    BY <1>10, StopSettleEffect DEF LifeRequest, LifeRecord
  <2> QED BY <1>10, <2>1, StopSettleEffect, LifeFrame
<1>11. CASE Cancel(h)
  <2>1. LifeRequest(h)' /\ LifeRecord(c)'
    BY <1>11, CancelEffect DEF LifeRequest, LifeRecord
  <2> QED BY <1>11, <2>1, CancelEffect, LifeFrame
<1>12. ~RemoveForget(h) /\ ~RemoveUnlink(h) /\ ~UpdateApply(h) /\ ~UpdatePut(h)
  BY RemoveForgetEffect, RemoveUnlinkEffect, UpdateApplyEffect, UpdatePutEffect DEF LifeRequest
<1> QED BY <1>1, <1>2, <1>3, <1>4, <1>5, <1>6, <1>7, <1>8, <1>9, <1>10, <1>11, <1>12 DEF HandlerStep

LEMMA NextLife ==
  ASSUME Serial, Ops \subseteq {"Create", "Start", "Stop"}, LifeInv, [Next]_vars
  PROVE  LifeInv'
<1> TypeOK /\ LifeParts /\ CoherenceInv /\ CoherenceInv'
  BY NextCoherence DEF LifeInv, CoherenceInv
<1> SUFFICES LifeParts'
  BY DEF LifeInv
<1>1. ASSUME NEW h \in Handlers, NEW c \in Containers, Request(h, c) PROVE LifeParts'
  BY <1>1, RequestLife
<1>2. ASSUME NEW h \in Handlers, HandlerStep(h) \/ Cancel(h) PROVE LifeParts'
  BY <1>2, HandlerLife
<1>3. ASSUME NEW h \in Handlers, RunStep(h) PROVE LifeParts'
  BY <1>3, RegisterEffect, RunFailEffect, RunStartEffect, RunReapEffect, LifeRest
  DEF RunStep, KeepTask
<1>4. ASSUME NEW h \in Handlers, TaskStep(h) PROVE LifeParts'
  <2>1. CASE TaskPut(h)
    <3>0. /\ hs' = hs /\ ids' = ids /\ task[h].pc = "put" /\ task[h].c \in Containers
          /\ meta'[task[h].c].state = "Exited" /\ TaskTo(h, "none")
          /\ \A d \in Containers : d # task[h].c => meta'[d] = meta[d]
      BY <2>1, TaskPutEffect, Placement DEF Stores
    <3>1. OneRequest' /\ \A d \in Containers : LifeRecord(d)'
      BY <3>0 DEF LifeParts, OneRequest, LifeRecord, LifeTask, TaskTo
    <3>2. ASSUME NEW i \in Handlers PROVE LifeRequest(i)'
      <4>1. hs[i].pc \in {"check", "mark"} => hs[i].c \in Containers /\ hs[i].c # task[h].c
        BY <3>0, Placement DEF LifeParts, LifeRequest, LifeRecord
      <4> QED BY <3>0, <4>1 DEF LifeParts, LifeRequest
    <3>3. \A i \in Handlers : LifeTask(i)'
      BY <3>0 DEF LifeParts, LifeTask, TaskTo
    <3> QED BY <3>1, <3>2, <3>3 DEF LifeParts
  <2>2. CASE ~TaskPut(h)
    BY <1>4, <2>2, TaskSpawnEffect, TaskEndEffect, TaskEofEffect, TaskGetEffect, LifeRest
    DEF TaskStep, TaskTo
  <2> QED BY <2>1, <2>2
<1>5. ASSUME NEW c \in Containers, ProcExit(c) PROVE LifeParts'
  BY <1>5, ProcExitEffect, LifeRest DEF KeepTask
<1>6. CASE Crash
  BY <1>6, CrashEffect, LifeRest
<1>7. CASE Recovery
  <2>1. CASE ReconcilePut
    <3>0. /\ hs' = hs /\ ids' = ids /\ task' = task /\ rc.c \in Containers
          /\ meta[rc.c].state = "Running" /\ meta'[rc.c].state \in {"Exited", "Unknown"}
          /\ \A d \in Containers : d # rc.c => meta'[d] = meta[d]
      BY <2>1, ReconcilePutEffect DEF CoherenceInv, ReconcileAlone, Stores, KeepTask
    <3>1. OneRequest' /\ \A d \in Containers : LifeRecord(d)'
      BY <3>0 DEF LifeParts, OneRequest, LifeRecord
    <3>2. ASSUME NEW i \in Handlers PROVE LifeRequest(i)'
      <4>1. hs[i].pc # "idle" => hs[i].c \in Containers
        BY Placement
      <4> QED BY <3>0, <4>1 DEF LifeParts, LifeRequest
    <3>3. \A i \in Handlers : LifeTask(i)'
      BY <3>0 DEF LifeParts, LifeTask
    <3> QED BY <3>1, <3>2, <3>3 DEF LifeParts
  <2>2. CASE ~ReconcilePut
    BY <1>7, <2>2, RestartEffect, ProbeEffect, ReconcileDeleteEffect, ServeEffect, LifeRest
    DEF Recovery, KeepTask
  <2> QED BY <2>1, <2>2
<1>8. CASE UNCHANGED vars
  BY <1>8, LifeRest DEF vars, KeepStore
<1> QED BY <1>1, <1>2, <1>3, <1>4, <1>5, <1>6, <1>7, <1>8 DEF Next

(* How a stored record looks to the client. *)
LEMMA StatusOf ==
  ASSUME NEW c \in Containers, Stores(c, meta'[c]), ids' = ids \/ IdTo(c, "known"),
         meta'[c].state # "Absent"
  PROVE  status' = [status EXCEPT ![c] = meta'[c].state]
  BY DEF status, Stores, IdTo

(* Every step stores along a legal transition, or nothing a client sees. *)
LEMMA LifeStep ==
  ASSUME LifeInv, [Next]_vars
  PROVE  [Life!Next]_status
<1> TypeOK /\ LifeParts /\ CoherenceInv /\ meta \in [Containers -> Record]
  BY DEF LifeInv, CoherenceInv, TypeOK, Typed
<1> USE DEF Life!Next, Life!Move, Life!Create, Life!CanTransition, Life!LiveStates
<1>0. \A c \in Containers :
        /\ status[c] = IF meta[c].state # "Absent" THEN meta[c].state
                       ELSE IF ids[c] = "known" THEN "Removed" ELSE "Fresh"
        /\ meta[c].state \in {"Created", "Running", "Exited", "Unknown", "Absent"}
  BY DEF status, Record, ContainerStates
<1>1. CASE KeepStore
  BY <1>1 DEF KeepStore, status
<1>2. ASSUME NEW h \in Handlers, NEW c \in Containers, NEW lim \in Opt(Limits), CreateBundle(h, c, lim)
      PROVE  status' = status
  BY <1>2, CreateEffect DEF status, IdTo
<1>3. ASSUME NEW h \in Handlers, CreatePut(h) PROVE Life!Next
  <2> PICK c \in Containers : hs[h].c = c
    BY <1>3, CreatePutEffect, Placement
  <2>1. /\ Stores(c, meta'[c]) /\ IdTo(c, "known") /\ meta'[c].state = "Created"
        /\ status[c] = "Fresh"
    BY <1>0, <1>3, CreatePutEffect DEF Stores, LifeParts, LifeRequest, LifeRecord
  <2> QED BY <2>1, StatusOf
<1>4. ASSUME NEW h \in Handlers, StartMark(h) PROVE Life!Next
  <2> PICK c \in Containers : hs[h].c = c
    BY <1>4, StartMarkEffect, Placement
  <2>1. /\ Stores(c, meta'[c]) /\ ids' = ids /\ meta'[c].state = "Running"
        /\ status[c] = "Created"
    BY <1>0, <1>4, StartMarkEffect DEF Stores, LifeParts, LifeRequest
  <2> QED BY <2>1, StatusOf
<1>5. ASSUME NEW h \in Handlers, StopSettle(h) \/ TaskPut(h) PROVE Life!Next
  <2>1. PICK c \in Containers :
          /\ Stores(c, meta'[c]) /\ ids' = ids /\ meta'[c].state = "Exited" /\ meta[c].state # "Absent"
    <3>1. CASE StopSettle(h)
      BY <3>1, StopSettleEffect, Placement DEF Stores, LifeParts, LifeRequest, LifeRecord
    <3>2. CASE TaskPut(h)
      BY <3>2, TaskPutEffect, Placement DEF Stores, LifeParts, LifeTask, LifeRecord
    <3> QED BY <1>5, <3>1, <3>2
  <2>2. status[c] \in {"Created", "Running", "Exited", "Unknown"}
    BY <1>0, <2>1
  <2> QED BY <2>1, <2>2, StatusOf
<1>6. CASE ReconcilePut
  <2>1. PICK c \in Containers : rc.c = c
    BY <1>6, ReconcilePutEffect
  <2>2. /\ Stores(c, meta'[c]) /\ ids' = ids /\ meta'[c].state \in {"Exited", "Unknown"}
        /\ meta[c].state = "Running"
    BY <1>6, <2>1, ReconcilePutEffect DEF Stores, CoherenceInv, ReconcileAlone
  <2>3. status[c] = "Running"
    BY <1>0, <2>2
  <2> QED BY <2>2, <2>3, StatusOf
<1>7. \A h \in Handlers : ~RemoveForget(h) /\ ~UpdatePut(h)
  BY RemoveForgetEffect, UpdatePutEffect DEF LifeParts, LifeRequest
<1> QED BY <1>1, <1>2, <1>3, <1>4, <1>5, <1>6, <1>7, StoreSteps DEF StoreStep

(* A client that creates, starts and stops containers, with one request at a
   time for each, sees every one of them go through the legal transitions of
   ContainerState only, whatever crun does and however often the daemon
   crashes: Container.tla implements Lifecycle.tla. *)
THEOREM LifecycleImplemented ==
  ASSUME Serial, Ops \subseteq {"Create", "Start", "Stop"}
  PROVE  Spec => ImplementsLifecycle
<1>1. Init => LifeInv
  BY InitLife
<1>2. LifeInv /\ [Next]_vars => LifeInv'
  BY NextLife
<1>3. Init => Life!Init
  <2>1. Init => \A c \in Containers : meta[c].state = "Absent" /\ ids[c] = "fresh"
    <3>1. NoRecord.state = "Absent"
      BY DEF NoRecord
    <3> QED BY <3>1 DEF Init
  <2> QED BY <2>1 DEF status, Life!Init
<1>4. LifeInv /\ [Next]_vars => [Life!Next]_status
  BY LifeStep
<1> QED BY <1>1, <1>2, <1>3, <1>4, PTL DEF Spec, ImplementsLifecycle, Life!Spec
-----------------------------------------------------------------------------
(* Resource limits: the record, the bundle's config.json and the cgroup. *)

(* Up to registration the bundle and the record agree, since crun takes the
   cgroup's limits from the bundle; afterwards the record and the cgroup do,
   but for the request that has changed one and is about to store the other. *)
LimitsRecord(c) ==
  /\ Live(c) /\ meta[c].state = "Running" =>
       InEffect(meta[c].limits, cg[c]) \/ \E h \in Handlers : hs[h].pc = "persist" /\ hs[h].c = c
  /\ bundle[c].present /\ (meta[c].state = "Created" \/ \E h \in Handlers : Launch(h, c)) =>
       bundle[c].limits = meta[c].limits
LimitsRequest(h) ==
  /\ hs[h].pc = "write" => bundle[hs[h].c].limits = hs[h].r.limits
  /\ hs[h].pc \in {"check", "mark"} => hs[h].r.limits = meta[hs[h].c].limits
  /\ hs[h].pc = "persist" => InEffect(hs[h].r.limits, cg[hs[h].c])
LimitsParts ==
  /\ \A c \in Containers : LimitsRecord(c)
  /\ \A h \in Handlers : LimitsRequest(h)
LimitsInv == SerialInv /\ daemon.phase = "up" /\ LimitsParts

(* What config.json asks for is in effect once the container is registered. *)
LEMMA SpecInEffect ==
  ASSUME NEW o \in Opt(Limits) PROVE InEffect(o, SpecLimits(o))
<1>1. ASSUME NEW x \in Limits, o = {x}, NEW f \in LimitFields
      PROVE  UNION {lim[f] : lim \in o} = x[f]
  BY <1>1
<1> QED BY <1>1 DEF Opt, InEffect, SpecLimits

LEMMA InitLimits == ASSUME Init PROVE LimitsInv
<1>1. /\ \A h \in Handlers : hs[h].pc = "idle" /\ task[h].pc = "none" /\ run[h].pc = "none"
      /\ \A c \in Containers : ~Live(c) /\ meta[c].state = "Absent"
      /\ daemon.phase = "up"
  BY DEF Init, Idle, NoTask, NoRun, NoCrun, NoRecord, Live
<1>2. LimitsParts
  BY <1>1 DEF LimitsParts, LimitsRecord, LimitsRequest, Launch
<1> QED BY <1>1, <1>2, InitSerial DEF LimitsInv

LEMMA LimitsRequestFrame ==
  ASSUME LimitsInv, NEW h \in Handlers, NEW c \in Containers, Others(h),
         \A i \in Handlers : i # h => task'[i] = task[i] /\ run'[i] = run[i],
         \A d \in Containers : Launch(h, d)' => Launch(h, d) \/ d = c,
         \A d \in Containers : Live(d)' => Live(d),
         \A d \in Containers : d # c =>
            meta'[d] = meta[d] /\ cg'[d] = cg[d] /\ bundle'[d] = bundle[d],
         (hs[h].pc = "idle" /\ ~Busy(c)) \/ (hs[h].pc # "idle" /\ hs[h].c = c),
         LimitsRequest(h)', LimitsRecord(c)'
  PROVE  LimitsParts'
<1> TypeOK /\ LimitsParts /\ OneRequest
  BY DEF LimitsInv, SerialInv, SerialParts, CoherenceInv
<1>0. \A i \in Handlers : i # h /\ hs[i].pc # "idle" => hs[i].c \in Containers /\ hs[i].c # c
  BY Placement DEF OneRequest, Busy
<1>1. ASSUME NEW d \in Containers PROVE LimitsRecord(d)'
  <2>1. CASE d # c
    <3>1. \A i \in Handlers : hs[i].pc = "persist" /\ hs[i].c = d => hs'[i] = hs[i]
      BY <2>1 DEF Others
    <3>2. \A i \in Handlers : Launch(i, d)' => Launch(i, d)
      BY <2>1 DEF Launch
    <3> QED BY <2>1, <3>1, <3>2 DEF LimitsParts, LimitsRecord
  <2> QED BY <2>1
<1>2. \A i \in Handlers : LimitsRequest(i)'
  BY <1>0 DEF LimitsParts, LimitsRequest, Others
<1> QED BY <1>1, <1>2 DEF LimitsParts
(* A request's step that stores nothing and changes no limits. *)
LEMMA LimitsPassing ==
  ASSUME LimitsInv, NEW h \in Handlers, NEW c \in Containers, Others(h),
         KeepStore, KeepRun, KeepTask, Fades, cg' = cg, bundle' = bundle,
         (hs[h].pc = "idle" /\ ~Busy(c)) \/ (hs[h].pc \notin {"idle", "persist"} /\ hs[h].c = c),
         LimitsRequest(h)'
  PROVE  LimitsParts'
<1> TypeOK /\ LimitsParts /\ OneRequest /\ LimitsRecord(c)
  BY DEF LimitsInv, SerialInv, SerialParts, CoherenceInv, LimitsParts
<1> USE DEF KeepStore, KeepRun, KeepTask
<1>1. \A i \in Handlers : ~(hs[i].pc = "persist" /\ hs[i].c = c)
  BY Placement DEF OneRequest, Busy
<1>2. \A d \in Containers : (Live(d)' => Live(d)) /\ (\A i \in Handlers : Launch(i, d)' <=> Launch(i, d))
  BY DEF Fades, Launch
<1>3. LimitsRecord(c)'
  BY <1>1, <1>2 DEF LimitsRecord
<1> QED BY <1>2, <1>3, LimitsRequestFrame

LEMMA RequestLimits ==
  ASSUME Serial, LimitsInv, NEW h \in Handlers, NEW c \in Containers, Request(h, c)
  PROVE  LimitsParts'
<1> TypeOK /\ RecordFits(c) /\ LimitsRecord(c) /\ LimitsParts
  BY DEF LimitsInv, SerialInv, SerialParts, CoherenceInv, LimitsParts
<1> USE DEF KeepStore, KeepRun, KeepTask, Begins
<1>1. ASSUME NEW lim \in Opt(Limits), CreateBundle(h, c, lim) PROVE LimitsParts'
  <2>1. /\ meta' = meta /\ run' = run /\ task' = task /\ crun' = crun /\ cg' = cg
        /\ \A d \in Containers : d # c => bundle'[d] = bundle[d]
        /\ \/ hs' = hs
           \/ Begins(h, "write", c, CreatedRecord(lim)) /\ bundle'[c].limits = lim
        /\ hs[h].pc = "idle" /\ ~Busy(c) /\ Others(h)
    <3>1. \/ bundle' = [bundle EXCEPT ![c] = [present |-> TRUE, limits |-> lim]]
             /\ Enter(h, "Create", "write", c, CreatedRecord(lim))
          \/ bundle' = bundle /\ hs' = hs
      BY <1>1 DEF CreateBundle
    <3>2. bundle \in [Containers -> Bundle] /\ cg' = cg
      BY <1>1 DEF TypeOK, Typed, CreateBundle, crunVars
    <3> QED BY <1>1, <3>1, <3>2, CreateEffect, EnterBegins DEF KeepCrun, Others
  <2>2. CreatedRecord(lim).limits = lim
    BY DEF CreatedRecord
  <2>3. LimitsRequest(h)'
    BY <2>1, <2>2 DEF LimitsRequest
  <2>4. ids[c] = "fresh"
    BY <1>1, CreateEffect
  <2>5. meta[c].state = "Absent" /\ (\A i \in Handlers : ~Launch(i, c))
    BY <2>4 DEF RecordFits, Involved, Launch
  <2>6. LimitsRecord(c)'
    BY <2>1, <2>5 DEF LimitsRecord, Launch
  <2> QED BY <2>1, <2>3, <2>6, LimitsRequestFrame DEF Launch, Live
<1>2. CASE StartGet(h, c)
  <2>1. cg' = cg /\ bundle' = bundle
    BY <1>2 DEF StartGet, diskVars, crunVars
  <2>2. LimitsRequest(h)'
    BY <1>2, StartGetEffect DEF LimitsRequest
  <2> QED BY <1>2, <2>1, <2>2, StartGetEffect, KeepFades, LimitsPassing
<1>3. CASE StopGet(h, c)
  <2>1. cg' = cg /\ bundle' = bundle
    BY <1>3 DEF StopGet, diskVars, crunVars
  <2>2. LimitsRequest(h)'
    BY <1>3, StopGetEffect DEF LimitsRequest
  <2> QED BY <1>3, <2>1, <2>2, StopGetEffect, KeepFades, LimitsPassing
<1>4. CASE RemoveDelete(h, c)
  <2>1. cg' = cg /\ bundle' = bundle
    BY <1>4 DEF RemoveDelete, diskVars
  <2>2. LimitsRequest(h)'
    BY <1>4, RemoveEffect DEF LimitsRequest
  <2> QED BY <1>4, <2>1, <2>2, RemoveEffect, CrunFades, LimitsPassing
<1>5. CASE UpdateGet(h, c)
  <2>1. cg' = cg /\ bundle' = bundle
    BY <1>5 DEF UpdateGet, diskVars, crunVars
  <2>2. LimitsRequest(h)'
    BY <1>5, UpdateGetEffect DEF LimitsRequest
  <2> QED BY <1>5, <2>1, <2>2, UpdateGetEffect, KeepFades, LimitsPassing
<1> QED BY <1>1, <1>2, <1>3, <1>4, <1>5 DEF Request

LEMMA HandlerLimits ==
  ASSUME LimitsInv, NEW h \in Handlers, HandlerStep(h)
  PROVE  LimitsParts'
<1> TypeOK /\ LimitsParts /\ SerialParts /\ hs[h].pc # "idle"
  BY StepsAreSomeones DEF LimitsInv, SerialInv, CoherenceInv
<1> PICK c \in Containers : hs[h].c = c
  BY Placement
<1> /\ hs[h].r \in Record /\ RecordFits(c) /\ RequestFits(h) /\ LimitsRecord(c) /\ LimitsRequest(h)
    /\ OneRequest
  BY Placement DEF SerialParts, LimitsParts
<1>a. \A i \in Handlers : Launch(i, c) => hs[i].pc = "wait" /\ hs[i].c = c
  BY DEF SerialParts, SlotFits, LimitsInv
<1>b. \A i \in Handlers : hs[i].pc # "idle" /\ hs[i].c = c => i = h
  BY DEF OneRequest
<1> USE DEF KeepStore, KeepRun, KeepTask, Goes, Begins, Leaves, Stores
<1>c. cg \in [Containers -> Cgroup] /\ bundle \in [Containers -> Bundle]
  BY DEF TypeOK, Typed
(* the steps that store the record *)
<1>1. CASE CreatePut(h)
  <2>0. cg' = cg /\ bundle' = bundle
    BY <1>1 DEF CreatePut, crunVars
  <2>1. LimitsRequest(h)'
    BY <1>1, CreatePutEffect DEF LimitsRequest
  <2>2. ~Live(c) /\ ~Live(c)'
    BY <1>1, CreatePutEffect DEF RequestFits, RecordFits, Live, KeepCrun
  <2>3. LimitsRecord(c)'
    BY <1>1, <1>a, <1>b, <2>0, <2>2, CreatePutEffect DEF LimitsRecord, LimitsRequest, Launch
  <2> QED BY <1>1, <2>0, <2>1, <2>3, CreatePutEffect, KeepFades, LimitsRequestFrame DEF Launch, Fades
<1>2. CASE StartMark(h)
  <2>0. cg' = cg /\ bundle' = bundle
    BY <1>2 DEF StartMark, crunVars
  <2>1. LimitsRequest(h)'
    BY <1>2, StartMarkEffect DEF LimitsRequest
  <2>2. ~Live(c) /\ ~Live(c)' /\ meta[c].state = "Created"
    BY <1>2, StartMarkEffect DEF RequestFits, RecordFits, Live, KeepCrun
  <2>3. meta'[c].limits = meta[c].limits
    BY <1>2, StartMarkEffect DEF LimitsRequest
  <2>4. LimitsRecord(c)'
    BY <2>0, <2>2, <2>3 DEF LimitsRecord
  <2>5. \A d \in Containers : Launch(h, d)' => Launch(h, d) \/ d = c
    BY <1>2, StartMarkEffect DEF Launch
  <2> QED BY <1>2, <2>0, <2>1, <2>4, <2>5, StartMarkEffect, KeepFades, LimitsRequestFrame DEF Fades
<1>3. CASE StopSettle(h) \/ RemoveForget(h)
  <2>0. cg' = cg /\ bundle' = bundle
    BY <1>3 DEF StopSettle, RemoveForget, crunVars
  <2>1. LimitsRequest(h)' /\ Others(h) /\ KeepRun /\ KeepTask /\ KeepCrun
    BY <1>3, StopSettleEffect, RemoveForgetEffect DEF LimitsRequest
  <2>2. NoRecord.state = "Absent"
    BY DEF NoRecord
  <2>3. /\ meta'[c].state \in {"Exited", "Absent"} /\ hs[h].pc # "wait"
        /\ \A d \in Containers : d # c => meta'[d] = meta[d]
    BY <1>3, <2>2, StopSettleEffect, RemoveForgetEffect
  <2>4. LimitsRecord(c)'
    BY <1>a, <1>b, <2>1, <2>3 DEF LimitsRecord, Launch
  <2> QED BY <2>0, <2>1, <2>3, <2>4, KeepFades, LimitsRequestFrame DEF Launch, Fades
<1>4. CASE UpdatePut(h)
  <2>0. cg' = cg /\ bundle' = bundle
    BY <1>4 DEF UpdatePut, crunVars
  <2>1. LimitsRequest(h)' /\ hs[h].pc = "persist" /\ meta'[c] = hs[h].r
    BY <1>4, UpdatePutEffect DEF LimitsRequest
  <2>2. meta'[c].state # "Created" /\ InEffect(meta'[c].limits, cg'[c])
    BY <2>0, <2>1 DEF RequestFits, LimitsRequest
  <2>3. LimitsRecord(c)'
    BY <1>4, <1>a, <1>b, <2>1, <2>2, UpdatePutEffect DEF LimitsRecord, Launch
  <2> QED BY <1>4, <2>0, <2>1, <2>3, UpdatePutEffect, KeepFades, LimitsRequestFrame DEF Launch, Fades
(* the ones that change the cgroup or the bundle *)
<1>5. CASE UpdateApply(h)
  <2>1. CASE Return(h) /\ cg' = cg
    <3>1. LimitsRequest(h)' /\ Others(h)
      BY <2>1, ReturnLeaves DEF LimitsRequest
    <3>2. bundle' = bundle
      BY <1>5 DEF UpdateApply, diskVars
    <3> QED BY <1>5, <2>1, <3>1, <3>2, UpdateApplyEffect, KeepFades, LimitsPassing
  <2>2. ASSUME NEW lim \in Limits, cg' = [cg EXCEPT ![c] = Limited(@, lim)],
               Enter(h, "Update", "persist", c, [hs[h].r EXCEPT !.limits = {lim}])
        PROVE  LimitsParts'
    <3> DEFINE r == [hs[h].r EXCEPT !.limits = {lim}]
    <3>1. r.limits = {lim}
      BY DEF Record
    <3>2. Begins(h, "persist", c, r)
      BY <2>2, EnterBegins
    <3> HIDE DEF r
    <3>a. InEffect({lim}, Limited(cg[c], lim))
      BY DEF InEffect, Limited
    <3>3. /\ cg'[c] = Limited(cg[c], lim) /\ (\A d \in Containers : d # c => cg'[d] = cg[d]) /\ bundle' = bundle
      BY <1>5, <1>c, <2>2 DEF UpdateApply, diskVars
    <3>4. LimitsRequest(h)'
      BY <3>1, <3>2, <3>3, <3>a DEF LimitsRequest
    <3>5. LimitsRecord(c)'
      BY <1>5, <3>2, <3>3, UpdateApplyEffect DEF LimitsRecord, Launch
    <3> QED BY <1>5, <3>2, <3>3, <3>4, <3>5, UpdateApplyEffect, KeepFades, LimitsRequestFrame
            DEF Launch, Fades
  <2> QED BY <1>5, <2>1, <2>2 DEF UpdateApply
<1>6. CASE RemoveUnlink(h)
  <2>1. /\ cg' = cg /\ \A d \in Containers : d # c => bundle'[d] = bundle[d]
        /\ bundle'[c].present = FALSE
    BY <1>6, <1>c DEF RemoveUnlink, crunVars, NoBundle
  <2>2. LimitsRequest(h)'
    BY <1>6, RemoveUnlinkEffect DEF LimitsRequest
  <2>3. ~Live(c) /\ ~Live(c)'
    BY <1>6, RemoveUnlinkEffect DEF RequestFits, Live, KeepCrun
  <2>4. LimitsRecord(c)'
    BY <2>1, <2>3 DEF LimitsRecord
  <2> QED BY <1>6, <2>1, <2>2, <2>4, RemoveUnlinkEffect, KeepFades, LimitsRequestFrame
          DEF Launch, Fades
(* and the others *)
<1>7. CASE StartCheck(h)
  <2>1. LimitsRequest(h)' /\ hs[h].pc = "check" /\ cg' = cg /\ bundle' = bundle
    BY <1>7, StartCheckEffect DEF LimitsRequest, StartCheck, diskVars, crunVars
  <2> QED BY <1>7, <2>1, StartCheckEffect, KeepFades, LimitsPassing
<1>8. CASE StartWait(h) \/ StopTerm(h) \/ StopPoll(h) \/ StopKill(h) \/ StopDelete(h) \/ StopFinal(h)
  <2>1. /\ cg' = cg /\ bundle' = bundle /\ KeepStore /\ KeepRun /\ KeepTask /\ Others(h)
        /\ Stops(c) \/ Deletes(c) \/ KeepCrun
        /\ hs[h].pc # "persist" /\ hs'[h].pc \notin {"write", "check", "mark", "persist"}
    <3>1. cg' = cg /\ bundle' = bundle
      BY <1>8 DEF StartWait, StopTerm, StopPoll, StopKill, StopDelete, StopFinal, diskVars, crunVars
    <3> QED BY <1>8, <3>1, StartWaitEffect, StopTermEffect, StopPollEffect, StopKillEffect,
               StopDeleteEffect, StopFinalEffect
  <2>2. LimitsRequest(h)' /\ Fades
    BY <2>1, CrunFades DEF LimitsRequest
  <2> QED BY <2>1, <2>2, LimitsPassing
<1> QED BY <1>1, <1>2, <1>3, <1>4, <1>5, <1>6, <1>7, <1>8 DEF HandlerStep
(* Steps that store nothing, register nothing and leave the limits alone. *)
LEMMA LimitsRest ==
  ASSUME LimitsInv, hs' = hs, meta' = meta, cg' = cg, bundle' = bundle,
         \A d \in Containers : Live(d)' => Live(d),
         \A i \in Handlers, d \in Containers : Launch(i, d)' => Launch(i, d)
  PROVE  LimitsParts'
<1>1. \A d \in Containers : LimitsRecord(d)'
  BY DEF LimitsInv, LimitsParts, LimitsRecord
<1>2. \A i \in Handlers : LimitsRequest(i)'
  BY DEF LimitsInv, LimitsParts, LimitsRequest
<1> QED BY <1>1, <1>2 DEF LimitsParts

LEMMA RunLimits ==
  ASSUME LimitsInv, NEW h \in Handlers, RunStep(h)
  PROVE  LimitsParts'
<1> TypeOK /\ LimitsParts /\ SerialParts
  BY DEF LimitsInv, SerialInv, CoherenceInv
<1>0. \A i \in Handlers : run[i].pc # "none" => run[i].c \in Containers
  BY Placement
<1>1. CASE RunRegister(h)
  <2> PICK c \in Containers : run[h].c = c
    BY <1>0, <1>1, RegisterEffect
  <2>1. /\ hs' = hs /\ meta' = meta /\ bundle' = bundle /\ Launch(h, c) /\ bundle[c].present
        /\ cg'[c] = SpecLimits(bundle[c].limits) /\ \A d \in Containers : d # c => cg'[d] = cg[d]
    <3>1. cg \in [Containers -> Cgroup]
      BY DEF TypeOK, Typed
    <3> QED BY <1>1, <3>1 DEF RunRegister, diskVars, Launch
  <2>2. /\ \A d \in Containers : d # c => crun'[d] = crun[d]
        /\ \A i \in Handlers, d \in Containers : Launch(i, d)' => Launch(i, d)
    BY <1>1, RegisterEffect DEF Launch, RunTo, KeepTask
  <2>3. hs[h].pc = "wait" /\ hs[h].c = c
    BY <2>1 DEF SerialParts, SlotFits, LimitsInv
  <2>a. InEffect(bundle[c].limits, SpecLimits(bundle[c].limits))
    <3>1. bundle[c].limits \in Opt(Limits)
      BY OtherTypes DEF TypeOK, Typed
    <3> QED BY <3>1, SpecInEffect
  <2>4. \A d \in Containers : LimitsRecord(d)'
    BY <2>1, <2>2, <2>a DEF LimitsParts, LimitsRecord, Live
  <2>5. ASSUME NEW i \in Handlers PROVE LimitsRequest(i)'
    <3>1. hs[i].pc = "persist" => hs[i].c # c /\ hs[i].c \in Containers
      BY <2>3, Placement DEF SerialParts, OneRequest
    <3> QED BY <2>1, <3>1 DEF LimitsParts, LimitsRequest
  <2> QED BY <2>4, <2>5 DEF LimitsParts
<1>2. CASE RunFail(h) \/ RunStart(h) \/ RunReap(h)
  <2>1. hs' = hs /\ meta' = meta /\ cg' = cg /\ bundle' = bundle
    BY <1>2 DEF RunFail, RunStart, RunReap, diskVars
  <2>2. \A d \in Containers : Live(d)' => Live(d)
    <3>1. run[h].c \in Containers
      BY <1>0, <1>2, RunFailEffect, RunStartEffect, RunReapEffect
    <3> QED BY <1>2, <3>1, RunFailEffect, RunStartEffect, RunReapEffect DEF Live, Deletes, KeepCrun
  <2>3. \A i \in Handlers, d \in Containers : Launch(i, d)' => Launch(i, d)
    BY <1>2, RunFailEffect, RunStartEffect, RunReapEffect DEF Launch, RunTo, KeepTask
  <2> QED BY <2>1, <2>2, <2>3, LimitsRest
<1> QED BY <1>1, <1>2 DEF RunStep

LEMMA TaskLimits ==
  ASSUME LimitsInv, NEW h \in Handlers, TaskStep(h)
  PROVE  LimitsParts'
<1> TypeOK /\ LimitsParts /\ SerialParts
  BY DEF LimitsInv, SerialInv, CoherenceInv
<1>0. cg' = cg /\ bundle' = bundle
  BY DEF TaskStep, TaskSpawn, TaskReap, TaskTtyError, TaskTtyEof, TaskGet, TaskPut, diskVars, crunVars
<1>1. CASE TaskPut(h)
  <2> PICK c \in Containers : task[h].c = c
    BY <1>1, TaskPutEffect, Placement
  <2>1. /\ hs' = hs /\ meta'[c].state = "Exited" /\ Involved(h, c) /\ task[h].pc = "put"
        /\ crun' = crun /\ run' = run /\ TaskTo(h, "none")
        /\ \A d \in Containers : d # c => meta'[d] = meta[d]
    BY <1>1, TaskPutEffect DEF Stores, Involved, KeepCrun, KeepRun
  <2>2. /\ \A i \in Handlers : ~Launch(i, c)
        /\ \A i \in Handlers, d \in Containers : Launch(i, d)' => Launch(i, d)
    <3>1. run[h].pc = "none"
      BY <2>1 DEF SerialParts, SlotFits
    <3>2. ~Launch(h, c)
      BY <2>1, <3>1 DEF Launch
    <3> QED BY <2>1, <3>2 DEF SerialParts, OneLauncher, Involved, Launch, TaskTo
  <2>3. meta[c].state # "Created"
    BY <2>1 DEF SerialParts, RecordFits
  <2>4. \A d \in Containers : LimitsRecord(d)'
    BY <1>0, <2>1, <2>2 DEF LimitsParts, LimitsRecord, Live
  <2>5. ASSUME NEW i \in Handlers PROVE LimitsRequest(i)'
    <3>1. hs[i].pc \in {"check", "mark"} => hs[i].c # c /\ hs[i].c \in Containers
      BY <2>3, Placement DEF SerialParts, RequestFits
    <3> QED BY <1>0, <2>1, <3>1 DEF LimitsParts, LimitsRequest
  <2> QED BY <2>4, <2>5 DEF LimitsParts
<1>2. CASE ~TaskPut(h)
  <2>1. hs' = hs /\ KeepStore /\ task[h].pc # "none"
    BY <1>2, TaskSpawnEffect, TaskEndEffect, TaskEofEffect, TaskGetEffect DEF TaskStep
  <2>2. \A d \in Containers : Live(d)' => Live(d)
    <3>1. task[h].c \in Containers
      BY <2>1, Placement
    <3> QED BY <1>2, <3>1, TaskSpawnEffect, TaskEndEffect, TaskEofEffect, TaskGetEffect
            DEF TaskStep, Live, Deletes, KeepCrun
  <2>3. \A i \in Handlers, d \in Containers : Launch(i, d)' => Launch(i, d)
    BY <1>2, TaskSpawnEffect, TaskEndEffect, TaskEofEffect, TaskGetEffect
    DEF TaskStep, Launch, RunTo, TaskTo, KeepRun, KeepOthers
  <2> QED BY <1>0, <2>1, <2>2, <2>3, LimitsRest DEF KeepStore
<1> QED BY <1>1, <1>2

LEMMA NextLimits ==
  ASSUME Serial, PromptCrun, Cancels = {}, MaxCrashes = 0, LimitsInv, [Next]_vars
  PROVE  LimitsInv'
<1> TypeOK /\ SerialInv' /\ daemon.phase = "up"
  BY NextSerial DEF LimitsInv, SerialInv, CoherenceInv
<1>1. ~Crash /\ ~Recovery
  <2>1. daemon.crashes \in 0..0
    BY DEF TypeOK, Typed
  <2>2. ~Crash
    BY <2>1 DEF Crash
  <2>3. rc.pc = "idle"
    BY DEF LimitsInv, SerialInv, CoherenceInv, ReconcileAlone
  <2> QED BY <2>2, <2>3 DEF Recovery, Restart, ReconcileProbe, ReconcileDelete, ReconcilePut, Serve
<1>2. daemon'.phase = "up"
  BY <1>1, DaemonSteps DEF Recovery
<1> SUFFICES LimitsParts'
  BY <1>2 DEF LimitsInv
<1>3. ASSUME NEW h \in Handlers, NEW c \in Containers, Request(h, c) PROVE LimitsParts'
  BY <1>3, RequestLimits
<1>4. ASSUME NEW h \in Handlers, HandlerStep(h) PROVE LimitsParts'
  BY <1>4, HandlerLimits
<1>5. ASSUME NEW h \in Handlers, RunStep(h) PROVE LimitsParts'
  BY <1>5, RunLimits
<1>6. ASSUME NEW h \in Handlers, TaskStep(h) PROVE LimitsParts'
  BY <1>6, TaskLimits
<1>7. ASSUME NEW c \in Containers, ProcExit(c) PROVE LimitsParts'
  <2>1. cg' = cg /\ bundle' = bundle /\ meta' = meta
    BY <1>7 DEF ProcExit, diskVars
  <2> QED BY <1>7, <2>1, ProcExitEffect, LimitsRest DEF Stops, Live, Launch, KeepRun, KeepTask
<1>8. CASE UNCHANGED vars
  <2>1. /\ hs' = hs /\ meta' = meta /\ cg' = cg /\ bundle' = bundle
        /\ crun' = crun /\ task' = task /\ run' = run
    BY <1>8 DEF vars
  <2>2. /\ \A d \in Containers : Live(d)' => Live(d)
        /\ \A i \in Handlers, d \in Containers : Launch(i, d)' => Launch(i, d)
    BY <2>1 DEF Live, Launch
  <2> QED BY <2>1, <2>2, LimitsRest
<1>9. \A h \in Handlers : ~Cancel(h)
  BY DEF Cancel
<1> QED BY <1>1, <1>3, <1>4, <1>5, <1>6, <1>7, <1>8, <1>9 DEF Next

(* The limits ContainerStatus reports for a running container are those in
   its cgroup, between requests: StartContainer's copy of the record, the
   bundle's config.json and UpdateContainerResources never disagree, as long
   as no request is abandoned and the daemon does not crash between `crun
   update' and the store. *)
THEOREM LimitsStayInStep ==
  ASSUME Serial, PromptCrun, Cancels = {}, MaxCrashes = 0
  PROVE  Spec => []LimitsAgree
<1>1. Init => LimitsInv
  BY InitLimits
<1>2. LimitsInv /\ [Next]_vars => LimitsInv'
  BY NextLimits
<1>3. LimitsInv => LimitsAgree
  BY DEF LimitsInv, LimitsParts, LimitsRecord, LimitsAgree, Busy
<1> QED BY <1>1, <1>2, <1>3, PTL DEF Spec
=============================================================================
