----------------------- MODULE RunningContainerProofs -----------------------
(***************************************************************************)
(* Theorems about RunningContainer, for any number of ExecSync requests,   *)
(* any amount of output, any read buffer and any number of rotations.      *)
(*                                                                         *)
(* The first part follows control: requests, stages, locks and handles.    *)
(* The second follows the bytes from the workload to the log files.  It    *)
(* needs what cri_log_line, Retain and FlattenSeq make of a sequence of    *)
(* any length; that is shown by induction on sets of numbers (NatSet).     *)
(***************************************************************************)
EXTENDS RunningContainer, WellFoundedInduction, TLAPS

ExecRecord ==
  [pc : {"idle", "wait", "kill", "group", "unlink", "done"}, timed : BOOLEAN, saw : BOOLEAN,
   reply : {"none", "output", "deadline", "dropped"}, crun : {"none", "run", "gone"},
   proc : {"none", "run", "dead"}, pidfile : BOOLEAN, tail : BOOLEAN]

(* Up to the deadline crun outlives the process it starts; at the deadline
   the process is in the pid file or there is none; and from its kill on only
   crun is left. *)
Orderly(x) ==
  /\ x.pc = "idle" => x.crun = "none" /\ x.proc = "none"
  /\ x.pidfile => x.proc # "none"
  /\ x.pc # "done" => x.reply = "none"
  /\ x.pc \in {"wait", "kill"} /\ x.crun = "gone" => x.proc # "run"
  /\ x.pc = "kill" => x.crun = "gone" \/ (x.saw /\ x.proc # "none")
  /\ x.pc \in {"group", "unlink"} => x.proc # "run" /\ (x.crun = "gone" \/ x.proc = "dead")
  /\ x.pc = "unlink" => x.crun = "gone"
  /\ x.reply \in {"output", "deadline"} => x.crun = "gone" /\ x.proc # "run" /\ ~x.pidfile

ExecInv == exec \in [Execs -> ExecRecord] /\ \A e \in Execs : Orderly(exec[e])

(* A step of request e is a step of its record. *)
LEMMA ExecUpdate ==
  ASSUME ExecInv, NEW e \in Execs, NEW x \in ExecRecord, Orderly(x), exec' = [exec EXCEPT ![e] = x]
  PROVE  ExecInv'
  BY DEF ExecInv

LEMMA ExecStepKeeps ==
  ASSUME PromptPidFile, ExecInv, NEW e \in Execs, ExecSpawn(e) \/ CrunForks(e) \/ ExecStep(e)
  PROVE  ExecInv'
  <1>t. exec \in [Execs -> ExecRecord] /\ exec[e] \in ExecRecord /\ Orderly(exec[e])
    BY DEF ExecInv
  <1> DEFINE x == exec[e]
  <1>1. ASSUME ExecSpawn(e) PROVE ExecInv'
    <2>1. PICK timed \in BOOLEAN :
            x.pc = "idle" /\ exec' = [exec EXCEPT ![e] = [x EXCEPT !.pc = "wait", !.timed = timed, !.crun = "run"]]
      BY <1>t, <1>1 DEF ExecSpawn
    <2>2. [x EXCEPT !.pc = "wait", !.timed = timed, !.crun = "run"] \in ExecRecord
      BY <1>t DEF ExecRecord
    <2>3. Orderly([x EXCEPT !.pc = "wait", !.timed = timed, !.crun = "run"])
      BY <1>t, <2>1 DEF ExecRecord, Orderly
    <2> QED BY <2>1, <2>2, <2>3, ExecUpdate
  <1>2. ASSUME ExecReply(e) PROVE ExecInv'
    <2> DEFINE y == [x EXCEPT !.pc = "done", !.reply = "output", !.pidfile = FALSE]
    <2>1. x.pc = "wait" /\ x.crun = "gone" /\ x.proc # "run" /\ exec' = [exec EXCEPT ![e] = y]
      BY <1>t, <1>2 DEF ExecReply, WaiterDone
    <2>2. y \in ExecRecord /\ Orderly(y)
      BY <1>t, <2>1 DEF ExecRecord, Orderly
    <2> QED BY <2>1, <2>2, ExecUpdate
  <1>3. ASSUME ExecDeadline(e) PROVE ExecInv'
    <2> DEFINE y == [x EXCEPT !.pc = "kill", !.saw = x.pidfile]
    <2>1. x.pc = "wait" /\ (x.pidfile \/ x.crun = "gone") /\ exec' = [exec EXCEPT ![e] = y]
      BY <1>t, <1>3 DEF ExecDeadline
    <2>2. y \in ExecRecord /\ Orderly(y)
      BY <1>t, <2>1 DEF ExecRecord, Orderly
    <2> QED BY <2>1, <2>2, ExecUpdate
  <1>4. ASSUME ExecKill(e) PROVE ExecInv'
    <2> DEFINE p == IF x.saw /\ x.proc = "run" THEN "dead" ELSE x.proc
               y == [x EXCEPT !.pc = "group", !.proc = p]
    <2>1. x.pc = "kill" /\ exec' = [exec EXCEPT ![e] = y]
      BY <1>t, <1>4 DEF ExecKill
    <2>2. y \in ExecRecord /\ Orderly(y)
      BY <1>t, <2>1 DEF ExecRecord, Orderly
    <2> QED BY <2>1, <2>2, ExecUpdate
  <1>5. ASSUME ExecKillGroup(e) PROVE ExecInv'
    <2> DEFINE y == [x EXCEPT !.pc = "unlink", !.crun = "gone"]
    <2>1. x.pc = "group" /\ exec' = [exec EXCEPT ![e] = y]
      BY <1>t, <1>5 DEF ExecKillGroup
    <2>2. y \in ExecRecord /\ Orderly(y)
      BY <1>t, <2>1 DEF ExecRecord, Orderly
    <2> QED BY <2>1, <2>2, ExecUpdate
  <1>6. ASSUME ExecUnlink(e) PROVE ExecInv'
    <2> DEFINE y == [x EXCEPT !.pc = "done", !.reply = "deadline", !.pidfile = FALSE]
    <2>1. x.pc = "unlink" /\ exec' = [exec EXCEPT ![e] = y]
      BY <1>t, <1>6 DEF ExecUnlink
    <2>2. y \in ExecRecord /\ Orderly(y)
      BY <1>t, <2>1 DEF ExecRecord, Orderly
    <2> QED BY <2>1, <2>2, ExecUpdate
  <1>7. ASSUME ExecDropped(e) PROVE ExecInv'
    <2> DEFINE y == [x EXCEPT !.pc = "done", !.reply = "dropped"]
    <2>1. x.pc = "wait" /\ exec' = [exec EXCEPT ![e] = y]
      BY <1>t, <1>7 DEF ExecDropped
    <2>2. y \in ExecRecord /\ Orderly(y)
      BY <1>t, <2>1 DEF ExecRecord, Orderly
    <2> QED BY <2>1, <2>2, ExecUpdate
  <1>8. ASSUME CrunForks(e) PROVE ExecInv'
    <2> DEFINE y == [x EXCEPT !.proc = "run"]
    <2>1. x.crun = "run" /\ x.proc = "none" /\ exec' = [exec EXCEPT ![e] = y]
      BY <1>t, <1>8 DEF CrunForks
    <2>2. y \in ExecRecord /\ Orderly(y)
      BY <1>t, <2>1 DEF ExecRecord, Orderly
    <2> QED BY <2>1, <2>2, ExecUpdate
  <1>9. ASSUME CrunFails(e) \/ CrunExits(e) PROVE ExecInv'
    <2> DEFINE y == [x EXCEPT !.crun = "gone"]
    <2>1. x.crun = "run" /\ x.proc \in {"none", "dead"} /\ exec' = [exec EXCEPT ![e] = y]
      BY <1>t, <1>9 DEF CrunFails, CrunExits
    <2>2. y \in ExecRecord /\ Orderly(y)
      BY <1>t, <2>1 DEF ExecRecord, Orderly
    <2> QED BY <2>1, <2>2, ExecUpdate
  <1>10. ASSUME CrunWritesPid(e) PROVE ExecInv'
    <2> DEFINE y == [x EXCEPT !.pidfile = TRUE]
    <2>1. x.crun = "run" /\ x.proc # "none" /\ exec' = [exec EXCEPT ![e] = y]
      BY <1>t, <1>10 DEF CrunWritesPid
    <2>2. y \in ExecRecord /\ Orderly(y)
      BY <1>t, <2>1 DEF ExecRecord, Orderly
    <2> QED BY <2>1, <2>2, ExecUpdate
  <1>11. ASSUME ProcExits(e) PROVE ExecInv'
    <2>1. PICK tail \in BOOLEAN :
            x.proc = "run" /\ exec' = [exec EXCEPT ![e] = [x EXCEPT !.proc = "dead", !.tail = tail]]
      BY <1>t, <1>11 DEF ProcExits
    <2>2. [x EXCEPT !.proc = "dead", !.tail = tail] \in ExecRecord
      BY <1>t DEF ExecRecord
    <2>3. Orderly([x EXCEPT !.proc = "dead", !.tail = tail])
      BY <1>t, <2>1 DEF ExecRecord, Orderly
    <2> QED BY <2>1, <2>2, <2>3, ExecUpdate
  <1>12. ASSUME TailEnds(e) PROVE ExecInv'
    <2> DEFINE y == [x EXCEPT !.tail = FALSE]
    <2>1. exec' = [exec EXCEPT ![e] = y]
      BY <1>t, <1>12 DEF TailEnds
    <2>2. y \in ExecRecord /\ Orderly(y)
      BY <1>t DEF ExecRecord, Orderly
    <2> QED BY <2>1, <2>2, ExecUpdate
  <1> QED BY <1>1, <1>2, <1>3, <1>4, <1>5, <1>6, <1>7, <1>8, <1>9, <1>10, <1>11, <1>12 DEF ExecStep

(* The container ends and every process in it with it. *)
LEMMA EndKeeps ==
  ASSUME ExecInv, exec' = AllKilled
  PROVE  ExecInv'
  <1> DEFINE Killed(x) == [x EXCEPT !.proc = IF x.proc = "run" THEN "dead" ELSE x.proc, !.tail = FALSE]
  <1>1. ASSUME NEW x \in ExecRecord, Orderly(x) PROVE Killed(x) \in ExecRecord /\ Orderly(Killed(x))
    BY <1>1 DEF ExecRecord, Orderly
  <1>2. exec' = [e \in Execs |-> Killed(exec[e])]
    BY DEF AllKilled
  <1> HIDE DEF Killed
  <1>3. \A e \in Execs : Killed(exec[e]) \in ExecRecord /\ Orderly(Killed(exec[e]))
    BY <1>1 DEF ExecInv
  <1>4. \A e \in Execs : exec'[e] = Killed(exec[e])
    BY <1>2
  <1>5. exec' \in [Execs -> ExecRecord]
    BY <1>2, <1>3
  <1>6. \A e \in Execs : Orderly(exec'[e])
    BY <1>3, <1>4
  <1> QED BY <1>5, <1>6 DEF ExecInv

(* exec_sync: whenever the deadline falls, a request that was answered has left
   neither its process nor crun nor the pid file behind, provided that crun
   has written the pid file by then.  Any number of requests may run, and the
   container may end under them. *)
THEOREM ExecSyncCleansUp == PromptPidFile => (Spec => []ExecLeavesNothing)
  <1> SUFFICES ASSUME PromptPidFile PROVE Spec => []ExecLeavesNothing
    OBVIOUS
  <1>1. Init => ExecInv
    BY DEF Init, ExecInit, NoExec, ExecInv, ExecRecord, Orderly
  <1>2. ExecInv /\ [Next]_vars => ExecInv'
    <2>1. ASSUME ExecInv, exec' = exec PROVE ExecInv'
      BY <2>1 DEF ExecInv
    <2> QED BY <2>1, ExecStepKeeps, EndKeeps
            DEF Next, vars, ContainerEnds, ExecSyncCalled, CrunEnters
  <1>3. ExecInv => ExecLeavesNothing
    BY DEF ExecInv, Orderly, ExecLeavesNothing
  <1> QED BY <1>1, <1>2, <1>3, PTL DEF Spec
-----------------------------------------------------------------------------
(* The log.  Lines and bytes are not looked at, so the sequences that hold
   them are of anything. *)
IsSeq(x) == \E S : x \in Seq(S)

PumpPCs == {"off", "read", "lock", "write", "done"}

Box == [state : {"Created", "Running", "Exited"}, terminal : BOOLEAN,
        sup : {"idle", "spawn", "open", "drain", "record", "close", "gone"},
        proc : {"none", "run", "dead"}, code : {"none", "forced", "real"}, stopping : BOOLEAN]
Place == [at : Nat \cup {Nobody}, moved : Seq(Nat)]
Log == [file : Nat \cup {Nobody}, lock : Streams \cup {Nobody}, registered : BOOLEAN, opened : BOOLEAN]

LogTypes ==
  /\ box \in Box /\ place \in Place /\ log \in Log
  /\ IsSeq(files)
  /\ \E C : pump \in [Streams -> [pc : PumpPCs, chunk : C]]
  /\ \E P : pipe \in [Streams -> P]
  /\ reopen \in {"idle", "check", "refused", "create", "handle", "swap"}

(* The stages of the supervision task. *)
Staged ==
  /\ box.state = "Created" => box.sup = "idle"
  /\ box.code = "real" => box.sup \in {"close", "gone"}
  /\ box.sup \in {"idle", "spawn"} => box.proc = "none"

(* A pump ends with its pipe empty, after the process; the task goes on when
   all its pumps have ended. *)
Pumps ==
  \A s \in Streams :
    /\ pump[s].pc \in {"off", "read", "done"} => pump[s].chunk = <<>>
    /\ pump[s].pc = "done" => box.proc = "dead" /\ pipe[s] = <<>>
    /\ box.sup \in {"idle", "spawn", "open"} => pump[s].pc = "off"
    /\ box.proc = "none" => pipe[s] = <<>>
    /\ s \notin Piped => pump[s].pc = "off" /\ pipe[s] = <<>>
    /\ box.sup \in {"record", "close", "gone"} =>
         pump[s].pc = "done" \/ (pump[s].pc = "off" /\ pipe[s] = <<>> /\ box.proc # "run")

(* A file is at the log path, or was renamed away once. *)
Files ==
  /\ place.at = Nobody \/ place.at \in 1..Len(files)
  /\ log.file = Nobody \/ log.file \in 1..Len(files)
  /\ \A i \in 1..Len(place.moved) :
       place.moved[i] \in 1..Len(files) /\ place.moved[i] # place.at
  /\ \A i, j \in 1..Len(place.moved) : place.moved[i] = place.moved[j] => i = j
  /\ reopen # "idle" => Len(place.moved) > 0

Apart(n) == \A i \in 1..n : place.moved[i] # log.file

(* The handle is registered from the task's start to its end, and writes to a
   file that was renamed away only while that rotation goes on. *)
Handle ==
  ~box.terminal =>
    /\ box.sup \in {"idle", "spawn", "open"} => log.file = Nobody
    /\ log.registered => box.sup \in {"drain", "record", "close"}
    /\ reopen = "swap" => log.registered \/ box.sup = "gone"
    /\ box.sup = "gone" \/ log.file = Nobody \/ log.registered
    /\ box.sup = "gone" \/ Apart(IF reopen = "idle" THEN Len(place.moved) ELSE Len(place.moved) - 1)

LogInv == LogTypes /\ Staged /\ Pumps /\ Files /\ Handle

LEMMA LogInitial == LogInit => LogInv
  <1> SUFFICES ASSUME LogInit PROVE LogInv
    OBVIOUS
  <1>2. box \in Box /\ Staged /\ box.sup = "idle" /\ box.proc = "none"
    BY DEF LogInit, Box, Staged
  <1>1. log \in Log /\ log.file = Nobody /\ log.registered = FALSE
    BY DEF LogInit, Log
  <1>3. place \in Place /\ place.moved = <<>>
    <2>1. PICK at \in {Nobody, 1} : place = [at |-> at, moved |-> <<>>]
      BY DEF LogInit
    <2>2. <<>> \in Seq(Nat) /\ at \in Nat \cup {Nobody}
      BY <2>1
    <2> QED BY <2>1, <2>2 DEF Place
  <1>4. files \in Seq({Empty}) /\ (place.at = Nobody \/ place.at \in 1..Len(files))
    <2>1. CASE files = <<>> /\ place = [at |-> Nobody, moved |-> <<>>]
      BY <2>1
    <2>2. CASE files = <<Empty>> /\ place = [at |-> 1, moved |-> <<>>]
      <3>1. files \in Seq({Empty}) /\ Len(files) = 1
        BY <2>2
      <3> QED BY <2>2, <3>1
    <2> QED BY <2>1, <2>2 DEF LogInit
  <1>5. /\ pump \in [Streams -> [pc : PumpPCs, chunk : {<<>>}]]
        /\ pipe \in [Streams -> {<<>>}] /\ reopen = "idle"
        /\ \A s \in Streams : pump[s].pc = "off" /\ pump[s].chunk = <<>> /\ pipe[s] = <<>>
    BY DEF LogInit, PumpPCs
  <1>6. LogTypes
    <2>1. IsSeq(files)
      BY <1>4 DEF IsSeq
    <2> QED BY <1>1, <1>2, <1>3, <1>5, <2>1 DEF LogTypes
  <1>7. Pumps
    BY <1>2, <1>5 DEF Pumps
  <1>8. 1..Len(place.moved) = {}
    BY <1>3
  <1>9. Files
    BY <1>1, <1>3, <1>4, <1>5, <1>8 DEF Files
  <1>10. Handle
    BY <1>1, <1>2, <1>5, <1>8 DEF Handle, Apart
  <1> QED BY <1>2, <1>6, <1>7, <1>9, <1>10 DEF LogInv

(* What the steps do to the sequence of files. *)
LEMMA FilesUpdate ==
  ASSUME IsSeq(files), NEW f \in 1..Len(files), NEW v, files' = [files EXCEPT ![f] = v]
  PROVE  /\ IsSeq(files') /\ Len(files') = Len(files) /\ Len(files) \in Nat /\ files'[f] = v
         /\ \A g \in 1..Len(files) : g # f => files'[g] = files[g]
  <1>1. PICK S : files \in Seq(S)
    BY DEF IsSeq
  <1>2. files \in Seq(S \cup {v})
    BY <1>1
  <1>3. files' \in Seq(S \cup {v}) /\ Len(files') = Len(files)
    BY <1>2
  <1> QED BY <1>1, <1>2, <1>3 DEF IsSeq

LEMMA FilesAppend ==
  ASSUME IsSeq(files), NEW v, files' = Append(files, v)
  PROVE  /\ IsSeq(files') /\ Len(files') = Len(files) + 1 /\ Len(files) \in Nat
         /\ \A g \in 1..Len(files) : files'[g] = files[g]
  <1>1. PICK S : files \in Seq(S)
    BY DEF IsSeq
  <1>2. files \in Seq(S \cup {v})
    BY <1>1
  <1>3. files' \in Seq(S \cup {v})
    BY <1>2
  <1> QED BY <1>2, <1>3 DEF IsSeq

(* File::create at the log path leaves what was renamed away alone. *)
LEMMA CreateMoves ==
  ASSUME LogTypes, Files, Create
  PROVE  /\ IsSeq(files') /\ Len(files) \in Nat /\ Len(files') \in Nat /\ Len(files) <= Len(files')
         /\ FileAt \in 1..Len(files') /\ place' \in Place
         /\ place'.at = FileAt /\ place'.moved = place.moved
         /\ \A i \in 1..Len(place.moved) :
              place.moved[i] # FileAt /\ files'[place.moved[i]] = files[place.moved[i]]
  <1>t. place \in Place /\ place.moved \in Seq(Nat) /\ IsSeq(files) /\ Nobody \notin Nat
    BY LogAssumption DEF LogTypes, Place
  <1>n. Len(files) \in Nat /\ Len(place.moved) \in Nat
    BY <1>t DEF IsSeq
  <1>f. \A i \in 1..Len(place.moved) : place.moved[i] \in 1..Len(files) /\ place.moved[i] # place.at
    BY DEF Files
  <1>p. FileAt \in Nat => place' \in Place /\ place'.at = FileAt /\ place'.moved = place.moved
    BY <1>t DEF Create, Place
  <1>1. CASE place.at = Nobody
    <2>1. files' = Append(files, Empty) /\ FileAt = Len(files) + 1
      BY <1>1 DEF Create, FileAt
    <2>2. /\ IsSeq(files') /\ Len(files') = Len(files) + 1
          /\ \A g \in 1..Len(files) : files'[g] = files[g]
      BY <1>t, <2>1, FilesAppend
    <2> QED BY <1>n, <1>f, <1>p, <2>1, <2>2
  <1>2. CASE place.at # Nobody
    <2>1. files' = [files EXCEPT ![place.at] = Empty] /\ FileAt = place.at /\ place.at \in 1..Len(files)
      BY <1>2 DEF Create, FileAt, Files
    <2>2. /\ IsSeq(files') /\ Len(files') = Len(files)
          /\ \A g \in 1..Len(files) : g # place.at => files'[g] = files[g]
      BY <1>t, <2>1, FilesUpdate
    <2> QED BY <1>n, <1>f, <1>p, <2>1, <2>2
  <1> QED BY <1>1, <1>2
(* Steps of the supervision task and of the workload that only concern the box. *)
LEMMA BoxKeeps ==
  ASSUME LogInv,
         \/ StartContainer \/ SuperviseSpawn \/ SuperviseReap \/ SuperviseRecord \/ CtrExit
         \/ StopKill \/ StopRecord
  PROVE  LogInv'
  <1>t. LogTypes /\ Staged /\ Pumps /\ Files /\ Handle /\ box \in Box
    BY DEF LogInv, LogTypes
  <1>u. UNCHANGED <<wrote, pipe, pump, files, place, log, reopen>>
    BY DEF StartContainer, SuperviseSpawn, SuperviseReap, SuperviseRecord, CtrExit, StopKill, StopRecord
  <1>1. /\ box' \in Box /\ box'.terminal = box.terminal
        /\ box'.code = box.code \/ box'.code = "forced" \/ box'.sup = "close"
        /\ box'.state = box.state \/ box'.state # "Created"
        /\ \/ box.sup = "idle" /\ box'.sup = "spawn" /\ box'.state = "Running" /\ box'.proc = box.proc
           \/ box.sup = "spawn" /\ box'.sup = "open" /\ box'.state = box.state /\ box'.proc = "run"
           \/ /\ box.sup = "drain" /\ box.proc = "dead" /\ \A s \in Piped : pump[s].pc = "done"
              /\ box'.sup = "record" /\ box'.state = box.state /\ box'.proc = box.proc
           \/ box.sup = "record" /\ box'.sup = "close" /\ box'.state = "Exited" /\ box'.proc = box.proc
           \/ box.proc = "run" /\ box'.proc = "dead" /\ box'.sup = box.sup
           \/ box'.proc = box.proc /\ box'.sup = box.sup
    <2>1. CASE StartContainer \/ SuperviseSpawn \/ SuperviseReap \/ SuperviseRecord \/ CtrExit
      BY <1>t, <2>1 DEF StartContainer, SuperviseSpawn, SuperviseReap, SuperviseRecord, CtrExit, Box, Staged
    <2>2. CASE StopKill \/ StopRecord
      BY <1>t, <2>2 DEF StopKill, StopRecord, Box
    <2> QED BY <2>1, <2>2
  <1>2. LogTypes'
    BY <1>t, <1>u, <1>1 DEF LogTypes
  <1>3. Staged'
    BY <1>t, <1>1 DEF Staged, Box
  <1>4. Piped' = Piped
    BY <1>1 DEF Piped
  <1>5. Pumps'
    BY <1>t, <1>u, <1>1, <1>4 DEF Pumps, Staged, Box
  <1>6. Files'
    BY <1>t, <1>u DEF Files
  <1>7. Handle'
    BY <1>t, <1>u, <1>1 DEF Handle, Apart, Box
  <1> QED BY <1>2, <1>3, <1>5, <1>6, <1>7 DEF LogInv

LEMMA SpawnFailsKeeps ==
  ASSUME LogInv, SuperviseSpawnFails
  PROVE  LogInv'
  <1>t. LogTypes /\ Staged /\ Pumps /\ Files /\ Handle /\ box \in Box /\ log \in Log
    BY DEF LogInv, LogTypes
  <1>u. UNCHANGED <<wrote, pipe, pump, log, reopen>> /\ Create
    BY DEF SuperviseSpawnFails
  <1>1. /\ box' \in Box /\ box'.terminal = box.terminal /\ box'.state = box.state /\ box'.proc = box.proc
        /\ box'.code = box.code
        /\ box.sup = "spawn" /\ box'.sup = "record"
    BY <1>t DEF SuperviseSpawnFails, Box
  <1>2. LogTypes'
    BY <1>t, <1>u, <1>1, CreateMoves DEF LogTypes
  <1>3. Staged'
    BY <1>t, <1>1 DEF Staged
  <1>4. Piped' = Piped
    BY <1>1 DEF Piped
  <1>5. Pumps'
    BY <1>t, <1>u, <1>1, <1>4 DEF Pumps, Staged
  <1>6. Files'
    BY <1>t, <1>u, CreateMoves DEF Files
  <1>7. Handle'
    BY <1>t, <1>u, <1>1, CreateMoves DEF Handle, Apart
  <1> QED BY <1>2, <1>3, <1>5, <1>6, <1>7 DEF LogInv

LEMMA OpenKeeps ==
  ASSUME LogInv, NEW ok \in BOOLEAN, SuperviseOpen(ok) \/ TtyOpen(ok)
  PROVE  LogInv'
  <1>t. LogTypes /\ Staged /\ Pumps /\ Files /\ Handle /\ box \in Box /\ log \in Log /\ place \in Place
    BY DEF LogInv, LogTypes
  <1>n. Len(files) \in Nat /\ Nobody \notin Nat
    BY <1>t, LogAssumption DEF LogTypes, IsSeq
  <1>u. UNCHANGED <<wrote, pipe, reopen>>
    BY DEF SuperviseOpen, TtyOpen, OpenLog
  <1>1. /\ box' \in Box /\ box'.terminal = box.terminal /\ box'.state = box.state /\ box'.proc = box.proc
        /\ box'.code = box.code
        /\ box.sup = "open" /\ box'.sup = "drain"
    BY <1>t DEF SuperviseOpen, TtyOpen, OpenLog, Box
  <1>p. Piped' = Piped
    BY <1>1 DEF Piped
  <1>2. pump' = [s \in Streams |-> IF s \in Piped THEN [pump[s] EXCEPT !.pc = "read"] ELSE pump[s]]
    BY DEF SuperviseOpen, TtyOpen, OpenLog, Piped
  <1>3. /\ IsSeq(files') /\ Len(files') \in Nat /\ Len(files) <= Len(files') /\ place' \in Place
        /\ place'.moved = place.moved
        /\ place'.at = place.at \/ (place'.at = FileAt /\ FileAt \in 1..Len(files'))
        /\ \A i \in 1..Len(place.moved) : place.moved[i] # place'.at
        /\ ok => place'.at = FileAt /\ FileAt \in 1..Len(files')
    <2>1. CASE ok
      <3>1. Create
        BY <2>1 DEF SuperviseOpen, TtyOpen, OpenLog
      <3> QED BY <1>t, <3>1, CreateMoves
    <2>2. CASE ~ok
      <3>1. UNCHANGED <<files, place>>
        BY <2>2 DEF SuperviseOpen, TtyOpen, OpenLog
      <3> QED BY <1>t, <1>n, <2>2, <3>1 DEF LogTypes, Files
    <2> QED BY <2>1, <2>2
  <1>4. /\ log' \in Log /\ log'.file = IF ok THEN FileAt ELSE Nobody
        /\ ~box.terminal => log'.registered
    <2> DEFINE f == IF ok THEN FileAt ELSE Nobody
    <2>1. f \in Nat \cup {Nobody}
      BY <1>3
    <2> HIDE DEF f
    <2>2. \/ log' = [log EXCEPT !.file = f, !.opened = ok, !.registered = TRUE]
          \/ box.terminal /\ log' = [log EXCEPT !.file = f, !.opened = ok]
      BY DEF SuperviseOpen, TtyOpen, f
    <2>3. CASE log' = [log EXCEPT !.file = f, !.opened = ok, !.registered = TRUE]
      BY <1>t, <2>1, <2>3 DEF Log, f
    <2>4. CASE box.terminal /\ log' = [log EXCEPT !.file = f, !.opened = ok]
      BY <1>t, <2>1, <2>4 DEF Log, f
    <2> QED BY <2>2, <2>3, <2>4
  <1>5. /\ \E C : pump' \in [Streams -> [pc : PumpPCs, chunk : C]]
        /\ \A s \in Streams : pump'[s].pc = (IF s \in Piped THEN "read" ELSE "off") /\ pump'[s].chunk = <<>>
    <2>1. PICK C : pump \in [Streams -> [pc : PumpPCs, chunk : C]]
      BY <1>t DEF LogTypes
    <2>2. \A s \in Streams : pump[s].pc = "off" /\ pump[s].chunk = <<>>
      BY <1>t, <1>1 DEF Pumps
    <2>3. "read" \in PumpPCs
      BY DEF PumpPCs
    <2>4. pump' \in [Streams -> [pc : PumpPCs, chunk : C]]
      BY <1>2, <2>1, <2>3
    <2>5. \A s \in Streams : pump'[s].pc = (IF s \in Piped THEN "read" ELSE "off") /\ pump'[s].chunk = <<>>
      BY <1>2, <2>1, <2>2
    <2> QED BY <2>4, <2>5
  <1>6. LogTypes'
    BY <1>t, <1>u, <1>1, <1>3, <1>4, <1>5 DEF LogTypes
  <1>7. Staged'
    BY <1>t, <1>1 DEF Staged
  <1>8. Pumps'
    BY <1>t, <1>u, <1>1, <1>p, <1>5 DEF Pumps, Staged
  <1>9. Files'
    BY <1>t, <1>n, <1>u, <1>3, <1>4 DEF Files
  <1>10. Handle'
    <2>1. ASSUME NEW i \in 1..Len(place.moved) PROVE place.moved[i] # log'.file
      <3>1. place.moved[i] \in 1..Len(files)
        BY <1>t, <2>1 DEF Files
      <3> QED BY <1>n, <1>3, <1>4, <2>1, <3>1
    <2>2. \A n : n \in {Len(place.moved), Len(place.moved) - 1} => Apart(n)'
      <3>1. Len(place.moved) \in Nat /\ 1..(Len(place.moved) - 1) \subseteq 1..Len(place.moved)
        BY <1>t DEF Place
      <3> QED BY <1>3, <2>1, <3>1 DEF Apart
    <2> QED BY <1>u, <1>t, <1>1, <1>3, <1>4, <2>2 DEF Handle
  <1> QED BY <1>6, <1>7, <1>8, <1>9, <1>10 DEF LogInv

LEMMA CloseKeeps ==
  ASSUME LogInv, SuperviseClose
  PROVE  LogInv'
  <1>t. LogTypes /\ Staged /\ Pumps /\ Files /\ Handle /\ box \in Box /\ log \in Log
    BY DEF LogInv, LogTypes
  <1>u. UNCHANGED <<wrote, pipe, pump, files, place, reopen>>
    BY DEF SuperviseClose
  <1>1. /\ box' \in Box /\ box'.terminal = box.terminal /\ box'.state = box.state /\ box'.proc = box.proc
        /\ box'.code = box.code
        /\ box.sup = "close" /\ box'.sup = "gone"
    BY <1>t DEF SuperviseClose, Box
  <1>2. log' \in Log /\ log'.file = log.file /\ log'.registered = FALSE
    BY <1>t DEF SuperviseClose, Log
  <1>3. LogTypes' /\ Staged' /\ Piped' = Piped
    BY <1>t, <1>u, <1>1, <1>2 DEF LogTypes, Staged, Piped
  <1>4. Pumps'
    BY <1>t, <1>u, <1>1, <1>3 DEF Pumps
  <1>5. Files'
    BY <1>t, <1>u, <1>2 DEF Files
  <1>6. Handle'
    BY <1>t, <1>u, <1>1, <1>2 DEF Handle
  <1> QED BY <1>3, <1>4, <1>5, <1>6 DEF LogInv
(* Pump s goes to another of its steps. *)
LEMMA PumpUpdate ==
  ASSUME LogTypes, NEW s \in Streams, NEW pc \in PumpPCs, NEW chunk,
         pump' = [pump EXCEPT ![s] = [pc |-> pc, chunk |-> chunk]]
  PROVE  /\ \E C : pump' \in [Streams -> [pc : PumpPCs, chunk : C]]
         /\ pump'[s].pc = pc /\ pump'[s].chunk = chunk
         /\ \A r \in Streams : r # s => pump'[r] = pump[r]
  <1>1. PICK C : pump \in [Streams -> [pc : PumpPCs, chunk : C]]
    BY DEF LogTypes
  <1>2. pump' \in [Streams -> [pc : PumpPCs, chunk : C \cup {chunk}]]
    BY <1>1
  <1> QED BY <1>1, <1>2

LEMMA PumpGoes ==
  ASSUME LogTypes, NEW s \in Streams, NEW pc \in PumpPCs, pump' = [pump EXCEPT ![s].pc = pc]
  PROVE  pump' = [pump EXCEPT ![s] = [pc |-> pc, chunk |-> pump[s].chunk]]
  <1>1. PICK C : pump \in [Streams -> [pc : PumpPCs, chunk : C]]
    BY DEF LogTypes
  <1>2. ASSUME NEW x \in [pc : PumpPCs, chunk : C]
        PROVE  [x EXCEPT !.pc = pc] = [pc |-> pc, chunk |-> x.chunk]
    OBVIOUS
  <1>3. pump' = [pump EXCEPT ![s] = [pump[s] EXCEPT !.pc = pc]] /\ pump[s] \in [pc : PumpPCs, chunk : C]
    BY <1>1
  <1> QED BY <1>2, <1>3

LEMMA PipeUpdate ==
  ASSUME LogTypes, NEW s \in Streams, NEW v, pipe' = [pipe EXCEPT ![s] = v]
  PROVE  (\E P : pipe' \in [Streams -> P]) /\ \A r \in Streams : r # s => pipe'[r] = pipe[r]
  <1>1. PICK P : pipe \in [Streams -> P]
    BY DEF LogTypes
  <1>2. pipe' \in [Streams -> P \cup {v}]
    BY <1>1
  <1> QED BY <1>1, <1>2

(* The pumps and the workload. *)
LEMMA PumpKeeps ==
  ASSUME LogInv, NEW s \in Streams,
         PumpRead(s) \/ PumpEof(s) \/ PumpLock(s) \/ PumpWrite(s) \/ CtrWrite(s)
  PROVE  LogInv'
  <1>t. LogTypes /\ Staged /\ Pumps /\ Files /\ Handle /\ box \in Box /\ log \in Log
    BY DEF LogInv, LogTypes
  <1>u. UNCHANGED <<box, place, reopen>> /\ Piped' = Piped
    BY DEF PumpRead, PumpEof, PumpLock, PumpWrite, CtrWrite, Piped
  <1>1. (\E P : pipe' \in [Streams -> P]) /\ \A r \in Streams : r # s => pipe'[r] = pipe[r]
    <2>1. (\E v : pipe' = [pipe EXCEPT ![s] = v]) \/ pipe' = pipe
      BY DEF PumpRead, PumpEof, PumpLock, PumpWrite, CtrWrite, Take
    <2> QED BY <1>t, <2>1, PipeUpdate DEF LogTypes
  <1>2. /\ log' \in Log /\ log'.file = log.file /\ log'.registered = log.registered
    BY <1>t DEF PumpRead, PumpEof, PumpLock, PumpWrite, CtrWrite, Log
  <1>3. IsSeq(files') /\ Len(files') = Len(files)
    <2>1. ASSUME log.file # Nobody, files' = [files EXCEPT ![log.file].pending = cri_log_line(s, pump[s].chunk)]
          PROVE  IsSeq(files') /\ Len(files') = Len(files)
      <3> DEFINE v == [files[log.file] EXCEPT !.pending = cri_log_line(s, pump[s].chunk)]
      <3>1. files' = [files EXCEPT ![log.file] = v] /\ log.file \in 1..Len(files) /\ IsSeq(files)
        BY <1>t, <2>1 DEF Files, LogTypes
      <3> HIDE DEF v
      <3> QED BY <3>1, FilesUpdate
    <2>2. ASSUME files' = files PROVE IsSeq(files') /\ Len(files') = Len(files)
      BY <1>t, <2>2 DEF LogTypes
    <2> QED BY <2>1, <2>2 DEF PumpRead, PumpEof, PumpLock, PumpWrite, CtrWrite
  <1>4. Files' /\ Handle' /\ Staged'
    BY <1>t, <1>u, <1>2, <1>3 DEF Files, Handle, Apart, Staged
  <1> DEFINE PumpTypes == \E C : pump' \in [Streams -> [pc : PumpPCs, chunk : C]]
  <1>5. PumpTypes /\ Pumps'
    <2>0. {"read", "lock", "write", "done"} \subseteq PumpPCs
      BY DEF PumpPCs
    <2>1. CASE PumpRead(s)
      <3>1. pump[s].pc = "read" /\ pump' = [pump EXCEPT ![s] = [pc |-> "lock", chunk |-> Chunk(s)]]
        BY <2>1 DEF PumpRead, Take
      <3>2. PumpTypes /\ pump'[s].pc = "lock" /\ \A r \in Streams : r # s => pump'[r] = pump[r]
        BY <1>t, <2>0, <3>1, PumpUpdate
      <3>3. box.proc # "none" /\ s \in Piped /\ box.sup \notin {"idle", "spawn", "open", "record", "close", "gone"}
        BY <1>t, <2>1, <3>1 DEF PumpRead, Take, Pumps
      <3> QED BY <1>t, <1>u, <1>1, <3>2, <3>3 DEF Pumps
    <2>2. CASE PumpEof(s)
      <3>1. /\ pump[s].pc = "read" /\ pipe[s] = <<>> /\ box.proc = "dead" /\ pipe' = pipe
            /\ pump' = [pump EXCEPT ![s] = [pc |-> "done", chunk |-> pump[s].chunk]]
        BY <1>t, <2>0, <2>2, PumpGoes DEF PumpEof
      <3>2. /\ PumpTypes /\ pump'[s].pc = "done" /\ pump'[s].chunk = pump[s].chunk
            /\ \A r \in Streams : r # s => pump'[r] = pump[r]
        BY <1>t, <2>0, <3>1, PumpUpdate
      <3> QED BY <1>t, <1>u, <3>1, <3>2 DEF Pumps
    <2>3. CASE PumpLock(s)
      <3>1. /\ pump[s].pc = "lock" /\ pipe' = pipe
            /\ pump' = [pump EXCEPT ![s] = [pc |-> "write", chunk |-> pump[s].chunk]]
        BY <1>t, <2>0, <2>3, PumpGoes DEF PumpLock
      <3>2. PumpTypes /\ pump'[s].pc = "write" /\ \A r \in Streams : r # s => pump'[r] = pump[r]
        BY <1>t, <2>0, <3>1, PumpUpdate
      <3> QED BY <1>t, <1>u, <3>1, <3>2 DEF Pumps
    <2>4. CASE PumpWrite(s)
      <3>1. /\ pump[s].pc = "write" /\ pipe' = pipe
            /\ pump' = [pump EXCEPT ![s] = [pc |-> "read", chunk |-> <<>>]]
        BY <2>4 DEF PumpWrite
      <3>2. /\ PumpTypes /\ pump'[s].pc = "read" /\ pump'[s].chunk = <<>>
            /\ \A r \in Streams : r # s => pump'[r] = pump[r]
        BY <1>t, <2>0, <3>1, PumpUpdate
      <3> QED BY <1>t, <1>u, <3>1, <3>2 DEF Pumps
    <2>5. CASE CtrWrite(s)
      <3>1. pump' = pump /\ box.proc = "run" /\ s \in Piped
        BY <2>5 DEF CtrWrite
      <3>2. pump[s].pc # "done" /\ box.sup \notin {"record", "close", "gone"}
        BY <1>t, <3>1 DEF Pumps
      <3> QED BY <1>t, <1>u, <1>1, <3>1, <3>2 DEF LogTypes, Pumps
    <2> QED BY <2>1, <2>2, <2>3, <2>4, <2>5
  <1>6. LogTypes'
    BY <1>t, <1>u, <1>1, <1>2, <1>3, <1>5 DEF LogTypes
  <1> QED BY <1>4, <1>5, <1>6 DEF LogInv

LEMMA TtyKeeps ==
  ASSUME LogInv, TtyPump
  PROVE  LogInv'
  <1>t. /\ LogTypes /\ Staged /\ Pumps /\ Files /\ Handle /\ box \in Box
        /\ "stdout" \in Streams /\ box.terminal /\ pump["stdout"].pc = "read"
    BY LogAssumption DEF LogInv, LogTypes, TtyPump, Take
  <1>u. UNCHANGED <<box, wrote, pump, place, log, reopen>> /\ Piped' = Piped
    BY DEF TtyPump, Piped
  <1>1. (\E P : pipe' \in [Streams -> P]) /\ \A r \in Streams : r # "stdout" => pipe'[r] = pipe[r]
    <2>1. \E v : pipe' = [pipe EXCEPT !["stdout"] = v]
      BY DEF TtyPump, Take
    <2> QED BY <1>t, <2>1, PipeUpdate
  <1>2. IsSeq(files') /\ Len(files') = Len(files)
    <2>1. CASE log.file # Nobody
      <3> DEFINE v == [files[log.file] EXCEPT !.lines = @ \o cri_log_line("stdout", Chunk("stdout"))]
      <3>1. files' = [files EXCEPT ![log.file] = v] /\ log.file \in 1..Len(files) /\ IsSeq(files)
        BY <1>t, <2>1 DEF Files, LogTypes, TtyPump
      <3> HIDE DEF v
      <3> QED BY <3>1, FilesUpdate
    <2>2. CASE log.file = Nobody
      BY <1>t, <2>2 DEF TtyPump, LogTypes
    <2> QED BY <2>1, <2>2
  <1>3. Files' /\ Handle' /\ Staged' /\ LogTypes'
    BY <1>t, <1>u, <1>1, <1>2 DEF Files, Handle, Staged, LogTypes
  <1>4. /\ "stdout" \in Piped /\ box.proc # "none"
        /\ box.sup \notin {"idle", "spawn", "open", "record", "close", "gone"}
    BY <1>t DEF TtyPump, Take, Pumps
  <1>5. Pumps'
    BY <1>t, <1>u, <1>1, <1>4 DEF Pumps
  <1> QED BY <1>3, <1>5 DEF LogInv

LEMMA FileKeeps ==
  ASSUME LogInv, NEW f \in DOMAIN files, FileWrite(f)
  PROVE  LogInv'
  <1>t. LogTypes /\ Staged /\ Pumps /\ Files /\ Handle /\ IsSeq(files)
    BY DEF LogInv, LogTypes
  <1>u. UNCHANGED <<box, wrote, pipe, pump, place, log, reopen>> /\ Piped' = Piped
    BY DEF FileWrite, Piped
  <1>1. f \in 1..Len(files) /\ files' = [files EXCEPT ![f] = Flushed(files[f])]
    BY <1>t DEF FileWrite, IsSeq
  <1>2. IsSeq(files') /\ Len(files') = Len(files)
    BY <1>t, <1>1, FilesUpdate
  <1> QED BY <1>t, <1>u, <1>2 DEF LogInv, LogTypes, Staged, Pumps, Files, Handle, Apart
-----------------------------------------------------------------------------
(* The kubelet's rotation and ReopenContainerLog. *)
LEMMA RotateKeeps ==
  ASSUME LogInv, Rotate
  PROVE  LogInv'
  <1>t. /\ LogTypes /\ Staged /\ Pumps /\ Files /\ Handle
        /\ place \in Place /\ place.moved \in Seq(Nat) /\ place.at \in Nat \cup {Nobody}
    BY DEF LogInv, LogTypes, Place
  <1>u. UNCHANGED <<box, wrote, pipe, pump, files, log>> /\ Piped' = Piped
    BY DEF Rotate, Piped
  <1>1. /\ reopen = "idle" /\ reopen' = "check" /\ place.at # Nobody
        /\ place' = [at |-> Nobody, moved |-> Append(place.moved, place.at)]
    BY DEF Rotate
  <1>2. place.at \in Nat /\ place.at \in 1..Len(files)
    BY <1>t, <1>1 DEF Files
  <1> DEFINE q == Append(place.moved, place.at)
  <1>3. /\ q \in Seq(Nat) /\ Len(q) = Len(place.moved) + 1 /\ Len(place.moved) \in Nat
        /\ q[Len(q)] = place.at
        /\ \A i \in 1..Len(place.moved) : q[i] = place.moved[i]
    BY <1>t, <1>2
  <1>4. place'.at = Nobody /\ place'.moved = q
    BY <1>1
  <1> HIDE DEF q
  <1>5. place' \in Place
    BY <1>1, <1>3 DEF Place, q
  <1>6. LogTypes' /\ Staged' /\ Pumps'
    BY <1>t, <1>u, <1>1, <1>5 DEF LogTypes, Staged, Pumps
  <1>7. Files'
    <2>1. \A i \in 1..Len(q) : i \in 1..Len(place.moved) \/ i = Len(q)
      BY <1>3
    <2>2. \A i \in 1..Len(q) : q[i] \in 1..Len(files)
      BY <1>t, <1>2, <1>3, <2>1 DEF Files
    <2>3. \A i \in 1..Len(q) : q[i] # Nobody
      <3>1. Len(files) \in Nat /\ Nobody \notin Nat
        BY <1>t, LogAssumption DEF LogTypes, IsSeq
      <3> QED BY <2>2, <3>1
    <2>4. \A i, j \in 1..Len(q) : q[i] = q[j] => i = j
      BY <1>t, <1>3, <2>1 DEF Files
    <2> QED BY <1>t, <1>u, <1>3, <1>4, <2>2, <2>3, <2>4 DEF Files
  <1>8. Handle'
    <2>1. ~box.terminal => box.sup = "gone" \/ Apart(Len(place.moved))
      BY <1>t, <1>1 DEF Handle
    <2>2. Apart(Len(place.moved)) => \A i \in 1..(Len(q) - 1) : q[i] # log.file
      BY <1>3 DEF Apart
    <2>3. Apart(Len(place.moved)) => Apart(Len(place.moved) - 1)'
      BY <1>u, <1>4, <2>2 DEF Apart
    <2> QED BY <1>t, <1>u, <1>1, <2>1, <2>3 DEF Handle
  <1> QED BY <1>6, <1>7, <1>8 DEF LogInv

LEMMA RotateBackKeeps ==
  ASSUME LogInv, RotateBack
  PROVE  LogInv'
  <1>t. /\ LogTypes /\ Staged /\ Pumps /\ Files /\ Handle
        /\ place \in Place /\ place.moved \in Seq(Nat) /\ place.at \in Nat \cup {Nobody}
    BY DEF LogInv, LogTypes, Place
  <1>u. UNCHANGED <<box, wrote, pipe, pump, files, log>> /\ Piped' = Piped
    BY DEF RotateBack, Piped
  <1> DEFINE n == Len(place.moved)
             q == Front(place.moved)
  <1>1. /\ reopen = "refused" /\ reopen' = "idle"
        /\ place' = [at |-> Last(place.moved), moved |-> Front(place.moved)]
    BY DEF RotateBack
  <1>2. n \in Nat /\ n > 0
    BY <1>t, <1>1 DEF Files
  <1>3. Last(place.moved) = place.moved[n] /\ place.moved[n] \in Nat
    BY <1>t, <1>2 DEF Last
  <1>4. q \in Seq(Nat) /\ Len(q) = n - 1 /\ \A i \in 1..(n - 1) : q[i] = place.moved[i]
    BY <1>t, <1>2 DEF Front
  <1>5. place'.at = place.moved[n] /\ place'.moved = q
    BY <1>1, <1>3
  <1>6. place' \in Place
    BY <1>1, <1>3, <1>4 DEF Place
  <1> HIDE DEF q
  <1>7. LogTypes' /\ Staged' /\ Pumps'
    BY <1>t, <1>u, <1>1, <1>6 DEF LogTypes, Staged, Pumps
  <1>8. Files'
    <2>1. \A i \in 1..Len(q) : i \in 1..n /\ i # n /\ q[i] = place.moved[i]
      BY <1>2, <1>4
    <2>2. n \in 1..n /\ place.moved[n] \in 1..Len(files)
      BY <1>t, <1>2 DEF Files
    <2>3. \A i \in 1..Len(q) : q[i] \in 1..Len(files) /\ q[i] # place.moved[n]
      BY <1>t, <2>1, <2>2 DEF Files
    <2>4. \A i, j \in 1..Len(q) : q[i] = q[j] => i = j
      BY <1>t, <2>1 DEF Files
    <2> QED BY <1>t, <1>u, <1>1, <1>5, <2>2, <2>3, <2>4 DEF Files
  <1>9. Handle'
    <2>1. ~box.terminal => box.sup = "gone" \/ Apart(n - 1)
      BY <1>t, <1>1 DEF Handle
    <2>2. Apart(n - 1) => Apart(Len(place.moved))'
      BY <1>u, <1>4, <1>5 DEF Apart
    <2> QED BY <1>t, <1>u, <1>1, <2>1, <2>2 DEF Handle
  <1> QED BY <1>7, <1>8, <1>9 DEF LogInv

LEMMA ReopenKeeps ==
  ASSUME LogInv, ReopenGet \/ ReopenHandle \/ ReopenSwap
  PROVE  LogInv'
  <1>t. /\ LogTypes /\ Staged /\ Pumps /\ Files /\ Handle /\ log \in Log
        /\ place \in Place /\ place.at \in Nat \cup {Nobody} /\ place.moved \in Seq(Nat)
    BY DEF LogInv, LogTypes, Place
  <1>n. Len(files) \in Nat /\ Nobody \notin Nat
    BY <1>t, LogAssumption DEF LogTypes, IsSeq
  <1>u. UNCHANGED <<box, wrote, pipe, pump, files, place>> /\ Piped' = Piped
    BY DEF ReopenGet, ReopenHandle, ReopenSwap, Piped
  <1>1. CASE ReopenGet
    <2>1. reopen = "check" /\ reopen' \in {"create", "refused"} /\ log' = log
      BY <1>1 DEF ReopenGet
    <2>2. LogTypes' /\ Staged' /\ Pumps' /\ Files'
      BY <1>t, <1>u, <2>1 DEF LogTypes, Staged, Pumps, Files
    <2>3. Handle'
      BY <1>t, <1>u, <2>1 DEF Handle, Apart
    <2> QED BY <2>2, <2>3 DEF LogInv
  <1>2. CASE ReopenHandle
    <2>1. reopen = "handle" /\ reopen' = (IF log.registered THEN "swap" ELSE "idle") /\ log' = log
      BY <1>2 DEF ReopenHandle
    <2>2. LogTypes' /\ Staged' /\ Pumps' /\ Files'
      BY <1>t, <1>u, <2>1 DEF LogTypes, Staged, Pumps, Files
    <2>3. log.file = Nobody => Apart(Len(place.moved))
      BY <1>t, <1>n DEF Apart, Files
    <2>4. Handle'
      <3>1. CASE log.registered
        BY <1>t, <1>u, <2>1, <3>1 DEF Handle, Apart
      <3>2. CASE ~log.registered
        BY <1>t, <1>u, <2>1, <2>3, <3>2 DEF Handle, Apart
      <3> QED BY <3>1, <3>2
    <2> QED BY <2>2, <2>4 DEF LogInv
  <1>3. CASE ReopenSwap
    <2>1. reopen = "swap" /\ reopen' = "idle"
      BY <1>3 DEF ReopenSwap
    <2>2. log' \in Log /\ log'.file = place.at /\ log'.registered = log.registered
      BY <1>t, <1>3 DEF ReopenSwap, Log
    <2>3. LogTypes' /\ Staged' /\ Pumps' /\ Files'
      BY <1>t, <1>u, <2>1, <2>2 DEF LogTypes, Staged, Pumps, Files
    <2>4. Apart(Len(place.moved))'
      BY <1>t, <1>u, <2>2 DEF Apart, Files
    <2>5. Handle'
      BY <1>t, <1>u, <2>1, <2>2, <2>4 DEF Handle
    <2> QED BY <2>3, <2>5 DEF LogInv
  <1> QED BY <1>1, <1>2, <1>3

LEMMA ReopenCreateKeeps ==
  ASSUME LogInv, NEW ok \in BOOLEAN, ReopenCreate(ok)
  PROVE  LogInv'
  <1>t. LogTypes /\ Staged /\ Pumps /\ Files /\ Handle
    BY DEF LogInv
  <1>n. Len(files) \in Nat
    BY <1>t DEF LogTypes, IsSeq
  <1>u. UNCHANGED <<box, wrote, pipe, pump, log>> /\ Piped' = Piped
    BY DEF ReopenCreate, Piped
  <1>1. reopen = "create" /\ reopen' \in {"handle", "refused"}
    BY DEF ReopenCreate
  <1>2. CASE ok
    <2>1. Create
      BY <1>2 DEF ReopenCreate
    <2>2. LogTypes'
      BY <1>t, <1>u, <1>1, <2>1, CreateMoves DEF LogTypes
    <2>3. Staged' /\ Pumps'
      BY <1>t, <1>u DEF Staged, Pumps
    <2>4. Files'
      BY <1>t, <1>u, <1>1, <2>1, CreateMoves DEF Files
    <2>5. Handle'
      BY <1>t, <1>u, <1>1, <2>1, CreateMoves DEF Handle, Apart
    <2> QED BY <2>2, <2>3, <2>4, <2>5 DEF LogInv
  <1>3. CASE ~ok
    <2>1. UNCHANGED <<files, place>>
      BY <1>3 DEF ReopenCreate
    <2> QED BY <1>t, <1>u, <1>1, <2>1 DEF LogInv, LogTypes, Staged, Pumps, Files, Handle, Apart
  <1> QED BY <1>2, <1>3

LEMMA LogStepKeeps == LogInv /\ [Next]_vars => LogInv'
  <1> SUFFICES ASSUME LogInv, [Next]_vars PROVE LogInv'
    OBVIOUS
  <1>1. CASE UNCHANGED logVars
    <2>1. Piped' = Piped
      BY <1>1 DEF logVars, Piped
    <2> QED BY <1>1, <2>1 DEF logVars, LogInv, LogTypes, Staged, Pumps, Files, Handle, Apart
  <1>2. CASE LogStep
    BY <1>2, BoxKeeps, SpawnFailsKeeps, OpenKeeps, CloseKeeps, PumpKeeps, TtyKeeps, FileKeeps,
       RotateKeeps, RotateBackKeeps, ReopenKeeps, ReopenCreateKeeps DEF LogStep
  <1>3. CASE CtrExit \/ StopKill
    BY <1>3, BoxKeeps
  <1> QED BY <1>1, <1>2, <1>3 DEF Next, vars, ContainerEnds, ExecSyncCalled, CrunEnters

(* supervise_container and supervise_tty await the pumps before they return the
   exit code: in any interleaving of the workload, the pumps, a rotation, a
   StopContainer and ExecSync requests, with a log file or without one, a
   container whose own exit code is recorded has no output left in a pipe or in
   a pump.  Of the code that StopContainer makes up nothing of the kind holds. *)
THEOREM OutputBeforeExit == Spec => []ExitAfterOutput
  <1>1. Init => LogInv
    BY LogInitial DEF Init
  <1>2. LogInv => ExitAfterOutput
    BY DEF LogInv, Staged, Pumps, ExitAfterOutput
  <1> QED BY <1>1, <1>2, LogStepKeeps, PTL DEF Spec

(* reopen_container_log swaps the handle under its lock: once a rotation is
   over no step of a container without a terminal hands another line to any
   of the files that were renamed away, after any number of rotations, refused
   or failed ones included; what tokio still holds may reach them. *)
THEOREM RotatedLogsAreFinal == Spec => RotatedLogIsFinal
  <1> DEFINE Final == reopen = "idle" /\ ~ box.terminal =>
                        \A i \in DOMAIN place.moved :
                          LET f == place.moved[i]
                          IN place'.moved[i] = f /\ files'[f] \in {files[f], Flushed(files[f])}
  <1>1. ASSUME LogInv, [Next]_vars PROVE [Final]_logVars
    <2> SUFFICES ASSUME reopen = "idle", ~box.terminal, NEW i \in DOMAIN place.moved
                 PROVE  /\ place'.moved[i] = place.moved[i]
                        /\ files'[place.moved[i]] \in {files[place.moved[i]], Flushed(files[place.moved[i]])}
      OBVIOUS
    <2>t. LogTypes /\ Staged /\ Pumps /\ Files /\ Handle /\ IsSeq(files) /\ place.moved \in Seq(Nat)
      BY <1>1 DEF LogInv, LogTypes, Place
    <2>i. i \in 1..Len(place.moved)
      BY <2>t
    <2> DEFINE f == place.moved[i]
    <2>f. f \in 1..Len(files)
      BY <2>t, <2>i DEF Files
    <2>1. ASSUME UNCHANGED <<files, place>>
          PROVE  place'.moved[i] = f /\ files'[f] \in {files[f], Flushed(files[f])}
      BY <2>1
    <2>2. ASSUME Create
          PROVE  place'.moved[i] = f /\ files'[f] \in {files[f], Flushed(files[f])}
      BY <2>t, <2>i, <2>2, CreateMoves
    <2>3. ASSUME NEW s \in Streams, PumpWrite(s)
          PROVE  place'.moved[i] = f /\ files'[f] \in {files[f], Flushed(files[f])}
      <3>1. pump[s].pc = "write" /\ place' = place
        BY <2>3 DEF PumpWrite
      <3>2. box.sup # "gone"
        BY <2>t, <3>1 DEF Pumps
      <3>3. f # log.file
        BY <2>t, <2>i, <3>2 DEF Handle, Apart
      <3>4. CASE log.file = Nobody
        BY <2>3, <3>1, <3>4 DEF PumpWrite
      <3>5. CASE log.file # Nobody
        <4> DEFINE v == [files[log.file] EXCEPT !.pending = cri_log_line(s, pump[s].chunk)]
        <4>1. files' = [files EXCEPT ![log.file] = v] /\ log.file \in 1..Len(files)
          BY <2>t, <2>3, <3>5 DEF PumpWrite, Files
        <4> HIDE DEF v
        <4>2. files'[f] = files[f]
          BY <2>t, <2>f, <3>3, <4>1, FilesUpdate
        <4> QED BY <3>1, <4>2
      <3> QED BY <3>4, <3>5
    <2>4. ASSUME NEW g \in DOMAIN files, FileWrite(g)
          PROVE  place'.moved[i] = f /\ files'[f] \in {files[f], Flushed(files[f])}
      <3>1. /\ g \in 1..Len(files) /\ place' = place
            /\ files' = [files EXCEPT ![g] = Flushed(files[g])]
        BY <2>t, <2>4 DEF FileWrite, IsSeq
      <3>2. files'[g] = Flushed(files[g]) /\ \A h \in 1..Len(files) : h # g => files'[h] = files[h]
        BY <2>t, <3>1, FilesUpdate
      <3> QED BY <2>f, <3>1, <3>2
    <2>5. ASSUME Rotate
          PROVE  place'.moved[i] = f /\ files'[f] \in {files[f], Flushed(files[f])}
      <3>1. place' = [at |-> Nobody, moved |-> Append(place.moved, place.at)] /\ files' = files
        BY <2>5 DEF Rotate
      <3>2. place.at \in Nat
        BY <2>t, <2>5 DEF Rotate, LogTypes, Place
      <3>3. Append(place.moved, place.at)[i] = place.moved[i]
        BY <2>t, <2>i, <3>2
      <3> QED BY <3>1, <3>3
    <2>6. CASE LogStep
      BY <2>1, <2>2, <2>3, <2>4, <2>5, <2>6
      DEF LogStep, StartContainer, SuperviseSpawn, SuperviseSpawnFails, SuperviseOpen, TtyOpen, OpenLog,
          ReopenCreate, SuperviseReap, SuperviseRecord, SuperviseClose, StopRecord, PumpRead, PumpEof, PumpLock,
          CtrWrite, TtyPump, RotateBack, ReopenGet, ReopenHandle, ReopenSwap
    <2> QED BY <1>1, <2>1, <2>6
            DEF Next, vars, logVars, ContainerEnds, CtrExit, StopKill, ExecSyncCalled, CrunEnters
  <1>2. Init => LogInv
    BY LogInitial DEF Init
  <1>3. LogInv /\ [Next]_vars => [Final]_logVars
    BY <1>1
  <1>4. Spec => [][Final]_logVars
    BY <1>2, <1>3, LogStepKeeps, PTL DEF Spec
  <1> QED BY <1>4 DEF RotatedLogIsFinal
-----------------------------------------------------------------------------

(* Induction over the natural numbers, for a set. *)
LEMMA NatSet ==
  ASSUME NEW S, 0 \in S, \A n \in Nat : n \in S => n + 1 \in S
  PROVE  Nat \subseteq S
  <1> DEFINE R == OpToRel(<, Nat)
             T == Nat \ S
  <1>0. IsWellFoundedOn(R, Nat)
    BY NatLessThanWellFounded
  <1> SUFFICES ASSUME T # {} PROVE FALSE
    BY Zenon
  <1>1. PICK x \in T : \A y \in T : ~ (<<y, x>> \in R)
    <2>1. T \subseteq Nat
      OBVIOUS
    <2> HIDE DEF R, T
    <2> QED BY <1>0, <2>1, WFMin
  <1>2. x # 0 /\ x \in Nat
    OBVIOUS
  <1>3. x - 1 \in Nat /\ x - 1 < x
    BY <1>2
  <1>4. <<x - 1, x>> \in R
    BY <1>2, <1>3 DEF OpToRel
  <1>5. x - 1 \in S
    BY <1>1, <1>3, <1>4
  <1> QED BY <1>2, <1>3, <1>5

(* A function that a recurrence defines exists. *)
Iterated(n, A, base, next) ==
  \E f \in [0..n -> A] : f[0] = base /\ \A i \in 1..n : f[i] = next[i][f[i - 1]]

LEMMA Iterate ==
  ASSUME NEW n \in Nat, NEW A, NEW base \in A, NEW next \in [1..n -> [A -> A]]
  PROVE  Iterated(n, A, base, next)
  <1> DEFINE Runs(f, k) == f[0] = base /\ \A i \in 1..k : f[i] = next[i][f[i - 1]]
             S == {k \in Nat : k <= n => \E f \in [0..k -> A] : Runs(f, k)}
  <1>1. 0 \in S
    <2>1. [i \in 0..0 |-> base] \in [0..0 -> A] /\ Runs([i \in 0..0 |-> base], 0)
      OBVIOUS
    <2> HIDE DEF Runs
    <2> QED BY <2>1
  <1>2. ASSUME NEW k \in Nat, k \in S PROVE k + 1 \in S
    <2> SUFFICES ASSUME k + 1 <= n PROVE \E f \in [0..(k + 1) -> A] : Runs(f, k + 1)
      OBVIOUS
    <2>1. PICK f \in [0..k -> A] : Runs(f, k)
      <3>1. k <= n
        OBVIOUS
      <3> HIDE DEF Runs
      <3> QED BY <1>2, <3>1
    <2> DEFINE g == [i \in 0..(k + 1) |-> IF i = k + 1 THEN next[k + 1][f[k]] ELSE f[i]]
    <2>2. f[k] \in A /\ k + 1 \in 1..n
      OBVIOUS
    <2>3. next[k + 1][f[k]] \in A
      BY <2>2
    <2>4. g \in [0..(k + 1) -> A]
      BY <2>3
    <2>5. Runs(g, k + 1)
      <3>1. g[0] = base
        BY <2>1
      <3>2. ASSUME NEW i \in 1..(k + 1) PROVE g[i] = next[i][g[i - 1]]
        <4>1. CASE i = k + 1
          BY <4>1
        <4>2. CASE i # k + 1
          <5>1. i \in 1..k /\ i \in 0..k /\ i - 1 \in 0..k
            BY <4>2
          <5>2. g[i] = f[i] /\ g[i - 1] = f[i - 1]
            BY <5>1
          <5> QED BY <2>1, <5>1, <5>2
        <4> QED BY <4>1, <4>2
      <3> HIDE DEF g
      <3> QED BY <3>1, <3>2
    <2> HIDE DEF g, Runs
    <2> QED BY <2>4, <2>5
  <1>3. n \in S
    <2> HIDE DEF S
    <2> QED BY <1>1, <1>2, NatSet
  <1> QED BY <1>3 DEF Iterated

(* The partial results of FlattenSeq. *)
Flattens(f, ss, n, T) ==
  /\ f \in [0..n -> Seq(T)] /\ f[0] = <<>> /\ f[n] = FlattenSeq(ss)
  /\ \A i \in 1..n : f[i] = f[i - 1] \o ss[i]

LEMMA FlattenTrace ==
  ASSUME NEW T, NEW ss \in Seq(Seq(T))
  PROVE  \E f : Flattens(f, ss, Len(ss), T)
  <1> DEFINE n == Len(ss)
             P(h) == h = [i \in 1..n |-> IF i = 1 THEN ss[i] ELSE h[i - 1] \o ss[i]]
             flat == CHOOSE h : P(h)
  <1>n. n \in Nat /\ \A i \in 1..n : ss[i] \in Seq(T)
    OBVIOUS
  <1>1. PICK f \in [0..n -> Seq(T)] : f[0] = <<>> /\ \A i \in 1..n : f[i] = f[i - 1] \o ss[i]
    <2> DEFINE next == [i \in 1..n |-> [x \in Seq(T) |-> x \o ss[i]]]
    <2>1. next \in [1..n -> [Seq(T) -> Seq(T)]]
      BY <1>n
    <2>2. <<>> \in Seq(T)
      OBVIOUS
    <2>3. PICK f \in [0..n -> Seq(T)] : f[0] = <<>> /\ \A i \in 1..n : f[i] = next[i][f[i - 1]]
      <3> DEFINE A == Seq(T)
                 base == <<>>
      <3>1. n \in Nat /\ base \in A /\ next \in [1..n -> [A -> A]]
        BY <1>n, <2>1, <2>2
      <3> HIDE DEF next, n, A, base
      <3>2. Iterated(n, A, base, next)
        BY <3>1, Iterate
      <3> QED BY <3>2 DEF Iterated, A, base
    <2>4. \A i \in 1..n : i - 1 \in 0..n
      BY <1>n
    <2>5. \A i \in 1..n : f[i - 1] \in Seq(T)
      BY <2>4
    <2>6. \A i \in 1..n : next[i][f[i - 1]] = f[i - 1] \o ss[i]
      BY <2>5
    <2> QED BY <2>3, <2>6
  <1>e. \A x \in Seq(T) : <<>> \o x = x
    OBVIOUS
  <1>2. CASE n = 0
    <2>1. ss = <<>> /\ FlattenSeq(ss) = ss
      BY <1>2 DEF FlattenSeq
    <2> QED BY <1>1, <1>2, <2>1 DEF Flattens
  <1>3. CASE n # 0
    <2> DEFINE h == [i \in 1..n |-> f[i]]
    <2>1. P(h)
      <3>1. ASSUME NEW i \in 1..n PROVE f[i] = IF i = 1 THEN ss[i] ELSE h[i - 1] \o ss[i]
        <4>1. CASE i = 1
          <5>1. 1 \in 1..n /\ 1 - 1 = 0 /\ ss[1] \in Seq(T)
            BY <1>n, <4>1
          <5>2. f[1] = f[1 - 1] \o ss[1]
            BY <1>1, <5>1, Zenon
          <5> QED BY <1>1, <1>e, <4>1, <5>1, <5>2
        <4>2. CASE i # 1
          <5>1. i - 1 \in 1..n
            BY <1>n, <4>2
          <5> QED BY <1>1, <4>2, <5>1
        <4> QED BY <4>1, <4>2
      <3> QED BY <3>1
    <2>2. P(flat)
      <3> HIDE DEF P
      <3> QED BY <2>1, Zenon
    <2>3. FlattenSeq(ss) = flat[n]
      BY <1>3, Zenon DEF FlattenSeq
    <2> DEFINE S == {k \in Nat : k + 1 <= n => flat[k + 1] = f[k + 1]}
    <2> HIDE DEF flat
    <2>4. \A i \in 1..n : flat[i] = IF i = 1 THEN ss[i] ELSE flat[i - 1] \o ss[i]
      <3> DEFINE Step(i) == IF i = 1 THEN ss[i] ELSE flat[i - 1] \o ss[i]
      <3>1. flat = [i \in 1..n |-> Step(i)]
        BY <2>2
      <3> HIDE DEF Step
      <3>2. \A i \in 1..n : flat[i] = Step(i)
        BY <3>1
      <3> QED BY <3>2 DEF Step
    <2>5. 0 \in S
      <3>1. 1 \in 1..n /\ 0 \in 0..n
        BY <1>n, <1>3
      <3>2. f[1] = ss[1]
        <4>1. f[1] = f[1 - 1] \o ss[1]
          BY <1>1, <3>1, Zenon
        <4>2. 1 - 1 = 0 /\ ss[1] \in Seq(T)
          BY <1>n, <3>1
        <4> QED BY <1>1, <1>e, <4>1, <4>2
      <3> QED BY <2>4, <3>1, <3>2
    <2>6. ASSUME NEW k \in Nat, k \in S PROVE k + 1 \in S
      <3> SUFFICES ASSUME k + 2 <= n PROVE flat[k + 2] = f[k + 2]
        OBVIOUS
      <3>1. k + 2 \in 1..n /\ (k + 2) - 1 = k + 1 /\ k + 2 # 1 /\ k + 1 <= n
        BY <1>n
      <3>2. flat[k + 2] = flat[k + 1] \o ss[k + 2]
        BY <2>4, <3>1
      <3>3. f[k + 2] = f[k + 1] \o ss[k + 2]
        BY <1>1, <3>1
      <3> QED BY <2>6, <3>1, <3>2, <3>3
    <2>7. n - 1 \in S
      <3> HIDE DEF S
      <3>1. n - 1 \in Nat
        BY <1>n, <1>3
      <3> QED BY <2>5, <2>6, <3>1, NatSet
    <2>8. flat[n] = f[n]
      BY <1>n, <1>3, <2>7
    <2> QED BY <1>1, <2>3, <2>8 DEF Flattens
  <1> QED BY <1>2, <1>3

Assoc(x, y, z) == (x \o y) \o z = x \o (y \o z)

LEMMA ConcatAssoc ==
  ASSUME NEW T, NEW x \in Seq(T), NEW y \in Seq(T), NEW z \in Seq(T)
  PROVE  Assoc(x, y, z)
  BY DEF Assoc

LEMMA ConcatEmpty ==
  ASSUME NEW T, NEW x \in Seq(T)
  PROVE  x \o <<>> = x /\ <<>> \o x = x /\ x \o x \in Seq(T)
  OBVIOUS

LEMMA ConcatType ==
  ASSUME NEW T, NEW x \in Seq(T), NEW y \in Seq(T)
  PROVE  x \o y \in Seq(T)
  OBVIOUS

Parts(ss, T) == ss \in Seq(Seq(T))

LEMMA PartsTrace ==
  ASSUME NEW T, NEW ss, Parts(ss, T)
  PROVE  /\ Len(ss) \in Nat /\ \A i \in 1..Len(ss) : ss[i] \in Seq(T)
         /\ \E f : Flattens(f, ss, Len(ss), T)
  BY FlattenTrace DEF Parts

(* Part k grows by y, and those behind it are empty. *)
GrowsAt(ss, tt, k, y) ==
  /\ Len(tt) = Len(ss) /\ k \in 1..Len(ss) /\ tt[k] = ss[k] \o y
  /\ \A i \in 1..Len(ss) : i # k => tt[i] = ss[i]
  /\ \A i \in 1..Len(ss) : i > k => ss[i] = <<>>

LEMMA FlattenGrows ==
  ASSUME NEW T, NEW ss, NEW tt, NEW k, NEW y \in Seq(T),
         Parts(ss, T), Parts(tt, T), GrowsAt(ss, tt, k, y)
  PROVE  FlattenSeq(ss) \in Seq(T) /\ FlattenSeq(tt) = FlattenSeq(ss) \o y
  <1> DEFINE n == Len(ss)
  <1>1. PICK f : Flattens(f, ss, n, T)
    BY PartsTrace
  <1>2. PICK g : Flattens(g, tt, n, T)
    BY PartsTrace DEF GrowsAt
  <1>q. \A i \in 1..n : ss[i] \in Seq(T)
    BY PartsTrace
  <1>n. n \in Nat /\ k \in Nat /\ k <= n /\ k > 0
    BY PartsTrace DEF GrowsAt
  <1>k. /\ tt[k] = ss[k] \o y
        /\ \A i \in 1..n : i # k => tt[i] = ss[i]
        /\ \A i \in 1..n : i > k => ss[i] = <<>>
    BY DEF GrowsAt
  <1> HIDE DEF n
  <1>f. \A i \in 0..n : f[i] \in Seq(T)
    BY <1>1 DEF Flattens
  <1> DEFINE P(i) == i <= n => (i < k => g[i] = f[i]) /\ (i >= k => g[i] = f[i] \o y)
             S == {i \in Nat : P(i)}
  <1>3. P(0)
    BY <1>1, <1>2, <1>n DEF Flattens
  <1>4. ASSUME NEW i \in Nat, P(i) PROVE P(i + 1)
    <2> SUFFICES ASSUME i + 1 <= n
                 PROVE  (i + 1 < k => g[i + 1] = f[i + 1]) /\ (i + 1 >= k => g[i + 1] = f[i + 1] \o y)
      OBVIOUS
    <2>1. i + 1 \in 1..n /\ (i + 1) - 1 = i /\ i \in 0..n /\ i + 1 \in 0..n /\ i <= n
      BY <1>n
    <2>2. f[i + 1] = f[i] \o ss[i + 1] /\ g[i + 1] = g[i] \o tt[i + 1]
      BY <1>1, <1>2, <2>1 DEF Flattens
    <2>3. f[i] \in Seq(T) /\ f[i + 1] \in Seq(T) /\ ss[i + 1] \in Seq(T)
      BY <1>q, <1>f, <2>1
    <2>4. CASE i + 1 < k
      <3>1. i < k /\ ~(i + 1 >= k) /\ i + 1 # k
        BY <1>n, <2>4
      <3>2. tt[i + 1] = ss[i + 1] /\ g[i] = f[i]
        BY <1>k, <1>4, <2>1, <3>1
      <3> QED BY <2>2, <3>1, <3>2
    <2>5. CASE i + 1 = k
      <3>1. i < k /\ ~(i + 1 < k)
        BY <1>n, <2>5
      <3>2. tt[i + 1] = ss[i + 1] \o y /\ g[i] = f[i]
        BY <1>k, <1>4, <2>1, <2>5, <3>1
      <3>3. Assoc(f[i], ss[i + 1], y)
        BY <2>3, ConcatAssoc
      <3> QED BY <2>2, <3>1, <3>2, <3>3 DEF Assoc
    <2>6. CASE i + 1 > k
      <3>1. i >= k /\ ~ (i + 1 < k) /\ i + 1 # k
        BY <1>n, <2>6
      <3>2. tt[i + 1] = ss[i + 1] /\ ss[i + 1] = <<>> /\ g[i] = f[i] \o y
        BY <1>k, <1>4, <2>1, <2>6, <3>1
      <3>3. f[i] \o y \in Seq(T)
        BY <2>3, ConcatType
      <3>4. f[i + 1] = f[i] /\ g[i + 1] = g[i]
        BY <2>2, <2>3, <3>2, <3>3, ConcatEmpty
      <3> QED BY <3>1, <3>2, <3>4
    <2> QED BY <1>n, <2>4, <2>5, <2>6
  <1> HIDE DEF P
  <1>5. Nat \subseteq S
    <2>1. 0 \in S /\ \A i \in Nat : i \in S => i + 1 \in S
      BY <1>3, <1>4
    <2> HIDE DEF S
    <2> QED BY <2>1, NatSet
  <1>6. P(n) /\ n \in 0..n
    BY <1>n, <1>5
  <1>7. g[n] = f[n] \o y
    BY <1>n, <1>6 DEF P
  <1> QED BY <1>1, <1>2, <1>6, <1>7, <1>f DEF Flattens

LEMMA ConcatParts ==
  ASSUME NEW T, NEW a, NEW b, Parts(a, T), Parts(b, T)
  PROVE  /\ Parts(a \o b, T) /\ Len(a \o b) = Len(a) + Len(b)
         /\ \A i \in 1..Len(a) : (a \o b)[i] = a[i]
         /\ \A i \in 1..Len(b) : (a \o b)[Len(a) + i] = b[i]
  <1> DEFINE U == Seq(T)
  <1>1. a \in Seq(U) /\ b \in Seq(U)
    BY DEF Parts
  <1> HIDE DEF U
  <1>2. /\ a \o b \in Seq(U) /\ Len(a \o b) = Len(a) + Len(b)
        /\ \A i \in 1..Len(a) : (a \o b)[i] = a[i]
        /\ \A i \in 1..Len(b) : (a \o b)[Len(a) + i] = b[i]
    BY <1>1
  <1> QED BY <1>2 DEF Parts, U

LEMMA FlattenConcat ==
  ASSUME NEW T, NEW a, NEW b, Parts(a, T), Parts(b, T)
  PROVE  /\ FlattenSeq(a) \in Seq(T) /\ FlattenSeq(b) \in Seq(T)
         /\ FlattenSeq(a \o b) = FlattenSeq(a) \o FlattenSeq(b)
  <1> DEFINE c == a \o b
             m == Len(a)
             n == Len(b)
  <1>n. m \in Nat /\ n \in Nat
    BY PartsTrace
  <1>q. \A i \in 1..n : b[i] \in Seq(T)
    BY PartsTrace
  <1>c. /\ Parts(c, T) /\ Len(c) = m + n
        /\ \A i \in 1..m : c[i] = a[i]
        /\ \A i \in 1..n : c[m + i] = b[i]
    BY ConcatParts
  <1>1. PICK f : Flattens(f, a, m, T)
    BY PartsTrace
  <1>2. PICK g : Flattens(g, b, n, T)
    BY PartsTrace
  <1> HIDE DEF c, m, n
  <1>3. PICK h : Flattens(h, c, m + n, T)
    BY <1>c, PartsTrace
  <1>f. (\A i \in 0..m : f[i] \in Seq(T)) /\ \A i \in 0..n : g[i] \in Seq(T)
    BY <1>1, <1>2 DEF Flattens
  <1> DEFINE P(i) == i <= m => h[i] = f[i]
             S == {i \in Nat : P(i)}
  <1>4. P(0)
    BY <1>1, <1>3 DEF Flattens
  <1>5. ASSUME NEW i \in Nat, P(i) PROVE P(i + 1)
    <2> SUFFICES ASSUME i + 1 <= m PROVE h[i + 1] = f[i + 1]
      OBVIOUS
    <2>1. i + 1 \in 1..m /\ i + 1 \in 1..(m + n) /\ (i + 1) - 1 = i /\ i <= m
      BY <1>n
    <2>2. f[i + 1] = f[i] \o a[i + 1] /\ h[i + 1] = h[i] \o c[i + 1]
      BY <1>1, <1>3, <2>1 DEF Flattens
    <2> QED BY <1>c, <1>5, <2>1, <2>2
  <1> HIDE DEF P
  <1>6. h[m] = f[m]
    <2>1. 0 \in S /\ \A i \in Nat : i \in S => i + 1 \in S
      BY <1>4, <1>5
    <2>2. m \in S
      <3> HIDE DEF S
      <3> QED BY <1>n, <2>1, NatSet
    <2> QED BY <1>n, <2>2 DEF P
  <1>m. f[m] \in Seq(T) /\ m \in 0..m /\ n \in 0..n
    BY <1>n, <1>f
  <1> DEFINE Q(i) == i <= n => h[m + i] = f[m] \o g[i]
             R == {i \in Nat : Q(i)}
  <1>7. Q(0)
    <2>1. g[0] = <<>> /\ m + 0 = m
      BY <1>2, <1>n DEF Flattens
    <2>2. f[m] \o <<>> = f[m]
      BY <1>m, ConcatEmpty
    <2> QED BY <1>6, <2>1, <2>2
  <1>8. ASSUME NEW i \in Nat, Q(i) PROVE Q(i + 1)
    <2> SUFFICES ASSUME i + 1 <= n PROVE h[m + (i + 1)] = f[m] \o g[i + 1]
      OBVIOUS
    <2>1. /\ i + 1 \in 1..n /\ m + (i + 1) \in 1..(m + n) /\ (m + (i + 1)) - 1 = m + i
          /\ (i + 1) - 1 = i /\ i <= n /\ i \in 0..n
      BY <1>n
    <2>2. g[i + 1] = g[i] \o b[i + 1] /\ h[m + (i + 1)] = h[m + i] \o c[m + (i + 1)]
      BY <1>2, <1>3, <2>1 DEF Flattens
    <2>3. g[i] \in Seq(T) /\ b[i + 1] \in Seq(T) /\ c[m + (i + 1)] = b[i + 1]
      BY <1>c, <1>q, <1>f, <2>1
    <2>4. h[m + i] = f[m] \o g[i]
      BY <1>8, <2>1
    <2>5. Assoc(f[m], g[i], b[i + 1])
      BY <1>m, <2>3, ConcatAssoc
    <2> QED BY <2>2, <2>3, <2>4, <2>5 DEF Assoc
  <1> HIDE DEF Q
  <1>9. h[m + n] = f[m] \o g[n]
    <2>1. 0 \in R /\ \A i \in Nat : i \in R => i + 1 \in R
      BY <1>7, <1>8
    <2>2. n \in R
      <3> HIDE DEF R
      <3> QED BY <1>n, <2>1, NatSet
    <2>3. Q(n) /\ n <= n
      BY <1>n, <2>2
    <2> QED BY <2>3 DEF Q
  <1>11. FlattenSeq(a) = f[m] /\ FlattenSeq(b) = g[n] /\ FlattenSeq(c) = h[m + n]
    BY <1>1, <1>2, <1>3 DEF Flattens
  <1> QED BY <1>9, <1>11, <1>f, <1>m DEF c

(* The concatenation of what a function gives for each element. *)
Mapped(E, s) == [i \in DOMAIN s |-> E[s[i]]]
Flat(E, s) == FlattenSeq(Mapped(E, s))

Gives(E, T, U) == E \in [T -> Seq(U)]

Maps(m, E, s, U) ==
  Parts(m, U) /\ Len(m) = Len(s) /\ Len(s) \in Nat /\ \A i \in 1..Len(s) : m[i] = E[s[i]]

LEMMA MappedParts ==
  ASSUME NEW T, NEW U, NEW E, Gives(E, T, U), NEW s \in Seq(T)
  PROVE  Maps(Mapped(E, s), E, s, U)
  <1> DEFINE W == Seq(U)
             m == Mapped(E, s)
             n == Len(s)
  <1>1. E \in [T -> W]
    BY DEF Gives
  <1> HIDE DEF W
  <1>2. n \in Nat /\ DOMAIN s = 1..n /\ \A i \in 1..n : s[i] \in T
    OBVIOUS
  <1> HIDE DEF n
  <1>3. m \in [1..n -> W] /\ \A i \in 1..n : m[i] = E[s[i]]
    BY <1>1, <1>2 DEF Mapped
  <1> HIDE DEF m
  <1>4. m \in Seq(W) /\ Len(m) = n
    BY <1>2, <1>3
  <1> QED BY <1>2, <1>3, <1>4 DEF Parts, Maps, W, m, n

Distributes(E, s, t, U) ==
  /\ Flat(E, s) \in Seq(U) /\ Flat(E, t) \in Seq(U)
  /\ Flat(E, s \o t) = Flat(E, s) \o Flat(E, t)

LEMMA FlatConcat ==
  ASSUME NEW T, NEW U, NEW E, Gives(E, T, U), NEW s \in Seq(T), NEW t \in Seq(T)
  PROVE  Distributes(E, s, t, U)
  <1> DEFINE a == Mapped(E, s)
             b == Mapped(E, t)
             c == Mapped(E, s \o t)
  <1>1. s \o t \in Seq(T) /\ Len(s \o t) = Len(s) + Len(t)
    OBVIOUS
  <1>m. Maps(a, E, s, U) /\ Maps(b, E, t, U) /\ Maps(c, E, s \o t, U)
    BY <1>1, MappedParts
  <1> HIDE DEF a, b, c
  <1>2. /\ Parts(a, U) /\ Len(a) = Len(s)
        /\ \A i \in 1..Len(s) : a[i] = E[s[i]]
    BY <1>m DEF Maps
  <1>3. /\ Parts(b, U) /\ Len(b) = Len(t)
        /\ \A i \in 1..Len(t) : b[i] = E[t[i]]
    BY <1>m DEF Maps
  <1>4. /\ Parts(c, U) /\ Len(c) = Len(s \o t)
        /\ \A i \in 1..Len(s \o t) : c[i] = E[(s \o t)[i]]
    BY <1>m DEF Maps
  <1>5. c = a \o b
    <2> DEFINE W == Seq(U)
               d == a \o b
    <2>1. a \in Seq(W) /\ b \in Seq(W) /\ c \in Seq(W)
      BY <1>2, <1>3, <1>4 DEF Parts
    <2> HIDE DEF W
    <2>2. /\ d \in Seq(W) /\ Len(d) = Len(a) + Len(b)
          /\ \A i \in 1..Len(d) : d[i] = IF i <= Len(a) THEN a[i] ELSE b[i - Len(a)]
      BY <2>1
    <2>3. \A i \in 1..Len(s \o t) : (s \o t)[i] = IF i <= Len(s) THEN s[i] ELSE t[i - Len(s)]
      OBVIOUS
    <2>4. Len(s) \in Nat /\ Len(t) \in Nat
      OBVIOUS
    <2>5. ASSUME NEW i \in 1..(Len(s) + Len(t)) PROVE c[i] = d[i]
      <3>1. CASE i <= Len(s)
        <4>1. i \in 1..Len(s)
          BY <2>4, <3>1
        <4>2. d[i] = a[i]
          BY <1>2, <1>3, <2>2, <3>1
        <4>3. c[i] = E[s[i]]
          BY <1>1, <1>4, <2>3, <3>1
        <4> QED BY <1>2, <4>1, <4>2, <4>3
      <3>2. CASE ~(i <= Len(s))
        <4>1. i - Len(s) \in 1..Len(t)
          BY <2>4, <3>2
        <4>2. d[i] = b[i - Len(s)]
          BY <1>2, <1>3, <2>2, <3>2
        <4>3. c[i] = E[t[i - Len(s)]]
          BY <1>1, <1>4, <2>3, <3>2
        <4> QED BY <1>3, <4>1, <4>2, <4>3
      <3> QED BY <3>1, <3>2
    <2>6. c = [i \in 1..(Len(s) + Len(t)) |-> c[i]] /\ d = [i \in 1..(Len(s) + Len(t)) |-> d[i]]
      <3>1. Len(c) = Len(s) + Len(t) /\ Len(d) = Len(s) + Len(t)
        BY <1>1, <1>2, <1>3, <1>4, <2>2
      <3> HIDE DEF d
      <3> QED BY <2>1, <2>2, <3>1
    <2> HIDE DEF d
    <2>7. c = d
      BY <2>5, <2>6
    <2> QED BY <2>7 DEF d
  <1>6. /\ FlattenSeq(a) \in Seq(U) /\ FlattenSeq(b) \in Seq(U)
        /\ FlattenSeq(a \o b) = FlattenSeq(a) \o FlattenSeq(b)
    BY <1>2, <1>3, FlattenConcat
  <1> QED BY <1>5, <1>6 DEF Distributes, Flat, a, b, c

LEMMA FlatEmpty ==
  ASSUME NEW E
  PROVE  Flat(E, <<>>) = <<>>
  <1>1. Mapped(E, <<>>) = <<>>
    BY DEF Mapped
  <1>2. FlattenSeq(<<>>) = <<>>
    BY DEF FlattenSeq
  <1> QED BY <1>1, <1>2 DEF Flat

LEMMA FlatOne ==
  ASSUME NEW T, NEW U, NEW E, Gives(E, T, U), NEW x \in T
  PROVE  Flat(E, <<x>>) = E[x]
  <1> DEFINE m == Mapped(E, <<x>>)
  <1>1. <<x>> \in Seq(T) /\ Len(<<x>>) = 1 /\ <<x>>[1] = x /\ E[x] \in Seq(U) /\ 1 \in 1..1
    BY DEF Gives
  <1>m. Maps(m, E, <<x>>, U)
    BY <1>1, MappedParts
  <1> HIDE DEF m
  <1>2. Parts(m, U) /\ Len(m) = 1 /\ m[1] = E[x]
    BY <1>1, <1>m DEF Maps
  <1>3. PICK f : Flattens(f, m, 1, U)
    BY <1>2, PartsTrace
  <1>4. f[0] = <<>> /\ f[1] = FlattenSeq(m) /\ f[1] = f[1 - 1] \o m[1]
    BY <1>1, <1>3 DEF Flattens
  <1>5. <<>> \o E[x] = E[x] /\ 1 - 1 = 0
    BY <1>1, ConcatEmpty
  <1> QED BY <1>2, <1>4, <1>5 DEF Flat, m

Extends(E, s, x, U) == Flat(E, Append(s, x)) = Flat(E, s) \o E[x] /\ Flat(E, s) \in Seq(U)

LEMMA FlatAppend ==
  ASSUME NEW T, NEW U, NEW E, Gives(E, T, U), NEW s \in Seq(T), NEW x \in T
  PROVE  Extends(E, s, x, U)
  <1>1. <<x>> \in Seq(T) /\ Append(s, x) = s \o <<x>>
    OBVIOUS
  <1>2. Distributes(E, s, <<x>>, U)
    BY <1>1, FlatConcat
  <1>3. Flat(E, <<x>>) = E[x]
    BY FlatOne
  <1> QED BY <1>1, <1>2, <1>3 DEF Distributes, Extends

(* An element may be kept, or left out. *)
LEMMA FlatNothing ==
  ASSUME NEW T, NEW U, NEW E, Gives(E, T, U), NEW s \in Seq(T), \A i \in 1..Len(s) : E[s[i]] = <<>>
  PROVE  Flat(E, s) = <<>>
  <1> DEFINE m == Mapped(E, s)
             n == Len(s)
  <1>1. Parts(m, U) /\ Len(m) = n /\ n \in Nat /\ \A i \in 1..n : m[i] = <<>>
    <2> HIDE DEF m
    <2>1. Maps(m, E, s, U)
      BY MappedParts DEF m
    <2> QED BY <2>1 DEF Maps
  <1> HIDE DEF m, n
  <1>2. PICK f : Flattens(f, m, n, U)
    BY <1>1, PartsTrace
  <1> DEFINE S == {i \in Nat : i <= n => f[i] = <<>>}
  <1>3. 0 \in S
    BY <1>2 DEF Flattens
  <1>4. ASSUME NEW i \in Nat, i \in S PROVE i + 1 \in S
    <2> SUFFICES ASSUME i + 1 <= n PROVE f[i + 1] = <<>>
      OBVIOUS
    <2>1. i + 1 \in 1..n /\ (i + 1) - 1 = i /\ i <= n
      BY <1>1
    <2>2. f[i + 1] = f[i] \o m[i + 1] /\ f[i] = <<>> /\ m[i + 1] = <<>>
      BY <1>1, <1>2, <1>4, <2>1 DEF Flattens
    <2> QED BY <2>2
  <1>5. n \in S
    <2> HIDE DEF S
    <2> QED BY <1>1, <1>3, <1>4, NatSet
  <1>6. f[n] = <<>>
    BY <1>1, <1>5
  <1> QED BY <1>2, <1>6 DEF Flattens, Flat, m

LEMMA FlatAll ==
  ASSUME NEW T, NEW E, Gives(E, T, T), NEW s \in Seq(T), \A i \in 1..Len(s) : E[s[i]] = <<s[i]>>
  PROVE  Flat(E, s) = s
  <1> DEFINE m == Mapped(E, s)
             n == Len(s)
  <1>1. Parts(m, T) /\ Len(m) = n /\ n \in Nat /\ \A i \in 1..n : m[i] = <<s[i]>> /\ s[i] \in T
    <2> HIDE DEF m
    <2>1. Maps(m, E, s, T)
      BY MappedParts DEF m
    <2>2. \A i \in 1..n : s[i] \in T
      OBVIOUS
    <2> QED BY <2>1, <2>2 DEF Maps
  <1> HIDE DEF m, n
  <1>2. PICK f : Flattens(f, m, n, T)
    BY <1>1, PartsTrace
  <1>f. \A i \in 0..n : f[i] \in Seq(T)
    BY <1>2 DEF Flattens
  <1> DEFINE P(i) == i <= n => Len(f[i]) = i /\ \A j \in 1..i : f[i][j] = s[j]
             S == {i \in Nat : P(i)}
  <1>3. P(0)
    BY <1>2 DEF Flattens
  <1>4. ASSUME NEW i \in Nat, P(i) PROVE P(i + 1)
    <2> SUFFICES ASSUME i + 1 <= n PROVE Len(f[i + 1]) = i + 1 /\ \A j \in 1..(i + 1) : f[i + 1][j] = s[j]
      OBVIOUS
    <2>1. i + 1 \in 1..n /\ (i + 1) - 1 = i /\ i <= n /\ i \in 0..n
      BY <1>1
    <2>2. f[i + 1] = f[i] \o <<s[i + 1]>> /\ f[i] \in Seq(T) /\ s[i + 1] \in T
      BY <1>1, <1>2, <1>f, <2>1 DEF Flattens
    <2>3. Len(f[i]) = i /\ \A j \in 1..i : f[i][j] = s[j]
      BY <1>4, <2>1
    <2> DEFINE u == f[i]
               x == s[i + 1]
               v == f[i + 1]
    <2>4. v = u \o <<x>> /\ u \in Seq(T) /\ x \in T /\ Len(u) = i
      BY <2>2, <2>3
    <2> HIDE DEF u, x, v
    <2>a. u \o <<x>> = Append(u, x)
      BY <2>4
    <2>5. Len(v) = i + 1 /\ v[i + 1] = x /\ \A j \in 1..i : v[j] = u[j]
      BY <2>4, <2>a
    <2>6. \A j \in 1..(i + 1) : j \in 1..i \/ j = i + 1
      OBVIOUS
    <2> QED BY <2>3, <2>5, <2>6 DEF u, x, v
  <1> HIDE DEF P
  <1>5. P(n)
    <2>1. 0 \in S /\ \A i \in Nat : i \in S => i + 1 \in S
      BY <1>3, <1>4
    <2>2. n \in S
      <3> HIDE DEF S
      <3> QED BY <1>1, <2>1, NatSet
    <2> QED BY <2>2
  <1>6. f[n] \in Seq(T) /\ Len(f[n]) = n /\ \A j \in 1..n : f[n][j] = s[j]
    <2>1. n \in 0..n /\ n <= n
      BY <1>1
    <2> QED BY <1>5, <1>f, <2>1 DEF P
  <1> DEFINE r == f[n]
  <1>7. r \in Seq(T) /\ Len(r) = Len(s) /\ \A j \in 1..Len(s) : r[j] = s[j]
    BY <1>6 DEF n
  <1> HIDE DEF r
  <1>8. r = [j \in 1..Len(s) |-> r[j]] /\ s = [j \in 1..Len(s) |-> s[j]]
    BY <1>7
  <1>9. r = s
    BY <1>7, <1>8
  <1> QED BY <1>2, <1>9 DEF Flattens, Flat, m, r
-----------------------------------------------------------------------------
(* What cri_log_line makes of a chunk. *)
Byte == Nat \cup {NL}
LineType == [stream : Streams, tag : {"F", "P"}, text : Seq(Byte)]

TextOf == [l \in LineType |-> l.text]
ByteOf == [b \in Byte |-> IF b # NL THEN <<b>> ELSE <<>>]
StreamOf(s) == [l \in LineType |-> IF l.stream = s THEN <<l>> ELSE <<>>]
Of(lines, s) == Retain(lines, LAMBDA l : l.stream = s)

LEMMA LogMaps ==
  ASSUME NEW s
  PROVE  Gives(TextOf, LineType, Byte) /\ Gives(ByteOf, Byte, Byte) /\ Gives(StreamOf(s), LineType, LineType)
  <1>1. Gives(TextOf, LineType, Byte)
    BY DEF Gives, TextOf, LineType
  <1>2. Gives(ByteOf, Byte, Byte)
    <2>1. \A b \in Byte : (IF b # NL THEN <<b>> ELSE <<>>) \in Seq(Byte)
      OBVIOUS
    <2> QED BY <2>1 DEF Gives, ByteOf
  <1>3. Gives(StreamOf(s), LineType, LineType)
    <2>1. \A l \in LineType : (IF l.stream = s THEN <<l>> ELSE <<>>) \in Seq(LineType)
      OBVIOUS
    <2> QED BY <2>1 DEF Gives, StreamOf
  <1> QED BY <1>1, <1>2, <1>3

LEMMA TextIs ==
  ASSUME NEW lines \in Seq(LineType)
  PROVE  Text(lines) = Flat(TextOf, lines)
  <1>1. \A i \in DOMAIN lines : lines[i] \in LineType
    OBVIOUS
  <1>2. \A i \in DOMAIN lines : TextOf[lines[i]] = lines[i].text
    BY <1>1 DEF TextOf
  <1>3. Mapped(TextOf, lines) = [i \in DOMAIN lines |-> lines[i].text]
    BY <1>2 DEF Mapped
  <1> QED BY <1>3 DEF Text, Flat

LEMMA BytesIs ==
  ASSUME NEW seq \in Seq(Byte)
  PROVE  Bytes(seq) = Flat(ByteOf, seq)
  <1> DEFINE m == [i \in DOMAIN seq |-> IF seq[i] # NL THEN <<seq[i]>> ELSE <<>>]
  <1>1. \A i \in DOMAIN seq : seq[i] \in Byte
    OBVIOUS
  <1>2. \A i \in DOMAIN seq : ByteOf[seq[i]] = IF seq[i] # NL THEN <<seq[i]>> ELSE <<>>
    BY <1>1 DEF ByteOf
  <1>3. Mapped(ByteOf, seq) = m
    BY <1>2 DEF Mapped
  <1>4. Bytes(seq) = FlattenSeq(m)
    BY Zenon DEF Bytes, Retain
  <1> QED BY <1>3, <1>4 DEF Flat

LEMMA OfIs ==
  ASSUME NEW lines \in Seq(LineType), NEW s
  PROVE  Of(lines, s) = Flat(StreamOf(s), lines)
  <1> DEFINE m == [i \in DOMAIN lines |-> IF lines[i].stream = s THEN <<lines[i]>> ELSE <<>>]
  <1>1. \A i \in DOMAIN lines : lines[i] \in LineType
    OBVIOUS
  <1>2. \A i \in DOMAIN lines : StreamOf(s)[lines[i]] = IF lines[i].stream = s THEN <<lines[i]>> ELSE <<>>
    BY <1>1 DEF StreamOf
  <1>3. Mapped(StreamOf(s), lines) = m
    BY <1>2 DEF Mapped
  <1>4. Of(lines, s) = FlattenSeq(m)
    BY Zenon DEF Of, Retain
  <1> QED BY <1>3, <1>4 DEF Flat

(* The bytes of a chunk, one after the other. *)
LineState == [out : Seq(LineType), text : Seq(Byte)]
LineStart == [out |-> <<>>, text |-> <<>>]
LineEnd(s, end) == IF end.text = <<>> THEN end.out ELSE Append(end.out, Line(s, "P", end.text))

LineRun(f, s, c) ==
  /\ f \in [0..Len(c) -> LineState] /\ f[0] = LineStart
  /\ \A i \in 1..Len(c) : f[i] = LineByte(s, f[i - 1], c[i])
  /\ cri_log_line(s, c) = LineEnd(s, f[Len(c)])

LEMMA LineByteType ==
  ASSUME NEW s \in Streams, NEW x \in LineState, NEW b \in Byte
  PROVE  LineByte(s, x, b) \in LineState
  <1>1. x.out \in Seq(LineType) /\ x.text \in Seq(Byte)
    BY DEF LineState
  <1>2. Append(x.text, b) \in Seq(Byte) /\ <<>> \in Seq(Byte)
    BY <1>1
  <1>3. Line(s, "F", x.text) \in LineType
    BY <1>1 DEF Line, LineType
  <1>4. Append(x.out, Line(s, "F", x.text)) \in Seq(LineType)
    BY <1>1, <1>3
  <1> QED BY <1>1, <1>2, <1>4 DEF LineByte, LineState

LEMMA LineTrace ==
  ASSUME NEW s \in Streams, NEW c \in Seq(Byte)
  PROVE  \E f : LineRun(f, s, c)
  <1> DEFINE n == Len(c)
             A == LineState
             next == [i \in 1..n |-> [x \in A |-> LineByte(s, x, c[i])]]
             P(h) == h = [i \in 0..n |-> IF i = 0 THEN [out |-> <<>>, text |-> <<>>] ELSE LineByte(s, h[i - 1], c[i])]
             it == CHOOSE h : P(h)
  <1>1. n \in Nat /\ \A i \in 1..n : c[i] \in Byte
    OBVIOUS
  <1>2. LineStart \in A
    BY DEF LineStart, LineState
  <1>3. PICK f \in [0..n -> A] : f[0] = LineStart /\ \A i \in 1..n : f[i] = LineByte(s, f[i - 1], c[i])
    <2>1. next \in [1..n -> [A -> A]]
      BY <1>1, LineByteType
    <2>2. Iterated(n, A, LineStart, next)
      <3> DEFINE base == LineStart
      <3> HIDE DEF n, A, next, base
      <3>1. Iterated(n, A, base, next)
        BY <1>1, <1>2, <2>1, Iterate DEF base
      <3> QED BY <3>1 DEF base
    <2>3. PICK f \in [0..n -> A] : f[0] = LineStart /\ \A i \in 1..n : f[i] = next[i][f[i - 1]]
      BY <2>2 DEF Iterated
    <2>4. \A i \in 1..n : i - 1 \in 0..n
      BY <1>1
    <2>5. \A i \in 1..n : next[i][f[i - 1]] = LineByte(s, f[i - 1], c[i])
      BY <2>4
    <2> QED BY <2>3, <2>5
  <1>4. P(f)
    <2>1. \A i \in 0..n : i = 0 \/ i \in 1..n
      BY <1>1
    <2>2. ASSUME NEW i \in 0..n
          PROVE  f[i] = IF i = 0 THEN [out |-> <<>>, text |-> <<>>] ELSE LineByte(s, f[i - 1], c[i])
      BY <1>3, <2>1 DEF LineStart
    <2> QED BY <2>2
  <1>5. P(it)
    <2> HIDE DEF P
    <2> QED BY <1>4, Zenon
  <1>6. cri_log_line(s, c) = LineEnd(s, it[n])
    BY Zenon DEF cri_log_line, LineEnd
  <1> HIDE DEF it
  <1>7. it[0] = LineStart /\ \A i \in 1..n : it[i] = LineByte(s, it[i - 1], c[i])
    <2> DEFINE Step(i) == IF i = 0 THEN [out |-> <<>>, text |-> <<>>] ELSE LineByte(s, it[i - 1], c[i])
    <2>1. it = [i \in 0..n |-> Step(i)]
      BY <1>5
    <2> HIDE DEF Step
    <2>2. \A i \in 0..n : it[i] = Step(i)
      BY <2>1
    <2>3. 0 \in 0..n /\ \A i \in 1..n : i \in 0..n /\ i # 0
      BY <1>1
    <2> QED BY <2>2, <2>3 DEF Step, LineStart
  <1> DEFINE S == {i \in Nat : i <= n => it[i] = f[i]}
  <1>8. 0 \in S
    BY <1>3, <1>7
  <1>9. ASSUME NEW i \in Nat, i \in S PROVE i + 1 \in S
    <2> SUFFICES ASSUME i + 1 <= n PROVE it[i + 1] = f[i + 1]
      OBVIOUS
    <2>1. i + 1 \in 1..n /\ (i + 1) - 1 = i /\ i <= n
      BY <1>1
    <2> QED BY <1>3, <1>7, <1>9, <2>1
  <1>10. it[n] = f[n]
    <2>1. n \in S
      <3> HIDE DEF S
      <3> QED BY <1>1, <1>8, <1>9, NatSet
    <2> QED BY <1>1, <2>1
  <1> QED BY <1>3, <1>6, <1>10 DEF LineRun

(* b is followed by c in w; and what LogIsComplete asks of a line. *)
Adj(w, b, c) == \E i \in 1..(Len(w) - 1) : w[i] = b /\ w[i + 1] = c
Fits(w, l) ==
  LET t == l.text
  IN /\ \A j \in 1..(Len(t) - 1) : Adj(w, t[j], t[j + 1])
     /\ l.tag = "F" => Adj(w, Last(t), NL)

(* t is what c holds up to place i. *)
Ends(t, c, i) ==
  /\ t \in Seq(Byte) /\ Len(t) <= i /\ i <= Len(c)
  /\ \A j \in 1..Len(t) : t[j] = c[(i - Len(t)) + j]

LEMMA EndsAdjacent ==
  ASSUME NEW c \in Seq(Byte), NEW i \in Nat, NEW t, Ends(t, c, i), NEW j \in 1..(Len(t) - 1)
  PROVE  Adj(c, t[j], t[j + 1])
  <1> DEFINE k == (i - Len(t)) + j
  <1>1. Len(t) \in Nat /\ Len(c) \in Nat /\ Len(t) <= i /\ i <= Len(c)
    BY DEF Ends
  <1>2. k \in 1..(Len(c) - 1) /\ j \in 1..Len(t) /\ j + 1 \in 1..Len(t) /\ (i - Len(t)) + (j + 1) = k + 1
    BY <1>1
  <1>3. t[j] = c[k] /\ t[j + 1] = c[(i - Len(t)) + (j + 1)]
    BY <1>2 DEF Ends
  <1> HIDE DEF k
  <1> QED BY <1>2, <1>3 DEF Adj

LEMMA EndsFits ==
  ASSUME NEW c \in Seq(Byte), NEW i \in Nat, NEW t, Ends(t, c, i), NEW s, NEW tag,
         tag = "F" => t # <<>> /\ i + 1 <= Len(c) /\ c[i + 1] = NL
  PROVE  Fits(c, Line(s, tag, t))
  <1> DEFINE l == Line(s, tag, t)
  <1>1. l.text = t /\ l.tag = tag
    BY DEF Line
  <1>2. tag = "F" => Adj(c, Last(t), NL)
    <2> SUFFICES ASSUME tag = "F" PROVE Adj(c, Last(t), NL)
      OBVIOUS
    <2>1. t \in Seq(Byte) /\ t # <<>> /\ Len(t) <= i /\ i + 1 <= Len(c) /\ Len(c) \in Nat
      BY DEF Ends
    <2>2. Len(t) \in Nat /\ Len(t) # 0
      BY <2>1
    <2>3. Len(t) \in 1..Len(t) /\ (i - Len(t)) + Len(t) = i /\ i \in 1..(Len(c) - 1)
      BY <2>1, <2>2
    <2>4. t[Len(t)] = c[i]
      BY <2>3 DEF Ends
    <2>5. Last(t) = c[i]
      BY <2>4 DEF Last
    <2> QED BY <2>3, <2>5 DEF Adj
  <1> HIDE DEF l
  <1> QED BY <1>1, <1>2, EndsAdjacent DEF Fits, l

LEMMA EndsAppend ==
  ASSUME NEW c \in Seq(Byte), NEW i \in Nat, NEW t, Ends(t, c, i), i + 1 <= Len(c)
  PROVE  Ends(Append(t, c[i + 1]), c, i + 1) /\ Ends(<<>>, c, i + 1)
  <1> DEFINE b == c[i + 1]
             u == Append(t, b)
             n == Len(t)
  <1>1. i + 1 \in 1..Len(c) /\ t \in Seq(Byte)
    BY DEF Ends
  <1>2. b \in Byte
    BY <1>1
  <1>3. n \in Nat /\ n <= i
    BY <1>1 DEF Ends
  <1> HIDE DEF n
  <1>4. u \in Seq(Byte) /\ Len(u) = n + 1 /\ u[n + 1] = b /\ \A j \in 1..n : u[j] = t[j]
    BY <1>1, <1>2 DEF n
  <1> HIDE DEF u
  <1>5. ASSUME NEW j \in 1..(n + 1) PROVE u[j] = c[((i + 1) - (n + 1)) + j]
    <2>1. CASE j = n + 1
      <3>1. ((i + 1) - (n + 1)) + j = i + 1
        BY <1>3, <2>1
      <3> QED BY <1>4, <2>1, <3>1
    <2>2. CASE j # n + 1
      <3>1. j \in 1..n /\ ((i + 1) - (n + 1)) + j = (i - n) + j
        BY <1>3, <2>2
      <3>2. t[j] = c[(i - n) + j]
        BY <3>1 DEF Ends, n
      <3> QED BY <1>4, <3>1, <3>2
    <2> QED BY <2>1, <2>2
  <1>6. Ends(u, c, i + 1)
    <2>1. n + 1 <= i + 1
      BY <1>3
    <2> QED BY <1>4, <1>5, <2>1 DEF Ends
  <1>7. Ends(<<>>, c, i + 1)
    <2>1. <<>> \in Seq(Byte) /\ Len(<<>>) = 0 /\ 1..0 = {} /\ 0 <= i + 1
      OBVIOUS
    <2> QED BY <2>1 DEF Ends
  <1> QED BY <1>6, <1>7 DEF u

(* All of a chunk up to place i is in the lines and in the text to come. *)
Logs(x, s, c, i) ==
  /\ Ends(x.text, c, i)
  /\ Flat(TextOf, x.out) \o x.text = Flat(ByteOf, SubSeq(c, 1, i))
  /\ \A k \in 1..Len(x.out) : x.out[k].stream = s /\ Fits(c, x.out[k])

LEMMA LinesAppend ==
  ASSUME NEW out \in Seq(LineType), NEW l \in LineType, NEW s, NEW c, l.stream = s, Fits(c, l),
         \A k \in 1..Len(out) : out[k].stream = s /\ Fits(c, out[k])
  PROVE  \A k \in 1..Len(Append(out, l)) : Append(out, l)[k].stream = s /\ Fits(c, Append(out, l)[k])
  <1> DEFINE u == Append(out, l)
             n == Len(out)
  <1>1. n \in Nat /\ Len(u) = n + 1 /\ u[n + 1] = l /\ \A k \in 1..n : u[k] = out[k]
    OBVIOUS
  <1> HIDE DEF u
  <1>2. ASSUME NEW k \in 1..(n + 1) PROVE u[k].stream = s /\ Fits(c, u[k])
    <2>1. k = n + 1 \/ k \in 1..n
      BY <1>1
    <2> QED BY <1>1, <2>1
  <1> QED BY <1>1, <1>2 DEF u

LEMMA LineStep ==
  ASSUME NEW s \in Streams, NEW c \in Seq(Byte), NEW i \in Nat, i + 1 <= Len(c),
         NEW x \in LineState, Logs(x, s, c, i)
  PROVE  Logs(LineByte(s, x, c[i + 1]), s, c, i + 1)
  <1> DEFINE b == c[i + 1]
             y == LineByte(s, x, b)
             p == SubSeq(c, 1, i)
             q == SubSeq(c, 1, i + 1)
  <1>1. x.out \in Seq(LineType) /\ x.text \in Seq(Byte)
    BY DEF LineState
  <1>2. i + 1 \in 1..Len(c) /\ Len(c) \in Nat
    OBVIOUS
  <1>3. b \in Byte
    BY <1>2
  <1>4. p \in Seq(Byte) /\ q = Append(p, b)
    <2>1. p \in Seq(Byte) /\ Len(p) = i /\ \A j \in 1..i : p[j] = c[j]
      BY <1>2
    <2>2. q \in Seq(Byte) /\ Len(q) = i + 1 /\ \A j \in 1..(i + 1) : q[j] = c[j]
      BY <1>2
    <2> HIDE DEF p, q
    <2> DEFINE r == Append(p, b)
    <2>3. r \in Seq(Byte) /\ Len(r) = i + 1 /\ r[i + 1] = b /\ \A j \in 1..i : r[j] = p[j]
      BY <1>3, <2>1
    <2> HIDE DEF r
    <2>4. \A j \in 1..(i + 1) : j \in 1..i \/ j = i + 1
      OBVIOUS
    <2>5. \A j \in 1..(i + 1) : q[j] = r[j]
      BY <2>1, <2>2, <2>3, <2>4
    <2>6. q = [j \in 1..(i + 1) |-> q[j]] /\ r = [j \in 1..(i + 1) |-> r[j]]
      BY <2>2, <2>3
    <2>7. q = r
      BY <2>5, <2>6
    <2> QED BY <2>1, <2>7 DEF r
  <1>5. Ends(x.text, c, i) /\ Ends(Append(x.text, b), c, i + 1) /\ Ends(<<>>, c, i + 1)
    BY EndsAppend DEF Logs
  <1>6. Flat(ByteOf, q) = Flat(ByteOf, p) \o ByteOf[b] /\ Flat(ByteOf, p) \in Seq(Byte)
    <2> HIDE DEF p, q, b
    <2>1. Extends(ByteOf, p, b, Byte)
      BY <1>3, <1>4, LogMaps, FlatAppend
    <2> QED BY <1>4, <2>1 DEF Extends
  <1> DEFINE X == Flat(TextOf, x.out)
  <1>7. X \in Seq(Byte) /\ X \o x.text = Flat(ByteOf, p)
    <2>1. <<>> \in Seq(LineType)
      OBVIOUS
    <2>2. Distributes(TextOf, x.out, <<>>, Byte)
      BY <1>1, <2>1, LogMaps, FlatConcat
    <2> QED BY <2>2 DEF Logs, Distributes
  <1> HIDE DEF X, p, q
  <1>8. CASE b # NL
    <2>1. y.out = x.out /\ y.text = Append(x.text, b)
      BY <1>8 DEF LineByte
    <2>2. ByteOf[b] = <<b>> /\ <<b>> \in Seq(Byte) /\ Append(x.text, b) = x.text \o <<b>>
      BY <1>1, <1>3, <1>8 DEF ByteOf
    <2> HIDE DEF y, b
    <2>3. Assoc(X, x.text, <<b>>)
      BY <1>1, <1>7, <2>2, ConcatAssoc
    <2>4. Flat(TextOf, y.out) \o y.text = Flat(ByteOf, q)
      BY <1>6, <1>7, <2>1, <2>2, <2>3 DEF Assoc, X
    <2>5. \A k \in 1..Len(y.out) : y.out[k].stream = s /\ Fits(c, y.out[k])
      BY <2>1 DEF Logs
    <2>6. Logs(y, s, c, i + 1)
      BY <1>5, <2>1, <2>4, <2>5 DEF Logs, q
    <2> QED BY <2>6 DEF y, b
  <1>9. CASE b = NL /\ x.text = <<>>
    <2>1. y.out = x.out /\ y.text = <<>>
      BY <1>9 DEF LineByte
    <2>2. ByteOf[b] = <<>>
      BY <1>3, <1>9 DEF ByteOf
    <2> HIDE DEF y, b
    <2>3. Flat(ByteOf, p) \o <<>> = Flat(ByteOf, p)
      BY <1>6, ConcatEmpty
    <2>4. Flat(TextOf, y.out) \o y.text = Flat(ByteOf, q)
      BY <1>6, <1>7, <1>9, <2>1, <2>2, <2>3 DEF X
    <2>5. \A k \in 1..Len(y.out) : y.out[k].stream = s /\ Fits(c, y.out[k])
      BY <2>1 DEF Logs
    <2>6. Logs(y, s, c, i + 1)
      BY <1>5, <2>1, <2>4, <2>5 DEF Logs, q
    <2> QED BY <2>6 DEF y, b
  <1>10. CASE b = NL /\ x.text # <<>>
    <2> DEFINE l == Line(s, "F", x.text)
    <2>1. y.out = Append(x.out, l) /\ y.text = <<>>
      BY <1>10 DEF LineByte
    <2>2. ByteOf[b] = <<>>
      BY <1>3, <1>10 DEF ByteOf
    <2>3. l \in LineType /\ l.stream = s /\ l.text = x.text
      BY <1>1 DEF Line, LineType
    <2>4. Fits(c, l)
      BY <1>5, <1>10, EndsFits
    <2> HIDE DEF y, b, l
    <2>5. TextOf[l] = x.text
      BY <2>3 DEF TextOf
    <2>6. Flat(TextOf, Append(x.out, l)) = X \o x.text
      <3>1. Extends(TextOf, x.out, l, Byte)
        BY <1>1, <2>3, LogMaps, FlatAppend
      <3> QED BY <2>5, <3>1 DEF Extends, X
    <2>7. Flat(ByteOf, p) \o <<>> = Flat(ByteOf, p)
      BY <1>6, ConcatEmpty
    <2>8. Flat(TextOf, y.out) \o y.text = Flat(ByteOf, q)
      BY <1>6, <1>7, <2>1, <2>2, <2>6, <2>7
    <2>9. \A k \in 1..Len(y.out) : y.out[k].stream = s /\ Fits(c, y.out[k])
      <3>1. \A k \in 1..Len(x.out) : x.out[k].stream = s /\ Fits(c, x.out[k])
        BY DEF Logs
      <3> QED BY <1>1, <2>1, <2>3, <2>4, <3>1, LinesAppend
    <2>10. Logs(y, s, c, i + 1)
      BY <1>5, <2>1, <2>8, <2>9 DEF Logs, q
    <2> QED BY <2>10 DEF y, b
  <1> QED BY <1>8, <1>9, <1>10

IsLines(r, s, c) ==
  /\ r \in Seq(LineType) /\ Text(r) = Bytes(c)
  /\ \A k \in 1..Len(r) : r[k].stream = s /\ Fits(c, r[k])

(* cri_log_line leaves out nothing but line breaks, joins no two lines of
   the chunk and calls a line full only where it ended. *)
LEMMA LinesOfChunk ==
  ASSUME NEW s \in Streams, NEW c \in Seq(Byte)
  PROVE  IsLines(cri_log_line(s, c), s, c)
  <1> DEFINE n == Len(c)
             r == cri_log_line(s, c)
  <1>n. n \in Nat
    OBVIOUS
  <1>1. PICK f : LineRun(f, s, c)
    BY LineTrace
  <1> HIDE DEF n
  <1>2. /\ f \in [0..n -> LineState] /\ f[0] = LineStart
        /\ \A i \in 1..n : f[i] = LineByte(s, f[i - 1], c[i])
        /\ r = LineEnd(s, f[n])
    BY <1>1 DEF LineRun, n
  <1> DEFINE P(i) == i <= n => Logs(f[i], s, c, i)
             S == {i \in Nat : P(i)}
  <1>3. P(0)
    <2>1. LineStart.out = <<>> /\ LineStart.text = <<>>
      BY DEF LineStart
    <2>2. Ends(<<>>, c, 0)
      <3>1. <<>> \in Seq(Byte) /\ Len(<<>>) = 0 /\ 1..0 = {} /\ 0 <= Len(c)
        OBVIOUS
      <3> QED BY <3>1 DEF Ends
    <2>3. SubSeq(c, 1, 0) = <<>> /\ <<>> \o <<>> = <<>> /\ 1..Len(<<>>) = {}
      OBVIOUS
    <2>4. Flat(TextOf, <<>>) = <<>> /\ Flat(ByteOf, <<>>) = <<>>
      BY FlatEmpty
    <2>5. Logs(LineStart, s, c, 0)
      BY <2>1, <2>2, <2>3, <2>4 DEF Logs
    <2> QED BY <1>2, <2>5
  <1>4. ASSUME NEW i \in Nat, P(i) PROVE P(i + 1)
    <2> SUFFICES ASSUME i + 1 <= n PROVE Logs(f[i + 1], s, c, i + 1)
      OBVIOUS
    <2>1. i + 1 \in 1..n /\ (i + 1) - 1 = i /\ i <= n /\ i \in 0..n
      BY <1>n
    <2>2. f[i + 1] = LineByte(s, f[i], c[i + 1]) /\ f[i] \in LineState /\ Logs(f[i], s, c, i)
      BY <1>2, <1>4, <2>1
    <2>3. i + 1 <= Len(c)
      BY DEF n
    <2> QED BY <2>2, <2>3, LineStep
  <1> HIDE DEF P
  <1>5. P(n)
    <2>1. 0 \in S /\ \A i \in Nat : i \in S => i + 1 \in S
      BY <1>3, <1>4
    <2>2. n \in S
      <3> HIDE DEF S
      <3> QED BY <1>n, <2>1, NatSet
    <2> QED BY <2>2
  <1> DEFINE x == f[n]
  <1>6. x \in LineState /\ Logs(x, s, c, n) /\ r = LineEnd(s, x)
    <2>1. n \in 0..n /\ n <= n
      BY <1>n
    <2> QED BY <1>2, <1>5, <2>1 DEF P
  <1> HIDE DEF x, r
  <1>7. x.out \in Seq(LineType) /\ x.text \in Seq(Byte)
    BY <1>6 DEF LineState
  <1>8. /\ Flat(TextOf, x.out) \o x.text = Bytes(c)
        /\ \A k \in 1..Len(x.out) : x.out[k].stream = s /\ Fits(c, x.out[k])
    <2>1. SubSeq(c, 1, n) = c
      BY DEF n
    <2> QED BY <1>6, <2>1, BytesIs DEF Logs
  <1>9. CASE x.text = <<>>
    <2>1. r = x.out
      BY <1>6, <1>9 DEF LineEnd
    <2>2. Distributes(TextOf, x.out, <<>>, Byte)
      <3>1. <<>> \in Seq(LineType)
        OBVIOUS
      <3> QED BY <1>7, <3>1, LogMaps, FlatConcat
    <2>3. Flat(TextOf, x.out) \o <<>> = Flat(TextOf, x.out)
      BY <2>2, ConcatEmpty DEF Distributes
    <2>4. Text(x.out) = Flat(TextOf, x.out)
      BY <1>7, TextIs
    <2> QED BY <1>7, <1>8, <1>9, <2>1, <2>3, <2>4 DEF IsLines, r
  <1>10. CASE x.text # <<>>
    <2> DEFINE l == Line(s, "P", x.text)
    <2>1. r = Append(x.out, l)
      BY <1>6, <1>10 DEF LineEnd
    <2>2. l \in LineType /\ l.stream = s /\ l.text = x.text
      BY <1>7 DEF Line, LineType
    <2>3. Fits(c, l)
      BY <1>6, <1>n, EndsFits DEF Logs
    <2> HIDE DEF l
    <2>4. TextOf[l] = x.text
      BY <2>2 DEF TextOf
    <2>5. Flat(TextOf, Append(x.out, l)) = Flat(TextOf, x.out) \o x.text
      <3>1. Extends(TextOf, x.out, l, Byte)
        BY <1>7, <2>2, LogMaps, FlatAppend
      <3> QED BY <2>4, <3>1 DEF Extends
    <2>6. Append(x.out, l) \in Seq(LineType)
      BY <1>7, <2>2
    <2>7. Text(r) = Bytes(c)
      BY <1>8, <2>1, <2>5, <2>6, TextIs
    <2>8. \A k \in 1..Len(r) : r[k].stream = s /\ Fits(c, r[k])
      BY <1>7, <1>8, <2>1, <2>2, <2>3, LinesAppend
    <2> QED BY <2>1, <2>6, <2>7, <2>8 DEF IsLines, r
  <1> QED BY <1>9, <1>10
-----------------------------------------------------------------------------
(* c is in w, from place k on. *)
Within(c, w, k) ==
  k \in Nat /\ Len(c) \in Nat /\ Len(w) \in Nat /\ k + Len(c) <= Len(w) /\ \A i \in 1..Len(c) : w[k + i] = c[i]

LEMMA FitsWithin ==
  ASSUME NEW c, NEW w, NEW k, Within(c, w, k), NEW l, Fits(c, l)
  PROVE  Fits(w, l)
  <1>1. ASSUME NEW b, NEW d, Adj(c, b, d) PROVE Adj(w, b, d)
    <2>1. PICK i \in 1..(Len(c) - 1) : c[i] = b /\ c[i + 1] = d
      BY <1>1 DEF Adj
    <2>2. /\ k \in Nat /\ Len(c) \in Nat /\ Len(w) \in Nat /\ k + Len(c) <= Len(w)
      BY DEF Within
    <2>3. k + i \in 1..(Len(w) - 1) /\ (k + i) + 1 = k + (i + 1) /\ i \in 1..Len(c) /\ i + 1 \in 1..Len(c)
      BY <2>2
    <2>4. w[k + i] = c[i] /\ w[k + (i + 1)] = c[i + 1]
      BY <2>3 DEF Within
    <2>5. w[k + i] = b /\ w[(k + i) + 1] = d
      BY <2>1, <2>3, <2>4
    <2> QED BY <2>3, <2>5 DEF Adj
  <1> QED BY <1>1 DEF Fits

Joined(z, x, y) ==
  /\ Len(z) = Len(x) + Len(y) /\ Len(x) \in Nat /\ Len(y) \in Nat
  /\ \A i \in 1..Len(x) : z[i] = x[i]
  /\ \A i \in 1..Len(y) : z[Len(x) + i] = y[i]

LEMMA ConcatAt ==
  ASSUME NEW T, NEW x \in Seq(T), NEW y \in Seq(T)
  PROVE  Joined(x \o y, x, y) /\ x \o y \in Seq(T)
  BY DEF Joined

LEMMA WithinConcat ==
  ASSUME NEW x \in Seq(Byte), NEW c \in Seq(Byte), NEW y \in Seq(Byte)
  PROVE  Within(c, x \o (c \o y), Len(x))
  <1> DEFINE d == c \o y
             w == x \o d
  <1>1. d \in Seq(Byte) /\ Joined(d, c, y)
    BY ConcatAt
  <1> HIDE DEF d
  <1>2. Joined(w, x, d)
    BY <1>1, ConcatAt
  <1> HIDE DEF w
  <1> DEFINE k == Len(x)
             n == Len(c)
  <1>3. /\ k \in Nat /\ n \in Nat /\ Len(y) \in Nat /\ Len(d) = n + Len(y) /\ Len(w) = k + Len(d)
        /\ \A i \in 1..n : d[i] = c[i]
        /\ \A i \in 1..Len(d) : w[k + i] = d[i]
    BY <1>1, <1>2 DEF Joined
  <1> HIDE DEF k, n
  <1>4. \A i \in 1..n : i \in 1..Len(d)
    BY <1>3
  <1>5. \A i \in 1..n : w[k + i] = c[i]
    BY <1>3, <1>4
  <1>6. Within(c, w, k)
    BY <1>3, <1>5 DEF Within, n
  <1> QED BY <1>6 DEF w, k, d

(* The lines of two streams, apart. *)
OfSplits(all, more, s) ==
  /\ Of(all, s) \in Seq(LineType) /\ Of(more, s) \in Seq(LineType)
  /\ Of(all \o more, s) = Of(all, s) \o Of(more, s)

LEMMA OfConcat ==
  ASSUME NEW all \in Seq(LineType), NEW more \in Seq(LineType), NEW s
  PROVE  OfSplits(all, more, s)
  <1>1. all \o more \in Seq(LineType)
    OBVIOUS
  <1>2. Distributes(StreamOf(s), all, more, LineType)
    BY LogMaps, FlatConcat
  <1> QED BY <1>1, <1>2, OfIs DEF Distributes, OfSplits

LEMMA OfStream ==
  ASSUME NEW r, NEW s, NEW c, IsLines(r, s, c), NEW t
  PROVE  Of(r, t) = IF t = s THEN r ELSE <<>>
  <1>1. r \in Seq(LineType) /\ \A k \in 1..Len(r) : r[k].stream = s
    BY DEF IsLines
  <1>2. \A k \in 1..Len(r) : r[k] \in LineType
    BY <1>1
  <1>3. Of(r, t) = Flat(StreamOf(t), r)
    BY <1>1, OfIs
  <1>4. CASE t = s
    <2>1. \A k \in 1..Len(r) : StreamOf(t)[r[k]] = <<r[k]>>
      BY <1>1, <1>2, <1>4 DEF StreamOf
    <2>2. Flat(StreamOf(t), r) = r
      BY <1>1, <2>1, LogMaps, FlatAll
    <2> QED BY <1>3, <1>4, <2>2
  <1>5. CASE t # s
    <2>1. \A k \in 1..Len(r) : StreamOf(t)[r[k]] = <<>>
      BY <1>1, <1>2, <1>5 DEF StreamOf
    <2>2. Flat(StreamOf(t), r) = <<>>
      BY <1>1, <2>1, LogMaps, FlatNothing
    <2> QED BY <1>3, <1>5, <2>2
  <1> QED BY <1>4, <1>5

LEMMA TextConcat ==
  ASSUME NEW a \in Seq(LineType), NEW b \in Seq(LineType)
  PROVE  Text(a \o b) = Text(a) \o Text(b) /\ Text(a) \in Seq(Byte)
  <1>1. a \o b \in Seq(LineType)
    OBVIOUS
  <1>2. Distributes(TextOf, a, b, Byte)
    BY LogMaps, FlatConcat
  <1> QED BY <1>1, <1>2, TextIs DEF Distributes

LEMMA BytesConcat ==
  ASSUME NEW a \in Seq(Byte), NEW b \in Seq(Byte)
  PROVE  Bytes(a \o b) = Bytes(a) \o Bytes(b) /\ Bytes(a) \in Seq(Byte)
  <1>1. a \o b \in Seq(Byte)
    OBVIOUS
  <1>2. Distributes(ByteOf, a, b, Byte)
    BY LogMaps, FlatConcat
  <1> QED BY <1>1, <1>2, BytesIs DEF Distributes

(* Of what s wrote, w, all but the rest is in the lines. *)
KeptBy(all, w, rest, s, x) ==
  /\ x \in Seq(Byte) /\ w = x \o rest /\ Text(Of(all, s)) = Bytes(x)
  /\ \A i \in 1..Len(Of(all, s)) : Fits(w, Of(all, s)[i])
Kept(all, w, rest, s) ==
  all \in Seq(LineType) /\ rest \in Seq(Byte) /\ \E x : KeptBy(all, w, rest, s, x)

LEMMA KeptChunk ==
  ASSUME NEW s \in Streams, NEW c \in Seq(Byte), NEW rest \in Seq(Byte), NEW all, NEW w,
         Kept(all, w, c \o rest, s)
  PROVE  Kept(all \o cri_log_line(s, c), w, rest, s)
  <1> DEFINE r == cri_log_line(s, c)
             old == Of(all, s)
             new == Of(all \o r, s)
  <1>1. IsLines(r, s, c)
    BY LinesOfChunk
  <1>2. PICK x : KeptBy(all, w, c \o rest, s, x)
    BY DEF Kept
  <1>3. all \in Seq(LineType) /\ x \in Seq(Byte) /\ w = x \o (c \o rest)
    BY <1>2 DEF Kept, KeptBy
  <1> HIDE DEF r
  <1>4. r \in Seq(LineType) /\ Text(r) = Bytes(c) /\ \A k \in 1..Len(r) : Fits(c, r[k])
    BY <1>1 DEF IsLines
  <1>5. old \in Seq(LineType) /\ new = old \o r
    <2>1. OfSplits(all, r, s)
      BY <1>3, <1>4, OfConcat
    <2>2. Of(r, s) = r
      BY <1>1, OfStream
    <2> QED BY <2>1, <2>2 DEF OfSplits
  <1>6. Text(old) = Bytes(x) /\ \A i \in 1..Len(old) : Fits(w, old[i])
    BY <1>2 DEF KeptBy
  <1> HIDE DEF old, new
  <1>7. x \o c \in Seq(Byte) /\ w = (x \o c) \o rest
    <2>1. x \o c \in Seq(Byte)
      BY <1>3, ConcatType
    <2>2. Assoc(x, c, rest)
      BY <1>3, ConcatAssoc
    <2> QED BY <1>3, <2>1, <2>2 DEF Assoc
  <1>8. Text(new) = Bytes(x \o c)
    <2>1. Text(old \o r) = Text(old) \o Text(r)
      BY <1>4, <1>5, TextConcat
    <2>2. Bytes(x \o c) = Bytes(x) \o Bytes(c)
      BY <1>3, BytesConcat
    <2> QED BY <1>4, <1>5, <1>6, <2>1, <2>2
  <1>9. ASSUME NEW i \in 1..Len(new) PROVE Fits(w, new[i])
    <2>1. Within(c, w, Len(x))
      BY <1>3, WithinConcat
    <2>2. \A k \in 1..Len(r) : Fits(w, r[k])
      BY <1>4, <2>1, FitsWithin
    <2>3. Len(old) \in Nat /\ Len(r) \in Nat /\ Len(new) = Len(old) + Len(r)
      BY <1>4, <1>5
    <2>4. CASE i <= Len(old)
      <3>1. i \in 1..Len(old) /\ new[i] = old[i]
        BY <1>4, <1>5, <2>3, <2>4
      <3> QED BY <1>6, <3>1
    <2>5. CASE ~(i <= Len(old))
      <3>1. i - Len(old) \in 1..Len(r) /\ new[i] = r[i - Len(old)]
        BY <1>4, <1>5, <2>3, <2>5
      <3> QED BY <2>2, <3>1
    <2> QED BY <2>4, <2>5
  <1>10. KeptBy(all \o r, w, rest, s, x \o c)
    BY <1>7, <1>8, <1>9 DEF KeptBy, new
  <1>11. all \o r \in Seq(LineType)
    BY <1>3, <1>4
  <1> QED BY <1>10, <1>11 DEF Kept, r

LEMMA KeptOther ==
  ASSUME NEW s \in Streams, NEW c \in Seq(Byte), NEW t, t # s, NEW rest, NEW all, NEW w,
         Kept(all, w, rest, t)
  PROVE  Kept(all \o cri_log_line(s, c), w, rest, t)
  <1> DEFINE r == cri_log_line(s, c)
  <1>1. IsLines(r, s, c)
    BY LinesOfChunk
  <1> HIDE DEF r
  <1>2. r \in Seq(LineType) /\ all \in Seq(LineType)
    BY <1>1 DEF IsLines, Kept
  <1>3. Of(r, t) = <<>>
    BY <1>1, OfStream
  <1>4. OfSplits(all, r, t)
    BY <1>2, OfConcat
  <1>5. Of(all \o r, t) = Of(all, t)
    BY <1>3, <1>4, ConcatEmpty DEF OfSplits
  <1>6. all \o r \in Seq(LineType)
    BY <1>2
  <1> QED BY <1>5, <1>6 DEF Kept, KeptBy, r

LEMMA KeptMore ==
  ASSUME NEW s, NEW rest, NEW all, NEW w, NEW b \in Byte, Kept(all, w, rest, s)
  PROVE  Kept(all, Append(w, b), Append(rest, b), s)
  <1>1. PICK x : KeptBy(all, w, rest, s, x)
    BY DEF Kept
  <1>2. x \in Seq(Byte) /\ rest \in Seq(Byte) /\ w = x \o rest
    BY <1>1 DEF KeptBy, Kept
  <1>3. w \in Seq(Byte) /\ Append(rest, b) \in Seq(Byte) /\ <<b>> \in Seq(Byte) /\ <<>> \in Seq(Byte)
    BY <1>2
  <1>4. Append(w, b) = w \o <<b>> /\ Append(rest, b) = rest \o <<b>>
    BY <1>2, <1>3
  <1>5. Append(w, b) = x \o Append(rest, b)
    <2>1. Assoc(x, rest, <<b>>)
      BY <1>2, <1>3, ConcatAssoc
    <2> QED BY <1>2, <1>4, <2>1 DEF Assoc
  <1>6. Within(w, Append(w, b), 0)
    <2>1. Within(w, <<>> \o (w \o <<b>>), Len(<<>>)) /\ Len(<<>>) = 0
      BY <1>3, WithinConcat
    <2>2. <<>> \o (w \o <<b>>) = w \o <<b>>
      BY <1>3
    <2> QED BY <1>4, <2>1, <2>2
  <1>7. \A i \in 1..Len(Of(all, s)) : Fits(Append(w, b), Of(all, s)[i])
    BY <1>1, <1>6, FitsWithin DEF KeptBy
  <1>8. KeptBy(all, Append(w, b), Append(rest, b), s, x)
    BY <1>1, <1>2, <1>5, <1>7 DEF KeptBy
  <1> QED BY <1>3, <1>8 DEF Kept

LEMMA KeptFirst ==
  ASSUME NEW s, NEW w \in Seq(Byte)
  PROVE  Kept(<<>>, w, w, s)
  <1>1. <<>> \in Seq(LineType) /\ <<>> \in Seq(Byte) /\ w = <<>> \o w
    OBVIOUS
  <1>2. Of(<<>>, s) = <<>>
    BY <1>1, OfIs, FlatEmpty
  <1>3. Text(<<>>) = <<>> /\ Bytes(<<>>) = <<>>
    BY <1>1, TextIs, BytesIs, FlatEmpty
  <1>4. 1..Len(<<>>) = {}
    OBVIOUS
  <1>5. KeptBy(<<>>, w, w, s, <<>>)
    BY <1>1, <1>2, <1>3, <1>4 DEF KeptBy
  <1> QED BY <1>1, <1>5 DEF Kept

LEMMA KeptIsComplete ==
  ASSUME log.opened => \A s \in Streams : Kept(AllLines, wrote[s], pump[s].chunk \o pipe[s], s)
  PROVE  LogIsComplete
  <1> SUFFICES ASSUME log.opened, NEW s \in Streams
               PROVE  LET lines == Logged(s)
                      IN /\ Text(lines) \o Bytes(pump[s].chunk \o pipe[s]) = Bytes(wrote[s])
                         /\ \A i \in DOMAIN lines :
                              LET t == lines[i].text
                              IN /\ \A j \in 1 .. Len(t) - 1 : Adjacent(s, t[j], t[j + 1])
                                 /\ lines[i].tag = "F" => Adjacent(s, Last(t), NL)
    BY DEF LogIsComplete
  <1> DEFINE rest == pump[s].chunk \o pipe[s]
             lines == Logged(s)
  <1>1. lines = Of(AllLines, s)
    BY Zenon DEF Logged, Of
  <1>2. Kept(AllLines, wrote[s], rest, s)
    OBVIOUS
  <1> HIDE DEF rest
  <1>3. PICK x : KeptBy(AllLines, wrote[s], rest, s, x)
    BY <1>2 DEF Kept
  <1>4. AllLines \in Seq(LineType) /\ rest \in Seq(Byte)
    BY <1>2 DEF Kept
  <1>5. Of(AllLines, s) \in Seq(LineType)
    <2>1. OfSplits(AllLines, AllLines, s)
      BY <1>4, OfConcat
    <2> QED BY <2>1 DEF OfSplits
  <1>6. Text(lines) \o Bytes(rest) = Bytes(wrote[s])
    <2>1. x \in Seq(Byte) /\ wrote[s] = x \o rest /\ Text(lines) = Bytes(x)
      BY <1>1, <1>3 DEF KeptBy
    <2> HIDE DEF lines
    <2> QED BY <1>4, <2>1, BytesConcat
  <1>7. DOMAIN lines = 1..Len(lines)
    BY <1>1, <1>5
  <1>8. \A i \in DOMAIN lines : Fits(wrote[s], lines[i])
    BY <1>1, <1>3, <1>7 DEF KeptBy
  <1>9. \A b, d : Adj(wrote[s], b, d) => Adjacent(s, b, d)
    BY DEF Adj, Adjacent
  <1> HIDE DEF lines
  <1> QED BY <1>6, <1>8, <1>9 DEF Fits, rest, lines
-----------------------------------------------------------------------------
(* The lines of the files in the order of their rotation. *)
FileType == [lines : Seq(LineType), pending : Seq(LineType)]
Body(x) == x.lines \o x.pending

OrderOf(p) == IF p.at = Nobody THEN p.moved ELSE Append(p.moved, p.at)
ContentsOf(fs, o) == [i \in DOMAIN o |-> Body(fs[o[i]])]
LinesOf(fs, o) == FlattenSeq(ContentsOf(fs, o))

LEMMA AllLinesIs == AllLines = LinesOf(files, OrderOf(place)) /\ Order = OrderOf(place)
  BY DEF AllLines, Order, OrderOf, LinesOf, ContentsOf, Content, Body

WellPlaced(fs, o) ==
  fs \in Seq(FileType) /\ o \in Seq(Nat) /\ \A i \in 1..Len(o) : o[i] \in 1..Len(fs)

LEMMA BodyType == ASSUME NEW x \in FileType PROVE Body(x) \in Seq(LineType)
  BY DEF FileType, Body

LEMMA EmptyBody == Empty \in FileType /\ Body(Empty) = <<>> /\ <<>> \in Seq(LineType)
  <1>1. <<>> \in Seq(LineType) /\ <<>> \o <<>> = <<>>
    OBVIOUS
  <1> QED BY <1>1 DEF FileType, Empty, Body

ContentsAre(c, fs, o) ==
  Parts(c, LineType) /\ Len(c) = Len(o) /\ Len(o) \in Nat /\ \A i \in 1..Len(o) : c[i] = Body(fs[o[i]])

LEMMA ContentsParts ==
  ASSUME NEW fs, NEW o, WellPlaced(fs, o)
  PROVE  ContentsAre(ContentsOf(fs, o), fs, o)
  <1> DEFINE W == Seq(LineType)
             n == Len(o)
             c == ContentsOf(fs, o)
  <1>1. fs \in Seq(FileType) /\ o \in Seq(Nat) /\ n \in Nat /\ DOMAIN o = 1..n
    BY DEF WellPlaced
  <1>2. \A i \in 1..n : Body(fs[o[i]]) \in W
    <2>1. \A i \in 1..n : fs[o[i]] \in FileType
      BY <1>1 DEF WellPlaced
    <2> QED BY <2>1, BodyType
  <1> HIDE DEF W, n
  <1>3. c \in [1..n -> W] /\ \A i \in 1..n : c[i] = Body(fs[o[i]])
    BY <1>1, <1>2 DEF ContentsOf
  <1> HIDE DEF c
  <1>4. c \in Seq(W) /\ Len(c) = n
    BY <1>1, <1>3
  <1> QED BY <1>1, <1>3, <1>4 DEF ContentsAre, Parts, W, n, c

LEMMA LinesSame ==
  ASSUME NEW fs, NEW gs, NEW o, WellPlaced(fs, o), \A i \in 1..Len(o) : Body(gs[o[i]]) = Body(fs[o[i]])
  PROVE  LinesOf(gs, o) = LinesOf(fs, o)
  <1>1. DOMAIN o = 1..Len(o)
    BY DEF WellPlaced
  <1>2. ContentsOf(gs, o) = ContentsOf(fs, o)
    BY <1>1 DEF ContentsOf
  <1> QED BY <1>2 DEF LinesOf

Distinct(o) == \A i, j \in 1..Len(o) : o[i] = o[j] => i = j

(* File f is the last one with lines. *)
LastLines(fs, o, f, k) ==
  k \in 1..Len(o) /\ o[k] = f /\ \A i \in 1..Len(o) : i > k => fs[o[i]] = Empty

Grown(fs, gs, f, y) ==
  Body(gs[f]) = Body(fs[f]) \o y /\ \A g \in 1..Len(fs) : g # f => gs[g] = fs[g]

LEMMA LinesGrow ==
  ASSUME NEW fs, NEW gs, NEW o, WellPlaced(fs, o), WellPlaced(gs, o), Distinct(o),
         NEW f, NEW k, LastLines(fs, o, f, k), NEW y \in Seq(LineType), Grown(fs, gs, f, y)
  PROVE  LinesOf(gs, o) = LinesOf(fs, o) \o y
  <1> DEFINE c == ContentsOf(fs, o)
             d == ContentsOf(gs, o)
  <1>1. ContentsAre(c, fs, o) /\ ContentsAre(d, gs, o)
    BY ContentsParts
  <1> HIDE DEF c, d
  <1>2. k \in 1..Len(o) /\ o[k] = f
    BY DEF LastLines
  <1>3. \A i \in 1..Len(o) : o[i] \in 1..Len(fs)
    BY DEF WellPlaced
  <1>4. d[k] = c[k] \o y
    BY <1>1, <1>2 DEF ContentsAre, Grown
  <1>5. \A i \in 1..Len(o) : i # k => d[i] = c[i]
    <2> SUFFICES ASSUME NEW i \in 1..Len(o), i # k PROVE d[i] = c[i]
      OBVIOUS
    <2>1. o[i] # f
      BY <1>2 DEF Distinct
    <2>2. gs[o[i]] = fs[o[i]]
      BY <1>3, <2>1 DEF Grown
    <2> QED BY <1>1, <2>2 DEF ContentsAre
  <1>6. \A i \in 1..Len(o) : i > k => c[i] = <<>>
    BY <1>1, EmptyBody DEF ContentsAre, LastLines
  <1>7. Parts(c, LineType) /\ Parts(d, LineType) /\ Len(c) = Len(o) /\ Len(d) = Len(o)
    BY <1>1 DEF ContentsAre
  <1>8. GrowsAt(c, d, k, y)
    BY <1>2, <1>4, <1>5, <1>6, <1>7 DEF GrowsAt
  <1>9. FlattenSeq(d) = FlattenSeq(c) \o y
    BY <1>7, <1>8, FlattenGrows
  <1> QED BY <1>9 DEF LinesOf, c, d

LEMMA LinesNew ==
  ASSUME NEW fs, NEW gs, NEW o, NEW m \in Nat, WellPlaced(fs, o), WellPlaced(gs, Append(o, m)),
         \A i \in 1..Len(o) : gs[o[i]] = fs[o[i]], gs[m] = Empty
  PROVE  LinesOf(gs, Append(o, m)) = LinesOf(fs, o)
  <1> DEFINE p == Append(o, m)
             c == ContentsOf(fs, o)
             d == ContentsOf(gs, p)
             n == Len(o)
  <1>1. ContentsAre(c, fs, o) /\ ContentsAre(d, gs, p)
    BY ContentsParts
  <1>2. n \in Nat /\ Len(p) = n + 1 /\ p[n + 1] = m /\ \A i \in 1..n : p[i] = o[i]
    BY DEF WellPlaced
  <1> HIDE DEF c, d, p, n
  <1>3. /\ Parts(c, LineType) /\ Len(c) = n /\ Parts(d, LineType) /\ Len(d) = n + 1
        /\ \A i \in 1..n : c[i] = Body(fs[o[i]])
        /\ \A i \in 1..(n + 1) : d[i] = Body(gs[p[i]])
    BY <1>1, <1>2 DEF ContentsAre, n
  <1>4. d[n + 1] = <<>> /\ \A i \in 1..n : d[i] = c[i]
    <2>1. n + 1 \in 1..(n + 1) /\ \A i \in 1..n : i \in 1..(n + 1)
      BY <1>2
    <2>2. \A i \in 1..n : gs[o[i]] = fs[o[i]]
      BY DEF n
    <2> QED BY <1>2, <1>3, <2>1, <2>2, EmptyBody
  <1>5. PICK f : Flattens(f, c, n, LineType)
    BY <1>3, PartsTrace
  <1>6. PICK g : Flattens(g, d, n + 1, LineType)
    BY <1>3, PartsTrace
  <1> DEFINE S == {i \in Nat : i <= n => g[i] = f[i]}
  <1>7. 0 \in S
    BY <1>5, <1>6 DEF Flattens
  <1>8. ASSUME NEW i \in Nat, i \in S PROVE i + 1 \in S
    <2> SUFFICES ASSUME i + 1 <= n PROVE g[i + 1] = f[i + 1]
      OBVIOUS
    <2>1. i + 1 \in 1..n /\ i + 1 \in 1..(n + 1) /\ (i + 1) - 1 = i /\ i <= n
      BY <1>2
    <2>2. f[i + 1] = f[i] \o c[i + 1] /\ g[i + 1] = g[i] \o d[i + 1]
      BY <1>5, <1>6, <2>1 DEF Flattens
    <2> QED BY <1>4, <1>8, <2>1, <2>2
  <1>9. n \in S
    <2> HIDE DEF S
    <2> QED BY <1>2, <1>7, <1>8, NatSet
  <1>10. g[n] = f[n] /\ n + 1 \in 1..(n + 1) /\ (n + 1) - 1 = n /\ n \in 0..n
    BY <1>2, <1>9
  <1>11. g[n + 1] = g[n] \o <<>> /\ f[n] \in Seq(LineType)
    BY <1>4, <1>5, <1>6, <1>10 DEF Flattens
  <1>12. g[n + 1] = f[n]
    BY <1>10, <1>11, ConcatEmpty
  <1> QED BY <1>5, <1>6, <1>12 DEF Flattens, LinesOf, c, d, p

LEMMA LinesNone == ASSUME NEW fs PROVE LinesOf(fs, <<>>) = <<>>
  <1>1. ContentsOf(fs, <<>>) = <<>>
    BY DEF ContentsOf
  <1>2. FlattenSeq(<<>>) = <<>>
    BY DEF FlattenSeq
  <1> QED BY <1>1, <1>2 DEF LinesOf
-----------------------------------------------------------------------------
(* The log, with its data. *)
DataTypes ==
  /\ wrote \in [Streams -> Seq(Byte)] /\ pipe \in [Streams -> Seq(Byte)]
  /\ \A s \in Streams : pump[s].chunk \in Seq(Byte)
  /\ files \in Seq(FileType)

(* Before the log is opened nothing is read, written or rotated. *)
Early ==
  box.sup \in {"idle", "spawn", "open"} =>
    /\ reopen = "idle" /\ place.moved = <<>> /\ ~log.opened
    /\ \A f \in 1..Len(files) : files[f] = Empty
    /\ \A s \in Streams : wrote[s] = pipe[s]

(* A rotation leaves no file at the log path until ReopenContainerLog makes one. *)
Turning ==
  /\ reopen \in {"check", "create", "refused"} => place.at = Nobody
  /\ reopen \in {"handle", "swap"} => place.at # Nobody

(* A terminal's thread needs no lock ... *)
Direct == box.terminal => \A s \in Streams : pump[s].pc \notin {"lock", "write"}

(* ... and writes through. *)
Through == box.terminal => \A f \in 1..Len(files) : files[f].pending = <<>>

(* Behind the file the pumps write to there are only empty ones. *)
Current == log.opened => \E k : LastLines(files, OrderOf(place), log.file, k)

AllKept == log.opened => \A s \in Streams : Kept(AllLines, wrote[s], pump[s].chunk \o pipe[s], s)

DataInv == DataTypes /\ Early /\ Turning /\ Through /\ Current /\ AllKept

LEMMA DirectInitial == LogInit => Direct
  BY DEF LogInit, Direct

LEMMA DirectKeeps == LogInv /\ Direct /\ [Next]_vars => Direct'
  <1> SUFFICES ASSUME LogInv, Direct, [Next]_vars PROVE Direct'
    OBVIOUS
  <1>t. LogTypes /\ box \in Box
    BY DEF LogInv, LogTypes
  <1>c. PICK C : pump \in [Streams -> [pc : PumpPCs, chunk : C]]
    BY <1>t DEF LogTypes
  <1>1. ASSUME pump' = pump, box'.terminal = box.terminal PROVE Direct'
    BY <1>1 DEF Direct
  <1>2. ASSUME NEW ok \in BOOLEAN, SuperviseOpen(ok) \/ TtyOpen(ok) PROVE Direct'
    <2>1. \A s \in Streams : pump'[s] = pump[s] \/ pump'[s] = [pump[s] EXCEPT !.pc = "read"]
      BY <1>2 DEF SuperviseOpen, TtyOpen, OpenLog
    <2>2. box'.terminal = box.terminal
      BY <1>t, <1>2 DEF SuperviseOpen, TtyOpen, OpenLog, Box
    <2> QED BY <1>c, <2>1, <2>2 DEF Direct
  <1>3. ASSUME NEW s \in Streams, PumpRead(s) \/ PumpEof(s) \/ PumpLock(s) \/ PumpWrite(s) PROVE Direct'
    <2>1. box' = box
      BY <1>3 DEF PumpRead, PumpEof, PumpLock, PumpWrite
    <2>2. CASE PumpRead(s)
      BY <2>1, <2>2 DEF PumpRead, Direct
    <2>3. CASE PumpLock(s)
      BY <2>1, <2>3 DEF PumpLock, Direct
    <2>4. CASE PumpEof(s) \/ PumpWrite(s)
      BY <1>c, <2>1, <2>4 DEF PumpEof, PumpWrite, Direct
    <2> QED BY <1>3, <2>2, <2>3, <2>4
  <1>4. ASSUME StartContainer \/ SuperviseSpawn \/ SuperviseSpawnFails \/ SuperviseReap \/ SuperviseRecord
               \/ SuperviseClose \/ CtrExit \/ StopKill \/ StopRecord
        PROVE  Direct'
    <2>1. pump' = pump
      BY <1>4 DEF StartContainer, SuperviseSpawn, SuperviseSpawnFails, SuperviseReap, SuperviseRecord,
                  SuperviseClose, CtrExit, StopKill, StopRecord
    <2>2. box'.terminal = box.terminal
      BY <1>t, <1>4 DEF StartContainer, SuperviseSpawn, SuperviseSpawnFails, SuperviseReap, SuperviseRecord,
                        SuperviseClose, CtrExit, StopKill, StopRecord, Box
    <2> QED BY <1>1, <2>1, <2>2
  <1>5. CASE LogStep
    BY <1>1, <1>2, <1>3, <1>4, <1>5
    DEF LogStep, ReopenCreate, CtrWrite, TtyPump, FileWrite, Rotate, RotateBack, ReopenGet, ReopenHandle, ReopenSwap
  <1>6. CASE UNCHANGED logVars
    BY <1>1, <1>6 DEF logVars
  <1> QED BY <1>4, <1>5, <1>6 DEF Next, vars, ContainerEnds, ExecSyncCalled, CrunEnters

Placed(fs, p) ==
  /\ p.moved \in Seq(Nat) /\ p.at \in Nat \cup {Nobody} /\ fs \in Seq(FileType)
  /\ \A i \in 1..Len(p.moved) : p.moved[i] \in 1..Len(fs) /\ p.moved[i] # p.at
  /\ \A i, j \in 1..Len(p.moved) : p.moved[i] = p.moved[j] => i = j
  /\ p.at = Nobody \/ p.at \in 1..Len(fs)

LEMMA PlacedOrder ==
  ASSUME NEW fs, NEW p, Placed(fs, p)
  PROVE  WellPlaced(fs, OrderOf(p)) /\ Distinct(OrderOf(p))
  <1>1. /\ p.moved \in Seq(Nat) /\ p.at \in Nat \cup {Nobody} /\ fs \in Seq(FileType)
        /\ \A i \in 1..Len(p.moved) : p.moved[i] \in 1..Len(fs) /\ p.moved[i] # p.at
        /\ \A i, j \in 1..Len(p.moved) : p.moved[i] = p.moved[j] => i = j
        /\ p.at = Nobody \/ p.at \in 1..Len(fs)
    BY DEF Placed
  <1> DEFINE m == p.moved
             n == Len(m)
             o == OrderOf(p)
  <1>2. CASE p.at = Nobody
    <2>1. o = m
      BY <1>2 DEF OrderOf
    <2> QED BY <1>1, <2>1 DEF WellPlaced, Distinct
  <1>3. CASE p.at # Nobody
    <2>1. o = Append(m, p.at)
      BY <1>3 DEF OrderOf
    <2>2. /\ n \in Nat /\ o \in Seq(Nat) /\ Len(o) = n + 1 /\ o[n + 1] = p.at
          /\ \A i \in 1..n : o[i] = m[i]
      BY <1>1, <1>3, <2>1
    <2> HIDE DEF o
    <2>3. \A i \in 1..(n + 1) : i \in 1..n \/ i = n + 1
      BY <2>2
    <2>4. \A i \in 1..(n + 1) : o[i] \in 1..Len(fs)
      BY <1>1, <1>3, <2>2, <2>3
    <2>5. \A i, j \in 1..(n + 1) : o[i] = o[j] => i = j
      BY <1>1, <2>2, <2>3
    <2>6. WellPlaced(fs, o) /\ Distinct(o)
      BY <1>1, <2>2, <2>4, <2>5 DEF WellPlaced, Distinct
    <2> QED BY <2>6 DEF o
  <1> QED BY <1>2, <1>3

LEMMA LogInitialData == LogInit => DataInv
  <1> SUFFICES ASSUME LogInit PROVE DataInv
    OBVIOUS
  <1>1. <<>> \in Seq(Byte) /\ Len(<<>>) = 0 /\ 1..0 = {} /\ <<Empty>> \in Seq(FileType)
        /\ Len(<<Empty>>) = 1 /\ <<Empty>>[1] = Empty /\ <<>> \in Seq(FileType)
    BY EmptyBody
  <1>2. DataTypes
    BY <1>1 DEF LogInit, DataTypes
  <1>3. \A f \in 1..Len(files) : files[f] = Empty
    BY <1>1 DEF LogInit
  <1>4. Early
    BY <1>3 DEF LogInit, Early
  <1>5. Turning /\ Current /\ AllKept
    BY DEF LogInit, Turning, Current, AllKept
  <1>6. Through
    BY <1>3 DEF Through, Empty
  <1> QED BY <1>2, <1>4, <1>5, <1>6 DEF DataInv

(* Steps that move no line. *)
LEMMA StillKeeps ==
  ASSUME DataInv, UNCHANGED <<wrote, pipe, files, place>>, log'.file = log.file, log'.opened = log.opened,
         box'.terminal = box.terminal, \A s \in Streams : pump'[s].chunk = pump[s].chunk
  PROVE  DataTypes' /\ Through' /\ Current' /\ AllKept'
  <1>1. AllLines' = AllLines
    BY DEF AllLines, Order, Content
  <1>2. DataTypes' /\ Through'
    BY DEF DataInv, DataTypes, Through
  <1>3. OrderOf(place)' = OrderOf(place)
    OBVIOUS
  <1>4. Current'
    BY <1>3 DEF DataInv, Current
  <1>5. AllKept'
    BY <1>1 DEF DataInv, AllKept
  <1> QED BY <1>2, <1>4, <1>5

LEMMA BoxData ==
  ASSUME LogInv, DataInv,
         \/ StartContainer \/ SuperviseSpawn \/ SuperviseReap \/ SuperviseRecord \/ CtrExit \/ SuperviseClose
         \/ StopKill \/ StopRecord \/ ReopenGet \/ ReopenHandle
  PROVE  DataInv'
  <1>t. box \in Box /\ log \in Log /\ Early /\ Turning
    BY DEF LogInv, LogTypes, DataInv
  <1>u. UNCHANGED <<wrote, pipe, pump, files, place>>
    BY DEF StartContainer, SuperviseSpawn, SuperviseReap, SuperviseRecord, CtrExit, SuperviseClose,
           StopKill, StopRecord, ReopenGet, ReopenHandle
  <1>1. log'.file = log.file /\ log'.opened = log.opened
    BY <1>t DEF StartContainer, SuperviseSpawn, SuperviseReap, SuperviseRecord, CtrExit, SuperviseClose,
                StopKill, StopRecord, ReopenGet, ReopenHandle, Log
  <1>2. /\ box'.terminal = box.terminal
        /\ box'.sup \in {"idle", "spawn", "open"} => box.sup \in {"idle", "spawn", "open"}
    <2>1. CASE StartContainer \/ SuperviseSpawn \/ SuperviseReap \/ SuperviseRecord
      BY <1>t, <2>1 DEF LogInv, Staged, StartContainer, SuperviseSpawn, SuperviseReap, SuperviseRecord, Box
    <2>2. CASE CtrExit \/ SuperviseClose \/ StopKill \/ StopRecord
      BY <1>t, <2>2 DEF CtrExit, SuperviseClose, StopKill, StopRecord, Box
    <2>3. CASE ReopenGet \/ ReopenHandle
      BY <2>3 DEF ReopenGet, ReopenHandle
    <2> QED BY <2>1, <2>2, <2>3
  <1>3. \/ reopen' = reopen
        \/ reopen = "check" /\ reopen' \in {"create", "refused"}
        \/ reopen = "handle" /\ reopen' \in {"swap", "idle"}
    BY DEF StartContainer, SuperviseSpawn, SuperviseReap, SuperviseRecord, CtrExit, SuperviseClose,
           StopKill, StopRecord, ReopenGet, ReopenHandle
  <1>4. DataTypes' /\ Through' /\ Current' /\ AllKept'
    BY <1>u, <1>1, <1>2, StillKeeps
  <1>5. Early'
    BY <1>t, <1>u, <1>1, <1>2, <1>3 DEF Early
  <1>6. Turning'
    BY <1>t, <1>u, <1>3 DEF Turning
  <1> QED BY <1>4, <1>5, <1>6 DEF DataInv

(* File::create makes an empty file and leaves the others alone. *)
LEMMA CreateData ==
  ASSUME LogInv, DataInv, Create
  PROVE  /\ files' \in Seq(FileType) /\ FileAt \in 1..Len(files') /\ files'[FileAt] = Empty
         /\ \A g \in 1..Len(files) : g # FileAt => files'[g] = files[g]
         /\ \A g \in 1..Len(files') : g = FileAt \/ g \in 1..Len(files)
         /\ place'.at = FileAt /\ place'.moved = place.moved /\ FileAt \in Nat
  <1>t. LogTypes /\ Files /\ files \in Seq(FileType) /\ Empty \in FileType
    BY EmptyBody DEF LogInv, DataInv, DataTypes
  <1>1. /\ FileAt \in 1..Len(files') /\ place'.at = FileAt /\ place'.moved = place.moved
        /\ Len(files') \in Nat
    BY <1>t, CreateMoves
  <1>2. CASE place.at = Nobody
    <2>1. files' = Append(files, Empty) /\ FileAt = Len(files) + 1
      BY <1>2 DEF Create, FileAt
    <2> QED BY <1>t, <1>1, <2>1
  <1>3. CASE place.at # Nobody
    <2>1. files' = [files EXCEPT ![place.at] = Empty] /\ FileAt = place.at /\ place.at \in 1..Len(files)
      BY <1>t, <1>3 DEF Create, FileAt, Files
    <2> QED BY <1>t, <1>1, <2>1
  <1> QED BY <1>2, <1>3

LEMMA CreateThrough ==
  ASSUME LogInv, DataInv, Create, box'.terminal = box.terminal
  PROVE  Through'
  <1> SUFFICES ASSUME box.terminal, NEW g \in 1..Len(files') PROVE files'[g].pending = <<>>
    BY DEF Through
  <1>1. \A f \in 1..Len(files) : files[f].pending = <<>>
    BY DEF DataInv, Through
  <1>2. g = FileAt \/ (g \in 1..Len(files) /\ g # FileAt)
    BY CreateData
  <1>3. files'[FileAt] = Empty /\ (g \in 1..Len(files) /\ g # FileAt => files'[g] = files[g])
    BY CreateData
  <1> QED BY <1>1, <1>2, <1>3 DEF Empty

LEMMA SpawnFailsData ==
  ASSUME LogInv, DataInv, SuperviseSpawnFails
  PROVE  DataInv'
  <1>t. box \in Box /\ DataTypes /\ Early
    BY DEF LogInv, LogTypes, DataInv
  <1>1. /\ box.sup = "spawn" /\ box'.sup = "record" /\ box'.terminal = box.terminal /\ Create
        /\ UNCHANGED <<wrote, pipe, pump, log, reopen>>
    BY <1>t DEF SuperviseSpawnFails, Box
  <1>2. DataTypes'
    <2>1. files' \in Seq(FileType)
      BY <1>1, CreateData
    <2> QED BY <1>t, <1>1, <2>1 DEF DataTypes
  <1>3. ~log'.opened /\ reopen' = "idle"
    BY <1>t, <1>1 DEF Early
  <1>4. Early' /\ Turning' /\ Current' /\ AllKept'
    BY <1>1, <1>3 DEF Early, Turning, Current, AllKept
  <1>5. Through'
    BY <1>1, CreateThrough
  <1> QED BY <1>2, <1>4, <1>5 DEF DataInv

LEMMA OpenData ==
  ASSUME LogInv, LogInv', DataInv, NEW ok \in BOOLEAN, SuperviseOpen(ok) \/ TtyOpen(ok)
  PROVE  DataInv'
  <1>t. box \in Box /\ log \in Log /\ DataTypes /\ Early /\ Through /\ Pumps
    BY DEF LogInv, LogTypes, DataInv
  <1>u. UNCHANGED <<wrote, pipe, reopen>>
    BY DEF SuperviseOpen, TtyOpen, OpenLog
  <1>1. box.sup = "open" /\ box'.sup = "drain" /\ box'.terminal = box.terminal
    BY <1>t DEF SuperviseOpen, TtyOpen, OpenLog, Box
  <1>2. \A s \in Streams : pump[s].chunk = <<>> /\ pump'[s].chunk = <<>>
    <2>1. \A s \in Streams : pump[s].chunk = <<>>
      BY <1>t, <1>1 DEF Pumps
    <2>2. \A s \in Streams : pump'[s] = pump[s] \/ pump'[s] = [pump[s] EXCEPT !.pc = "read"]
      BY DEF SuperviseOpen, TtyOpen, OpenLog
    <2>3. PICK C : pump \in [Streams -> [pc : PumpPCs, chunk : C]]
      BY DEF LogInv, LogTypes
    <2> QED BY <2>1, <2>2, <2>3
  <1>3. log'.opened = ok /\ log'.file = IF ok THEN FileAt ELSE Nobody
    BY <1>t DEF SuperviseOpen, TtyOpen, Log
  <1>4. reopen' = "idle" /\ place.moved = <<>> /\ \A s \in Streams : wrote[s] = pipe[s]
    BY <1>t, <1>u, <1>1 DEF Early
  <1>5. Early' /\ Turning'
    BY <1>1, <1>4 DEF Early, Turning
  <1>6. CASE ~ok
    <2>1. UNCHANGED <<files, place>>
      BY <1>6 DEF SuperviseOpen, TtyOpen, OpenLog
    <2>2. DataTypes' /\ Through' /\ Current' /\ AllKept'
      BY <1>t, <1>u, <1>1, <1>2, <1>3, <1>6, <2>1 DEF DataTypes, Through, Current, AllKept
    <2> QED BY <1>5, <2>2 DEF DataInv
  <1>7. CASE ok
    <2>1. Create
      BY <1>7 DEF SuperviseOpen, TtyOpen, OpenLog
    <2>2. /\ files' \in Seq(FileType) /\ FileAt \in 1..Len(files') /\ files'[FileAt] = Empty
          /\ place'.at = FileAt /\ place'.moved = <<>> /\ FileAt \in Nat
      BY <1>4, <2>1, CreateData
    <2>3. DataTypes'
      BY <1>t, <1>u, <1>2, <2>2 DEF DataTypes
    <2> DEFINE m == FileAt
               gs == files'
    <2>4. OrderOf(place') = Append(<<>>, m) /\ Append(<<>>, m) = <<m>>
      <3>1. FileAt # Nobody
        BY <2>2, LogAssumption
      <3> QED BY <2>2, <3>1 DEF OrderOf
    <2> HIDE DEF m, gs
    <2>5. WellPlaced(gs, Append(<<>>, m)) /\ WellPlaced(gs, <<>>)
      <3>1. WellPlaced(files', OrderOf(place'))
        <4>1. Placed(files', place')
          BY <2>2 DEF LogInv, LogTypes, Place, Files, Placed
        <4> QED BY <4>1, PlacedOrder
      <3>2. <<>> \in Seq(Nat) /\ 1..Len(<<>>) = {}
        OBVIOUS
      <3> QED BY <2>2, <2>4, <3>1, <3>2 DEF WellPlaced, gs
    <2>6. LinesOf(gs, Append(<<>>, m)) = LinesOf(gs, <<>>)
      <3>1. m \in Nat /\ gs[m] = Empty /\ 1..Len(<<>>) = {}
        BY <2>2 DEF m, gs
      <3>2. \A i \in 1..Len(<<>>) : gs[<<>>[i]] = gs[<<>>[i]]
        OBVIOUS
      <3> DEFINE o == <<>>
      <3>3. WellPlaced(gs, o) /\ WellPlaced(gs, Append(o, m)) /\ \A i \in 1..Len(o) : gs[o[i]] = gs[o[i]]
        BY <2>5, <3>2
      <3> HIDE DEF o
      <3>4. LinesOf(gs, Append(o, m)) = LinesOf(gs, o)
        BY <3>1, <3>3, LinesNew
      <3> QED BY <3>4 DEF o
    <2>7. AllLines' = <<>>
      <3>1. AllLines' = LinesOf(files', OrderOf(place'))
        BY DEF AllLines, Order, OrderOf, LinesOf, ContentsOf, Content, Body
      <3> QED BY <2>4, <2>6, <3>1, LinesNone DEF gs
    <2>8. AllKept'
      <3> SUFFICES ASSUME NEW s \in Streams
                   PROVE  Kept(<<>>, wrote'[s], pump'[s].chunk \o pipe'[s], s)
        BY <2>7 DEF AllKept
      <3>1. pipe[s] \in Seq(Byte) /\ wrote'[s] = pipe[s] /\ pipe'[s] = pipe[s] /\ pump'[s].chunk = <<>>
        BY <1>t, <1>u, <1>2, <1>4 DEF DataTypes
      <3>2. <<>> \o pipe[s] = pipe[s]
        BY <3>1, ConcatEmpty
      <3> QED BY <3>1, <3>2, KeptFirst
    <2>9. Current'
      <3>1. Len(<<m>>) = 1 /\ <<m>>[1] = m /\ \A i \in 1..1 : ~(i > 1)
        OBVIOUS
      <3>2. LastLines(files', <<m>>, m, 1)
        BY <3>1 DEF LastLines
      <3>3. log'.file = m
        BY <1>3, <1>7 DEF m
      <3> QED BY <2>4, <3>2, <3>3 DEF Current
    <2>10. Through'
      BY <1>1, <2>1, CreateThrough
    <2> QED BY <1>5, <2>3, <2>8, <2>9, <2>10 DEF DataInv
  <1> QED BY <1>6, <1>7

(* What a read takes from the pipe and what it leaves there is the pipe. *)
LEMMA TakeSplits ==
  ASSUME NEW p \in Seq(Byte), NEW k \in 0..Len(p)
  PROVE  LET c == SubSeq(p, 1, k)
             r == SubSeq(p, Len(c) + 1, Len(p))
         IN c \in Seq(Byte) /\ r \in Seq(Byte) /\ c \o r = p
  <1> DEFINE c == SubSeq(p, 1, k)
             r == SubSeq(p, k + 1, Len(p))
             q == c \o r
             n == Len(p)
  <1>1. n \in Nat /\ k \in Nat /\ k <= n
    OBVIOUS
  <1>2. c \in Seq(Byte) /\ Len(c) = k /\ \A i \in 1..k : c[i] = p[i]
    OBVIOUS
  <1>3. r \in Seq(Byte) /\ Len(r) = n - k /\ \A i \in 1..(n - k) : r[i] = p[k + i]
    OBVIOUS
  <1> HIDE DEF c, r
  <1>4. Joined(q, c, r) /\ q \in Seq(Byte)
    BY <1>2, <1>3, ConcatAt
  <1> HIDE DEF q
  <1>5. Len(q) = n /\ \A i \in 1..n : q[i] = p[i]
    <2>1. Len(q) = n
      BY <1>1, <1>2, <1>3, <1>4 DEF Joined
    <2>2. ASSUME NEW i \in 1..n PROVE q[i] = p[i]
      <3>1. CASE i <= k
        <4>1. i \in 1..k
          BY <1>1, <3>1
        <4>2. q[i] = c[i]
          BY <1>2, <1>4, <4>1 DEF Joined
        <4> QED BY <1>2, <4>1, <4>2
      <3>2. CASE ~(i <= k)
        <4>1. i - k \in 1..(n - k) /\ k + (i - k) = i
          BY <1>1, <3>2
        <4>2. q[k + (i - k)] = r[i - k]
          BY <1>2, <1>3, <1>4, <4>1 DEF Joined
        <4> QED BY <1>3, <4>1, <4>2
      <3> QED BY <3>1, <3>2
    <2> QED BY <2>1, <2>2
  <1>6. q = [i \in 1..n |-> q[i]] /\ p = [i \in 1..n |-> p[i]]
    BY <1>4, <1>5
  <1>7. q = p
    BY <1>5, <1>6
  <1> QED BY <1>2, <1>3, <1>7 DEF q, c, r

LEMMA TakeData ==
  ASSUME DataInv, NEW s \in Streams, Take(s)
  PROVE  /\ Chunk(s) \in Seq(Byte) /\ pipe' \in [Streams -> Seq(Byte)]
         /\ Chunk(s) \o pipe'[s] = pipe[s]
         /\ \A r \in Streams : r # s => pipe'[r] = pipe[r]
  <1> DEFINE k == IF Len(pipe[s]) < BufSize THEN Len(pipe[s]) ELSE BufSize
             p == pipe[s]
             rest == SubSeq(p, Len(Chunk(s)) + 1, Len(p))
  <1>1. pipe \in [Streams -> Seq(Byte)] /\ p \in Seq(Byte)
    BY DEF DataInv, DataTypes
  <1>2. k \in 0..Len(p)
    BY <1>1, LogAssumption
  <1>3. Chunk(s) = SubSeq(p, 1, k)
    BY DEF Chunk
  <1>4. pipe' = [pipe EXCEPT ![s] = rest]
    BY DEF Take
  <1> HIDE DEF k, p
  <1>5. Chunk(s) \in Seq(Byte) /\ rest \in Seq(Byte) /\ Chunk(s) \o rest = p
    BY <1>1, <1>2, <1>3, TakeSplits
  <1> HIDE DEF rest
  <1> QED BY <1>1, <1>4, <1>5 DEF p

(* Lines are handed to the file the pumps write to. *)
LEMMA FileData ==
  ASSUME LogInv, DataInv, NEW f \in 1..Len(files), NEW v \in FileType, files' = [files EXCEPT ![f] = v]
  PROVE  /\ files' \in Seq(FileType) /\ Len(files') = Len(files) /\ files'[f] = v
         /\ \A g \in 1..Len(files) : g # f => files'[g] = files[g]
  BY DEF DataInv, DataTypes

LEMMA LinesHanded ==
  ASSUME LogInv, DataInv, log.opened, log.file \in 1..Len(files), NEW v \in FileType,
         files' = [files EXCEPT ![log.file] = v], place' = place, log'.file = log.file,
         NEW y \in Seq(LineType), Body(v) = Body(files[log.file]) \o y
  PROVE  AllLines' = AllLines \o y /\ Current'
  <1> DEFINE o == OrderOf(place)
             f == log.file
  <1>1. /\ files' \in Seq(FileType) /\ Len(files') = Len(files) /\ files'[f] = v
        /\ \A g \in 1..Len(files) : g # f => files'[g] = files[g]
    BY FileData
  <1>2. WellPlaced(files, o) /\ Distinct(o)
    <2>1. Placed(files, place)
      BY DEF LogInv, LogTypes, Place, Files, Placed, DataInv, DataTypes
    <2> QED BY <2>1, PlacedOrder
  <1>3. WellPlaced(files', o)
    BY <1>1, <1>2 DEF WellPlaced
  <1>4. PICK k : LastLines(files, o, f, k)
    BY DEF DataInv, Current
  <1> HIDE DEF o, f
  <1>5. LinesOf(files', o) = LinesOf(files, o) \o y
    <2>1. Body(files'[f]) = Body(files[f]) \o y
      BY <1>1 DEF f
    <2> DEFINE gs == files'
    <2>2. WellPlaced(gs, o) /\ Grown(files, gs, f, y)
      BY <1>1, <1>3, <2>1 DEF Grown
    <2> HIDE DEF gs
    <2>3. LinesOf(gs, o) = LinesOf(files, o) \o y
      BY <1>2, <1>4, <2>2, LinesGrow
    <2> QED BY <2>3 DEF gs
  <1>6. LastLines(files', o, f, k)
    <2>1. ASSUME NEW i \in 1..Len(o), i > k PROVE files'[o[i]] = Empty
      <3>1. files[o[i]] = Empty /\ o[i] \in 1..Len(files) /\ k \in 1..Len(o) /\ o[k] = f /\ i # k
        BY <1>2, <1>4, <2>1 DEF LastLines, WellPlaced
      <3>2. o[i] # f
        BY <1>2, <3>1 DEF Distinct
      <3> QED BY <1>1, <3>1, <3>2
    <2> QED BY <1>4, <2>1 DEF LastLines
  <1>7. AllLines = LinesOf(files, o) /\ AllLines' = LinesOf(files', o)
    BY DEF AllLines, Order, OrderOf, LinesOf, ContentsOf, Content, Body, o
  <1> QED BY <1>5, <1>6, <1>7 DEF Current, o, f

LEMMA ReadData ==
  ASSUME LogInv, DataInv, NEW s \in Streams, PumpRead(s)
  PROVE  DataInv'
  <1>t. LogTypes /\ Pumps /\ DataTypes /\ Early /\ Turning /\ Through /\ Current /\ AllKept
    BY DEF LogInv, DataInv
  <1>u. UNCHANGED <<box, wrote, files, place, log, reopen>> /\ Take(s)
    BY DEF PumpRead
  <1>1. /\ pump[s].pc = "read" /\ "lock" \in PumpPCs
        /\ pump' = [pump EXCEPT ![s] = [pc |-> "lock", chunk |-> Chunk(s)]]
    BY DEF PumpRead, Take, PumpPCs
  <1>2. pump'[s].chunk = Chunk(s) /\ \A r \in Streams : r # s => pump'[r] = pump[r]
    BY <1>t, <1>1, PumpUpdate
  <1>3. /\ Chunk(s) \in Seq(Byte) /\ pipe' \in [Streams -> Seq(Byte)]
        /\ Chunk(s) \o pipe'[s] = pipe[s]
        /\ \A r \in Streams : r # s => pipe'[r] = pipe[r]
    BY <1>u, TakeData
  <1>4. DataTypes'
    BY <1>t, <1>u, <1>2, <1>3 DEF DataTypes
  <1>5. box.sup \notin {"idle", "spawn", "open"}
    BY <1>t, <1>1 DEF Pumps
  <1>6. Early' /\ Turning' /\ Through' /\ Current'
    BY <1>t, <1>u, <1>5 DEF Early, Turning, Through, Current
  <1>7. AllLines' = AllLines
    BY <1>u DEF AllLines, Order, Content
  <1>8. \A r \in Streams : pump'[r].chunk \o pipe'[r] = pump[r].chunk \o pipe[r]
    <2>1. pump[s].chunk = <<>> /\ pipe[s] \in Seq(Byte)
      BY <1>t, <1>1 DEF Pumps, DataTypes
    <2>2. <<>> \o pipe[s] = pipe[s]
      BY <2>1, ConcatEmpty
    <2> QED BY <1>2, <1>3, <2>1, <2>2
  <1>9. AllKept'
    BY <1>t, <1>u, <1>7, <1>8 DEF AllKept
  <1> QED BY <1>4, <1>6, <1>9 DEF DataInv

LEMMA GoData ==
  ASSUME LogInv, DataInv, NEW s \in Streams, PumpEof(s) \/ PumpLock(s)
  PROVE  DataInv'
  <1>t. LogTypes /\ Early /\ Turning /\ log \in Log
    BY DEF LogInv, LogTypes, DataInv
  <1>u. UNCHANGED <<box, wrote, pipe, files, place, reopen>>
    BY DEF PumpEof, PumpLock
  <1>1. log'.file = log.file /\ log'.opened = log.opened
    BY <1>t DEF PumpEof, PumpLock, Log
  <1>2. \A r \in Streams : pump'[r].chunk = pump[r].chunk
    <2>1. PICK pc \in PumpPCs : pump' = [pump EXCEPT ![s].pc = pc]
      BY DEF PumpEof, PumpLock, PumpPCs
    <2>2. pump' = [pump EXCEPT ![s] = [pc |-> pc, chunk |-> pump[s].chunk]]
      BY <1>t, <2>1, PumpGoes
    <2>3. pump'[s].chunk = pump[s].chunk /\ \A r \in Streams : r # s => pump'[r] = pump[r]
      BY <1>t, <2>2, PumpUpdate
    <2> QED BY <2>3
  <1>3. DataTypes' /\ Through' /\ Current' /\ AllKept'
    BY <1>u, <1>1, <1>2, StillKeeps
  <1>4. Early' /\ Turning'
    BY <1>t, <1>u, <1>1 DEF Early, Turning
  <1> QED BY <1>3, <1>4 DEF DataInv

(* A chunk becomes lines. *)
LEMMA ChunkData ==
  ASSUME LogInv, DataInv, NEW s \in Streams, NEW c \in Seq(Byte), UNCHANGED wrote,
         pump[s].chunk \o pipe[s] = c \o (pump'[s].chunk \o pipe'[s]),
         pump'[s].chunk \o pipe'[s] \in Seq(Byte),
         \A r \in Streams : r # s => pump'[r] = pump[r] /\ pipe'[r] = pipe[r],
         log'.opened = log.opened, log.opened => AllLines' = AllLines \o cri_log_line(s, c)
  PROVE  AllKept'
  <1> SUFFICES ASSUME log.opened, NEW r \in Streams
               PROVE  Kept(AllLines', wrote[r], pump'[r].chunk \o pipe'[r], r)
    BY DEF AllKept
  <1>1. Kept(AllLines, wrote[r], pump[r].chunk \o pipe[r], r)
    BY DEF DataInv, AllKept
  <1> DEFINE rest == pump'[r].chunk \o pipe'[r]
             all == AllLines
             w == wrote[r]
  <1>2. CASE r = s
    <2>1. Kept(all, w, c \o rest, s) /\ rest \in Seq(Byte)
      BY <1>1, <1>2
    <2> HIDE DEF rest, all, w
    <2>2. Kept(all \o cri_log_line(s, c), w, rest, s)
      BY <2>1, KeptChunk
    <2> QED BY <1>2, <2>2 DEF rest, all, w
  <1>3. CASE r # s
    <2>1. Kept(all, w, rest, r)
      BY <1>1, <1>3
    <2> HIDE DEF rest, all, w
    <2>2. Kept(all \o cri_log_line(s, c), w, rest, r)
      BY <1>3, <2>1, KeptOther
    <2> QED BY <2>2 DEF rest, all, w
  <1> QED BY <1>2, <1>3

LEMMA ChunkLines ==
  ASSUME NEW s \in Streams, NEW c \in Seq(Byte)
  PROVE  cri_log_line(s, c) \in Seq(LineType)
  BY LinesOfChunk DEF IsLines

LEMMA OpenedFile ==
  ASSUME LogInv, DataInv, log.opened
  PROVE  log.file \in 1..Len(files) /\ log.file # Nobody
  <1> DEFINE o == OrderOf(place)
  <1>1. Placed(files, place)
    BY DEF LogInv, LogTypes, Place, Files, Placed, DataInv, DataTypes
  <1>2. WellPlaced(files, o)
    BY <1>1, PlacedOrder
  <1>3. PICK k : LastLines(files, o, log.file, k)
    BY DEF DataInv, Current
  <1>4. log.file \in 1..Len(files) /\ Len(files) \in Nat
    BY <1>2, <1>3 DEF WellPlaced, LastLines
  <1> QED BY <1>4, LogAssumption

LEMMA WriteData ==
  ASSUME LogInv, DataInv, Direct, NEW s \in Streams, PumpWrite(s)
  PROVE  DataInv'
  <1>t. LogTypes /\ Pumps /\ DataTypes /\ Early /\ Turning /\ Through /\ log \in Log
    BY DEF LogInv, LogTypes, DataInv
  <1>u. UNCHANGED <<box, wrote, pipe, place, reopen>>
    BY DEF PumpWrite
  <1> DEFINE c == pump[s].chunk
             y == cri_log_line(s, c)
             f == log.file
             v == [files[f] EXCEPT !.pending = y]
  <1>1. /\ pump[s].pc = "write" /\ "read" \in PumpPCs
        /\ pump' = [pump EXCEPT ![s] = [pc |-> "read", chunk |-> <<>>]]
    BY DEF PumpWrite, PumpPCs
  <1>2. pump'[s].chunk = <<>> /\ \A r \in Streams : r # s => pump'[r] = pump[r]
    BY <1>t, <1>1, PumpUpdate
  <1>3. log'.file = f /\ log'.opened = log.opened
    BY <1>t DEF PumpWrite, Log
  <1>4. c \in Seq(Byte) /\ pipe[s] \in Seq(Byte) /\ y \in Seq(LineType)
    <2>1. c \in Seq(Byte) /\ pipe[s] \in Seq(Byte)
      BY <1>t DEF DataTypes
    <2> QED BY <2>1, ChunkLines
  <1>5. Through'
    BY <1>t, <1>u, <1>1 DEF Direct, Through
  <1> HIDE DEF y
  <1>6. \/ f = Nobody /\ files' = files
        \/ /\ f \in 1..Len(files) /\ files' = [files EXCEPT ![f] = v] /\ files[f].pending = <<>>
           /\ v \in FileType /\ Body(v) = Body(files[f]) \o y
    <2>1. CASE f = Nobody
      BY <2>1 DEF PumpWrite
    <2>2. CASE f # Nobody
      <3>1. /\ f \in 1..Len(files) /\ files[f].pending = <<>> /\ files' = [files EXCEPT ![f] = v]
        BY <2>2 DEF PumpWrite, y, LogInv, Files
      <3>2. files[f] \in FileType
        BY <1>t, <3>1 DEF DataTypes
      <3>3. v \in FileType /\ v.lines = files[f].lines /\ v.pending = y /\ files[f].lines \in Seq(LineType)
        BY <1>4, <3>2 DEF FileType
      <3>4. files[f].lines \o <<>> = files[f].lines
        BY <3>3, ConcatEmpty
      <3> QED BY <3>1, <3>3, <3>4 DEF Body
    <2> QED BY <2>1, <2>2
  <1> HIDE DEF v
  <1>7. DataTypes'
    <2>1. files' \in Seq(FileType)
      BY <1>t, <1>6, FileData DEF DataTypes
    <2>2. <<>> \in Seq(Byte)
      OBVIOUS
    <2> QED BY <1>t, <1>u, <1>2, <2>1, <2>2 DEF DataTypes
  <1>8. log.opened => AllLines' = AllLines \o y /\ Current'
    <2> SUFFICES ASSUME log.opened PROVE AllLines' = AllLines \o y /\ Current'
      OBVIOUS
    <2>1. f # Nobody
      BY OpenedFile
    <2> QED BY <1>u, <1>3, <1>4, <1>6, <2>1, LinesHanded
  <1>9. Current'
    BY <1>3, <1>8 DEF Current
  <1>10. AllKept'
    <2>1. pump'[s].chunk \o pipe'[s] = pipe[s] /\ pump[s].chunk \o pipe[s] = c \o pipe[s]
      BY <1>u, <1>2, <1>4, ConcatEmpty
    <2> HIDE DEF c
    <2> QED BY <1>u, <1>2, <1>3, <1>4, <1>8, <2>1, ChunkData DEF y
  <1>11. box.sup \notin {"idle", "spawn", "open"}
    BY <1>t, <1>1 DEF Pumps
  <1>12. Early' /\ Turning'
    BY <1>t, <1>u, <1>11 DEF Early, Turning
  <1> QED BY <1>5, <1>7, <1>9, <1>10, <1>12 DEF DataInv

LEMMA TtyData ==
  ASSUME LogInv, DataInv, TtyPump
  PROVE  DataInv'
  <1> DEFINE s == "stdout"
             c == Chunk("stdout")
             y == cri_log_line("stdout", c)
             f == log.file
             v == [files[f] EXCEPT !.lines = @ \o y]
  <1>t. LogTypes /\ Pumps /\ DataTypes /\ Early /\ Turning /\ Through /\ s \in Streams
    BY LogAssumption DEF LogInv, DataInv
  <1>u. UNCHANGED <<box, wrote, pump, place, log, reopen>> /\ Take(s) /\ box.terminal
    BY DEF TtyPump
  <1>1. pump[s].pc = "read"
    BY <1>u DEF Take
  <1>2. /\ c \in Seq(Byte) /\ pipe' \in [Streams -> Seq(Byte)] /\ c \o pipe'[s] = pipe[s]
        /\ \A r \in Streams : r # s => pipe'[r] = pipe[r]
    BY <1>t, <1>u, TakeData
  <1>3. y \in Seq(LineType)
    BY <1>t, <1>2, ChunkLines
  <1>4. box.sup \notin {"idle", "spawn", "open"} /\ pump[s].chunk = <<>>
    BY <1>t, <1>1 DEF Pumps
  <1> HIDE DEF y, c
  <1>5. \/ f = Nobody /\ files' = files
        \/ /\ f \in 1..Len(files) /\ files' = [files EXCEPT ![f] = v] /\ v.pending = <<>>
           /\ v \in FileType /\ Body(v) = Body(files[f]) \o y
    <2>1. CASE f = Nobody
      BY <2>1 DEF TtyPump
    <2>2. CASE f # Nobody
      <3>1. f \in 1..Len(files) /\ files' = [files EXCEPT ![f] = v]
        BY <2>2 DEF TtyPump, y, c, LogInv, Files
      <3>2. files[f] \in FileType /\ files[f].pending = <<>>
        BY <1>t, <1>u, <3>1 DEF DataTypes, Through
      <3>3. files[f].lines \in Seq(LineType)
        BY <3>2 DEF FileType
      <3>4. files[f].lines \o y \in Seq(LineType)
        BY <1>3, <3>3, ConcatType
      <3>5. v \in FileType /\ v.lines = files[f].lines \o y /\ v.pending = <<>>
        BY <3>2, <3>4 DEF FileType
      <3>6. (files[f].lines \o y) \o <<>> = files[f].lines \o y /\ files[f].lines \o <<>> = files[f].lines
        BY <3>3, <3>4, ConcatEmpty
      <3> QED BY <3>1, <3>2, <3>5, <3>6 DEF Body
    <2> QED BY <2>1, <2>2
  <1> HIDE DEF v
  <1>6. files' \in Seq(FileType) /\ Through'
    <2>1. CASE files' = files
      BY <1>t, <1>u, <2>1 DEF DataTypes, Through
    <2>2. CASE f \in 1..Len(files) /\ files' = [files EXCEPT ![f] = v] /\ v.pending = <<>> /\ v \in FileType
      <3>1. /\ files' \in Seq(FileType) /\ Len(files') = Len(files) /\ files'[f] = v
            /\ \A g \in 1..Len(files) : g # f => files'[g] = files[g]
        BY <2>2, FileData
      <3> QED BY <1>t, <1>u, <2>2, <3>1 DEF Through
    <2> QED BY <1>5, <2>1, <2>2
  <1>7. DataTypes'
    BY <1>t, <1>u, <1>2, <1>6 DEF DataTypes
  <1>8. log.opened => AllLines' = AllLines \o y /\ Current'
    <2> SUFFICES ASSUME log.opened PROVE AllLines' = AllLines \o y /\ Current'
      OBVIOUS
    <2>1. f # Nobody
      BY OpenedFile
    <2> QED BY <1>u, <1>3, <1>5, <2>1, LinesHanded
  <1>9. Current'
    BY <1>u, <1>8 DEF Current
  <1>10. AllKept'
    <2>1. pipe[s] \in Seq(Byte) /\ pipe'[s] \in Seq(Byte)
      BY <1>t, <1>2 DEF DataTypes
    <2>2. pump'[s].chunk \o pipe'[s] = pipe'[s] /\ pump[s].chunk \o pipe[s] = c \o pipe'[s]
      BY <1>u, <1>2, <1>4, <2>1, ConcatEmpty
    <2> QED BY <1>t, <1>u, <1>2, <1>8, <2>1, <2>2, ChunkData DEF y
  <1>11. Early' /\ Turning'
    BY <1>t, <1>u, <1>4 DEF Early, Turning
  <1> QED BY <1>6, <1>7, <1>9, <1>10, <1>11 DEF DataInv

(* The workload writes a byte. *)
LEMMA OutputData ==
  ASSUME LogInv, DataInv, NEW s \in Streams, CtrWrite(s)
  PROVE  DataInv'
  <1>t. DataTypes /\ Early /\ Turning /\ Through /\ Current /\ AllKept
    BY DEF DataInv
  <1>u. UNCHANGED <<box, pump, files, place, log, reopen>>
    BY DEF CtrWrite
  <1>1. PICK b \in {Len(wrote[s]) + 1, NL} :
          wrote' = [wrote EXCEPT ![s] = Append(@, b)] /\ pipe' = [pipe EXCEPT ![s] = Append(@, b)]
    BY DEF CtrWrite
  <1>2. wrote[s] \in Seq(Byte) /\ pipe[s] \in Seq(Byte) /\ pump[s].chunk \in Seq(Byte) /\ b \in Byte
    <2>1. wrote[s] \in Seq(Byte) /\ pipe[s] \in Seq(Byte) /\ pump[s].chunk \in Seq(Byte)
      BY <1>t DEF DataTypes
    <2> QED BY <1>1, <2>1 DEF Byte
  <1>3. Append(wrote[s], b) \in Seq(Byte) /\ Append(pipe[s], b) \in Seq(Byte)
    BY <1>2
  <1>4. /\ wrote' \in [Streams -> Seq(Byte)] /\ wrote'[s] = Append(wrote[s], b)
        /\ \A r \in Streams : r # s => wrote'[r] = wrote[r]
    BY <1>t, <1>1, <1>3 DEF DataTypes
  <1>5. /\ pipe' \in [Streams -> Seq(Byte)] /\ pipe'[s] = Append(pipe[s], b)
        /\ \A r \in Streams : r # s => pipe'[r] = pipe[r]
    BY <1>t, <1>1, <1>3 DEF DataTypes
  <1>6. DataTypes'
    BY <1>t, <1>u, <1>4, <1>5 DEF DataTypes
  <1>7. Turning' /\ Through' /\ Current'
    BY <1>t, <1>u DEF Turning, Through, Current
  <1>8. Early'
    BY <1>t, <1>u, <1>4, <1>5 DEF Early
  <1>9. AllLines' = AllLines
    BY <1>u DEF AllLines, Order, Content
  <1>10. AllKept'
    <2> SUFFICES ASSUME log.opened, NEW r \in Streams
                 PROVE  Kept(AllLines, wrote'[r], pump[r].chunk \o pipe'[r], r)
      BY <1>u, <1>9 DEF AllKept
    <2> DEFINE rest == pump[s].chunk \o pipe[s]
    <2>1. Kept(AllLines, wrote[r], pump[r].chunk \o pipe[r], r)
      BY <1>t DEF AllKept
    <2>2. CASE r = s
      <3>1. pump[s].chunk \o Append(pipe[s], b) = Append(rest, b)
        <4> DEFINE k == pump[s].chunk
                   p == pipe[s]
        <4>1. k \in Seq(Byte) /\ p \in Seq(Byte)
          BY <1>2
        <4> HIDE DEF k, p
        <4>2. Append(p, b) = p \o <<b>> /\ <<b>> \in Seq(Byte) /\ Append(k \o p, b) = (k \o p) \o <<b>>
          BY <1>2, <4>1
        <4>3. Assoc(k, p, <<b>>)
          BY <4>1, <4>2, ConcatAssoc
        <4>4. k \o Append(p, b) = Append(k \o p, b)
          BY <4>2, <4>3 DEF Assoc
        <4> QED BY <4>4 DEF k, p
      <3> HIDE DEF rest
      <3>2. Kept(AllLines, Append(wrote[s], b), Append(rest, b), s)
        BY <1>2, <2>1, <2>2, KeptMore DEF rest
      <3> QED BY <1>4, <1>5, <2>2, <3>1, <3>2
    <2>3. CASE r # s
      BY <1>4, <1>5, <2>1, <2>3
    <2> QED BY <2>2, <2>3
  <1> QED BY <1>6, <1>7, <1>8, <1>10 DEF DataInv

(* tokio's thread: the lines were the file's before. *)
LEMMA FlushData ==
  ASSUME LogInv, DataInv, NEW f \in DOMAIN files, FileWrite(f)
  PROVE  DataInv'
  <1>t. DataTypes /\ Early /\ Turning /\ Through /\ Current /\ AllKept /\ files \in Seq(FileType)
    BY DEF DataInv, DataTypes
  <1>u. UNCHANGED <<box, wrote, pipe, pump, place, log, reopen>>
    BY DEF FileWrite
  <1> DEFINE v == Flushed(files[f])
             o == OrderOf(place)
  <1>1. f \in 1..Len(files) /\ files' = [files EXCEPT ![f] = v] /\ files[f].pending # <<>>
    BY <1>t DEF FileWrite
  <1>2. files[f].lines \in Seq(LineType) /\ files[f].pending \in Seq(LineType)
    <2>1. files[f] \in FileType
      BY <1>t, <1>1
    <2> QED BY <2>1 DEF FileType
  <1>3. v \in FileType /\ v.pending = <<>> /\ Body(v) = Body(files[f])
    <2> DEFINE a == files[f].lines \o files[f].pending
    <2>1. a \in Seq(LineType)
      BY <1>2, ConcatType
    <2>2. a \o <<>> = a /\ <<>> \in Seq(LineType)
      BY <2>1, ConcatEmpty
    <2>3. v = [lines |-> a, pending |-> <<>>]
      BY DEF Flushed
    <2> HIDE DEF v
    <2> QED BY <2>1, <2>2, <2>3 DEF FileType, Body
  <1> HIDE DEF v, o
  <1>4. /\ files' \in Seq(FileType) /\ Len(files') = Len(files) /\ files'[f] = v
        /\ \A g \in 1..Len(files) : g # f => files'[g] = files[g]
    BY <1>1, <1>3, FileData
  <1>5. files[f] # Empty
    BY <1>1 DEF Empty
  <1>6. DataTypes' /\ Turning' /\ Through'
    BY <1>t, <1>u, <1>3, <1>4 DEF DataTypes, Turning, Through
  <1>7. Early'
    BY <1>t, <1>u, <1>1, <1>5 DEF Early
  <1>8. Current'
    <2> SUFFICES ASSUME log.opened PROVE \E k : LastLines(files', o, log.file, k)
      BY <1>u DEF Current, o
    <2>1. PICK k : LastLines(files, o, log.file, k)
      BY <1>t DEF Current, o
    <2>2. WellPlaced(files, o)
      <3>1. Placed(files, place)
        BY <1>t DEF LogInv, LogTypes, Place, Files, Placed
      <3> QED BY <3>1, PlacedOrder DEF o
    <2>3. ASSUME NEW i \in 1..Len(o), i > k PROVE files'[o[i]] = Empty
      <3>1. files[o[i]] = Empty /\ o[i] \in 1..Len(files)
        BY <2>1, <2>2, <2>3 DEF LastLines, WellPlaced
      <3> QED BY <1>4, <1>5, <3>1
    <2>4. LastLines(files', o, log.file, k)
      BY <2>1, <2>3 DEF LastLines
    <2> QED BY <2>4
  <1>9. AllLines' = AllLines
    <2>1. WellPlaced(files, o)
      <3>1. Placed(files, place)
        BY <1>t DEF LogInv, LogTypes, Place, Files, Placed
      <3> QED BY <3>1, PlacedOrder DEF o
    <2>2. \A i \in 1..Len(o) : Body(files'[o[i]]) = Body(files[o[i]])
      BY <1>3, <1>4, <2>1 DEF WellPlaced
    <2>3. LinesOf(files', o) = LinesOf(files, o)
      <3> DEFINE gs == files'
      <3>1. \A i \in 1..Len(o) : Body(gs[o[i]]) = Body(files[o[i]])
        BY <2>2
      <3> HIDE DEF gs
      <3>2. LinesOf(gs, o) = LinesOf(files, o)
        BY <2>1, <3>1, LinesSame
      <3> QED BY <3>2 DEF gs
    <2>4. AllLines = LinesOf(files, o) /\ AllLines' = LinesOf(files', o)
      BY <1>u DEF AllLines, Order, OrderOf, LinesOf, ContentsOf, Content, Body, o
    <2> QED BY <2>3, <2>4
  <1>10. AllKept'
    BY <1>t, <1>u, <1>9 DEF AllKept
  <1> QED BY <1>6, <1>7, <1>8, <1>10 DEF DataInv

(* The kubelet renames, and the order stays. *)
LEMMA RenameData ==
  ASSUME LogInv, DataInv, Rotate \/ RotateBack
  PROVE  DataInv'
  <1>t. /\ DataTypes /\ Early /\ Turning /\ Through /\ Current /\ AllKept
        /\ place.moved \in Seq(Nat) /\ place.at \in Nat \cup {Nobody} /\ Files
    BY DEF DataInv, LogInv, LogTypes, Place
  <1>u. UNCHANGED <<box, wrote, pipe, pump, files, log>>
    BY DEF Rotate, RotateBack
  <1>1. box.sup \notin {"idle", "spawn", "open"}
    <2>1. CASE Rotate
      <3>1. place.at # Nobody /\ files[place.at].lines # <<>>
        BY <2>1 DEF Rotate
      <3>2. place.at \in 1..Len(files)
        BY <1>t, <3>1 DEF Files
      <3> QED BY <1>t, <3>1, <3>2 DEF Early, Empty
    <2>2. CASE RotateBack
      BY <1>t, <2>2 DEF RotateBack, Early
    <2> QED BY <2>1, <2>2
  <1>2. OrderOf(place') = OrderOf(place) /\ Turning'
    <2>1. CASE Rotate
      <3>1. place' = [at |-> Nobody, moved |-> Append(place.moved, place.at)] /\ place.at # Nobody /\ reopen' = "check"
        BY <2>1 DEF Rotate
      <3>2. place'.at = Nobody /\ place'.moved = Append(place.moved, place.at)
        BY <3>1
      <3> QED BY <3>1, <3>2 DEF OrderOf, Turning
    <2>2. CASE RotateBack
      <3> DEFINE m == place.moved
                 n == Len(m)
      <3>1. /\ reopen = "refused" /\ reopen' = "idle" /\ place.at = Nobody
            /\ place' = [at |-> Last(m), moved |-> Front(m)]
        BY <1>t, <2>2 DEF RotateBack, Turning
      <3>2. n \in Nat /\ n > 0
        BY <1>t, <3>1 DEF Files
      <3>3. Last(m) = m[n] /\ m[n] \in Nat
        BY <1>t, <3>2 DEF Last
      <3>4. Front(m) \in Seq(Nat) /\ Len(Front(m)) = n - 1 /\ \A i \in 1..(n - 1) : Front(m)[i] = m[i]
        BY <1>t, <3>2 DEF Front
      <3> DEFINE q == Front(m)
                 x == Last(m)
                 r == Append(q, x)
      <3>5. q \in Seq(Nat) /\ Len(q) = n - 1 /\ x = m[n] /\ x \in Nat /\ \A i \in 1..(n - 1) : q[i] = m[i]
        BY <3>3, <3>4
      <3> HIDE DEF q, x, n
      <3>6. r \in Seq(Nat) /\ Len(r) = n /\ r[n] = x /\ \A i \in 1..(n - 1) : r[i] = q[i]
        BY <3>2, <3>5
      <3> HIDE DEF r
      <3>7. \A i \in 1..n : i \in 1..(n - 1) \/ i = n
        BY <3>2
      <3>8. \A i \in 1..n : r[i] = m[i]
        BY <3>5, <3>6, <3>7
      <3>9. r = [i \in 1..n |-> r[i]] /\ m = [i \in 1..n |-> m[i]]
        <4>1. m \in Seq(Nat) /\ Len(m) = n
          BY <1>t DEF n
        <4> HIDE DEF m, n, r
        <4>2. r = [i \in 1..n |-> r[i]]
          BY <3>6
        <4>3. m = [i \in 1..n |-> m[i]]
          BY <4>1
        <4> QED BY <4>2, <4>3
      <3>10. r = m
        BY <3>8, <3>9
      <3>11. place'.at = x /\ place'.moved = q /\ x # Nobody
        <4>1. Nobody \notin Nat
          BY LogAssumption
        <4> QED BY <3>1, <3>5, <4>1 DEF x, q
      <3>12. OrderOf(place') = r /\ OrderOf(place) = m
        BY <3>1, <3>11 DEF OrderOf, r
      <3> QED BY <3>1, <3>10, <3>12 DEF Turning
    <2> QED BY <2>1, <2>2
  <1>3. DataTypes' /\ Through' /\ Early'
    BY <1>t, <1>u, <1>1 DEF DataTypes, Through, Early
  <1>4. Current'
    BY <1>t, <1>u, <1>2 DEF Current
  <1>5. AllLines' = AllLines
    BY <1>u, <1>2 DEF AllLines, Order, OrderOf, Content
  <1>6. AllKept'
    BY <1>t, <1>u, <1>5 DEF AllKept
  <1> QED BY <1>2, <1>3, <1>4, <1>6 DEF DataInv

(* ReopenContainerLog makes a file that nobody writes to yet ... *)
LEMMA ReopenCreateData ==
  ASSUME LogInv, LogInv', DataInv, NEW ok \in BOOLEAN, ReopenCreate(ok)
  PROVE  DataInv'
  <1>t. /\ DataTypes /\ Early /\ Turning /\ Through /\ Current /\ AllKept
        /\ place.moved \in Seq(Nat) /\ Files /\ LogTypes
    BY DEF DataInv, LogInv, LogTypes, Place
  <1>u. UNCHANGED <<box, wrote, pipe, pump, log>>
    BY DEF ReopenCreate
  <1>1. reopen = "create" /\ place.at = Nobody /\ box.sup \notin {"idle", "spawn", "open"}
    BY <1>t DEF ReopenCreate, Turning, Early
  <1>2. CASE ~ok
    <2>1. UNCHANGED <<files, place>> /\ reopen' = "refused"
      BY <1>2 DEF ReopenCreate
    <2>2. DataTypes' /\ Through' /\ Current' /\ AllKept'
      BY <1>u, <2>1, StillKeeps
    <2>3. Early' /\ Turning'
      BY <1>u, <1>1, <2>1 DEF Early, Turning
    <2> QED BY <2>2, <2>3 DEF DataInv
  <1>3. CASE ok
    <2>1. Create /\ reopen' = "handle"
      BY <1>3 DEF ReopenCreate
    <2>2. /\ files' \in Seq(FileType) /\ FileAt \in 1..Len(files') /\ files'[FileAt] = Empty
          /\ \A g \in 1..Len(files) : g # FileAt => files'[g] = files[g]
          /\ place'.at = FileAt /\ place'.moved = place.moved /\ FileAt \in Nat
      BY <2>1, CreateData
    <2>3. FileAt = Len(files) + 1 /\ Len(files) \in Nat /\ FileAt # Nobody
      <3>1. FileAt = Len(files) + 1 /\ Len(files) \in Nat
        BY <1>1, <1>t DEF FileAt, DataTypes
      <3> QED BY <2>2, <3>1, LogAssumption
    <2>4. \A g \in 1..Len(files) : files'[g] = files[g]
      BY <2>2, <2>3
    <2> DEFINE o == OrderOf(place)
               m == FileAt
               gs == files'
    <2>5. o = place.moved /\ OrderOf(place') = Append(o, m)
      BY <1>1, <2>2, <2>3 DEF OrderOf
    <2>6. WellPlaced(files, o) /\ WellPlaced(gs, Append(o, m))
      <3>1. Placed(files, place)
        BY <1>t DEF LogInv, LogTypes, Place, Files, Placed, DataTypes
      <3>2. Placed(files', place')
        BY <2>2 DEF LogInv, LogTypes, Place, Files, Placed
      <3>3. WellPlaced(files, OrderOf(place)) /\ WellPlaced(files', OrderOf(place'))
        BY <3>1, <3>2, PlacedOrder
      <3> QED BY <2>5, <3>3
    <2>7. m \in Nat /\ gs[m] = Empty /\ \A i \in 1..Len(o) : gs[o[i]] = files[o[i]]
      BY <2>2, <2>4, <2>6 DEF WellPlaced
    <2> HIDE DEF o, m, gs
    <2>8. LinesOf(gs, Append(o, m)) = LinesOf(files, o)
      BY <2>6, <2>7, LinesNew
    <2>9. AllLines' = AllLines
      <3>1. AllLines = LinesOf(files, OrderOf(place)) /\ AllLines' = LinesOf(files', OrderOf(place'))
        BY DEF AllLines, Order, OrderOf, LinesOf, ContentsOf, Content, Body
      <3> QED BY <2>5, <2>8, <3>1 DEF o, gs
    <2>10. Current'
      <3> SUFFICES ASSUME log.opened PROVE \E k : LastLines(gs, Append(o, m), log.file, k)
        BY <1>u, <2>5 DEF Current, gs
      <3>1. PICK k : LastLines(files, o, log.file, k)
        BY <1>t DEF Current, o
      <3> DEFINE p == Append(o, m)
                 n == Len(o)
      <3>2. n \in Nat /\ Len(p) = n + 1 /\ p[n + 1] = m /\ \A i \in 1..n : p[i] = o[i]
        BY <2>6, <2>7 DEF WellPlaced
      <3>3. k \in 1..n /\ o[k] = log.file /\ \A i \in 1..n : i > k => files[o[i]] = Empty
        BY <3>1 DEF LastLines
      <3> HIDE DEF p
      <3>4. \A i \in 1..n : gs[o[i]] = files[o[i]]
        BY <2>7
      <3> HIDE DEF n
      <3>5. k \in 1..(n + 1) /\ p[k] = log.file
        BY <3>2, <3>3
      <3>6. ASSUME NEW i \in 1..(n + 1), i > k PROVE gs[p[i]] = Empty
        <4>1. CASE i = n + 1
          BY <2>7, <3>2, <4>1
        <4>2. CASE i # n + 1
          <5>1. i \in 1..n
            BY <3>2, <4>2
          <5> QED BY <3>2, <3>3, <3>4, <3>6, <5>1
        <4> QED BY <4>1, <4>2
      <3>7. LastLines(gs, p, log.file, k)
        BY <3>2, <3>5, <3>6 DEF LastLines
      <3> QED BY <3>7 DEF p
    <2>11. AllKept'
      BY <1>t, <1>u, <2>9 DEF AllKept
    <2>12. DataTypes'
      BY <1>t, <1>u, <2>2 DEF DataTypes
    <2>13. Through'
      BY <1>u, <2>1, CreateThrough
    <2>14. Early' /\ Turning'
      BY <1>u, <1>1, <2>1, <2>2, <2>3 DEF Early, Turning
    <2> QED BY <2>10, <2>11, <2>12, <2>13, <2>14 DEF DataInv
  <1> QED BY <1>2, <1>3

(* ... and the pumps go on in it. *)
LEMMA SwapData ==
  ASSUME LogInv, DataInv, ReopenSwap
  PROVE  DataInv'
  <1>t. /\ DataTypes /\ Early /\ Turning /\ Through /\ Current /\ AllKept /\ log \in Log
        /\ place.moved \in Seq(Nat) /\ place.at \in Nat \cup {Nobody}
    BY DEF DataInv, LogInv, LogTypes, Place
  <1>u. UNCHANGED <<box, wrote, pipe, pump, files, place>>
    BY DEF ReopenSwap
  <1>1. /\ reopen = "swap" /\ reopen' = "idle" /\ place.at # Nobody
        /\ box.sup \notin {"idle", "spawn", "open"}
    BY <1>t DEF ReopenSwap, Turning, Early
  <1>2. log'.file = place.at /\ log'.opened = log.opened
    BY <1>t DEF ReopenSwap, Log
  <1> DEFINE o == OrderOf(place)
             n == Len(place.moved)
  <1>3. n \in Nat /\ Len(o) = n + 1 /\ o[n + 1] = place.at
    <2>1. o = Append(place.moved, place.at)
      BY <1>1 DEF OrderOf
    <2> QED BY <1>t, <1>1, <2>1
  <1> HIDE DEF o, n
  <1>4. LastLines(files, o, place.at, n + 1)
    <2>1. n + 1 \in 1..(n + 1) /\ \A i \in 1..(n + 1) : ~(i > n + 1)
      BY <1>3
    <2> QED BY <1>3, <2>1 DEF LastLines
  <1>5. Current'
    BY <1>u, <1>2, <1>4 DEF Current, o
  <1>6. AllLines' = AllLines
    BY <1>u DEF AllLines, Order, Content
  <1>7. AllKept'
    BY <1>t, <1>u, <1>2, <1>6 DEF AllKept
  <1>8. DataTypes' /\ Through' /\ Early' /\ Turning'
    BY <1>t, <1>u, <1>1 DEF DataTypes, Through, Early, Turning
  <1> QED BY <1>5, <1>7, <1>8 DEF DataInv

LEMMA DataKeeps == LogInv /\ Direct /\ DataInv /\ [Next]_vars => DataInv'
  <1> SUFFICES ASSUME LogInv, Direct, DataInv, [Next]_vars PROVE DataInv'
    OBVIOUS
  <1>i. LogInv'
    BY LogStepKeeps
  <1>1. CASE UNCHANGED logVars
    <2>1. DataTypes' /\ Through' /\ Current' /\ AllKept'
      BY <1>1, StillKeeps DEF logVars
    <2>2. Early' /\ Turning'
      BY <1>1 DEF logVars, DataInv, Early, Turning
    <2> QED BY <2>1, <2>2 DEF DataInv
  <1>2. CASE LogStep
    BY <1>2, <1>i, BoxData, SpawnFailsData, OpenData, ReadData, GoData, WriteData, TtyData, OutputData, FlushData,
       RenameData, ReopenCreateData, SwapData DEF LogStep
  <1>3. CASE CtrExit \/ StopKill
    BY <1>3, BoxData
  <1> QED BY <1>1, <1>2, <1>3 DEF Next, vars, ContainerEnds, ExecSyncCalled, CrunEnters

(* pump_stream, supervise_tty, cri_log_line and reopen_container_log: for any
   output on any number of streams, any read buffer, any number of rotations,
   refused and failed ones included, and any interleaving of the workload, the
   pumps, tokio's writes and the kubelet, the log files in the order of their
   rotation hold every byte of a stream that has left the pipe and its pump,
   once and in its order; no line joins two lines of the workload, and a line
   is full only where the workload ended it. *)
THEOREM NothingIsLost == Spec => []LogIsComplete
  <1>1. Init => LogInv /\ Direct /\ DataInv
    BY LogInitial, DirectInitial, LogInitialData DEF Init
  <1>2. LogInv /\ Direct /\ DataInv /\ [Next]_vars => (LogInv /\ Direct /\ DataInv)'
    BY LogStepKeeps, DirectKeeps, DataKeeps
  <1>3. DataInv => LogIsComplete
    BY KeptIsComplete DEF DataInv, AllKept
  <1> QED BY <1>1, <1>2, <1>3, PTL DEF Spec
=============================================================================
