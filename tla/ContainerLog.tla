---------------------------- MODULE ContainerLog ----------------------------
(***************************************************************************)
(* The log of a running container: the supervision task StartContainer     *)
(* leaves behind (supervise_container, supervise_tty), its output pumps,   *)
(* the log handle they share with ReopenContainerLog, and the kubelet that *)
(* renames the file and asks for a new one.                                *)
(*                                                                         *)
(* The workload writes bytes 1, 2, ... and line breaks to each stream.  A  *)
(* write to a tokio file returns when it is handed to a worker thread; it  *)
(* reaches the file later, also after the handle was replaced.             *)
(***************************************************************************)
EXTENDS Integers, Collections

CONSTANTS
  Streams,       \* the output streams, of which a terminal uses only stdout
  NL,            \* the line break
  MaxOutput,     \* bound on what the workload writes, by stream
  BufSize,       \* the pumps' read buffer (8192 in the code)
  MaxRotations,  \* bound on the number of rotated files
  Nobody         \* no file, no holder of a lock

ASSUME LogAssumption ==
  /\ "stdout" \in Streams /\ NL \notin Nat /\ Nobody \notin Nat \cup Streams
  /\ MaxOutput \in [Streams -> Nat] /\ BufSize \in Nat \ {0} /\ MaxRotations \in Nat

VARIABLES
  box,     \* the record's state and exit code, the supervision task, the workload and its stop
  wrote,   \* everything the workload wrote, by stream
  pipe,    \* what no pump has read of it
  pump,    \* the pumps
  files,   \* every log file ever created: lines in it, and handed over to it
  place,   \* the file at the log path, and those renamed away, oldest first
  log,     \* the shared handle: its file, its lock, whether it is registered
  reopen   \* the kubelet's rotation and the ReopenContainerLog it waits for

logVars == <<box, wrote, pipe, pump, files, place, log, reopen>>

Empty == [lines |-> <<>>, pending |-> <<>>]

(* CreateContainer has touched the log path, if it could. *)
LogInit ==
  /\ box \in [state : {"Created"}, code : {"none"}, sup : {"idle"}, proc : {"none"},
              stopping : {FALSE}, terminal : BOOLEAN]
  /\ wrote  = [s \in Streams |-> <<>>]
  /\ pipe   = [s \in Streams |-> <<>>]
  /\ pump   = [s \in Streams |-> [pc |-> "off", chunk |-> <<>>]]
  /\ \/ files = <<>> /\ place = [at |-> Nobody, moved |-> <<>>]
     \/ files = <<Empty>> /\ place = [at |-> 1, moved |-> <<>>]
  /\ log    = [file |-> Nobody, lock |-> Nobody, registered |-> FALSE, opened |-> FALSE]
  /\ reopen = "idle"

-----------------------------------------------------------------------------
(* Line breaks end a full line, "F", and the rest of a chunk is a partial   *)
(* one, "P"; an empty full line is left out.                                *)
Line(stream, tag, text) == [stream |-> stream, tag |-> tag, text |-> text]

LineByte(stream, acc, b) ==
  IF b # NL THEN [out |-> acc.out, text |-> Append(acc.text, b)]
  ELSE [out  |-> IF acc.text = <<>> THEN acc.out
                 ELSE Append(acc.out, Line(stream, "F", acc.text)),
        text |-> <<>>]

cri_log_line(stream, chunk) ==
  LET after[i \in 0 .. Len(chunk)] ==
        IF i = 0 THEN [out |-> <<>>, text |-> <<>>] ELSE LineByte(stream, after[i - 1], chunk[i])
      end == after[Len(chunk)]
  IN IF end.text = <<>> THEN end.out ELSE Append(end.out, Line(stream, "P", end.text))

(* File::create on the log path: a new file, or an old one truncated *)
FileAt == IF place.at = Nobody THEN Len(files) + 1 ELSE place.at
Create ==
  /\ files' = IF place.at = Nobody THEN Append(files, Empty)
              ELSE [files EXCEPT ![place.at] = Empty]
  /\ place' = [place EXCEPT !.at = FileAt]

Piped == IF box.terminal THEN {"stdout"} ELSE Streams

-----------------------------------------------------------------------------
(* Supervision *)

(* StartContainer stores Running and spawns the task. *)
StartContainer ==
  /\ box.state = "Created"
  /\ box' = [box EXCEPT !.state = "Running", !.sup = "spawn"]
  /\ UNCHANGED <<wrote, pipe, pump, files, place, log, reopen>>

SuperviseSpawn ==
  /\ box.sup = "spawn"
  /\ box' = [box EXCEPT !.sup = "open", !.proc = "run"]
  /\ UNCHANGED <<wrote, pipe, pump, files, place, log, reopen>>

(* The error is written to the log file; its text is not kept here. *)
SuperviseSpawnFails ==
  /\ box.sup = "spawn"
  /\ box' = [box EXCEPT !.sup = "record"]
  /\ Create
  /\ UNCHANGED <<wrote, pipe, pump, log, reopen>>

(* The log file is created, or not, and pumps are started. *)
OpenLog(ok, streams) ==
  /\ box.sup = "open"
  /\ box' = [box EXCEPT !.sup = "drain"]
  /\ IF ok THEN Create ELSE UNCHANGED <<files, place>>
  /\ pump' = [s \in Streams |-> IF s \in streams THEN [pump[s] EXCEPT !.pc = "read"] ELSE pump[s]]
  /\ UNCHANGED <<wrote, pipe, reopen>>

(* register_log publishes the handle for ReopenContainerLog ... *)
SuperviseOpen(ok) ==
  /\ ~ box.terminal
  /\ OpenLog(ok, Streams)
  /\ log' = [log EXCEPT !.file = IF ok THEN FileAt ELSE Nobody, !.opened = ok, !.registered = TRUE]

(* ... and supervise_tty keeps its file to itself. *)
TtyOpen(ok) ==
  /\ box.terminal
  /\ OpenLog(ok, {"stdout"})
  /\ log' = [log EXCEPT !.file = IF ok THEN FileAt ELSE Nobody, !.opened = ok]

(* Mutant: the exit of the process is awaited, and not the pumps. *)
SuperviseReapFirst ==
  /\ box.sup = "drain" /\ box.proc = "dead"
  /\ box' = [box EXCEPT !.sup = "record"]
  /\ UNCHANGED <<wrote, pipe, pump, files, place, log, reopen>>

(* The pumps are awaited before the exit of the process. *)
SuperviseReap ==
  /\ box.sup = "drain" /\ box.proc = "dead"
  /\ \A s \in Piped : pump[s].pc = "done"
  /\ box' = [box EXCEPT !.sup = "record"]
  /\ UNCHANGED <<wrote, pipe, pump, files, place, log, reopen>>

(* The exit code of crun is stored, over that of a StopContainer if there is one. *)
SuperviseRecord ==
  /\ box.sup = "record"
  /\ box' = [box EXCEPT !.state = "Exited", !.code = "real", !.sup = "close"]
  /\ UNCHANGED <<wrote, pipe, pump, files, place, log, reopen>>

(* close_log *)
SuperviseClose ==
  /\ box.sup = "close"
  /\ box' = [box EXCEPT !.sup = "gone"]
  /\ log' = [log EXCEPT !.registered = FALSE]
  /\ UNCHANGED <<wrote, pipe, pump, files, place, reopen>>

-----------------------------------------------------------------------------
(* StopContainer, from its SIGKILL on: up to it, it only waits for a workload *)
(* that ends by itself.  What it kills may have left output in the pipes.     *)
StopKill ==
  /\ box.state # "Exited" /\ ~ box.stopping
  /\ box' = [box EXCEPT !.stopping = TRUE, !.proc = IF @ = "run" THEN "dead" ELSE @]
  /\ UNCHANGED <<wrote, pipe, pump, files, place, log, reopen>>

(* It waits for neither the task nor the pumps before it stores an exit code  *)
(* of its own.  Container takes its get and its put apart.                    *)
StopRecord ==
  /\ box.stopping
  /\ box' = IF box.state = "Exited" THEN [box EXCEPT !.stopping = FALSE]
            ELSE [box EXCEPT !.stopping = FALSE, !.state = "Exited", !.code = "forced"]
  /\ UNCHANGED <<wrote, pipe, pump, files, place, log, reopen>>

-----------------------------------------------------------------------------
(* pump_stream *)

(* what a read returns: all there is, up to the size of the buffer *)
Chunk(s) == SubSeq(pipe[s], 1, IF Len(pipe[s]) < BufSize THEN Len(pipe[s]) ELSE BufSize)

Take(s) ==
  /\ pump[s].pc = "read" /\ pipe[s] # <<>>
  /\ pipe' = [pipe EXCEPT ![s] = SubSeq(@, Len(Chunk(s)) + 1, Len(@))]

PumpRead(s) ==
  /\ ~ box.terminal /\ Take(s)
  /\ pump' = [pump EXCEPT ![s] = [pc |-> "lock", chunk |-> Chunk(s)]]
  /\ UNCHANGED <<box, wrote, files, place, log, reopen>>

PumpEof(s) ==
  /\ pump[s].pc = "read" /\ pipe[s] = <<>> /\ box.proc = "dead"
  /\ pump' = [pump EXCEPT ![s].pc = "done"]
  /\ UNCHANGED <<box, wrote, pipe, files, place, log, reopen>>

PumpLock(s) ==
  /\ pump[s].pc = "lock" /\ log.lock = Nobody
  /\ pump' = [pump EXCEPT ![s].pc = "write"]
  /\ log' = [log EXCEPT !.lock = s]
  /\ UNCHANGED <<box, wrote, pipe, files, place, reopen>>

(* Mutant: a file that is busy with the last write is left alone. *)
PumpWriteBusy(s) ==
  /\ pump[s].pc = "write"
  /\ files' = IF log.file = Nobody \/ files[log.file].pending # <<>> THEN files
              ELSE [files EXCEPT ![log.file].pending = cri_log_line(s, pump[s].chunk)]
  /\ pump' = [pump EXCEPT ![s] = [pc |-> "read", chunk |-> <<>>]]
  /\ log' = [log EXCEPT !.lock = Nobody]
  /\ UNCHANGED <<box, wrote, pipe, place, reopen>>

(* A tokio file takes the next write when the last one has reached it. *)
PumpWrite(s) ==
  /\ pump[s].pc = "write"
  /\ IF log.file = Nobody THEN UNCHANGED files
     ELSE /\ files[log.file].pending = <<>>
          /\ files' = [files EXCEPT ![log.file].pending = cri_log_line(s, pump[s].chunk)]
  /\ pump' = [pump EXCEPT ![s] = [pc |-> "read", chunk |-> <<>>]]
  /\ log' = [log EXCEPT !.lock = Nobody]
  /\ UNCHANGED <<box, wrote, pipe, place, reopen>>

(* tokio's worker thread *)
Flushed(file) == [lines |-> file.lines \o file.pending, pending |-> <<>>]
FileWrite(f) ==
  /\ files[f].pending # <<>>
  /\ files' = [files EXCEPT ![f] = Flushed(files[f])]
  /\ UNCHANGED <<box, wrote, pipe, pump, place, log, reopen>>

(* supervise_tty: one thread reads the terminal and writes through. *)
TtyPump ==
  /\ box.terminal /\ Take("stdout")
  /\ files' = IF log.file = Nobody THEN files
              ELSE [files EXCEPT ![log.file].lines = @ \o cri_log_line("stdout", Chunk("stdout"))]
  /\ UNCHANGED <<box, wrote, pump, place, log, reopen>>

-----------------------------------------------------------------------------
(* The kubelet renames a log that has grown and asks for a new one ... *)
Rotate ==
  /\ reopen = "idle" /\ Len(place.moved) < MaxRotations
  /\ place.at # Nobody /\ files[place.at].lines # <<>>
  /\ place' = [at |-> Nobody, moved |-> Append(place.moved, place.at)]
  /\ reopen' = "check"
  /\ UNCHANGED <<box, wrote, pipe, pump, files, log>>

(* ... and renames it back when it is refused. *)
RotateBack ==
  /\ reopen = "refused"
  /\ place' = [at |-> Last(place.moved), moved |-> Front(place.moved)]
  /\ reopen' = "idle"
  /\ UNCHANGED <<box, wrote, pipe, pump, files, log>>

(* ReopenContainerLog *)
ReopenGet ==
  /\ reopen = "check"
  /\ reopen' = IF box.state = "Running" THEN "create" ELSE "refused"
  /\ UNCHANGED <<box, wrote, pipe, pump, files, place, log>>

ReopenCreate(ok) ==
  /\ reopen = "create"
  /\ IF ok THEN Create ELSE UNCHANGED <<files, place>>
  /\ reopen' = IF ok THEN "handle" ELSE "refused"
  /\ UNCHANGED <<box, wrote, pipe, pump, log>>

(* log_handle: without one there is nothing to swap. *)
ReopenHandle ==
  /\ reopen = "handle"
  /\ reopen' = IF log.registered THEN "swap" ELSE "idle"
  /\ UNCHANGED <<box, wrote, pipe, pump, files, place, log>>

(* Mutant: a busy handle is left alone. *)
ReopenSwapTry ==
  /\ reopen = "swap"
  /\ log' = [log EXCEPT !.file = IF log.lock = Nobody THEN place.at ELSE @]
  /\ reopen' = "idle"
  /\ UNCHANGED <<box, wrote, pipe, pump, files, place>>

ReopenSwap ==
  /\ reopen = "swap" /\ log.lock = Nobody
  /\ log' = [log EXCEPT !.file = place.at]
  /\ reopen' = "idle"
  /\ UNCHANGED <<box, wrote, pipe, pump, files, place>>

-----------------------------------------------------------------------------
(* The workload *)
CtrWrite(s) ==
  /\ box.proc = "run" /\ s \in Piped /\ Len(wrote[s]) < MaxOutput[s]
  /\ \E b \in {Len(wrote[s]) + 1, NL} :
       /\ wrote' = [wrote EXCEPT ![s] = Append(@, b)]
       /\ pipe' = [pipe EXCEPT ![s] = Append(@, b)]
  /\ UNCHANGED <<box, pump, files, place, log, reopen>>

CtrExit ==
  /\ box.proc = "run"
  /\ box' = [box EXCEPT !.proc = "dead"]
  /\ UNCHANGED <<wrote, pipe, pump, files, place, log, reopen>>

LogStep ==
  \/ StartContainer \/ SuperviseSpawn \/ SuperviseSpawnFails
  \/ (\E ok \in BOOLEAN : SuperviseOpen(ok) \/ TtyOpen(ok) \/ ReopenCreate(ok))
  \/ SuperviseReap \/ SuperviseRecord \/ SuperviseClose \/ StopRecord
  \/ (\E s \in Streams : PumpRead(s) \/ PumpEof(s) \/ PumpLock(s) \/ PumpWrite(s) \/ CtrWrite(s))
  \/ TtyPump \/ (\E f \in DOMAIN files : FileWrite(f))
  \/ Rotate \/ RotateBack \/ ReopenGet \/ ReopenHandle \/ ReopenSwap

-----------------------------------------------------------------------------
Content(f) == files[f].lines \o files[f].pending

(* every line, in the rotated files and then in the current one *)
Order == IF place.at = Nobody THEN place.moved ELSE Append(place.moved, place.at)
AllLines == FlattenSeq([i \in DOMAIN Order |-> Content(Order[i])])

Logged(s)   == Retain(AllLines, LAMBDA l : l.stream = s)
Bytes(seq)  == Retain(seq, LAMBDA b : b # NL)
Text(lines) == FlattenSeq([i \in DOMAIN lines |-> lines[i].text])

(* the workload wrote b, c one after the other *)
Adjacent(s, b, c) ==
  \E i \in 1 .. Len(wrote[s]) - 1 : wrote[s][i] = b /\ wrote[s][i + 1] = c

(* However the kubelet's rotations and the pumps interleave, no byte of a   *)
(* stream is lost, doubled or out of order between the workload, the pipe,  *)
(* the pump and the files; a line holds nothing that was not written on one *)
(* line, and is full only where a line break was (pump_stream,              *)
(* cri_log_line, reopen_container_log).                                     *)
LogIsComplete ==
  log.opened => \A s \in Streams :
    LET lines == Logged(s)
    IN /\ Text(lines) \o Bytes(pump[s].chunk \o pipe[s]) = Bytes(wrote[s])
       /\ \A i \in DOMAIN lines :
            LET t == lines[i].text
            IN /\ \A j \in 1 .. Len(t) - 1 : Adjacent(s, t[j], t[j + 1])
               /\ lines[i].tag = "F" => Adjacent(s, Last(t), NL)

(* When the exit code of a container is recorded, everything it wrote has   *)
(* been read and handed to the log, if there is one (supervise_container    *)
(* and supervise_tty await the pumps before they return the code).  It does *)
(* not hold of the code -1 that StopContainer stores beside the task: it is *)
(* there while the pumps still read what the killed workload left.          *)
ExitAfterOutput ==
  box.code = "real" => \A s \in Streams : pump[s].chunk = <<>> /\ pipe[s] = <<>>

(* Once a rotation is over, no pump of a container without a terminal hands *)
(* another line to a file that was renamed away: all that still happens to  *)
(* it is that the last write reaches it (reopen_container_log).             *)
RotatedLogIsFinal ==
  [][reopen = "idle" /\ ~ box.terminal =>
       \A i \in DOMAIN place.moved :
         LET f == place.moved[i]
         IN place'.moved[i] = f /\ files'[f] \in {files[f], Flushed(files[f])}]_logVars
=============================================================================
