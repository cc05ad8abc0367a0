----------------------------- MODULE ExecProofs -----------------------------
(***************************************************************************)
(* Theorems about Exec, for any connections, tokens and requests, any size *)
(* of the pipes and any amount of output: the types of its state, one      *)
(* session per token, and that the exit status follows all of the output.  *)
(***************************************************************************)
EXTENDS Exec, StreamsProofs

(* A pipe holds no more than was written to it: chunks are numbered from 1. *)
Written == \A c \in Conns, s \in Outs : px[c].buf[s] <= px[c].wrote[s]

TypeInv == TypeOK /\ Dialed /\ Written

LEMMA TypeInit == Init => TypeInv
  <1> SUFFICES ASSUME Init PROVE TypeInv
    OBVIOUS
  <1>1. BaseInv
    BY BaseInitial DEF Init
  <1>2. [s \in Outs |-> 0] \in [Outs -> 0..MaxOut] /\ [s \in Outs |-> 0] \in [Outs -> 0..PipeSize]
    BY ExecAssumption
  <1>3. px \in [Conns -> Process]
    BY <1>2 DEF Init, Process
  <1>4. /\ pump \in [Conns -> [Outs -> {"none", "run", "done"}]]
        /\ feed \in [Conns -> {"none", "run", "done"}]
    BY DEF Init
  <1>5. Written
    BY DEF Init, Written
  <1> QED BY <1>1, <1>3, <1>4, <1>5 DEF BaseInv, TypeInv, TypeOK

LEMMA ProcessTypes ==
  ASSUME NEW x \in Process, NEW s \in Outs
  PROVE  /\ \A st \in {"none", "run", "ok", "failed"} : [x EXCEPT !.st = st] \in Process
         /\ \A st \in {"ok", "failed"}, h \in SUBSET Outs :
              [x EXCEPT !.st = st, !.held = h] \in Process
         /\ [x EXCEPT !.held = {}] \in Process
         /\ \A r \in [Outs -> BOOLEAN] : [x EXCEPT !.st = "run", !.reader = r] \in Process
         /\ \A b \in BOOLEAN : [x EXCEPT !.eof = b] \in Process
         /\ x.buf[s] > 0 => [x EXCEPT !.buf[s] = @ - 1] \in Process
         /\ x.buf[s] > 0 => \A b \in BOOLEAN :
              [x EXCEPT !.buf[s] = @ - 1, !.reader[s] = b] \in Process
         /\ x.wrote[s] < MaxOut /\ x.buf[s] < PipeSize =>
              [x EXCEPT !.wrote[s] = @ + 1, !.buf[s] = @ + 1] \in Process
  <1>1. /\ x.wrote \in [Outs -> 0..MaxOut] /\ x.buf \in [Outs -> 0..PipeSize]
        /\ x.reader \in [Outs -> BOOLEAN] /\ PipeSize \in Nat /\ MaxOut \in Nat
    BY ExecAssumption DEF Process
  <1>2. ASSUME NEW st \in {"none", "run", "ok", "failed"} PROVE [x EXCEPT !.st = st] \in Process
    BY DEF Process
  <1>h. ASSUME NEW st \in {"ok", "failed"}, NEW h \in SUBSET Outs
        PROVE  [x EXCEPT !.st = st, !.held = h] \in Process
    BY DEF Process
  <1>k. [x EXCEPT !.held = {}] \in Process
    BY DEF Process
  <1>3. ASSUME NEW r \in [Outs -> BOOLEAN] PROVE [x EXCEPT !.st = "run", !.reader = r] \in Process
    BY DEF Process
  <1>4. ASSUME NEW b \in BOOLEAN PROVE [x EXCEPT !.eof = b] \in Process
    BY DEF Process
  <1>5. ASSUME x.buf[s] > 0 PROVE [x.buf EXCEPT ![s] = @ - 1] \in [Outs -> 0..PipeSize]
    BY <1>1, <1>5
  <1>6. ASSUME x.buf[s] > 0 PROVE [x EXCEPT !.buf[s] = @ - 1] \in Process
    BY <1>5, <1>6 DEF Process
  <1>7. ASSUME x.buf[s] > 0, NEW b \in BOOLEAN
        PROVE  [x EXCEPT !.buf[s] = @ - 1, !.reader[s] = b] \in Process
    <2>1. [x.reader EXCEPT ![s] = b] \in [Outs -> BOOLEAN]
      BY <1>1
    <2> QED BY <1>5, <1>7, <2>1 DEF Process
  <1>8. ASSUME x.wrote[s] < MaxOut, x.buf[s] < PipeSize
        PROVE  [x EXCEPT !.wrote[s] = @ + 1, !.buf[s] = @ + 1] \in Process
    <2>1. [x.wrote EXCEPT ![s] = @ + 1] \in [Outs -> 0..MaxOut]
      BY <1>1, <1>8
    <2>2. [x.buf EXCEPT ![s] = @ + 1] \in [Outs -> 0..PipeSize]
      BY <1>1, <1>8
    <2> QED BY <2>1, <2>2 DEF Process
  <1> QED BY <1>2, <1>h, <1>k, <1>3, <1>4, <1>6, <1>7, <1>8

(* Only the process of connection c is touched. *)
OthersKeep(c) ==
  \A d \in Conns : d # c =>
    /\ px'[d] = px[d] /\ pump'[d] = pump[d] /\ sent'[d] = sent[d]
    /\ hd'[d] = hd[d] /\ status'[d] = status[d] /\ conn'[d] = conn[d]

PxTypes == px' \in [Conns -> Process]
PumpTypes == pump' \in [Conns -> [Outs -> {"none", "run", "done"}]]
FeedTypes == feed' \in [Conns -> {"none", "run", "done"}]

(* The output of connection c's process stays as it is. *)
SameOutput(c) == \A s \in Outs : px'[c].wrote[s] = px[c].wrote[s] /\ px'[c].buf[s] = px[c].buf[s]

LEMMA AttendedMoves ==
  ASSUME TypeInv, NEW c \in Conns, Attended(c), UNCHANGED <<reg, minted, conn, sent, status>>
  PROVE  /\ PxTypes /\ PumpTypes /\ FeedTypes /\ OthersKeep(c)
         /\ px'[c].st = "run" /\ px'[c].held = px[c].held /\ SameOutput(c)
         /\ \A s \in Outs : pump'[c][s] = IF s \in Pumped(c) THEN "run" ELSE "none"
         /\ hd' \in [Conns -> Handler] /\ hd'[c].pc = "run"
         /\ hd'[c].req = hd[c].req /\ hd'[c].got = hd[c].got
  <1>t. /\ px \in [Conns -> Process] /\ px[c] \in Process /\ BaseTypeOK /\ "run" \in PCs
        /\ pump \in [Conns -> [Outs -> {"none", "run", "done"}]]
        /\ feed \in [Conns -> {"none", "run", "done"}]
    BY DEF TypeInv, TypeOK, PCs
  <1> DEFINE r == [s \in Outs |-> s = "stdout" \/ s \in Pumped(c)]
             x == [px[c] EXCEPT !.st = "run", !.reader = r]
             p == [s \in Outs |-> IF s \in Pumped(c) THEN "run" ELSE "none"]
  <1>1. r \in [Outs -> BOOLEAN] /\ "stdout" \in Outs
    BY DEF Outs
  <1>2. px' = [px EXCEPT ![c] = x]
    BY <1>t DEF Attended
  <1>3. x \in Process
    BY <1>t, <1>1, ProcessTypes
  <1>4. x.st = "run" /\ x.wrote = px[c].wrote /\ x.buf = px[c].buf /\ x.held = px[c].held
    BY <1>t DEF Process
  <1>5. p \in [Outs -> {"none", "run", "done"}] /\ pump' = [pump EXCEPT ![c] = p]
    BY DEF Attended
  <1>6. \A s \in Outs : p[s] = IF s \in Pumped(c) THEN "run" ELSE "none"
    OBVIOUS
  <1>7. FeedTypes
    BY <1>t DEF FeedTypes, Attended
  <1>8. Goto(c, "run")
    BY DEF Attended
  <1> HIDE DEF x, p
  <1>9. PxTypes /\ PumpTypes /\ px'[c] = x /\ pump'[c] = p
        /\ \A d \in Conns : d # c => px'[d] = px[d] /\ pump'[d] = pump[d]
    BY <1>t, <1>2, <1>3, <1>5 DEF PxTypes, PumpTypes
  <1> QED BY <1>t, <1>4, <1>6, <1>7, <1>8, <1>9, GotoHandler DEF OthersKeep, SameOutput

(* A process ends, or what it left behind does: its output stays as it is. *)
LEMMA StateMoves ==
  ASSUME TypeInv, NEW c \in Conns, NEW x \in Process, px' = [px EXCEPT ![c] = x],
         x.wrote = px[c].wrote, x.buf = px[c].buf
  PROVE  /\ PxTypes /\ px'[c] = x /\ SameOutput(c)
         /\ \A d \in Conns : d # c => px'[d] = px[d]
  <1>t. px \in [Conns -> Process]
    BY DEF TypeInv, TypeOK
  <1> QED BY <1>t DEF PxTypes, SameOutput

LEMMA FeedMoves ==
  ASSUME TypeInv, NEW c \in Conns, FeedStep(c)
  PROVE  /\ PxTypes /\ FeedTypes /\ ConnMoves(c) /\ OthersKeep(c)
         /\ px'[c].st = px[c].st /\ px'[c].held = px[c].held /\ SameOutput(c)
         /\ UNCHANGED <<reg, minted, hd, sent, status, pump>>
  <1>t. /\ px \in [Conns -> Process] /\ px[c] \in Process /\ "stdout" \in Outs /\ BaseTypeOK
        /\ feed \in [Conns -> {"none", "run", "done"}] /\ conn \in [Conns -> Conn]
    BY DEF TypeInv, TypeOK, Outs, BaseTypeOK
  <1>1. ASSUME FeedChunk(c)
        PROVE  FeedTypes /\ ConnMoves(c) /\ UNCHANGED <<reg, minted, hd, sent, status, px, pump>>
    <2>1. FeedTypes
      BY <1>t, <1>1 DEF FeedTypes, FeedChunk
    <2> QED BY <1>t, <1>1, <2>1, ChunkMoves DEF FeedChunk
  <1>2. ASSUME FeedEof(c)
        PROVE  /\ PxTypes /\ FeedTypes /\ px'[c].st = px[c].st /\ SameOutput(c)
               /\ px'[c].held = px[c].held
               /\ \A d \in Conns : d # c => px'[d] = px[d]
               /\ UNCHANGED <<reg, minted, conn, hd, sent, status, pump>>
    <2> DEFINE b == ~Pty(c)
               x == [px[c] EXCEPT !.eof = b]
    <2>1. px' = [px EXCEPT ![c] = x]
      BY <1>t, <1>2 DEF FeedEof
    <2>2. b \in BOOLEAN
      OBVIOUS
    <2> HIDE DEF b
    <2>3. x \in Process
      BY <1>t, <2>2, ProcessTypes
    <2>4. /\ x.st = px[c].st /\ x.wrote = px[c].wrote /\ x.buf = px[c].buf
          /\ x.held = px[c].held
      BY <1>t DEF Process
    <2>5. FeedTypes
      BY <1>t, <1>2 DEF FeedTypes, FeedEof
    <2> HIDE DEF x
    <2>6. px' \in [Conns -> Process] /\ px'[c] = x /\ \A d \in Conns : d # c => px'[d] = px[d]
      BY <1>t, <2>1, <2>3
    <2> QED BY <1>2, <2>4, <2>5, <2>6 DEF FeedEof, base, PxTypes, SameOutput
  <1>3. ASSUME UNCHANGED conn PROVE ConnMoves(c)
    BY <1>t, <1>3 DEF ConnMoves
  <1> QED BY <1>t, <1>1, <1>2, <1>3 DEF FeedStep, PxTypes, SameOutput, OthersKeep, ConnMoves
(* A pump takes a chunk out of the pipe. *)
LEMMA ChunkOut ==
  ASSUME TypeInv, NEW c \in Conns, NEW s \in Outs, PumpChunk(c, s) \/ PumpBroken(c, s)
  PROVE  /\ PxTypes /\ px'[c].st = px[c].st /\ px'[c].wrote = px[c].wrote
         /\ px'[c].held = px[c].held
         /\ px[c].buf[s] > 0 /\ px'[c].buf[s] = px[c].buf[s] - 1
         /\ \A r \in Outs : r # s => px'[c].buf[r] = px[c].buf[r]
         /\ \A d \in Conns : d # c => px'[d] = px[d]
  <1>t. px \in [Conns -> Process] /\ px[c] \in Process /\ px[c].buf[s] > 0
    BY DEF TypeInv, TypeOK, PumpChunk, PumpBroken
  <1>b. px[c].buf \in [Outs -> 0..PipeSize]
    BY <1>t DEF Process
  <1>1. \E x \in Process : /\ px' = [px EXCEPT ![c] = x] /\ x.st = px[c].st
                           /\ x.held = px[c].held
                           /\ x.wrote = px[c].wrote /\ x.buf = [px[c].buf EXCEPT ![s] = @ - 1]
    <2>1. CASE PumpChunk(c, s)
      <3>1. px' = [px EXCEPT ![c] = [px[c] EXCEPT !.buf[s] = @ - 1]]
        BY <1>t, <2>1 DEF PumpChunk
      <3>2. [px[c] EXCEPT !.buf[s] = @ - 1] \in Process
        BY <1>t, ProcessTypes
      <3>3. /\ [px[c] EXCEPT !.buf[s] = @ - 1].st = px[c].st
            /\ [px[c] EXCEPT !.buf[s] = @ - 1].wrote = px[c].wrote
            /\ [px[c] EXCEPT !.buf[s] = @ - 1].held = px[c].held
            /\ [px[c] EXCEPT !.buf[s] = @ - 1].buf = [px[c].buf EXCEPT ![s] = @ - 1]
        BY <1>t DEF Process
      <3> QED BY <3>1, <3>2, <3>3
    <2>2. CASE PumpBroken(c, s)
      <3> DEFINE b == Pty(c)
      <3>1. b \in BOOLEAN
        BY DEF Pty, Tty
      <3>2. px' = [px EXCEPT ![c] = [px[c] EXCEPT !.buf[s] = @ - 1, !.reader[s] = b]]
        BY <1>t, <2>2 DEF PumpBroken
      <3> HIDE DEF b
      <3>3. [px[c] EXCEPT !.buf[s] = @ - 1, !.reader[s] = b] \in Process
        BY <1>t, <3>1, ProcessTypes
      <3>4. /\ [px[c] EXCEPT !.buf[s] = @ - 1, !.reader[s] = b].st = px[c].st
            /\ [px[c] EXCEPT !.buf[s] = @ - 1, !.reader[s] = b].wrote = px[c].wrote
            /\ [px[c] EXCEPT !.buf[s] = @ - 1, !.reader[s] = b].held = px[c].held
            /\ [px[c] EXCEPT !.buf[s] = @ - 1, !.reader[s] = b].buf = [px[c].buf EXCEPT ![s] = @ - 1]
        BY <1>t DEF Process
      <3> QED BY <3>2, <3>3, <3>4
    <2> QED BY <2>1, <2>2
  <1>2. PICK x \in Process : /\ px' = [px EXCEPT ![c] = x] /\ x.st = px[c].st
                             /\ x.held = px[c].held
                             /\ x.wrote = px[c].wrote /\ x.buf = [px[c].buf EXCEPT ![s] = @ - 1]
    BY <1>1
  <1>3. PxTypes /\ px'[c] = x /\ \A d \in Conns : d # c => px'[d] = px[d]
    BY <1>t, <1>2 DEF PxTypes
  <1>4. x.buf[s] = px[c].buf[s] - 1 /\ \A r \in Outs : r # s => x.buf[r] = px[c].buf[r]
    BY <1>b, <1>2
  <1> QED BY <1>t, <1>2, <1>3, <1>4

LEMMA WriteMoves ==
  ASSUME TypeInv, NEW c \in Conns, NEW s \in Outs, ProcWrite(c, s)
  PROVE  /\ PxTypes /\ ~Closed(c, s) /\ (s = "stderr" => ~Tty(c))
         /\ px[c].st = "run" \/ s \in px[c].held
         /\ px'[c].st = px[c].st /\ px'[c].held = px[c].held
         /\ px'[c].wrote[s] = px[c].wrote[s] + 1 /\ px'[c].buf[s] = px[c].buf[s] + 1
         /\ \A r \in Outs : r # s => px'[c].wrote[r] = px[c].wrote[r] /\ px'[c].buf[r] = px[c].buf[r]
         /\ \A d \in Conns : d # c => px'[d] = px[d]
         /\ UNCHANGED <<base, pump, feed>>
  <1>t. /\ px \in [Conns -> Process] /\ px[c] \in Process
        /\ px[c].st = "run" \/ s \in px[c].held
        /\ px[c].wrote[s] < MaxOut /\ px[c].buf[s] < PipeSize /\ (s = "stderr" => ~Tty(c))
    BY DEF TypeInv, TypeOK, ProcWrite, Writes, Outputs
  <1>c. ~Closed(c, s)
    BY <1>t DEF Closed, Exited
  <1>b. px[c].buf \in [Outs -> 0..PipeSize] /\ px[c].wrote \in [Outs -> 0..MaxOut]
    BY <1>t DEF Process
  <1> DEFINE x == [px[c] EXCEPT !.wrote[s] = @ + 1, !.buf[s] = @ + 1]
  <1>1. px' = [px EXCEPT ![c] = x]
    BY <1>t DEF ProcWrite
  <1>2. x \in Process
    BY <1>t, ProcessTypes
  <1>3. /\ x.st = px[c].st /\ x.held = px[c].held
        /\ x.wrote = [px[c].wrote EXCEPT ![s] = @ + 1]
        /\ x.buf = [px[c].buf EXCEPT ![s] = @ + 1]
    BY <1>t DEF Process
  <1> HIDE DEF x
  <1>4. PxTypes /\ px'[c] = x /\ \A d \in Conns : d # c => px'[d] = px[d]
    BY <1>t, <1>1, <1>2 DEF PxTypes
  <1>5. /\ x.wrote[s] = px[c].wrote[s] + 1 /\ x.buf[s] = px[c].buf[s] + 1
        /\ \A r \in Outs : r # s => x.wrote[r] = px[c].wrote[r] /\ x.buf[r] = px[c].buf[r]
    BY <1>b, <1>3
  <1> QED BY <1>t, <1>c, <1>3, <1>4, <1>5 DEF ProcWrite

(* A pump that sends numbers the chunks as the process wrote them. *)
LEMMA SendMoves ==
  ASSUME TypeInv, NEW c \in Conns, NEW s \in Outs, PumpChunk(c, s)
  PROVE  /\ sent' \in [Conns -> [Outs -> Seq(Nat)]]
         /\ sent'[c][s] = Append(sent[c][s], px[c].wrote[s] - px[c].buf[s] + 1)
         /\ \A r \in Outs : r # s => sent'[c][r] = sent[c][r]
         /\ \A d \in Conns : d # c => sent'[d] = sent[d]
  <1>t. /\ sent \in [Conns -> [Outs -> Seq(Nat)]] /\ px[c] \in Process
        /\ sent' = [sent EXCEPT ![c][s] = Append(@, px[c].wrote[s] - px[c].buf[s] + 1)]
    BY DEF TypeInv, TypeOK, BaseTypeOK, PumpChunk
  <1>b. px[c].wrote[s] \in Nat /\ px[c].buf[s] \in Nat /\ px[c].buf[s] <= px[c].wrote[s]
    BY <1>t DEF Process, TypeInv, Written
  <1> DEFINE n == px[c].wrote[s] - px[c].buf[s] + 1
  <1>1. n \in Nat
    BY <1>b
  <1> HIDE DEF n
  <1>2. Append(sent[c][s], n) \in Seq(Nat)
    BY <1>t, <1>1
  <1>3. sent' = [sent EXCEPT ![c] = [sent[c] EXCEPT ![s] = Append(sent[c][s], n)]]
    BY <1>t DEF n
  <1>4. [sent[c] EXCEPT ![s] = Append(sent[c][s], n)] \in [Outs -> Seq(Nat)]
    BY <1>t, <1>2
  <1>5. sent' \in [Conns -> [Outs -> Seq(Nat)]]
    BY <1>t, <1>3, <1>4
  <1>6. sent'[c][s] = Append(sent[c][s], n) /\ \A r \in Outs : r # s => sent'[c][r] = sent[c][r]
    BY <1>t, <1>3
  <1>7. \A d \in Conns : d # c => sent'[d] = sent[d]
    BY <1>t, <1>3
  <1> QED BY <1>5, <1>6, <1>7 DEF n
-----------------------------------------------------------------------------
(* Nothing of the session's output exists yet. *)
Fresh(c) ==
  \A s \in Outs : /\ px[c].wrote[s] = 0 /\ px[c].buf[s] = 0 /\ s \notin px[c].held
                  /\ sent[c][s] = <<>> /\ pump[c][s] = "none"

(* Up to its start a session has no process, or a crun without a console. *)
Before(c) ==
  /\ hd[c].pc \in {"none", "take", "collect", "go"} => px[c].st = "none" /\ Fresh(c)
  /\ hd[c].pc = "accept" => px[c].st \in {"none", "failed"} /\ Fresh(c)

(* From then on every stream the client has is pumped, but for a terminal's
   stderr, which carries nothing. *)
Attends(c) ==
  /\ hd[c].pc \in {"run", "join"} =>
       \A s \in Outs : s \in hd[c].got => pump[c][s] # "none" \/ (Tty(c) /\ s = "stderr")
  /\ hd[c].pc = "join" => Exited(c)

(* What a pump has sent a client that listens is what left the pipe; it stops
   with everybody who wrote to it gone and the pipe empty. *)
Flow(c) ==
  \A s \in Outs :
    /\ Tty(c) /\ s = "stderr" => px[c].wrote[s] = 0
    /\ pump[c][s] = "none" => sent[c][s] = <<>>
    /\ Up(c) /\ pump[c][s] # "none" => sent[c][s] = UpTo(px[c].wrote[s] - px[c].buf[s])
    /\ Up(c) /\ pump[c][s] = "done" => px[c].buf[s] = 0 /\ Closed(c, s)

(* A client that was told how the command ended has all of its output, and
   nothing of the session goes on. *)
Told(c) ==
  status[c] \in {"success", "exit", "trailer"} =>
    /\ hd[c].pc = "end" /\ Exited(c)
    /\ \A s \in Outs : /\ pump[c][s] # "run"
                       /\ s \in hd[c].got => sent[c][s] = UpTo(px[c].wrote[s])
                       /\ s \in hd[c].got => Closed(c, s) \/ (Tty(c) /\ s = "stderr")

Delivers(c) == Before(c) /\ Attends(c) /\ Flow(c) /\ Told(c)

(* What a step of c's session leaves true. *)
Good(c) == TypeInv' /\ Steady /\ OthersKeep(c) /\ Delivers(c)'

LEMMA SpawnGood ==
  ASSUME TypeInv, NEW c \in Conns, Delivers(c), ExecSpawn(c) \/ ExecConsole(c)
  PROVE  Good(c)
  <1>1. /\ Attended(c) /\ UNCHANGED <<reg, minted, conn, sent, status>>
        /\ hd[c].pc \in {"go", "accept"} /\ Fresh(c)
    BY DEF ExecSpawn, ExecConsole, Delivers, Before
  <1>2. /\ PxTypes /\ PumpTypes /\ FeedTypes /\ OthersKeep(c)
        /\ px'[c].st = "run" /\ px'[c].held = px[c].held /\ SameOutput(c)
        /\ \A s \in Outs : pump'[c][s] = IF s \in Pumped(c) THEN "run" ELSE "none"
        /\ hd' \in [Conns -> Handler] /\ hd'[c].pc = "run"
        /\ hd'[c].req = hd[c].req /\ hd'[c].got = hd[c].got
    BY <1>1, AttendedMoves
  <1>3. TypeInv'
    <2>1. TypeOK'
      BY <1>1, <1>2 DEF TypeInv, TypeOK, BaseTypeOK, PxTypes, PumpTypes, FeedTypes
    <2>2. Dialed'
      BY <1>1, <1>2 DEF TypeInv, Dialed, OthersKeep
    <2>3. Written'
      BY <1>1, <1>2 DEF TypeInv, Written, OthersKeep, SameOutput
    <2> QED BY <2>1, <2>2, <2>3 DEF TypeInv
  <1>4. Steady
    BY <1>1, <1>2 DEF Steady, OthersKeep
  <1>5. Tty(c)' <=> Tty(c)
    BY <1>2 DEF Tty
  <1>6. Delivers(c)'
    <2>1. Before(c)'
      BY <1>2 DEF Before
    <2>2. Attends(c)'
      BY <1>2, <1>5 DEF Attends, Pumped, Outputs, Outs
    <2>3. UpTo(0) = <<>>
      BY DEF UpTo
    <2>4. Flow(c)'
      BY <1>1, <1>2, <1>5, <2>3 DEF Flow, Fresh, SameOutput
    <2>5. Told(c)'
      BY <1>1, <1>2 DEF Told, Delivers
    <2> QED BY <2>1, <2>2, <2>4, <2>5 DEF Delivers
  <1> QED BY <1>2, <1>3, <1>4, <1>6 DEF Good
LEMMA GotoGood ==
  ASSUME TypeInv, NEW c \in Conns, Delivers(c), ExecTty(c) \/ ExecWait(c)
  PROVE  Good(c)
  <1>t. BaseTypeOK /\ {"accept", "join"} \subseteq PCs
    BY DEF TypeInv, TypeOK, PCs
  <1>1. PICK pc \in {"accept", "join"} :
          /\ Goto(c, pc) /\ UNCHANGED <<reg, minted, conn, sent, status, px, pump, feed>>
          /\ \/ pc = "accept" /\ hd[c].pc = "go"
             \/ pc = "join" /\ hd[c].pc = "run" /\ Exited(c)
    BY DEF ExecTty, ExecWait, own
  <1>2. /\ hd' \in [Conns -> Handler] /\ hd'[c].pc = pc
        /\ hd'[c].req = hd[c].req /\ hd'[c].got = hd[c].got
        /\ \A d \in Conns : d # c => hd'[d] = hd[d]
    BY <1>t, <1>1, GotoHandler
  <1>3. TypeInv'
    BY <1>1, <1>2 DEF TypeInv, TypeOK, BaseTypeOK, Dialed, Written
  <1>4. Steady /\ OthersKeep(c)
    BY <1>1, <1>2 DEF Steady, OthersKeep
  <1>5. /\ (Tty(c)' <=> Tty(c)) /\ (Exited(c)' <=> Exited(c)) /\ (Up(c)' <=> Up(c))
        /\ (Fresh(c)' <=> Fresh(c)) /\ \A s \in Outs : Closed(c, s)' <=> Closed(c, s)
    BY <1>1, <1>2 DEF Tty, Exited, Up, Fresh, Closed
  <1>6. Before(c)'
    BY <1>1, <1>2, <1>5 DEF Delivers, Before
  <1>7. Attends(c)'
    BY <1>1, <1>2, <1>5 DEF Delivers, Attends
  <1>8. Flow(c)'
    BY <1>1, <1>5 DEF Delivers, Flow
  <1>9. Told(c)'
    BY <1>1, <1>2, <1>5 DEF Delivers, Told
  <1> QED BY <1>3, <1>4, <1>6, <1>7, <1>8, <1>9 DEF Good, Delivers

LEMMA EndGood ==
  ASSUME TypeInv, NEW c \in Conns, Delivers(c), ExecSpawnFails(c) \/ ExecStatus(c)
  PROVE  Good(c)
  <1>t. BaseTypeOK /\ Statuses = {"none", "success", "failure", "exit", "trailer"}
    BY DEF TypeInv, TypeOK, Statuses
  <1>1. PICK s \in Statuses :
          /\ End(c, s) /\ UNCHANGED <<reg, minted, conn, sent, px, pump, feed>>
          /\ \/ s \in {"none", "failure"} /\ hd[c].pc = "go"
             \/ hd[c].pc = "join" /\ \A r \in Outs : pump[c][r] # "run"
    <2>1. CASE ExecSpawnFails(c)
      BY <1>t, <2>1 DEF ExecSpawnFails, own
    <2>2. CASE ExecStatus(c)
      BY <1>t, <2>2 DEF ExecStatus, own
    <2> QED BY <2>1, <2>2
  <1>2. /\ hd' \in [Conns -> Handler] /\ hd'[c].pc = "end"
        /\ hd'[c].req = hd[c].req /\ hd'[c].got = hd[c].got
        /\ \A d \in Conns : d # c => hd'[d] = hd[d] /\ status'[d] = status[d]
        /\ status' \in [Conns -> Statuses]
        /\ status'[c] = IF Up(c) THEN s ELSE status[c]
    BY <1>t, <1>1, EndHandler
  <1>3. TypeInv'
    BY <1>1, <1>2 DEF TypeInv, TypeOK, BaseTypeOK, Dialed, Written
  <1>4. Steady /\ OthersKeep(c)
    BY <1>1, <1>2 DEF Steady, OthersKeep
  <1>5. /\ (Tty(c)' <=> Tty(c)) /\ (Exited(c)' <=> Exited(c)) /\ (Up(c)' <=> Up(c))
        /\ \A r \in Outs : Closed(c, r)' <=> Closed(c, r)
    BY <1>1, <1>2 DEF Tty, Exited, Up, Closed
  <1>6. Before(c)' /\ Attends(c)'
    BY <1>2 DEF Before, Attends
  <1>7. Flow(c)'
    BY <1>1, <1>5 DEF Delivers, Flow
  <1>8. ASSUME status'[c] \in {"success", "exit", "trailer"}
        PROVE  /\ Exited(c)
               /\ \A r \in Outs : /\ pump[c][r] # "run"
                                  /\ r \in hd[c].got => sent[c][r] = UpTo(px[c].wrote[r])
                                  /\ r \in hd[c].got => Closed(c, r) \/ (Tty(c) /\ r = "stderr")
    <2>1. hd[c].pc = "join" /\ Up(c)
      BY <1>1, <1>2, <1>8 DEF Delivers, Told
    <2>2. Exited(c) /\ \A r \in Outs : pump[c][r] # "run"
      BY <1>1, <2>1 DEF Delivers, Attends
    <2>3. ASSUME NEW r \in Outs, r \in hd[c].got
          PROVE  /\ sent[c][r] = UpTo(px[c].wrote[r])
                 /\ Closed(c, r) \/ (Tty(c) /\ r = "stderr")
      <3>1. px[c].wrote[r] \in Nat /\ px[c].buf[r] \in Nat
        BY DEF TypeInv, TypeOK, Process
      <3>2. pump[c][r] \in {"none", "run", "done"}
        BY DEF TypeInv, TypeOK
      <3>3. CASE pump[c][r] = "done"
        BY <2>1, <3>1, <3>3 DEF Delivers, Flow
      <3>4. CASE pump[c][r] = "none"
        <4>1. px[c].wrote[r] = 0 /\ sent[c][r] = <<>> /\ Tty(c) /\ r = "stderr"
          BY <2>1, <2>3, <3>4 DEF Delivers, Flow, Attends
        <4> QED BY <4>1 DEF UpTo
      <3> QED BY <2>2, <3>2, <3>3, <3>4
    <2> QED BY <2>2, <2>3
  <1>9. Told(c)'
    BY <1>1, <1>2, <1>5, <1>8 DEF Told
  <1> QED BY <1>3, <1>4, <1>6, <1>7, <1>9 DEF Good, Delivers

(* The process ends, a crun without a console does, or a child left behind. *)
LEMMA ExitGood ==
  ASSUME TypeInv, NEW c \in Conns, Delivers(c),
         ExecNoConsole(c) \/ ProcKilled(c) \/ ProcExit(c) \/ ChildEnds(c)
  PROVE  Good(c)
  <1>t. px \in [Conns -> Process] /\ px[c] \in Process /\ "stdout" \in Outs
    BY DEF TypeInv, TypeOK, Outs
  <1>1. \E x \in Process :
          /\ px' = [px EXCEPT ![c] = x] /\ x.wrote = px[c].wrote /\ x.buf = px[c].buf
          /\ UNCHANGED <<reg, minted, conn, hd, sent, status, pump, feed>>
          /\ \/ /\ px[c].st = "none" /\ hd[c].pc = "accept"
                /\ x.st = "failed" /\ x.held = px[c].held
             \/ px[c].st = "run" /\ x.st \in {"ok", "failed"}
             \/ x.st = px[c].st /\ x.held = {}
    <2>1. CASE ExecNoConsole(c)
      <3> DEFINE x == [px[c] EXCEPT !.st = "failed"]
      <3>1. px' = [px EXCEPT ![c] = x] /\ x \in Process
        BY <1>t, <2>1, ProcessTypes DEF ExecNoConsole
      <3>2. x.wrote = px[c].wrote /\ x.buf = px[c].buf /\ x.st = "failed" /\ x.held = px[c].held
        BY <1>t DEF Process
      <3> HIDE DEF x
      <3> QED BY <2>1, <3>1, <3>2 DEF ExecNoConsole, base
    <2>2. ASSUME NEW st \in {"ok", "failed"}, px[c].st = "run", Leaves(c, st)
          PROVE  \E x \in Process :
                   /\ px' = [px EXCEPT ![c] = x] /\ x.wrote = px[c].wrote /\ x.buf = px[c].buf
                   /\ UNCHANGED <<reg, minted, conn, hd, sent, status, pump, feed>>
                   /\ x.st = st
      <3>1. PICK h \in SUBSET Outputs(c) : px' = [px EXCEPT ![c].st = st, ![c].held = h]
        BY <2>2 DEF Leaves
      <3>2. h \in SUBSET Outs
        BY DEF Outputs, Outs
      <3> DEFINE x == [px[c] EXCEPT !.st = st, !.held = h]
      <3>3. px' = [px EXCEPT ![c] = x] /\ x \in Process
        BY <1>t, <3>1, <3>2, ProcessTypes
      <3>4. x.wrote = px[c].wrote /\ x.buf = px[c].buf /\ x.st = st
        BY <1>t DEF Process
      <3> HIDE DEF x
      <3> QED BY <2>2, <3>3, <3>4 DEF Leaves, base
    <2>3. CASE ChildEnds(c)
      <3> DEFINE x == [px[c] EXCEPT !.held = {}]
      <3>1. px' = [px EXCEPT ![c] = x] /\ x \in Process
        BY <1>t, <2>3, ProcessTypes DEF ChildEnds
      <3>2. x.wrote = px[c].wrote /\ x.buf = px[c].buf /\ x.st = px[c].st /\ x.held = {}
        BY <1>t DEF Process
      <3> HIDE DEF x
      <3> QED BY <2>3, <3>1, <3>2 DEF ChildEnds, base
    <2> QED BY <2>1, <2>2, <2>3 DEF ProcKilled, ProcExit
  <1>2. PICK x \in Process :
          /\ px' = [px EXCEPT ![c] = x] /\ x.wrote = px[c].wrote /\ x.buf = px[c].buf
          /\ UNCHANGED <<reg, minted, conn, hd, sent, status, pump, feed>>
          /\ \/ /\ px[c].st = "none" /\ hd[c].pc = "accept"
                /\ x.st = "failed" /\ x.held = px[c].held
             \/ px[c].st = "run" /\ x.st \in {"ok", "failed"}
             \/ x.st = px[c].st /\ x.held = {}
    BY <1>1
  <1>3. PxTypes /\ px'[c] = x /\ SameOutput(c) /\ \A d \in Conns : d # c => px'[d] = px[d]
    BY <1>2, StateMoves
  <1>4. TypeInv'
    <2>1. TypeOK' /\ Dialed'
      BY <1>2, <1>3 DEF TypeInv, TypeOK, BaseTypeOK, Dialed, PxTypes
    <2>2. Written'
      BY <1>2, <1>3 DEF TypeInv, Written, SameOutput
    <2> QED BY <2>1, <2>2 DEF TypeInv
  <1>5. Steady /\ OthersKeep(c)
    BY <1>2, <1>3 DEF Steady, OthersKeep
  <1>6. /\ (Exited(c) => Exited(c)') /\ (Tty(c)' <=> Tty(c)) /\ (Up(c)' <=> Up(c))
        /\ \A s \in Outs : Closed(c, s) => Closed(c, s)'
    BY <1>2, <1>3 DEF Exited, Tty, Up, Closed
  <1>7. px[c].st # "run" => (Fresh(c) => Fresh(c)')
    BY <1>2, <1>3 DEF Fresh, SameOutput
  <1>8. Before(c)'
    BY <1>2, <1>3, <1>7 DEF Delivers, Before
  <1>9. Attends(c)'
    BY <1>2, <1>6 DEF Delivers, Attends
  <1>10. Flow(c)'
    BY <1>2, <1>3, <1>6 DEF Delivers, Flow, SameOutput
  <1>11. Told(c)'
    BY <1>2, <1>3, <1>6 DEF Delivers, Told, SameOutput
  <1> QED BY <1>4, <1>5, <1>8, <1>9, <1>10, <1>11 DEF Good, Delivers

LEMMA FeedGood ==
  ASSUME TypeInv, NEW c \in Conns, Delivers(c), FeedStep(c)
  PROVE  Good(c)
  <1>1. /\ PxTypes /\ FeedTypes /\ ConnMoves(c) /\ OthersKeep(c)
        /\ px'[c].st = px[c].st /\ px'[c].held = px[c].held /\ SameOutput(c)
        /\ UNCHANGED <<reg, minted, hd, sent, status, pump>>
    BY FeedMoves
  <1>2. TypeInv'
    <2>1. TypeOK' /\ Dialed'
      BY <1>1 DEF TypeInv, TypeOK, BaseTypeOK, Dialed, PxTypes, FeedTypes, ConnMoves
    <2>2. Written'
      BY <1>1 DEF TypeInv, Written, SameOutput, OthersKeep
    <2> QED BY <2>1, <2>2 DEF TypeInv
  <1>3. Steady
    BY <1>1, ConnSteady
  <1>4. /\ (Exited(c)' <=> Exited(c)) /\ (Tty(c)' <=> Tty(c)) /\ (Up(c)' => Up(c))
        /\ (Fresh(c)' <=> Fresh(c)) /\ \A s \in Outs : Closed(c, s)' <=> Closed(c, s)
    BY <1>1 DEF Exited, Tty, Up, Fresh, SameOutput, ConnMoves, Closed
  <1>5. Before(c)' /\ Attends(c)' /\ Told(c)'
    BY <1>1, <1>4 DEF Delivers, Before, Attends, Told, SameOutput
  <1>6. Flow(c)'
    BY <1>1, <1>4 DEF Delivers, Flow, SameOutput
  <1> QED BY <1>1, <1>2, <1>3, <1>5, <1>6 DEF Good, Delivers
LEMMA WriteGood ==
  ASSUME TypeInv, NEW c \in Conns, Delivers(c), NEW s \in Outs, ProcWrite(c, s)
  PROVE  Good(c)
  <1>1. /\ PxTypes /\ ~Closed(c, s) /\ (s = "stderr" => ~Tty(c))
        /\ px[c].st = "run" \/ s \in px[c].held
        /\ px'[c].st = px[c].st /\ px'[c].held = px[c].held
        /\ px'[c].wrote[s] = px[c].wrote[s] + 1 /\ px'[c].buf[s] = px[c].buf[s] + 1
        /\ \A r \in Outs : r # s => px'[c].wrote[r] = px[c].wrote[r] /\ px'[c].buf[r] = px[c].buf[r]
        /\ \A d \in Conns : d # c => px'[d] = px[d]
        /\ UNCHANGED <<reg, minted, conn, hd, sent, status, pump, feed>>
    BY WriteMoves DEF base
  <1>n. \A r \in Outs : px[c].wrote[r] \in Nat /\ px[c].buf[r] \in Nat
    BY DEF TypeInv, TypeOK, Process
  <1>2. TypeInv'
    <2>1. TypeOK' /\ Dialed'
      BY <1>1 DEF TypeInv, TypeOK, BaseTypeOK, Dialed, PxTypes
    <2>2. Written'
      BY <1>1, <1>n DEF TypeInv, Written
    <2> QED BY <2>1, <2>2 DEF TypeInv
  <1>3. Steady /\ OthersKeep(c)
    BY <1>1 DEF Steady, OthersKeep
  <1>4. /\ (Exited(c)' <=> Exited(c)) /\ (Tty(c)' <=> Tty(c)) /\ (Up(c)' <=> Up(c))
        /\ \A r \in Outs : Closed(c, r)' <=> Closed(c, r)
    BY <1>1 DEF Exited, Tty, Up, Closed
  <1>5. Before(c)' /\ Attends(c)'
    BY <1>1, <1>4 DEF Delivers, Before, Fresh, Attends
  <1>t. Told(c)'
    BY <1>1, <1>4 DEF Delivers, Told
  <1>6. \A r \in Outs : px'[c].wrote[r] - px'[c].buf[r] = px[c].wrote[r] - px[c].buf[r]
    BY <1>1, <1>n
  <1>7. Flow(c)'
    BY <1>1, <1>4, <1>6 DEF Delivers, Flow
  <1> QED BY <1>2, <1>3, <1>5, <1>t, <1>7 DEF Good, Delivers

LEMMA AppendUpTo ==
  ASSUME NEW n \in Nat
  PROVE  Append(UpTo(n), n + 1) = UpTo(n + 1)
  BY DEF UpTo

LEMMA PumpGood ==
  ASSUME TypeInv, NEW c \in Conns, Delivers(c), NEW s \in Outs, PumpStep(c, s)
  PROVE  Good(c)
  <1>n. \A r \in Outs : px[c].wrote[r] \in Nat /\ px[c].buf[r] \in Nat /\ px[c].buf[r] <= px[c].wrote[r]
    BY DEF TypeInv, TypeOK, Process, Written
  <1>r. /\ pump[c][s] = "run" /\ UNCHANGED <<reg, minted, conn, hd, status, feed>>
        /\ hd[c].pc \notin {"none", "take", "collect", "go", "accept"}
        /\ status[c] \notin {"success", "exit", "trailer"}
    BY DEF PumpStep, PumpChunk, PumpBroken, PumpEof, base, Delivers, Before, Fresh, Told
  <1>q. Steady /\ (Tty(c)' <=> Tty(c)) /\ (Up(c)' <=> Up(c)) /\ Before(c)' /\ Told(c)' /\ Dialed'
    BY <1>r DEF Steady, Tty, Up, Before, Told, TypeInv, Dialed
  <1>p. pump \in [Conns -> [Outs -> {"none", "run", "done"}]]
    BY DEF TypeInv, TypeOK
  <1>1. CASE PumpChunk(c, s)
    <2>1. /\ PxTypes /\ px'[c].st = px[c].st /\ px'[c].wrote = px[c].wrote
          /\ px'[c].held = px[c].held
          /\ px[c].buf[s] > 0 /\ px'[c].buf[s] = px[c].buf[s] - 1
          /\ \A r \in Outs : r # s => px'[c].buf[r] = px[c].buf[r]
          /\ \A d \in Conns : d # c => px'[d] = px[d]
      BY <1>1, ChunkOut
    <2>2. /\ sent' \in [Conns -> [Outs -> Seq(Nat)]]
          /\ sent'[c][s] = Append(sent[c][s], px[c].wrote[s] - px[c].buf[s] + 1)
          /\ \A r \in Outs : r # s => sent'[c][r] = sent[c][r]
          /\ \A d \in Conns : d # c => sent'[d] = sent[d]
      BY <1>1, SendMoves
    <2>3. Up(c) /\ pump' = pump
      BY <1>1 DEF PumpChunk
    <2>4. TypeInv'
      <3>1. TypeOK'
        BY <1>r, <2>1, <2>2, <2>3 DEF TypeInv, TypeOK, BaseTypeOK, PxTypes
      <3>2. Written'
        BY <1>n, <2>1 DEF TypeInv, Written
      <3> QED BY <1>q, <3>1, <3>2 DEF TypeInv
    <2>5. OthersKeep(c)
      BY <1>r, <2>1, <2>2, <2>3 DEF OthersKeep
    <2>6. (Exited(c)' <=> Exited(c)) /\ \A r \in Outs : Closed(c, r)' <=> Closed(c, r)
      BY <2>1 DEF Exited, Closed
    <2>7. Attends(c)'
      BY <1>r, <1>q, <2>3, <2>6 DEF Delivers, Attends
    <2>8. sent'[c][s] = UpTo(px'[c].wrote[s] - px'[c].buf[s])
      <3> DEFINE n == px[c].wrote[s] - px[c].buf[s]
      <3>1. n \in Nat /\ n + 1 = px'[c].wrote[s] - px'[c].buf[s]
        BY <1>n, <2>1
      <3>2. sent[c][s] = UpTo(n)
        BY <1>r, <2>3 DEF Delivers, Flow
      <3> HIDE DEF n
      <3> QED BY <2>2, <3>1, <3>2, AppendUpTo DEF n
    <2>9. Flow(c)'
      BY <1>r, <1>q, <2>1, <2>2, <2>3, <2>6, <2>8 DEF Delivers, Flow
    <2> QED BY <1>q, <2>4, <2>5, <2>7, <2>9 DEF Good, Delivers
  <1>2. ASSUME pump' = [pump EXCEPT ![c][s] = "done"], sent' = sent
        PROVE  /\ PumpTypes /\ pump'[c][s] = "done" /\ \A d \in Conns : d # c => pump'[d] = pump[d]
               /\ \A r \in Outs : r # s => pump'[c][r] = pump[c][r]
    BY <1>p, <1>2 DEF PumpTypes
  <1>3. CASE PumpBroken(c, s)
    <2>1. /\ PxTypes /\ px'[c].st = px[c].st /\ px'[c].wrote = px[c].wrote
          /\ px'[c].held = px[c].held
          /\ px[c].buf[s] > 0 /\ px'[c].buf[s] = px[c].buf[s] - 1
          /\ \A r \in Outs : r # s => px'[c].buf[r] = px[c].buf[r]
          /\ \A d \in Conns : d # c => px'[d] = px[d]
      BY <1>3, ChunkOut
    <2>2. ~Up(c) /\ sent' = sent /\ pump' = [pump EXCEPT ![c][s] = "done"]
      BY <1>3 DEF PumpBroken, base
    <2>3. TypeInv'
      <3>1. TypeOK'
        BY <1>r, <1>2, <2>1, <2>2 DEF TypeInv, TypeOK, BaseTypeOK, PxTypes, PumpTypes
      <3>2. Written'
        BY <1>n, <2>1 DEF TypeInv, Written
      <3> QED BY <1>q, <3>1, <3>2 DEF TypeInv
    <2>4. OthersKeep(c)
      BY <1>r, <1>2, <2>1, <2>2 DEF OthersKeep
    <2>5. Exited(c)' <=> Exited(c)
      BY <2>1 DEF Exited
    <2>6. Attends(c)'
      BY <1>r, <1>q, <1>2, <2>2, <2>5 DEF Delivers, Attends
    <2>7. Flow(c)'
      BY <1>r, <1>q, <1>2, <2>1, <2>2 DEF Delivers, Flow
    <2> QED BY <1>q, <2>3, <2>4, <2>6, <2>7 DEF Good, Delivers
  <1>4. CASE PumpEof(c, s)
    <2>1. /\ px[c].buf[s] = 0 /\ Closed(c, s) /\ px' = px /\ sent' = sent
          /\ pump' = [pump EXCEPT ![c][s] = "done"]
      BY <1>4 DEF PumpEof, base
    <2>2. TypeInv'
      BY <1>r, <1>q, <1>2, <2>1 DEF TypeInv, TypeOK, BaseTypeOK, PumpTypes, Written
    <2>3. OthersKeep(c)
      BY <1>r, <1>2, <2>1 DEF OthersKeep
    <2>4. Exited(c)' /\ \A r \in Outs : Closed(c, r)' <=> Closed(c, r)
      BY <2>1 DEF Exited, Closed
    <2>5. Attends(c)'
      BY <1>r, <1>q, <1>2, <2>1, <2>4 DEF Delivers, Attends
    <2>6. Flow(c)'
      BY <1>r, <1>q, <1>2, <2>1, <2>4 DEF Delivers, Flow
    <2> QED BY <1>q, <2>2, <2>3, <2>5, <2>6 DEF Good, Delivers
  <1> QED BY <1>1, <1>3, <1>4 DEF PumpStep

-----------------------------------------------------------------------------
ExecInv == TypeInv /\ SessionInv /\ \A c \in Conns : Delivers(c)

LEMMA ExecInitial == Init => ExecInv
  <1> SUFFICES ASSUME Init PROVE ExecInv
    OBVIOUS
  <1>1. TypeInv /\ SessionInv
    BY TypeInit, SessionInitial DEF Init
  <1>2. \A c \in Conns : Delivers(c)
    BY DEF Init, BaseInit, Delivers, Before, Fresh, Attends, Flow, Told, Outs
  <1> QED BY <1>1, <1>2 DEF ExecInv

(* A shared step does not touch the process, and starts a session that has none. *)
LEMMA BaseGood ==
  ASSUME ExecInv, NEW c \in Conns, BaseStep(c, Miss(c)), UNCHANGED own
  PROVE  TypeInv' /\ OthersKeep(c) /\ Delivers(c)'
  <1>t. BaseInv /\ Owned /\ Miss(c) \in {"none", "failure"} /\ Miss(c) \in Statuses
    BY DEF ExecInv, SessionInv, Miss, Statuses
  <1>d. TypeInv /\ Delivers(c)
    BY DEF ExecInv
  <1>1. TypeInv'
    BY <1>t, <1>d, BaseTypes DEF TypeInv, TypeOK, BaseInv, own, Written
  <1>2. /\ sent' = sent
        /\ \A d \in Conns : d # c => hd'[d] = hd[d] /\ status'[d] = status[d] /\ conn'[d] = conn[d]
        /\ Stays(c) \/ Starts(c, Miss(c))
    BY <1>t, BaseEffect
  <1>3. OthersKeep(c)
    BY <1>2 DEF OthersKeep, own
  <1>4. /\ (Exited(c)' <=> Exited(c)) /\ (Fresh(c)' <=> Fresh(c))
        /\ \A s \in Outs : Closed(c, s)' <=> Closed(c, s)
    BY <1>2 DEF own, Exited, Fresh, Closed
  <1>5. ASSUME Stays(c) PROVE Delivers(c)'
    <2>1. (Tty(c)' <=> Tty(c)) /\ (Up(c)' => Up(c))
      BY <1>5 DEF Stays, Tty
    <2>2. Before(c)' /\ Attends(c)' /\ Told(c)'
      BY <1>2, <1>4, <1>5, <1>d, <2>1 DEF own, Stays, Delivers, Before, Attends, Told
    <2>3. Flow(c)'
      BY <1>2, <1>4, <1>5, <1>d, <2>1 DEF own, Stays, Delivers, Flow
    <2> QED BY <2>2, <2>3 DEF Delivers
  <1>6. ASSUME Starts(c, Miss(c)) PROVE Delivers(c)'
    <2>1. px[c].st = "none" /\ Fresh(c) /\ status[c] \notin {"success", "exit", "trailer"}
      BY <1>6, <1>d DEF Starts, Delivers, Before, Told
    <2>2. Before(c)' /\ Attends(c)' /\ Told(c)'
      BY <1>4, <1>6, <1>t, <2>1 DEF own, Starts, Before, Attends, Told
    <2>3. Flow(c)'
      BY <1>4, <2>1 DEF own, Flow, Fresh
    <2> QED BY <2>2, <2>3 DEF Delivers
  <1> QED BY <1>1, <1>2, <1>3, <1>5, <1>6

(* A session no step is about keeps what it had. *)
LEMMA OthersDeliver ==
  ASSUME NEW c \in Conns, OthersKeep(c), NEW d \in Conns, d # c, Delivers(d)
  PROVE  Delivers(d)'
  BY DEF OthersKeep, Delivers, Before, Fresh, Attends, Flow, Told, Tty, Exited, Up, Closed

LEMMA ExecStep == ExecInv /\ [Next]_vars => ExecInv'
  <1> SUFFICES ASSUME ExecInv, [Next]_vars PROVE ExecInv'
    OBVIOUS
  <1>t. /\ TypeInv /\ SessionInv /\ BaseInv /\ Owned /\ OneSessionPerToken
        /\ \A c \in Conns : Delivers(c)
    BY DEF ExecInv, SessionInv
  <1>b. TypeInv' => BaseInv'
    BY DEF TypeInv, TypeOK, BaseInv
  <1>1. CASE UNCHANGED vars
    <2>1. TypeInv'
      BY <1>t, <1>1 DEF vars, base, own, TypeInv, TypeOK, BaseTypeOK, Dialed, Written
    <2>2. Steady
      BY <1>1 DEF vars, base, Steady
    <2>3. \A c \in Conns : Delivers(c)'
      BY <1>t, <1>1
      DEF vars, base, own, Delivers, Before, Fresh, Attends, Flow, Told, Tty, Exited, Up, Closed
    <2> QED BY <1>t, <1>b, <2>1, <2>2, <2>3, SteadyKeeps DEF ExecInv, SessionInv
  <1>2. ASSUME NEW c \in Conns, Good(c) PROVE ExecInv'
    <2>1. TypeInv' /\ Owned' /\ OneSessionPerToken'
      BY <1>t, <1>2, SteadyKeeps DEF Good
    <2>2. \A d \in Conns : Delivers(d)'
      BY <1>t, <1>2, OthersDeliver DEF Good
    <2> QED BY <1>b, <2>1, <2>2 DEF ExecInv, SessionInv
  <1>3. ASSUME NEW c \in Conns, BaseStep(c, Miss(c)), UNCHANGED own PROVE ExecInv'
    <2>1. TypeInv' /\ OthersKeep(c) /\ Delivers(c)'
      BY <1>3, BaseGood
    <2>2. Miss(c) \in Statuses
      BY DEF Miss, Statuses
    <2>3. Owned' /\ OneSessionPerToken'
      BY <1>t, <1>3, <2>2, BaseSessions
    <2>4. \A d \in Conns : Delivers(d)'
      BY <1>t, <2>1, OthersDeliver
    <2> QED BY <1>b, <2>1, <2>3, <2>4 DEF ExecInv, SessionInv
  <1>4. CASE ExecRequest
    <2>1. CASE Conns = {}
      <3>1. TypeInv' /\ Owned' /\ OneSessionPerToken'
        BY <1>4, <1>t, <2>1
        DEF ExecRequest, Register, own, TypeInv, TypeOK, BaseTypeOK, Dialed, Written, Owned,
            OneSessionPerToken
      <3> QED BY <1>b, <2>1, <3>1 DEF ExecInv, SessionInv
    <2>2. CASE Conns # {}
      BY <1>3, <1>4, <2>2 DEF ExecRequest, BaseStep
    <2> QED BY <2>1, <2>2
  <1>5. ASSUME NEW c \in Conns,
               ExecSpawn(c) \/ ExecConsole(c) \/ ExecTty(c) \/ ExecWait(c)
                 \/ ExecSpawnFails(c) \/ ExecStatus(c)
        PROVE  ExecInv'
    BY <1>t, <1>2, <1>5, SpawnGood, GotoGood, EndGood
  <1>6. ASSUME NEW c \in Conns,
               ExecNoConsole(c) \/ ProcKilled(c) \/ ProcExit(c) \/ ChildEnds(c)
                 \/ FeedStep(c)
        PROVE  ExecInv'
    BY <1>t, <1>2, <1>6, ExitGood, FeedGood
  <1>7. ASSUME NEW c \in Conns, NEW s \in Outs, PumpStep(c, s) \/ ProcWrite(c, s)
        PROVE  ExecInv'
    BY <1>t, <1>2, <1>7, PumpGood, WriteGood
  <1> QED BY <1>1, <1>3, <1>4, <1>5, <1>6, <1>7
          DEF Next, HandlerStep, ReadLoop, Console, BaseStep

(* Every reachable state of an exec server has its types: queued input never
   underflows, no pipe is over its size, and the handler, the pumps and the
   stdin task are always at one of their steps, for any number of clients. *)
THEOREM ExecTypes == Spec => []TypeOK
  <1>1. ExecInv => TypeOK
    BY DEF ExecInv, TypeInv
  <1> QED BY ExecInitial, ExecStep, <1>1, PTL DEF Spec

(* take_exec removes what it looks up: whatever clients dial, in whatever
   order, a token of the Exec RPC runs its command once. *)
THEOREM ExecSessionsAreUnique == Spec => []OneSessionPerToken
  <1>1. ExecInv => OneSessionPerToken
    BY DEF ExecInv, SessionInv
  <1> QED BY ExecInitial, ExecStep, <1>1, PTL DEF Spec

(* spdy_exec and handle_exec await the pumps before they report: a client that
   is told how its command ended was sent every chunk the command wrote on
   every stream it has, in order, over any transport, with or without a
   terminal, for any size of the pipes and any amount of output. *)
THEOREM StatusComesLast == Spec => []StatusAfterOutput
  <1>1. ExecInv => StatusAfterOutput
    BY DEF ExecInv, Delivers, Told, StatusAfterOutput
  <1> QED BY ExecInitial, ExecStep, <1>1, PTL DEF Spec
=============================================================================
