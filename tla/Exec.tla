-------------------------------- MODULE Exec --------------------------------
(***************************************************************************)
(* Exec sessions of the streaming server: handle_exec over a WebSocket and *)
(* spdy_exec, with the `crun exec' process they spawn (crun.rs), the tasks *)
(* that pump its output to the client and the one that feeds its stdin.    *)
(* Handler, pumps, stdin task, read loop, client and process interleave.   *)
(* Output is counted in chunks.  A command can leave a background child    *)
(* behind that keeps its outputs open, for as long as it likes.            *)
(***************************************************************************)
EXTENDS Streams

CONSTANTS
  PipeSize,   \* chunks an output pipe or a pty holds
  MaxOut      \* bound: chunks a process writes on each of its outputs

ASSUME ExecAssumption == PipeSize \in Nat \ {0} /\ MaxOut \in Nat

VARIABLES
  px,       \* the process of each connection and the pipes to it
  pump,     \* its output pumps
  feed      \* its stdin task; "none" while the handler keeps the pipe

own  == <<px, pump, feed>>
vars == <<base, own>>

Process == [st : {"none", "run", "ok", "failed"}, eof : BOOLEAN,
            wrote : [Outs -> 0..MaxOut], buf : [Outs -> 0..PipeSize],
            reader : [Outs -> BOOLEAN], held : SUBSET Outs]

TypeOK ==
  /\ BaseTypeOK
  /\ px \in [Conns -> Process]
  /\ pump \in [Conns -> [Outs -> {"none", "run", "done"}]]
  /\ feed \in [Conns -> {"none", "run", "done"}]

Init ==
  /\ BaseInit
  /\ px = [c \in Conns |-> [st |-> "none", eof |-> FALSE,
             wrote |-> [s \in Outs |-> 0], buf |-> [s \in Outs |-> 0],
             reader |-> [s \in Outs |-> FALSE], held |-> {}]]
  /\ pump = [c \in Conns |-> [s \in Outs |-> "none"]]
  /\ feed = [c \in Conns |-> "none"]

Tty(c)    == hd[c].req # None /\ hd[c].req.tty
Pty(c)    == Tty(c) /\ Via(c) = "spdy"
Exited(c) == px[c].st \in {"ok", "failed"}

(* The outputs of the command; a terminal has no stderr of its own. *)
Outputs(c) == IF Tty(c) THEN {"stdout"} ELSE Outs

(* Every process that had the output open is gone. *)
Closed(c, s) == Exited(c) /\ s \notin px[c].held

-----------------------------------------------------------------------------
(* The outputs that have a stream to go to. *)
Pumped(c) == hd[c].got \cap Outputs(c)

(* The process runs.  A stdin nobody feeds stays with the handler, a stdout
   nobody pumps too; an unwanted stderr is closed. *)
Attended(c) ==
  /\ px' = [px EXCEPT ![c].st = "run",
                      ![c].reader = [s \in Outs |-> s = "stdout" \/ s \in Pumped(c)]]
  /\ pump' = [pump EXCEPT ![c] = [s \in Outs |-> IF s \in Pumped(c) THEN "run" ELSE "none"]]
  /\ feed' = [feed EXCEPT ![c] =
               IF Via(c) # "spdy" \/ "stdin" \in hd[c].got THEN "run" ELSE "none"]
  /\ Goto(c, "run")

(* crun::exec_streaming *)
ExecSpawn(c) ==
  /\ hd[c].pc = "go" /\ ~Pty(c)
  /\ Attended(c)
  /\ UNCHANGED <<reg, minted, conn, sent, status>>

ExecSpawnFails(c) ==
  /\ hd[c].pc = "go"
  /\ End(c, IF Tells(c) THEN "failure" ELSE "none")
  /\ UNCHANGED <<reg, minted, conn, sent, own>>

(* crun::exec_tty: crun is spawned, then accept() waits for its console. *)
ExecTty(c) ==
  /\ hd[c].pc = "go" /\ Pty(c)
  /\ Goto(c, "accept")
  /\ UNCHANGED <<reg, minted, conn, sent, status, own>>

ExecConsole(c) ==
  /\ hd[c].pc = "accept" /\ px[c].st = "none"
  /\ Attended(c)
  /\ UNCHANGED <<reg, minted, conn, sent, status>>

(* crun ends without connecting; accept() has no deadline. *)
ExecNoConsole(c) ==
  /\ hd[c].pc = "accept" /\ px[c].st = "none"
  /\ px' = [px EXCEPT ![c].st = "failed"]
  /\ UNCHANGED <<base, pump, feed>>

(* A pump moves one chunk; when the client is gone it stops, and drops its
   end of the pipe (a pty stays open while its other half is in use). *)
PumpChunk(c, s) ==
  /\ pump[c][s] = "run" /\ px[c].buf[s] > 0 /\ Up(c)
  /\ sent' = [sent EXCEPT ![c][s] = Append(@, px[c].wrote[s] - px[c].buf[s] + 1)]
  /\ px' = [px EXCEPT ![c].buf[s] = @ - 1]
  /\ UNCHANGED <<reg, minted, conn, hd, status, pump, feed>>

PumpBroken(c, s) ==
  /\ pump[c][s] = "run" /\ px[c].buf[s] > 0 /\ ~Up(c)
  /\ px' = [px EXCEPT ![c].buf[s] = @ - 1, ![c].reader[s] = Pty(c)]
  /\ pump' = [pump EXCEPT ![c][s] = "done"]
  /\ UNCHANGED <<base, feed>>

(* EOF comes when nobody has the output open any more: the exit of the
   command is not enough. *)
PumpEof(c, s) ==
  /\ pump[c][s] = "run" /\ px[c].buf[s] = 0 /\ Closed(c, s)
  /\ pump' = [pump EXCEPT ![c][s] = "done"]
  /\ UNCHANGED <<base, px, feed>>

(* The stdin task writes a chunk; a process that is gone ends it. *)
FeedChunk(c) ==
  /\ feed[c] = "run" /\ conn[c].in > 0
  /\ conn' = [conn EXCEPT ![c].in = @ - 1]
  /\ feed' = [feed EXCEPT ![c] = IF Exited(c) THEN "done" ELSE "run"]
  /\ UNCHANGED <<reg, minted, hd, sent, status, px, pump>>

(* The client's stdin is closed: dropping the pipe is EOF for the process,
   dropping half of a pty is not. *)
FeedEof(c) ==
  /\ feed[c] = "run" /\ conn[c].in = 0 /\ ~conn[c].stdin
  /\ feed' = [feed EXCEPT ![c] = "done"]
  /\ px' = [px EXCEPT ![c].eof = ~Pty(c)]
  /\ UNCHANGED <<base, pump>>

(* child.wait(): the exit status is known. *)
ExecWait(c) ==
  /\ hd[c].pc = "run" /\ Exited(c)
  /\ Goto(c, "join")
  /\ UNCHANGED <<reg, minted, conn, sent, status, own>>

(* Mutant: the status does not wait for the pumps. *)
ExecStatusEarly(c) ==
  /\ hd[c].pc = "join"
  /\ End(c, IF px[c].st = "ok" THEN "success" ELSE "exit")
  /\ UNCHANGED <<reg, minted, conn, sent, own>>

(* The pumps are awaited, then the status goes out. *)
ExecStatus(c) ==
  /\ hd[c].pc = "join" /\ \A s \in Outs : pump[c][s] # "run"
  /\ End(c, IF "error" \in hd[c].got
             THEN IF px[c].st = "ok" THEN "success" ELSE "exit"
             ELSE IF Via(c) = "v1" /\ px[c].st # "ok" THEN "trailer" ELSE "none")
  /\ UNCHANGED <<reg, minted, conn, sent, own>>

-----------------------------------------------------------------------------
(* The process in the container and what it leaves behind: external.  The
   process writes its output, and ends at the latest when that is done and its
   stdin is at EOF; a write to a closed pipe, or the loss of its terminal,
   kills it.  A child it leaves writes, or holds its outputs in silence, until
   it ends, if ever; that it ends after the session is left out. *)

Writes(c, s) ==
  /\ px[c].st = "run" \/ s \in px[c].held
  /\ px[c].wrote[s] < MaxOut /\ s \in Outputs(c)

ProcWrite(c, s) ==
  /\ Writes(c, s) /\ px[c].reader[s] /\ px[c].buf[s] < PipeSize
  /\ px' = [px EXCEPT ![c].wrote[s] = @ + 1, ![c].buf[s] = @ + 1]
  /\ UNCHANGED <<base, pump, feed>>

Leaves(c, st) ==
  /\ \E held \in SUBSET Outputs(c) : px' = [px EXCEPT ![c].st = st, ![c].held = held]
  /\ UNCHANGED <<base, pump, feed>>

ProcKilled(c) ==
  /\ px[c].st = "run"
  /\ \/ \E s \in Outs : Writes(c, s) /\ ~px[c].reader[s]
     \/ Pty(c) /\ pump[c]["stdout"] # "run" /\ feed[c] = "done"
  /\ Leaves(c, "failed")

ProcExit(c) == px[c].st = "run" /\ \E st \in {"ok", "failed"} : Leaves(c, st)

ChildEnds(c) ==
  /\ px[c].held # {} /\ hd[c].pc # "end"
  /\ px' = [px EXCEPT ![c].held = {}]
  /\ UNCHANGED <<base, pump, feed>>

(* The last step of a process that has nothing left to do. *)
ProcFinish(c) == px[c].eof /\ (\A s \in Outs : ~Writes(c, s)) /\ ProcExit(c)

-----------------------------------------------------------------------------
(* handle_exec reports an unknown token, spdy_exec only says GOAWAY. *)
Miss(c) == IF Via(c) = "spdy" THEN "none" ELSE "failure"

(* The Exec RPC. *)
ExecRequest == (\E t \in Tokens, r \in Requests : Register(t, r)) /\ UNCHANGED own

(* spdy_exec, handle_exec *)
HandlerStep(c) ==
  \/ Serve(c, Miss(c)) /\ UNCHANGED own
  \/ ExecSpawn(c) \/ ExecSpawnFails(c) \/ ExecTty(c) \/ ExecWait(c) \/ ExecStatus(c)

ReadLoop(c)    == LoopEof(c) /\ UNCHANGED own
PumpStep(c, s) == PumpChunk(c, s) \/ PumpBroken(c, s) \/ PumpEof(c, s)
FeedStep(c)    == FeedChunk(c) \/ FeedEof(c)
Console(c)     == ExecConsole(c) \/ ExecNoConsole(c)
Workload(c)    == \/ ProcKilled(c) \/ ProcFinish(c)
                  \/ px[c].st = "run" /\ \E s \in Outs : ProcWrite(c, s)

Next ==
  \/ ExecRequest
  \/ \E c \in Conns :
       \/ Client(c) /\ UNCHANGED own
       \/ HandlerStep(c) \/ ReadLoop(c) \/ FeedStep(c) \/ Console(c)
       \/ \E s \in Outs : PumpStep(c, s) \/ ProcWrite(c, s)
       \/ ProcKilled(c) \/ ProcExit(c) \/ ChildEnds(c)

Spec == Init /\ [][Next]_vars

-----------------------------------------------------------------------------
(* Properties.                                                             *)

(* "Await both pumps before the exit status": a client that is told how the
   command ended has been sent all of its output, in order, on every stream
   it has, what the children it left behind wrote included. *)
StatusAfterOutput ==
  \A c \in Conns, s \in Outs :
    status[c] \in {"success", "exit", "trailer"} /\ s \in hd[c].got
      => sent[c][s] = UpTo(px[c].wrote[s])

(* tokio polls what is ready, a command that has written its output and lost
   its stdin ends, and crun connects to a console socket or ends.  A client
   that stays connected goes on reading; nothing else is assumed of clients,
   and nothing at all of the children a command leaves behind. *)
Fairness ==
  \A c \in Conns :
    /\ WF_vars(HandlerStep(c)) /\ WF_vars(FeedStep(c)) /\ WF_vars(ReadLoop(c))
    /\ WF_vars(Console(c)) /\ WF_vars(Workload(c))
    /\ \A s \in Outs : WF_vars(PumpStep(c, s))

FairSpec == Spec /\ Fairness

(* An exec without a terminal whose stdin is fed ends once the client closed
   its stdin or went away, also with output nobody takes any more, or else a
   child the command left keeps an output open for ever: the handler awaits
   the pumps without a deadline, so such a child can hold the session. *)
ExecEnds ==
  \A c \in Conns :
    (feed[c] # "none" /\ ~Tty(c) /\ "stdout" \in hd[c].got
       /\ (~Up(c) \/ ~conn[c].stdin)) ~> (hd[c].pc = "end" \/ [](px[c].held # {}))
=============================================================================
