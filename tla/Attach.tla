------------------------------- MODULE Attach -------------------------------
(***************************************************************************)
(* Attach sessions of the streaming server: handle_attach and spdy_attach, *)
(* on the live output bus and the stdin pipe that the supervision of one   *)
(* interactive container publishes (StartContainer and supervise_container *)
(* in crates/cri/src/server.rs).  Several clients can be attached while    *)
(* the container starts, writes and ends.  A frame of output is known by   *)
(* its place in the container's output.                                    *)
(***************************************************************************)
EXTENDS Streams

CONSTANTS
  BusSize,    \* capacity of the live bus (512 in live_channel)
  MaxLive     \* bound: chunks of output the container writes

ASSUME AttachAssumption == BusSize \in Nat \ {0} /\ MaxLive \in Nat

VARIABLES
  rx,       \* each session's place on the bus
  feed,     \* its stdin task
  box       \* the container: live bus, stdin pipe, supervision

own  == <<rx, feed, box>>
vars == <<base, own>>

Receiver == [first : 0..MaxLive, next : 0..MaxLive, lagged : BOOLEAN]

Box == [sup : {"created", "spawning", "up", "exited", "recorded", "closed"},
        live : BOOLEAN, frames : Seq(Outs), handle : BOOLEAN, stdin : {"open", "closed"}]

TypeOK ==
  /\ BaseTypeOK
  /\ rx \in [Conns -> Receiver]
  /\ feed \in [Conns -> {"none", "run", "done"}]
  /\ box \in Box

Init ==
  /\ BaseInit
  /\ rx = [c \in Conns |-> [first |-> 0, next |-> 0, lagged |-> FALSE]]
  /\ feed = [c \in Conns |-> "none"]
  /\ box = [sup |-> "created", live |-> FALSE, frames |-> <<>>, handle |-> FALSE,
            stdin |-> "open"]

-----------------------------------------------------------------------------
(* subscribe_live: from here on, every frame. *)
AttachSubscribe(c) ==
  /\ hd[c].pc = "go" /\ box.live
  /\ Goto(c, IF Via(c) = "spdy" THEN "stdin" ELSE "stream")
  /\ rx' = [rx EXCEPT ![c].first = Len(box.frames), ![c].next = Len(box.frames)]
  /\ UNCHANGED <<reg, minted, conn, sent, status, feed, box>>

AttachNotRunning(c) ==
  /\ hd[c].pc = "go" /\ ~box.live
  /\ End(c, IF Tells(c) THEN "failure" ELSE "none")
  /\ UNCHANGED <<reg, minted, conn, sent, own>>

(* stdin_handle: without a handle the client's input goes nowhere. *)
AttachStdin(c) ==
  /\ hd[c].pc = "stdin"
  /\ feed' = [feed EXCEPT ![c] = IF "stdin" \in hd[c].got /\ box.handle THEN "run" ELSE "none"]
  /\ Goto(c, "stream")
  /\ UNCHANGED <<reg, minted, conn, sent, status, rx, box>>

Behind(c) == Len(box.frames) - rx[c].next
Frame(c)  == box.frames[rx[c].next + 1]

(* rx.recv(): the receiver lost what the bus no longer holds ... *)
AttachLagged(c) ==
  /\ hd[c].pc = "stream" /\ Behind(c) > BusSize
  /\ rx' = [rx EXCEPT ![c].next = Len(box.frames) - BusSize, ![c].lagged = TRUE]
  /\ UNCHANGED <<base, feed, box>>

(* Mutant: frames of both outputs go to the stdout stream. *)
AttachSendMixed(c) ==
  /\ hd[c].pc = "stream" /\ Behind(c) \in 1..BusSize
  /\ Up(c) \/ Frame(c) \notin hd[c].got
  /\ rx' = [rx EXCEPT ![c].next = @ + 1]
  /\ sent' = [sent EXCEPT ![c]["stdout"] = Append(@, rx[c].next + 1)]
  /\ UNCHANGED <<reg, minted, conn, hd, status, feed, box>>

(* ... or gets the next frame, and sends it on if it has a stream for it. *)
AttachSend(c) ==
  /\ hd[c].pc = "stream" /\ Behind(c) \in 1..BusSize
  /\ Up(c) \/ Frame(c) \notin hd[c].got
  /\ rx' = [rx EXCEPT ![c].next = @ + 1]
  /\ sent' = [sent EXCEPT ![c] =
               [s \in Outs |-> IF s = Frame(c) /\ s \in hd[c].got
                               THEN Append(@[s], rx[c].next + 1) ELSE @[s]]]
  /\ UNCHANGED <<reg, minted, conn, hd, status, feed, box>>

(* The client cannot be written to, or every sender of the bus is gone. *)
AttachEnd(c) ==
  /\ hd[c].pc = "stream"
  /\ \/ Behind(c) \in 1..BusSize /\ ~Up(c) /\ Frame(c) \in hd[c].got
     \/ Behind(c) = 0 /\ ~box.live
  /\ End(c, IF Tells(c) THEN "success" ELSE "none")
  /\ UNCHANGED <<reg, minted, conn, sent, own>>

-----------------------------------------------------------------------------
(* Mutant: the pipe stays open. *)
FeedStopsOnly(c) ==
  /\ feed' = [feed EXCEPT ![c] = "done"]
  /\ UNCHANGED box

(* The stdin task stops, and closes the pipe of a stdin_once container. *)
FeedStops(c) ==
  /\ feed' = [feed EXCEPT ![c] = "done"]
  /\ box' = [box EXCEPT !.stdin = IF hd[c].req.once THEN "closed" ELSE @]

Writable == box.stdin = "open" /\ box.sup = "up"

(* Mutant: the task does not wait for a chunk. *)
FeedUnasked(c) ==
  /\ feed[c] = "run"
  /\ conn' = [conn EXCEPT ![c].in = @ - 1]
  /\ IF Writable THEN UNCHANGED <<feed, box>> ELSE FeedStops(c)
  /\ UNCHANGED <<reg, minted, hd, sent, status, rx>>

(* A chunk for the pipe; no pipe any more, or nobody to read it, stops it. *)
FeedChunk(c) ==
  /\ feed[c] = "run" /\ conn[c].in > 0
  /\ conn' = [conn EXCEPT ![c].in = @ - 1]
  /\ IF Writable THEN UNCHANGED <<feed, box>> ELSE FeedStops(c)
  /\ UNCHANGED <<reg, minted, hd, sent, status, rx>>

FeedEof(c) ==
  /\ feed[c] = "run" /\ conn[c].in = 0 /\ ~conn[c].stdin
  /\ FeedStops(c)
  /\ UNCHANGED <<base, rx>>

-----------------------------------------------------------------------------
(* StartContainer: live_channel, then the supervision task is spawned. *)
StartLive ==
  /\ box.sup = "created"
  /\ box' = [box EXCEPT !.sup = "spawning", !.live = TRUE]
  /\ UNCHANGED <<base, rx, feed>>

(* supervise_container spawns `crun run' and publishes its stdin pipe. *)
SuperviseStdin ==
  /\ box.sup = "spawning"
  /\ box' = [box EXCEPT !.sup = "up", !.handle = TRUE]
  /\ UNCHANGED <<base, rx, feed>>

(* `crun run' cannot be spawned: supervise_container returns -1. *)
SuperviseSpawnFails ==
  /\ box.sup = "spawning"
  /\ box' = [box EXCEPT !.sup = "exited"]
  /\ UNCHANGED <<base, rx, feed>>

(* pump_stream: a chunk of output goes to the bus. *)
CtrWrite(s) ==
  /\ box.sup = "up" /\ Len(box.frames) < MaxLive
  /\ box' = [box EXCEPT !.frames = Append(@, s)]
  /\ UNCHANGED <<base, rx, feed>>

(* Mutant: the bus is closed before the exit is on record. *)
CtrExitCloses ==
  /\ box.sup = "up"
  /\ box' = [box EXCEPT !.sup = "exited", !.live = FALSE]
  /\ UNCHANGED <<base, rx, feed>>

(* The workload has ended, its output is pumped and `crun run' reaped. *)
CtrExit ==
  /\ box.sup = "up"
  /\ box' = [box EXCEPT !.sup = "exited"]
  /\ UNCHANGED <<base, rx, feed>>

(* A workload that ends at EOF of its stdin. *)
CtrFinish == box.stdin = "closed" /\ CtrExit

(* The record says Exited. *)
SuperviseRecord ==
  /\ box.sup = "exited"
  /\ box' = [box EXCEPT !.sup = "recorded"]
  /\ UNCHANGED <<base, rx, feed>>

(* Mutant: the live bus is not closed. *)
SuperviseCloseNoLive ==
  /\ box.sup = "recorded"
  /\ box' = [box EXCEPT !.sup = "closed", !.handle = FALSE]
  /\ UNCHANGED <<base, rx, feed>>

(* close_live, close_stdin: the last sender of the bus and the handle go. *)
SuperviseClose ==
  /\ box.sup = "recorded"
  /\ box' = [box EXCEPT !.sup = "closed", !.live = FALSE, !.handle = FALSE]
  /\ UNCHANGED <<base, rx, feed>>

-----------------------------------------------------------------------------
(* The Attach RPC. *)
AttachRequest == (\E t \in Tokens, r \in Requests : Register(t, r)) /\ UNCHANGED own

(* spdy_attach, handle_attach.  For an unknown token the one says GOAWAY, the
   other just returns. *)
HandlerStep(c) ==
  \/ Serve(c, "none") /\ UNCHANGED own
  \/ AttachSubscribe(c) \/ AttachNotRunning(c) \/ AttachStdin(c)
  \/ AttachLagged(c) \/ AttachSend(c) \/ AttachEnd(c)

ReadLoop(c) == LoopEof(c) /\ UNCHANGED own
FeedStep(c) == FeedChunk(c) \/ FeedEof(c)
Supervision == SuperviseStdin \/ SuperviseSpawnFails \/ SuperviseRecord \/ SuperviseClose

Next ==
  \/ AttachRequest
  \/ \E c \in Conns :
       (Client(c) /\ UNCHANGED own) \/ HandlerStep(c) \/ ReadLoop(c) \/ FeedStep(c)
  \/ StartLive \/ (\E s \in Outs : CtrWrite(s)) \/ CtrExit \/ Supervision

Spec == Init /\ [][Next]_vars

-----------------------------------------------------------------------------
(* Properties.                                                             *)

(* An attached client is sent the container's output from its subscription
   on, in order and without repeats; only a session that fell more than the
   bus behind has gaps. *)
Since(c, s) == {i \in rx[c].first + 1 .. rx[c].next : box.frames[i] = s}
Received(c, s) == {sent[c][s][i] : i \in DOMAIN sent[c][s]}
InOrder(q) == \A i, j \in DOMAIN q : i < j => q[i] < q[j]

AttachFaithful ==
  \A c \in Conns, s \in Outs :
    /\ InOrder(sent[c][s]) /\ Received(c, s) \subseteq Since(c, s)
    /\ s \in hd[c].got /\ ~rx[c].lagged => Since(c, s) \subseteq Received(c, s)

(* A client is told "Success" when the exit is on record, and not before it
   was sent the container's last frame: supervision closes the bus last. *)
SuccessIsLast ==
  \A c \in Conns :
    status[c] = "success" => /\ box.sup \notin {"spawning", "up", "exited"}
                             /\ rx[c].next = Len(box.frames)

(* tokio polls what is ready and supervision runs on; a container that ends
   at EOF ends.  Clients owe nothing. *)
Fairness ==
  /\ \A c \in Conns : WF_vars(HandlerStep(c)) /\ WF_vars(FeedStep(c)) /\ WF_vars(ReadLoop(c))
  /\ WF_vars(Supervision) /\ WF_vars(CtrFinish)

FairSpec == Spec /\ Fairness

(* An attached session ends when the container does, also a lagging one and
   one whose client is gone. *)
AttachEnds ==
  \A c \in Conns : (hd[c].pc = "stream" /\ box.sup = "exited") ~> (hd[c].pc = "end")

(* stdin_once: a client that closes its stdin stream or goes away ends the
   container, "so it can exit and the output streams can close". *)
StdinOnceCloses ==
  \A c \in Conns :
    (feed[c] # "none" /\ hd[c].req.once /\ (~Up(c) \/ ~conn[c].stdin)) ~> (hd[c].pc = "end")
=============================================================================
