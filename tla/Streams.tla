------------------------------ MODULE Streams ------------------------------
(***************************************************************************)
(* What exec and attach sessions of the streaming server share             *)
(* (crates/cri/src/streaming.rs, spdy.rs): one-time tokens, the connection *)
(* a client dials one with, read_loop's handling of its frames, and the    *)
(* collection of the streams it opens.  Exec.tla and Attach.tla extend     *)
(* this module with the two kinds of session.                              *)
(*                                                                         *)
(* Read_loop handles frames in the order they arrive and nothing looks at  *)
(* them before, so sending a frame and handling it are one step; frames of *)
(* a client whose session is not taken yet wait for that.  Of the inbound  *)
(* data channels only stdin's has a reader, which is why the others carry  *)
(* no data here.  The client reads what it is sent until it goes away.     *)
(***************************************************************************)
EXTENDS Naturals, Sequences

CONSTANTS
  Conns,      \* connections clients can make (each once)
  Tokens,     \* tokens Sessions::token can generate (each once)
  Requests,   \* requests of the clients: which streams, a terminal, stdin_once
  Transport,  \* how each connection is made
  MaxIn,      \* bound: input chunks queued on a connection
  None        \* no request, no token

Outs  == {"stdout", "stderr"}
Types == Outs \cup {"error", "stdin"}

(* ExecSession, AttachSession *)
Request == [tty : BOOLEAN, want : SUBSET {"stdin", "stdout", "stderr"}, once : BOOLEAN]

ASSUME StreamsAssumption ==
  /\ Requests \subseteq Request
  /\ Transport \in [Conns -> {"spdy", "ws", "v1"}]   \* v1: ws, no error channel
  /\ None \notin Requests \cup Tokens
  /\ MaxIn \in Nat

VARIABLES
  reg,      \* Sessions: the pending session of each token
  minted,   \* tokens handed out so far
  conn,     \* connections: socket, read loop, the data channel of stdin
  hd,       \* the handler of each connection
  sent,     \* chunks written to the client, per stream
  status    \* what the client was told at the end

base == <<reg, minted, conn, hd, sent, status>>

(* status_success, status_failure, status_exit of another code, and what v1
   writes to stderr instead. *)
Statuses == {"none", "success", "failure", "exit", "trailer"}

Conn == [link : {"none", "up", "down"}, token : Tokens \cup {None},
         loop : BOOLEAN, stdin : BOOLEAN, in : 0..MaxIn]

Handler == [pc : {"none", "take", "collect", "go", "accept", "run", "join",
                  "stdin", "stream", "end"},
            req : Requests \cup {None}, got : SUBSET Types]

BaseTypeOK ==
  /\ reg \in [Tokens -> Requests \cup {None}]
  /\ minted \subseteq Tokens
  /\ conn \in [Conns -> Conn]
  /\ hd \in [Conns -> Handler]
  /\ sent \in [Conns -> [Outs -> Seq(Nat)]]
  /\ status \in [Conns -> Statuses]

BaseInit ==
  /\ reg = [t \in Tokens |-> None]
  /\ minted = {}
  /\ conn = [c \in Conns |-> [link |-> "none", token |-> None,
               loop |-> FALSE, stdin |-> FALSE, in |-> 0]]
  /\ hd = [c \in Conns |-> [pc |-> "none", req |-> None, got |-> {}]]
  /\ sent = [c \in Conns |-> [s \in Outs |-> <<>>]]
  /\ status = [c \in Conns |-> "none"]

Via(c) == Transport[c]
Up(c)  == conn[c].link = "up"

Goto(c, pc) == hd' = [hd EXCEPT ![c].pc = pc]

(* The session is over, having told the client s if it still listens. *)
End(c, s) ==
  /\ Goto(c, "end")
  /\ status' = [status EXCEPT ![c] = IF Up(c) THEN s ELSE @]

(* There is an error channel to tell the client on. *)
Tells(c) == Via(c) # "spdy" \/ "error" \in hd[c].got

-----------------------------------------------------------------------------
(* The Exec and Attach RPCs: register_exec, register_attach. *)
Register(t, r) ==
  /\ t \notin minted
  /\ minted' = minted \cup {t}
  /\ reg' = [reg EXCEPT ![t] = r]
  /\ UNCHANGED <<conn, hd, sent, status>>

(* A client dials the URL: the upgrade, spdy::serve and its read loop.  A
   WebSocket always carries stdin. *)
Dial(c, t) ==
  /\ conn[c].link = "none" /\ t \in minted
  /\ conn' = [conn EXCEPT ![c].link = "up", ![c].token = t,
                          ![c].loop = TRUE, ![c].stdin = Via(c) # "spdy"]
  /\ Goto(c, "take")
  /\ UNCHANGED <<reg, minted, sent, status>>

(* The upgrade or the first SETTINGS fails: the handler never runs. *)
HandshakeFails(c) ==
  /\ hd[c].pc = "take" /\ ~Up(c)
  /\ End(c, "none")
  /\ UNCHANGED <<reg, minted, conn, sent>>

(* What a WebSocket session has without collecting anything. *)
Channels(via) == IF via = "v1" THEN Outs ELSE Outs \cup {"error"}

(* Mutant: the lookup leaves the session in the map. *)
TakeKeeps(c) ==
  /\ hd[c].pc = "take" /\ reg[conn[c].token] # None
  /\ hd' = [hd EXCEPT ![c].pc  = IF Via(c) = "spdy" THEN "collect" ELSE "go",
                      ![c].req = reg[conn[c].token],
                      ![c].got = IF Via(c) = "spdy" THEN {} ELSE Channels(Via(c))]
  /\ UNCHANGED <<reg, minted, conn, sent, status>>

(* take_exec, take_attach: the lookup removes the session. *)
Take(c) ==
  /\ hd[c].pc = "take" /\ reg[conn[c].token] # None
  /\ reg' = [reg EXCEPT ![conn[c].token] = None]
  /\ hd' = [hd EXCEPT ![c].pc  = IF Via(c) = "spdy" THEN "collect" ELSE "go",
                      ![c].req = reg[conn[c].token],
                      ![c].got = IF Via(c) = "spdy" THEN {} ELSE Channels(Via(c))]
  /\ UNCHANGED <<minted, conn, sent, status>>

(* An unknown or used token; miss is what the endpoint tells the client. *)
TakeMissing(c, miss) ==
  /\ hd[c].pc = "take" /\ reg[conn[c].token] = None
  /\ End(c, miss)
  /\ UNCHANGED <<reg, minted, conn, sent>>

-----------------------------------------------------------------------------
(* The client's frames.  What it does after its session is left out. *)
Reading(c) == Up(c) /\ conn[c].loop /\ hd[c].req # None /\ hd[c].pc # "end"

(* DATA on the stdin stream, or a WebSocket message on channel 0. *)
ClientInput(c) ==
  /\ Reading(c) /\ conn[c].stdin /\ conn[c].in < MaxIn
  /\ conn' = [conn EXCEPT ![c].in = @ + 1]
  /\ UNCHANGED <<reg, minted, hd, sent, status>>

(* FLAG_FIN or RST_STREAM: the stream's sender is dropped. *)
ClientFin(c) ==
  /\ Reading(c) /\ Via(c) = "spdy" /\ conn[c].stdin
  /\ conn' = [conn EXCEPT ![c].stdin = FALSE]
  /\ UNCHANGED <<reg, minted, hd, sent, status>>

(* Mutant: read_loop returns but its senders stay. *)
LoopEndsKeeps(c) == conn' = [conn EXCEPT ![c].loop = FALSE]

LoopEnds(c) == conn' = [conn EXCEPT ![c].loop = FALSE, ![c].stdin = FALSE]

(* GOAWAY: read_loop returns, the socket can still be written. *)
ClientGoAway(c) ==
  /\ Reading(c) /\ Via(c) = "spdy"
  /\ LoopEnds(c)
  /\ UNCHANGED <<reg, minted, hd, sent, status>>

(* The client goes away; read_loop finds out when it reads. *)
ClientGone(c) ==
  /\ Up(c) /\ hd[c].pc # "end"
  /\ conn' = [conn EXCEPT ![c].link = "down"]
  /\ UNCHANGED <<reg, minted, hd, sent, status>>

LoopEof(c) ==
  /\ conn[c].link = "down" /\ conn[c].loop /\ hd[c].req # None
  /\ LoopEnds(c)
  /\ UNCHANGED <<reg, minted, hd, sent, status>>

-----------------------------------------------------------------------------
(* The streams a client opens; a terminal has no stderr stream. *)
Wanted(r) == {"error"} \cup IF r.tty THEN r.want \ {"stderr"} ELSE r.want

(* collect_rc_streams goes on with the streams whose SYN_STREAM came (each is
   replied to, gets its data channel and is queued for accept()) when these
   are all it waits for, none came for 10 s, or the connection closed.  No one
   accepts a later one. *)
Collect(c, streams) ==
  /\ hd[c].pc = "collect" /\ streams \subseteq Wanted(hd[c].req)
  /\ hd' = [hd EXCEPT ![c].pc = "go", ![c].got = streams]
  /\ conn' = [conn EXCEPT ![c].stdin = "stdin" \in streams /\ conn[c].loop]
  /\ UNCHANGED <<reg, minted, sent, status>>

-----------------------------------------------------------------------------
Client(c) ==
  \/ \E t \in Tokens : Dial(c, t)
  \/ ClientInput(c) \/ ClientFin(c) \/ ClientGoAway(c) \/ ClientGone(c)

Serve(c, miss) ==
  \/ HandshakeFails(c) \/ Take(c) \/ TakeMissing(c, miss)
  \/ \E streams \in SUBSET Types : Collect(c, streams)

(* A token opens one session, however many connections dial it. *)
OneSessionPerToken ==
  \A c, d \in Conns :
    c # d /\ conn[c].token = conn[d].token => hd[c].req = None \/ hd[d].req = None

UpTo(n) == [i \in 1..n |-> i]
=============================================================================
