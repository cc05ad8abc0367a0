---------------------------- MODULE StreamsProofs ----------------------------
(***************************************************************************)
(* What the proofs about exec and attach sessions share: how the steps of  *)
(* Streams change connections, handlers and registered sessions, and that  *)
(* they keep the types and the one-time tokens.                            *)
(***************************************************************************)
EXTENDS Streams, TLAPS

PCs == {"none", "take", "collect", "go", "accept", "run", "join", "stdin", "stream", "end"}

(* A handler that looks its token up has one that was handed out. *)
Dialed == \A c \in Conns : hd[c].pc = "take" => conn[c].token \in Tokens

BaseInv == BaseTypeOK /\ Dialed

(* The steps the two kinds of session share. *)
BaseStep(c, miss) ==
  \/ \E t \in Tokens, r \in Requests : Register(t, r)
  \/ Client(c) \/ Serve(c, miss) \/ LoopEof(c)

LEMMA BaseInitial == BaseInit => BaseInv
  BY StreamsAssumption
  DEF BaseInit, BaseInv, BaseTypeOK, Dialed, Conn, Handler, Outs, Types, Statuses, Request

(* What Goto and End leave behind. *)
LEMMA GotoHandler ==
  ASSUME BaseTypeOK, NEW c \in Conns, NEW pc \in PCs, Goto(c, pc)
  PROVE  /\ hd' \in [Conns -> Handler] /\ hd'[c].pc = pc
         /\ hd'[c].req = hd[c].req /\ hd'[c].got = hd[c].got
         /\ \A d \in Conns : d # c => hd'[d] = hd[d]
  <1>1. hd \in [Conns -> Handler]
    BY DEF BaseTypeOK
  <1>2. \A d \in Conns : hd'[d] = IF d = c THEN [hd[d] EXCEPT !.pc = pc] ELSE hd[d]
    BY <1>1 DEF Goto
  <1>3. [hd[c] EXCEPT !.pc = pc] \in Handler
    BY <1>1 DEF Handler, PCs
  <1>4. hd' \in [Conns -> Handler]
    BY <1>1, <1>2, <1>3 DEF Goto
  <1> QED BY <1>1, <1>2, <1>4 DEF Handler

LEMMA EndHandler ==
  ASSUME BaseTypeOK, NEW c \in Conns, NEW s \in Statuses, End(c, s)
  PROVE  /\ hd' \in [Conns -> Handler] /\ hd'[c].pc = "end"
         /\ hd'[c].req = hd[c].req /\ hd'[c].got = hd[c].got
         /\ \A d \in Conns : d # c => hd'[d] = hd[d] /\ status'[d] = status[d]
         /\ status' \in [Conns -> Statuses]
         /\ status'[c] = IF Up(c) THEN s ELSE status[c]
  <1>1. Goto(c, "end") /\ status' = [status EXCEPT ![c] = IF Up(c) THEN s ELSE @] /\ "end" \in PCs
    BY DEF End, PCs
  <1>2. /\ status' \in [Conns -> Statuses]
        /\ status'[c] = IF Up(c) THEN s ELSE status[c]
        /\ \A d \in Conns : d # c => status'[d] = status[d]
    BY <1>1 DEF BaseTypeOK
  <1> QED BY <1>1, <1>2, GotoHandler

LEMMA ConnTypes ==
  ASSUME NEW x \in Conn
  PROVE  /\ [x EXCEPT !.link = "down"] \in Conn
         /\ [x EXCEPT !.stdin = FALSE] \in Conn
         /\ [x EXCEPT !.loop = FALSE, !.stdin = FALSE] \in Conn
         /\ \A b \in BOOLEAN : [x EXCEPT !.stdin = b] \in Conn
         /\ \A t \in Tokens, b \in BOOLEAN :
              [x EXCEPT !.link = "up", !.token = t, !.loop = TRUE, !.stdin = b] \in Conn
         /\ x.in < MaxIn => [x EXCEPT !.in = @ + 1] \in Conn
         /\ x.in > 0 => [x EXCEPT !.in = @ - 1] \in Conn
  <1>1. x.in \in 0..MaxIn /\ MaxIn \in Nat
    BY StreamsAssumption DEF Conn
  <1>2. x.in < MaxIn => [x EXCEPT !.in = @ + 1] \in Conn
    BY <1>1 DEF Conn
  <1>3. x.in > 0 => [x EXCEPT !.in = @ - 1] \in Conn
    BY <1>1 DEF Conn
  <1>4. ASSUME NEW t \in Tokens, NEW b \in BOOLEAN
        PROVE  [x EXCEPT !.link = "up", !.token = t, !.loop = TRUE, !.stdin = b] \in Conn
    BY DEF Conn
  <1>5. ASSUME NEW b \in BOOLEAN
        PROVE  [x EXCEPT !.stdin = b] \in Conn
    BY DEF Conn
  <1>6. [x EXCEPT !.link = "down"] \in Conn /\ [x EXCEPT !.loop = FALSE, !.stdin = FALSE] \in Conn
    BY DEF Conn
  <1> QED BY <1>2, <1>3, <1>4, <1>5, <1>6

(* Connection c is replaced by one with the same token, no more up than it was. *)
ConnMoves(c) ==
  /\ conn' \in [Conns -> Conn] /\ conn'[c].token = conn[c].token
  /\ conn'[c].link = conn[c].link \/ (conn'[c].link = "down" /\ conn[c].link = "up")
  /\ \A d \in Conns : d # c => conn'[d] = conn[d]

LEMMA ConnUpdate ==
  ASSUME conn \in [Conns -> Conn], NEW c \in Conns, NEW x \in Conn,
         conn' = [conn EXCEPT ![c] = x], x.token = conn[c].token,
         x.link = conn[c].link \/ (x.link = "down" /\ conn[c].link = "up")
  PROVE  ConnMoves(c)
  BY DEF ConnMoves

(* The stdin task takes a chunk. *)
LEMMA ChunkMoves ==
  ASSUME BaseTypeOK, NEW c \in Conns, conn[c].in > 0, conn' = [conn EXCEPT ![c].in = @ - 1]
  PROVE  ConnMoves(c)
  <1>1. conn \in [Conns -> Conn] /\ conn[c] \in Conn
    BY DEF BaseTypeOK
  <1>2. conn' = [conn EXCEPT ![c] = [conn[c] EXCEPT !.in = @ - 1]]
    BY <1>1
  <1>3. [conn[c] EXCEPT !.in = @ - 1] \in Conn
    BY <1>1, ConnTypes
  <1>4. /\ [conn[c] EXCEPT !.in = @ - 1].token = conn[c].token
        /\ [conn[c] EXCEPT !.in = @ - 1].link = conn[c].link
    BY <1>1 DEF Conn
  <1> QED BY <1>1, <1>2, <1>3, <1>4, ConnUpdate

LEMMA ClientMoves ==
  ASSUME BaseTypeOK, NEW c \in Conns,
         ClientInput(c) \/ ClientFin(c) \/ ClientGoAway(c) \/ ClientGone(c) \/ LoopEof(c)
  PROVE  ConnMoves(c) /\ UNCHANGED <<reg, minted, hd, sent, status>>
  <1>c. conn \in [Conns -> Conn] /\ conn[c] \in Conn
    BY DEF BaseTypeOK
  <1>1. ASSUME ClientInput(c) PROVE ConnMoves(c)
    <2>1. conn' = [conn EXCEPT ![c] = [conn[c] EXCEPT !.in = @ + 1]]
      BY <1>c, <1>1 DEF ClientInput
    <2>2. [conn[c] EXCEPT !.in = @ + 1] \in Conn
      BY <1>c, <1>1, ConnTypes DEF ClientInput
    <2>3. /\ [conn[c] EXCEPT !.in = @ + 1].token = conn[c].token
          /\ [conn[c] EXCEPT !.in = @ + 1].link = conn[c].link
      BY <1>c DEF Conn
    <2> QED BY <1>c, <2>1, <2>2, <2>3, ConnUpdate
  <1>2. ASSUME ClientFin(c) PROVE ConnMoves(c)
    <2>1. conn' = [conn EXCEPT ![c] = [conn[c] EXCEPT !.stdin = FALSE]]
      BY <1>c, <1>2 DEF ClientFin
    <2>2. [conn[c] EXCEPT !.stdin = FALSE] \in Conn
      BY <1>c, ConnTypes
    <2>3. /\ [conn[c] EXCEPT !.stdin = FALSE].token = conn[c].token
          /\ [conn[c] EXCEPT !.stdin = FALSE].link = conn[c].link
      BY <1>c DEF Conn
    <2> QED BY <1>c, <2>1, <2>2, <2>3, ConnUpdate
  <1>3. ASSUME LoopEnds(c) PROVE ConnMoves(c)
    <2>1. conn' = [conn EXCEPT ![c] = [conn[c] EXCEPT !.loop = FALSE, !.stdin = FALSE]]
      BY <1>c, <1>3 DEF LoopEnds
    <2>2. [conn[c] EXCEPT !.loop = FALSE, !.stdin = FALSE] \in Conn
      BY <1>c, ConnTypes
    <2>3. /\ [conn[c] EXCEPT !.loop = FALSE, !.stdin = FALSE].token = conn[c].token
          /\ [conn[c] EXCEPT !.loop = FALSE, !.stdin = FALSE].link = conn[c].link
      BY <1>c DEF Conn
    <2> QED BY <1>c, <2>1, <2>2, <2>3, ConnUpdate
  <1>4. ASSUME ClientGone(c) PROVE ConnMoves(c)
    <2>1. conn' = [conn EXCEPT ![c] = [conn[c] EXCEPT !.link = "down"]] /\ conn[c].link = "up"
      BY <1>c, <1>4 DEF ClientGone, Up
    <2>2. [conn[c] EXCEPT !.link = "down"] \in Conn
      BY <1>c, ConnTypes
    <2>3. /\ [conn[c] EXCEPT !.link = "down"].token = conn[c].token
          /\ [conn[c] EXCEPT !.link = "down"].link = "down"
      BY <1>c DEF Conn
    <2> QED BY <1>c, <2>1, <2>2, <2>3, ConnUpdate
  <1>5. UNCHANGED <<reg, minted, hd, sent, status>>
    BY DEF ClientInput, ClientFin, ClientGoAway, ClientGone, LoopEof
  <1> QED BY <1>1, <1>2, <1>3, <1>4, <1>5 DEF ClientGoAway, LoopEof

LEMMA DialMoves ==
  ASSUME BaseTypeOK, NEW c \in Conns, NEW t \in Tokens, Dial(c, t)
  PROVE  /\ t \in minted /\ conn[c].link = "none"
         /\ conn' \in [Conns -> Conn] /\ conn'[c].token = t /\ conn'[c].link = "up"
         /\ \A d \in Conns : d # c => conn'[d] = conn[d]
         /\ hd' \in [Conns -> Handler] /\ hd'[c].pc = "take"
         /\ hd'[c].req = hd[c].req /\ hd'[c].got = hd[c].got
         /\ \A d \in Conns : d # c => hd'[d] = hd[d]
         /\ UNCHANGED <<reg, minted, sent, status>>
  <1>c. conn \in [Conns -> Conn] /\ conn[c] \in Conn /\ "take" \in PCs
    BY DEF BaseTypeOK, PCs
  <1> DEFINE x == [conn[c] EXCEPT !.link = "up", !.token = t, !.loop = TRUE,
                                  !.stdin = Via(c) # "spdy"]
  <1>1. conn' = [conn EXCEPT ![c] = x]
    BY <1>c DEF Dial
  <1>2. (Via(c) # "spdy") \in BOOLEAN
    OBVIOUS
  <1>3. x \in Conn
    BY <1>c, <1>2, ConnTypes
  <1>4. x.token = t /\ x.link = "up"
    BY <1>c DEF Conn
  <1>5. Goto(c, "take") /\ t \in minted /\ conn[c].link = "none" /\ UNCHANGED <<reg, minted, sent, status>>
    BY DEF Dial
  <1> HIDE DEF x
  <1> QED BY <1>c, <1>1, <1>3, <1>4, <1>5, GotoHandler

LEMMA TakeMoves ==
  ASSUME BaseInv, NEW c \in Conns, Take(c)
  PROVE  /\ hd[c].pc = "take" /\ conn[c].token \in Tokens /\ reg[conn[c].token] # None
         /\ reg' = [reg EXCEPT ![conn[c].token] = None]
         /\ hd' \in [Conns -> Handler] /\ hd'[c].pc \in {"collect", "go"}
         /\ hd'[c].req = reg[conn[c].token] /\ hd'[c].req \in Requests
         /\ hd'[c].got = IF Via(c) = "spdy" THEN {} ELSE Channels(Via(c))
         /\ \A d \in Conns : d # c => hd'[d] = hd[d]
         /\ UNCHANGED <<minted, conn, sent, status>>
  <1>1. hd[c].pc = "take" /\ reg[conn[c].token] # None /\ hd \in [Conns -> Handler] /\ hd[c] \in Handler
    BY DEF Take, BaseInv, BaseTypeOK
  <1>2. conn[c].token \in Tokens /\ reg[conn[c].token] \in Requests
    BY <1>1 DEF BaseInv, BaseTypeOK, Dialed
  <1>3. Channels(Via(c)) \in SUBSET Types
    BY DEF Channels, Types
  <1> DEFINE pc == IF Via(c) = "spdy" THEN "collect" ELSE "go"
             got == IF Via(c) = "spdy" THEN {} ELSE Channels(Via(c))
             y == [hd[c] EXCEPT !.pc = pc, !.req = reg[conn[c].token], !.got = got]
  <1>4. pc \in {"collect", "go"} /\ got \in SUBSET Types
    BY <1>3
  <1>5. hd' = [hd EXCEPT ![c] = y]
    BY <1>1 DEF Take
  <1> HIDE DEF pc, got
  <1>6. y \in Handler /\ y.pc = pc /\ y.req = reg[conn[c].token] /\ y.got = got
    BY <1>1, <1>2, <1>4 DEF Handler
  <1> HIDE DEF y
  <1>7. /\ hd' \in [Conns -> Handler] /\ hd'[c] = y
        /\ \A d \in Conns : d # c => hd'[d] = hd[d]
    BY <1>1, <1>5, <1>6
  <1> QED BY <1>1, <1>2, <1>4, <1>6, <1>7 DEF Take, got

LEMMA CollectMoves ==
  ASSUME BaseTypeOK, NEW c \in Conns, NEW streams \in SUBSET Types, Collect(c, streams)
  PROVE  /\ hd[c].pc = "collect" /\ streams \subseteq Wanted(hd[c].req) /\ ConnMoves(c)
         /\ hd' \in [Conns -> Handler] /\ hd'[c].pc = "go"
         /\ hd'[c].req = hd[c].req /\ hd'[c].got = streams
         /\ \A d \in Conns : d # c => hd'[d] = hd[d]
         /\ UNCHANGED <<reg, minted, sent, status>>
  <1>c. conn \in [Conns -> Conn] /\ conn[c] \in Conn /\ hd \in [Conns -> Handler] /\ hd[c] \in Handler
    BY DEF BaseTypeOK
  <1>1. ConnMoves(c)
    <2> DEFINE x == [conn[c] EXCEPT !.stdin = "stdin" \in streams /\ conn[c].loop]
    <2>1. conn' = [conn EXCEPT ![c] = x]
      BY <1>c DEF Collect
    <2>2. ("stdin" \in streams /\ conn[c].loop) \in BOOLEAN
      OBVIOUS
    <2>3. x \in Conn
      BY <1>c, <2>2, ConnTypes
    <2>4. x.token = conn[c].token /\ x.link = conn[c].link
      BY <1>c DEF Conn
    <2> HIDE DEF x
    <2> QED BY <1>c, <2>1, <2>3, <2>4, ConnUpdate
  <1>2. /\ hd' \in [Conns -> Handler] /\ hd'[c].pc = "go"
        /\ hd'[c].req = hd[c].req /\ hd'[c].got = streams
        /\ \A d \in Conns : d # c => hd'[d] = hd[d]
    BY <1>c DEF Collect, Handler
  <1> QED BY <1>1, <1>2 DEF Collect

LEMMA BaseTypes ==
  ASSUME BaseInv, NEW c \in Conns, NEW miss \in Statuses, BaseStep(c, miss)
  PROVE  BaseInv'
  <1>t. BaseTypeOK /\ Dialed /\ "none" \in Statuses
    BY DEF BaseInv, Statuses
  <1>1. ASSUME NEW t \in Tokens, NEW r \in Requests, Register(t, r) PROVE BaseInv'
    BY <1>1 DEF Register, BaseInv, BaseTypeOK, Dialed
  <1>2. ASSUME NEW t \in Tokens, Dial(c, t) PROVE BaseInv'
    BY <1>2, <1>t, DialMoves DEF BaseInv, BaseTypeOK, Dialed
  <1>3. ASSUME HandshakeFails(c) \/ TakeMissing(c, miss) PROVE BaseInv'
    BY <1>3, <1>t, EndHandler DEF HandshakeFails, TakeMissing, BaseInv, BaseTypeOK, Dialed
  <1>4. ASSUME Take(c) PROVE BaseInv'
    BY <1>4, <1>t, TakeMoves DEF BaseInv, BaseTypeOK, Dialed
  <1>5. ASSUME ClientInput(c) \/ ClientFin(c) \/ ClientGoAway(c) \/ ClientGone(c) \/ LoopEof(c)
        PROVE  BaseInv'
    BY <1>5, <1>t, ClientMoves DEF ConnMoves, BaseInv, BaseTypeOK, Dialed
  <1>6. ASSUME NEW streams \in SUBSET Types, Collect(c, streams) PROVE BaseInv'
    BY <1>6, <1>t, CollectMoves DEF ConnMoves, BaseInv, BaseTypeOK, Dialed
  <1> QED BY <1>1, <1>2, <1>3, <1>4, <1>5, <1>6 DEF BaseStep, Client, Serve

-----------------------------------------------------------------------------
(* A connection that was dialed has a token that was handed out, and one with
   a session has a token that is no longer registered. *)
Owned ==
  \A c \in Conns :
    /\ conn[c].link = "none" => hd[c].pc = "none"
    /\ hd[c].pc = "none" => hd[c].req = None
    /\ hd[c].pc # "none" => conn[c].token \in minted
    /\ hd[c].req # None => reg[conn[c].token] = None

SessionInv == BaseInv /\ Owned /\ OneSessionPerToken

LEMMA SessionInitial == BaseInit => SessionInv
  <1>1. BaseInit => Owned /\ OneSessionPerToken
    BY DEF BaseInit, Owned, OneSessionPerToken
  <1> QED BY <1>1, BaseInitial DEF SessionInv

(* What all steps but a registration, a dial and a lookup leave alone. *)
Steady ==
  /\ reg' = reg /\ minted' = minted
  /\ \A d \in Conns :
       /\ conn'[d].token = conn[d].token
       /\ conn'[d].link = "none" => conn[d].link = "none"
       /\ hd'[d].req = hd[d].req
       /\ hd'[d].pc = "none" <=> hd[d].pc = "none"

LEMMA SteadyKeeps ==
  ASSUME Owned, OneSessionPerToken, Steady
  PROVE  Owned' /\ OneSessionPerToken'
  BY DEF Owned, OneSessionPerToken, Steady

(* A handler that is at a step goes to another one. *)
LEMMA GotoSteady ==
  ASSUME BaseTypeOK, NEW c \in Conns, NEW pc \in PCs, pc # "none", hd[c].pc # "none", Goto(c, pc),
         UNCHANGED <<reg, minted, conn>>
  PROVE  Steady
  BY GotoHandler DEF Steady

LEMMA ConnSteady ==
  ASSUME NEW c \in Conns, UNCHANGED <<reg, minted, hd>>, ConnMoves(c)
  PROVE  Steady
  BY DEF ConnMoves, Steady

LEMMA BaseSessions ==
  ASSUME SessionInv, NEW c \in Conns, NEW miss \in Statuses, BaseStep(c, miss)
  PROVE  Owned' /\ OneSessionPerToken'
  <1>t. BaseInv /\ BaseTypeOK /\ Dialed /\ Owned /\ OneSessionPerToken
    BY DEF SessionInv, BaseInv
  <1>1. ASSUME NEW t \in Tokens, NEW r \in Requests, Register(t, r)
        PROVE  Owned' /\ OneSessionPerToken'
    <2>1. \A d \in Conns : hd[d].req # None => conn[d].token # t /\ hd[d].pc # "none"
      BY <1>t, <1>1 DEF Register, Owned
    <2>2. \A u \in minted : reg'[u] = reg[u]
      BY <1>t, <1>1 DEF Register, BaseTypeOK
    <2>3. \A d \in Conns : hd[d].req # None => reg'[conn[d].token] = None
      BY <1>t, <2>1, <2>2 DEF Owned
    <2> QED BY <1>t, <1>1, <2>3 DEF Register, Owned, OneSessionPerToken
  <1>2. ASSUME NEW t \in Tokens, Dial(c, t)
        PROVE  Owned' /\ OneSessionPerToken'
    <2>1. hd[c].req = None
      BY <1>t, <1>2, DialMoves DEF Owned
    <2>2. Owned'
      BY <1>t, <1>2, <2>1, DialMoves DEF Owned
    <2> QED BY <1>t, <1>2, <2>1, <2>2, DialMoves DEF OneSessionPerToken
  <1>3. ASSUME Take(c)
        PROVE  Owned' /\ OneSessionPerToken'
    <2> DEFINE t == conn[c].token
    <2>1. /\ t \in Tokens /\ reg[t] # None /\ hd[c].pc = "take"
          /\ hd'[c].pc \in {"collect", "go"} /\ reg' = [reg EXCEPT ![t] = None]
          /\ \A d \in Conns : d # c => hd'[d] = hd[d]
          /\ conn' = conn /\ minted' = minted
      BY <1>t, <1>3, TakeMoves
    <2>2. \A d \in Conns : conn[d].token = t => hd[d].req = None
      BY <1>t, <2>1 DEF Owned
    <2>3. reg'[t] = None /\ \A u \in Tokens \ {t} : reg'[u] = reg[u]
      BY <1>t, <2>1 DEF BaseTypeOK
    <2>4. \A d \in Conns : hd'[d].req # None => reg'[conn[d].token] = None
      <3>1. ASSUME NEW d \in Conns \ {c}, hd'[d].req # None PROVE reg'[conn[d].token] = None
        <4>1. hd[d].req # None /\ conn[d].token \in Tokens
          BY <1>t, <3>1, <2>1 DEF Owned, BaseTypeOK
        <4> QED BY <1>t, <4>1, <2>3 DEF Owned
      <3> QED BY <3>1, <2>3
    <2>5. Owned'
      BY <1>t, <2>1, <2>4 DEF Owned
    <2> QED BY <1>t, <2>1, <2>2, <2>5 DEF OneSessionPerToken
  <1>4. ASSUME HandshakeFails(c) \/ TakeMissing(c, miss) PROVE Steady
    BY <1>t, <1>4, GotoSteady DEF HandshakeFails, TakeMissing, End, PCs
  <1>5. ASSUME NEW streams \in SUBSET Types, Collect(c, streams) PROVE Steady
    BY <1>t, <1>5, CollectMoves DEF ConnMoves, Steady
  <1>6. ASSUME ClientInput(c) \/ ClientFin(c) \/ ClientGoAway(c) \/ ClientGone(c) \/ LoopEof(c)
        PROVE  Steady
    BY <1>t, <1>6, ClientMoves, ConnSteady
  <1> QED BY <1>t, <1>1, <1>2, <1>3, <1>4, <1>5, <1>6, SteadyKeeps DEF BaseStep, Client, Serve

-----------------------------------------------------------------------------
(* To a session's own state a shared step is one of two: the handler stays
   where it is, or it has not started and goes on, or ends. *)
Stays(c) == hd' = hd /\ status' = status /\ (Up(c)' => Up(c))
Starts(c, miss) ==
  /\ hd[c].pc \in {"none", "take", "collect"}
  /\ hd'[c].pc \in {"take", "collect", "go", "end"}
  /\ status'[c] \in {status[c], "none", miss}

LEMMA BaseEffect ==
  ASSUME BaseInv, Owned, NEW c \in Conns, NEW miss \in Statuses, BaseStep(c, miss)
  PROVE  /\ sent' = sent
         /\ \A d \in Conns : d # c => hd'[d] = hd[d] /\ status'[d] = status[d] /\ conn'[d] = conn[d]
         /\ Stays(c) \/ Starts(c, miss)
         /\ hd'[c].pc = "go" /\ hd[c].pc = "collect" =>
              hd'[c].req = hd[c].req /\ hd'[c].got \subseteq Wanted(hd[c].req)
  <1>t. BaseTypeOK /\ Dialed /\ "none" \in Statuses
    BY DEF BaseInv, Statuses
  <1> DEFINE P == /\ sent' = sent
                  /\ \A d \in Conns : d # c => hd'[d] = hd[d] /\ status'[d] = status[d] /\ conn'[d] = conn[d]
                  /\ Stays(c) \/ Starts(c, miss)
                  /\ hd'[c].pc = "go" /\ hd[c].pc = "collect" =>
                       hd'[c].req = hd[c].req /\ hd'[c].got \subseteq Wanted(hd[c].req)
  <1>1. ASSUME NEW t \in Tokens, NEW r \in Requests, Register(t, r) PROVE P
    BY <1>1 DEF Register, Stays, Up
  <1>2. ASSUME NEW t \in Tokens, Dial(c, t) PROVE P
    <2>1. hd[c].pc = "none"
      BY <1>t, <1>2, DialMoves DEF Owned
    <2> QED BY <1>t, <1>2, <2>1, DialMoves DEF Starts
  <1>3. ASSUME HandshakeFails(c) \/ TakeMissing(c, miss) PROVE P
    BY <1>3, <1>t, EndHandler DEF HandshakeFails, TakeMissing, Starts
  <1>4. ASSUME Take(c) PROVE P
    BY <1>4, <1>t, TakeMoves DEF Starts
  <1>5. ASSUME ClientInput(c) \/ ClientFin(c) \/ ClientGoAway(c) \/ ClientGone(c) \/ LoopEof(c)
        PROVE  P
    BY <1>5, <1>t, ClientMoves DEF ConnMoves, Stays, Up
  <1>6. ASSUME NEW streams \in SUBSET Types, Collect(c, streams) PROVE P
    BY <1>6, <1>t, CollectMoves DEF ConnMoves, Starts
  <1> QED BY <1>1, <1>2, <1>3, <1>4, <1>5, <1>6 DEF BaseStep, Client, Serve
=============================================================================
