---------------------------- MODULE AttachProofs ----------------------------
(***************************************************************************)
(* Theorems about Attach, for any connections, tokens and requests: the    *)
(* types of its state, one session per token, what a client is sent, and   *)
(* when it is told that the container has ended.                           *)
(***************************************************************************)
EXTENDS Attach, StreamsProofs

(* The output is bounded, and a handler that looks its token up has one. *)
TypeInv == TypeOK /\ Dialed /\ Len(box.frames) <= MaxLive

LEMMA TypeInit == Init => TypeInv
  <1> SUFFICES ASSUME Init PROVE TypeInv
    OBVIOUS
  <1>1. BaseInv
    BY BaseInitial DEF Init
  <1>2. /\ rx \in [Conns -> Receiver] /\ feed \in [Conns -> {"none", "run", "done"}]
        /\ box \in Box /\ Len(box.frames) <= MaxLive
    BY AttachAssumption DEF Init, Receiver, Box, Outs
  <1> QED BY <1>1, <1>2 DEF BaseInv, TypeInv, TypeOK

LEMMA BoxTypes ==
  ASSUME NEW b \in Box
  PROVE  /\ [b EXCEPT !.stdin = "closed"] \in Box
         /\ [b EXCEPT !.sup = "spawning", !.live = TRUE] \in Box
         /\ [b EXCEPT !.sup = "up", !.handle = TRUE] \in Box
         /\ [b EXCEPT !.sup = "exited"] \in Box
         /\ [b EXCEPT !.sup = "recorded"] \in Box
         /\ [b EXCEPT !.sup = "closed", !.live = FALSE, !.handle = FALSE] \in Box
         /\ \A s \in Outs : [b EXCEPT !.frames = Append(@, s)] \in Box
  <1>1. ASSUME NEW s \in Outs PROVE [b EXCEPT !.frames = Append(@, s)] \in Box
    <2>1. b.frames \in Seq(Outs)
      BY DEF Box
    <2>2. Append(b.frames, s) \in Seq(Outs)
      BY <2>1
    <2> QED BY <2>2 DEF Box
  <1>2. /\ [b EXCEPT !.stdin = "closed"] \in Box
        /\ [b EXCEPT !.sup = "exited"] \in Box
        /\ [b EXCEPT !.sup = "recorded"] \in Box
    BY DEF Box
  <1>3. [b EXCEPT !.sup = "spawning", !.live = TRUE] \in Box
    BY DEF Box
  <1>4. [b EXCEPT !.sup = "up", !.handle = TRUE] \in Box
    BY DEF Box
  <1>5. [b EXCEPT !.sup = "closed", !.live = FALSE, !.handle = FALSE] \in Box
    BY DEF Box
  <1> QED BY <1>1, <1>2, <1>3, <1>4, <1>5

(* The container's output grows while it is up, and only then. *)
Grows ==
  \/ box'.frames = box.frames
  \/ \E s \in Outs : box.sup = "up" /\ box'.frames = Append(box.frames, s) /\ Len(box.frames) < MaxLive

(* The stages of the container and the live bus. *)
Ages ==
  \/ box'.sup = box.sup /\ box'.live = box.live
  \/ box.sup = "created" /\ box'.sup = "spawning" /\ box'.live = TRUE
  \/ box.sup = "spawning" /\ box'.sup \in {"up", "exited"} /\ box'.live = box.live
  \/ box.sup = "up" /\ box'.sup = "exited" /\ box'.live = box.live
  \/ box.sup = "exited" /\ box'.sup = "recorded" /\ box'.live = box.live
  \/ box.sup = "recorded" /\ box'.sup = "closed" /\ box'.live = FALSE

(* The container and its supervision. *)
LEMMA BoxSteps ==
  ASSUME TypeInv,
         StartLive \/ (\E s \in Outs : CtrWrite(s)) \/ CtrExit \/ Supervision
  PROVE  /\ UNCHANGED <<reg, minted, conn, hd, sent, status, rx, feed>>
         /\ box' \in Box /\ Grows /\ Ages
  <1>b. box \in Box
    BY DEF TypeInv, TypeOK
  <1>u. UNCHANGED <<reg, minted, conn, hd, sent, status, rx, feed>>
    BY DEF StartLive, CtrWrite, CtrExit, Supervision, SuperviseStdin, SuperviseSpawnFails,
           SuperviseRecord, SuperviseClose, base
  <1>1. ASSUME NEW s \in Outs, CtrWrite(s) PROVE box' \in Box /\ Grows /\ Ages
    <2>1. /\ box' = [box EXCEPT !.frames = Append(@, s)]
          /\ box.sup = "up" /\ Len(box.frames) < MaxLive
      BY <1>1 DEF CtrWrite
    <2>2. box' \in Box
      BY <1>b, <2>1, BoxTypes
    <2>3. box'.frames = Append(box.frames, s) /\ box'.sup = box.sup /\ box'.live = box.live
      BY <1>b, <2>1 DEF Box
    <2> QED BY <2>1, <2>2, <2>3 DEF Grows, Ages
  <1>2. ASSUME StartLive \/ CtrExit \/ Supervision PROVE box' \in Box /\ Grows /\ Ages
    <2>1. box' \in Box
      BY <1>b, <1>2, BoxTypes
      DEF StartLive, CtrExit, Supervision, SuperviseStdin, SuperviseSpawnFails, SuperviseRecord,
          SuperviseClose
    <2>2. box'.frames = box.frames
      BY <1>b, <1>2
      DEF StartLive, CtrExit, Supervision, SuperviseStdin, SuperviseSpawnFails, SuperviseRecord,
          SuperviseClose, Box
    <2>3. Ages
      BY <1>b, <1>2
      DEF StartLive, CtrExit, Supervision, SuperviseStdin, SuperviseSpawnFails, SuperviseRecord,
          SuperviseClose, Box, Ages
    <2> QED BY <2>1, <2>2, <2>3 DEF Grows
  <1> QED BY <1>u, <1>1, <1>2

(* The stdin tasks. *)
LEMMA FeedSteps ==
  ASSUME TypeInv, NEW c \in Conns, FeedStep(c)
  PROVE  /\ UNCHANGED <<reg, minted, hd, sent, status, rx>>
         /\ ConnMoves(c) /\ feed' \in [Conns -> {"none", "run", "done"}]
         /\ box' \in Box /\ box'.frames = box.frames /\ box'.sup = box.sup /\ box'.live = box.live
  <1>b. box \in Box
    BY DEF TypeInv, TypeOK
  <1>c. BaseTypeOK /\ conn \in [Conns -> Conn]
    BY DEF TypeInv, TypeOK, BaseTypeOK
  <1>u. UNCHANGED <<reg, minted, hd, sent, status, rx>>
    BY DEF FeedStep, FeedChunk, FeedEof, base
  <1>1. /\ feed' \in [Conns -> {"none", "run", "done"}]
        /\ box' \in Box /\ box'.frames = box.frames /\ box'.sup = box.sup /\ box'.live = box.live
    <2>1. ASSUME FeedStops(c) PROVE <1>1!:
      <3>1. feed' \in [Conns -> {"none", "run", "done"}]
        BY <2>1 DEF FeedStops, TypeInv, TypeOK
      <3>2. box' = [box EXCEPT !.stdin = "closed"] \/ box' = [box EXCEPT !.stdin = box.stdin]
        BY <2>1 DEF FeedStops
      <3>3. [box EXCEPT !.stdin = box.stdin] = box
        BY <1>b DEF Box
      <3>4. box' \in Box
        BY <1>b, <3>2, <3>3, BoxTypes
      <3>5. box'.frames = box.frames /\ box'.sup = box.sup /\ box'.live = box.live
        BY <1>b, <3>2, <3>3 DEF Box
      <3> QED BY <3>1, <3>4, <3>5
    <2>2. ASSUME UNCHANGED <<feed, box>> PROVE <1>1!:
      BY <1>b, <2>2 DEF TypeInv, TypeOK
    <2> QED BY <2>1, <2>2 DEF FeedStep, FeedChunk, FeedEof
  <1>2. ConnMoves(c)
    <2>1. CASE FeedChunk(c)
      BY <1>c, <2>1, ChunkMoves DEF FeedChunk
    <2>2. CASE FeedEof(c)
      BY <1>c, <2>2 DEF FeedEof, base, ConnMoves
    <2> QED BY <2>1, <2>2 DEF FeedStep
  <1> QED BY <1>u, <1>1, <1>2

-----------------------------------------------------------------------------
(* The attach handler: its place on the bus. *)
LEMMA Moved ==
  ASSUME rx \in [Conns -> Receiver], NEW c \in Conns, NEW n \in 0..MaxLive,
         rx' = [rx EXCEPT ![c].next = n]
  PROVE  /\ rx' \in [Conns -> Receiver] /\ \A d \in Conns : d # c => rx'[d] = rx[d]
         /\ rx'[c].next = n /\ rx'[c].first = rx[c].first /\ rx'[c].lagged = rx[c].lagged
  BY DEF Receiver

LEMMA Subscribed ==
  ASSUME rx \in [Conns -> Receiver], NEW c \in Conns, NEW n \in 0..MaxLive,
         rx' = [rx EXCEPT ![c].first = n, ![c].next = n]
  PROVE  /\ rx' \in [Conns -> Receiver] /\ \A d \in Conns : d # c => rx'[d] = rx[d]
         /\ rx'[c].next = n /\ rx'[c].first = n /\ rx'[c].lagged = rx[c].lagged
  BY DEF Receiver

LEMMA FellBehind ==
  ASSUME rx \in [Conns -> Receiver], NEW c \in Conns, NEW n \in 0..MaxLive,
         rx' = [rx EXCEPT ![c].next = n, ![c].lagged = TRUE]
  PROVE  /\ rx' \in [Conns -> Receiver] /\ \A d \in Conns : d # c => rx'[d] = rx[d]
         /\ rx'[c].next = n /\ rx'[c].first = rx[c].first /\ rx'[c].lagged = TRUE
  BY DEF Receiver

LEMMA PlaceTypes ==
  ASSUME TypeInv, NEW c \in Conns
  PROVE  /\ box \in Box /\ box.frames \in Seq(Outs) /\ Len(box.frames) \in 0..MaxLive
         /\ BusSize \in Nat \ {0} /\ MaxLive \in Nat
         /\ rx \in [Conns -> Receiver] /\ rx[c].next \in 0..MaxLive /\ rx[c].first \in 0..MaxLive
         /\ BaseTypeOK /\ BaseInv
  BY AttachAssumption DEF TypeInv, TypeOK, Box, Receiver, BaseInv

LEMMA SubscribeMoves ==
  ASSUME TypeInv, NEW c \in Conns, AttachSubscribe(c)
  PROVE  /\ hd[c].pc = "go" /\ box.live
         /\ hd' \in [Conns -> Handler] /\ hd'[c].pc \in {"stdin", "stream"}
         /\ hd'[c].req = hd[c].req /\ hd'[c].got = hd[c].got
         /\ \A d \in Conns : d # c => hd'[d] = hd[d] /\ rx'[d] = rx[d]
         /\ rx' \in [Conns -> Receiver] /\ rx'[c].lagged = rx[c].lagged
         /\ rx'[c].first = Len(box.frames) /\ rx'[c].next = Len(box.frames)
         /\ UNCHANGED <<reg, minted, conn, sent, status, feed, box>>
  <1>1. PICK pc \in {"stdin", "stream"} : Goto(c, pc)
    BY DEF AttachSubscribe
  <1>2. pc \in PCs
    BY <1>1 DEF PCs
  <1>3. rx' = [rx EXCEPT ![c].first = Len(box.frames), ![c].next = Len(box.frames)]
    BY DEF AttachSubscribe
  <1>4. /\ rx' \in [Conns -> Receiver] /\ \A d \in Conns : d # c => rx'[d] = rx[d]
        /\ rx'[c].first = Len(box.frames) /\ rx'[c].next = Len(box.frames)
        /\ rx'[c].lagged = rx[c].lagged
    BY <1>3, PlaceTypes, Subscribed
  <1> QED BY <1>1, <1>2, <1>4, PlaceTypes, GotoHandler DEF AttachSubscribe

LEMMA StdinMoves ==
  ASSUME TypeInv, NEW c \in Conns, AttachStdin(c)
  PROVE  /\ hd[c].pc = "stdin" /\ hd' \in [Conns -> Handler] /\ hd'[c].pc = "stream"
         /\ hd'[c].req = hd[c].req /\ hd'[c].got = hd[c].got
         /\ \A d \in Conns : d # c => hd'[d] = hd[d]
         /\ feed' \in [Conns -> {"none", "run", "done"}]
         /\ UNCHANGED <<reg, minted, conn, sent, status, rx, box>>
  <1>1. "stream" \in PCs
    BY DEF PCs
  <1>2. feed' \in [Conns -> {"none", "run", "done"}]
    BY DEF AttachStdin, TypeInv, TypeOK
  <1> QED BY <1>1, <1>2, PlaceTypes, GotoHandler DEF AttachStdin

LEMMA LagMoves ==
  ASSUME TypeInv, NEW c \in Conns, AttachLagged(c)
  PROVE  /\ hd[c].pc = "stream" /\ rx' \in [Conns -> Receiver]
         /\ \A d \in Conns : d # c => rx'[d] = rx[d]
         /\ rx'[c].first = rx[c].first /\ rx'[c].lagged = TRUE
         /\ rx[c].next < rx'[c].next /\ rx'[c].next <= Len(box.frames)
         /\ UNCHANGED <<reg, minted, conn, hd, sent, status, feed, box>>
  <1>1. Len(box.frames) - BusSize \in 0..MaxLive /\ rx[c].next < Len(box.frames) - BusSize
    BY PlaceTypes DEF AttachLagged, Behind
  <1>2. rx' = [rx EXCEPT ![c].next = Len(box.frames) - BusSize, ![c].lagged = TRUE]
    BY DEF AttachLagged
  <1>3. /\ rx' \in [Conns -> Receiver] /\ \A d \in Conns : d # c => rx'[d] = rx[d]
        /\ rx'[c].next = Len(box.frames) - BusSize
        /\ rx'[c].first = rx[c].first /\ rx'[c].lagged = TRUE
    BY <1>1, <1>2, PlaceTypes, FellBehind
  <1>4. Len(box.frames) - BusSize <= Len(box.frames)
    BY PlaceTypes
  <1> QED BY <1>1, <1>3, <1>4 DEF AttachLagged, base

LEMMA SendMoves ==
  ASSUME TypeInv, NEW c \in Conns, AttachSend(c)
  PROVE  /\ hd[c].pc = "stream" /\ rx' \in [Conns -> Receiver]
         /\ \A d \in Conns : d # c => rx'[d] = rx[d] /\ sent'[d] = sent[d]
         /\ rx'[c].first = rx[c].first /\ rx'[c].lagged = rx[c].lagged
         /\ rx'[c].next = rx[c].next + 1 /\ rx[c].next < Len(box.frames)
         /\ sent' \in [Conns -> [Outs -> Seq(Nat)]]
         /\ \A s \in Outs :
              sent'[c][s] = IF s = box.frames[rx[c].next + 1] /\ s \in hd[c].got
                              THEN Append(sent[c][s], rx[c].next + 1) ELSE sent[c][s]
         /\ UNCHANGED <<reg, minted, conn, hd, status, feed, box>>
  <1>1. rx[c].next + 1 \in 0..MaxLive /\ rx[c].next + 1 \in Nat /\ rx[c].next < Len(box.frames)
    BY PlaceTypes DEF AttachSend, Behind
  <1>2. rx' = [rx EXCEPT ![c].next = rx[c].next + 1]
    BY DEF AttachSend
  <1>3. /\ rx' \in [Conns -> Receiver] /\ \A d \in Conns : d # c => rx'[d] = rx[d]
        /\ rx'[c].first = rx[c].first /\ rx'[c].lagged = rx[c].lagged
        /\ rx'[c].next = rx[c].next + 1
    BY <1>1, <1>2, PlaceTypes, Moved
  <1>4. sent \in [Conns -> [Outs -> Seq(Nat)]]
    BY PlaceTypes DEF BaseTypeOK
  <1> DEFINE new == [s \in Outs |-> IF s = box.frames[rx[c].next + 1] /\ s \in hd[c].got
                                      THEN Append(sent[c][s], rx[c].next + 1) ELSE sent[c][s]]
  <1>5. sent' = [sent EXCEPT ![c] = new]
    BY DEF AttachSend, Frame
  <1>6. new \in [Outs -> Seq(Nat)]
    BY <1>1, <1>4
  <1>7. /\ sent' \in [Conns -> [Outs -> Seq(Nat)]] /\ sent'[c] = new
        /\ \A d \in Conns : d # c => sent'[d] = sent[d]
    <2> HIDE DEF new
    <2> QED BY <1>4, <1>5, <1>6
  <1> QED BY <1>1, <1>3, <1>7 DEF AttachSend

LEMMA EndMoves ==
  ASSUME TypeInv, NEW c \in Conns, AttachNotRunning(c) \/ AttachEnd(c)
  PROVE  /\ hd[c].pc \in {"go", "stream"} /\ hd' \in [Conns -> Handler] /\ hd'[c].pc = "end"
         /\ hd'[c].req = hd[c].req /\ hd'[c].got = hd[c].got
         /\ \A d \in Conns : d # c => hd'[d] = hd[d] /\ status'[d] = status[d]
         /\ status' \in [Conns -> Statuses]
         /\ \/ status'[c] \in {status[c], "none", "failure"}
            \/ hd[c].pc = "stream" /\ rx[c].next = Len(box.frames) /\ ~box.live
         /\ UNCHANGED <<reg, minted, conn, sent, rx, feed, box>>
  <1>s. {"none", "success", "failure"} \subseteq Statuses
    BY DEF Statuses
  <1>1. CASE AttachNotRunning(c)
    <2>1. PICK s \in {"none", "failure"} : End(c, s)
      BY <1>1 DEF AttachNotRunning
    <2> QED BY <1>1, <1>s, <2>1, PlaceTypes, EndHandler DEF AttachNotRunning, own
  <1>2. CASE AttachEnd(c)
    <2>1. PICK s \in {"none", "success"} : End(c, s)
      BY <1>2 DEF AttachEnd
    <2>2. ~Up(c) \/ (rx[c].next = Len(box.frames) /\ ~box.live)
      BY <1>2, PlaceTypes DEF AttachEnd, Behind
    <2> QED BY <1>2, <1>s, <2>1, <2>2, PlaceTypes, EndHandler DEF AttachEnd, own
  <1> QED BY <1>1, <1>2

-----------------------------------------------------------------------------
LEMMA TypeStep == TypeInv /\ [Next]_vars => TypeInv'
  <1> SUFFICES ASSUME TypeInv, [Next]_vars PROVE TypeInv'
    OBVIOUS
  <1>t. TypeOK /\ Dialed /\ Len(box.frames) <= MaxLive /\ BaseInv /\ "none" \in Statuses
    BY DEF TypeInv, TypeOK, BaseInv, Statuses
  <1>1. CASE UNCHANGED vars
    BY <1>1, <1>t DEF vars, base, own, TypeInv, TypeOK, BaseTypeOK, Dialed
  <1>2. ASSUME NEW c \in Conns, BaseStep(c, "none"), UNCHANGED own PROVE TypeInv'
    <2>1. BaseInv'
      BY <1>2, <1>t, BaseTypes
    <2> QED BY <1>2, <1>t, <2>1 DEF own, TypeInv, TypeOK, BaseInv
  <1>3. CASE AttachRequest
    <2>1. CASE Conns = {}
      BY <1>3, <1>t, <2>1 DEF AttachRequest, Register, own, TypeInv, TypeOK, BaseTypeOK, Dialed
    <2>2. CASE Conns # {}
      BY <1>2, <1>3, <2>2 DEF AttachRequest, BaseStep
    <2> QED BY <2>1, <2>2
  <1>4. ASSUME NEW c \in Conns, AttachSubscribe(c) PROVE TypeInv'
    BY <1>4, <1>t, SubscribeMoves DEF TypeInv, TypeOK, BaseTypeOK, Dialed
  <1>5. ASSUME NEW c \in Conns, AttachStdin(c) PROVE TypeInv'
    BY <1>5, <1>t, StdinMoves DEF TypeInv, TypeOK, BaseTypeOK, Dialed
  <1>6. ASSUME NEW c \in Conns, AttachLagged(c) PROVE TypeInv'
    BY <1>6, <1>t, LagMoves DEF TypeInv, TypeOK, BaseTypeOK, Dialed
  <1>7. ASSUME NEW c \in Conns, AttachSend(c) PROVE TypeInv'
    BY <1>7, <1>t, SendMoves DEF TypeInv, TypeOK, BaseTypeOK, Dialed
  <1>8. ASSUME NEW c \in Conns, AttachNotRunning(c) \/ AttachEnd(c) PROVE TypeInv'
    BY <1>8, <1>t, EndMoves DEF TypeInv, TypeOK, BaseTypeOK, Dialed
  <1>9. ASSUME NEW c \in Conns, FeedStep(c) PROVE TypeInv'
    BY <1>9, <1>t, FeedSteps DEF ConnMoves, TypeInv, TypeOK, BaseTypeOK, Dialed
  <1>10. CASE StartLive \/ (\E s \in Outs : CtrWrite(s)) \/ CtrExit \/ Supervision
    <2>1. /\ UNCHANGED <<reg, minted, conn, hd, sent, status, rx, feed>>
          /\ box' \in Box /\ Grows
      BY <1>10, BoxSteps
    <2>2. Len(box'.frames) <= MaxLive
      <3>1. box.frames \in Seq(Outs) /\ MaxLive \in Nat
        BY <1>t, AttachAssumption DEF TypeOK, Box
      <3> QED BY <1>t, <2>1, <3>1 DEF Grows
    <2> QED BY <1>t, <2>1, <2>2 DEF TypeInv, TypeOK, BaseTypeOK, Dialed
  <1> QED BY <1>1, <1>2, <1>3, <1>4, <1>5, <1>6, <1>7, <1>8, <1>9, <1>10
          DEF Next, HandlerStep, ReadLoop, BaseStep

(* Every reachable state of an attach server has its types: places on the bus
   never leave the output written so far, queued input never underflows, and
   a handler is always at one of its steps, for any number of clients. *)
THEOREM AttachTypes == Spec => []TypeOK
  <1>1. TypeInv => TypeOK
    BY DEF TypeInv
  <1> QED BY TypeInit, TypeStep, <1>1, PTL DEF Spec

-----------------------------------------------------------------------------
TokenInv == TypeInv /\ SessionInv

LEMMA SessionStep == TokenInv /\ [Next]_vars => Owned' /\ OneSessionPerToken'
  <1> SUFFICES ASSUME TokenInv, [Next]_vars PROVE Owned' /\ OneSessionPerToken'
    OBVIOUS
  <1>t. TypeInv /\ SessionInv /\ BaseTypeOK /\ Owned /\ OneSessionPerToken /\ "none" \in Statuses
    BY DEF TokenInv, TypeInv, TypeOK, SessionInv, Statuses
  <1>1. CASE UNCHANGED vars
    BY <1>1, <1>t DEF vars, base, Owned, OneSessionPerToken
  <1>2. CASE AttachRequest
    <2>1. CASE Conns = {}
      BY <2>1 DEF Owned, OneSessionPerToken
    <2>2. CASE Conns # {}
      BY <1>t, <1>2, <2>2, BaseSessions DEF AttachRequest, BaseStep
    <2> QED BY <2>1, <2>2
  <1>3. ASSUME NEW c \in Conns, BaseStep(c, "none") PROVE Owned' /\ OneSessionPerToken'
    BY <1>t, <1>3, BaseSessions
  <1>4. ASSUME NEW c \in Conns,
               AttachSubscribe(c) \/ AttachStdin(c) \/ AttachNotRunning(c) \/ AttachEnd(c)
        PROVE  Steady
    BY <1>t, <1>4, SubscribeMoves, StdinMoves, EndMoves DEF Steady
  <1>5. ASSUME NEW c \in Conns, AttachLagged(c) \/ AttachSend(c) PROVE Steady
    <2>1. UNCHANGED <<reg, minted, conn, hd>>
      BY <1>t, <1>5, LagMoves, SendMoves
    <2> QED BY <2>1 DEF Steady
  <1>6. ASSUME NEW c \in Conns, FeedStep(c) PROVE Steady
    BY <1>t, <1>6, FeedSteps, ConnSteady
  <1>7. ASSUME StartLive \/ (\E s \in Outs : CtrWrite(s)) \/ CtrExit \/ Supervision
        PROVE  Steady
    <2>1. UNCHANGED <<reg, minted, conn, hd>>
      BY <1>t, <1>7, BoxSteps
    <2> QED BY <2>1 DEF Steady
  <1> QED BY <1>t, <1>1, <1>2, <1>3, <1>4, <1>5, <1>6, <1>7, SteadyKeeps
          DEF Next, HandlerStep, ReadLoop, BaseStep

LEMMA TokenInit == Init => TokenInv
  BY TypeInit, SessionInitial DEF Init, TokenInv

LEMMA TokenStep == TokenInv /\ [Next]_vars => TokenInv'
  BY SessionStep, TypeStep DEF TokenInv, SessionInv, BaseInv, TypeInv, TypeOK

(* However many connections dial the URL of an attach session, and however
   often, one of them at most gets it: take_attach looks the token up and
   removes it under one lock, and no token is handed out twice. *)
THEOREM SessionsAreUnique == Spec => []OneSessionPerToken
  <1>1. TokenInv => OneSessionPerToken
    BY DEF TokenInv, SessionInv
  <1> QED BY <1>1, TokenInit, TokenStep, PTL DEF Spec
-----------------------------------------------------------------------------
(* A session's place on the bus is within the output, and before it has
   subscribed it was sent nothing. *)
Early == {"none", "take", "collect", "go"}
OnBus(c) ==
  /\ rx[c].first <= rx[c].next /\ rx[c].next <= Len(box.frames)
  /\ hd[c].pc \in Early => rx[c].first = rx[c].next /\ \A s \in Outs : sent[c][s] = <<>>
Faithful(c) ==
  \A s \in Outs :
    /\ InOrder(sent[c][s]) /\ Received(c, s) \subseteq Since(c, s)
    /\ s \in hd[c].got /\ ~rx[c].lagged => Since(c, s) \subseteq Received(c, s)

FaithfulInv == TokenInv /\ \A c \in Conns : OnBus(c) /\ Faithful(c)

(* The output a session was placed on does not change under it. *)
Prefix == /\ Len(box.frames) <= Len(box'.frames)
          /\ \A i \in 1..Len(box.frames) : box'.frames[i] = box.frames[i]

LEMMA GrowsPrefix ==
  ASSUME TypeInv, Grows
  PROVE  Prefix
  <1>1. box.frames \in Seq(Outs)
    BY DEF TypeInv, TypeOK, Box
  <1> QED BY <1>1 DEF Grows, Prefix

LEMMA PlacesAreNat ==
  ASSUME TypeInv, NEW c \in Conns
  PROVE  /\ rx[c].first \in Nat /\ rx[c].next \in Nat /\ Len(box.frames) \in Nat
         /\ \A s \in Outs : sent[c][s] \in Seq(Nat)
  <1>1. rx[c].first \in 0..MaxLive /\ rx[c].next \in 0..MaxLive /\ Len(box.frames) \in 0..MaxLive
        /\ MaxLive \in Nat
    BY PlaceTypes
  <1>2. \A s \in Outs : sent[c][s] \in Seq(Nat)
    BY DEF TypeInv, TypeOK, BaseTypeOK
  <1> QED BY <1>1, <1>2

(* A session that does not move. *)
LEMMA Resting ==
  ASSUME TypeInv, NEW c \in Conns, OnBus(c), Faithful(c), Prefix, Len(box'.frames) \in Nat,
         rx'[c] = rx[c], sent'[c] = sent[c],
         hd'[c].got = hd[c].got \/ hd[c].pc \in Early,
         hd'[c].pc \in Early => hd[c].pc \in Early
  PROVE  OnBus(c)' /\ Faithful(c)'
  <1>1. rx[c].first \in Nat /\ rx[c].next \in Nat /\ Len(box.frames) \in Nat
    BY PlacesAreNat
  <1>2. OnBus(c)'
    BY <1>1 DEF OnBus, Prefix
  <1>3. ASSUME NEW s \in Outs PROVE Since(c, s)' = Since(c, s) /\ Received(c, s)' = Received(c, s)
    <2>1. \A i \in rx[c].first + 1 .. rx[c].next : i \in 1..Len(box.frames)
      BY <1>1 DEF OnBus
    <2>2. \A i \in rx[c].first + 1 .. rx[c].next : box'.frames[i] = box.frames[i]
      BY <2>1 DEF Prefix
    <2> QED BY <2>2 DEF Since, Received
  <1>4. ASSUME NEW s \in Outs, hd[c].pc \in Early PROVE Since(c, s) = {}
    <2>1. rx[c].first + 1 .. rx[c].next = {}
      BY <1>1, <1>4 DEF OnBus
    <2> QED BY <2>1 DEF Since
  <1>5. ASSUME NEW s \in Outs
        PROVE  /\ InOrder(sent[c][s])' /\ Received(c, s)' \subseteq Since(c, s)'
               /\ (s \in hd[c].got /\ ~rx[c].lagged)' => Since(c, s)' \subseteq Received(c, s)'
    <2>1. InOrder(sent[c][s])'
      BY DEF Faithful, InOrder
    <2> QED BY <1>3, <1>4, <2>1 DEF Faithful
  <1> QED BY <1>2, <1>5 DEF Faithful

LEMMA SubscribeFaithful ==
  ASSUME TypeInv, NEW c \in Conns, OnBus(c), AttachSubscribe(c)
  PROVE  OnBus(c)' /\ Faithful(c)'
  <1>1. /\ hd[c].pc = "go" /\ hd'[c].pc \in {"stdin", "stream"} /\ rx'[c].first = Len(box.frames)
        /\ rx'[c].next = Len(box.frames) /\ sent' = sent /\ box' = box
    BY SubscribeMoves
  <1>2. Len(box.frames) \in Nat
    BY PlacesAreNat
  <1>3. OnBus(c)'
    BY <1>1, <1>2 DEF OnBus, Early
  <1>4. ASSUME NEW s \in Outs
        PROVE  sent'[c][s] = <<>> /\ Since(c, s)' = {} /\ Received(c, s)' = {}
    <2>1. sent'[c][s] = <<>>
      BY <1>1 DEF OnBus, Early
    <2>2. rx'[c].first + 1 .. rx'[c].next = {}
      BY <1>1, <1>2
    <2> QED BY <2>1, <2>2 DEF Since, Received
  <1>5. ASSUME NEW s \in Outs PROVE InOrder(sent[c][s])'
    BY <1>4 DEF InOrder
  <1> QED BY <1>3, <1>4, <1>5 DEF Faithful

LEMMA LagFaithful ==
  ASSUME TypeInv, NEW c \in Conns, OnBus(c), Faithful(c), AttachLagged(c)
  PROVE  OnBus(c)' /\ Faithful(c)'
  <1>1. /\ hd[c].pc = "stream" /\ hd' = hd /\ sent' = sent /\ box' = box
        /\ rx'[c].first = rx[c].first /\ rx'[c].lagged = TRUE
        /\ rx[c].next < rx'[c].next /\ rx'[c].next <= Len(box.frames)
    BY LagMoves
  <1>2. /\ rx[c].first \in Nat /\ rx[c].next \in Nat /\ Len(box.frames) \in Nat
        /\ rx'[c].next \in Nat
    <2>1. rx' \in [Conns -> Receiver] /\ MaxLive \in Nat
      BY LagMoves, AttachAssumption
    <2> QED BY <2>1, PlacesAreNat DEF Receiver
  <1>3. OnBus(c)'
    BY <1>1, <1>2 DEF OnBus, Early
  <1>4. ASSUME NEW s \in Outs PROVE Since(c, s) \subseteq Since(c, s)' /\ Received(c, s)' = Received(c, s)
    <2>1. \A i \in rx[c].first + 1 .. rx[c].next : i \in rx'[c].first + 1 .. rx'[c].next
      BY <1>1, <1>2
    <2> QED BY <1>1, <2>1 DEF Since, Received
  <1>5. ASSUME NEW s \in Outs PROVE InOrder(sent[c][s])'
    BY <1>1 DEF Faithful, InOrder
  <1> QED BY <1>1, <1>3, <1>4, <1>5 DEF Faithful

(* Appending the number of a later frame. *)
LEMMA AppendInOrder ==
  ASSUME NEW q \in Seq(Nat), InOrder(q), NEW n \in Nat, \A i \in DOMAIN q : q[i] < n
  PROVE  /\ InOrder(Append(q, n))
         /\ {Append(q, n)[i] : i \in DOMAIN Append(q, n)} = {q[i] : i \in DOMAIN q} \cup {n}
  <1>1. /\ DOMAIN q = 1..Len(q) /\ Len(q) \in Nat /\ DOMAIN Append(q, n) = 1..Len(q) + 1
        /\ \A i \in 1..Len(q) : Append(q, n)[i] = q[i]
        /\ Append(q, n)[Len(q) + 1] = n
    OBVIOUS
  <1>2. InOrder(Append(q, n))
    BY <1>1 DEF InOrder
  <1>3. \A i \in 1..Len(q) + 1 : i \in 1..Len(q) \/ i = Len(q) + 1
    BY <1>1
  <1> QED BY <1>1, <1>2, <1>3

LEMMA SendFaithful ==
  ASSUME TypeInv, NEW c \in Conns, OnBus(c), Faithful(c), AttachSend(c)
  PROVE  OnBus(c)' /\ Faithful(c)'
  <1> DEFINE n == rx[c].next + 1
  <1>1. /\ hd[c].pc = "stream" /\ hd' = hd /\ box' = box
        /\ rx'[c].first = rx[c].first /\ rx'[c].lagged = rx[c].lagged
        /\ rx'[c].next = n /\ rx[c].next < Len(box.frames)
        /\ \A s \in Outs : sent'[c][s] = IF s = box.frames[n] /\ s \in hd[c].got
                                           THEN Append(sent[c][s], n) ELSE sent[c][s]
    BY SendMoves
  <1>2. /\ rx[c].first \in Nat /\ rx[c].next \in Nat /\ Len(box.frames) \in Nat /\ n \in Nat
        /\ \A s \in Outs : sent[c][s] \in Seq(Nat)
    BY PlacesAreNat
  <1>3. OnBus(c)'
    BY <1>1, <1>2 DEF OnBus, Early
  <1>4. ASSUME NEW s \in Outs
        PROVE  Since(c, s)' = IF box.frames[n] = s THEN Since(c, s) \cup {n} ELSE Since(c, s)
    <2>1. rx[c].first + 1 .. n = (rx[c].first + 1 .. rx[c].next) \cup {n}
      BY <1>2 DEF OnBus
    <2>2. Since(c, s)' = {i \in rx[c].first + 1 .. n : box.frames[i] = s}
      BY <1>1 DEF Since
    <2> QED BY <2>1, <2>2 DEF Since
  <1>5. ASSUME NEW s \in Outs
        PROVE  /\ InOrder(sent[c][s])' /\ Received(c, s)' \subseteq Since(c, s)'
               /\ (s \in hd[c].got /\ ~rx[c].lagged)' => Since(c, s)' \subseteq Received(c, s)'
    <2>1. \A i \in DOMAIN sent[c][s] : sent[c][s][i] < n
      <3>1. \A i \in Since(c, s) : i < n
        BY <1>2 DEF Since
      <3> QED BY <3>1 DEF Faithful, Received
    <2>2. CASE s = box.frames[n] /\ s \in hd[c].got
      <3> DEFINE q == sent[c][s]
      <3>q. q \in Seq(Nat) /\ InOrder(q) /\ sent'[c][s] = Append(q, n)
        BY <1>1, <1>2, <2>2 DEF Faithful
      <3>1. InOrder(sent'[c][s]) /\ Received(c, s)' = Received(c, s) \cup {n}
        <4>1. /\ InOrder(Append(q, n))
              /\ {Append(q, n)[i] : i \in DOMAIN Append(q, n)} = {q[i] : i \in DOMAIN q} \cup {n}
          <5> HIDE DEF n, q
          <5> QED BY <1>2, <2>1, <3>q, AppendInOrder DEF q
        <4> QED BY <3>q, <4>1 DEF Received
      <3> QED BY <1>1, <1>4, <2>2, <3>1 DEF Faithful, InOrder
    <2>3. CASE ~(s = box.frames[n] /\ s \in hd[c].got)
      <3>1. sent'[c][s] = sent[c][s]
        BY <1>1, <2>3
      <3>2. InOrder(sent'[c][s]) /\ Received(c, s)' = Received(c, s)
        BY <3>1 DEF Faithful, Received
      <3> QED BY <1>1, <1>4, <2>3, <3>2 DEF Faithful, InOrder
    <2> QED BY <2>2, <2>3
  <1> QED BY <1>3, <1>5 DEF Faithful
LEMMA FaithfulStep ==
  ASSUME FaithfulInv, [Next]_vars, NEW d \in Conns
  PROVE  OnBus(d)' /\ Faithful(d)'
  <1>t. /\ TokenInv /\ TypeInv /\ BaseInv /\ Owned /\ OnBus(d) /\ Faithful(d) /\ TypeInv'
        /\ "none" \in Statuses
    BY TypeStep DEF FaithfulInv, TokenInv, SessionInv, Statuses
  <1>n. Len(box'.frames) \in Nat
    <2>1. box'.frames \in Seq(Outs)
      BY <1>t DEF TypeInv, TypeOK, Box
    <2> QED BY <2>1
  <1>p. box'.frames = box.frames => Prefix
    BY <1>t, GrowsPrefix DEF Grows
  <1>r. ASSUME Prefix, rx'[d] = rx[d], sent'[d] = sent[d], hd'[d] = hd[d]
        PROVE  OnBus(d)' /\ Faithful(d)'
    BY <1>t, <1>n, <1>r, Resting
  <1>1. CASE UNCHANGED vars
    BY <1>1, <1>p, <1>r DEF vars, base, own
  <1>2. ASSUME NEW c \in Conns, BaseStep(c, "none"), UNCHANGED own PROVE OnBus(d)' /\ Faithful(d)'
    <2>1. /\ sent' = sent /\ (d # c => hd'[d] = hd[d])
          /\ Stays(c) \/ Starts(c, "none")
      BY <1>t, <1>2, BaseEffect
    <2>2. rx' = rx /\ Prefix
      BY <1>2, <1>p DEF own
    <2>3. CASE hd'[d] = hd[d]
      BY <1>r, <2>1, <2>2, <2>3
    <2>4. CASE d = c /\ Starts(c, "none")
      BY <1>t, <1>n, <2>1, <2>2, <2>4, Resting DEF Starts, Early
    <2> QED BY <2>1, <2>3, <2>4 DEF Stays
  <1>3. CASE AttachRequest
    BY <1>2, <1>3 DEF AttachRequest, BaseStep
  <1>4. ASSUME NEW c \in Conns, AttachSubscribe(c) PROVE OnBus(d)' /\ Faithful(d)'
    <2>1. d # c => rx'[d] = rx[d] /\ sent'[d] = sent[d] /\ hd'[d] = hd[d] /\ Prefix
      BY <1>4, <1>t, <1>p, SubscribeMoves
    <2> QED BY <1>4, <1>t, <1>r, <2>1, SubscribeFaithful
  <1>5. ASSUME NEW c \in Conns, AttachLagged(c) PROVE OnBus(d)' /\ Faithful(d)'
    <2>1. d # c => rx'[d] = rx[d] /\ sent'[d] = sent[d] /\ hd'[d] = hd[d] /\ Prefix
      BY <1>5, <1>t, <1>p, LagMoves
    <2> QED BY <1>5, <1>t, <1>r, <2>1, LagFaithful
  <1>6. ASSUME NEW c \in Conns, AttachSend(c) PROVE OnBus(d)' /\ Faithful(d)'
    <2>1. d # c => rx'[d] = rx[d] /\ sent'[d] = sent[d] /\ hd'[d] = hd[d] /\ Prefix
      BY <1>6, <1>t, <1>p, SendMoves
    <2> QED BY <1>6, <1>t, <1>r, <2>1, SendFaithful
  <1>7. ASSUME NEW c \in Conns, AttachStdin(c) \/ AttachNotRunning(c) \/ AttachEnd(c)
        PROVE  OnBus(d)' /\ Faithful(d)'
    <2>1. /\ rx' = rx /\ sent' = sent /\ Prefix /\ hd'[d].got = hd[d].got
          /\ hd'[d] = hd[d] \/ hd'[d].pc \in {"stream", "end"}
      BY <1>7, <1>t, <1>p, StdinMoves, EndMoves
    <2> QED BY <1>t, <1>n, <2>1, Resting DEF Early
  <1>8. ASSUME NEW c \in Conns, FeedStep(c) PROVE OnBus(d)' /\ Faithful(d)'
    BY <1>8, <1>t, <1>p, <1>r, FeedSteps
  <1>9. CASE StartLive \/ (\E s \in Outs : CtrWrite(s)) \/ CtrExit \/ Supervision
    <2>1. UNCHANGED <<hd, sent, rx>> /\ Grows
      BY <1>9, <1>t, BoxSteps
    <2> QED BY <1>t, <1>r, <2>1, GrowsPrefix
  <1> QED BY <1>1, <1>2, <1>3, <1>4, <1>5, <1>6, <1>7, <1>8, <1>9
          DEF Next, HandlerStep, ReadLoop, BaseStep

(* Whenever it attached, and however the container's writes, its own sends and
   the other clients interleave, a client is sent frames of the stream it asked
   for, from its subscription on, in order and none twice; and all of them
   unless its receiver fell behind the bus. *)
THEOREM AttachStaysFaithful == Spec => []AttachFaithful
  <1>1. Init => FaithfulInv
    <2> SUFFICES ASSUME Init, NEW c \in Conns PROVE OnBus(c) /\ Faithful(c)
      BY TokenInit DEF FaithfulInv
    <2>1. /\ rx[c].first = 0 /\ rx[c].next = 0 /\ Len(box.frames) = 0
          /\ \A s \in Outs : sent[c][s] = <<>>
      BY DEF Init, BaseInit
    <2>2. rx[c].first + 1 .. rx[c].next = {}
      BY <2>1
    <2>3. \A s \in Outs : Since(c, s) = {} /\ Received(c, s) = {} /\ InOrder(sent[c][s])
      BY <2>1, <2>2 DEF Since, Received, InOrder
    <2> QED BY <2>1, <2>3 DEF OnBus, Faithful
  <1>2. FaithfulInv /\ [Next]_vars => FaithfulInv'
    <2>1. FaithfulInv /\ [Next]_vars => TokenInv'
      BY TokenStep DEF FaithfulInv
    <2>2. FaithfulInv /\ [Next]_vars => (\A c \in Conns : OnBus(c) /\ Faithful(c))'
      BY FaithfulStep
    <2> QED BY <2>1, <2>2 DEF FaithfulInv
  <1>3. FaithfulInv => AttachFaithful
    BY DEF FaithfulInv, Faithful, AttachFaithful
  <1> QED BY <1>1, <1>2, <1>3, PTL DEF Spec

-----------------------------------------------------------------------------
(* The bus has a sender from the start of the container until its exit is on
   record, nobody is attached to a container that was not started, and who was
   told "Success" was told so after the bus had closed. *)
BusOpen == box.live <=> box.sup \in {"spawning", "up", "exited", "recorded"}
AttachedToStarted == \A c \in Conns : hd[c].pc \in {"stdin", "stream"} => box.sup # "created"
ToldAfterClose ==
  \A c \in Conns : status[c] = "success" =>
    hd[c].pc = "end" /\ box.sup = "closed" /\ rx[c].next = Len(box.frames)

SuccessInv == TokenInv /\ BusOpen /\ AttachedToStarted /\ ToldAfterClose

LEMMA SuccessStep ==
  ASSUME SuccessInv, [Next]_vars
  PROVE  BusOpen' /\ AttachedToStarted' /\ ToldAfterClose'
  <1>t. /\ TokenInv /\ TypeInv /\ BaseInv /\ Owned /\ "none" \in Statuses
        /\ BusOpen /\ AttachedToStarted /\ ToldAfterClose
    BY DEF SuccessInv, TokenInv, SessionInv, Statuses
  <1>1. CASE UNCHANGED vars
    BY <1>1, <1>t DEF vars, base, own, BusOpen, AttachedToStarted, ToldAfterClose
  <1>2. ASSUME NEW c \in Conns, BaseStep(c, "none"), UNCHANGED own
        PROVE  BusOpen' /\ AttachedToStarted' /\ ToldAfterClose'
    <2>1. /\ \A d \in Conns : d # c => hd'[d] = hd[d] /\ status'[d] = status[d]
          /\ \/ hd'[c] = hd[c] /\ status'[c] = status[c]
             \/ /\ hd[c].pc \in {"none", "take", "collect"}
                /\ hd'[c].pc \in {"take", "collect", "go", "end"}
                /\ status'[c] \in {status[c], "none"}
      BY <1>t, <1>2, BaseEffect DEF Stays, Starts
    <2>2. rx' = rx /\ box' = box
      BY <1>2 DEF own
    <2> QED BY <1>t, <2>1, <2>2 DEF BusOpen, AttachedToStarted, ToldAfterClose
  <1>3. CASE AttachRequest
    BY <1>3, <1>t DEF AttachRequest, Register, own, BusOpen, AttachedToStarted, ToldAfterClose
  <1>4. ASSUME NEW c \in Conns, AttachSubscribe(c) PROVE BusOpen' /\ AttachedToStarted' /\ ToldAfterClose'
    <2>1. /\ \A d \in Conns : d # c => hd'[d] = hd[d] /\ rx'[d] = rx[d]
          /\ hd[c].pc = "go" /\ box.live /\ box' = box /\ status' = status
      BY <1>4, <1>t, SubscribeMoves
    <2> QED BY <1>t, <2>1 DEF BusOpen, AttachedToStarted, ToldAfterClose
  <1>5. ASSUME NEW c \in Conns, AttachStdin(c) PROVE BusOpen' /\ AttachedToStarted' /\ ToldAfterClose'
    <2>1. /\ \A d \in Conns : d # c => hd'[d] = hd[d]
          /\ hd[c].pc = "stdin" /\ box' = box /\ status' = status /\ rx' = rx
      BY <1>5, <1>t, StdinMoves
    <2> QED BY <1>t, <2>1 DEF BusOpen, AttachedToStarted, ToldAfterClose
  <1>6. ASSUME NEW c \in Conns, AttachLagged(c) \/ AttachSend(c)
        PROVE  BusOpen' /\ AttachedToStarted' /\ ToldAfterClose'
    <2>1. /\ \A d \in Conns : d # c => rx'[d] = rx[d]
          /\ hd[c].pc = "stream" /\ box' = box /\ status' = status /\ hd' = hd
      BY <1>6, <1>t, LagMoves, SendMoves
    <2> QED BY <1>t, <2>1 DEF BusOpen, AttachedToStarted, ToldAfterClose
  <1>7. ASSUME NEW c \in Conns, AttachNotRunning(c) \/ AttachEnd(c)
        PROVE  BusOpen' /\ AttachedToStarted' /\ ToldAfterClose'
    <2>1. /\ \A d \in Conns : d # c => hd'[d] = hd[d] /\ status'[d] = status[d]
          /\ hd[c].pc \in {"go", "stream"} /\ hd'[c].pc = "end" /\ box' = box /\ rx' = rx
          /\ \/ status'[c] \in {status[c], "none", "failure"}
             \/ hd[c].pc = "stream" /\ rx[c].next = Len(box.frames) /\ ~box.live
      BY <1>7, <1>t, EndMoves
    <2>2. box.sup \in {"created", "spawning", "up", "exited", "recorded", "closed"}
      BY <1>t DEF TypeInv, TypeOK, Box
    <2>3. ToldAfterClose'
      BY <1>t, <2>1, <2>2 DEF BusOpen, AttachedToStarted, ToldAfterClose
    <2> QED BY <1>t, <2>1, <2>3 DEF BusOpen, AttachedToStarted
  <1>8. ASSUME NEW c \in Conns, FeedStep(c) PROVE BusOpen' /\ AttachedToStarted' /\ ToldAfterClose'
    <2>1. /\ UNCHANGED <<hd, status, rx>>
          /\ box'.frames = box.frames /\ box'.sup = box.sup /\ box'.live = box.live
      BY <1>8, <1>t, FeedSteps
    <2> QED BY <1>t, <2>1 DEF BusOpen, AttachedToStarted, ToldAfterClose
  <1>9. CASE StartLive \/ (\E s \in Outs : CtrWrite(s)) \/ CtrExit \/ Supervision
    <2>1. UNCHANGED <<hd, status, rx>> /\ Grows /\ Ages
      BY <1>9, <1>t, BoxSteps
    <2>2. BusOpen' /\ AttachedToStarted'
      BY <1>t, <2>1 DEF BusOpen, AttachedToStarted, Ages
    <2>3. box.sup = "closed" => box'.sup = "closed" /\ box'.frames = box.frames
      BY <2>1 DEF Ages, Grows
    <2> QED BY <1>t, <2>1, <2>2, <2>3 DEF ToldAfterClose
  <1> QED BY <1>1, <1>2, <1>3, <1>4, <1>5, <1>6, <1>7, <1>8, <1>9
          DEF Next, HandlerStep, ReadLoop, BaseStep

(* A client is told "Success" only when the exit is on record and after it was
   sent the container's last frame, also when it attached to a container that
   was being started or that failed to start. *)
THEOREM SuccessComesLast == Spec => []SuccessIsLast
  <1>1. Init => SuccessInv
    <2>1. Init => BusOpen /\ AttachedToStarted /\ ToldAfterClose
      BY DEF Init, BaseInit, BusOpen, AttachedToStarted, ToldAfterClose
    <2> QED BY <2>1, TokenInit DEF SuccessInv
  <1>2. SuccessInv /\ [Next]_vars => SuccessInv'
    <2>1. SuccessInv /\ [Next]_vars => TokenInv'
      BY TokenStep DEF SuccessInv
    <2> QED BY <2>1, SuccessStep DEF SuccessInv
  <1>3. SuccessInv => SuccessIsLast
    BY DEF SuccessInv, ToldAfterClose, SuccessIsLast
  <1> QED BY <1>1, <1>2, <1>3, PTL DEF Spec
=============================================================================
