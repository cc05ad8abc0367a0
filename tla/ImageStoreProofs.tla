--------------------------- MODULE ImageStoreProofs ---------------------------
(***************************************************************************)
(* Proofs about ImageStore.tla: its type invariant; an image with a record *)
(* keeps its blobs, the references that resolved to it and its snapshots;  *)
(* and no blob is left behind.                                             *)
(***************************************************************************)
EXTENDS ImageStore, TLAPS

AllPC  == PullPC \cup RemovePC \cup {"idle"}
LayerPC == {"stream", "commit", "verify", "check", "unpack", "extract"}

LEMMA Stacks ==
  ASSUME NEW img \in Images
  PROVE  /\ LayersOf[img] \in Seq(Layers)
         /\ Len(LayersOf[img]) \in Nat
         /\ DOMAIN LayersOf[img] = 1..Len(LayersOf[img])
         /\ \A j \in DOMAIN LayersOf[img] : LayersOf[img][j] \in Layers
         /\ LayersOf[img] # <<>> => 1 \in DOMAIN LayersOf[img]
         /\ LayersOf[img] = <<>> => DOMAIN LayersOf[img] = {}
BY ImageAssumption

LEMMA FieldTypes ==
  ASSUME NEW x \in Handler
  PROVE  /\ x.pc \in AllPC /\ x.ref \in Refs \cup {None}
         /\ x.img \in Images \cup {None} /\ x.i \in Nat /\ x.rec \in Record
         /\ x.live \in SUBSET Images
BY DEF Handler, AllPC

LEMMA IdleType ==
  /\ Idle \in Handler /\ Placed(Idle) /\ Idle.pc = "idle"
  /\ NoRecord \in Record /\ ~NoRecord.known
<1>1. NoRecord \in Record /\ ~NoRecord.known
  BY DEF NoRecord, Record
<1>2. Idle \in Handler /\ Idle.pc = "idle"
  BY <1>1 DEF Idle, Handler
<1>3. Placed(Idle)
  BY <1>2 DEF Placed, PullPC
<1> QED BY <1>1, <1>2, <1>3

LEMMA InitTypes == Init => TypeOK
<1> SUFFICES ASSUME Init PROVE TypeOK
  OBVIOUS
<1>1. images \in [Images -> Record] /\ hs \in [Handlers -> Handler]
  BY IdleType DEF Init
<1>2. \A h \in Handlers : Placed(hs[h])
  BY IdleType DEF Init
<1> QED BY <1>1, <1>2 DEF Init, TypeOK

(* The new value of a request, for each way a step changes it. *)
LEMMA MoveTo ==
  ASSUME NEW x \in Handler, NEW pc \in AllPC
  PROVE  LET y == [x EXCEPT !.pc = pc] IN
           y \in Handler /\ y.pc = pc /\ y.ref = x.ref /\ y.img = x.img /\ y.i = x.i /\ y.live = x.live
BY DEF Handler, AllPC, PullPC

LEMMA MoveNextLayer ==
  ASSUME NEW x \in Handler
  PROVE  LET y == [x EXCEPT !.pc = "stream", !.i = x.i + 1] IN
           y \in Handler /\ y.pc = "stream" /\ y.ref = x.ref /\ y.img = x.img /\ y.i = x.i + 1
<1>1. x.i + 1 \in Nat
  BY DEF Handler
<1>2. "stream" \in PullPC
  BY DEF PullPC
<1> QED BY <1>1, <1>2 DEF Handler

LEMMA MoveNextBlob ==
  ASSUME NEW x \in Handler
  PROVE  LET y == [x EXCEPT !.i = x.i + 1] IN
           y \in Handler /\ y.pc = x.pc /\ y.ref = x.ref /\ y.img = x.img /\ y.i = x.i + 1 /\ y.live = x.live
BY DEF Handler, AllPC, PullPC

LEMMA MoveNoLayers ==
  ASSUME NEW x \in Handler, NEW img \in Images
  PROVE  LET y == [x EXCEPT !.pc = "find", !.img = img] IN
           y \in Handler /\ y.pc = "find" /\ y.ref = x.ref /\ y.img = img
BY DEF Handler, AllPC, PullPC

LEMMA MoveFirstLayer ==
  ASSUME NEW x \in Handler, NEW img \in Images
  PROVE  LET y == [x EXCEPT !.pc = "stream", !.img = img, !.i = 1] IN
           y \in Handler /\ y.pc = "stream" /\ y.ref = x.ref /\ y.img = img /\ y.i = 1
BY DEF Handler, AllPC, PullPC

LEMMA MovePut ==
  ASSUME NEW x \in Handler, NEW r \in Record
  PROVE  LET y == [x EXCEPT !.pc = "put", !.rec = r] IN
           y \in Handler /\ y.pc = "put" /\ y.ref = x.ref /\ y.img = x.img
BY DEF Handler, AllPC, PullPC

LEMMA MoveReclaim ==
  ASSUME NEW x \in Handler, NEW L \in SUBSET Images
  PROVE  LET y == [x EXCEPT !.pc = "reclaim", !.live = L] IN
           y \in Handler /\ y.pc = "reclaim" /\ y.img = x.img /\ y.i = x.i /\ y.live = L
BY DEF Handler, AllPC, RemovePC

LEMMA Starts ==
  /\ \A r \in Refs : LET y == [Idle EXCEPT !.pc = "manifest", !.ref = r] IN
       y \in Handler /\ y.pc = "manifest" /\ y.ref = r
  /\ \A img \in Images : LET y == [Idle EXCEPT !.pc = "forget", !.img = img] IN
       y \in Handler /\ y.pc = "forget" /\ y.img = img /\ y.i = 0
BY IdleType DEF Idle, Handler, PullPC, RemovePC

-----------------------------------------------------------------------------
(* Layer j of its image is one the pull x has already committed. *)
Passed(x, j) ==
  \/ j < x.i
  \/ j = x.i /\ x.pc \notin {"stream", "commit"}
  \/ x.pc \in {"find", "put"}

(* The blobs B hold the config and the layers x has committed. *)
HasFetched(x, B) ==
  x.pc \in PullPC \ {"manifest"} =>
    /\ x.img \in B
    /\ \A j \in DOMAIN LayersOf[x.img] : Passed(x, j) => LayersOf[x.img][j] \in B

(* A step of pull h makes y of it, and keeps what it has fetched. *)
PullsTo(h, y) ==
  /\ y \in Handler /\ Placed(y) /\ y.pc \in PullPC \cup {"idle"}
  /\ hs' = [hs EXCEPT ![h] = y]
  /\ HasFetched(hs[h], blobs) => HasFetched(y, blobs')

LEMMA ReturnEffect ==
  ASSUME TypeOK, NEW h \in Handlers, hs[h].pc \in PullPC, PullReturn(h)
  PROVE  PullsTo(h, Idle) /\ lock' \in [Refs -> Handlers \cup {None}]
<1>1. HasFetched(Idle, blobs')
  BY IdleType DEF HasFetched, PullPC
<1>2. lock' \in [Refs -> Handlers \cup {None}]
  BY DEF TypeOK, PullReturn
<1> QED BY IdleType, <1>1, <1>2 DEF PullsTo, PullReturn

LEMMA GotoEffect ==
  ASSUME TypeOK, NEW h \in Handlers, NEW pc \in LayerPC, hs[h].pc \in LayerPC, Goto(h, pc),
         hs[h].pc \in {"stream", "commit"} => pc = "commit",
         blobs \subseteq blobs'
  PROVE  PullsTo(h, [hs[h] EXCEPT !.pc = pc])
<1> DEFINE y == [hs[h] EXCEPT !.pc = pc]
<1>1. hs[h] \in Handler /\ Placed(hs[h]) /\ pc \in AllPC /\ pc \in PullPC /\ hs[h].pc \in PullPC
  BY DEF TypeOK, AllPC, LayerPC, PullPC
<1>2. y \in Handler /\ y.pc = pc /\ y.ref = hs[h].ref /\ y.img = hs[h].img /\ y.i = hs[h].i
  BY <1>1, MoveTo
<1>3. hs' = [hs EXCEPT ![h] = y]
  BY DEF Goto
<1> HIDE DEF y
<1>4. Placed(y)
  BY <1>1, <1>2 DEF Placed, LayerPC
<1>5. HasFetched(hs[h], blobs) => HasFetched(y, blobs')
  BY <1>1, <1>2 DEF HasFetched, Passed, LayerPC, PullPC
<1> QED BY <1>1, <1>2, <1>3, <1>4, <1>5 DEF PullsTo, y

LEMMA AdvanceEffect ==
  ASSUME TypeOK, NEW h \in Handlers, hs[h].pc \in LayerPC \ {"stream", "commit"},
         Advance(h), blobs' = blobs
  PROVE  \E y : PullsTo(h, y)
<1> DEFINE x == hs[h]
           n == Len(LayersOf[x.img])
<1>1. /\ x \in Handler /\ Placed(x) /\ x.pc \in PullPC /\ x.ref \in Refs
      /\ x.img \in Images /\ x.i \in 1..n /\ n \in Nat
      /\ DOMAIN LayersOf[x.img] = 1..n
  BY Stacks DEF TypeOK, Placed, LayerPC, PullPC
<1>2. CASE x.i < n
  <2> DEFINE y == [x EXCEPT !.pc = "stream", !.i = x.i + 1]
  <2>1. hs' = [hs EXCEPT ![h] = y]
    BY <1>2 DEF Advance
  <2>2. y \in Handler /\ y.pc = "stream" /\ y.ref = x.ref /\ y.img = x.img /\ y.i = x.i + 1
    BY <1>1, MoveNextLayer
  <2> HIDE DEF y
  <2>3. Placed(y)
    BY <1>1, <1>2, <2>2 DEF Placed
  <2>4. HasFetched(x, blobs) => HasFetched(y, blobs')
    BY <1>1, <2>2 DEF HasFetched, Passed, LayerPC, PullPC
  <2> QED BY <2>1, <2>2, <2>3, <2>4 DEF PullsTo, PullPC
<1>3. CASE ~(x.i < n)
  <2> DEFINE y == [x EXCEPT !.pc = "find"]
  <2>1. hs' = [hs EXCEPT ![h] = y]
    BY <1>3 DEF Advance, Goto
  <2>p. "find" \in AllPC
    BY DEF AllPC, PullPC
  <2>2. y \in Handler /\ y.pc = "find" /\ y.ref = x.ref /\ y.img = x.img /\ y.i = x.i
    BY <1>1, <2>p, MoveTo
  <2> HIDE DEF y
  <2>3. Placed(y)
    BY <1>1, <2>2 DEF Placed
  <2>4. HasFetched(x, blobs) => HasFetched(y, blobs')
    BY <1>1, <1>3, <2>2 DEF HasFetched, Passed, LayerPC, PullPC
  <2> QED BY <2>1, <2>2, <2>3, <2>4 DEF PullsTo, PullPC
<1> QED BY <1>2, <1>3

(* What a step of a pull can do to the stores and to its own request. *)
LEMMA PullEffect ==
  ASSUME TypeOK, NEW h \in Handlers, PullStep(h)
  PROVE  /\ hs[h].pc \in PullPC
         /\ \E y : PullsTo(h, y)
         /\ blobs \subseteq blobs' /\ blobs' \in SUBSET Blobs
         /\ ingest' \in SUBSET (Handlers \cup {None})
         /\ snaps' \in [Dirs -> {"none", "empty", "partial", "full"}]
         /\ lock' \in [Refs -> Handlers \cup {None}]
         /\ images' = images \/ PullPut(h)
<1> DEFINE x == hs[h]
<1>t. /\ x \in Handler /\ Placed(x) /\ hs \in [Handlers -> Handler]
      /\ images \in [Images -> Record] /\ blobs \in SUBSET Blobs
      /\ ingest \in SUBSET (Handlers \cup {None})
      /\ snaps \in [Dirs -> {"none", "empty", "partial", "full"}]
      /\ lock \in [Refs -> Handlers \cup {None}]
  BY DEF TypeOK
<1>p. x.pc \in LayerPC => x.pc \in PullPC /\ x.img \in Images /\ LayersOf[x.img][x.i] \in Blobs
  <2>1. x.pc \in LayerPC => x.pc \in PullPC /\ x.img \in Images /\ x.i \in DOMAIN LayersOf[x.img]
    BY <1>t DEF LayerPC, PullPC, Placed
  <2> QED BY <2>1, Stacks DEF Blobs
<1>1. ASSUME NEW img \in Images, PullManifest(h, img)
      PROVE  \E y : PullsTo(h, y)
  <2>1. CASE PullReturn(h)
    BY <1>1, <2>1, ReturnEffect DEF PullManifest, At, PullPC
  <2>2. CASE LayersOf[img] = <<>> /\ hs' = [hs EXCEPT ![h] = [x EXCEPT !.pc = "find", !.img = img]]
    <3> DEFINE y == [x EXCEPT !.pc = "find", !.img = img]
    <3>1. y \in Handler /\ y.pc = "find" /\ y.ref = x.ref /\ y.img = img
      BY <1>t, MoveNoLayers
    <3>2. x.ref \in Refs
      BY <1>1, <1>t DEF PullManifest, At, Placed, PullPC
    <3>3. hs' = [hs EXCEPT ![h] = y]
      BY <2>2
    <3> HIDE DEF y
    <3>4. Placed(y)
      BY <3>1, <3>2 DEF Placed
    <3>5. HasFetched(y, blobs')
      BY <1>1, <2>2, <3>1, Stacks DEF PullManifest, HasFetched
    <3> QED BY <3>1, <3>3, <3>4, <3>5 DEF PullsTo, PullPC
  <2>3. CASE /\ LayersOf[img] # <<>>
             /\ hs' = [hs EXCEPT ![h] = [x EXCEPT !.pc = "stream", !.img = img, !.i = 1]]
    <3> DEFINE y == [x EXCEPT !.pc = "stream", !.img = img, !.i = 1]
    <3>1. y \in Handler /\ y.pc = "stream" /\ y.ref = x.ref /\ y.img = img /\ y.i = 1
      BY <1>t, MoveFirstLayer
    <3>2. x.ref \in Refs
      BY <1>1, <1>t DEF PullManifest, At, Placed, PullPC
    <3>3. hs' = [hs EXCEPT ![h] = y]
      BY <2>3
    <3> HIDE DEF y
    <3>4. Placed(y)
      BY <2>3, <3>1, <3>2, Stacks DEF Placed
    <3>5. HasFetched(y, blobs')
      <4>1. \A j \in DOMAIN LayersOf[img] : ~Passed(y, j)
        BY <3>1, Stacks DEF Passed
      <4> QED BY <1>1, <3>1, <4>1 DEF PullManifest, HasFetched
    <3> QED BY <3>1, <3>3, <3>4, <3>5 DEF PullsTo, PullPC
  <2> QED BY <1>1, <2>1, <2>2, <2>3 DEF PullManifest
<1>2. CASE PullStream(h)
  <2>1. PullsTo(h, [hs[h] EXCEPT !.pc = "commit"])
    BY <1>2, GotoEffect DEF PullStream, At, LayerPC
  <2> QED BY <1>2, <1>t, <1>p, <2>1 DEF PullStream, At, LayerPC
<1>3. CASE PullCommit(h)
  <2> DEFINE y == [x EXCEPT !.pc = "verify"]
  <2>1. x.pc = "commit" /\ "verify" \in AllPC
    BY <1>3 DEF PullCommit, At, AllPC, PullPC
  <2>2. y \in Handler /\ y.pc = "verify" /\ y.ref = x.ref /\ y.img = x.img /\ y.i = x.i
    BY <1>t, <2>1, MoveTo
  <2>3. hs' = [hs EXCEPT ![h] = y]
    BY <1>3 DEF PullCommit, Goto
  <2>4. blobs' = blobs \cup {LayersOf[x.img][x.i]}
    BY <1>3 DEF PullCommit
  <2> HIDE DEF y
  <2>5. Placed(y)
    BY <1>t, <2>1, <2>2 DEF Placed, PullPC
  <2>6. HasFetched(x, blobs) => HasFetched(y, blobs')
    BY <1>p, <2>1, <2>2, <2>4 DEF HasFetched, Passed, LayerPC, PullPC
  <2>7. PullsTo(h, y)
    BY <2>2, <2>3, <2>5, <2>6 DEF PullsTo, PullPC
  <2> QED BY <1>3, <1>t, <1>p, <2>1, <2>4, <2>7 DEF PullCommit, LayerPC
<1>4. CASE PullRefused(h)
  <2>1. x.pc \in PullPC
    BY <1>4 DEF PullRefused, PullPC
  <2> QED BY <1>4, <1>t, <2>1, ReturnEffect DEF PullRefused
<1>5. CASE PullCommitFails(h)
  <2>1. x.pc \in PullPC
    BY <1>5 DEF PullCommitFails, At, PullPC
  <2> QED BY <1>5, <1>t, <2>1, ReturnEffect DEF PullCommitFails
<1>6. CASE PullVerify(h)
  <2>1. x.pc \in LayerPC \ {"stream", "commit"}
    BY <1>6 DEF PullVerify, At, LayerPC
  <2>2. CASE PullReturn(h) BY <1>6, <1>t, <1>p, <2>1, <2>2, ReturnEffect DEF PullVerify
  <2>3. CASE Goto(h, "check") /\ lock' = lock
    <3>1. PullsTo(h, [hs[h] EXCEPT !.pc = "check"])
      BY <1>6, <2>1, <2>3, GotoEffect DEF PullVerify, LayerPC
    <3> QED BY <1>6, <1>t, <1>p, <2>1, <2>3, <3>1 DEF PullVerify
  <2> QED BY <1>6, <2>2, <2>3 DEF PullVerify
<1>7. CASE PullCheck(h)
  <2> DEFINE dir == HexDir(Chain(x.img, x.i))
  <2>1. x.pc \in LayerPC \ {"stream", "commit"}
    BY <1>7 DEF PullCheck, At, LayerPC
  <2>2. CASE Advance(h) /\ snaps' = snaps
    BY <1>7, <1>t, <1>p, <2>1, <2>2, AdvanceEffect DEF PullCheck
  <2>3. CASE Goto(h, "unpack") /\ snaps' = [snaps EXCEPT ![dir] = "empty"]
    <3>1. PullsTo(h, [hs[h] EXCEPT !.pc = "unpack"])
      BY <1>7, <2>1, <2>3, GotoEffect DEF PullCheck, LayerPC
    <3> HIDE DEF dir
    <3>2. snaps' \in [Dirs -> {"none", "empty", "partial", "full"}]
      BY <1>t, <2>3
    <3> QED BY <1>7, <1>t, <1>p, <2>1, <3>1, <3>2 DEF PullCheck
  <2> QED BY <1>7, <2>2, <2>3 DEF PullCheck
<1>8. CASE PullUnpack(h)
  <2> DEFINE dir == HexDir(Chain(x.img, x.i))
  <2>1. x.pc \in LayerPC \ {"stream", "commit"}
    BY <1>8 DEF PullUnpack, At, LayerPC
  <2>2. CASE PullReturn(h) /\ snaps' = snaps
    BY <1>8, <1>t, <1>p, <2>1, <2>2, ReturnEffect DEF PullUnpack
  <2>3. CASE /\ Goto(h, "extract") /\ lock' = lock
             /\ snaps' = [snaps EXCEPT ![dir] = IF @ = "full" THEN @ ELSE "partial"]
    <3>1. PullsTo(h, [hs[h] EXCEPT !.pc = "extract"])
      BY <1>8, <2>1, <2>3, GotoEffect DEF PullUnpack, LayerPC
    <3> HIDE DEF dir
    <3>2. snaps' \in [Dirs -> {"none", "empty", "partial", "full"}]
      BY <1>t, <2>3
    <3> QED BY <1>8, <1>t, <1>p, <2>1, <2>3, <3>1, <3>2 DEF PullUnpack
  <2> QED BY <1>8, <2>2, <2>3 DEF PullUnpack
<1>9. CASE PullExtract(h)
  <2> DEFINE dir == HexDir(Chain(x.img, x.i))
  <2>1. x.pc \in LayerPC \ {"stream", "commit"}
    BY <1>9 DEF PullExtract, At, LayerPC
  <2>2. CASE PullReturn(h) /\ snaps' = snaps
    BY <1>9, <1>t, <1>p, <2>1, <2>2, ReturnEffect DEF PullExtract
  <2>3. CASE Advance(h) /\ lock' = lock /\ snaps' = [snaps EXCEPT ![dir] = "full"]
    <3> HIDE DEF dir
    <3>1. snaps' \in [Dirs -> {"none", "empty", "partial", "full"}]
      BY <1>t, <2>3
    <3> QED BY <1>9, <1>t, <1>p, <2>1, <2>3, <3>1, AdvanceEffect DEF PullExtract
  <2> QED BY <1>9, <2>2, <2>3 DEF PullExtract
<1>10. CASE PullFind(h)
  <2> DEFINE y == [x EXCEPT !.pc = "put", !.rec = images[x.img]]
  <2>1. x.pc = "find" /\ x.pc \in PullPC /\ x.img \in Images /\ x.ref \in Refs
    BY <1>10, <1>t DEF PullFind, At, Placed, PullPC
  <2>2. y \in Handler /\ y.pc = "put" /\ y.ref = x.ref /\ y.img = x.img
    BY <1>t, <2>1, MovePut
  <2>3. hs' = [hs EXCEPT ![h] = y] /\ blobs' = blobs
    BY <1>10 DEF PullFind
  <2> HIDE DEF y
  <2>4. Placed(y)
    BY <2>1, <2>2 DEF Placed
  <2>5. HasFetched(x, blobs) => HasFetched(y, blobs')
    BY <2>1, <2>2, <2>3 DEF HasFetched, Passed, PullPC
  <2>6. PullsTo(h, y)
    BY <2>2, <2>3, <2>4, <2>5 DEF PullsTo, PullPC
  <2> QED BY <1>10, <1>t, <2>1, <2>6 DEF PullFind
<1>11. CASE PullPut(h)
  <2>1. x.pc \in PullPC
    BY <1>11 DEF PullPut, At, PullPC
  <2> QED BY <1>11, <1>t, <2>1, ReturnEffect DEF PullPut
<1>12. CASE PullDropped(h)
  <2>1. x.pc \in PullPC
    BY <1>12 DEF PullDropped, PullPC
  <2> QED BY <1>12, <1>t, <2>1, ReturnEffect DEF PullDropped
<1>13. ASSUME NEW img \in Images, PullManifest(h, img)
       PROVE  /\ x.pc \in PullPC /\ blobs' = blobs \cup {img} /\ img \in Blobs
              /\ lock' \in [Refs -> Handlers \cup {None}]
              /\ ingest' = ingest /\ snaps' = snaps /\ images' = images
  <2>1. x.pc \in PullPC
    BY <1>13 DEF PullManifest, At, PullPC
  <2>2. lock' \in [Refs -> Handlers \cup {None}]
    BY <1>13, <1>t, <2>1, ReturnEffect DEF PullManifest
  <2> QED BY <1>13, <2>1, <2>2 DEF PullManifest, Blobs
<1>14. CASE \E img \in Images : PullManifest(h, img)
  BY <1>1, <1>13, <1>14, <1>t
<1> QED BY <1>2, <1>3, <1>4, <1>5, <1>6, <1>7, <1>8, <1>9, <1>10, <1>11, <1>12, <1>14
        DEF PullStep

(* What a step of a removal can do to the stores and to its own request. *)
LEMMA RemoveEffect ==
  ASSUME TypeOK, NEW h \in Handlers, RemoveStep(h)
  PROVE  /\ hs[h].pc \in RemovePC
         /\ \E y \in Handler :
              /\ Placed(y) /\ hs' = [hs EXCEPT ![h] = y] /\ y.pc \in RemovePC \cup {"idle"}
              /\ y.pc = "reclaim" => \/ hs[h].pc = "reclaim" /\ y.live = hs[h].live
                                     \/ y.live = Known
         /\ blobs' = blobs \/ ReclaimBlob(h)
         /\ blobs' \in SUBSET Blobs /\ ingest' = ingest /\ lock' = lock
         /\ snaps' \in [Dirs -> {"none", "empty", "partial", "full"}]
         /\ images' = images \/ images' = [images EXCEPT ![hs[h].img] = NoRecord]
<1> DEFINE x == hs[h]
<1>t. /\ x \in Handler /\ Placed(x) /\ blobs \in SUBSET Blobs
      /\ snaps \in [Dirs -> {"none", "empty", "partial", "full"}]
  BY DEF TypeOK
<1>p. x.pc \in RemovePC /\ x.img \in Images
  <2>1. x.pc \in RemovePC
    BY DEF RemoveStep, RemoveForget, RemoveList, ReclaimBlob, ReclaimDirs, At, RemovePC
  <2> QED BY <1>t, <2>1 DEF Placed, RemovePC
<1>a. {"list", "dirs"} \subseteq AllPC
  BY DEF AllPC, RemovePC
<1>1. CASE RemoveForget(h)
  <2> DEFINE y == [x EXCEPT !.pc = "list"]
  <2>1. y \in Handler /\ y.pc = "list" /\ y.img = x.img /\ y.i = x.i
    BY <1>t, <1>a, MoveTo
  <2>2. hs' = [hs EXCEPT ![h] = y]
    BY <1>1 DEF RemoveForget, Goto
  <2>3. x.i = 0
    BY <1>1, <1>t DEF RemoveForget, At, Placed
  <2> HIDE DEF y
  <2>4. Placed(y) /\ y.pc \in RemovePC
    BY <1>p, <2>1, <2>3 DEF Placed, PullPC, RemovePC
  <2> QED BY <1>1, <1>t, <1>p, <2>1, <2>2, <2>4 DEF RemoveForget
<1>2. CASE RemoveList(h)
  <2> DEFINE y == [x EXCEPT !.pc = "reclaim", !.live = Known]
  <2>1. y \in Handler /\ y.pc = "reclaim" /\ y.img = x.img /\ y.i = x.i /\ y.live = Known
    BY <1>t, MoveReclaim DEF Known
  <2>2. hs' = [hs EXCEPT ![h] = y]
    BY <1>2 DEF RemoveList
  <2>3. x.i = 0
    BY <1>2, <1>t DEF RemoveList, At, Placed
  <2> HIDE DEF y
  <2>4. Placed(y) /\ y.pc \in RemovePC
    BY <1>p, <2>1, <2>3 DEF Placed, PullPC, RemovePC
  <2> QED BY <1>2, <1>t, <1>p, <2>1, <2>2, <2>4 DEF RemoveList
<1>3. CASE ReclaimBlob(h)
  <2>s. /\ blobs' \in SUBSET Blobs /\ x.pc = "reclaim"
        /\ images' = images /\ ingest' = ingest /\ snaps' = snaps /\ lock' = lock
    BY <1>3, <1>t DEF ReclaimBlob, At
  <2>n. x.i \in 0..Len(LayersOf[x.img]) /\ DOMAIN LayersOf[x.img] = 1..Len(LayersOf[x.img])
        /\ Len(LayersOf[x.img]) \in Nat
    BY <1>t, <1>p, <2>s, Stacks DEF Placed
  <2>1. CASE x.i < Len(LayersOf[x.img])
    <3> DEFINE y == [x EXCEPT !.i = x.i + 1]
    <3>1. y \in Handler /\ y.pc = "reclaim" /\ y.img = x.img /\ y.i = x.i + 1 /\ y.live = x.live
      BY <1>t, <2>s, MoveNextBlob
    <3>2. hs' = [hs EXCEPT ![h] = y]
      BY <1>3, <2>1 DEF ReclaimBlob
    <3> HIDE DEF y
    <3>3. Placed(y)
      BY <1>p, <2>1, <2>n, <3>1 DEF Placed, PullPC
    <3> QED BY <1>3, <1>t, <1>p, <2>s, <3>1, <3>2, <3>3
  <2>2. CASE ~(x.i < Len(LayersOf[x.img]))
    <3> DEFINE y == [x EXCEPT !.pc = "dirs"]
    <3>1. y \in Handler /\ y.pc = "dirs" /\ y.img = x.img
      BY <1>t, <1>a, MoveTo
    <3>2. hs' = [hs EXCEPT ![h] = y]
      BY <1>3, <2>2 DEF ReclaimBlob, Goto
    <3> HIDE DEF y
    <3>3. Placed(y) /\ y.pc \in RemovePC
      BY <1>p, <3>1 DEF Placed, PullPC, RemovePC
    <3> QED BY <1>3, <1>t, <1>p, <2>s, <3>1, <3>2, <3>3
  <2> QED BY <2>1, <2>2
<1>4. CASE ReclaimDirs(h)
  <2>1. snaps' \in [Dirs -> {"none", "empty", "partial", "full"}]
    <3>1. PICK stale : snaps' = [d \in Dirs |-> IF d \in stale THEN "none" ELSE snaps[d]]
      BY <1>4 DEF ReclaimDirs
    <3> QED BY <1>t, <3>1
  <2>2. hs' = [hs EXCEPT ![h] = Idle] /\ images' = images /\ blobs' = blobs
        /\ ingest' = ingest /\ lock' = lock
    BY <1>4 DEF ReclaimDirs
  <2> QED BY <1>t, <1>p, <2>1, <2>2, IdleType
<1> QED BY <1>1, <1>2, <1>3, <1>4 DEF RemoveStep

(* A request that starts. *)
LEMMA StartEffect ==
  ASSUME TypeOK, NEW h \in Handlers,
         \/ \E ref \in Refs : PullLock(h, ref)
         \/ \E img \in Images : RemoveFind(h, img)
  PROVE  /\ \E y \in Handler :
              /\ Placed(y) /\ hs' = [hs EXCEPT ![h] = y]
              /\ \/ /\ y.pc = "manifest"
                    /\ ~Overlap => \A g \in Handlers : ~Removing(g)
                 \/ /\ y.pc = "forget"
                    /\ ~Overlap => \A g \in Handlers : ~Pulling(g)
         /\ lock' \in [Refs -> Handlers \cup {None}]
         /\ images' = images /\ blobs' = blobs /\ ingest' = ingest /\ snaps' = snaps
<1>1. ASSUME NEW ref \in Refs, PullLock(h, ref)
      PROVE  \E y \in Handler :
               /\ Placed(y) /\ hs' = [hs EXCEPT ![h] = y] /\ y.pc = "manifest"
               /\ ~Overlap => \A g \in Handlers : ~Removing(g)
  <2> DEFINE y == [Idle EXCEPT !.pc = "manifest", !.ref = ref]
  <2>1. y \in Handler /\ y.pc = "manifest" /\ y.ref = ref
    BY Starts
  <2>2. hs' = [hs EXCEPT ![h] = y] /\ (~Overlap => \A g \in Handlers : ~Removing(g))
    BY <1>1 DEF PullLock
  <2> HIDE DEF y
  <2>3. Placed(y)
    BY <2>1 DEF Placed
  <2> QED BY <2>1, <2>2, <2>3
<1>2. ASSUME NEW img \in Images, RemoveFind(h, img)
      PROVE  \E y \in Handler :
               /\ Placed(y) /\ hs' = [hs EXCEPT ![h] = y] /\ y.pc = "forget"
               /\ ~Overlap => \A g \in Handlers : ~Pulling(g)
  <2> DEFINE y == [Idle EXCEPT !.pc = "forget", !.img = img]
  <2>1. y \in Handler /\ y.pc = "forget" /\ y.img = img /\ y.i = 0
    BY Starts
  <2>2. hs' = [hs EXCEPT ![h] = y] /\ (~Overlap => \A g \in Handlers : ~Pulling(g))
    BY <1>2 DEF RemoveFind
  <2> HIDE DEF y
  <2>3. Placed(y)
    BY <2>1 DEF Placed, PullPC
  <2> QED BY <2>1, <2>2, <2>3
<1>3. /\ lock' \in [Refs -> Handlers \cup {None}]
      /\ images' = images /\ blobs' = blobs /\ ingest' = ingest /\ snaps' = snaps
  BY DEF PullLock, RemoveFind, TypeOK
<1> QED BY <1>1, <1>2, <1>3

-----------------------------------------------------------------------------
LEMMA PutTypes ==
  ASSUME TypeOK, NEW h \in Handlers, PullPut(h)
  PROVE  /\ hs[h].img \in Images /\ hs[h].ref \in Refs
         /\ images' \in [Images -> Record]
<1>1. hs[h] \in Handler /\ Placed(hs[h]) /\ hs[h].pc = "put"
  BY DEF TypeOK, PullPut, At
<1>2. hs[h].img \in Images /\ hs[h].ref \in Refs /\ hs[h].rec \in Record
  BY <1>1, FieldTypes DEF Placed, PullPC
<1>3. [known |-> TRUE, refs |-> hs[h].rec.refs \cup {hs[h].ref}] \in Record
  BY <1>2 DEF Record
<1> QED BY <1>2, <1>3 DEF PullPut, TypeOK

LEMMA NextTypes == TypeOK /\ [Next]_vars => TypeOK'
<1> SUFFICES ASSUME TypeOK, [Next]_vars PROVE TypeOK'
  OBVIOUS
<1>r. ASSUME NEW h \in Handlers, NEW y \in Handler, Placed(y), hs' = [hs EXCEPT ![h] = y]
      PROVE  hs' \in [Handlers -> Handler] /\ \A g \in Handlers : Placed(hs'[g])
  BY <1>r DEF TypeOK
<1>1. ASSUME NEW h \in Handlers, PullStep(h) PROVE TypeOK'
  <2>1. PICK y : PullsTo(h, y)
    BY <1>1, PullEffect
  <2>2. hs' \in [Handlers -> Handler] /\ \A g \in Handlers : Placed(hs'[g])
    BY <1>r, <2>1 DEF PullsTo
  <2>3. images' \in [Images -> Record]
    BY <1>1, PullEffect, PutTypes DEF TypeOK
  <2> QED BY <1>1, <2>2, <2>3, PullEffect DEF TypeOK
<1>2. ASSUME NEW h \in Handlers, RemoveStep(h) PROVE TypeOK'
  <2>1. PICK y \in Handler : Placed(y) /\ hs' = [hs EXCEPT ![h] = y]
    BY <1>2, RemoveEffect
  <2>2. hs' \in [Handlers -> Handler] /\ \A g \in Handlers : Placed(hs'[g])
    BY <1>r, <2>1
  <2>3. images' \in [Images -> Record]
    BY <1>2, RemoveEffect, IdleType DEF TypeOK
  <2> QED BY <1>2, <2>2, <2>3, RemoveEffect DEF TypeOK
<1>3. ASSUME NEW h \in Handlers,
             \/ \E ref \in Refs : PullLock(h, ref)
             \/ \E img \in Images : RemoveFind(h, img)
      PROVE  TypeOK'
  <2>1. PICK y \in Handler : Placed(y) /\ hs' = [hs EXCEPT ![h] = y]
    BY <1>3, StartEffect
  <2>2. hs' \in [Handlers -> Handler] /\ \A g \in Handlers : Placed(hs'[g])
    BY <1>r, <2>1
  <2>3. /\ lock' \in [Refs -> Handlers \cup {None}]
        /\ images' = images /\ blobs' = blobs /\ ingest' = ingest /\ snaps' = snaps
    BY <1>3, StartEffect
  <2> QED BY <2>2, <2>3 DEF TypeOK
<1>4. CASE Crash
  BY <1>4, IdleType DEF Crash, TypeOK
<1>5. CASE UNCHANGED vars
  BY <1>5 DEF vars, TypeOK
<1> QED BY <1>1, <1>2, <1>3, <1>4, <1>5 DEF Next

(* Every store, lock and request keeps its type: in particular no pull or
   reclaim pass indexes past the layers of its image. *)
THEOREM ImageTypes == Spec => []TypeOK
BY InitTypes, NextTypes, PTL DEF Spec

-----------------------------------------------------------------------------
(* No removal runs while a pull does. *)
Apart == \A g, h \in Handlers : ~(Pulling(g) /\ Removing(h))

(* What a pull has stored stays until it publishes the record. *)
Fetched == \A h \in Handlers : HasFetched(hs[h], blobs)

(* The list a removal works from still names every image there is. *)
Spared == \A h \in Handlers : hs[h].pc = "reclaim" => Known \subseteq hs[h].live

UsableInv == TypeOK /\ Apart /\ Fetched /\ Spared /\ ImagesUsable

LEMMA InitUsable == Init => UsableInv
<1> SUFFICES ASSUME Init PROVE UsableInv
  OBVIOUS
<1>1. \A h \in Handlers : hs[h] = Idle
  BY DEF Init
<1>2. Apart /\ Fetched /\ Spared
  BY <1>1, IdleType DEF Apart, Fetched, Spared, HasFetched, Pulling, Removing, PullPC, RemovePC
<1>3. ImagesUsable
  BY IdleType DEF Init, ImagesUsable, Known
<1> QED BY <1>2, <1>3, InitTypes DEF UsableInv

(* A step of a pull while no removal runs. *)
LEMMA PullUsable ==
  ASSUME UsableInv, NEW h \in Handlers, PullStep(h)
  PROVE  Apart' /\ Fetched' /\ Spared' /\ ImagesUsable'
<1>1. TypeOK /\ Apart /\ Fetched /\ Spared /\ ImagesUsable
  BY DEF UsableInv
<1>2. PICK y : PullsTo(h, y)
  BY <1>1, PullEffect
<1>3. /\ hs[h].pc \in PullPC /\ blobs \subseteq blobs' /\ (images' = images \/ PullPut(h))
  BY <1>1, PullEffect
<1>4. /\ \A g \in Handlers : hs'[g] = IF g = h THEN y ELSE hs[g]
      /\ y.pc \in PullPC \cup {"idle"} /\ HasFetched(y, blobs')
  BY <1>1, <1>2 DEF PullsTo, TypeOK, Fetched
<1>5. \A g \in Handlers : hs[g].pc \notin RemovePC
  BY <1>1, <1>3 DEF Apart, Pulling, Removing
<1>6. \A g \in Handlers : hs'[g].pc \notin RemovePC
  BY <1>4, <1>5 DEF PullPC, RemovePC
<1>7. Apart' /\ Spared'
  BY <1>6 DEF Apart, Spared, Removing, RemovePC
<1>8. Fetched'
  BY <1>1, <1>3, <1>4 DEF Fetched, HasFetched, Passed
<1>9. ImagesUsable'
  <2>1. CASE images' = images
    BY <1>1, <1>3, <2>1 DEF ImagesUsable, Known
  <2>2. CASE PullPut(h)
    <3>1. /\ hs[h].pc = "put" /\ hs[h].img \in Images
          /\ \A img \in Images : img # hs[h].img => images'[img] = images[img]
      BY <1>1, <2>2, PutTypes DEF PullPut, At, TypeOK
    <3>2. ReferencedBlobs(hs[h].img) \subseteq blobs
      BY <1>1, <3>1 DEF Fetched, HasFetched, Passed, PullPC, ReferencedBlobs, LayerSet
    <3>3. \A img \in Images : images'[img].known => ReferencedBlobs(img) \subseteq blobs
      BY <1>1, <3>1, <3>2 DEF ImagesUsable, Known
    <3> QED BY <1>3, <3>3 DEF ImagesUsable, Known
  <2> QED BY <1>3, <2>1, <2>2
<1> QED BY <1>7, <1>8, <1>9

(* A step of a removal while no pull runs. *)
LEMMA RemoveUsable ==
  ASSUME UsableInv, NEW h \in Handlers, RemoveStep(h)
  PROVE  Apart' /\ Fetched' /\ Spared' /\ ImagesUsable'
<1>1. TypeOK /\ Apart /\ Fetched /\ Spared /\ ImagesUsable
  BY DEF UsableInv
<1>2. PICK y \in Handler :
        /\ hs' = [hs EXCEPT ![h] = y] /\ y.pc \in RemovePC \cup {"idle"}
        /\ y.pc = "reclaim" => \/ hs[h].pc = "reclaim" /\ y.live = hs[h].live
                               \/ y.live = Known
  BY <1>1, RemoveEffect
<1>3. /\ hs[h].pc \in RemovePC /\ (blobs' = blobs \/ ReclaimBlob(h))
      /\ (images' = images \/ images' = [images EXCEPT ![hs[h].img] = NoRecord])
  BY <1>1, RemoveEffect
<1>4. \A g \in Handlers : hs'[g] = IF g = h THEN y ELSE hs[g]
  BY <1>1, <1>2 DEF TypeOK
<1>5. \A g \in Handlers : hs[g].pc \notin PullPC
  BY <1>1, <1>3 DEF Apart, Pulling, Removing
<1>6. \A g \in Handlers : hs'[g].pc \notin PullPC
  BY <1>2, <1>4, <1>5 DEF PullPC, RemovePC
<1>7. Apart' /\ Fetched'
  BY <1>6 DEF Apart, Fetched, HasFetched, Pulling
<1>8. \A img \in Images : images'[img].known => images[img].known
  BY <1>1, <1>3, IdleType DEF TypeOK
<1>9. Known' \subseteq Known
  BY <1>8 DEF Known
<1>10. Spared'
  <2>1. ASSUME NEW g \in Handlers, hs'[g].pc = "reclaim" PROVE Known \subseteq hs'[g].live
    BY <1>1, <1>2, <1>4, <2>1 DEF Spared
  <2> QED BY <1>9, <2>1 DEF Spared
<1>11. ImagesUsable'
  <2>1. CASE blobs' = blobs
    BY <1>1, <1>9, <2>1 DEF ImagesUsable
  <2>2. CASE ReclaimBlob(h)
    <3>1. hs[h].pc = "reclaim" /\ Known \subseteq hs[h].live
      BY <1>1, <2>2 DEF ReclaimBlob, At, Spared
    <3>2. ASSUME NEW img \in Known PROVE ReferencedBlobs(img) \subseteq blobs'
      BY <1>1, <2>2, <3>1 DEF ReclaimBlob, ImagesUsable
    <3> QED BY <1>9, <3>2 DEF ImagesUsable
  <2> QED BY <1>3, <2>1, <2>2
<1> QED BY <1>7, <1>10, <1>11

LEMMA NextUsable ==
  ASSUME ~Overlap
  PROVE  UsableInv /\ [Next]_vars => UsableInv'
<1> SUFFICES ASSUME UsableInv, [Next]_vars PROVE Apart' /\ Fetched' /\ Spared' /\ ImagesUsable'
  BY NextTypes DEF UsableInv
<1>1. TypeOK /\ Apart /\ Fetched /\ Spared /\ ImagesUsable
  BY DEF UsableInv
<1>2. ASSUME NEW h \in Handlers,
             \/ \E ref \in Refs : PullLock(h, ref)
             \/ \E img \in Images : RemoveFind(h, img)
      PROVE  Apart' /\ Fetched' /\ Spared' /\ ImagesUsable'
  <2>1. PICK y \in Handler :
          /\ hs' = [hs EXCEPT ![h] = y]
          /\ \/ y.pc = "manifest" /\ (\A g \in Handlers : ~Removing(g))
             \/ y.pc = "forget" /\ (\A g \in Handlers : ~Pulling(g))
    BY <1>1, <1>2, StartEffect
  <2>2. images' = images /\ blobs' = blobs
    BY <1>1, <1>2, StartEffect
  <2>3. \A g \in Handlers : hs'[g] = IF g = h THEN y ELSE hs[g]
    BY <1>1, <2>1 DEF TypeOK
  <2>4. Apart'
    BY <1>1, <2>1, <2>3 DEF Apart, Pulling, Removing, PullPC, RemovePC
  <2>5. Fetched'
    BY <1>1, <2>1, <2>2, <2>3 DEF Fetched, HasFetched, PullPC
  <2>6. Spared' /\ ImagesUsable'
    BY <1>1, <2>1, <2>2, <2>3 DEF Spared, ImagesUsable, Known
  <2> QED BY <2>4, <2>5, <2>6
<1>3. CASE Crash
  <2>1. \A h \in Handlers : hs'[h] = Idle
    BY <1>3 DEF Crash
  <2>2. Apart' /\ Fetched' /\ Spared'
    BY <2>1, IdleType DEF Apart, Fetched, Spared, HasFetched, Pulling, Removing, PullPC, RemovePC
  <2> QED BY <1>1, <1>3, <2>2 DEF Crash, ImagesUsable, Known
<1>4. CASE UNCHANGED vars
  BY <1>1, <1>4 DEF vars, Apart, Fetched, Spared, ImagesUsable, Known, Pulling, Removing
<1> QED BY <1>2, <1>3, <1>4, PullUsable, RemoveUsable DEF Next

(* When no removal overlaps a pull, an image with a record has every blob it
   needs: for any images and layers they share, any number of concurrent pulls
   or concurrent removals, failed transfers, moved tags and crashes. *)
THEOREM ImagesStayUsable ==
  ASSUME ~Overlap
  PROVE  Spec => []ImagesUsable
<1>1. UsableInv => ImagesUsable
  BY DEF UsableInv
<1> QED BY InitUsable, NextUsable, <1>1, PTL DEF Spec
-----------------------------------------------------------------------------
(* The steps of a pull, with the request described by its fields. *)
Others(h) == \A g \in Handlers : g # h => hs'[g] = hs[g]
Moves(h, pc, i) ==
  /\ Others(h) /\ hs'[h].pc = pc /\ hs'[h].i = i
  /\ hs'[h].ref = hs[h].ref /\ hs'[h].img = hs[h].img
Ends(h) ==
  /\ Others(h) /\ hs'[h].pc = "idle"
  /\ lock'[hs[h].ref] = None /\ \A r \in Refs : r # hs[h].ref => lock'[r] = lock[r]

LEMMA GotoMoves ==
  ASSUME TypeOK, NEW h \in Handlers, NEW pc \in AllPC, Goto(h, pc)
  PROVE  Moves(h, pc, hs[h].i)
<1> DEFINE y == [hs[h] EXCEPT !.pc = pc]
<1>1. hs[h] \in Handler /\ hs \in [Handlers -> Handler]
  BY DEF TypeOK
<1>2. y.pc = pc /\ y.ref = hs[h].ref /\ y.img = hs[h].img /\ y.i = hs[h].i
  BY <1>1, MoveTo
<1>3. hs' = [hs EXCEPT ![h] = y]
  BY DEF Goto
<1> HIDE DEF y
<1> QED BY <1>1, <1>2, <1>3 DEF Moves, Others

LEMMA AdvanceMoves ==
  ASSUME TypeOK, NEW h \in Handlers, Advance(h)
  PROVE  IF hs[h].i < Len(LayersOf[hs[h].img]) THEN Moves(h, "stream", hs[h].i + 1)
                                               ELSE Moves(h, "find", hs[h].i)
<1>1. hs[h] \in Handler /\ hs \in [Handlers -> Handler] /\ "find" \in AllPC
  BY DEF TypeOK, AllPC, PullPC
<1>2. CASE hs[h].i < Len(LayersOf[hs[h].img])
  <2> DEFINE y == [hs[h] EXCEPT !.pc = "stream", !.i = hs[h].i + 1]
  <2>1. y.pc = "stream" /\ y.ref = hs[h].ref /\ y.img = hs[h].img /\ y.i = hs[h].i + 1
    BY <1>1, MoveNextLayer
  <2>2. hs' = [hs EXCEPT ![h] = y]
    BY <1>2 DEF Advance
  <2> HIDE DEF y
  <2> QED BY <1>1, <1>2, <2>1, <2>2 DEF Moves, Others
<1>3. CASE ~(hs[h].i < Len(LayersOf[hs[h].img]))
  BY <1>1, <1>3, GotoMoves DEF Advance
<1> QED BY <1>2, <1>3

LEMMA ReturnEnds ==
  ASSUME TypeOK, NEW h \in Handlers, hs[h].ref \in Refs, PullReturn(h)
  PROVE  Ends(h)
  BY IdleType DEF TypeOK, PullReturn, Ends, Others

LEMMA ManifestMoves ==
  ASSUME TypeOK, NEW h \in Handlers, NEW img \in Images, PullManifest(h, img)
  PROVE  /\ hs[h].pc = "manifest" /\ hs[h].ref \in Refs /\ img \in Serves[hs[h].ref]
         /\ blobs' = blobs \cup {img} /\ snaps' = snaps /\ images' = images
         /\ \/ /\ Others(h) /\ hs'[h].ref = hs[h].ref /\ hs'[h].img = img /\ lock' = lock
               /\ \/ hs'[h].pc = "find" /\ DOMAIN LayersOf[img] = {}
                  \/ hs'[h].pc = "stream" /\ hs'[h].i = 1
            \/ Faults /\ Ends(h)
<1>1. /\ hs[h].pc = "manifest" /\ img \in Serves[hs[h].ref]
      /\ blobs' = blobs \cup {img} /\ snaps' = snaps /\ images' = images
      /\ hs[h] \in Handler /\ hs \in [Handlers -> Handler]
  BY DEF PullManifest, At, TypeOK
<1>2. hs[h].ref \in Refs
  BY <1>1 DEF TypeOK, Placed, PullPC
<1>3. CASE LayersOf[img] = <<>> /\ lock' = lock
           /\ hs' = [hs EXCEPT ![h] = [hs[h] EXCEPT !.pc = "find", !.img = img]]
  <2> DEFINE y == [hs[h] EXCEPT !.pc = "find", !.img = img]
  <2>1. y.pc = "find" /\ y.ref = hs[h].ref /\ y.img = img
    BY <1>1, MoveNoLayers
  <2>2. hs' = [hs EXCEPT ![h] = y] /\ DOMAIN LayersOf[img] = {}
    BY <1>3, Stacks
  <2> HIDE DEF y
  <2> QED BY <1>1, <1>2, <1>3, <2>1, <2>2 DEF Others
<1>4. CASE /\ lock' = lock
           /\ hs' = [hs EXCEPT ![h] = [hs[h] EXCEPT !.pc = "stream", !.img = img, !.i = 1]]
  <2> DEFINE y == [hs[h] EXCEPT !.pc = "stream", !.img = img, !.i = 1]
  <2>1. y.pc = "stream" /\ y.ref = hs[h].ref /\ y.img = img /\ y.i = 1
    BY <1>1, MoveFirstLayer
  <2>2. hs' = [hs EXCEPT ![h] = y]
    BY <1>4
  <2> HIDE DEF y
  <2> QED BY <1>1, <1>2, <1>4, <2>1, <2>2 DEF Others
<1>5. CASE Faults /\ PullReturn(h)
  BY <1>1, <1>2, <1>5, ReturnEnds
<1> QED BY <1>3, <1>4, <1>5 DEF PullManifest

LEMMA FindMoves ==
  ASSUME TypeOK, NEW h \in Handlers, PullFind(h)
  PROVE  /\ hs[h].pc = "find" /\ Moves(h, "put", hs[h].i) /\ hs'[h].rec = images[hs[h].img]
         /\ images' = images /\ blobs' = blobs /\ snaps' = snaps /\ lock' = lock
<1> DEFINE y == [hs[h] EXCEPT !.pc = "put", !.rec = images[hs[h].img]]
<1>1. /\ hs[h].pc = "find" /\ hs[h] \in Handler /\ hs \in [Handlers -> Handler]
      /\ images' = images /\ blobs' = blobs /\ snaps' = snaps /\ lock' = lock
  BY DEF TypeOK, PullFind, At
<1>2. y.pc = "put" /\ y.ref = hs[h].ref /\ y.img = hs[h].img /\ y.i = hs[h].i
      /\ y.rec = images[hs[h].img]
  BY <1>1 DEF Handler
<1>3. hs' = [hs EXCEPT ![h] = y]
  BY DEF PullFind
<1> HIDE DEF y
<1> QED BY <1>1, <1>2, <1>3 DEF Moves, Others

LEMMA PutEnds ==
  ASSUME TypeOK, NEW h \in Handlers, PullPut(h)
  PROVE  /\ hs[h].pc = "put" /\ hs[h].img \in Images /\ hs[h].ref \in Refs /\ Ends(h)
         /\ images'[hs[h].img].known /\ images'[hs[h].img].refs = hs[h].rec.refs \cup {hs[h].ref}
         /\ \A img \in Images : img # hs[h].img => images'[img] = images[img]
         /\ blobs' = blobs /\ snaps' = snaps
<1>1. hs[h].img \in Images /\ hs[h].ref \in Refs
  BY PutTypes
<1> QED BY <1>1, ReturnEnds DEF PullPut, At, TypeOK

(* The other steps of a pull: they leave the records alone, and either go on
   with the same image or give up. *)
LEMMA LayerMoves ==
  ASSUME TypeOK, NEW h \in Handlers, PullStep(h), ~PullFind(h), ~PullPut(h),
         \A img \in Images : ~PullManifest(h, img)
  PROVE  /\ hs[h].ref \in Refs /\ images' = images
         /\ \/ /\ hs[h].pc \in LayerPC /\ lock' = lock
               /\ \E pc \in LayerPC \cup {"find"}, i \in Nat : Moves(h, pc, i)
            \/ Ends(h)
<1>1. hs[h] \in Handler /\ Placed(hs[h]) /\ hs[h].i \in Nat
  BY FieldTypes DEF TypeOK
<1>2. hs[h].pc \in LayerPC \cup {"manifest"}
  BY DEF PullStep, PullStream, PullCommit, PullRefused, PullCommitFails, PullVerify, PullCheck,
     PullUnpack, PullExtract, PullDropped, At, LayerPC
<1>3. hs[h].ref \in Refs
  BY <1>1, <1>2 DEF Placed, LayerPC, PullPC
<1>4. images' = images
  BY DEF PullStep, PullStream, PullCommit, PullRefused, PullCommitFails, PullVerify, PullCheck,
     PullUnpack, PullExtract, PullDropped
<1>5. \/ PullReturn(h)
      \/ hs[h].pc \in LayerPC /\ lock' = lock /\ (Advance(h) \/ \E pc \in LayerPC : Goto(h, pc))
  BY DEF PullStep, PullStream, PullCommit, PullRefused, PullCommitFails, PullVerify, PullCheck,
     PullUnpack, PullExtract, PullDropped, At, LayerPC
<1>6. CASE PullReturn(h)
  BY <1>3, <1>4, <1>6, ReturnEnds
<1>7. CASE hs[h].pc \in LayerPC /\ lock' = lock /\ Advance(h)
  <2>1. hs[h].i + 1 \in Nat /\ "stream" \in LayerPC
    BY <1>1 DEF LayerPC
  <2>2. Moves(h, "stream", hs[h].i + 1) \/ Moves(h, "find", hs[h].i)
    BY <1>7, AdvanceMoves
  <2> QED BY <1>1, <1>3, <1>4, <1>7, <2>1, <2>2
<1>8. ASSUME NEW pc \in LayerPC, hs[h].pc \in LayerPC, lock' = lock, Goto(h, pc)
      PROVE  Moves(h, pc, hs[h].i)
  <2>1. pc \in AllPC
    BY DEF AllPC, LayerPC, PullPC
  <2> QED BY <1>8, <2>1, GotoMoves
<1> QED BY <1>1, <1>3, <1>4, <1>5, <1>6, <1>7, <1>8
-----------------------------------------------------------------------------
(* The pull x knows its image. *)
Fetching(x) == x.pc \in PullPC \ {"manifest"}

(* A reference a record holds, or is about to, resolved to its image. *)
RefsOfRecords ==
  \A img \in Images :
    /\ images[img].known => images[img].refs # {}
    /\ \A ref \in images[img].refs : img \in Serves[ref]
Resolved == \A h \in Handlers : Fetching(hs[h]) => hs[h].img \in Serves[hs[h].ref]
RefsFound ==
  \A h \in Handlers : hs[h].pc = "put" => \A ref \in hs[h].rec.refs : hs[h].img \in Serves[ref]

RefsInv == TypeOK /\ RefsOfRecords /\ Resolved /\ RefsFound

LEMMA InitRefs == Init => RefsInv
<1> SUFFICES ASSUME Init PROVE RefsInv
  OBVIOUS
<1>1. \A h \in Handlers : hs[h].pc = "idle"
  BY IdleType DEF Init
<1>2. Resolved /\ RefsFound
  BY <1>1 DEF Resolved, RefsFound, Fetching, PullPC
<1>3. RefsOfRecords
  BY DEF Init, RefsOfRecords, NoRecord
<1> QED BY <1>2, <1>3, InitTypes DEF RefsInv

LEMMA PullRefs ==
  ASSUME RefsInv, NEW h \in Handlers, PullStep(h)
  PROVE  RefsOfRecords' /\ Resolved' /\ RefsFound'
<1>1. TypeOK /\ RefsOfRecords /\ Resolved /\ RefsFound
  BY DEF RefsInv
<1>2. ASSUME NEW img \in Images, PullManifest(h, img) PROVE RefsOfRecords' /\ Resolved' /\ RefsFound'
  <2>1. /\ images' = images /\ Others(h) /\ img \in Serves[hs[h].ref]
        /\ \/ hs'[h].pc = "idle"
           \/ hs'[h].pc # "put" /\ hs'[h].img = img /\ hs'[h].ref = hs[h].ref
    BY <1>1, <1>2, ManifestMoves DEF Ends
  <2>2. RefsOfRecords'
    BY <1>1, <2>1 DEF RefsOfRecords
  <2>3. Resolved' /\ RefsFound'
    BY <1>1, <2>1 DEF Resolved, RefsFound, Others, Fetching, PullPC
  <2> QED BY <2>2, <2>3
<1>3. CASE PullFind(h)
  <2>1. /\ images' = images /\ hs[h].pc = "find" /\ Moves(h, "put", hs[h].i)
        /\ hs'[h].rec = images[hs[h].img]
    BY <1>1, <1>3, FindMoves
  <2>2. hs[h].img \in Images /\ Fetching(hs[h])
    BY <1>1, <2>1 DEF TypeOK, Placed, Fetching, PullPC
  <2>3. RefsOfRecords'
    BY <1>1, <2>1 DEF RefsOfRecords
  <2>4. Resolved'
    BY <1>1, <2>1, <2>2 DEF Resolved, Moves, Others
  <2>5. RefsFound'
    BY <1>1, <2>1, <2>2 DEF RefsFound, RefsOfRecords, Moves, Others
  <2> QED BY <2>3, <2>4, <2>5
<1>4. CASE PullPut(h)
  <2>1. /\ hs[h].pc = "put" /\ hs[h].img \in Images /\ hs[h].ref \in Refs /\ Others(h) /\ hs'[h].pc = "idle"
        /\ images'[hs[h].img].refs = hs[h].rec.refs \cup {hs[h].ref}
        /\ \A img \in Images : img # hs[h].img => images'[img] = images[img]
    BY <1>1, <1>4, PutEnds DEF Ends
  <2>2. hs[h].img \in Serves[hs[h].ref] /\ \A ref \in hs[h].rec.refs : hs[h].img \in Serves[ref]
    BY <1>1, <2>1 DEF Resolved, RefsFound, Fetching, PullPC
  <2>3. RefsOfRecords'
    BY <1>1, <2>1, <2>2 DEF RefsOfRecords
  <2>4. Resolved' /\ RefsFound'
    BY <1>1, <2>1 DEF Resolved, RefsFound, Others, Fetching, PullPC
  <2> QED BY <2>3, <2>4
<1>5. CASE ~PullFind(h) /\ ~PullPut(h) /\ \A img \in Images : ~PullManifest(h, img)
  <2>1. /\ images' = images
        /\ \/ /\ hs[h].pc \in LayerPC /\ lock' = lock
              /\ \E pc \in LayerPC \cup {"find"}, i \in Nat : Moves(h, pc, i)
           \/ Ends(h)
    BY <1>1, <1>5, LayerMoves
  <2>2. /\ Others(h)
        /\ \/ hs'[h].pc = "idle"
           \/ /\ Fetching(hs[h]) /\ hs'[h].pc # "put"
              /\ hs'[h].img = hs[h].img /\ hs'[h].ref = hs[h].ref
    BY <2>1 DEF Moves, Ends, LayerPC, Fetching, PullPC
  <2>3. RefsOfRecords'
    BY <1>1, <2>1 DEF RefsOfRecords
  <2>4. Resolved' /\ RefsFound'
    BY <1>1, <2>2 DEF Resolved, RefsFound, Others, Fetching, PullPC
  <2> QED BY <2>3, <2>4
<1> QED BY <1>2, <1>3, <1>4, <1>5

LEMMA NextRefs == RefsInv /\ [Next]_vars => RefsInv'
<1> SUFFICES ASSUME RefsInv, [Next]_vars PROVE RefsOfRecords' /\ Resolved' /\ RefsFound'
  BY NextTypes DEF RefsInv
<1>1. TypeOK /\ RefsOfRecords /\ Resolved /\ RefsFound
  BY DEF RefsInv
<1>2. ASSUME NEW h \in Handlers, NEW y, hs' = [hs EXCEPT ![h] = y], y.pc \notin PullPC \ {"manifest"}
      PROVE  Resolved' /\ RefsFound'
  <2>1. \A g \in Handlers : hs'[g] = IF g = h THEN y ELSE hs[g]
    BY <1>1, <1>2 DEF TypeOK
  <2> QED BY <1>1, <1>2, <2>1 DEF Resolved, RefsFound, Fetching, PullPC
<1>3. ASSUME NEW h \in Handlers, RemoveStep(h) PROVE RefsOfRecords' /\ Resolved' /\ RefsFound'
  <2>1. PICK y \in Handler : hs' = [hs EXCEPT ![h] = y] /\ y.pc \in RemovePC \cup {"idle"}
    BY <1>1, <1>3, RemoveEffect
  <2>2. y.pc \notin PullPC \ {"manifest"}
    BY <2>1 DEF PullPC, RemovePC
  <2>3. images' = images \/ images' = [images EXCEPT ![hs[h].img] = NoRecord]
    BY <1>1, <1>3, RemoveEffect
  <2>4. ~NoRecord.known /\ NoRecord.refs = {}
    BY DEF NoRecord
  <2>5. RefsOfRecords'
    BY <1>1, <2>3, <2>4 DEF RefsOfRecords, TypeOK
  <2> QED BY <1>2, <2>1, <2>2, <2>5
<1>4. ASSUME NEW h \in Handlers,
             \/ \E ref \in Refs : PullLock(h, ref)
             \/ \E img \in Images : RemoveFind(h, img)
      PROVE  RefsOfRecords' /\ Resolved' /\ RefsFound'
  <2>1. PICK y \in Handler : hs' = [hs EXCEPT ![h] = y] /\ y.pc \in {"manifest", "forget"}
    BY <1>1, <1>4, StartEffect
  <2>2. y.pc \notin PullPC \ {"manifest"}
    BY <2>1 DEF PullPC
  <2>3. images' = images
    BY <1>1, <1>4, StartEffect
  <2> QED BY <1>1, <1>2, <2>1, <2>2, <2>3 DEF RefsOfRecords
<1>5. CASE Crash
  <2>1. images' = images /\ \A h \in Handlers : hs'[h].pc = "idle"
    BY <1>5, IdleType DEF Crash
  <2> QED BY <1>1, <2>1 DEF RefsOfRecords, Resolved, RefsFound, Fetching, PullPC
<1>6. CASE UNCHANGED vars
  BY <1>1, <1>6 DEF vars, RefsOfRecords, Resolved, RefsFound
<1> QED BY <1>3, <1>4, <1>5, <1>6, PullRefs DEF Next

(* Whatever else happens, faults, crashes, moved tags and removals that overlap
   pulls included, an image with a record is listed under some reference, and
   only under references that resolved to it. *)
THEOREM RefsStayServed == Spec => []RefsServed
<1>1. RefsInv => RefsServed
  BY DEF RefsInv, RefsOfRecords, RefsServed, Known
<1> QED BY InitRefs, NextRefs, <1>1, PTL DEF Spec
-----------------------------------------------------------------------------
(* The blobs the reclaim pass x has still to look at, and the ones of them it
   will delete. *)
Victims(x) == {IF j = 0 THEN x.img ELSE LayersOf[x.img][j] : j \in x.i..Len(LayersOf[x.img])}
Doomed(x, b) == b \in Victims(x) /\ \A img \in x.live : b \notin ReferencedBlobs(img)

(* Someone is in charge of the blob: an image with a record, a pull that will
   publish its image, or a removal that will reclaim it. *)
ByRecord(b) == \E img \in Known : b \in ReferencedBlobs(img)
ByRequest(b) ==
  \E h \in Handlers : /\ Fetching(hs[h]) \/ hs[h].pc \in {"forget", "list"}
                      /\ b \in ReferencedBlobs(hs[h].img)
ByReclaim(b) == \E h \in Handlers : hs[h].pc = "reclaim" /\ Doomed(hs[h], b)
Owned == \A b \in blobs : ByRecord(b) \/ ByRequest(b) \/ ByReclaim(b)

GarbageInv == UsableInv /\ Owned

(* A pull with no faults goes on with its image until it publishes it. *)
LEMMA PullGoesOn ==
  ASSUME UsableInv, ~Faults, ~DiskFaults, ~Crashes, NEW h \in Handlers, PullStep(h), ~PullPut(h)
  PROVE  /\ Others(h) /\ Fetching(hs'[h]) /\ images' = images
         /\ Fetching(hs[h]) => hs'[h].img = hs[h].img
         /\ blobs' \subseteq blobs \cup ReferencedBlobs(hs'[h].img)
<1>1. TypeOK /\ Fetched /\ hs[h] \in Handler /\ Placed(hs[h])
  BY DEF UsableInv, TypeOK
<1>2. ASSUME NEW img \in Images, PullManifest(h, img)
      PROVE  /\ Others(h) /\ Fetching(hs'[h]) /\ images' = images
             /\ hs[h].pc = "manifest" /\ blobs' \subseteq blobs \cup ReferencedBlobs(hs'[h].img)
  BY <1>1, <1>2, ManifestMoves DEF Fetching, PullPC, ReferencedBlobs
<1>3. CASE PullFind(h)
  <2>1. hs[h].pc = "find" /\ Moves(h, "put", hs[h].i) /\ images' = images /\ blobs' = blobs
    BY <1>1, <1>3, FindMoves
  <2> QED BY <2>1 DEF Moves, Fetching, PullPC
<1>4. CASE ~PullFind(h) /\ \A img \in Images : ~PullManifest(h, img)
  <2>1. hs[h].pc \in LayerPC
    BY <1>4 DEF PullStep, PullStream, PullCommit, PullRefused, PullCommitFails, PullVerify,
       PullCheck, PullUnpack, PullExtract, PullDropped, At, LayerPC
  <2>2. hs[h].img \in Images /\ hs[h].i \in DOMAIN LayersOf[hs[h].img]
    BY <1>1, <2>1 DEF Placed, LayerPC
  <2>3. hs[h].pc \in {"verify", "unpack"} => LayersOf[hs[h].img][hs[h].i] \in blobs
    BY <1>1, <2>2 DEF Fetched, HasFetched, Passed, PullPC
  <2>4. Advance(h) \/ \E pc \in LayerPC : Goto(h, pc)
    BY <1>4, <2>3 DEF PullStep, PullStream, PullCommit, PullRefused, PullCommitFails, PullVerify,
       PullCheck, PullUnpack, PullExtract, PullDropped, At, LayerPC
  <2>5. Others(h) /\ hs'[h].img = hs[h].img /\ Fetching(hs'[h])
    <3>1. CASE Advance(h)
      BY <1>1, <3>1, AdvanceMoves DEF Moves, Fetching, PullPC
    <3>2. ASSUME NEW pc \in LayerPC, Goto(h, pc) PROVE Others(h) /\ hs'[h].img = hs[h].img /\ Fetching(hs'[h])
      <4>1. pc \in AllPC /\ pc \in PullPC \ {"manifest"}
        BY DEF AllPC, LayerPC, PullPC
      <4> QED BY <1>1, <3>2, <4>1, GotoMoves DEF Moves, Fetching
    <3> QED BY <2>4, <3>1, <3>2
  <2>6. images' = images /\ (blobs' = blobs \/ blobs' = blobs \cup {LayersOf[hs[h].img][hs[h].i]})
    BY <1>4 DEF PullStep, PullStream, PullCommit, PullRefused, PullCommitFails, PullVerify,
       PullCheck, PullUnpack, PullExtract, PullDropped
  <2>7. LayersOf[hs[h].img][hs[h].i] \in ReferencedBlobs(hs[h].img)
    BY <2>2 DEF ReferencedBlobs, LayerSet
  <2> QED BY <2>5, <2>6, <2>7
<1> QED BY <1>2, <1>3, <1>4 DEF Fetching

LEMMA PullOwned ==
  ASSUME GarbageInv, ~Faults, ~DiskFaults, ~Crashes, NEW h \in Handlers, PullStep(h)
  PROVE  Owned'
<1>1. UsableInv /\ TypeOK /\ Apart /\ Owned
  BY DEF GarbageInv, UsableInv
<1>2. hs[h].pc \in PullPC
  BY <1>1, PullEffect
<1>3. \A g \in Handlers : hs[g].pc \notin RemovePC
  BY <1>1, <1>2 DEF Apart, Pulling, Removing
<1>4. \A b \in blobs : \/ ByRecord(b)
                       \/ \E g \in Handlers : Fetching(hs[g]) /\ b \in ReferencedBlobs(hs[g].img)
  BY <1>1, <1>3 DEF Owned, ByRequest, ByReclaim, RemovePC
<1>5. CASE PullPut(h)
  <2>1. /\ hs[h].img \in Images /\ Others(h) /\ images'[hs[h].img].known /\ blobs' = blobs
        /\ \A img \in Images : img # hs[h].img => images'[img] = images[img]
    BY <1>1, <1>5, PutEnds DEF Ends
  <2>2. Known \subseteq Known' /\ hs[h].img \in Known'
    BY <2>1 DEF Known
  <2>3. ASSUME NEW b \in blobs, ByRecord(b) PROVE ByRecord(b)'
    BY <2>2, <2>3 DEF ByRecord
  <2>4. ASSUME NEW b \in blobs, NEW g \in Handlers, Fetching(hs[g]), b \in ReferencedBlobs(hs[g].img)
        PROVE  (ByRecord(b) \/ ByRequest(b))'
    <3>1. CASE g = h
      BY <2>2, <2>4, <3>1 DEF ByRecord
    <3>2. CASE g # h
      BY <2>1, <2>4, <3>2 DEF Others, ByRequest
    <3> QED BY <3>1, <3>2
  <2> QED BY <1>4, <2>1, <2>3, <2>4 DEF Owned
<1>6. CASE ~PullPut(h)
  <2>1. /\ Others(h) /\ Fetching(hs'[h]) /\ images' = images
        /\ Fetching(hs[h]) => hs'[h].img = hs[h].img
        /\ blobs' \subseteq blobs \cup ReferencedBlobs(hs'[h].img)
    BY <1>1, <1>6, PullGoesOn
  <2>2. ASSUME NEW b, ByRecord(b) PROVE ByRecord(b)'
    BY <2>1, <2>2 DEF ByRecord, Known
  <2>3. ASSUME NEW b, NEW g \in Handlers, Fetching(hs[g]), b \in ReferencedBlobs(hs[g].img)
        PROVE  ByRequest(b)'
    BY <2>1, <2>3 DEF Others, ByRequest
  <2>4. ASSUME NEW b \in ReferencedBlobs(hs'[h].img) PROVE ByRequest(b)'
    BY <2>1 DEF ByRequest
  <2> QED BY <1>4, <2>1, <2>2, <2>3, <2>4 DEF Owned
<1> QED BY <1>5, <1>6

(* The steps of a removal, with the request described by its fields. *)
LEMMA ForgetMoves ==
  ASSUME TypeOK, NEW h \in Handlers, RemoveForget(h)
  PROVE  /\ hs[h].pc = "forget" /\ hs[h].img \in Images /\ Moves(h, "list", hs[h].i) /\ blobs' = blobs
         /\ \A img \in Images : img # hs[h].img => images'[img] = images[img]
<1>1. hs[h].pc = "forget" /\ "list" \in AllPC
  BY DEF RemoveForget, At, AllPC, RemovePC
<1>2. hs[h].img \in Images
  BY <1>1 DEF TypeOK, Placed
<1>3. Moves(h, "list", hs[h].i)
  BY <1>1, GotoMoves DEF RemoveForget
<1> QED BY <1>1, <1>2, <1>3 DEF RemoveForget, TypeOK

LEMMA ListMoves ==
  ASSUME TypeOK, NEW h \in Handlers, RemoveList(h)
  PROVE  /\ hs[h].pc = "list" /\ hs[h].img \in Images /\ Moves(h, "reclaim", 0)
         /\ hs'[h].live = Known /\ images' = images /\ blobs' = blobs
<1> DEFINE y == [hs[h] EXCEPT !.pc = "reclaim", !.live = Known]
<1>1. hs[h].pc = "list" /\ hs[h] \in Handler /\ hs \in [Handlers -> Handler] /\ Known \in SUBSET Images
  BY DEF RemoveList, At, TypeOK, Known
<1>2. hs[h].img \in Images /\ hs[h].i = 0
  BY <1>1 DEF TypeOK, Placed
<1>3. /\ y.pc = "reclaim" /\ y.img = hs[h].img /\ y.i = 0 /\ y.live = Known
      /\ y.ref = hs[h].ref
  BY <1>1, <1>2 DEF Handler
<1>4. hs' = [hs EXCEPT ![h] = y]
  BY DEF RemoveList
<1> HIDE DEF y
<1> QED BY <1>1, <1>2, <1>3, <1>4 DEF RemoveList, Moves, Others

LEMMA ReclaimMoves ==
  ASSUME TypeOK, NEW h \in Handlers, ReclaimBlob(h)
  PROVE  /\ hs[h].pc = "reclaim" /\ hs[h].img \in Images /\ images' = images
         /\ hs[h].i \in 0..Len(LayersOf[hs[h].img])
         /\ IF hs[h].i < Len(LayersOf[hs[h].img])
              THEN Moves(h, "reclaim", hs[h].i + 1) /\ hs'[h].live = hs[h].live
              ELSE Moves(h, "dirs", hs[h].i)
<1>1. /\ hs[h].pc = "reclaim" /\ images' = images /\ "dirs" \in AllPC
      /\ hs[h] \in Handler /\ hs \in [Handlers -> Handler] /\ Placed(hs[h])
  BY DEF ReclaimBlob, At, TypeOK, AllPC, RemovePC
<1>2. hs[h].img \in Images
  BY <1>1 DEF Placed
<1>3. hs[h].i \in 0..Len(LayersOf[hs[h].img])
  BY <1>1, <1>2, Stacks DEF Placed
<1>4. CASE hs[h].i < Len(LayersOf[hs[h].img])
  <2> DEFINE y == [hs[h] EXCEPT !.i = hs[h].i + 1]
  <2>1. /\ y.pc = "reclaim" /\ y.ref = hs[h].ref /\ y.img = hs[h].img /\ y.i = hs[h].i + 1
        /\ y.live = hs[h].live
    BY <1>1, MoveNextBlob
  <2>2. hs' = [hs EXCEPT ![h] = y]
    BY <1>4 DEF ReclaimBlob
  <2> HIDE DEF y
  <2> QED BY <1>1, <1>2, <1>3, <1>4, <2>1, <2>2 DEF Moves, Others
<1>5. CASE ~(hs[h].i < Len(LayersOf[hs[h].img]))
  BY <1>1, <1>2, <1>3, <1>5, GotoMoves DEF ReclaimBlob
<1> QED BY <1>4, <1>5

LEMMA RemoveOwned ==
  ASSUME GarbageInv, NEW h \in Handlers, RemoveStep(h)
  PROVE  Owned'
<1>1. TypeOK /\ Owned
  BY DEF GarbageInv, UsableInv
<1>2. CASE RemoveForget(h)
  <2>1. /\ hs[h].pc = "forget" /\ hs[h].img \in Images /\ Others(h) /\ blobs' = blobs
        /\ hs'[h].pc = "list" /\ hs'[h].img = hs[h].img
        /\ \A img \in Images : img # hs[h].img => images'[img] = images[img]
    BY <1>1, <1>2, ForgetMoves DEF Moves
  <2>2. ASSUME NEW b, ByRecord(b) PROVE (ByRecord(b) \/ ByRequest(b))'
    <3>1. PICK img \in Known : b \in ReferencedBlobs(img)
      BY <2>2 DEF ByRecord
    <3>2. CASE img = hs[h].img
      BY <2>1, <3>1, <3>2 DEF ByRequest
    <3>3. CASE img # hs[h].img
      BY <2>1, <3>1, <3>3 DEF ByRecord, Known
    <3> QED BY <3>2, <3>3
  <2>3. ASSUME NEW b, ByRequest(b) PROVE ByRequest(b)'
    <3>1. PICK g \in Handlers : /\ Fetching(hs[g]) \/ hs[g].pc \in {"forget", "list"}
                                /\ b \in ReferencedBlobs(hs[g].img)
      BY <2>3 DEF ByRequest
    <3> QED BY <2>1, <3>1 DEF ByRequest, Others
  <2>4. ASSUME NEW b, ByReclaim(b) PROVE ByReclaim(b)'
    BY <2>1, <2>4 DEF ByReclaim, Others
  <2> QED BY <1>1, <2>1, <2>2, <2>3, <2>4 DEF Owned
<1>3. CASE RemoveList(h)
  <2>1. /\ hs[h].pc = "list" /\ hs[h].img \in Images /\ Others(h) /\ images' = images /\ blobs' = blobs
        /\ hs'[h].pc = "reclaim" /\ hs'[h].img = hs[h].img /\ hs'[h].i = 0 /\ hs'[h].live = Known
    BY <1>1, <1>3, ListMoves DEF Moves
  <2>2. ASSUME NEW b, ByRecord(b) PROVE ByRecord(b)'
    BY <2>1, <2>2 DEF ByRecord, Known
  <2>3. ASSUME NEW b, ByRequest(b) PROVE (ByRecord(b) \/ ByRequest(b) \/ ByReclaim(b))'
    <3>1. PICK g \in Handlers : /\ Fetching(hs[g]) \/ hs[g].pc \in {"forget", "list"}
                                /\ b \in ReferencedBlobs(hs[g].img)
      BY <2>3 DEF ByRequest
    <3>2. CASE g # h
      BY <2>1, <3>1, <3>2 DEF ByRequest, Others
    <3>3. CASE g = h /\ ~ByRecord(b)
      <4>1. b \in Victims(hs'[h])
        BY <2>1, <3>1, <3>3, Stacks DEF Victims, ReferencedBlobs, LayerSet
      <4>2. Doomed(hs'[h], b)
        BY <2>1, <3>3, <4>1 DEF Doomed, ByRecord
      <4> QED BY <2>1, <4>2 DEF ByReclaim
    <3> QED BY <2>2, <3>2, <3>3
  <2>4. ASSUME NEW b, ByReclaim(b) PROVE ByReclaim(b)'
    BY <2>1, <2>4 DEF ByReclaim, Others
  <2> QED BY <1>1, <2>1, <2>2, <2>3, <2>4 DEF Owned
<1>4. CASE ReclaimBlob(h)
  <2> DEFINE n == Len(LayersOf[hs[h].img])
  <2>1. /\ hs[h].pc = "reclaim" /\ hs[h].img \in Images /\ Others(h) /\ images' = images
        /\ hs[h].i \in 0..n /\ n \in Nat /\ hs'[h].img = hs[h].img
        /\ hs[h].i < n => hs'[h].pc = "reclaim" /\ hs'[h].i = hs[h].i + 1 /\ hs'[h].live = hs[h].live
    BY <1>1, <1>4, ReclaimMoves, Stacks DEF Moves
  <2>2. blobs' \subseteq blobs
    BY <1>4 DEF ReclaimBlob
  <2>3. ASSUME NEW b, ByRecord(b) PROVE ByRecord(b)'
    BY <2>1, <2>3 DEF ByRecord, Known
  <2>4. ASSUME NEW b, ByRequest(b) PROVE ByRequest(b)'
    BY <2>1, <2>4 DEF ByRequest, Others, Fetching, PullPC
  <2>5. ASSUME NEW b \in blobs', ByReclaim(b) PROVE ByReclaim(b)'
    <3>1. PICK g \in Handlers : hs[g].pc = "reclaim" /\ Doomed(hs[g], b)
      BY <2>5 DEF ByReclaim
    <3>2. CASE g # h
      BY <2>1, <3>1, <3>2 DEF ByReclaim, Others
    <3>3. CASE g = h
      <4>1. b # VictimBlob(h)
        BY <1>4, <2>5, <3>1, <3>3 DEF ReclaimBlob, Doomed
      <4>2. PICK j \in hs[h].i..n : b = IF j = 0 THEN hs[h].img ELSE LayersOf[hs[h].img][j]
        BY <3>1, <3>3 DEF Doomed, Victims
      <4>3. j # hs[h].i
        BY <4>1, <4>2 DEF VictimBlob
      <4>4. hs[h].i < n /\ j \in (hs[h].i + 1)..n
        BY <2>1, <4>2, <4>3
      <4>5. b \in Victims(hs'[h])
        BY <2>1, <4>2, <4>4 DEF Victims
      <4>6. Doomed(hs'[h], b)
        BY <2>1, <3>1, <3>3, <4>4, <4>5 DEF Doomed
      <4> QED BY <2>1, <4>4, <4>6 DEF ByReclaim
    <3> QED BY <3>2, <3>3
  <2> QED BY <1>1, <2>2, <2>3, <2>4, <2>5 DEF Owned
<1>5. CASE ReclaimDirs(h)
  <2>1. hs[h].pc = "dirs" /\ Others(h) /\ images' = images /\ blobs' = blobs
    BY <1>1, <1>5 DEF ReclaimDirs, At, Others, TypeOK
  <2>2. ASSUME NEW b, ByRecord(b) PROVE ByRecord(b)'
    BY <2>1, <2>2 DEF ByRecord, Known
  <2>3. ASSUME NEW b, ByRequest(b) PROVE ByRequest(b)'
    BY <2>1, <2>3 DEF ByRequest, Others, Fetching, PullPC
  <2>4. ASSUME NEW b, ByReclaim(b) PROVE ByReclaim(b)'
    BY <2>1, <2>4 DEF ByReclaim, Others
  <2> QED BY <1>1, <2>1, <2>2, <2>3, <2>4 DEF Owned
<1> QED BY <1>2, <1>3, <1>4, <1>5 DEF RemoveStep

LEMMA NextGarbage ==
  ASSUME ~Overlap, ~Faults, ~DiskFaults, ~Crashes
  PROVE  GarbageInv /\ [Next]_vars => GarbageInv'
<1> SUFFICES ASSUME GarbageInv, [Next]_vars PROVE Owned'
  BY NextUsable DEF GarbageInv
<1>1. TypeOK /\ Owned
  BY DEF GarbageInv, UsableInv
<1>2. ASSUME NEW h \in Handlers,
             \/ \E ref \in Refs : PullLock(h, ref)
             \/ \E img \in Images : RemoveFind(h, img)
      PROVE  Owned'
  <2>1. images' = images /\ blobs' = blobs
    BY <1>1, <1>2, StartEffect
  <2>2. hs[h].pc = "idle" /\ Others(h)
    BY <1>1, <1>2 DEF PullLock, RemoveFind, At, Others, TypeOK
  <2>3. ASSUME NEW b, ByRecord(b) PROVE ByRecord(b)'
    BY <2>1, <2>3 DEF ByRecord, Known
  <2>4. ASSUME NEW b, ByRequest(b) PROVE ByRequest(b)'
    BY <2>2, <2>4 DEF ByRequest, Others, Fetching, PullPC
  <2>5. ASSUME NEW b, ByReclaim(b) PROVE ByReclaim(b)'
    BY <2>2, <2>5 DEF ByReclaim, Others
  <2> QED BY <1>1, <2>1, <2>3, <2>4, <2>5 DEF Owned
<1>3. CASE UNCHANGED vars
  BY <1>1, <1>3 DEF vars, Owned, ByRecord, ByRequest, ByReclaim, Known
<1> QED BY <1>2, <1>3, PullOwned, RemoveOwned DEF Next, Crash

(* When no removal overlaps a pull and nothing fails or crashes, every blob
   belongs to an image with a record once no request is in progress, however
   many removals of images that share layers ran side by side. *)
THEOREM NoBlobLeaks ==
  ASSUME ~Overlap, ~Faults, ~DiskFaults, ~Crashes
  PROVE  Spec => []NoGarbage
<1>1. Init => GarbageInv
  BY InitUsable DEF Init, GarbageInv, Owned
<1>2. GarbageInv => NoGarbage
  BY DEF GarbageInv, Owned, ByRecord, ByRequest, ByReclaim, NoGarbage, At, Fetching, PullPC
<1> QED BY <1>1, <1>2, NextGarbage, PTL DEF Spec
-----------------------------------------------------------------------------
(* The chain h is unpacking. *)
ChainOf(x) == Chain(x.img, x.i)
Populated(chain) == snaps[HexDir(chain)] \in {"partial", "full"}

(* Someone is extracting into a partial snapshot. *)
PartialIsHeld ==
  \A chain \in Chains : snaps[HexDir(chain)] = "partial" =>
    \E h \in Handlers : hs[h].pc = "extract" /\ chain = ChainOf(hs[h])

(* The directories of an image with a record have entries ... *)
RecordsPopulated ==
  \A img \in Known : \A chain \in ReferencedChains(img) : Populated(chain)

(* ... and so have those of the layers a pull is done with. *)
Unpacked ==
  \A h \in Handlers : Fetching(hs[h]) =>
    \A j \in DOMAIN LayersOf[hs[h].img] :
      j < hs[h].i \/ hs[h].pc \in {"find", "put"} => Populated(Chain(hs[h].img, j))

SnapInv == RefsInv /\ PartialIsHeld /\ Unpacked /\ RecordsPopulated

LEMMA ChainTypes ==
  ASSUME NEW img \in Images
  PROVE  /\ ReferencedChains(img) \subseteq Chains
         /\ \A j \in DOMAIN LayersOf[img] : Chain(img, j) \in ReferencedChains(img)
         /\ \A j \in DOMAIN LayersOf[img] : HexDir(Chain(img, j)) \in Dirs
<1>1. /\ ReferencedChains(img) \subseteq Chains
      /\ \A j \in DOMAIN LayersOf[img] : Chain(img, j) \in ReferencedChains(img)
  BY Stacks DEF ReferencedChains, Chains
<1>2. \A chain \in Chains : HexDir(chain) \in Dirs
  BY DEF HexDir, Dirs
<1> QED BY <1>1, <1>2

LEMMA DirNames ==
  \A c, d : /\ HexDir(c) # TextDir(d)
            /\ HexDir(c) = HexDir(d) => c = d
BY DEF HexDir, TextDir

(* A pull's step is about its own request. *)
LEMMA PullIsAlone ==
  ASSUME SnapInv, NEW h \in Handlers, PullStep(h)
  PROVE  /\ Others(h)
         /\ hs[h].ref \in Refs /\ hs[h].pc \in PullPC
<1>1. TypeOK
  BY DEF SnapInv, RefsInv
<1>2. hs[h].pc \in PullPC /\ Placed(hs[h])
  BY <1>1, PullEffect DEF TypeOK
<1>3. hs[h].ref \in Refs
  BY <1>2 DEF Placed
<1>4. Ends(h) \/ (Others(h) /\ lock' = lock /\ hs'[h].ref = hs[h].ref)
  BY <1>1, ManifestMoves, FindMoves, PutEnds, LayerMoves DEF Moves
<1>5. Others(h)
  BY <1>4 DEF Ends
<1> QED BY <1>2, <1>3, <1>5

(* What remains to be shown of a step that completes no snapshot and starts
   none: that the layers its own request is done with are whole. *)
Whole(h) ==
  Fetching(hs'[h]) =>
    \A j \in DOMAIN LayersOf[hs'[h].img] :
      j < hs'[h].i \/ hs'[h].pc \in {"find", "put"} => snaps'[HexDir(Chain(hs'[h].img, j))] \in {"partial", "full"}

LEMMA SnapsGrow ==
  ASSUME SnapInv, NEW h \in Handlers, Others(h), images' = images, Whole(h),
         \A chain \in Chains : Populated(chain) => snaps'[HexDir(chain)] \in {"partial", "full"},
         \A chain \in Chains : snaps'[HexDir(chain)] = "partial" =>
            \/ hs'[h].pc = "extract" /\ chain = ChainOf(hs'[h])
            \/ /\ snaps[HexDir(chain)] = "partial"
               /\ ~(hs[h].pc = "extract" /\ chain = ChainOf(hs[h]))
  PROVE  PartialIsHeld' /\ Unpacked' /\ RecordsPopulated'
<1>1. TypeOK /\ PartialIsHeld /\ Unpacked /\ RecordsPopulated
  BY DEF SnapInv, RefsInv
<1>2. PartialIsHeld'
  <2> SUFFICES ASSUME NEW chain \in Chains, snaps'[HexDir(chain)] = "partial"
               PROVE  \E g \in Handlers : hs'[g].pc = "extract" /\ chain = ChainOf(hs'[g])
    BY DEF PartialIsHeld, ChainOf
  <2>1. CASE hs'[h].pc = "extract" /\ chain = ChainOf(hs'[h])
    BY <2>1
  <2>2. CASE /\ snaps[HexDir(chain)] = "partial"
             /\ ~(hs[h].pc = "extract" /\ chain = ChainOf(hs[h]))
    <3>1. PICK g \in Handlers : hs[g].pc = "extract" /\ chain = ChainOf(hs[g])
      BY <1>1, <2>2 DEF PartialIsHeld
    <3>2. g # h
      BY <2>2, <3>1
    <3> QED BY <3>1, <3>2 DEF Others
  <2> QED BY <2>1, <2>2
<1>3. Unpacked'
  <2> SUFFICES ASSUME NEW g \in Handlers, Fetching(hs'[g]), NEW j \in DOMAIN LayersOf[hs'[g].img],
                      j < hs'[g].i \/ hs'[g].pc \in {"find", "put"}
               PROVE  snaps'[HexDir(Chain(hs'[g].img, j))] \in {"partial", "full"}
    BY DEF Unpacked, Populated
  <2>1. CASE g = h
    BY <2>1 DEF Whole
  <2>2. CASE g # h
    <3>1. hs'[g] = hs[g]
      BY <2>2 DEF Others
    <3>2. hs[g].img \in Images
      BY <1>1, <3>1 DEF TypeOK, Placed, Fetching, PullPC
    <3>3. Chain(hs[g].img, j) \in Chains
      BY <3>1, <3>2, ChainTypes
    <3>4. Populated(Chain(hs[g].img, j))
      BY <1>1, <3>1 DEF Unpacked
    <3> QED BY <3>1, <3>3, <3>4
  <2> QED BY <2>1, <2>2
<1>4. RecordsPopulated'
  <2>1. ASSUME NEW img \in Known, NEW chain \in ReferencedChains(img)
        PROVE  snaps'[HexDir(chain)] \in {"partial", "full"}
    <3>1. chain \in Chains
      BY ChainTypes DEF Known
    <3> QED BY <1>1, <3>1 DEF RecordsPopulated, Populated
  <2>2. Known' = Known
    BY DEF Known
  <2> QED BY <2>1, <2>2 DEF RecordsPopulated, Populated
<1> QED BY <1>2, <1>3, <1>4

LEMMA AdvanceWhole ==
  ASSUME SnapInv, NEW h \in Handlers, hs[h].pc \in LayerPC, Advance(h),
         snaps'[HexDir(ChainOf(hs[h]))] \in {"partial", "full"},
         \A chain \in Chains : Populated(chain) => snaps'[HexDir(chain)] \in {"partial", "full"}
  PROVE  Whole(h) /\ hs'[h].pc # "extract"
<1> DEFINE img == hs[h].img
           n   == Len(LayersOf[img])
<1>1. TypeOK /\ Unpacked /\ Placed(hs[h])
  BY DEF SnapInv, RefsInv, TypeOK
<1>2. img \in Images /\ hs[h].i \in 1..n /\ n \in Nat /\ DOMAIN LayersOf[img] = 1..n /\ Fetching(hs[h])
  BY <1>1, Stacks DEF Placed, LayerPC, Fetching, PullPC
<1>3. /\ hs'[h].img = img
      /\ \/ hs'[h].pc = "stream" /\ hs'[h].i = hs[h].i + 1
         \/ hs'[h].pc = "find" /\ hs[h].i = n
  BY <1>1, <1>2, AdvanceMoves DEF Moves
<1>4. ASSUME NEW j \in 1..n, j <= hs[h].i PROVE snaps'[HexDir(Chain(img, j))] \in {"partial", "full"}
  <2>1. CASE j = hs[h].i
    BY <2>1 DEF ChainOf
  <2>2. CASE j # hs[h].i
    <3>1. j < hs[h].i /\ Chain(img, j) \in Chains
      BY <1>2, <1>4, <2>2, ChainTypes
    <3> QED BY <1>1, <1>2, <3>1 DEF Unpacked
  <2> QED BY <2>1, <2>2
<1>5. ASSUME NEW j \in DOMAIN LayersOf[img], j < hs'[h].i \/ hs'[h].pc \in {"find", "put"}
      PROVE  j \in 1..n /\ j <= hs[h].i
  BY <1>2, <1>3, <1>5
<1> QED BY <1>3, <1>4, <1>5 DEF Whole

LEMMA GotoWhole ==
  ASSUME SnapInv, NEW h \in Handlers, hs[h].pc \in LayerPC, NEW pc \in LayerPC, Goto(h, pc),
         \A chain \in Chains : Populated(chain) => snaps'[HexDir(chain)] \in {"partial", "full"}
  PROVE  Whole(h) /\ hs'[h].pc = pc /\ ChainOf(hs'[h]) = ChainOf(hs[h])
<1>1. TypeOK /\ Unpacked /\ Placed(hs[h]) /\ pc \in AllPC /\ Fetching(hs[h])
  BY DEF SnapInv, RefsInv, TypeOK, AllPC, LayerPC, PullPC, Fetching
<1>2. hs[h].img \in Images
  BY <1>1 DEF Placed, LayerPC
<1>3. hs'[h].pc = pc /\ hs'[h].i = hs[h].i /\ hs'[h].img = hs[h].img
  BY <1>1, GotoMoves DEF Moves
<1>4. pc \notin {"find", "put"}
  BY DEF LayerPC
<1>5. ASSUME NEW j \in DOMAIN LayersOf[hs[h].img], j < hs[h].i
      PROVE  snaps'[HexDir(Chain(hs[h].img, j))] \in {"partial", "full"}
  BY <1>1, <1>2, <1>5, ChainTypes DEF Unpacked
<1> QED BY <1>3, <1>4, <1>5 DEF Whole, ChainOf
LEMMA PullSnaps ==
  ASSUME SnapInv, ~Faults, ~Crashes, NEW h \in Handlers, PullStep(h)
  PROVE  PartialIsHeld' /\ Unpacked' /\ RecordsPopulated'
<1> DEFINE chain == ChainOf(hs[h])
<1>1. TypeOK /\ PartialIsHeld /\ Unpacked /\ RecordsPopulated /\ Placed(hs[h]) /\ Others(h)
  BY PullIsAlone DEF SnapInv, RefsInv, TypeOK
<1>t. snaps \in [Dirs -> {"none", "empty", "partial", "full"}]
  BY <1>1 DEF TypeOK
<1>2. hs[h].pc \in LayerPC => chain \in Chains /\ HexDir(chain) \in Dirs
  <2>1. hs[h].pc \in LayerPC => hs[h].img \in Images /\ hs[h].i \in DOMAIN LayersOf[hs[h].img]
    BY <1>1 DEF Placed, LayerPC
  <2> QED BY <2>1, ChainTypes DEF ChainOf
<1>d. \A c \in Chains : HexDir(c) \in Dirs
  BY DEF HexDir, Dirs
<1>3. ASSUME images' = images, snaps' = snaps, hs[h].pc # "extract", Whole(h)
      PROVE  PartialIsHeld' /\ Unpacked' /\ RecordsPopulated'
  BY <1>1, <1>3, SnapsGrow DEF Populated
<1>4. ASSUME hs'[h].pc = "idle" PROVE Whole(h)
  BY <1>4 DEF Whole, Fetching, PullPC
<1>5. ASSUME NEW img \in Images, PullManifest(h, img)
      PROVE  PartialIsHeld' /\ Unpacked' /\ RecordsPopulated'
  <2>1. /\ images' = images /\ snaps' = snaps /\ hs[h].pc = "manifest" /\ hs'[h].img = img
        /\ \/ hs'[h].pc = "find" /\ DOMAIN LayersOf[img] = {}
           \/ hs'[h].pc = "stream" /\ hs'[h].i = 1
    BY <1>1, <1>5, ManifestMoves
  <2>2. Whole(h)
    BY <2>1, Stacks DEF Whole
  <2> QED BY <1>3, <2>1, <2>2
<1>6. CASE PullFind(h)
  <2>1. /\ images' = images /\ snaps' = snaps /\ hs[h].pc = "find" /\ hs'[h].img = hs[h].img
    BY <1>1, <1>6, FindMoves DEF Moves
  <2>2. Fetching(hs[h])
    BY <2>1 DEF Fetching, PullPC
  <2>3. Whole(h)
    BY <1>1, <2>1, <2>2 DEF Whole, Unpacked, Populated
  <2> QED BY <1>3, <2>1, <2>3
<1>7. CASE PullPut(h)
  <2>1. /\ hs[h].pc = "put" /\ hs[h].img \in Images /\ snaps' = snaps /\ hs'[h].pc = "idle"
        /\ \A img \in Images : img # hs[h].img => images'[img] = images[img]
    BY <1>1, <1>7, PutEnds DEF Ends
  <2>2. \A c \in ReferencedChains(hs[h].img) : snaps[HexDir(c)] \in {"partial", "full"}
    <3>1. Fetching(hs[h])
      BY <2>1 DEF Fetching, PullPC
    <3> QED BY <1>1, <2>1, <3>1 DEF Unpacked, Populated, ReferencedChains
  <2>3. RecordsPopulated'
    <3>1. ASSUME NEW img \in Images, images'[img].known, NEW c \in ReferencedChains(img)
          PROVE  snaps[HexDir(c)] \in {"partial", "full"}
      BY <1>1, <2>1, <2>2, <3>1 DEF RecordsPopulated, Populated, Known
    <3> QED BY <2>1, <3>1 DEF RecordsPopulated, Populated, Known
  <2>4. PartialIsHeld'
    BY <1>1, <2>1 DEF PartialIsHeld, Others
  <2>5. Unpacked'
    BY <1>1, <2>1 DEF Unpacked, Others, Fetching, PullPC, Populated
  <2> QED BY <2>3, <2>4, <2>5
<1>8. CASE PullStream(h) \/ PullCommit(h) \/ PullVerify(h)
  <2>1. images' = images /\ snaps' = snaps /\ hs[h].pc \in LayerPC \ {"extract"}
    BY <1>8 DEF PullStream, PullCommit, PullVerify, At, LayerPC
  <2>2. PullReturn(h) \/ \E pc \in LayerPC : Goto(h, pc)
    BY <1>8 DEF PullStream, PullCommit, PullVerify, LayerPC
  <2>3. CASE PullReturn(h)
    <3>1. hs'[h].pc = "idle"
      BY <1>1, <2>3, IdleType DEF PullReturn, TypeOK
    <3> QED BY <1>3, <1>4, <2>1, <3>1
  <2>4. ASSUME NEW pc \in LayerPC, Goto(h, pc) PROVE Whole(h)
    BY <2>1, <2>4, GotoWhole DEF Populated
  <2> QED BY <1>3, <2>1, <2>2, <2>3, <2>4
<1>9. CASE PullCommitFails(h)
  <2>1. images' = images /\ snaps' = snaps /\ hs[h].pc = "commit" /\ PullReturn(h)
    BY <1>9 DEF PullCommitFails, At
  <2>2. hs'[h].pc = "idle"
    BY <1>1, <2>1, IdleType DEF PullReturn, TypeOK
  <2> QED BY <1>3, <1>4, <2>1, <2>2
<1>10. CASE PullCheck(h)
  <2>1. hs[h].pc = "check" /\ images' = images /\ hs[h].pc \in LayerPC
    BY <1>10 DEF PullCheck, At, LayerPC
  <2>2. CASE snaps[HexDir(chain)] \in {"partial", "full"} /\ Advance(h) /\ snaps' = snaps
    <3>2. Whole(h)
      BY <2>1, <2>2, AdvanceWhole DEF Populated
    <3> QED BY <1>3, <2>1, <2>2, <3>2
  <2>3. CASE /\ snaps[HexDir(chain)] \in {"none", "empty"}
             /\ snaps' = [snaps EXCEPT ![HexDir(chain)] = "empty"] /\ Goto(h, "unpack")
    <3>1. \A c \in Chains : /\ Populated(c) => snaps'[HexDir(c)] \in {"partial", "full"}
                            /\ snaps'[HexDir(c)] = "partial" => snaps[HexDir(c)] = "partial"
      BY <1>t, <1>2, <1>d, <2>1, <2>3 DEF Populated
    <3>2. Whole(h)
      BY <2>1, <2>3, <3>1, GotoWhole DEF LayerPC
    <3> QED BY <1>1, <2>1, <3>1, <3>2, SnapsGrow
  <2> QED BY <1>10, <2>2, <2>3 DEF PullCheck, ChainOf
<1>11. CASE PullUnpack(h)
  <2>1. hs[h].pc = "unpack" /\ images' = images /\ hs[h].pc \in LayerPC
    BY <1>11 DEF PullUnpack, At, LayerPC
  <2>2. CASE PullReturn(h) /\ snaps' = snaps
    <3>1. hs'[h].pc = "idle"
      BY <1>1, <2>2, IdleType DEF PullReturn, TypeOK
    <3> QED BY <1>3, <1>4, <2>1, <2>2, <3>1
  <2>3. CASE /\ snaps' = [snaps EXCEPT ![HexDir(chain)] = IF @ = "full" THEN @ ELSE "partial"]
             /\ Goto(h, "extract")
    <3>1. \A c \in Chains : /\ Populated(c) => snaps'[HexDir(c)] \in {"partial", "full"}
                            /\ snaps'[HexDir(c)] = "partial" => snaps[HexDir(c)] = "partial" \/ c = chain
      BY <1>t, <1>2, <1>d, <2>1, <2>3, DirNames DEF Populated
    <3>2. Whole(h) /\ hs'[h].pc = "extract" /\ ChainOf(hs'[h]) = chain
      BY <2>1, <2>3, <3>1, GotoWhole DEF LayerPC
    <3> QED BY <1>1, <2>1, <3>1, <3>2, SnapsGrow
  <2> QED BY <1>11, <2>2, <2>3 DEF PullUnpack, ChainOf
<1>12. CASE PullExtract(h)
  <2>1. /\ hs[h].pc = "extract" /\ images' = images /\ hs[h].pc \in LayerPC
        /\ snaps' = [snaps EXCEPT ![HexDir(chain)] = "full"] /\ Advance(h)
    BY <1>12 DEF PullExtract, At, LayerPC, ChainOf
  <2>2. \A c \in Chains : /\ Populated(c) => snaps'[HexDir(c)] \in {"partial", "full"}
                          /\ snaps'[HexDir(c)] = "partial" => snaps[HexDir(c)] = "partial" /\ c # chain
    BY <1>t, <1>2, <1>d, <2>1 DEF Populated
  <2>3. snaps'[HexDir(chain)] \in {"partial", "full"}
    BY <1>t, <1>2, <2>1
  <2>4. Whole(h)
    BY <2>1, <2>2, <2>3, AdvanceWhole
  <2> QED BY <1>1, <2>1, <2>2, <2>4, SnapsGrow
<1> QED BY <1>5, <1>6, <1>7, <1>8, <1>9, <1>10, <1>11, <1>12 DEF PullStep, PullRefused, PullDropped

(* A removal deletes no directory a pull or a container uses: the reclaim pass
   looks for names that pull never gives. *)
LEMMA RemoveSnaps ==
  ASSUME SnapInv, NEW h \in Handlers, RemoveStep(h)
  PROVE  PartialIsHeld' /\ Unpacked' /\ RecordsPopulated'
<1>1. TypeOK /\ PartialIsHeld /\ Unpacked /\ RecordsPopulated
  BY DEF SnapInv, RefsInv
<1>2. PICK y \in Handler : hs' = [hs EXCEPT ![h] = y] /\ y.pc \in RemovePC \cup {"idle"}
  BY <1>1, RemoveEffect
<1>3. /\ hs[h].pc \in RemovePC /\ lock' = lock
      /\ images' = images \/ images' = [images EXCEPT ![hs[h].img] = NoRecord]
  BY <1>1, RemoveEffect
<1>4. \A chain \in Chains : snaps'[HexDir(chain)] = snaps[HexDir(chain)]
  <2>1. CASE snaps' = snaps
    BY <2>1
  <2>2. CASE ReclaimDirs(h)
    <3>1. PICK C : snaps' = [d \in Dirs |-> IF d \in {TextDir(chain) : chain \in C} THEN "none" ELSE snaps[d]]
      BY <2>2 DEF ReclaimDirs
    <3>2. \A chain \in Chains : HexDir(chain) \in Dirs /\ HexDir(chain) \notin {TextDir(c) : c \in C}
      BY DirNames DEF HexDir, Dirs
    <3> QED BY <3>1, <3>2
  <2> QED BY <2>1, <2>2 DEF RemoveStep, RemoveForget, RemoveList, ReclaimBlob
<1>5. /\ \A g \in Handlers : g # h => hs'[g] = hs[g]
      /\ hs'[h].pc \notin PullPC /\ hs[h].pc \notin PullPC
  BY <1>1, <1>2, <1>3 DEF TypeOK, PullPC, RemovePC
<1>7. PartialIsHeld'
  BY <1>1, <1>4, <1>5 DEF PartialIsHeld, PullPC
<1>8. Unpacked'
  <2> SUFFICES ASSUME NEW g \in Handlers, Fetching(hs'[g]), NEW j \in DOMAIN LayersOf[hs'[g].img],
                      j < hs'[g].i \/ hs'[g].pc \in {"find", "put"}
               PROVE  snaps'[HexDir(Chain(hs'[g].img, j))] \in {"partial", "full"}
    BY DEF Unpacked, Populated
  <2>1. hs'[g] = hs[g] /\ Fetching(hs[g])
    BY <1>5 DEF Fetching
  <2>2. hs[g].img \in Images
    BY <1>1, <2>1 DEF TypeOK, Placed, Fetching, PullPC
  <2> QED BY <1>1, <1>4, <2>1, <2>2, ChainTypes DEF Unpacked, Populated
<1>9. RecordsPopulated'
  <2>1. Known' \subseteq Known
    BY <1>1, <1>3, IdleType DEF TypeOK, Known
  <2>2. ASSUME NEW img \in Known, NEW chain \in ReferencedChains(img)
        PROVE  snaps'[HexDir(chain)] \in {"partial", "full"}
    <3>1. chain \in Chains
      BY ChainTypes DEF Known
    <3> QED BY <1>1, <1>4, <3>1 DEF RecordsPopulated, Populated
  <2> QED BY <2>1, <2>2 DEF RecordsPopulated, Populated
<1> QED BY <1>7, <1>8, <1>9

LEMMA NextSnaps ==
  ASSUME ~Faults, ~Crashes
  PROVE  SnapInv /\ [Next]_vars => SnapInv'
<1> SUFFICES ASSUME SnapInv, [Next]_vars
             PROVE  PartialIsHeld' /\ Unpacked' /\ RecordsPopulated'
  BY NextRefs DEF SnapInv
<1>1. TypeOK /\ PartialIsHeld /\ Unpacked /\ RecordsPopulated
  BY DEF SnapInv, RefsInv
<1>2. ASSUME NEW h \in Handlers,
             \/ \E ref \in Refs : PullLock(h, ref)
             \/ \E img \in Images : RemoveFind(h, img)
      PROVE  PartialIsHeld' /\ Unpacked' /\ RecordsPopulated'
  <2>1. PICK y \in Handler : hs' = [hs EXCEPT ![h] = y] /\ y.pc \in {"manifest", "forget"}
    BY <1>1, <1>2, StartEffect
  <2>2. images' = images /\ snaps' = snaps /\ hs[h].pc = "idle"
    BY <1>1, <1>2, StartEffect DEF PullLock, RemoveFind, At
  <2>3. (\A g \in Handlers : g # h => hs'[g] = hs[g]) /\ hs'[h].pc \in {"manifest", "forget"}
    BY <1>1, <2>1 DEF TypeOK
  <2>5. PartialIsHeld'
    BY <1>1, <2>2, <2>3 DEF PartialIsHeld
  <2>6. Unpacked'
    BY <1>1, <2>2, <2>3 DEF Unpacked, Fetching, PullPC, Populated
  <2>7. RecordsPopulated'
    BY <1>1, <2>2 DEF RecordsPopulated, Populated, Known
  <2> QED BY <2>5, <2>6, <2>7
<1>3. CASE UNCHANGED vars
  BY <1>1, <1>3 DEF vars, PartialIsHeld, Unpacked, Populated, RecordsPopulated, Known
<1> QED BY <1>2, <1>3, PullIsAlone, PullSnaps, RemoveSnaps DEF Next, Crash

(* A snapshot of an image with a record is complete or being extracted, as
   long as no extraction fails or is cut short by a crash: for any references,
   also ones that share images and layers and so unpack into one directory
   under two locks, and with removals beside the pulls. *)
THEOREM IncompleteStaysUnderWay ==
  ASSUME ~Faults, ~Crashes
  PROVE  Spec => []IncompleteIsUnderWay
<1>1. Init => SnapInv
  <2> SUFFICES ASSUME Init PROVE PartialIsHeld /\ Unpacked /\ RecordsPopulated
    BY InitRefs DEF SnapInv
  <2>1. \A h \in Handlers : hs[h].pc = "idle"
    BY IdleType DEF Init
  <2>2. Unpacked
    BY <2>1 DEF Unpacked, Fetching, PullPC
  <2>3. PartialIsHeld
    <3>1. \A chain \in Chains : HexDir(chain) \in Dirs
      BY DEF HexDir, Dirs
    <3> QED BY <3>1 DEF Init, PartialIsHeld
  <2>4. RecordsPopulated
    BY IdleType DEF Init, RecordsPopulated, Known
  <2> QED BY <2>2, <2>3, <2>4
<1>2. SnapInv => IncompleteIsUnderWay
  <2> SUFFICES ASSUME SnapInv, NEW img \in Known, NEW chain \in ReferencedChains(img),
                      snaps[HexDir(chain)] # "full"
               PROVE  \E h \in Handlers : At(h, "extract") /\ Chain(hs[h].img, hs[h].i) = chain
    BY DEF IncompleteIsUnderWay
  <2>1. chain \in Chains
    BY ChainTypes DEF Known
  <2>2. snaps[HexDir(chain)] = "partial"
    BY DEF SnapInv, RecordsPopulated, Populated
  <2> QED BY <2>1, <2>2 DEF SnapInv, PartialIsHeld, ChainOf, At
<1> QED BY <1>1, <1>2, NextSnaps, PTL DEF Spec
=============================================================================
