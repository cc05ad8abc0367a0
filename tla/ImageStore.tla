------------------------------ MODULE ImageStore ------------------------------
(***************************************************************************)
(* The ImageService of crates/cri/src/server.rs with what it stores: image *)
(* records in metadata.db, blobs in the content store (crates/content),    *)
(* unpacked layers under snapshots/ (crates/images/src/pull.rs), and the   *)
(* reclaim pass of RemoveImage (crates/images/src/gc.rs).                  *)
(*                                                                         *)
(* A pull holds the lock of its reference, not of the image, and a removal *)
(* holds none.  A request is split at every await and wherever another     *)
(* thread can change a file or record between two accesses.                *)
(*                                                                         *)
(* An image stands for its config digest, which is its id.  A layer stands *)
(* for its blob digest and its diffID; every layer has at least one entry. *)
(***************************************************************************)
EXTENDS Integers, Sequences

CONSTANTS
  Images,      \* images (config digests) the registries serve
  Layers,      \* layer blobs
  LayersOf,    \* the layers of an image, in manifest order
  Refs,        \* references (tags and digests) that can be pulled
  Serves,      \* the images a reference can resolve to (a tag can move)
  Handlers,    \* PullImage and RemoveImage requests at the same time
  Overlap,     \* TRUE: a removal can run while a pull does
  Faults,      \* TRUE: transfers, verification and extraction can fail
  DiskFaults,  \* TRUE: the fsync or rename of a commit can fail
  Crashes,     \* TRUE: the daemon can crash, and a client drop a pull
  None         \* no request, no reference, no image

ASSUME ImageAssumption ==
  /\ Images \cap Layers = {}
  /\ LayersOf \in [Images -> Seq(Layers)]
  /\ Serves \in [Refs -> SUBSET Images]
  /\ None \notin Images \cup Refs \cup Handlers
  /\ Overlap \in BOOLEAN
  /\ Faults \in BOOLEAN
  /\ DiskFaults \in BOOLEAN
  /\ Crashes \in BOOLEAN

VARIABLES
  images,   \* Kind::Image table, keyed by image id
  blobs,    \* committed blobs: blobs/sha256/<hex>
  ingest,   \* staging files, by writer; None: files no writer owns
  snaps,    \* snapshot directories, by name
  lock,     \* pull_locks: the request holding a reference's lock
  hs        \* requests in progress

vars == <<images, blobs, ingest, snaps, lock, hs>>

-----------------------------------------------------------------------------
Blobs == Images \cup Layers

(* The chainID of a layer stands for the diffIDs up to it. *)
Chain(img, i) == SubSeq(LayersOf[img], 1, i)
Chains == UNION {{Chain(img, i) : i \in 1..Len(LayersOf[img])} : img \in Images}

(* A directory under snapshots/: pull names it by Digest::hex, the reclaim *)
(* pass by the chainID's text in the record, which is "sha256:" and hex.   *)
HexDir(chain)  == <<"", chain>>
TextDir(chain) == <<"sha256:", chain>>
Dirs == {"", "sha256:"} \X Chains

(* ImageRecord: "refs" are its repoTags and repoDigests. *)
Record == [known : BOOLEAN, refs : SUBSET Refs]
NoRecord == [known |-> FALSE, refs |-> {}]

(* The blobs and chainIDs a record refers to (referenced_blobs) *)
LayerSet(img) == {LayersOf[img][i] : i \in DOMAIN LayersOf[img]}
ReferencedBlobs(img) == {img} \cup LayerSet(img)
ReferencedChains(img) == {Chain(img, i) : i \in DOMAIN LayersOf[img]}
Known == {img \in Images : images[img].known}

PullPC   == {"manifest", "stream", "commit", "verify", "check", "unpack", "extract",
              "find", "put"}
RemovePC == {"forget", "list", "reclaim", "dirs"}
Handler == [pc : PullPC \cup RemovePC \cup {"idle"}, ref : Refs \cup {None},
            img : Images \cup {None}, i : Nat, rec : Record, live : SUBSET Images]
Idle == [pc |-> "idle", ref |-> None, img |-> None, i |-> 0, rec |-> NoRecord, live |-> {}]

(* A request is about a reference, an image and a layer once it names them. *)
Placed(x) ==
  /\ x.pc \in PullPC => x.ref \in Refs
  /\ x.pc \notin {"idle", "manifest"} => x.img \in Images
  /\ x.pc \in {"stream", "commit", "verify", "check", "unpack", "extract"}
       => x.i \in DOMAIN LayersOf[x.img]
  /\ x.pc = "reclaim" => x.i \in DOMAIN LayersOf[x.img] \cup {0}
  /\ x.pc = "forget" \/ x.pc = "list" => x.i = 0

(* The type invariant: what each store, lock and request holds. *)
TypeOK ==
  /\ images \in [Images -> Record]
  /\ blobs \in SUBSET Blobs
  /\ ingest \in SUBSET (Handlers \cup {None})
  /\ snaps \in [Dirs -> {"none", "empty", "partial", "full"}]
  /\ lock \in [Refs -> Handlers \cup {None}]
  /\ hs \in [Handlers -> Handler]
  /\ \A h \in Handlers : Placed(hs[h])

Init ==
  /\ images = [img \in Images |-> NoRecord]
  /\ blobs = {}
  /\ ingest = {}
  /\ snaps = [d \in Dirs |-> "none"]
  /\ lock = [r \in Refs |-> None]
  /\ hs = [h \in Handlers |-> Idle]

-----------------------------------------------------------------------------
At(h, pc) == hs[h].pc = pc
Goto(h, pc) == hs' = [hs EXCEPT ![h] = [@ EXCEPT !.pc = pc]]
Pulling(h)  == hs[h].pc \in PullPC
Removing(h) == hs[h].pc \in RemovePC

(* A pull returns: its guard is dropped, and with it the reference's lock, *)
(* and so is a writer that was not committed, which unlinks its file.      *)
PullReturn(h) ==
  /\ hs' = [hs EXCEPT ![h] = Idle]
  /\ lock' = [lock EXCEPT ![hs[h].ref] = None]

(* Mutant of Advance: one layer too many. *)
AdvancePastEnd(h) ==
  IF hs[h].i <= Len(LayersOf[hs[h].img])
    THEN hs' = [hs EXCEPT ![h] = [@ EXCEPT !.pc = "stream", !.i = hs[h].i + 1]]
    ELSE Goto(h, "find")

(* Layer i is done; the next one, or the record. *)
Advance(h) ==
  IF hs[h].i < Len(LayersOf[hs[h].img])
    THEN hs' = [hs EXCEPT ![h] = [@ EXCEPT !.pc = "stream", !.i = hs[h].i + 1]]
    ELSE Goto(h, "find")

(* PullImage: wait for the reference's lock. *)
PullLock(h, ref) ==
  /\ At(h, "idle")
  /\ ~Overlap => \A g \in Handlers : ~Removing(g)
  /\ lock[ref] = None
  /\ lock' = [lock EXCEPT ![ref] = h]
  /\ hs' = [hs EXCEPT ![h] = [Idle EXCEPT !.pc = "manifest", !.ref = ref]]
  /\ UNCHANGED <<images, blobs, ingest, snaps>>

(* The manifest and the config arrive, and the config blob is stored; then *)
(* a config that does not parse or has other layers is refused.            *)
PullManifest(h, img) ==
  /\ At(h, "manifest")
  /\ img \in Serves[hs[h].ref]
  /\ blobs' = blobs \cup {img}
  /\ \/ /\ IF LayersOf[img] = <<>>
             THEN hs' = [hs EXCEPT ![h] = [@ EXCEPT !.pc = "find", !.img = img]]
             ELSE hs' = [hs EXCEPT ![h] = [@ EXCEPT !.pc = "stream", !.img = img, !.i = 1]]
        /\ UNCHANGED lock
     \/ Faults /\ PullReturn(h)
  /\ UNCHANGED <<images, ingest, snaps>>

(* A writer is opened for the layer, and its chunks staged and hashed. *)
PullStream(h) ==
  /\ At(h, "stream")
  /\ ingest' = ingest \cup {h}
  /\ Goto(h, "commit")
  /\ UNCHANGED <<images, blobs, snaps, lock>>

(* Writer::commit: the verified file is renamed into place, or discarded   *)
(* when the blob is there already.                                         *)
PullCommit(h) ==
  /\ At(h, "commit")
  /\ blobs' = blobs \cup {LayersOf[hs[h].img][hs[h].i]}
  /\ ingest' = ingest \ {h}
  /\ Goto(h, "verify")
  /\ UNCHANGED <<images, snaps, lock>>

(* The transfer fails, or the size or the digest is wrong. *)
PullRefused(h) ==
  /\ Faults
  /\ hs[h].pc \in {"manifest", "stream", "commit"}
  /\ ingest' = ingest \ {h}
  /\ PullReturn(h)
  /\ UNCHANGED <<images, blobs, snaps>>

(* The fsync or the rename fails: commit has taken the file out of the     *)
(* writer before, and Drop looks at it to decide whether to unlink.        *)
PullCommitFails(h) ==
  /\ DiskFaults
  /\ At(h, "commit")
  /\ ingest' = (ingest \ {h}) \cup {None}
  /\ PullReturn(h)
  /\ UNCHANGED <<images, blobs, snaps>>

(* The blob is opened and its diffID computed. *)
PullVerify(h) ==
  /\ At(h, "verify")
  /\ \/ LayersOf[hs[h].img][hs[h].i] \in blobs /\ Goto(h, "check") /\ UNCHANGED lock
     \/ /\ Faults \/ LayersOf[hs[h].img][hs[h].i] \notin blobs
        /\ PullReturn(h)
  /\ UNCHANGED <<images, blobs, ingest, snaps>>

(* Mutant of PullCheck: a directory that exists is reused. *)
PullCheckExists(h) ==
  LET dir == HexDir(Chain(hs[h].img, hs[h].i)) IN
  /\ At(h, "check")
  /\ \/ snaps[dir] # "none" /\ Advance(h) /\ UNCHANGED snaps
     \/ /\ snaps[dir] = "none"
        /\ snaps' = [snaps EXCEPT ![dir] = "empty"]
        /\ Goto(h, "unpack")
  /\ UNCHANGED <<images, blobs, ingest, lock>>

(* A populated directory is reused; another is created. *)
PullCheck(h) ==
  LET dir == HexDir(Chain(hs[h].img, hs[h].i)) IN
  /\ At(h, "check")
  /\ \/ snaps[dir] \in {"partial", "full"} /\ Advance(h) /\ UNCHANGED snaps
     \/ /\ snaps[dir] \in {"none", "empty"}
        /\ snaps' = [snaps EXCEPT ![dir] = "empty"]
        /\ Goto(h, "unpack")
  /\ UNCHANGED <<images, blobs, ingest, lock>>

(* apply_layer opens the blob and writes entry after entry ... *)
PullUnpack(h) ==
  LET dir == HexDir(Chain(hs[h].img, hs[h].i)) IN
  /\ At(h, "unpack")
  /\ \/ /\ LayersOf[hs[h].img][hs[h].i] \in blobs
        /\ snaps' = [snaps EXCEPT ![dir] = IF @ = "full" THEN @ ELSE "partial"]
        /\ Goto(h, "extract")
        /\ UNCHANGED lock
     \/ /\ LayersOf[hs[h].img][hs[h].i] \notin blobs
        /\ PullReturn(h)
        /\ UNCHANGED snaps
  /\ UNCHANGED <<images, blobs, ingest>>

(* ... to the last one, or until one fails, and leaves what it wrote. *)
PullExtract(h) ==
  LET dir == HexDir(Chain(hs[h].img, hs[h].i)) IN
  /\ At(h, "extract")
  /\ \/ snaps' = [snaps EXCEPT ![dir] = "full"] /\ Advance(h) /\ UNCHANGED lock
     \/ Faults /\ PullReturn(h) /\ UNCHANGED snaps
  /\ UNCHANGED <<images, blobs, ingest>>

(* The record the image has, or a new one ... *)
PullFind(h) ==
  /\ At(h, "find")
  /\ hs' = [hs EXCEPT ![h] = [@ EXCEPT !.pc = "put", !.rec = images[hs[h].img]]]
  /\ UNCHANGED <<images, blobs, ingest, snaps, lock>>

(* Mutant of PullPut: the reference is not added. *)
PullPutNoRef(h) ==
  /\ At(h, "put")
  /\ images' = [images EXCEPT ![hs[h].img] = [known |-> TRUE, refs |-> hs[h].rec.refs]]
  /\ PullReturn(h)
  /\ UNCHANGED <<blobs, ingest, snaps>>

(* ... is stored with the reference added, and the lock released. *)
PullPut(h) ==
  /\ At(h, "put")
  /\ images' = [images EXCEPT ![hs[h].img] =
                  [known |-> TRUE, refs |-> hs[h].rec.refs \cup {hs[h].ref}]]
  /\ PullReturn(h)
  /\ UNCHANGED <<blobs, ingest, snaps>>

(* The client drops the pull at an await: the lock, the registry's answers. *)
PullDropped(h) ==
  /\ Crashes
  /\ hs[h].pc \in {"manifest", "stream", "commit"}
  /\ ingest' = ingest \ {h}
  /\ PullReturn(h)
  /\ UNCHANGED <<images, blobs, snaps>>

-----------------------------------------------------------------------------
(* RemoveImage of an image some key finds: an id, a tag or a digest. *)
RemoveFind(h, img) ==
  /\ At(h, "idle")
  /\ ~Overlap => \A g \in Handlers : ~Pulling(g)
  /\ images[img].known
  /\ hs' = [hs EXCEPT ![h] = [Idle EXCEPT !.pc = "forget", !.img = img]]
  /\ UNCHANGED <<images, blobs, ingest, snaps, lock>>

RemoveForget(h) ==
  /\ At(h, "forget")
  /\ images' = [images EXCEPT ![hs[h].img] = NoRecord]
  /\ Goto(h, "list")
  /\ UNCHANGED <<blobs, ingest, snaps, lock>>

(* Mutant of RemoveList: images that are being removed count as remaining. *)
RemoveListStale(h) ==
  /\ At(h, "list")
  /\ hs' = [hs EXCEPT ![h] =
              [@ EXCEPT !.pc = "reclaim",
                        !.live = Known \cup {hs[g].img : g \in {g \in Handlers \ {h} : Removing(g)}}]]
  /\ UNCHANGED <<images, blobs, ingest, snaps, lock>>

(* The records that remain are listed once, before anything is reclaimed. *)
RemoveList(h) ==
  /\ At(h, "list")
  /\ hs' = [hs EXCEPT ![h] = [@ EXCEPT !.pc = "reclaim", !.live = Known]]
  /\ UNCHANGED <<images, blobs, ingest, snaps, lock>>

(* Blob i of the removed record: its config (0), then its layers. *)
VictimBlob(h) ==
  IF hs[h].i = 0 THEN hs[h].img ELSE LayersOf[hs[h].img][hs[h].i]

(* Mutant of ReclaimBlob: only config digests keep a blob. *)
ReclaimBlobConfigs(h) ==
  /\ At(h, "reclaim")
  /\ blobs' = IF VictimBlob(h) \in hs[h].live THEN blobs ELSE blobs \ {VictimBlob(h)}
  /\ IF hs[h].i < Len(LayersOf[hs[h].img])
       THEN hs' = [hs EXCEPT ![h] = [@ EXCEPT !.i = hs[h].i + 1]]
       ELSE Goto(h, "dirs")
  /\ UNCHANGED <<images, ingest, snaps, lock>>

(* reclaim: one blob after the other, unless a listed record refers to it. *)
ReclaimBlob(h) ==
  /\ At(h, "reclaim")
  /\ blobs' = IF \E img \in hs[h].live : VictimBlob(h) \in ReferencedBlobs(img)
                THEN blobs ELSE blobs \ {VictimBlob(h)}
  /\ IF hs[h].i < Len(LayersOf[hs[h].img])
       THEN hs' = [hs EXCEPT ![h] = [@ EXCEPT !.i = hs[h].i + 1]]
       ELSE Goto(h, "dirs")
  /\ UNCHANGED <<images, ingest, snaps, lock>>

(* ... then the directories its chainIDs name. *)
ReclaimDirs(h) ==
  /\ At(h, "dirs")
  /\ LET live  == UNION {ReferencedChains(img) : img \in hs[h].live}
         stale == {TextDir(chain) : chain \in ReferencedChains(hs[h].img) \ live}
     IN  snaps' = [d \in Dirs |-> IF d \in stale THEN "none" ELSE snaps[d]]
  /\ hs' = [hs EXCEPT ![h] = Idle]
  /\ UNCHANGED <<images, blobs, ingest, lock>>

(* The daemon crashes and restarts: requests and locks are gone, staging   *)
(* files stay, for no writer.                                              *)
Crash ==
  /\ Crashes
  /\ hs' = [h \in Handlers |-> Idle]
  /\ lock' = [r \in Refs |-> None]
  /\ ingest' = IF ingest = {} THEN {} ELSE {None}
  /\ UNCHANGED <<images, blobs, snaps>>

-----------------------------------------------------------------------------
PullStep(h) ==
  \/ \E img \in Images : PullManifest(h, img)
  \/ PullStream(h) \/ PullCommit(h) \/ PullRefused(h) \/ PullCommitFails(h)
  \/ PullVerify(h) \/ PullCheck(h) \/ PullUnpack(h) \/ PullExtract(h)
  \/ PullFind(h) \/ PullPut(h) \/ PullDropped(h)

RemoveStep(h) == RemoveForget(h) \/ RemoveList(h) \/ ReclaimBlob(h) \/ ReclaimDirs(h)

Next ==
  \/ \E h \in Handlers, ref \in Refs : PullLock(h, ref)
  \/ \E h \in Handlers, img \in Images : RemoveFind(h, img)
  \/ \E h \in Handlers : PullStep(h) \/ RemoveStep(h)
  \/ Crash

Spec == Init /\ [][Next]_vars

-----------------------------------------------------------------------------
(* Every image with a record has its config and all its layers in the content
   store: CreateContainer reads them from there (unpack_rootfs), and reclaim
   deletes a blob only if no remaining image still references it. *)
ImagesUsable == \A img \in Known : ReferencedBlobs(img) \subseteq blobs

(* With no request in progress every blob belongs to an image with a record:
   of two removals that list the records in any order, the one that lists last
   reclaims what the images shared. *)
NoGarbage ==
  (\A h \in Handlers : At(h, "idle")) =>
    \A b \in blobs : \E img \in Known : b \in ReferencedBlobs(img)

(* A snapshot of an image with a record that is not complete is being
   extracted at this moment, by the pull whose half-done work another pull took
   for done, under any references and removals.  That it is complete does not
   hold, although the lock of a pull is there for it (locks.rs): the lock is
   that of a reference, and pulls of one image under two references unpack into
   one directory together.  A pull that fails or is cut short by a crash breaks
   this too, so it is stated for pulls that run to their end. *)
IncompleteIsUnderWay ==
  \A img \in Known : \A chain \in ReferencedChains(img) :
    \/ snaps[HexDir(chain)] = "full"
    \/ \E h \in Handlers : At(h, "extract") /\ Chain(hs[h].img, hs[h].i) = chain

(* Every image with a record is listed under a reference, and only under ones
   that resolved to it, although tags move between images while pulls run. *)
RefsServed ==
  \A img \in Known :
    images[img].refs # {} /\ \A ref \in images[img].refs : img \in Serves[ref]
=============================================================================
