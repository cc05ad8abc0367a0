# A formal model of containerd-rs

containerd-rs is a container runtime daemon for Kubernetes: it serves the CRI
(gRPC on a unix socket), pulls images, sets up pod networking with CNI, and runs
containers through `crun`. This directory holds TLA+ modules that model its
stateful core, the TLC configurations that check them, and TLAPS proofs.
`PROJECT.json` lists the runs, what each module's definitions correspond to in
the source, the hazards the properties aim at, and the findings.

## 1. The system

One process, on tokio's multi-thread runtime. A request handler is a future; the
handlers share `Context` (crates/cri/src/server.rs) and nothing else.

| Part | State | Operations | Talks to |
|---|---|---|---|
| metadata store (crates/metadata) | three redb tables in use: images, containers, sandboxes | `put`, `get`, `delete`, `list`, **each its own transaction** | used by everything |
| containers (server.rs, crates/runtime) | `ContainerRecord`, bundle directory, one supervision task per started container | Create, Start, Stop, Remove, UpdateContainerResources; `reconcile()` at start | metadata, content store, `crun` |
| crun (external) | its own state directory, cgroups, processes; **survives the daemon** | `run`, `state`, `kill`, `delete --force`, `update` | |
| pod sandboxes (server.rs, crates/sandbox) | `SandboxRecord`, a bound network namespace, the CNI plugins' allocations, a namespace holder process | RunPodSandbox, StopPodSandbox, RemovePodSandbox | metadata, CNI plugins, kernel |
| image service (server.rs, crates/images) | `ImageRecord`, per-reference locks | PullImage, RemoveImage | metadata, content, snapshots, registries |
| content store (crates/content) | `blobs/sha256/*`, staging files in `ingest/` | writer, commit, remove | |
| snapshots (crates/snapshots) | `snapshots/<name>/fs` directories | `apply_layer` | content |
| streaming (streaming.rs, spdy.rs) | one-time tokens, live output buses, stdin and log handles, SPDY connections | exec, attach, port-forward | crun, supervision |
| exec and logs (server.rs) | pid files, log files | ExecSync, ReopenContainerLog, pumps | crun |
| spec generation (bundle.rs, seccomp.rs) | none: a function from a request to config.json | | |

What makes it hard:

* **No lock around a record.** Handlers and supervision tasks read a record, do
  something slow, and store the whole record again. Every interleaving of gets
  and puts happens.
* **Three sets of state that must agree**: the record, the disk and crun (or the
  kernel). They change one after the other, and the daemon can die in between.
* **Processes outlive the daemon**, and the daemon finds them again only through
  the records.
* **Waits with and without a deadline**: StopContainer's grace period,
  StartContainer's 2 s, the console socket's `accept()` without any.
* **Futures are dropped** when a client gives up, at any await.
* **A streaming session is many tasks**: the handler, a read loop, a pump per
  output, a stdin task, all on one connection that can go away at any moment,
  beside a process that can block on any of its pipes.

What makes each part correct, informally: a record reported Exited has no live
process; every live process is reachable through a record; exit codes are not
lost; a removed object stays removed; a record's image has its blobs; nothing
unreferenced stays on disk; a Ready sandbox has its network and is the only one
of its pod; nothing that is not ours is killed; a token opens one session; a
client that is told how a command ended has all of its output; no session
outlives its container or its command; a container runs in the namespaces, with
the privileges, limits, mounts and root file system its request asks for; its
log holds what it wrote; an exec that is over leaves nothing behind.

## 2. The modules

| Module | Models | Lines of |
|---|---|---|
| `Container.tla` | containers, crun, supervision, crash and `reconcile()` | server.rs, crun.rs, shim.rs, main.rs |
| `Lifecycle.tla` | abstract: the lifecycle a CRI client may rely on | records.rs |
| `ContainerProofs.tla` | theorems about Container | |
| `ImageStore.tla` | pulls, the content store, snapshots, removal and reclaim | server.rs, pull.rs, gc.rs, content/lib.rs, locks.rs |
| `ImageStoreProofs.tla` | theorems about ImageStore | |
| `Sandbox.tla` | sandboxes, network namespaces, CNI chain, holders | server.rs, cni.rs, pid_holder.rs |
| `SandboxProofs.tla` | theorems about Sandbox, and about Pod on top of them | |
| `Pod.tla` | Sandbox composed with the containers that join its namespaces | server.rs |
| `CreateBundle.tla` | CreateContainer's bundle and UpdateContainerResources as functions of the requests | server.rs, records.rs, crun.rs |
| `OciSpec.tla` | `generate_spec` and every edit of the spec | bundle.rs |
| `Seccomp.tla` | the filter of the default seccomp profile | seccomp.rs |
| `Layers.tla` | application of layers with whiteouts, and what it should give | diff.rs |
| `Collections.tla` | `Vec::retain`, `Iterator::filter` and `HashMap::extend`, as OciSpec, Seccomp, Layers and ContainerLog use them | |
| `CreateBundleProofs.tla` | theorems about CreateBundle and the functions it calls | |
| `ContainerLog.tla` | output pumps, log files, rotation and ReopenContainerLog | server.rs |
| `ExecSync.tla` | ExecSync, its deadline, crun's pid file | server.rs, crun.rs |
| `RunningContainer.tla` | ContainerLog and ExecSync composed | |
| `RunningContainerProofs.tla` | theorems about ContainerLog and ExecSync as composed | |
| `Streams.tla` | tokens, connections, read loop and stream collection: what exec and attach share | streaming.rs, spdy.rs |
| `Exec.tla` | exec sessions, their pumps and stdin task, the process | streaming.rs, crun.rs |
| `Attach.tla` | attach sessions, live bus, stdin pipe, the supervision that publishes them | streaming.rs, server.rs |
| `StreamsProofs.tla` | lemmas about Streams that both proofs below use | |
| `ExecProofs.tla`, `AttachProofs.tla` | theorems about Exec and Attach | |
| `MC*.tla` | constants and symmetry sets for TLC | |

### Container

State: `meta` (the container table: state, exit code, reason, limits of each
record), `bundle`, `ids` (which ids were generated, and published), `crun` and
`cg` (crun's state directory and the cgroups), `run` (`crun run` processes),
`hs` (handlers, each with the copy of the record it read), `task` (supervision
tasks), `daemon`, `todo` and `rc` (restart and `reconcile()`).

Each handler is split where the code does something another process can see:
at every metadata transaction and every crun command. So StopContainer is
`StopGet`, `StopTerm`, `StopPoll`, `StopKill`, `StopDelete`, `StopFinal` and
`StopSettle`, and StartContainer is `StartGet`, `StartCheck`, `StartMark` (put
Running and spawn the task) and `StartWait`. A supervision task is `TaskSpawn`,
then `TaskReap` (pipes) or `TaskTtyError`/`TaskTtyEof` (terminal), `TaskGet` and
`TaskPut`. A handler or task slot is one member of `Handlers`; StartContainer
takes a slot whose former task and process are done, so the slot also names the
task and the `crun run` process it started.

crun is external and modelled from how the code uses it: `crun run` registers
the id (`RunRegister`), starts the workload (`RunStart`), waits and deletes
(`RunReap`), or fails before it registers anything (`RunFail`). `crun delete
--force` kills what runs and forgets the id. SIGTERM may be ignored.

Constants that widen or narrow the environment:

* `Serial`: the client has one request per container in flight, as the kubelet's
  pod workers do. FALSE: any requests overlap.
* `PromptCrun`: `crun run` reaches registration before StartContainer's wait of
  2 s is over and is settled when a crashed daemon is up again. FALSE: crun can
  take any time.
* `Cancels`: the steps at which a client may drop its request, of the awaits the
  handlers have (`AwaitSteps`). StartContainer's is its wait for crun (`"wait"`);
  the supervision task and the command a handler waits for go on without it.
* `CrunFaults`, `MaxCrashes`: failing `crun state`, crashes of the daemon.
  `MaxCrashes` is the model's only counter bound.

A resource message sets some of the fields in `LimitFields` (`Limits` are the
messages of the instance). `crun update` changes the fields that are set
(`Limited`) and the record keeps the whole message, so the two are not the same
after a partial resize.

`Lifecycle` is the abstract specification. The refinement mapping `status` shows
Fresh before CreateContainer's put, Removed once a published record is gone, and
the record's state in between.

### ImageStore

State: `images` (records: known, references), `blobs`, `ingest` (staging files
by the writer that owns them), `snaps` (snapshot directories by *name*: hex as
`pull` makes them, text as `reclaim` looks for them), `lock`, `hs`. A pull is
`PullLock`, `PullManifest`, then per layer `PullStream`, `PullCommit`,
`PullVerify`, `PullCheck`, `PullUnpack`, `PullExtract`, then `PullFind` and
`PullPut`; failures are actions of their own. A removal is `RemoveFind`,
`RemoveForget`, `RemoveList`, `ReclaimBlob` for each blob and `ReclaimDirs`.
Digests are model values; the chainID of layer i stands for the layers up to i,
which is what the hash chain of `chain_ids` identifies. The removal of the
directories is one step: nobody reads a directory of a stale text name.

`Overlap` FALSE keeps removals and pulls apart (nothing in the daemon does; it
is the assumption under which the store is sound, see the findings).

### Sandbox

State: `meta`, `ids`, `netns`, `cni` (how many plugins of the chain were added),
`proc` (who has each host pid), `hs`. RunPodSandbox is `Run`, `RunNetns`,
`RunAdd` per plugin (or `RunUndo`), `RunHolder`, `RunList`, `RunDemote` per old
sandbox, `RunPut`; StopPodSandbox `StopGet`, `StopKill`, `StopPut`;
RemovePodSandbox `RemoveGet`, `RemoveTeardown`, `RemoveReap`, `RemoveForget`.
`Fork` gives a free pid to a process of the host, and `HolderDies` ends a holder
that nobody killed, which nobody notices. CNI plugins are external.
`CniFaults`, `DelFaults` and `PidFaults` let plugins fail on ADD and on DEL, and
the holder's helper fail after it forked the holder; `HolderDeaths` allows
`HolderDies`.

### Pod

`Pod` extends Sandbox with `ctr`: for each container the namespace paths that
CreateContainer copied from the sandbox's record, and what crun found at them.
`CreateContainer` looks at the record's existence only, `StartContainer` opens
whatever is at the paths by then, and `NamespacesEnd` is the kernel's part: a PID
namespace ends with its init, here the holder. The steps within a create or a
start are Container's.

`Protocol` is the client's part. The daemon does not keep containers and their
sandbox apart: StopPodSandbox and RemovePodSandbox do not look at containers, and
CreateContainer and StartContainer do not look at the sandbox's state. The
kubelet starts what it created before it stops the pod, and stops containers
before it removes the sandbox; that is what is assumed, and no more. In
particular a container may still run while its sandbox is stopped or demoted.

### CreateBundle, OciSpec, Seccomp and Layers

These are functions. `create_container` goes from a pod's and a container's
configuration and the image records to an error or a bundle: the sandbox record
(`sandbox_record`), the image (`find_image`), the validation, the request
(`container_request`), the root file system (`Rootfs`), the spec (`generate_spec`)
and the record that ContainerStatus reads. `generate_spec` is the composition of
the edits of bundle.rs in the code's order, each an operator on the spec.
`apply_layer` goes over a layer's entries in archive order and ends at the first
error, `unpack_rootfs` likewise over the layers. A symbolic link is a leaf of the
tree; images in which one would be followed are outside the model (`LinksApart`,
section 5).

State: `asked` (a configuration), `made` (the bundle, the record and the cgroup)
and `resized`. `CreateContainer` takes a configuration of one of the families in
`Asks`; `UpdateContainerResources` then performs its resizes, which change the
cgroup by `update_args` and the record by `resources_record`. Paths, capability
names, syscalls and references are model values or small records; `U32` is the
modulus of the `as u32` conversions. The properties are stated from the request,
without reference to the order of the edits: `Overlay` defines what a layer does
to a tree from the change set's meaning, `LastSet` a limit from the history of
the messages, `Applies` a seccomp rule from the capabilities the container ends
up with.

### ContainerLog, ExecSync and RunningContainer

`ContainerLog` has `box` (record, supervision, workload and stop), `wrote` and `pipe`
(what the workload wrote, and what nobody has read), `pump`, `files` (lines in
each file, and lines handed to tokio that have not reached it), `place` (the file
at the log path and the renamed ones), `log` (the shared handle and its lock)
and `reopen`. A pump is `PumpRead`, `PumpLock`, `PumpWrite`, with `FileWrite` the
worker thread that finishes a write after the pump went on; ReopenContainerLog is
`ReopenGet`, `ReopenCreate`, `ReopenHandle`, `ReopenSwap`; `Rotate` and
`RotateBack` are the kubelet's renames. `StopKill` and `StopRecord` are the end of
a StopContainer, which stores an exit of its own (`box.code` is then `forced`)
without waiting for the pumps, before or after the task stores the real code; its
get and put are taken apart in Container, not here. A terminal's thread writes through a
file of its own (`TtyPump`). Bytes are numbers and a line break, so loss,
duplication and order can be told apart.

`ExecSync` has one record per request: the handler's step, crun, the process,
the pid file, and whether something the process started keeps its output open.
`PromptPidFile` says that crun has written the pid file, or failed, by the
deadline.

`RunningContainer` composes the two: crun enters only a container that runs, and
the container's end ends every process in it.

### Streams, Exec and Attach

`Streams` holds the state both kinds of session have: `reg` and `minted` (the
token registry), `conn` (per connection: the socket, whether the read loop runs,
whether the sender of the stdin channel exists, how much input is queued), `hd`
(the handler: its step, the session it took, the streams it has), `sent` and
`status` (what the client got). A session is `Register`, `Dial`, `Take` (or
`TakeMissing`, `HandshakeFails`), for SPDY `Collect`, then the steps of its kind.
`ClientInput`, `ClientFin`, `ClientGoAway`, `ClientGone` and `LoopEof` are the
frames and the end of the connection as `read_loop` handles them.

* A frame is handled when it arrives. Nothing looks at the socket before the read
  loop does, so the two orders cannot be told apart.
* `Collect` stands for the loop of `collect_rc_streams` and the SYN_STREAMs it
  accepts: it goes on with any subset of the streams, because it gives up after
  10 s or when the connection closes.
* A connection's transport is fixed (`Transport`): `spdy`, `ws` (v4 or v5) or
  `v1` (a WebSocket without an error channel). A client opens the streams it
  asked for.
* What a client does after its session is over is left out.

`Exec` adds `px` (the process and its pipes: chunks written, chunks in each pipe,
whether the pipe still has a reader, EOF on stdin, and the outputs that a child
the command left in the background keeps open), `pump` and `feed`. A terminal
exec over SPDY goes through a console socket (`ExecTty`, `ExecConsole`,
`ExecNoConsole`) and its pty stays open while either half is in use. The process
is external: it writes its output and ends at any time, and at the latest when
all is written and its stdin is at EOF; it is taken to read the stdin it is fed.
When it ends it may leave a child (`Leaves`) that writes or holds its outputs,
until it ends (`ChildEnds`) or for ever; a pump sees EOF only when nobody has the
output open (`Closed`).

`Attach` adds `rx` (where each receiver is on the bus, and whether it lagged),
`feed`, and `box`: one interactive container without a terminal, with its live
bus, its stdin pipe and handle and its supervision (`StartLive`,
`SuperviseStdin` or `SuperviseSpawnFails`, `CtrWrite`, `CtrExit`,
`SuperviseRecord`, `SuperviseClose`). Only the order of supervision's steps
matters here; what it stores is Container's.

## 3. The runs

Passing runs:

| Run | Instance | Shows |
|---|---|---|
| container_serial | 2 containers (one tty), 2 slots, 1 crash, drops at every await but StartContainer's; Serial, PromptCrun | ExitedMeansDead, NoOrphanProcess, NeverRelaunched, RestartSparesWorkloads |
| container_lifecycle | 2 containers (one tty), 1 crash, slow crun, failing probes, drops at every await; no Remove, no Update | TypeOK, RecordsCoherent, LiveIsSupervised, ImplementsLifecycle |
| container_progress | FairSpec, 1 container without a terminal, 3 slots, every operation, messages that set one or both of 2 limits; Serial, no crash, no drops | LimitsAgree, ExitIsRecorded, StopEndsWorkload |
| image_store | 2 images with a shared layer, a moving tag and a digest, all faults and crashes; no overlap | TypeOK, ImagesUsable, RefsServed |
| image_quiet | the same images and references, 3 slots, no faults; no overlap | NoGarbage, IncompleteIsUnderWay |
| pod_serial | 2 pods, 3 sandbox ids, 2 pids, 2 plugins, 1 container, setup faults; Serial | TypeOK, NoResourceLeak, HolderIsOurs, OneReadySandbox, WorkloadInItsPod |
| sandbox_concurrent | 1 pod, 2 ids, 3 slots, all faults, crashes and deaths of holders | NeverReadyAgain |
| create_bundle | 7 families of configurations, up to 2 resizes each | NamespacesAsAsked, PrivilegesAsAsked, ResourcesAsAsked, MountsAsAsked, RootfsIsMerged |
| running_container | with and without a terminal, 2 bytes on stdout and 1 on stderr, 2 rotations, a stop, 1 ExecSync; PromptPidFile | LogIsComplete, ExitAfterOutput, RotatedLogIsFinal, ExecLeavesNothing |
| exec_session | FairSpec, 1 token, a SPDY and a v1 connection, a terminal, pipes, a command without stdin, background children | StatusAfterOutput, ExecEnds |
| attach_session | FairSpec, 1 token, a SPDY and a WebSocket connection, a stdin_once container | TypeOK, OneSessionPerToken, AttachFaithful, SuccessIsLast, AttachEnds, StdinOnceCloses |

Two slots are enough for a handler to race another, and a supervision task to
race both, since tasks run beside the handlers of all slots; a third slot is
there where three requests matter (two removals and a pull; two runs and a
stop). Two containers only meet in reconcile()'s loop and in the slots, and
share no other state. Two images with one shared layer are the smallest case in
which a blob has two owners, a moving tag the smallest in which a reference has
two images. Two exit codes tell success from failure. One token and two
connections make both present it; the sessions of two tokens share only the
container's bus and stdin. A pipe of one chunk (`PipeSize`) and two chunks of
output (`MaxOut`) let a process block on a full pipe; a bus of one frame
(`BusSize`) and two frames (`MaxLive`) let a session lag. `MaxIn`, one queued
chunk of input, is enough for a stdin task to have something left when its
client closes the stream.

The families of create_bundle each vary what one group of edits reads and leave
the rest at a default: the pod's namespace options, user mappings and holder;
capabilities, their spellings and order, seccomp and privilege; devices,
resources and cgroup parents; two resizes of any subset of the limits; mounts up
to three; two arbitrary layers of up to two entries over a base; and two images
that may share a moved tag, under every way to name them. Two elements of a list
are enough for the order to matter, and three mounts for a weaker propagation
between two stronger ones. `U32` is 4096, small enough for TLC and larger than
every id in the families. In running_container two
bytes of output make lines in one chunk and in two, ended or not; a byte on stderr
falls between two chunks of stdout; two rotations leave a file that is neither the
first nor the current one. The buffer of two is never too small there; the theorem
`NothingIsLost` is about any output and any buffer.

Slots and pids are interchangeable, so symmetry over them is sound; it is not
used in runs with liveness. Deadlock is checked for ImageStore. It is switched
off elsewhere: once the bounded set of ids, tokens or connections is used up and
everything has ended, the system really has nothing to do.

Some runs narrow the environment because the code does not keep the property
without that, and the property would hide what does hold: `ExitedMeansDead` and
`NoOrphanProcess` are checked for a client that sees StartContainer through,
`ExitIsRecorded` and `StopEndsWorkload` without terminals, crashes and slow
launches, `ImplementsLifecycle` without RemoveContainer and
UpdateContainerResources, `ImagesUsable` and `NoGarbage` without overlap of pulls
and removals, `IncompleteIsUnderWay` without failing pulls, the sandbox properties
for serial clients, a holder helper that reports the holder it forked and holders
that only the daemon kills, `WorkloadInItsPod` under the client's `Protocol`,
`ExecLeavesNothing` for a prompt pid file, `RootfsIsMerged` for layers whose
markers precede their files. `ExitIsRecorded` is about containers with a
supervision task, and leaves out a resize that races the exit. `LimitsAgree` says that what is reported is in effect, and not
the converse. Sections 3.1 and 3.2 say what happens otherwise.

### 3.1 Violation run

It states what a doc of the repository says, and TLC finds a behaviour of the
code that breaks it:

| Run | What happens |
|---|---|
| pull_vs_remove | RemoveImage lists the records before a pull of the same image stores its own, and reclaims blobs the pull found present |

### 3.2 Other behaviours of the model worth knowing

The modules contain these too; they follow from the actions named, and are why
the runs above are narrowed as they are.

* A resize stores the Running copy it read over an exit that supervision recorded
  meanwhile, and the record stays Running (server.rs:2153; `UpdateApply`,
  `TaskPut`, `UpdatePut`); docs/architecture.md:105 says "on exit record `EXITED`
  with the code".
* A StartContainer dropped in its wait (server.rs:1771; `"wait"` in `Cancels`)
  leaves a launch that nothing waits for. A StopContainer that follows finds
  nothing to kill, records the exit and answers, and then the workload starts
  under the Exited record, which no later StopContainer looks at;
  proto/runtime/v1/api.proto:72 says that the container must be forcibly killed. A
  RemoveContainer leaves a process without a record. `ExitedMeansDead` and
  `NoOrphanProcess` fail when `"wait"` is added to `Cancels` in container_serial.
* StartContainer stores Running over the exit a concurrent StopContainer recorded
  (server.rs:1717; `StartGet`, `StopSettle`, `StartMark`).
* Supervision stores a record RemoveContainer has deleted (server.rs:1756;
  `TaskGet`, `RemoveForget`, `TaskPut`).
* StopContainer's forced exit replaces a real exit code stored between its
  re-read and its put (server.rs:1633; `StopFinal`, `TaskPut`, `StopSettle`).
* A failed launch of a terminal container leaves `accept()` waiting and the
  record Running (crun.rs:75).
* A failing probe at restart ends in `crun delete --force` of a running workload
  (server.rs:3020; `CrunFaults`).
* Snapshot directories are named by hex and reclaimed by `sha256:` and hex, so
  none is reclaimed (gc.rs:59 and pull.rs:270; `HexDir`, `TextDir`).
* Pulls of one image by its tag and by its digest hold different locks
  (server.rs:2257). The second takes the directory the first is extracting for
  complete and records the image, although the lock is there so that pulls of one
  image do not share a snapshot directory (locks.rs:5). `IncompleteIsUnderWay`
  says how much is left of it.
* Of two pulls of one image under different references the later put drops the
  reference of the earlier one (server.rs:2305; `PullFind`, `PullPut`).
* A half-extracted directory is taken for complete (pull.rs:271; `PullCheck`
  after a failed `PullExtract`).
* A commit whose fsync or rename fails leaves its staging file
  (content/lib.rs:152; `PullCommitFails`, where the file keeps no owner).
* Two overlapping RunPodSandbox of one pod both end Ready (server.rs:898), and a
  demotion stores a removed sandbox again (server.rs:912).
* A crash before RunPodSandbox's put leaks the namespace and the address
  (server.rs:919).
* A recorded holder pid is killed although the holder is gone, because a
  concurrent request killed it or it died by itself, and the host may have reused
  the pid (server.rs:1077; `HolderDies`, `Fork`, `RemoveReap`).
* The exit StopContainer records itself may precede the last output: the pumps are
  still reading what the killed workload left (server.rs:1637; `StopRecord`).
  `ExitAfterOutput` is about the workload's own exit code.
* A child that a command leaves in the background with an output open keeps its
  exec session open for as long as it lives, silent or not (streaming.rs:915;
  `Leaves`, `PumpEof`). `ExecEnds` says that nothing else does.
* An attach between `live_channel` and `register_stdin` has no way to the
  container's stdin (streaming.rs:957; `AttachStdin` without a handle).
* A SPDY exec without a stdin stream keeps the process's stdin open
  (streaming.rs:867), and a stdout without a stream is never drained.
* A terminal exec whose crun fails before it connects never ends (crun.rs:253;
  `ExecNoConsole`); one whose client is gone ends only when the process does or
  its output meets the closed connection.
* A container reconcile() re-adopts has no supervision task, and its exit stays
  unrecorded until the next restart (server.rs:2997; `Restart` leaves no task).
  The comment at server.rs:2980 says a later status query or pass notices.
* A `crun run` that registers after StopContainer is over is not stopped by it
  (`PromptCrun` FALSE; `StopEndsWorkload` then fails).
* A tag that moved stays with the image it named before, and `find_image` takes
  the first id that has it (server.rs:455). `RootfsIsMerged` allows any of them.
* A partial resize hands crun the limits that are set and stores the whole
  message: a limit that stays in effect is reported as 0 (crun.rs:330,
  server.rs:2153). `ResourcesAsAsked` is one-sided there.
* Stopping or removing a sandbox leaves its containers alone, although
  proto/runtime/v1/api.proto:33 and 42 say running containers must be forcibly
  terminated; a container started later fails or joins another process's
  namespaces. `Protocol` excludes it.
* A holder helper that forks and cannot write its pid file leaves the holder
  behind (pid_holder.rs:121; `PidFaults`).
* A whiteout or opaque marker that follows files of its own layer deletes them
  (diff.rs:69; `MarksFirst`), where the comment at diff.rs:55 speaks of lower
  contents only.
* A capability that is both dropped and added is there in the end, as the comment
  at bundle.rs:365 and the tests want, and `PrivilegesAsAsked` states; the doc
  comment of `drop_capabilities` (bundle.rs:133) says that drops are "applied
  after `add_capabilities`" and that "ALL" drops every capability.
* docs/architecture.md:69 describes the root file system as an overlay of
  snapshots; `unpack_rootfs` applies every layer again into the bundle.
* A pod on the host's network keeps a private UTS namespace; the comment at
  server.rs:1190 says it shares the host's.
* ReopenContainerLog for a terminal container creates a new file nobody writes,
  and the renamed one goes on growing (server.rs:2113; `TtyPump`,
  `ReopenHandle`). `RotatedLogIsFinal` is about containers without a terminal.
* `File::create` truncates: a reopen without a rename loses the log (`Create`),
  where the comment at server.rs:1431 speaks of appending.
* The last lines may be in flight to the file when the exit is recorded
  (`pending`), and blank lines are not logged (`cri_log_line`); nor is a line break
  that starts a chunk, which would have ended the partial line before it.
* A deadline that passes before crun has written the pid file leaves the process
  of an ExecSync running (server.rs:1843; `PromptPidFile`), and a dropped
  ExecSync leaves the exec and its pid file (`ExecDropped`).
* CreateContainer that fails after the bundle directory was made leaves it.

### 3.3 Fairness

Weak fairness of each handler's, each task's and each `crun run`'s next step and
of recovery (Container); of each handler, pump, stdin task and read loop, and of
supervision (Exec, Attach). tokio polls every ready task, crun commands return,
the waits of StopContainer and StartContainer have deadlines, and the service
manager restarts the daemon. A client that stays connected goes on reading what
it is sent; it may stay silent for ever or vanish. Nothing is assumed of the
children a command leaves behind. Of workloads only this: a command that has written all its
output and has EOF on stdin ends (`ProcFinish`), as does a container at EOF of
its stdin (`CtrFinish`); a broken pipe or a hung-up terminal kills; crun connects
to its console socket or ends. In Container a workload may run for ever, which
is why `StopEndsWorkload` is about stopped ones.

## 4. The proofs

Checked by TLAPS for every value of the constants that satisfies the named
assumptions of the modules. These say that sorts are apart, flags Boolean and
sizes natural numbers (`ContainerAssumption`, `ImageAssumption`,
`SandboxAssumption`, `PodAssumption`, `StreamsAssumption`); that there is an exit
code 0 and another one; that pipes, buses, buffers and plugin chains are not
empty (`ExecAssumption`, `AttachAssumption`, `LogAssumption`). `BundleAssumption` gives the
messages of a request their types (`IsRequest`): lists are lists, flags Boolean,
limits numbers, None is none of the values it is told apart from, and an image
record is filed under its name, as PullImage leaves it (`IsImage`). What a theorem
assumes beyond that about the environment is in the second column; each is a flag
explained in section 2, and the runs use the same settings or narrower ones.

| Theorem | Assumes | Property | Inductive invariant |
|---|---|---|---|
| ContainerTypes | | TypeOK | TypeOK |
| RecordsStayCoherent | | RecordsCoherent | CoherenceInv |
| LiveStaysSupervised | | LiveIsSupervised | SupervisionInv |
| WorkloadsSurviveRestart | PromptCrun, ~CrunFaults | RestartSparesWorkloads | RestartInv |
| ExitedStaysDead, LiveKeepsItsRecord, StartedOnce | Serial, PromptCrun, "wait" not in Cancels | ExitedMeansDead, NoOrphanProcess, NeverRelaunched | SerialInv |
| LifecycleImplemented | Serial; Create, Start and Stop only | ImplementsLifecycle | LifeInv |
| LimitsStayInStep | Serial, PromptCrun, Cancels = {}, no crash | LimitsAgree | LimitsInv |
| ImageTypes | | TypeOK | TypeOK |
| ImagesStayUsable | ~Overlap | ImagesUsable | UsableInv |
| RefsStayServed | | RefsServed | RefsInv |
| NoBlobLeaks | ~Overlap, no faults or crashes | NoGarbage | GarbageInv |
| IncompleteStaysUnderWay | ~Faults, ~Crashes | IncompleteIsUnderWay | SnapInv |
| SandboxTypes | | TypeOK | TypeInv |
| RetiredForGood | | NeverReadyAgain | TypeInv |
| OneReadyPerPod | Serial | OneReadySandbox | SerialInv |
| HolderOfItsRecord | Serial, ~PidFaults, ~HolderDeaths, ~Crashes | HolderIsOurs | HolderInv |
| NothingLeaks | the same, ~DelFaults | NoResourceLeak | NetInv |
| WorkloadsInTheirPod | the same | WorkloadInItsPod | PodInv |
| PodGetsItsNamespaces, ContainerGetsItsPrivileges, ContainerGetsItsMounts, ContainerGetsItsRootfs | | NamespacesAsAsked, PrivilegesAsAsked, MountsAsAsked, RootfsIsMerged | Bundled |
| ContainerGetsItsResources | | ResourcesAsAsked | Bundled, Limited |
| AttachTypes | | TypeOK | TypeInv |
| SessionsAreUnique | | OneSessionPerToken | TokenInv |
| AttachStaysFaithful | | AttachFaithful | FaithfulInv |
| SuccessComesLast | | SuccessIsLast | SuccessInv |
| ExecTypes, ExecSessionsAreUnique, StatusComesLast | | TypeOK, OneSessionPerToken, StatusAfterOutput | ExecInv |
| ExecSyncCleansUp | PromptPidFile | ExecLeavesNothing | ExecInv |
| OutputBeforeExit, RotatedLogsAreFinal | | ExitAfterOutput, RotatedLogIsFinal | LogInv |
| NothingIsLost | | LogIsComplete | LogInv, Direct, DataInv |

Why the properties are not inductive by themselves, and what carries them:

* **Container.** Most puts store a copy read earlier, so `CoherenceInv` adds that
  the copies handlers and tasks hold are coherent and fit the step they wait for
  (`CopiesCoherent`), and that nothing but reconcile() runs while it does
  (`Quiet`, `ReconcileAlone`). `SupervisionInv` follows a live container to the
  `crun run` that keeps it (`Keeper`) and from there to its task (`Watched`), up
  to the first crash. `RestartInv` says that no launch is under way during
  recovery and that what reconcile() is about to delete is not running.
  `SerialInv` is the heart of the lifecycle: one request and one launch per
  container (`OneRequest`, `OneLauncher`), what a record may say about crun while
  nothing is under way (`RecordFits`), what each step of a request has already
  achieved (`RequestFits`: from StopContainer's delete on, nothing lives), and
  which slot a launch belongs to (`SlotFits`). `LimitsInv` adds where the limits
  of record, bundle and cgroup may differ: only within the steps of one request.
* **Lifecycle.** Under `LifeInv` (who holds which copy of a record, and that the id
  of a task is published) every step maps to a step of `Lifecycle` or leaves
  `status` alone. The theorem needs neither a prompt crun nor the absence of
  crashes. RemoveContainer and UpdateContainerResources are left out because the
  refinement does not hold with them (section 3.2).
* **ImageStore.** `UsableInv` adds `Apart` (no pull while a removal runs),
  `Fetched` (a pull at layer i has the blobs before it) and `Spared` (what a
  removal is about to delete belongs to no record it did not list); the run
  `pull_vs_remove` shows that the assumption is needed. `GarbageInv` gives every
  blob an owner: a record, a request that holds its image, or a reclaim pass that
  has still to come to it; it is the last one that makes two overlapping removals
  work. `SnapInv` says that a directory somebody found populated stays so
  (`Unpacked`), that one that is not complete belongs to a pull at its extraction, and
  that the directories of a record are populated; it needs neither the lock nor
  images without common layers, which is why the conclusion is no more than that
  the extraction is under way.
* **Sandbox and Pod.** `SerialInv` says that a request's copy of a record is still
  the record, and that RunPodSandbox's list of sandboxes to demote shrinks to
  nothing before its own put. `HolderInv` and `NetInv` say who answers for a holder
  and for a namespace at each step: the record, or the request that works on it.
  `PodInv` keeps the paths a container copied valid: its sandbox is recorded and
  not being removed, and until the container starts the holder it copied is the
  record's.
* **CreateBundle.** `Bundled` says that the bundle is still the one
  `create_container` made for the last request, its limits aside; `Limited` adds
  that each limit in effect is the last one sent up to the resizes done so far.
  The rest is about functions. `Edits` follows the fields of the spec through the
  chain of edits, each of which leaves all but a few alone (`GenerateFields`);
  `Has` says that a namespace has one entry and which, and every namespace edit is
  a lemma about it. `DropTrace`, `AddTrace` and `PropagationTrace` turn the folds
  over capabilities and mounts into runs, and `KeptEmbeds` says what a filtered
  list holds of the other.
* **Layers.** What makes `apply_layer` agree with the change set is `Sound`: in
  the tree under construction the directories above a path exist and are
  directories. With it an opaque marker hides what is below a directory exactly
  when the directory is there, and a file that replaces another never needs more
  than its parents. `MarkStep` and `ContentStep` are one turn of the loop each,
  `LayerMerges` is the induction over a layer's entries and `RootfsMerges` the one
  over the layers. An entry that fails ends in no bundle, so nothing is claimed of
  it. `MarksFirst` is the condition that the property names; section 3.2 says what
  happens without it.
* **Streams, Exec and Attach.** `SessionInv` adds `Owned`: a connection with a
  session has a token that was handed out and is no longer registered, so neither
  another lookup nor a registration brings it back. `FaithfulInv` relates a
  session's place on the bus to what it was sent, `SuccessInv` orders the close of
  the bus after the record. `Delivers` in `ExecInv` accounts for every chunk of
  the process: sent in order, or in the pipe, and from the step at which the
  handler has awaited its pumps on, sent.
* **ContainerLog and ExecSync.** `Orderly` is the order of an ExecSync's end: crun
  outlives the process until the deadline, then the process goes before crun.
  `LogInv` follows the stages of supervision, which a StopContainer beside it does
  not change (`Staged`: the real exit code is there only at its last ones), what a pump holds in each
  step (`Pumps`), and which file can still be written: the one of the shared
  handle, which is not among the renamed ones, save the last of them while a
  reopen is in progress (`Handle`).
* **The bytes of the log.** `DataInv` follows them from the workload to the files.
  `AllKept` is the heart: for each stream the lines of all files in rotation order,
  then the pump's chunk, then the pipe make up what was written (`Kept`). A pump
  appends to *its* file, and that this is an append to the whole log needs
  `Current`: whatever comes after the handle's file in rotation order is still
  empty (`LastLines`), also between the rename, the creation of the new file and
  the swap (`Turning`), and before the handle exists (`Early`). `Direct` and
  `Through` say that a terminal's lines skip tokio's buffer. Below that are facts
  about sequences: what `cri_log_line` makes of a chunk (`LineTrace`, `ChunkLines`)
  and how flattening and filtering distribute over concatenation.

Each of these invariants (their types aside, where a set is not enumerable) also
holds under TLC on the instance of its run.

Lists, logs and layers have any length, so these proofs need induction over data.
They do it without the library's induction rules, whose operator parameters the
provers cannot instantiate: `NatSet` (a set of naturals that has 0 and every
successor has them all) is proved from the well-foundedness of `<`, and each
induction names the set of lengths for which its claim holds. A recursive function
or a fold is first turned into its run, a function from 0..n whose values follow
one another (`Iterate`, `FoldExists`, `FlattenTrace`, `LineTrace`, `LayerTrace`,
`RootfsTrace`), and the induction goes along the run.

Only model-checked: liveness (`ExitIsRecorded`, `StopEndsWorkload`, `ExecEnds`,
`AttachEnds`, `StdinOnceCloses`), because fairness is out of the prover's reach.
Every invariant and every action property of a passing run is stated by a theorem.

## 5. What is left out

Status and list calls, which change nothing, other than ContainerStatus's reading
of the record; the CRI event broadcast; timestamps; cgroup statistics; registry
credentials and the selection of a platform's manifest; the contents of CNI
configurations and port mappings; the pod's resolv.conf and cgroup directories
as files; metadata I/O errors, which end a handler where a dropped request would;
terminal resizes, which the code drains; port-forward sessions; the byte format
of SPDY frames; symbolic links that an entry, a marker or a directory of an image
leads through: `is_dir()` at diff.rs:123 and 136 and the tar library follow them,
so a whiteout below a linked directory (as `/lib` of a merged-usr image) acts on
the link's target; a hard link is a file with its target's data, and the error
when that is missing is left out; children that outlive the init of a container
in the host's PID namespace and hold its output; missing mount sources that
`add_bind_mounts` creates on the host;
the group of a file, which `chown_tree` treats like its owner; the text of a log
line besides its tag; the reuse of an exec's pid by another process.

## 6. Plan

1. Port-forward: error and data streams per port, the two TCP pumps, half-closes.
2. The SPDY frame format, and platform selection, as operators with a reference
   definition.
