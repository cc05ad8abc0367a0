---------------------------- MODULE CreateBundle ----------------------------
(***************************************************************************)
(* From a pod's and a container's CRI configuration to the bundle crun is  *)
(* given: RunPodSandbox's reading of the pod's namespace options, then     *)
(* CreateContainer's choice of an image, its validation, the request it    *)
(* builds, the root file system it unpacks, the spec it generates and the  *)
(* status it records; then the resizes of UpdateContainerResources.        *)
(*                                                                         *)
(* The records' life cycle, locks and failures around these values are in  *)
(* Sandbox and Container.  A configuration the kubelet leaves out has the  *)
(* protobuf defaults, so the optional security context is always there.    *)
(***************************************************************************)
EXTENDS OciSpec, Layers, FiniteSets

CONSTANTS
  Asks,          \* families of configurations: [pod, holder, images, config, resizes]
  U32,           \* 2^32, the modulus of the "as u32" conversions
  DaemonIds,     \* None for a root daemon, else its <<uid, gid>>
  SelinuxHost    \* TRUE when the host has SELinux enabled

VARIABLES
  asked,         \* the configuration of the last request
  made,          \* what CreateContainer made of it: [error], or the bundle
  resized        \* how many of the client's resizes are done

vars == <<asked, made, resized>>

AsU32(v) == v % U32

-----------------------------------------------------------------------------
(* RunPodSandbox: the record's namespace fields.  pod.options is FALSE when *)
(* the kubelet sends no namespace options; modes are NODE, POD, CONTAINER   *)
(* and TARGET.                                                             *)

validate_userns_map(m) == Len(m) = 1 /\ m[1].container = 0

UsernsRejected(pod) ==
  /\ pod.options
  /\ \/ pod.userns.mode = "POD" /\ ~ (validate_userns_map(pod.userns.uids)
                                      /\ validate_userns_map(pod.userns.gids))
     \/ pod.userns.mode \in {"CONTAINER", "TARGET"}

(* NODE shares the host's namespace, POD the one of the pod's holder; a pod *)
(* without options keeps a private one per container.                      *)
NamespaceModes(pod) ==
  LET Is(f, m) == pod.options /\ f = m
      remapped == Is(pod.userns.mode, "POD")
  IN [host_network |-> Is(pod.network, "NODE"),
      host_pid     |-> Is(pod.pid, "NODE"),
      host_ipc     |-> Is(pod.ipc, "NODE"),
      shared_pid   |-> Is(pod.pid, "POD"),
      shared_ipc   |-> Is(pod.ipc, "POD"),
      userns_uid_mappings |-> IF remapped THEN pod.userns.uids ELSE <<>>,
      userns_gid_mappings |-> IF remapped THEN pod.userns.gids ELSE <<>>]

(* The record.  A holder that could not be spawned is None. *)
sandbox_record(pod, holder) ==
  LET modes == NamespaceModes(pod)
  IN Extend(modes,
     [netns_path       |-> IF modes.host_network THEN "host" ELSE "netns",
      pid_holder_pid   |-> IF modes.shared_pid \/ modes.shared_ipc THEN holder ELSE None,
      resolv_conf_path |-> pod.resolv,
      sysctls          |-> pod.sysctls,
      cgroup_parent    |-> pod.cgroup_parent,
      hostname         |-> pod.hostname])

-----------------------------------------------------------------------------
(* CreateContainer: the image.  A reference is [repo, tag, digest], each    *)
(* None when the text has no such part; an image id, "sha256:...", reads as *)
(* repository and tag.                                                     *)

is_digest_ref(ref) == ref.digest # None

repo_name(ref) == [ref EXCEPT !.tag = None]

normalize_image_ref(ref) ==
  IF is_digest_ref(ref) \/ repo_name(ref) # ref THEN ref ELSE [ref EXCEPT !.tag = "latest"]

NoImage == [id |-> None, layers |-> <<>>, config |-> None]

(* the first record, in the order of the ids, that has the reference *)
find_image(images, ref) ==
  LET Has(r) == \/ r.id = ref
                \/ {ref, normalize_image_ref(ref)} \cap r.repo_tags # {}
                \/ ref \in r.repo_digests
                \/ r.name = ref
      found == Retain(images, Has)
  IN IF found = <<>> THEN NoImage ELSE Head(found)

(* a config blob that is absent or unreadable reads as an empty one *)
parse_image_config(image) ==
  IF image.config # None THEN image.config
  ELSE [env |-> <<>>, entrypoint |-> <<>>, cmd |-> <<>>, working_dir |-> None, user |-> None]

-----------------------------------------------------------------------------
(* CreateContainer: conversions *)

map_seccomp(p) ==
  CASE p # None /\ p.type = "RuntimeDefault" -> [kind |-> "RuntimeDefault"]
    [] p # None /\ p.type = "Localhost" -> [kind |-> "Localhost", path |-> p.ref]
    [] OTHER -> [kind |-> "Unconfined"]

map_apparmor(p) ==
  CASE p # None /\ p.type = "Localhost" /\ p.ref # None -> p.ref
    [] p # None /\ p.type = "Unconfined" -> "unconfined"
    [] OTHER -> None

map_selinux(label) == IF SelinuxHost THEN label ELSE None

(* zero and negative limits mean "not set", except a negative quota *)
Positive(v) == IF v > 0 THEN v ELSE None

cri_resources(r) ==
  [shares    |-> Positive(r.cpu_shares),
   quota     |-> IF r.cpu_quota # 0 THEN r.cpu_quota ELSE None,
   period    |-> Positive(r.cpu_period),
   memory    |-> Positive(r.memory),
   cpus      |-> r.cpus,
   mems      |-> r.mems,
   hugepages |-> Retain(r.hugepages, LAMBDA h : h[2] > 0),
   unified   |-> r.unified]

(* what is kept for ContainerStatus: hugepages and unified are not *)
resources_record(r) ==
  [cpu_shares |-> r.cpu_shares, cpu_quota |-> r.cpu_quota, cpu_period |-> r.cpu_period,
   memory |-> r.memory, cpus |-> r.cpus, mems |-> r.mems]

record_to_cri_resources(rec) == Extend([hugepages |-> <<>>, unified |-> <<>>], rec)

(* a systemd slice names the container's scope, a directory contains it *)
cgroups_path(parent) ==
  IF parent = None THEN None
  ELSE IF parent.slice THEN <<parent.name, "cri-containerd", "id">>
  ELSE <<parent.name, "id">>

NsPath(shared, holder, kind) ==
  IF shared /\ holder # None THEN <<holder, kind>> ELSE None

MountSpec(m) ==
  [source |-> m.source, destination |-> m.destination, readonly |-> m.readonly,
   recursive_read_only |-> m.recursive_read_only,
   propagation |-> IF m.propagation \in {"HostToContainer", "Bidirectional"}
                   THEN m.propagation ELSE "Private"]

ResolvConf == "/etc/resolv.conf"

(* the pod's resolv.conf is bound unless the container mounts its own *)
BundleMounts(sandbox, config) ==
  LET own == [i \in DOMAIN config.mounts |-> MountSpec(config.mounts[i])]
  IN IF sandbox.resolv_conf_path = None
        \/ \E i \in DOMAIN own : own[i].destination = ResolvConf
     THEN own
     ELSE Append(own, [source |-> sandbox.resolv_conf_path, destination |-> ResolvConf,
                       readonly |-> TRUE, recursive_read_only |-> FALSE,
                       propagation |-> "Private"])

(* RunAsGroup without a user, a recursive read-only mount that is writable *)
(* or not private: InvalidArgument.                                        *)
ConfigRejected(config) ==
  \/ config.run_as_group # None /\ config.run_as_user = None /\ config.run_as_username = None
  \/ \E i \in DOMAIN config.mounts :
       LET m == config.mounts[i]
       IN m.recursive_read_only /\ (~ m.readonly \/ m.propagation # "Private")

Optional(v) == IF v = None THEN None ELSE AsU32(v)

container_request(sandbox, config) ==
  [command |-> config.command, args |-> config.args, envs |-> config.envs,
   working_dir |-> config.working_dir,
   hostname    |-> IF sandbox.host_network THEN None ELSE sandbox.hostname,
   terminal    |-> config.tty,
   readonly_rootfs   |-> config.readonly_rootfs,
   rootless_host_ids |-> DaemonIds,
   netns_path  |-> sandbox.netns_path,
   pid_ns_path |-> NsPath(sandbox.shared_pid, sandbox.pid_holder_pid, "pid"),
   ipc_ns_path |-> NsPath(sandbox.shared_ipc, sandbox.pid_holder_pid, "ipc"),
   mounts      |-> BundleMounts(sandbox, config),
   privileged  |-> config.privileged,
   run_as_user  |-> Optional(config.run_as_user),
   run_as_group |-> Optional(config.run_as_group),
   supplemental_groups |-> [i \in DOMAIN config.groups |-> AsU32(config.groups[i])],
   sysctls     |-> sandbox.sysctls,
   resources   |-> IF config.resources = None THEN Resources0
                   ELSE cri_resources(config.resources),
   cgroup_path |-> cgroups_path(sandbox.cgroup_parent),
   add_capabilities  |-> config.add, drop_capabilities |-> config.drop,
   no_new_privileges |-> config.no_new_privs,
   apparmor_profile  |-> map_apparmor(config.apparmor),
   selinux_label     |-> map_selinux(config.selinux),
   masked_paths      |-> config.masked, readonly_paths |-> config.readonly,
   seccomp     |-> map_seccomp(config.seccomp),
   host_pid    |-> sandbox.host_pid, host_ipc |-> sandbox.host_ipc,
   userns_uid_mappings |-> sandbox.userns_uid_mappings,
   userns_gid_mappings |-> sandbox.userns_gid_mappings,
   devices     |-> IF config.privileged THEN <<>> ELSE config.devices]

StatusRecord(image, config) ==
  [image_id  |-> image.id,
   mounts    |-> config.mounts,
   resources |-> IF config.resources = None THEN None ELSE resources_record(config.resources),
   devices   |-> IF config.privileged THEN <<>> ELSE config.devices]

container_status(record) ==
  [image_ref |-> record.image_id, mounts |-> record.mounts,
   resources |-> IF record.resources = None THEN None
                 ELSE record_to_cri_resources(record.resources)]

(* the container's root must own its files under a user namespace *)
Rootfs(layers, sandbox) ==
  LET tree == unpack_rootfs(layers)
  IN IF tree = Failed \/ sandbox.userns_uid_mappings = <<>> THEN tree
     ELSE chown_tree(tree, sandbox.userns_uid_mappings[1].host)

-----------------------------------------------------------------------------
(* crun: the limits of the container's cgroup, None where there is none *)
NoLimits == [memory |-> None, quota |-> None, period |-> None, shares |-> None,
             cpus |-> None, mems |-> None]

CgroupOf(spec) ==
  IF spec.resources.cpu = None THEN NoLimits
  ELSE Extend([memory |-> spec.resources.memory], spec.resources.cpu)

create_container(a) ==
  LET image   == find_image(a.images, a.config.image)
      sandbox == sandbox_record(a.pod, a.holder)
      req     == container_request(sandbox, a.config)
      rootfs  == Rootfs(image.layers, sandbox)
      spec    == generate_spec(parse_image_config(image), req)
  IN IF UsernsRejected(a.pod)         THEN [error |-> "pod"]
     ELSE IF ConfigRejected(a.config) THEN [error |-> "config"]
     ELSE IF rootfs = Failed          THEN [error |-> "layers"]
     ELSE IF SpecFails(req)           THEN [error |-> "spec"]
     ELSE [error |-> None, rootfs |-> rootfs, record |-> StatusRecord(image, a.config),
           spec |-> spec, cgroup |-> CgroupOf(spec)]

(* the flags of `crun update': only what is set *)
update_args(res) == [f \in {g \in DOMAIN NoLimits : res[g] # None} |-> res[f]]

-----------------------------------------------------------------------------
(* The types of a request's messages, as far as the code relies on them;    *)
(* None is none of the values it is told apart from.                       *)
IsVec(v) == v \in Seq(Range(v))

IsLimits(r) ==
  /\ {r.cpu_shares, r.cpu_quota, r.cpu_period, r.memory} \subseteq Int
  /\ CpuLimits(cri_resources(r)) # None

IsEntry(e) == IsVec(e.dir) /\ e.mark \in {"no", "wh", "opq"} /\ e.kind \in {"dir", "file", "link"}

IsRef(r) == r = [repo |-> r.repo, tag |-> r.tag, digest |-> r.digest]

(* a pull files the name of a record among its tags or its digests; the     *)
(* layers are within what Layers models                                     *)
IsImage(r) ==
  /\ \A t \in r.repo_tags : IsRef(t) /\ ~ is_digest_ref(t)
  /\ r.name \in r.repo_tags \cup r.repo_digests
  /\ IsVec(r.layers)
  /\ \A i \in DOMAIN r.layers :
       IsVec(r.layers[i]) /\ \A j \in DOMAIN r.layers[i] : IsEntry(r.layers[i][j])
  /\ LinksApart(r.layers)

IsRequest(a) ==
  /\ IsRef(a.config.image) /\ IsVec(a.images)
  /\ \A i \in DOMAIN a.images : IsImage(a.images[i])
  /\ {a.pod.options, a.config.privileged} \subseteq BOOLEAN
  /\ IsVec(a.config.add) /\ IsVec(a.config.drop) /\ IsVec(a.config.mounts) /\ IsVec(a.config.devices)
  /\ \A i \in DOMAIN a.config.mounts :
       {a.config.mounts[i].readonly, a.config.mounts[i].recursive_read_only} \subseteq BOOLEAN
  /\ IsVec(a.resizes)
  /\ \A r \in Range(a.resizes) \cup {a.config.resources} : r = None \/ IsLimits(r)
  /\ \A kind \in {"pid", "ipc"} : <<a.holder, kind>> # None
  /\ a.pod.cgroup_parent # None => cgroups_path(a.pod.cgroup_parent) # None

ASSUME BundleAssumption ==
  /\ None \notin Int \cup {"netns", "rslave", "rshared", "pod", "config", "layers", "spec"}
  /\ IsVec(Profile)
  /\ \A p \in DOMAIN Nodes : Nodes[p].dev # None
  /\ \A family \in DOMAIN Asks : \A a \in Asks[family] : IsRequest(a)

-----------------------------------------------------------------------------
Init == asked = None /\ made = None /\ resized = 0

CreateContainer(a) ==
  /\ asked' = a
  /\ made' = create_container(a)
  /\ UNCHANGED resized

Done == asked # None /\ made.error = None

(* A call without Linux resources reaches crun, and changes nothing; one    *)
(* that crun refuses does not get to the record.                           *)
UpdateContainerResources ==
  /\ Done
  /\ resized < Len(asked.resizes)
  /\ LET linux == asked.resizes[resized + 1]
         res   == IF linux = None THEN Resources0 ELSE cri_resources(linux)
     IN made' = [made EXCEPT
          !.cgroup = Extend(@, update_args(res)),
          !.record.resources = IF linux = None THEN @ ELSE resources_record(linux)]
  /\ resized' = resized + 1
  /\ UNCHANGED asked

Next ==
  \/ /\ asked = None
     /\ \E family \in DOMAIN Asks : \E a \in Asks[family] : CreateContainer(a)
  \/ UpdateContainerResources

Spec == Init /\ [][Next]_vars

-----------------------------------------------------------------------------
(* Properties: the bundle against the configuration it was made from, each  *)
(* in terms that know nothing of the order in which the code edits a spec.  *)

Shown == container_status(made.record)

Paths(typ) == {made.spec.ns[i].path : i \in {j \in DOMAIN made.spec.ns : made.spec.ns[j].typ = typ}}
Count(typ) == Cardinality({i \in DOMAIN made.spec.ns : made.spec.ns[i].typ = typ})

(* none of that type, or exactly one, private (None) or at a path *)
HasNamespace(typ, wanted) == Count(typ) = Cardinality(wanted) /\ Paths(typ) = wanted

(* the pid or ipc namespace a mode of the pod stands for *)
Shared(mode, typ) ==
  IF ~ asked.pod.options THEN {None}
  ELSE CASE mode = "NODE" -> {}
         [] mode = "POD" /\ asked.holder # None -> {<<asked.holder, typ>>}
         [] OTHER -> {None}

(* The edits of set_network_namespace, apply_host_namespaces,               *)
(* apply_user_namespace and join_namespace together leave at most one       *)
(* namespace of each type, the one the pod's options ask for: the host's,   *)
(* the holder's, the pod's network, or a private one; a remapped pod has a  *)
(* user namespace with exactly the pod's mappings.                          *)
NamespacesAsAsked ==
  Done =>
    LET pod   == asked.pod
        remap == pod.options /\ pod.userns.mode = "POD"
    IN /\ HasNamespace("network", IF pod.options /\ pod.network = "NODE" THEN {} ELSE {"netns"})
       /\ HasNamespace("pid", Shared(pod.pid, "pid"))
       /\ HasNamespace("ipc", Shared(pod.ipc, "ipc"))
       /\ HasNamespace("user", IF remap \/ DaemonIds # None THEN {None} ELSE {})
       /\ remap => /\ made.spec.uid_mappings = pod.userns.uids
                   /\ made.spec.gid_mappings = pod.userns.gids

Keys(names) == {CapKey[names[i]] : i \in DOMAIN names}

WantedCaps ==
  LET add  == Keys(asked.config.add)
      drop == Keys(asked.config.drop)
      kept == IF "ALL" \in drop THEN {} ELSE default_capabilities \ drop
  IN IF asked.config.privileged \/ "ALL" \in add THEN all_capabilities
     ELSE kept \cup (add \cap all_capabilities)

(* a syscall block's own conditions, for a set of capabilities *)
Applies(block, caps) ==
  /\ block.excludes.caps \cap caps = {}
  /\ block.includes.caps # {} => block.includes.caps \cap caps # {}
  /\ HostArch # NoArch => HostArch.go \notin block.excludes.arches
  /\ block.includes.arches # {} => HostArch # NoArch /\ HostArch.go \in block.includes.arches
  /\ ~ block.excludes.minKernel

(* An added capability wins over a dropped one, whatever their order, as    *)
(* the comment in apply_capabilities and its tests say (the doc comment of  *)
(* drop_capabilities, bundle.rs:133, says that drops are applied last, and  *)
(* is wrong); a privileged container has them all; one confined by          *)
(* RuntimeDefault gets the syscalls of exactly the capabilities it ends up  *)
(* with; one that asked for a profile never runs without (apply_security,   *)
(* apply_capabilities, seccomp::runtime_default).                           *)
PrivilegesAsAsked ==
  Done =>
    LET caps    == made.spec.process.caps
        wants   == asked.config.seccomp
        seccomp == made.spec.seccomp
    IN /\ caps.bounding = WantedCaps
       /\ caps.ambient \in {{}, WantedCaps}
       /\ (asked.config.add # <<>> \/ asked.config.privileged) => caps.ambient = WantedCaps
       /\ asked.config.privileged => seccomp = None
       /\ ~ asked.config.privileged /\ wants # None =>
            CASE wants.type = "RuntimeDefault" ->
                   Range(seccomp.syscalls) = {b \in Range(Profile) : Applies(b, caps.bounding)}
              [] wants.type = "Localhost" -> seccomp = wants.ref /\ wants.ref \in SeccompFiles
              [] OTHER -> seccomp = None

(* the last rule that matches decides; nothing matching leaves the default *)
Allows(rules, dev, access, default) ==
  LET hits == {i \in DOMAIN rules : rules[i].dev \in {None, dev} /\ access \in rules[i].access}
  IN IF hits = {} THEN default ELSE rules[CHOOSE i \in hits : \A j \in hits : j <= i].allow

(* every resources the client sent, of which the ones that a pod without a *)
(* cgroup does not apply are left out                                      *)
Sent ==
  LET first == IF asked.pod.cgroup_parent = None THEN None ELSE asked.config.resources
  IN Retain(<<first>> \o SubSeq(asked.resizes, 1, resized), LAMBDA r : r # None)

(* a limit a CRI message sets: not zero, and for all but the quota not     *)
(* negative                                                                *)
Set(r, f) ==
  LET v == CASE f = "shares" -> r.cpu_shares [] f = "quota" -> r.cpu_quota
             [] f = "period" -> r.cpu_period [] OTHER -> r[f]
      unset == CASE f \in {"cpus", "mems"} -> v = None
                 [] f = "quota" -> v = 0
                 [] OTHER -> v <= 0
  IN IF unset THEN {} ELSE {v}

(* the last value set, or none *)
LastSet(f) ==
  LET sets == {i \in DOMAIN Sent : Set(Sent[i], f) # {}}
  IN IF sets = {} THEN {} ELSE Set(Sent[CHOOSE i \in sets : \A j \in sets : j <= i], f)

(* Device access is what was asked, and all of it for a privileged          *)
(* container: no edit of the resources loses or reorders the base's deny    *)
(* rule (apply_resources, apply_privileged, apply_devices).  Every limit in *)
(* effect is the last one the client set, at creation if the pod has a      *)
(* cgroup to delegate or in a resize, and a limit that ContainerStatus      *)
(* reports is the one in effect (update_args, resources_record).            *)
ResourcesAsAsked ==
  Done /\ DaemonIds = None =>
    LET res  == made.spec.resources
        Asked(dev, access) ==
          \E i \in DOMAIN asked.config.devices :
            LET d == asked.config.devices[i]
            IN Nodes[d.host].dev = dev
               /\ (access \in d.permissions \/ d.permissions \cap {"r", "w", "m"} = {})
        shown == Shown.resources
    IN /\ \A p \in DOMAIN Nodes, access \in {"r", "w", "m"}, default \in BOOLEAN :
            Nodes[p].typ # "other" =>
              (Allows(res.devices, Nodes[p].dev, access, default)
                 <=> asked.config.privileged \/ Asked(Nodes[p].dev, access))
       /\ res.cpu # None => made.spec.cgroups_path # None
       /\ \A f \in DOMAIN NoLimits :
            /\ LastSet(f) = {made.cgroup[f]} \ {None}
            /\ shown # None /\ Sent # <<>> => Set(shown, f) \subseteq {made.cgroup[f]}

MountAt(i) == made.spec.mounts[i]

(* What ContainerStatus reports is what is mounted, in the same order and   *)
(* as writable; the only other mount is the pod's resolv.conf, never on top *)
(* of the container's own; and the root's propagation is the strongest any  *)
(* mount needs, whatever their order (add_bind_mounts).                     *)
MountsAsAsked ==
  Done =>
    LET shown == Shown.mounts
        extra == Len(made.spec.mounts) - Len(shown)
        asks  == {shown[i].propagation : i \in DOMAIN shown}
        own   == \E i \in DOMAIN shown : shown[i].destination = ResolvConf
    IN /\ \A i \in DOMAIN shown :
            /\ MountAt(i).destination = shown[i].destination
            /\ MountAt(i).source = shown[i].source
            /\ shown[i].readonly <=> Range(MountAt(i).options) \cap {"ro", "rro"} # {}
            /\ shown[i].recursive_read_only => {"rro", "rprivate"} \subseteq Range(MountAt(i).options)
       /\ extra = IF own \/ asked.pod.resolv = None THEN 0 ELSE 1
       /\ extra = 1 => MountAt(Len(made.spec.mounts)).destination = ResolvConf
       /\ made.spec.propagation = (IF "Bidirectional" \in asks THEN "rshared"
                                   ELSE IF "HostToContainer" \in asks THEN "rslave" ELSE None)

(* The records a reference names: by id, tag (":latest" when it has none)  *)
(* or digest.                                                              *)
Named(images, ref) ==
  {i \in DOMAIN images :
     \/ images[i].id = ref
     \/ \E t \in images[i].repo_tags : t = ref \/ (t.tag = "latest" /\ repo_name(t) = ref)
     \/ ref \in images[i].repo_digests}

(* The root file system is that of an image the reference names, the one    *)
(* ContainerStatus shows, or empty if there is none: what the image         *)
(* specification's change sets give when they are stacked in order, if each *)
(* layer has its whiteouts before its files (a whiteout read later deletes  *)
(* files of its own layer too); under a user namespace every file in it     *)
(* belongs to the host id the container's root is mapped to.  Images whose  *)
(* entries lead through symbolic links are not among the ones asked for     *)
(* (find_image, unpack_rootfs, apply_layer, chown_tree).                    *)
RootfsIsMerged ==
  Done =>
    LET named  == Named(asked.images, asked.config.image)
        owner  == IF asked.pod.options /\ asked.pod.userns.mode = "POD"
                  THEN made.spec.uid_mappings[1].host ELSE 0
        Merges(layers) ==
          (\A i \in DOMAIN layers : MarksFirst(layers[i])) =>
            made.rootfs = chown_tree(Stacked(layers), owner)
    IN IF named = {} THEN Shown.image_ref = None /\ Merges(<<>>)
       ELSE \E i \in named :
              Shown.image_ref = asked.images[i].id /\ Merges(asked.images[i].layers)
=============================================================================
