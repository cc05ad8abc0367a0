------------------------------ MODULE OciSpec ------------------------------
(***************************************************************************)
(* crates/runtime/src/bundle.rs: the OCI runtime specification of one      *)
(* container, built by a chain of edits of one Spec value.  Every edit is  *)
(* an operator from a spec to a spec, and generate_spec applies them in    *)
(* the order of the code: later edits read and overwrite what earlier ones *)
(* left, which is where this code can go wrong.                            *)
(*                                                                         *)
(* The spec is one record; "linux" is flattened into it.  None stands for  *)
(* an absent value.  Paths, names and labels are opaque values.            *)
(***************************************************************************)
EXTENDS Integers, Seccomp

CONSTANTS
  None,
  CapKey,        \* the key a capability name spells, upper case, "CAP_" removed
  Nodes,         \* the host's files by path: [typ |-> "c" | "b" | "other", dev |-> ...]
  SeccompFiles   \* the seccomp profiles on the node that can be read and parsed

-----------------------------------------------------------------------------
(* Capabilities *)

all_capabilities ==
  {"AUDIT_CONTROL", "AUDIT_READ", "AUDIT_WRITE", "BLOCK_SUSPEND", "BPF",
   "CHECKPOINT_RESTORE", "CHOWN", "DAC_OVERRIDE", "DAC_READ_SEARCH", "FOWNER",
   "FSETID", "IPC_LOCK", "IPC_OWNER", "KILL", "LEASE", "LINUX_IMMUTABLE",
   "MAC_ADMIN", "MAC_OVERRIDE", "MKNOD", "NET_ADMIN", "NET_BIND_SERVICE",
   "NET_BROADCAST", "NET_RAW", "PERFMON", "SETFCAP", "SETGID", "SETPCAP",
   "SETUID", "SYS_ADMIN", "SYS_BOOT", "SYS_CHROOT", "SYS_MODULE", "SYS_NICE",
   "SYS_PACCT", "SYS_PTRACE", "SYS_RAWIO", "SYS_RESOURCE", "SYS_TIME",
   "SYS_TTY_CONFIG", "SYSLOG", "WAKE_ALARM"}

default_capabilities ==
  {"AUDIT_WRITE", "CHOWN", "DAC_OVERRIDE", "FOWNER", "FSETID", "KILL", "MKNOD",
   "NET_BIND_SERVICE", "NET_RAW", "SETFCAP", "SETGID", "SETPCAP", "SETUID",
   "SYS_CHROOT"}

(* The set a name stands for: nothing for "ALL" and for an unknown name. *)
parse_cap(name) == {CapKey[name]} \cap all_capabilities

(* bounding, effective, permitted and inheritable are always equal *)
build_caps(caps, ambient) == [bounding |-> caps, ambient |-> ambient]

DropCap(caps, name) ==
  IF CapKey[name] = "ALL" THEN {} ELSE caps \ parse_cap(name)

AddCap(caps, name) ==
  IF CapKey[name] = "ALL" THEN caps \cup all_capabilities
                          ELSE caps \cup parse_cap(name)

apply_capabilities(spec, add, drop) ==
  IF add = <<>> /\ drop = <<>> THEN spec
  ELSE LET kept == FoldLeft(DropCap, spec.process.caps.bounding, drop)
           set  == FoldLeft(AddCap, kept, add)
       IN [spec EXCEPT !.process.caps = build_caps(set, set)]

effective_capabilities(spec) == spec.process.caps.bounding

-----------------------------------------------------------------------------
(* Process *)

resolve_argv(image, req) ==
  CASE req.command # <<>> /\ req.args # <<>> -> req.command \o req.args
    [] req.command # <<>> /\ req.args = <<>> -> req.command
    [] req.command = <<>> /\ req.args # <<>> -> image.entrypoint \o req.args
    [] OTHER                                 -> image.entrypoint \o image.cmd

(* Environment entries are <<key, value>>. *)
merge_env(image, req) ==
  LET Set(env, e) == Append(Retain(env, LAMBDA x : x[1] # e[1]), e)
  IN FoldLeft(Set, image.env, req.envs)

(* The image's User field as [uid, gid]; a part that is absent or not a    *)
(* number reads as 0.                                                      *)
parse_user(user) ==
  LET Number(p) == IF p \in Nat THEN p ELSE 0
  IN IF user = None THEN [uid |-> 0, gid |-> 0]
     ELSE [uid |-> Number(user.uid), gid |-> Number(user.gid)]

OrElse(value, other) == IF value # None THEN value ELSE other

Process(image, req) ==
  LET user == parse_user(image.user)
  IN [args     |-> resolve_argv(image, req),
      env      |-> merge_env(image, req),
      cwd      |-> OrElse(OrElse(req.working_dir, image.working_dir), "/"),
      terminal |-> req.terminal,
      uid      |-> OrElse(req.run_as_user, user.uid),
      gid      |-> OrElse(req.run_as_group, user.gid),
      groups   |-> req.supplemental_groups,
      caps     |-> build_caps(default_capabilities, {}),
      nnp      |-> req.no_new_privileges,
      apparmor |-> None,
      selinux  |-> None]

-----------------------------------------------------------------------------
(* The base specification, from the oci-spec library *)

NoResources == [cpu |-> None, memory |-> None, hugepages |-> <<>>,
                unified |-> <<>>, devices |-> <<>>]

(* a device rule's dev is None when it matches every device *)
DenyAll  == [allow |-> FALSE, dev |-> None, access |-> {"r", "w", "m"}]
AllowAll == [DenyAll EXCEPT !.allow = TRUE]

Private(typ) == [typ |-> typ, path |-> None]

BaseSpec(hostIds) ==
  LET kinds == IF hostIds = None
               THEN <<"pid", "network", "ipc", "uts", "mount", "cgroup">>
               ELSE <<"pid", "ipc", "uts", "mount", "cgroup", "user">>
      One(i) == IF hostIds = None THEN <<>>
                ELSE <<[container |-> 0, host |-> hostIds[i], size |-> 1]>>
  IN [ns |-> [i \in DOMAIN kinds |-> Private(kinds[i])],
      uid_mappings |-> One(1), gid_mappings |-> One(2),
      resources |-> IF hostIds = None
                    THEN [NoResources EXCEPT !.devices = <<DenyAll>>]
                    ELSE NoResources,
      masked |-> "default", readonly |-> "default", seccomp |-> None,
      devices |-> <<>>, sysctl |-> <<>>, cgroups_path |-> None,
      propagation |-> None, mounts |-> <<>>]

-----------------------------------------------------------------------------
(* Namespaces *)

Without(ns, typ) == Retain(ns, LAMBDA n : n.typ # typ)

(* Wrong: the private namespace of that type stays in the list. *)
JoinBesidePrivate(spec, typ, path) ==
  IF path = None THEN spec
  ELSE [spec EXCEPT !.ns = Append(@, [typ |-> typ, path |-> path])]

(* replaces the namespace of that type by a reference to an existing one *)
join_namespace(spec, typ, path) ==
  IF path = None THEN spec
  ELSE [spec EXCEPT !.ns = Append(Without(@, typ), [typ |-> typ, path |-> path])]

set_network_namespace(spec, path) ==
  IF path \in {None, "host"}
  THEN [spec EXCEPT !.ns = Without(@, "network")]
  ELSE join_namespace(spec, "network", path)

apply_host_namespaces(spec, hostPid, hostIpc) ==
  LET noPid == IF hostPid THEN Without(spec.ns, "pid") ELSE spec.ns
  IN [spec EXCEPT !.ns = IF hostIpc THEN Without(noPid, "ipc") ELSE noPid]

apply_user_namespace(spec, uids, gids) ==
  IF uids = <<>> /\ gids = <<>> THEN spec
  ELSE [spec EXCEPT
          !.uid_mappings = uids,
          !.gid_mappings = gids,
          !.ns = IF \E i \in DOMAIN @ : @[i].typ = "user" THEN @
                 ELSE Append(@, Private("user"))]

-----------------------------------------------------------------------------
(* Mounts: the base's own mounts are left out *)

MountOptions(m) ==
  <<"rbind",
    CASE m.propagation = "Private"         -> "rprivate"
      [] m.propagation = "HostToContainer" -> "rslave"
      [] m.propagation = "Bidirectional"   -> "rshared",
    IF ~ m.readonly THEN "rw" ELSE IF m.recursive_read_only THEN "rro" ELSE "ro">>

(* Wrong: the last mount decides. *)
LastMountWins(prop, m) ==
  CASE m.propagation = "Bidirectional"   -> "rshared"
    [] m.propagation = "HostToContainer" -> "rslave"
    [] OTHER -> prop

RootPropagation(prop, m) ==
  CASE m.propagation = "Bidirectional" -> "rshared"
    [] m.propagation = "HostToContainer" /\ prop = None -> "rslave"
    [] OTHER -> prop

add_bind_mounts(spec, mounts) ==
  LET prop == FoldLeft(RootPropagation, None, mounts)
  IN [spec EXCEPT
        !.mounts = @ \o [i \in DOMAIN mounts |->
                           [source      |-> mounts[i].source,
                            destination |-> mounts[i].destination,
                            options     |-> MountOptions(mounts[i])]],
        !.propagation = IF prop # None THEN prop ELSE @]

-----------------------------------------------------------------------------
(* Resources, devices, kernel parameters *)

Resources0 == [shares |-> None, quota |-> None, period |-> None,
               memory |-> None, cpus |-> None, mems |-> None,
               hugepages |-> <<>>, unified |-> <<>>]

CpuLimits(res) == [shares |-> res.shares, quota |-> res.quota, period |-> res.period,
                   cpus |-> res.cpus, mems |-> res.mems]

(* Wrong: the limits replace the resources of the base. *)
FreshResources(spec, res) ==
  IF res = Resources0 THEN spec
  ELSE [spec EXCEPT
          !.resources = [NoResources EXCEPT
             !.cpu = CpuLimits(res),
             !.memory = res.memory, !.hugepages = res.hugepages, !.unified = res.unified]]

apply_resources(spec, res) ==
  IF res = Resources0 THEN spec
  ELSE [spec EXCEPT
          !.resources.cpu       = CpuLimits(res),
          !.resources.memory    = OrElse(res.memory, @),
          !.resources.hugepages = IF res.hugepages # <<>> THEN res.hugepages ELSE @,
          !.resources.unified   = Extend(@, res.unified)]

(* The host node's identity, or None: absent, or not a device. *)
stat_device(path) ==
  IF path \in DOMAIN Nodes /\ Nodes[path].typ \in {"c", "b"} THEN Nodes[path] ELSE None

sanitize_device_access(perms) ==
  LET s == perms \cap {"r", "w", "m"} IN IF s = {} THEN {"r", "w", "m"} ELSE s

DevicesPresent(devices) == \A i \in DOMAIN devices : stat_device(devices[i].host) # None

apply_devices(spec, devices) ==
  [spec EXCEPT
     !.devices = @ \o [i \in DOMAIN devices |->
                         [path |-> devices[i].container,
                          dev  |-> stat_device(devices[i].host).dev]],
     !.resources.devices = @ \o [i \in DOMAIN devices |->
                         [allow  |-> TRUE,
                          dev    |-> stat_device(devices[i].host).dev,
                          access |-> sanitize_device_access(devices[i].permissions)]]]

apply_sysctls(spec, sysctls) == [spec EXCEPT !.sysctl = Extend(@, sysctls)]

-----------------------------------------------------------------------------
(* Privileges *)

apply_privileged(spec) ==
  [spec EXCEPT !.process.caps = build_caps(all_capabilities, all_capabilities),
               !.masked = None, !.readonly = None,
               !.resources.devices = <<AllowAll>>]

SeccompReadable(req) ==
  req.seccomp.kind = "Localhost" => req.seccomp.path \in SeccompFiles

apply_security(spec, req) ==
  [spec EXCEPT
     !.process.nnp      = @ \/ req.no_new_privileges,
     !.process.apparmor = OrElse(req.apparmor_profile, @),
     !.process.selinux  = OrElse(req.selinux_label, @),
     !.masked   = IF req.masked_paths # <<>> THEN req.masked_paths ELSE @,
     !.readonly = IF req.readonly_paths # <<>> THEN req.readonly_paths ELSE @,
     !.seccomp  = CASE req.seccomp.kind = "Unconfined"     -> @
                    [] req.seccomp.kind = "RuntimeDefault" ->
                         runtime_default(effective_capabilities(spec))
                    [] req.seccomp.kind = "Localhost"      -> req.seccomp.path]

-----------------------------------------------------------------------------
(* The steps of generate_spec, in order *)

WithProcess(image, req) ==
  Extend(BaseSpec(req.rootless_host_ids),
         [process  |-> Process(image, req),
          root     |-> [readonly |-> req.readonly_rootfs],
          hostname |-> req.hostname])

WithNamespaces(spec, req) ==
  LET net  == set_network_namespace(spec, req.netns_path)
      host == apply_host_namespaces(net, req.host_pid, req.host_ipc)
      user == apply_user_namespace(host, req.userns_uid_mappings, req.userns_gid_mappings)
      pid  == join_namespace(user, "pid", req.pid_ns_path)
  IN join_namespace(pid, "ipc", req.ipc_ns_path)

WithCgroup(spec, req) ==
  IF req.cgroup_path = None THEN spec
  ELSE apply_resources([spec EXCEPT !.cgroups_path = req.cgroup_path], req.resources)

(* Wrong: the profile is resolved for the default capabilities. *)
SecurityFirst(spec, req) ==
  IF req.privileged THEN apply_privileged(spec)
  ELSE apply_devices(apply_capabilities(apply_security(spec, req), req.add_capabilities,
                                        req.drop_capabilities), req.devices)

WithPrivileges(spec, req) ==
  IF req.privileged THEN apply_privileged(spec)
  ELSE LET caps == apply_capabilities(spec, req.add_capabilities, req.drop_capabilities)
       IN apply_devices(apply_security(caps, req), req.devices)

(* generate_spec returns an error, and no spec, when a device or the       *)
(* seccomp file is missing.                                                *)
SpecFails(req) == ~ req.privileged /\ ~ (SeccompReadable(req) /\ DevicesPresent(req.devices))

generate_spec(image, req) ==
  LET placed == WithNamespaces(WithProcess(image, req), req)
      filled == WithCgroup(add_bind_mounts(placed, req.mounts), req)
  IN apply_sysctls(WithPrivileges(filled, req), req.sysctls)
=============================================================================
