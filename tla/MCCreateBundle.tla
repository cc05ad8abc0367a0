--------------------------- MODULE MCCreateBundle ---------------------------
(***************************************************************************)
(* Configurations for TLC.  Each family varies the fields that one part of *)
(* the code reads together, in all combinations, and leaves the others at  *)
(* their defaults.                                                         *)
(***************************************************************************)
EXTENDS CreateBundle

Pod == [options |-> FALSE, network |-> "POD", pid |-> "POD", ipc |-> "POD",
        userns |-> [mode |-> "NODE", uids |-> <<>>, gids |-> <<>>],
        resolv |-> "pod-resolv", sysctls |-> <<>>, cgroup_parent |-> None,
        hostname |-> "pod"]

Config == [image |-> [repo |-> "app", tag |-> "latest", digest |-> None], command |-> <<>>, args |-> <<>>, envs |-> <<>>, working_dir |-> None,
           tty |-> FALSE, readonly_rootfs |-> FALSE, mounts |-> <<>>,
           privileged |-> FALSE, run_as_user |-> None, run_as_group |-> None,
           run_as_username |-> None, groups |-> <<>>, resources |-> None,
           add |-> <<>>, drop |-> <<>>, no_new_privs |-> FALSE,
           apparmor |-> None, selinux |-> None, masked |-> <<>>, readonly |-> <<>>,
           seccomp |-> None, devices |-> <<>>]

Ref(repo, tag, digest) == [repo |-> repo, tag |-> tag, digest |-> digest]
Id(i) == Ref("sha256", i, None)

Image == [id |-> Id("i1"), name |-> Ref("app", "latest", None),
          repo_tags |-> {Ref("app", "latest", None)}, repo_digests |-> {},
          config |-> [env |-> <<>>, entrypoint |-> <<"init">>, cmd |-> <<"serve">>,
                      working_dir |-> None, user |-> None],
          layers |-> <<>>]

Ask == [pod |-> Pod, holder |-> None, images |-> <<Image>>, config |-> Config, resizes |-> <<>>]

SeqsUpTo(S, n) == UNION {[1 .. k -> S] : k \in 0 .. n}

-----------------------------------------------------------------------------
Mapping(c, h) == <<[container |-> c, host |-> h, size |-> 9]>>

UserNamespaces ==
  {[mode |-> "POD", uids |-> u, gids |-> g] :
      u \in {Mapping(0, 100), Mapping(1, 100), <<>>}, g \in {Mapping(0, 200), <<>>}}
  \cup {[mode |-> m, uids |-> <<>>, gids |-> <<>>] : m \in {"NODE", "CONTAINER", "TARGET"}}

OneFile == <<<<[dir |-> <<>>, name |-> "a", mark |-> "no", kind |-> "file", data |-> 1]>>>>

NamespaceAsks ==
  {[Ask EXCEPT !.pod.options = o, !.pod.network = n, !.pod.pid = p, !.pod.ipc = i,
               !.pod.userns = u, !.holder = h, !.images[1].layers = OneFile] :
     o \in BOOLEAN, n \in {"POD", "NODE"}, p \in {"POD", "CONTAINER", "NODE"},
     i \in {"POD", "NODE"}, u \in UserNamespaces, h \in {None, "p7"}}

(* spellings of capability names: with the prefix, in lower case, unknown *)
Spellings ==
  [n \in {"ALL", "CHOWN", "CAP_CHOWN", "net_admin", "SYS_TIME", "BOGUS"} |->
     CASE n = "CAP_CHOWN" -> "CHOWN" [] n = "net_admin" -> "NET_ADMIN" [] OTHER -> n]

Filter(caps, arches, k) == [caps |-> caps, arches |-> arches, minKernel |-> k]
Always == Filter({}, {}, FALSE)

SmallProfile ==
  <<[names |-> {"read"},    includes |-> Always, excludes |-> Always],
    [names |-> {"setns"},   includes |-> Filter({"SYS_ADMIN", "NET_ADMIN"}, {}, FALSE), excludes |-> Always],
    [names |-> {"settime"}, includes |-> Filter({"SYS_TIME"}, {"amd64"}, FALSE), excludes |-> Always],
    [names |-> {"clone"},   includes |-> Always, excludes |-> Filter({"SYS_ADMIN"}, {"s390x"}, FALSE)],
    [names |-> {"arm"},     includes |-> Filter({}, {"arm64"}, FALSE), excludes |-> Always],
    [names |-> {"x86"},     includes |-> Filter({}, {}, TRUE), excludes |-> Filter({}, {"arm64"}, FALSE)],
    [names |-> {"old"},     includes |-> Always, excludes |-> Filter({}, {}, TRUE)]>>

Archs == [x \in {"X86_64", "AARCH64"} |-> IF x = "X86_64" THEN <<"X86", "X32">> ELSE <<"ARM">>]
Amd64 == [go |-> "amd64", scmp |-> "X86_64"]

Profiles == {None, [type |-> "Unconfined", ref |-> None], [type |-> "RuntimeDefault", ref |-> None],
             [type |-> "Localhost", ref |-> "strict.json"], [type |-> "Localhost", ref |-> "gone.json"]}

PrivilegeAsks ==
  {[Ask EXCEPT !.config.privileged = p, !.config.add = a, !.config.drop = d,
               !.config.seccomp = s, !.config.no_new_privs = (a = <<>>),
               !.config.apparmor = s, !.config.masked = IF p THEN <<"/proc">> ELSE <<>>] :
     p \in BOOLEAN, a \in SeqsUpTo(DOMAIN Spellings, 2), d \in SeqsUpTo({"ALL", "CHOWN", "net_admin"}, 2),
     s \in Profiles}

-----------------------------------------------------------------------------
HostNodes == [p \in {"/dev/tty", "/dev/disk", "/dev/fuse", "/etc/passwd"} |->
                [dev |-> p, typ |-> CASE p = "/dev/disk" -> "b" [] p = "/etc/passwd" -> "other" [] OTHER -> "c"]]

Devices == {[host |-> h, container |-> h, permissions |-> p] :
              h \in {"/dev/tty", "/dev/disk", "/etc/passwd", "/dev/absent"},
              p \in {{}, {"r"}, {"r", "w", "x"}}}

Limits(m, q) == [cpu_shares |-> 2, cpu_quota |-> q, cpu_period |-> 0, memory |-> m,
                 cpus |-> None, mems |-> None, hugepages |-> <<<<"2M", 0>>, <<"1G", 4>>>>,
                 unified |-> <<>>]

CgroupParents == {None, [slice |-> TRUE, name |-> "pod.slice"], [slice |-> FALSE, name |-> "pod"]}

ResourceAsks ==
  {[Ask EXCEPT !.config.privileged = p, !.config.devices = d, !.config.resources = r,
               !.pod.cgroup_parent = c, !.pod.sysctls = IF p THEN [k \in {"net.a"} |-> 1] ELSE <<>>] :
     p \in BOOLEAN, d \in SeqsUpTo(Devices, 2), c \in CgroupParents,
     r \in {None, Limits(0, 0), Limits(5, -1)}}

(* resizes of some limits, of none, and a call without Linux resources *)
Resizes == {None} \cup
  {[Limits(m, q) EXCEPT !.cpu_shares = s, !.cpus = c] :
     m \in {0, 7}, q \in {0, -1}, s \in {0, 3}, c \in {None, "0-1"}}

ResizeAsks ==
  {[Ask EXCEPT !.config.resources = r, !.config.privileged = p, !.pod.cgroup_parent = c, !.resizes = z] :
     r \in {None, Limits(5, 9), Limits(0, 0)}, p \in BOOLEAN, c \in CgroupParents,
     z \in [1 .. 2 -> Resizes]}

-----------------------------------------------------------------------------
Mounts ==
  {[source |-> "/src", destination |-> d, readonly |-> r, recursive_read_only |-> rr, propagation |-> p] :
     d \in {"/data", ResolvConf}, r \in BOOLEAN, rr \in BOOLEAN,
     p \in {"Private", "HostToContainer", "Bidirectional"}}

PlainMounts == {m \in Mounts : m.destination = "/data" /\ ~ m.recursive_read_only /\ m.readonly}

MountAsks ==
  {[Ask EXCEPT !.config.mounts = m, !.pod.resolv = r] :
     m \in SeqsUpTo(Mounts, 2) \cup SeqsUpTo(PlainMounts, 3), r \in {None, "pod-resolv"}}

-----------------------------------------------------------------------------
(* Two arbitrary layers over a base that holds a file and a directory. *)
File(d, n, v) == [dir |-> d, name |-> n, mark |-> "no", kind |-> "file", data |-> v]
Link(d, n, v) == [dir |-> d, name |-> n, mark |-> "no", kind |-> "link", data |-> v]
Dir(n)        == [dir |-> <<>>, name |-> n, mark |-> "no", kind |-> "dir", data |-> 0]
White(d, n)   == [dir |-> d, name |-> n, mark |-> "wh", kind |-> "file", data |-> 0]
Opaque(d)     == [dir |-> d, name |-> "", mark |-> "opq", kind |-> "file", data |-> 0]

BaseLayer == <<File(<<>>, "a", 1), Dir("d"), File(<<"d">>, "x", 1), File(<<"d">>, "y", 1)>>

LayerEntries(v) ==
  {File(<<>>, "a", v), File(<<"d">>, "x", v), File(<<"n">>, "z", v), File(<<>>, "d", v), Dir("d"),
   White(<<>>, "a"), White(<<>>, "d"), White(<<"d">>, "x"), Opaque(<<"d">>), Opaque(<<>>),
   White(<<"..">>, "a"), Link(<<>>, "a", v)}

LayerAsks ==
  {[Ask EXCEPT !.images[1].layers = <<BaseLayer, l2, l3>>, !.pod.options = TRUE,
               !.pod.userns = [mode |-> "POD", uids |-> Mapping(0, 100), gids |-> Mapping(0, 100)]] :
     l2 \in SeqsUpTo(LayerEntries(2), 2), l3 \in SeqsUpTo(LayerEntries(3), 2)}

(* Two images that may share a tag that has moved, and every way to name   *)
(* one, or one that was never pulled.                                      *)
ImageNamed(i, tags, digests) ==
  [Image EXCEPT !.id = Id(i), !.repo_tags = tags, !.repo_digests = digests,
                !.name = CHOOSE n \in tags \cup digests : TRUE,
                !.config = IF digests = {} THEN None ELSE @,
                !.layers = <<<<File(<<>>, i, 1)>>>>]

Tags    == {Ref("app", "latest", None), Ref("app", "v1", None)}
Digests == {Ref("app", None, "m1")}

ImageAsks ==
  {[Ask EXCEPT !.images = i, !.config.image = r] :
     i \in {<<>>} \cup {<<ImageNamed("i1", t, d), ImageNamed("i2", u, {})>> :
                          t, u \in SUBSET Tags \ {{}}, d \in SUBSET Digests},
     r \in Tags \cup Digests \cup {Id("i1"), Id("i2"), Id("i3"), Ref("app", None, None), Ref("other", None, None)}}

AllAsks == <<NamespaceAsks, PrivilegeAsks, ResourceAsks, ResizeAsks, MountAsks, LayerAsks, ImageAsks>>
=============================================================================
