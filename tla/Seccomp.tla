------------------------------ MODULE Seccomp ------------------------------
(***************************************************************************)
(* crates/runtime/src/seccomp.rs: the RuntimeDefault seccomp profile,      *)
(* resolved from the bundled profile for the host's architecture and the   *)
(* capabilities of one container.                                          *)
(*                                                                         *)
(* A syscall block is [names, includes, excludes]; a filter is             *)
(* [caps, arches, minKernel] with minKernel a Boolean (present or not).    *)
(* Actions, errno values and argument conditions travel with the block     *)
(* unread.                                                                 *)
(***************************************************************************)
EXTENDS Collections

CONSTANTS
  Profile,   \* the syscall blocks of default_profile.json, in file order
  ArchMap,   \* its archMap: from a primary architecture to its sub-architectures
  HostArch,  \* the host: [go |-> ..., scmp |-> ...], or NoArch when unsupported
  NoArch

CapMatches(names, caps) == names \cap caps # {}
ArchMatches(names)      == HostArch # NoArch /\ HostArch.go \in names

(* The loop body: excludes first, then every include that is present; a    *)
(* minKernel condition counts as met.                                      *)
Keep(block, caps) ==
  /\ ~ ArchMatches(block.excludes.arches)
  /\ ~ CapMatches(block.excludes.caps, caps)
  /\ block.includes.arches = {} \/ ArchMatches(block.includes.arches)
  /\ block.includes.caps = {}   \/ CapMatches(block.includes.caps, caps)
  /\ ~ block.excludes.minKernel

Architectures ==
  IF HostArch # NoArch /\ HostArch.scmp \in DOMAIN ArchMap
  THEN <<HostArch.scmp>> \o ArchMap[HostArch.scmp]
  ELSE <<>>

runtime_default(caps) ==
  [architectures |-> Architectures,
   syscalls      |-> Retain(Profile, LAMBDA b : Keep(b, caps))]
=============================================================================
