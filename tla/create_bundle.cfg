SPECIFICATION Spec
CONSTANTS
  None = None
  NoArch = NoArch
  Failed = Failed
  Profile <- SmallProfile
  ArchMap <- Archs
  HostArch <- Amd64
  CapKey <- Spellings
  Nodes <- HostNodes
  SeccompFiles = {"strict.json"}
  Asks <- AllAsks
  U32 = 4096
  DaemonIds = None
  SelinuxHost = FALSE
INVARIANTS NamespacesAsAsked PrivilegesAsAsked ResourcesAsAsked MountsAsAsked RootfsIsMerged
CHECK_DEADLOCK FALSE
