SPECIFICATION FairSpec
CONSTANTS
  s = s
  t = t
  Tasks = {s, t}
  Kinds <- MCAllKinds
  Namespaces <- MCNamespaces
  HostEnv = "host/env"
  Names <- MCNames
  HostNames <- MCHostNames
  KernelNames <- MCKernelNames
  UserExports <- MCUserExports
  MaxEntries = 1
  MaxSections = 1
CHECK_DEADLOCK FALSE
INVARIANTS TypeOK NothingHeldOver Identities Leftovers ExternalsResolve
PROPERTIES PoisonIsFinal EveryoneEnds
