SPECIFICATION Spec
CONSTANTS
  Namespaces <- MCNamespaces
  HostEnv = "hostenv"
  Env = "env"
  Items <- MCItems
  Types <- MCTypes
  Functions <- MCFunctions
  Memories <- MCMemories
  Compatible <- MCCompatible
  Exports <- MCExports
  Externals <- MCExternals
  WasixGiven = TRUE
  WasiNamed <- MCWasiNamed
  WasiExports <- MCWasiExports
  Plugins <- MCPlugins
INVARIANTS TypeOK DependenciesFirst NothingSkipped NoRevisit VerdictRight CyclicIsReal WasiOfOutermost
PROPERTY Terminates
