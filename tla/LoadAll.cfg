SPECIFICATION FairSpec
CONSTANTS
  Manifests <- AllManifests
  Names <- MCNames
  Main = "main"
  NoName = "none"
  SmallJoin = 2
CHECK_DEADLOCK FALSE
INVARIANTS VerdictRight LastOfName
PROPERTIES Ends FailureNotDelayed
