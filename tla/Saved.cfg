SPECIFICATION Spec
CONSTANTS
  Names <- MCNames
  Main = "main"
  Unnamed = "none"
  Code <- MCCode
  Native <- MCNative
  MaxFile = 3
INVARIANTS TypeOK NamesKept
PROPERTY SavedIsLoaded
