\* Three imports, so that a generation is replaced twice; two searches, so that
\* one can hold an old generation while the other uses the next.
CONSTANTS
  Op = {o1, o2, o3}
  Search = {s1, s2}
  None = None
  MaxGeneration = 3
SPECIFICATION FairSpec
INVARIANTS
  ReferencedGenerationIntact
  BuildFileOwned
  EveryFileAccounted
  SingleReclaimer
  IInv
PROPERTIES
  NeverOverwritten
  ImplementsRegister
  RetiredReclaimed
