SPECIFICATION MCSpec
CONSTANTS
  o1 = o1
  o2 = o2
  s1 = s1
  s2 = s2
  Op = {o1, o2}
  Search = {s1, s2}
  None = None
  Null = Null
  Empty = Empty
  NameForm <- MCForm
  PathForm <- MCForm
  MaxSearchResults = 2
INVARIANTS
  SearchAnswerExact
  OneGenerationPerAnswer
PROPERTIES
  GenerationReturned
CHECK_DEADLOCK FALSE
