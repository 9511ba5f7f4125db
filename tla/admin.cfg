SPECIFICATION Spec
CONSTANTS
  c1 = c1
  c2 = c2
  Call = {c1, c2}
  NoCall = NoCall
  Retries = 1
INVARIANTS
  AnswersExplained
SYMMETRY CallSymmetry
