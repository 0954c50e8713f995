SPECIFICATION Spec
CONSTANTS
  Callers = {c1, c2}
  Threshold = 2
  MaxTests = 1
  InOrder = FALSE
  MayAbandon = TRUE
INVARIANTS OpenCanRecover TestOverrunBounded
