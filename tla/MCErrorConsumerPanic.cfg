CONSTANTS
  Producers  = {p1}
  Closers    = {k1, k2}
  Serialised = FALSE
SPECIFICATION Spec
INVARIANTS
  NoPanic
