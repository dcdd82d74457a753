\* Two producers that report errors for ever, two Close calls one after the
\* other.
CONSTANTS
  Producers  = {p1, p2}
  Closers    = {k1, k2}
  Serialised = TRUE
SPECIFICATION FairSpec
INVARIANTS
  NoPanic
  FirstCloseWaits
  WaitIsAnswered
PROPERTIES
  ErrorsAreDrained
  CloseReturns
