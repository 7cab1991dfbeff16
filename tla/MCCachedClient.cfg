\* The dashboard and a poller on two URLs, each of which changes between two
\* contents and back.
CONSTANTS
  Urls = {u1, u2}
  Contents = {x1, x2}
  Callers = {c1, c2}
  MaxRetries = 0
  None = None
SPECIFICATION FairSpec
PROPERTIES
  ImplementsAtomicFetch
  CallReturns
