\* One connection of a worker answering two requests, the second prepared
\* while the first's headers may still be partly unsent.
CONSTANTS
  c1 = c1
  c2 = c2
  Conns = {c1}
  Profiles <- MCProfiles
  MaxReq = 2

SPECIFICATION Spec

\* The worker stops once every stream is written, or when the first stream
\* left has an empty iov (the shared-iov finding) and nothing to write.
CHECK_DEADLOCK FALSE

INVARIANT TypeOK
INVARIANT HeadersIntact
