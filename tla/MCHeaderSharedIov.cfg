\* Two connections of one worker, two requests each, and a response to
\* which a plugin added a header row: every way the worker's thread-local
\* header iov is shared between streams (another connection's request, a
\* pipelined request of the same connection, and an _extra_rows stream
\* queued behind a header stream).
CONSTANTS
  c1 = c1
  c2 = c2
  Conns = {c1, c2}
  Profiles <- MCProfilesRows
  MaxReq = 2

SPECIFICATION Spec

\* The worker stops once every stream is written or cannot progress.
CHECK_DEADLOCK FALSE

INVARIANT HeadersConserved
