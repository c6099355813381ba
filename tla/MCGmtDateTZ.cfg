\* One worker parsing one date back, TZ set to a zone at startup.
CONSTANTS
  w1 = w1
  w2 = w2
  Workers = {w1}
  Dates <- MCDates
  MK_GMT_CACHES = 2
  InitTZ = {"CET"}
  MaxReq = 1

SPECIFICATION Spec

\* Every behaviour ends when the worker has used its MaxReq dates.
CHECK_DEADLOCK FALSE

INVARIANT TZRestored
