\* Two workers formatting and parsing back three times each through caches
\* of two slots, with TZ unset or set to a zone at startup.
CONSTANTS
  w1 = w1
  w2 = w2
  Workers = {w1, w2}
  Dates <- MCDates
  MK_GMT_CACHES = 2
  InitTZ = {"unset", "CET"}
  MaxReq = 3

SPECIFICATION Spec
SYMMETRY MCSymmetry

\* Every behaviour ends when the workers have used their MaxReq dates.
CHECK_DEADLOCK FALSE

INVARIANT TypeOK
INVARIANT ParsesBack
