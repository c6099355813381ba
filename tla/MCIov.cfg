\* An iov of two slots grown to three by mk_iov_realloc, at most five bytes
\* appended over a behaviour: enough for two full cycles of add, partial
\* writes and mk_iov_free_marked.
CONSTANTS
  s1 = s1
  d1 = d1
  d2 = d2
  StaticBufs = {s1}
  DynBufs = {d1, d2}
  MaxLen = 2
  IovSize = 2
  MaxSize = 3
  MaxBytes = 5

SPECIFICATION Spec

INVARIANT TypeOK
PROPERTY IovRefinesSpec
