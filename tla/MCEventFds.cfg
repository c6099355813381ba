\* Two workers set up their loops and channels concurrently, with every
\* call allowed to fail.  The run ends when both have returned.
CONSTANTS
  w1 = w1
  w2 = w2
  Threads = {w1, w2}
  Fds <- MCFds
  SyscallsMayFail = TRUE

SPECIFICATION Spec
SYMMETRY MCSymmetry
CHECK_DEADLOCK FALSE

INVARIANT NoLeak
INVARIANT OwnedOpen
