\* The backend as the scheduler uses it: single-direction masks, no syscall
\* failures, timers never deleted.
CONSTANTS
  c1 = c1
  t1 = t1
  w1 = w1
  ConnEvents = {c1}
  TimerEvents = {t1}
  ChannelEvents = {w1}
  DelEvents <- MCDelNoTimer
  Masks <- MCSingleMasks
  SyscallsMayFail = FALSE

SPECIFICATION Spec

INVARIANT TypeOK
INVARIANT KernelMatchesMask
PROPERTY NoRedundantKevent
PROPERTY DelUnregisters
PROPERTY NoLostReadiness
