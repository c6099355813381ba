\* The backend as the API table exposes it: a plugin may ask for reading and
\* writing together (the spec's mask is a bitset), and kevent() may fail for
\* a resource reason (ENOMEM) on any change, after which the scheduler logs
\* the error and keeps serving (spec 7, BackendError).
CONSTANTS
  c1 = c1
  t1 = t1
  w1 = w1
  ConnEvents = {c1}
  TimerEvents = {t1}
  ChannelEvents = {w1}
  DelEvents <- MCDelNoTimer
  Masks <- MCBitsetMasks
  SyscallsMayFail = TRUE

SPECIFICATION Spec

PROPERTY NoLostReadiness
