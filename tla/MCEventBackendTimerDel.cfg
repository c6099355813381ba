\* The owner of a timer created by mk_event_timeout_create deletes it with
\* mk_event_del.
CONSTANTS
  c1 = c1
  t1 = t1
  w1 = w1
  ConnEvents = {c1}
  TimerEvents = {t1}
  ChannelEvents = {w1}
  DelEvents <- MCDelAll
  Masks <- MCSingleMasks
  SyscallsMayFail = FALSE

SPECIFICATION Spec

PROPERTY DelUnregisters
