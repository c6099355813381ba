--------------------------- MODULE MCEventBackend ---------------------------
(***************************************************************************)
(* Instantiates EventBackend for TLC.  The events of one loop do not share *)
(* state in the backend, so one event of each kind is enough: a connection *)
(* (c1), a timer (t1) and a wake channel (w1).                             *)
(***************************************************************************)
EXTENDS EventBackend

CONSTANTS c1, t1, w1

\* The masks the scheduler passes for a connection: one direction at a time,
\* or MK_EVENT_SLEEP to park it.
MCSingleMasks == {MK_EVENT_READ, MK_EVENT_WRITE, MK_EVENT_SLEEP}

\* Masks a plugin may pass through the API table (api->ev_add): the spec's
\* interest mask is a bitset, so reading and writing together is allowed.
MCBitsetMasks == MCSingleMasks \cup {MK_EVENT_READ + MK_EVENT_WRITE}

\* The connection and the wake channel are deleted by their owners.
MCDelNoTimer == {c1, w1}

\* A plugin removing a timer it created through api->ev_timeout_create.
MCDelAll == {c1, t1, w1}

=============================================================================
