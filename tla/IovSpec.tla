------------------------------ MODULE IovSpec ------------------------------
(***************************************************************************)
(* What a vectored output buffer promises its user (spec 4.3, 3): a FIFO   *)
(* of pending bytes.  Appending queues a buffer's bytes at the back; a     *)
(* write moves a non-empty prefix of the pending bytes to the socket, in   *)
(* order and exactly once; releasing drops what is pending and frees every *)
(* buffer the user handed over for freeing, once.                          *)
(***************************************************************************)
EXTENDS Naturals, Sequences

CONSTANTS
  Bufs        \* the memory buffers whose bytes may be queued

VARIABLES
  pending,    \* the bytes queued and not yet written
  wire,       \* the bytes written to the socket, in order
  owned,      \* the buffers to free when the queue is released
  freed       \* how many times each buffer has been freed

vars == <<pending, wire, owned, freed>>

Init ==
  /\ pending = << >>
  /\ wire = << >>
  /\ owned = {}
  /\ freed = [b \in Bufs |-> 0]

\* Bytes of buffer b queued at the back: the old queue is a strict prefix of
\* the new one, and every new byte is one of b's.
Enqueue(b, own) ==
  /\ Len(pending') > Len(pending)
  /\ SubSeq(pending', 1, Len(pending)) = pending
  /\ \A i \in Len(pending) + 1 .. Len(pending') : pending'[i][1] = b
  /\ owned' = IF own THEN owned \cup {b} ELSE owned
  /\ UNCHANGED <<wire, freed>>

Write(n) ==
  /\ n \in 1..Len(pending)
  /\ wire' = wire \o SubSeq(pending, 1, n)
  /\ pending' = SubSeq(pending, n + 1, Len(pending))
  /\ UNCHANGED <<owned, freed>>

Release ==
  /\ freed' = [b \in Bufs |-> IF b \in owned THEN freed[b] + 1 ELSE freed[b]]
  /\ owned' = {}
  /\ pending' = << >>
  /\ UNCHANGED wire

Next ==
  \/ \E b \in Bufs, own \in BOOLEAN : Enqueue(b, own)
  \/ \E n \in 1..Len(pending) : Write(n)
  \/ Release

Spec == Init /\ [][Next]_vars

=============================================================================
