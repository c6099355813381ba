-------------------------------- MODULE Iov --------------------------------
(***************************************************************************)
(* struct mk_iov (mk_iov.c): an array of iovec entries, the running total  *)
(* total_len, and the list buf_to_free of buffers to free once the data is *)
(* sent.  A user appends entries (mk_iov_add), writes them with one        *)
(* vectored write (mk_iov_send, rtems_writev on RTEMS) and advances the    *)
(* entries past what the socket took (mk_iov_consume), frees the marked    *)
(* buffers and empties the iov (mk_iov_free_marked), or moves it to a      *)
(* larger array (mk_iov_realloc).                                          *)
(*                                                                         *)
(* A byte is <<buffer, offset>>; an entry is [buf, base, len], iov_base    *)
(* being buf + base.  The entries io[1..Len(io)] are the live iovecs       *)
(* io[0 .. iov_idx-1] of the C array.                                      *)
(***************************************************************************)
EXTENDS Integers, Sequences, FiniteSets, SequencesExt

CONSTANTS
  StaticBufs,  \* constant strings (mk_iov_crlf, header names): never freed
  DynBufs,     \* buffers allocated for one entry, added with free = MK_TRUE
  MaxLen,      \* the longest entry
  IovSize,     \* n given to mk_iov_create
  MaxSize,     \* the largest new_size given to mk_iov_realloc
  MaxBytes     \* bound on the bytes appended over a behaviour

Bufs == StaticBufs \cup DynBufs

Entry == [buf : Bufs, base : Nat, len : Nat]

VARIABLES
  io,           \* mk_io->io[0 .. iov_idx-1]
  total_len,    \* mk_io->total_len
  buf_to_free,  \* mk_io->buf_to_free[0 .. buf_idx-1]
  size,         \* mk_io->size
  wire,         \* the bytes the socket has accepted, in order
  freed,        \* how many times mk_mem_free was called on each buffer
  used          \* the dynamic buffers already handed to the iov

vars == <<io, total_len, buf_to_free, size, wire, freed, used>>

\* The bytes an entry still points at.
Bytes(e) == [i \in 1..e.len |-> <<e.buf, e.base + i - 1>>]

\* The bytes a writev() of the live entries would send, in order.
Pending == FlattenSeq([i \in 1..Len(io) |-> Bytes(io[i])])

-----------------------------------------------------------------------------

\* mk_iov_create(n, 0) and mk_iov_init (mk_iov.h): no entry, nothing marked.
Init ==
  /\ io = << >>
  /\ total_len = 0
  /\ buf_to_free = << >>
  /\ size = IovSize
  /\ wire = << >>
  /\ freed = [b \in Bufs |-> 0]
  /\ used = {}

(* mk_iov_add (mk_iov.h): store the entry at iov_idx, add its length to    *)
(* total_len, and mark the buffer when free is MK_TRUE.  The array is not  *)
(* bounds-checked; the caller sizes it, so the guard is the caller's.      *)
Add(b, len, free) ==
  /\ Len(io) < size
  /\ Len(wire) + Len(Pending) + len <= MaxBytes
  /\ free = (b \in DynBufs)
  /\ b \notin used
  /\ io' = Append(io, [buf |-> b, base |-> 0, len |-> len])
  /\ total_len' = total_len + len
  /\ buf_to_free' = IF free THEN Append(buf_to_free, b) ELSE buf_to_free
  /\ used' = IF free THEN used \cup {b} ELSE used
  /\ UNCHANGED <<size, wire, freed>>

(* rtems_writev: copy the entries into one buffer and write() it: the      *)
(* socket takes some prefix of it, n >= 1 bytes, or fails with EAGAIN      *)
(* (a step that changes nothing).                                          *)
Writev(n) == SubSeq(Pending, 1, n)

(* The loop of mk_iov_consume over the entries from index 0: returns the   *)
(* entries and the value of `bytes' after the loop.                        *)
RECURSIVE ConsumeSwapped(_, _)
\* Mutant: iov_len = (bytes - len) in the partial branch.
ConsumeSwapped(es, bytes) ==
  IF es = << >> THEN [io |-> << >>, left |-> bytes]
  ELSE LET e == Head(es) IN
       IF bytes < e.len
       THEN [io |-> <<[e EXCEPT !.base = @ + bytes, !.len = bytes - e.len]>>
                    \o Tail(es), left |-> bytes]
       ELSE IF bytes = e.len
       THEN [io |-> <<[e EXCEPT !.len = 0]>> \o Tail(es), left |-> bytes]
       ELSE LET r == ConsumeSwapped(Tail(es), bytes - e.len)
            IN  [r EXCEPT !.io = <<[e EXCEPT !.len = 0]>> \o @]

RECURSIVE ConsumeEntries(_, _)
ConsumeEntries(es, bytes) ==
  IF es = << >> THEN [io |-> << >>, left |-> bytes]
  ELSE LET e == Head(es) IN
       IF bytes < e.len
       THEN [io |-> <<[e EXCEPT !.base = @ + bytes, !.len = @ - bytes]>>
                    \o Tail(es), left |-> bytes]
       ELSE IF bytes = e.len
       THEN [io |-> <<[e EXCEPT !.len = 0]>> \o Tail(es), left |-> bytes]
       ELSE LET r == ConsumeEntries(Tail(es), bytes - e.len)
            IN  [r EXCEPT !.io = <<[e EXCEPT !.len = 0]>> \o @]

(* mk_iov_consume(mk_io, bytes): all of total_len resets the iov (iov_idx  *)
(* and total_len, not buf_idx); otherwise the entries are advanced and     *)
(* total_len loses what is left of `bytes' after the loop.                 *)
Consume(bytes) ==
  IF total_len = bytes
  THEN [io |-> << >>, total_len |-> 0]
  ELSE LET r == ConsumeEntries(io, bytes)
       IN  [io |-> r.io, total_len |-> total_len - r.left]

(* One write of the iov as its stream's owner makes it: mk_iov_send, and   *)
(* when it wrote n > 0 bytes, mk_iov_consume(iov, n).                      *)
Send(n) ==
  /\ n \in 1..Len(Pending)
  /\ wire' = wire \o Writev(n)
  /\ io' = Consume(n).io
  /\ total_len' = Consume(n).total_len
  /\ UNCHANGED <<buf_to_free, size, freed, used>>

\* Mutant: buf_idx is not reset, so the next call frees the buffers again.
FreeMarkedKeepIdx ==
  /\ freed' = [b \in Bufs |-> freed[b] + Cardinality({i \in DOMAIN buf_to_free :
                                                       buf_to_free[i] = b})]
  /\ io' = << >>
  /\ total_len' = 0
  /\ UNCHANGED <<buf_to_free, size, wire, used>>

(* mk_iov_free_marked: mk_mem_free every marked buffer, then iov_idx,      *)
(* buf_idx and total_len to 0.                                             *)
FreeMarked ==
  /\ freed' = [b \in Bufs |-> freed[b] + Cardinality({i \in DOMAIN buf_to_free :
                                                       buf_to_free[i] = b})]
  /\ io' = << >>
  /\ buf_to_free' = << >>
  /\ total_len' = 0
  /\ UNCHANGED <<size, wire, used>>

(* mk_iov_realloc(mk_io, n): a new iov of n slots with iov_idx, buf_idx,   *)
(* total_len, the live entries and the marked buffers copied over.  Only   *)
(* growth is asked for.                                                    *)
Realloc(n) ==
  /\ n > size
  /\ size' = n
  /\ UNCHANGED <<io, total_len, buf_to_free, wire, freed, used>>

Next ==
  \/ \E b \in Bufs, len \in 1..MaxLen, free \in BOOLEAN : Add(b, len, free)
  \/ \E n \in 1..MaxBytes : Send(n)
  \/ FreeMarked
  \/ \E n \in 1..MaxSize : Realloc(n)

Spec == Init /\ [][Next]_vars

-----------------------------------------------------------------------------

TypeOK ==
  /\ io \in Seq(Entry)
  /\ total_len \in Nat
  /\ buf_to_free \in Seq(DynBufs)
  /\ size \in IovSize..MaxSize
  /\ freed \in [Bufs -> Nat]
  /\ used \subseteq DynBufs

(* mk_iov_free_marked and mk_iov_consume together implement the byte FIFO  *)
(* of IovSpec: bytes reach the socket in the order they were added, none   *)
(* twice and none skipped, whatever partial writes the socket makes, and   *)
(* every marked buffer is freed once.                                      *)
Abs == INSTANCE IovSpec WITH
         pending <- Pending, wire <- wire, owned <- ToSet(buf_to_free),
         freed <- freed

IovRefinesSpec == Abs!Spec

=============================================================================
