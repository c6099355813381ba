------------------------------- MODULE Header -------------------------------
(***************************************************************************)
(* Response headers of mk_header.c on one worker.  mk_header_prepare turns *)
(* a request's response_headers into mk_iov entries and queues a stream of *)
(* that iov on the connection's channel.  The iov is the worker's          *)
(* thread-local MK_TLS_GET(mk_tls_cache_iov_header): every connection of   *)
(* the worker prepares into the same one.  mk_header_cb_finished empties   *)
(* it (mk_iov_free_marked) when a header stream is sent.  Rows a plugin   *)
(* adds with mk_plugin_header_add go to the request's own _extra_rows iov, *)
(* which has a second stream queued after the header stream.               *)
(*                                                                         *)
(* The iov operations are those of module Iov, instantiated on the         *)
(* thread-local iov.  A header entry is one or two bytes of a buffer       *)
(* <<connection, request, field>>, so that the bytes on a socket tell      *)
(* which response they came from.                                          *)
(***************************************************************************)
EXTENDS Integers, Sequences, SequencesExt

CONSTANTS
  Conns,      \* the connections pinned to the worker
  Profiles,   \* the response_headers a handler may have set
  MaxReq      \* requests answered per connection

\* sh->status of a handler that set custom_status (mk_http_status.h).
MK_CUSTOM_STATUS == 7

\* The fields of a response_headers that mk_header_prepare reads.
Profile == [status : {MK_CUSTOM_STATUS, 200, 206, 304, 404}, last_modified : BOOLEAN,
            connection : {0, 1}, keepalive : BOOLEAN, conn_len : BOOLEAN,
            http11 : BOOLEAN, location : BOOLEAN, allow : BOOLEAN,
            content_type : BOOLEAN, te : {"chunked", "none"},
            content_encoding : BOOLEAN, content_length : {-1, 0, 10},
            ranges : {<<-1, -1>>, <<0, -1>>, <<0, 5>>, <<-1, 5>>, <<-1, 0>>},
            resume : BOOLEAN, cgi : BOOLEAN, breakline : BOOLEAN,
            extra_rows : BOOLEAN]

ASSUME Profiles \subseteq Profile /\ MaxReq \in Nat \ {0}

\* Buffers added with free = MK_TRUE: the Location string and a range line.
OwnedFields == {"location", "range"}
OwnedBufs == Conns \X (1..MaxReq) \X OwnedFields

VARIABLES
  io, total_len, buf_to_free, freed,  \* the thread-local header iov
  xio,        \* each request's _extra_rows iov: [io, total_len]
  chan,       \* each connection's channel: its queued streams
  sock,       \* the bytes written to each connection's socket
  expected,   \* the bytes of each connection's prepared headers, in order
  nreq        \* the requests prepared on each connection

vars == <<io, total_len, buf_to_free, freed, xio, chan, sock, expected, nreq>>

TLS == INSTANCE Iov WITH StaticBufs <- {}, DynBufs <- OwnedBufs,
                         MaxLen <- 2, IovSize <- 0, MaxSize <- 0,
                         MaxBytes <- 0, size <- 0, wire <- << >>, used <- {}

\* The iov operations on an iov [io, total_len] with nothing marked.
I(v) == INSTANCE Iov WITH io <- v.io, total_len <- v.total_len,
                          buf_to_free <- << >>, freed <- [b \in OwnedBufs |-> 0],
                          StaticBufs <- {}, DynBufs <- OwnedBufs,
                          MaxLen <- 2, IovSize <- 0, MaxSize <- 0,
                          MaxBytes <- 0, size <- 0, wire <- << >>, used <- {}

EmptyIov == [io |-> << >>, total_len |-> 0]

-----------------------------------------------------------------------------

\* A mk_iov_add of a field: [f, own], own being the free argument.
F(f) == [f |-> f, own |-> FALSE]
Own(f) == [f |-> f, own |-> TRUE]

\* Whether the blank line ending the headers is added, to either iov.
EndsHeaders(sh) == sh.cgi = FALSE \/ sh.breakline

\* Range line of the resume block: one of three mutually exclusive forms.
RangeRow(sh) ==
  IF \/ sh.ranges[1] >= 0 /\ sh.ranges[2] = -1
     \/ sh.ranges[1] >= 0 /\ sh.ranges[2] >= 0
     \/ sh.ranges[1] = -1 /\ sh.ranges[2] > 0
  THEN <<Own("range")>> ELSE << >>

(* The entries mk_header_prepare adds to the header iov for               *)
(* response_headers sh, in order.  The status line comes from             *)
(* custom_status or the status_response table; the final CRLF goes to     *)
(* _extra_rows instead when a plugin added rows.                          *)
HeaderFields(sh) ==
     <<F("status"), F("preset")>>
  \o (IF sh.last_modified THEN <<F("last_modified"), F("lm")>> ELSE << >>)
  \o (IF sh.connection # 0 THEN << >>
      ELSE IF sh.keepalive
           THEN IF sh.conn_len /\ ~sh.http11
                THEN <<F("ka_format"), F("ka_max"), F("conn_ka")>>
                ELSE << >>
           ELSE <<F("conn_close")>>)
  \o (IF sh.location THEN <<F("short_location"), Own("location")>> ELSE << >>)
  \o (IF sh.allow THEN <<F("allow"), F("allow_methods")>> ELSE << >>)
  \o (IF sh.content_type THEN <<F("content_type")>> ELSE << >>)
  \o (IF (sh.status < 300 \/ sh.status > 305)
         /\ sh.te = "chunked"
      THEN <<F("te_chunked")>> ELSE << >>)
  \o (IF sh.content_encoding THEN <<F("content_encoding"), F("ce")>> ELSE << >>)
  \o (IF sh.content_length >= 0 /\ sh.te # "chunked"
      THEN <<F("content_length"), F("cl")>> ELSE << >>)
  \o (IF sh.content_length # 0 /\ (sh.ranges[1] >= 0 \/ sh.ranges[2] >= 0)
         /\ sh.resume
      THEN RangeRow(sh) ELSE << >>)
  \o (IF EndsHeaders(sh) /\ ~sh.extra_rows
      THEN <<F("crlf")>> ELSE << >>)

\* The status line is two bytes, so that a write may stop inside it.
FieldLen(f) == IF f = "status" THEN 2 ELSE 1

\* The iov entries of request r of connection c.
Entries(c, r, sh) ==
  LET fs == HeaderFields(sh) IN
  [i \in DOMAIN fs |-> [buf |-> <<c, r, fs[i].f>>, base |-> 0,
                        len |-> FieldLen(fs[i].f)]]

\* The buffers among them added with free = MK_TRUE.
Marked(c, r, sh) ==
  LET fs == HeaderFields(sh) IN
  [i \in 1..Len(SelectSeq(fs, LAMBDA x : x.own)) |->
     <<c, r, SelectSeq(fs, LAMBDA x : x.own)[i].f>>]

(* mk_plugin_header_add, called once by a plugin for request r of c:      *)
(* _extra_rows is created on first use and gets the row and a CRLF.        *)
HeaderAdd(c, r) == <<<<c, r, "row">>, <<c, r, "row_crlf">>>>

(* The _extra_rows entries when the response has plugin rows: the rows,    *)
(* then the blank line mk_header_prepare adds there instead.               *)
ExtraEntries(c, r, sh) ==
  LET bs == HeaderAdd(c, r) \o (IF EndsHeaders(sh) THEN <<<<c, r, "crlf">>>> ELSE << >>)
  IN  IF sh.extra_rows
      THEN [i \in DOMAIN bs |-> [buf |-> bs[i], base |-> 0, len |-> 1]]
      ELSE << >>

(* The streams mk_stream_set queues on the channel for request r.  Given  *)
(* size -1, a stream of an iov counts as its bytes_total the iov's         *)
(* total_len at that moment: ht for the thread-local iov, xt for           *)
(* _extra_rows.                                                            *)
Streams(r, sh, ht, xt) ==
  <<[kind |-> "hdr", r |-> r, total |-> ht]>>
  \o (IF sh.extra_rows THEN <<[kind |-> "extra", r |-> r, total |-> xt]>> ELSE << >>)

\* The bytes the entries point at.
EntryBytes(es) == FlattenSeq([i \in DOMAIN es |-> TLS!Bytes(es[i])])

-----------------------------------------------------------------------------

Init ==
  /\ io = << >>
  /\ total_len = 0
  /\ buf_to_free = << >>
  /\ freed = [b \in OwnedBufs |-> 0]
  /\ xio = [c \in Conns |-> [r \in 1..MaxReq |-> EmptyIov]]
  /\ chan = [c \in Conns |-> << >>]
  /\ sock = [c \in Conns |-> << >>]
  /\ expected = [c \in Conns |-> << >>]
  /\ nreq = [c \in Conns |-> 0]

\* Mutant: the iov is emptied before the headers are added.
PrepareResetIov(c, sh) ==
  LET r == nreq[c] + 1
      es == Entries(c, r, sh)
      xs == ExtraEntries(c, r, sh) IN
  /\ nreq[c] < MaxReq
  /\ io' = es
  /\ total_len' = Len(EntryBytes(es))
  /\ buf_to_free' = Marked(c, r, sh)
  /\ xio' = [xio EXCEPT ![c][r] = [io |-> xs, total_len |-> Len(EntryBytes(xs))]]
  /\ chan' = [chan EXCEPT ![c] = @ \o Streams(r, sh, total_len', Len(EntryBytes(xs)))]
  /\ expected' = [expected EXCEPT ![c] = @ \o EntryBytes(es) \o EntryBytes(xs)]
  /\ nreq' = [nreq EXCEPT ![c] = r]
  /\ UNCHANGED <<freed, sock>>

(* mk_header_prepare for the next request of connection c: the entries    *)
(* are mk_iov_add()ed to the thread-local iov whatever it still holds,     *)
(* and mk_stream_set queues a stream of that iov on c's channel, followed  *)
(* by one of _extra_rows when a plugin added rows.                         *)
Prepare(c, sh) ==
  LET r == nreq[c] + 1
      es == Entries(c, r, sh)
      xs == ExtraEntries(c, r, sh) IN
  /\ nreq[c] < MaxReq
  /\ io' = io \o es
  /\ total_len' = total_len + Len(EntryBytes(es))
  /\ buf_to_free' = buf_to_free \o Marked(c, r, sh)
  /\ xio' = [xio EXCEPT ![c][r] = [io |-> xs, total_len |-> Len(EntryBytes(xs))]]
  /\ chan' = [chan EXCEPT ![c] = @ \o Streams(r, sh, total_len', Len(EntryBytes(xs)))]
  /\ expected' = [expected EXCEPT ![c] = @ \o EntryBytes(es) \o EntryBytes(xs)]
  /\ nreq' = [nreq EXCEPT ![c] = r]
  /\ UNCHANGED <<freed, sock>>

\* The iov the stream s of c writes from.
StreamIov(s, c) ==
  IF s.kind = "hdr" THEN [io |-> io, total_len |-> total_len] ELSE xio[c][s.r]

\* The bytes c's first stream still has to send.
FrontPending(c) ==
  IF chan[c] = << >> THEN << >> ELSE I(StreamIov(Head(chan[c]), c))!Pending

(* The channel write of c's first stream when c is writable: mk_iov_send   *)
(* of the stream's iov takes n > 0 bytes (a write taking none changes      *)
(* nothing), mk_iov_consume advances the iov and the stream's bytes_total  *)
(* goes down by n.  Once bytes_total is not positive, the stream's         *)
(* finished callback runs mk_iov_free_marked on its iov                    *)
(* (mk_header_cb_finished for the header stream,                           *)
(* cb_stream_iov_extended_free for _extra_rows) and the stream leaves the  *)
(* channel.  A stream whose iov is empty has nothing to write.             *)
Flush(c, n) ==
  LET s == Head(chan[c])
      v == StreamIov(s, c)
      left == s.total - n
  IN
  /\ chan[c] # << >>
  /\ n \in 1..Len(FrontPending(c))
  /\ sock' = [sock EXCEPT ![c] = @ \o SubSeq(FrontPending(c), 1, n)]
  /\ chan' = IF left <= 0 THEN [chan EXCEPT ![c] = Tail(@)]
             ELSE [chan EXCEPT ![c][1].total = left]
  /\ IF s.kind = "hdr"
     THEN /\ IF left <= 0
             THEN TLS!FreeMarked
             ELSE /\ io' = I(v)!Consume(n).io
                  /\ total_len' = I(v)!Consume(n).total_len
                  /\ UNCHANGED <<buf_to_free, freed>>
          /\ UNCHANGED xio
     ELSE /\ xio' = [xio EXCEPT ![c][s.r] = IF left <= 0 THEN EmptyIov ELSE I(v)!Consume(n)]
          /\ UNCHANGED <<io, total_len, buf_to_free, freed>>
  /\ UNCHANGED <<expected, nreq>>

Next ==
  \/ \E c \in Conns, sh \in Profiles : Prepare(c, sh)
  \/ \E c \in Conns : \E n \in 1..Len(FrontPending(c)) : Flush(c, n)

Spec == Init /\ [][Next]_vars

-----------------------------------------------------------------------------

TypeOK ==
  /\ io \in Seq([buf : Conns \X (1..MaxReq) \X STRING, base : Nat, len : Nat])
  /\ total_len \in Nat
  /\ buf_to_free \in Seq(OwnedBufs)
  /\ xio \in [Conns -> [1..MaxReq -> [io : Seq([buf : Conns \X (1..MaxReq) \X STRING,
                                                base : Nat, len : Nat]),
                                        total_len : Nat]]]
  /\ chan \in [Conns -> Seq([kind : {"hdr", "extra"}, r : 1..MaxReq, total : Int])]
  /\ nreq \in [Conns -> 0..MaxReq]

(* Spec 4.3: what each connection's socket receives is a prefix of the     *)
(* headers prepared for it, in order: no byte of another response, none    *)
(* twice, none skipped.  About mk_header_prepare's thread-local iov, the   *)
(* partial writes of mk_iov_send/mk_iov_consume and mk_header_cb_finished. *)
HeadersIntact == \A c \in Conns : IsPrefix(sock[c], expected[c])

\* The bytes of c's request r still in an iov that a stream of c writes.
Owed(c) ==
  LET Of(s) == IF s.kind = "hdr"
               THEN SelectSeq(TLS!Pending, LAMBDA b : b[1][1] = c /\ b[1][2] = s.r)
               ELSE I(xio[c][s.r])!Pending
  IN  FlattenSeq([i \in DOMAIN chan[c] |-> Of(chan[c][i])])

(* Spec 4.3 and 8 (repeated flushes consume exactly the queued length):   *)
(* every header byte prepared for a connection is either on its socket,    *)
(* in order, or still queued in one of its streams, in order: none goes to *)
(* another connection, none is dropped.  About the thread-local iov of     *)
(* mk_header_prepare, the per-stream bytes_total of mk_stream_set, and     *)
(* mk_header_cb_finished emptying that iov when its stream completes.      *)
HeadersConserved == \A c \in Conns : sock[c] \o Owed(c) = expected[c]

=============================================================================
