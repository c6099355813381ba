---------------------------- MODULE EventBackend ----------------------------
(***************************************************************************)
(* The kqueue readiness backend of one event loop (mk_event_rtems.c).      *)
(*                                                                         *)
(* Every struct mk_event records an interest mask (event->mask); kqueue    *)
(* holds a set of knotes (filters) for the event's ident.  The operations  *)
(* _mk_event_add, _mk_event_del, _mk_event_timeout_create and              *)
(* _mk_event_channel_create decide which kevent() change calls to issue by *)
(* testing the recorded mask, and update the mask afterwards; the two must *)
(* stay in step, or readiness is lost or kevent() fails with ENOENT.       *)
(* _mk_event_wait returns the level-triggered readiness of the knotes.     *)
(*                                                                         *)
(* Data is abstracted away: an fd is the event itself, a kevent change is  *)
(* a record [f, op], and readiness is a set of filters per event.          *)
(***************************************************************************)
EXTENDS Integers, Sequences, Bitwise

CONSTANTS
  ConnEvents,      \* mk_event structs registered with mk_event_add
  TimerEvents,     \* mk_event structs given to mk_event_timeout_create
  ChannelEvents,   \* mk_event structs given to mk_event_channel_create
  DelEvents,       \* the events whose owner calls mk_event_del on them
  Masks,           \* the interest masks callers pass to mk_event_add
  SyscallsMayFail  \* whether kevent(), open() and socketpair() may fail

Events == ConnEvents \cup TimerEvents \cup ChannelEvents

ASSUME /\ ConnEvents \cap (TimerEvents \cup ChannelEvents) = {}
       /\ TimerEvents \cap ChannelEvents = {}
       /\ DelEvents \subseteq Events
       /\ SyscallsMayFail \in BOOLEAN

\* mk_event.h: the interest bits.
MK_EVENT_EMPTY == 0
MK_EVENT_READ  == 1
MK_EVENT_WRITE == 4
MK_EVENT_SLEEP == 8

Filters == {"EVFILT_READ", "EVFILT_WRITE", "EVFILT_TIMER"}

\* The two directions _mk_event_add and _mk_event_del handle, in code order.
Directions == << [f |-> "EVFILT_READ",  bit |-> MK_EVENT_READ],
                 [f |-> "EVFILT_WRITE", bit |-> MK_EVENT_WRITE] >>

\* The result of a call that issues no kevent() change.
NoCall == [op |-> "none", ev |-> "none", sent |-> << >>, ret |-> 0]

VARIABLES
  mask,      \* event->mask of every event
  filters,   \* the knotes kqueue holds for the event's ident
  made,      \* the timer and channel events already created
  ready,     \* readiness of the event's fd, driven by the peer
  reported,  \* the (event, filter) pairs the last kevent() wait returned
  last       \* the last backend call: its event, the changes sent, its result

vars == <<mask, filters, made, ready, reported, last>>

-----------------------------------------------------------------------------
(* kevent() applied to one change: EV_ADD of a present filter modifies it,  *)
(* EV_DELETE of an absent one fails with ENOENT.                           *)

Rejected(fs, c) == c.op = "EV_DELETE" /\ c.f \notin fs

Apply(fs, c) == IF c.op = "EV_ADD" THEN fs \cup {c.f} ELSE fs \ {c.f}

\* Whether a syscall fails for a resource reason (ENOMEM, EMFILE).
Fail == IF SyscallsMayFail THEN BOOLEAN ELSE {FALSE}

FailureChoices(n) == [1..n -> Fail]

(* The backend issues its changes one kevent() call at a time and returns *)
(* at the first failure, keeping what the earlier calls did.  fl says     *)
(* which calls fail for a resource reason.                                *)
RECURSIVE Issue(_, _, _)
Issue(fs, cs, fl) ==
  IF cs = << >>
  THEN [fs |-> fs, ret |-> 0, sent |-> << >>]
  ELSE IF Rejected(fs, Head(cs)) \/ Head(fl)
       THEN [fs |-> fs, ret |-> -1, sent |-> <<Head(cs)>>]
       ELSE LET r == Issue(Apply(fs, Head(cs)), Tail(cs), Tail(fl))
            IN  [r EXCEPT !.sent = <<Head(cs)>> \o @]

-----------------------------------------------------------------------------
(* _mk_event_add: the change for one direction.  The C tests read          *)
(* (event->mask ^ BIT) where (event->mask & BIT) == 0 was meant, and       *)
(* (events ^ BIT) where (events & BIT) == 0 was meant; they are translated  *)
(* as written.                                                             *)

\* Mutant: the EV_ADD branch only for an event with no registration yet.
ChangeAddOnlyWhenEmpty(m, events, bit) ==
  IF m = MK_EVENT_EMPTY /\ (events & bit) # 0 THEN "EV_ADD"
  ELSE IF (m & bit) # 0 /\ (events ^^ bit) # 0 THEN "EV_DELETE"
  ELSE "NONE"

\* Mutant: EV_ADD whenever the new mask has the bit, without the mask test.
ChangeNoMaskTest(m, events, bit) ==
  IF (events & bit) # 0 THEN "EV_ADD"
  ELSE IF (m & bit) # 0 /\ (events ^^ bit) # 0 THEN "EV_DELETE"
  ELSE "NONE"

\* Mutant: the EV_DELETE branch dropped.
ChangeNoDelete(m, events, bit) ==
  IF (m ^^ bit) # 0 /\ (events & bit) # 0 THEN "EV_ADD" ELSE "NONE"

Change(m, events, bit) ==
  IF (m ^^ bit) # 0 /\ (events & bit) # 0 THEN "EV_ADD"
  ELSE IF (m & bit) # 0 /\ (events ^^ bit) # 0 THEN "EV_DELETE"
  ELSE "NONE"

AddChanges(m, events) ==
  SelectSeq([i \in 1..2 |-> [f  |-> Directions[i].f,
                             op |-> Change(m, events, Directions[i].bit)]],
            LAMBDA c : c.op # "NONE")

\* Mutant: only the EVFILT_READ knote is deleted.
DelChangesReadOnly(m) ==
  IF (m & MK_EVENT_READ) # 0
  THEN << [f |-> "EVFILT_READ", op |-> "EV_DELETE"] >>
  ELSE << >>

\* _mk_event_del: one EV_DELETE per direction bit set in the mask.
DelChanges(m) ==
  SelectSeq([i \in 1..2 |-> [f |-> Directions[i].f, op |-> "EV_DELETE",
                             on |-> (m & Directions[i].bit) # 0]],
            LAMBDA c : c.on)

\* mk_event_del (mk_event.c, not in this tree): a successful delete resets
\* the event, so the next mk_event_add starts from MK_EVENT_EMPTY.
DelWrapperMask(m, ret) == IF ret = 0 THEN MK_EVENT_EMPTY ELSE m

-----------------------------------------------------------------------------

Init ==
  /\ mask     = [e \in Events |-> MK_EVENT_EMPTY]
  /\ filters  = [e \in Events |-> {}]
  /\ made     = {}
  /\ ready    = [e \in Events |-> {}]
  /\ reported = {}
  /\ last     = NoCall

\* Mutant: the mask is or-ed into event->mask instead of assigned.
AddOr(e, m) ==
  /\ e \in ConnEvents
  /\ \E fl \in FailureChoices(2) :
       LET r == Issue(filters[e], AddChanges(mask[e], m), fl)
       IN  /\ filters' = [filters EXCEPT ![e] = r.fs]
           /\ mask' = [mask EXCEPT ![e] = IF r.ret = 0 THEN @ | m ELSE @]
           /\ last' = [op |-> "add", ev |-> e, sent |-> r.sent, ret |-> r.ret]
  /\ reported' = {}
  /\ UNCHANGED <<made, ready>>

\* mk_event_add(loop, fd, type, m, event) on a connection's event.
Add(e, m) ==
  /\ e \in ConnEvents
  /\ \E fl \in FailureChoices(2) :
       LET r == Issue(filters[e], AddChanges(mask[e], m), fl)
       IN  /\ filters' = [filters EXCEPT ![e] = r.fs]
           /\ mask' = [mask EXCEPT ![e] = IF r.ret = 0 THEN m ELSE @]
           /\ last' = [op |-> "add", ev |-> e, sent |-> r.sent, ret |-> r.ret]
  /\ reported' = {}
  /\ UNCHANGED <<made, ready>>

\* mk_event_del(loop, event).
Del(e) ==
  /\ e \in DelEvents
  /\ \E fl \in FailureChoices(2) :
       LET r == Issue(filters[e], DelChanges(mask[e]), fl)
       IN  /\ filters' = [filters EXCEPT ![e] = r.fs]
           /\ mask' = [mask EXCEPT ![e] = DelWrapperMask(@, r.ret)]
           /\ last' = [op |-> "del", ev |-> e, sent |-> r.sent, ret |-> r.ret]
  /\ reported' = {}
  /\ UNCHANGED <<made, ready>>

(* mk_event_timeout_create: open("/dev/null") for an ident, then one       *)
(* EV_ADD of EVFILT_TIMER; the event records MK_EVENT_READ on success.      *)
TimeoutCreate(e) ==
  /\ e \in TimerEvents \ made
  /\ \E openFails \in Fail, fl \in FailureChoices(1) :
       LET r == IF openFails
                THEN [fs |-> filters[e], ret |-> -1, sent |-> << >>]
                ELSE Issue(filters[e],
                           << [f |-> "EVFILT_TIMER", op |-> "EV_ADD"] >>, fl)
       IN  /\ filters' = [filters EXCEPT ![e] = r.fs]
           /\ mask' = [mask EXCEPT ![e] = IF r.ret = 0 THEN MK_EVENT_READ
                                          ELSE MK_EVENT_EMPTY]
           /\ made' = IF r.ret = 0 THEN made \cup {e} ELSE made
           /\ last' = [op |-> "timeout_create", ev |-> e, sent |-> r.sent,
                       ret |-> r.ret]
  /\ reported' = {}
  /\ UNCHANGED ready

(* mk_event_channel_create: socketpair_monkey(), then _mk_event_add of the  *)
(* read end for MK_EVENT_READ on an event reset to MK_EVENT_EMPTY.         *)
ChannelCreate(e) ==
  /\ e \in ChannelEvents \ made
  /\ \E pairFails \in Fail, fl \in FailureChoices(2) :
       LET r == IF pairFails
                THEN [fs |-> filters[e], ret |-> -1, sent |-> << >>]
                ELSE Issue(filters[e],
                           AddChanges(MK_EVENT_EMPTY, MK_EVENT_READ), fl)
       IN  /\ filters' = [filters EXCEPT ![e] = r.fs]
           /\ mask' = [mask EXCEPT ![e] = IF r.ret = 0 THEN MK_EVENT_READ
                                          ELSE IF pairFails THEN @
                                          ELSE MK_EVENT_EMPTY]
           /\ made' = IF r.ret = 0 THEN made \cup {e} ELSE made
           /\ last' = [op |-> "channel_create", ev |-> e, sent |-> r.sent,
                       ret |-> r.ret]
  /\ reported' = {}
  /\ UNCHANGED ready

\* The peer makes the fd readable or writable, or the worker drains it.
SetReady(e, d) ==
  /\ e \in ConnEvents \cup ChannelEvents
  /\ ready' = [ready EXCEPT ![e] = (@ \ {d}) \cup ({d} \ @)]
  /\ reported' = {}
  /\ last' = NoCall
  /\ UNCHANGED <<mask, filters, made>>

\* What a kevent() wait would return: level-triggered knotes whose condition
\* holds, and every armed timer (it fires periodically).
Reportable ==
  { p \in Events \X Filters :
      /\ p[2] \in filters[p[1]]
      /\ p[2] = "EVFILT_TIMER" \/ p[2] \in ready[p[1]] }

(* _mk_event_wait: kevent() with no timeout blocks until something is     *)
(* reportable and returns it.                                             *)
Wait ==
  /\ Reportable # {}
  /\ reported' = Reportable
  /\ last' = NoCall
  /\ UNCHANGED <<mask, filters, made, ready>>

Next ==
  \/ \E e \in Events, m \in Masks : Add(e, m)
  \/ \E e \in Events : Del(e)
  \/ \E e \in Events : TimeoutCreate(e)
  \/ \E e \in Events : ChannelCreate(e)
  \/ \E e \in Events, d \in {"EVFILT_READ", "EVFILT_WRITE"} : SetReady(e, d)
  \/ Wait

(* The worker thread calls mk_event_wait again as soon as it has handled   *)
(* the previous batch, so a wait that can return is eventually made.       *)
Spec == Init /\ [][Next]_vars /\ WF_vars(Wait)

-----------------------------------------------------------------------------

TypeOK ==
  /\ mask \in [Events -> Masks \cup {MK_EVENT_EMPTY, MK_EVENT_READ}]
  /\ filters \in [Events -> SUBSET Filters]
  /\ made \subseteq TimerEvents \cup ChannelEvents
  /\ ready \in [Events -> SUBSET {"EVFILT_READ", "EVFILT_WRITE"}]
  /\ reported \subseteq Events \X Filters
  /\ last.op \in {"none", "add", "del", "timeout_create", "channel_create"}
  /\ last.ret \in {0, -1}

\* The knotes kqueue should hold for an event given its recorded mask: a
\* timer's EVFILT_TIMER, or one filter per direction bit of the mask.
Expected(e) ==
  IF e \in TimerEvents
  THEN IF mask[e] = MK_EVENT_EMPTY THEN {} ELSE {"EVFILT_TIMER"}
  ELSE { Directions[i].f : i \in {i \in 1..2 : (mask[e] & Directions[i].bit) # 0} }

(* Through any sequence of mk_event_add / mk_event_del / create calls, the  *)
(* mask _mk_event_add tests to decide its kevent() calls is exactly what    *)
(* kqueue holds for the event.                                             *)
KernelMatchesMask == \A e \in Events : filters[e] = Expected(e)

(* Every kevent() change _mk_event_add, _mk_event_del or a create call      *)
(* issues changes the kernel's registration: no EV_ADD of a knote already  *)
(* present, no EV_DELETE of one that is absent (spec 8, first property).   *)
NoRedundantKevent ==
  [][\A i \in DOMAIN last'.sent :
        (last'.sent[i].op = "EV_ADD") = (last'.sent[i].f \notin filters[last'.ev])]_vars

(* mk_event_del leaves no knote of the event in kqueue, whatever kind of    *)
(* event it is, so no stale udata pointer can be reported afterwards.       *)
DelUnregisters == [][last'.op = "del" => filters'[last'.ev] = {}]_vars

(* Level-triggered contract of the backend: a direction the event's mask    *)
(* asks for, whose condition holds, is eventually returned by              *)
(* _mk_event_wait unless the condition or the interest goes away first.    *)
Wanted(e, d) ==
  /\ \E i \in 1..2 : Directions[i].f = d /\ (mask[e] & Directions[i].bit) # 0
  /\ d \in ready[e]

NoLostReadiness ==
  \A e \in ConnEvents \cup ChannelEvents, d \in {"EVFILT_READ", "EVFILT_WRITE"} :
    Wanted(e, d) ~> (<<e, d>> \in reported \/ ~Wanted(e, d))

=============================================================================
