------------------------------ MODULE EventFds ------------------------------
(***************************************************************************)
(* The file descriptors of the RTEMS event backend's setup code            *)
(* (mk_event_rtems.c): _mk_event_loop_create opens the kqueue,             *)
(* _mk_event_channel_create opens the worker's wake channel with           *)
(* socketpair_monkey (a TCP listener, a connect and an accept over         *)
(* loopback, since RTEMS has no socketpair()), and _mk_event_loop_destroy  *)
(* closes the kqueue.  Every worker thread runs this setup for its own     *)
(* loop, so the threads allocate and close descriptors of one process-wide *)
(* table concurrently.                                                     *)
(*                                                                         *)
(* Each socket(), accept(), kqueue() and close() is a step of its own,     *)
(* because the number a call gets depends on what the other threads closed *)
(* before it.  RTEMS libio hands out descriptors from a free list, so a    *)
(* new descriptor is any free number; a call that finds none fails.        *)
(* setsockopt() and the fcntl() blocking switches change no descriptor and *)
(* their results are not checked, so they are left out.                    *)
(***************************************************************************)
EXTENDS Integers, FiniteSets

CONSTANTS
  Threads,         \* the worker threads setting up their event loops
  Fds,             \* the descriptor numbers of the process
  SyscallsMayFail  \* whether calls and malloc() may fail with a free number

ASSUME /\ Fds \subseteq Nat
       /\ SyscallsMayFail \in BOOLEAN

\* The value a descriptor variable holds when nothing is open in it.
NoFd == -1

Fail == IF SyscallsMayFail THEN BOOLEAN ELSE {FALSE}

VARIABLES
  open,         \* the descriptors open in the process
  pc,           \* where each thread is in its setup
  kfd,          \* ctx->kfd of the thread's loop, NoFd without a loop
  listener,     \* socketpair_monkey's locals listener, fd[0] and fd[1]
  fd0,
  fd1,
  rfd,          \* *r_fd and *w_fd once _mk_event_channel_create returned 0
  wfd,
  own           \* the descriptors each thread opened and has not closed

vars == <<open, pc, kfd, listener, fd0, fd1, rfd, wfd, own>>

-----------------------------------------------------------------------------
\* A descriptor-creating call cannot succeed: no number is free, or it fails.
CallFails == open = Fds \/ TRUE \in Fail

\* Thread t's call returned the free number x.
Opened(t, x) ==
  /\ open' = open \cup {x}
  /\ own' = [own EXCEPT ![t] = @ \cup {x}]

\* Thread t calls close() on each descriptor of S; one that is not open is
\* left alone (EBADF).
Closed(t, S) ==
  /\ open' = open \ S
  /\ own' = [own EXCEPT ![t] = @ \ S]

\* The descriptors named by the variables of sq that hold one.
Named(sq) == {sq[i] : i \in DOMAIN sq} \ {NoFd}

Goto(t, l) == pc' = [pc EXCEPT ![t] = l]

Set(f, t, v) == [f EXCEPT ![t] = v]

-----------------------------------------------------------------------------
Init ==
  /\ open = {}
  /\ pc = [t \in Threads |-> "loop_create"]
  /\ kfd = [t \in Threads |-> NoFd]
  /\ listener = [t \in Threads |-> NoFd]
  /\ fd0 = [t \in Threads |-> NoFd]
  /\ fd1 = [t \in Threads |-> NoFd]
  /\ rfd = [t \in Threads |-> NoFd]
  /\ wfd = [t \in Threads |-> NoFd]
  /\ own = [t \in Threads |-> {}]

\* Mutant: the events array allocation fails and kfd is not closed.
LoopCreateNoClose(t) ==
  /\ pc[t] = "loop_create"
  /\ \/ /\ TRUE \in Fail
        /\ Goto(t, "failed")
        /\ UNCHANGED <<open, own, kfd>>
     \/ /\ CallFails
        /\ Goto(t, "failed")
        /\ UNCHANGED <<open, own, kfd>>
     \/ \E x \in Fds \ open, eventsNoMem \in Fail :
          /\ Opened(t, x)
          /\ kfd' = Set(kfd, t, IF eventsNoMem THEN NoFd ELSE x)
          /\ Goto(t, IF eventsNoMem THEN "failed" ELSE "sp_listener")
  /\ UNCHANGED <<listener, fd0, fd1, rfd, wfd>>

(* _mk_event_loop_create: malloc of the context fails (return NULL), or    *)
(* kqueue() fails (free, return NULL), or it opens kfd and the malloc of   *)
(* the events array fails (close kfd, free, return NULL).  On success the  *)
(* worker goes on to create its wake channel.                              *)
LoopCreate(t) ==
  /\ pc[t] = "loop_create"
  /\ \/ /\ TRUE \in Fail
        /\ Goto(t, "failed")
        /\ UNCHANGED <<open, own, kfd>>
     \/ /\ CallFails
        /\ Goto(t, "failed")
        /\ UNCHANGED <<open, own, kfd>>
     \/ \E x \in Fds \ open, eventsNoMem \in Fail :
          IF eventsNoMem
          THEN /\ UNCHANGED <<open, own, kfd>>  \* x opened, then closed
               /\ Goto(t, "failed")
          ELSE /\ Opened(t, x)
               /\ kfd' = Set(kfd, t, x)
               /\ Goto(t, "sp_listener")
  /\ UNCHANGED <<listener, fd0, fd1, rfd, wfd>>

(* socketpair_monkey: fd[0] = fd[1] = listener = -1, then                  *)
(* listener = socket(PF_INET, SOCK_STREAM, 0).                             *)
SpListener(t) ==
  /\ pc[t] = "sp_listener"
  /\ \/ /\ CallFails
        /\ UNCHANGED <<open, own, listener>>
        /\ Goto(t, "sp_failed")
     \/ \E x \in Fds \ open :
          /\ Opened(t, x)
          /\ listener' = Set(listener, t, x)
          /\ Goto(t, "sp_listen")
  /\ fd0' = Set(fd0, t, NoFd)
  /\ fd1' = Set(fd1, t, NoFd)
  /\ UNCHANGED <<kfd, rfd, wfd>>

\* listen(listener, 1) and getsockname(); either may fail.
SpListen(t) ==
  /\ pc[t] = "sp_listen"
  /\ \E fails \in Fail : Goto(t, IF fails THEN "sp_failed" ELSE "sp_socket")
  /\ UNCHANGED <<open, own, kfd, listener, fd0, fd1, rfd, wfd>>

\* fd[1] = socket(PF_INET, SOCK_STREAM, 0).
SpSocket(t) ==
  /\ pc[t] = "sp_socket"
  /\ \/ /\ CallFails
        /\ UNCHANGED <<open, own, fd1>>
        /\ Goto(t, "sp_failed")
     \/ \E x \in Fds \ open :
          /\ Opened(t, x)
          /\ fd1' = Set(fd1, t, x)
          /\ Goto(t, "sp_connect")
  /\ UNCHANGED <<kfd, listener, fd0, rfd, wfd>>

(* connect(fd[1], ...) on a socket that is still blocking (set_nonblocking *)
(* comes after it): it connects, and connect_done = 1, or it fails.  A     *)
(* blocking connect does not report EINPROGRESS, so connect_done is always *)
(* 1 after it.                                                              *)
SpConnect(t) ==
  /\ pc[t] = "sp_connect"
  /\ \E fails \in Fail : Goto(t, IF fails THEN "sp_failed" ELSE "sp_accept")
  /\ UNCHANGED <<open, own, kfd, listener, fd0, fd1, rfd, wfd>>

\* fd[0] = accept(listener, ...).
SpAccept(t) ==
  /\ pc[t] = "sp_accept"
  /\ \/ /\ CallFails
        /\ UNCHANGED <<open, own, fd0>>
        /\ Goto(t, "sp_failed")
     \/ \E x \in Fds \ open :
          /\ Opened(t, x)
          /\ fd0' = Set(fd0, t, x)
          /\ Goto(t, "sp_close")
  /\ UNCHANGED <<kfd, listener, fd1, rfd, wfd>>

(* close(listener), then set_blocking(fd[1]) and return 0.  The second    *)
(* connect (connect_done == 0) is never taken, as SpConnect says; it is   *)
(* the only failure after close(listener), whose number the failed: path  *)
(* would close again.                                                      *)
SpCloseListener(t) ==
  /\ pc[t] = "sp_close"
  /\ Closed(t, {listener[t]})
  /\ Goto(t, "ch_add")
  /\ UNCHANGED <<kfd, listener, fd0, fd1, rfd, wfd>>

(* failed: close fd[0], fd[1] and listener when they are not -1; then     *)
(* socketpair_monkey returns -1 and _mk_event_channel_create returns it.  *)
SpFailed(t) ==
  /\ pc[t] = "sp_failed"
  /\ Closed(t, Named(<<fd0[t], fd1[t], listener[t]>>))
  /\ Goto(t, "failed")
  /\ UNCHANGED <<kfd, listener, fd0, fd1, rfd, wfd>>

\* Mutant: the failing add closes every local of socketpair_monkey,
\* the listener it already closed included.
ChAddCloseAll(t) ==
  /\ pc[t] = "ch_add"
  /\ \E fails \in Fail :
       IF fails
       THEN /\ Closed(t, Named(<<fd0[t], fd1[t], listener[t]>>))
            /\ Goto(t, "failed")
            /\ UNCHANGED <<rfd, wfd>>
       ELSE /\ rfd' = Set(rfd, t, fd0[t])
            /\ wfd' = Set(wfd, t, fd1[t])
            /\ Goto(t, "running")
            /\ UNCHANGED <<open, own>>
  /\ UNCHANGED <<kfd, listener, fd0, fd1>>

(* _mk_event_channel_create, after socketpair_monkey returned 0:           *)
(* _mk_event_add(ctx, fd[0], MK_EVENT_NOTIFICATION, MK_EVENT_READ, event);  *)
(* when it fails, close(fd[0]) and close(fd[1]) and return; otherwise      *)
(* *r_fd = fd[0] and *w_fd = fd[1].                                        *)
ChAdd(t) ==
  /\ pc[t] = "ch_add"
  /\ \E fails \in Fail :
       IF fails
       THEN /\ Closed(t, {fd0[t], fd1[t]})
            /\ Goto(t, "failed")
            /\ UNCHANGED <<rfd, wfd>>
       ELSE /\ rfd' = Set(rfd, t, fd0[t])
            /\ wfd' = Set(wfd, t, fd1[t])
            /\ Goto(t, "running")
            /\ UNCHANGED <<open, own>>
  /\ UNCHANGED <<kfd, listener, fd0, fd1>>

\* _mk_event_loop_destroy: close(ctx->kfd) and free the context.
LoopDestroy(t) ==
  /\ pc[t] = "running"
  /\ Closed(t, {kfd[t]})
  /\ kfd' = Set(kfd, t, NoFd)
  /\ Goto(t, "destroyed")
  /\ UNCHANGED <<listener, fd0, fd1, rfd, wfd>>

Next ==
  \E t \in Threads :
    \/ LoopCreate(t)
    \/ SpListener(t)
    \/ SpListen(t)
    \/ SpSocket(t)
    \/ SpConnect(t)
    \/ SpAccept(t)
    \/ SpCloseListener(t)
    \/ SpFailed(t)
    \/ ChAdd(t)
    \/ LoopDestroy(t)

Spec == Init /\ [][Next]_vars

-----------------------------------------------------------------------------
\* The descriptors a thread keeps once its setup has returned: its loop's
\* kfd, and the channel's two ends that _mk_event_channel_create returns.
Kept(t) == Named(<<kfd[t], rfd[t], wfd[t]>>)

(* Every error path of _mk_event_loop_create, socketpair_monkey and       *)
(* _mk_event_channel_create closes what the call opened: once a thread's  *)
(* setup has returned, successfully or not, the descriptors it opened and *)
(* still holds are exactly the ones it keeps (kfd, r_fd, w_fd).           *)
NoLeak ==
  \A t \in Threads :
    pc[t] \in {"failed", "running", "destroyed"} => own[t] = Kept(t)

(* No worker closes a descriptor another worker opened: every descriptor  *)
(* a thread opened and has not closed itself is still open.  socketpair_  *)
(* monkey keeps the closed listener number in a local, and its failed:    *)
(* path closes every local that is not -1; the numbers are shared by all  *)
(* threads, so a close of a stale number closes another worker's socket   *)
(* or kqueue.                                                              *)
OwnedOpen == \A t \in Threads : own[t] \subseteq open

=============================================================================
