------------------------------ MODULE Connection ------------------------------
(***************************************************************************)
(* One TCP connection of the POSIX backend (src/src/posix_connection.cc)  *)
(* on the epoll poller of its reactor (src/src/epoll.cc, pollfd.cc), with *)
(* the kernel socket under each descriptor it attaches and the callbacks  *)
(* of the echo client (apps/echo_client/client.cc) as its application.    *)
(*                                                                         *)
(* A connection attaches one pollable_fd per connect or reconnect; each   *)
(* owns a poll_state (events_requested, events_epoll, pollin, pollout)    *)
(* and a socket.  Attachments are numbered 1, 2, ... in the order they    *)
(* happen; Null stands for pfd_ == nullptr.                               *)
(*   st, pfd, output, input   state_, pfd_, output_, input_ of the object *)
(*   ps[p]       poll_state of attachment p: live is false once freed,    *)
(*               requested = events_requested, epoll = events_epoll,      *)
(*               which is also what the kernel's epoll set holds          *)
(*   sock[p]     the kernel socket of attachment p: k its TCP state, rx   *)
(*               whether unread data is queued; wire (the bytes written   *)
(*               to it) and sent (the bytes the application asked to      *)
(*               send on it) are history                                  *)
(*   delivered   history: every message handed to on_message, with the    *)
(*               attachment it was handed on                              *)
(*   fault       undefined behaviour met: "uaf" a freed poll_state used,  *)
(*               "null" pfd_ dereferenced while null, "assert" the        *)
(*               assertion of attach                                      *)
(*   disp        the event epoll_backend::poll is dispatching, or None    *)
(*   stack       the network stack of the reactor: "kernel" runs the      *)
(*               code above, "mtcp" mtcp_connection.cc on the mTCP epoll  *)
(*               of mepoll.cc, whose sockets are modelled like the        *)
(*               kernel's                                                 *)
(* Bytes are abstract: message m of the application is <<m,1>>, <<m,2>>; *)
(* a received chunk is the number of the attachment it arrived on.       *)
(***************************************************************************)
EXTENDS Naturals, Sequences, SequencesExt, FiniteSets

CONSTANTS MaxAttach, MaxSends, MaxOutput, MaxData, Stacks, NDEBUG, Apps,
          NInteract

ASSUME MaxAttach \in Nat \ {0} /\ MaxSends \in Nat /\ MaxOutput \in Nat
ASSUME MaxData \in Nat
\* The network stacks a reactor may be configured with (network-stack), and
\* whether the build defines NDEBUG, which turns assert() off.
ASSUME Stacks \subseteq {"kernel", "mtcp"} /\ Stacks # {} /\ NDEBUG \in BOOLEAN
\* The client classes whose callbacks the connection may carry, and the
\* wan loader's interactions per connection (nr_interact_t_).
ASSUME Apps \subseteq {"echo", "http", "wan", "mcc", "worker"} /\ Apps # {}
ASSUME NInteract \in Nat \ {0}

EPOLLIN  == "EPOLLIN"
EPOLLOUT == "EPOLLOUT"
Null == 0
None == [p |-> Null]

Ids == 1 .. MaxAttach
States == {"invalid", "connecting", "failed", "connected", "disconnect", "closed"}
SockStates == {"connecting", "established", "refused", "eof", "reset", "closed"}

VARIABLES st, pfd, output, input, ps, sock, next, nsent, delivered, fault,
          disp, exited, stack, app, client

world == <<st, pfd, output, input, ps, sock, next, nsent, delivered, fault,
           stack, app, client>>
vars  == <<world, disp, exited>>

\* The state handlers read and write, as one record.
World == [st |-> st, pfd |-> pfd, output |-> output, input |-> input,
          ps |-> ps, sock |-> sock, next |-> next, nsent |-> nsent,
          delivered |-> delivered, fault |-> fault, client |-> client]

Become(w) ==
  /\ st' = w.st /\ pfd' = w.pfd /\ output' = w.output /\ input' = w.input
  /\ ps' = w.ps /\ sock' = w.sock /\ next' = w.next /\ nsent' = w.nsent
  /\ delivered' = w.delivered /\ fault' = w.fault /\ client' = w.client
  /\ stack' = stack /\ app' = app

Fail(w, f) == [w EXCEPT !.fault = @ \cup {f}]

\* Runs Op on every outcome of S that has not crashed.
Then(S, Op(_)) == UNION {IF x.fault = {} THEN Op(x) ELSE {x} : x \in S}

(***************************************************************************)
(* pollable_fd::update_state / epoll_backend::update: the event is added  *)
(* to events_requested, and to events_epoll and the kernel's set by       *)
(* epoll_ctl ADD or MOD when it is not there yet.                          *)
(***************************************************************************)
Update(w, p, e) ==
  [w EXCEPT !.ps[p].requested = @ \cup {e}, !.ps[p].epoll = @ \cup {e}]

FreshSock == [k |-> "connecting", rx |-> FALSE, data |-> 0,
              wire |-> <<>>, sent |-> <<>>]

(***************************************************************************)
(* The pollable_fd an attach makes: state_ = connecting, a new poll_state *)
(* with nothing requested and the socket.  A pfd_ still set is replaced:  *)
(* the old pollable_fd and its poll_state are destroyed, its socket and   *)
(* its epoll registration stay.  input_ and output_ are left as they were.*)
(***************************************************************************)
NewPollable(w) ==
  LET p == w.next
      old == IF w.pfd = Null THEN w ELSE [w EXCEPT !.ps[w.pfd].live = FALSE]
  IN  [old EXCEPT !.st = "connecting", !.pfd = p, !.next = p + 1,
                  !.ps[p] = [live |-> TRUE, requested |-> {}, epoll |-> {}],
                  !.sock[p] = FreshSock]

\* attach_to_loop registering only EPOLLIN (mutant).
AttachToLoopReadOnly(w) == Update(w, w.pfd, EPOLLIN)

\* pollable_fd::attach_to_loop: engine().update(EPOLLIN | EPOLLOUT).
AttachToLoop(w) == Update(Update(w, w.pfd, EPOLLIN), w.pfd, EPOLLOUT)

\* posix_connection::attach: assert(pfd_ == nullptr) before the new
\* pollable_fd, whose callbacks are handle_write and handle_read.
PosixAttach(w) ==
  IF ~NDEBUG /\ w.pfd # Null THEN {Fail(w, "assert")}
  ELSE {AttachToLoop(NewPollable(w))}

\* mtcp_connection::attach: assert(pfd_ == nullptr) just after pfd_ was
\* set, which fails whenever assert() is on.
MtcpAttach(w) ==
  IF ~NDEBUG THEN {Fail(NewPollable(w), "assert")}
  ELSE {AttachToLoop(NewPollable(w))}

\* The connector's connect and reconnect attach the connection of the
\* reactor's stack to a new non-blocking socket.
Attach(w) == IF stack = "kernel" THEN PosixAttach(w) ELSE MtcpAttach(w)

(***************************************************************************)
(* pfd_->detach_from_loop() (forget: EPOLL_CTL_DEL), pfd_->close_fd(),    *)
(* pfd_ = nullptr, which destroys the pollable_fd and its poll_state.     *)
(***************************************************************************)
\* Detaching without closing the socket (mutant).
DetachKeepFd(w) ==
  IF w.pfd = Null THEN Fail(w, "null")
  ELSE [w EXCEPT !.ps[w.pfd] = [@ EXCEPT !.live = FALSE, !.epoll = {}],
                 !.pfd = Null]

\* Detaching that frees the poll_state but leaves pfd_ pointing at it
\* (mutant).
DetachKeepPointer(w) ==
  IF w.pfd = Null THEN Fail(w, "null")
  ELSE [w EXCEPT !.ps[w.pfd] = [@ EXCEPT !.live = FALSE, !.epoll = {}],
                 !.sock[w.pfd].k = "closed"]

Detach(w) ==
  IF w.pfd = Null THEN Fail(w, "null")
  ELSE [w EXCEPT !.ps[w.pfd] = [@ EXCEPT !.live = FALSE, !.epoll = {}],
                 !.sock[w.pfd].k = "closed", !.pfd = Null]

(***************************************************************************)
(* The application: app is the client class whose connect registered the *)
(* callbacks, "echo" (echo_client/client.cc), "http" (http_loader; the    *)
(* distributed loader's http_client is the same), "wan" (wan_loader),     *)
(* "mcc" (mcc/client.cc) or "worker" (distributed_mcc/mcc_worker.cc).     *)
(* client is what the application keeps for the connection:               *)
(*   counted   the connection's share of the core's connected statistic   *)
(*   interact  wan's nr_interact_, the requests still to send             *)
(*   finished  finish() (echo, http) or the duration task (mcc, worker)   *)
(*             has run                                                     *)
(*   retry     an mcc reconnect task is armed (three seconds later)       *)
(*   listed    conns_ holds the connection                                *)
(***************************************************************************)
Counting == {"wan", "mcc", "worker"}

Count(w, d) == [w EXCEPT !.client.counted = @ + d]

\* conn->reconnect() from a callback or task: engine().reconnect, the
\* connector's reconnect, attach.  The model stops reconnecting once
\* MaxAttach attachments were made.
Reconnect(w) == IF w.next \in Ids THEN Attach(w) ELSE {w}

\* echo (and http): when_closed reconnects, until finish() replaced it by
\* one that only logs; when_disconnect reconnects.
EchoOnClosed(w) == IF w.client.finished THEN {w} ELSE Reconnect(w)
EchoOnDisconnect(w) == Reconnect(w)

\* wan: nr_connected-- in both; only when_closed reconnects.
WanOnClosed(w) == Reconnect(Count(w, -1))
WanOnDisconnect(w) == {Count(w, -1)}

\* mcc: connected-- on close; on a disconnect also retry++ and a reconnect
\* task three seconds later; on a failed connect only the task.
MccOnClosed(w) == {Count(w, -1)}
MccOnDisconnect(w) == {[Count(w, -1) EXCEPT !.client.retry = TRUE]}
MccOnFailed(w) == {[w EXCEPT !.client.retry = TRUE]}

\* worker: connected-- and retry++, and a reconnect at once, on a failed
\* connect as on a disconnect.
WorkerRetry(w) == Reconnect(Count(w, -1))

\* on_closed_(), on_disconnect_(con) and on_failed_(con): the callback the
\* client registered, if any (echo, http and wan register no when_failed).
OnClosed(w) ==
  CASE app \in {"echo", "http"} -> EchoOnClosed(w)
    [] app = "wan"              -> WanOnClosed(w)
    [] OTHER                    -> MccOnClosed(w)

OnDisconnect(w) ==
  CASE app \in {"echo", "http"} -> EchoOnDisconnect(w)
    [] app = "wan"              -> WanOnDisconnect(w)
    [] app = "mcc"              -> MccOnDisconnect(w)
    [] OTHER                    -> WorkerRetry(w)

OnFailed(w) ==
  CASE app = "mcc"    -> MccOnFailed(w)
    [] app = "worker" -> WorkerRetry(w)
    [] OTHER          -> {w}

(***************************************************************************)
(* close(): rejected (logged) when already closed or disconnect; else    *)
(* state_ = closed, detach, and on_closed_.  mtcp_connection::close does  *)
(* the same only when connected, and nothing in any other state.          *)
(***************************************************************************)
PosixClose(w) ==
  IF w.st \in {"closed", "disconnect"} THEN {w}
  ELSE Then({Detach([w EXCEPT !.st = "closed"])}, OnClosed)

MtcpClose(w) ==
  IF w.st # "connected" THEN {w}
  ELSE Then({Detach([w EXCEPT !.st = "closed"])}, OnClosed)

Close(w) == IF stack = "kernel" THEN PosixClose(w) ELSE MtcpClose(w)

\* A cleanup that does not call on_disconnect_ (mutant).
CleanupSilent(w) == {Detach(w)}

\* cleanup(con): detach and on_disconnect_; state_ is the caller's affair.
Cleanup(w) == Then({Detach(w)}, OnDisconnect)

(***************************************************************************)
(* send(data, len) writes to the socket of pfd_.  file_desc::write gives  *)
(* what the kernel took: all of it, a part (0 < n < len, only logged),    *)
(* or 0 on EAGAIN, when the whole data is appended to output_ and         *)
(* EPOLLOUT is asked for.  A write error (the socket was reset) throws:   *)
(* state_ = disconnect and cleanup.  The result is a set of records       *)
(* [w |-> world after the call, n |-> what send returned].                *)
(***************************************************************************)
Took(x, n) == [w |-> x, n |-> n]

\* What a write to the socket of p can take of data: all, or a part.
Written(w, p, data) ==
  {Took([w EXCEPT !.sock[p].wire = @ \o data], Len(data))}
  \cup (IF Len(data) >= 2
          THEN {Took([w EXCEPT !.sock[p].wire = @ \o <<data[1]>>], 1)}
          ELSE {})

Writable(w, p) == w.sock[p].k \in {"established", "eof"}

PosixSend(w, data) ==
  LET p == w.pfd IN
  IF p = Null THEN {Took(Fail(w, "null"), 0)}
  ELSE IF Writable(w, p)
    THEN Written(w, p, data)
         \cup (IF Len(w.output) + Len(data) <= MaxOutput
                 THEN {Took(Update([w EXCEPT !.output = @ \o data], p, EPOLLOUT), 0)}
                 ELSE {})
    ELSE {Took(x, 0) : x \in Cleanup([w EXCEPT !.st = "disconnect"])}

\* mtcp_connection::send: a write of 0 (EAGAIN) is only logged, the lines
\* that would queue it being commented out; a write error sets disconnect
\* and neither cleans up nor tells the application.
MtcpSend(w, data) ==
  LET p == w.pfd IN
  IF p = Null THEN {Took(Fail(w, "null"), 0)}
  ELSE IF Writable(w, p)
    THEN Written(w, p, data) \cup {Took(w, 0)}
    ELSE {Took([w EXCEPT !.st = "disconnect"], 0)}

Send(w, data) ==
  IF stack = "kernel" THEN PosixSend(w, data) ELSE MtcpSend(w, data)

(***************************************************************************)
(* send_packet(data, len): refused unless connected; nothing to do for    *)
(* len = 0; after a send that took everything, pfd_->enable_read().       *)
(***************************************************************************)
SendPacket(w, data) ==
  IF w.st # "connected" \/ data = <<>> THEN {w}
  ELSE UNION {IF r.n < Len(data) \/ r.w.fault # {} THEN {r.w}
              ELSE {Update(r.w, r.w.pfd, EPOLLIN)} : r \in Send(w, data)}

\* http_connection::do_req: send_packet of the next request, up to
\* MaxSends requests in all.
Request(w) ==
  LET m == w.nsent + 1
      d == <<<<m, 1>>, <<m, 2>>>>
  IN
  IF w.st # "connected" \/ w.nsent >= MaxSends THEN {w}
  ELSE IF w.pfd = Null THEN {Fail(w, "null")}
  ELSE SendPacket([w EXCEPT !.nsent = m, !.sock[w.pfd].sent = @ \o d], d)

\* wan's do_req: send_packet, then nr_interact_-- whether it sent or not.
WanRequest(w) == Request([w EXCEPT !.client.interact = @ - 1])

\* wan's when_ready: nr_connected++, the interactions restart, do_req.
WanOnConnected(w) ==
  WanRequest([Count(w, 1) EXCEPT !.client.interact = NInteract])

\* mcc's (and the worker's) when_ready: connected++ and conns_.push_back.
MccOnConnected(w) == {[Count(w, 1) EXCEPT !.client.listed = TRUE]}

\* on_connected_(con): echo and http send their first request.
OnConnected(w) ==
  CASE app \in {"echo", "http"} -> Request(w)
    [] app = "wan"              -> WanOnConnected(w)
    [] OTHER                    -> MccOnConnected(w)

(***************************************************************************)
(* handle_handshake: SO_ERROR of the socket decides; an error makes the   *)
(* connection failed and calls on_failed_, none makes it connected and    *)
(* calls on_connected_.  The result is a set of [w, ok].                  *)
(***************************************************************************)
PosixSoError(w) == w.sock[w.pfd].k \in {"refused", "reset"}

\* mtcp_socket::getsockopt returns -1 while the connect is in progress.
MtcpSoError(w) == w.sock[w.pfd].k \in {"refused", "reset", "connecting"}

SoError(w) == IF stack = "kernel" THEN PosixSoError(w) ELSE MtcpSoError(w)

\* Taking any socket for connected (mutant).
HandshakeIgnoresError(w) ==
  {[w |-> x, ok |-> TRUE] : x \in OnConnected([w EXCEPT !.st = "connected"])}

Handshake(w) ==
  IF SoError(w)
    THEN {[w |-> x, ok |-> FALSE] : x \in OnFailed([w EXCEPT !.st = "failed"])}
    ELSE {[w |-> x, ok |-> TRUE] : x \in OnConnected([w EXCEPT !.st = "connected"])}

(***************************************************************************)
(* handle_write, the pollout callback: the handshake while connecting,    *)
(* else send_packet(output_) while connected; output_ is not consumed.    *)
(***************************************************************************)
HandleWrite(w) ==
  CASE w.st = "connecting" -> {r.w : r \in Handshake(w)}
    [] w.st = "connected"  -> SendPacket(w, w.output)
    [] OTHER               -> {w}

(***************************************************************************)
(* on_message: each client consumes(msg.size()) and completes a request.  *)
(* The echo client's complete_request closes the connection once its     *)
(* requests per connection are done; echo and http then send the next    *)
(* request if still connected.  wan sends while interactions are left    *)
(* and closes when none are.  mcc and the worker register no on_message: *)
(* handle_read breaks out of its loop and leaves input_ as it is.        *)
(***************************************************************************)
\* The message handed over, consumed: consume(msg.size()).
Consumed(w) ==
  [w EXCEPT !.delivered = @ \cup {[on |-> w.pfd, bytes |-> w.input]},
            !.input = <<>>]

\* http: complete_request, then do_req if still connected.
HttpOnMessage(x) == IF x.st = "connected" THEN Request(x) ELSE {x}

\* echo: complete_request closes once nr_done reaches nr_reqs_ (when_closed
\* reconnects), then as http.
EchoOnMessage(x) == Then({x} \cup Close(x), HttpOnMessage)

\* wan: another request while interactions are left, else close.
WanOnMessage(x) ==
  CASE x.client.interact > 0 /\ x.st = "connected" -> WanRequest(x)
    [] x.st = "connected"                         -> Close(x)
    [] OTHER                                      -> {x}

OnMessage(w) ==
  CASE app = "echo" -> EchoOnMessage(Consumed(w))
    [] app = "http" -> HttpOnMessage(Consumed(w))
    [] app = "wan"  -> WanOnMessage(Consumed(w))
    [] OTHER        -> {w}

(***************************************************************************)
(* The tasks the application runs on the connection from its timers.     *)
(* echo and http: finish() at the end of the test replaces when_closed   *)
(* and closes.  mcc: the armed reconnect; both mcc and the worker: the   *)
(* periodic do_req, which sends to every connection of conns_ that is    *)
(* connected, and the duration task, which closes every connection of    *)
(* conns_ (and stops the engine).  wan has none.                         *)
(***************************************************************************)
\* http_connection::finish, from run()'s duration task.
Finish(w) == Close([w EXCEPT !.client.finished = TRUE])

\* mcc's add_oneshot_task_after(3s, conn->reconnect()).
RetryTask(w) ==
  IF app = "mcc" /\ w.client.retry
    THEN Reconnect([w EXCEPT !.client.retry = FALSE]) ELSE {}

\* The duration task: close() on every connection of conns_.
DurationTask(w) ==
  LET x == [w EXCEPT !.client.finished = TRUE]
  IN  IF x.client.listed THEN Close(x) ELSE {x}

\* One round of the periodic do_req task: send_request or send_heartbeat
\* to each connection of conns_ that is connected.
DoReq(w) ==
  IF w.client.listed /\ w.st = "connected" /\ w.nsent < MaxSends
    THEN Request(w) ELSE {}

Tasks(w) ==
  CASE app \in {"echo", "http"} -> IF w.client.finished THEN {} ELSE Finish(w)
    [] app = "wan"              -> {}
    [] OTHER -> RetryTask(w)
                \cup (IF w.client.finished THEN {}
                      ELSE DurationTask(w) \cup DoReq(w))

(***************************************************************************)
(* One iteration of the while (state_ == connected) loop of handle_read:  *)
(* make_room, then fd.read.  A reset socket makes read throw: the catch   *)
(* calls cleanup and leaves state_ as it is.  Queued data is read, added  *)
(* to input_, and EPOLLIN asked for again; the loop goes on.  A read of 0 *)
(* (the peer's FIN, once the data before it is read) sets disconnect and  *)
(* cleans up.  EAGAIN hands input_ to on_message if it holds anything.    *)
(* The result is a set of [w, more], more saying the loop goes on.        *)
(***************************************************************************)
Stop(S) == {[w |-> x, more |-> FALSE] : x \in S}

\* when_recved: mcc and the worker consume the whole input; the others
\* only look at it.
OnRecved(w) ==
  IF app \in {"mcc", "worker"} THEN [w EXCEPT !.input = <<>>] ELSE w

\* The read of queued data, which asks for EPOLLIN again, then on_recved_.
ReadData(w) ==
  LET p == w.pfd IN
  {[w |-> OnRecved(Update([w EXCEPT !.input = @ \o <<p>>, !.sock[p].rx = FALSE],
                          p, EPOLLIN)),
    more |-> TRUE]}

PosixReadOnce(w) ==
  LET s == w.sock[w.pfd] IN
  CASE s.k = "reset" -> Stop(Cleanup(w))
    [] s.rx -> ReadData(w)
    [] s.k = "eof" -> Stop(Cleanup([w EXCEPT !.st = "disconnect"]))
    [] OTHER -> IF w.input # <<>> THEN Stop(OnMessage(w)) ELSE Stop({w})

\* mtcp_connection::handle_read's loop: a read error sets disconnect
\* before cleanup, and EAGAIN with nothing to hand over asks for EPOLLIN.
MtcpReadOnce(w) ==
  LET s == w.sock[w.pfd] IN
  CASE s.k = "reset" -> Stop(Cleanup([w EXCEPT !.st = "disconnect"]))
    [] s.rx -> ReadData(w)
    [] s.k = "eof" -> Stop(Cleanup([w EXCEPT !.st = "disconnect"]))
    [] OTHER -> IF w.input # <<>> THEN Stop(OnMessage(w))
                ELSE Stop({Update(w, w.pfd, EPOLLIN)})

ReadOnce(w) == IF stack = "kernel" THEN PosixReadOnce(w) ELSE MtcpReadOnce(w)

RECURSIVE ReadLoop(_)
ReadLoop(w) ==
  IF w.st # "connected" \/ w.fault # {} THEN {w}
  ELSE UNION {IF r.more THEN ReadLoop(r.w) ELSE {r.w} : r \in ReadOnce(w)}

(***************************************************************************)
(* handle_read, the pollin callback: the handshake while connecting, and *)
(* unless it succeeded, pfd_->get_file_desc() and the read loop.          *)
(***************************************************************************)
HandleRead(w) ==
  LET Rest(x) == IF x.pfd = Null THEN {Fail(x, "null")} ELSE ReadLoop(x)
  IN
  IF w.st = "connecting"
    THEN UNION {IF r.ok THEN {r.w} ELSE Rest(r.w) : r \in Handshake(w)}
    ELSE Rest(w)

-----------------------------------------------------------------------------

\* The echo client's connect: the connector attaches a new socket, whose
\* connect is in progress.
Init ==
  /\ stack \in Stacks
  /\ app \in Apps
  /\ client = [counted |-> 0, interact |-> 0, finished |-> FALSE,
               retry |-> FALSE, listed |-> app \in {"echo", "http", "wan"}]
  /\ st = "connecting"
  /\ pfd = 1
  /\ output = <<>>
  /\ input = <<>>
  /\ ps = [p \in Ids |-> IF p = 1
                           THEN [live |-> TRUE, requested |-> {EPOLLIN, EPOLLOUT},
                                 epoll |-> {EPOLLIN, EPOLLOUT}]
                           ELSE [live |-> FALSE, requested |-> {}, epoll |-> {}]]
  /\ sock = [p \in Ids |-> IF p = 1 THEN FreshSock
                             ELSE [FreshSock EXCEPT !.k = "closed"]]
  /\ next = 2
  /\ nsent = 0
  /\ delivered = {}
  /\ fault = IF stack = "mtcp" /\ ~NDEBUG THEN {"assert"} ELSE {}
  /\ disp = None
  /\ exited = FALSE

\* Nothing runs once the program has met undefined behaviour or returned.
Running == fault = {} /\ ~exited

(***************************************************************************)
(* The kernel side of the socket of attachment p: a connect completes or *)
(* is refused; the peer sends data (at most MaxData times), shuts down    *)
(* its side (FIN), or resets the connection.                               *)
(***************************************************************************)
SetSock(p, r) ==
  /\ sock' = [sock EXCEPT ![p] = r]
  /\ UNCHANGED <<st, pfd, output, input, ps, next, nsent, delivered, fault,
                 disp, exited, stack, app, client>>

KEstablish(p) ==
  /\ Running /\ sock[p].k = "connecting"
  /\ SetSock(p, [sock[p] EXCEPT !.k = "established"])

KRefuse(p) ==
  /\ Running /\ sock[p].k = "connecting"
  /\ SetSock(p, [sock[p] EXCEPT !.k = "refused"])

KData(p) ==
  /\ Running /\ sock[p].k = "established" /\ ~sock[p].rx
  /\ sock[p].data < MaxData
  /\ SetSock(p, [sock[p] EXCEPT !.rx = TRUE, !.data = @ + 1])

KFin(p) ==
  /\ Running /\ sock[p].k = "established"
  /\ SetSock(p, [sock[p] EXCEPT !.k = "eof"])

KReset(p) ==
  /\ Running /\ sock[p].k \in {"established", "eof"}
  /\ SetSock(p, [sock[p] EXCEPT !.k = "reset", !.rx = FALSE])

\* The events epoll_wait reports for the socket of p (level-triggered).
Ready(p) ==
  LET k == sock[p].k IN
  (IF k \in {"refused", "reset", "eof"} \/ (k = "established" /\ sock[p].rx)
     THEN {EPOLLIN} ELSE {})
  \cup (IF k \in {"established", "eof", "refused", "reset"}
          THEN {EPOLLOUT} ELSE {})

(***************************************************************************)
(* epoll_backend::poll, for one reported event of the socket of p.  The   *)
(* kernel reports Ready(p) restricted to the registered events; a freed   *)
(* poll_state has always been forgotten and its socket closed first, so   *)
(* every reported event designates a live one.  The loop body computes    *)
(* events_to_remove, the reported events not requested, then calls        *)
(* complete_epoll_event for EPOLLOUT and for EPOLLIN on the same          *)
(* poll_state reference, and finally drops events_to_remove from          *)
(* events_epoll (EPOLL_CTL_MOD, or DEL when none is left).                *)
(* mtcp_epoll_backend::poll completes EPOLLIN first, then EPOLLOUT, and   *)
(* its removal is compiled out (#if 0).  Each part is a step of its own:  *)
(* the kernel moves on in between.                                         *)
(***************************************************************************)
EpollSteps  == <<"out", "in", "rm">>
MepollSteps == <<"in", "out">>

Wait(p) ==
  LET ev == Ready(p) \cap ps[p].epoll IN
  /\ Running /\ disp = None
  /\ sock[p].k # "closed" /\ ev # {}
  /\ disp' = [p |-> p, ev |-> ev, rm |-> ev \ ps[p].requested,
              steps |-> IF stack = "kernel" THEN EpollSteps ELSE MepollSteps]
  /\ UNCHANGED <<world, exited>>

\* The dispatch goes on with its next part, or is over.
NextStep ==
  disp' = IF Len(disp.steps) = 1 THEN None ELSE [disp EXCEPT !.steps = Tail(@)]

\* A completion reads events_requested of a poll_state that the callback
\* of the other completion has freed.
UseAfterFree ==
  /\ fault' = fault \cup {"uaf"}
  /\ UNCHANGED <<st, pfd, output, input, ps, sock, next, nsent, delivered, stack,
                 app, client>>

\* complete_epoll_event(*state, events, EPOLLOUT): clear the requested bit,
\* then pollout().
DispatchOut ==
  LET p == disp.p IN
  /\ Running /\ disp # None /\ Head(disp.steps) = "out"
  /\ CASE ~ps[p].live -> UseAfterFree
       [] EPOLLOUT \in disp.ev \cap ps[p].requested ->
            \E w \in HandleWrite([World EXCEPT !.ps[p].requested = @ \ {EPOLLOUT}]) :
              Become(w)
       [] OTHER -> UNCHANGED world
  /\ NextStep
  /\ UNCHANGED exited

\* complete_epoll_event(*state, events, EPOLLIN): clear the requested bit,
\* then pollin().
DispatchIn ==
  LET p == disp.p IN
  /\ Running /\ disp # None /\ Head(disp.steps) = "in"
  /\ CASE ~ps[p].live -> UseAfterFree
       [] EPOLLIN \in disp.ev \cap ps[p].requested ->
            \E w \in HandleRead([World EXCEPT !.ps[p].requested = @ \ {EPOLLIN}]) :
              Become(w)
       [] OTHER -> UNCHANGED world
  /\ NextStep
  /\ UNCHANGED exited

\* if (events_to_remove) state->events_epoll &= ~events_to_remove; epoll_ctl.
DispatchRemove ==
  LET p == disp.p IN
  /\ Running /\ disp # None /\ Head(disp.steps) = "rm"
  /\ CASE disp.rm = {} -> UNCHANGED world
       [] ~ps[p].live  -> UseAfterFree
       [] OTHER        -> /\ ps' = [ps EXCEPT ![p].epoll = @ \ disp.rm]
                          /\ UNCHANGED <<st, pfd, output, input, sock, next,
                                         nsent, delivered, fault, stack, app,
                                         client>>
  /\ NextStep
  /\ UNCHANGED exited

(***************************************************************************)
(* reactor::run leaving its loop: every connection still connected is     *)
(* closed (close() runs when_closed, which reconnects), and run returns.  *)
(***************************************************************************)
ExitLoop ==
  /\ Running /\ disp = None
  /\ \E w \in IF st = "connected" THEN Close(World) ELSE {World} : Become(w)
  /\ exited' = TRUE
  /\ UNCHANGED disp

(***************************************************************************)
(* A timer task of the application runs, between two events.             *)
(***************************************************************************)
AppTask ==
  /\ Running /\ disp = None
  /\ \E w \in Tasks(World) : Become(w)
  /\ UNCHANGED <<disp, exited>>

Next ==
  \/ \E p \in Ids : KEstablish(p) \/ KRefuse(p) \/ KData(p) \/ KFin(p) \/ KReset(p)
  \/ AppTask
  \/ \E p \in Ids : Wait(p)
  \/ DispatchOut \/ DispatchIn \/ DispatchRemove
  \/ ExitLoop

(***************************************************************************)
(* The loop never sleeps and calls the epoll poller on every iteration,   *)
(* so a reported event is dispatched and its dispatch completes.  The     *)
(* kernel settles every connect attempt, one way or the other, within its *)
(* SYN retry timeout.  The peer and the application's stop get no         *)
(* fairness.                                                               *)
(***************************************************************************)
Fairness ==
  /\ WF_vars(\E p \in Ids : Wait(p))
  /\ WF_vars(DispatchOut) /\ WF_vars(DispatchIn) /\ WF_vars(DispatchRemove)
  /\ \A p \in Ids : WF_vars(KEstablish(p) \/ KRefuse(p))

Spec == Init /\ [][Next]_vars /\ Fairness

-----------------------------------------------------------------------------

Events == SUBSET {EPOLLIN, EPOLLOUT}
Byte == (1 .. MaxSends) \X {1, 2}

(***************************************************************************)
(* Types, and pfd_ owning a live poll_state whenever it is set.           *)
(***************************************************************************)
TypeOK ==
  /\ stack \in Stacks /\ app \in Apps
  /\ client \in [counted : Int, interact : 0 .. NInteract, finished : BOOLEAN,
                retry : BOOLEAN, listed : BOOLEAN]
  /\ st \in States
  /\ pfd \in {Null} \cup Ids
  /\ output \in Seq(Byte) /\ Len(output) <= MaxOutput
  /\ input \in Seq(Ids)
  /\ ps \in [Ids -> [live : BOOLEAN, requested : Events, epoll : Events]]
  /\ sock \in [Ids -> [k : SockStates, rx : BOOLEAN, data : 0 .. MaxData,
                       wire : Seq(Byte), sent : Seq(Byte)]]
  /\ next \in 1 .. MaxAttach + 1
  /\ fault \subseteq {"uaf", "null", "assert"}
  /\ pfd # Null => ps[pfd].live

(***************************************************************************)
(* spec.md 4.2: on_ready fires, and the connection is connected, only     *)
(* once the asynchronous connect has completed: handle_handshake runs     *)
(* from a readiness event and reads SO_ERROR, and a refused connect       *)
(* makes the connection failed.                                            *)
(***************************************************************************)
HandshakeBeforeReady ==
  st = "connected" /\ pfd # Null =>
    sock[pfd].k \in {"established", "eof", "reset"}

(***************************************************************************)
(* Every socket the connection opened is closed by the time the          *)
(* connection has moved to another one or let go of it: close, cleanup  *)
(* and reconnect through when_closed / when_disconnect never leak a       *)
(* descriptor.                                                             *)
(***************************************************************************)
NoLeakedSocket ==
  \A p \in Ids : sock[p].k # "closed" => p = pfd

(***************************************************************************)
(* A connect attempt is resolved: attach asks for EPOLLOUT and EPOLLIN,   *)
(* so the completion or refusal of the connect is dispatched to           *)
(* handle_handshake and the connection leaves connecting.                 *)
(***************************************************************************)
ConnectResolves == st = "connecting" ~> (st # "connecting" \/ ~Running)

(***************************************************************************)
(* epoll_backend::poll never touches a poll_state that a callback of the *)
(* same event has freed (close or cleanup set pfd_ = nullptr).            *)
(***************************************************************************)
NoUseAfterFree == "uaf" \notin fault

(***************************************************************************)
(* spec.md 4.2: exactly one descriptor is attached while the connection  *)
(* is connecting or connected, none while it is closed, disconnect or    *)
(* invalid.                                                                *)
(***************************************************************************)
DescriptorIffLive ==
  /\ st \in {"connecting", "connected"} => pfd # Null
  /\ st \in {"invalid", "disconnect", "closed"} => pfd = Null

(***************************************************************************)
(* spec.md 4.2: bytes the transport did not accept are kept in output_    *)
(* and flushed on the next writable event, so what reaches a socket is    *)
(* the application's byte stream on it, in order, without loss or repeat. *)
(***************************************************************************)
WireIsSentStream ==
  \A p \in Ids : IsPrefix(sock[p].wire, sock[p].sent)

(***************************************************************************)
(* Every message handed to on_message holds only bytes that arrived on   *)
(* the socket it is handed on: nothing read on an earlier attachment is   *)
(* delivered after a reconnect.                                            *)
(***************************************************************************)
NoStaleInput ==
  \A m \in delivered : \A i \in 1 .. Len(m.bytes) : m.bytes[i] = m.on

(***************************************************************************)
(* Between two events, every event a live poll_state has requested is     *)
(* registered with epoll, so the callback waiting for it can be called.   *)
(***************************************************************************)
RequestedIsRegistered ==
  disp = None =>
    \A p \in Ids : ps[p].live => ps[p].requested \subseteq ps[p].epoll

(***************************************************************************)
(* The connected statistic of a counting client (wan, mcc, worker) is     *)
(* right for this connection: its share is 1 exactly while the            *)
(* connection holds a descriptor past on_ready, and 0 otherwise.  The     *)
(* increments in when_ready and the decrements in when_closed,            *)
(* when_disconnect and when_failed must pair up with the state changes of *)
(* close, cleanup, the handshake and reconnect.  (mTCP's write error      *)
(* leaves a connection disconnect with its descriptor: it still counts.)  *)
(***************************************************************************)
Holds == pfd # Null /\ st \in {"connected", "disconnect"}

ConnectedStatMatches ==
  app \in Counting => client.counted = IF Holds THEN 1 ELSE 0

=============================================================================
