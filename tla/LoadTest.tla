------------------------------ MODULE LoadTest ------------------------------
(***************************************************************************)
(* A distributed load test: the controller of apps/distributed_wan_loader *)
(* (controller.cc) or apps/distributed_http_loader (controller.cc) and    *)
(* the loader processes of the same application (loader.cc), one per     *)
(* client id, each running one service core; or the master and the       *)
(* workers of apps/distributed_mcc (mcc_master.cc, mcc_worker.cc).        *)
(*                                                                         *)
(* A loader connects to the controller and reports online (a report with  *)
(* a note).  When the controller has counted as many online reports as    *)
(* there are workers it sends the command to every worker connection it   *)
(* holds.  A loader schedules the start of its test at the command's      *)
(* timestamp; the start runs the distributor: the service opens its pool  *)
(* of connections to the device under test and arms the end of the test; *)
(* when the service ends, on_done reduces its request count, one second   *)
(* later the loader sends the final report, and one second after that it *)
(* stops.  The controller prints its summary and stops when it has        *)
(* counted as many final reports as there are workers.                    *)
(*                                                                         *)
(* The mcc master runs the same start barrier but never stops: it stores  *)
(* the periodic reports of its workers.  An mcc worker's service opens    *)
(* its connections, reconnects those that fail or drop, and after the    *)
(* duration closes the ones it holds and stops its core; the worker's     *)
(* core 0 goes on sending a report every second.                          *)
(*                                                                         *)
(* Controller side:                                                       *)
(*   cc[k]     the k-th connection the controller accepted: its worker,  *)
(*             id_ (++nr_conns at construction, then set_id), whether    *)
(*             its note was counted, whether the loader's side is open,  *)
(*             whether when_disconnect ran, and the two directions of    *)
(*             the stream as sequences of messages                        *)
(*   online, finished, desc, wconn   workers_online, workers_finished,   *)
(*             worker_desc and worker_conns (an index into cc, or 0)      *)
(* Loader side:                                                           *)
(*   wst[w]    where loader w is; ctl[w] its controller connection;       *)
(*   ncmd[w]   the commands its on_message has taken                      *)
(*   pool[w]   the connections of its service (the wan client's conns_,  *)
(*             the http client's conns_), nrc[w] the wan client's         *)
(*             stats.nr_connected, resp[w] whether an http request of it  *)
(*             completed; nrep[w] the mcc worker's reports so far          *)
(* The ids of a connection are natural numbers; message contents are      *)
(* left out except for the distinction between a note and a final report. *)
(***************************************************************************)
EXTENDS Naturals, Sequences, FiniteSets

CONSTANTS
  NWorkers,     \* workers (-n of the controller), also the client ids
  Flavours,     \* the applications: "wan", "http", "mcc"
  ConnPerCore,  \* conns / (smp::count - 1), with one service core
  MaxConns,     \* bound on the connections a wan service opens
  NInteract,    \* interact-times of the wan loader
  Duration,     \* duration (-d)
  Width,        \* the width of unsigned
  MaxKills,     \* bound on loader processes killed (FaultSpec only)
  MaxReports    \* bound on the periodic reports of an mcc worker

ASSUME NWorkers \in Nat \ {0} /\ Flavours \subseteq {"wan", "http", "mcc"}
ASSUME ConnPerCore \in Nat \ {0} /\ MaxConns >= ConnPerCore
ASSUME NInteract \in Nat \ {0} /\ Duration \in Nat /\ Width \in Nat \ {0}
ASSUME MaxReports \in Nat

Ids == 0 .. NWorkers - 1

\* Arithmetic on unsigned.
U(x) == x % (2 ^ Width)

WStates == {"down", "connecting", "wait", "sched", "run", "done", "reported",
            "exited", "dead"}
PStates == {"connecting", "open", "failed", "gone"}

VARIABLES
  flavour, cc, online, finished, desc, wconn, oob, stopped,
  wst, ctl, ncmd, pool, nrc, resp, nrep, kills

ctlvars  == <<cc, online, finished, desc, wconn, oob, stopped>>
poolvars == <<pool, nrc, resp, nrep>>
vars == <<flavour, ctlvars, wst, ctl, ncmd, poolvars, kills>>

Init ==
  /\ flavour \in Flavours
  /\ cc = <<>>
  /\ online = 0 /\ finished = 0
  /\ desc = [w \in Ids |-> 0] /\ wconn = [w \in Ids |-> 0]
  /\ oob = FALSE /\ stopped = FALSE
  /\ wst = [w \in Ids |-> "down"] /\ ctl = [w \in Ids |-> 0]
  /\ ncmd = [w \in Ids |-> 0]
  /\ pool = [w \in Ids |-> <<>>] /\ nrc = [w \in Ids |-> 0]
  /\ resp = [w \in Ids |-> FALSE] /\ nrep = [w \in Ids |-> 0]
  /\ kills = 0

\* A loader process whose engine still runs its callbacks and tasks.
Alive(w) == wst[w] \notin {"down", "exited", "dead"}

\* The loader's engine().connect to the controller, and the controller's
\* tcp_server::accept, which constructs a posix_connection (id_ =
\* ++nr_conns) and installs when_disconnect and on_message.
Connect(w) ==
  /\ wst[w] = "down" /\ ~stopped
  /\ cc' = Append(cc, [w |-> w, id |-> Len(cc) + 1, noted |-> FALSE,
                       open |-> TRUE, seen |-> FALSE, up |-> <<>>,
                       down |-> <<>>])
  /\ ctl' = [ctl EXCEPT ![w] = Len(cc) + 1]
  /\ wst' = [wst EXCEPT ![w] = "connecting"]
  /\ ncmd' = [ncmd EXCEPT ![w] = 0]
  /\ UNCHANGED <<flavour, online, finished, desc, wconn, oob, stopped,
                 poolvars, kills>>

\* Appends message m to direction d of controller connection k.
Put(c, k, d, m) == [c EXCEPT ![k][d] = Append(@, m)]

\* when_ready: the report with the note.
Ready(w) ==
  /\ wst[w] = "connecting"
  /\ cc' = Put(cc, ctl[w], "up", "note")
  /\ wst' = [wst EXCEPT ![w] = "wait"]
  /\ UNCHANGED <<flavour, online, finished, desc, wconn, oob, stopped, ctl,
                 ncmd, poolvars, kills>>

\* The command goes to every connection worker_conns holds; send_packet
\* drops it on a connection the controller has seen disconnect.
Broadcast(c, conns) ==
  [k \in DOMAIN c |->
     IF k \in conns /\ ~c[k].seen THEN [c[k] EXCEPT !.down = Append(@, "cmd")]
     ELSE c[k]]

\* if (workers_online >= workers), and the same test off by one (mutant).
AllOnlineEarly(on) == on >= NWorkers - 1

AllOnline(on) == on >= NWorkers

\* The controller's on_message for a note on connection k: set_id, the
\* worker's entries, workers_online++, and the command to all once
\* workers_online >= workers.
CtlNote(k) ==
  LET w  == cc[k].w
      on == U(online + 1)
      c1 == [cc EXCEPT ![k].up = Tail(@), ![k].id = w, ![k].noted = TRUE]
      wc == [wconn EXCEPT ![w] = k]
  IN
  /\ ~stopped /\ cc[k].up # <<>> /\ Head(cc[k].up) = "note"
  /\ desc' = [desc EXCEPT ![w] = 1]
  /\ wconn' = wc
  /\ online' = on
  /\ cc' = IF AllOnline(on) THEN Broadcast(c1, {wc[v] : v \in Ids}) ELSE c1
  /\ UNCHANGED <<flavour, finished, oob, stopped, wst, ctl, ncmd, poolvars,
                 kills>>

\* if (workers_finished >= workers), off by one and strict (mutants).
AllFinishedEarly(n) == n >= NWorkers - 1

AllFinishedStrict(n) == n > NWorkers

AllFinished(n) == n >= NWorkers

\* The controller's on_message for a final report: workers_finished++, and
\* the summary and engine().stop() once workers_finished >= workers.
CtlStats(k) ==
  /\ ~stopped /\ cc[k].up # <<>> /\ Head(cc[k].up) = "stats"
  /\ cc' = [cc EXCEPT ![k].up = Tail(@)]
  /\ finished' = U(finished + 1)
  /\ stopped' = AllFinished(finished')
  /\ UNCHANGED <<flavour, online, desc, wconn, oob, wst, ctl, ncmd, poolvars,
                 kills>>

\* The mcc master's on_message for a periodic report: it stores the
\* worker's connected, tx and rx counts for its display, and the master
\* never stops.
MasterStats(k) ==
  /\ cc[k].up # <<>> /\ Head(cc[k].up) = "stats"
  /\ cc' = [cc EXCEPT ![k].up = Tail(@)]
  /\ UNCHANGED <<flavour, online, finished, desc, wconn, oob, stopped, wst,
                 ctl, ncmd, poolvars, kills>>

\* The peer's FIN reaches the controller after the bytes before it: the
\* read loop's cleanup runs when_disconnect, which writes
\* worker_desc[con->get_id()] and does workers_online--.
CtlDisconnect(k) ==
  /\ ~stopped /\ ~cc[k].open /\ ~cc[k].seen /\ cc[k].up = <<>>
  /\ cc' = [cc EXCEPT ![k].seen = TRUE]
  /\ IF cc[k].id \in Ids
       THEN desc' = [desc EXCEPT ![cc[k].id] = 0] /\ oob' = oob
       ELSE desc' = desc /\ oob' = TRUE
  /\ online' = U(online + 2 ^ Width - 1)
  /\ UNCHANGED <<flavour, finished, wconn, stopped, wst, ctl, ncmd, poolvars,
                 kills>>

(***************************************************************************)
(* The loader.                                                            *)
(***************************************************************************)
\* on_message of the controller connection: the command.  The first one
\* schedules the start at start_tp + start_ts; start_tp keeps that sum, so
\* a later command schedules a start decades ahead, which never falls due.
Command(w) ==
  LET k == ctl[w] IN
  /\ Alive(w) /\ k # 0 /\ cc[k].down # <<>>
  /\ cc' = [cc EXCEPT ![k].down = Tail(@)]
  /\ ncmd' = [ncmd EXCEPT ![w] = @ + 1]
  /\ wst' = [wst EXCEPT ![w] = IF ncmd[w] = 0 THEN "sched" ELSE @]
  /\ UNCHANGED <<flavour, online, finished, desc, wconn, oob, stopped, ctl,
                 poolvars, kills>>

\* The mcc worker's when_recved: it parses the whole input as one command
\* (the fields of commands that arrived together merge) and schedules the
\* start at start_tp += start_ts, as the wan loader does.
WorkerRecved(w) ==
  LET k == ctl[w] IN
  /\ Alive(w) /\ k # 0 /\ cc[k].down # <<>>
  /\ cc' = [cc EXCEPT ![k].down = <<>>]
  /\ ncmd' = [ncmd EXCEPT ![w] = @ + Len(cc[k].down)]
  /\ wst' = [wst EXCEPT ![w] = IF ncmd[w] = 0 THEN "sched" ELSE @]
  /\ UNCHANGED <<flavour, online, finished, desc, wconn, oob, stopped, ctl,
                 poolvars, kills>>

\* A new pool connection, engine().connect, not yet established.
\* inl: the connection is in the mcc client's conns_ (its when_ready ran).
Fresh == [s |-> "connecting", left |-> 0, inl |-> FALSE]

\* The wan client's running(): conn_per_core_ connections, each counted in
\* nr_connected as it is created.
WanRunning(w) ==
  /\ pool' = [pool EXCEPT ![w] = [i \in 1 .. ConnPerCore |-> Fresh]]
  /\ nrc' = [nrc EXCEPT ![w] = ConnPerCore]

\* The http client's connect(): conn_per_core_ connections.
HttpConnect(w) ==
  /\ pool' = [pool EXCEPT ![w] = [i \in 1 .. ConnPerCore |-> Fresh]]
  /\ nrc' = nrc

\* The mcc client's start(): with setup_time 1, its one setup task, due
\* at once, creates block = nr_conns_ connections; stats_sec.connected
\* counts them only when they are ready.  start() also arms do_req, which
\* only sends, and the duration task.
WorkerStart(w) ==
  /\ pool' = [pool EXCEPT ![w] = [i \in 1 .. ConnPerCore |-> Fresh]]
  /\ nrc' = nrc

\* The start task: clients->start, invoke_on_all(running) or
\* invoke_on_all(connect), invoke_on_all(end_test) or invoke_on_all(run),
\* which arm the end of the test, and when_done.
Start(w) ==
  /\ wst[w] = "sched"
  /\ wst' = [wst EXCEPT ![w] = "run"]
  /\ CASE flavour = "wan"  -> WanRunning(w)
       [] flavour = "http" -> HttpConnect(w)
       [] flavour = "mcc"  -> WorkerStart(w)
  /\ UNCHANGED <<flavour, ctlvars, ctl, ncmd, resp, nrep, kills>>

\* The service's connections live while the loader's engine runs and the
\* test has not closed them; the mcc client's duration task stops its
\* core.
Serving(w) ==
  IF flavour = "mcc" THEN wst[w] = "run" ELSE wst[w] \in {"run", "done", "reported"}

SetConn(w, i, s, left) == [pool EXCEPT ![w][i].s = s, ![w][i].left = left]

\* Subtracts n from an unsigned counter of loader w.
Dec(w, n) == [nrc EXCEPT ![w] = U(@ + 2 ^ Width - n)]

\* when_ready: do_req, which for the wan client uses up one of the
\* nr_interact_t_ interactions it sets.
WanWhenReady(w, i) == pool' = SetConn(w, i, "open", NInteract - 1)

HttpWhenReady(w, i) == pool' = SetConn(w, i, "open", 0)

\* The mcc client's when_ready: stats_sec.connected++ and conns_.push_back.
MccWhenReady(w, i) ==
  /\ pool' = [pool EXCEPT ![w][i].s = "open", ![w][i].inl = TRUE]
  /\ nrc' = [nrc EXCEPT ![w] = U(@ + 1)]

Established(w, i) ==
  /\ Serving(w) /\ pool[w][i].s = "connecting"
  /\ CASE flavour = "wan"  -> WanWhenReady(w, i) /\ nrc' = nrc
       [] flavour = "http" -> HttpWhenReady(w, i) /\ nrc' = nrc
       [] flavour = "mcc"  -> MccWhenReady(w, i)
  /\ UNCHANGED <<flavour, ctlvars, wst, ctl, ncmd, resp, nrep, kills>>

\* nr_interact_ > 0, and the test as >= on the unsigned (mutant).
MoreInteractionsNonStrict(l) == l >= 0

MoreInteractions(l) == l > 0

\* The wan client's when_closed: nr_connected-- and conns_.remove; and
\* the same without the decrement (mutant).
WhenClosedKeepCount(w, i) ==
  /\ pool' = SetConn(w, i, "gone", 0)
  /\ nrc' = nrc

WhenClosed(w, i) ==
  /\ pool' = SetConn(w, i, "gone", 0)
  /\ nrc' = [nrc EXCEPT ![w] = U(@ + 2 ^ Width - 1)]

\* The wan client's on_message: another request while interactions
\* remain, else close(), which runs when_closed.
WanOnMessage(w, i) ==
  /\ IF MoreInteractions(pool[w][i].left)
       THEN pool' = SetConn(w, i, "open", pool[w][i].left - 1) /\ nrc' = nrc
       ELSE WhenClosed(w, i)
  /\ resp' = resp

\* The http client's on_message: complete_request counts the response and
\* do_req sends the next request.
HttpOnMessage(w, i) ==
  /\ resp' = [resp EXCEPT ![w] = TRUE]
  /\ UNCHANGED <<pool, nrc>>

\* (The mcc client's when_recved only counts and consumes.)
Response(w, i) ==
  /\ Serving(w) /\ pool[w][i].s = "open" /\ flavour # "mcc"
  /\ IF flavour = "wan" THEN WanOnMessage(w, i) ELSE HttpOnMessage(w, i)
  /\ UNCHANGED <<flavour, ctlvars, wst, ctl, ncmd, nrep, kills>>

\* The device under test closes or resets an open connection and cleanup
\* runs when_disconnect: the wan client's does nr_connected-- and removes
\* the connection, the http client's calls reconnect().
WanWhenDisconnect(w, i) ==
  /\ pool' = SetConn(w, i, "gone", 0)
  /\ nrc' = [nrc EXCEPT ![w] = U(@ + 2 ^ Width - 1)]

HttpReconnect(w, i) == pool' = SetConn(w, i, "connecting", 0) /\ nrc' = nrc

\* The mcc client's when_disconnect: stats_sec.connected--, retry++, and
\* reconnect(), which attaches a new socket in state connecting; the
\* connection stays in conns_.
MccWhenDisconnect(w, i) ==
  /\ pool' = SetConn(w, i, "connecting", 0)
  /\ nrc' = Dec(w, 1)

Dropped(w, i) ==
  /\ Serving(w) /\ pool[w][i].s = "open"
  /\ CASE flavour = "wan"  -> WanWhenDisconnect(w, i)
       [] flavour = "http" -> HttpReconnect(w, i)
       [] flavour = "mcc"  -> MccWhenDisconnect(w, i)
  /\ UNCHANGED <<flavour, ctlvars, wst, ctl, ncmd, resp, nrep, kills>>

\* The wan client's Reconnecting task (every 100 ms from one second after
\* running): while nr_connected < conn_per_core_, a new connection, each
\* counted in nr_connected.
Reconnecting(w) ==
  LET n == ConnPerCore - nrc[w] IN
  /\ flavour = "wan" /\ Serving(w) /\ nrc[w] < ConnPerCore
  /\ Len(pool[w]) + n <= MaxConns
  /\ pool' = [pool EXCEPT ![w] = @ \o [i \in 1 .. n |-> Fresh]]
  /\ nrc' = [nrc EXCEPT ![w] = ConnPerCore]
  /\ UNCHANGED <<flavour, ctlvars, wst, ctl, ncmd, resp, nrep, kills>>

\* The wan client's end_test task: finish() only; its connections go on.
WanEndTest(w) == pool' = pool /\ nrc' = nrc

\* The http client's run task: every connection's finish() replaces
\* when_closed by a logging one and closes it, and its counts are summed.
HttpRun(w) ==
  /\ pool' = [pool EXCEPT ![w] = [i \in DOMAIN @ |-> [@[i] EXCEPT !.s = "gone"]]]
  /\ nrc' = nrc

\* The mcc client's duration task: close() on every connection of conns_,
\* which returns early on one already closed and otherwise runs
\* when_closed, stats_sec.connected-- (also for one that when_disconnect
\* had already uncounted and is reconnecting); then engine().stop() of
\* the service core.  The worker's loaders->stop at duration + 5 s
\* submits to that stopped core and changes nothing.
DurationTask(w) ==
  LET closing == {i \in DOMAIN pool[w] :
                    pool[w][i].inl /\ pool[w][i].s \in {"connecting", "open"}}
  IN
  /\ pool' = [pool EXCEPT ![w] = [i \in DOMAIN @ |->
                 IF i \in closing THEN [@[i] EXCEPT !.s = "gone"] ELSE @[i]]]
  /\ nrc' = Dec(w, Cardinality(closing))

\* The task armed for duration_ seconds after the start (only when
\* duration_ > 0); then finish() calls end_game, whose submission to core
\* 0 runs the when_done callback: map_reduce of the request count, and
\* the report task one second later.
\* The mcc client arms its duration task whatever the duration.
Finish(w) ==
  /\ wst[w] = "run" /\ (Duration > 0 \/ flavour = "mcc")
  /\ wst' = [wst EXCEPT ![w] = "done"]
  /\ CASE flavour = "wan"  -> WanEndTest(w)
       [] flavour = "http" -> HttpRun(w)
       [] flavour = "mcc"  -> DurationTask(w)
  /\ UNCHANGED <<flavour, ctlvars, ctl, ncmd, resp, nrep, kills>>

\* The wan loader's report task: the final report.
WanReport(w) ==
  /\ wst' = [wst EXCEPT ![w] = "reported"]
  /\ cc' = Put(cc, ctl[w], "up", "stats")

\* The http loader's report task computes total_delay.result() /
\* total_reqs first, an integer division that raises SIGFPE and ends the
\* process when no request completed.
HttpReport(w) ==
  IF resp[w] THEN WanReport(w)
  ELSE /\ wst' = [wst EXCEPT ![w] = "dead"]
       /\ cc' = [cc EXCEPT ![ctl[w]].open = FALSE]

Report(w) ==
  /\ wst[w] = "done"
  /\ IF flavour = "wan" THEN WanReport(w) ELSE HttpReport(w)
  /\ UNCHANGED <<flavour, online, finished, desc, wconn, oob, stopped, ctl,
                 ncmd, poolvars, kills>>

\* The mcc worker's report task, every second from the start: map_reduce
\* of its client's counts, and 100 ms later the report, sent while its
\* connection to the master is connected (the master never closes it, so
\* the engine().stop() of the other branch is not reached).
MccReport(w) ==
  /\ flavour = "mcc" /\ wst[w] \in {"run", "done"} /\ nrep[w] < MaxReports
  /\ cc' = Put(cc, ctl[w], "up", "stats")
  /\ nrep' = [nrep EXCEPT ![w] = @ + 1]
  /\ UNCHANGED <<flavour, online, finished, desc, wconn, oob, stopped, wst,
                 ctl, ncmd, pool, nrc, resp, kills>>

\* One second later: engine().stop(); the process exits and its
\* connection to the controller closes.
Exit(w) ==
  /\ wst[w] = "reported"
  /\ wst' = [wst EXCEPT ![w] = "exited"]
  /\ cc' = [cc EXCEPT ![ctl[w]].open = FALSE]
  /\ UNCHANGED <<flavour, online, finished, desc, wconn, oob, stopped, ctl,
                 ncmd, poolvars, kills>>

\* The controller's engine: the when_disconnect and on_message callbacks
\* of its tcp_server.
Controller == \E k \in DOMAIN cc : CtlNote(k) \/ CtlStats(k) \/ CtlDisconnect(k)

\* The mcc master's engine: the same when_disconnect (which also clears
\* the display's counts) and the same note branch of on_message; a report
\* only stores counts.  Its one-second display task reads them only.
Master == \E k \in DOMAIN cc : CtlNote(k) \/ MasterStats(k) \/ CtlDisconnect(k)

Server == IF flavour = "mcc" THEN Master ELSE Controller

\* The wan loader's main: engine().connect to the controller, when_ready,
\* on_message, and the tasks the start task chains: end_test, on_done's
\* report one second later and engine().stop() one second after that.
WanLoader(w) ==
  \/ Connect(w) \/ Ready(w) \/ Command(w) \/ Start(w) \/ Finish(w)
  \/ Report(w) \/ Exit(w)

\* The http loader's main installs the same callbacks; its start task
\* runs connect and run, and its report task divides by total_reqs.
HttpLoader(w) ==
  \/ Connect(w) \/ Ready(w) \/ Command(w) \/ Start(w) \/ Finish(w)
  \/ Report(w) \/ Exit(w)

\* The mcc worker's main: the connection to the master, when_ready,
\* when_recved, the start task (start and the duration task) and the
\* periodic report.  Its log task only moves the log counters, and
\* loaders->stop reaches a core the duration task has stopped.
MccWorker(w) ==
  \/ Connect(w) \/ Ready(w) \/ WorkerRecved(w) \/ Start(w) \/ Finish(w)
  \/ MccReport(w)

Loader(w) ==
  CASE flavour = "wan"  -> WanLoader(w)
    [] flavour = "http" -> HttpLoader(w)
    [] flavour = "mcc"  -> MccWorker(w)

PoolEvent(w) ==
  \/ Reconnecting(w)
  \/ \E i \in DOMAIN pool[w] : Established(w, i) \/ Response(w, i) \/ Dropped(w, i)

Next == Server \/ \E w \in Ids : Loader(w) \/ PoolEvent(w)

(***************************************************************************)
(* Every engine runs its callbacks and falls due tasks as its loop turns, *)
(* so the controller and the loaders take their steps; the device under   *)
(* test is not assumed to answer.                                         *)
(***************************************************************************)
Fairness ==
  /\ WF_vars(Server)
  /\ \A w \in Ids : WF_vars(Loader(w))

Spec == Init /\ [][Next]_vars /\ Fairness

(***************************************************************************)
(* Faults the loaders do not handle, for FaultSpec: a loader process is   *)
(* killed (its connection to the controller closes, and it may be started *)
(* again with the same client id), and a pool connection is refused,      *)
(* which neither client handles: no when_failed callback is installed.    *)
(***************************************************************************)
Kill(w) ==
  /\ wst[w] \notin {"down", "exited", "dead"} /\ kills < MaxKills
  /\ kills' = kills + 1
  /\ wst' = [wst EXCEPT ![w] = "down"]
  /\ cc' = [cc EXCEPT ![ctl[w]].open = FALSE]
  /\ pool' = [pool EXCEPT ![w] = <<>>] /\ nrc' = [nrc EXCEPT ![w] = 0]
  /\ resp' = [resp EXCEPT ![w] = FALSE] /\ nrep' = [nrep EXCEPT ![w] = 0]
  /\ UNCHANGED <<flavour, online, finished, desc, wconn, oob, stopped, ctl,
                 ncmd>>

\* The mcc client's when_failed: stats_sec.connected-- (never counted up
\* for this connection), retry++, and reconnect().
MccWhenFailed(w, i) ==
  /\ pool' = SetConn(w, i, "connecting", 0)
  /\ nrc' = Dec(w, 1)

Refused(w, i) ==
  /\ Serving(w) /\ pool[w][i].s = "connecting"
  /\ IF flavour = "mcc" THEN MccWhenFailed(w, i)
     ELSE pool' = SetConn(w, i, "failed", 0) /\ nrc' = nrc
  /\ UNCHANGED <<flavour, ctlvars, wst, ctl, ncmd, resp, nrep, kills>>

FaultNext ==
  \/ Next
  \/ \E w \in Ids : Kill(w) \/ \E i \in DOMAIN pool[w] : Refused(w, i)

FaultSpec == Init /\ [][FaultNext]_vars /\ Fairness

-----------------------------------------------------------------------------

TypeOK ==
  /\ flavour \in Flavours
  /\ cc \in Seq([w : Ids, id : Nat, noted : BOOLEAN, open : BOOLEAN,
                  seen : BOOLEAN, up : Seq({"note", "stats"}),
                  down : Seq({"cmd"})])
  /\ online \in 0 .. 2 ^ Width - 1 /\ finished \in 0 .. 2 ^ Width - 1
  /\ desc \in [Ids -> {0, 1}] /\ wconn \in [Ids -> 0 .. Len(cc)]
  /\ oob \in BOOLEAN /\ stopped \in BOOLEAN
  /\ wst \in [Ids -> WStates] /\ ctl \in [Ids -> 0 .. Len(cc)]
  /\ ncmd \in [Ids -> Nat]
  /\ pool \in [Ids -> Seq([s : PStates, left : 0 .. NInteract, inl : BOOLEAN])]
  /\ nrc \in [Ids -> 0 .. 2 ^ Width - 1] /\ resp \in [Ids -> BOOLEAN]
  /\ nrep \in [Ids -> 0 .. MaxReports]

\* The commands loader w's current incarnation has taken or has queued.
CmdSeen(w) == ncmd[w] + IF ctl[w] = 0 THEN 0 ELSE Len(cc[ctl[w]].down)

(***************************************************************************)
(* The start barrier of the controller's on_message ("workers ready,      *)
(* distributing workloads"): a loader gets a command only once the        *)
(* controller has counted the online report of every worker's current     *)
(* connection, and it gets one command.                                    *)
(***************************************************************************)
StartBarrier ==
  \A w \in Ids : CmdSeen(w) > 0 =>
     /\ CmdSeen(w) = 1
     /\ \A v \in Ids : ctl[v] # 0 /\ cc[ctl[v]].noted

(***************************************************************************)
(* The controller prints its summary and stops only after it has taken    *)
(* the final report of every loader: workers_finished counts reports, not *)
(* messages of any kind, and no loader reports twice.                     *)
(***************************************************************************)
SummaryComplete ==
  stopped => \A w \in Ids : wst[w] \in {"reported", "exited"}
                            /\ cc[ctl[w]].up = <<>>

(***************************************************************************)
(* The connection counts of the services are exact while they run.  The  *)
(* wan client's stats.nr_connected, which Reconnecting tops up to         *)
(* conn_per_core_, counts its connections still connecting or open: each  *)
(* is counted once when created and uncounted once by when_closed or      *)
(* when_disconnect, whichever of them runs.  The mcc client's             *)
(* stats_sec.connected, which its worker reports to the master, counts    *)
(* its open connections: when_ready counts one up, when_disconnect down,  *)
(* and the connection reconnects to be counted again.                     *)
(***************************************************************************)
Counted(f) == IF f = "wan" THEN {"connecting", "open"} ELSE {"open"}

PoolAccounting ==
  \A w \in Ids : flavour \in {"wan", "mcc"} /\ Serving(w) =>
     nrc[w] = Cardinality({i \in DOMAIN pool[w] :
                             pool[w][i].s \in Counted(flavour)})

(***************************************************************************)
(* The test ends: every loader reports and the controller stops, unless a *)
(* loader dies (the http loader's division by a zero request count).  The *)
(* mcc master never stops; there every worker's service ends, its         *)
(* connections closed and its core stopped, and goes on reporting.        *)
(***************************************************************************)
TestEnds ==
  <>(\/ stopped \/ \E w \in Ids : wst[w] = "dead"
     \/ flavour = "mcc" /\ \A w \in Ids : wst[w] = "done")

=============================================================================
