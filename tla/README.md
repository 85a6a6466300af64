# TLA+ models of mcc

This directory holds the model-checking project for the mcc load generator in
`src/`: TLA+ modules written from the C++ source, the TLC configurations that
check them, and `PROJECT.json`, which records the components, the runs, the
mutants, the source line each definition models, the findings and the hazards.

## The system

mcc runs one *reactor* per core (`src/src/reactor.cc`), each on its own
thread. A reactor never sleeps. Every iteration of `reactor::run` does three
things in order:

1. it ticks the timer manager (`timer.cc`);
2. it drains its task queue;
3. it calls every registered poller once:
   - the cross-core poller (`smp::poll_queues`) when there is more than one core;
   - the signal poller;
   - the epoll or mepoll poller, which is registered lazily.

The parts and how they interact:

| part | source | state | interacts with |
|---|---|---|---|
| cross-core fabric | `smp.h`, `smp.cc` | per ordered pair of cores: a pending and a completed SPSC ring of 128 slots, plus a staging vector in front of each | every core's reactor; the distributor builds on it |
| reactor and stop protocol | `reactor.cc`, `reactor.h` | `stopping_`, task queue, pollers, connections | fabric (stop broadcast), timers, backends |
| timer manager | `timer.cc`, `timer.h` | multimap from trigger time to timer (function, interval, repeat count) | reactor (tick each iteration) |
| buffer | `buffer.h` | `b_ <= e_ <= cap_` over a heap array | connections (input and output) |
| POSIX connection and epoll backend | `posix_connection.cc`, `epoll.cc`, `pollfd.*` | connection state, `pfd_`, the poll_state's requested and registered events | reactor (I/O poller), connector, application callbacks |
| mTCP connection and mepoll backend | `mtcp_connection.cc`, `mepoll.cc` | the same, over mTCP sockets | reactor, I/O scheduler |
| connectors | `posix_connector.cc`, `mtcp_connector.cc` | local address pool | connection (attach, reconnect) |
| distributor | `distributor.h` | one service per worker core, a shared `ended_services_` counter | fabric; applications |
| single-process load generators | `apps/echo_client`, `apps/http_loader`, `apps/wan_loader`, `apps/mcc` | each core's client service; core 0's tasks (the mcc client's RTT log) | distributor; connections |
| I/O scheduler | `io_sched.cc` | mTCP queues | mTCP stack thread |
| distributed load test | `apps/distributed_{wan,http}_loader/controller.cc`, `loader.cc`, `apps/distributed_mcc/mcc_master.cc`, `mcc_worker.cc`, `tcp_server.cc` | controller: `workers_online`, `workers_finished`, `worker_desc`, `worker_conns`; loader: its controller connection, the start time, its service's pool | the controller's `tcp_server`; each loader's distributor and connections |

Core 0 is the control core. `reactor::stop` on core 0 submits a function that
calls `engine().stop()` to every other core, then sets its own `stopping_`.
Every core leaves its loop at the top of the next iteration and closes its
connections. Core 0 then joins the worker threads.

The repository also holds a separate program, the stream generator of
`src/src/stream_gen` (a DPDK traffic generator). It has three phases, all on
one thread in the default build:

1. libnids reads a capture and hands each TCP stream's data to
   `store_stream_data`. That function keeps one `buf_node` per 4-tuple in the
   hash table `hash_buf`.
2. When fewer than `nb_concur - 1` streams were read, `copy_stream_data`
   adds copies of them at random buckets.
3. `send_streams` sweeps the buckets for ever. It plays the first
   `nb_concur` nodes one to three packets at a time. `send_packet`
   fabricates both sides of a TCP conversation from each node's fields.
   After the last ACK, `set_field` resets the node, and `send_fin` moves it
   to the head of a random bucket.

The distributed load tests (`apps/distributed_wan_loader`,
`apps/distributed_http_loader`) run several processes:

1. Every loader connects to the controller and sends a report with a note
   ("online").
2. The controller counts the notes. At `workers_online >= workers` it sends
   a command to every worker connection it holds.
3. Each loader schedules its start at the command's timestamp. At the start
   it runs its distributor: the service opens a pool of connections to the
   device under test and arms the end of the test.
4. After the end, the loader reduces its request count. One second later it
   sends a final report, and one second after that it stops.
5. The controller stops at `workers_finished >= workers`.

The distributed mcc (`apps/distributed_mcc`) runs the same steps 1 to 3
between its master and its workers. Its master never stops: it stores the
report each worker sends every second, for its display. A worker's service
opens its connections, and reconnects those that fail or drop. After the
duration it closes the connections it holds and stops its core. The worker's
core 0 goes on reporting.

## Modules

### `SmpChannel`: what the fabric promises

This is the abstract specification of spec.md section 4.4. For each ordered
pair of cores (dst, src) it keeps two FIFOs:

- `pending`: work submitted and not yet run;
- `done`: work that has run and whose completion src has not yet observed.

A submission to oneself runs inline. A poll by core `c` of peer `i` runs a
prefix of what `i` sent to `c`, and observes a prefix of the completions of
what `c` sent to `i`.

### `Smp`: the fabric as the code builds it

State. The variables follow the code's fields:

| variable | code |
|---|---|
| `pfifo[d][s]` | `qs_[d][s].pending_fifo_` |
| `pring[d][s]` | `pending_` |
| `cfifo[d][s]` | `completed_fifo_` |
| `cring[d][s]` | `completed_` |
| `ran`, `fired` | history: the functions run on `d`, and the callbacks run on `s` |
| `nsub` | numbers the submissions of each pair, so that every envelope is distinct |

Actions:

- `SubmitTo(s, d, k)` is `smp::submit_to` with all three overloads:
  - kind `"pure"`: no callback;
  - kind `"done"`: a `callback_t`;
  - kind `"value"`: a typed callback.

  A submission to self runs inline. Otherwise it is `submit_item` with
  `batch_size = 1`, so `move_pending` follows at once.
- `PollPeer(c, i)` is one iteration of the loop in `smp::poll_queues`, in the
  code's order:
  1. `flush_response_batch` of `qs_[c][i]`;
  2. `process_incoming`, whose `respond()` pushes every completion at once;
  3. `flush_request_batch` of `qs_[i][c]`;
  4. `process_completions`.

Helpers:

- `RingPush` is `spsc_queue::push(begin, end)`. It pushes the longest prefix
  that fits, and the caller erases that prefix from the staging vector.
- `ProcessQueue` is the `do ... while` of `process_queue`.

The iterations for different peers touch disjoint queues, so the model lets
them run in any order.

`Chan == INSTANCE SmpChannel WITH pending <- pring \o pfifo, done <- cring \o cfifo`
is the refinement mapping. The pending FIFO of a pair is the ring followed by
the staging list, oldest first.

### `Reactor`: the run loop and the stop protocol

`Reactor` instantiates `Smp` with the same variables, and adds three
variables per core and three for core 0's signals:

| variable | meaning |
|---|---|
| `stopping[c]` | `stopping_` |
| `drain[c]` | the peers `c` still polls in the iteration that set `stopping_` |
| `phase[c]` | `"loop"`, `"joining"` (core 0 in `join_all`), `"exited"` or `"returned"` |
| `sigpend` | core 0's `pending_signals_`, as a set of signals |
| `sigfired` | the `handle_signal_once` wrappers whose `fired` flag is set |
| `sigdue` | core 0's signal poller is still to run in the iteration in which a timer or task called `stop()` |

Actions:

- `UserSubmit`: an application `submit_to`, from a timer, a task or an I/O
  callback.
- `Stop(c)`: `reactor::stop`, called by the application from a timer, a task
  or an I/O callback. The same iteration still polls every peer, and on core
  0 the signal poller after them.
- `Raise(s)`: `signals::action`, the kernel delivering SIGINT or SIGTERM to
  the main thread (core 0), which sets the signal's bit.
- `PollSignal`: core 0's signal poller, `signals::poll_signal`. It clears the
  pending bits and runs each pending signal's handler. `run()` wrapped the
  SIGINT and SIGTERM handlers in `handle_signal_once`, so each calls `stop()`
  only the first time. One step can therefore make two `stop()` calls (both
  signals), or a second one after a timer's `stop()` in the same iteration,
  and each call broadcasts again. A `stop()` it calls leaves no peer to
  poll, because the signal poller runs after the smp poller.
- `Poll(c, i)`: `PollPeer` while the loop runs. Running a stop envelope sets
  `stopping_`. The peers after the sender are still polled in that iteration,
  because `poll_queues` visits the peers in increasing order.
- `ExitLoop(c)`: the `while (!stopping_)` test failing, after which the core
  closes its connections.
- `JoinAll`: `smp::join_all` returning.

The application calls `stop()` at most once per core. A second call in the
same iteration would only repeat the broadcast.

Signals are delivered to the main thread only. Linux hands a
process-directed signal to the main thread whenever it is running or has
nothing pending, and the busy-polling loop is almost always running. A signal
delivered to another thread aborts the process instead: that thread's
`poll_signal` calls `signal_handlers_.at()` on an empty map. This is listed as
a hazard and not modelled.

### `Timer`: the timer manager of one reactor

`timers` is the `std::multimap` `timers_`, kept as a sequence in the map's
order: by trigger time, and among equal times in insertion order, because
`insert` places a new entry at the upper bound of its key. `now` is
`system_clock::now()` in microseconds, bounded by `MaxTime`. `cursor` is the
iterator of `timer_manager::tick`: the id of the entry it designates, or
`Idle` outside `tick`. `sched` and `fired` are history variables.

- `ScheduleAtWithRepeat` is `schedule_at_with_repeat`. The interval is
  `max(1us, period)`, and `schedule_at` and `schedule_after` are special cases.
- `TickEmpty` and `TickBegin` are the start of `tick`.
- `TickStep` is one iteration of its `for` loop:
  1. it checks whether the entry is due, and returns if it is not;
  2. `alarm` runs the callback, which may itself schedule a timer;
  3. the entry is erased;
  4. a timer whose `count_` is not zero is inserted again.

  After this the loop compares and increments the erased iterator, which is
  undefined behaviour. The model allows both outcomes a real allocator gives:
  - the freed node is handed straight back to the re-inserted timer, so the
    loop goes on after the timer's new position;
  - the stale node keeps its key and links, so the loop goes on at the entry
    that followed it.

  The re-arming at trigger + interval (`Alarm`) is not stated as a
  property of its own, since it would restate that assignment. Whether a
  tick always returns is not checked either: a tick that does not return
  fires for ever, so its history has no bound that TLC could explore.

### `ByteQueue` and `Buffer`: the I/O buffer

`ByteQueue` is the abstract specification of a byte FIFO. Bytes are put at
its end and taken from its front.

`Buffer` models `buffer.h`. The record `buf` holds `mem`, `b`, `e` and `cap`,
and the window `mem[b+1 .. e]` is the content. The helpers are named after
the code's methods:

| helper | method |
|---|---|
| `MoveHead` | `move_head` |
| `Expand` | `expand` |
| `MakeRoomLen` | `make_room(len)` |
| `MakeRoom` | `make_room()` |
| `Fill` | `fill` |
| `Consume` | `consume` |

The actions are the three ways connections use a buffer:

- `AppendData` is `append`, as used by `send` for the output buffer;
- `Receive` is `make_room()` followed by a `read` into `end()` and `fill`, as
  used by `handle_read` for the input buffer;
- `ConsumeBytes` is `consume`.

Bytes outside the window hold `Junk`.
`Abstract == INSTANCE ByteQueue WITH q <- Window(buf)` is the refinement
mapping, and `ImplementsByteQueue` checks that every move of the window
(shift, expand, fill, consume) keeps the byte stream intact.

### `Connection`: a client connection, its backend and the application on it

This module models, as one program on one reactor:

- `posix_connection` (`posix_connection.cc`);
- its `pollfd` and `poll_state` (`pollfd.h`, `pollfd.cc`);
- `epoll_backend::poll` (`epoll.cc`);
- the callbacks and timer tasks of the application on the connection, chosen
  in `Init` from the constant `Apps`:
  - `echo` (`apps/echo_client/client.cc`) sends a request when connected,
    consumes the response in `on_message`, sends again, reconnects from
    `when_closed` and `when_disconnect`, and its one-shot `finish` task
    closes the connection;
  - `http` (`apps/http_loader/http_loader.cc`) answers each response with a
    request, and closes once `finish` has run;
  - `wan` (`apps/wan_loader/wan_loader_reconnect.cc`) counts connected
    connections, makes `NInteract` requests per connection and closes after
    the last response, and reconnects from `when_closed`;
  - `mcc` (`apps/mcc/client.cc`) counts connected connections, marks a
    connection for retry in `when_failed` and `when_disconnect`, reconnects
    it from a periodic task, closes listed connections from its duration task
    and sends requests from its request task;
  - `worker` (`apps/distributed_mcc/mcc_worker.cc`) reconnects at once from
    `when_failed` and `when_disconnect`, decrementing its count first.

State:

| variable | code |
|---|---|
| `st` | `state_` |
| `pfd` | `pfd_`: the id of the attachment's `pollfd`, or `Null` |
| `output`, `input` | `output_`, `input_` (as byte sequences) |
| `ps[p]` | the `poll_state` of attachment `p`: `live` (not freed), `requested` (`events_requested`) and `epoll` (`events_epoll`) |
| `sock[p]` | the kernel side of socket `p`: connect state, readable data, and the `wire` of bytes the peer received |
| `next` | the next attachment, bounded by `MaxAttach` |
| `nsent`, `sent`, `delivered` | history: the requests made, and the bytes `on_message` was handed |
| `fault` | undefined behaviour reached: `"uaf"` (freed `poll_state` used), `"null"` (null `pfd_` dereferenced), `"assert"` (a failed `assert`) |
| `disp` | where `epoll_backend::poll` is between its steps |
| `exited` | the loop has ended |
| `app` | the application, fixed for the run |
| `client` | the application's state for this connection: `counted` (its share of `conn_stat.connected`), `interact` (wan's remaining requests), `finished`, `retry` (mcc's retry mark) and `listed` (mcc's membership of `connections_`) |

A handler is an operator from a world record to the set of worlds it can
lead to. The set covers the outcomes of the system calls it makes and of the
application callbacks it runs, and `Then` composes handlers. Undefined
behaviour moves to a state with a non-empty `fault`, and no step leaves it.

The handlers are `Attach`, `Detach`, `Close`, `Cleanup`, `Send`, `SendPacket`,
`Request`, `Handshake`, `HandleWrite`, `OnMessage`, `ReadOnce`, `ReadLoop`
(recursive) and `HandleRead`. Each models its whole method, including the
callbacks it runs and the epoll updates it makes.

`epoll_backend::poll` is split where the kernel can act in between:

- `Wait` is `epoll_wait` returning a ready descriptor;
- `DispatchOut` and `DispatchIn` run the two completions;
- `DispatchRemove` applies `events_to_remove` and writes `events_epoll`.

The application callbacks are per-application definitions (`EchoOnClosed`,
`WanOnConnected`, `MccOnFailed`, `WorkerRetry`, ...) behind the dispatchers
`OnConnected`, `OnMessage`, `OnClosed`, `OnDisconnect` and `OnFailed`, which
the handlers call where `connection.h` calls the `std::function` members.
`OnRecved` is mcc's and the worker's `when_recved`, which clears `input_`.
`AppTask` runs one of the application's timer tasks (`Tasks`) between two
poll rounds, as the reactor's `tick` does.

The kernel's actions are `KEstablish`, `KRefuse`, `KData`, `KFin` and
`KReset`. `ExitLoop` is the reactor leaving its loop and closing a connected
connection.

The mTCP stack (`mtcp_connection.cc`, `mepoll.cc`) is the same module under
the variable `stack`, which `Init` picks from the constant `Stacks`. `NDEBUG`
says whether `assert()` is compiled out. The handlers that differ are split
into `Posix…` and `Mtcp…` versions, and a dispatcher picks one by `stack`:

- `Attach`: `mtcp_connection::attach` asserts `pfd_ == nullptr` right after
  it sets `pfd_`, so with `assert()` on the first connect already fails (the
  `Init` fault);
- `Close`: mTCP's does nothing unless `connected`;
- `Send`: mTCP's neither queues a zero write (those lines are commented out)
  nor cleans up after a write error (it only sets `disconnect`);
- `SoError`: mTCP's `getsockopt` returns -1 for `EINPROGRESS`;
- `ReadOnce`: mTCP's read error sets `disconnect` before `cleanup`, and its
  `EAGAIN` asks for `EPOLLIN` again.

`mtcp_epoll_backend::poll` completes `EPOLLIN` before `EPOLLOUT` and has its
removal compiled out. `Wait` records the order (`EpollSteps` or
`MepollSteps`) in `disp.steps`.

### `Distributor`: sharded services driven from core 0

This module models `distributor.h` as the four single-process load
generators use it: the echo client, `http_loader`, `wan_loader`
(`wan_loader_reconnect.cc`) and the mcc client. The application is the variable `app`.

Core 0's main lambda (`Main`) runs `start`, then `invoke_on_all(connect)`
or `invoke_on_all(running)`, then `invoke_on_all(run)` or
`invoke_on_all(end_test)`, then `when_done`. `http_loader` and
`wan_loader` also arm a core-0 task that makes the last `invoke_on_all`
again three seconds later (`HttpMain`, `WanMain`, `Rerun`). Each worker
then runs the functions in the order they were submitted:

| action | function |
|---|---|
| `Create` | `start`'s lambda, which sets the instance |
| `Invoke`, `RunService` | `invoke_on_all`; `run()` or `end_test()` schedules `finish()` `duration_` seconds later, only if `duration_ > 0` |
| `MapFn` | `map_reduce`'s mapper, whose result travels back as a completion |
| `DStop` | `distributor::stop`'s lambda, which drops the instance and stops the engine |
| `RStop` | `reactor::stop`'s broadcast `engine().stop()` |

The fabric enters as the per-pair FIFOs that `Smp` is shown to implement:

- `todo[c]` holds what core 0 submitted to worker `c`;
- `up[c]` holds what worker `c` submitted to core 0;
- `comp[c]` holds the completions of core 0's typed submissions.

`end_game` increments the plain `size_t` `ended_services_` from every worker
thread. `Finish` starts it, and `EgLoad`, `EgStore` and `EgTest` are its
load, store and test. The test may use the register's value or a fresh load,
the two outcomes a build can produce from the data race.

On core 0:

- `OnDone` is the `when_done` callback: `map_reduce` of three statistics
  (one for `wan_loader`) and a one-second one-shot task;
- `Fold` is the typed completion callback, which takes the `uint64_t` as
  `unsigned` and adds it in the `unsigned` `adder`, both modelled as
  `Width`-bit arithmetic;
- `StopTask` is that one-second task: `clients->stop()`, then
  `engine().stop()`. `wan_loader` has `clients->stop()` commented out.

One-shot tasks carry a due time on a clock of whole seconds (`now`):

- `armed[c]` holds a worker's end-of-test tasks;
- `tasks0` holds core 0's re-arm and stop tasks.

A task runs once it is due, and only while its core's loop runs. `Tick`
advances the clock only when every running core is idle and none of its
tasks is due. This encodes the assumption that submissions and callbacks
take far less than a second. With it, the order of the tasks follows
their due times: the stop, one second after `on_done`, comes before the
second arming's end of the test, `duration_ + 3` seconds in.

The fourth application is the mcc client (`apps/mcc/client.cc`). Its
main lambda (`MccMain`) runs `start` and `invoke_on_all(&client::start)`
(`Started`), then arms the RTT log task on core 0 at `now`; the one-second
statistics task only prints and is left out. On a worker:

- `MStart` is `client::start`. It arms `do_req` after `ReqDelay` and the
  duration task after `Duration` (`mtasks[c]`); `MTask` runs a due one;
- `DoReq` starts the sending (`sending[c]`); `MccDuration` stops the
  worker's engine (`stopping[c]`);
- `Sample` is a run of `n` `when_recved` callbacks in a row (`n` in
  `Batches`, which holds 1), each recording an RTT in the same bucket of
  `stats_log.rtts` (`hist[c]`, `Buckets` = `0 .. NumRtt`). `rec[c]`
  counts the samples; `nrecv[c]` counts the steps, up to `MaxSamples`;
- `Flush` is `flush_log_stats`, which clears the histogram.

`LogTask`, every `LogDuration` seconds on core 0, reads every worker's
histogram directly (not by `map_reduce`), sums it into `rtt_log`, submits
`flush_log_stats` to every worker, and scans the sum for the 50th and
99th percentile (`Scan`, `Percentiles`). `logged[c]` counts the samples
of worker `c` the logs have summed; `printed` is the last log line. When
the task runs before `start` has set every service, the read is through a
null pointer and the process dies: `fault` becomes `"segv"`. `fault` is
`"throw"` when `get_local_service` finds no instance.

### `TcpReplay` and `StreamGen`: the stream generator

`TcpReplay` is what a replay promises the device under test, stated
independently of the code. `conv[n]` is an acceptor for stream `n`'s
conversation: the handshake, the stream's bytes in order with each data
segment acknowledged, then the FIN exchange. Sequence and acknowledgement
numbers must follow the bytes sent, and every timestamp option must echo
the other side's latest TSval. A step either puts packets on the wire
(`out`), all of one stream, and that stream's acceptor must take them all
(`Play`), or it grows a stream that is not in a conversation (`Grow`).

`StreamGen` models the generator, one action per step of the thread:

- `StoreStreamData` is one data callback.
- `EndLoad` is the return of `nids_run` and `counter()`'s decision to copy.
- `CopyStep` and `CopyNextBucket` are the body and the bucket step of
  `copy_stream_data`'s loop.
- `SendTurn` is one node's turn in `send_streams`: `n_snd` calls of
  `send_packet`, the move after a last ACK, and the sweep's move to the
  next eligible node or back to bucket 0.

A turn is one step because nothing else runs while it lasts. Inside it,
`Sends` folds `SendPacket` (the pure `SendSyn`, `SendDataPkt`, `SendAck`
and `SendFin`) over the `n_snd` calls. The sweep's cursor (`cb`, `pos`)
always rests on the next node to play. `ScanFrom` skips short streams and
moves to later buckets as the `for` loop and `list_for_each_entry_safe` do.
The successor is taken before a node moves, and later buckets are read as
they are after the move.

The stream's bytes are abstracted to their number and to the offsets where
a `"\r\n\r\n"` ends, which is all `sunday_match` looks at. Header fields
that no property reads (IP ids, addresses, ports, checksums) are left out.
`out` holds the packets of the last step. Sequence numbers are kept as
naturals: `set_field` draws them below 1.1e8, so they cannot wrap within a
stream.

The refinement mapping `ConvOf` reads a conversation back from a node's
fields. `seq` is the ISN until the handshake's ACK, and one past the ISN
plus the bytes sent after it. `ack_seq` is one past the peer's ISN. `ts` and
`ts_peer` run one packet ahead in `FIN_SENT_2` and `FIN_SENT_1`, because
the FIN and the peer's FIN/ACK increment them after echoing.

### `LoadTest`: the distributed load test

`LoadTest` models one controller and `NWorkers` loaders of one of three
applications (`flavour`): the wan loader, the http loader, or mcc, whose
controller is the mcc master and whose loaders are its workers. There is
one service core per loader.

Controller state, from the controller's `main`:

- `online`, `finished`, `desc` and `wconn` are `workers_online`,
  `workers_finished`, `worker_desc` and `worker_conns`;
- `stopped` is `engine().stop()`;
- `cc` is the connections `tcp_server::accept` created, in order. Each
  records its worker, its `id_`, and the messages in flight each way.

The `id_` of a connection starts as `++nr_conns` and becomes the client id
at `set_id`. `Controller` is the controller's engine and `Master` the mcc
master's (`Server` picks by flavour); their actions are:

- `CtlNote`: `on_message` with a note, including the broadcast;
- `CtlStats`: `on_message` with a final report; for mcc, `MasterStats`
  stores a periodic report and the master never stops;
- `CtlDisconnect`: `when_disconnect`, run once the loader's side is closed
  and the bytes before the FIN are read.

Loader state and actions:

- `wst[w]` is where loader `w` is.
- `Connect` is the loader's connect together with the controller's accept.
- `Ready` sends the note. `Command` is the loader's `on_message`;
  `WorkerRecved` is the mcc worker's `when_recved`, which parses the whole
  input as one command.
- `Start` is the start task.
- `Finish` is the end of the test. `Report` is the `when_done` report task.
- `Exit` is the stop task.
- `MccReport` is the mcc worker's periodic report task. `nrep[w]` counts
  its reports, up to `MaxReports`.
- `WanLoader`, `HttpLoader` and `MccWorker` are the three loaders' main
  lambdas: the steps above that each installs. The mcc worker has no
  `Report` or `Exit`: after its duration task its core 0 goes on sending
  periodic reports.

Each service connection in `pool[w]` goes through the flavour's callbacks:

- the wan client: `WanRunning`, `WanWhenReady`, `WanOnMessage` (with
  `WhenClosed`), `WanWhenDisconnect`, `Reconnecting` and `WanEndTest`;
- the http client: `HttpConnect`, `HttpWhenReady`, `HttpOnMessage`,
  `HttpReconnect` and `HttpRun`;
- the mcc client: `WorkerStart` (its one setup task, with setup time 1),
  `MccWhenReady`, `MccWhenDisconnect` (which reconnects) and
  `DurationTask`. The duration task calls `close()` on every connection in
  `conns_` (`inl`). That also uncounts a connection that is reconnecting and
  was already uncounted, but the task then stops the service core. Only
  the last poll of that loop iteration, which `reactor::run` makes after
  `stop()`, could still see the wrong count, and `PoolAccounting` is
  stated only while the service runs. The mcc client's `when_recved` and
  `do_req` only count and send, and are left out.

`nrc` is the wan client's `stats.nr_connected`, or the mcc client's
`stats_sec.connected`, in `Width`-bit unsigned.
`resp` records whether an http request completed. `HttpReport` divides by
the completed count, so with none the process dies.

`FaultSpec` adds two faults, `Kill` and `Refused`:

- `Kill`: a loader process dies, and may be started again with the same
  client id.
- `Refused`: a service connection is refused. The wan and http clients
  install no `when_failed`. The mcc client's `MccWhenFailed` uncounts the
  connection and reconnects it.

No passing run uses `FaultSpec`. It serves the observations below.

## Runs

| run | cfg | checks | result |
|---|---|---|---|
| fabric | `MCSmp.cfg` (2 cores, ring of 1, 2 submissions per pair, kinds pure/done/value) | `TypeOK`, `ImplementsChannel`, `EventuallyDrained` | pass, about 251k states |
| stop_fifo | `MCReactorFull.cfg` (2 cores, ring of 1, 2 submissions per pair, SIGINT) | `TypeOK`, `WorkBeforeStopRuns`, `StopTerminatesUnlessStranded`, `SignalEndsRun` | pass, about 100k states |
| timer | `MCTimer.cfg` (2 timers, clock 0..4, periods 0..2, counts -1, 1, 2) | `TypeOK`, `RepeatCountHonoured`, `DueTimerFires` | pass, about 39k states |
| buffer | `MCBuffer.cfg` (2 byte values, `exp_` = 2, capacity up to 8, chunks up to 3) | `TypeOK`, `ImplementsByteQueue` | pass |
| connection | `MCConnection.cfg` (both stacks, `NDEBUG`, applications echo, http and wan, 2 interactions, 2 attachments, 2 requests, output up to 4 bytes, 1 readable chunk) | `TypeOK`, `HandshakeBeforeReady`, `NoLeakedSocket`, `ConnectedStatMatches`, `ConnectResolves` | pass, about 78k states |
| conn_use_after_free | `MCConnNoUseAfterFree.cfg` | `NoUseAfterFree` | violation: the EPOLLIN completion runs on a freed `poll_state` |
| conn_stale_input | `MCConnNoStaleInput.cfg` | `NoStaleInput` | violation: bytes of an old connection reach the next one |
| conn_lost_wakeup | `MCConnRequestedIsRegistered.cfg` | `RequestedIsRegistered` | violation: EPOLLOUT is requested but removed from epoll |
| distributor | `MCDistributor.cfg` (core 0 and one worker, the four applications, duration 2 s, 2-bit `unsigned`, mapper results 1 and 5, RTT buckets 0..3, 3 `Sample` steps of 1 or 99 samples, mcc's clock up to 4 s) | `TypeOK`, `NoMissingService`, `AllCoresExit`, `OnDoneAtMostOnce`, `LogP99`, `LogCountsOnce` | pass, about 26k states |
| dist_end_game | `MCDistEndGame.cfg` (core 0 and two workers) | `AllCoresExit` | violation: a lost update of `ended_services_` means `on_done` never fires |
| load_test | `MCLoadTest.cfg` (2 loaders, the three applications, 2 connections per core, at most 3 wan connections, 2 interactions, 1 mcc report, 3-bit `unsigned`) | `TypeOK`, `StartBarrier`, `SummaryComplete`, `PoolAccounting`, `TestEnds` | pass, about 195k states |
| streamgen | `MCStreamGen.cfg` (one 100-byte stream, 2 buckets, `nb_concur` 3, 4 nodes) | `TypeOK`, `ConcurrencyBound`, `ImplementsTcpReplay`, `ConversationCompletes`, `CopyTerminates` | pass, about 91k states |

The `conn_use_after_free`, `conn_stale_input` and `conn_lost_wakeup` runs use
the bounds of `connection`, with only the kernel stack, the echo client and
`assert()` on, as in a debug build of the POSIX client.

What the properties say:

- `RepeatCountHonoured`: a timer with a finite count runs at most that many
  times.
- `DueTimerFires`: every due entry in the map is eventually fired.
- `ImplementsByteQueue`: the buffer's window behaves as a FIFO of bytes.
- `HandshakeBeforeReady`: `on_connected` runs only after the kernel completed
  the connect.
- `NoLeakedSocket`: a socket is open only while its attachment is the
  connection's `pfd_`.
- `ConnectedStatMatches`: for the applications that count connections
  (wan, mcc, worker), the connection's share of `conn_stat.connected` is 1
  exactly while it holds a socket that completed its handshake. A callback
  that decrements twice, or forgets to, breaks it several steps later.
- `ConnectResolves`: a connecting connection eventually stops connecting.
- `NoStaleInput`: `on_message` is handed only bytes of the current socket.
- `RequestedIsRegistered`: at rest, every event the connection requested is
  registered with epoll.
- `StopTerminatesUnlessStranded`: once core 0 has called `stop()`, its
  `run()` returns from `join_all`, unless the stop function for a worker is
  stranded in core 0's `pending_fifo_` after core 0 left its loop. The only
  way shutdown hangs is the one `MCReactorStrand.cfg` shows (below).
- `SignalEndsRun`: a SIGINT delivered while core 0 runs its loop ends the
  process the same way: `run()` returns from `join_all`, unless a stop
  function is stranded.
- `NoMissingService`: no `get_local_service` call throws, because every
  function the distributor submits finds its core's instance.
- `OnDoneAtMostOnce`: `on_done` runs at most once, although `http_loader`
  and `wan_loader` arm the end of the test twice. The second arming falls
  due at 5 s, and only the stop task, one second after `on_done`, keeps it
  from running: a stop armed later lets it call `end_game` again.
- `AllCoresExit`: the application's chain ends with every core out of its
  loop. The chain is `end_game`, then `on_done`, then the one-second task,
  then the stops. For mcc, whose core 0 never stops, every worker's loop
  ends after its duration task, unless the startup null read ended the
  process first.
- `LogP99`: the 99th percentile the mcc log task prints is the first
  bucket with at most 1% of the logged samples above it. With 100 samples
  and one of them above the first bucket, the loop must break in that
  bucket; a threshold of 0.1% or a strict comparison breaks it.
- `LogCountsOnce`: while a worker runs, the logs have summed no more of
  its samples than it recorded. The log task reads the histogram and only
  submits the flush, so a log that reads again before the flush ran would
  count samples twice; the FIFO order of the worker's queue keeps that from
  happening while the worker's loop runs.
- `ImplementsTcpReplay`: every packet `send_packet` hands to the wire
  belongs to a well-formed conversation of its stream. Numbers and
  timestamp echoes must agree across `send_syn`, `send_data_pkt`,
  `send_ack` and `send_fin` and across conversations. A wrong `+ 1`
  anywhere breaks it.
- `ConcurrencyBound`: at most `nb_concur` nodes are in a conversation at
  once. A finished node jumps to the head of a random bucket in the middle
  of the sweep, so the window of the first `nb_concur` nodes shifts while
  streams in it are half-played.
- `ConversationCompletes`: every node is `CLOSED` again and again, so no
  conversation is left half-open behind the nodes the sweep keeps playing.
- `CopyTerminates`: when a stored stream sits outside bucket 0, the copy
  loop ends and sending starts.
- `StartBarrier`: a loader gets a command only once the controller has
  counted the online report of every worker's current connection, and it
  gets exactly one. A second command would schedule a start decades ahead,
  because `start_tp` accumulates `start_ts`.
- `SummaryComplete`: the controller stops only when every loader has
  reported and no report is still unread.
- `PoolAccounting`: while the service runs, the wan client's
  `nr_connected` equals the number of its connections still connecting or
  open. Both `when_closed` and `when_disconnect` decrement it, and only one
  of them may run per connection. The mcc client's `stats_sec.connected`,
  which the worker reports to the master, equals the number of its open
  connections.
- `TestEnds`: the test ends: the controller stops, or a loader dies in the
  http report's division. With mcc, whose master never stops, every
  worker's service ends.

Why the bounds are enough:

- Smp and Reactor:
  - A ring of one slot with two submissions per pair makes every path through
    `move_pending` happen: an empty push, a partial push, and a later flush of
    a backlog.
  - Two cores give both directions of a pair.
  - `MCReactorFull.cfg` lets the rings fill, so a stop can be staged
    behind earlier work or stranded. `StopTerminatesUnlessStranded` names
    the stranding as the one exception, so the run also shows that
    termination holds whenever the rings do not fill.
  - One signal, SIGINT, is delivered. SIGTERM's handler is the same code,
    and a second broadcast already happens when a timer's `stop()` and the
    signal fall in the same iteration.
- Timer: a clock of five instants lets a period-1 timer fall three periods
  behind and lets two entries fall due in the same tick. Period 0 exercises
  the `max(1us, period)` clamp, and counts 1 and 2 exercise the decrement.
- Buffer: with `exp_` = 2 and chunks of up to 3 bytes, every branch of
  `make_room` is taken:
  - the shift of the window to the front;
  - an expansion to `2 * cap_`;
  - an expansion to `size() + len`.

  A capacity of 8 allows two doublings.
- Connection: two attachments give one reconnect, and with it the
  old-socket/new-socket cases. Two requests with a two-byte payload allow a
  partial write. An output limit of 4 bytes lets a request wait in `output_`
  behind another. `NInteract` = 2 lets a wan connection send a second
  request from `on_message` before it closes. Echo, http and wan are the
  applications that pass; mcc and the worker break `NoLeakedSocket` (the
  `MCConnFailedReconnect.cfg` observation below), so they are checked separately.

- Distributor:
  - One worker is the largest configuration in which `end_game` is not raced.
    With two workers, `AllCoresExit` fails on the lost update, and
    `NoMissingService` fails on a doubled `on_done` whose second
    `map_reduce` arrives behind `distributor::stop`.
  - Mapper results of 1 and 5 fit and overflow the 2-bit `unsigned`.
  - A duration of 2 s puts the stop (`duration_` + 1) in the same second as
    the three-second re-arm, so both orders of those two tasks are explored.
    A longer duration only moves both arming times later.
  - For mcc, RTT buckets `0 .. 3` and three `Sample` steps give the
    percentile scan both its early break and its last bucket. A step
    records a run of 1 or 99 callbacks in one bucket (`Batches`), so logs
    of 99, 100 and 101 samples occur, with one or two above a bucket: the
    cases either side of the 1% boundary. The code compares
    `total_rtt - acc` with the double `total_rtt * 0.01`; for every total
    below two million the product rounds to within the same integers as
    `total_rtt / 100`, so `100 * (total - acc) <= total` is that test.
  - The clock is bounded (`Horizon`, 4 s) only for mcc, whose core 0 never
    stops: the log task runs four times, before and after the worker's
    duration task at 2 s. The other applications run until every core has
    left its loop, past the second arming at 5 s.
- StreamGen: one stored stream with `nb_concur` 3 is copied three times,
  because 1 < `nb_concur` - 1. That gives four nodes, so one node is always
  outside the window of three, and a moved node can push a half-played one
  out of it. Two buckets let a copy or a finished node land before or
  behind the sweep's cursor. Both hash values of the tuple are initial
  states, and the one that puts the stream in bucket 0 is the copy hang
  below.
  - Each node's turn of 1 to 3 packets, the rand() draws, is explored in
    full. The clock and ISN draws are single values: no guard reads them,
    and the refinement only relates them.
  - `frag_rate` 0 and a stream that ends in its terminator make every data
    packet a complete one; `MAX_RATE_BOUND` is taken as 0 because the
    counter only matters for fragments. Longer streams, fragments and a
    second tuple multiply the states past what the liveness check can
    handle within the time limit.
  - `VIEW MCView` leaves `out` out of the state fingerprint. No action and
    no property reads `out` unprimed, so states that differ in `out` alone
    have the same futures.

- LoadTest: two loaders are the least that give a barrier to cross. All three
  applications are initial states. Two connections per core with room for
  one replacement let the wan client's `Reconnecting` top up a pool after a
  close. Two interactions let `on_message` send again before it closes.
  Three loaders did not finish within the time limit. One mcc report per
  worker is enough for the master to take a report before and after a
  worker's service ends. More reports only repeat that.

## Fairness

- `PollPeer` or `Poll` is weakly fair: `reactor::run` never sleeps, and every
  iteration calls every poller.
- `PollSignal` is weakly fair for the same reason. Signal delivery gets no
  fairness.
- `ExitLoop` and `JoinAll` in `Reactor` are weakly fair: the loop test runs
  every iteration, and `join` returns once the joined thread has returned.
- In `Timer`, `TickBegin` and `TickStep` are weakly fair: `tick` runs at the
  top of every iteration, and a tick that has begun runs on to its end.
  The clock and the schedule calls get no fairness.
- In `Connection`:
  - `Wait` and the dispatch steps are weakly fair, because the loop polls
    epoll in every iteration;
  - `KEstablish(p) \/ KRefuse(p)` is weakly fair, because the kernel resolves a
    pending connect within its SYN timeout;
  - data, FIN and reset from the peer get no fairness.
- In `Distributor`, every action is weakly fair: each core's
  loop polls and ticks every iteration, a callback runs to its end, and
  the clock advances (`Tick`), so the tasks fall due. The mcc log task is
  weakly fair for the same reason. `Sample`, an answer of the server, gets
  no fairness.
- In `StreamGen`, `Next` is weakly fair: the generator is one thread that
  never blocks, so it keeps taking steps. The rand() draws get no fairness,
  so `ConversationCompletes` must hold however the nodes are moved.
- In `LoadTest`, the controller and every loader are weakly fair: each
  process's engine runs its callbacks and its due tasks as the loop turns.
  The device under test's answers, closes and resets (`PoolEvent`) get no
  fairness, so `TestEnds` must hold even if it never answers.
- Submissions and `stop()` calls get no fairness, since the application decides
  whether they happen.

`CHECK_DEADLOCK FALSE` appears only where the program really stops:

- in the reactor configurations, once every `run()` has returned;
- in the connection configurations, once the loop has exited, the
  attachments are used up, or undefined behaviour has been reached;
- in the distributor configurations, once every core has left its loop
  (the process exits), or the process has died, or, for mcc, the clock
  has reached its bound.

## Findings

See `PROJECT.json` for the source lines.

- **conn_use_after_free.** In `epoll_backend::poll`, the EPOLLOUT completion
  can throw from `send` on a reset socket. `cleanup` then frees the
  `poll_state`, and the EPOLLIN completion runs on freed memory.
- **conn_stale_input.** When data and FIN arrive together, the read loop ends
  the connection before `on_message` runs, and `attach` does not clear
  `input_`. After the reconnect, `on_message` gets the old bytes together with
  the new response.
- **conn_lost_wakeup.** `events_to_remove` is computed before the callbacks
  run. When `on_message` sends and the write returns EAGAIN, EPOLLOUT is
  requested again and then removed from epoll, so `output_` waits for an
  event that never comes.
- **dist_end_game.** Two workers run `ended_services_++` at the same time on
  a plain `size_t`. Both load 0 and both store 1, so the test
  `ended_services_ >= instances_.size() - 1` never holds. `on_done` never
  runs, and the echo client never stops.

Further observations, stated as properties that no run checks:

- `Distributor.AllCoresExit` is violated with `duration_` 0
  (`MCDistNoDuration.cfg`). This is the default `-d` of the echo client
  and of `http_loader`. `run()` then arms nothing, no service calls
  `end_game`, and the process never stops.

- `Reactor.StopTerminates` is violated (`MCReactorStrand.cfg`).
  `reactor::stop` on core 0 may leave the worker's stop function in
  `pending_fifo_` when the ring is full. The loop then exits without
  another poll (the final `poll_once()` is commented out), so the worker
  never stops and `join_all` never returns.
- `LoadTest.StartBarrier` is violated under `FaultSpec` with one kill
  (`MCLoadTestKill.cfg`, 8 states):
  1. loader 0's note is counted;
  2. the process is killed and started again with the same client id;
  3. its new note is counted before the old connection's FIN.

  `workers_online` is then 2, and the command goes out while loader 1 has
  not even connected.
- A loader killed before its note was read leaves a connection whose `id_`
  is still the accept-time `++nr_conns`. `when_disconnect` then writes
  `worker_desc` out of range (`oob` in the model) and decrements
  `workers_online` below zero, which wraps. After one such disconnect the
  test never starts, and after two it starts early.
- `LoadTest.PoolAccounting` is violated under `FaultSpec` when a wan
  service connection is refused. No `when_failed` is installed, so
  `nr_connected` keeps counting the refused connection and `Reconnecting`
  never replaces it. With mcc (`MCLoadTestMccRefused.cfg`, 48 states) a refusal runs `when_failed`, which decrements
  `stats_sec.connected` for a connection `when_ready` never counted. The
  unsigned count wraps, to 7 with 3 bits, and with 32 bits the worker
  reports some four billion connections.
- An http loader whose service completed no request divides by zero in its
  report (`total_delay.result() / total_reqs`), dies without a final
  report, and the controller waits for ever. `TestEnds` counts that death
  as an end.

- `Connection.NoLeakedSocket` is violated with mcc (`MCConnFailedReconnect.cfg`). mcc's `when_failed` marks the connection for
  retry, and its periodic task calls `reconnect`. `handle_handshake` ran the
  callback without `cleanup`, so `reconnect` overwrites `pfd_` while the
  refused socket is still open and registered: the socket leaks, and the
  old `poll_state` is freed while epoll can still report it (with `assert()`
  on, `attach`'s assertion fails instead). The distributed mcc worker
  reconnects from the same callback at once.
- `StreamGen.CopyAlwaysEnds` is violated when every stored stream hashed to
  bucket 0, or the capture held no stream at all. `copy_stream_data`'s loop
  runs `i` from `size - 1` down to 1 inside `while (!force_quit)`. It never
  finds a node, so it never returns, and nothing is ever sent.
  `CopyTerminates` is the property with that case excluded.

- `Connection.WireIsSentStream` (what the peer received is the requests, in
  order) is violated by a partial write. `send` only logs it: the unsent tail
  is neither queued in `output_` nor retried, while spec.md 4.2 says it is
  flushed on the next writable event.
- `Distributor.NoMissingService` is violated with two workers. When both
  tests see the final count, `on_done` runs twice. The second `map_reduce`
  then reaches a worker behind `distributor::stop`, and `get_local_service`
  throws.

- `Smp.NoLostCallback` is violated by the typed `submit_to` to the calling
  core: it runs the function inline and never calls the callback. No caller
  in the repository submits to itself this way.
- `Connection.DescriptorIffLive` (spec.md's descriptor invariant) is
  violated after a read error: `cleanup` runs without setting `state_`, so
  the connection stays `connected` with a null `pfd_`.
- `Connection.NoUseAfterFree` is violated on the mTCP stack too (cfg with
  `Stacks = {"mtcp"}`, `NDEBUG = TRUE`, 9 states). A FIN read in the
  `EPOLLIN` completion cleans up and frees the `poll_state`, and the
  `EPOLLOUT` completion then reads it. The `conn_use_after_free` run keeps
  to the kernel stack, so that its trace is the `epoll.cc` one.
- With mcc, `ConnectedStatMatches` fails in 9 states: a FIN ends the
  connection (`when_disconnect` decrements), the retry task reconnects, and
  the duration task closes the still-connecting connection, whose
  `when_closed` decrements again. With the worker it fails in 4 states,
  because `when_failed` decrements a count that a failed connect never
  incremented.
- With mcc and the worker, `NoUseAfterFree` also fails (9 and 5 states):
  the reconnect frees the refused socket's `poll_state` while it is still
  registered, and epoll then reports it.
- Under mTCP, a write error leaves the connection `disconnect` with its
  socket registered and no callback, so it is never reconnected.
- `Distributor.NoNullRead` is violated with mcc (`MCDistMccStart.cfg`,
  8 states). The log task is armed at `now` and runs as soon as core 0's
  loop starts, while `start`'s creation of the services is still queued on
  the workers; it reads `stats_log` through a null service.
- `Distributor.LogP50` is violated with mcc (`MCDistMccP50.cfg`). With
  the median in bucket 0, `ptr_50` stays 0, so `0 == ptr_50` holds again
  at bucket 1 and the printed 50th percentile becomes 1.
- `Distributor.LogNeverRepeats` is violated with mcc
  (`MCDistMccRepeat.cfg`). After the duration task stops a worker's loop,
  the flush submitted to it never runs, and every later log sums its last
  samples again.
- `Timer.FiringOrder` is violated when a re-armed periodic timer is inserted
  ahead of the iterator. spec.md 4.5 asks only for order among the entries
  due when `tick` starts.

## Not modelled yet

- **Distributor's reduced sum.** `Fold` keeps both truncations to
  `unsigned`, but no property states the sum: the untruncated total fails
  as soon as a partial is wider than the adder. The clock assumes every
  completion arrives within a second, so a completion later than the
  one-second stop is outside the model.
- **mTCP's AES_GCM build and the mTCP library's own threads.** The model
  treats mTCP sockets like kernel sockets.
- **Connectors' local address pool.**
- **The listening side of the TCP server, and the I/O scheduler.** `tcp_server::accept` is modelled in `LoadTest`. It installs `failedcb_` with `when_ready`, but no application sets `failedcb_`.
- **The mcc client's statistics task and the lost samples.** The
  one-second statistics task of `apps/mcc/client.cc` only prints, and is
  left out. Samples recorded between the log task's read and the flush
  are cleared without being logged; `LogCountsOnce` bounds the count from
  above, and no property states the loss. The log task reads the
  histogram as one step, so its race with the service's increments is not
  represented.
- **The load tests' periodic output**: the mcc master's display task, the
  mcc worker's log task and `do_req`, and the verbose statistics. They only
  print, send or count. Also not modelled: the configuration exit checks,
  and the mcc worker's setup time above one second.
- **Buffer growth bound.** `Buffer` bounds the array by `MaxCap` rather than
  checking a growth bound.

The hazards in `PROJECT.json` point at the lines they are about.

- **Stream generator builds and I/O.** Not modelled:
  - the `SEND_THREAD`, `OOO_SEND`, `SINGLE_STREAM` and `NON_REUSE` builds;
  - the SYN-flood generator and the statistics thread;
  - the mbuf pool and TX ring below `dpdk_send_pkt`, where a packet can be
    dropped after the node's state has advanced;
  - libnids' reassembly, which hands every callback the whole stream so far
    (`tcp_callback` never calls `nids_discard`).

  The model's data chunks are the byte counts handed over. A terminator
  that spans two chunks is not represented.

Logging, SSL, the HTTP parser and option parsing are
left out. They hold no concurrent or protocol state that the properties
distinguish.
