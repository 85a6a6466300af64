----------------------------- MODULE Distributor -----------------------------
(***************************************************************************)
(* The distributor (src/include/distributor.h) as the load generators of  *)
(* one process drive it from core 0: the echo client                      *)
(* (apps/echo_client/client.cc), http_loader (apps/http_loader) and        *)
(* wan_loader (apps/wan_loader/wan_loader_reconnect.cc) and the mcc      *)
(* client (apps/mcc/client.cc), the variable app.  Each runs one service  *)
(* per worker core, started, invoked, reduced and stopped from core 0;    *)
(* the mcc client's services stop themselves, and its core 0 runs a       *)
(* periodic log task that reads the services' RTT histograms directly.    *)
(*                                                                         *)
(* Cross-core calls go through the fabric, which the Smp module shows to   *)
(* implement per-pair FIFOs (SmpChannel); this module uses those FIFOs:    *)
(* todo[c] holds what core 0 submitted to worker c, up[c] what worker c    *)
(* submitted to core 0, and comp[c] the completions of core 0's typed      *)
(* submissions to c.  A submitted function is a name: "create" (start),   *)
(* "invoke" (invoke_on_all of connect or running), "run" (invoke_on_all   *)
(* of run or end_test), the mapper's name (map_reduce), "dstop"            *)
(* (distributor::stop) and "rstop" (reactor::stop's engine().stop()).      *)
(*                                                                         *)
(* end_game runs on every worker core and does ended_services_++ and the   *)
(* test on a plain size_t: a data race.  The model splits it into the      *)
(* load, the store and the test, and lets the test use either the value    *)
(* in the register or a fresh load: the outcomes an optimised or an        *)
(* unoptimised build can produce.                                          *)
(*                                                                         *)
(* One-shot tasks fall due at whole seconds of now: the end of the test    *)
(* duration_ seconds after run() or end_test(), the second arming three   *)
(* seconds after the start (http_loader, wan_loader), and the stop one     *)
(* second after on_done.  Submissions, callbacks and loop tests take far  *)
(* less than a second, so the clock advances only when every running core *)
(* is idle and no task of a running core is due.                          *)
(***************************************************************************)
EXTENDS Naturals, Sequences

LOCAL INSTANCE SequencesExt

CONSTANTS NCores, Width, Partials, Apps, Duration,
          NumRtt,      \* NUM_RTT: the last histogram bucket holds the rest
          MaxSamples,  \* the Sample steps of a worker, at most
          Batches,     \* the runs of samples one Sample step records
          ReqDelay,    \* wait_time_ + setup_time_, the start of do_req
          LogDuration, \* log_duration, the period of the log task
          Horizon      \* the last second considered: mcc's core 0 never stops

ASSUME NCores \in Nat \ {0, 1} /\ Width \in Nat \ {0}
ASSUME Apps \subseteq {"echo", "http", "wan", "mcc"} /\ Duration \in Nat
ASSUME NumRtt \in Nat \ {0} /\ ReqDelay \in Nat /\ LogDuration \in Nat \ {0}
ASSUME MaxSamples \in Nat /\ Horizon \in Nat
ASSUME 1 \in Batches /\ Batches \subseteq Nat \ {0}

Cores   == 0 .. NCores - 1
Workers == 1 .. NCores - 1

\* The values a mapper (a uint64_t statistic of the shard) may return.
ASSUME Partials \subseteq Nat

\* The conversion of a value to a Width-bit unsigned.
Unsigned(x) == x % (2 ^ Width)

\* The mappers an on_done reduces, one adder each: the echo client and
\* http_loader reduce three, wan_loader the request count only.
Mappers == {"total_reqs", "rx_bytes", "acc_delay"}

Reduced(a) ==
  IF a = "wan" THEN <<"total_reqs">> ELSE <<"total_reqs", "rx_bytes", "acc_delay">>

\* The functions main submits to every worker: start, then invoke_on_all
\* of connect or running and of run or end_test, or of client::start.
Started(a) ==
  IF a = "mcc" THEN <<"create", "mstart">> ELSE <<"create", "invoke", "run">>

\* The buckets of metrics::rtts, an RTT of 100 us each, NUM_RTT the rest.
Buckets == 0 .. NumRtt

NoRtts == [b \in Buckets |-> 0]

VARIABLES
  app,       \* the application
  now,       \* the clock, in seconds
  main,      \* core 0's main lambda has made its submissions
  todo,      \* todo[c]: functions core 0 submitted to worker c, oldest first
  up,        \* up[c]: functions worker c submitted to core 0
  comp,      \* comp[c]: map_reduce results computed on c, not yet processed
  service,   \* service[c]: instances_[c].service is set
  armed,     \* armed[c]: due times of the service's end-of-test tasks
  eg,        \* eg[c]: where worker c is in end_game
  reg,       \* reg[c]: ended_services_ as worker c loaded and incremented it
  ended,     \* ended_services_
  tasks0,    \* the one-shot tasks of core 0 not yet run: [due, kind]
  adders,    \* adders[m]: result_ of the adder (reqs, bytes, total_delay) of m
  stopping,  \* stopping[c]: reactor::stopping_ of core c
  exited,    \* exited[c]: core c has left its loop
  ndone,     \* history: the number of on_done runs
  mtasks,    \* mtasks[c]: the mcc service's one-shot tasks not yet run
  sending,   \* sending[c]: do_req has run on c
  hist,      \* hist[c]: stats_log.rtts of the mcc service on c
  rec,       \* history: rec[c], the RTT samples c recorded
  nrecv,     \* nrecv[c]: the Sample steps of c so far
  logged,    \* history: logged[c], c's samples summed by log tasks
  printed,   \* the last log: rtt_log, 50th-RTT and 99th-RTT
  fault      \* "throw": get_local_service threw no_sharded_instance_exception;
             \* "segv": core 0 read through an unset instance pointer

vars == <<app, now, main, todo, up, comp, service, armed, eg, reg, ended,
          tasks0, adders, stopping, exited, ndone, fault, mtasks, sending,
          hist, rec, nrecv, logged, printed>>

\* The state only the mcc client changes.
mccvars == <<mtasks, sending, hist, rec, nrecv, logged, printed>>

\* The end-of-test state of the workers, and the state of the cores' loops.
endvars  == <<armed, eg, reg, ended>>
loopvars == <<stopping, exited>>

Init ==
  /\ app \in Apps
  /\ now = 0
  /\ main = FALSE
  /\ todo = [c \in Workers |-> <<>>]
  /\ up = [c \in Workers |-> <<>>]
  /\ comp = [c \in Workers |-> <<>>]
  /\ service = [c \in Cores |-> FALSE]
  /\ armed = [c \in Workers |-> <<>>]
  /\ eg = [c \in Workers |-> "idle"]
  /\ reg = [c \in Workers |-> 0]
  /\ ended = 0
  /\ tasks0 = <<>>
  /\ adders = [m \in Mappers |-> 0]
  /\ stopping = [c \in Cores |-> FALSE]
  /\ exited = [c \in Cores |-> FALSE]
  /\ ndone = 0
  /\ fault = "none"
  /\ mtasks = [c \in Workers |-> {}]
  /\ sending = [c \in Workers |-> FALSE]
  /\ hist = [c \in Workers |-> NoRtts]
  /\ rec = [c \in Workers |-> 0]
  /\ nrecv = [c \in Workers |-> 0]
  /\ logged = [c \in Workers |-> 0]
  /\ printed = [rtt |-> NoRtts, p50 |-> 0, p99 |-> 0]

\* Core 0 submits the functions fs to every worker core 1 .. size() - 1.
SubmitAll(t, fs) == [c \in Workers |-> t[c] \o fs]

\* A one-shot task of core 0, add_oneshot_task_after(d, ...).
Task(d, kind) == [due |-> now + d, kind |-> kind]

(***************************************************************************)
(* The main lambda, before engine().run(): start, invoke_on_all(connect)  *)
(* or invoke_on_all(running), invoke_on_all(run) or invoke_on_all(end_test)*)
(* and when_done; http_loader and wan_loader first arm a task that makes  *)
(* the same invoke_on_all(run or end_test) three seconds later.            *)
(***************************************************************************)
EchoMain == tasks0' = tasks0

\* The second invoke_on_all(run) made at once, without the task (mutant).
HttpMainNoDelay == tasks0' = Append(tasks0, Task(0, "rerun"))

HttpMain == tasks0' = Append(tasks0, Task(3, "rerun"))

WanMain == tasks0' = Append(tasks0, Task(3, "rerun"))

\* The mcc client arms its log task at system_clock::now(), every
\* log_duration seconds; its one-second statistics task, which only
\* reduces and prints counters, is left out.
MccMain == tasks0' = Append(tasks0, Task(0, "log"))

Main ==
  /\ ~main
  /\ main' = TRUE
  /\ todo' = SubmitAll(todo, Started(app))
  /\ CASE app = "echo" -> EchoMain
       [] app = "http" -> HttpMain
       [] app = "wan"  -> WanMain
       [] app = "mcc"  -> MccMain
  /\ UNCHANGED <<app, now, up, comp, service, endvars, adders, loopvars,
                 ndone, fault, mccvars>>

\* Worker c runs the oldest function core 0 submitted to it.
Takes(c, f) ==
  /\ fault = "none" /\ ~exited[c] /\ eg[c] = "idle"
  /\ todo[c] # <<>> /\ Head(todo[c]) = f
  /\ todo' = [todo EXCEPT ![c] = Tail(@)]

\* start: the lambda sets instances_[cpu_id].service.
Create(c) ==
  /\ Takes(c, "create")
  /\ service' = [service EXCEPT ![c] = TRUE]
  /\ UNCHANGED <<app, now, main, up, comp, endvars, tasks0, adders, loopvars,
                 ndone, fault, mccvars>>

\* get_local_service() throws when the local instance is not set.
GetLocalService(c) == fault' = IF service[c] THEN fault ELSE "throw"

\* invoke_on_all(&http_client::connect or ::running, ...): the method
\* needs the instance.
Invoke(c) ==
  /\ Takes(c, "invoke")
  /\ GetLocalService(c)
  /\ UNCHANGED <<app, now, main, up, comp, service, endvars, tasks0, adders,
                 loopvars, ndone, mccvars>>

\* run() (echo client, http_loader) and end_test() (wan_loader): if
\* (duration_ > 0), a one-shot task duration_ seconds later.
RunService(c) ==
  /\ Takes(c, "run")
  /\ GetLocalService(c)
  /\ armed' = IF Duration > 0 THEN [armed EXCEPT ![c] = Append(@, now + Duration)]
              ELSE armed
  /\ UNCHANGED <<app, now, main, up, comp, service, eg, reg, ended, tasks0,
                 adders, loopvars, ndone, mccvars>>

\* map_reduce's function: the local instance's mapper result goes back to
\* core 0 as the completion of the typed submission.
MapFn(c) ==
  /\ \E m \in Mappers, v \in Partials :
       /\ Takes(c, m)
       /\ comp' = [comp EXCEPT ![c] = Append(@, <<m, v>>)]
  /\ GetLocalService(c)
  /\ UNCHANGED <<app, now, main, up, service, endvars, tasks0, adders,
                 loopvars, ndone, mccvars>>

\* distributor::stop's function: returns if the instance is already gone,
\* else drops it and calls http_client::stop, which is engine().stop().
DStop(c) ==
  /\ Takes(c, "dstop")
  /\ service' = [service EXCEPT ![c] = FALSE]
  /\ stopping' = [stopping EXCEPT ![c] = @ \/ service[c]]
  /\ UNCHANGED <<app, now, main, up, comp, endvars, tasks0, adders, exited,
                 ndone, fault, mccvars>>

\* reactor::stop's function on a worker: engine().stop().
RStop(c) ==
  /\ Takes(c, "rstop")
  /\ stopping' = [stopping EXCEPT ![c] = TRUE]
  /\ UNCHANGED <<app, now, main, up, comp, service, endvars, tasks0, adders,
                 exited, ndone, fault, mccvars>>

(***************************************************************************)
(* The mcc client's service on a worker.  client::start arms the          *)
(* connection setup, do_req wait_time_ + setup_time_ seconds later and    *)
(* the duration task duration_ seconds later (unconditionally); the        *)
(* connections themselves are the Connection model's concern.             *)
(***************************************************************************)
MStart(c) ==
  /\ Takes(c, "mstart")
  /\ GetLocalService(c)
  /\ mtasks' = [mtasks EXCEPT ![c] = {[due |-> now + ReqDelay, kind |-> "req"],
                                       [due |-> now + Duration, kind |-> "duration"]}]
  /\ UNCHANGED <<app, now, main, up, comp, service, endvars, tasks0, adders,
                 loopvars, ndone, sending, hist, rec, nrecv, logged, printed>>

\* A one-shot task of the mcc service falls due (tick, while stopping_ is
\* false) and is run.
MTask(c, kind) ==
  /\ fault = "none" /\ ~exited[c] /\ ~stopping[c] /\ eg[c] = "idle"
  /\ \E t \in mtasks[c] :
       /\ t.kind = kind /\ t.due <= now
       /\ mtasks' = [mtasks EXCEPT ![c] = @ \ {t}]

\* do_req: the service starts sending requests.
DoReq(c) ==
  /\ MTask(c, "req")
  /\ sending' = [sending EXCEPT ![c] = TRUE]
  /\ UNCHANGED <<app, now, main, todo, up, comp, service, endvars, tasks0,
                 adders, loopvars, ndone, fault, hist, rec, nrecv, logged, printed>>

\* The duration task: closes every connection and calls engine().stop().
MccDuration(c) ==
  /\ MTask(c, "duration")
  /\ stopping' = [stopping EXCEPT ![c] = TRUE]
  /\ UNCHANGED <<app, now, main, todo, up, comp, service, endvars, tasks0,
                 adders, exited, ndone, fault, sending, hist, rec, nrecv, logged,
                 printed>>

\* when_recved on an open connection: the RTT's bucket,
\* min(rtt / 100000, NUM_RTT), of stats_log.rtts is incremented.  One
\* step is n callbacks in a row with RTTs in the same bucket; with n = 1
\* every interleaving of single callbacks is kept, and larger n reach the
\* totals of a hundred samples and more at which the 1% test bites.
Sample(c) ==
  /\ fault = "none" /\ sending[c] /\ ~stopping[c] /\ ~exited[c]
  /\ nrecv[c] < MaxSamples
  /\ nrecv' = [nrecv EXCEPT ![c] = @ + 1]
  /\ \E n \in Batches, b \in Buckets :
       /\ hist' = [hist EXCEPT ![c][b] = @ + n]
       /\ rec' = [rec EXCEPT ![c] = @ + n]
  /\ UNCHANGED <<app, now, main, todo, up, comp, service, endvars, tasks0,
                 adders, loopvars, ndone, fault, mtasks, sending, logged,
                 printed>>

\* invoke_on_all(&client::flush_log_stats): the counters and the RTT
\* histogram of stats_log are cleared.
Flush(c) ==
  /\ Takes(c, "flush")
  /\ GetLocalService(c)
  /\ hist' = [hist EXCEPT ![c] = NoRtts]
  /\ UNCHANGED <<app, now, main, up, comp, service, endvars, tasks0, adders,
                 loopvars, ndone, mtasks, sending, rec, nrecv, logged, printed>>

(***************************************************************************)
(* The end-of-test task fires at the top of an iteration of the worker's  *)
(* loop (tick runs only while stopping_ is false) and calls finish(),     *)
(* which calls container_->end_game(this).  end_game runs within that     *)
(* callback: the worker does nothing else until it returns.               *)
(***************************************************************************)
\* The task left scheduled after it ran, as a periodic task (mutant).
FinishRearm(c) ==
  /\ fault = "none" /\ ~exited[c] /\ ~stopping[c] /\ eg[c] = "idle"
  /\ \E i \in DOMAIN armed[c] : armed[c][i] <= now
  /\ eg' = [eg EXCEPT ![c] = "load"]
  /\ UNCHANGED <<app, now, main, todo, up, comp, service, armed, reg, ended,
                 tasks0, adders, loopvars, ndone, fault, mccvars>>

Finish(c) ==
  /\ fault = "none" /\ ~exited[c] /\ ~stopping[c] /\ eg[c] = "idle"
  /\ \E i \in DOMAIN armed[c] :
       /\ armed[c][i] <= now
       /\ armed' = [armed EXCEPT ![c] = RemoveAt(@, i)]
  /\ eg' = [eg EXCEPT ![c] = "load"]
  /\ UNCHANGED <<app, now, main, todo, up, comp, service, reg, ended, tasks0,
                 adders, loopvars, ndone, fault, mccvars>>

\* ended_services_++: the load ...
EgLoad(c) ==
  /\ fault = "none" /\ eg[c] = "load"
  /\ reg' = [reg EXCEPT ![c] = ended]
  /\ eg' = [eg EXCEPT ![c] = "store"]
  /\ UNCHANGED <<app, now, main, todo, up, comp, service, armed, ended, tasks0,
                 adders, loopvars, ndone, fault, mccvars>>

\* ... and the store of the incremented value.
EgStore(c) ==
  /\ fault = "none" /\ eg[c] = "store"
  /\ reg' = [reg EXCEPT ![c] = @ + 1]
  /\ ended' = reg[c] + 1
  /\ eg' = [eg EXCEPT ![c] = "test"]
  /\ UNCHANGED <<app, now, main, todo, up, comp, service, armed, tasks0,
                 adders, loopvars, ndone, fault, mccvars>>

\* The test ended_services_ >= instances_.size() - 1 (mutant: >).
AllEndedStrict(v) == v > NCores - 1

AllEnded(v) == v >= NCores - 1

\* if (...) smp::submit_to(0, [this] { on_done_(); }): the test reads the
\* register or loads ended_services_ again.
EgTest(c) ==
  /\ fault = "none" /\ eg[c] = "test"
  /\ \E v \in {reg[c], ended} :
       up' = IF AllEnded(v) THEN [up EXCEPT ![c] = Append(@, "done")] ELSE up
  /\ eg' = [eg EXCEPT ![c] = "idle"]
  /\ UNCHANGED <<app, now, main, todo, comp, service, armed, reg, ended,
                 tasks0, adders, loopvars, ndone, fault, mccvars>>

(***************************************************************************)
(* on_done's map_reduce calls, each a typed submission to every worker    *)
(* 1 .. size() - 1.  Mutant: the loop from 0, as in the commented-out      *)
(* version; submit_to(0) on core 0 runs the function inline, and core 0    *)
(* has no instance.                                                        *)
(***************************************************************************)
MapReduceFromZero ==
  /\ todo' = SubmitAll(todo, Reduced(app))
  /\ fault' = IF service[0] THEN fault ELSE "throw"

MapReduce ==
  /\ todo' = SubmitAll(todo, Reduced(app))
  /\ fault' = fault

(***************************************************************************)
(* Core 0 runs on_done_ for a worker's end_game: the when_done callback   *)
(* of each application reduces its statistics and arms the stop task one *)
(* second later.                                                          *)
(***************************************************************************)
\* The stop task armed three seconds after on_done (mutant).
OnDoneLateStop(c) ==
  /\ fault = "none" /\ main /\ ~exited[0]
  /\ up[c] # <<>>
  /\ up' = [up EXCEPT ![c] = Tail(@)]
  /\ MapReduce
  /\ tasks0' = Append(tasks0, Task(3, "stop"))
  /\ ndone' = ndone + 1
  /\ UNCHANGED <<app, now, main, comp, service, endvars, adders, loopvars,
                 mccvars>>

OnDone(c) ==
  /\ fault = "none" /\ main /\ ~exited[0]
  /\ up[c] # <<>>
  /\ up' = [up EXCEPT ![c] = Tail(@)]
  /\ MapReduce
  /\ tasks0' = Append(tasks0, Task(1, "stop"))
  /\ ndone' = ndone + 1
  /\ UNCHANGED <<app, now, main, comp, service, endvars, adders, loopvars,
                 mccvars>>

\* The completion of map_reduce's submission: the callback takes the
\* uint64_t result as unsigned and adder adds it to its unsigned result_.
Fold(c) ==
  /\ fault = "none" /\ main /\ ~exited[0]
  /\ comp[c] # <<>>
  /\ comp' = [comp EXCEPT ![c] = Tail(@)]
  /\ LET m == Head(comp[c])[1]
         v == Head(comp[c])[2]
     IN  adders' = [adders EXCEPT ![m] = Unsigned(@ + Unsigned(v))]
  /\ UNCHANGED <<app, now, main, todo, up, service, endvars, tasks0, loopvars,
                 ndone, fault, mccvars>>

\* Core 0's task i falls due (tick, while stopping_ is false) ...
Due0At(i, kind) ==
  /\ fault = "none" /\ ~stopping[0]
  /\ tasks0[i].kind = kind /\ tasks0[i].due <= now

\* ... and, a one-shot task, is run and dropped.
Due0(i, kind) ==
  /\ Due0At(i, kind)
  /\ tasks0' = RemoveAt(tasks0, i)

\* http_loader's and wan_loader's three-second task: invoke_on_all(run)
\* or invoke_on_all(end_test) again.
Rerun ==
  /\ \E i \in DOMAIN tasks0 : Due0(i, "rerun")
  /\ todo' = SubmitAll(todo, <<"run">>)
  /\ UNCHANGED <<app, now, main, up, comp, service, endvars, adders, loopvars,
                 ndone, fault, mccvars>>

\* The stop task: clients->stop() (not in wan_loader, where it is commented
\* out), then engine().stop(), which on core 0 submits engine().stop() to
\* every worker and sets stopping_.
StopTask ==
  /\ \E i \in DOMAIN tasks0 : Due0(i, "stop")
  /\ todo' = SubmitAll(todo, IF app = "wan" THEN <<"rstop">>
                             ELSE <<"dstop", "rstop">>)
  /\ stopping' = [stopping EXCEPT ![0] = TRUE]
  /\ UNCHANGED <<app, now, main, up, comp, service, endvars, adders, exited,
                 ndone, fault, mccvars>>

(***************************************************************************)
(* The mcc client's log task on core 0.  The percentile loop of the log,  *)
(* for (ptr = 0; ptr < NUM_RTT; ptr++), with acc and ptr_50.              *)
(***************************************************************************)
\* The break test with 0.001 for 0.01 (mutant).
BelowOnePerMille(total, acc) == 1000 * (total - acc) <= total

BelowOnePercent(total, acc) == 100 * (total - acc) <= total

RECURSIVE Scan(_, _, _, _, _)
Scan(h, total, ptr, acc, p50) ==
  IF ptr = NumRtt THEN [p50 |-> p50, p99 |-> ptr]
  ELSE LET a   == acc + h[ptr]
           q50 == IF p50 = 0 /\ a >= total \div 2 THEN ptr ELSE p50
       IN  IF BelowOnePercent(total, a) THEN [p50 |-> q50, p99 |-> ptr]
           ELSE Scan(h, total, ptr + 1, a, q50)

Percentiles(h) == Scan(h, SumFunction(h), 0, 0, 0)

\* invoke_on_all(&client::flush_log_stats) (mutant: left out).
LogFlushNone == todo' = todo

LogFlush == todo' = SubmitAll(todo, <<"flush">>)

(***************************************************************************)
(* The log task, every log_duration seconds from the start: for i in 1 ..  *)
(* smp::count - 1 it adds instances_[i].service->stats_log.rtts into       *)
(* rtt_log, without a submission and whether or not start's creation has  *)
(* reached core i; has every worker flush; prints the total and the 50th  *)
(* and 99th percentile buckets; and clears rtt_log.  A null service is a  *)
(* read through address 0.  Its four map_reduce calls of counters, which *)
(* only print, are left out.  The read of a histogram races with the      *)
(* worker's increments; a sample it misses is flushed unread, as one      *)
(* recorded after the read is.                                             *)
(***************************************************************************)
LogTask ==
  /\ \E i \in DOMAIN tasks0 :
       /\ Due0At(i, "log")
       /\ tasks0' = [tasks0 EXCEPT ![i].due = @ + LogDuration]
  /\ IF \A c \in Workers : service[c]
     THEN LET rtt == [b \in Buckets |->
                       SumFunction([c \in Workers |-> hist[c][b]])]
          IN  /\ LogFlush
              /\ logged' = [c \in Workers |-> logged[c] + SumFunction(hist[c])]
              /\ printed' = [rtt |-> rtt, p50 |-> Percentiles(rtt).p50,
                             p99 |-> Percentiles(rtt).p99]
              /\ fault' = fault
     ELSE /\ fault' = "segv"
          /\ UNCHANGED <<todo, logged, printed>>
  /\ UNCHANGED <<app, now, main, up, comp, service, endvars, adders, loopvars,
                 ndone, mtasks, sending, hist, rec, nrecv>>

\* while (!stopping_) fails at the top of the next iteration.
ExitLoop(c) ==
  /\ fault = "none" /\ stopping[c] /\ ~exited[c]
  /\ c # 0 => eg[c] = "idle"
  /\ exited' = [exited EXCEPT ![c] = TRUE]
  /\ UNCHANGED <<app, now, main, todo, up, comp, service, endvars, tasks0,
                 adders, stopping, ndone, fault, mccvars>>

\* A core with nothing to do before the next second: out of its loop, or
\* running with its queues empty and no task due.
Idle0 ==
  \/ exited[0]
  \/ /\ ~stopping[0]
     /\ \A c \in Workers : up[c] = <<>> /\ comp[c] = <<>>
     /\ \A i \in DOMAIN tasks0 : tasks0[i].due > now

IdleWorker(c) ==
  \/ exited[c]
  \/ /\ ~stopping[c] /\ todo[c] = <<>> /\ eg[c] = "idle"
     /\ \A i \in DOMAIN armed[c] : armed[c][i] > now
     /\ \A t \in mtasks[c] : t.due > now

\* A running core has a task that will fall due.
Pending ==
  \/ ~stopping[0] /\ tasks0 # <<>>
  \/ \E c \in Workers : ~stopping[c] /\ (armed[c] # <<>> \/ mtasks[c] # {})

\* A second passes.
Tick ==
  /\ fault = "none" /\ main /\ Idle0 /\ \A c \in Workers : IdleWorker(c)
  /\ Pending /\ (app = "mcc" => now < Horizon)
  /\ now' = now + 1
  /\ UNCHANGED <<app, main, todo, up, comp, service, endvars, tasks0, adders,
                 loopvars, ndone, fault, mccvars>>

Worker(c) ==
  \/ Create(c) \/ Invoke(c) \/ RunService(c) \/ MapFn(c) \/ DStop(c)
  \/ RStop(c) \/ Finish(c) \/ EgLoad(c) \/ EgStore(c) \/ EgTest(c)
  \/ MStart(c) \/ DoReq(c) \/ MccDuration(c) \/ Flush(c)

Next ==
  \/ Main
  \/ \E c \in Workers : Worker(c) \/ OnDone(c) \/ Fold(c) \/ Sample(c)
  \/ Rerun \/ StopTask \/ LogTask \/ Tick
  \/ \E c \in Cores : ExitLoop(c)

(***************************************************************************)
(* Every reactor runs its timers, its smp poller and its loop test in      *)
(* every iteration and never sleeps, a callback runs to its end, and the   *)
(* clock advances.  An RTT sample needs a response, which may not come.   *)
(***************************************************************************)
Fairness ==
  /\ WF_vars(Main) /\ WF_vars(Rerun) /\ WF_vars(StopTask) /\ WF_vars(Tick)
  /\ WF_vars(LogTask)
  /\ \A c \in Workers : WF_vars(Worker(c)) /\ WF_vars(OnDone(c))
                        /\ WF_vars(Fold(c))
  /\ \A c \in Cores : WF_vars(ExitLoop(c))

Spec == Init /\ [][Next]_vars /\ Fairness

-----------------------------------------------------------------------------

TypeOK ==
  /\ app \in Apps /\ now \in Nat
  /\ main \in BOOLEAN /\ fault \in {"none", "throw", "segv"}
  /\ todo \in [Workers -> Seq({"create", "invoke", "run", "dstop", "rstop",
                               "mstart", "flush"} \cup Mappers)]
  /\ up \in [Workers -> Seq({"done"})]
  /\ comp \in [Workers -> Seq(Mappers \X Nat)]
  /\ service \in [Cores -> BOOLEAN] /\ ~service[0]
  /\ armed \in [Workers -> Seq(Nat)]
  /\ eg \in [Workers -> {"idle", "load", "store", "test"}]
  /\ ended \in 0 .. NCores - 1
  /\ reg \in [Workers -> 0 .. NCores - 1]
  /\ tasks0 \in Seq([due : Nat, kind : {"rerun", "stop", "log"}])
  /\ adders \in [Mappers -> 0 .. 2 ^ Width - 1]
  /\ stopping \in [Cores -> BOOLEAN] /\ exited \in [Cores -> BOOLEAN]
  /\ mtasks \in [Workers -> SUBSET [due : Nat, kind : {"req", "duration"}]]
  /\ sending \in [Workers -> BOOLEAN]
  /\ hist \in [Workers -> [Buckets -> Nat]]
  /\ rec \in [Workers -> Nat] /\ nrecv \in [Workers -> 0 .. MaxSamples]
  /\ logged \in [Workers -> Nat]
  /\ printed \in [rtt : [Buckets -> Nat], p50 : Buckets, p99 : Buckets]

(***************************************************************************)
(* No get_local_service call throws: every function the distributor        *)
(* submits to a core finds that core's instance, because start's creation *)
(* reaches each worker ahead of the invocations and the reductions, and    *)
(* distributor::stop's removal after them.                                 *)
(***************************************************************************)
NoMissingService == fault # "throw"

(***************************************************************************)
(* spec.md 4.6: once every shard has called end_game, on_done fires on     *)
(* core 0; its stop task stops the engines, so the load test ends with     *)
(* every core out of its loop.  The mcc client's services stop themselves *)
(* after duration_ seconds and its core 0 runs until a signal, so there   *)
(* the workers leave their loops, unless the process has died first.      *)
(***************************************************************************)
Stopped == IF app = "mcc" THEN Workers ELSE Cores

AllCoresExit == <>(fault = "segv" \/ \A c \in Stopped : exited[c])

(***************************************************************************)
(* spec.md 4.6: on_done fires exactly once; here, at most once.  http_loader *)
(* and wan_loader arm the end of the test twice, at the start and three    *)
(* seconds later, so each service calls end_game twice unless the stop     *)
(* one second after on_done comes first.                                   *)
(***************************************************************************)
OnDoneAtMostOnce == ndone <= 1

(***************************************************************************)
(* The mcc log: the 99th-RTT it prints is the first bucket at which at     *)
(* most 1% of the samples it summed lie above, the reference P99Ref over   *)
(* every histogram the workers' samples produce.                           *)
(***************************************************************************)
Prefix(h, p) == SumFunctionOnSet(h, 0 .. p)

P99Ref(h) ==
  Min({p \in Buckets : 100 * (SumFunction(h) - Prefix(h, p)) <= SumFunction(h)})

LogP99 == printed.p99 = P99Ref(printed.rtt)

(***************************************************************************)
(* The mcc log task reads every worker's stats_log.rtts and then submits   *)
(* flush_log_stats, which the worker runs before the next log: while a     *)
(* worker runs, no RTT sample of it is summed by two logs.                 *)
(***************************************************************************)
LogCountsOnce == \A c \in Workers : ~stopping[c] => logged[c] <= rec[c]

(***************************************************************************)
(* Observations (README), which the code does not satisfy.                 *)
(*                                                                         *)
(* The 50th-RTT is the first bucket whose running count reaches half the  *)
(* total; the loop's test 0 == ptr_50 also holds after it chose bucket 0, *)
(* so a median in bucket 0 is replaced by the next bucket.                *)
(***************************************************************************)
P50Ref(h) == Min({p \in Buckets : Prefix(h, p) >= SumFunction(h) \div 2})

LogP50 == printed.p50 = P50Ref(printed.rtt)

\* No RTT sample is summed by two logs, even after its worker stopped: a
\* stopped worker never runs the flush, so every later log repeats it.
LogNeverRepeats == \A c \in Workers : logged[c] <= rec[c]

\* The log task never reads through an unset instances_[i].service: its
\* first run, at system_clock::now(), races with start's creation.
NoNullRead == fault # "segv"

====
