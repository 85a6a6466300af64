------------------------------- MODULE Reactor -------------------------------
(***************************************************************************)
(* The run loops of the per-core reactors (src/src/reactor.cc) and the    *)
(* stop protocol, composed with the cross-core fabric of module Smp.      *)
(*                                                                         *)
(* Each core runs reactor::run: while (!stopping_) { tick timers; run      *)
(* tasks; poll every poller }.  The fabric is polled by smp::poll_queues, *)
(* which visits the peers in increasing order.  reactor::stop on core 0   *)
(* submits a function calling engine().stop() to every other core, then   *)
(* sets stopping_; on any other core it only sets stopping_.  A core      *)
(* leaves the loop at the top of the next iteration, closes its           *)
(* connections, and core 0 then joins every other thread.                  *)
(*                                                                         *)
(*   stopping[c]  reactor::stopping_ of core c                            *)
(*   drain[c]     peers core c still polls in the iteration in which it   *)
(*                set stopping_ (the rest of that iteration's loop)       *)
(*   phase[c]     "loop" inside while (!stopping_), "joining" core 0 in   *)
(*                smp::join_all, "exited" a worker whose run() returned,  *)
(*                "returned" core 0 past join_all                          *)
(*   sigpend      core 0's pending_signals_, as a set of signals          *)
(*   sigfired     the handle_signal_once wrappers whose fired flag is set *)
(*   sigdue       core 0's signal poller is still to run in the iteration *)
(*                in which a timer or task called stop()                  *)
(* Timers, tasks and I/O are the application's; their only effects on    *)
(* the fabric and the loop are submissions (UserSubmit) and calls of      *)
(* stop() (Stop), which the model lets happen at any time in the loop.    *)
(* Signals are delivered to the main thread, which runs core 0.           *)
(***************************************************************************)
EXTENDS Naturals, Sequences, SequencesExt, FiniteSets

CONSTANTS NCores, QueueLength, Kinds, SelfKinds, MaxPerPair, Signals

ASSUME "stop" \in Kinds /\ "stop" \notin SelfKinds

\* The signals delivered: core 0's run() installs a handle_signal_once
\* handler for SIGINT and for SIGTERM.
ASSUME Signals \subseteq {"SIGINT", "SIGTERM"}

VARIABLES pfifo, pring, cfifo, cring, ran, fired, nsub,
          stopping, drain, phase, sigpend, sigfired, sigdue

F == INSTANCE Smp

fabric == <<pfifo, pring, cfifo, cring, ran, fired, nsub>>
loop   == <<stopping, drain, phase>>
sig    == <<sigpend, sigfired, sigdue>>
vars   == <<fabric, loop, sig>>

Cores == F!Cores


Phases == {"loop", "joining", "exited", "returned"}

Init ==
  /\ F!Init
  /\ stopping = [c \in Cores |-> FALSE]
  /\ drain    = [c \in Cores |-> {}]
  /\ phase    = [c \in Cores |-> "loop"]
  /\ sigpend  = {}
  /\ sigfired = {}
  /\ sigdue   = FALSE

(***************************************************************************)
(* The application on core s calls smp::submit_to(d, ...) from a timer,   *)
(* a task or an I/O callback: any time while s is in its loop, also in    *)
(* the iteration that set stopping_.                                       *)
(***************************************************************************)
UserSubmit(s, d, k) ==
  /\ phase[s] = "loop"
  /\ k # "stop"
  /\ F!SubmitTo(s, d, k)
  /\ UNCHANGED <<loop, sig>>

\* The envelope of the j-th submit_to(i, [] { engine().stop(); }) that
\* core 0 makes in one step.
StopEnv(i, j) == [src |-> 0, dst |-> i, n |-> nsub[i][0] + j, kind |-> "stop"]

\* submit_item of k stop envelopes on qs_[i][0]: each is staged and
\* move_pending pushes what fits, which is one push of the whole list.
StopPush(i, k) ==
  F!RingPush(pring[i][0], pfifo[i][0] \o [j \in 1 .. k |-> StopEnv(i, j)])

(***************************************************************************)
(* k calls of reactor::stop on core c in one step: each submits a stop    *)
(* function to every core of targets, then sets stopping_.                *)
(***************************************************************************)
StopTo(c, targets, k) ==
  /\ pring' = [d \in Cores |-> [s \in Cores |->
                 IF s = c /\ d \in targets THEN StopPush(d, k)[1] ELSE pring[d][s]]]
  /\ pfifo' = [d \in Cores |-> [s \in Cores |->
                 IF s = c /\ d \in targets THEN StopPush(d, k)[2] ELSE pfifo[d][s]]]
  /\ nsub' = [d \in Cores |-> [s \in Cores |->
                IF s = c /\ d \in targets THEN nsub[d][s] + k ELSE nsub[d][s]]]
  /\ stopping' = [stopping EXCEPT ![c] = @ \/ k > 0]
  /\ UNCHANGED <<cfifo, cring, ran, fired, phase>>

\* for (i = 1; i < smp::count; i++) submit_to(i, stop) on core 0 only.
StopTargets(c) == IF c = 0 THEN Cores \ {0} ELSE {}

\* What core c still polls in the iteration of a stop() called from a
\* timer or a task: every peer, and on core 0 the signal poller after them.
Rest(c) ==
  /\ drain' = [drain EXCEPT ![c] = Cores \ {c}]
  /\ sigdue' = (sigdue \/ c = 0)
  /\ UNCHANGED <<sigpend, sigfired>>

(***************************************************************************)
(* reactor::stop on core c, called by the application from a timer, a     *)
(* task or an I/O callback.  A second call in the same iteration would    *)
(* only repeat the broadcast, so the application calls it once per core.  *)
(***************************************************************************)
\* A stop that broadcasts nothing (mutant).
StopLocal(c) ==
  /\ phase[c] = "loop" /\ ~stopping[c]
  /\ StopTo(c, {}, 1)
  /\ Rest(c)

\* A broadcast loop stopping one core early (mutant).
StopOffByOne(c) ==
  /\ phase[c] = "loop" /\ ~stopping[c]
  /\ StopTo(c, IF c = 0 THEN 1 .. NCores - 2 ELSE {}, 1)
  /\ Rest(c)

\* A stop that hands its envelope straight to the ring, ahead of what is
\* still staged in pending_fifo_ (mutant).
StopBypassFifo(c) ==
  LET byp(d) == F!RingPush(pring[d][0], <<StopEnv(d, 1)>>)
  IN
  /\ phase[c] = "loop"
  /\ ~stopping[c]
  /\ pring' = [d \in Cores |-> [s \in Cores |->
                 IF s = c /\ d \in StopTargets(c) THEN byp(d)[1] ELSE pring[d][s]]]
  /\ pfifo' = [d \in Cores |-> [s \in Cores |->
                 IF s = c /\ d \in StopTargets(c) THEN byp(d)[2] \o pfifo[d][s]
                                                  ELSE pfifo[d][s]]]
  /\ nsub' = [d \in Cores |-> [s \in Cores |->
                IF s = c /\ d \in StopTargets(c) THEN nsub[d][s] + 1 ELSE nsub[d][s]]]
  /\ stopping' = [stopping EXCEPT ![c] = TRUE]
  /\ Rest(c)
  /\ UNCHANGED <<cfifo, cring, ran, fired, phase>>

Stop(c) ==
  /\ phase[c] = "loop" /\ ~stopping[c]
  /\ StopTo(c, StopTargets(c), 1)
  /\ Rest(c)

(***************************************************************************)
(* signals::action, run on the main thread when the kernel delivers s:    *)
(* fetch_or of its bit into core 0's pending_signals_.  Once the signal's *)
(* once-wrapper has fired, a further delivery only sets and clears the    *)
(* bit, so the model delivers each signal until its handler has run.      *)
(***************************************************************************)
Raise(s) ==
  /\ phase[0] = "loop"
  /\ s \notin sigpend \cup sigfired
  /\ sigpend' = sigpend \cup {s}
  /\ UNCHANGED <<fabric, loop, sigfired, sigdue>>

(***************************************************************************)
(* Core 0's signal poller (signals::poll_signal), polled after the smp    *)
(* poller: it clears the pending bits and runs each pending signal's      *)
(* handler.  run() wrapped SIGINT's and SIGTERM's in handle_signal_once,  *)
(* which calls stop() only the first time, so one step makes as many      *)
(* stop() calls as pending signals not fired before.  After a stop() from *)
(* a timer it still runs once in that iteration, after the last peer; a   *)
(* stop() it calls leaves no peer to poll.                                *)
(***************************************************************************)
\* The once-wrapper with its test inverted (mutant).
PollSignalInverted ==
  /\ phase[0] = "loop"
  /\ \/ ~stopping[0] /\ sigpend # {}
     \/ sigdue /\ drain[0] = {}
  /\ sigpend' = {}
  /\ sigfired' = sigfired \cup sigpend
  /\ sigdue' = FALSE
  /\ StopTo(0, StopTargets(0), Cardinality(sigpend \cap sigfired))
  /\ UNCHANGED drain

PollSignal ==
  /\ phase[0] = "loop"
  /\ \/ ~stopping[0] /\ sigpend # {}
     \/ sigdue /\ drain[0] = {}
  /\ sigpend' = {}
  /\ sigfired' = sigfired \cup sigpend
  /\ sigdue' = FALSE
  /\ StopTo(0, StopTargets(0), Cardinality(sigpend \ sigfired))
  /\ UNCHANGED drain

(***************************************************************************)
(* One iteration of poll_queues on core c for peer i.  While stopping_ is *)
(* false every peer may be polled; once it is set only the peers left in  *)
(* the current iteration are.  Running a stop envelope calls stop() on c, *)
(* which sets stopping_; the batch and the loop over the peers carry on,  *)
(* so the peers after i are still polled in this iteration.               *)
(***************************************************************************)
Poll(c, i) ==
  LET stopRun == \E j \in 1 .. Len(pring[c][i]) : pring[c][i][j].kind = "stop"
  IN
  /\ phase[c] = "loop"
  /\ ~stopping[c] \/ i \in drain[c]
  /\ F!PollPeer(c, i)
  /\ stopping' = [stopping EXCEPT ![c] = @ \/ stopRun]
  /\ drain' = [drain EXCEPT ![c] =
                 IF stopping[c] THEN @ \ {i}
                 ELSE IF stopRun THEN {j \in Cores : j > i /\ j # c}
                 ELSE @]
  /\ UNCHANGED <<phase, sig>>

(***************************************************************************)
(* The top of the loop sees stopping_: connections are closed (owned by   *)
(* the core, no effect on the fabric), and core 0 enters join_all.        *)
(***************************************************************************)
ExitLoop(c) ==
  /\ phase[c] = "loop"
  /\ stopping[c]
  /\ drain[c] = {} /\ (c = 0 => ~sigdue)
  /\ phase' = [phase EXCEPT ![c] = IF c = 0 THEN "joining" ELSE "exited"]
  /\ UNCHANGED <<fabric, stopping, drain, sig>>

\* smp::join_all returns once the thread of every other core has returned.
JoinAll ==
  /\ phase[0] = "joining"
  /\ \A i \in Cores \ {0} : phase[i] = "exited"
  /\ phase' = [phase EXCEPT ![0] = "returned"]
  /\ UNCHANGED <<fabric, stopping, drain, sig>>

Next ==
  \/ \E s, d \in Cores, k \in Kinds : UserSubmit(s, d, k)
  \/ \E c \in Cores : Stop(c)
  \/ \E s \in Signals : Raise(s)
  \/ PollSignal
  \/ \E c, i \in Cores : Poll(c, i)
  \/ \E c \in Cores : ExitLoop(c)
  \/ JoinAll

(***************************************************************************)
(* The loop never sleeps: every iteration polls every peer and the       *)
(* signal poller and then tests stopping_, and join_all is a blocking     *)
(* wait that returns once its threads have.  Nothing forces the           *)
(* application to submit or to stop, or the kernel to deliver a signal.  *)
(***************************************************************************)
Fairness ==
  /\ \A c, i \in Cores : WF_vars(Poll(c, i))
  /\ \A c \in Cores : WF_vars(ExitLoop(c))
  /\ WF_vars(PollSignal)
  /\ WF_vars(JoinAll)

Spec == Init /\ [][Next]_vars /\ Fairness

-----------------------------------------------------------------------------

TypeOK ==
  /\ F!TypeOK
  /\ stopping \in [Cores -> BOOLEAN]
  /\ drain \in [Cores -> SUBSET Cores]
  /\ sigpend \subseteq Signals /\ sigfired \subseteq Signals
  /\ sigdue \in BOOLEAN
  /\ phase \in [Cores -> Phases]

(***************************************************************************)
(* Work core 0 submitted to a worker before calling stop() has run on     *)
(* that worker by the time the worker's run() returns: the stop function  *)
(* travels behind it through pending_fifo_ and the ring of the pair, so   *)
(* the worker reaches it only after everything staged earlier.            *)
(***************************************************************************)
StopOf(i) == SelectSeq(ran[i][0], LAMBDA e : e.kind = "stop")

WorkBeforeStopRuns ==
  \A i \in Cores \ {0} :
    phase[i] = "exited" /\ StopOf(i) # <<>> =>
      \A e \in ToSet(pring[i][0] \o pfifo[i][0]) : e.n > StopOf(i)[1].n

(***************************************************************************)
(* spec.md 3.1: stop() on core 0 broadcasts the stop to every other core  *)
(* and core 0 waits for their threads before returning.  Once core 0 has  *)
(* set stopping_, its run() eventually returns from join_all.             *)
(***************************************************************************)
StopTerminates == stopping[0] ~> phase[0] = "returned"

(***************************************************************************)
(* The stop protocol fails to end the process only by stranding: once     *)
(* core 0 has set stopping_, either its run() returns from join_all, or   *)
(* core 0 has left its loop (so no flush_request_batch runs on it again)  *)
(* while the stop function for some worker is still staged in its         *)
(* pending_fifo_ behind a full ring.  reactor::stop's broadcast, the      *)
(* stop function's engine().stop() on the worker and join_all must all be *)
(* right for nothing else to block the shutdown.                          *)
(***************************************************************************)
Stranded ==
  /\ phase[0] # "loop"
  /\ \E i \in Cores \ {0} : \E e \in ToSet(pfifo[i][0]) : e.kind = "stop"

StopTerminatesUnlessStranded ==
  stopping[0] ~> (phase[0] = "returned" \/ Stranded)


(***************************************************************************)
(* A SIGINT or SIGTERM delivered while core 0 runs its loop ends the      *)
(* process: the signal poller runs the handler run() installed, its       *)
(* stop() broadcasts to the workers and join_all returns, unless the      *)
(* broadcast is stranded.  It needs signals::action, poll_signal's        *)
(* clearing, the once-wrapper and the stop protocol all to be right.      *)
(***************************************************************************)
SignalEndsRun ==
  \A s \in Signals : s \in sigpend ~> (phase[0] = "returned" \/ Stranded)

=============================================================================
