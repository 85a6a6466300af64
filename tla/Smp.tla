-------------------------------- MODULE Smp --------------------------------
(***************************************************************************)
(* The cross-core message fabric of src/include/smp.h and src/src/smp.cc.  *)
(*                                                                         *)
(* smp::qs_[d][s] is one smp_message_queue per ordered pair of cores.  It  *)
(* holds four sequences of envelopes (func_wrapper pointers):              *)
(*   pfifo[d][s]  pending_fifo_    staging list, touched only by core s    *)
(*   pring[d][s]  pending_         SPSC ring, pushed by s, popped by d     *)
(*   cfifo[d][s]  completed_fifo_  staging list, touched only by core d    *)
(*   cring[d][s]  completed_       SPSC ring, pushed by d, popped by s     *)
(* Both rings have the fixed capacity QueueLength (queue_length = 128).    *)
(* ran and fired are history variables: the envelopes whose function ran  *)
(* on dst, and those whose completion callback ran on src.  nsub numbers   *)
(* the submissions of each pair so that every envelope is distinct.        *)
(*                                                                         *)
(* One step of core c towards peer i is the body of the loop of            *)
(* smp::poll_queues for that i.  The iterations for different peers touch  *)
(* disjoint queues, so the model lets them run in any order.               *)
(***************************************************************************)
EXTENDS Naturals, Sequences, SequencesExt

CONSTANTS NCores, QueueLength, Kinds, SelfKinds, MaxPerPair

ASSUME NCores \in Nat \ {0}
ASSUME QueueLength \in Nat \ {0}
ASSUME SelfKinds \subseteq Kinds
ASSUME MaxPerPair \in Nat

Cores == 0 .. NCores - 1

\* "pure": async_pure_func without callback; "done": async_pure_func with a
\* callback_t; "value": async_func<Func, T> with std::function<void(T)>.
\* Other kinds are functions without callback that a composing module gives
\* a meaning to.
HasCallback(k) == k \in {"done", "value"}

Env == [src : Cores, dst : Cores, n : Nat \ {0}, kind : Kinds]

VARIABLES pfifo, pring, cfifo, cring, ran, fired, nsub

fabric == <<pfifo, pring, cfifo, cring, ran, fired, nsub>>

PairSeqs(v) == [d \in Cores |-> [s \in Cores |-> v]]

Init ==
  /\ pfifo = PairSeqs(<<>>)
  /\ pring = PairSeqs(<<>>)
  /\ cfifo = PairSeqs(<<>>)
  /\ cring = PairSeqs(<<>>)
  /\ ran   = PairSeqs(<<>>)
  /\ fired = PairSeqs(<<>>)
  /\ nsub  = PairSeqs(0)

(***************************************************************************)
(* spsc_queue::push(begin, end) pushes the longest prefix that fits; the   *)
(* caller then erases what was pushed from its staging vector.  The result *)
(* is the pair <<new ring, new staging list>>.                             *)
(***************************************************************************)
\* A push that ignores the ring's capacity (mutant).
RingPushUnbounded(ring, fifo) == <<ring \o fifo, <<>>>>

RingPush(ring, fifo) ==
  LET n == IF Len(fifo) <= QueueLength - Len(ring)
             THEN Len(fifo) ELSE QueueLength - Len(ring)
  IN  <<ring \o SubSeq(fifo, 1, n), SubSeq(fifo, n + 1, Len(fifo))>>

\* flush_request_batch: move_pending if the staging list is not empty.
FlushRequestSkipped(ring, fifo) == <<ring, fifo>>

FlushRequestBatch(ring, fifo) == RingPush(ring, fifo)

\* process_queue with its do-while loop stopping one item early (mutant).
ProcessQueueShort(ring) == SubSeq(ring, 1, Len(ring) - 1)

\* process_queue: pops one item, then all the rest, and runs the callback
\* on each of them; the result is the sequence of items processed.
ProcessQueue(ring) == ring

\* Envelopes whose completion runs a user callback (complete()).
Completions(batch) == SelectSeq(batch, LAMBDA e : HasCallback(e.kind))

(***************************************************************************)
(* smp::submit_to(t, func[, cb]) on core s.  For t = s the function runs   *)
(* inline; the callback_t variant then calls cb, the typed variant never   *)
(* calls its callback.  Otherwise submit_item appends the envelope to the  *)
(* staging list and, the list having reached batch_size = 1, move_pending  *)
(* pushes what fits into the ring.                                         *)
(***************************************************************************)
SubmitTo(s, d, k) ==
  LET e == [src |-> s, dst |-> d, n |-> nsub[d][s] + 1, kind |-> k]
      pushed == RingPush(pring[d][s], Append(pfifo[d][s], e))
  IN
  /\ nsub[d][s] < MaxPerPair
  /\ s = d => k \in SelfKinds
  /\ nsub' = [nsub EXCEPT ![d][s] = @ + 1]
  /\ IF s = d
       THEN /\ ran' = [ran EXCEPT ![d][s] = Append(@, e)]
            /\ fired' = IF k = "done"
                          THEN [fired EXCEPT ![d][s] = Append(@, e)]
                          ELSE fired
            /\ UNCHANGED <<pfifo, pring, cfifo, cring>>
       ELSE /\ pring' = [pring EXCEPT ![d][s] = pushed[1]]
            /\ pfifo' = [pfifo EXCEPT ![d][s] = pushed[2]]
            /\ UNCHANGED <<cfifo, cring, ran, fired>>

(***************************************************************************)
(* One iteration of the loop of smp::poll_queues on core c for peer i:     *)
(*   rxq = qs_[c][i]: flush_response_batch, then process_incoming, whose   *)
(*        process() runs each function and respond()s it: the envelope is  *)
(*        appended to completed_fifo_ and flushed (batch_size = 1);        *)
(*   txq = qs_[i][c]: flush_request_batch, then process_completions, which *)
(*        runs the callback of each completed envelope and deletes it.     *)
(* Successive respond()s each push what fits, which is the same as one     *)
(* push of the whole staging list, since only c pushes that ring.          *)
(***************************************************************************)
PollPeer(c, i) ==
  LET batch   == ProcessQueue(pring[c][i])
      rx      == RingPush(cring[c][i], cfifo[c][i] \o batch)
      tx      == FlushRequestBatch(pring[i][c], pfifo[i][c])
      observed == ProcessQueue(cring[i][c])
  IN
  /\ c # i
  /\ pring' = [pring EXCEPT ![c][i] = <<>>, ![i][c] = tx[1]]
  /\ pfifo' = [pfifo EXCEPT ![i][c] = tx[2]]
  /\ cring' = [cring EXCEPT ![c][i] = rx[1], ![i][c] = <<>>]
  /\ cfifo' = [cfifo EXCEPT ![c][i] = rx[2]]
  /\ ran' = [ran EXCEPT ![c][i] = @ \o batch]
  /\ fired' = [fired EXCEPT ![i][c] = @ \o Completions(observed)]
  /\ UNCHANGED nsub

Next ==
  \/ \E s, d \in Cores, k \in Kinds : SubmitTo(s, d, k)
  \/ \E c, i \in Cores : PollPeer(c, i)

(***************************************************************************)
(* reactor::run never sleeps: every iteration calls every poller, so the   *)
(* smp poller of each core runs again and again.                           *)
(***************************************************************************)
Fairness == \A c, i \in Cores : c # i => WF_fabric(PollPeer(c, i))

Spec == Init /\ [][Next]_fabric /\ Fairness

-----------------------------------------------------------------------------

TypeOK ==
  /\ \A d, s \in Cores :
       /\ pfifo[d][s] \in Seq(Env)
       /\ pring[d][s] \in Seq(Env) /\ Len(pring[d][s]) <= QueueLength
       /\ cfifo[d][s] \in Seq(Env)
       /\ cring[d][s] \in Seq(Env) /\ Len(cring[d][s]) <= QueueLength
       /\ ran[d][s] \in Seq(Env)
       /\ fired[d][s] \in Seq(Env)
       /\ nsub[d][s] \in Nat

\* What is in flight for the pair (d, s), oldest first.
InFlight(d, s) == pring[d][s] \o pfifo[d][s] \o cring[d][s] \o cfifo[d][s]

(***************************************************************************)
(* Every function that ran on behalf of a submission with a callback has  *)
(* had that callback run on the submitting core, or its envelope is still *)
(* on its way back.  smp::submit_to documents no exception for t = self.  *)
(***************************************************************************)
NoLostCallback ==
  \A d, s \in Cores :
    \A j \in 1 .. Len(ran[d][s]) :
      HasCallback(ran[d][s][j].kind) =>
        ran[d][s][j] \in ToSet(fired[d][s] \o cring[d][s] \o cfifo[d][s])

\* The fabric implements the abstract FIFO channel of SmpChannel.
Chan == INSTANCE SmpChannel WITH
          pending <- [d \in Cores |-> [s \in Cores |->
                        pring[d][s] \o pfifo[d][s]]],
          done    <- [d \in Cores |-> [s \in Cores |->
                        cring[d][s] \o cfifo[d][s]]]

ImplementsChannel == Chan!Spec

(***************************************************************************)
(* Every submission eventually runs on its destination and its completion  *)
(* eventually reaches the submitting core: all rings and staging lists end *)
(* up empty.  It fails if an envelope can stay in a staging list after its *)
(* ring had no room and nothing pushes it later.                           *)
(***************************************************************************)
Drained ==
  \A d, s \in Cores : InFlight(d, s) = <<>>

EventuallyDrained == <>[]Drained

=============================================================================
