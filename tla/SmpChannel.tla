----------------------------- MODULE SmpChannel -----------------------------
(***************************************************************************)
(* What the cross-core fabric promises (spec.md 4.4), with no rings, no    *)
(* staging FIFOs and no batching: for every ordered pair (dst, src) of     *)
(* cores there is one FIFO of submitted work not yet run on dst, and one   *)
(* FIFO of work already run whose completion src has not yet observed.    *)
(* A submission to oneself runs the function, and its callback if it has  *)
(* one, inline.  A poll of core c towards peer i runs some prefix of the   *)
(* work i sent to c and observes some prefix of the completions of work c  *)
(* sent to i.                                                              *)
(***************************************************************************)
EXTENDS Naturals, Sequences

CONSTANTS NCores, Kinds, SelfKinds, MaxPerPair

Cores == 0 .. NCores - 1

\* "done": submit_to(t, fn, cb) with a void callback; "value": with a
\* typed result callback.  Every other kind has no callback.
HasCallback(k) == k \in {"done", "value"}

Env == [src : Cores, dst : Cores, n : Nat \ {0}, kind : Kinds]

VARIABLES pending, done, ran, fired, nsub

vars == <<pending, done, ran, fired, nsub>>

PairSeqs(v) == [d \in Cores |-> [s \in Cores |-> v]]

Init ==
  /\ pending = PairSeqs(<<>>)
  /\ done    = PairSeqs(<<>>)
  /\ ran     = PairSeqs(<<>>)
  /\ fired   = PairSeqs(<<>>)
  /\ nsub    = PairSeqs(0)

Submit(s, d, k) ==
  LET e == [src |-> s, dst |-> d, n |-> nsub[d][s] + 1, kind |-> k]
  IN
  /\ nsub[d][s] < MaxPerPair
  /\ s = d => k \in SelfKinds
  /\ nsub' = [nsub EXCEPT ![d][s] = @ + 1]
  /\ IF s = d
       THEN /\ ran' = [ran EXCEPT ![d][s] = Append(@, e)]
            /\ fired' = IF HasCallback(k)
                          THEN [fired EXCEPT ![d][s] = Append(@, e)]
                          ELSE fired
            /\ UNCHANGED <<pending, done>>
       ELSE /\ pending' = [pending EXCEPT ![d][s] = Append(@, e)]
            /\ UNCHANGED <<done, ran, fired>>

CallbackOnes(q) == SelectSeq(q, LAMBDA e : HasCallback(e.kind))

\* Core c polls peer i: runs the first a items i sent to c and observes
\* the first b completions of what c sent to i.
Poll(c, i) ==
  /\ c # i
  /\ \E a \in 0 .. Len(pending[c][i]), b \in 0 .. Len(done[i][c]) :
       LET run == SubSeq(pending[c][i], 1, a)
           obs == SubSeq(done[i][c], 1, b)
       IN
       /\ pending' = [pending EXCEPT ![c][i] = SubSeq(@, a + 1, Len(@))]
       /\ ran' = [ran EXCEPT ![c][i] = @ \o run]
       /\ done' = [done EXCEPT ![c][i] = @ \o run,
                               ![i][c] = SubSeq(@, b + 1, Len(@))]
       /\ fired' = [fired EXCEPT ![i][c] = @ \o CallbackOnes(obs)]
       /\ UNCHANGED nsub

Next ==
  \/ \E s, d \in Cores, k \in Kinds : Submit(s, d, k)
  \/ \E c, i \in Cores : Poll(c, i)

Spec == Init /\ [][Next]_vars

=============================================================================
