----------------------------- MODULE ByteQueue ------------------------------
(***************************************************************************)
(* What the growable buffer promises (spec.md 4.1 and 7): it is a FIFO of *)
(* bytes.  Bytes are added at the back (append, or a read into end()      *)
(* followed by add_size) and taken from the front (consume).  Making room *)
(* never changes the bytes held.                                           *)
(***************************************************************************)
EXTENDS Naturals, Sequences, SequencesExt

CONSTANTS Bytes

VARIABLE q

Init == q = <<>>

\* Bytes added at the back: the old contents are a prefix of the new.
Put == q' \in Seq(Bytes) /\ IsPrefix(q, q')

\* Bytes taken from the front: the new contents are a suffix of the old.
Take == IsSuffix(q', q)

Next == Put \/ Take

Spec == Init /\ [][Next]_q

=============================================================================
