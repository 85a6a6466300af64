---------------------------- MODULE MCStreamGen ----------------------------
(* One captured stream of 100 bytes ending in "\r\n\r\n", over two       *)
(* buckets; nb_concur 3, so that it is copied three times and the sweep    *)
(* plays three of the four nodes at once.  With frag_rate 0 every data     *)
(* packet is a complete one, and pkt_type_cnt's bound only matters for     *)
(* fragments, so MAX_RATE_BOUND is taken as 0.                              *)
EXTENDS StreamGen

MCChunks == {[len |-> 100, ends |-> {100}]}
MCNodeIds == 1..4
MCNParts == {1}
MCIsns == {10000000}
MCClock == {5000}

\* No action reads out, only writes it: states that differ in out alone
\* have the same successors, and are explored once.
MCView == <<hash, bkt, nd, alive, stage, stores, ncopy, cb, pos, cnt, npart, ptype>>
====
