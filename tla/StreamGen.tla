----------------------------- MODULE StreamGen -----------------------------
(***************************************************************************)
(* The stream generator of src/src/stream_gen (single sending thread, the *)
(* build without SEND_THREAD, OOO_SEND, NO_ACK or ORIGINAL_TUPLE4).        *)
(*                                                                         *)
(*  - load: libnids hands every data chunk of a captured TCP stream to    *)
(*    store_stream_data, which appends it to the buf_node of its 4-tuple  *)
(*    in the hash table hash_buf, creating the node when none matches;    *)
(*  - copy: when fewer than nb_concur - 1 streams were read,               *)
(*    copy_stream_data adds copies of stored nodes at random buckets;     *)
(*  - send: send_streams sweeps the buckets in order and plays the first  *)
(*    nb_concur eligible nodes 1 to 3 packets at a time; send_packet      *)
(*    fabricates both sides of a TCP conversation from the node's state,  *)
(*    and after the last ACK the node is reset by set_field and moved to  *)
(*    the head of a random bucket.                                        *)
(*                                                                         *)
(* A stream's bytes are abstracted to their number and to the offsets at  *)
(* which a "\r\n\r\n" ends (what sunday_match looks for).  Header fields  *)
(* that no property reads (IP ids, addresses, ports, checksums) are left  *)
(* out; out is the list of packets the last step handed to dpdk_send_pkt. *)
(* Sequence numbers are uint32_t, but set_field draws them below          *)
(* 110000000 and a stream adds at most its length, so they never wrap and *)
(* are kept as naturals.                                                   *)
(***************************************************************************)
EXTENDS Integers, Sequences, FiniteSets, SequencesExt

CONSTANTS
  Tuples,      \* 4-tuples of the captured streams
  NBuckets,    \* nids_params.n_tcp_streams, the size of the bucket array
  Chunks,      \* data chunks libnids may deliver: [len, ends]
  MaxStores,   \* bound on the data callbacks of the load phase
  NConcur,     \* nb_concur (-c)
  NParts,      \* values n_part = 1 + rand() % 10 may take
  FragRate,    \* frag_rate (-r)
  RateBound,   \* MAX_RATE_BOUND
  LenFixed,    \* is_len_fixed (-l given)
  LenCut,      \* len_cut
  MaxSegSize,  \* MAX_SEG_SIZE
  Isns,        \* values of rand() % 100000000 + 10000000
  Clock,       \* values of TIMEVAL_TO_TS(gettimeofday())
  NodeIds      \* buf_node addresses, 1..N

ASSUME NodeIds \subseteq Nat \ {0} /\ FragRate \in 0..RateBound
ASSUME \A c \in Chunks : c.len > 0 /\ c.ends \subseteq 4..c.len

NoNode == 0
Buckets == 0..NBuckets-1
TcpStates == {"CLOSED", "SYN_SENT", "SYN_RCVD", "ESTABLISHED", "CLOSING",
              "FIN_SENT_1", "FIN_SENT_2"}

VARIABLES
  hash,    \* mkhash: seeded at random by nids_init
  bkt,     \* hash_buf.buf_list: the nodes of each bucket, in list order
  nd,      \* the buf_node at each address
  alive,   \* addresses allocated by insert_buf_node
  stage,   \* "load" (nids_run), "copy" (copy_stream_data), "send"
  stores,  \* data callbacks delivered so far
  ncopy,   \* nb_copy
  cb,      \* loop cursor: the bucket index i
  pos,     \* loop cursor: the node to visit next in bucket cb, or NoNode
  cnt,     \* cnt of copy_stream_data and of send_streams
  npart,   \* n_part
  ptype,   \* pkt_type_cnt, the static counter of get_pkt_type
  out      \* packets handed to dpdk_send_pkt by the last step

vars == <<hash, bkt, nd, alive, stage, stores, ncopy, cb, pos, cnt,
          npart, ptype, out>>

Pkt(dir, flags, seq, ack, len, tsval, tsecr) ==
  [dir |-> dir, flags |-> flags, seq |-> seq, ack |-> ack, len |-> len,
   tsval |-> tsval, tsecr |-> tsecr]

First(s) == IF s = <<>> THEN NoNode ELSE Head(s)

\* The node after n in list s, the q of list_for_each_entry_safe.
Succ(s, n) ==
  LET i == CHOOSE i \in 1..Len(s) : s[i] = n
  IN IF i < Len(s) THEN s[i + 1] ELSE NoNode

Unlink(s, n) == SelectSeq(s, LAMBDA x : x # n)

\* set_field: fresh sequence numbers, zero timestamps, CLOSED, offset 0.
SetField(r, isn, ack) ==
  [r EXCEPT !.seq = isn, !.ack = ack, !.ts = 0, !.tsp = 0,
            !.state = "CLOSED", !.offset = 0]

\* insert_buf_node: a new node at the tail of bucket b.
InsertBufNode(b, t, len, ends) ==
  LET n == Min(NodeIds \ alive) IN
  /\ alive # NodeIds
  /\ \E isn, ack \in Isns :
       nd' = [nd EXCEPT ![n] = SetField([tup |-> t, len |-> len, ends |-> ends,
                                          state |-> "CLOSED", offset |-> 0,
                                          seq |-> 0, ack |-> 0, ts |-> 0,
                                          tsp |-> 0], isn, ack)]
  /\ alive' = alive \cup {n}
  /\ bkt' = [bkt EXCEPT ![b] = Append(@, n)]

\* get_buf_node: the first node of bucket b whose tuple is t.
GetBufNode(t, b) ==
  LET ix == {i \in 1..Len(bkt[b]) : nd[bkt[b][i]].tup = t}
  IN IF ix = {} THEN NoNode ELSE bkt[b][Min(ix)]

---------------------------------------------------------------------------
(* Load phase.                                                             *)

\* store_stream_data(tup, data, length, NIDS_DATA) for a chunk c.
StoreStreamData(t, c) ==
  LET b == hash[t]  n == GetBufNode(t, b) IN
  /\ stage = "load" /\ stores < MaxStores
  /\ stores' = stores + 1
  /\ IF n = NoNode
       THEN InsertBufNode(b, t, c.len, c.ends)
       ELSE /\ nd' = [nd EXCEPT ![n].len = @ + c.len,
                                ![n].ends = @ \cup {e + nd[n].len : e \in c.ends}]
            /\ UNCHANGED <<bkt, alive>>
  /\ out' = <<>>
  /\ UNCHANGED <<hash, stage, ncopy, cb, pos, cnt, npart, ptype>>

\* Streams shorter than len_cut are skipped and not counted (read in the
\* state a step leaves, whose nodes the sweep then walks).
Eligible(n) == ~(LenFixed /\ nd'[n].len < LenCut)

(* The sweep's cursor always rests on the next node it plays: skipping    *)
(* short streams and stepping to the next bucket are folded into the step *)
(* that leaves a node, as no other thread can act in between.             *)
RECURSIVE ScanFrom(_, _, _)
\* The first eligible node of s, the rest of bucket b, or of a later bucket
\* of bk; <<NBuckets, NoNode>> when the for loop runs off the end.
ScanFrom(bk, b, s) ==
  IF s # <<>>
    THEN IF Eligible(Head(s)) THEN <<b, Head(s)>> ELSE ScanFrom(bk, b, Tail(s))
    ELSE IF b < NBuckets - 1 THEN ScanFrom(bk, b + 1, bk[b + 1])
         ELSE <<NBuckets, NoNode>>

\* The while loop starts over: cnt = 0 and the for loop from bucket 0.
Restart(bk) ==
  LET r == ScanFrom(bk, 0, bk[0]) IN
  cnt' = 0 /\ cb' = (IF r[2] = NoNode THEN 0 ELSE r[1]) /\ pos' = r[2]

\* send_streams begins its sweep: counter(), prepare_header, n_part.
StartSend ==
  /\ stage' = "send"
  /\ \E k \in NParts : npart' = k
  /\ Restart(bkt')

\* Mutant: the copy loop written for (i = size - 1; i > 1; i--).
CopyHeadFromTwo(b) == IF b > 1 THEN First(bkt[b]) ELSE NoNode

\* The first node copy_stream_data visits in bucket b: never one of bucket 0.
CopyHead(b) == IF b > 0 THEN First(bkt[b]) ELSE NoNode

\* nids_run returns; counter() decides whether copy_stream_data runs.
EndLoad ==
  /\ stage = "load"
  /\ UNCHANGED <<hash, bkt, nd, alive, stores, ptype>>
  /\ IF Cardinality(alive) < NConcur - 1
       THEN /\ stage' = "copy" /\ ncopy' = NConcur + 1 - Cardinality(alive)
            /\ cb' = NBuckets - 1 /\ pos' = CopyHead(NBuckets - 1) /\ cnt' = 0
            /\ UNCHANGED npart
       ELSE /\ StartSend /\ UNCHANGED ncopy
  /\ out' = <<>>

---------------------------------------------------------------------------
(* Copy phase: for (i = size - 1; i > 0; i--), inside while (!force_quit). *)

CopyStep ==
  LET q == Succ(bkt[cb], pos) IN
  /\ stage = "copy" /\ pos # NoNode
  /\ \E b \in Buckets : InsertBufNode(b, nd[pos].tup, nd[pos].len, nd[pos].ends)
  /\ IF cnt + 1 >= ncopy
       THEN StartSend
       ELSE /\ cnt' = cnt + 1 /\ pos' = q
            /\ UNCHANGED <<stage, cb, npart>>
  /\ out' = <<>>
  /\ UNCHANGED <<hash, stores, ncopy, ptype>>

\* Mutant: the bucket index steps down without wrapping to size - 1.
CopyNextBucketNoWrap ==
  /\ stage = "copy" /\ pos = NoNode
  /\ cb' = cb - 1
  /\ pos' = CopyHead(cb')
  /\ out' = <<>>
  /\ UNCHANGED <<hash, bkt, nd, alive, stage, stores, ncopy, cnt,
                 npart, ptype>>

CopyNextBucket ==
  /\ stage = "copy" /\ pos = NoNode
  /\ cb' = IF cb > 1 THEN cb - 1 ELSE NBuckets - 1
  /\ pos' = CopyHead(cb')
  /\ out' = <<>>
  /\ UNCHANGED <<hash, bkt, nd, alive, stage, stores, ncopy, cnt,
                 npart, ptype>>

---------------------------------------------------------------------------
(* Send phase: the packets of one send_packet call, as a pure operator of *)
(* the node r, the get_pkt_type counter pt and the values ch drawn from   *)
(* the clock and rand() during the node's turn.  It yields the node, the  *)
(* counter and the packets handed to dpdk_send_pkt.                        *)

\* get_pkt_type(frag_rate): the next counter, and whether it is a fragment.
NextPType(pt) == IF pt + 1 > RateBound THEN 0 ELSE pt + 1
IsFragment(pt) == pt + 1 <= FragRate

\* get_data_len: len / n_parts, or len_cut, kept within 40..MAX_SEG_SIZE.
GetDataLen(r) ==
  LET l == IF LenFixed THEN LenCut ELSE r.len \div npart
  IN IF l < 40 THEN 40 ELSE IF l > MaxSegSize THEN MaxSegSize ELSE l

\* sunday_match over the unsent bytes: the end of the first "\r\n\r\n",
\* counted from the offset, or -1.
SundayMatch(r) ==
  LET m == {e \in r.ends : e - 4 >= r.offset}
  IN IF m = {} THEN -1 ELSE Min(m) - r.offset

\* The length send_packet asks for.  sunday_match's result is stored in a
\* uint32_t, so -1 becomes 2^32 - 1: the test length < 0 never holds and
\* the missing terminator takes the jumbo branch, length > MAX_SEG_SIZE.
AskedLen(r, pt) ==
  IF IsFragment(pt) THEN GetDataLen(r)
  ELSE LET l == SundayMatch(r)
       IN IF l < 0 \/ l > MaxSegSize THEN GetDataLen(r) ELSE l

Sent(r, pt, pkts) == [node |-> r, pt |-> pt, pkts |-> pkts]

\* send_syn, one branch per state; the SYN reads the clock (set_start_ts).
SendSyn(r, pt, ch) ==
  CASE r.state = "CLOSED" ->
         Sent([r EXCEPT !.state = "SYN_SENT", !.ts = ch.t, !.tsp = ch.t + 1234],
              pt, <<Pkt("c", {"SYN"}, r.seq, 0, 0, ch.t, 0)>>)
    [] r.state = "SYN_SENT" ->
         Sent([r EXCEPT !.state = "SYN_RCVD", !.ack = ch.a],
              pt, <<Pkt("s", {"SYN", "ACK"}, ch.a - 1, r.seq + 1, 0, r.tsp, r.ts)>>)
    [] r.state = "SYN_RCVD" ->
         Sent([r EXCEPT !.state = "ESTABLISHED", !.seq = r.seq + 1],
              pt, <<Pkt("c", {"ACK"}, r.seq + 1, r.ack, 0, r.ts, r.tsp)>>)

\* send_ack: the peer acknowledges everything sent so far, echoing ts.
SendAck(r) ==
  Sent([r EXCEPT !.tsp = r.tsp + 1], 0,
       <<Pkt("s", {"ACK"}, r.ack, r.seq, 0, r.tsp + 1, r.ts)>>)

\* send_data_pkt, cut to the rest of the stream, followed by send_ack.
SendDataPkt(r, pt, asked) ==
  LET rest == r.len - r.offset
      len  == IF asked >= rest THEN rest ELSE asked
      a    == SendAck([r EXCEPT !.state = IF asked >= rest THEN "CLOSING" ELSE r.state,
                                !.offset = r.offset + len, !.seq = r.seq + len,
                                !.ts = r.ts + 1])
  IN Sent(a.node, pt,
          <<Pkt("c", {"ACK", "PSH"}, r.seq, r.ack, len, r.ts + 1, r.tsp)>> \o a.pkts)

\* Mutant: the peer's FIN/ACK acknowledges seq instead of seq + 1.
SendFinAckNoIncrement(r, pt, ch) ==
  CASE r.state = "CLOSING" ->
         Sent([r EXCEPT !.state = "FIN_SENT_1", !.ts = r.ts + 1, !.tsp = r.tsp + 1],
              pt, <<Pkt("c", {"FIN", "ACK"}, r.seq, r.ack, 0, r.ts + 1, r.tsp)>>)
    [] r.state = "FIN_SENT_1" ->
         Sent([r EXCEPT !.state = "FIN_SENT_2", !.ts = r.ts + 1],
              pt, <<Pkt("s", {"FIN", "ACK"}, r.ack, r.seq, 0, r.tsp, r.ts)>>)
    [] r.state = "FIN_SENT_2" ->
         Sent(SetField(r, ch.isn, ch.a2),
              pt, <<Pkt("c", {"ACK"}, r.seq + 1, r.ack + 1, 0, r.ts, r.tsp)>>)

\* send_fin; after the last ACK set_field resets the node (its move to
\* another bucket is the sweep's, in SendTurn).
SendFin(r, pt, ch) ==
  CASE r.state = "CLOSING" ->
         Sent([r EXCEPT !.state = "FIN_SENT_1", !.ts = r.ts + 1, !.tsp = r.tsp + 1],
              pt, <<Pkt("c", {"FIN", "ACK"}, r.seq, r.ack, 0, r.ts + 1, r.tsp)>>)
    [] r.state = "FIN_SENT_1" ->
         Sent([r EXCEPT !.state = "FIN_SENT_2", !.ts = r.ts + 1],
              pt, <<Pkt("s", {"FIN", "ACK"}, r.ack, r.seq + 1, 0, r.tsp, r.ts)>>)
    [] r.state = "FIN_SENT_2" ->
         Sent(SetField(r, ch.isn, ch.a2),
              pt, <<Pkt("c", {"ACK"}, r.seq + 1, r.ack + 1, 0, r.ts, r.tsp)>>)

\* send_packet: dispatch on the node's TCP state; a CLOSED node with a
\* non-zero offset only gets an error message.
SendPacket(r, pt, ch) ==
  CASE r.state = "CLOSED" /\ r.offset # 0 -> Sent(r, pt, <<>>)
    [] r.state \in {"CLOSED", "SYN_SENT", "SYN_RCVD"} -> SendSyn(r, pt, ch)
    [] r.state = "ESTABLISHED" ->
         SendDataPkt(r, NextPType(pt), AskedLen(r, pt))
    [] r.state \in {"CLOSING", "FIN_SENT_1", "FIN_SENT_2"} -> SendFin(r, pt, ch)

RECURSIVE Sends(_, _, _, _)
\* The inner while (n_snd--) loop: k send_packet calls, cut short by the
\* break after the one made in FIN_SENT_2 (done).
Sends(r, pt, ch, k) ==
  LET s == SendPacket(r, pt, ch) IN
  IF r.state = "FIN_SENT_2" \/ k = 1
    THEN s @@ [done |-> r.state = "FIN_SENT_2"]
    ELSE LET more == Sends(s.node, s.pt, ch, k - 1)
         IN [more EXCEPT !.pkts = s.pkts \o more.pkts]

---------------------------------------------------------------------------
(* Send phase: the sweep of send_streams.                                  *)

\* list_for_each_entry_safe goes on at q, the node after pos before the
\* move; the for loop then reads the later buckets as they are now.
MoveOn(q) ==
  LET r == ScanFrom(bkt', cb, SubSeq(bkt[cb], q, Len(bkt[cb]))) IN
  IF r[2] = NoNode THEN Restart(bkt')
  ELSE cnt' = cnt + 1 /\ cb' = r[1] /\ pos' = r[2]

\* Mutant: nb_concur is reached one node late (cnt > nb_concur).
SendTurnOffByOne ==
  LET ix == CHOOSE i \in 1..Len(bkt[cb]) : bkt[cb][i] = pos IN
  /\ stage = "send" /\ pos # NoNode
  /\ \E k \in 1..3, t \in Clock, a, isn, a2 \in Isns :
       LET s == Sends(nd[pos], ptype, [t |-> t, a |-> a, isn |-> isn, a2 |-> a2], k)
       IN /\ nd' = [nd EXCEPT ![pos] = s.node]
          /\ ptype' = s.pt /\ out' = s.pkts
          /\ IF s.done
               THEN \E b \in Buckets :
                      bkt' = [bkt EXCEPT ![cb] = Unlink(@, pos),
                                         ![b] = <<pos>> \o Unlink(bkt[b], pos)]
               ELSE UNCHANGED bkt
  /\ IF cnt + 1 > NConcur THEN Restart(bkt') ELSE MoveOn(ix + 1)
  /\ UNCHANGED <<hash, alive, stage, stores, ncopy, npart>>

\* Mutant: n_snd = rand() % 3, so a turn may send nothing.
SendTurnMaybeNone ==
  LET ix == CHOOSE i \in 1..Len(bkt[cb]) : bkt[cb][i] = pos IN
  /\ stage = "send" /\ pos # NoNode
  /\ \E k \in 0..2, t \in Clock, a, isn, a2 \in Isns :
       LET s == IF k = 0
                  THEN [node |-> nd[pos], pt |-> ptype, pkts |-> <<>>, done |-> FALSE]
                  ELSE Sends(nd[pos], ptype, [t |-> t, a |-> a, isn |-> isn, a2 |-> a2], k)
       IN /\ nd' = [nd EXCEPT ![pos] = s.node]
          /\ ptype' = s.pt /\ out' = s.pkts
          /\ IF s.done
               THEN \E b \in Buckets :
                      bkt' = [bkt EXCEPT ![cb] = Unlink(@, pos),
                                         ![b] = <<pos>> \o Unlink(bkt[b], pos)]
               ELSE UNCHANGED bkt
  /\ IF cnt + 1 >= NConcur THEN Restart(bkt') ELSE MoveOn(ix + 1)
  /\ UNCHANGED <<hash, alive, stage, stores, ncopy, npart>>

\* The turn of the node at pos: n_snd = rand() % 3 + 1 send_packet calls;
\* a node whose last ACK went out is moved to the head of the bucket of
\* its new random tuple.  The node is then counted, and the sweep moves on
\* or, at nb_concur, starts over.  Nothing else runs during a turn.
SendTurn ==
  LET ix == CHOOSE i \in 1..Len(bkt[cb]) : bkt[cb][i] = pos IN
  /\ stage = "send" /\ pos # NoNode
  /\ \E k \in 1..3, t \in Clock, a, isn, a2 \in Isns :
       LET s == Sends(nd[pos], ptype, [t |-> t, a |-> a, isn |-> isn, a2 |-> a2], k)
       IN /\ nd' = [nd EXCEPT ![pos] = s.node]
          /\ ptype' = s.pt /\ out' = s.pkts
          /\ IF s.done
               THEN \E b \in Buckets :
                      bkt' = [bkt EXCEPT ![cb] = Unlink(@, pos),
                                         ![b] = <<pos>> \o Unlink(bkt[b], pos)]
               ELSE UNCHANGED bkt
  /\ IF cnt + 1 >= NConcur THEN Restart(bkt') ELSE MoveOn(ix + 1)
  /\ UNCHANGED <<hash, alive, stage, stores, ncopy, npart>>

---------------------------------------------------------------------------

Init ==
  /\ hash \in [Tuples -> Buckets]
  /\ bkt = [b \in Buckets |-> <<>>]
  /\ nd = [n \in NodeIds |-> [tup |-> (CHOOSE t \in Tuples : TRUE), len |-> 0,
                              ends |-> {}, state |-> "CLOSED", offset |-> 0,
                              seq |-> 0, ack |-> 0, ts |-> 0, tsp |-> 0]]
  /\ alive = {} /\ stage = "load" /\ stores = 0 /\ ncopy = 0
  /\ cb = 0 /\ pos = NoNode /\ cnt = 0
  /\ npart = (CHOOSE k \in NParts : TRUE) /\ ptype = 0 /\ out = <<>>

Next ==
  \/ \E t \in Tuples, c \in Chunks : StoreStreamData(t, c)
  \/ EndLoad
  \/ CopyStep
  \/ CopyNextBucket
  \/ SendTurn

\* One thread runs every step; it never blocks, so each step it can take
\* is eventually taken.
Spec == Init /\ [][Next]_vars /\ WF_vars(Next)

---------------------------------------------------------------------------
(* Properties.                                                             *)

TypeOK ==
  /\ hash \in [Tuples -> Buckets]
  /\ \A b \in Buckets : bkt[b] \in Seq(alive)
  /\ \A n \in alive : \E b \in Buckets : n \in Range(bkt[b])
  /\ \A n \in NodeIds : /\ nd[n].state \in TcpStates
                        /\ nd[n].offset \in 0..nd[n].len
                        /\ nd[n].seq \in Nat /\ nd[n].ack \in Nat
  /\ stage \in {"load", "copy", "send"} /\ stores \in 0..MaxStores
  /\ cb \in Buckets /\ pos \in alive \cup {NoNode}
  /\ npart \in NParts /\ ptype \in 0..RateBound

(* The refinement mapping: the conversation a node is in, read from the   *)
(* fields send_syn, send_data_pkt and send_fin leave behind.  seq is the  *)
(* ISN until the handshake's ACK and then runs one past the ISN plus the  *)
(* bytes sent; ack_seq is one past the peer's ISN from the SYN/ACK on; the *)
(* FIN increments ts_peer, and the peer's FIN/ACK ts, one packet ahead.    *)
PhaseOf(st) ==
  CASE st = "CLOSED" -> "closed"
    [] st = "SYN_SENT" -> "syn"
    [] st = "SYN_RCVD" -> "synack"
    [] st \in {"ESTABLISHED", "CLOSING"} -> "open"
    [] st = "FIN_SENT_1" -> "fin"
    [] st = "FIN_SENT_2" -> "finack"

ConvOf(r) ==
  IF r.state = "CLOSED"
    THEN [phase |-> "closed", iss |-> 0, irs |-> 0, sent |-> 0, len |-> r.len,
          tsc |-> 0, tss |-> 0]
    ELSE [phase |-> PhaseOf(r.state),
          iss |-> IF r.state \in {"SYN_SENT", "SYN_RCVD"} THEN r.seq
                  ELSE (r.seq - 1 - r.offset),
          irs |-> IF r.state = "SYN_SENT" THEN 0 ELSE (r.ack - 1),
          sent |-> r.offset, len |-> r.len,
          tsc |-> IF r.state = "FIN_SENT_2" THEN r.ts - 1 ELSE r.ts,
          tss |-> CASE r.state = "SYN_SENT" -> 0
                    [] r.state = "FIN_SENT_1" -> r.tsp - 1
                    [] OTHER -> r.tsp]

Replay == INSTANCE TcpReplay WITH Nodes <- NodeIds,
                                  conv <- [n \in NodeIds |-> ConvOf(nd[n])]

(* Every packet send_packet fabricates belongs to a well-formed TCP        *)
(* conversation of its stream: handshake, the stream's bytes in order and  *)
(* each acknowledged, FIN exchange; sequence numbers, acknowledgements and *)
(* timestamp echoes agree across send_syn, send_data_pkt, send_ack and     *)
(* send_fin, and set_field starts the next conversation afresh.            *)
ImplementsTcpReplay == Replay!Spec

(* send_streams plays at most nb_concur streams at once: a stream is only  *)
(* begun among the first nb_concur eligible nodes of the sweep, although   *)
(* a finished node is moved to a random bucket in the middle of the sweep. *)
ConcurrencyBound ==
  Cardinality({n \in alive : nd[n].state # "CLOSED"}) <= NConcur

(* A conversation send_streams begins is finished: no node is left       *)
(* half-open behind the nodes the sweep plays, so every node is CLOSED     *)
(* again and again (between its conversations).                            *)
ConversationCompletes ==
  \A n \in NodeIds : []<>(nd[n].state = "CLOSED")

(* copy_stream_data returns, and sending starts, whenever a stored stream  *)
(* sits outside bucket 0 when the copy begins.  The copy only adds nodes,  *)
(* so that premise holds until sending starts, and the property is that   *)
(* the copy is not in it forever.                                          *)
CopyTerminates ==
  []<>~(stage = "copy" /\ \E b \in Buckets \ {0} : bkt[b] # <<>>)
(* copy_stream_data returns whatever buckets the stored streams hashed to: *)
(* its loop never visits bucket 0, so this fails when all of them did.     *)
CopyAlwaysEnds == []<>(stage # "copy")

====
