----------------------------- MODULE TcpReplay -----------------------------
(***************************************************************************)
(* What a replayed stream promises the device under test: every buffered  *)
(* stream is played as a well-formed TCP conversation, one conversation   *)
(* after another.  A conversation is a three-way handshake, the stream's  *)
(* bytes in order with each data segment acknowledged by the peer, and a  *)
(* FIN exchange; sequence and acknowledgement numbers follow the bytes    *)
(* sent, and every TCP timestamp option carries a TSval no smaller than   *)
(* the previous one of its direction and echoes the other direction's     *)
(* latest TSval.                                                          *)
(*                                                                         *)
(* conv[n] is the acceptor of stream n's conversation; a step puts        *)
(* packets on the wire, all of one stream, and the acceptor must take     *)
(* every one of them in order.                                            *)
(***************************************************************************)
EXTENDS Integers, Sequences

CONSTANTS Nodes

VARIABLES conv, out

Closed(len) == [phase |-> "closed", iss |-> 0, irs |-> 0, sent |-> 0,
                len |-> len, tsc |-> 0, tss |-> 0]

Bad == [phase |-> "bad"]

\* The client's sequence number after k bytes of the stream, and the server's.
Snd(c, k) == c.iss + 1 + k
Rcv(c, k) == c.irs + 1 + k

\* p comes from side dir with these flags, numbers and payload length.
Is(p, dir, flags, seq, ack, len) ==
  p.dir = dir /\ p.flags = flags /\ p.seq = seq /\ p.ack = ack /\ p.len = len

\* Timestamps: TSval does not go back in its direction, TSecr echoes the
\* other direction's latest TSval.
FromClient(c, p) == p.tsval >= c.tsc /\ p.tsecr = c.tss
FromServer(c, p) == p.tsval >= c.tss /\ p.tsecr = c.tsc

\* The acceptor after packet p, or Bad when p does not belong there.
Accept(c, p) ==
  CASE c.phase = "bad" -> Bad
    [] c.phase = "closed" /\ p.dir = "c" /\ p.flags = {"SYN"} /\ p.ack = 0
         /\ p.len = 0 /\ p.tsecr = 0 ->
         [c EXCEPT !.phase = "syn", !.iss = p.seq, !.tsc = p.tsval]
    [] c.phase = "syn" /\ p.dir = "s" /\ p.flags = {"SYN", "ACK"}
         /\ p.ack = c.iss + 1 /\ p.len = 0 /\ p.tsecr = c.tsc ->
         [c EXCEPT !.phase = "synack", !.irs = p.seq, !.tss = p.tsval]
    [] c.phase = "synack" /\ Is(p, "c", {"ACK"}, Snd(c, 0), Rcv(c, 0), 0)
         /\ FromClient(c, p) ->
         [c EXCEPT !.phase = "open", !.tsc = p.tsval]
    [] c.phase = "open" /\ p.len \in 1..(c.len - c.sent)
         /\ Is(p, "c", {"ACK", "PSH"}, Snd(c, c.sent), Rcv(c, 0), p.len)
         /\ FromClient(c, p) ->
         [c EXCEPT !.phase = "acking", !.sent = c.sent + p.len, !.tsc = p.tsval]
    [] c.phase = "acking" /\ Is(p, "s", {"ACK"}, Rcv(c, 0), Snd(c, c.sent), 0)
         /\ FromServer(c, p) ->
         [c EXCEPT !.phase = "open", !.tss = p.tsval]
    [] c.phase = "open" /\ c.sent = c.len
         /\ Is(p, "c", {"FIN", "ACK"}, Snd(c, c.len), Rcv(c, 0), 0)
         /\ FromClient(c, p) ->
         [c EXCEPT !.phase = "fin", !.tsc = p.tsval]
    [] c.phase = "fin" /\ Is(p, "s", {"FIN", "ACK"}, Rcv(c, 0), Snd(c, c.len + 1), 0)
         /\ FromServer(c, p) ->
         [c EXCEPT !.phase = "finack", !.tss = p.tsval]
    [] c.phase = "finack" /\ Is(p, "c", {"ACK"}, Snd(c, c.len + 1), Rcv(c, 1), 0)
         /\ FromClient(c, p) ->
         Closed(c.len)
    [] OTHER -> Bad

RECURSIVE AcceptAll(_, _)
\* The acceptor after the packets of s, in order (a left fold of Accept,
\* written out because it is evaluated on every step).
AcceptAll(c, s) == IF s = <<>> THEN c ELSE AcceptAll(Accept(c, Head(s)), Tail(s))

Init == conv = [n \in Nodes |-> Closed(0)] /\ out = <<>>

\* A stream not in a conversation may be created or given more bytes.
Grow(n) ==
  /\ conv[n].phase = "closed" /\ out' = <<>>
  /\ conv'[n].len > conv[n].len
  /\ conv' = [conv EXCEPT ![n] = Closed(conv'[n].len)]

\* Packets of stream n go out, and its acceptor takes all of them.
Play(n) ==
  LET d == AcceptAll(conv[n], out') IN
  /\ out' # <<>> /\ d.phase # "bad"
  /\ conv' = [conv EXCEPT ![n] = d]

\* A step that puts nothing on the wire.
Quiet == out' = <<>> /\ UNCHANGED conv

Next == Quiet \/ \E n \in Nodes : Grow(n) \/ Play(n)

Spec == Init /\ [][Next]_<<conv, out>>

=============================================================================
