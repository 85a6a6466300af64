-------------------------------- MODULE Buffer --------------------------------
(***************************************************************************)
(* The growable byte window of src/include/buffer.h, as a connection uses *)
(* it: append (send path of posix_connection), make_room + read into      *)
(* end() + add_size (read path of handle_read), and consume by the        *)
(* application.  buf is the object: its heap array mem over [0, cap), and *)
(* the live window [b, e).  Exp is exp_ (2048 bytes, scaled down: one     *)
(* unit of the model stands for the same fraction of every length).       *)
(* Cells of a fresh array hold Junk, the contents of uninitialised heap.  *)
(***************************************************************************)
EXTENDS Naturals, Sequences, SequencesExt

CONSTANTS Bytes, Exp, MaxCap, MaxLen

ASSUME Exp \in Nat \ {0} /\ MaxCap \in Nat /\ MaxLen \in Nat \ {0}

Junk == "junk"

VARIABLE buf

Larger(x, y) == IF x < y THEN y ELSE x

\* size() and space()
Size(s)  == s.e - s.b
Space(s) == s.cap - s.e

\* The live bytes, oldest first: std::string(data(), size()).
Window(s) == [k \in 1 .. Size(s) |-> s.mem[s.b + k - 1]]

\* buffer() and clear(): no array, empty window.
Empty == [mem |-> [k \in {} |-> Junk], b |-> 0, e |-> 0, cap |-> 0]

Init == buf = Empty

(***************************************************************************)
(* move_head: std::copy(begin(), end(), buf_) copies forward into an      *)
(* overlapping range that starts lower, so cell k gets the byte that was  *)
(* at b + k; the cells past the window keep what they held.               *)
(***************************************************************************)
MoveHead(s) ==
  [s EXCEPT !.mem = [k \in DOMAIN s.mem |->
                       IF k < Size(s) THEN s.mem[s.b + k] ELSE s.mem[k]],
            !.e = Size(s), !.b = 0]

(***************************************************************************)
(* expand(len): a new array of max(exp_, 2 cap_, size() + len) cells,     *)
(* the window copied to its front, the old array freed.                   *)
(***************************************************************************)
NewCap(s, len) == Larger(Exp, Larger(2 * s.cap, Size(s) + len))

\* Copying the window but leaving e_ where it was (mutant).
ExpandKeepEnd(s, len) ==
  [mem |-> [k \in 0 .. NewCap(s, len) - 1 |->
              IF k < Size(s) THEN s.mem[s.b + k] ELSE Junk],
   b |-> 0, e |-> s.e, cap |-> NewCap(s, len)]

Expand(s, len) ==
  [mem |-> [k \in 0 .. NewCap(s, len) - 1 |->
              IF k < Size(s) THEN s.mem[s.b + k] ELSE Junk],
   b |-> 0, e |-> Size(s), cap |-> NewCap(s, len)]

(***************************************************************************)
(* make_room(len): keep the array if len bytes fit after e_; else shift  *)
(* the window down if it and len fill less than half the array; else     *)
(* expand.                                                                 *)
(***************************************************************************)
\* Shifting down whenever len alone fits in half the array (mutant).
MakeRoomIgnoreSize(s, len) ==
  IF s.e + len <= s.cap THEN s
  ELSE IF len < s.cap \div 2 THEN MoveHead(s)
  ELSE Expand(s, len)

MakeRoomLen(s, len) ==
  IF s.e + len <= s.cap THEN s
  ELSE IF Size(s) + len < s.cap \div 2 THEN MoveHead(s)
  ELSE Expand(s, len)

\* make_room(): expand(0) when fewer than exp_ cells follow the window.
MakeRoom(s) == IF Space(s) < Exp THEN Expand(s, 0) ELSE s

\* memcpy(end(), data, n) followed by add_size(n).
Fill(s, data) ==
  [s EXCEPT !.mem = [k \in DOMAIN s.mem |->
                       IF s.e <= k /\ k < s.e + Len(data)
                         THEN data[k - s.e + 1] ELSE s.mem[k]],
            !.e = s.e + Len(data)]

\* consume(len): b_ += len, and clear() once size() is 0.
Consume(s, len) ==
  IF Size(s) - len <= 0 THEN Empty ELSE [s EXCEPT !.b = s.b + len]

-----------------------------------------------------------------------------

\* The data of one call: a non-empty run of at most MaxLen bytes.
Chunks == UNION {[1 .. n -> Bytes] : n \in 1 .. MaxLen}

\* An append (alloc_room then memcpy) that keeps the array within MaxCap.
AppendData(data) ==
  /\ MakeRoomLen(buf, Len(data)).cap <= MaxCap
  /\ buf' = Fill(MakeRoomLen(buf, Len(data)), data)

(***************************************************************************)
(* One iteration of the read loop of handle_read: make_room(), then       *)
(* read(end(), space()) returns data (at most space() bytes), which       *)
(* add_size takes into the window, or would-block (data = <<>>), which    *)
(* leaves what make_room did.                                              *)
(***************************************************************************)
Receive(data) ==
  LET r == MakeRoom(buf)
  IN  /\ r.cap <= MaxCap
      /\ Len(data) <= Space(r)
      /\ buf' = Fill(r, data)

\* The application consumes len bytes of what it was handed.
ConsumeBytes(len) ==
  /\ len \in 1 .. Size(buf)
  /\ buf' = Consume(buf, len)

Next ==
  \/ \E data \in Chunks : AppendData(data)
  \/ \E data \in Chunks \cup {<<>>} : Receive(data)
  \/ \E len \in 1 .. MaxLen : ConsumeBytes(len)

Spec == Init /\ [][Next]_buf

-----------------------------------------------------------------------------

(***************************************************************************)
(* spec.md 4.1: 0 <= b <= e <= cap over the heap array; every write of   *)
(* append and of a read stays inside the array.                            *)
(***************************************************************************)
TypeOK ==
  /\ buf.cap \in 0 .. MaxCap
  /\ buf.b <= buf.e /\ buf.e <= buf.cap
  /\ buf.mem \in [0 .. buf.cap - 1 -> Bytes \cup {Junk}]

(***************************************************************************)
(* spec.md 7, buffer round trip: the window always holds exactly the      *)
(* bytes appended or read and not yet consumed, in order, however         *)
(* make_room shifted or reallocated the array in between.                 *)
(***************************************************************************)
Abstract == INSTANCE ByteQueue WITH q <- Window(buf)

ImplementsByteQueue == Abstract!Spec

=============================================================================
