-------------------------------- MODULE Timer --------------------------------
(***************************************************************************)
(* The timer manager of one reactor (src/include/timer.h, src/src/timer.cc)*)
(*                                                                         *)
(* timers_ is a std::multimap from trigger time to timer; the model keeps *)
(* it as a sequence of entries in the map's order: by trigger time, and   *)
(* among equal times in insertion order (insert goes to the upper bound). *)
(* A timer is identified by the id of its schedule call; it is in the map *)
(* at most once.                                                           *)
(*                                                                         *)
(* timer_manager::tick walks the map with an iterator, reading the clock  *)
(* before every entry; it runs each timer's callback, which may schedule  *)
(* new timers, so one TickStep models one iteration of its for loop and   *)
(* cursor is the iterator: the id of the entry it designates, or Idle     *)
(* outside tick.  now is system_clock::now() in the unit of microseconds. *)
(* sched and fired are history: what each schedule call asked for, and    *)
(* the (id, trigger time) of every callback run, in order.                *)
(***************************************************************************)
EXTENDS Integers, Sequences, SequencesExt, TLC

CONSTANTS Ids, MaxTime, Periods, Counts

\* constexpr int infinite = -1
Infinite == -1

ASSUME MaxTime \in Nat /\ Periods \subseteq Nat
ASSUME Counts \subseteq ({Infinite} \cup (Nat \ {0}))

Idle == "idle"

VARIABLES now, timers, cursor, sched, fired

vars == <<now, timers, cursor, sched, fired>>

Entry == [tid : Ids, at : Nat, interval : Nat \ {0}, count : Int]

Init ==
  /\ now = 0
  /\ timers = <<>>
  /\ cursor = Idle
  /\ sched = [t \in {} |-> 0]
  /\ fired = <<>>

\* multimap::insert: after every entry whose key is not greater.
Insert(seq, e) ==
  InsertAt(seq, Len(SelectSeq(seq, LAMBDA x : x.at <= e.at)) + 1, e)

Index(t) == CHOOSE i \in 1 .. Len(timers) : timers[i].tid = t

\* The id of the entry after the one of t in seq, or Idle at end().
Succ(seq, t) ==
  LET i == CHOOSE j \in 1 .. Len(seq) : seq[j].tid = t
  IN  IF i < Len(seq) THEN seq[i + 1].tid ELSE Idle

(***************************************************************************)
(* schedule_at_with_repeat<RepeatCount>(trigger_time, period, f): the      *)
(* interval is max(1us, period) and the entry goes into the map.          *)
(* schedule_at is the case RepeatCount = 1, period = 0; schedule_after    *)
(* uses now + duration, so a trigger time is never before now.            *)
(***************************************************************************)
NewEntry(t, at, period, count) ==
  [tid |-> t, at |-> at, count |-> count,
   interval |-> IF period < 1 THEN 1 ELSE period]

\* The schedule calls one callback can make: none, or one new timer.
Schedules ==
  {<<>>} \cup {<<NewEntry(t, at, p, c)>> :
                 t \in Ids \ DOMAIN sched, at \in now .. MaxTime,
                 p \in Periods, c \in Counts}

\* A schedule call from a task, an I/O callback or outside the loop.
ScheduleAtWithRepeat(t, at, period, count) ==
  /\ cursor = Idle
  /\ t \notin DOMAIN sched
  /\ at >= now
  /\ timers' = Insert(timers, NewEntry(t, at, period, count))
  /\ sched' = sched @@ (t :> NewEntry(t, at, period, count))
  /\ UNCHANGED <<now, cursor, fired>>

\* The clock advances; nothing bounds it but the model's horizon.
Advance ==
  /\ now < MaxTime
  /\ now' = now + 1
  /\ UNCHANGED <<timers, cursor, sched, fired>>

(***************************************************************************)
(* timer::alarm: runs the callback if count_ is infinite or count_-- > 0  *)
(* and then moves the trigger time (id_->first) by the interval.  The     *)
(* result is the pair <<whether the callback ran, the updated entry>>.    *)
(***************************************************************************)
\* Decrementing the infinite sentinel as well (mutant).
AlarmDecrementInfinite(e) ==
  IF e.count = Infinite \/ e.count > 0
    THEN <<TRUE, [e EXCEPT !.count = @ - 1, !.at = @ + e.interval]>>
    ELSE <<FALSE, [e EXCEPT !.count = 0]>>

\* Forgetting to decrement the repeat count (mutant).
AlarmNoDecrement(e) ==
  IF e.count = Infinite \/ e.count > 0
    THEN <<TRUE, [e EXCEPT !.at = @ + e.interval]>>
    ELSE <<FALSE, [e EXCEPT !.count = 0]>>

Alarm(e) ==
  IF e.count = Infinite \/ e.count > 0
    THEN <<TRUE, [e EXCEPT !.count = IF @ = Infinite THEN @ ELSE @ - 1,
                           !.at = @ + e.interval]>>
    ELSE <<FALSE, [e EXCEPT !.count = 0]>>

\* An entry is due when the clock is not before its key (mutant: strictly).
DueStrict(e) == e.at < now

Due(e) == ~(now < e.at)

(***************************************************************************)
(* tick(): an empty map returns at once; otherwise the iterator starts at *)
(* begin().                                                                *)
(***************************************************************************)
TickEmpty ==
  /\ cursor = Idle
  /\ timers = <<>>
  /\ UNCHANGED vars

TickBegin ==
  /\ cursor = Idle
  /\ timers # <<>>
  /\ cursor' = timers[1].tid
  /\ UNCHANGED <<now, timers, sched, fired>>

(***************************************************************************)
(* One iteration of the for loop of tick.  If the entry is not due, tick  *)
(* returns.  Otherwise alarm() runs the callback, which may schedule a    *)
(* timer (cb); the timer is moved out and its node erased, and a timer    *)
(* with count_ != 0 is inserted again under its new trigger time.  The    *)
(* loop then compares and increments the erased iterator, which is        *)
(* undefined behaviour.  With the node's memory reused by the insertion   *)
(* (the allocator hands the freed node straight back), the iterator       *)
(* designates the new node and the loop goes on after it; otherwise the   *)
(* stale node still holds its old key and links and the loop goes on at   *)
(* the entry that followed it.  A timer not re-inserted leaves only the   *)
(* second outcome.                                                         *)
(***************************************************************************)
Fire(e, cb) ==
  LET a     == Alarm(e)
      map   == IF cb = <<>> THEN timers ELSE Insert(timers, cb[1])
      rest  == RemoveAt(map, CHOOSE i \in 1 .. Len(map) : map[i].tid = e.tid)
      again == a[2].count # 0
      next  == IF again THEN Insert(rest, a[2]) ELSE rest
  IN
  /\ cb # <<>> => a[1]
  /\ timers' = next
  /\ sched' = IF cb = <<>> THEN sched ELSE sched @@ (cb[1].tid :> cb[1])
  /\ fired' = IF a[1] THEN Append(fired, [tid |-> e.tid, at |-> e.at]) ELSE fired
  /\ \/ cursor' = Succ(map, e.tid)
     \/ again /\ cursor' = Succ(next, e.tid)

TickStep ==
  LET e == timers[Index(cursor)]
  IN
  /\ cursor \in Ids
  /\ IF Due(e)
       THEN \E cb \in Schedules : Fire(e, cb)
       ELSE /\ cursor' = Idle
            /\ UNCHANGED <<timers, sched, fired>>
  /\ UNCHANGED now

Next ==
  \/ \E t \in Ids, at \in 0 .. MaxTime, p \in Periods, c \in Counts :
       ScheduleAtWithRepeat(t, at, p, c)
  \/ Advance
  \/ TickEmpty
  \/ TickBegin
  \/ TickStep

(***************************************************************************)
(* reactor::run calls tm_.tick() at the top of every iteration and never  *)
(* sleeps, and a tick in progress runs on to its end.  Neither the clock  *)
(* nor the application's schedule calls are assumed to make progress.     *)
(***************************************************************************)
Fairness == WF_vars(TickBegin) /\ WF_vars(TickStep)

Spec == Init /\ [][Next]_vars /\ Fairness

-----------------------------------------------------------------------------

TypeOK ==
  /\ now \in 0 .. MaxTime
  /\ timers \in Seq(Entry)
  /\ \A i \in 1 .. Len(timers) : timers[i].count \in Counts \cup (Nat \ {0})
  /\ cursor \in Ids \cup {Idle}
  /\ fired \in Seq([tid : Ids, at : Nat])

\* The callbacks run for timer t, oldest first.
Firings(t) == SelectSeq(fired, LAMBDA f : f.tid = t)

(***************************************************************************)
(* A timer scheduled with a finite repeat count runs its callback at most *)
(* that many times: alarm decrements count_ and tick drops the timer from *)
(* the map once it reaches zero.                                           *)
(***************************************************************************)
RepeatCountHonoured ==
  \A t \in Ids :
    t \in DOMAIN sched /\ sched[t].count # Infinite =>
      Len(Firings(t)) <= sched[t].count

(***************************************************************************)
(* Every entry that is in the map and due is eventually fired: the loop's *)
(* ticks catch up with a late timer, even when the entries before it keep *)
(* being re-armed.                                                         *)
(***************************************************************************)
DueTimerFires ==
  \A t \in Ids, x \in 0 .. MaxTime :
    (\E i \in 1 .. Len(timers) : timers[i].tid = t /\ timers[i].at = x /\ x <= now)
      ~> (\E k \in 1 .. Len(Firings(t)) : Firings(t)[k].at = x)

(***************************************************************************)
(* spec.md 4.5: on tick every entry whose trigger time has passed fires,  *)
(* in increasing time order.  Since schedule calls ask for times not      *)
(* before now, the callbacks then run in non-decreasing trigger time.     *)
(***************************************************************************)
FiringOrder ==
  \A i, j \in 1 .. Len(fired) : i < j => fired[i].at <= fired[j].at

=============================================================================
