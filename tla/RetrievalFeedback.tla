------------------------- MODULE RetrievalFeedback -------------------------
(* The sliding window of retrievals per content shape.  A retrieval the      *)
(* model asks for is evidence that its shape is compressed too hard; enough  *)
(* of them in the window raise the share that is kept, more of them turn the *)
(* compression of the shape off.                                             *)
(*                                                                           *)
(* Every operation runs with the lock held, but the clock is read before the *)
(* lock is taken: a call has its time while others are still let in.  Left   *)
(* out: the order of the dict, which only decides between equally stale      *)
(* shapes, and the multiplier that goes with a hint.                         *)
EXTENDS Integers, Sequences, FiniteSets, FiniteSetsExt

CONSTANTS
  Threads,
  Entries,       \* the tools and strategies of stored entries that are retrieved
  Lookups,       \* the shapes the router asks hints for
  WindowSeconds, HintMin, SkipMin,   \* hint_min_retrievals, skip_min_retrievals
  MaxEvents, MaxShapes,              \* max_events_per_shape, max_shapes
  MaxClock, MaxCalls                 \* bounds on the time, and on the calls let in

VARIABLES
  clock,
  asks,     \* per thread: the call that has its time and waits for the lock
  events,   \* _events: the times of the retrievals, per shape
  calls     \* the calls that the lock let in, in that order

feedbackVars == <<clock, asks, events, calls>>

(* The constructor refuses any other tunables.                               *)
Tunables ==
  /\ WindowSeconds \in Nat \ {0} /\ HintMin \in Nat \ {0} /\ MaxShapes \in Nat \ {0}
  /\ SkipMin \in Nat /\ SkipMin >= HintMin /\ MaxEvents \in Nat /\ MaxEvents >= SkipMin
ASSUME FeedbackAssumption == Tunables /\ MaxClock \in Nat

(* entry_shape_key: the shape a stored entry describes.                      *)
TagOf == [smart_crusher |-> "json_array", search |-> "search", log |-> "build",
          diff |-> "diff", text |-> "text", code_aware |-> "source_code"]
EntryShape(tool, strategy) ==
  [tool |-> tool, type |-> IF strategy \in DOMAIN TagOf THEN TagOf[strategy] ELSE ""]
Anonymous(shape) == [shape EXCEPT !.tool = ""]

Idle == [op |-> "idle"]
Call(op, shape, now) == [op |-> op, shape |-> shape, now |-> now]

FeedbackInit ==
  /\ clock = 0 /\ asks = [t \in Threads |-> Idle]
  /\ events = [s \in {} |-> <<>>] /\ calls = <<>>

Newest(times) == times[Len(times)]
Times(window, shape) == IF shape \in DOMAIN window THEN window[shape] ELSE <<>>
With(window, shape, times) ==
  [s \in DOMAIN window \union {shape} |-> IF s = shape THEN times ELSE window[s]]
Without(window, shapes) == [s \in DOMAIN window \ shapes |-> window[s]]

(* _evict_one_shape_locked: the decayed shapes go; if that is not enough, one*)
(* of those whose newest retrieval is oldest.                                *)
MadeRoom_Any(window, now) == {Without(window, {s}) : s \in DOMAIN window}
MadeRoom(window, now) ==
  LET alive == Without(window, {s \in DOMAIN window : Newest(window[s]) <= now - WindowSeconds})
      stalest == {s \in DOMAIN alive : \A r \in DOMAIN alive : Newest(alive[s]) <= Newest(alive[r])}
  IN IF Cardinality(DOMAIN alive) < MaxShapes THEN {alive} ELSE {Without(alive, {s}) : s \in stalest}

Room(window, shape, now) ==
  IF shape \in DOMAIN window \/ Cardinality(DOMAIN window) < MaxShapes THEN {window} ELSE MadeRoom(window, now)

(* deque(maxlen): the oldest goes when one too many comes.                   *)
Bounded(times) == IF Len(times) > MaxEvents THEN Tail(times) ELSE times
Recorded(window, shape, now) == With(window, shape, Bounded(Append(Times(window, shape), now)))

(* _count_in_window_locked: the aged head is dropped up to the first that is *)
(* in the window, and an empty bucket with it.                               *)
Unaged_Inclusive(times, cutoff) ==
  LET fresh == {k \in DOMAIN times : times[k] >= cutoff}
  IN IF fresh = {} THEN <<>> ELSE SubSeq(times, Min(fresh), Len(times))
Unaged(times, cutoff) ==
  LET fresh == {k \in DOMAIN times : times[k] > cutoff}
  IN IF fresh = {} THEN <<>> ELSE SubSeq(times, Min(fresh), Len(times))

CountInWindow(window, shape, cutoff) == Len(Unaged(Times(window, shape), cutoff))
Pruned(window, shape, cutoff) ==
  LET left == Unaged(Times(window, shape), cutoff)
  IN IF left = <<>> THEN Without(window, {shape}) ELSE With(window, shape, left)

(* get_hints: the shape's own bucket and, for a named tool, the anonymous    *)
(* one of its content type.                                                  *)
Consulted(window, shape, cutoff) ==
  LET own == Pruned(window, shape, cutoff)
  IN IF shape.tool = "" THEN own ELSE Pruned(own, Anonymous(shape), cutoff)
Counted(window, shape, cutoff) ==
  CountInWindow(window, shape, cutoff)
    + (IF shape.tool = "" THEN 0 ELSE CountInWindow(window, Anonymous(shape), cutoff))

Hint(count) == IF count >= SkipMin THEN "skip" ELSE IF count >= HintMin THEN "keep_more" ELSE "neutral"

(* Each thread reads the clock and then waits for the lock.                  *)
Asks(t, op, shape) ==
  /\ asks[t] = Idle
  /\ asks' = [asks EXCEPT ![t] = Call(op, shape, clock)]
  /\ UNCHANGED <<clock, events, calls>>

LetIn(t, op) ==
  /\ asks[t].op = op /\ Len(calls) < MaxCalls
  /\ calls' = Append(calls, asks[t])
  /\ asks' = [asks EXCEPT ![t] = Idle]
  /\ UNCHANGED clock

RecordRetrieval(t) ==
  /\ LetIn(t, "record")
  /\ \E room \in Room(events, asks[t].shape, asks[t].now) :
       events' = Recorded(room, asks[t].shape, asks[t].now)

GetHints(t) ==
  /\ LetIn(t, "hints")
  /\ events' = Consulted(events, asks[t].shape, asks[t].now - WindowSeconds)

(* clear; what was recorded before has no bearing any more.                  *)
Clear ==
  /\ calls # <<>>
  /\ events' = [s \in {} |-> <<>>] /\ calls' = <<>>
  /\ UNCHANGED <<clock, asks>>

Tick == clock < MaxClock /\ clock' = clock + 1 /\ UNCHANGED <<asks, events, calls>>

FeedbackNext ==
  \/ \E t \in Threads :
       \/ \E e \in Entries : Asks(t, "record", EntryShape(e[1], e[2]))
       \/ \E shape \in Lookups : Asks(t, "hints", shape)
       \/ RecordRetrieval(t) \/ GetHints(t)
  \/ Clear \/ Tick

FeedbackSpec == FeedbackInit /\ [][FeedbackNext]_feedbackVars

---------------------------------------------------------------------------
(* The retrievals of a shape that the lock let in, of the last so many        *)
(* seconds, and those a hint is about.                                       *)
Records(shape) == {k \in DOMAIN calls : calls[k].op = "record" /\ calls[k].shape = shape}
Recent(shape, cutoff) == {k \in Records(shape) : calls[k].now > cutoff}
Called(shape, cutoff) ==
  Cardinality(Recent(shape, cutoff))
    + (IF shape.tool = "" THEN 0 ELSE Cardinality(Recent(Anonymous(shape), cutoff)))
Seen == {calls[k].shape : k \in {j \in DOMAIN calls : calls[j].op = "record"}}

(* No call was let in more than so long after one with a later time; the     *)
(* calls had their times in order, and so has one that is made now.          *)
Lags(lag) == \A j, k \in DOMAIN calls : j < k => calls[j].now - calls[k].now <= lag
Ordered(now) == Lags(0) /\ \A k \in DOMAIN calls : calls[k].now <= now

(* A hint is backed by retrievals of that content type in the window, give   *)
(* or take the time one of them waited for the lock while later times were   *)
(* entered; with the times in order and room for every shape it is the hint  *)
(* that all of them together call for, although only so many are kept; and   *)
(* a shape makes room only for fresher ones.                                 *)
HintJustified(shape, now) ==
  LET cutoff == now - WindowSeconds
      count == Counted(events, shape, cutoff)
  IN /\ \A lag \in 0 .. MaxClock : Lags(lag) => count <= Called(shape, cutoff - lag)
     /\ Ordered(now) =>
          /\ Cardinality(Seen) <= MaxShapes => Hint(count) = Hint(Called(shape, cutoff))
          /\ \A k \in Recent(shape, cutoff) :
               shape \in DOMAIN events \/ \A r \in DOMAIN events : Newest(events[r]) >= calls[k].now

(* The window never holds more than its bounds.                              *)
WindowBounded ==
  /\ Cardinality(DOMAIN events) <= MaxShapes
  /\ \A s \in DOMAIN events : Len(events[s]) \in 1 .. MaxEvents

HintsHold == WindowBounded /\ \A shape \in Lookups, now \in 0 .. MaxClock : HintJustified(shape, now)
=============================================================================
