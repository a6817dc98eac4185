---------------------------- MODULE RollingCounter ----------------------------
(***************************************************************************)
(* RollingCounter, the lock-free counter behind the endpoint metrics: a    *)
(* ring of buckets, each an atomic count and the atomic lap it counts for. *)
(* Tasks on different threads call incr and total at once; every atomic    *)
(* operation is a step of its own.                                         *)
(*                                                                         *)
(* Time is counted in bucket durations since the counter's start.          *)
(***************************************************************************)
EXTENDS Integers, FiniteSets, Functions

CONSTANTS
    Incrs,     \* tasks that call incr
    Readers,   \* tasks that call total
    Buckets,   \* buckets in the ring
    MaxTime,   \* bound on the time modelled
    MaxAdds    \* bound on the increments modelled

ASSUME CounterConstants ==
    /\ Buckets \in Nat \ {0} /\ MaxTime \in Nat /\ MaxAdds \in Nat
    /\ IsFiniteSet(Incrs)

VARIABLES
    now,       \* time, in bucket durations
    counters,  \* counters[i]
    laps,      \* laps[i]
    inc,       \* the locals of each incr call
    rd,        \* the locals of each total call
    calls,     \* history: incr calls begun, by the bucket of time they begun in
    adds       \* history: fetch_adds, by the lap they happened in

counterVars == <<now, counters, laps, inc, rd, calls, adds>>

Ring == 0..(Buckets - 1)
Times == 0..MaxTime

\* get_index_and_lap
Index(t) == t % Buckets
Lap(t) == t \div Buckets
Laps == {Lap(t) : t \in Times}

IdleInc == [pc |-> "idle"]
IdleRd  == [pc |-> "idle"]

CounterTypeOK ==
    /\ now \in Times
    /\ counters \in [Ring -> 0..MaxAdds]
    /\ laps \in [Ring -> Laps]
    /\ \A a \in Incrs : inc[a].pc \in {"idle", "load", "cas", "store", "add"}
    /\ \A a \in Readers : rd[a].pc \in {"idle", "lap", "count", "done"}
    /\ calls \in [Times -> 0..MaxAdds] /\ adds \in [Laps -> 0..MaxAdds]

CounterInit ==
    /\ now = 0
    /\ counters = [i \in Ring |-> 0]
    /\ laps = [i \in Ring |-> 0]
    /\ inc = [a \in Incrs |-> IdleInc]
    /\ rd = [a \in Readers |-> IdleRd]
    /\ calls = [t \in Times |-> 0]
    /\ adds = [l \in Laps |-> 0]

Clock ==
    /\ now < MaxTime
    /\ now' = now + 1
    /\ UNCHANGED <<counters, laps, inc, rd, calls, adds>>

-----------------------------------------------------------------------------
\* incr

\* Instant::now() fixes the bucket and the lap for the rest of the call.
IncrBegin(a) ==
    /\ inc[a].pc = "idle" /\ SumFunction(calls) < MaxAdds
    /\ inc' = [inc EXCEPT ![a] = [pc |-> "load", idx |-> Index(now), lap |-> Lap(now)]]
    /\ calls' = [calls EXCEPT ![now] = @ + 1]
    /\ UNCHANGED <<now, counters, laps, rd, adds>>

\* Mutation of IncrLoad: the test last_lap != lap is dropped.
IncrLoadAlways(a) ==
    /\ inc[a].pc = "load"
    /\ LET c == inc[a] IN
         inc' = [inc EXCEPT ![a] =
                   [pc |-> "cas", idx |-> c.idx, lap |-> c.lap, last |-> laps[c.idx]]]
    /\ UNCHANGED <<now, counters, laps, rd, calls, adds>>

\* laps[idx].load: a bucket of another lap has to be reset first.
IncrLoad(a) ==
    /\ inc[a].pc = "load"
    /\ LET c == inc[a]
           last == laps[c.idx] IN
         inc' = [inc EXCEPT ![a] =
                   [pc |-> IF last = c.lap THEN "add" ELSE "cas",
                    idx |-> c.idx, lap |-> c.lap, last |-> last]]
    /\ UNCHANGED <<now, counters, laps, rd, calls, adds>>

\* compare_exchange(last_lap, lap): the winner goes on to reset the bucket
IncrCas(a) ==
    /\ inc[a].pc = "cas"
    /\ LET c == inc[a] IN
         IF laps[c.idx] = c.last
         THEN /\ laps' = [laps EXCEPT ![c.idx] = c.lap]
              /\ inc' = [inc EXCEPT ![a].pc = "store"]
         ELSE /\ inc' = [inc EXCEPT ![a].pc = "add"]
              /\ UNCHANGED laps
    /\ UNCHANGED <<now, counters, rd, calls, adds>>

\* Mutation of IncrStore: the winner leaves the old count in place.
IncrStoreSkipped(a) ==
    /\ inc[a].pc = "store"
    /\ inc' = [inc EXCEPT ![a].pc = "add"]
    /\ UNCHANGED <<now, counters, laps, rd, calls, adds>>

IncrStore(a) ==
    /\ inc[a].pc = "store"
    /\ counters' = [counters EXCEPT ![inc[a].idx] = 0]
    /\ inc' = [inc EXCEPT ![a].pc = "add"]
    /\ UNCHANGED <<now, laps, rd, calls, adds>>

IncrAdd(a) ==
    /\ inc[a].pc = "add"
    /\ counters' = [counters EXCEPT ![inc[a].idx] = @ + 1]
    /\ adds' = [adds EXCEPT ![Lap(now)] = @ + 1]
    /\ inc' = [inc EXCEPT ![a] = IdleInc]
    /\ UNCHANGED <<now, laps, rd, calls>>

-----------------------------------------------------------------------------
\* total

\* from is history: the increments that had happened when total was called
TotalBegin(a) ==
    /\ rd[a].pc = "idle"
    /\ rd' = [rd EXCEPT ![a] = [pc |-> "lap", lap |-> Lap(now), i |-> 0, sum |-> 0,
                               from |-> SumFunction(adds)]]
    /\ UNCHANGED <<now, counters, laps, inc, calls, adds>>

\* Mutation of NextBucket: the last bucket is left out.
NextBucketShort(r) == IF r.i + 2 < Buckets THEN [r EXCEPT !.pc = "lap", !.i = @ + 1]
                                           ELSE [r EXCEPT !.pc = "done"]

\* Where total goes after bucket i
NextBucket(r) == IF r.i + 1 < Buckets THEN [r EXCEPT !.pc = "lap", !.i = @ + 1]
                                      ELSE [r EXCEPT !.pc = "done"]

\* Only buckets of the lap read at the start are counted.
TotalLap(a) ==
    /\ rd[a].pc = "lap"
    /\ rd' = [rd EXCEPT ![a] = IF laps[@.i] = @.lap THEN [@ EXCEPT !.pc = "count"]
                                                    ELSE NextBucket(@)]
    /\ UNCHANGED <<now, counters, laps, inc, calls, adds>>

TotalCount(a) ==
    /\ rd[a].pc = "count"
    /\ rd' = [rd EXCEPT ![a] = NextBucket([rd[a] EXCEPT !.sum = @ + counters[rd[a].i]])]
    /\ UNCHANGED <<now, counters, laps, inc, calls, adds>>

TotalReturn(a) ==
    /\ rd[a].pc = "done"
    /\ rd' = [rd EXCEPT ![a] = IdleRd]
    /\ UNCHANGED <<now, counters, laps, inc, calls, adds>>

Incr(a) == IncrBegin(a) \/ IncrLoad(a) \/ IncrCas(a) \/ IncrStore(a) \/ IncrAdd(a)
Total(a) == TotalBegin(a) \/ TotalLap(a) \/ TotalCount(a) \/ TotalReturn(a)

CounterNext == Clock \/ (\E a \in Incrs : Incr(a)) \/ (\E a \in Readers : Total(a))

CounterSpec == CounterInit /\ [][CounterNext]_counterVars

-----------------------------------------------------------------------------
\* Properties.

\* What total would return if it ran now, in one instant
Current == SumFunction([i \in Ring |-> IF laps[i] = Lap(now) THEN counters[i] ELSE 0])

NoIncrRunning == \A a \in Incrs : inc[a].pc = "idle"
CallsInLap(l) == SumFunction([t \in Times |-> IF Lap(t) = l THEN calls[t] ELSE 0])

\* In the first lap no bucket is ever reset, so however the increments
\* interleave, none is lost and none is counted twice.
FirstLapExact ==
    NoIncrRunning /\ Lap(now) = 0 => Current = CallsInLap(0)

\* In every lap, outside a reset under way, the window holds no increment that
\* did not happen in this lap: an old bucket is always cleared before its
\* first use, even by a task whose clock reading is a lap behind.
NoOldCounts ==
    (\A a \in Incrs : inc[a].pc # "store") => Current <= adds[Lap(now)]

\* A total that runs while increments do, within the first lap, counts every
\* increment that was done when it was called and none that is not yet done
\* when it returns, although it reads the buckets one after the other.
FirstLapTotal ==
    \A a \in Readers :
        rd[a].pc = "done" /\ Lap(now) = 0
            => rd[a].from <= rd[a].sum /\ rd[a].sum <= SumFunction(adds)
===============================================================================
