---------------------------- MODULE RateLimiter ----------------------------
(***************************************************************************)
(* RateLimiter of backend/open_webui/utils/rate_limit.py: the events of    *)
(* one key, counted per bucket of time in Redis or, when Redis is missing  *)
(* or fails, in the memory of the process.                                 *)
(*                                                                         *)
(* A process checks one event at a time: the client of Redis is a          *)
(* synchronous one. Processes interleave at each command. A check takes no *)
(* time: the clock stands still until those that have begun have ended.    *)
(***************************************************************************)
EXTENDS Integers, FiniteSetsExt

CONSTANTS
  Process,
  Shared,      \* the store in Redis, beside the store of each process
  Limit,       \* limit: events allowed in the window
  Window,      \* window, in seconds
  BucketSize,  \* bucket_size, in seconds
  MaxTime,     \* bound: the clock
  MaxEvents    \* bound: events checked

ASSUME SizeAssumption ==
  /\ Limit \in Nat /\ Window \in Nat \ {0} /\ BucketSize \in Nat \ {0}
  /\ MaxTime \in Nat /\ MaxEvents \in Nat
  /\ Shared \notin Process

VARIABLES
  now,       \* the clock, in seconds
  count,     \* [bucket -> its counter in Redis], 0 when there is none
  expiry,    \* [bucket -> when its key expires, or Never]
  store,     \* [Process -> [bucket -> its counter in _memory_store]]
  at,        \* [Process -> the step of is_limited it is at]
  bucket,    \* [Process -> now_bucket]
  attempts,  \* [Process -> what INCR has returned]
  events,    \* history: [store -> the events counted there]
  admitted,  \* history: [store -> those let through]
  refused    \* history: the events counted by the store that refused last, and when

redis == <<count, expiry>>
history == <<events, admitted, refused>>
local == <<at, bucket, attempts>>
vars == <<now, redis, store, local, history>>

Second == 0 .. MaxTime
Bucket == {t \div BucketSize : t \in Second}
Store == Process \union {Shared}
Never == MaxTime + Window + BucketSize + 1

(* An event is known by when it was counted and which of its bucket it is. *)
Event == [at : Second, nth : Nat]
Refusals == [counted : SUBSET Event, at : Second]
NoRefusal == [counted |-> {}, at |-> -1]

TypeOK ==
  /\ now \in Second
  /\ count \in [Bucket -> Nat]
  /\ expiry \in [Bucket -> Nat]
  /\ store \in [Process -> [Bucket -> Nat]]
  /\ at \in [Process -> {"idle", "incr", "expire", "count"}]
  /\ bucket \in [Process -> Bucket]
  /\ attempts \in [Process -> Nat]
  /\ events \in [Store -> SUBSET Event]
  /\ admitted \in [Store -> SUBSET Event]
  /\ refused \in Refusals \union {NoRefusal}

Init ==
  /\ now = 0
  /\ count = [b \in Bucket |-> 0]
  /\ expiry = [b \in Bucket |-> Never]
  /\ store = [p \in Process |-> [b \in Bucket |-> 0]]
  /\ at = [p \in Process |-> "idle"]
  /\ bucket = [p \in Process |-> 0]
  /\ attempts = [p \in Process |-> 0]
  /\ events = [s \in Store |-> {}]
  /\ admitted = [s \in Store |-> {}]
  /\ refused = NoRefusal

(* The sum of the counters of the buckets S: each counts 1, 2, 3 and so on. *)
Counted(f, S) == UNION {{x} \X (1 .. f[x]) : x \in S}
Total(f, S) == Cardinality(Counted(f, S))

(* The seconds of the span of that length that ends with t. *)
Span(t, length) == {u \in Second : t - length < u /\ u <= t}
Within(E, t, length) == {e \in E : e.at \in Span(t, length)}

AllEvents == MapThenSumSet(LAMBDA s : Cardinality(events[s]), Store)
Checking == Cardinality({p \in Process : at[p] # "idle"})

(* _current_bucket and num_buckets. *)
CurrentBucket == now \div BucketSize

(* Mutant: one bucket less. *)
NumBuckets_Less == Window \div BucketSize - 1
NumBuckets == Window \div BucketSize

(* The buckets that are summed. *)
Recent(b) == {x \in Bucket : x <= b /\ x >= b - NumBuckets}

(* Event e of store s has been counted, and total events are found there.  *)
Decide(s, e, total) ==
  IF total > Limit
  THEN /\ refused' = [counted |-> events'[s], at |-> now]
       /\ UNCHANGED admitted
  ELSE /\ admitted' = [admitted EXCEPT ![s] = @ \union {e}]
       /\ UNCHANGED refused

(* Time passes; keys expire. *)
Tick ==
  /\ now < MaxTime
  /\ \A p \in Process : at[p] = "idle"
  /\ now' = now + 1
  /\ count' = [b \in Bucket |-> IF expiry[b] <= now + 1 THEN 0 ELSE count[b]]
  /\ expiry' = [b \in Bucket |-> IF expiry[b] <= now + 1 THEN Never ELSE expiry[b]]
  /\ UNCHANGED <<store, local, history>>
-----------------------------------------------------------------------------
(* _is_limited_redis: the clock is read, *)
Begin(p) ==
  /\ at[p] = "idle"
  /\ AllEvents + Checking < MaxEvents
  /\ bucket' = [bucket EXCEPT ![p] = CurrentBucket]
  /\ at' = [at EXCEPT ![p] = "incr"]
  /\ UNCHANGED <<now, redis, store, attempts, history>>

(* INCR, *)
Incr(p) ==
  /\ at[p] = "incr"
  /\ count' = [count EXCEPT ![bucket[p]] = @ + 1]
  /\ attempts' = [attempts EXCEPT ![p] = count'[bucket[p]]]
  /\ events' = [events EXCEPT ![Shared] = @ \union {[at |-> now, nth |-> attempts'[p]]}]
  /\ at' = [at EXCEPT ![p] = IF attempts'[p] = 1 THEN "expire" ELSE "count"]
  /\ UNCHANGED <<now, expiry, store, bucket, admitted, refused>>

(* EXPIRE, by whoever created the key, *)
Expire(p) ==
  /\ at[p] = "expire"
  /\ expiry' = [expiry EXCEPT ![bucket[p]] = now + Window + BucketSize]
  /\ at' = [at EXCEPT ![p] = "count"]
  /\ UNCHANGED <<now, count, store, bucket, attempts, history>>

(* MGET. *)
Count(p) ==
  /\ at[p] = "count"
  /\ UNCHANGED <<now, redis, store, bucket, attempts, events>>
  /\ Decide(Shared, [at |-> now, nth |-> attempts[p]], Total(count, Recent(bucket[p])))
  /\ at' = [at EXCEPT ![p] = "idle"]

(* _is_limited_memory. *)
(* Mutant: nothing is dropped. *)
Kept_All(b, f) == f
Kept(b, f) == [x \in Bucket |-> IF x < b - NumBuckets THEN 0 ELSE f[x]]

CheckInMemory(p) ==
  LET new == Kept(CurrentBucket, [store[p] EXCEPT ![CurrentBucket] = @ + 1])
      e == [at |-> now, nth |-> new[CurrentBucket]]
  IN
  /\ store' = [store EXCEPT ![p] = new]
  /\ events' = [events EXCEPT ![p] = @ \union {e}]
  /\ Decide(p, e, Total(new, Bucket))
  /\ at' = [at EXCEPT ![p] = "idle"]
  /\ UNCHANGED <<now, redis, bucket, attempts>>

(* Redis is not configured, or an operation raises, before or after its    *)
(* effect: what has been counted in Redis stays counted.                   *)
Fallback(p) == at[p] # "idle" /\ AllEvents < MaxEvents /\ CheckInMemory(p)

(* _get_count_memory drops what has expired. *)
GetCount(p) ==
  /\ at[p] = "idle"
  /\ store' = [store EXCEPT ![p] = Kept(CurrentBucket, @)]
  /\ UNCHANGED <<now, redis, local, history>>

Next ==
  \/ Tick
  \/ \E p \in Process :
       Begin(p) \/ Incr(p) \/ Expire(p) \/ Count(p) \/ Fallback(p) \/ GetCount(p)

Spec == Init /\ [][Next]_vars
-----------------------------------------------------------------------------
(* Properties. *)

(* rate_limit.py:25 "Max allowed events in the window": in no span of      *)
(* Window seconds does one store let more than Limit events through, if    *)
(* the buckets cover the window. When Redis fails now and then each store  *)
(* still keeps to the limit, so that the processes together let through no *)
(* more than one limit per store.                                          *)
Covered == Window % BucketSize \in {0, 1}
AtMostLimitPerStore ==
  Covered => \A s \in Store, t \in Second :
               Cardinality(Within(admitted[s], t, Window)) <= Limit

(* An event is refused only if its store has counted more than Limit       *)
(* events within the window and the rest of the oldest bucket, refused     *)
(* ones included.                                                          *)
RefusedOverLimit ==
  refused # NoRefusal =>
    Cardinality(Within(refused.counted, refused.at, Window + BucketSize)) > Limit
=============================================================================
