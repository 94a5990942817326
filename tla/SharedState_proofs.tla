-------------------------- MODULE SharedState_proofs --------------------------
(***************************************************************************)
(* What the processes of the application keep of the state they share in   *)
(* Redis and in the database: the configuration, for any number of         *)
(* instances, options, values and any bounds; then the rate limiter, for   *)
(* any number of processes, any limit, window, bucket and bound.           *)
(***************************************************************************)
EXTENDS SharedConfig, RateLimiter, FiniteSetTheorems, TLAPS

(***************************************************************************)
(* SharedConfig.                                                           *)
(***************************************************************************)

(* What an assignment is about to publish is a value it was given, or one  *)
(* that another thread's reading has put in its place.                     *)
AssignedIsValue ==
  \A w \in Worker :
    phase[w] \in {"copy", "commit", "publish"} => value[Host[w]][key[w]] \in Value

(* Nothing has failed or died, nothing was imported or reset.              *)
Calm == Redis /\ ~ResetOnStart /\ imports = 0 /\ errors = 0 /\ crashes = 0

(* An option that was never published is in every instance what the row    *)
(* holds: neither copy nor object has been changed since it was loaded,    *)
(* and no reading is about to change it.                                   *)
UnsharedIsStored ==
  Calm => \A k \in Key : Unassigned(k) /\ shared[k] = None =>
            \A i \in Instance : status[i] # "down" =>
              data[i][k] = row[k] /\ value[i][k] = Loaded(row)[k]

(* What Redis has answered it still answers, if with another value.        *)
FetchedIsShared ==
  \A w \in Worker : phase[w] = "fetched" => Redis /\ shared[key[w]] # None

(* Without Redis: the objects have what the copy has, save for the option  *)
(* that is about to be copied, and the copy, unless it is just being       *)
(* saved, what the row has.                                                *)
ObjectsMatchCopy ==
  ~Redis => \A i \in Instance, k \in Key :
    /\ status[i] # "down" /\ data[i][k] # None
    /\ \A w \in Worker : ~(Host[w] = i /\ phase[w] = "copy" /\ key[w] = k)
    => value[i][k] = data[i][k]

CopyMatchesRow ==
  ~Redis /\ errors = 0 => \A i \in Instance, k \in Key :
    /\ status[i] # "down" /\ row[k] # None
    /\ \A w \in Worker : ~(Host[w] = i /\ phase[w] = "commit")
    => data[i][k] = row[k]

Typed == ConfigTypeOK /\ AssignedIsValue /\ FetchedIsShared
-----------------------------------------------------------------------------
LEMMA LoadedType ==
  ASSUME NEW c \in Config PROVE Loaded(c) \in [Key -> Value \union {Env}]
  BY DEF Loaded, Config

LEMMA UpdatedType ==
  ASSUME NEW c \in Config, NEW old \in [Key -> Value \union {Env}]
  PROVE  Updated(old, c) \in [Key -> Value \union {Env}]
  BY DEF Updated, Config

LEMMA EmptyType == Empty \in Config
  BY DEF Empty, Config

(* Every step keeps the types. *)
LEMMA TypedStep == Typed /\ [ConfigNext]_configVars => Typed'
<1> SUFFICES ASSUME ConfigTypeOK, AssignedIsValue, FetchedIsShared, [ConfigNext]_configVars
             PROVE  ConfigTypeOK' /\ AssignedIsValue' /\ FetchedIsShared'
  BY DEF Typed
<1> DEFINE Goal == ConfigTypeOK' /\ AssignedIsValue' /\ FetchedIsShared'
<1> USE BoundAssumption, DistinctAssumption, HostAssumption
    DEF ConfigTypeOK, AssignedIsValue, FetchedIsShared, bounds
<1>1. ASSUME NEW i \in Instance, Load(i) PROVE Goal
  <2>1. Loaded(row) \in [Key -> Value \union {Env}]
    BY LoadedType
  <2> QED
    BY <1>1, <2>1 DEF Load
<1>2. ASSUME NEW i \in Instance, Serve(i) PROVE Goal
  <2>1. Empty \in Config
    BY EmptyType
  <2> QED
    BY <1>2, <2>1 DEF Serve
<1>3. ASSUME NEW i \in Instance, Stop(i) PROVE Goal
  <2>1. Empty \in Config /\ Loaded(Empty) \in [Key -> Value \union {Env}]
    BY EmptyType, LoadedType
  <2> QED
    BY <1>3, <2>1 DEF Stop, Exit, Workers
<1>4. ASSUME NEW i \in Instance, Crash(i) PROVE Goal
  <2>1. Empty \in Config /\ Loaded(Empty) \in [Key -> Value \union {Env}]
    BY EmptyType, LoadedType
  <2>2. ConfigTypeOK'
    BY <1>4, <2>1 DEF Crash, Exit, Done, Workers
  <2>3. AssignedIsValue' /\ FetchedIsShared'
    BY <1>4, <2>1 DEF Crash, Exit, Done, Workers
  <2> QED
    BY <2>2, <2>3
<1>5. ASSUME NEW w \in Worker, NEW k \in Key, NEW v \in Value, Assign(w, k, v) PROVE Goal
  BY <1>5 DEF Assign, Idle
<1>6. ASSUME NEW w \in Worker, Copy(w) PROVE Goal
  BY <1>6 DEF Copy, DataWith, Config
<1>7. ASSUME NEW w \in Worker, Commit(w) PROVE Goal
  BY <1>7 DEF Commit, Saved, Done
<1>8. ASSUME NEW w \in Worker, CommitFails(w) \/ PublishFails(w) PROVE Goal
  BY <1>8 DEF CommitFails, PublishFails, Fails, Done
<1>9. ASSUME NEW w \in Worker, Publish(w) PROVE Goal
  BY <1>9 DEF Publish, Published, Config, Done
<1>10. ASSUME NEW w \in Worker, NEW k \in Key, Read(w, k) PROVE Goal
  BY <1>10 DEF Read, Idle, Config
<1>11. ASSUME NEW w \in Worker, Replace(w) PROVE Goal
  BY <1>11 DEF Replace, Done
<1>12. ASSUME NEW w \in Worker, NEW config \in Config, Import(w, config) PROVE Goal
  <2>1. Updated(value[Host[w]], config) \in [Key -> Value \union {Env}]
    BY UpdatedType
  <2>2. \A k \in Key : value[Host[w]][k] \in Value => Updated(value[Host[w]], config)[k] \in Value
    BY DEF Updated, Config
  <2> QED
    BY <1>12, <2>1, <2>2 DEF Import, Idle
<1>13. CASE UNCHANGED configVars
  BY <1>13 DEF configVars
<1> QED
  BY <1>1, <1>2, <1>3, <1>4, <1>5, <1>6, <1>7, <1>8, <1>9, <1>10, <1>11, <1>12, <1>13
  DEF ConfigNext

LEMMA TypedInit == ConfigInit => Typed
<1>1. Empty \in Config /\ Loaded(Empty) \in [Key -> Value \union {Env}]
  BY EmptyType, LoadedType
<1> QED
  BY <1>1, BoundAssumption
  DEF ConfigInit, Typed, ConfigTypeOK, AssignedIsValue, FetchedIsShared

LEMMA AlwaysTyped == ConfigSpec => []Typed
  BY TypedInit, TypedStep, PTL DEF ConfigSpec

(* Every variable has its type, however the workers' assignments and       *)
(* readings, starts, imports and failures interleave.                      *)
THEOREM TypeCorrect == ConfigSpec => []ConfigTypeOK
<1>1. Typed => ConfigTypeOK
  BY DEF Typed
<1> QED
  BY <1>1, AlwaysTyped, PTL
-----------------------------------------------------------------------------
LEMMA UnsharedInit == ConfigInit => UnsharedIsStored
  BY DEF ConfigInit, UnsharedIsStored

(* Every step keeps UnsharedIsStored. *)
LEMMA UnsharedStep ==
  Typed /\ UnsharedIsStored /\ [ConfigNext]_configVars => UnsharedIsStored'
<1> SUFFICES ASSUME Typed, UnsharedIsStored, [ConfigNext]_configVars, Calm',
                    NEW k \in Key, Unassigned(k)', shared'[k] = None,
                    NEW i \in Instance, status'[i] # "down"
             PROVE  data'[i][k] = row'[k] /\ value'[i][k] = Loaded(row')[k]
  BY DEF UnsharedIsStored
<1> DEFINE Goal == data'[i][k] = row'[k] /\ value'[i][k] = Loaded(row')[k]
<1> USE HostAssumption DEF Typed, ConfigTypeOK, bounds
<1>1. ASSUME NEW j \in Instance, Load(j) PROVE Goal
  BY <1>1 DEF Load, UnsharedIsStored, Calm, Unassigned
<1>2. ASSUME NEW j \in Instance, Serve(j) PROVE Goal
  BY <1>2 DEF Serve, UnsharedIsStored, Calm, Unassigned
<1>3. ASSUME NEW j \in Instance, Stop(j) PROVE Goal
  BY <1>3 DEF Stop, Exit, UnsharedIsStored, Calm, Unassigned
<1>4. ASSUME NEW j \in Instance, Crash(j) PROVE FALSE
  BY <1>4 DEF Crash, Calm
<1>5. ASSUME NEW w \in Worker, NEW l \in Key, NEW v \in Value, Assign(w, l, v) PROVE Goal
  <2>1. l # k
    BY <1>5 DEF Assign, Idle, Unassigned
  <2>2. Calm /\ Unassigned(k) /\ shared[k] = None /\ status[i] # "down" /\ row' = row
    BY <1>5 DEF Assign, Idle, Unassigned, Calm
  <2>3. data'[i][k] = data[i][k] /\ value'[i][k] = value[i][k]
    BY <1>5, <2>1 DEF Assign
  <2> QED
    BY <2>2, <2>3 DEF UnsharedIsStored
<1>6. ASSUME NEW w \in Worker, Copy(w) PROVE Goal
  <2>1. key[w] # k
    BY <1>6 DEF Copy, Unassigned
  <2>2. Calm /\ Unassigned(k) /\ shared[k] = None /\ status[i] # "down" /\ row' = row
    BY <1>6 DEF Copy, Unassigned, Calm
  <2>3. data'[i][k] = data[i][k] /\ value'[i][k] = value[i][k]
    BY <1>6, <2>1 DEF Copy, DataWith, Config
  <2> QED
    BY <2>2, <2>3 DEF UnsharedIsStored
<1>7. ASSUME NEW w \in Worker, Commit(w) PROVE Goal
  <2>1. Redis /\ phase' = [phase EXCEPT ![w] = "publish"] /\ key' = key
    BY <1>7 DEF Commit, Calm
  <2>2. Calm /\ Unassigned(k) /\ shared[k] = None /\ status[i] # "down"
    BY <1>7, <2>1 DEF Commit, Unassigned, Calm
  <2>3. status[Host[w]] # "down"
    BY <1>7 DEF Commit
  <2>4. row'[k] = row[k]
    BY <1>7, <2>2, <2>3 DEF Commit, Saved, UnsharedIsStored
  <2>5. Loaded(row')[k] = Loaded(row)[k]
    BY <2>4 DEF Loaded
  <2> QED
    BY <1>7, <2>2, <2>4, <2>5 DEF Commit, UnsharedIsStored
<1>8. ASSUME NEW w \in Worker, CommitFails(w) \/ PublishFails(w) PROVE FALSE
  BY <1>8 DEF CommitFails, PublishFails, Fails, Calm
<1>9. ASSUME NEW w \in Worker, Publish(w) PROVE Goal
  <2>1. value[Host[w]][key[w]] # None
    BY <1>9, DistinctAssumption DEF Publish, AssignedIsValue
  <2>2. key[w] # k /\ shared[k] = None
    BY <1>9, <2>1 DEF Publish, Published, Config
  <2>3. Calm /\ Unassigned(k) /\ status[i] # "down"
    BY <1>9, <2>2 DEF Publish, Done, Unassigned, Calm
  <2> QED
    BY <1>9, <2>2, <2>3 DEF Publish, UnsharedIsStored
<1>10. ASSUME NEW w \in Worker, NEW l \in Key, Read(w, l) PROVE Goal
  BY <1>10 DEF Read, Idle, UnsharedIsStored, Unassigned, Calm
<1>11. ASSUME NEW w \in Worker, Replace(w) PROVE Goal
  <2>1. key[w] # k
    BY <1>11 DEF Replace, FetchedIsShared
  <2>2. Calm /\ Unassigned(k) /\ shared[k] = None /\ status[i] # "down" /\ row' = row
    BY <1>11 DEF Replace, Done, Unassigned, Calm
  <2>3. data'[i][k] = data[i][k] /\ value'[i][k] = value[i][k]
    BY <1>11, <2>1 DEF Replace
  <2> QED
    BY <2>2, <2>3 DEF UnsharedIsStored
<1>12. ASSUME NEW w \in Worker, NEW config \in Config, Import(w, config) PROVE FALSE
  BY <1>12 DEF Import, Calm
<1>13. CASE UNCHANGED configVars
  BY <1>13 DEF configVars, UnsharedIsStored, Unassigned, Calm
<1> QED
  BY <1>1, <1>2, <1>3, <1>4, <1>5, <1>6, <1>7, <1>8, <1>9, <1>10, <1>11, <1>12, <1>13
  DEF ConfigNext

(* InstancesAgree: through Redis all instances read the same value of an   *)
(* option that is not being assigned, as long as no commit and no SET has  *)
(* failed, for any number of instances and of threads in them.             *)
THEOREM Agreement == ConfigSpec => []InstancesAgree
<1>1. UnsharedIsStored => InstancesAgree
  BY DEF UnsharedIsStored, InstancesAgree, InEffect, Calm
<1>2. ConfigSpec => []UnsharedIsStored
  BY UnsharedInit, UnsharedStep, AlwaysTyped, PTL DEF ConfigSpec
<1> QED
  BY <1>1, <1>2, PTL
-----------------------------------------------------------------------------
LEMMA CopyInit == ConfigInit => ObjectsMatchCopy /\ CopyMatchesRow
  BY DEF ConfigInit, ObjectsMatchCopy, CopyMatchesRow

(* One process, whose requests follow one another. *)
Single == \E one, thread : Instance = {one} /\ Worker = {thread}

(* In a single worker every step keeps the objects and the copy together. *)
LEMMA ObjectsStep ==
  ASSUME Single
  PROVE  Typed /\ ObjectsMatchCopy /\ [ConfigNext]_configVars => ObjectsMatchCopy'
<1> SUFFICES ASSUME Typed, ObjectsMatchCopy, [ConfigNext]_configVars, ~Redis,
                    NEW i \in Instance, NEW k \in Key,
                    status'[i] # "down", data'[i][k] # None,
                    \A w \in Worker : ~(Host[w] = i /\ phase[w] = "copy" /\ key[w] = k)'
             PROVE  value'[i][k] = data'[i][k]
  BY DEF ObjectsMatchCopy
<1> DEFINE Goal == value'[i][k] = data'[i][k]
<1> USE HostAssumption DEF Typed, ConfigTypeOK, bounds, ObjectsMatchCopy
<1>1. ASSUME NEW j \in Instance, Load(j) PROVE Goal
  BY <1>1 DEF Load, Loaded
<1>2. ASSUME NEW j \in Instance, Serve(j) PROVE Goal
  BY <1>2 DEF Serve
<1>3. ASSUME NEW j \in Instance, Stop(j) \/ Crash(j) PROVE Goal
  BY <1>3 DEF Stop, Crash, Exit, Single
<1>4. ASSUME NEW w \in Worker, NEW l \in Key, NEW v \in Value, Assign(w, l, v) PROVE Goal
  <2>1. l # k /\ Host[w] = i /\ phase[w] = "idle"
    BY <1>4 DEF Assign, Idle, Single
  <2>2. \A x \in Worker : x = w
    BY DEF Single
  <2> QED
    BY <1>4, <2>1, <2>2 DEF Assign, Idle
<1>5. ASSUME NEW w \in Worker, Copy(w) PROVE Goal
  <2>1. Host[w] = i /\ \A x \in Worker : x = w
    BY DEF Single
  <2>2. CASE key[w] = k
    BY <1>5, <2>1, <2>2 DEF Copy, DataWith, Config
  <2>3. CASE key[w] # k
    <3>1. data'[i][k] = data[i][k] /\ value' = value /\ status' = status
      BY <1>5, <2>1, <2>3 DEF Copy, DataWith, Config
    <3>2. \A x \in Worker : ~(Host[x] = i /\ phase[x] = "copy" /\ key[x] = k)
      BY <2>1, <2>3
    <3> QED
      BY <3>1, <3>2
  <2> QED
    BY <2>2, <2>3
<1>6. ASSUME NEW w \in Worker, Commit(w) \/ CommitFails(w) PROVE Goal
  <2>1. \A x \in Worker : x = w
    BY DEF Single
  <2> QED
    BY <1>6, <2>1 DEF Commit, CommitFails, Fails, Done
<1>7. ASSUME NEW w \in Worker, Publish(w) \/ PublishFails(w) PROVE Goal
  <2>1. \A x \in Worker : x = w
    BY DEF Single
  <2> QED
    BY <1>7, <2>1 DEF Publish, PublishFails, Fails, Done
<1>8. ASSUME NEW w \in Worker, NEW l \in Key, Read(w, l) PROVE FALSE
  BY <1>8 DEF Read
<1>9. ASSUME NEW w \in Worker, Replace(w) PROVE FALSE
  BY <1>9 DEF Replace, FetchedIsShared
<1>10. ASSUME NEW w \in Worker, NEW config \in Config, Import(w, config) PROVE Goal
  BY <1>10 DEF Import, Idle, Updated
<1>11. CASE UNCHANGED configVars
  BY <1>11 DEF configVars
<1> QED
  BY <1>1, <1>2, <1>3, <1>4, <1>5, <1>6, <1>7, <1>8, <1>9, <1>10, <1>11 DEF ConfigNext

(* In a single worker every step keeps the copy and the row together. *)
LEMMA CopyStep ==
  ASSUME Single
  PROVE  Typed /\ CopyMatchesRow /\ [ConfigNext]_configVars => CopyMatchesRow'
<1> SUFFICES ASSUME Typed, CopyMatchesRow, [ConfigNext]_configVars, ~Redis, errors' = 0,
                    NEW i \in Instance, NEW k \in Key,
                    status'[i] # "down", row'[k] # None,
                    \A w \in Worker : ~(Host[w] = i /\ phase[w] = "commit")'
             PROVE  data'[i][k] = row'[k]
  BY DEF CopyMatchesRow
<1> DEFINE Goal == data'[i][k] = row'[k]
<1> USE HostAssumption DEF Typed, ConfigTypeOK, bounds, CopyMatchesRow
<1>0. (\A j \in Instance : j = i) /\ \A w \in Worker : Host[w] = i /\ \A x \in Worker : x = w
  BY DEF Single
<1>1. ASSUME NEW j \in Instance, Load(j) PROVE Goal
  BY <1>0, <1>1 DEF Load
<1>2. ASSUME NEW j \in Instance, Serve(j) PROVE Goal
  BY <1>0, <1>2 DEF Serve, Empty
<1>3. ASSUME NEW j \in Instance, Stop(j) \/ Crash(j) PROVE Goal
  BY <1>0, <1>3 DEF Stop, Crash, Exit
<1>4. ASSUME NEW w \in Worker, NEW l \in Key, NEW v \in Value, Assign(w, l, v) PROVE Goal
  BY <1>0, <1>4 DEF Assign, Idle
<1>5. ASSUME NEW w \in Worker, Copy(w) PROVE FALSE
  BY <1>0, <1>5 DEF Copy
<1>6. ASSUME NEW w \in Worker, Commit(w) PROVE Goal
  BY <1>0, <1>6 DEF Commit, Saved
<1>7. ASSUME NEW w \in Worker, CommitFails(w) \/ PublishFails(w) PROVE FALSE
  BY <1>7 DEF CommitFails, PublishFails, Fails
<1>8. ASSUME NEW w \in Worker, Publish(w) PROVE Goal
  BY <1>0, <1>8 DEF Publish, Done
<1>9. ASSUME NEW w \in Worker, NEW l \in Key, Read(w, l) PROVE FALSE
  BY <1>9 DEF Read
<1>10. ASSUME NEW w \in Worker, Replace(w) PROVE FALSE
  BY <1>10 DEF Replace, FetchedIsShared
<1>11. ASSUME NEW w \in Worker, NEW config \in Config, Import(w, config) PROVE Goal
  BY <1>0, <1>11 DEF Import
<1>12. CASE UNCHANGED configVars
  BY <1>12 DEF configVars
<1> QED
  BY <1>1, <1>2, <1>3, <1>4, <1>5, <1>6, <1>7, <1>8, <1>9, <1>10, <1>11, <1>12 DEF ConfigNext

(* StoredIsInEffect: in a single process without Redis, whose assignments  *)
(* follow one another, a restart changes nothing of what is stored.        *)
THEOREM StoredInEffect ==
  ASSUME NEW CONSTANT one, NEW CONSTANT thread, Instance = {one}, Worker = {thread}
  PROVE  ConfigSpec => []StoredIsInEffect
<1>1. Single
  BY DEF Single
<1>2. Typed /\ ObjectsMatchCopy /\ CopyMatchesRow => StoredIsInEffect
  <2> SUFFICES ASSUME Typed, ObjectsMatchCopy, CopyMatchesRow, ~Redis, errors = 0,
                      NEW w \in Worker, NEW k \in Key, Idle(w), row[k] # None
               PROVE  value[Host[w]][k] = row[k]
    BY DEF StoredIsInEffect, InEffect
  <2>1. status[Host[w]] # "down" /\ Host[w] \in Instance /\ \A x \in Worker : phase[x] = "idle"
    BY HostAssumption DEF Idle
  <2>2. data[Host[w]][k] = row[k]
    BY <2>1 DEF CopyMatchesRow
  <2> QED
    BY <2>1, <2>2 DEF ObjectsMatchCopy
<1>3. Typed /\ ObjectsMatchCopy /\ [ConfigNext]_configVars => ObjectsMatchCopy'
  BY <1>1, ObjectsStep
<1>4. ConfigSpec => []ObjectsMatchCopy
  BY CopyInit, <1>3, AlwaysTyped, PTL DEF ConfigSpec
<1>5. Typed /\ CopyMatchesRow /\ [ConfigNext]_configVars => CopyMatchesRow'
  BY <1>1, CopyStep
<1>6. ConfigSpec => []CopyMatchesRow
  BY CopyInit, <1>5, AlwaysTyped, PTL DEF ConfigSpec
<1> QED
  BY <1>2, <1>4, <1>6, AlwaysTyped, PTL
-----------------------------------------------------------------------------
(***************************************************************************)
(* RateLimiter: the limit, and that what is refused is over it.            *)
(*                                                                         *)
(* Both are about how many events there are, and the code only has         *)
(* counters. The proofs pair the events with what the counters count: an   *)
(* event with the number nth of a bucket is what its counter has counted   *)
(* when it shows nth. Sets that are paired off are as large as each other. *)
(***************************************************************************)

LEMMA BucketOf ==
  ASSUME TypeOK
  PROVE  CurrentBucket \in Bucket
BY DEF TypeOK, CurrentBucket, Bucket

LEMMA TypeInit == Init => TypeOK
<1>1. 0 \in Second
  BY SizeAssumption DEF Second
<1>2. 0 \div BucketSize = 0
  BY SizeAssumption
<1>3. 0 \in Bucket
  BY <1>1, <1>2 DEF Bucket
<1>4. Never \in Nat
  BY SizeAssumption DEF Never
<1> QED BY <1>1, <1>3, <1>4 DEF Init, TypeOK

(* What was counted is summed up and the event let through or refused.     *)
LEMMA DecideType ==
  ASSUME TypeOK, NEW s \in Store, events' \in [Store -> SUBSET Event], NEW e \in Event,
         NEW total, Decide(s, e, total)
  PROVE  /\ admitted' \in [Store -> SUBSET Event]
         /\ refused' \in Refusals \union {NoRefusal}
<1>1. CASE total > Limit
  BY <1>1 DEF Decide, TypeOK, Refusals
<1>2. CASE ~(total > Limit)
  BY <1>2 DEF Decide, TypeOK
<1> QED BY <1>1, <1>2

LEMMA KeptType ==
  ASSUME NEW b, NEW f \in [Bucket -> Nat]
  PROVE  Kept(b, f) \in [Bucket -> Nat]
BY DEF Kept

LEMMA TickType ==
  ASSUME TypeOK, Tick
  PROVE  TypeOK'
<1>1. now' \in Second
  BY SizeAssumption DEF TypeOK, Tick, Second
<1>2. Never \in Nat
  BY SizeAssumption DEF Never
<1>3. count' \in [Bucket -> Nat] /\ expiry' \in [Bucket -> Nat]
  BY <1>2 DEF TypeOK, Tick
<1> QED BY <1>1, <1>3 DEF TypeOK, Tick, local, history

LEMMA BeginType ==
  ASSUME TypeOK, NEW p \in Process, Begin(p)
  PROVE  TypeOK'
BY BucketOf DEF TypeOK, Begin, redis, history

LEMMA IncrType ==
  ASSUME TypeOK, NEW p \in Process, Incr(p)
  PROVE  TypeOK'
<1>1. Shared \in Store
  BY DEF Store
<1>2. count' \in [Bucket -> Nat] /\ attempts' \in [Process -> Nat]
  BY DEF TypeOK, Incr
<1>3. [at |-> now, nth |-> attempts'[p]] \in Event
  BY <1>2 DEF TypeOK, Event
<1>4. events' \in [Store -> SUBSET Event]
  BY <1>1, <1>3 DEF TypeOK, Incr
<1>5. at' \in [Process -> {"idle", "incr", "expire", "count"}]
  BY DEF TypeOK, Incr
<1> QED BY <1>2, <1>4, <1>5 DEF TypeOK, Incr

LEMMA ExpireType ==
  ASSUME TypeOK, NEW p \in Process, Expire(p)
  PROVE  TypeOK'
<1>1. now + Window + BucketSize \in Nat
  BY SizeAssumption DEF TypeOK, Second
<1> QED BY <1>1 DEF TypeOK, Expire, history

LEMMA CountType ==
  ASSUME TypeOK, NEW p \in Process, Count(p)
  PROVE  TypeOK'
<1>1. Shared \in Store /\ [at |-> now, nth |-> attempts[p]] \in Event
  BY DEF Store, TypeOK, Event
<1>2. Decide(Shared, [at |-> now, nth |-> attempts[p]], Total(count, Recent(bucket[p])))
  BY DEF Count
<1>3. events' \in [Store -> SUBSET Event]
  BY DEF TypeOK, Count
<1>4. admitted' \in [Store -> SUBSET Event] /\ refused' \in Refusals \union {NoRefusal}
  BY <1>1, <1>2, <1>3, DecideType
<1> QED BY <1>3, <1>4 DEF TypeOK, Count, redis

(* What _is_limited_memory works with: the counters it leaves, the event.  *)
Bumped(p) == [store[p] EXCEPT ![CurrentBucket] = @ + 1]
NewStore(p) == Kept(CurrentBucket, Bumped(p))
NewEvent(p) == [at |-> now, nth |-> NewStore(p)[CurrentBucket]]

LEMMA MemorySteps ==
  ASSUME NEW p \in Process, CheckInMemory(p)
  PROVE  /\ store' = [store EXCEPT ![p] = NewStore(p)]
         /\ events' = [events EXCEPT ![p] = @ \union {NewEvent(p)}]
         /\ Decide(p, NewEvent(p), Total(NewStore(p), Bucket))
         /\ at' = [at EXCEPT ![p] = "idle"]
         /\ UNCHANGED <<now, redis, bucket, attempts>>
BY DEF CheckInMemory, NewStore, NewEvent, Bumped

LEMMA MemoryType ==
  ASSUME TypeOK, NEW p \in Process, CheckInMemory(p)
  PROVE  TypeOK'
<1>1. p \in Store
  BY DEF Store
<1>2. Bumped(p) \in [Bucket -> Nat]
  BY BucketOf DEF TypeOK, Bumped
<1>3. NewStore(p) \in [Bucket -> Nat]
  BY <1>2, KeptType DEF NewStore
<1>4. store' \in [Process -> [Bucket -> Nat]]
  BY <1>3, MemorySteps DEF TypeOK
<1>5. NewEvent(p) \in Event
  BY <1>3, BucketOf DEF TypeOK, Event, NewEvent
<1>6. events' \in [Store -> SUBSET Event]
  BY <1>1, <1>5, MemorySteps DEF TypeOK
<1>7. admitted' \in [Store -> SUBSET Event] /\ refused' \in Refusals \union {NoRefusal}
  BY <1>1, <1>5, <1>6, MemorySteps, DecideType
<1> QED BY <1>4, <1>6, <1>7, MemorySteps DEF TypeOK, redis

LEMMA GetCountType ==
  ASSUME TypeOK, NEW p \in Process, GetCount(p)
  PROVE  TypeOK'
<1>1. Kept(CurrentBucket, store[p]) \in [Bucket -> Nat]
  BY KeptType DEF TypeOK
<1> QED BY <1>1 DEF TypeOK, GetCount, redis, local, history

LEMMA TypeStep ==
  ASSUME TypeOK, [Next]_vars
  PROVE  TypeOK'
<1>1. CASE UNCHANGED vars
  BY <1>1 DEF TypeOK, vars, redis, local, history
<1>2. CASE Next
  BY <1>2, TickType, BeginType, IncrType, ExpireType, CountType, MemoryType, GetCountType
     DEF Next, Fallback
<1> QED BY <1>1, <1>2

(* The counters of Redis and of every process are numbers of buckets of    *)
(* time up to the present, whoever drops, expires or falls back.           *)
THEOREM TypesHold == Spec => []TypeOK
<1> QED BY TypeInit, TypeStep, PTL DEF Spec
-----------------------------------------------------------------------------
(* The inductive invariant. *)

BucketNo(e) == e.at \div BucketSize
Summed(b) == b >= CurrentBucket - NumBuckets
Counter(s) == IF s = Shared THEN count ELSE store[s]

Past == \A s \in Store : IsFiniteSet(events[s]) /\ \A e \in events[s] : e.at <= now

(* No two events of a store have the same name,                            *)
Distinct ==
  \A s \in Store : \A e, f \in events[s] : BucketNo(e) = BucketNo(f) /\ e.nth = f.nth => e = f

(* each is counted as long as its bucket is summed,                        *)
Numbered ==
  \A s \in Store : \A e \in events[s] :
    Summed(BucketNo(e)) => e.nth \in 1 .. Counter(s)[BucketNo(e)]

(* and only events are counted.                                            *)
Backed ==
  \A s \in Store, b \in Bucket : \A n \in 1 .. Counter(s)[b] :
    \E e \in events[s] : BucketNo(e) = b /\ e.nth = n

(* A key outlives the time in which its bucket is summed.                  *)
Alive == \A b \in Bucket : expiry[b] = Never \/ expiry[b] >= b * BucketSize + Window + BucketSize

(* What a process has read of the clock and of its counter.                *)
InHand ==
  \A p \in Process :
    /\ at[p] # "idle" => bucket[p] = CurrentBucket
    /\ at[p] \in {"expire", "count"} => [at |-> now, nth |-> attempts[p]] \in events[Shared]

LetThrough == \A s \in Store : admitted[s] \subseteq events[s]

Counts == Past /\ Distinct /\ Numbered /\ Backed
IInv ==
  /\ TypeOK /\ Counts /\ Alive /\ InHand /\ LetThrough
  /\ AtMostLimitPerStore /\ RefusedOverLimit
-----------------------------------------------------------------------------
(* Buckets and seconds. *)

LEMMA BucketBounds ==
  ASSUME NEW t \in Nat
  PROVE  /\ t \div BucketSize \in Nat
         /\ (t \div BucketSize) * BucketSize <= t
         /\ t < (t \div BucketSize) * BucketSize + BucketSize
BY SizeAssumption

LEMMA BucketsGrow ==
  ASSUME NEW t \in Nat, NEW u \in Nat, t <= u
  PROVE  t \div BucketSize <= u \div BucketSize
BY SizeAssumption

LEMMA Times ==
  ASSUME NEW a \in Int, NEW b \in Int
  PROVE  /\ a <= b => a * BucketSize <= b * BucketSize
         /\ a * BucketSize < b * BucketSize => a < b
         /\ (a + b) * BucketSize = a * BucketSize + b * BucketSize
         /\ (a - b) * BucketSize = a * BucketSize - b * BucketSize
         /\ a * BucketSize \in Int
BY SizeAssumption

LEMMA BucketSet == Bucket \subseteq Nat /\ IsFiniteSet(Bucket)
<1>1. \A t \in Second : t \div BucketSize \in 0 .. MaxTime
  <2> SUFFICES ASSUME NEW t \in Second
               PROVE  t \div BucketSize \in 0 .. MaxTime
    OBVIOUS
  <2>1. t \in Nat /\ t <= MaxTime
    BY SizeAssumption DEF Second
  <2>2. t \div BucketSize \in Nat /\ t \div BucketSize <= t
    BY <2>1, SizeAssumption
  <2> QED BY <2>1, <2>2, SizeAssumption
<1>2. Bucket \subseteq 0 .. MaxTime
  BY <1>1 DEF Bucket
<1>3. IsFiniteSet(0 .. MaxTime)
  BY SizeAssumption, FS_Interval
<1>4. IsFiniteSet(Bucket)
  BY <1>2, <1>3, FS_Subset
<1>5. Bucket \subseteq Nat
  BY <1>2, SizeAssumption
<1> QED BY <1>4, <1>5

(* The buckets that are summed reach back at least so far that the window  *)
(* is covered, if its size allows it, and at most a bucket further.        *)
LEMMA BucketsOfWindow ==
  /\ NumBuckets \in Nat
  /\ NumBuckets * BucketSize <= Window
  /\ Window < NumBuckets * BucketSize + BucketSize
  /\ Covered => Window <= NumBuckets * BucketSize + 1
<1>1. Window = BucketSize * (Window \div BucketSize) + (Window % BucketSize)
  BY SizeAssumption, SMTT(30)
<1>2. Window \div BucketSize \in Nat
  BY SizeAssumption
<1>3. BucketSize * NumBuckets = NumBuckets * BucketSize
  BY <1>2, SizeAssumption DEF NumBuckets
<1>4. Window % BucketSize \in 0 .. BucketSize - 1
  BY SizeAssumption
<1>5. Window = NumBuckets * BucketSize + (Window % BucketSize)
  BY <1>1, <1>3 DEF NumBuckets
<1>6. NumBuckets * BucketSize \in Int /\ NumBuckets \in Nat
  BY <1>2, SizeAssumption DEF NumBuckets
<1> QED BY <1>4, <1>5, <1>6, SizeAssumption DEF Covered

LEMMA WindowIsSummed ==
  ASSUME NEW now0 \in Nat, NEW t \in Nat, Covered, now0 - Window < t
  PROVE  t \div BucketSize >= now0 \div BucketSize - NumBuckets
<1> DEFINE n == now0 \div BucketSize
<1> DEFINE b == t \div BucketSize
<1>1. n \in Nat /\ b \in Nat /\ n * BucketSize <= now0 /\ t < b * BucketSize + BucketSize
  BY BucketBounds
<1>2. now0 - NumBuckets * BucketSize <= t /\ NumBuckets \in Nat
  BY BucketsOfWindow, SizeAssumption, Times
<1> HIDE DEF n, b
<1>3. /\ (n - NumBuckets) * BucketSize = n * BucketSize - NumBuckets * BucketSize
      /\ (b + 1) * BucketSize = b * BucketSize + 1 * BucketSize
      /\ (n - NumBuckets) * BucketSize < (b + 1) * BucketSize => n - NumBuckets < b + 1
  <2>1. n - NumBuckets \in Int /\ b + 1 \in Int /\ n \in Int /\ b \in Int /\ NumBuckets \in Int
    BY <1>1, <1>2
  <2>2. (b + 1) * BucketSize = b * BucketSize + 1 * BucketSize
    BY <2>1, Times
  <2>3. (n - NumBuckets) * BucketSize = n * BucketSize - NumBuckets * BucketSize
    BY <2>1, Times
  <2> QED BY <2>1, <2>2, <2>3, Times
<1>4. n * BucketSize \in Int /\ NumBuckets * BucketSize \in Int /\ b * BucketSize \in Int
      /\ 1 * BucketSize = BucketSize
  BY <1>1, <1>2, Times, SizeAssumption
<1>5. n - NumBuckets < b + 1
  BY <1>1, <1>2, <1>3, <1>4, SizeAssumption
<1> QED BY <1>1, <1>2, <1>5 DEF n, b

LEMMA SummedIsRecent ==
  ASSUME NEW now0 \in Nat, NEW t \in Nat,
         t \div BucketSize >= now0 \div BucketSize - NumBuckets
  PROVE  now0 - (Window + BucketSize) < t
<1> DEFINE n == now0 \div BucketSize
<1> DEFINE b == t \div BucketSize
<1>1. n \in Nat /\ b \in Nat /\ now0 < n * BucketSize + BucketSize /\ b * BucketSize <= t
  BY BucketBounds
<1>2. b >= n - NumBuckets
  OBVIOUS
<1> HIDE DEF n, b
<1>3. NumBuckets \in Nat /\ NumBuckets * BucketSize <= Window
  BY BucketsOfWindow
<1>4. /\ (n - NumBuckets) * BucketSize = n * BucketSize - NumBuckets * BucketSize
      /\ (n - NumBuckets) * BucketSize <= b * BucketSize
      /\ n * BucketSize \in Int /\ b * BucketSize \in Int /\ NumBuckets * BucketSize \in Int
  BY <1>1, <1>2, <1>3, Times
<1> QED BY <1>1, <1>3, <1>4, SizeAssumption

(* A key whose bucket is summed at now0 has not expired.                   *)
LEMMA SummedIsAlive ==
  ASSUME NEW now0 \in Nat, NEW b \in Nat, b >= now0 \div BucketSize - NumBuckets
  PROVE  now0 < b * BucketSize + Window + BucketSize
<1> DEFINE n == now0 \div BucketSize
<1>1. n \in Nat /\ now0 < n * BucketSize + BucketSize
  BY BucketBounds
<1>2. b >= n - NumBuckets
  OBVIOUS
<1> HIDE DEF n
<1>3. NumBuckets \in Nat /\ NumBuckets * BucketSize <= Window
  BY BucketsOfWindow
<1>4. /\ (n - NumBuckets) * BucketSize = n * BucketSize - NumBuckets * BucketSize
      /\ (n - NumBuckets) * BucketSize <= b * BucketSize
      /\ n * BucketSize \in Int /\ b * BucketSize \in Int /\ NumBuckets * BucketSize \in Int
  BY <1>1, <1>2, <1>3, Times
<1> QED BY <1>1, <1>3, <1>4, SizeAssumption
-----------------------------------------------------------------------------
(* Events and what is counted. *)

LEMMA CountedFinite ==
  ASSUME NEW f \in [Bucket -> Nat], NEW S \in SUBSET Bucket
  PROVE  IsFiniteSet(Counted(f, S))
<1> DEFINE g == [x \in S |-> {x} \X (1 .. f[x])]
<1> DEFINE R == {{x} \X (1 .. f[x]) : x \in S}
<1>1. IsFiniteSet(S)
  BY BucketSet, FS_Subset
<1>2. g \in Surjection(S, R)
  BY DEF Surjection
<1>3. IsFiniteSet(R)
  BY <1>1, <1>2, FS_Surjection
<1>4. ASSUME NEW x \in S
      PROVE  IsFiniteSet({x} \X (1 .. f[x]))
  <2>1. f[x] \in Nat /\ IsFiniteSet(1 .. f[x])
    BY FS_Interval
  <2>2. IsFiniteSet({x})
    BY FS_Singleton
  <2> QED BY <2>1, <2>2, FS_Product
<1>5. \A T \in R : IsFiniteSet(T)
  BY <1>4
<1>6. IsFiniteSet(UNION R)
  BY <1>3, <1>5, FS_UNION
<1> QED BY <1>6 DEF Counted

LEMMA CountedMember ==
  ASSUME NEW f, NEW S, NEW x, NEW n
  PROVE  <<x, n>> \in Counted(f, S) <=> x \in S /\ n \in 1 .. f[x]
BY DEF Counted

LEMMA CountedPair ==
  ASSUME NEW f, NEW S, NEW u \in Counted(f, S)
  PROVE  u = <<u[1], u[2]>> /\ u[1] \in S /\ u[2] \in 1 .. f[u[1]]
BY DEF Counted

(* No more events than counted, if each has been counted by its name,      *)
LEMMA EventsCounted ==
  ASSUME NEW f \in [Bucket -> Nat], NEW S \in SUBSET Bucket, NEW E,
         \A e \in E : BucketNo(e) \in S /\ e.nth \in 1 .. f[BucketNo(e)],
         \A e, d \in E : BucketNo(e) = BucketNo(d) /\ e.nth = d.nth => e = d
  PROVE  /\ Cardinality(E) \in Nat /\ Total(f, S) \in Nat
         /\ Cardinality(E) <= Total(f, S)
<1> DEFINE g == [e \in E |-> <<BucketNo(e), e.nth>>]
<1>1. IsFiniteSet(Counted(f, S))
  BY CountedFinite
<1>2. \A e \in E : g[e] \in Counted(f, S)
  BY CountedMember
<1>3. g \in Injection(E, Counted(f, S))
  BY <1>2 DEF Injection, IsInjective
<1>4. IsFiniteSet(E) /\ Cardinality(E) <= Cardinality(Counted(f, S))
  BY <1>1, <1>3, FS_Injection
<1> QED BY <1>1, <1>4, FS_CardinalityType DEF Total

(* and no fewer, if each that was counted is there.                        *)
LEMMA CountedEvents ==
  ASSUME NEW f \in [Bucket -> Nat], NEW S \in SUBSET Bucket, NEW E, IsFiniteSet(E),
         \A x \in S : \A n \in 1 .. f[x] : \E e \in E : BucketNo(e) = x /\ e.nth = n
  PROVE  /\ Cardinality(E) \in Nat /\ Total(f, S) \in Nat
         /\ Total(f, S) <= Cardinality(E)
<1> DEFINE P(u, e) == e \in E /\ BucketNo(e) = u[1] /\ e.nth = u[2]
<1> DEFINE g == [u \in Counted(f, S) |-> CHOOSE e : P(u, e)]
<1>1. ASSUME NEW u \in Counted(f, S)
      PROVE  P(u, g[u])
  <2>1. \E e : P(u, e)
    BY CountedPair
  <2>2. P(u, CHOOSE e : P(u, e))
    <3> HIDE DEF P
    <3> QED BY <2>1
  <2> QED BY <2>2
<1>2. ASSUME NEW u \in Counted(f, S), NEW v \in Counted(f, S), g[u] = g[v]
      PROVE  u = v
  <2>1. u[1] = v[1] /\ u[2] = v[2]
    BY <1>1, <1>2
  <2> QED BY <2>1, CountedPair
<1>3. g \in [Counted(f, S) -> E]
  BY <1>1
<1> HIDE DEF g, P
<1>4. g \in Injection(Counted(f, S), E)
  BY <1>2, <1>3 DEF Injection, IsInjective
<1>5. IsFiniteSet(Counted(f, S)) /\ Cardinality(Counted(f, S)) <= Cardinality(E)
  BY <1>4, FS_Injection
<1> QED BY <1>5, FS_CardinalityType DEF Total
-----------------------------------------------------------------------------
(* An event is counted: its name is new, as it is the last of its bucket.  *)
LEMMA CountingStep ==
  ASSUME TypeOK, Counts, TypeOK', now' = now, NEW s \in Store, NEW e,
         e = [at |-> now, nth |-> Counter(s)[CurrentBucket] + 1],
         events' = [events EXCEPT ![s] = @ \union {e}],
         \A r \in Store \ {s} : Counter(r)' = Counter(r),
         Counter(s)'[CurrentBucket] = Counter(s)[CurrentBucket] + 1,
         \A b \in Bucket \ {CurrentBucket} :
           \/ Counter(s)'[b] = Counter(s)[b]
           \/ ~Summed(b) /\ Counter(s)'[b] = 0
  PROVE  Counts'
<1>1. /\ CurrentBucket \in Bucket /\ CurrentBucket' = CurrentBucket
      /\ BucketNo(e) = CurrentBucket /\ e.at = now /\ e.nth = Counter(s)[CurrentBucket] + 1
      /\ \A r \in Store : Counter(r) \in [Bucket -> Nat]
  BY BucketOf DEF CurrentBucket, BucketNo, Counter, TypeOK, Store
<1>2. NumBuckets \in Nat /\ CurrentBucket \in Nat /\ Summed(CurrentBucket)
  BY <1>1, BucketSet, BucketsOfWindow DEF Summed
<1>3. \A b : Summed(b)' <=> Summed(b)
  BY <1>1 DEF Summed
<1>4. /\ events'[s] = events[s] \union {e}
      /\ \A r \in Store \ {s} : events'[r] = events[r]
  BY DEF TypeOK
<1>5. \A r \in Store : \A d \in events[r] : d.at \in Second /\ d.nth \in Nat /\ BucketNo(d) \in Bucket
  BY DEF TypeOK, Event, BucketNo, Bucket
<1>6. \A d \in events[s] : BucketNo(d) = CurrentBucket => d.nth \in 1 .. Counter(s)[CurrentBucket]
  BY <1>2 DEF Counts, Numbered
<1>7. Past'
  <2>1. IsFiniteSet(events[s] \union {e})
    BY FS_AddElement DEF Counts, Past
  <2>2. now \in Int
    BY DEF TypeOK, Second
  <2> QED BY <1>1, <1>4, <2>1, <2>2 DEF Counts, Past
<1>8. Distinct'
  <2> SUFFICES ASSUME NEW r \in Store, NEW d \in events'[r], NEW f \in events'[r],
                      BucketNo(d) = BucketNo(f), d.nth = f.nth
               PROVE  d = f
    BY DEF Distinct, BucketNo
  <2>1. CASE r # s
    BY <1>4, <2>1 DEF Counts, Distinct
  <2>2. CASE r = s /\ d \in events[s] /\ f \in events[s]
    BY <2>2 DEF Counts, Distinct
  <2>3. ASSUME r = s, NEW c \in events[s], BucketNo(c) = CurrentBucket, c.nth = e.nth
        PROVE  FALSE
    <3>1. Counter(s)[CurrentBucket] \in Nat
      BY <1>1
    <3> QED BY <1>1, <1>6, <2>3, <3>1
  <2> QED BY <1>1, <1>4, <2>1, <2>2, <2>3
<1>9. Numbered'
  <2> SUFFICES ASSUME NEW r \in Store, NEW d \in events'[r], Summed(BucketNo(d))
               PROVE  d.nth \in 1 .. Counter(r)'[BucketNo(d)]
    BY <1>3 DEF Numbered, BucketNo
  <2>1. CASE r # s
    BY <1>4, <2>1 DEF Counts, Numbered
  <2>2. CASE r = s /\ d \in events[s]
    <3>1. d.nth \in 1 .. Counter(s)[BucketNo(d)] /\ BucketNo(d) \in Bucket
      BY <1>5, <2>2 DEF Counts, Numbered
    <3>2. CASE BucketNo(d) = CurrentBucket
      <4>1. Counter(s)[CurrentBucket] \in Nat
        BY <1>1
      <4> QED BY <2>2, <3>1, <3>2, <4>1
    <3>3. CASE BucketNo(d) # CurrentBucket
      BY <2>2, <3>1, <3>3
    <3> QED BY <3>2, <3>3
  <2>3. CASE r = s /\ d = e
    <3>1. Counter(s)[CurrentBucket] \in Nat
      BY <1>1
    <3> QED BY <1>1, <2>3, <3>1
  <2> QED BY <1>4, <2>1, <2>2, <2>3
<1>10. Backed'
  <2> SUFFICES ASSUME NEW r \in Store, NEW b \in Bucket, NEW n \in 1 .. Counter(r)'[b]
               PROVE  \E d \in events'[r] : BucketNo(d) = b /\ d.nth = n
    BY DEF Backed, BucketNo
  <2>1. CASE r # s
    BY <1>4, <2>1 DEF Counts, Backed
  <2>2. CASE r = s /\ b # CurrentBucket
    <3>1. n \in 1 .. Counter(s)[b]
      <4>1. CASE Counter(s)'[b] = Counter(s)[b]
        BY <2>2, <4>1
      <4>2. CASE Counter(s)'[b] = 0
        BY <2>2, <4>2
      <4> QED BY <2>2, <4>1, <4>2
    <3>2. PICK d \in events[s] : BucketNo(d) = b /\ d.nth = n
      BY <3>1 DEF Counts, Backed
    <3> QED BY <1>4, <2>2, <3>2
  <2>3. CASE r = s /\ b = CurrentBucket
    <3>1. Counter(s)[CurrentBucket] \in Nat
      BY <1>1
    <3>2. CASE n = e.nth
      BY <1>1, <1>4, <2>3, <3>2
    <3>3. CASE n # e.nth
      <4>1. n \in 1 .. Counter(s)[CurrentBucket]
        BY <1>1, <2>3, <3>1, <3>3
      <4>2. PICK d \in events[s] : BucketNo(d) = b /\ d.nth = n
        BY <2>3, <4>1 DEF Counts, Backed
      <4> QED BY <1>4, <2>3, <4>2
    <3> QED BY <3>2, <3>3
  <2> QED BY <2>1, <2>2, <2>3
<1> QED BY <1>7, <1>8, <1>9, <1>10 DEF Counts

(* Counters of buckets that are no longer summed may be forgotten.         *)
LEMMA ForgettingStep ==
  ASSUME TypeOK, Counts, TypeOK', now <= now', UNCHANGED events,
         \A s \in Store, b \in Bucket :
           Counter(s)'[b] = Counter(s)[b] \/ (~Summed(b)' /\ Counter(s)'[b] = 0)
  PROVE  Counts'
<1>1. now \in Nat /\ now' \in Nat
  BY DEF TypeOK, Second
<1>2. \A b \in Bucket : Summed(b)' => Summed(b)
  <2>1. CurrentBucket <= CurrentBucket'
    BY <1>1, BucketsGrow DEF CurrentBucket
  <2>2. CurrentBucket \in Nat /\ CurrentBucket' \in Nat
    BY <1>1, BucketBounds DEF CurrentBucket
  <2>3. NumBuckets \in Nat /\ Bucket \subseteq Nat
    BY BucketsOfWindow, BucketSet
  <2> SUFFICES ASSUME NEW b \in Bucket, Summed(b)'
               PROVE  Summed(b)
    OBVIOUS
  <2>4. b >= CurrentBucket' - NumBuckets /\ b \in Nat
    BY <2>3 DEF Summed
  <2>5. ASSUME NEW c \in Nat, NEW d \in Nat, NEW n \in Nat, c <= d, b >= d - n
        PROVE  b >= c - n
    BY <2>4, <2>5
  <2>6. b >= CurrentBucket - NumBuckets
    BY <2>1, <2>2, <2>3, <2>4, <2>5
  <2> QED BY <2>6 DEF Summed
<1>3. \A s \in Store : \A e \in events[s] : BucketNo(e) \in Bucket /\ e.at \in Nat
  BY DEF TypeOK, Event, BucketNo, Bucket, Second
<1>4. Past'
  BY <1>1, <1>3 DEF Counts, Past
<1>5. Distinct'
  BY DEF Counts, Distinct, BucketNo
<1>6. Numbered'
  <2> SUFFICES ASSUME NEW s \in Store, NEW e \in events[s], Summed(BucketNo(e))'
               PROVE  e.nth \in 1 .. Counter(s)'[BucketNo(e)]
    BY DEF Numbered, BucketNo
  <2>1. BucketNo(e)' = BucketNo(e)
    BY DEF BucketNo
  <2> QED BY <1>2, <1>3, <2>1 DEF Counts, Numbered
<1>7. Backed'
  <2> SUFFICES ASSUME NEW s \in Store, NEW b \in Bucket, NEW n \in 1 .. Counter(s)'[b]
               PROVE  \E e \in events[s] : BucketNo(e) = b /\ e.nth = n
    BY DEF Backed, BucketNo
  <2>1. Counter(s)'[b] = Counter(s)[b]
    OBVIOUS
  <2> QED BY <2>1 DEF Counts, Backed
<1> QED BY <1>4, <1>5, <1>6, <1>7 DEF Counts

(* The decision. What is summed is the buckets S of the counters f, which  *)
(* are the summed ones of store s and possibly others that are 0.          *)
LEMMA AdmitKeepsLimit ==
  ASSUME TypeOK, TypeOK', Counts', now' = now, AtMostLimitPerStore, LetThrough,
         NEW s \in Store, events[s] \subseteq events'[s], NEW e \in events'[s], e.at = now,
         NEW f \in [Bucket -> Nat], NEW S \in SUBSET Bucket,
         \A b \in Bucket : b <= CurrentBucket /\ Summed(b) => b \in S /\ f[b] = Counter(s)'[b],
         Total(f, S) <= Limit,
         admitted' = [admitted EXCEPT ![s] = @ \union {e}]
  PROVE  AtMostLimitPerStore'
<1> SUFFICES ASSUME Covered, NEW r \in Store, NEW t \in Second
             PROVE  Cardinality(Within(admitted'[r], t, Window)) <= Limit
  BY DEF AtMostLimitPerStore, Within, Span, Covered, Second
<1>1. Cardinality(Within(admitted[r], t, Window)) <= Limit
  BY DEF AtMostLimitPerStore
<1>2. /\ admitted'[s] = admitted[s] \union {e}
      /\ r # s => admitted'[r] = admitted[r]
  BY DEF TypeOK
<1>3. CASE r # s
  BY <1>1, <1>2, <1>3
<1>4. CASE r = s /\ t < now
  <2>1. e.at \notin Span(t, Window)
    BY <1>4 DEF Span, TypeOK, Second
  <2>2. Within(admitted'[s], t, Window) = Within(admitted[s], t, Window)
    BY <1>2, <2>1 DEF Within
  <2> QED BY <1>1, <1>4, <2>2
<1>5. CASE r = s /\ now <= t
  <2> DEFINE E == Within(admitted'[s], t, Window)
  <2>1. \A d \in E : d \in events'[s] /\ d.at \in Span(t, Window)
    BY <1>2 DEF Within, LetThrough
  <2>2. \A d \in events'[s] : d.at \in Nat /\ d.nth \in Nat /\ BucketNo(d) \in Bucket /\ d.at <= now
    BY DEF TypeOK, Event, BucketNo, Bucket, Second, Counts, Past
  <2>3. ASSUME NEW d \in E
        PROVE  BucketNo(d) <= CurrentBucket /\ Summed(BucketNo(d))
    <3>1. d.at \in Nat /\ d.at <= now /\ now \in Nat /\ t \in Nat /\ t - Window < d.at
      <4>1. d \in events'[s] /\ d.at \in Span(t, Window)
        BY <2>1
      <4>2. d.at \in Nat /\ d.at <= now
        BY <2>2, <4>1
      <4>3. t - Window < d.at
        BY <4>1 DEF Span
      <4> QED BY <4>2, <4>3 DEF TypeOK, Second
    <3>2. now - Window < d.at
      BY <1>5, <3>1, SizeAssumption
    <3>3. BucketNo(d) >= CurrentBucket - NumBuckets
      BY <3>1, <3>2, WindowIsSummed DEF BucketNo, CurrentBucket
    <3>4. BucketNo(d) <= CurrentBucket
      BY <3>1, BucketsGrow DEF BucketNo, CurrentBucket
    <3> QED BY <3>3, <3>4 DEF Summed
  <2>4. \A b : Summed(b)' <=> Summed(b)
    BY DEF Summed, CurrentBucket
  <2>5. \A d \in E : d.nth \in 1 .. Counter(s)'[BucketNo(d)]
    BY <2>1, <2>3, <2>4 DEF Counts, Numbered, BucketNo
  <2>6. \A d \in E : BucketNo(d) \in S /\ d.nth \in 1 .. f[BucketNo(d)]
    BY <2>1, <2>2, <2>3, <2>5
  <2>7. \A d, c \in E : BucketNo(d) = BucketNo(c) /\ d.nth = c.nth => d = c
    BY <2>1 DEF Counts, Distinct, BucketNo
  <2> HIDE DEF E
  <2>8. Cardinality(E) <= Total(f, S) /\ Cardinality(E) \in Nat /\ Total(f, S) \in Nat
    BY <2>6, <2>7, EventsCounted
  <2>9. Cardinality(E) <= Limit
    BY <2>8, SizeAssumption
  <2> QED BY <1>5, <2>9 DEF E
<1>6. t \in Int /\ now \in Int
  BY DEF TypeOK, Second
<1> QED BY <1>3, <1>4, <1>5, <1>6

LEMMA RefuseIsOver ==
  ASSUME TypeOK, TypeOK', Counts', now' = now, NEW s \in Store,
         NEW f \in [Bucket -> Nat], NEW S \in SUBSET Bucket,
         \A b \in S : f[b] = 0 \/ (Summed(b) /\ f[b] = Counter(s)'[b]),
         Total(f, S) > Limit,
         refused' = [counted |-> events'[s], at |-> now]
  PROVE  RefusedOverLimit'
<1> DEFINE E == Within(events'[s], now, Window + BucketSize)
<1>1. refused'.counted = events'[s] /\ refused'.at = now
  OBVIOUS
<1>2. IsFiniteSet(events'[s])
  BY DEF Counts, Past
<1>3. E \subseteq events'[s]
  BY DEF Within
<1>4. IsFiniteSet(E)
  BY <1>2, <1>3, FS_Subset
<1>5. ASSUME NEW b \in S, NEW n \in 1 .. f[b]
      PROVE  \E e \in E : BucketNo(e) = b /\ e.nth = n
  <2>1. f[b] # 0
    BY <1>5
  <2>2. Summed(b) /\ n \in 1 .. Counter(s)'[b]
    BY <1>5, <2>1
  <2>3. PICK e \in events'[s] : BucketNo(e) = b /\ e.nth = n
    BY <2>2 DEF Counts, Backed, BucketNo
  <2>4. e.at \in Second /\ e.at \in Nat /\ now \in Nat /\ e.at <= now
    BY DEF TypeOK, Event, Counts, Past, Second
  <2>5. now - (Window + BucketSize) < e.at
    BY <2>2, <2>3, <2>4, SummedIsRecent DEF Summed, BucketNo, CurrentBucket
  <2>6. e.at \in Span(now, Window + BucketSize)
    BY <2>4, <2>5 DEF Span
  <2> QED BY <2>3, <2>6 DEF Within
<1> HIDE DEF E
<1>6. Total(f, S) <= Cardinality(E) /\ Cardinality(E) \in Nat /\ Total(f, S) \in Nat
  BY <1>4, <1>5, CountedEvents
<1>7. Cardinality(E) > Limit
  BY <1>6, SizeAssumption
<1> QED BY <1>1, <1>7 DEF RefusedOverLimit, E, Within, Span, Second
-----------------------------------------------------------------------------
(* Every step. *)

LEMMA InitIInv == Init => IInv
<1> SUFFICES ASSUME Init PROVE IInv
  OBVIOUS
<1>1. TypeOK
  BY TypeInit
<1>2. \A s \in Store : events[s] = {} /\ admitted[s] = {}
  BY DEF Init
<1>3. Past
  BY <1>2, FS_EmptySet DEF Past
<1>4. Distinct /\ Numbered
  BY <1>2 DEF Distinct, Numbered
<1>5. \A s \in Store, b \in Bucket : Counter(s)[b] = 0
  BY DEF Init, Counter, Store
<1>6. Backed
  BY <1>5 DEF Backed
<1>7. Alive /\ InHand /\ LetThrough
  BY <1>2 DEF Init, Alive, InHand, LetThrough
<1>8. AtMostLimitPerStore
  <2> SUFFICES ASSUME NEW s \in Store, NEW t \in Second
               PROVE  Cardinality(Within(admitted[s], t, Window)) <= Limit
    BY DEF AtMostLimitPerStore
  <2>1. Within(admitted[s], t, Window) = {}
    BY <1>2 DEF Within
  <2> QED BY <2>1, FS_EmptySet, SizeAssumption
<1>9. RefusedOverLimit
  BY DEF Init, RefusedOverLimit
<1> QED BY <1>1, <1>3, <1>4, <1>6, <1>7, <1>8, <1>9 DEF IInv, Counts

(* What has been let through or refused does not change with the rest.     *)
LEMMA Undisturbed ==
  ASSUME IInv, UNCHANGED <<admitted, refused>>, \A s \in Store : events[s] \subseteq events'[s]
  PROVE  LetThrough' /\ AtMostLimitPerStore' /\ RefusedOverLimit'
<1>1. LetThrough'
  BY DEF IInv, LetThrough
<1>2. AtMostLimitPerStore'
  BY DEF IInv, AtMostLimitPerStore, Covered, Within, Span, Second
<1>3. RefusedOverLimit'
  BY DEF IInv, RefusedOverLimit, Within, Span, Second, NoRefusal
<1> QED BY <1>1, <1>2, <1>3

(* As seconds pass, a key expires only when its bucket is no longer summed. *)
LEMMA TickStep ==
  ASSUME IInv, Tick
  PROVE  IInv'
<1>1. TypeOK /\ TypeOK' /\ Counts /\ now \in Nat /\ now' = now + 1 /\ UNCHANGED history
  BY TickType DEF IInv, Tick, TypeOK, Second
<1>2. ASSUME NEW b \in Bucket, expiry[b] <= now + 1
      PROVE  ~Summed(b)'
  <2>1. b \in Nat /\ NumBuckets \in Nat /\ Never \in Nat /\ Never > now + 1
    BY <1>1, BucketSet, BucketsOfWindow, SizeAssumption DEF Never, Tick
  <2>2. expiry[b] \in Nat
    BY DEF IInv, TypeOK
  <2>3. b * BucketSize + Window + BucketSize <= now + 1
    <3>1. expiry[b] >= b * BucketSize + Window + BucketSize
      <4>1. expiry[b] # Never
        BY <1>1, <1>2, <2>1, <2>2
      <4> QED BY <4>1 DEF IInv, Alive
    <3>2. b * BucketSize \in Int
      BY <2>1, Times
    <3> QED BY <1>1, <1>2, <2>2, <3>1, <3>2, SizeAssumption
  <2>4. ~(b >= (now + 1) \div BucketSize - NumBuckets)
    <3>1. now + 1 \in Nat
      BY <1>1
    <3>2. b * BucketSize \in Int
      BY <2>1, Times
    <3>3. ~(now + 1 < b * BucketSize + Window + BucketSize)
      BY <2>3, <3>1, <3>2, SizeAssumption
    <3> QED BY <2>1, <3>1, <3>3, SummedIsAlive
  <2> QED BY <1>1, <2>4 DEF Summed, CurrentBucket
<1>3. ASSUME NEW s \in Store, NEW b \in Bucket
      PROVE  Counter(s)'[b] = Counter(s)[b] \/ (~Summed(b)' /\ Counter(s)'[b] = 0)
  <2>1. CASE s = Shared
    <3>1. count'[b] = IF expiry[b] <= now + 1 THEN 0 ELSE count[b]
      BY DEF Tick
    <3> QED BY <1>2, <2>1, <3>1 DEF Counter
  <2>2. CASE s # Shared
    BY <2>2 DEF Counter, Tick
  <2> QED BY <2>1, <2>2
<1>4. now <= now' /\ UNCHANGED events
  BY <1>1 DEF history
<1>5. Counts'
  BY <1>1, <1>3, <1>4, ForgettingStep
<1>6. Alive'
  BY DEF Tick, IInv, Alive, Never
<1>7. InHand'
  BY DEF Tick, InHand, local
<1>8. LetThrough' /\ AtMostLimitPerStore' /\ RefusedOverLimit'
  BY <1>1, Undisturbed DEF history
<1> QED BY <1>1, <1>5, <1>6, <1>7, <1>8 DEF IInv

LEMMA BeginStep ==
  ASSUME IInv, NEW p \in Process, Begin(p)
  PROVE  IInv'
<1>1. /\ TypeOK /\ TypeOK' /\ Counts /\ now \in Nat
      /\ UNCHANGED <<now, count, expiry, store, attempts, events, admitted, refused>>
  <2>1. TypeOK /\ Counts
    BY DEF IInv
  <2>2. TypeOK'
    BY <2>1, BeginType
  <2>3. now \in Nat
    BY <2>1 DEF TypeOK, Second
  <2> QED BY <2>1, <2>2, <2>3 DEF Begin, redis, history
<1>2. Counts'
  BY <1>1 DEF Counts, Past, Distinct, Numbered, Backed, BucketNo, Summed, Counter, CurrentBucket
<1>3. Alive'
  BY <1>1 DEF IInv, Alive
<1>4. InHand'
  <2> SUFFICES ASSUME NEW q \in Process
               PROVE  /\ at'[q] # "idle" => bucket'[q] = CurrentBucket'
                      /\ at'[q] \in {"expire", "count"} =>
                           [at |-> now', nth |-> attempts'[q]] \in events'[Shared]
    BY DEF InHand
  <2>1. CurrentBucket' = CurrentBucket
    BY <1>1 DEF CurrentBucket
  <2>2. CASE q = p
    BY <2>1, <2>2 DEF Begin, TypeOK, IInv
  <2>3. CASE q # p
    <3>1. at'[q] = at[q] /\ bucket'[q] = bucket[q]
      BY <2>3 DEF Begin, TypeOK, IInv
    <3> QED BY <1>1, <2>1, <3>1 DEF IInv, InHand
  <2> QED BY <2>2, <2>3
<1>5. LetThrough' /\ AtMostLimitPerStore' /\ RefusedOverLimit'
  BY <1>1, Undisturbed
<1> QED BY <1>1, <1>2, <1>3, <1>4, <1>5 DEF IInv

LEMMA IncrStep ==
  ASSUME IInv, NEW p \in Process, Incr(p)
  PROVE  IInv'
<1> DEFINE e == [at |-> now, nth |-> attempts'[p]]
<1>1. /\ TypeOK /\ TypeOK' /\ Counts /\ now \in Nat /\ Shared \in Store
      /\ UNCHANGED <<now, expiry, store, bucket, admitted, refused>>
  <2>1. TypeOK /\ Counts
    BY DEF IInv
  <2>2. TypeOK'
    BY <2>1, IncrType
  <2>3. now \in Nat /\ Shared \in Store
    BY <2>1 DEF TypeOK, Second, Store
  <2> QED BY <2>1, <2>2, <2>3 DEF Incr
<1>2. bucket[p] = CurrentBucket /\ CurrentBucket \in Bucket /\ CurrentBucket' = CurrentBucket
  BY <1>1, BucketOf DEF IInv, InHand, Incr, CurrentBucket
<1>3. /\ count'[CurrentBucket] = count[CurrentBucket] + 1
      /\ \A b \in Bucket \ {CurrentBucket} : count'[b] = count[b]
      /\ attempts'[p] = count[CurrentBucket] + 1
  BY <1>1, <1>2 DEF Incr, TypeOK
<1>4. events' = [events EXCEPT ![Shared] = @ \union {e}]
  BY DEF Incr
<1>5. Counter(Shared) = count /\ Counter(Shared)' = count'
  BY DEF Counter
<1>6. \A r \in Store \ {Shared} : Counter(r)' = Counter(r)
  BY <1>1 DEF Counter
<1>7. Counts'
  <2>1. e = [at |-> now, nth |-> Counter(Shared)[CurrentBucket] + 1]
    BY <1>3, <1>5
  <2>2. Counter(Shared)'[CurrentBucket] = Counter(Shared)[CurrentBucket] + 1
    BY <1>3, <1>5
  <2>3. \A b \in Bucket \ {CurrentBucket} : Counter(Shared)'[b] = Counter(Shared)[b]
    BY <1>3, <1>5
  <2> HIDE DEF e
  <2> QED BY <1>1, <1>4, <1>6, <2>1, <2>2, <2>3, CountingStep
<1>8. Alive'
  BY <1>1 DEF IInv, Alive
<1>9. \A s \in Store : events[s] \subseteq events'[s]
  BY <1>1, <1>4 DEF TypeOK
<1>10. InHand'
  <2> SUFFICES ASSUME NEW q \in Process
               PROVE  /\ at'[q] # "idle" => bucket'[q] = CurrentBucket'
                      /\ at'[q] \in {"expire", "count"} =>
                           [at |-> now', nth |-> attempts'[q]] \in events'[Shared]
    BY DEF InHand
  <2>1. CASE q = p
    BY <1>1, <1>2, <1>4, <2>1 DEF TypeOK
  <2>2. CASE q # p
    <3>1. at'[q] = at[q] /\ attempts'[q] = attempts[q]
      BY <1>1, <2>2 DEF Incr, TypeOK
    <3> QED BY <1>1, <1>2, <1>9, <3>1 DEF IInv, InHand
  <2> QED BY <2>1, <2>2
<1>11. LetThrough' /\ AtMostLimitPerStore' /\ RefusedOverLimit'
  BY <1>1, <1>9, Undisturbed
<1> QED BY <1>1, <1>7, <1>8, <1>10, <1>11 DEF IInv

LEMMA ExpireStep ==
  ASSUME IInv, NEW p \in Process, Expire(p)
  PROVE  IInv'
<1>1. /\ TypeOK /\ TypeOK' /\ Counts /\ now \in Nat
      /\ UNCHANGED <<now, count, store, bucket, attempts, events, admitted, refused>>
  <2>1. TypeOK /\ Counts
    BY DEF IInv
  <2>2. TypeOK'
    BY <2>1, ExpireType
  <2>3. now \in Nat
    BY <2>1 DEF TypeOK, Second
  <2> QED BY <2>1, <2>2, <2>3 DEF Expire, history
<1>2. Counts'
  BY <1>1 DEF Counts, Past, Distinct, Numbered, Backed, BucketNo, Summed, Counter, CurrentBucket
<1>3. Alive'
  <2> SUFFICES ASSUME NEW b \in Bucket
               PROVE  expiry'[b] = Never \/ expiry'[b] >= b * BucketSize + Window + BucketSize
    BY DEF Alive, Never
  <2>1. CASE b = bucket[p]
    <3>1. expiry'[b] = now + Window + BucketSize
      BY <1>1, <2>1 DEF Expire, TypeOK
    <3>2. b = CurrentBucket
      BY <2>1 DEF IInv, InHand, Expire
    <3>3. b * BucketSize <= now /\ b \in Nat
      BY <1>1, <3>2, BucketBounds DEF CurrentBucket
    <3>4. b * BucketSize \in Int
      BY <3>3, Times
    <3> QED BY <1>1, <3>1, <3>3, <3>4, SizeAssumption
  <2>2. CASE b # bucket[p]
    BY <2>2 DEF Expire, TypeOK, IInv, Alive
  <2> QED BY <2>1, <2>2
<1>4. InHand'
  <2>1. CurrentBucket' = CurrentBucket
    BY <1>1 DEF CurrentBucket
  <2>2. \A q \in Process : at'[q] = at[q] \/ (q = p /\ at[q] = "expire" /\ at'[q] = "count")
    BY DEF Expire, IInv, TypeOK
  <2> QED BY <1>1, <2>1, <2>2 DEF IInv, InHand
<1>5. LetThrough' /\ AtMostLimitPerStore' /\ RefusedOverLimit'
  BY <1>1, Undisturbed
<1> QED BY <1>1, <1>2, <1>3, <1>4, <1>5 DEF IInv

(* The processes are idle, or as they were with the rest at a halt.        *)
LEMMA InHandStays ==
  ASSUME IInv, TypeOK', now' = now, UNCHANGED <<bucket, attempts>>,
         \A q \in Process : at'[q] = at[q] \/ at'[q] = "idle",
         \A s \in Store : events[s] \subseteq events'[s]
  PROVE  InHand'
<1>1. CurrentBucket' = CurrentBucket /\ Shared \in Store
  BY DEF CurrentBucket, Store
<1> QED BY <1>1 DEF IInv, InHand

LEMMA CountStep ==
  ASSUME IInv, NEW p \in Process, Count(p)
  PROVE  IInv'
<1> DEFINE e == [at |-> now, nth |-> attempts[p]]
<1> DEFINE S == Recent(bucket[p])
<1>1. /\ TypeOK /\ TypeOK' /\ Counts /\ now \in Nat /\ Shared \in Store
      /\ UNCHANGED <<now, count, expiry, store, bucket, attempts, events>>
  <2>1. TypeOK /\ Counts
    BY DEF IInv
  <2>2. TypeOK'
    BY <2>1, CountType
  <2>3. now \in Nat /\ Shared \in Store
    BY <2>1 DEF TypeOK, Second, Store
  <2> QED BY <2>1, <2>2, <2>3 DEF Count, redis
<1>2. Counts'
  BY <1>1 DEF Counts, Past, Distinct, Numbered, Backed, BucketNo, Summed, Counter, CurrentBucket
<1>3. Alive'
  BY <1>1 DEF IInv, Alive
<1>4. \A q \in Process : at'[q] = at[q] \/ at'[q] = "idle"
  BY <1>1 DEF Count, TypeOK
<1>5. InHand'
  BY <1>1, <1>4, InHandStays
<1>6. bucket[p] = CurrentBucket /\ e \in events[Shared]
  BY DEF IInv, InHand, Count
<1>7. S \in SUBSET Bucket /\ \A b \in Bucket : b \in S <=> b <= CurrentBucket /\ Summed(b)
  BY <1>6 DEF Recent, Summed
<1>8. Counter(Shared)' = count /\ count \in [Bucket -> Nat]
  BY <1>1 DEF Counter, TypeOK
<1>9. e.at = now /\ Decide(Shared, e, Total(count, S))
  BY DEF Count
<1> HIDE DEF e, S
<1>10. LetThrough' /\ AtMostLimitPerStore' /\ RefusedOverLimit'
  <2>1. CASE Total(count, S) > Limit
    <3>1. refused' = [counted |-> events'[Shared], at |-> now] /\ UNCHANGED admitted
      BY <1>9, <2>1 DEF Decide
    <3>2. RefusedOverLimit'
      BY <1>1, <1>2, <1>7, <1>8, <2>1, <3>1, RefuseIsOver
    <3>3. LetThrough' /\ AtMostLimitPerStore'
      BY <1>1, <3>1 DEF IInv, LetThrough, AtMostLimitPerStore, Covered, Within, Span, Second
    <3> QED BY <3>2, <3>3
  <2>2. CASE ~(Total(count, S) > Limit)
    <3>1. /\ admitted' = [admitted EXCEPT ![Shared] = @ \union {e}]
          /\ UNCHANGED refused
      BY <1>9, <2>2 DEF Decide
    <3>2. Total(count, S) <= Limit
      <4>1. Total(count, S) \in Nat
        BY <1>7, <1>8, CountedFinite, FS_CardinalityType DEF Total
      <4> QED BY <2>2, <4>1, SizeAssumption
    <3>3. AtMostLimitPerStore'
      BY <1>1, <1>2, <1>6, <1>7, <1>8, <1>9, <3>1, <3>2, AdmitKeepsLimit DEF IInv
    <3>4. LetThrough'
      BY <1>1, <1>6, <3>1 DEF IInv, LetThrough, TypeOK
    <3>5. RefusedOverLimit'
      BY <3>1 DEF IInv, RefusedOverLimit, Within, Span, Second, NoRefusal
    <3> QED BY <3>3, <3>4, <3>5
  <2> QED BY <2>1, <2>2
<1> QED BY <1>1, <1>2, <1>3, <1>5, <1>10 DEF IInv

LEMMA MemoryStep ==
  ASSUME IInv, NEW p \in Process, CheckInMemory(p)
  PROVE  IInv'
<1> DEFINE e == NewEvent(p)
<1> DEFINE f == NewStore(p)
<1>1. /\ TypeOK /\ TypeOK' /\ Counts /\ now \in Nat /\ p \in Store /\ p # Shared
      /\ UNCHANGED <<now, count, expiry, bucket, attempts>>
  BY MemoryType, MemorySteps, SizeAssumption DEF IInv, TypeOK, Second, redis, Store
<1>2. CurrentBucket \in Bucket /\ CurrentBucket \in Nat /\ NumBuckets \in Nat /\ Bucket \subseteq Nat
  BY <1>1, BucketOf, BucketSet, BucketsOfWindow
<1>3. store[p] \in [Bucket -> Nat] /\ Bumped(p) \in [Bucket -> Nat] /\ f \in [Bucket -> Nat]
  <2>1. Bumped(p) \in [Bucket -> Nat]
    BY <1>1, <1>2 DEF Bumped, TypeOK
  <2> QED BY <1>1, <2>1, KeptType DEF NewStore, TypeOK
<1>4. /\ f[CurrentBucket] = store[p][CurrentBucket] + 1
      /\ \A b \in Bucket \ {CurrentBucket} :
           IF Summed(b) THEN f[b] = store[p][b] ELSE f[b] = 0
  <2>1. /\ Bumped(p)[CurrentBucket] = store[p][CurrentBucket] + 1
        /\ \A b \in Bucket \ {CurrentBucket} : Bumped(p)[b] = store[p][b]
    BY <1>2, <1>3 DEF Bumped
  <2>2. \A b \in Bucket : f[b] = IF b < CurrentBucket - NumBuckets THEN 0 ELSE Bumped(p)[b]
    BY DEF NewStore, Kept
  <2>3. ~(CurrentBucket < CurrentBucket - NumBuckets)
    BY <1>2
  <2>4. f[CurrentBucket] = store[p][CurrentBucket] + 1
    BY <1>2, <2>1, <2>2, <2>3
  <2>5. \A b \in Bucket : b < CurrentBucket - NumBuckets <=> ~Summed(b)
    BY <1>2 DEF Summed
  <2> QED BY <2>1, <2>2, <2>4, <2>5
<1>5. e = [at |-> now, nth |-> store[p][CurrentBucket] + 1]
  BY <1>4 DEF NewEvent
<1>6. Counter(p) = store[p] /\ Counter(p)' = f
  BY <1>1, MemorySteps DEF Counter, TypeOK
<1>7. \A r \in Store \ {p} : Counter(r)' = Counter(r)
  BY <1>1, MemorySteps DEF Counter, TypeOK, Store
<1>8. events' = [events EXCEPT ![p] = @ \union {e}]
  BY MemorySteps
<1>9. Decide(p, e, Total(f, Bucket)) /\ e.at = now
  BY <1>5, MemorySteps
<1> HIDE DEF e, f
<1>10. Counts'
  <2>1. e = [at |-> now, nth |-> Counter(p)[CurrentBucket] + 1]
    BY <1>5, <1>6
  <2>2. Counter(p)'[CurrentBucket] = Counter(p)[CurrentBucket] + 1
    BY <1>4, <1>6
  <2>3. \A b \in Bucket \ {CurrentBucket} :
          Counter(p)'[b] = Counter(p)[b] \/ (~Summed(b) /\ Counter(p)'[b] = 0)
    BY <1>4, <1>6
  <2> QED BY <1>1, <1>7, <1>8, <2>1, <2>2, <2>3, CountingStep
<1>11. Alive'
  BY <1>1 DEF IInv, Alive
<1>12. e \in events'[p] /\ \A s \in Store : events[s] \subseteq events'[s]
  BY <1>1, <1>8 DEF TypeOK
<1>13. InHand'
  <2>1. \A q \in Process : at'[q] = at[q] \/ at'[q] = "idle"
    BY <1>1, MemorySteps DEF TypeOK
  <2> QED BY <1>1, <1>12, <2>1, InHandStays
<1>14. \A b \in Bucket : f[b] = 0 \/ (Summed(b) /\ f[b] = Counter(p)'[b])
  <2>1. Summed(CurrentBucket)
    BY <1>2 DEF Summed
  <2> QED BY <1>4, <1>6, <2>1
<1>15. LetThrough' /\ AtMostLimitPerStore' /\ RefusedOverLimit'
  <2>1. CASE Total(f, Bucket) > Limit
    <3>1. refused' = [counted |-> events'[p], at |-> now] /\ UNCHANGED admitted
      BY <1>9, <2>1 DEF Decide
    <3>2. RefusedOverLimit'
      BY <1>1, <1>3, <1>10, <1>14, <2>1, <3>1, RefuseIsOver
    <3>3. LetThrough' /\ AtMostLimitPerStore'
      BY <1>12, <3>1 DEF IInv, LetThrough, AtMostLimitPerStore, Covered, Within, Span, Second
    <3> QED BY <3>2, <3>3
  <2>2. CASE ~(Total(f, Bucket) > Limit)
    <3>1. /\ admitted' = [admitted EXCEPT ![p] = @ \union {e}]
          /\ UNCHANGED refused
      BY <1>9, <2>2 DEF Decide
    <3>2. Total(f, Bucket) <= Limit
      <4>1. Total(f, Bucket) \in Nat
        BY <1>3, CountedFinite, FS_CardinalityType DEF Total
      <4> QED BY <2>2, <4>1, SizeAssumption
    <3>3. \A b \in Bucket : b <= CurrentBucket /\ Summed(b) => b \in Bucket /\ f[b] = Counter(p)'[b]
      BY <1>6
    <3>4. AtMostLimitPerStore'
      BY <1>1, <1>3, <1>9, <1>10, <1>12, <3>1, <3>2, <3>3, AdmitKeepsLimit DEF IInv
    <3>5. LetThrough'
      BY <1>1, <1>12, <3>1 DEF IInv, LetThrough, TypeOK
    <3>6. RefusedOverLimit'
      BY <3>1 DEF IInv, RefusedOverLimit, Within, Span, Second, NoRefusal
    <3> QED BY <3>4, <3>5, <3>6
  <2> QED BY <2>1, <2>2
<1> QED BY <1>1, <1>10, <1>11, <1>13, <1>15 DEF IInv

LEMMA GetCountStep ==
  ASSUME IInv, NEW p \in Process, GetCount(p)
  PROVE  IInv'
<1>1. /\ TypeOK /\ TypeOK' /\ Counts /\ now \in Nat
      /\ UNCHANGED <<now, count, expiry, at, bucket, attempts, events, admitted, refused>>
  <2>1. TypeOK /\ Counts
    BY DEF IInv
  <2>2. TypeOK'
    BY <2>1, GetCountType
  <2>3. now \in Nat
    BY <2>1 DEF TypeOK, Second
  <2> QED BY <2>1, <2>2, <2>3 DEF GetCount, redis, local, history
<1>2. ASSUME NEW s \in Store, NEW b \in Bucket
      PROVE  Counter(s)'[b] = Counter(s)[b] \/ (~Summed(b)' /\ Counter(s)'[b] = 0)
  <2>1. CASE s = p /\ s # Shared
    <3>1. store'[p] = Kept(CurrentBucket, store[p])
      BY <1>1 DEF GetCount, TypeOK
    <3>2. store'[p][b] = IF b < CurrentBucket - NumBuckets THEN 0 ELSE store[p][b]
      BY <3>1 DEF Kept
    <3>3. CurrentBucket \in Nat /\ NumBuckets \in Nat /\ b \in Nat /\ CurrentBucket' = CurrentBucket
      BY <1>1, BucketOf, BucketSet, BucketsOfWindow DEF CurrentBucket
    <3>4. b < CurrentBucket - NumBuckets => ~Summed(b)'
      BY <3>3 DEF Summed
    <3> QED BY <2>1, <3>2, <3>4 DEF Counter
  <2>2. CASE ~(s = p /\ s # Shared)
    BY <1>1, <2>2 DEF Counter, GetCount, TypeOK, Store
  <2> QED BY <2>1, <2>2
<1>3. Counts'
  <2>1. now <= now'
    BY <1>1
  <2> QED BY <1>1, <1>2, <2>1, ForgettingStep
<1>4. Alive' /\ InHand'
  BY <1>1 DEF IInv, Alive, InHand, CurrentBucket
<1>5. LetThrough' /\ AtMostLimitPerStore' /\ RefusedOverLimit'
  BY <1>1, Undisturbed
<1> QED BY <1>1, <1>3, <1>4, <1>5 DEF IInv

LEMMA IInvStep ==
  ASSUME IInv, [Next]_vars
  PROVE  IInv'
<1>1. CASE UNCHANGED vars
  <2>1. TypeOK'
    BY <1>1, TypeStep DEF IInv
  <2>2. UNCHANGED <<now, count, expiry, store, at, bucket, attempts, events, admitted, refused>>
    BY <1>1 DEF vars, redis, local, history
  <2>3. Counts'
    BY <2>2 DEF IInv, Counts, Past, Distinct, Numbered, Backed, BucketNo, Summed, Counter, CurrentBucket
  <2>4. Alive' /\ InHand'
    BY <2>2 DEF IInv, Alive, InHand, CurrentBucket
  <2>5. LetThrough' /\ AtMostLimitPerStore' /\ RefusedOverLimit'
    BY <2>2, Undisturbed
  <2> QED BY <2>1, <2>3, <2>4, <2>5 DEF IInv
<1>2. CASE Next
  BY <1>2, TickStep, BeginStep, IncrStep, ExpireStep, CountStep, MemoryStep, GetCountStep
     DEF Next, Fallback
<1> QED BY <1>1, <1>2

(* Whatever processes share the key, however their commands interleave and *)
(* wherever Redis fails: in no span of the window does one store let more  *)
(* events through than the limit, if the buckets cover the window.         *)
THEOREM LimitHolds == Spec => []AtMostLimitPerStore
<1>1. IInv => AtMostLimitPerStore
  BY DEF IInv
<1> QED BY <1>1, InitIInv, IInvStep, PTL DEF Spec

(* And none refuses an event unless it has counted more than the limit in  *)
(* the window and one bucket: keys expire and buckets are dropped in time. *)
THEOREM RefusalsHold == Spec => []RefusedOverLimit
<1>1. IInv => RefusedOverLimit
  BY DEF IInv
<1> QED BY <1>1, InitIInv, IInvStep, PTL DEF Spec
=============================================================================
