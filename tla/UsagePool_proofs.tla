-------------------------- MODULE UsagePool_proofs --------------------------
(***************************************************************************)
(* Proofs about UsagePool, for any number of instances, sessions, models   *)
(* and crashes and for any timeouts: type correctness, that at most one    *)
(* instance cleans, and what the pool of a process alone says of use.      *)
(***************************************************************************)
EXTENDS UsagePool, TLAPS

(* A sweep, and its end, are those of a running clean-up.                  *)
SweepRuns ==
  \A i \in Instance :
    at[i] \in {"renew", "scan", "rows", "release", "delete"} => cleaner[i] = "running"

(* Whoever cleans holds the lock. It was renewed at the start of the sweep *)
(* and lives on until the clean-up has slept too long.                     *)
RunnerHolds ==
  Redis /\ ~late =>
    \A i \in Instance : cleaner[i] = "running" =>
      /\ lock = i
      /\ ttl >= LockTimeout - Timeout + timer[i]
      /\ ttl > 0
      /\ at[i] \in {"renew", "scan", "rows"} => ttl = LockTimeout /\ timer[i] <= 0

IInv == TypeOK /\ SweepRuns /\ RunnerHolds

-----------------------------------------------------------------------------
LEMMA OldestType == Oldest \in Nat /\ 0 \in 0 .. Oldest
  BY TimeAssumption DEF Oldest

LEMMA RowTypes ==
  /\ NoRow \in Row
  /\ \A r \in Row : Older(r) \in Row /\ Fresh(r) \in Row
  /\ \A r \in Row, s \in Session : [r EXCEPT ![s] = 0] \in Row
<1>1. NoRow \in Row
  BY DEF NoRow, Row
<1>2. ASSUME NEW r \in Row PROVE Older(r) \in Row
  BY OldestType DEF Older, Row
<1>3. ASSUME NEW r \in Row PROVE Fresh(r) \in Row
  BY DEF Fresh, Row
<1>4. ASSUME NEW r \in Row, NEW s \in Session PROVE [r EXCEPT ![s] = 0] \in Row
  BY OldestType DEF Row
<1> QED
  BY <1>1, <1>2, <1>3, <1>4

(* Every step keeps the types. *)
LEMMA TypeStep == TypeOK /\ [Next]_vars => TypeOK'
<1> SUFFICES ASSUME TypeOK, [Next]_vars PROVE TypeOK'
  OBVIOUS
<1> USE TimeAssumption, NoneAssumption, ModeAssumption, RowTypes
    DEF TypeOK, locks, cleanup, rows, GoTo, MaxRetries
<1>1. CASE Tick
  <2>1. pool' \in [Model -> Row] /\ heard' \in [Model -> Row]
    BY <1>1 DEF Tick
  <2>2. snap' \in [Instance -> [Model -> Row]]
    BY <1>1 DEF Tick
  <2>3. timer' \in [Instance -> -MaxLag .. LockTimeout + Timeout]
    BY <1>1 DEF Tick
  <2>4. ttl' \in 0 .. LockTimeout /\ lock' \in Instance \union {None}
    BY <1>1 DEF Tick
  <2> QED
    BY <1>1, <2>1, <2>2, <2>3, <2>4 DEF Tick
<1>2. ASSUME NEW i \in Instance, NEW s \in Session, NEW m \in Model, UsageExists(i, s, m) PROVE TypeOK'
  <2>1. usage' \in [Instance -> [by : Session, model : Model] \union {None}]
    BY <1>2 DEF UsageExists
  <2>2. \A j \in Instance : at'[j] \in {"get", "set"} => usage'[j] # None
    BY <1>2 DEF UsageExists
  <2>3. at' \in [Instance -> {"idle", "get", "set", "renew", "scan", "rows", "release", "delete",
                     "down"}]
    BY <1>2 DEF UsageExists
  <2> QED
    BY <1>2, <2>1, <2>2, <2>3 DEF UsageExists
<1>3. ASSUME NEW i \in Instance, UsageGet(i) PROVE TypeOK'
  <2>1. usage[i] # None /\ usage[i].model \in Model
    BY <1>3 DEF UsageGet
  <2>2. snap' \in [Instance -> [Model -> Row]]
    BY <1>3, <2>1 DEF UsageGet
  <2> QED
    BY <1>3, <2>1, <2>2 DEF UsageGet
<1>4. ASSUME NEW i \in Instance, UsageSet(i) PROVE TypeOK'
  <2>1. usage[i] # None /\ usage[i].model \in Model /\ usage[i].by \in Session
    BY <1>4 DEF UsageSet
  <2>2. pool' \in [Model -> Row]
    <3>1. RowWith(i, usage[i].by, usage[i].model) \in Row
      <4>1. snap[i][usage[i].model] \in Row
        BY <2>1
      <4> QED
        BY <2>1, <4>1, RowTypes DEF RowWith
    <3> QED
      BY <1>4, <2>1, <3>1 DEF UsageSet
  <2>3. heard' \in [Model -> Row]
    BY <1>4, <2>1 DEF UsageSet
  <2>4. snap' \in [Instance -> [Model -> Row]]
    BY <1>4 DEF UsageSet, Forget
  <2> QED
    BY <1>4, <2>2, <2>3, <2>4 DEF UsageSet, Forget
<1>5. ASSUME NEW i \in Instance, Acquire(i) PROVE TypeOK'
  BY <1>5 DEF Acquire
<1>6. ASSUME NEW i \in Instance, Retry(i) PROVE TypeOK'
  <2>1. PICK delay \in LockTimeout \div 2 .. LockTimeout : timer' = [timer EXCEPT ![i] = delay]
    BY <1>6 DEF Retry
  <2>2. delay \in -MaxLag .. LockTimeout + Timeout
    BY <2>1
  <2>3. tries' \in [Instance -> 0 .. MaxRetries]
    <3>1. tries[i] \in 0 .. 2 /\ tries[i] < 2 /\ tries' = [tries EXCEPT ![i] = tries[i] + 1]
      BY <1>6 DEF Retry
    <3> QED
      BY <3>1
  <2>4. timer' \in [Instance -> -MaxLag .. LockTimeout + Timeout]
    BY <2>1, <2>2
  <2> QED
    BY <1>6, <2>3, <2>4 DEF Retry
<1>7. ASSUME NEW i \in Instance, GiveUp(i) PROVE TypeOK'
  BY <1>7 DEF GiveUp
<1>8. ASSUME NEW i \in Instance, Renew(i) PROVE TypeOK'
  BY <1>8 DEF Renew, Renewed
<1>9. ASSUME NEW i \in Instance, RenewFails(i) PROVE TypeOK'
  BY <1>9 DEF RenewFails
<1>10. ASSUME NEW i \in Instance, Scan(i) PROVE TypeOK'
  BY <1>10 DEF Scan
<1>11. ASSUME NEW i \in Instance, NEW m \in Model, CleanRow(i, m) PROVE TypeOK'
  BY <1>11 DEF CleanRow
<1>12. ASSUME NEW i \in Instance, NEW m \in Model, CleanRowFails(i, m) PROVE TypeOK'
  BY <1>12 DEF CleanRowFails, Forget
<1>13. ASSUME NEW i \in Instance, Sleep(i) PROVE TypeOK'
  <2>1. Timeout \in -MaxLag .. LockTimeout + Timeout
    OBVIOUS
  <2> QED
    BY <1>13, <2>1 DEF Sleep, Forget
<1>14. ASSUME NEW i \in Instance, Release(i) PROVE TypeOK'
  BY <1>14 DEF Release, Gone
<1>15. ASSUME NEW i \in Instance, Delete(i) PROVE TypeOK'
  BY <1>15 DEF Delete, Gone
<1>16. ASSUME NEW i \in Instance, Crash(i) PROVE TypeOK'
  BY <1>16 DEF Crash, Forget
<1>17. CASE UNCHANGED vars
  BY <1>17 DEF vars
<1> QED
  BY <1>1, <1>2, <1>3, <1>4, <1>5, <1>6, <1>7, <1>8, <1>9, <1>10, <1>11, <1>12, <1>13,
     <1>14, <1>15, <1>16, <1>17 DEF Next, Usage, Cleanup

LEMMA TypeInit == Init => TypeOK
<1> SUFFICES ASSUME Init PROVE TypeOK
  OBVIOUS
<1>1. late \in BOOLEAN
  BY Zenon DEF Init
<1> QED
  BY <1>1, TimeAssumption, NoneAssumption, ModeAssumption, RowTypes
  DEF Init, TypeOK, MaxRetries

(* Every variable has its type, whatever the instances do and however late *)
(* they are.                                                               *)
THEOREM TypeCorrect == Spec => []TypeOK
  BY TypeInit, TypeStep, PTL DEF Spec
-----------------------------------------------------------------------------
(* Every step keeps SweepRuns. *)
LEMMA SweepStep == TypeOK /\ SweepRuns /\ [Next]_vars => SweepRuns'
<1> SUFFICES ASSUME TypeOK, SweepRuns, [Next]_vars PROVE SweepRuns'
  OBVIOUS
<1> USE DEF TypeOK, SweepRuns, cleanup, GoTo
<1>1. CASE Tick
  BY <1>1 DEF Tick
<1>2. ASSUME NEW i \in Instance, Usage(i) PROVE SweepRuns'
  BY <1>2 DEF Usage, UsageExists, UsageGet, UsageSet
<1>3. ASSUME NEW i \in Instance, Acquire(i) PROVE SweepRuns'
  BY <1>3 DEF Acquire, Due
<1>4. ASSUME NEW i \in Instance, Retry(i) \/ GiveUp(i) PROVE SweepRuns'
  BY <1>4 DEF Retry, GiveUp, Due
<1>5. ASSUME NEW i \in Instance, Renew(i) \/ RenewFails(i) PROVE SweepRuns'
  BY <1>5 DEF Renew, RenewFails, Renewing, Due
<1>6. ASSUME NEW i \in Instance, Scan(i) \/ Sleep(i) PROVE SweepRuns'
  BY <1>6 DEF Scan, Sleep
<1>7. ASSUME NEW i \in Instance, NEW m \in Model, CleanRow(i, m) \/ CleanRowFails(i, m)
      PROVE  SweepRuns'
  BY <1>7 DEF CleanRow, CleanRowFails
<1>8. ASSUME NEW i \in Instance, Release(i) \/ Delete(i) \/ Crash(i) PROVE SweepRuns'
  BY <1>8 DEF Release, Delete, Gone, Crash
<1>9. CASE UNCHANGED vars
  BY <1>9 DEF vars
<1> QED
  BY <1>1, <1>2, <1>3, <1>4, <1>5, <1>6, <1>7, <1>8, <1>9 DEF Next, Cleanup

(* Every step keeps RunnerHolds: the lock outlives every sleep, so nobody  *)
(* acquires or deletes it while another instance cleans.                   *)
LEMMA HoldsStep == IInv /\ [Next]_vars => RunnerHolds'
<1> SUFFICES ASSUME IInv, [Next]_vars, Redis, ~late',
                    NEW i \in Instance, cleaner'[i] = "running"
             PROVE  /\ lock' = i
                    /\ ttl' >= LockTimeout - Timeout + timer'[i]
                    /\ ttl' > 0
                    /\ at'[i] \in {"renew", "scan", "rows"} => ttl' = LockTimeout /\ timer'[i] <= 0
  BY DEF RunnerHolds
<1> DEFINE Goal == /\ lock' = i
                   /\ ttl' >= LockTimeout - Timeout + timer'[i]
                   /\ ttl' > 0
                   /\ at'[i] \in {"renew", "scan", "rows"} => ttl' = LockTimeout /\ timer'[i] <= 0
<1> USE TimeAssumption, NoneAssumption
    DEF IInv, TypeOK, SweepRuns, RunnerHolds, locks, cleanup, GoTo
<1>1. CASE Tick
  <2>1. cleaner[i] = "running" /\ timer'[i] = timer[i] - 1
    BY <1>1 DEF Tick
  <2>2. ~late /\ timer'[i] > Timeout - LockTimeout
    <3>1. ~(late \/ \E j \in Instance :
                      cleaner[j] = "running" /\ timer'[j] <= Timeout - LockTimeout)
      BY <1>1, Zenon DEF Tick
    <3>2. ~(timer'[i] <= Timeout - LockTimeout)
      BY <2>1, <3>1, Zenon
    <3> QED
      BY <2>1, <3>1, <3>2
  <2>3. lock = i /\ ttl >= LockTimeout - Timeout + timer[i] /\ ttl > 1
    BY <2>1, <2>2
  <2>4. lock' = i /\ ttl' = ttl - 1
    BY <1>1, <2>3 DEF Tick
  <2>5. at'[i] \notin {"renew", "scan", "rows"}
    BY <1>1 DEF Tick
  <2> QED
    BY <2>1, <2>3, <2>4, <2>5
<1>2. ASSUME NEW j \in Instance, Usage(j) PROVE Goal
  BY <1>2 DEF Usage, UsageExists, UsageGet, UsageSet
<1>3. ASSUME NEW j \in Instance, Acquire(j) PROVE Goal
  <2>1. lock = None /\ \A l \in Instance : cleaner[l] # "running"
    BY <1>3 DEF Acquire, Free
  <2>2. i = j
    BY <1>3, <2>1 DEF Acquire
  <2> QED
    BY <1>3, <2>2 DEF Acquire, Due
<1>4. ASSUME NEW j \in Instance, Retry(j) \/ GiveUp(j) PROVE Goal
  <2>1. cleaner[i] = "running" /\ i # j
    BY <1>4 DEF Retry, GiveUp, Due
  <2>2. timer'[i] = timer[i]
    BY <1>4, <2>1 DEF Retry, GiveUp
  <2> QED
    BY <1>4, <2>1, <2>2 DEF Retry, GiveUp
<1>5. ASSUME NEW j \in Instance, Renew(j) PROVE Goal
  <2>1. cleaner[i] = "running" /\ i = j /\ timer[i] <= 0
    BY <1>5 DEF Renew, Renewing, Due
  <2> QED
    BY <1>5, <2>1 DEF Renew, Renewed
<1>6. ASSUME NEW j \in Instance, RenewFails(j) PROVE FALSE
  BY <1>6 DEF RenewFails, Renewing, Due
<1>7. ASSUME NEW j \in Instance, Scan(j) PROVE Goal
  BY <1>7 DEF Scan
<1>8. ASSUME NEW j \in Instance, NEW m \in Model, CleanRow(j, m) \/ CleanRowFails(j, m)
      PROVE  Goal
  BY <1>8 DEF CleanRow, CleanRowFails
<1>9. ASSUME NEW j \in Instance, Sleep(j) PROVE Goal
  <2>1. cleaner[i] = "running" /\ i = j /\ ttl = LockTimeout
    BY <1>9 DEF Sleep
  <2> QED
    BY <1>9, <2>1 DEF Sleep
<1>10. ASSUME NEW j \in Instance, Release(j) \/ Crash(j) PROVE Goal
  BY <1>10 DEF Release, Gone, Crash
<1>11. ASSUME NEW j \in Instance, Delete(j) PROVE FALSE
  <2>1. cleaner[j] = "running" /\ i # j /\ cleaner[i] = "running" /\ ~late
    BY <1>11 DEF Delete, Gone
  <2> QED
    BY <2>1
<1>12. CASE UNCHANGED vars
  BY <1>12 DEF vars
<1> QED
  BY <1>1, <1>2, <1>3, <1>4, <1>5, <1>6, <1>7, <1>8, <1>9, <1>10, <1>11, <1>12
  DEF Next, Cleanup

(* OneCleaner: for any number of instances and any timeouts, at most one   *)
(* instance cleans as long as none has slept for as long as the lock lives.*)
THEOREM AtMostOneCleans == Spec => []OneCleaner
<1>1. Init => IInv
  BY TypeInit DEF Init, IInv, SweepRuns, RunnerHolds
<1>2. IInv /\ [Next]_vars => IInv'
  BY TypeStep, SweepStep, HoldsStep DEF IInv
<1>3. IInv => OneCleaner
  BY DEF IInv, RunnerHolds, OneCleaner
<1> QED
  BY <1>1, <1>2, <1>3, PTL DEF Spec
-----------------------------------------------------------------------------
(* PoolIsCurrent is about a process alone, with the pool in its memory.    *)
Alone == ~Redis /\ MaxCrashes = 0 /\ \E i : Instance = {i}

(* Its clean-up never ends. *)
GoesOn == \A i \in Instance : at[i] \notin {"release", "delete", "down"} /\ cleaner[i] # "gone"

(* What it has read of the pool is still so. *)
InSight ==
  \A i \in Instance :
    /\ at[i] = "idle" => snap[i] = [m \in Model |-> NoRow]
    /\ at[i] = "get" => Listed(usage[i].model)
    /\ at[i] = "set" => snap[i][usage[i].model] = pool[usage[i].model]
    /\ at[i] = "rows" => \A m \in todo[i] : snap[i][m] = pool[m] /\ Listed(m)

(* A session is as old in the pool as its last usage is, or has timed out. *)
Agree ==
  \A m \in Model, s \in Session :
    \/ pool[m][s] = heard[m][s]
    \/ pool[m][s] = None /\ heard[m][s] \in Timeout + 1 .. Oldest

(* None is older than a sweep leaves it by more than the time gone by      *)
(* since; the first sweep was due at the start.                            *)
Sweeping(i) == IF cleaner[i] = "starting" THEN 0 ELSE 2 * Timeout
Aged ==
  \A i \in Instance, m \in Model, s \in Session :
    pool[m][s] # None =>
      IF at[i] = "rows" /\ m \notin todo[i] THEN pool[m][s] <= Timeout
      ELSE pool[m][s] <= Sweeping(i) - timer[i]

OnTime == \A i \in Instance : timer[i] <= Sweeping(i)

PoolFacts == GoesOn /\ InSight /\ Agree /\ Aged /\ OnTime
PInv == TypeOK /\ SweepRuns /\ PoolFacts

LEMMA AgeType ==
  ASSUME TypeOK, NEW m \in Model, NEW s \in Session
  PROVE  /\ pool[m][s] # None => pool[m][s] \in 0 .. Oldest
         /\ heard[m][s] # None => heard[m][s] \in 0 .. Oldest
         /\ pool[m] \in Row /\ heard[m] \in Row
BY DEF TypeOK, Row

LEMMA OlderAge ==
  ASSUME NEW r \in Row, NEW s \in Session
  PROVE  /\ r[s] = None <=> Older(r)[s] = None
         /\ r[s] # None => /\ r[s] \in 0 .. Oldest
                           /\ Older(r)[s] = IF r[s] < Oldest THEN r[s] + 1 ELSE r[s]
BY OldestType, NoneAssumption DEF Row, Older

LEMMA OlderListed ==
  ASSUME NEW r \in Row
  PROVE  Older(r) = NoRow <=> r = NoRow
<1>1. Older(r) \in Row /\ NoRow \in Row
  BY RowTypes
<1>2. ASSUME NEW q \in Row
      PROVE  q = NoRow <=> \A s \in Session : q[s] = None
  BY DEF NoRow, Row
<1>3. \A s \in Session : r[s] = None <=> Older(r)[s] = None
  BY OlderAge
<1> QED BY <1>1, <1>2, <1>3

(* Nothing but the clean-up's regular steps is left of Next.               *)
LEMMA AloneActs ==
  ASSUME Alone, PInv, NEW i \in Instance, Cleanup(i) \/ Crash(i)
  PROVE  Acquire(i) \/ Renew(i) \/ Scan(i) \/ (\E m \in Model : CleanRow(i, m)) \/ Sleep(i)
<1>1. at[i] \notin {"release", "delete"} /\ ~Redis /\ MaxCrashes = 0 /\ crashes \in 0 .. 0
  BY DEF PInv, PoolFacts, GoesOn, Alone, TypeOK
<1>2. ~Retry(i) /\ ~GiveUp(i)
  BY <1>1 DEF Retry, GiveUp, Free
<1>3. ~RenewFails(i) /\ ~Release(i) /\ ~Delete(i)
  BY <1>1 DEF RenewFails, Release, Delete
<1>4. ~Crash(i)
  BY <1>1 DEF Crash
<1>5. ASSUME NEW m \in Model, CleanRowFails(i, m)
      PROVE  FALSE
  BY <1>5 DEF CleanRowFails, PInv, PoolFacts, InSight
<1> QED BY <1>2, <1>3, <1>4, <1>5 DEF Cleanup

LEMMA PoolTick ==
  ASSUME Alone, PInv, Tick
  PROVE  PoolFacts'
<1>1. TypeOK /\ \A m \in Model : pool[m] \in Row /\ heard[m] \in Row
  BY DEF PInv, PoolFacts, TypeOK
<1>2. \A m \in Model : pool'[m] = Older(pool[m]) /\ heard'[m] = Older(heard[m])
  BY DEF Tick
<1>3. \A i \in Instance : at[i] \in {"idle", "get", "set", "down"} /\ at'[i] = at[i]
  BY DEF Tick
<1>4. \A i \in Instance, m \in Model : snap'[i][m] = Older(snap[i][m])
  BY DEF Tick
<1>5. UNCHANGED <<cleaner, usage, todo>>
  BY DEF Tick
<1>6. GoesOn'
  BY <1>3, <1>5 DEF PInv, PoolFacts, GoesOn
<1>7. InSight'
  <2> SUFFICES ASSUME NEW i \in Instance
               PROVE  /\ at'[i] = "idle" => snap'[i] = [m \in Model |-> NoRow]
                      /\ at'[i] = "get" => Listed(usage[i].model)'
                      /\ at'[i] = "set" => snap'[i][usage[i].model] = pool'[usage[i].model]
    BY <1>3, <1>5 DEF InSight
  <2>1. ASSUME at[i] = "idle"
        PROVE  snap'[i] = [m \in Model |-> NoRow]
    <3>1. \A m \in Model : Older(snap[i][m]) = NoRow
      BY <2>1, RowTypes, OlderListed DEF PInv, PoolFacts, InSight
    <3>2. snap'[i] = [m \in Model |-> Older(snap[i][m])]
      BY DEF Tick
    <3> QED BY <3>1, <3>2
  <2>2. at[i] \in {"get", "set"} => usage[i].model \in Model
    BY NoneAssumption, <1>1 DEF TypeOK
  <2>3. at[i] = "get" => Listed(usage[i].model)'
    BY <1>1, <1>2, <1>5, <2>2, OlderListed DEF PInv, PoolFacts, InSight, Listed
  <2>4. at[i] = "set" => snap'[i][usage[i].model] = pool'[usage[i].model]
    BY <1>2, <1>4, <2>2 DEF PInv, PoolFacts, InSight
  <2> QED BY <1>3, <2>1, <2>3, <2>4
<1>8. Agree'
  <2> SUFFICES ASSUME NEW m \in Model, NEW s \in Session
               PROVE  \/ pool'[m][s] = heard'[m][s]
                      \/ pool'[m][s] = None /\ heard'[m][s] \in Timeout + 1 .. Oldest
    BY DEF Agree, Oldest
  <2>1. CASE pool[m][s] = heard[m][s]
    <3>1. Older(pool[m])[s] = Older(heard[m])[s]
      BY <2>1 DEF Older
    <3> QED BY <1>2, <3>1
  <2>2. CASE pool[m][s] = None /\ heard[m][s] \in Timeout + 1 .. Oldest
    <3>1. pool'[m][s] = None
      BY <1>1, <1>2, <2>2, OlderAge
    <3>2. heard[m][s] # None
      BY <2>2, NoneAssumption, TimeAssumption, OldestType
    <3>3. heard'[m][s] = IF heard[m][s] < Oldest THEN heard[m][s] + 1 ELSE heard[m][s]
      BY <1>1, <1>2, <3>2, OlderAge
    <3> QED BY <2>2, <3>1, <3>3, OldestType, TimeAssumption
  <2> QED BY <2>1, <2>2 DEF PInv, PoolFacts, Agree
<1>9. Aged'
  <2> SUFFICES ASSUME NEW i \in Instance, NEW m \in Model, NEW s \in Session, pool'[m][s] # None
               PROVE  pool'[m][s] <= Sweeping(i) - timer'[i]
    BY <1>3, <1>5 DEF Aged, Sweeping
  <2>1. pool[m][s] # None /\ pool[m][s] \in Nat /\ pool'[m][s] <= pool[m][s] + 1
    BY <1>1, <1>2, OlderAge, OldestType
  <2>2. timer'[i] = timer[i] - 1 /\ timer[i] \in Int
    BY <1>1, TimeAssumption DEF Tick, PInv, PoolFacts, GoesOn, TypeOK
  <2>3. pool[m][s] <= Sweeping(i) - timer[i]
    BY <1>3, <2>1 DEF PInv, PoolFacts, Aged
  <2>4. Sweeping(i) \in Int /\ pool'[m][s] \in Int
    BY <1>1, <1>2, <2>1, OlderAge, OldestType, TimeAssumption DEF Sweeping
  <2> QED BY <2>1, <2>2, <2>3, <2>4
<1>10. OnTime'
  <2> SUFFICES ASSUME NEW i \in Instance
               PROVE  timer'[i] <= Sweeping(i)
    BY <1>5 DEF OnTime, Sweeping
  <2>1. timer'[i] = timer[i] - 1 /\ timer[i] \in Int
    BY <1>1, TimeAssumption DEF Tick, PInv, PoolFacts, GoesOn, TypeOK
  <2>2. timer[i] <= Sweeping(i) /\ Sweeping(i) \in Int
    BY TimeAssumption DEF PInv, PoolFacts, OnTime, Sweeping
  <2> QED BY <2>1, <2>2
<1> QED BY <1>6, <1>7, <1>8, <1>9, <1>10 DEF PoolFacts

LEMMA PoolUsage ==
  ASSUME Alone, PInv, NEW i \in Instance, Usage(i)
  PROVE  PoolFacts'
<1>1. TypeOK /\ \A j \in Instance : j = i
  BY DEF PInv, PoolFacts, Alone
<1>2. ASSUME NEW s \in Session, NEW m \in Model, UsageExists(i, s, m)
      PROVE  PoolFacts'
  <2>1. /\ usage'[i].model = m /\ at'[i] = IF Listed(m) THEN "get" ELSE "set"
        /\ at[i] = "idle" /\ UNCHANGED <<pool, heard, cleaner, timer, snap, todo>>
    BY <1>1, <1>2 DEF UsageExists, GoTo, TypeOK, cleanup
  <2>2. GoesOn' /\ Agree' /\ Aged' /\ OnTime'
    BY <1>1, <2>1 DEF PInv, PoolFacts, GoesOn, Agree, Aged, OnTime, Sweeping
  <2>3. InSight'
    BY <1>1, <2>1 DEF PInv, PoolFacts, InSight, Listed
  <2> QED BY <2>2, <2>3 DEF PoolFacts
<1>3. ASSUME UsageGet(i)
      PROVE  PoolFacts'
  <2> DEFINE m == usage[i].model
  <2>1. m \in Model /\ Listed(m) /\ at[i] = "get"
    BY <1>1, <1>3, NoneAssumption DEF UsageGet, PInv, PoolFacts, InSight, TypeOK
  <2>2. /\ snap'[i][m] = pool[m] /\ usage'[i] = usage[i] /\ at'[i] = "set"
        /\ UNCHANGED <<pool, heard, cleaner, timer, todo>>
    BY <1>1, <1>3, <2>1 DEF UsageGet, GoTo, TypeOK, cleanup
  <2>3. GoesOn' /\ Agree' /\ Aged' /\ OnTime'
    BY <1>1, <2>1, <2>2 DEF PInv, PoolFacts, GoesOn, Agree, Aged, OnTime, Sweeping
  <2>4. InSight'
    BY <1>1, <2>1, <2>2 DEF InSight
  <2> QED BY <2>3, <2>4 DEF PoolFacts
<1>4. ASSUME UsageSet(i)
      PROVE  PoolFacts'
  <2> DEFINE m == usage[i].model
  <2> DEFINE s == usage[i].by
  <2>1. m \in Model /\ s \in Session /\ at[i] = "set" /\ snap[i][m] = pool[m]
    BY <1>1, <1>4, NoneAssumption DEF UsageSet, PInv, PoolFacts, InSight, TypeOK
  <2>2. /\ at'[i] = "idle" /\ snap'[i] = [x \in Model |-> NoRow]
        /\ UNCHANGED <<cleaner, timer, todo>>
    BY <1>1, <1>4 DEF UsageSet, GoTo, Forget, TypeOK, cleanup
  <2>3. pool' = [pool EXCEPT ![m] = [pool[m] EXCEPT ![s] = 0]]
    BY <1>4, <2>1 DEF UsageSet, RowWith
  <2>4. heard' = [heard EXCEPT ![m] = [heard[m] EXCEPT ![s] = 0]]
    BY <1>4 DEF UsageSet
  <2>5. \A x \in Model, y \in Session :
          IF x = m /\ y = s THEN pool'[x][y] = 0 /\ heard'[x][y] = 0
          ELSE pool'[x][y] = pool[x][y] /\ heard'[x][y] = heard[x][y]
    <3>1. pool \in [Model -> Row] /\ heard \in [Model -> Row]
      BY <1>1 DEF TypeOK
    <3>2. \A x \in Model : DOMAIN pool[x] = Session /\ DOMAIN heard[x] = Session
      BY <3>1 DEF Row
    <3> HIDE DEF m, s
    <3> QED BY <2>1, <2>3, <2>4, <3>1, <3>2
  <2> HIDE DEF m, s
  <2>6. GoesOn'
    BY <1>1, <2>2 DEF PInv, PoolFacts, GoesOn
  <2>7. InSight'
    BY <1>1, <2>2 DEF InSight
  <2>8. Agree'
    BY <2>5 DEF PInv, PoolFacts, Agree, Oldest
  <2>9. Aged'
    <3> SUFFICES ASSUME NEW x \in Model, NEW y \in Session, pool'[x][y] # None
                 PROVE  pool'[x][y] <= Sweeping(i) - timer[i]
      BY <1>1, <2>2 DEF Aged, Sweeping
    <3>1. CASE x = m /\ y = s
      <4>1. timer[i] <= Sweeping(i) /\ timer[i] \in Int /\ Sweeping(i) \in Int
        BY <1>1, TimeAssumption DEF PInv, PoolFacts, OnTime, TypeOK, Sweeping
      <4> QED BY <2>5, <3>1, <4>1
    <3>2. CASE ~(x = m /\ y = s)
      BY <2>1, <2>5, <3>2 DEF PInv, PoolFacts, Aged
    <3> QED BY <3>1, <3>2
  <2>10. OnTime'
    BY <2>2 DEF PInv, PoolFacts, OnTime, Sweeping
  <2> QED BY <2>6, <2>7, <2>8, <2>9, <2>10 DEF PoolFacts
<1> QED BY <1>2, <1>3, <1>4 DEF Usage

LEMMA PoolCleanup ==
  ASSUME Alone, PInv, NEW i \in Instance,
         Acquire(i) \/ Renew(i) \/ Scan(i) \/ (\E m \in Model : CleanRow(i, m)) \/ Sleep(i)
  PROVE  PoolFacts'
<1>1. TypeOK /\ \A j \in Instance : j = i
  BY DEF PInv, Alone
<1>2. timer[i] \in Int /\ timer[i] <= Sweeping(i) /\ Sweeping(i) \in Int
  BY <1>1, TimeAssumption DEF TypeOK, PInv, PoolFacts, OnTime, Sweeping
<1>3. \A m \in Model, s \in Session : pool[m][s] # None => pool[m][s] \in Nat
  BY <1>1, AgeType, OldestType
<1>4. ASSUME Acquire(i)
      PROVE  PoolFacts'
  <2>1. /\ at[i] = "idle" /\ at'[i] = "renew" /\ cleaner[i] = "starting" /\ cleaner'[i] = "running"
        /\ UNCHANGED <<pool, heard, timer, usage, snap, todo>>
    BY <1>1, <1>4 DEF Acquire, Due, GoTo, TypeOK, rows
  <2>2. Sweeping(i) = 0 /\ Sweeping(i)' = 2 * Timeout
    BY <2>1 DEF Sweeping
  <2>3. OnTime'
    BY <1>1, <1>2, <2>1, <2>2, TimeAssumption DEF OnTime
  <2>4. Aged'
    <3> SUFFICES ASSUME NEW m \in Model, NEW s \in Session, pool[m][s] # None
                 PROVE  pool[m][s] <= 2 * Timeout - timer[i]
      BY <1>1, <2>1, <2>2 DEF Aged
    <3>1. pool[m][s] <= 0 - timer[i]
      BY <2>1, <2>2 DEF PInv, PoolFacts, Aged
    <3> QED BY <1>2, <1>3, <3>1, TimeAssumption
  <2>5. GoesOn' /\ InSight' /\ Agree'
    BY <1>1, <2>1 DEF PInv, PoolFacts, GoesOn, InSight, Agree
  <2> QED BY <2>3, <2>4, <2>5 DEF PoolFacts
<1>5. ASSUME Renew(i)
      PROVE  PoolFacts'
  <2>1. /\ at[i] \in {"idle", "renew"} /\ at'[i] = "scan"
        /\ UNCHANGED <<pool, heard, cleaner, timer, usage, snap, todo>>
    BY <1>1, <1>5 DEF Renew, Renewing, Due, GoTo, TypeOK, rows, cleanup
  <2> QED
    BY <1>1, <2>1 DEF PInv, PoolFacts, GoesOn, InSight, Agree, Aged, OnTime, Sweeping
<1>6. ASSUME Scan(i)
      PROVE  PoolFacts'
  <2>1. /\ at[i] = "scan" /\ at'[i] = "rows" /\ snap'[i] = pool
        /\ todo'[i] = {m \in Model : Listed(m)}
        /\ UNCHANGED <<pool, heard, cleaner, timer, usage>>
    BY <1>1, <1>6 DEF Scan, GoTo, TypeOK, cleanup
  <2>2. ASSUME NEW m \in Model, m \notin todo'[i], NEW s \in Session
        PROVE  pool[m][s] = None
    BY <2>1, <2>2 DEF Listed, NoRow
  <2>3. GoesOn' /\ InSight' /\ Agree' /\ OnTime'
    BY <1>1, <2>1 DEF PInv, PoolFacts, GoesOn, InSight, Agree, OnTime, Sweeping, Listed
  <2>4. Aged'
    BY <1>1, <2>1, <2>2 DEF PInv, PoolFacts, Aged, Sweeping
  <2> QED BY <2>3, <2>4 DEF PoolFacts
<1>7. ASSUME NEW m \in Model, CleanRow(i, m)
      PROVE  PoolFacts'
  <2>1. /\ at[i] = "rows" /\ m \in todo[i] /\ snap[i][m] = pool[m]
        /\ pool' = [pool EXCEPT ![m] = Fresh(pool[m])]
        /\ todo'[i] = todo[i] \ {m}
        /\ UNCHANGED <<heard, cleaner, timer, at, usage, snap>>
    BY <1>1, <1>7 DEF CleanRow, TypeOK, cleanup, PInv, PoolFacts, InSight
  <2>2. /\ pool'[m] = Fresh(pool[m])
        /\ \A x \in Model \ {m} : pool'[x] = pool[x]
    BY <1>1, <2>1 DEF TypeOK
  <2>3. \A s \in Session : pool'[m][s] = IF pool[m][s] # None /\ pool[m][s] > Timeout THEN None
                                         ELSE pool[m][s]
    BY <2>2 DEF Fresh
  <2>4. GoesOn' /\ OnTime'
    BY <2>1 DEF PInv, PoolFacts, GoesOn, OnTime, Sweeping
  <2>5. InSight'
    BY <1>1, <2>1, <2>2 DEF PInv, PoolFacts, InSight, Listed
  <2>6. Agree'
    <3> SUFFICES ASSUME NEW x \in Model, NEW s \in Session
                 PROVE  \/ pool'[x][s] = heard[x][s]
                        \/ pool'[x][s] = None /\ heard[x][s] \in Timeout + 1 .. Oldest
      BY <2>1 DEF Agree, Oldest
    <3>1. CASE x = m /\ pool[m][s] # None /\ pool[m][s] > Timeout
      <4>1. pool'[x][s] = None
        BY <2>3, <3>1
      <4>2. pool[m][s] = heard[m][s] /\ pool[m][s] \in 0 .. Oldest
        BY <1>1, <3>1, AgeType DEF PInv, PoolFacts, Agree
      <4> QED BY <3>1, <4>1, <4>2, TimeAssumption, OldestType
    <3>2. CASE ~(x = m /\ pool[m][s] # None /\ pool[m][s] > Timeout)
      <4>1. pool'[x][s] = pool[x][s]
        BY <2>2, <2>3, <3>2
      <4> QED BY <4>1 DEF PInv, PoolFacts, Agree
    <3> QED BY <3>1, <3>2
  <2>7. Aged'
    <3> SUFFICES ASSUME NEW x \in Model, NEW s \in Session, pool'[x][s] # None
                 PROVE  IF x \notin todo'[i] THEN pool'[x][s] <= Timeout
                        ELSE pool'[x][s] <= Sweeping(i) - timer[i]
      BY <1>1, <2>1 DEF Aged, Sweeping
    <3>1. CASE x = m
      <4>1. pool'[x][s] = pool[m][s] /\ pool[m][s] # None /\ ~(pool[m][s] > Timeout)
        BY <2>3, <3>1
      <4> QED BY <1>3, <2>1, <3>1, <4>1, TimeAssumption
    <3>2. CASE x # m
      BY <2>1, <2>2, <3>2 DEF PInv, PoolFacts, Aged
    <3> QED BY <3>1, <3>2
  <2> QED BY <2>4, <2>5, <2>6, <2>7 DEF PoolFacts
<1>8. ASSUME Sleep(i)
      PROVE  PoolFacts'
  <2>1. /\ at[i] = "rows" /\ todo[i] = {} /\ at'[i] = "idle" /\ timer'[i] = Timeout
        /\ snap'[i] = [x \in Model |-> NoRow]
        /\ UNCHANGED <<pool, heard, cleaner, todo>>
    BY <1>1, <1>8 DEF Sleep, GoTo, Forget, TypeOK
  <2>2. cleaner[i] = "running"
    BY <2>1 DEF PInv, SweepRuns
  <2>3. GoesOn' /\ InSight' /\ Agree'
    BY <1>1, <2>1 DEF PInv, PoolFacts, GoesOn, InSight, Agree
  <2>4. Sweeping(i)' = 2 * Timeout
    BY <2>1, <2>2 DEF Sweeping
  <2>5. OnTime'
    BY <1>1, <2>1, <2>4, TimeAssumption DEF OnTime
  <2>6. Aged'
    <3> SUFFICES ASSUME NEW m \in Model, NEW s \in Session, pool[m][s] # None
                 PROVE  pool[m][s] <= 2 * Timeout - Timeout
      BY <1>1, <2>1, <2>4 DEF Aged
    <3>1. pool[m][s] <= Timeout
      BY <2>1 DEF PInv, PoolFacts, Aged
    <3> QED BY <1>3, <3>1, TimeAssumption
  <2> QED BY <2>3, <2>5, <2>6 DEF PoolFacts
<1> QED BY <1>4, <1>5, <1>6, <1>7, <1>8

LEMMA PoolStep ==
  ASSUME Alone, PInv, [Next]_vars
  PROVE  PInv'
<1>1. TypeOK' /\ SweepRuns'
  BY TypeStep, SweepStep DEF PInv
<1>2. CASE UNCHANGED vars
  <2>1. UNCHANGED <<pool, heard, cleaner, timer, at, usage, snap, todo>>
    BY <1>2 DEF vars, cleanup, rows
  <2>2. PoolFacts'
    BY <2>1 DEF PInv, PoolFacts, GoesOn, InSight, Listed, Agree, Aged, OnTime, Sweeping
  <2> QED BY <1>1, <2>2 DEF PInv
<1>3. CASE Next
  <2>1. PoolFacts'
    BY <1>3, PoolTick, PoolUsage, AloneActs, PoolCleanup DEF Next
  <2> QED BY <1>1, <2>1 DEF PInv
<1> QED BY <1>2, <1>3

LEMMA PoolInit == Init => PInv
<1> SUFFICES ASSUME Init PROVE PInv
  OBVIOUS
<1>1. \A m \in Model, s \in Session : pool[m][s] = None /\ heard[m][s] = None
  BY DEF Init, NoRow
<1>2. \A i \in Instance : cleaner[i] = "starting" /\ timer[i] = 0 /\ at[i] = "idle"
  BY DEF Init
<1>3. GoesOn /\ Agree /\ Aged
  BY <1>1, <1>2 DEF GoesOn, Agree, Aged
<1>4. InSight /\ SweepRuns
  BY <1>2 DEF Init, InSight, SweepRuns
<1>5. OnTime
  BY <1>2 DEF OnTime, Sweeping
<1> QED BY <1>3, <1>4, <1>5, TypeInit DEF PInv, PoolFacts

LEMMA PoolBounds ==
  ASSUME Alone, PInv
  PROVE  PoolIsCurrent
<1> SUFFICES ASSUME NEW m \in Model, NEW s \in Session
             PROVE  /\ heard[m][s] \in 0 .. Timeout => pool[m][s] # None
                    /\ pool[m][s] # None => heard[m][s] \in 0 .. 2 * Timeout + MaxLag
  BY DEF PoolIsCurrent
<1>1. \/ pool[m][s] = heard[m][s]
      \/ pool[m][s] = None /\ heard[m][s] \in Timeout + 1 .. Oldest
  BY DEF PInv, PoolFacts, Agree
<1>2. TypeOK
  BY DEF PInv
<1>3. heard[m][s] \in 0 .. Timeout => pool[m][s] # None
  BY <1>1, TimeAssumption, NoneAssumption, OldestType
<1>4. ASSUME pool[m][s] # None, NEW i \in Instance
      PROVE  pool[m][s] <= 2 * Timeout + MaxLag
  <2>1. timer[i] \in Int /\ timer[i] >= -MaxLag /\ Sweeping(i) \in Int /\ Sweeping(i) <= 2 * Timeout
    BY <1>2, TimeAssumption DEF TypeOK, Sweeping
  <2>2. pool[m][s] <= Timeout \/ pool[m][s] <= Sweeping(i) - timer[i]
    BY <1>4 DEF PInv, PoolFacts, Aged
  <2>3. pool[m][s] \in Nat
    BY <1>2, <1>4, AgeType, OldestType
  <2> QED BY <2>1, <2>2, <2>3, TimeAssumption
<1>5. \E i : i \in Instance
  BY DEF Alone
<1>6. pool[m][s] # None => pool[m][s] \in 0 .. Oldest
  BY <1>2, AgeType
<1> QED BY <1>1, <1>3, <1>4, <1>5, <1>6, TimeAssumption, OldestType

(* For any sessions, models, timeout and lag: a session is in the pool of  *)
(* a process alone while its last usage is within the timeout, and no      *)
(* longer than the timeout, the time between two sweeps and a sweep's      *)
(* delay.                                                                  *)
THEOREM PoolStaysCurrent ==
  ASSUME Alone
  PROVE  Spec => []PoolIsCurrent
<1>1. Init => PInv
  BY PoolInit
<1>2. PInv /\ [Next]_vars => PInv'
  BY PoolStep
<1>3. PInv => PoolIsCurrent
  BY PoolBounds
<1> QED BY <1>1, <1>2, <1>3, PTL DEF Spec
=============================================================================
