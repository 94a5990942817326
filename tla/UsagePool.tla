----------------------------- MODULE UsagePool -----------------------------
(***************************************************************************)
(* The pool of models in use of backend/open_webui/socket/main.py, its     *)
(* periodic clean-up, and the lock by which the instances elect the one    *)
(* that cleans (RedisDict and RedisLock of socket/utils.py).               *)
(*                                                                         *)
(* Atomicity. The pool and the lock are used through a synchronous client: *)
(* an instance does one thing at a time (`at`), and the instances          *)
(* interleave at each command.                                             *)
(*                                                                         *)
(* Time is counted in steps of a clock. A timestamp is kept as its age,    *)
(* a deadline as the time left. A sweep, which does not sleep, takes no    *)
(* time, and a sleeping clean-up wakes at most MaxLag after it is due.     *)
(***************************************************************************)
EXTENDS Integers, FiniteSets

CONSTANTS
  Instance,     \* processes of the application
  Session,      \* sids of SESSION_POOL
  Model,
  None,         \* nobody holds the lock; a session is not in the pool
  Redis,        \* WEBSOCKET_MANAGER is "redis"
  Timeout,      \* TIMEOUT_DURATION
  LockTimeout,  \* WEBSOCKET_REDIS_LOCK_TIMEOUT
  MaxLag,       \* bound: how late a clean-up wakes
  MaxCrashes    \* bound: instances that die

MaxRetries == 2

ASSUME TimeAssumption ==
  Timeout \in Nat \ {0} /\ LockTimeout \in Nat \ {0} /\ MaxLag \in Nat
ASSUME NoneAssumption ==
  None \notin Instance /\ None \notin Int /\ None \notin [by : Session, model : Model]
ASSUME ModeAssumption == Redis \in BOOLEAN /\ MaxCrashes \in Nat

VARIABLES
  pool,     \* USAGE_POOL: [Model -> [Session -> age of updated_at, or None]]
  heard,    \* history: age of the last usage of a model that was handled
  lock,     \* the instance whose lock_id is stored, or None
  ttl,      \* time until the lock expires
  cleaner,  \* [Instance -> state of periodic_usage_pool_cleanup]
  timer,    \* [Instance -> time until it wakes; negative when it is late]
  tries,    \* [Instance -> retries so far]
  at,       \* [Instance -> the step it is in, "idle" or "down"]
  usage,    \* [Instance -> session and model of the usage it handles]
  snap,     \* [Instance -> the rows it has read]
  todo,     \* [Instance -> the rows its sweep has left]
  late,     \* history: a clean-up has slept for as long as its lock lives
  crashes

locks == <<lock, ttl>>
cleanup == <<cleaner, timer, tries>>
rows == <<usage, snap, todo>>
vars == <<pool, heard, locks, cleanup, at, rows, late, crashes>>

(* The oldest age that is told apart. *)
Oldest == 2 * Timeout + MaxLag + 1
Row == [Session -> 0 .. Oldest \union {None}]
NoRow == [s \in Session |-> None]

TypeOK ==
  /\ pool \in [Model -> Row] /\ heard \in [Model -> Row]
  /\ lock \in Instance \union {None} /\ ttl \in 0 .. LockTimeout
  /\ cleaner \in [Instance -> {"starting", "running", "gone"}]
  /\ timer \in [Instance -> -MaxLag .. LockTimeout + Timeout]
  /\ tries \in [Instance -> 0 .. MaxRetries]
  /\ at \in [Instance -> {"idle", "get", "set", "renew", "scan", "rows", "release", "delete",
                        "down"}]
  /\ usage \in [Instance -> [by : Session, model : Model] \union {None}]
  /\ \A i \in Instance : at[i] \in {"get", "set"} => usage[i] # None
  /\ snap \in [Instance -> [Model -> Row]]
  /\ todo \in [Instance -> SUBSET Model]
  /\ late \in BOOLEAN
  /\ crashes \in 0 .. MaxCrashes

Init ==
  /\ pool = [m \in Model |-> NoRow] /\ heard = [m \in Model |-> NoRow]
  /\ lock = None /\ ttl = 0
  /\ cleaner = [i \in Instance |-> "starting"]
  /\ timer = [i \in Instance |-> 0]
  /\ tries = [i \in Instance |-> 0]
  /\ at = [i \in Instance |-> "idle"]
  /\ usage = [i \in Instance |-> None]
  /\ snap = [i \in Instance |-> [m \in Model |-> NoRow]]
  /\ todo = [i \in Instance |-> {}]
  /\ late = FALSE /\ crashes = 0

(* A row is deleted when no session is left in it. *)
Listed(m) == pool[m] # NoRow

GoTo(i, step) == at' = [at EXCEPT ![i] = step]

(* The local variables of what instance i was in. *)
Forget(i) ==
  /\ snap' = [snap EXCEPT ![i] = [m \in Model |-> NoRow]]
  /\ usage' = [usage EXCEPT ![i] = None]

(* The clock. *)
Older(row) ==
  [s \in Session |-> IF row[s] \in 0 .. Oldest - 1 THEN row[s] + 1 ELSE row[s]]

Tick ==
  /\ \A i \in Instance : at[i] \in {"idle", "get", "set", "down"}
  /\ \A i \in Instance : cleaner[i] # "gone" => timer[i] > -MaxLag
  /\ pool' = [m \in Model |-> Older(pool[m])]
  /\ heard' = [m \in Model |-> Older(heard[m])]
  /\ ttl' = IF ttl > 0 THEN ttl - 1 ELSE 0
  /\ lock' = IF ttl > 1 THEN lock ELSE None
  /\ timer' = [i \in Instance |-> IF cleaner[i] # "gone" THEN timer[i] - 1 ELSE timer[i]]
  /\ snap' = [i \in Instance |-> [m \in Model |-> Older(snap[i][m])]]
  /\ late' = (late \/ \E i \in Instance :
                       cleaner[i] = "running" /\ timer'[i] <= Timeout - LockTimeout)
  /\ UNCHANGED <<cleaner, tries, at, usage, todo, crashes>>
-----------------------------------------------------------------------------
(* usage: whether the model has a row, *)
UsageExists(i, s, m) ==
  /\ at[i] = "idle"
  /\ usage' = [usage EXCEPT ![i] = [by |-> s, model |-> m]]
  /\ GoTo(i, IF Listed(m) THEN "get" ELSE "set")
  /\ UNCHANGED <<pool, heard, locks, cleanup, snap, todo, late, crashes>>

(* the row, or a KeyError if it has been deleted since, *)
UsageGet(i) ==
  LET m == usage[i].model IN
  /\ at[i] = "get"
  /\ snap' = [snap EXCEPT ![i][m] = pool[m]]
  /\ usage' = [usage EXCEPT ![i] = IF Listed(m) THEN @ ELSE None]
  /\ GoTo(i, IF Listed(m) THEN "set" ELSE "idle")
  /\ UNCHANGED <<pool, heard, locks, cleanup, todo, late, crashes>>

(* and the row with the session's timestamp. *)
RowWith(i, s, m) == [snap[i][m] EXCEPT ![s] = 0]

UsageSet(i) ==
  LET m == usage[i].model
      s == usage[i].by
  IN
  /\ at[i] = "set"
  /\ pool' = [pool EXCEPT ![m] = RowWith(i, s, m)]
  /\ heard' = [heard EXCEPT ![m][s] = 0]
  /\ Forget(i) /\ GoTo(i, "idle")
  /\ UNCHANGED <<locks, cleanup, todo, late, crashes>>
-----------------------------------------------------------------------------
(* periodic_usage_pool_cleanup. *)

Due(i, state) == at[i] = "idle" /\ cleaner[i] = state /\ timer[i] <= 0

(* aquire_lock: SET NX. The first renewal follows at once. *)
Free == ~Redis \/ lock = None

Acquire(i) ==
  /\ Due(i, "starting") /\ Free
  /\ lock' = i /\ ttl' = LockTimeout
  /\ cleaner' = [cleaner EXCEPT ![i] = "running"]
  /\ GoTo(i, "renew")
  /\ UNCHANGED <<pool, heard, timer, tries, rows, late, crashes>>

(* The lock is held: two retries, after a random delay. *)
Retry(i) ==
  /\ Due(i, "starting") /\ ~Free
  /\ tries[i] < MaxRetries
  /\ tries' = [tries EXCEPT ![i] = @ + 1]
  /\ \E delay \in LockTimeout \div 2 .. LockTimeout : timer' = [timer EXCEPT ![i] = delay]
  /\ UNCHANGED <<pool, heard, locks, cleaner, at, rows, late, crashes>>

GiveUp(i) ==
  /\ Due(i, "starting") /\ ~Free
  /\ tries[i] = MaxRetries
  /\ cleaner' = [cleaner EXCEPT ![i] = "gone"]
  /\ UNCHANGED <<pool, heard, locks, timer, tries, at, rows, late, crashes>>

(* renew_lock, first and after each sleep: SET XX, which any holder's lock *)
(* satisfies.                                                              *)
Renewing(i) == at[i] = "renew" \/ Due(i, "running")

(* Mutant: the expiry stays as it is. *)
Renewed_Same == ttl
Renewed == LockTimeout

Renew(i) ==
  /\ Renewing(i)
  /\ ~Redis \/ lock # None
  /\ lock' = i /\ ttl' = Renewed
  /\ GoTo(i, "scan")
  /\ UNCHANGED <<pool, heard, cleanup, rows, late, crashes>>

(* It raises when the lock has expired: the clean-up ends. *)
RenewFails(i) ==
  /\ Renewing(i)
  /\ Redis /\ lock = None
  /\ GoTo(i, "release")
  /\ UNCHANGED <<pool, heard, locks, cleanup, rows, late, crashes>>

(* A sweep reads all rows, *)
Scan(i) ==
  /\ at[i] = "scan"
  /\ snap' = [snap EXCEPT ![i] = pool]
  /\ todo' = [todo EXCEPT ![i] = {m \in Model : Listed(m)}]
  /\ GoTo(i, "rows")
  /\ UNCHANGED <<pool, heard, locks, cleanup, usage, late, crashes>>

(* and writes each back without the sessions that have timed out, *)
(* Mutants: a session times out one step early; none times out. *)
Fresh_Early(row) ==
  [s \in Session |-> IF row[s] # None /\ row[s] >= Timeout THEN None ELSE row[s]]
Fresh_All(row) == row
Fresh(row) ==
  [s \in Session |-> IF row[s] # None /\ row[s] > Timeout THEN None ELSE row[s]]

CleanRow(i, m) ==
  /\ at[i] = "rows" /\ m \in todo[i]
  /\ Fresh(snap[i][m]) # NoRow \/ Listed(m)
  /\ pool' = [pool EXCEPT ![m] = Fresh(snap[i][m])]
  /\ todo' = [todo EXCEPT ![i] = @ \ {m}]
  /\ UNCHANGED <<heard, locks, cleanup, at, usage, snap, late, crashes>>

(* or deletes it: a KeyError, which ends the clean-up, if it is not there. *)
CleanRowFails(i, m) ==
  /\ at[i] = "rows" /\ m \in todo[i]
  /\ Fresh(snap[i][m]) = NoRow /\ ~Listed(m)
  /\ todo' = [todo EXCEPT ![i] = {}]
  /\ Forget(i) /\ GoTo(i, "release")
  /\ UNCHANGED <<pool, heard, locks, cleanup, late, crashes>>

Sleep(i) ==
  /\ at[i] = "rows" /\ todo[i] = {}
  /\ timer' = [timer EXCEPT ![i] = Timeout]
  /\ Forget(i) /\ GoTo(i, "idle")
  /\ UNCHANGED <<pool, heard, locks, cleaner, tries, todo, late, crashes>>

Gone(i) ==
  /\ cleaner' = [cleaner EXCEPT ![i] = "gone"]
  /\ GoTo(i, "idle")

(* release_lock: the lock is read, and deleted if it is the instance's own. *)
Release(i) ==
  /\ at[i] = "release"
  /\ IF Redis /\ lock = i THEN GoTo(i, "delete") /\ UNCHANGED cleaner ELSE Gone(i)
  /\ UNCHANGED <<pool, heard, locks, timer, tries, rows, late, crashes>>

Delete(i) ==
  /\ at[i] = "delete"
  /\ lock' = None /\ ttl' = 0
  /\ Gone(i)
  /\ UNCHANGED <<pool, heard, timer, tries, rows, late, crashes>>

(* An instance dies; what it holds in Redis stays. *)
Crash(i) ==
  /\ at[i] # "down"
  /\ crashes < MaxCrashes
  /\ crashes' = crashes + 1
  /\ GoTo(i, "down")
  /\ cleaner' = [cleaner EXCEPT ![i] = "gone"]
  /\ Forget(i) /\ todo' = [todo EXCEPT ![i] = {}]
  /\ UNCHANGED <<pool, heard, locks, timer, tries, late>>

Usage(i) == (\E s \in Session, m \in Model : UsageExists(i, s, m)) \/ UsageGet(i) \/ UsageSet(i)

Cleanup(i) ==
  \/ Acquire(i) \/ Retry(i) \/ GiveUp(i) \/ Renew(i) \/ RenewFails(i)
  \/ Scan(i) \/ (\E m \in Model : CleanRow(i, m) \/ CleanRowFails(i, m)) \/ Sleep(i)
  \/ Release(i) \/ Delete(i)

Next == Tick \/ \E i \in Instance : Usage(i) \/ Cleanup(i) \/ Crash(i)

(* The clock goes on between usages, an instance finishes what it is in, and a clean-up   *)
(* that is due gets its turn, usage or not; no session has to send usage.  *)
Fairness ==
  /\ SF_vars(Tick)
  /\ \A i \in Instance : SF_vars(Cleanup(i)) /\ WF_vars(UsageGet(i) \/ UsageSet(i))

Spec == Init /\ [][Next]_vars /\ Fairness
-----------------------------------------------------------------------------
(* Properties. *)

(* At most one instance cleans, crashes included, as long as no clean-up   *)
(* has slept, delay included, for as long as its lock lives: renew_lock    *)
(* does not look whose lock it renews, and rests on this.                  *)
OneCleaner ==
  Redis /\ ~late =>
    \A i, j \in Instance : cleaner[i] = "running" /\ cleaner[j] = "running" => i = j

(* socket/main.py:226 "List models that are currently in use": a session   *)
(* whose usage was handled within the timeout is in the pool; one silent   *)
(* for longer than the timeout, the time between two sweeps and the        *)
(* latter's delay is in the pool no more.                                  *)
PoolIsCurrent ==
  \A m \in Model, s \in Session :
    /\ heard[m][s] \in 0 .. Timeout => pool[m][s] # None
    /\ pool[m][s] # None => heard[m][s] \in 0 .. 2 * Timeout + MaxLag

(* The sweeps go on for ever, and a session in the pool that has timed out *)
(* disappears or sends usage again.                                        *)
Stale(m, s) == pool[m][s] # None /\ pool[m][s] > Timeout
StaleLeaves == \A m \in Model, s \in Session : Stale(m, s) ~> ~Stale(m, s)
=============================================================================
