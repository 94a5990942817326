---------------------------- MODULE SharedConfig ----------------------------
(***************************************************************************)
(* The configuration of backend/open_webui/config.py: one JSON row in the  *)
(* database, a copy of it in each instance (CONFIG_DATA), one              *)
(* PersistentConfig object per option in each instance, and, in Redis, one *)
(* key per option that AppConfig reads through.                            *)
(*                                                                         *)
(* Atomicity. A worker is a thread of an instance: that of the event loop, *)
(* where the endpoints that assign options do so without an await, or one  *)
(* of the pool that runs the endpoints declared without async, which read  *)
(* options, and assign some (files.py:197, images.py:98 and 453). Workers  *)
(* interleave, within an instance and among instances, between any two     *)
(* accesses to an object, to CONFIG_DATA, the database and Redis. The copy *)
(* is written out and committed in one step.                               *)
(***************************************************************************)
EXTENDS Naturals

CONSTANTS
  Instance,      \* processes of the application
  Worker,        \* their threads
  Host,          \* [Worker -> the instance of the thread]
  Key,           \* options: their config_path, and their name in AppConfig
  Value,         \* what an option can be assigned
  None,          \* a path the row lacks, a key Redis lacks
  Env,           \* env_value, the default of an option
  Redis,         \* AppConfig has a Redis connection
  ResetOnStart,  \* RESET_CONFIG_ON_START
  MaxImports,    \* bound: configurations imported
  MaxErrors,     \* bound: commits, and SETs of Redis, that fail
  MaxCrashes     \* bound: instances that die

ASSUME DistinctAssumption == None \notin Value /\ Env \notin Value /\ None # Env
ASSUME HostAssumption == Host \in [Worker -> Instance]
ASSUME ModeAssumption == Redis \in BOOLEAN /\ ResetOnStart \in BOOLEAN
ASSUME BoundAssumption ==
  MaxImports \in Nat /\ MaxErrors \in Nat /\ MaxCrashes \in Nat

VARIABLES
  row,      \* the row of the config table
  shared,   \* Redis: <prefix>:config:<key>
  status,   \* [Instance -> "down", "loaded" (config.py imported) or "up"]
  data,     \* [Instance -> CONFIG_DATA]
  value,    \* [Instance -> [Key -> .value of the PersistentConfig]]
  phase,    \* [Worker -> what it does next: of an assignment "copy", "commit"
            \* or "publish", of a reading "fetched", or nothing, "idle"]
  key,      \* [Worker -> the option it assigns or reads]
  fetched,  \* [Worker -> what Redis has answered to its reading]
  imports, errors, crashes

configVars == <<row, shared, status, data, value, phase, key, fetched,
                imports, errors, crashes>>
bounds == <<imports, errors, crashes>>

Config == [Key -> Value \union {None}]

Empty == [k \in Key |-> None]

ConfigTypeOK ==
  /\ row \in Config /\ shared \in Config
  /\ status \in [Instance -> {"down", "loaded", "up"}]
  /\ data \in [Instance -> Config]
  /\ value \in [Instance -> [Key -> Value \union {Env}]]
  /\ phase \in [Worker -> {"idle", "copy", "commit", "publish", "fetched"}]
  /\ key \in [Worker -> Key \union {None}]
  /\ fetched \in [Worker -> Value \union {None}]
  /\ \A w \in Worker : phase[w] # "idle" => key[w] \in Key /\ status[Host[w]] = "up"
  /\ \A w \in Worker : fetched[w] # None <=> phase[w] = "fetched"
  /\ imports \in 0 .. MaxImports /\ errors \in 0 .. MaxErrors
  /\ crashes \in 0 .. MaxCrashes

(* PersistentConfig.__init__: the stored value, or the environment's. *)
Loaded(config) == [k \in Key |-> IF config[k] # None THEN config[k] ELSE Env]

(* The row is what an earlier run of the system has left in it. *)
ConfigInit ==
  /\ row \in Config
  /\ shared = Empty
  /\ status = [i \in Instance |-> "down"]
  /\ data = [i \in Instance |-> Empty]
  /\ value = [i \in Instance |-> Loaded(Empty)]
  /\ phase = [w \in Worker |-> "idle"]
  /\ key = [w \in Worker |-> None]
  /\ fetched = [w \in Worker |-> None]
  /\ imports = 0 /\ errors = 0 /\ crashes = 0

(* PersistentConfig.update: what the configuration lacks stays as it is. *)
Updated(old, config) == [k \in Key |-> IF config[k] # None THEN config[k] ELSE old[k]]
-----------------------------------------------------------------------------
(* An instance starts: config.py is imported and reads the row, *)
Load(i) ==
  /\ status[i] = "down"
  /\ status' = [status EXCEPT ![i] = "loaded"]
  /\ data' = [data EXCEPT ![i] = row]
  /\ value' = [value EXCEPT ![i] = Loaded(row)]
  /\ UNCHANGED <<row, shared, phase, key, fetched, bounds>>

(* and the lifespan of the application begins: reset_config deletes the row. *)
Serve(i) ==
  /\ status[i] = "loaded"
  /\ status' = [status EXCEPT ![i] = "up"]
  /\ row' = IF ResetOnStart THEN Empty ELSE row
  /\ UNCHANGED <<shared, data, value, phase, key, fetched, bounds>>

Idle(w) == status[Host[w]] = "up" /\ phase[w] = "idle"

(* The assignment or the reading of the workers is over. *)
Done(workers) ==
  /\ phase' = [w \in Worker |-> IF w \in workers THEN "idle" ELSE phase[w]]
  /\ key' = [w \in Worker |-> IF w \in workers THEN None ELSE key[w]]
  /\ fetched' = [w \in Worker |-> IF w \in workers THEN None ELSE fetched[w]]

(* The memory of an instance is gone. *)
Exit(i) ==
  /\ status' = [status EXCEPT ![i] = "down"]
  /\ data' = [data EXCEPT ![i] = Empty]
  /\ value' = [value EXCEPT ![i] = Loaded(Empty)]

(* AppConfig.__setattr__: the object gets the value, *)
Assign(w, k, v) ==
  /\ Idle(w)
  /\ value' = [value EXCEPT ![Host[w]][k] = v]
  /\ phase' = [phase EXCEPT ![w] = "copy"]
  /\ key' = [key EXCEPT ![w] = k]
  /\ UNCHANGED <<row, shared, status, data, fetched, bounds>>

(* PersistentConfig.save puts what the object has by now into CONFIG_DATA, *)
DataWith(i, k) == [data[i] EXCEPT ![k] = value[i][k]]

Copy(w) ==
  /\ phase[w] = "copy"
  /\ data' = [data EXCEPT ![Host[w]] = DataWith(Host[w], key[w])]
  /\ phase' = [phase EXCEPT ![w] = "commit"]
  /\ UNCHANGED <<row, shared, status, value, key, fetched, bounds>>

(* then save_to_db, the whole of CONFIG_DATA, *)
(* Mutant: the option alone is written. *)
Saved_Alone(w) == [Empty EXCEPT ![key[w]] = data[Host[w]][key[w]]]
Saved(w) == data[Host[w]]

Commit(w) ==
  /\ phase[w] = "commit"
  /\ row' = Saved(w)
  /\ IF Redis THEN phase' = [phase EXCEPT ![w] = "publish"] /\ UNCHANGED <<key, fetched>>
              ELSE Done({w})
  /\ UNCHANGED <<shared, status, data, value, bounds>>

(* then Redis, with what the object has by now. *)
Published(w) == [shared EXCEPT ![key[w]] = value[Host[w]][key[w]]]

Publish(w) ==
  /\ phase[w] = "publish"
  /\ shared' = Published(w)
  /\ Done({w})
  /\ UNCHANGED <<row, status, data, value, bounds>>

(* Either may raise: object and CONFIG_DATA stay as they are, and the row  *)
(* too where it has been committed; Redis is not told. (A SET that raises  *)
(* after it has been executed leaves what Publish leaves.)                 *)
Fails(w) ==
  /\ errors < MaxErrors
  /\ errors' = errors + 1
  /\ Done({w})
  /\ UNCHANGED <<row, shared, status, data, value, imports, crashes>>

CommitFails(w) == phase[w] = "commit" /\ Fails(w)
PublishFails(w) == phase[w] = "publish" /\ Fails(w)

(* AppConfig.__getattr__: Redis is asked, *)
Read(w, k) ==
  /\ Idle(w)
  /\ Redis /\ shared[k] # None
  /\ phase' = [phase EXCEPT ![w] = "fetched"]
  /\ key' = [key EXCEPT ![w] = k]
  /\ fetched' = [fetched EXCEPT ![w] = shared[k]]
  /\ UNCHANGED <<row, shared, status, data, value, bounds>>

(* and what it held replaces the value. *)
Replace(w) ==
  /\ phase[w] = "fetched"
  /\ value' = [value EXCEPT ![Host[w]][key[w]] = fetched[w]]
  /\ Done({w})
  /\ UNCHANGED <<row, shared, status, data, bounds>>

(* import_config, save_config: the row, CONFIG_DATA and every option that  *)
(* the configuration has.                                                  *)
Import(w, config) ==
  /\ Idle(w)
  /\ imports < MaxImports
  /\ imports' = imports + 1
  /\ row' = config
  /\ data' = [data EXCEPT ![Host[w]] = config]
  /\ value' = [value EXCEPT ![Host[w]] = Updated(value[Host[w]], config)]
  /\ UNCHANGED <<shared, status, phase, key, fetched, errors, crashes>>

Workers(i) == {w \in Worker : Host[w] = i}

(* An instance is stopped, *)
Stop(i) ==
  /\ status[i] # "down" /\ \A w \in Workers(i) : phase[w] = "idle"
  /\ Exit(i)
  /\ UNCHANGED <<row, shared, phase, key, fetched, bounds>>

(* or dies while a worker assigns or reads. *)
Crash(i) ==
  /\ \E w \in Workers(i) : phase[w] # "idle"
  /\ crashes < MaxCrashes
  /\ crashes' = crashes + 1
  /\ Exit(i) /\ Done(Workers(i))
  /\ UNCHANGED <<row, shared, imports, errors>>

ConfigNext ==
  \/ \E i \in Instance : Load(i) \/ Serve(i) \/ Stop(i) \/ Crash(i)
  \/ \E w \in Worker :
       \/ \E k \in Key, v \in Value : Assign(w, k, v)
       \/ Copy(w) \/ Commit(w) \/ CommitFails(w) \/ Publish(w) \/ PublishFails(w)
       \/ \E k \in Key : Read(w, k)
       \/ Replace(w)
       \/ \E config \in Config : Import(w, config)

ConfigSpec == ConfigInit /\ [][ConfigNext]_configVars
-----------------------------------------------------------------------------
(* Properties. *)

(* What reading the option gives at instance i. *)
InEffect(i, k) == IF Redis /\ shared[k] # None THEN shared[k] ELSE value[i][k]

Unassigned(k) ==
  \A w \in Worker : phase[w] \in {"copy", "commit", "publish"} => key[w] # k

(* With Redis, and as long as every commit and every SET of Redis has      *)
(* succeeded, no instance has died in the middle of an assignment and      *)
(* nothing was imported, all instances read the same value of an option    *)
(* that is not just being assigned: although each saves its own outdated   *)
(* copy of the row, and loads what the others have saved, and although     *)
(* another thread's reading can set the object back to what Redis still    *)
(* has before it is saved or published (config.py:256-261).                *)
InstancesAgree ==
  Redis /\ ~ResetOnStart /\ imports = 0 /\ errors = 0 /\ crashes = 0 =>
    \A k \in Key : Unassigned(k) =>
      \A i, j \in Instance :
        status[i] = "up" /\ status[j] = "up" => InEffect(i, k) = InEffect(j, k)

(* In a single process without Redis whose assignments follow one another  *)
(* what is stored of an option is what is in effect, so that a restart     *)
(* changes nothing of it: through crashes, imports of part of the options  *)
(* and resets of the row.                                                  *)
StoredIsInEffect ==
  ~Redis /\ errors = 0 =>
    \A w \in Worker, k \in Key :
      Idle(w) /\ row[k] # None => InEffect(Host[w], k) = row[k]
=============================================================================
