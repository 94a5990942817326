--------------------------- MODULE TaskLifecycle ---------------------------
(***************************************************************************)
(* What backend/open_webui/tasks.py promises to the rest of the            *)
(* application, whichever of its two registries (memory or Redis) is in    *)
(* use: a background task that was started and has not ended is known to   *)
(* the process that runs it, so that a stop command finds it; a task that  *)
(* has ended is forgotten and never comes back.                            *)
(*                                                                         *)
(* TaskRegistry and TaskRegistryRedis implement this specification.        *)
(***************************************************************************)

CONSTANT Task

VARIABLES
  status,     \* where each task is in its life
  stoppable   \* the tasks a stop command can still find

vars == <<status, stoppable>>

Status == {"unborn", "running", "cancelling", "finished"}

TypeOK ==
  /\ status \in [Task -> Status]
  /\ stoppable \subseteq Task

Init ==
  /\ status = [t \in Task |-> "unborn"]
  /\ stoppable = {}

(* create_task: the task runs and is known at once. *)
Start(t) ==
  /\ status[t] = "unborn"
  /\ status' = [status EXCEPT ![t] = "running"]
  /\ stoppable' = stoppable \union {t}

(* A stop command reaches a task that is still known. It may forget it. *)
Cancel(t) ==
  /\ status[t] = "running"
  /\ t \in stoppable
  /\ status' = [status EXCEPT ![t] = "cancelling"]
  /\ stoppable' \in {stoppable, stoppable \ {t}}

(* The coroutine returns, raises, or lets the cancellation through. *)
End(t) ==
  /\ status[t] \in {"running", "cancelling"}
  /\ status' = [status EXCEPT ![t] = "finished"]
  /\ UNCHANGED stoppable

(* Only a task that has ended is forgotten. *)
Forget(t) ==
  /\ status[t] = "finished"
  /\ stoppable' = stoppable \ {t}
  /\ UNCHANGED status

(* A process dies with all the tasks it was running. *)
Lose(S) ==
  /\ \A t \in S : status[t] # "unborn"
  /\ status' = [t \in Task |-> IF t \in S THEN "finished" ELSE status[t]]
  /\ stoppable' = stoppable \ S

Next ==
  \/ \E t \in Task : Start(t) \/ Cancel(t) \/ End(t) \/ Forget(t)
  \/ \E S \in SUBSET Task : Lose(S)

Spec == Init /\ [][Next]_vars
=============================================================================
