----------------------------- MODULE LdmsdTask ------------------------------
(***************************************************************************)
(* A task of ldmsd (struct ldmsd_task, src/ldms/src/ldmsd/ldmsd.c): a      *)
(* function that a scheduler thread calls periodically until the task is   *)
(* stopped.  Each operator is what the code does to the task while it      *)
(* holds task->lock.  The scheduler releases its own lock before it calls  *)
(* task_cb_fn(), and task_cb_fn() releases task->lock while the function   *)
(* runs, so the steps of TaskThread interleave with start, stop and join.  *)
(***************************************************************************)
CONSTANTS Threads,     \* the scheduler threads (ovis_scheduler[])
          NoThread     \* task->os is NULL

ASSUME NoThreadAssumption == NoThread \notin Threads

\* "os" is the scheduler whose heap holds the task's timer: the code sets and
\* clears the two together.  "stop" is LDMSD_TASK_F_STOP.
Task == [state : {"STOPPED", "STARTED", "RUNNING"}, stop : BOOLEAN,
         os : Threads \cup {NoThread}]

\* A scheduler thread: "idle"; "fired" between ovis_event_heap_process() and
\* the lock in task_cb_fn(); "fn" about to call task->fn(); "end" after it.
TaskThread == [pc : {"idle", "fired", "fn", "end"}, next : {"STARTED", "STOPPED"}]

NewTask == [state |-> "STOPPED", stop |-> FALSE, os |-> NoThread]
IdleThread == [pc |-> "idle", next |-> "STOPPED"]

\* ldmsd_task_start(): EBUSY unless STOPPED.  t is find_least_busy_thread()'s
\* choice; task->flags is assigned, which clears LDMSD_TASK_F_STOP.  Room in the
\* scheduler's heap (start_task()) is taken for granted.
TaskStart(k, t) ==
  IF k.state # "STOPPED" THEN k ELSE [state |-> "STARTED", stop |-> FALSE, os |-> t]

\* Mutant: a running task is not told to stop.
TaskStop_ForgetsRunning(k) ==
  IF k.state = "STARTED" THEN [k EXCEPT !.state = "STOPPED", !.os = NoThread] ELSE k

\* Mutant: the timer of a running task is deleted and no flag is left for it.
TaskStop_DisarmsRunning(k) ==
  [k EXCEPT !.os = NoThread, !.state = IF @ = "STARTED" THEN "STOPPED" ELSE @]

\* ldmsd_task_stop(): a RUNNING task is only told to stop.
TaskStop(k) ==
  CASE k.state = "STOPPED" -> k
    [] k.state = "STARTED" -> [k EXCEPT !.state = "STOPPED", !.os = NoThread]
    [] k.state = "RUNNING" -> [k EXCEPT !.stop = TRUE]

\* task_cb_fn() before the function: the timer is rearmed if the task still has
\* a scheduler, and the state that follows the function is decided here.
TaskBegin(k) == [k EXCEPT !.state = "RUNNING"]
\* Mutant: the state to come is read after RUNNING was stored.
TaskBeginNext_ReadsLate(k) == TaskBegin(k).state
TaskBeginNext(k) == IF k.os = NoThread THEN "STOPPED" ELSE "STARTED"

\* task_cb_fn() after the function.
TaskEnd(k, next) ==
  LET state == IF k.stop THEN "STOPPED" ELSE next
  IN  [state |-> state, stop |-> FALSE, os |-> IF state = "STOPPED" THEN NoThread ELSE k.os]

\* The calls that signal task->join_cv: the task goes to STOPPED, or ends there.
StopSignals(k) == k.state = "STARTED"
EndSignals(k, next) == TaskEnd(k, next).state = "STOPPED"
=============================================================================
