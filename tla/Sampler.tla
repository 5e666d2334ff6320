------------------------------- MODULE Sampler -------------------------------
(***************************************************************************)
(* A sampler plugin instance of ldmsd (struct ldmsd_cfgobj_sampler):       *)
(* administrators configure, start, stop and unload it, each command from  *)
(* a thread of its own; a scheduler thread calls plugin_sampler_cb()       *)
(* periodically.  A sampler uses a scheduler thread shared with the other  *)
(* samplers, or an exclusive scheduler and thread that start creates and   *)
(* stop joins.  The sampler's lock is held in every action that reads or   *)
(* writes its state, and by stop while it joins.                           *)
(***************************************************************************)
EXTENDS Integers, FiniteSets

CONSTANTS
  Admins,     \* threads that execute commands
  Shared,     \* the shared scheduler and its thread
  Exclusive,  \* the exclusive schedulers that start may create: bounds the starts
  NoOs,       \* samp->os is NULL
  MaxCommands \* bound on the commands

Schedulers == {Shared} \cup Exclusive

ASSUME SchedulerAssumption ==
  /\ Shared \notin Exclusive /\ NoOs \notin Schedulers
  /\ IsFiniteSet(Admins) /\ IsFiniteSet(Exclusive) /\ MaxCommands \in Nat

VARIABLES
  samp,    \* the struct ldmsd_cfgobj_sampler
  timer,   \* the scheduler whose heap holds samp->oev
  claims,  \* ev_count[] of the shared scheduler
  term,    \* the schedulers that ovis_scheduler_term() has told to end
  thr,     \* the scheduler threads
  adm,     \* the administrators' threads
  bad,     \* the program has used a "freed" sampler, a "null" scheduler or the
           \* "claim" ev_count[-1]; nothing is said of it afterwards
  cmds     \* commands so far

vars == <<samp, timer, claims, term, thr, adm, bad, cmds>>

SampState == {"INIT", "CONFIGURED", "RUNNING", "TERMINATING"}

\* A scheduler thread: "none" before pthread_create(); "starting" before
\* ovis_scheduler_loop(); "idle" in the loop; "fired" between the release of the
\* scheduler's mutex and plugin_sampler_cb(); "got" before the sampler's lock;
\* "put" after it; "exit".
ThrState == {"none", "starting", "idle", "fired", "got", "put", "exit"}

\* An administrator: "find" has the reference of ldmsd_sampler_find_get(), "config"
\* has put it already, "join" is in pthread_join() with the sampler's lock, "unload"
\* has left the lock in ldmsd_term_plugin(), "done" is about to put "find".
AdmState == {"idle", "find", "config", "join", "unload", "done"}
Fault == {"none", "freed", "null", "claim"}

TypeOK ==
  /\ samp \in [state : SampState, os : Schedulers \cup {NoOs}, thread_id : {-1, 0},
               use_xthread : BOOLEAN, ref : Nat, tree : BOOLEAN]
  /\ timer \in Schedulers \cup {NoOs}
  /\ claims \in Nat
  /\ term \subseteq Exclusive
  /\ thr \in [Schedulers -> ThrState]
  /\ adm \in [Admins -> AdmState]
  /\ bad \in Fault
  /\ cmds \in 0 .. MaxCommands

\* ldmsd_load_plugin(): the references "init", "cfgobj_tree" and "load".
Init ==
  /\ samp = [state |-> "INIT", os |-> NoOs, thread_id |-> -1, use_xthread |-> FALSE,
             ref |-> 3, tree |-> TRUE]
  /\ timer = NoOs /\ claims = 0 /\ term = {}
  /\ thr = [t \in Schedulers |-> IF t = Shared THEN "idle" ELSE "none"]
  /\ adm = [a \in Admins |-> "idle"]
  /\ bad = "none" /\ cmds = 0

Locked == \E a \in Admins : adm[a] = "join"
Freed == samp.ref = 0
Alive == bad = "none"
-----------------------------------------------------------------------------
\* ldmsd_sampler_find_get() of the command's handler.
Find(a) ==
  /\ Alive /\ adm[a] = "idle" /\ samp.tree /\ cmds < MaxCommands
  /\ adm' = [adm EXCEPT ![a] = "find"] /\ cmds' = cmds + 1
  /\ samp' = [samp EXCEPT !.ref = @ + 1]
  /\ UNCHANGED <<timer, claims, term, thr, bad>>

\* ldmsd_sampler_find_put()
FindPut(a) ==
  /\ Alive /\ adm[a] = "done"
  /\ adm' = [adm EXCEPT ![a] = "idle"]
  /\ samp' = [samp EXCEPT !.ref = @ - 1]
  /\ UNCHANGED <<timer, claims, term, thr, bad, cmds>>

Command(a) == Alive /\ adm[a] = "find" /\ ~Locked /\ UNCHANGED <<bad, cmds>>
Answer(a) == adm' = [adm EXCEPT ![a] = "done"]

\* A command that its handler refuses in the sampler's state.
Refused(a) ==
  /\ Command(a) /\ Answer(a)
  /\ UNCHANGED <<samp, timer, claims, term, thr>>

\* plugn_config_handler() puts "find" as soon as it knows the kind of the plugin ...
ConfigPut(a) ==
  /\ Alive /\ adm[a] = "find"
  /\ adm' = [adm EXCEPT ![a] = "config"]
  /\ samp' = [samp EXCEPT !.ref = @ - 1]
  /\ UNCHANGED <<timer, claims, term, thr, bad, cmds>>

\* ... and locks the sampler after it has parsed the request: EBUSY when RUNNING or
\* TERMINATING; otherwise the plugin configures itself, or fails to after
\* use_xthread was stored.
Config(a) ==
  /\ Alive /\ adm[a] = "config" /\ ~Locked
  /\ adm' = [adm EXCEPT ![a] = "idle"]
  /\ bad' = IF Freed THEN "freed" ELSE bad
  /\ IF Freed \/ samp.state \in {"RUNNING", "TERMINATING"}
       THEN UNCHANGED samp
       ELSE \E x \in BOOLEAN, s \in {samp.state, "CONFIGURED"} :
              samp' = [samp EXCEPT !.use_xthread = x, !.state = s]
  /\ UNCHANGED <<timer, claims, term, thr, cmds>>

\* Mutant: an exclusive scheduler gets no thread.
Start_NoThread(a) ==
  /\ Command(a) /\ samp.state = "CONFIGURED"
  /\ \E t \in Exclusive :
       /\ samp' = [samp EXCEPT !.os = t, !.use_xthread = TRUE, !.state = "RUNNING", !.ref = @ + 1]
       /\ timer' = t
  /\ Answer(a)
  /\ UNCHANGED <<claims, term, thr>>

\* Mutant: no reference is taken for the timer.
Start_NoRef(a) ==
  /\ Command(a) /\ samp.state = "CONFIGURED"
  /\ samp' = [samp EXCEPT !.os = Shared, !.thread_id = 0, !.use_xthread = FALSE, !.state = "RUNNING"]
  /\ timer' = Shared /\ claims' = claims + 1 /\ UNCHANGED thr
  /\ Answer(a)
  /\ UNCHANGED term

\* ldmsd_sampler_start(), whose attribute exclusive_thread may change use_xthread:
\* the timer goes to the shared scheduler, or to a new one ...
Start(a) ==
  /\ Command(a) /\ samp.state = "CONFIGURED"
  /\ \E t \in {Shared} \cup {x \in Exclusive : thr[x] = "none"} :
       /\ samp' = [samp EXCEPT !.os = t, !.thread_id = IF t = Shared THEN 0 ELSE -1,
                               !.use_xthread = (t # Shared), !.state = "RUNNING", !.ref = @ + 1]
       /\ timer' = t
       /\ claims' = IF t = Shared THEN claims + 1 ELSE claims
       /\ thr' = IF t = Shared THEN thr ELSE [thr EXCEPT ![t] = "starting"]
  /\ Answer(a)
  /\ UNCHANGED term

\* ... unless the interval or the offset is refused after use_xthread was stored.
StartFails(a) ==
  /\ Command(a) /\ samp.state = "CONFIGURED"
  /\ \E x \in BOOLEAN : samp' = [samp EXCEPT !.use_xthread = x]
  /\ Answer(a)
  /\ UNCHANGED <<timer, claims, term, thr>>

\* The sampler when its timer is gone and the reference "start" is put.
Unscheduled(s) == [s EXCEPT !.os = NoOs, !.thread_id = -1, !.ref = @ - 1]

\* Mutant: the shared scheduler is not released.
StopShared_KeepsClaim(a) ==
  /\ Command(a) /\ samp.state = "RUNNING" /\ samp.os = Shared
  /\ samp' = [Unscheduled(samp) EXCEPT !.state = "CONFIGURED"]
  /\ timer' = NoOs
  /\ Answer(a)
  /\ UNCHANGED <<term, thr, claims>>

\* ldmsd_sampler_stop() of a sampler on the shared scheduler ...
StopShared(a) ==
  /\ Command(a) /\ samp.state = "RUNNING" /\ samp.os = Shared
  /\ samp' = [Unscheduled(samp) EXCEPT !.state = "CONFIGURED"]
  /\ timer' = NoOs /\ claims' = claims - 1
  /\ Answer(a)
  /\ UNCHANGED <<term, thr>>

\* ... of one that has stopped itself ...
StopFailed(a) ==
  /\ Command(a) /\ samp.state = "RUNNING" /\ samp.os = NoOs
  /\ samp' = [samp EXCEPT !.state = "CONFIGURED"]
  /\ Answer(a)
  /\ UNCHANGED <<timer, claims, term, thr>>

\* ... and of one with a scheduler of its own, up to pthread_join():
\* ovis_scheduler_term() refuses (EINVAL) when the loop was not entered yet, and
\* ldmsd_sampler_xthread_delete() does not look at its result.
StopExclusive(a) ==
  /\ Command(a) /\ samp.state = "RUNNING" /\ samp.os \in Exclusive
  /\ timer' = NoOs
  /\ term' = IF thr[samp.os] = "starting" THEN term ELSE term \cup {samp.os}
  /\ adm' = [adm EXCEPT ![a] = "join"]
  /\ UNCHANGED <<samp, claims, thr>>

\* pthread_join() has returned; the scheduler is freed.
Joined(a) ==
  /\ Alive /\ adm[a] = "join" /\ thr[samp.os] = "exit"
  /\ samp' = [Unscheduled(samp) EXCEPT !.state = "CONFIGURED"]
  /\ Answer(a)
  /\ UNCHANGED <<timer, claims, term, thr, bad, cmds>>

\* ldmsd_term_plugin(): EBUSY when RUNNING; nothing when TERMINATING.
TermPlugin(a) ==
  /\ Command(a) /\ samp.state \in {"INIT", "CONFIGURED"}
  /\ samp' = [samp EXCEPT !.state = "TERMINATING"]
  /\ adm' = [adm EXCEPT ![a] = "unload"]
  /\ UNCHANGED <<timer, claims, term, thr>>

\* Mutant: the command's own reference is put here too.
Unload_PutsFind(a) ==
  /\ Alive /\ adm[a] = "unload"
  /\ samp' = [samp EXCEPT !.tree = FALSE, !.ref = @ - 4]
  /\ Answer(a)
  /\ UNCHANGED <<timer, claims, term, thr, bad, cmds>>

\* ldmsd_cfgobj_rm(), and the puts of "load" and "init".
Unload(a) ==
  /\ Alive /\ adm[a] = "unload"
  /\ samp' = [samp EXCEPT !.tree = FALSE, !.ref = @ - 3]
  /\ Answer(a)
  /\ UNCHANGED <<timer, claims, term, thr, bad, cmds>>
-----------------------------------------------------------------------------
ThrGoes(t, s) == thr' = [thr EXCEPT ![t] = s] /\ UNCHANGED <<adm, term, cmds>>

\* Mutant: the loop looks for its end after a callback only.
LoopEnd_AfterCallback(t) ==
  /\ Alive /\ thr[t] = "put" /\ t \in term /\ ThrGoes(t, "exit")
  /\ samp' = [samp EXCEPT !.ref = @ - 1]
  /\ UNCHANGED <<timer, claims, bad>>

\* ovis_scheduler_loop() of an exclusive thread begins, and ends once it was told.
LoopBegin(t) ==
  /\ Alive /\ thr[t] = "starting" /\ ThrGoes(t, "idle")
  /\ UNCHANGED <<samp, timer, claims, bad>>
LoopEnd(t) ==
  /\ Alive /\ thr[t] = "idle" /\ t \in term /\ ThrGoes(t, "exit")
  /\ UNCHANGED <<samp, timer, claims, bad>>

\* The scheduler finds the timer due, rearms it and releases its mutex.
Fire(t) ==
  /\ Alive /\ thr[t] = "idle" /\ timer = t /\ ThrGoes(t, "fired")
  /\ UNCHANGED <<samp, timer, claims, bad>>

\* plugin_sampler_cb() takes the reference "cb" ...
CbGet(t) ==
  /\ Alive /\ thr[t] = "fired" /\ ThrGoes(t, "got")
  /\ samp' = [samp EXCEPT !.ref = @ + 1] /\ bad' = IF Freed THEN "freed" ELSE bad
  /\ UNCHANGED <<timer, claims>>

\* ... gets the lock and samples ...
CbSample(t) ==
  /\ Alive /\ thr[t] = "got" /\ ~Locked /\ ThrGoes(t, "put")
  /\ UNCHANGED <<samp, timer, claims, bad>>

\* Mutant: the failing sampler keeps its timer.
CbFail_KeepsTimer(t) ==
  /\ Alive /\ thr[t] = "got" /\ ~Locked /\ ThrGoes(t, "put")
  /\ bad' = IF samp.os = NoOs THEN "null" ELSE IF samp.thread_id = -1 THEN "claim" ELSE bad
  /\ IF bad' # "none" THEN UNCHANGED <<samp, claims>>
     ELSE samp' = Unscheduled(samp) /\ claims' = claims - 1
  /\ UNCHANGED timer

\* ... or fails to, and stop_sampler() deletes the timer, releases the shared
\* scheduler and puts "start", whatever start and stop have done meanwhile.
CbFail(t) ==
  /\ Alive /\ thr[t] = "got" /\ ~Locked /\ ThrGoes(t, "put")
  /\ bad' = IF samp.os = NoOs THEN "null" ELSE IF samp.thread_id = -1 THEN "claim" ELSE bad
  /\ IF bad' # "none" THEN UNCHANGED <<samp, timer, claims>>
     ELSE samp' = Unscheduled(samp) /\ timer' = NoOs /\ claims' = claims - 1

CbPut(t) ==
  /\ Alive /\ thr[t] = "put" /\ ThrGoes(t, "idle")
  /\ samp' = [samp EXCEPT !.ref = @ - 1]
  /\ UNCHANGED <<timer, claims, bad>>

Executes(a) ==
  \/ Refused(a) \/ ConfigPut(a) \/ Start(a) \/ StartFails(a) \/ StopShared(a) \/ StopFailed(a)
  \/ StopExclusive(a) \/ TermPlugin(a)
Finishes(a) == Config(a) \/ Joined(a) \/ Unload(a) \/ FindPut(a)
ThreadStep(t) == LoopBegin(t) \/ LoopEnd(t) \/ Fire(t) \/ CbGet(t) \/ CbSample(t) \/ CbFail(t) \/ CbPut(t)

Next ==
  \/ \E a \in Admins : Find(a) \/ Executes(a) \/ Finishes(a)
  \/ \E t \in Schedulers : ThreadStep(t)

\* A command that was begun is executed, and the scheduler threads run.  The
\* administrators choose which command it is, and whether to give another.
Fairness ==
  /\ \A a \in Admins : WF_vars(Executes(a)) /\ WF_vars(Finishes(a))
  /\ \A t \in Schedulers : WF_vars(ThreadStep(t))

Spec == Init /\ [][Next]_vars
FairSpec == Spec /\ Fairness
-----------------------------------------------------------------------------
\* Every reference has a holder: the tree with "init" and "load", a command, a
\* callback, or the timer ("start").  So a sampler is not freed while it is scheduled
\* or under a callback that holds the reference "cb", whatever the commands do
\* meanwhile, and it is freed once it was unloaded and all have left.
RefsExact ==
  samp.ref = (IF samp.tree THEN 3 ELSE 0)
             + Cardinality({a \in Admins : adm[a] \notin {"idle", "config"}})
             + Cardinality({t \in Schedulers : thr[t] \in {"got", "put"}})
             + (IF samp.os = NoOs THEN 0 ELSE 1)

\* find_least_busy_thread() goes by ev_count[]: a sampler is counted while it is on
\* the shared scheduler and only then, and its timer is where samp->os says.
ClaimsExact ==
  /\ claims = IF samp.os = Shared THEN 1 ELSE 0
  /\ timer # NoOs => samp.os = timer

\* What goes wrong, goes wrong in one of three ways: plugin_sampler_cb() comes after a
\* stop has deleted the timer that fired it, the config command after the sampler
\* was unloaded, or the sample fails on an exclusive scheduler.  A callback of a
\* timer that is still scheduled finds the sampler and its scheduler.
FaultsAreRaces ==
  /\ bad \in {"freed", "null"} => samp.os = NoOs /\ timer = NoOs
  /\ bad = "freed" => samp.state = "TERMINATING"
  /\ bad = "claim" => samp.os \in Exclusive

\* ldmsd_sampler_stop() waits for ever, with the sampler's lock, when a callback of
\* the thread that it joins waits for that lock, or when the thread had not entered
\* its loop when ovis_scheduler_term() was called.
Hangs(t) == thr[t] = "got" \/ (thr[t] = "idle" /\ t \notin term)

\* It returns in every other case: the thread that it joins ends.
StopReturns ==
  \A a \in Admins : adm[a] = "join" ~> adm[a] # "join" \/ Hangs(samp.os) \/ ~Alive

\* A sampler that was started is sampled, unless it is stopped first.
StartedIsSampled ==
  \A t \in Schedulers : timer = t ~> thr[t] = "put" \/ timer # t \/ ~Alive
=============================================================================
