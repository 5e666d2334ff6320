------------------------------ MODULE OvisEvent ------------------------------
(***************************************************************************)
(* A scheduler (struct ovis_scheduler_s, src/lib/src/ovis_event/): one     *)
(* thread runs ovis_scheduler_loop() and calls the events that are due;    *)
(* any thread, a callback included, adds and deletes events and may end    *)
(* the loop.  The scheduler's mutex is held in each action below; the      *)
(* steps of the loop are the stretches between its releases.               *)
(***************************************************************************)
EXTENDS OvisHeap, OvisTime, FiniteSets

CONSTANTS
  Timeouts, Periodics, Files, Oneshots,   \* the events, by param.type
  Wait,        \* timeout of a timer or period of a periodic event
  Phase,       \* phase of a periodic event
  HeapSize,    \* OVIS_EVENT_HEAP_SIZE
  PipeSize,    \* how many writes the notification pipe takes
  ReturnOnEmpty,   \* argument of ovis_scheduler_loop()
  MaxNow,      \* bound on the clock
  MaxOps       \* bound on the operations of the application

Timers == Timeouts \cup Periodics
Events == Timers \cup Files \cup Oneshots
Pipe == "pipe"     \* m->ovis_ev
None == "none"     \* no event
Never == -1        \* the timeout of epoll_wait() when there is no timer

ASSUME EventAssumption ==
  /\ \A e \in Timers : Wait[e] \in Nat \ {0}
  /\ \A e \in Periodics : Phase[e] \in Int /\ 0 - Wait[e] < Phase[e] /\ Phase[e] <= Wait[e]
  /\ Pipe \notin Events /\ None \notin Events
  /\ {HeapSize, PipeSize, MaxNow, MaxOps} \subseteq Nat /\ ReturnOnEmpty \in BOOLEAN

VARIABLES
  heap,      \* m->heap
  tv,        \* priv.tv of the timers
  oneshot_tq,
  watched,   \* the events that are registered with epoll
  evcount,
  state,     \* m->state
  pipe,      \* what was written to m->pfd and not read yet
  ready,     \* the files that epoll_wait() will report
  pc,        \* where the loop's thread is
  cur,       \* the event whose callback it runs
  aim,       \* the wake-up time that the timeout of epoll_wait() stands for
  todo,      \* what epoll_wait() has reported and is still to be dispatched
  now,       \* gettimeofday()
  ops        \* operations of the application so far

app == <<heap, tv, oneshot_tq, watched, evcount, pipe>>
loop == <<pc, cur, aim, todo>>
vars == <<app, state, ready, loop, now, ops>>

TypeOK ==
  /\ heap \in Seq(Timers) /\ Cardinality(Elements(heap)) = Len(heap)
  /\ tv \in [Timers -> Nat]
  /\ oneshot_tq \in Seq(Oneshots) /\ Cardinality(Elements(oneshot_tq)) = Len(oneshot_tq)
  /\ watched \subseteq Files /\ ready \subseteq watched
  /\ evcount \in Nat /\ pipe \in 0 .. PipeSize
  /\ state \in {"INIT", "RUNNING", "WAITING", "TERM"}
  /\ pc \in {"off", "process", "cb", "check", "epoll", "woke", "dispatch"}
  /\ cur \in Events \cup {None}
  /\ aim \in Nat \cup {Never}
  /\ todo \subseteq {Pipe} \cup Files
  /\ now \in 0 .. MaxNow /\ ops \in 0 .. MaxOps

\* ovis_scheduler_new()
Init ==
  /\ heap = <<>> /\ tv = [e \in Timers |-> 0] /\ oneshot_tq = <<>>
  /\ watched = {} /\ ready = {} /\ evcount = 0
  /\ state = "INIT" /\ pipe = 0
  /\ pc = "off" /\ cur = None /\ aim = Never /\ todo = {}
  /\ now = 0 /\ ops = 0
-----------------------------------------------------------------------------
\* A write to the non-blocking pipe; the callers go on when it is full.
Notified(yes) == IF yes /\ pipe < PipeSize THEN pipe + 1 ELSE pipe

\* Mutant: the period is counted from the old wake-up time.
NextWakeup_FromLast(e) == IF e \in Timeouts THEN now + Wait[e] ELSE tv[e] + Wait[e]

\* __ovis_event_next_wakeup(), and the same in ovis_event_heap_process().
NextWakeup(e) ==
  IF e \in Timeouts THEN now + Wait[e] ELSE NextPeriodicTime(now, Wait[e], Phase[e])

Operation == ops < MaxOps /\ ops' = ops + 1 /\ UNCHANGED <<state, loop, now>>

\* ovis_scheduler_event_add() of an epoll event.
AddFile(e) ==
  /\ Operation /\ e \notin watched
  /\ watched' = watched \cup {e} /\ evcount' = evcount + 1
  /\ UNCHANGED <<heap, tv, oneshot_tq, pipe, ready>>

\* Mutant: the loop is only told of the first timer.
AddTimer_NotifiesFirst(e) ==
  /\ Operation /\ e \notin Elements(heap)
  /\ tv' = [tv EXCEPT ![e] = NextWakeup(e)]
  /\ heap' = Insert(heap, tv', e) /\ evcount' = evcount + 1
  /\ pipe' = Notified(state = "WAITING" /\ heap = <<>>)
  /\ UNCHANGED <<oneshot_tq, watched, ready>>

\* ovis_scheduler_event_add() of a timer (EEXIST if it is in a heap already, ENOMEM
\* if the heap is full): a waiting loop is told if the event is the next one.
AddTimer(e) ==
  /\ Operation /\ e \notin Elements(heap)
  /\ tv' = [tv EXCEPT ![e] = NextWakeup(e)]
  /\ IF Len(heap) = HeapSize
       THEN UNCHANGED <<heap, evcount, pipe>>
       ELSE /\ heap' = Insert(heap, tv', e) /\ evcount' = evcount + 1
            /\ pipe' = Notified(state = "WAITING" /\ Top(heap') = e)
  /\ UNCHANGED <<oneshot_tq, watched, ready>>

\* ovis_scheduler_event_add() of a one-shot event.
AddOneshot(e) ==
  /\ Operation /\ e \notin Elements(oneshot_tq)
  /\ oneshot_tq' = Append(oneshot_tq, e) /\ evcount' = evcount + 1
  /\ pipe' = Notified(state = "WAITING")
  /\ UNCHANGED <<heap, tv, watched, ready>>

\* ovis_scheduler_event_del() of an epoll event.
DelFile(e) ==
  /\ Operation /\ e \in watched
  /\ watched' = watched \ {e} /\ ready' = ready \ {e} /\ evcount' = evcount - 1
  /\ UNCHANGED <<heap, tv, oneshot_tq, pipe>>

\* Mutant: a deleted timer stays in the count.
DelTimer_KeepsCount(e) ==
  /\ Operation /\ e \in Elements(heap)
  /\ heap' = Remove(heap, tv, e)
  /\ UNCHANGED <<tv, oneshot_tq, watched, evcount, pipe, ready>>

\* ovis_scheduler_event_del() of a timer; one that is in no heap is left alone.
DelTimer(e) ==
  /\ Operation /\ e \in Elements(heap)
  /\ heap' = Remove(heap, tv, e) /\ evcount' = evcount - 1
  /\ pipe' = Notified(state = "WAITING" /\ evcount' = 0)
  /\ UNCHANGED <<tv, oneshot_tq, watched, ready>>

\* Mutant: the loop is not woken.
Term_Silent ==
  /\ state \in {"RUNNING", "WAITING"} /\ ops < MaxOps /\ ops' = ops + 1
  /\ state' = "TERM"
  /\ UNCHANGED <<app, ready, loop, now>>

\* ovis_scheduler_term(): EINVAL before the loop has started.
Term ==
  /\ state \in {"RUNNING", "WAITING"} /\ ops < MaxOps /\ ops' = ops + 1
  /\ state' = "TERM" /\ pipe' = Notified(TRUE)
  /\ UNCHANGED <<heap, tv, oneshot_tq, watched, evcount, ready, loop, now>>
-----------------------------------------------------------------------------
At(p) == pc = p /\ UNCHANGED <<now, ops>>

\* ovis_scheduler_loop() is entered: EINVAL if it runs already.
Loop ==
  /\ At("off") /\ state \in {"INIT", "TERM"}
  /\ state' = "RUNNING" /\ pc' = "process"
  /\ UNCHANGED <<app, ready, cur, aim, todo>>

TopIsDue == heap # <<>> /\ tv[Top(heap)] <= now

\* ovis_event_heap_process() takes the first one-shot event ...
ProcessOneshot ==
  /\ At("process") /\ oneshot_tq # <<>>
  /\ cur' = Head(oneshot_tq) /\ oneshot_tq' = Tail(oneshot_tq) /\ evcount' = evcount - 1
  /\ pc' = "cb"
  /\ UNCHANGED <<heap, tv, watched, pipe, state, ready, aim, todo>>

\* ... or the next timer if it is due, and rearms it ...
ProcessTimer ==
  /\ At("process") /\ oneshot_tq = <<>> /\ TopIsDue
  /\ cur' = Top(heap)
  /\ tv' = [tv EXCEPT ![cur'] = NextWakeup(cur')]
  /\ heap' = Update(heap, tv', cur')
  /\ pc' = "cb"
  /\ UNCHANGED <<oneshot_tq, watched, evcount, pipe, state, ready, aim, todo>>

\* ... or returns the time to the next one and lets the others know of the wait.
ProcessDone ==
  /\ At("process") /\ oneshot_tq = <<>> /\ ~TopIsDue
  /\ aim' = IF heap = <<>> THEN Never ELSE tv[Top(heap)]
  /\ state' = IF state = "RUNNING" THEN "WAITING" ELSE state
  /\ pc' = "check"
  /\ UNCHANGED <<app, ready, cur, todo>>

\* The callback of a timer or a one-shot event returns.
Called ==
  /\ At("cb") /\ cur' = None /\ pc' = "process"
  /\ UNCHANGED <<app, state, ready, aim, todo>>

CheckEmpty ==
  /\ At("check") /\ pc' = IF evcount = 0 /\ ReturnOnEmpty THEN "off" ELSE "epoll"
  /\ UNCHANGED <<app, state, ready, cur, aim, todo>>

\* epoll_wait() returns what is ready.
EpollReady ==
  /\ At("epoll") /\ (pipe > 0 \/ ready # {})
  /\ todo' = ready \cup (IF pipe > 0 THEN {Pipe} ELSE {}) /\ pc' = "woke"
  /\ UNCHANGED <<app, state, ready, cur, aim>>

\* With nothing ready, epoll_wait() runs into its timeout, which is rounded up to
\* milliseconds, or is interrupted by a signal: m->state stays as it is.
EpollTimeout ==
  /\ At("epoll") /\ pipe = 0 /\ ready = {} /\ aim # Never /\ now >= aim
  /\ pc' = "process"
  /\ UNCHANGED <<app, state, ready, cur, aim, todo>>
Interrupted ==
  /\ At("epoll") /\ pipe = 0 /\ ready = {} /\ pc' = "process"
  /\ UNCHANGED <<app, state, ready, cur, aim, todo>>

Woke ==
  /\ At("woke") /\ state' = IF state = "WAITING" THEN "RUNNING" ELSE state
  /\ pc' = "dispatch"
  /\ UNCHANGED <<app, ready, cur, aim, todo>>

\* ovis_event_term_check() before each dispatch and after the last: the loop ends.
Ended ==
  /\ At("dispatch") /\ state = "TERM"
  /\ pc' = "off" /\ todo' = {}
  /\ UNCHANGED <<app, state, ready, cur, aim>>

\* __ovis_event_pipe_cb() reads all there is; the callback of a file takes its data.
Dispatch(e) ==
  /\ At("dispatch") /\ state # "TERM" /\ e \in todo
  /\ todo' = todo \ {e}
  /\ pipe' = IF e = Pipe THEN 0 ELSE pipe
  /\ ready' = ready \ {e}
  /\ UNCHANGED <<heap, tv, oneshot_tq, watched, evcount, state, pc, cur, aim>>

DispatchDone ==
  /\ At("dispatch") /\ state # "TERM" /\ todo = {}
  /\ pc' = "process"
  /\ UNCHANGED <<app, state, ready, cur, aim, todo>>

\* A watched file gets data, and time passes.
FileReady(e) ==
  /\ e \in watched \ ready /\ ready' = ready \cup {e}
  /\ UNCHANGED <<app, state, loop, now, ops>>
Tick ==
  /\ now < MaxNow /\ now' = now + 1
  /\ UNCHANGED <<app, state, ready, loop, ops>>

Application ==
  \/ \E e \in Files : AddFile(e) \/ DelFile(e)
  \/ \E e \in Timers : AddTimer(e) \/ DelTimer(e)
  \/ \E e \in Oneshots : AddOneshot(e)
  \/ Term

LoopStep ==
  \/ ProcessOneshot \/ ProcessTimer \/ ProcessDone \/ Called \/ CheckEmpty
  \/ EpollReady \/ EpollTimeout \/ Woke \/ Ended \/ DispatchDone
  \/ \E e \in {Pipe} \cup Files : Dispatch(e)

Next ==
  \/ Application \/ Loop \/ LoopStep \/ Interrupted \/ Tick
  \/ \E e \in Files : FileReady(e)

\* The loop's thread is not suspended for ever, its callbacks return, and time
\* passes.  Nothing is assumed of signals, files and the application.
Fairness == WF_vars(LoopStep) /\ WF_vars(Tick)

Spec == Init /\ [][Next]_vars
FairSpec == Spec /\ Fairness
-----------------------------------------------------------------------------
\* m->evcount is what ovis_scheduler_loop() and the last delete go by: it counts
\* the registered events of every kind, whichever thread added or removed them.
EvcountExact == evcount = Len(heap) + Len(oneshot_tq) + Cardinality(watched)

\* No lost wake-up: while the loop is on its way into epoll_wait() or in it, either
\* the pipe will wake it or its timeout stands for the earliest timer and no
\* one-shot event waits.  ovis_scheduler_event_add() writes to the pipe only if
\* m->state is WAITING and the new timer is the first, so this depends on when
\* ovis_event_heap_process() stores WAITING.
NoOversleep ==
  pc \in {"check", "epoll"} /\ pipe = 0 =>
    /\ oneshot_tq = <<>>
    /\ \A e \in Elements(heap) : aim # Never /\ aim <= tv[e]

\* A periodic event is always armed for an instant of its grid that is at most
\* one period away, also when its phase is negative or it was called late.
PeriodicOnGrid ==
  \A e \in Elements(heap) \cap Periodics :
    OnGrid(tv[e], Wait[e], Phase[e]) /\ tv[e] <= now + Wait[e]

\* ovis_event_heap_process(): a timer that is due is called, unless it is deleted
\* or the loop ends first.
Due(e) == pc # "off" /\ e \in Elements(heap) /\ tv[e] <= now
DueIsCalled ==
  \A e \in Timers : Due(e) ~> (cur = e \/ e \notin Elements(heap) \/ pc = "off")

\* ovis_scheduler_term() ends the loop, wherever its thread is.
TermEnds == state = "TERM" ~> pc = "off"
=============================================================================
