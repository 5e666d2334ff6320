------------------------------- MODULE Prdcr --------------------------------
(***************************************************************************)
(* A producer of ldmsd that opens its own connection (types ACTIVE,        *)
(* ADVERTISED_ACTIVE: "agg"; BRIDGE, ADVERTISER: "sampler"),               *)
(* src/ldms/src/ldmsd/ldmsd_prdcr.c.  Three kinds of threads meet at       *)
(* prdcr->lock: scheduler threads that run the reconnect task, transport   *)
(* threads that deliver connection events, and configuration threads that  *)
(* start and stop the producer.  Each action is one section under that     *)
(* lock (the task's own lock is taken inside it), or one step of a thread  *)
(* that holds neither.                                                     *)
(***************************************************************************)
EXTENDS LdmsdTask, RailConn, FiniteSets

CONSTANTS
  Admins,      \* configuration threads
  Slots,       \* transports that can exist at the same time
  NoXprt,      \* prdcr->xprt is NULL
  Types        \* a subset of {"agg", "sampler"}

ASSUME PrdcrAssumption == NoXprt \notin Slots /\ Types \subseteq {"agg", "sampler"}

VARIABLES
  prdcr,    \* the struct ldmsd_prdcr
  task,     \* prdcr->task
  thr,      \* the scheduler threads
  conn,     \* the rails made by prdcr_connect(), as their user sees them
  adm,      \* where each configuration thread is in __ldmsd_prdcr_stop()
  bad,      \* the assert() that has failed ("xprt", "event") or the NULL that was
            \* dereferenced ("noxprt", "noos"); nothing is said of what follows
  dropped,  \* has a connect failed after it had posted an endpoint?
  twice     \* have two scheduler threads been in task_cb_fn() at the same time?

vars == <<prdcr, task, thr, conn, adm, bad, dropped, twice>>
history == <<dropped, twice>>

ConnState == {"STOPPED", "DISCONNECTED", "CONNECTING", "CONNECTED", "STOPPING"}

\* "sets" is the transport whose sets fill prdcr->set_tree, "dstart" is
\* LDMSD_PERM_DSTART: the producer was started and not stopped since.
TypeOK ==
  /\ prdcr \in [type : {"agg", "sampler"}, conn_state : ConnState,
                xprt : Slots \cup {NoXprt}, sets : Slots \cup {NoXprt}, dstart : BOOLEAN]
  /\ task \in Task
  /\ thr \in [Threads -> TaskThread]
  /\ conn \in [Slots -> Conn]
  /\ adm \in [Admins -> {"idle", "join", "wait", "joined"}]
  /\ bad \in {"none", "xprt", "event", "noxprt", "noos"}
  /\ dropped \in BOOLEAN /\ twice \in BOOLEAN

Init ==
  /\ \E y \in Types : prdcr = [type |-> y, conn_state |-> "STOPPED", xprt |-> NoXprt,
                               sets |-> NoXprt, dstart |-> FALSE]
  /\ task = NewTask
  /\ thr = [t \in Threads |-> IdleThread]
  /\ conn = [i \in Slots |-> NewConn]
  /\ adm = [a \in Admins |-> "idle"]
  /\ bad = "none" /\ dropped = FALSE /\ twice = FALSE

Alive == bad = "none"
Fails(yes, how) == bad' = IF yes THEN how ELSE bad

\* pthread_cond_signal(&task->join_cv) wakes one waiting thread.
Signal(yes) ==
  LET waiting == {a \in Admins : adm[a] = "wait"}
  IN  IF yes /\ waiting # {} THEN \E a \in waiting : adm' = [adm EXCEPT ![a] = "join"]
      ELSE UNCHANGED adm

\* ldmsd_task_start() and ldmsd_task_stop(), called with prdcr->lock held.  The
\* producer ignores their results.
StartTask == \E t \in Threads : task' = TaskStart(task, t)
\* ovis_scheduler_event_del() dereferences task->os.
StopFaults == task.state = "STARTED" /\ task.os = NoThread
StopTask == task' = TaskStop(task) /\ Signal(StopSignals(task))
-----------------------------------------------------------------------------
\* The scheduler threads.

\* ovis_event_heap_process(): the timer is due; its callback is called after
\* the scheduler's lock is released.
Fire(t) ==
  /\ Alive /\ thr[t].pc = "idle" /\ task.os = t
  /\ thr' = [thr EXCEPT ![t].pc = "fired"]
  /\ UNCHANGED <<prdcr, task, conn, adm, bad, history>>

CbBegin(t) ==
  /\ Alive /\ thr[t].pc = "fired"
  /\ task' = TaskBegin(task)
  /\ thr' = [thr EXCEPT ![t] = [pc |-> "fn", next |-> TaskBeginNext(task)]]
  /\ twice' = (twice \/ \E u \in Threads \ {t} : thr[u].pc \in {"fn", "end"})
  /\ UNCHANGED <<prdcr, conn, adm, bad, dropped>>

CbEnd(t) ==
  /\ Alive /\ thr[t].pc = "end"
  /\ task' = TaskEnd(task, thr[t].next)
  /\ Signal(EndSignals(task, thr[t].next))
  /\ thr' = [thr EXCEPT ![t] = IdleThread]
  /\ UNCHANGED <<prdcr, conn, bad, history>>

\* prdcr_connect(): the host is not resolved, or no rail can be made, or none
\* of its endpoints can be posted: nothing is left of the attempt.  Otherwise
\* the rail is posted, or it fails at once and is dropped with the endpoints that
\* were posted before.
Connect ==
  \/ UNCHANGED <<prdcr, conn, bad, dropped>>
  \/ \E i \in Slots, c \in {Post(NewConn), PostFails(NewConn, TRUE)} :
       /\ conn[i] = NewConn
       /\ conn' = [conn EXCEPT ![i] = c]
       /\ dropped' = (dropped \/ c.st = "stray")
       /\ prdcr' = IF c.st = "stray" THEN prdcr
                   ELSE [prdcr EXCEPT !.conn_state = "CONNECTING", !.xprt = i]
       /\ Fails(prdcr.xprt # NoXprt, "xprt")        \* assert(prdcr->xprt == NULL)

\* prdcr_task_cb()
TaskFn(t) ==
  /\ Alive /\ thr[t].pc = "fn"
  /\ thr' = [thr EXCEPT ![t].pc = "end"]
  /\ UNCHANGED twice
  /\ CASE prdcr.conn_state \in {"STOPPED", "STOPPING", "CONNECTED"} ->
            StopTask /\ Fails(StopFaults, "noos") /\ UNCHANGED <<prdcr, conn, dropped>>
       [] prdcr.conn_state = "DISCONNECTED" -> Connect /\ UNCHANGED <<task, adm>>
       [] OTHER -> UNCHANGED <<prdcr, conn, bad, dropped, task, adm>>
-----------------------------------------------------------------------------
\* The transport threads.

\* What a rail does by itself: it fails, it is connected, it ends.
RailFails(i) ==
  /\ Alive /\ conn[i].st \in {"posted", "up"} /\ ~conn[i].doomed
  /\ conn' = [conn EXCEPT ![i] = Doom(@)]
  /\ UNCHANGED <<prdcr, task, thr, adm, bad, history>>

RailComesUp(i) ==
  /\ Alive /\ CanComeUp(conn[i])
  /\ conn' = [conn EXCEPT ![i] = ComeUp(@)]
  /\ UNCHANGED <<prdcr, task, thr, adm, bad, history>>

RailEnds(i) ==
  /\ Alive /\ CanEnd(conn[i]) /\ conn[i].doomed
  /\ conn' = [conn EXCEPT ![i] = End(@)]
  /\ UNCHANGED <<prdcr, task, thr, adm, bad, history>>

\* prdcr_dir_cb() with the sets of a connected peer.
Dir(i) ==
  /\ Alive /\ prdcr.type = "agg" /\ conn[i].st = "up" /\ conn[i].due = "none"
  /\ prdcr.sets # i
  /\ prdcr' = [prdcr EXCEPT !.sets = i]
  /\ UNCHANGED <<task, thr, conn, adm, bad, history>>

\* prdcr_connect_cb() with CONNECTED, and __agg_routine(): a failed allocation
\* leaves the state alone, a dir request that fails closes the transport, and
\* the reconnect task is stopped.  The transport is dereferenced.
AggConnected(i) ==
  /\ Alive /\ prdcr.type = "agg" /\ conn[i].due = "CONNECTED"
  /\ UNCHANGED <<thr, history>>
  /\ \/ /\ conn' = [conn EXCEPT ![i] = Delivered(@)]        \* out of memory
        /\ UNCHANGED <<prdcr, task, adm, bad>>
     \/ /\ bad' = IF prdcr.xprt = NoXprt THEN "noxprt" ELSE IF StopFaults THEN "noos" ELSE bad
        /\ prdcr' = [prdcr EXCEPT !.conn_state = "CONNECTED"]
        /\ \E dirfails \in BOOLEAN :
             conn' = [j \in Slots |->
                        LET c == IF j = i THEN Delivered(conn[j]) ELSE conn[j]
                        IN  IF dirfails /\ j = prdcr.xprt THEN Doom(c) ELSE c]
        /\ StopTask

\* prdcr_connect_cb() with CONNECTED, and __sampler_routine().
SamplerConnected(i) ==
  /\ Alive /\ prdcr.type = "sampler" /\ conn[i].due = "CONNECTED"
  /\ prdcr' = [prdcr EXCEPT !.conn_state = "CONNECTED"]
  /\ conn' = [conn EXCEPT ![i] = Delivered(@)]
  /\ UNCHANGED <<task, thr, adm, bad, history>>

\* prdcr_connect_cb() with DISCONNECTED, ERROR or REJECTED: reset_prdcr.  The
\* producer's reference is put; a rail that is over is freed.
Freed(c) == IF Outstanding(Delivered(c)) THEN Delivered(c) ELSE NewConn

\* Mutant: the producer keeps its transport.
Reset_KeepsXprt(i) ==
  /\ Alive /\ conn[i].due = "TERMINAL"
  /\ Fails(prdcr.conn_state = "STOPPED", "event")
  /\ prdcr' = [prdcr EXCEPT !.sets = NoXprt,
                            !.conn_state = IF @ = "STOPPING" THEN "STOPPED" ELSE "DISCONNECTED"]
  /\ IF prdcr.conn_state = "STOPPING" THEN UNCHANGED task ELSE StartTask
  /\ conn' = [conn EXCEPT ![i] = Freed(@)]
  /\ UNCHANGED <<thr, adm, history>>

\* Mutant: the sets stay in the tree.
Reset_KeepsSets(i) ==
  /\ Alive /\ conn[i].due = "TERMINAL"
  /\ Fails(prdcr.conn_state = "STOPPED", "event")
  /\ prdcr' = [prdcr EXCEPT !.xprt = NoXprt,
                            !.conn_state = IF @ = "STOPPING" THEN "STOPPED" ELSE "DISCONNECTED"]
  /\ IF prdcr.conn_state = "STOPPING" THEN UNCHANGED task ELSE StartTask
  /\ conn' = [conn EXCEPT ![i] = Freed(@)]
  /\ UNCHANGED <<thr, adm, history>>

Reset(i) ==
  /\ Alive /\ conn[i].due = "TERMINAL"
  /\ Fails(prdcr.conn_state = "STOPPED", "event")   \* "STOPPED shouldn't have xprt event"
  /\ prdcr' = [prdcr EXCEPT !.sets = NoXprt, !.xprt = NoXprt,
                            !.conn_state = IF @ = "STOPPING" THEN "STOPPED" ELSE "DISCONNECTED"]
  /\ IF prdcr.conn_state = "STOPPING" THEN UNCHANGED task ELSE StartTask
  /\ conn' = [conn EXCEPT ![i] = Freed(@)]
  /\ UNCHANGED <<thr, adm, history>>
-----------------------------------------------------------------------------
\* The configuration threads.

\* __ldmsd_prdcr_start(): EBUSY unless STOPPED.
Start(a) ==
  /\ Alive /\ adm[a] = "idle" /\ prdcr.conn_state = "STOPPED"
  /\ prdcr' = [prdcr EXCEPT !.conn_state = "DISCONNECTED", !.dstart = TRUE]
  /\ StartTask
  /\ UNCHANGED <<thr, conn, adm, bad, history>>

\* __ldmsd_prdcr_stop() up to the unlock before ldmsd_task_join().
Stop(a) ==
  /\ Alive /\ adm[a] = "idle" /\ prdcr.conn_state \notin {"STOPPED", "STOPPING"}
  /\ Fails(StopFaults, "noos")
  /\ prdcr' = [prdcr EXCEPT !.conn_state = "STOPPING", !.dstart = FALSE]
  /\ task' = TaskStop(task)
  /\ conn' = [i \in Slots |-> IF i = prdcr.xprt THEN Doom(conn[i]) ELSE conn[i]]
  /\ LET waiting == {b \in Admins : adm[b] = "wait"}
     IN  IF StopSignals(task) /\ waiting # {}
         THEN \E b \in waiting : adm' = [adm EXCEPT ![a] = "join", ![b] = "join"]
         ELSE adm' = [adm EXCEPT ![a] = "join"]
  /\ UNCHANGED <<thr, history>>

\* ldmsd_task_join(): wait on join_cv until the task is STOPPED.
Join(a) ==
  /\ Alive /\ adm[a] = "join"
  /\ adm' = [adm EXCEPT ![a] = IF task.state = "STOPPED" THEN "joined" ELSE "wait"]
  /\ UNCHANGED <<prdcr, task, thr, conn, bad, history>>

\* Mutant: the transport is dropped before its end was reported.
StopEnd_DropsXprt(a) ==
  /\ Alive /\ adm[a] = "joined"
  /\ prdcr' = [prdcr EXCEPT !.conn_state = "STOPPED", !.xprt = NoXprt]
  /\ adm' = [adm EXCEPT ![a] = "idle"]
  /\ UNCHANGED <<task, thr, conn, bad, history>>

\* __ldmsd_prdcr_stop() after the join.
StopEnd(a) ==
  /\ Alive /\ adm[a] = "joined"
  /\ prdcr' = [prdcr EXCEPT !.conn_state = IF prdcr.xprt = NoXprt THEN "STOPPED" ELSE @]
  /\ adm' = [adm EXCEPT ![a] = "idle"]
  /\ UNCHANGED <<task, thr, conn, bad, history>>
-----------------------------------------------------------------------------
Scheduler(t) == Fire(t) \/ CbBegin(t) \/ TaskFn(t) \/ CbEnd(t)
Deliver(i) == AggConnected(i) \/ SamplerConnected(i) \/ Reset(i)

Next ==
  \/ \E t \in Threads : Scheduler(t)
  \/ \E i \in Slots : RailFails(i) \/ RailComesUp(i) \/ RailEnds(i) \/ Dir(i) \/ Deliver(i)
  \/ \E a \in Admins : Start(a) \/ Stop(a) \/ Join(a) \/ StopEnd(a)

\* A due timer fires, a callback that has begun goes on, a rail is answered and
\* its end reported (RailPromise), and a configuration thread goes on.
Fairness ==
  /\ \A t \in Threads : WF_vars(Scheduler(t))
  /\ \A i \in Slots : /\ WF_vars(RailComesUp(i) \/ RailFails(i))
                      /\ WF_vars(RailEnds(i))
                      /\ WF_vars(Deliver(i))
  /\ \A a \in Admins : WF_vars(Join(a)) /\ WF_vars(StopEnd(a))

Spec == Init /\ [][Next]_vars
FairSpec == Spec /\ Fairness
-----------------------------------------------------------------------------
\* The asserts of the producer hold (prdcr->xprt is NULL when a connect begins,
\* "STOPPED shouldn't have xprt event") and prdcr->xprt is there when CONNECTED is
\* handled, unless ldms_xprt_connect() has failed half-way before: then endpoints of
\* a rail that prdcr_connect() has dropped report to prdcr_connect_cb().
\* ldmsd_task_stop() finds task->os, unless two threads have run the task at once.
NoAssertFails ==
  /\ bad \in {"xprt", "event", "noxprt"} => dropped
  /\ bad = "noos" => twice

\* prdcr_connect_cb() acts on prdcr->xprt and not on the transport that has the
\* event: so a connection with something still to tell must be prdcr->xprt.  Only a
\* connect that fails half-way breaks it.
NoXprtForgotten == ~dropped => \A i \in Slots : Outstanding(conn[i]) => prdcr.xprt = i

\* The sets in prdcr->set_tree are those of the present connection, again unless a
\* connect has failed half-way.
SetsOfXprt == ~dropped /\ prdcr.sets # NoXprt => prdcr.sets = prdcr.xprt

\* The task is never left STARTED without a timer, where nothing would run it, and
\* ldmsd_task_start() (EBUSY), ldmsd_task_stop() (which dereferences task->os)
\* and ldmsd_task_join() (which waits) could not repair it, unless two scheduler
\* threads have been in task_cb_fn() at once; with one thread they never are.
ScheduledHasTimer == task.state = "STARTED" /\ ~twice => task.os # NoThread

\* A producer that prdcr_stop has stopped opens no new connection until it is
\* started again.
StopIsFinal ==
  [][prdcr'.conn_state = "CONNECTING" /\ prdcr.conn_state # "CONNECTING" => prdcr.dstart]_vars

\* DISCONNECTED is "ready for connect attempts" (enum ldmsd_prdcr_state): the
\* task runs prdcr_task_cb() again, or the producer leaves the state.
DisconnectedIsRetried ==
  prdcr.conn_state = "DISCONNECTED" ~>
    prdcr.conn_state # "DISCONNECTED" \/ (\E t \in Threads : thr[t].pc = "fn") \/ ~Alive

\* STOPPING is left: __ldmsd_prdcr_stop() does not hold prdcr->lock while it
\* joins the task, whose function needs that lock, and the closed transport
\* reports its end.  Only a task left STARTED without a timer keeps it waiting.
StoppingEnds ==
  prdcr.conn_state = "STOPPING" ~> prdcr.conn_state # "STOPPING" \/ StopFaults \/ ~Alive
=============================================================================
