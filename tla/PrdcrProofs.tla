---------------------------- MODULE PrdcrProofs -----------------------------
(***************************************************************************)
(* For any numbers of scheduler threads, configuration threads and         *)
(* transports: the producer never loses track of a connection that still   *)
(* has an event to come, unless a connect has failed half-way, and its     *)
(* task never loses its timer, unless two threads have run it at once.     *)
(***************************************************************************)
EXTENDS Prdcr, TLAPS

\* Every rail that exists is prdcr->xprt; a terminal event is a rail's last;
\* and the states in which a connect can be made have no transport.
OneXprt ==
  /\ \A i \in Slots : conn[i] # NewConn => prdcr.xprt = i
  /\ \A i \in Slots : conn[i].due = "TERMINAL" => conn[i].st = "over"
  /\ prdcr.conn_state \in {"STOPPED", "DISCONNECTED"} => prdcr.xprt = NoXprt

Running == {t \in Threads : thr[t].pc \in {"fn", "end"}}

\* At most one thread runs the task, which is RUNNING exactly then; the task has a
\* timer when it is STARTED, and when the thread that runs it means to leave it so.
OneRunner ==
  /\ \A t, u \in Running : t = u
  /\ task.state = "RUNNING" <=> Running # {}
  /\ task.state = "STARTED" => task.os # NoThread
  /\ \A t \in Running : thr[t].next = "STARTED" => task.os # NoThread

IInv ==
  /\ TypeOK /\ NoAssertFails /\ SetsOfXprt
  /\ ~dropped => OneXprt
  /\ ~twice => OneRunner
-----------------------------------------------------------------------------
\* The operators on a task keep its type.
LEMMA TaskTypes ==
  ASSUME NEW k \in Task, NEW t \in Threads, NEW n \in {"STARTED", "STOPPED"}
  PROVE  /\ TaskStart(k, t) \in Task
         /\ TaskBegin(k) \in Task
         /\ TaskBeginNext(k) \in {"STARTED", "STOPPED"}
         /\ TaskEnd(k, n) \in Task
<1>1. TaskStart(k, t) \in Task
  BY DEF Task, TaskStart
<1>3. TaskBegin(k) \in Task
  BY DEF Task, TaskBegin
<1>4. TaskBeginNext(k) \in {"STARTED", "STOPPED"}
  BY DEF TaskBeginNext
<1>5. TaskEnd(k, n) \in Task
  BY DEF Task, TaskEnd
<1> QED
  BY <1>1, <1>3, <1>4, <1>5

\* ldmsd_task_stop() keeps the type of a task.
LEMMA TaskStopType ==
  ASSUME NEW k \in Task
  PROVE  TaskStop(k) \in Task
<1>1. CASE k.state = "STOPPED"
  BY <1>1 DEF Task, TaskStop
<1>2. CASE k.state = "STARTED"
  BY <1>2 DEF Task, TaskStop
<1>3. CASE k.state = "RUNNING"
  BY <1>3 DEF Task, TaskStop
<1> QED
  BY <1>1, <1>2, <1>3 DEF Task

\* The operators on a connection keep its type.
LEMMA ConnTypes ==
  ASSUME NEW c \in Conn
  PROVE  /\ NewConn \in Conn
         /\ Post(c) \in Conn /\ PostFails(c, TRUE) \in Conn
         /\ Doom(c) \in Conn
         /\ ComeUp(c) \in Conn
         /\ End(c) \in Conn
         /\ Delivered(c) \in Conn
         /\ Freed(c) \in Conn
<1>1. NewConn \in Conn
  BY DEF Conn, NewConn
<1>2. Post(c) \in Conn /\ PostFails(c, TRUE) \in Conn
  BY DEF Conn, Post, PostFails
<1>3. Doom(c) \in Conn
  BY DEF Conn, Doom
<1>4. ComeUp(c) \in Conn
  BY DEF Conn, ComeUp
<1>5. End(c) \in Conn
  BY DEF Conn, End
<1>6. Delivered(c) \in Conn
  BY DEF Conn, Delivered
<1>7. Freed(c) \in Conn
  BY <1>1, <1>6 DEF Freed
<1> QED
  BY <1>1, <1>2, <1>3, <1>4, <1>5, <1>6, <1>7

\* What the operators on a connection say of the fields that OneXprt reads.
LEMMA ConnFields ==
  ASSUME NEW c \in Conn
  PROVE  /\ NewConn.st = "idle" /\ NewConn.due = "none"
         /\ Post(NewConn).due = "none" /\ Post(NewConn).st = "posted"
         /\ PostFails(NewConn, TRUE).st = "stray"
         /\ Doom(c).st = c.st /\ Doom(c).due = c.due
         /\ ComeUp(c).due = "CONNECTED"
         /\ End(c).st = "over" /\ End(c).due = "TERMINAL"
         /\ Delivered(c).st = c.st /\ Delivered(c).due = "none"
         /\ c.st = "over" => Freed(c) = NewConn
  BY DEF Conn, NewConn, Post, PostFails, Doom, ComeUp, End, Delivered, Freed, Outstanding

\* A signal moves a waiting configuration thread and keeps the type.
LEMMA SignalType ==
  ASSUME adm \in [Admins -> {"idle", "join", "wait", "joined"}], NEW yes, Signal(yes)
  PROVE  adm' \in [Admins -> {"idle", "join", "wait", "joined"}]
  BY DEF Signal
-----------------------------------------------------------------------------
\* The parts of TypeOK.
PrdcrT == [type : {"agg", "sampler"}, conn_state : ConnState, xprt : Slots \cup {NoXprt},
           sets : Slots \cup {NoXprt}, dstart : BOOLEAN]
AdmT == [Admins -> {"idle", "join", "wait", "joined"}]
BadT == {"none", "xprt", "event", "noxprt", "noos"}

\* They are TypeOK.
LEMMA TypeParts ==
  TypeOK <=> /\ prdcr \in PrdcrT /\ task \in Task /\ thr \in [Threads -> TaskThread]
             /\ conn \in [Slots -> Conn] /\ adm \in AdmT /\ bad \in BadT
             /\ dropped \in BOOLEAN /\ twice \in BOOLEAN
BY DEF TypeOK, PrdcrT, AdmT, BadT

\* The step of a thread that runs the task.
LEMMA SchedulerTypes ==
  ASSUME TypeOK, NEW t \in Threads, Scheduler(t)
  PROVE  TypeOK'
<1>p. /\ prdcr \in PrdcrT /\ task \in Task /\ thr \in [Threads -> TaskThread]
      /\ conn \in [Slots -> Conn] /\ adm \in AdmT /\ bad \in BadT
      /\ dropped \in BOOLEAN /\ twice \in BOOLEAN
  BY TypeParts
<1>1. CASE Fire(t)
  <2>1. thr' \in [Threads -> TaskThread]
    BY <1>1, <1>p DEF Fire, TaskThread
  <2> QED BY <1>1, <2>1 DEF Fire, TypeOK, history
<1>2. CASE CbBegin(t)
  <2>1. task' \in Task /\ thr' \in [Threads -> TaskThread]
    BY <1>2, <1>p, TaskTypes DEF CbBegin, TaskThread
  <2>2. twice' \in BOOLEAN
    BY <1>2, Zenon DEF CbBegin
  <2> QED BY <1>2, <2>1, <2>2 DEF CbBegin, TypeOK
<1>3. CASE CbEnd(t)
  <2>1. thr[t].next \in {"STARTED", "STOPPED"}
    BY <1>p DEF TaskThread
  <2>2. task' \in Task
    BY <1>3, <1>p, <2>1, TaskTypes DEF CbEnd
  <2>3. thr' \in [Threads -> TaskThread]
    BY <1>3, <1>p DEF CbEnd, TaskThread, IdleThread
  <2>4. adm' \in AdmT
    BY <1>3, <1>p, SignalType DEF CbEnd, AdmT
  <2> QED BY <1>3, <2>2, <2>3, <2>4 DEF CbEnd, TypeOK, AdmT, history
<1>4. CASE TaskFn(t)
  <2>1. thr' \in [Threads -> TaskThread] /\ twice' = twice
    BY <1>4, <1>p DEF TaskFn, TaskThread
  <2>2. CASE prdcr.conn_state \in {"STOPPED", "STOPPING", "CONNECTED"}
    <3>1. StopTask /\ Fails(StopFaults, "noos") /\ UNCHANGED <<prdcr, conn, dropped>>
      BY <1>4, <2>2 DEF TaskFn
    <3>2. adm' \in AdmT /\ task' \in Task
      BY <3>1, <1>p, SignalType, TaskStopType DEF StopTask, AdmT
    <3>3. bad' \in BadT
      BY <3>1, <1>p DEF Fails, BadT
    <3> QED BY <1>p, <2>1, <3>1, <3>2, <3>3, TypeParts DEF TypeOK, AdmT, BadT
  <2>3. CASE prdcr.conn_state = "DISCONNECTED"
    <3>1. Connect /\ UNCHANGED <<task, adm>>
      BY <1>4, <2>3 DEF TaskFn
    <3>2. CASE UNCHANGED <<prdcr, conn, bad, dropped>>
      BY <2>1, <3>1, <3>2 DEF TypeOK
    <3>3. CASE ~UNCHANGED <<prdcr, conn, bad, dropped>>
      <4>1. PICK i \in Slots, c \in {Post(NewConn), PostFails(NewConn, TRUE)} :
              /\ conn' = [conn EXCEPT ![i] = c]
              /\ dropped' = (dropped \/ c.st = "stray")
              /\ prdcr' = IF c.st = "stray" THEN prdcr
                          ELSE [prdcr EXCEPT !.conn_state = "CONNECTING", !.xprt = i]
              /\ Fails(prdcr.xprt # NoXprt, "xprt")
        BY <3>1, <3>3, Zenon DEF Connect
      <4>2. c \in Conn
        <5>1. NewConn \in Conn
          BY DEF Conn, NewConn
        <5> QED BY <4>1, <5>1, ConnTypes
      <4>3. conn' \in [Slots -> Conn] /\ prdcr' \in PrdcrT
        BY <1>p, <4>1, <4>2 DEF PrdcrT, ConnState
      <4>4. bad' \in BadT
        BY <1>p, <4>1 DEF Fails, BadT
      <4>5. dropped' \in BOOLEAN
        BY <4>1, Zenon
      <4> QED BY <1>p, <2>1, <3>1, <4>3, <4>4, <4>5 DEF TypeOK, PrdcrT, BadT
    <3> QED BY <3>2, <3>3
  <2>4. CASE prdcr.conn_state = "CONNECTING"
    BY <1>4, <2>1, <2>4 DEF TaskFn, TypeOK
  <2> QED BY <1>p, <2>2, <2>3, <2>4 DEF ConnState, PrdcrT
<1> QED BY <1>1, <1>2, <1>3, <1>4 DEF Scheduler

\* The step of a transport thread.
LEMMA TransportTypes ==
  ASSUME TypeOK, NEW i \in Slots,
         RailFails(i) \/ RailComesUp(i) \/ RailEnds(i) \/ Dir(i) \/ Deliver(i)
  PROVE  TypeOK'
<1>p. /\ prdcr \in PrdcrT /\ task \in Task /\ thr \in [Threads -> TaskThread]
      /\ conn \in [Slots -> Conn] /\ adm \in AdmT /\ bad \in BadT
      /\ dropped \in BOOLEAN /\ twice \in BOOLEAN
  BY TypeParts
<1>1. CASE RailFails(i) \/ RailComesUp(i) \/ RailEnds(i)
  <2>1. conn' \in [Slots -> Conn]
    BY <1>1, <1>p, ConnTypes DEF RailFails, RailComesUp, RailEnds
  <2> QED BY <1>1, <2>1 DEF RailFails, RailComesUp, RailEnds, TypeOK, history
<1>2. CASE Dir(i)
  <2>1. prdcr' \in PrdcrT
    BY <1>2, <1>p DEF Dir, PrdcrT
  <2> QED BY <1>2, <2>1 DEF Dir, TypeOK, PrdcrT, history
<1>3. CASE SamplerConnected(i)
  <2>1. prdcr' \in PrdcrT /\ conn' \in [Slots -> Conn]
    BY <1>3, <1>p, ConnTypes DEF SamplerConnected, PrdcrT, ConnState
  <2> QED BY <1>3, <2>1 DEF SamplerConnected, TypeOK, PrdcrT, history
<1>4. CASE AggConnected(i)
  <2>1. thr' = thr /\ dropped' = dropped /\ twice' = twice
    BY <1>4 DEF AggConnected, history
  <2>2. CASE conn' = [conn EXCEPT ![i] = Delivered(@)] /\ UNCHANGED <<prdcr, task, adm, bad>>
    <3>1. conn' \in [Slots -> Conn]
      BY <2>2, <1>p, ConnTypes
    <3> QED BY <2>1, <2>2, <3>1 DEF TypeOK
  <2>3. CASE ~(conn' = [conn EXCEPT ![i] = Delivered(@)] /\ UNCHANGED <<prdcr, task, adm, bad>>)
    <3>1. /\ bad' = IF prdcr.xprt = NoXprt THEN "noxprt" ELSE IF StopFaults THEN "noos" ELSE bad
          /\ prdcr' = [prdcr EXCEPT !.conn_state = "CONNECTED"]
          /\ \E dirfails \in BOOLEAN :
               conn' = [j \in Slots |->
                          LET c == IF j = i THEN Delivered(conn[j]) ELSE conn[j]
                          IN  IF dirfails /\ j = prdcr.xprt THEN Doom(c) ELSE c]
          /\ StopTask
      BY <1>4, <2>3, Zenon DEF AggConnected
    <3>2. adm' \in AdmT /\ task' \in Task
      BY <3>1, <1>p, SignalType, TaskStopType DEF StopTask, AdmT
    <3>3. bad' \in BadT /\ prdcr' \in PrdcrT
      BY <3>1, <1>p DEF BadT, PrdcrT, ConnState
    <3>4. conn' \in [Slots -> Conn]
      <4>1. PICK dirfails \in BOOLEAN :
               conn' = [j \in Slots |->
                          LET c == IF j = i THEN Delivered(conn[j]) ELSE conn[j]
                          IN  IF dirfails /\ j = prdcr.xprt THEN Doom(c) ELSE c]
        BY <3>1
      <4>2. \A j \in Slots : conn[j] \in Conn /\ Delivered(conn[j]) \in Conn
        BY <1>p, ConnTypes
      <4>3. \A j \in Slots : Doom(conn[j]) \in Conn /\ Doom(Delivered(conn[j])) \in Conn
        BY <4>2, ConnTypes
      <4> QED BY <4>1, <4>2, <4>3
    <3> QED BY <1>p, <2>1, <3>2, <3>3, <3>4, TypeParts DEF TypeOK, PrdcrT, BadT, AdmT
  <2> QED BY <2>2, <2>3
<1>5. CASE Reset(i)
  <2>1. task' \in Task
    BY <1>5, <1>p, TaskTypes DEF Reset, StartTask
  <2>2. bad' \in BadT
    BY <1>5, <1>p DEF Reset, Fails, BadT
  <2>3. prdcr' \in PrdcrT
    BY <1>5, <1>p DEF Reset, PrdcrT, ConnState
  <2>4. conn' \in [Slots -> Conn]
    BY <1>5, <1>p, ConnTypes DEF Reset
  <2> QED BY <1>5, <2>1, <2>2, <2>3, <2>4 DEF Reset, TypeOK, PrdcrT, BadT, history
<1> QED BY <1>1, <1>2, <1>3, <1>4, <1>5 DEF Deliver

\* The step of a configuration thread.
LEMMA AdminTypes ==
  ASSUME TypeOK, NEW a \in Admins, Start(a) \/ Stop(a) \/ Join(a) \/ StopEnd(a)
  PROVE  TypeOK'
<1>p. /\ prdcr \in PrdcrT /\ task \in Task /\ thr \in [Threads -> TaskThread]
      /\ conn \in [Slots -> Conn] /\ adm \in AdmT /\ bad \in BadT
      /\ dropped \in BOOLEAN /\ twice \in BOOLEAN
  BY TypeParts
<1>1. CASE Start(a)
  <2> DEFINE yes == TRUE
             d == "DISCONNECTED"
  <2>1. prdcr' = [prdcr EXCEPT !.conn_state = d, !.dstart = yes]
    BY <1>1 DEF Start
  <2>2. d \in ConnState /\ yes \in BOOLEAN
    BY DEF ConnState
  <2> HIDE DEF yes, d
  <2>3. prdcr' \in PrdcrT
    BY <2>1, <2>2, <1>p, Zenon DEF PrdcrT
  <2>4. task' \in Task
    BY <1>1, <1>p, TaskTypes DEF Start, StartTask
  <2> QED BY <1>1, <2>3, <2>4 DEF Start, TypeOK, PrdcrT, history
<1>2. CASE Stop(a)
  <2> DEFINE no == FALSE
             d == "STOPPING"
  <2>1. prdcr' = [prdcr EXCEPT !.conn_state = d, !.dstart = no]
    BY <1>2 DEF Stop
  <2>2. d \in ConnState /\ no \in BOOLEAN
    BY DEF ConnState
  <2> HIDE DEF no, d
  <2>3. prdcr' \in PrdcrT
    BY <2>1, <2>2, <1>p, Zenon DEF PrdcrT
  <2>4. task' \in Task /\ bad' \in BadT
    BY <1>2, <1>p, TaskStopType DEF Stop, Fails, BadT
  <2>5. adm' \in AdmT
    BY <1>2, <1>p DEF Stop, AdmT
  <2>6. conn' \in [Slots -> Conn]
    BY <1>2, <1>p, ConnTypes DEF Stop
  <2> QED BY <1>2, <2>3, <2>4, <2>5, <2>6 DEF Stop, TypeOK, PrdcrT, BadT, AdmT, history
<1>3. CASE Join(a)
  <2>1. adm' \in AdmT
    BY <1>3, <1>p DEF Join, AdmT
  <2> QED BY <1>3, <2>1 DEF Join, TypeOK, AdmT, history
<1>4. CASE StopEnd(a)
  <2>1. adm' \in AdmT /\ prdcr' \in PrdcrT
    BY <1>4, <1>p DEF StopEnd, AdmT, PrdcrT, ConnState
  <2> QED BY <1>4, <2>1 DEF StopEnd, TypeOK, AdmT, PrdcrT, history
<1> QED BY <1>1, <1>2, <1>3, <1>4
-----------------------------------------------------------------------------
\* A connect that fails half-way is remembered, and so are two runners.
LEMMA HistoryGrows ==
  ASSUME TypeOK, Next
  PROVE  (dropped => dropped') /\ (twice => twice')
<1>1. ASSUME NEW t \in Threads, Scheduler(t) PROVE (dropped => dropped') /\ (twice => twice')
  <2>1. CASE Fire(t) \/ CbEnd(t)
    BY <2>1 DEF Fire, CbEnd, history
  <2>2. CASE CbBegin(t)
    BY <2>2, Zenon DEF CbBegin
  <2>3. CASE TaskFn(t)
    <3>1. twice' = twice
      BY <2>3, Zenon DEF TaskFn
    <3>2. dropped => dropped'
      <4>1. CASE prdcr.conn_state = "DISCONNECTED"
        <5>1. Connect
          BY <2>3, <4>1 DEF TaskFn
        <5> QED BY <5>1, Zenon DEF Connect
      <4>2. CASE prdcr.conn_state # "DISCONNECTED"
        <5>1. dropped' = dropped
          BY <2>3, <4>2 DEF TaskFn, TypeOK
        <5> QED BY <5>1
      <4> QED BY <4>1, <4>2
    <3> QED BY <3>1, <3>2
  <2> QED BY <1>1, <2>1, <2>2, <2>3 DEF Scheduler
<1>2. ASSUME NEW i \in Slots,
             RailFails(i) \/ RailComesUp(i) \/ RailEnds(i) \/ Dir(i) \/ Deliver(i)
      PROVE  dropped' = dropped /\ twice' = twice
  BY <1>2 DEF RailFails, RailComesUp, RailEnds, Dir, Deliver, AggConnected, SamplerConnected,
              Reset, history
<1>3. ASSUME NEW a \in Admins, Start(a) \/ Stop(a) \/ Join(a) \/ StopEnd(a)
      PROVE  dropped' = dropped /\ twice' = twice
  BY <1>3 DEF Start, Stop, Join, StopEnd, history
<1> QED BY <1>1, <1>2, <1>3 DEF Next

\* What SetsOfXprt says while no connect has failed half-way.
OwnSets == prdcr.sets # NoXprt => prdcr.sets = prdcr.xprt

\* A step that does not fail a connect half-way keeps the connections together.
LEMMA XprtStep ==
  ASSUME TypeOK, OneXprt, OwnSets, ~dropped', Next
  PROVE  OneXprt' /\ OwnSets'
<1> DEFINE Goal == OneXprt' /\ OwnSets'
<1>p. prdcr \in PrdcrT /\ conn \in [Slots -> Conn]
  BY TypeParts
<1>u. ASSUME UNCHANGED <<prdcr, conn>>
      PROVE  Goal
  BY <1>u DEF OneXprt, OwnSets
\* A step of connection i alone, after which its end is known to be its last.
<1>c. ASSUME NEW i \in Slots, NEW d \in Conn, conn[i] # NewConn,
             d.due = "TERMINAL" => d.st = "over",
             conn' = [conn EXCEPT ![i] = d],
             prdcr'.xprt = prdcr.xprt, prdcr'.sets = prdcr.sets,
             prdcr'.conn_state \in {"STOPPED", "DISCONNECTED"} => prdcr.xprt = NoXprt
      PROVE  Goal
  BY <1>c, <1>p DEF OneXprt, OwnSets
<1>1. ASSUME NEW t \in Threads, TaskFn(t)
      PROVE  Goal
  <2>1. CASE UNCHANGED <<prdcr, conn>>
    BY <2>1, <1>u
  <2>2. CASE prdcr.conn_state = "DISCONNECTED" /\ ~UNCHANGED <<prdcr, conn>>
    <3>1. prdcr.xprt = NoXprt /\ prdcr.sets = NoXprt /\ \A j \in Slots : conn[j] = NewConn
      BY <2>2, <1>p, PrdcrAssumption DEF OneXprt, OwnSets
    <3>2. PICK i \in Slots :
            /\ conn' = [conn EXCEPT ![i] = Post(NewConn)]
            /\ prdcr' = [prdcr EXCEPT !.conn_state = "CONNECTING", !.xprt = i]
      <4>1. Connect
        BY <1>1, <2>2 DEF TaskFn
      <4>2. PICK i \in Slots, c \in {Post(NewConn), PostFails(NewConn, TRUE)} :
              /\ conn' = [conn EXCEPT ![i] = c]
              /\ dropped' = (dropped \/ c.st = "stray")
              /\ prdcr' = IF c.st = "stray" THEN prdcr
                          ELSE [prdcr EXCEPT !.conn_state = "CONNECTING", !.xprt = i]
        BY <2>2, <4>1, Zenon DEF Connect
      <4>3. c.st # "stray"
        BY <4>2, Zenon
      <4>4. c = Post(NewConn)
        BY <4>2, <4>3 DEF PostFails, NewConn
      <4> QED BY <4>2, <4>3, <4>4
    <3>3. Post(NewConn) \in Conn /\ Post(NewConn).due = "none" /\ NewConn.due = "none"
      BY DEF Post, NewConn, Conn
    <3>4. \A j \in Slots : conn'[j] = IF j = i THEN Post(NewConn) ELSE NewConn
      BY <3>1, <3>2, <1>p
    <3>5. prdcr'.xprt = i /\ prdcr'.sets = NoXprt /\ prdcr'.conn_state = "CONNECTING"
      BY <3>1, <3>2, <1>p DEF PrdcrT
    <3> QED
      BY <3>3, <3>4, <3>5 DEF OneXprt, OwnSets
  <2> QED
    BY <1>1, <2>1, <2>2 DEF TaskFn
<1>2. ASSUME NEW i \in Slots, RailFails(i) \/ RailComesUp(i) \/ RailEnds(i)
      PROVE  Goal
  <2>1. conn[i].st \in {"posted", "stray", "up"} /\ conn[i] \in Conn
    BY <1>2, <1>p DEF RailFails, RailComesUp, RailEnds, CanComeUp, CanEnd
  <2>2. conn[i] # NewConn
    BY <2>1 DEF NewConn
  <2>3. PICK d \in {Doom(conn[i]), ComeUp(conn[i]), End(conn[i])} :
           conn' = [conn EXCEPT ![i] = d]
    BY <1>2 DEF RailFails, RailComesUp, RailEnds
  <2>4. d \in Conn
    BY <2>1, <2>3, ConnTypes
  <2>5. d.due = "TERMINAL" => d.st = "over"
    <3>1. conn[i].due # "TERMINAL"
      BY <2>1 DEF OneXprt
    <3> QED BY <2>1, <2>3, <3>1, ConnFields
  <2>6. prdcr' = prdcr
    BY <1>2 DEF RailFails, RailComesUp, RailEnds
  <2> HIDE DEF Goal
  <2> QED
    BY <2>2, <2>3, <2>4, <2>5, <2>6, <1>c, <1>p DEF OneXprt
<1>3. ASSUME NEW i \in Slots, Dir(i)
      PROVE  Goal
  <2>1. conn[i] # NewConn
    BY <1>3 DEF Dir, NewConn
  <2>2. prdcr.xprt = i
    BY <2>1 DEF OneXprt
  <2> QED
    BY <1>3, <2>2, <1>p DEF Dir, OneXprt, OwnSets, PrdcrT
<1>4. ASSUME NEW i \in Slots, AggConnected(i) \/ SamplerConnected(i)
      PROVE  Goal
  <2>1. conn[i] # NewConn /\ conn[i] \in Conn /\ prdcr.xprt = i
    BY <1>4, <1>p DEF AggConnected, SamplerConnected, NewConn, OneXprt
  <2>2. PICK d \in {Delivered(conn[i]), Doom(Delivered(conn[i]))} :
           conn' = [conn EXCEPT ![i] = d]
    <3>1. CASE conn' = [conn EXCEPT ![i] = Delivered(@)]
      BY <3>1
    <3>2. ASSUME NEW dirfails \in BOOLEAN,
                 conn' = [j \in Slots |->
                            LET c == IF j = i THEN Delivered(conn[j]) ELSE conn[j]
                            IN  IF dirfails /\ j = prdcr.xprt THEN Doom(c) ELSE c]
          PROVE  conn' = [conn EXCEPT ![i] = IF dirfails THEN Doom(Delivered(conn[i]))
                                             ELSE Delivered(conn[i])]
      BY <3>2, <2>1, <1>p
    <3> QED
      BY <1>4, <3>1, <3>2 DEF AggConnected, SamplerConnected
  <2>3. Delivered(conn[i]) \in Conn
    BY <2>1, ConnTypes
  <2>4. d \in Conn /\ d.due = "none"
    <3>1. Delivered(conn[i]).due = "none"
      BY <2>1, ConnFields
    <3>2. /\ Doom(Delivered(conn[i])) \in Conn
          /\ Doom(Delivered(conn[i])).due = "none"
      BY <2>3, <3>1, ConnTypes, ConnFields
    <3> QED
      BY <2>2, <2>3, <3>1, <3>2
  <2>5. /\ prdcr'.xprt = prdcr.xprt
        /\ prdcr'.sets = prdcr.sets
        /\ prdcr'.conn_state \in {prdcr.conn_state, "CONNECTED"}
    BY <1>4, <1>p DEF AggConnected, SamplerConnected, PrdcrT
  <2> HIDE DEF Goal
  <2> QED
    BY <2>1, <2>2, <2>4, <2>5, <1>c DEF OneXprt
<1>5. ASSUME NEW i \in Slots, Reset(i)
      PROVE  Goal
  <2>1. conn[i] # NewConn /\ conn[i] \in Conn /\ conn[i].st = "over" /\ prdcr.xprt = i
    BY <1>5, <1>p DEF Reset, NewConn, OneXprt
  <2>2. \A j \in Slots : conn'[j] = NewConn
    <3>1. Freed(conn[i]) = NewConn
      BY <2>1, ConnFields
    <3> QED
      BY <1>5, <2>1, <3>1, <1>p DEF Reset, OneXprt
  <2>3. prdcr'.xprt = NoXprt /\ prdcr'.sets = NoXprt
    BY <1>5, <1>p DEF Reset, PrdcrT
  <2> QED
    BY <2>2, <2>3 DEF OneXprt, OwnSets, NewConn
<1>6. ASSUME NEW a \in Admins, Start(a) \/ StopEnd(a)
      PROVE  Goal
  <2>1. conn' = conn
    BY <1>6 DEF Start, StopEnd
  <2>2. /\ prdcr'.xprt = prdcr.xprt
        /\ prdcr'.sets = prdcr.sets
    BY <1>6, <1>p DEF Start, StopEnd, PrdcrT
  <2>3. prdcr'.conn_state \in {"STOPPED", "DISCONNECTED"} => prdcr.xprt = NoXprt
    BY <1>6, <1>p DEF Start, StopEnd, PrdcrT, ConnState, OneXprt
  <2> QED
    BY <2>1, <2>2, <2>3 DEF OneXprt, OwnSets
<1>7. ASSUME NEW a \in Admins, Stop(a)
      PROVE  Goal
  <2>1. /\ prdcr'.xprt = prdcr.xprt
        /\ prdcr'.sets = prdcr.sets
        /\ prdcr'.conn_state = "STOPPING"
    BY <1>7, <1>p DEF Stop, PrdcrT
  <2>2. conn' = [j \in Slots |-> IF j = prdcr.xprt THEN Doom(conn[j]) ELSE conn[j]]
    BY <1>7 DEF Stop
  <2>3. \A j \in Slots : /\ conn'[j].st = conn[j].st
                         /\ conn'[j].due = conn[j].due
                         /\ j # prdcr.xprt => conn'[j] = conn[j]
    BY <2>2, <1>p, ConnFields
  <2> QED
    BY <2>1, <2>2, <2>3 DEF OneXprt, OwnSets
<1>8. ASSUME NEW t \in Threads, Fire(t) \/ CbBegin(t) \/ CbEnd(t)
      PROVE  Goal
  BY <1>8, <1>u DEF Fire, CbBegin, CbEnd
<1>9. ASSUME NEW a \in Admins, Join(a)
      PROVE  Goal
  BY <1>9, <1>u DEF Join
<1>10. Goal
  <2> HIDE DEF Goal
  <2> QED
    BY <1>1, <1>2, <1>3, <1>4, <1>5, <1>6, <1>7, <1>8, <1>9 DEF Next, Scheduler, Deliver
<1> QED BY <1>10
-----------------------------------------------------------------------------
\* What ldmsd_task_stop() and ldmsd_task_start() do to the fields OneRunner reads.
LEMMA TaskFields ==
  ASSUME NEW k \in Task, NEW t \in Threads
  PROVE  /\ k.state = "RUNNING" => /\ TaskStop(k).state = "RUNNING"
                                   /\ TaskStop(k).os = k.os
                                   /\ TaskStart(k, t) = k
         /\ k.state # "RUNNING" => TaskStop(k).state = "STOPPED"
         /\ k.state = "STARTED" => TaskStart(k, t) = k
         /\ k.state = "STOPPED" => /\ TaskStart(k, t).state = "STARTED"
                                   /\ TaskStart(k, t).os # NoThread
<1>1. TaskStart(k, t) = IF k.state # "STOPPED" THEN k
                        ELSE [state |-> "STARTED", stop |-> FALSE, os |-> t]
  BY Zenon DEF TaskStart
<1>2. CASE k.state = "STOPPED"
  BY <1>1, <1>2, NoThreadAssumption DEF TaskStop
<1>3. CASE k.state = "STARTED"
  BY <1>1, <1>3 DEF TaskStop, Task
<1>4. CASE k.state = "RUNNING"
  <2>1. TaskStop(k) = [k EXCEPT !.stop = TRUE]
    BY <1>4 DEF TaskStop
  <2> QED BY <1>1, <1>4, <2>1 DEF Task
<1> QED BY <1>2, <1>3, <1>4 DEF Task

\* While the threads stay where they are in task_cb_fn(), a start or a stop of the
\* task leaves it to the one that runs it.
LEMMA TaskKept ==
  ASSUME TypeOK, OneRunner, Running' = Running,
         \A t \in Running : thr'[t].next = thr[t].next,
         \/ task' = task
         \/ task' = TaskStop(task)
         \/ StartTask
  PROVE  OneRunner'
<1>p. task \in Task
  BY TypeParts
<1>1. CASE task' = task
  BY <1>1 DEF OneRunner
<1>2. CASE task' = TaskStop(task)
  <2>1. Threads # {} => \/ task.state = "RUNNING" /\ task'.state = "RUNNING" /\ task'.os = task.os
                        \/ task.state # "RUNNING" /\ task'.state = "STOPPED"
    BY <1>2, <1>p, TaskFields
  <2>2. CASE Threads # {}
    BY <2>1, <2>2 DEF OneRunner
  <2>3. CASE Threads = {}
    <3>1. Running = {}
      BY <2>3 DEF Running
    <3>2. task.state = "STOPPED" \/ task.state = "STARTED"
      BY <1>p, <3>1 DEF OneRunner, Task
    <3>3. task'.state = "STOPPED"
      BY <1>2, <1>p, <3>2 DEF TaskStop, Task
    <3> QED BY <3>1, <3>3 DEF OneRunner
  <2> QED BY <2>2, <2>3
<1>3. CASE StartTask
  <2>1. PICK t \in Threads : task' = TaskStart(task, t)
    BY <1>3 DEF StartTask
  <2>2. \/ task' = task
        \/ task.state = "STOPPED" /\ task'.state = "STARTED" /\ task'.os # NoThread
    BY <2>1, <1>p, TaskFields DEF Task
  <2>3. CASE task.state = "STOPPED" /\ task'.state = "STARTED" /\ task'.os # NoThread
    <3>1. Running = {}
      BY <2>3 DEF OneRunner
    <3> QED BY <2>3, <3>1 DEF OneRunner
  <2> QED BY <1>1, <2>2, <2>3
<1> QED BY <1>1, <1>2, <1>3

\* A step that does not put a second thread into task_cb_fn() keeps the task whole.
LEMMA RunnerStep ==
  ASSUME TypeOK, OneRunner, ~twice', Next
  PROVE  OneRunner'
<1>p. task \in Task /\ thr \in [Threads -> TaskThread]
  BY TypeParts
<1>u. ASSUME thr' = thr, task' = task \/ task' = TaskStop(task) \/ StartTask
      PROVE  OneRunner'
  BY <1>u, TaskKept DEF Running
<1>1. ASSUME NEW t \in Threads, Fire(t)
      PROVE  OneRunner'
  <2>1. Running' = Running /\ \A u \in Running : thr'[u].next = thr[u].next
    BY <1>1, <1>p DEF Fire, Running, TaskThread
  <2> QED BY <1>1, <2>1, TaskKept DEF Fire
<1>2. ASSUME NEW t \in Threads, CbBegin(t)
      PROVE  OneRunner'
  <2>1. \A u \in Threads \ {t} : thr[u].pc \notin {"fn", "end"}
    BY <1>2, Zenon DEF CbBegin
  <2>2. /\ task' = TaskBegin(task)
        /\ thr' = [thr EXCEPT ![t] = [pc |-> "fn", next |-> TaskBeginNext(task)]]
    BY <1>2 DEF CbBegin
  <2>3. Running' = {t} /\ thr'[t].next = TaskBeginNext(task)
    BY <2>1, <2>2, <1>p DEF Running
  <2>4. task'.state = "RUNNING" /\ task'.os = task.os
    BY <2>2, <1>p DEF TaskBegin, Task
  <2>5. TaskBeginNext(task) = "STARTED" => task.os # NoThread
    BY DEF TaskBeginNext
  <2> QED BY <2>3, <2>4, <2>5 DEF OneRunner
<1>3. ASSUME NEW t \in Threads, CbEnd(t)
      PROVE  OneRunner'
  <2>1. Running = {t}
    BY <1>3 DEF CbEnd, Running, OneRunner
  <2>2. Running' = {}
    BY <1>3, <2>1, <1>p DEF CbEnd, Running, IdleThread
  <2>3. task' = TaskEnd(task, thr[t].next) /\ thr[t].next \in {"STARTED", "STOPPED"}
    BY <1>3, <1>p DEF CbEnd, TaskThread
  <2>4. thr[t].next = "STARTED" => task.os # NoThread
    BY <2>1 DEF OneRunner
  <2>5. task'.state # "RUNNING" /\ (task'.state = "STARTED" => task'.os # NoThread)
    <3>1. CASE task.stop
      BY <3>1, <2>3 DEF TaskEnd
    <3>2. CASE ~task.stop
      BY <3>2, <2>3, <2>4 DEF TaskEnd
    <3> QED BY <3>1, <3>2
  <2> QED BY <2>2, <2>5 DEF OneRunner
<1>4. ASSUME NEW t \in Threads, TaskFn(t)
      PROVE  OneRunner'
  <2>1. Running' = Running /\ \A u \in Running : thr'[u].next = thr[u].next
    BY <1>4, <1>p DEF TaskFn, Running, TaskThread
  <2>2. task' = task \/ task' = TaskStop(task)
    BY <1>4 DEF TaskFn, StopTask
  <2> QED BY <2>1, <2>2, TaskKept
<1>5. ASSUME NEW i \in Slots,
             RailFails(i) \/ RailComesUp(i) \/ RailEnds(i) \/ Dir(i) \/ Deliver(i)
      PROVE  thr' = thr /\ (task' = task \/ task' = TaskStop(task) \/ StartTask)
  <2>1. CASE RailFails(i) \/ RailComesUp(i) \/ RailEnds(i) \/ Dir(i)
    BY <2>1 DEF RailFails, RailComesUp, RailEnds, Dir
  <2>2. CASE AggConnected(i) \/ SamplerConnected(i)
    BY <2>2 DEF AggConnected, SamplerConnected, StopTask
  <2>3. CASE Reset(i)
    BY <2>3 DEF Reset
  <2> QED BY <1>5, <2>1, <2>2, <2>3 DEF Deliver
<1>6. ASSUME NEW a \in Admins, Start(a) \/ Stop(a) \/ Join(a) \/ StopEnd(a)
      PROVE  thr' = thr /\ (task' = task \/ task' = TaskStop(task) \/ StartTask)
  BY <1>6 DEF Start, Stop, Join, StopEnd
<1> QED BY <1>u, <1>1, <1>2, <1>3, <1>4, <1>5, <1>6, Zenon DEF Next, Scheduler
-----------------------------------------------------------------------------
\* A step fails an assert, or finds a NULL, only after a connect that failed
\* half-way or after two threads have run the task at once.
LEMMA AssertStep ==
  ASSUME IInv, Next
  PROVE  NoAssertFails'
<1>p. prdcr \in PrdcrT /\ conn \in [Slots -> Conn] /\ task \in Task
  BY TypeParts DEF IInv
<1>h. (dropped => dropped') /\ (twice => twice')
  BY HistoryGrows DEF IInv
<1>s. StopFaults => twice
  BY DEF IInv, OneRunner, StopFaults
<1>x. ASSUME NEW i \in Slots, conn[i].due # "none"
      PROVE  dropped \/ prdcr.xprt = i
  BY <1>x DEF IInv, OneXprt, NewConn
<1>1. ASSUME bad' \in {bad, "none"}
      PROVE  NoAssertFails'
  BY <1>1, <1>h DEF IInv, NoAssertFails
<1>2. ASSUME bad = "none", bad' = "noos" => twice, bad' \in {"xprt", "event", "noxprt"} => dropped
      PROVE  NoAssertFails'
  BY <1>2, <1>h DEF NoAssertFails
<1>3. ASSUME NEW t \in Threads, TaskFn(t)
      PROVE  NoAssertFails'
  <2>1. bad = "none"
    BY <1>3 DEF TaskFn, Alive
  <2>2. CASE prdcr.conn_state \in {"STOPPED", "STOPPING", "CONNECTED"}
    <3>1. bad' = IF StopFaults THEN "noos" ELSE bad
      BY <1>3, <2>2 DEF TaskFn, Fails
    <3> QED BY <2>1, <3>1, <1>s, <1>2
  <2>3. CASE prdcr.conn_state = "DISCONNECTED"
    <3>1. bad' = bad \/ bad' = IF prdcr.xprt # NoXprt THEN "xprt" ELSE bad
      BY <1>3, <2>3 DEF TaskFn, Connect, Fails
    <3>2. dropped \/ prdcr.xprt = NoXprt
      BY <2>3 DEF IInv, OneXprt
    <3> QED BY <2>1, <3>1, <3>2, <1>2
  <2>4. CASE prdcr.conn_state = "CONNECTING"
    BY <1>3, <2>4, <1>1 DEF TaskFn
  <2> QED BY <1>p, <2>2, <2>3, <2>4 DEF ConnState, PrdcrT
<1>4. ASSUME NEW i \in Slots, AggConnected(i)
      PROVE  NoAssertFails'
  <2>1. bad = "none" /\ conn[i].due # "none"
    BY <1>4 DEF AggConnected, Alive
  <2>2. prdcr.xprt = NoXprt => dropped
    BY <2>1, <1>x, PrdcrAssumption
  <2>3. \/ bad' = bad
        \/ bad' = IF prdcr.xprt = NoXprt THEN "noxprt" ELSE IF StopFaults THEN "noos" ELSE bad
    BY <1>4 DEF AggConnected
  <2> QED BY <2>1, <2>2, <2>3, <1>s, <1>2
<1>5. ASSUME NEW i \in Slots, Reset(i)
      PROVE  NoAssertFails'
  <2>1. bad = "none" /\ conn[i].due # "none"
    BY <1>5 DEF Reset, Alive
  <2>2. prdcr.conn_state = "STOPPED" => dropped
    <3>1. prdcr.conn_state = "STOPPED" /\ ~dropped => prdcr.xprt = NoXprt
      BY DEF IInv, OneXprt
    <3> QED BY <2>1, <3>1, <1>x, PrdcrAssumption
  <2>3. bad' = IF prdcr.conn_state = "STOPPED" THEN "event" ELSE bad
    BY <1>5 DEF Reset, Fails
  <2> QED BY <2>1, <2>2, <2>3, <1>2
<1>6. ASSUME NEW a \in Admins, Stop(a)
      PROVE  NoAssertFails'
  <2>1. bad = "none" /\ bad' = IF StopFaults THEN "noos" ELSE bad
    BY <1>6 DEF Stop, Alive, Fails
  <2> QED BY <2>1, <1>s, <1>2
<1>7. ASSUME NEW t \in Threads, Fire(t) \/ CbBegin(t) \/ CbEnd(t)
      PROVE  NoAssertFails'
  BY <1>7, <1>1 DEF Fire, CbBegin, CbEnd
<1>8. ASSUME NEW i \in Slots,
             RailFails(i) \/ RailComesUp(i) \/ RailEnds(i) \/ Dir(i) \/ SamplerConnected(i)
      PROVE  NoAssertFails'
  BY <1>8, <1>1 DEF RailFails, RailComesUp, RailEnds, Dir, SamplerConnected
<1>9. ASSUME NEW a \in Admins, Start(a) \/ Join(a) \/ StopEnd(a)
      PROVE  NoAssertFails'
  BY <1>9, <1>1 DEF Start, Join, StopEnd
<1> QED
  BY <1>3, <1>4, <1>5, <1>6, <1>7, <1>8, <1>9, Zenon DEF Next, Scheduler, Deliver
-----------------------------------------------------------------------------
\* A producer that was never started satisfies the invariant.
LEMMA InitOK == Init => IInv
<1> SUFFICES ASSUME Init PROVE IInv
  OBVIOUS
<1>1. \A t \in Threads : thr[t].pc = "idle"
  BY DEF Init, IdleThread
<1>2. Running = {}
  BY <1>1 DEF Running
<1>3. TypeOK
  <2>1. prdcr \in PrdcrT
    <3>1. PICK y \in Types : prdcr = [type |-> y, conn_state |-> "STOPPED", xprt |-> NoXprt,
                                      sets |-> NoXprt, dstart |-> FALSE]
      BY DEF Init
    <3> QED BY <3>1, PrdcrAssumption DEF PrdcrT, ConnState
  <2>2. task \in Task /\ thr \in [Threads -> TaskThread] /\ conn \in [Slots -> Conn]
    BY DEF Init, NewTask, Task, IdleThread, TaskThread, NewConn, Conn
  <2> QED BY <2>1, <2>2, TypeParts DEF Init, AdmT, BadT
<1>4. NoAssertFails /\ SetsOfXprt
  BY DEF Init, NoAssertFails, SetsOfXprt
<1>5. OneXprt
  BY DEF Init, OneXprt, NewConn
<1>6. OneRunner
  BY <1>2 DEF Init, NewTask, OneRunner
<1> QED BY <1>3, <1>4, <1>5, <1>6 DEF IInv

\* Every step keeps the invariant.
LEMMA StepOK == IInv /\ [Next]_vars => IInv'
<1> SUFFICES ASSUME IInv, [Next]_vars PROVE IInv'
  OBVIOUS
<1>1. CASE UNCHANGED vars
  <2>1. UNCHANGED <<prdcr, task, thr, conn, adm, bad, dropped, twice>>
    BY <1>1 DEF vars
  <2>2. TypeOK' /\ NoAssertFails' /\ SetsOfXprt'
    BY <2>1 DEF IInv, TypeOK, NoAssertFails, SetsOfXprt
  <2>3. (~dropped => OneXprt)' /\ (~twice => OneRunner)'
    BY <2>1 DEF IInv, OneXprt, OneRunner, Running
  <2> QED BY <2>2, <2>3 DEF IInv
<1>2. CASE Next
  <2>1. TypeOK /\ (dropped => dropped') /\ (twice => twice')
    BY <1>2, HistoryGrows DEF IInv
  <2>2. TypeOK'
    BY <1>2, <2>1, SchedulerTypes, TransportTypes, AdminTypes, Zenon DEF Next
  <2>3. ASSUME ~dropped' PROVE OneXprt' /\ OwnSets'
    <3>1. OneXprt /\ OwnSets
      BY <2>1, <2>3 DEF IInv, SetsOfXprt, OwnSets
    <3> QED BY <1>2, <2>1, <2>3, <3>1, XprtStep
  <2>4. ASSUME ~twice' PROVE OneRunner'
    <3>1. OneRunner
      BY <2>1, <2>4 DEF IInv
    <3> QED BY <1>2, <2>1, <2>4, <3>1, RunnerStep
  <2>5. SetsOfXprt'
    BY <2>3 DEF SetsOfXprt, OwnSets
  <2> QED BY <1>2, <2>2, <2>3, <2>4, <2>5, AssertStep DEF IInv
<1> QED BY <1>1, <1>2

\* The inductive invariant holds in every reachable state.
THEOREM Invariance == Spec => []IInv
BY InitOK, StepOK, PTL DEF Spec

\* The producer, its task, its threads and its rails have their types.
THEOREM TypeCorrect == Spec => []TypeOK
<1>1. IInv => TypeOK
  BY DEF IInv
<1> QED BY <1>1, Invariance, PTL

\* Until a connect fails half-way, a connection with an event to come is prdcr->xprt,
\* which prdcr_connect_cb() acts on.
THEOREM XprtNeverForgotten == Spec => []NoXprtForgotten
<1>1. IInv => NoXprtForgotten
  BY DEF IInv, OneXprt, NoXprtForgotten, Outstanding, NewConn
<1> QED BY <1>1, Invariance, PTL

\* Until a connect fails half-way, the sets in prdcr->set_tree are those of the present
\* connection.
THEOREM SetsBelongToXprt == Spec => []SetsOfXprt
<1>1. IInv => SetsOfXprt
  BY DEF IInv
<1> QED BY <1>1, Invariance, PTL

\* Until two threads have run the task at once, it is never STARTED without a timer.
THEOREM TimerNeverLost == Spec => []ScheduledHasTimer
<1>1. IInv => ScheduledHasTimer
  BY DEF IInv, OneRunner, ScheduledHasTimer
<1> QED BY <1>1, Invariance, PTL

\* An assert of the producer fails, or a NULL is dereferenced, only after a connect that
\* failed half-way, or after two threads have run the task at once.
THEOREM AssertsHold == Spec => []NoAssertFails
<1>1. IInv => NoAssertFails
  BY DEF IInv
<1> QED BY <1>1, Invariance, PTL

\* The daemon with one scheduler thread, the default of ldmsd: no two threads ever run
\* the task at once, so the task always has its timer when it is STARTED, and
\* ldmsd_task_stop() always finds task->os.
THEOREM OneThreadIsEnough ==
  ASSUME \A t, u \in Threads : t = u
  PROVE  Spec => [](~twice /\ ScheduledHasTimer /\ bad # "noos")
<1>1. Init => ~twice
  BY DEF Init
<1>2. IInv /\ ~twice /\ [Next]_vars => ~twice'
  <2> SUFFICES ASSUME IInv, ~twice, Next PROVE ~twice'
    BY DEF vars
  <2>1. ASSUME NEW t \in Threads, Scheduler(t) PROVE ~twice'
    <3>1. CASE CbBegin(t)
      <4>1. Threads \ {t} = {}
        OBVIOUS
      <4> QED BY <3>1, <4>1, Zenon DEF CbBegin
    <3>2. CASE Fire(t) \/ TaskFn(t) \/ CbEnd(t)
      BY <3>2 DEF Fire, TaskFn, CbEnd, history
    <3> QED BY <2>1, <3>1, <3>2 DEF Scheduler
  <2>2. ASSUME NEW i \in Slots,
               RailFails(i) \/ RailComesUp(i) \/ RailEnds(i) \/ Dir(i) \/ Deliver(i)
        PROVE  ~twice'
    BY <2>2 DEF RailFails, RailComesUp, RailEnds, Dir, Deliver, AggConnected,
                SamplerConnected, Reset, history
  <2>3. ASSUME NEW a \in Admins, Start(a) \/ Stop(a) \/ Join(a) \/ StopEnd(a)
        PROVE  ~twice'
    BY <2>3 DEF Start, Stop, Join, StopEnd, history
  <2> QED BY <2>1, <2>2, <2>3 DEF Next
<1>3. IInv /\ ~twice => ~twice /\ ScheduledHasTimer /\ bad # "noos"
  BY DEF IInv, NoAssertFails, OneRunner, ScheduledHasTimer
<1> QED BY <1>1, <1>2, <1>3, Invariance, PTL DEF Spec
=============================================================================
