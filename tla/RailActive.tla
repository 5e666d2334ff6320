----------------------------- MODULE RailActive -----------------------------
(***************************************************************************)
(* The connecting side of a rail: the application creates the rail, calls  *)
(* ldms_xprt_connect() once and may call ldms_xprt_close(); every endpoint *)
(* has a Zap I/O thread that delivers its events, one at a time, to        *)
(* __rail_cb(); __rail_cb() calls the application after it has released    *)
(* r->mutex, so the events of different endpoints interleave there.        *)
(***************************************************************************)
EXTENDS RailCore, Sequences

VARIABLES
  rail,    \* the struct ldms_rail_s
  xprt,    \* the transport of each endpoint, as the code in src/ uses Zap
  thr,     \* the endpoint's thread in __rail_cb(): "idle", or the event that
           \* it will give to the application before it leaves the callback
  app,     \* the application's hold on the rail
  calls    \* the connection events given to the application, in order

vars == <<rail, xprt, thr, app, calls>>

\* A transport as this code uses Zap: an endpoint that was posted is answered
\* once; one that is up ends once, by itself or after it was closed.
XprtState == {"none", "pending", "up", "gone"}

\* "new": before ldms_xprt_connect(); "holds": it returned 0; "failed": it
\* returned an error; "released": the application has put its "rail_ref".
AppState == {"new", "holds", "failed", "released"}

TypeOK ==
  /\ rail \in Rail
  /\ xprt \in [Eps -> XprtState]
  /\ thr \in [Eps -> {"idle"} \cup RailEvent]
  /\ app \in AppState
  /\ calls \in Seq(RailEvent)

Init ==
  /\ rail = NewRail
  /\ xprt = [e \in Eps |-> "none"]
  /\ thr = [e \in Eps |-> "idle"]
  /\ app = "new"
  /\ calls = <<>>

\* The process is gone once an assert() has failed.
Alive == ~rail.bad

\* Mutant: the endpoint that failed synchronously keeps its "ldms_connect".
Connect_KeepsRef(n) ==
  /\ Alive /\ app = "new" /\ rail.state = "INIT"
  /\ rail' = [rail EXCEPT
                !.state = IF n = NEps THEN "CONNECTING" ELSE "ERROR",
                !.ep = [e \in Eps |-> IF e < n THEN "CONNECTING"
                                      ELSE IF e = n THEN "ERROR" ELSE @[e]],
                !.connecting_eps = @ + n,
                !.ref = IF n = NEps THEN @ + n ELSE @ + n + 1]
  /\ xprt' = [e \in Eps |-> IF e < n THEN "pending" ELSE "none"]
  /\ app' = IF n = NEps THEN "holds" ELSE "failed"
  /\ UNCHANGED <<thr, calls>>

\* __rail_connect(): n endpoints are posted.  n < NEps: the next one fails
\* synchronously, either before it gets a transport or in zap_connect2().
\* r->mutex is held throughout, so no callback runs in between.
Connect(n) ==
  /\ Alive /\ app = "new" /\ rail.state = "INIT"
  /\ \E s \in {"INIT", "ERROR"} :
       rail' = [rail EXCEPT
                  !.state = IF n = NEps THEN "CONNECTING" ELSE "ERROR",
                  !.ep = [e \in Eps |-> IF e < n THEN "CONNECTING"
                                        ELSE IF e = n THEN s ELSE @[e]],
                  !.connecting_eps = @ + n,
                  !.ref = @ + n]
  /\ xprt' = [e \in Eps |-> IF e < n THEN "pending" ELSE "none"]
  /\ app' = IF n = NEps THEN "holds" ELSE "failed"
  /\ UNCHANGED <<thr, calls>>

\* The caller of a failed ldms_xprt_connect() drops the rail, as
\* prdcr_connect() does.
AppDrop ==
  /\ Alive /\ app = "failed"
  /\ rail' = [rail EXCEPT !.ref = @ - 1]
  /\ app' = "released"
  /\ UNCHANGED <<xprt, thr, calls>>

\* ldms_xprt_close() on a rail that the application still holds.
AppClose ==
  /\ Alive /\ app = "holds"
  /\ rail' = Close(rail)
  /\ UNCHANGED <<xprt, thr, app, calls>>

\* __rail_cb() up to the release of r->mutex.
Handle(e, r, x) ==
  /\ rail' = Prepped(r)
  /\ thr' = [thr EXCEPT ![e] = PrepEvent(r)]
  /\ xprt' = [xprt EXCEPT ![e] = x]
  /\ UNCHANGED <<app, calls>>

Connected(e) ==
  /\ Alive /\ xprt[e] = "pending" /\ thr[e] = "idle"
  /\ Handle(e, OnConnected(rail, e), "up")

Rejected(e) ==
  /\ Alive /\ xprt[e] = "pending" /\ thr[e] = "idle"
  /\ Handle(e, OnRejected(rail, e), "gone")

ConnectError(e) ==
  /\ Alive /\ xprt[e] = "pending" /\ thr[e] = "idle"
  /\ Handle(e, OnError(rail, e), "gone")

\* The endpoint was closed here, or the peer or the network dropped it.
Disconnected(e) ==
  /\ Alive /\ xprt[e] = "up" /\ thr[e] = "idle"
  /\ Handle(e, OnDisconnected(rail, e), "gone")

\* __rail_cb() after the release of r->mutex: call the application, which puts
\* its "rail_ref" (if it still has it) on a terminal event, then put "rail_cb".
Deliver(e) ==
  /\ Alive /\ thr[e] # "idle"
  /\ thr' = [thr EXCEPT ![e] = "idle"]
  /\ calls' = IF thr[e] = "NONE" THEN calls ELSE Append(calls, thr[e])
  /\ LET puts == thr[e] \in Terminal /\ app = "holds"
     IN  /\ app' = IF puts THEN "released" ELSE app
         /\ rail' = [rail EXCEPT !.ref = IF puts THEN @ - 2 ELSE @ - 1]
  /\ UNCHANGED xprt

Answered(e) == Connected(e) \/ Rejected(e) \/ ConnectError(e)

Next ==
  \/ \E n \in 0 .. NEps : Connect(n)
  \/ AppDrop
  \/ AppClose
  \/ \E e \in Eps : Answered(e) \/ Disconnected(e) \/ Deliver(e)

\* Zap answers every posted connect and reports the end of every endpoint that
\* was closed; a callback that has started returns; a caller whose connect
\* failed drops the rail.
Fairness ==
  /\ \A e \in Eps : /\ WF_vars(Answered(e))
                    /\ WF_vars(e \in rail.closing /\ Disconnected(e))
                    /\ WF_vars(Deliver(e))
  /\ WF_vars(AppDrop)

Spec == Init /\ [][Next]_vars
FairSpec == Spec /\ Fairness
-----------------------------------------------------------------------------
\* The endpoints whose transport is in state s, and those whose thread is in
\* __rail_cb().
In(s) == {e \in Eps : xprt[e] = s}
Busy == {e \in Eps : thr[e] # "idle"}

\* r->connecting_eps and r->connected_eps count the endpoints that are still to
\* be answered and those that are up, whatever the interleaving of callbacks and
\* close: __rail_ev_prep() decides from them when the application is told.
CountersExact ==
  /\ rail.connecting_eps = Cardinality(In("pending"))
  /\ rail.connected_eps = Cardinality(In("up"))

\* Every reference has a holder: the application, an endpoint that has an event
\* to come ("ldms_connect", "ldms_connected") or a running callback ("rail_cb").
\* So the rail is never freed under a callback, and the asserts of
\* __rail_ref_free() hold when it is.
RefsExact ==
  rail.ref = Cardinality(In("pending")) + Cardinality(In("up")) + Cardinality(Busy)
             + (IF app = "released" THEN 0 ELSE 1)

\* __rail_cb() calls the application without r->mutex, from one thread for each
\* endpoint.  Yet CONNECTED comes first if at all, a terminal event comes last
\* and once, and by then every endpoint is finished.
CallsInOrder ==
  \A i \in 1 .. Len(calls) :
    \/ calls[i] = "CONNECTED" /\ i = 1
    \/ calls[i] \in Terminal /\ i = Len(calls) /\ In("pending") \cup In("up") = {}

\* An endpoint that is up in a rail that has failed is being closed, also one
\* whose CONNECTED was late: the rail never leaves an endpoint behind.
NoEndpointLeftBehind ==
  rail.state \in {"ERROR", "REJECTED"} /\ ~rail.bad => In("up") \subseteq rail.closing

\* The asserts of __rail_cb() on the states of the rail and of the endpoint
\* ("Unexpected state", "Bad state") fail in one case only: an endpoint is connected
\* after another one was rejected.
NoAssertFails == rail.bad => rail.state = "REJECTED" /\ In("up") # {}

\* The rail as its user sees it.
Told == {calls[i] : i \in 1 .. Len(calls)}
DueEvents == {thr[e] : e \in Eps} \ {"idle", "NONE"}
AbstractConn ==
  [st |-> IF app = "new" THEN "idle"
          ELSE IF (Told \cup DueEvents) \cap Terminal # {} \/ In("none") = Eps THEN "over"
          ELSE IF "CONNECTED" \in Told \cup DueEvents THEN "up"
          ELSE IF app = "holds" THEN "posted" ELSE "stray",
   doomed |-> rail.state \in {"ERROR", "REJECTED"},
   due |-> IF DueEvents = {} THEN "none"
           ELSE IF DueEvents = {"CONNECTED"} THEN "CONNECTED" ELSE "TERMINAL"]

Promise == INSTANCE RailPromise WITH conn <- AbstractConn

\* NEps endpoints, their threads and the interleaved callbacks of __rail_cb()
\* appear to the user of the rail as one connection: every step is a step of
\* RailPromise or does not show.
ImplementsPromise == Promise!Spec

\* Every endpoint was answered, and one was lost before the last answer: the
\* DISCONNECTED case of __rail_cb() leaves r->state at CONNECTING.
LostEarly == rail.state = "CONNECTING" /\ In("pending") = {} /\ In("gone") # {}

\* A rail whose endpoints were all lost so: no event follows a close any more.
LostUnheard ==
  /\ In("gone") = Eps /\ DueEvents = {} /\ calls = <<>>
  /\ rail.conn_error_eps = 0 /\ rail.rejected_eps = 0

\* What ldms.h says of ldms_xprt_connect(): the callback is called when the
\* connection completes, whatever its outcome.  The only rail that hears nothing has
\* lost an endpoint while it was CONNECTING.
ConnectAnswered == app = "holds" ~> calls # <<>> \/ LostEarly \/ LostUnheard \/ ~Alive

\* A rail that failed or was closed is freed in the end, whatever is answered or
\* lost meanwhile, unless all its endpoints were lost before it was CONNECTED.
FailedRailFreed == rail.state = "ERROR" ~> rail.ref = 0 \/ LostUnheard \/ ~Alive
=============================================================================
