----------------------------- MODULE RailPassive ----------------------------
(***************************************************************************)
(* The listening side of a rail.  A peer's rail asks for its NEps          *)
(* endpoints one by one; the listener's thread finds the passive rail of   *)
(* that peer in __passive_rail_rbt, or makes it, and accepts the endpoint. *)
(* The endpoint's own thread then delivers its events to __rail_cb(),      *)
(* which takes the rail out of the tree when no endpoint is left.          *)
(***************************************************************************)
EXTENDS RailCore

VARIABLES
  rails,    \* the rails made for this peer; each request makes at most one
  made,     \* how many were made
  tree,     \* the one in __passive_rail_rbt, 0 if none
  lst,      \* the listener's thread in __rail_zap_handle_conn_req()
  asked,    \* the endpoints that the peer has asked for
  xprt,     \* the transports, as in RailActive
  thr,      \* the endpoints' threads in __rail_cb()
  app,      \* the listener application's hold on each rail
  heard,    \* the rails whose CONNECTED the application has heard
  bad,      \* the rail that the listener's thread used after it was freed, or
            \* that rbt_del() was given when it is not in the tree; 0 if none
  early     \* history: the rails whose removal was decided while the peer's
            \* requests for them were still to come or being served

vars == <<rails, made, tree, lst, asked, xprt, thr, app, heard, bad, early>>

Ids == 1 .. NEps

\* "app": __rail_cb() is about to call the application with ev (rm is
\* passive_rail_rm_trigger); "remove": about to take the rail out of the tree.
Thread == [pc : {"idle", "app", "remove"}, ev : RailEvent, rm : BOOLEAN]
Idle == [pc |-> "idle", ev |-> "NONE", rm |-> FALSE]
\* "found": the rail is known and __rail_mutex released; "taken": the endpoint
\* is counted and r->mutex released.
Listener == [pc : {"idle", "found", "taken"}, r : 0 .. NEps, e : Eps]
AtRest == [pc |-> "idle", r |-> 0, e |-> 0]

TypeOK ==
  /\ rails \in [Ids -> Rail]
  /\ made \in 0 .. NEps /\ tree \in 0 .. NEps
  /\ lst \in Listener
  /\ asked \subseteq Eps
  /\ xprt \in [Ids -> [Eps -> {"none", "pending", "up", "gone"}]]
  /\ thr \in [Ids -> [Eps -> Thread]]
  /\ app \in [Ids -> {"none", "holds", "released"}]
  /\ heard \subseteq Ids
  /\ bad \in 0 .. NEps
  /\ early \subseteq Ids

Init ==
  /\ rails = [r \in Ids |-> NewRail]
  /\ made = 0 /\ tree = 0
  /\ lst = AtRest
  /\ asked = {}
  /\ xprt = [r \in Ids |-> [e \in Eps |-> "none"]]
  /\ thr = [r \in Ids |-> [e \in Eps |-> Idle]]
  /\ app = [r \in Ids |-> "none"]
  /\ heard = {}
  /\ bad = 0 /\ early = {}

Alive == bad = 0 /\ \A r \in Ids : ~rails[r].bad
Freed(r) == r <= made /\ rails[r].ref = 0
-----------------------------------------------------------------------------
\* __rail_zap_handle_conn_req(), under __rail_mutex.  A new rail has the
\* references "rail_ref" and "__passive_rail_rbt".
Find(e) ==
  /\ Alive /\ lst.pc = "idle" /\ e \notin asked
  /\ asked' = asked \cup {e}
  /\ LET new == tree = 0
         r == IF new THEN made + 1 ELSE tree
     IN  /\ lst' = [pc |-> "found", r |-> r, e |-> e]
         /\ tree' = r
         /\ made' = IF new THEN r ELSE made
         /\ rails' = IF new THEN [rails EXCEPT ![r] = [NewRail EXCEPT
                                    !.passive = TRUE, !.state = "ACCEPTING",
                                    !.connreq_eps = NEps, !.ref = 2]]
                     ELSE rails
         /\ app' = IF new THEN [app EXCEPT ![r] = "holds"] ELSE app
  /\ UNCHANGED <<xprt, thr, heard, bad, early>>

\* The listener's thread holds no reference of its own on the rail it has found.
ListenerFault ==
  /\ Alive /\ lst.pc \in {"found", "taken"} /\ Freed(lst.r)
  /\ bad' = lst.r
  /\ UNCHANGED <<rails, made, tree, lst, asked, xprt, thr, app, heard, early>>

\* The same, under r->mutex: the request is refused if the endpoint exists or
\* none is expected; an allocation may fail after connreq_eps was decremented.
Take(ok) ==
  /\ Alive /\ lst.pc = "found" /\ ~Freed(lst.r)
  /\ LET r == rails[lst.r]
         want == r.ep[lst.e] = "INIT" /\ r.connreq_eps > 0
     IN  /\ lst' = IF want /\ ok THEN [lst EXCEPT !.pc = "taken"] ELSE AtRest
         /\ rails' = IF ~want THEN rails ELSE
                     [rails EXCEPT ![lst.r] = [r EXCEPT
                         !.connreq_eps = @ - 1,
                         !.connecting_eps = IF ok THEN @ + 1 ELSE @,
                         !.ep[lst.e] = IF ok THEN "ACCEPTING" ELSE @]]
  /\ UNCHANGED <<made, tree, asked, xprt, thr, app, heard, bad, early>>

\* Mutant: the reference for the accepted endpoint is not taken.
Accept_NoRef(ok) ==
  /\ Alive /\ lst.pc = "taken" /\ ~Freed(lst.r)
  /\ LET r == rails[lst.r]
         failed == [r EXCEPT !.connecting_eps = @ - 1, !.ep[lst.e] = "ERROR"]
     IN  rails' = [rails EXCEPT ![lst.r] = IF ok THEN r ELSE failed]
  /\ xprt' = IF ok THEN [xprt EXCEPT ![lst.r][lst.e] = "pending"] ELSE xprt
  /\ lst' = AtRest
  /\ UNCHANGED <<made, tree, asked, thr, app, heard, bad, early>>

\* Mutant: a failed accept leaves the endpoint counted.
Accept_KeepsCount(ok) ==
  /\ Alive /\ lst.pc = "taken" /\ ~Freed(lst.r)
  /\ LET r == rails[lst.r]
         accepted == [r EXCEPT !.ref = @ + 1]
         failed == [r EXCEPT !.ep[lst.e] = "ERROR"]
     IN  rails' = [rails EXCEPT ![lst.r] = IF ok THEN accepted ELSE failed]
  /\ xprt' = IF ok THEN [xprt EXCEPT ![lst.r][lst.e] = "pending"] ELSE xprt
  /\ lst' = AtRest
  /\ UNCHANGED <<made, tree, asked, thr, app, heard, bad, early>>

\* The same, after r->mutex is released: "ldms_accepting" and zap_accept2();
\* or the authentication or the accept fails (err_1 to err_3).
Accept(ok) ==
  /\ Alive /\ lst.pc = "taken" /\ ~Freed(lst.r)
  /\ LET r == rails[lst.r]
         accepted == [r EXCEPT !.ref = @ + 1]
         failed == [r EXCEPT !.connecting_eps = @ - 1, !.ep[lst.e] = "ERROR"]
     IN  rails' = [rails EXCEPT ![lst.r] = IF ok THEN accepted ELSE failed]
  /\ xprt' = IF ok THEN [xprt EXCEPT ![lst.r][lst.e] = "pending"] ELSE xprt
  /\ lst' = AtRest
  /\ UNCHANGED <<made, tree, asked, thr, app, heard, bad, early>>
-----------------------------------------------------------------------------
\* Every endpoint of the rail has been asked for and served.
Complete(r) == rails[r].connreq_eps = 0 /\ lst.r # r

\* __rail_cb() up to the release of r->mutex; CONNECTED never removes.
Handle(r, e, rail, x, ends) ==
  LET rm == ends /\ RmTrigger(rail)
  IN  /\ rails' = [rails EXCEPT ![r] = Prepped(rail)]
      /\ thr' = [thr EXCEPT ![r][e] = [pc |-> "app", ev |-> PrepEvent(rail), rm |-> rm]]
      /\ xprt' = [xprt EXCEPT ![r][e] = x]
      /\ early' = IF rm /\ ~Complete(r) THEN early \cup {r} ELSE early
      /\ UNCHANGED <<made, tree, lst, asked, app, heard, bad>>

Waiting(r, e, x) == Alive /\ xprt[r][e] = x /\ thr[r][e].pc = "idle"

Connected(r, e) ==
  Waiting(r, e, "pending") /\ Handle(r, e, OnConnected(rails[r], e), "up", FALSE)

Rejected(r, e) ==
  Waiting(r, e, "pending") /\ Handle(r, e, OnRejected(rails[r], e), "gone", TRUE)

ConnectError(r, e) ==
  Waiting(r, e, "pending") /\ Handle(r, e, OnError(rails[r], e), "gone", TRUE)

Disconnected(r, e) ==
  Waiting(r, e, "up") /\ Handle(r, e, OnDisconnected(rails[r], e), "gone", TRUE)

\* __rail_cb() calls the application: __listen_connect_cb() puts "rail_ref" on
\* a terminal event.  The callback ends here unless the rail is to be removed.
Deliver(r, e) ==
  /\ Alive /\ thr[r][e].pc = "app"
  /\ LET c == thr[r][e]
         puts == c.ev \in Terminal /\ app[r] = "holds"
     IN  /\ app' = IF puts THEN [app EXCEPT ![r] = "released"] ELSE app
         /\ heard' = IF c.ev = "CONNECTED" THEN heard \cup {r} ELSE heard
         /\ thr' = [thr EXCEPT ![r][e] = IF c.rm THEN [c EXCEPT !.pc = "remove"] ELSE Idle]
         /\ rails' = [rails EXCEPT ![r].ref = @ - (IF puts THEN 1 ELSE 0) - (IF c.rm THEN 0 ELSE 1)]
  /\ UNCHANGED <<made, tree, lst, asked, xprt, bad, early>>

\* Mutant: the tree's reference is not put.
Remove_KeepsRef(r, e) ==
  /\ Alive /\ thr[r][e].pc = "remove" /\ tree = r
  /\ tree' = 0
  /\ rails' = [rails EXCEPT ![r].ref = @ - 1]
  /\ thr' = [thr EXCEPT ![r][e] = Idle]
  /\ UNCHANGED <<made, lst, asked, xprt, app, heard, bad, early>>

\* The end of __rail_cb() with passive_rail_rm_trigger.
Remove(r, e) ==
  /\ Alive /\ thr[r][e].pc = "remove" /\ tree = r
  /\ tree' = 0
  /\ rails' = [rails EXCEPT ![r].ref = @ - 2]
  /\ thr' = [thr EXCEPT ![r][e] = Idle]
  /\ UNCHANGED <<made, lst, asked, xprt, app, heard, bad, early>>

\* The same: rbt_del() is given a node that bzero() cleared.
RemoveTwice(r, e) ==
  /\ Alive /\ thr[r][e].pc = "remove" /\ tree # r
  /\ bad' = r
  /\ UNCHANGED <<rails, made, tree, lst, asked, xprt, thr, app, heard, early>>

\* ldms_xprt_close() by the application that was told of the rail.
AppClose(r) ==
  /\ Alive /\ app[r] = "holds" /\ r \in heard
  /\ rails' = [rails EXCEPT ![r] = Close(@)]
  /\ UNCHANGED <<made, tree, lst, asked, xprt, thr, app, heard, bad, early>>
-----------------------------------------------------------------------------
Step(r, e) ==
  \/ Connected(r, e) \/ Rejected(r, e) \/ ConnectError(r, e) \/ Disconnected(r, e)
  \/ Deliver(r, e) \/ Remove(r, e) \/ RemoveTwice(r, e)

Next ==
  \/ \E e \in Eps : Find(e)
  \/ ListenerFault
  \/ \E ok \in BOOLEAN : Take(ok) \/ Accept(ok)
  \/ \E r \in Ids : AppClose(r) \/ \E e \in Eps : Step(r, e)

\* A callback that has begun ends, and Zap reports the end of an endpoint that
\* was closed.
Fairness ==
  \A r \in Ids, e \in Eps :
    /\ WF_vars(Deliver(r, e) \/ Remove(r, e) \/ RemoveTwice(r, e))
    /\ WF_vars(e \in rails[r].closing /\ Disconnected(r, e))

Spec == Init /\ [][Next]_vars
FairSpec == Spec /\ Fairness
-----------------------------------------------------------------------------
In(r, s) == {e \in Eps : xprt[r][e] = s}
One(b) == IF b THEN 1 ELSE 0

\* r->connecting_eps and r->connected_eps count the endpoints being accepted
\* and those that are up, although the listener's thread and the endpoints'
\* threads change them: they decide when the rail leaves the tree.
CountersExact ==
  \A r \in 1 .. made :
    /\ rails[r].connecting_eps = Cardinality(In(r, "pending")) + One(lst.pc = "taken" /\ lst.r = r)
    /\ rails[r].connected_eps = Cardinality(In(r, "up"))

\* Every reference has a holder: the application, the tree, an endpoint that
\* has an event to come, a running callback.
RefsExact ==
  \A r \in 1 .. made :
    rails[r].ref = One(app[r] = "holds") + One(tree = r)
                   + Cardinality(In(r, "pending")) + Cardinality(In(r, "up"))
                   + Cardinality({e \in Eps : thr[r][e].pc # "idle"})

\* The listener's thread works on a freed rail, or __rail_cb() takes a rail out of
\* the tree twice, only when the rail's last endpoint had ended before the peer's
\* requests were all served: once they are, the removal that __rail_cb() decides
\* under r->mutex and makes later, under __rail_mutex, is safe.
SafeRemoval == bad # 0 => bad \in early

\* A rail that was connected and has lost an endpoint loses all of them, leaves
\* the tree and is freed.
LostRailFreed ==
  \A r \in Ids :
    (r \in heard /\ rails[r].state = "ERROR") ~>
      ((rails[r].ref = 0 /\ tree # r) \/ ~Alive)
=============================================================================
