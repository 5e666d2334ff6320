-------------------------- MODULE RailActiveProofs --------------------------
(***************************************************************************)
(* Theorems about RailActive for every number of endpoints.                *)
(***************************************************************************)
EXTENDS RailActive, RailCoreProofs

(***************************************************************************)
(* The inductive invariant.                                                *)
(***************************************************************************)

\* Before ldms_xprt_connect() nothing has happened.
Fresh ==
  app = "new" => /\ rail = NewRail
                 /\ calls = <<>>
                 /\ \A e \in Eps : xprt[e] = "none" /\ thr[e] = "idle"

\* The counters and the references.
CountInv == TypeOK /\ CountersExact /\ RefsExact /\ Fresh

\* rep->state agrees with the transport of the endpoint.
EpsAgree ==
  /\ rail.state \in {"INIT", "CONNECTING", "CONNECTED", "ERROR", "REJECTED"}
  /\ rail.state \in {"ERROR", "REJECTED"} /\ ~rail.bad =>
       \A e \in Eps : rail.ep[e] # "CONNECTED"
  /\ \A e \in Eps : xprt[e] = "up" => \/ rail.ep[e] = "CONNECTED"
                                      \/ e \in rail.closing

Quiet(e) == thr[e] \in {"idle", "NONE"}

\* What a thread is about to tell the application fits what it was told, and no
\* other thread is about to tell it anything.
ThreadsInOrder ==
  /\ rail.state \in {"INIT", "CONNECTING"} => calls = <<>> /\ \A e \in Eps : Quiet(e)
  /\ \A e \in Eps : thr[e] = "CONNECTED" =>
       /\ xprt[e] = "up"
       /\ calls = <<>>
       /\ \A f \in Eps \ {e} : Quiet(f)
  /\ \A e \in Eps : thr[e] \in Terminal =>
       /\ \A f \in Eps : xprt[f] \notin {"pending", "up"}
       /\ \A i \in 1 .. Len(calls) : calls[i] = "CONNECTED"
       /\ \A f \in Eps \ {e} : Quiet(f)

IInv == CountInv /\ EpsAgree /\ CallsInOrder /\ ThreadsInOrder

\* What every endpoint event does to the sets that are counted: the endpoint
\* leaves the set it was in, joins the next one, and its thread is busy.
LEMMA HandleSets ==
  ASSUME CountInv, NEW e \in Eps, NEW r \in Rail, NEW x \in {"up", "gone"},
         xprt[e] \in {"pending", "up"}, xprt[e] # x, thr[e] = "idle", Handle(e, r, x)
  PROVE  /\ Cardinality(In("pending")') =
              Cardinality(In("pending")) - (IF xprt[e] = "pending" THEN 1 ELSE 0)
         /\ Cardinality(In("up")') = Cardinality(In("up"))
              + (IF x = "up" THEN 1 ELSE IF xprt[e] = "up" THEN -1 ELSE 0)
         /\ Cardinality(Busy') = Cardinality(Busy) + 1
<1>1. /\ thr' = [thr EXCEPT ![e] = PrepEvent(r)] /\ PrepEvent(r) \in RailEvent
      /\ xprt' = [xprt EXCEPT ![e] = x]
      /\ xprt \in [Eps -> XprtState] /\ thr \in [Eps -> {"idle"} \cup RailEvent]
  BY PreppedFields DEF Handle, CountInv, TypeOK
<1>2. In("pending") \in SUBSET Eps /\ In("up") \in SUBSET Eps /\ Busy \in SUBSET Eps
  BY DEF In, Busy
<1>3. /\ Cardinality(In("pending")) \in Nat /\ Cardinality(In("up")) \in Nat
      /\ Cardinality(Busy) \in Nat
  BY <1>2, EpsFinite
<1>4. Cardinality(Busy') = Cardinality(Busy) + 1
  <2>1. Busy' = Busy \cup {e} /\ e \notin Busy
    BY <1>1 DEF Busy, RailEvent, Terminal
  <2> QED BY <1>2, <2>1, AddOne
<1>5. CASE xprt[e] = "pending" /\ x = "up"
  <2>1. /\ In("pending")' = In("pending") \ {e} /\ In("up")' = In("up") \cup {e}
        /\ e \in In("pending") /\ e \notin In("up")
    BY <1>1, <1>5 DEF In
  <2> QED BY <1>2, <1>4, <1>5, <2>1, AddOne, RemoveOne
<1>6. CASE xprt[e] = "pending" /\ x = "gone"
  <2>1. /\ In("pending")' = In("pending") \ {e} /\ In("up")' = In("up")
        /\ e \in In("pending")
    BY <1>1, <1>6 DEF In
  <2> QED BY <1>2, <1>3, <1>4, <1>6, <2>1, RemoveOne
<1>7. CASE xprt[e] = "up" /\ x = "gone"
  <2>1. /\ In("pending")' = In("pending") /\ In("up")' = In("up") \ {e}
        /\ e \in In("up")
    BY <1>1, <1>7 DEF In
  <2> QED BY <1>2, <1>3, <1>4, <1>7, <2>1, RemoveOne
<1> QED BY <1>5, <1>6, <1>7

\* An endpoint event whose handler moves the counters with those sets keeps
\* them, and the references, exact.
LEMMA HandleCounts ==
  ASSUME CountInv, NEW e \in Eps, NEW r \in Rail, NEW x \in {"up", "gone"},
         xprt[e] \in {"pending", "up"}, xprt[e] # x, thr[e] = "idle", Handle(e, r, x),
         r.connecting_eps = rail.connecting_eps - (IF xprt[e] = "pending" THEN 1 ELSE 0),
         r.connected_eps = rail.connected_eps
              + (IF x = "up" THEN 1 ELSE IF xprt[e] = "up" THEN -1 ELSE 0),
         r.ref = rail.ref + (IF x = "up" THEN 1 ELSE 0)
  PROVE  CountInv'
<1>1. /\ rail' = Prepped(r) /\ thr' = [thr EXCEPT ![e] = PrepEvent(r)]
      /\ xprt' = [xprt EXCEPT ![e] = x] /\ app' = app /\ calls' = calls /\ app # "new"
  BY DEF Handle, CountInv, Fresh
<1>2. TypeOK'
  BY <1>1, PreppedFields DEF CountInv, TypeOK, XprtState
<1>3. CountersExact'
  BY <1>1, HandleSets, PreppedFields DEF CountInv, CountersExact
<1>4. RefsExact'
  <2>1. rail'.ref = rail.ref + (IF x = "up" THEN 1 ELSE 0)
    BY <1>1, PreppedFields
  <2>2. In("pending") \in SUBSET Eps /\ In("up") \in SUBSET Eps /\ Busy \in SUBSET Eps
    BY DEF In, Busy
  <2>3. /\ Cardinality(In("pending")) \in Nat /\ Cardinality(In("up")) \in Nat
        /\ Cardinality(Busy) \in Nat
    BY <2>2, EpsFinite
  <2> QED BY <1>1, <2>1, <2>3, HandleSets DEF CountInv, RefsExact
<1>5. Fresh'
  BY <1>1 DEF Fresh
<1> QED BY <1>2, <1>3, <1>4, <1>5 DEF CountInv

\* Each endpoint event of __rail_cb() keeps counters and references exact.
LEMMA ConnectedCounts ==
  ASSUME CountInv, NEW e \in Eps, Connected(e)
  PROVE  CountInv'
<1> DEFINE r == OnConnected(rail, e)
<1>1. rail \in Rail /\ rail.connecting_eps >= 1
  <2>1. In("pending") \in SUBSET Eps /\ In("up") \in SUBSET Eps
    BY DEF In
  <2>2. e \in In("pending")
    BY DEF Connected, In
  <2> QED BY <2>1, <2>2, RemoveOne DEF CountInv, TypeOK, CountersExact
<1>2. /\ r \in Rail
      /\ r.connecting_eps = rail.connecting_eps - 1
      /\ r.connected_eps = rail.connected_eps + 1
      /\ r.ref = rail.ref + 1
  BY <1>1, OnConnectedFields, Zenon
<1> HIDE DEF r
<1>3. Handle(e, r, "up") /\ xprt[e] = "pending" /\ thr[e] = "idle"
  BY DEF Connected, r
<1>4. rail.connecting_eps \in Nat /\ rail.connected_eps \in Nat /\ rail.ref \in Nat
  BY <1>1 DEF Rail
<1> QED BY <1>2, <1>3, <1>4, HandleCounts

LEMMA RejectedCounts ==
  ASSUME CountInv, NEW e \in Eps, Rejected(e)
  PROVE  CountInv'
<1> DEFINE r == OnRejected(rail, e)
<1>1. rail \in Rail /\ rail.connecting_eps >= 1
  <2>1. In("pending") \in SUBSET Eps /\ In("up") \in SUBSET Eps
    BY DEF In
  <2>2. e \in In("pending")
    BY DEF Rejected, In
  <2> QED BY <2>1, <2>2, RemoveOne DEF CountInv, TypeOK, CountersExact
<1>2. /\ r \in Rail
      /\ r.connecting_eps = rail.connecting_eps - 1
      /\ r.connected_eps = rail.connected_eps
      /\ r.ref = rail.ref
  BY <1>1, OnRejectedFields, Zenon
<1> HIDE DEF r
<1>3. Handle(e, r, "gone") /\ xprt[e] = "pending" /\ thr[e] = "idle"
  BY DEF Rejected, r
<1>4. rail.connecting_eps \in Nat /\ rail.connected_eps \in Nat /\ rail.ref \in Nat
  BY <1>1 DEF Rail
<1> QED BY <1>2, <1>3, <1>4, HandleCounts

LEMMA ConnectErrorCounts ==
  ASSUME CountInv, NEW e \in Eps, ConnectError(e)
  PROVE  CountInv'
<1> DEFINE r == OnError(rail, e)
<1>1. rail \in Rail /\ rail.connecting_eps >= 1
  <2>1. In("pending") \in SUBSET Eps /\ In("up") \in SUBSET Eps
    BY DEF In
  <2>2. e \in In("pending")
    BY DEF ConnectError, In
  <2> QED BY <2>1, <2>2, RemoveOne DEF CountInv, TypeOK, CountersExact
<1>2. /\ r \in Rail
      /\ r.connecting_eps = rail.connecting_eps - 1
      /\ r.connected_eps = rail.connected_eps
      /\ r.ref = rail.ref
  BY <1>1, OnErrorFields, Zenon
<1> HIDE DEF r
<1>3. Handle(e, r, "gone") /\ xprt[e] = "pending" /\ thr[e] = "idle"
  BY DEF ConnectError, r
<1>4. rail.connecting_eps \in Nat /\ rail.connected_eps \in Nat /\ rail.ref \in Nat
  BY <1>1 DEF Rail
<1> QED BY <1>2, <1>3, <1>4, HandleCounts

LEMMA DisconnectedCounts ==
  ASSUME CountInv, NEW e \in Eps, Disconnected(e)
  PROVE  CountInv'
<1> DEFINE r == OnDisconnected(rail, e)
<1>1. rail \in Rail /\ rail.connected_eps >= 1
  <2>1. In("pending") \in SUBSET Eps /\ In("up") \in SUBSET Eps
    BY DEF In
  <2>2. e \in In("up")
    BY DEF Disconnected, In
  <2> QED BY <2>1, <2>2, RemoveOne DEF CountInv, TypeOK, CountersExact
<1>2. /\ r \in Rail
      /\ r.connecting_eps = rail.connecting_eps
      /\ r.connected_eps = rail.connected_eps - 1
      /\ r.ref = rail.ref
  BY <1>1, OnDisconnectedFields, ZenonT(40)
<1> HIDE DEF r
<1>3. Handle(e, r, "gone") /\ xprt[e] = "up" /\ thr[e] = "idle"
  BY DEF Disconnected, r
<1>4. rail.connecting_eps \in Nat /\ rail.connected_eps \in Nat /\ rail.ref \in Nat
  BY <1>1 DEF Rail
<1> QED BY <1>2, <1>3, <1>4, HandleCounts

\* Leaving __rail_cb(): "rail_cb" and, on a terminal event, "rail_ref" are put.
LEMMA DeliverCounts ==
  ASSUME CountInv, NEW e \in Eps, Deliver(e)
  PROVE  CountInv'
<1> DEFINE puts == thr[e] \in Terminal /\ app = "holds"
           k == IF puts THEN 2 ELSE 1
<1>1. /\ rail \in Rail /\ thr[e] # "idle" /\ thr' = [thr EXCEPT ![e] = "idle"]
      /\ xprt' = xprt /\ app' = IF puts THEN "released" ELSE app
      /\ rail' = [rail EXCEPT !.ref = rail.ref - k] /\ rail.ref \in Nat
      /\ calls' = IF thr[e] = "NONE" THEN calls ELSE Append(calls, thr[e])
      /\ thr \in [Eps -> {"idle"} \cup RailEvent]
  BY DEF CountInv, TypeOK, Deliver, Rail
<1>2. In("pending") \in SUBSET Eps /\ In("up") \in SUBSET Eps /\ Busy \in SUBSET Eps
  BY DEF In, Busy
<1>3. /\ Cardinality(In("pending")) \in Nat /\ Cardinality(In("up")) \in Nat
      /\ Cardinality(Busy) \in Nat
  BY <1>2, EpsFinite
<1>4. In("pending")' = In("pending") /\ In("up")' = In("up")
  BY <1>1 DEF In
<1>5. Cardinality(Busy') = Cardinality(Busy) - 1 /\ Cardinality(Busy) >= 1
  <2>1. Busy' = Busy \ {e} /\ e \in Busy
    BY <1>1 DEF Busy
  <2> QED BY <1>2, <2>1, RemoveOne
<1>6. rail.ref - k \in Nat
  BY <1>1, <1>3, <1>5 DEF CountInv, RefsExact
<1>7. /\ rail' \in Rail /\ rail'.ref = rail.ref - k
      /\ rail'.connecting_eps = rail.connecting_eps
      /\ rail'.connected_eps = rail.connected_eps
  <2> HIDE DEF k
  <2> QED BY <1>1, <1>6 DEF Rail
<1>8. TypeOK'
  BY <1>1, <1>7 DEF CountInv, TypeOK, AppState
<1>9. CountersExact'
  BY <1>4, <1>7 DEF CountInv, CountersExact
<1>10. RefsExact'
  BY <1>1, <1>3, <1>4, <1>5, <1>7 DEF CountInv, RefsExact
<1>11. Fresh'
  BY <1>1 DEF CountInv, Fresh
<1> QED BY <1>8, <1>9, <1>10, <1>11 DEF CountInv

\* __rail_connect(): n endpoints are pending, each with its reference.
LEMMA ConnectCounts ==
  ASSUME CountInv, NEW n \in 0 .. NEps, Connect(n)
  PROVE  CountInv'
<1>1. PICK s \in {"INIT", "ERROR"} :
        rail' = [rail EXCEPT
                   !.state = IF n = NEps THEN "CONNECTING" ELSE "ERROR",
                   !.ep = [e \in Eps |-> IF e < n THEN "CONNECTING"
                                         ELSE IF e = n THEN s ELSE rail.ep[e]],
                   !.connecting_eps = rail.connecting_eps + n,
                   !.ref = rail.ref + n]
  BY DEF Connect, CountInv, TypeOK, Rail
<1>2. /\ xprt' = [e \in Eps |-> IF e < n THEN "pending" ELSE "none"]
      /\ app = "new" /\ app' \in {"holds", "failed"} /\ thr' = thr /\ calls' = calls
      /\ rail \in Rail /\ n \in Nat
  BY DEF Connect, CountInv, TypeOK
<1>3. rail = NewRail /\ \A e \in Eps : xprt[e] = "none" /\ thr[e] = "idle"
  BY <1>2 DEF CountInv, Fresh
<1>4. In("pending")' = {e \in Eps : e < n} /\ In("up")' = {} /\ Busy' = {}
  BY <1>2, <1>3 DEF In, Busy
<1>5. /\ Cardinality(In("pending")') = n
      /\ Cardinality(In("up")') = 0 /\ Cardinality(Busy') = 0
  BY <1>4, Prefix, FS_EmptySet
<1>6. /\ rail' \in Rail /\ rail'.connecting_eps = n /\ rail'.connected_eps = 0
      /\ rail'.ref = n + 1
  <2>1. rail.connecting_eps = 0 /\ rail.connected_eps = 0 /\ rail.ref = 1
    BY <1>3 DEF NewRail
  <2>2. rail.connecting_eps + n = n /\ rail.ref + n = n + 1 /\ n + 1 \in Nat
    BY <1>2, <2>1
  <2> QED BY <1>1, <1>2, <2>1, <2>2 DEF Rail, EpState
<1>7. TypeOK'
  BY <1>2, <1>6 DEF CountInv, TypeOK, XprtState, AppState
<1>8. CountersExact' /\ RefsExact' /\ Fresh'
  BY <1>2, <1>5, <1>6 DEF CountersExact, RefsExact, Fresh
<1> QED BY <1>7, <1>8 DEF CountInv

\* The caller of a failed connect puts its reference.
LEMMA AppDropCounts ==
  ASSUME CountInv, AppDrop
  PROVE  CountInv'
<1>1. /\ app = "failed" /\ app' = "released" /\ xprt' = xprt /\ thr' = thr
      /\ calls' = calls /\ rail' = [rail EXCEPT !.ref = rail.ref - 1]
      /\ rail \in Rail /\ rail.ref \in Nat
  BY DEF AppDrop, CountInv, TypeOK, Rail
<1>2. In("pending") \in SUBSET Eps /\ In("up") \in SUBSET Eps /\ Busy \in SUBSET Eps
  BY DEF In, Busy
<1>3. /\ Cardinality(In("pending")) \in Nat /\ Cardinality(In("up")) \in Nat
      /\ Cardinality(Busy) \in Nat
  BY <1>2, EpsFinite
<1>4. rail.ref - 1 \in Nat
  BY <1>1, <1>3 DEF CountInv, RefsExact
<1>5. /\ rail' \in Rail /\ rail'.ref = rail.ref - 1
      /\ rail'.connecting_eps = rail.connecting_eps
      /\ rail'.connected_eps = rail.connected_eps
  BY <1>1, <1>4 DEF Rail
<1>6. In("pending")' = In("pending") /\ In("up")' = In("up") /\ Busy' = Busy
  BY <1>1 DEF In, Busy
<1>7. TypeOK' /\ CountersExact' /\ Fresh'
  BY <1>1, <1>5, <1>6 DEF CountInv, TypeOK, CountersExact, Fresh, AppState
<1>8. RefsExact'
  BY <1>1, <1>3, <1>5, <1>6 DEF CountInv, RefsExact
<1> QED BY <1>7, <1>8 DEF CountInv

\* Closing a rail changes no counter.
LEMMA AppCloseCounts ==
  ASSUME CountInv, AppClose
  PROVE  CountInv'
<1>1. /\ rail \in Rail /\ rail' = Close(rail) /\ xprt' = xprt /\ thr' = thr
      /\ app' = app /\ calls' = calls /\ app = "holds"
  BY DEF AppClose, CountInv, TypeOK
<1>2. In("pending")' = In("pending") /\ In("up")' = In("up") /\ Busy' = Busy
  BY <1>1 DEF In, Busy
<1> QED BY <1>1, <1>2, CloseFields
        DEF CountInv, TypeOK, CountersExact, RefsExact, Fresh

\* Nothing is counted in a new rail.
LEMMA InitCounts == Init => CountInv
<1> SUFFICES ASSUME Init PROVE CountInv
  OBVIOUS
<1>1. In("pending") = {} /\ In("up") = {} /\ Busy = {}
  BY DEF Init, In, Busy
<1>2. NewRail \in Rail
  BY DEF NewRail, Rail, EpState
<1>3. TypeOK
  BY <1>2 DEF Init, TypeOK, XprtState, AppState
<1>4. rail.connecting_eps = 0 /\ rail.connected_eps = 0 /\ rail.ref = 1 /\ app = "new"
  BY DEF Init, NewRail
<1>5. CountersExact /\ RefsExact
  BY <1>1, <1>4, FS_EmptySet DEF CountersExact, RefsExact
<1>6. Fresh
  BY DEF Init, Fresh
<1> QED BY <1>3, <1>5, <1>6 DEF CountInv

\* Every step of the connecting side keeps counters and references exact.
LEMMA NextCounts == CountInv /\ [Next]_vars => CountInv'
<1> SUFFICES ASSUME CountInv, [Next]_vars PROVE CountInv'
  OBVIOUS
<1>1. CASE \E n \in 0 .. NEps : Connect(n)
  BY <1>1, ConnectCounts
<1>2. CASE AppDrop
  BY <1>2, AppDropCounts
<1>3. CASE AppClose
  BY <1>3, AppCloseCounts
<1>4. CASE \E e \in Eps : Answered(e)
  BY <1>4, ConnectedCounts, RejectedCounts, ConnectErrorCounts DEF Answered
<1>5. CASE \E e \in Eps : Disconnected(e)
  BY <1>5, DisconnectedCounts
<1>6. CASE \E e \in Eps : Deliver(e)
  BY <1>6, DeliverCounts
<1>7. CASE UNCHANGED vars
  BY <1>7 DEF vars, CountInv, TypeOK, CountersExact, RefsExact, Fresh, In, Busy
<1> QED BY <1>1, <1>2, <1>3, <1>4, <1>5, <1>6, <1>7 DEF Next

\* The type invariant.  That the counters of __rail_cb() are natural numbers
\* rests on their being exact.
THEOREM TypeCorrect == Spec => []TypeOK
<1>1. CountInv => TypeOK
  BY DEF CountInv
<1> QED BY <1>1, InitCounts, NextCounts, PTL DEF Spec

\* r->connecting_eps and r->connected_eps are exact in every rail.
THEOREM CountersAreExact == Spec => []CountersExact
<1>1. CountInv => CountersExact
  BY DEF CountInv
<1> QED BY <1>1, InitCounts, NextCounts, PTL DEF Spec

\* Every reference of a rail has exactly one holder.
THEOREM RefsAreExact == Spec => []RefsExact
<1>1. CountInv => RefsExact
  BY DEF CountInv
<1> QED BY <1>1, InitCounts, NextCounts, PTL DEF Spec

\* A rail whose last reference is put has no callback running and no endpoint
\* with an event to come, and satisfies the asserts of __rail_ref_free().
FreedIsIdle ==
  rail.ref = 0 =>
    /\ \A e \in Eps : thr[e] = "idle" /\ xprt[e] \notin {"pending", "up"}
    /\ Drained(rail)

\* A rail is never freed while __rail_cb() runs or may still be called.
THEOREM NoUseAfterFree == Spec => []FreedIsIdle
<1>1. CountInv => FreedIsIdle
  <2> SUFFICES ASSUME CountInv, rail.ref = 0
               PROVE  /\ \A e \in Eps : thr[e] = "idle" /\ xprt[e] \notin {"pending", "up"}
                      /\ Drained(rail)
    BY DEF FreedIsIdle
  <2>1. In("pending") \in SUBSET Eps /\ In("up") \in SUBSET Eps /\ Busy \in SUBSET Eps
    BY DEF In, Busy
  <2>2. /\ Cardinality(In("pending")) = 0 /\ Cardinality(In("up")) = 0
        /\ Cardinality(Busy) = 0
    BY <2>1, EpsFinite DEF CountInv, RefsExact
  <2>3. In("pending") = {} /\ In("up") = {} /\ Busy = {}
    BY <2>1, <2>2, EpsFinite, FS_EmptySet
  <2> QED BY <2>2, <2>3 DEF In, Busy, Drained, CountInv, CountersExact
<1> QED BY <1>1, InitCounts, NextCounts, PTL DEF Spec

(***************************************************************************)
(* The order of the application's events.                                  *)
(***************************************************************************)

\* A set of endpoints that counts none is empty, one that counts all is full.
LEMMA NoneOrAll ==
  ASSUME NEW S \in SUBSET Eps
  PROVE  /\ Cardinality(S) = 0 => S = {}
         /\ Cardinality(S) = NEps => S = Eps
BY EpsFinite, FS_EmptySet, FS_Subset

\* While an endpoint has an event to come, the application was told at most
\* CONNECTED and no thread is about to tell it more than that.
LEMMA LiveMeansEarly ==
  ASSUME IInv, NEW e \in Eps, xprt[e] \in {"pending", "up"}
  PROVE  /\ \A i \in 1 .. Len(calls) : calls[i] = "CONNECTED" /\ i = 1
         /\ \A f \in Eps : thr[f] \notin Terminal
<1>1. In("pending") \cup In("up") # {}
  BY DEF In
<1> QED BY <1>1 DEF IInv, CallsInOrder, ThreadsInOrder

\* An endpoint event leaves the events told and about to be told in order.
LEMMA HandleOrder ==
  ASSUME IInv, CountInv', NEW e \in Eps, NEW r \in Rail, NEW x \in {"up", "gone"},
         xprt[e] \in {"pending", "up"}, thr[e] = "idle", Handle(e, r, x),
         r.state \in {"INIT", "CONNECTING", "ACCEPTING"} => rail.state = r.state
  PROVE  CallsInOrder' /\ ThreadsInOrder'
<1>1. /\ rail' = Prepped(r) /\ calls' = calls
      /\ xprt' = [xprt EXCEPT ![e] = x] /\ xprt \in [Eps -> XprtState]
      /\ thr' = [thr EXCEPT ![e] = PrepEvent(r)] /\ thr \in [Eps -> {"idle"} \cup RailEvent]
  BY DEF Handle, IInv, CountInv, TypeOK
<1>2. /\ \A i \in 1 .. Len(calls) : calls[i] = "CONNECTED" /\ i = 1
      /\ \A f \in Eps : thr[f] \notin Terminal
  BY LiveMeansEarly
<1>3. CallsInOrder'
  BY <1>1, <1>2 DEF CallsInOrder
<1>4. /\ \A f \in Eps \ {e} : thr'[f] = thr[f] /\ xprt'[f] = xprt[f]
      /\ thr'[e] = PrepEvent(r) /\ xprt'[e] = x
  BY <1>1
<1>5. PrepEvent(r) \in RailEvent /\ rail'.state = IF PrepEvent(r) = "CONNECTED"
                                                  THEN "CONNECTED" ELSE r.state
  BY <1>1, PreppedFields
<1>6. CASE PrepEvent(r) = "CONNECTED"
  <2>1. r.state \in {"CONNECTING", "ACCEPTING"} /\ r.connected_eps = NEps
    BY <1>6 DEF PrepEvent
  <2>2. calls = <<>> /\ \A f \in Eps : Quiet(f)
    BY <2>1 DEF IInv, EpsAgree, ThreadsInOrder
  <2>3. rail'.connected_eps = NEps /\ CountersExact'
    BY <1>1, <2>1, PreppedFields DEF CountInv
  <2>4. In("up")' = Eps
    <3>1. In("up")' \in SUBSET Eps
      BY DEF In
    <3> QED BY <2>3, <3>1, NoneOrAll DEF CountersExact
  <2>5. xprt'[e] = "up"
    BY <2>4 DEF In
  <2> QED BY <1>1, <1>3, <1>4, <1>5, <1>6, <2>2, <2>5 DEF ThreadsInOrder, Quiet, Terminal
<1>7. CASE PrepEvent(r) \in Terminal
  <2>1. Drained(r) /\ r.state \in {"ERROR", "REJECTED"}
    BY <1>7 DEF PrepEvent, Terminal
  <2>2. Drained(rail)' /\ CountersExact'
    BY <1>1, <2>1, PreppedFields DEF Drained, CountInv
  <2>3. \A f \in Eps : xprt'[f] \notin {"pending", "up"}
    <3>1. In("pending")' \in SUBSET Eps /\ In("up")' \in SUBSET Eps
      BY DEF In
    <3>2. In("pending")' = {} /\ In("up")' = {}
      BY <2>2, <3>1, NoneOrAll DEF CountersExact, Drained
    <3> QED BY <3>2 DEF In
  <2>4. \A f \in Eps \ {e} : thr[f] # "CONNECTED"
    BY <1>4, <2>3 DEF IInv, ThreadsInOrder
  <2>5. \A f \in Eps \ {e} : Quiet(f)'
    BY <1>1, <1>2, <1>4, <2>4 DEF Quiet, RailEvent
  <2> QED BY <1>1, <1>2, <1>3, <1>4, <1>5, <1>7, <2>1, <2>3, <2>5
          DEF ThreadsInOrder, Terminal, Quiet
<1>8. CASE PrepEvent(r) = "NONE"
  <2>1. \A f \in Eps : thr'[f] \notin Terminal
    BY <1>2, <1>4, <1>8 DEF Terminal
  <2>2. Quiet(e)'
    BY <1>4, <1>8 DEF Quiet
  <2>3. rail'.state \in {"INIT", "CONNECTING"} => rail.state \in {"INIT", "CONNECTING"}
    BY <1>5, <1>8
  <2>4. \A f \in Eps : Quiet(f) => Quiet(f)'
    BY <1>4, <2>2 DEF Quiet
  <2>5. rail'.state \in {"INIT", "CONNECTING"} => calls' = <<>> /\ \A f \in Eps : Quiet(f)'
    BY <1>1, <2>3, <2>4 DEF IInv, ThreadsInOrder
  <2>6. \A f \in Eps : thr'[f] = "CONNECTED" =>
          /\ xprt'[f] = "up" /\ calls' = <<>> /\ \A g \in Eps \ {f} : Quiet(g)'
    BY <1>1, <1>4, <1>8, <2>4 DEF IInv, ThreadsInOrder
  <2> QED BY <1>3, <2>1, <2>5, <2>6 DEF ThreadsInOrder
<1> QED BY <1>3, <1>5, <1>6, <1>7, <1>8 DEF RailEvent

\* Each endpoint event keeps the whole invariant.
LEMMA ConnectedOrder ==
  ASSUME IInv, NEW e \in Eps, Connected(e)
  PROVE  IInv'
<1> DEFINE r == OnConnected(rail, e)
<1>1. rail \in Rail /\ rail.connecting_eps >= 1 /\ ~rail.bad /\ xprt \in [Eps -> XprtState]
  <2>1. In("pending") \in SUBSET Eps /\ e \in In("pending")
    BY DEF In, Connected
  <2> QED BY <2>1, RemoveOne DEF Connected, Alive, IInv, CountInv, TypeOK, CountersExact
<1>2. CountInv'
  BY ConnectedCounts DEF IInv
<1>3. /\ Handle(e, r, "up") /\ xprt[e] = "pending" /\ thr[e] = "idle"
      /\ rail' = Prepped(r) /\ xprt' = [xprt EXCEPT ![e] = "up"]
  BY DEF Connected, Handle
<1>4. r \in Rail
  BY <1>1, OnConnectedFields, Zenon
<1>5. /\ r.state = rail.state
      /\ r.bad = (rail.state \notin {"CONNECTING", "ACCEPTING", "ERROR"})
      /\ r.ep = [rail.ep EXCEPT ![e] = IF rail.state = "ERROR" THEN "ERROR" ELSE "CONNECTED"]
      /\ r.closing = IF rail.state = "ERROR" THEN rail.closing \cup {e} ELSE rail.closing
  BY <1>1, OnConnectedFields, Zenon
<1> HIDE DEF r
<1>6. CallsInOrder' /\ ThreadsInOrder'
  BY <1>2, <1>3, <1>4, <1>5, HandleOrder
<1>7. EpsAgree'
  <2>1. /\ rail'.ep = r.ep /\ rail'.closing = r.closing /\ rail'.bad = r.bad
        /\ rail'.state = IF PrepEvent(r) = "CONNECTED" THEN "CONNECTED" ELSE r.state
    BY <1>3, <1>4, PreppedFields
  <2>2. \A f \in Eps : xprt'[f] = IF f = e THEN "up" ELSE xprt[f]
    BY <1>1, <1>3
  <2>3. /\ \A f \in Eps : rail'.ep[f] = IF f # e THEN rail.ep[f]
                                     ELSE IF rail.state = "ERROR" THEN "ERROR" ELSE "CONNECTED"
        /\ \A f \in Eps : f \in rail'.closing <=>
                             f \in rail.closing \/ (f = e /\ rail.state = "ERROR")
    BY <1>1, <1>5, <2>1 DEF Rail
  <2>4. \A f \in Eps : xprt'[f] = "up" => rail'.ep[f] = "CONNECTED" \/ f \in rail'.closing
    BY <2>2, <2>3 DEF IInv, EpsAgree
  <2>5. rail'.state \in {"INIT", "CONNECTING", "CONNECTED", "ERROR", "REJECTED"}
    BY <1>5, <2>1 DEF IInv, EpsAgree
  <2>6. ASSUME rail'.state \in {"ERROR", "REJECTED"}, ~rail'.bad
        PROVE  \A f \in Eps : rail'.ep[f] # "CONNECTED"
    <3>1. rail.state \in {"ERROR", "REJECTED"}
      BY <1>5, <2>1, <2>6
    <3>2. rail.state = "ERROR"
      BY <1>5, <2>1, <2>6, <3>1, Zenon
    <3> QED BY <1>1, <2>3, <3>2 DEF IInv, EpsAgree
  <2> QED BY <2>4, <2>5, <2>6 DEF EpsAgree
<1> QED BY <1>2, <1>6, <1>7 DEF IInv

LEMMA RejectedOrder ==
  ASSUME IInv, NEW e \in Eps, Rejected(e)
  PROVE  IInv'
<1> DEFINE r == OnRejected(rail, e)
<1>1. rail \in Rail /\ rail.connecting_eps >= 1 /\ ~rail.bad /\ xprt \in [Eps -> XprtState]
  <2>1. In("pending") \in SUBSET Eps /\ e \in In("pending")
    BY DEF In, Rejected
  <2> QED BY <2>1, RemoveOne DEF Rejected, Alive, IInv, CountInv, TypeOK, CountersExact
<1>2. CountInv'
  BY RejectedCounts DEF IInv
<1>3. /\ Handle(e, r, "gone") /\ xprt[e] = "pending" /\ thr[e] = "idle"
      /\ rail' = Prepped(r) /\ xprt' = [xprt EXCEPT ![e] = "gone"]
  BY DEF Rejected, Handle
<1>4. r \in Rail
  BY <1>1, OnRejectedFields, Zenon
<1>5. /\ r.state = "REJECTED"
      /\ \A f \in Eps : r.ep[f] = IF f = e THEN "REJECTED"
                                 ELSE IF rail.ep[f] = "CONNECTED" THEN "ERROR" ELSE rail.ep[f]
      /\ \A f \in Eps : f \in r.closing <=> f \in rail.closing \/ (f # e /\ rail.ep[f] = "CONNECTED")
  BY <1>1, OnRejectedFields, Zenon
<1> HIDE DEF r
<1>6. CallsInOrder' /\ ThreadsInOrder'
  BY <1>2, <1>3, <1>4, <1>5, HandleOrder
<1>7. EpsAgree'
  <2>1. /\ rail'.ep = r.ep /\ rail'.closing = r.closing /\ rail'.bad = r.bad
        /\ rail'.state = IF PrepEvent(r) = "CONNECTED" THEN "CONNECTED" ELSE r.state
    BY <1>3, <1>4, PreppedFields
  <2>2. \A f \in Eps : xprt'[f] = IF f = e THEN "gone" ELSE xprt[f]
    BY <1>1, <1>3
  <2> QED BY <1>1, <1>5, <2>1, <2>2 DEF IInv, EpsAgree, Rail, EpState
<1> QED BY <1>2, <1>6, <1>7 DEF IInv

LEMMA ConnectErrorOrder ==
  ASSUME IInv, NEW e \in Eps, ConnectError(e)
  PROVE  IInv'
<1> DEFINE r == OnError(rail, e)
<1>1. rail \in Rail /\ rail.connecting_eps >= 1 /\ ~rail.bad /\ xprt \in [Eps -> XprtState]
  <2>1. In("pending") \in SUBSET Eps /\ e \in In("pending")
    BY DEF In, ConnectError
  <2> QED BY <2>1, RemoveOne DEF ConnectError, Alive, IInv, CountInv, TypeOK, CountersExact
<1>2. CountInv'
  BY ConnectErrorCounts DEF IInv
<1>3. /\ Handle(e, r, "gone") /\ xprt[e] = "pending" /\ thr[e] = "idle"
      /\ rail' = Prepped(r) /\ xprt' = [xprt EXCEPT ![e] = "gone"]
  BY DEF ConnectError, Handle
<1>4. r \in Rail
  BY <1>1, OnErrorFields, Zenon
<1>5. /\ r.state = "ERROR"
      /\ \A f \in Eps : r.ep[f] = IF f = e THEN "ERROR"
                                 ELSE IF rail.ep[f] = "CONNECTED" THEN "ERROR" ELSE rail.ep[f]
      /\ \A f \in Eps : f \in r.closing <=> f \in rail.closing \/ (f # e /\ rail.ep[f] = "CONNECTED")
  BY <1>1, OnErrorFields, Zenon
<1> HIDE DEF r
<1>6. CallsInOrder' /\ ThreadsInOrder'
  BY <1>2, <1>3, <1>4, <1>5, HandleOrder
<1>7. EpsAgree'
  <2>1. /\ rail'.ep = r.ep /\ rail'.closing = r.closing /\ rail'.bad = r.bad
        /\ rail'.state = IF PrepEvent(r) = "CONNECTED" THEN "CONNECTED" ELSE r.state
    BY <1>3, <1>4, PreppedFields
  <2>2. \A f \in Eps : xprt'[f] = IF f = e THEN "gone" ELSE xprt[f]
    BY <1>1, <1>3
  <2> QED BY <1>1, <1>5, <2>1, <2>2 DEF IInv, EpsAgree, Rail, EpState
<1> QED BY <1>2, <1>6, <1>7 DEF IInv

LEMMA DisconnectedOrder ==
  ASSUME IInv, NEW e \in Eps, Disconnected(e)
  PROVE  IInv'
<1> DEFINE r == OnDisconnected(rail, e)
<1>1. rail \in Rail /\ rail.connected_eps >= 1 /\ ~rail.bad /\ xprt \in [Eps -> XprtState]
  <2>1. In("up") \in SUBSET Eps /\ e \in In("up")
    BY DEF In, Disconnected
  <2> QED BY <2>1, RemoveOne DEF Disconnected, Alive, IInv, CountInv, TypeOK, CountersExact
<1>2. CountInv'
  BY DisconnectedCounts DEF IInv
<1>3. /\ Handle(e, r, "gone") /\ xprt[e] = "up" /\ thr[e] = "idle"
      /\ rail' = Prepped(r) /\ xprt' = [xprt EXCEPT ![e] = "gone"]
  BY DEF Disconnected, Handle
<1>4. r \in Rail
  BY <1>1, OnDisconnectedFields, Zenon
<1>5. /\ r.state = IF rail.state = "CONNECTED" THEN "ERROR" ELSE rail.state
      /\ \A f \in Eps : r.ep[f] = IF rail.ep[f] # "CONNECTED" THEN rail.ep[f]
                                 ELSE IF f = e THEN "CLOSE" ELSE "ERROR"
      /\ \A f \in Eps : f \in r.closing <=> f \in rail.closing \/ (f # e /\ rail.ep[f] = "CONNECTED")
  <2>1. r.state = IF rail.state = "CONNECTED" THEN "ERROR" ELSE rail.state
    BY <1>1, OnDisconnectedFields, ZenonT(40)
  <2>2. \A f \in Eps : r.ep[f] = IF rail.ep[f] # "CONNECTED" THEN rail.ep[f]
                                 ELSE IF f = e THEN "CLOSE" ELSE "ERROR"
    BY <1>1, OnDisconnectedFields, ZenonT(40)
  <2>3. \A f \in Eps : f \in r.closing <=> f \in rail.closing \/ (f # e /\ rail.ep[f] = "CONNECTED")
    BY <1>1, OnDisconnectedFields, ZenonT(40)
  <2> HIDE DEF r
  <2> QED BY <2>1, <2>2, <2>3
<1> HIDE DEF r
<1>6. CallsInOrder' /\ ThreadsInOrder'
  BY <1>2, <1>3, <1>4, <1>5, HandleOrder
<1>7. EpsAgree'
  <2>1. /\ rail'.ep = r.ep /\ rail'.closing = r.closing /\ rail'.bad = r.bad
        /\ rail'.state = IF PrepEvent(r) = "CONNECTED" THEN "CONNECTED" ELSE r.state
    BY <1>3, <1>4, PreppedFields
  <2>2. \A f \in Eps : xprt'[f] = IF f = e THEN "gone" ELSE xprt[f]
    BY <1>1, <1>3
  <2> QED BY <1>1, <1>5, <2>1, <2>2 DEF IInv, EpsAgree, Rail, EpState
<1> QED BY <1>2, <1>6, <1>7 DEF IInv

\* Calling the application and leaving the callback keeps the whole invariant.
LEMMA DeliverOrder ==
  ASSUME IInv, NEW e \in Eps, Deliver(e)
  PROVE  IInv'
<1>1. CountInv'
  BY DeliverCounts DEF IInv
<1>2. /\ thr[e] \in RailEvent /\ thr' = [thr EXCEPT ![e] = "idle"] /\ xprt' = xprt
      /\ calls' = IF thr[e] = "NONE" THEN calls ELSE Append(calls, thr[e])
      /\ thr \in [Eps -> {"idle"} \cup RailEvent] /\ calls \in Seq(RailEvent)
  BY DEF IInv, CountInv, TypeOK, Deliver
<1>3. /\ rail'.state = rail.state /\ rail'.ep = rail.ep /\ rail'.bad = rail.bad
      /\ rail'.closing = rail.closing
  BY DEF IInv, CountInv, TypeOK, Rail, Deliver
<1>4. EpsAgree'
  BY <1>2, <1>3 DEF IInv, EpsAgree
<1>5. \A f \in Eps : (Quiet(f) => Quiet(f)') /\ (f # e => thr'[f] = thr[f]) /\ Quiet(e)'
  BY <1>2 DEF Quiet
<1>6. CASE thr[e] = "NONE"
  <2>1. calls' = calls
    BY <1>2, <1>6
  <2>2. CallsInOrder'
    BY <1>2, <2>1 DEF IInv, CallsInOrder, In
  <2>3. \A f \in Eps : thr'[f] \in RailEvent \ {"NONE"} => thr[f] = thr'[f]
    BY <1>2 DEF RailEvent, Terminal
  <2>4. ThreadsInOrder'
    BY <1>2, <1>3, <1>5, <2>1, <2>3 DEF IInv, ThreadsInOrder, RailEvent, Terminal
  <2> QED BY <1>1, <1>4, <2>2, <2>4 DEF IInv
<1>7. CASE thr[e] = "CONNECTED"
  <2>1. calls = <<>> /\ \A f \in Eps \ {e} : Quiet(f)
    BY <1>7 DEF IInv, ThreadsInOrder
  <2>2. rail.state \notin {"INIT", "CONNECTING"}
    BY <1>7 DEF IInv, ThreadsInOrder, Quiet
  <2>3. Len(calls') = 1 /\ calls'[1] = "CONNECTED"
    BY <1>2, <1>7, <2>1
  <2>4. \A f \in Eps : Quiet(f)'
    BY <1>5, <2>1
  <2>5. CallsInOrder'
    BY <2>3 DEF CallsInOrder
  <2>6. ThreadsInOrder'
    BY <1>3, <2>2, <2>4 DEF ThreadsInOrder, Quiet, Terminal
  <2> QED BY <1>1, <1>4, <2>5, <2>6 DEF IInv
<1>8. CASE thr[e] \in Terminal
  <2>1. /\ \A f \in Eps : xprt[f] \notin {"pending", "up"}
        /\ \A i \in 1 .. Len(calls) : calls[i] = "CONNECTED"
        /\ \A f \in Eps \ {e} : Quiet(f)
    BY <1>8 DEF IInv, ThreadsInOrder
  <2>2. rail.state \notin {"INIT", "CONNECTING"}
    BY <1>8 DEF IInv, ThreadsInOrder, Quiet, Terminal
  <2>3. /\ Len(calls') = Len(calls) + 1 /\ calls'[Len(calls) + 1] \in Terminal
        /\ \A i \in 1 .. Len(calls) : calls'[i] = calls[i]
        /\ Len(calls) \in Nat
    BY <1>2, <1>8 DEF Terminal
  <2>4. \A i \in 1 .. Len(calls) : calls'[i] = "CONNECTED" /\ i = 1
    BY <2>1, <2>3 DEF IInv, CallsInOrder, Terminal
  <2>5. (In("pending") \cup In("up"))' = {}
    BY <1>2, <2>1 DEF In
  <2>6. CallsInOrder'
    BY <2>3, <2>4, <2>5 DEF CallsInOrder
  <2>7. ThreadsInOrder'
    BY <1>3, <1>5, <2>1, <2>2 DEF ThreadsInOrder, Quiet, Terminal
  <2> QED BY <1>1, <1>4, <2>6, <2>7 DEF IInv
<1> QED BY <1>2, <1>6, <1>7, <1>8 DEF RailEvent

\* ldms_xprt_connect() keeps the whole invariant.
LEMMA ConnectOrder ==
  ASSUME IInv, NEW n \in 0 .. NEps, Connect(n)
  PROVE  IInv'
<1>1. CountInv'
  BY ConnectCounts DEF IInv
<1>2. /\ calls = <<>> /\ calls' = calls /\ thr' = thr
      /\ \A e \in Eps : thr[e] = "idle"
      /\ rail = NewRail /\ rail \in Rail /\ n \in Nat
      /\ xprt' = [e \in Eps |-> IF e < n THEN "pending" ELSE "none"]
  BY DEF Connect, IInv, CountInv, Fresh, TypeOK
<1>3. PICK s \in {"INIT", "ERROR"} :
        rail' = [rail EXCEPT
                   !.state = IF n = NEps THEN "CONNECTING" ELSE "ERROR",
                   !.ep = [e \in Eps |-> IF e < n THEN "CONNECTING"
                                         ELSE IF e = n THEN s ELSE rail.ep[e]],
                   !.connecting_eps = rail.connecting_eps + n,
                   !.ref = rail.ref + n]
  BY <1>2 DEF Connect, Rail
<1>4. /\ rail'.state \in {"CONNECTING", "ERROR"}
      /\ \A e \in Eps : rail'.ep[e] \in {"CONNECTING", "INIT", "ERROR"}
  <2>1. \A e \in Eps : rail.ep[e] = "INIT"
    BY <1>2 DEF NewRail
  <2> QED BY <1>2, <1>3, <2>1 DEF Rail
<1>5. EpsAgree'
  BY <1>2, <1>4 DEF EpsAgree
<1>6. CallsInOrder' /\ ThreadsInOrder'
  BY <1>2 DEF CallsInOrder, ThreadsInOrder, Quiet, Terminal
<1> QED BY <1>1, <1>5, <1>6 DEF IInv

\* Dropping the rail after a failed connect keeps the whole invariant.
LEMMA AppDropOrder ==
  ASSUME IInv, AppDrop
  PROVE  IInv'
<1>1. CountInv'
  BY AppDropCounts DEF IInv
<1>2. xprt' = xprt /\ thr' = thr /\ calls' = calls
  BY DEF AppDrop
<1>3. /\ rail'.state = rail.state /\ rail'.ep = rail.ep /\ rail'.bad = rail.bad
      /\ rail'.closing = rail.closing
  BY DEF IInv, CountInv, TypeOK, Rail, AppDrop
<1>4. EpsAgree' /\ CallsInOrder' /\ ThreadsInOrder'
  BY <1>2, <1>3 DEF IInv, EpsAgree, CallsInOrder, ThreadsInOrder, Quiet, In
<1> QED BY <1>1, <1>4 DEF IInv

\* ldms_xprt_close() keeps the whole invariant.
LEMMA AppCloseOrder ==
  ASSUME IInv, AppClose
  PROVE  IInv'
<1>1. CountInv'
  BY AppCloseCounts DEF IInv
<1>2. xprt' = xprt /\ thr' = thr /\ calls' = calls /\ rail' = Close(rail) /\ rail \in Rail
  BY DEF AppClose, IInv, CountInv, TypeOK
<1>3. /\ rail'.state = "ERROR"
      /\ \A e \in Eps : e \in rail'.closing <=> e \in rail.closing \/ rail.ep[e] = "CONNECTED"
      /\ \A e \in Eps : rail'.ep[e] = IF rail.ep[e] = "CONNECTED" THEN "ERROR" ELSE rail.ep[e]
  BY <1>2, CloseFields
<1>4. EpsAgree'
  BY <1>2, <1>3 DEF IInv, EpsAgree
<1>5. CallsInOrder' /\ ThreadsInOrder'
  BY <1>2, <1>3 DEF IInv, CallsInOrder, ThreadsInOrder, Quiet, In
<1> QED BY <1>1, <1>4, <1>5 DEF IInv

\* A new rail satisfies the whole invariant, ...
LEMMA InitOrder == Init => IInv
<1> SUFFICES ASSUME Init PROVE IInv
  OBVIOUS
<1>1. EpsAgree /\ CallsInOrder /\ ThreadsInOrder
  BY DEF Init, NewRail, EpsAgree, CallsInOrder, ThreadsInOrder, Quiet, Terminal
<1> QED BY <1>1, InitCounts DEF IInv

\* ... and every step keeps it.
LEMMA NextOrder == IInv /\ [Next]_vars => IInv'
<1> SUFFICES ASSUME IInv, [Next]_vars PROVE IInv'
  OBVIOUS
<1>1. CASE \E n \in 0 .. NEps : Connect(n)
  BY <1>1, ConnectOrder
<1>2. CASE AppDrop
  BY <1>2, AppDropOrder
<1>3. CASE AppClose
  BY <1>3, AppCloseOrder
<1>4. CASE \E e \in Eps : Answered(e)
  BY <1>4, ConnectedOrder, RejectedOrder, ConnectErrorOrder DEF Answered
<1>5. CASE \E e \in Eps : Disconnected(e)
  BY <1>5, DisconnectedOrder
<1>6. CASE \E e \in Eps : Deliver(e)
  BY <1>6, DeliverOrder
<1>7. CASE UNCHANGED vars
  <2>1. CountInv'
    BY <1>7, NextCounts DEF IInv
  <2> QED BY <1>7, <2>1 DEF vars, IInv, EpsAgree, CallsInOrder, ThreadsInOrder, Quiet, In
<1> QED BY <1>1, <1>2, <1>3, <1>4, <1>5, <1>6, <1>7 DEF Next

\* Whatever the interleaving of the endpoints' callbacks, the application sees
\* CONNECTED first if at all, and one terminal event, last, when every endpoint
\* is finished.
THEOREM EventsAreOrdered == Spec => []CallsInOrder
<1>1. IInv => CallsInOrder
  BY DEF IInv
<1> QED BY <1>1, InitOrder, NextOrder, PTL DEF Spec

\* A failed rail closes every endpoint that is up.
THEOREM NothingLeftBehind == Spec => []NoEndpointLeftBehind
<1>1. IInv => NoEndpointLeftBehind
  BY DEF IInv, EpsAgree, NoEndpointLeftBehind, In
<1> QED BY <1>1, InitOrder, NextOrder, PTL DEF Spec

(***************************************************************************)
(* The asserts of __rail_cb().                                             *)
(***************************************************************************)

\* Until an assert fails, an endpoint that waits for its answer is CONNECTING in
\* a rail that still expects answers or was rejected; one that is up is CONNECTED
\* or was closed here.
Expected ==
  /\ NoAssertFails
  /\ ~rail.bad => \A e \in Eps :
       /\ xprt[e] = "pending" => /\ rail.ep[e] = "CONNECTING"
                                 /\ rail.state \in {"CONNECTING", "ERROR", "REJECTED"}
       /\ xprt[e] = "up" => rail.ep[e] \in {"CONNECTED", "ERROR"}

\* An event that changes the endpoint's state as its transport, keeps the
\* others (but for the cut) and finds what it asserts keeps the rail as expected;
\* so does one that connects an endpoint of a rejected rail.
LEMMA HandleExpected ==
  ASSUME Expected, ~rail.bad, CountInv, CountInv',
         NEW e \in Eps, NEW r \in Rail, NEW x \in {"up", "gone"},
         Handle(e, r, x), r.bad => r.state = "REJECTED" /\ x = "up",
         rail.state \in {"CONNECTING", "ERROR", "REJECTED"} =>
            r.state \in {"CONNECTING", "ERROR", "REJECTED"},
         x = "up" => r.ep[e] \in {"CONNECTED", "ERROR"},
         \A f \in Eps : f # e => \/ r.ep[f] = rail.ep[f]
                                 \/ rail.ep[f] = "CONNECTED" /\ r.ep[f] = "ERROR"
  PROVE  Expected'
<1>1. /\ rail' = Prepped(r) /\ xprt' = [xprt EXCEPT ![e] = x] /\ xprt \in [Eps -> XprtState]
  BY DEF Handle, CountInv, TypeOK
<1>2. \A f \in Eps : xprt'[f] = IF f = e THEN x ELSE xprt[f]
  BY <1>1
<1>3. /\ rail'.bad = r.bad /\ rail'.ep = r.ep /\ rail'.connected_eps = r.connected_eps
      /\ rail'.state = IF PrepEvent(r) = "CONNECTED" THEN "CONNECTED" ELSE r.state
  BY <1>1, PreppedFields
<1>4. PrepEvent(r) = "CONNECTED" => \A f \in Eps : xprt'[f] = "up"
  <2> SUFFICES ASSUME PrepEvent(r) = "CONNECTED" PROVE \A f \in Eps : xprt'[f] = "up"
    OBVIOUS
  <2>1. r.connected_eps = NEps
    BY DEF PrepEvent
  <2>2. In("up")' \in SUBSET Eps /\ Cardinality(In("up")') = NEps
    BY <1>3, <2>1 DEF In, CountInv, CountersExact
  <2>3. In("up")' = Eps
    BY <2>2, NoneOrAll
  <2> QED BY <2>3 DEF In
<1>5. NoAssertFails'
  <2> SUFFICES ASSUME rail'.bad PROVE rail'.state = "REJECTED" /\ In("up")' # {}
    BY DEF NoAssertFails
  <2>1. r.state = "REJECTED" /\ x = "up"
    BY <1>3
  <2>2. PrepEvent(r) # "CONNECTED"
    BY <2>1 DEF PrepEvent, Terminal
  <2>3. e \in In("up")'
    BY <1>2, <2>1 DEF In
  <2> QED BY <1>3, <2>1, <2>2, <2>3
<1>6. ASSUME NEW f \in Eps, xprt'[f] = "pending"
      PROVE  /\ rail'.ep[f] = "CONNECTING"
             /\ rail'.state \in {"CONNECTING", "ERROR", "REJECTED"}
  <2>1. f # e /\ xprt[f] = "pending" /\ PrepEvent(r) # "CONNECTED"
    BY <1>2, <1>4, <1>6
  <2> QED BY <1>3, <2>1 DEF Expected
<1>7. ASSUME NEW f \in Eps, xprt'[f] = "up"
      PROVE  rail'.ep[f] \in {"CONNECTED", "ERROR"}
  BY <1>2, <1>3, <1>7 DEF Expected
<1> QED BY <1>5, <1>6, <1>7 DEF Expected

\* Each step keeps the rail as expected.
LEMMA NextExpected ==
  ASSUME Expected, CountInv, CountInv', [Next]_vars
  PROVE  Expected'
<1>t. rail \in Rail /\ xprt \in [Eps -> XprtState]
  BY DEF CountInv, TypeOK
<1>p. \A e \in Eps : /\ xprt[e] = "pending" => rail.connecting_eps >= 1
                     /\ xprt[e] = "up" => rail.connected_eps >= 1
  <2> TAKE e \in Eps
  <2>1. In("pending") \in SUBSET Eps /\ In("up") \in SUBSET Eps
        /\ (xprt[e] = "pending" => e \in In("pending")) /\ (xprt[e] = "up" => e \in In("up"))
    BY DEF In
  <2> QED BY <2>1, RemoveOne DEF CountInv, CountersExact
<1>a. ~rail.bad \/ UNCHANGED vars
  BY DEF Next, Connect, AppDrop, AppClose, Answered, Connected, Rejected, ConnectError,
         Disconnected, Deliver, Alive
<1>1. ASSUME ~rail.bad, NEW n \in 0 .. NEps, Connect(n) PROVE Expected'
  <2>1. PICK s \in {"INIT", "ERROR"} :
          rail' = [rail EXCEPT
                     !.state = IF n = NEps THEN "CONNECTING" ELSE "ERROR",
                     !.ep = [e \in Eps |-> IF e < n THEN "CONNECTING"
                                           ELSE IF e = n THEN s ELSE rail.ep[e]],
                     !.connecting_eps = rail.connecting_eps + n,
                     !.ref = rail.ref + n]
    BY <1>1, <1>t DEF Connect, Rail
  <2>2. /\ rail'.state \in {"CONNECTING", "ERROR"} /\ rail'.bad = rail.bad
        /\ \A e \in Eps : e < n => rail'.ep[e] = "CONNECTING"
    BY <2>1, <1>t DEF Rail
  <2>3. xprt' = [e \in Eps |-> IF e < n THEN "pending" ELSE "none"]
    BY <1>1 DEF Connect
  <2>4. ~rail'.bad
    BY <1>1, <2>2
  <2> QED BY <2>2, <2>3, <2>4 DEF Expected, NoAssertFails
<1>2. CASE AppDrop \/ \E e \in Eps : Deliver(e)
  <2>1. /\ xprt' = xprt /\ rail'.state = rail.state /\ rail'.ep = rail.ep /\ rail'.bad = rail.bad
    BY <1>2, <1>t DEF AppDrop, Deliver, Rail
  <2> QED BY <2>1 DEF Expected, NoAssertFails, In
<1>3. ASSUME ~rail.bad, AppClose PROVE Expected'
  <2>1. /\ xprt' = xprt /\ rail' = Close(rail)
    BY <1>3 DEF AppClose
  <2>2. /\ rail'.state = "ERROR" /\ rail'.bad = rail.bad
        /\ \A e \in Eps : rail'.ep[e] = IF rail.ep[e] = "CONNECTED" THEN "ERROR" ELSE rail.ep[e]
    BY <2>1, <1>t, CloseFields
  <2>3. ~rail'.bad
    BY <1>3, <2>2
  <2> QED BY <1>3, <2>1, <2>2, <2>3 DEF Expected, NoAssertFails
<1>4. ASSUME ~rail.bad, NEW e \in Eps, Connected(e) PROVE Expected'
  <2> DEFINE r == OnConnected(rail, e)
  <2>1. xprt[e] = "pending" /\ Handle(e, r, "up")
    BY <1>4 DEF Connected
  <2>2. rail.connecting_eps >= 1 /\ rail.state \in {"CONNECTING", "ERROR", "REJECTED"}
    BY <1>4, <2>1, <1>p DEF Expected
  <2>3. r \in Rail /\ r.state = rail.state
    BY <2>2, <1>t, OnConnectedFields
  <2>4. r.ep = [rail.ep EXCEPT ![e] = IF rail.state = "ERROR" THEN "ERROR" ELSE "CONNECTED"]
    BY <2>2, <1>t, OnConnectedFields
  <2>5. r.bad = (rail.state \notin {"CONNECTING", "ACCEPTING", "ERROR"})
    BY <2>2, <1>t, OnConnectedFields, Zenon
  <2> HIDE DEF r
  <2>6. r.bad => r.state = "REJECTED"
    BY <2>2, <2>3, <2>5
  <2>7. /\ r.ep[e] \in {"CONNECTED", "ERROR"}
        /\ \A f \in Eps : f # e => r.ep[f] = rail.ep[f]
    BY <2>4, <1>t DEF Rail
  <2> QED BY <1>4, <2>1, <2>2, <2>3, <2>6, <2>7, HandleExpected
<1>5. ASSUME ~rail.bad, NEW e \in Eps, ConnectError(e) PROVE Expected'
  <2> DEFINE r == OnError(rail, e)
  <2>1. xprt[e] = "pending" /\ Handle(e, r, "gone")
    BY <1>5 DEF ConnectError
  <2>2. rail.connecting_eps >= 1 /\ rail.ep[e] = "CONNECTING"
    BY <1>5, <2>1, <1>p DEF Expected
  <2>3. /\ r \in Rail /\ r.state = "ERROR"
        /\ \A f \in Eps : r.ep[f] = IF f = e THEN "ERROR"
                                   ELSE IF rail.ep[f] = "CONNECTED" THEN "ERROR" ELSE rail.ep[f]
    BY <2>2, <1>t, OnErrorFields
  <2>4. r.bad = (rail.ep[e] \notin {"CONNECTING", "ACCEPTING"})
    BY <2>2, <1>t, OnErrorFields, Zenon
  <2> HIDE DEF r
  <2>5. ~r.bad
    BY <2>2, <2>4
  <2> QED BY <1>5, <2>1, <2>3, <2>5, HandleExpected
<1>6. ASSUME ~rail.bad, NEW e \in Eps, Disconnected(e) PROVE Expected'
  <2> DEFINE r == OnDisconnected(rail, e)
  <2>1. xprt[e] = "up" /\ Handle(e, r, "gone")
    BY <1>6 DEF Disconnected
  <2>2. rail.connected_eps >= 1 /\ rail.ep[e] \in {"CONNECTED", "ERROR"}
    BY <1>6, <2>1, <1>p DEF Expected
  <2>3. /\ r \in Rail /\ r.state = IF rail.state = "CONNECTED" THEN "ERROR" ELSE rail.state
        /\ \A f \in Eps : r.ep[f] = IF rail.ep[f] # "CONNECTED" THEN rail.ep[f]
                                   ELSE IF f = e THEN "CLOSE" ELSE "ERROR"
    BY <2>2, <1>t, OnDisconnectedFields
  <2>4. r.bad = (rail.ep[e] \notin {"CONNECTED", "ERROR"})
    BY <2>2, <1>t, OnDisconnectedFields, ZenonT(40)
  <2> HIDE DEF r
  <2>5. ~r.bad
    BY <2>2, <2>4
  <2>6. rail.state \in {"CONNECTING", "ERROR", "REJECTED"} =>
           r.state \in {"CONNECTING", "ERROR", "REJECTED"}
    BY <2>3
  <2> QED BY <1>6, <2>1, <2>3, <2>5, <2>6, HandleExpected
<1>7. ASSUME ~rail.bad, NEW e \in Eps, Rejected(e) PROVE Expected'
  <2> DEFINE r == OnRejected(rail, e)
  <2>1. xprt[e] = "pending" /\ Handle(e, r, "gone")
    BY <1>7 DEF Rejected
  <2>2. rail.connecting_eps >= 1 /\ rail.ep[e] = "CONNECTING"
    BY <1>7, <2>1, <1>p DEF Expected
  <2>3. /\ r \in Rail /\ r.state = "REJECTED"
        /\ \A f \in Eps : r.ep[f] = IF f = e THEN "REJECTED"
                                   ELSE IF rail.ep[f] = "CONNECTED" THEN "ERROR" ELSE rail.ep[f]
    BY <2>2, <1>t, OnRejectedFields
  <2>4. r.bad = (rail.ep[e] \notin {"CONNECTING", "ACCEPTING"})
    BY <2>2, <1>t, OnRejectedFields, Zenon
  <2> HIDE DEF r
  <2>5. ~r.bad
    BY <2>2, <2>4
  <2> QED BY <1>7, <2>1, <2>3, <2>5, HandleExpected
<1>8. CASE UNCHANGED vars
  BY <1>8 DEF vars, Expected, NoAssertFails, In
<1> QED BY <1>a, <1>1, <1>2, <1>3, <1>4, <1>5, <1>6, <1>7, <1>8 DEF Next, Answered

\* Whatever the answers, the losses and their interleaving, and for any number of
\* endpoints: an assert of __rail_cb() on the states of the rail and of the
\* endpoint fails only when an endpoint is connected after another one was
\* rejected.
THEOREM AssertsHold == Spec => []NoAssertFails
<1>1. Init => Expected
  BY DEF Init, Expected, NoAssertFails, NewRail
<1>2. CountInv /\ CountInv' /\ Expected /\ [Next]_vars => Expected'
  BY NextExpected
<1>3. Expected => NoAssertFails
  BY DEF Expected
<1> QED BY <1>1, <1>2, <1>3, InitCounts, NextCounts, PTL DEF Spec
=============================================================================
