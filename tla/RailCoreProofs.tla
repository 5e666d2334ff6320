--------------------------- MODULE RailCoreProofs ---------------------------
(***************************************************************************)
(* Lemmas on which the theorems about both sides of a rail rest: counting  *)
(* endpoints, and what each part of __rail_cb() does to a rail's fields.   *)
(***************************************************************************)
EXTENDS RailCore, FiniteSetTheorems, TLAPS

(***************************************************************************)
(* Counting endpoints.                                                     *)
(***************************************************************************)

\* The endpoints of a rail are finitely many, and so is any set of them.
LEMMA EpsFinite == /\ IsFiniteSet(Eps)
                   /\ Cardinality(Eps) = NEps
                   /\ \A S \in SUBSET Eps : IsFiniteSet(S) /\ Cardinality(S) \in Nat
<1>1. 0 \in Int /\ NEps - 1 \in Int /\ NEps \in Nat \ {0}
  BY NEpsAssumption
<1>2. IsFiniteSet(0 .. NEps - 1)
      /\ Cardinality(0 .. NEps - 1) = IF 0 > NEps - 1 THEN 0 ELSE NEps - 1 - 0 + 1
  BY <1>1, FS_Interval
<1>3. IsFiniteSet(Eps) /\ Cardinality(Eps) = NEps
  BY <1>1, <1>2 DEF Eps
<1>4. ASSUME NEW S \in SUBSET Eps PROVE IsFiniteSet(S) /\ Cardinality(S) \in Nat
  BY <1>3, FS_Subset, FS_CardinalityType
<1> QED BY <1>3, <1>4

\* Adding a new endpoint to a set of endpoints adds one to its size.
LEMMA AddOne == ASSUME NEW S \in SUBSET Eps, NEW e \in Eps, e \notin S
                PROVE  Cardinality(S \cup {e}) = Cardinality(S) + 1
BY EpsFinite, FS_AddElement

\* Removing one of its endpoints takes one from its size, which was positive.
LEMMA RemoveOne == ASSUME NEW S \in SUBSET Eps, NEW e \in S
                   PROVE  /\ Cardinality(S \ {e}) = Cardinality(S) - 1
                          /\ Cardinality(S) >= 1
<1>1. S \ {e} \in SUBSET Eps /\ e \in Eps /\ e \notin S \ {e} /\ (S \ {e}) \cup {e} = S
  OBVIOUS
<1>2. Cardinality(S) = Cardinality(S \ {e}) + 1
  BY <1>1, AddOne
<1> QED BY <1>1, <1>2, EpsFinite

\* The first n endpoints are n.
LEMMA Prefix == ASSUME NEW n \in 0 .. NEps
                PROVE  Cardinality({e \in Eps : e < n}) = n
<1>1. {e \in Eps : e < n} = 0 .. n - 1
  BY NEpsAssumption DEF Eps
<1>2. Cardinality(0 .. n - 1) = IF 0 > n - 1 THEN 0 ELSE n - 1 - 0 + 1
  BY FS_Interval, NEpsAssumption
<1>3. Cardinality(0 .. n - 1) = n
  BY <1>2, NEpsAssumption
<1> QED BY <1>1, <1>3, Zenon

(***************************************************************************)
(* What the parts of __rail_cb() do to the fields of a rail.               *)
(***************************************************************************)

\* __rail_cut() changes only endpoint states and what is being closed.
LEMMA CutFields ==
  ASSUME NEW r \in Rail
  PROVE  /\ Cut(r) \in Rail
         /\ Cut(r).connecting_eps = r.connecting_eps
         /\ Cut(r).connected_eps = r.connected_eps
         /\ Cut(r).ref = r.ref
         /\ Cut(r).state = r.state
         /\ Cut(r).bad = r.bad
         /\ Cut(r).passive = r.passive /\ Cut(r).connreq_eps = r.connreq_eps
         /\ \A e \in Eps : e \in Cut(r).closing <=> e \in r.closing \/ r.ep[e] = "CONNECTED"
         /\ \A e \in Eps : Cut(r).ep[e] = IF r.ep[e] = "CONNECTED" THEN "ERROR" ELSE r.ep[e]
<1> DEFINE up == {e \in Eps : r.ep[e] = "CONNECTED"}
           newep == [e \in Eps |-> IF e \in up THEN "ERROR" ELSE r.ep[e]]
<1>1. newep \in [Eps -> EpState] /\ r.closing \cup up \in SUBSET Eps
  BY DEF Rail, EpState
<1>2. \A e \in Eps : /\ newep[e] = IF r.ep[e] = "CONNECTED" THEN "ERROR" ELSE r.ep[e]
                     /\ e \in up <=> r.ep[e] = "CONNECTED"
  OBVIOUS
<1>3. Cut(r) = [r EXCEPT !.ep = newep, !.closing = r.closing \cup up]
  BY DEF Cut, Rail
<1> HIDE DEF up, newep
<1>4. Cut(r) \in Rail
  BY <1>1, <1>3 DEF Rail
<1>5. Cut(r).closing = r.closing \cup up /\ Cut(r).ep = newep
  BY <1>3 DEF Rail
<1>6. /\ Cut(r).connecting_eps = r.connecting_eps
      /\ Cut(r).connected_eps = r.connected_eps
      /\ Cut(r).ref = r.ref
      /\ Cut(r).state = r.state
      /\ Cut(r).bad = r.bad
      /\ Cut(r).passive = r.passive /\ Cut(r).connreq_eps = r.connreq_eps
  BY <1>3 DEF Rail
<1>7. \A e \in Eps : e \in Cut(r).closing <=> e \in r.closing \/ r.ep[e] = "CONNECTED"
  BY <1>2, <1>5
<1> QED BY <1>2, <1>4, <1>5, <1>6, <1>7, Zenon

\* Nothing but r->state depends on whether __rail_ev_prep() found the rail
\* connected.
LEMMA PreppedFields ==
  ASSUME NEW r \in Rail
  PROVE  /\ Prepped(r) \in Rail
         /\ PrepEvent(r) \in RailEvent
         /\ Prepped(r).connecting_eps = r.connecting_eps
         /\ Prepped(r).connected_eps = r.connected_eps
         /\ Prepped(r).ref = r.ref
         /\ Prepped(r).state = IF PrepEvent(r) = "CONNECTED" THEN "CONNECTED" ELSE r.state
         /\ Prepped(r).bad = r.bad
         /\ Prepped(r).passive = r.passive /\ Prepped(r).connreq_eps = r.connreq_eps
         /\ Prepped(r).closing = r.closing
         /\ Prepped(r).ep = r.ep
<1>1. PrepEvent(r) \in RailEvent
  BY DEF PrepEvent, RailEvent, Terminal
<1>2. CASE PrepEvent(r) = "CONNECTED"
  BY <1>1, <1>2 DEF Prepped, Rail, EpState
<1>3. CASE PrepEvent(r) # "CONNECTED"
  BY <1>1, <1>3 DEF Prepped
<1> QED BY <1>2, <1>3

\* The fields after each endpoint event, with the counter that the event
\* decrements known to be positive.
LEMMA OnConnectedFields ==
  ASSUME NEW r \in Rail, NEW e \in Eps, r.connecting_eps >= 1
  PROVE  LET s == OnConnected(r, e) IN
         /\ s \in Rail
         /\ s.passive = r.passive /\ s.connreq_eps = r.connreq_eps
         /\ s.connecting_eps = r.connecting_eps - 1
         /\ s.connected_eps = r.connected_eps + 1
         /\ s.ref = r.ref + 1
         /\ s.state = r.state
         /\ s.ep = [r.ep EXCEPT ![e] = IF r.state = "ERROR" THEN "ERROR" ELSE "CONNECTED"]
         /\ s.closing = IF r.state = "ERROR" THEN r.closing \cup {e} ELSE r.closing
         /\ s.bad = (r.state \notin {"CONNECTING", "ACCEPTING", "ERROR"})
<1> DEFINE st == IF r.state = "ERROR" THEN "ERROR" ELSE "CONNECTED"
           cl == IF r.state = "ERROR" THEN r.closing \cup {e} ELSE r.closing
           bd == r.state \notin {"CONNECTING", "ACCEPTING", "ERROR"}
<1>1. st \in EpState /\ cl \in SUBSET Eps
  BY DEF EpState, Rail
<1>2. bd \in BOOLEAN
  BY Zenon
<1>3. OnConnected(r, e) =
        [r EXCEPT !.ref = r.ref + 1, !.ep = [r.ep EXCEPT ![e] = st], !.closing = cl,
                  !.connected_eps = r.connected_eps + 1,
                  !.connecting_eps = r.connecting_eps - 1, !.bad = bd]
  BY DEF OnConnected, Rail
<1> HIDE DEF st, cl, bd
<1>4. /\ r.ref + 1 \in Nat /\ r.connected_eps + 1 \in Nat /\ r.connecting_eps - 1 \in Nat
      /\ [r.ep EXCEPT ![e] = st] \in [Eps -> EpState]
  BY <1>1 DEF Rail
<1>5. OnConnected(r, e) \in Rail
  BY <1>1, <1>2, <1>3, <1>4, Zenon DEF Rail
<1> QED BY <1>3, <1>5 DEF Rail, st, cl, bd

\* After REJECTED: one endpoint fewer is connecting, none is left CONNECTED.
LEMMA OnRejectedFields ==
  ASSUME NEW r \in Rail, NEW e \in Eps, r.connecting_eps >= 1
  PROVE  LET s == OnRejected(r, e) IN
         /\ s \in Rail
         /\ s.passive = r.passive /\ s.connreq_eps = r.connreq_eps
         /\ s.connecting_eps = r.connecting_eps - 1
         /\ s.connected_eps = r.connected_eps
         /\ s.ref = r.ref
         /\ s.state = "REJECTED"
         /\ \A f \in Eps : s.ep[f] = IF f = e THEN "REJECTED"
                                    ELSE IF r.ep[f] = "CONNECTED" THEN "ERROR" ELSE r.ep[f]
         /\ \A f \in Eps : f \in s.closing <=> f \in r.closing \/ (f # e /\ r.ep[f] = "CONNECTED")
         /\ s.bad = (r.ep[e] \notin {"CONNECTING", "ACCEPTING"})
<1> DEFINE bd == r.ep[e] \notin {"CONNECTING", "ACCEPTING"}
           newep == [r.ep EXCEPT ![e] = "REJECTED"]
           q == [r EXCEPT !.bad = bd, !.connecting_eps = r.connecting_eps - 1,
                          !.rejected_eps = r.rejected_eps + 1,
                          !.state = "REJECTED", !.ep = newep]
<1>1. bd \in BOOLEAN /\ "REJECTED" \in EpState
  BY Zenon DEF EpState
<1>2. OnRejected(r, e) = Cut(q)
  BY DEF OnRejected, Rail
<1>3. /\ r.connecting_eps - 1 \in Nat /\ r.rejected_eps + 1 \in Nat
      /\ newep \in [Eps -> EpState]
      /\ \A f \in Eps : newep[f] = IF f = e THEN "REJECTED" ELSE r.ep[f]
  BY DEF Rail, EpState
<1> HIDE DEF bd, newep
<1>4. q \in Rail
  BY <1>1, <1>3, Zenon DEF Rail
<1>5. /\ q.connecting_eps = r.connecting_eps - 1
      /\ q.connected_eps = r.connected_eps
      /\ q.ref = r.ref
      /\ q.state = "REJECTED"
      /\ q.closing = r.closing
      /\ q.ep = newep
      /\ q.bad = bd
      /\ q.passive = r.passive /\ q.connreq_eps = r.connreq_eps
  BY DEF Rail
<1> HIDE DEF q
<1>6. \A f \in Eps : newep[f] = "CONNECTED" <=> f # e /\ r.ep[f] = "CONNECTED"
  BY <1>3
<1>7. \A f \in Eps : Cut(q).ep[f] = IF f = e THEN "REJECTED"
                                   ELSE IF r.ep[f] = "CONNECTED" THEN "ERROR" ELSE r.ep[f]
  BY <1>3, <1>4, <1>5, CutFields
<1>8. \A f \in Eps : f \in Cut(q).closing <=> f \in r.closing \/ (f # e /\ r.ep[f] = "CONNECTED")
  BY <1>4, <1>5, <1>6, CutFields
<1>9. /\ Cut(q) \in Rail
      /\ Cut(q).connecting_eps = r.connecting_eps - 1
      /\ Cut(q).connected_eps = r.connected_eps
      /\ Cut(q).ref = r.ref
      /\ Cut(q).state = "REJECTED"
      /\ Cut(q).bad = bd
      /\ Cut(q).passive = r.passive /\ Cut(q).connreq_eps = r.connreq_eps
  BY <1>4, <1>5, CutFields
<1> QED BY <1>2, <1>7, <1>8, <1>9, Zenon DEF bd

\* After ERROR: one endpoint fewer is connecting, none is left CONNECTED.
LEMMA OnErrorFields ==
  ASSUME NEW r \in Rail, NEW e \in Eps, r.connecting_eps >= 1
  PROVE  LET s == OnError(r, e) IN
         /\ s \in Rail
         /\ s.passive = r.passive /\ s.connreq_eps = r.connreq_eps
         /\ s.connecting_eps = r.connecting_eps - 1
         /\ s.connected_eps = r.connected_eps
         /\ s.ref = r.ref
         /\ s.state = "ERROR"
         /\ \A f \in Eps : s.ep[f] = IF f = e THEN "ERROR"
                                    ELSE IF r.ep[f] = "CONNECTED" THEN "ERROR" ELSE r.ep[f]
         /\ \A f \in Eps : f \in s.closing <=> f \in r.closing \/ (f # e /\ r.ep[f] = "CONNECTED")
         /\ s.bad = (r.ep[e] \notin {"CONNECTING", "ACCEPTING"})
<1> DEFINE bd == r.ep[e] \notin {"CONNECTING", "ACCEPTING"}
           newep == [r.ep EXCEPT ![e] = "ERROR"]
           q == [r EXCEPT !.bad = bd, !.connecting_eps = r.connecting_eps - 1,
                          !.conn_error_eps = r.conn_error_eps + 1,
                          !.state = "ERROR", !.ep = newep]
<1>1. bd \in BOOLEAN /\ "ERROR" \in EpState
  BY Zenon DEF EpState
<1>2. OnError(r, e) = Cut(q)
  BY DEF OnError, Rail
<1>3. /\ r.connecting_eps - 1 \in Nat /\ r.conn_error_eps + 1 \in Nat
      /\ newep \in [Eps -> EpState]
      /\ \A f \in Eps : newep[f] = IF f = e THEN "ERROR" ELSE r.ep[f]
  BY DEF Rail, EpState
<1> HIDE DEF bd, newep
<1>4. q \in Rail
  BY <1>1, <1>3, Zenon DEF Rail
<1>5. /\ q.connecting_eps = r.connecting_eps - 1
      /\ q.connected_eps = r.connected_eps
      /\ q.ref = r.ref
      /\ q.state = "ERROR"
      /\ q.closing = r.closing
      /\ q.ep = newep
      /\ q.bad = bd
      /\ q.passive = r.passive /\ q.connreq_eps = r.connreq_eps
  BY DEF Rail
<1> HIDE DEF q
<1>6. \A f \in Eps : newep[f] = "CONNECTED" <=> f # e /\ r.ep[f] = "CONNECTED"
  BY <1>3
<1>7. \A f \in Eps : Cut(q).ep[f] = IF f = e THEN "ERROR"
                                   ELSE IF r.ep[f] = "CONNECTED" THEN "ERROR" ELSE r.ep[f]
  BY <1>3, <1>4, <1>5, CutFields
<1>8. \A f \in Eps : f \in Cut(q).closing <=> f \in r.closing \/ (f # e /\ r.ep[f] = "CONNECTED")
  BY <1>4, <1>5, <1>6, CutFields
<1>9. /\ Cut(q) \in Rail
      /\ Cut(q).connecting_eps = r.connecting_eps - 1
      /\ Cut(q).connected_eps = r.connected_eps
      /\ Cut(q).ref = r.ref
      /\ Cut(q).state = "ERROR"
      /\ Cut(q).bad = bd
      /\ Cut(q).passive = r.passive /\ Cut(q).connreq_eps = r.connreq_eps
  BY <1>4, <1>5, CutFields
<1> QED BY <1>2, <1>7, <1>8, <1>9, Zenon DEF bd

\* After DISCONNECTED: one endpoint fewer is connected, none is left CONNECTED.
LEMMA OnDisconnectedFields ==
  ASSUME NEW r \in Rail, NEW e \in Eps, r.connected_eps >= 1
  PROVE  LET s == OnDisconnected(r, e) IN
         /\ s \in Rail
         /\ s.passive = r.passive /\ s.connreq_eps = r.connreq_eps
         /\ s.connecting_eps = r.connecting_eps
         /\ s.connected_eps = r.connected_eps - 1
         /\ s.ref = r.ref
         /\ s.state = IF r.state = "CONNECTED" THEN "ERROR" ELSE r.state
         /\ \A f \in Eps : s.ep[f] = IF r.ep[f] # "CONNECTED" THEN r.ep[f]
                                    ELSE IF f = e THEN "CLOSE" ELSE "ERROR"
         /\ \A f \in Eps : f \in s.closing <=> f \in r.closing \/ (f # e /\ r.ep[f] = "CONNECTED")
         /\ s.bad = (r.ep[e] \notin {"CONNECTED", "ERROR"})
<1> DEFINE bd == r.ep[e] \notin {"CONNECTED", "ERROR"}
           st == IF r.state = "CONNECTED" THEN "ERROR" ELSE r.state
           newep == [r.ep EXCEPT ![e] = IF r.ep[e] = "CONNECTED" THEN "CLOSE" ELSE r.ep[e]]
           q == [r EXCEPT !.state = st, !.connected_eps = r.connected_eps - 1,
                          !.bad = bd, !.ep = newep]
<1>1. bd \in BOOLEAN
  BY Zenon
<1>2. OnDisconnected(r, e) = Cut(q)
  BY DEF OnDisconnected, Rail
<1>3. /\ r.connected_eps - 1 \in Nat /\ st \in EpState
      /\ newep \in [Eps -> EpState]
      /\ \A f \in Eps : newep[f] = IF f = e /\ r.ep[f] = "CONNECTED" THEN "CLOSE" ELSE r.ep[f]
  BY DEF Rail, EpState
<1> HIDE DEF bd, newep, st
<1>4. q \in Rail
  BY <1>1, <1>3, Zenon DEF Rail
<1>5. /\ q.connecting_eps = r.connecting_eps
      /\ q.connected_eps = r.connected_eps - 1
      /\ q.ref = r.ref
      /\ q.state = st
      /\ q.closing = r.closing
      /\ q.ep = newep
      /\ q.bad = bd
      /\ q.passive = r.passive /\ q.connreq_eps = r.connreq_eps
  BY DEF Rail
<1> HIDE DEF q
<1>6. \A f \in Eps : newep[f] = "CONNECTED" <=> f # e /\ r.ep[f] = "CONNECTED"
  BY <1>3
<1>7. \A f \in Eps : Cut(q).ep[f] = IF r.ep[f] # "CONNECTED" THEN r.ep[f]
                                   ELSE IF f = e THEN "CLOSE" ELSE "ERROR"
  BY <1>3, <1>4, <1>5, CutFields
<1>8. \A f \in Eps : f \in Cut(q).closing <=> f \in r.closing \/ (f # e /\ r.ep[f] = "CONNECTED")
  BY <1>4, <1>5, <1>6, CutFields
<1>9. /\ Cut(q) \in Rail
      /\ Cut(q).connecting_eps = r.connecting_eps
      /\ Cut(q).connected_eps = r.connected_eps - 1
      /\ Cut(q).ref = r.ref
      /\ Cut(q).state = st
      /\ Cut(q).bad = bd
      /\ Cut(q).passive = r.passive /\ Cut(q).connreq_eps = r.connreq_eps
  BY <1>4, <1>5, CutFields
<1> QED BY <1>2, <1>7, <1>8, <1>9, Zenon DEF bd, st

\* __rail_close() is __rail_cut() on a rail in state ERROR.
LEMMA CloseFields ==
  ASSUME NEW r \in Rail
  PROVE  /\ Close(r) \in Rail
         /\ Close(r).connecting_eps = r.connecting_eps
         /\ Close(r).connected_eps = r.connected_eps
         /\ Close(r).ref = r.ref
         /\ Close(r).state = "ERROR"
         /\ Close(r).bad = r.bad
         /\ Close(r).passive = r.passive /\ Close(r).connreq_eps = r.connreq_eps
         /\ \A e \in Eps : e \in Close(r).closing <=> e \in r.closing \/ r.ep[e] = "CONNECTED"
         /\ \A e \in Eps : Close(r).ep[e] = IF r.ep[e] = "CONNECTED" THEN "ERROR" ELSE r.ep[e]
<1> DEFINE q == [r EXCEPT !.state = "ERROR"]
<1>1. /\ q \in Rail
      /\ q.connecting_eps = r.connecting_eps /\ q.connected_eps = r.connected_eps
      /\ q.ref = r.ref /\ q.state = "ERROR" /\ q.bad = r.bad /\ q.closing = r.closing
      /\ q.ep = r.ep /\ q.passive = r.passive /\ q.connreq_eps = r.connreq_eps
  BY DEF Rail, EpState
<1>2. Close(r) = Cut(q)
  BY DEF Close
<1> HIDE DEF q
<1> QED BY <1>1, <1>2, CutFields
=============================================================================
