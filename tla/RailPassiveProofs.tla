-------------------------- MODULE RailPassiveProofs -------------------------
(***************************************************************************)
(* Theorems about RailPassive for every number of endpoints, whatever the  *)
(* order in which endpoints are asked for, answered and lost.              *)
(***************************************************************************)
EXTENDS RailPassive, RailCoreProofs

(***************************************************************************)
(* The inductive invariant.                                                *)
(***************************************************************************)

\* The endpoints of a rail with a callback that is running.
Busy(r) == {e \in Eps : thr[r][e].pc # "idle"}

\* Nothing is known of a rail that has not been made.
Unmade(r) == app[r] = "none" /\ \A e \in Eps : xprt[r][e] = "none" /\ thr[r][e] = Idle

\* CountersExact and RefsExact for one rail.
Counted(r) ==
  /\ rails[r].connecting_eps = Cardinality(In(r, "pending")) + One(lst.pc = "taken" /\ lst.r = r)
  /\ rails[r].connected_eps = Cardinality(In(r, "up"))
  /\ rails[r].ref = One(app[r] = "holds") + One(tree = r) + Cardinality(In(r, "pending"))
                    + Cardinality(In(r, "up")) + Cardinality(Busy(r))

\* Nothing can happen to the rail any more.
Finished(r) ==
  /\ rails[r].connreq_eps = 0 /\ lst.r # r
  /\ \A e \in Eps : xprt[r][e] \notin {"pending", "up"}

\* A rail counts down the requests that it serves.  Unless its removal was
\* decided early, it is decided by one thread, when the rail is finished and in
\* the tree.
Orderly(r) ==
  /\ NEps - rails[r].connreq_eps + One(lst.pc = "found" /\ lst.r = r) <= Cardinality(asked)
  /\ \A e \in Eps : thr[r][e].pc = "remove" => thr[r][e].rm
  /\ r \notin early =>
       /\ tree # r => Finished(r)
       /\ \A e \in Eps : thr[r][e].rm => /\ Finished(r) /\ tree = r
                                         /\ \A f \in Eps \ {e} : ~thr[r][f].rm

RailOK(r) == IF r > made THEN Unmade(r) ELSE Counted(r) /\ Orderly(r)

\* Each request makes at most one rail, and what the listener's thread has in
\* hand is an endpoint without a transport.
Requests ==
  /\ made <= Cardinality(asked) /\ tree <= made
  /\ lst.pc = "idle" => lst = AtRest
  /\ lst.pc # "idle" => /\ lst.r \in 1 .. made /\ lst.e \in asked
                        /\ xprt[lst.r][lst.e] = "none"
  /\ \A e \in Eps \ asked, r \in Ids : xprt[r][e] = "none"

IInv == TypeOK /\ Requests /\ SafeRemoval /\ \A r \in Ids : RailOK(r)
-----------------------------------------------------------------------------
\* A rail, and the sizes of the sets that it counts.
LEMMA Sizes ==
  ASSUME TypeOK, NEW r \in Ids
  PROVE  /\ rails[r] \in Rail
         /\ xprt[r] \in [Eps -> {"none", "pending", "up", "gone"}]
         /\ thr[r] \in [Eps -> Thread]
         /\ In(r, "pending") \in SUBSET Eps /\ In(r, "up") \in SUBSET Eps
         /\ Busy(r) \in SUBSET Eps /\ asked \in SUBSET Eps
         /\ Cardinality(In(r, "pending")) \in Nat /\ Cardinality(In(r, "up")) \in Nat
         /\ Cardinality(Busy(r)) \in Nat /\ Cardinality(asked) \in 0 .. NEps
<1>1. /\ rails[r] \in Rail
      /\ xprt[r] \in [Eps -> {"none", "pending", "up", "gone"}]
      /\ thr[r] \in [Eps -> Thread]
  BY DEF TypeOK
<1>2. /\ In(r, "pending") \in SUBSET Eps /\ In(r, "up") \in SUBSET Eps
      /\ Busy(r) \in SUBSET Eps /\ asked \in SUBSET Eps
  BY DEF In, Busy, TypeOK
<1>3. /\ Cardinality(In(r, "pending")) \in Nat /\ Cardinality(In(r, "up")) \in Nat
      /\ Cardinality(Busy(r)) \in Nat /\ Cardinality(asked) \in Nat
  BY <1>2, EpsFinite
<1>4. Cardinality(asked) <= NEps
  BY <1>2, EpsFinite, FS_Subset
<1> QED BY <1>1, <1>2, <1>3, <1>4, NEpsAssumption

\* One(b) is 0 or 1.
LEMMA OneNat == \A b : One(b) \in Nat /\ One(b) <= 1
BY DEF One

\* A rail with an endpoint or a thread or the application's hold was made.
LEMMA IsMade ==
  ASSUME IInv, NEW r \in Ids,
         \/ app[r] # "none"
         \/ \E e \in Eps : xprt[r][e] # "none" \/ thr[r][e].pc # "idle"
  PROVE  r <= made /\ Counted(r) /\ Orderly(r)
<1>1. Idle.pc = "idle"
  BY DEF Idle
<1>2. ~(r > made) /\ RailOK(r)
  BY <1>1 DEF IInv, RailOK, Unmade
<1>3. r \in Int /\ made \in Int
  BY NEpsAssumption DEF IInv, TypeOK, Ids
<1> QED BY <1>2, <1>3 DEF RailOK

\* Same(s): a step does not touch rail s.
Same(s) ==
  /\ rails'[s] = rails[s] /\ xprt'[s] = xprt[s] /\ thr'[s] = thr[s] /\ app'[s] = app[s]
  /\ (s \in early') <=> (s \in early)
  /\ (tree' = s) <=> (tree = s)
  /\ (lst'.r = s) <=> (lst.r = s)
  /\ lst.r = s => lst' = lst

\* A rail that is not touched stays as it was.
LEMMA Frame ==
  ASSUME IInv, NEW s \in Ids, Same(s), Cardinality(asked) <= Cardinality(asked'),
         Cardinality(asked') \in Nat, (s > made') <=> (s > made)
  PROVE  RailOK(s)'
<1>1. CASE s > made
  BY <1>1 DEF Same, IInv, RailOK, Unmade
<1>2. CASE ~(s > made)
  <2>1. Counted(s) /\ Orderly(s)
    BY <1>2 DEF IInv, RailOK
  <2>2. /\ One((lst.pc = "taken" /\ lst.r = s))' = One(lst.pc = "taken" /\ lst.r = s)
        /\ One((lst.pc = "found" /\ lst.r = s))' = One(lst.pc = "found" /\ lst.r = s)
        /\ One((tree = s))' = One(tree = s) /\ One((app[s] = "holds"))' = One(app[s] = "holds")
    BY DEF Same, One
  <2>3. In(s, "pending")' = In(s, "pending") /\ In(s, "up")' = In(s, "up") /\ Busy(s)' = Busy(s)
    BY DEF Same, In, Busy
  <2>4. rails'[s] = rails[s]
    BY DEF Same
  <2>5. Counted(s)'
    BY <2>1, <2>2, <2>3, <2>4 DEF Counted
  <2>6. Orderly(s)'
    <3>1. NEps - rails[s].connreq_eps + One(lst.pc = "found" /\ lst.r = s) <= Cardinality(asked')
      <4>1. NEps - rails[s].connreq_eps + One(lst.pc = "found" /\ lst.r = s) <= Cardinality(asked)
        BY <2>1 DEF Orderly
      <4>2. /\ rails[s].connreq_eps \in Int /\ Cardinality(asked) \in Int /\ NEps \in Int
            /\ One(lst.pc = "found" /\ lst.r = s) \in Int
        BY Sizes, OneNat, NEpsAssumption DEF IInv, Rail
      <4> QED BY <4>1, <4>2
    <3>2. Finished(s) => Finished(s)'
      BY DEF Same, Finished
    <3> QED BY <2>1, <2>2, <2>4, <3>1, <3>2 DEF Orderly, Same
  <2> QED BY <1>2, <2>5, <2>6 DEF RailOK
<1> QED BY <1>1, <1>2

\* A step that touches one rail and leaves that rail as it should be.
LEMMA OneRailStep ==
  ASSUME IInv, TypeOK', Requests', SafeRemoval', NEW r \in Ids, r <= made',
         Cardinality(asked) <= Cardinality(asked'), made' = made \/ (made' = r /\ r = made + 1),
         \A s \in Ids : s # r => Same(s), Counted(r)', Orderly(r)'
  PROVE  IInv'
<1>1. r \in Int /\ made' \in Int /\ made \in Int
  BY NEpsAssumption DEF IInv, TypeOK, Ids
<1>2. Cardinality(asked') \in Nat
  BY EpsFinite DEF TypeOK
<1>3. RailOK(r)'
  BY <1>1 DEF RailOK
<1>4. ASSUME NEW s \in Ids, s # r PROVE RailOK(s)'
  <2>1. (s > made') <=> (s > made)
    BY <1>1, <1>4 DEF Ids
  <2> QED BY <1>2, <1>4, <2>1, Frame
<1> QED BY <1>3, <1>4 DEF IInv

\* A step that changes nothing that the invariant is about, but perhaps bad.
LEMMA NothingTouched ==
  ASSUME IInv, rails' = rails, made' = made, tree' = tree, lst' = lst, asked' = asked,
         xprt' = xprt, thr' = thr, app' = app, heard' = heard, early' = early,
         bad' \in 0 .. NEps, SafeRemoval'
  PROVE  IInv'
<1>1. TypeOK' /\ Requests'
  BY DEF IInv, TypeOK, Requests
<1>2. \A s \in Ids : Same(s)
  BY DEF Same
<1>3. Cardinality(asked') \in Nat /\ Cardinality(asked) <= Cardinality(asked')
  BY EpsFinite DEF IInv, TypeOK
<1>4. ASSUME NEW s \in Ids PROVE RailOK(s)'
  BY <1>2, <1>3, Frame
<1> QED BY <1>1, <1>4 DEF IInv

\* Nothing has happened before the first request.
LEMMA InitOK == Init => IInv
<1> SUFFICES ASSUME Init PROVE IInv
  OBVIOUS
<1>1. NewRail \in Rail
  BY DEF NewRail, Rail, EpState
<1>2. Idle \in Thread /\ AtRest \in Listener
  BY NEpsAssumption DEF Idle, Thread, RailEvent, AtRest, Listener, Eps
<1>3. rails \in [Ids -> Rail] /\ lst \in Listener
  BY <1>1, <1>2 DEF Init
<1>4. thr \in [Ids -> [Eps -> Thread]]
  BY <1>2 DEF Init
<1>5. /\ made \in 0 .. NEps /\ tree \in 0 .. NEps
      /\ asked \subseteq Eps
      /\ xprt \in [Ids -> [Eps -> {"none", "pending", "up", "gone"}]]
      /\ app \in [Ids -> {"none", "holds", "released"}]
      /\ heard \subseteq Ids /\ bad \in 0 .. NEps /\ early \subseteq Ids
  BY NEpsAssumption DEF Init
<1>6. TypeOK
  BY <1>3, <1>4, <1>5 DEF TypeOK
<1>7. Requests
  <2>1. Cardinality(asked) = 0
    BY FS_EmptySet DEF Init
  <2> QED BY <2>1 DEF Init, Requests, AtRest
<1>8. SafeRemoval
  BY DEF Init, SafeRemoval
<1>9. \A r \in Ids : RailOK(r)
  BY NEpsAssumption DEF Init, RailOK, Unmade, Ids
<1> QED BY <1>6, <1>7, <1>8, <1>9 DEF IInv

\* A rail that was asked for all its endpoints leaves no request to come.
LEMMA NotFinished ==
  ASSUME IInv, NEW e \in Eps, e \notin asked, lst.pc = "idle", NEW r \in Ids, r <= made
  PROVE  rails[r].connreq_eps # 0
<1>1. NEps - rails[r].connreq_eps + One(lst.pc = "found" /\ lst.r = r) <= Cardinality(asked)
  BY NEpsAssumption DEF IInv, RailOK, Orderly, TypeOK, Ids
<1>2. One(lst.pc = "found" /\ lst.r = r) = 0
  BY DEF One
<1>3. Cardinality(asked \cup {e}) = Cardinality(asked) + 1 /\ asked \cup {e} \in SUBSET Eps
  BY AddOne DEF IInv, TypeOK
<1>4. Cardinality(asked \cup {e}) <= NEps
  BY <1>3, EpsFinite, FS_Subset
<1>5. Cardinality(asked) \in Nat /\ rails[r].connreq_eps \in Int
  BY Sizes DEF IInv, Rail
<1> QED BY <1>1, <1>2, <1>3, <1>4, <1>5, NEpsAssumption

\* A request finds a rail that expects it, or makes one.
LEMMA FindOK == ASSUME IInv, NEW e \in Eps, Find(e) PROVE IInv'
<1>r. PICK r : r = IF tree = 0 THEN made + 1 ELSE tree
  OBVIOUS
<1>1. /\ lst.pc = "idle" /\ e \notin asked /\ asked' = asked \cup {e}
      /\ xprt' = xprt /\ thr' = thr /\ heard' = heard /\ bad' = bad /\ early' = early
      /\ lst' = [pc |-> "found", r |-> r, e |-> e] /\ tree' = r
      /\ made' = IF tree = 0 THEN r ELSE made
  BY <1>r DEF Find
<1>2. /\ Cardinality(asked') = Cardinality(asked) + 1 /\ asked' \in SUBSET Eps
      /\ Cardinality(asked) \in Nat /\ Cardinality(asked') <= NEps
  BY <1>1, AddOne, EpsFinite, FS_Subset DEF IInv, TypeOK
<1>3. /\ made \in Nat /\ tree \in Nat /\ made <= Cardinality(asked) /\ tree <= made
      /\ made \in 0 .. NEps /\ lst = AtRest /\ lst.r = 0
  BY <1>1, NEpsAssumption DEF IInv, TypeOK, Requests, AtRest
<1>4. r \in Ids /\ r <= made' /\ made' \in 0 .. NEps /\ made' \in Nat /\ r \in Nat /\ r > 0
  BY <1>r, <1>1, <1>2, <1>3, NEpsAssumption DEF Ids
<1>5. /\ lst'.pc = "found" /\ lst'.r = r /\ lst'.e = e /\ lst' \in Listener
  BY <1>1, <1>4, NEpsAssumption DEF Listener, Ids
<1>6. Requests'
  <2>1. made' <= Cardinality(asked') /\ tree' <= made'
    BY <1>r, <1>1, <1>2, <1>3, <1>4
  <2>2. xprt'[r][e] = "none" /\ \A f \in Eps \ asked', s \in Ids : xprt'[s][f] = "none"
    BY <1>1, <1>4 DEF IInv, Requests
  <2>3. r \in 1 .. made'
    BY <1>4
  <2> QED BY <1>1, <1>5, <2>1, <2>2, <2>3 DEF Requests
<1>7. SafeRemoval'
  BY <1>1 DEF IInv, SafeRemoval
<1>8. In(r, "pending")' = In(r, "pending") /\ In(r, "up")' = In(r, "up") /\ Busy(r)' = Busy(r)
  BY <1>1 DEF In, Busy
<1>9. /\ One((lst.pc = "found" /\ lst.r = r))' = 1 /\ One((lst.pc = "taken" /\ lst.r = r))' = 0
      /\ One((tree = r))' = 1
  BY <1>1, <1>5 DEF One
<1>10. Cardinality(asked) <= Cardinality(asked') /\ Cardinality(asked') \in Nat
  BY <1>2
<1>11. CASE tree = 0
  <2> DEFINE st == "ACCEPTING" yes == TRUE
             q == [NewRail EXCEPT !.passive = yes, !.state = st,
                                  !.connreq_eps = NEps, !.ref = 2]
  <2>1. /\ rails' = [rails EXCEPT ![r] = q] /\ app' = [app EXCEPT ![r] = "holds"]
        /\ r = made + 1 /\ made' = r
    BY <1>r, <1>1, <1>11 DEF Find
  <2>2. st \in EpState /\ NewRail \in Rail /\ yes \in BOOLEAN /\ NEps \in Int /\ 2 \in Nat
    BY NEpsAssumption DEF EpState, NewRail, Rail
  <2> HIDE DEF st, yes
  <2>3. q \in Rail
    BY <2>2, Zenon DEF Rail
  <2>4. /\ q.connreq_eps = NEps /\ q.ref = 2
        /\ q.connecting_eps = NewRail.connecting_eps
        /\ q.connected_eps = NewRail.connected_eps
    BY <2>2 DEF Rail
  <2>5. q.connecting_eps = 0 /\ q.connected_eps = 0
    BY <2>4 DEF NewRail
  <2> HIDE DEF q
  <2>6. /\ rails'[r] = q /\ rails' \in [Ids -> Rail]
        /\ app' \in [Ids -> {"none", "holds", "released"}] /\ app'[r] = "holds"
        /\ \A s \in Ids : s # r => app'[s] = app[s] /\ rails'[s] = rails[s]
    BY <1>4, <2>1, <2>3 DEF IInv, TypeOK
  <2>7. TypeOK'
    <3>1. tree' \in 0 .. NEps
      BY <1>1, <1>4 DEF Ids
    <3> QED BY <1>1, <1>2, <1>4, <1>5, <2>6, <3>1 DEF IInv, TypeOK
  <2>8. \A f \in Eps : xprt[r][f] = "none" /\ thr[r][f] = Idle
    BY <1>3, <1>4, <2>1 DEF IInv, RailOK, Unmade
  <2>9. In(r, "pending") = {} /\ In(r, "up") = {} /\ Busy(r) = {}
    BY <2>8 DEF In, Busy, Idle
  <2>10. Counted(r)'
    <3>1. One((app[r] = "holds"))' = 1
      BY <2>6 DEF One
    <3>2. /\ Cardinality(In(r, "pending"))' = 0 /\ Cardinality(In(r, "up"))' = 0
          /\ Cardinality(Busy(r))' = 0
      BY <1>8, <2>9, FS_EmptySet
    <3> QED BY <1>9, <2>4, <2>5, <2>6, <3>1, <3>2 DEF Counted
  <2>11. Orderly(r)'
    <3>1. \A f \in Eps : thr'[r][f].pc = "idle" /\ ~thr'[r][f].rm
      BY <1>1, <2>8 DEF Idle
    <3>2. NEps - rails'[r].connreq_eps + One((lst.pc = "found" /\ lst.r = r))' <= Cardinality(asked')
      BY <1>2, <1>9, <2>4, <2>6, NEpsAssumption
    <3> QED BY <1>1, <3>1, <3>2 DEF Orderly
  <2>12. \A s \in Ids : s # r => Same(s)
    <3> SUFFICES ASSUME NEW s \in Ids, s # r PROVE Same(s)
      OBVIOUS
    <3>1. s # 0
      BY NEpsAssumption DEF Ids
    <3> QED BY <1>1, <1>3, <1>5, <1>11, <2>6, <3>1 DEF Same
  <2> QED BY <1>4, <1>6, <1>7, <1>10, <2>1, <2>7, <2>10, <2>11, <2>12, OneRailStep
<1>12. CASE tree # 0
  <2>1. rails' = rails /\ app' = app /\ r = tree /\ made' = made
    BY <1>r, <1>1, <1>12 DEF Find
  <2>2. TypeOK'
    BY <1>1, <1>2, <1>5, <2>1 DEF IInv, TypeOK
  <2>3. /\ One(lst.pc = "found" /\ lst.r = r) = 0 /\ One(lst.pc = "taken" /\ lst.r = r) = 0
        /\ One(tree = r) = 1
    BY <1>1, <2>1 DEF One
  <2>4. Counted(r) /\ Orderly(r) /\ rails[r] \in Rail
    BY <1>3, <1>4, <2>1, Sizes DEF IInv, RailOK
  <2>5. Counted(r)'
    BY <1>8, <1>9, <2>1, <2>3, <2>4 DEF Counted
  <2>6. ~Finished(r)
    BY <1>1, <1>4, <2>1, NotFinished DEF Finished
  <2>7. Orderly(r)'
    <3>1. rails[r].connreq_eps \in Int
      BY <2>4 DEF Rail
    <3>2. NEps - rails[r].connreq_eps + 1 <= Cardinality(asked')
      <4>1. NEps - rails[r].connreq_eps + 0 <= Cardinality(asked)
        BY <2>3, <2>4 DEF Orderly
      <4> QED BY <1>2, <3>1, <4>1, NEpsAssumption
    <3>3. r \notin early => \A f \in Eps : ~thr[r][f].rm
      BY <2>4, <2>6 DEF Orderly
    <3> QED BY <1>1, <1>9, <2>1, <2>4, <3>2, <3>3 DEF Orderly
  <2>8. \A s \in Ids : s # r => Same(s)
    <3> SUFFICES ASSUME NEW s \in Ids, s # r PROVE Same(s)
      OBVIOUS
    <3>1. s # 0
      BY NEpsAssumption DEF Ids
    <3> QED BY <1>1, <1>3, <1>5, <2>1, <3>1 DEF Same
  <2> QED BY <1>4, <1>6, <1>7, <1>10, <2>1, <2>2, <2>5, <2>7, <2>8, OneRailStep
<1> QED BY <1>11, <1>12

\* What holds while the listener's thread works on a request.
LEMMA AtWork ==
  ASSUME IInv, lst.pc # "idle", NEW r, r = lst.r
  PROVE  /\ r \in Ids /\ r <= made /\ lst.e \in Eps /\ lst.e \in asked
         /\ rails[r] \in Rail /\ Counted(r) /\ Orderly(r)
         /\ xprt[r][lst.e] = "none"
         /\ r \notin early => tree = r /\ \A f \in Eps : ~thr[r][f].rm
<1>1. /\ r \in 1 .. made /\ lst.e \in asked /\ xprt[r][lst.e] = "none" /\ made \in 0 .. NEps
  BY DEF IInv, Requests, TypeOK
<1>2. r \in Ids /\ r <= made /\ lst.e \in Eps /\ ~(r > made)
  BY <1>1, NEpsAssumption DEF IInv, TypeOK, Listener, Ids
<1>3. Counted(r) /\ Orderly(r) /\ rails[r] \in Rail
  BY <1>2, Sizes DEF IInv, RailOK
<1>4. r \notin early => tree = r /\ \A f \in Eps : ~thr[r][f].rm
  BY <1>3 DEF Orderly, Finished
<1> QED BY <1>1, <1>2, <1>3, <1>4

\* The end of a request, or of its first half: the rail r at which the listener
\* works is the only one touched, and nothing is decided about its removal.
LEMMA ListenerStep ==
  ASSUME IInv, lst.pc # "idle", NEW r, r = lst.r, NEW q \in Rail, NEW l \in Listener,
         rails' = [rails EXCEPT ![r] = q], lst' = l,
         (l = AtRest /\ lst.pc \in {"found", "taken"})
            \/ (lst.pc = "found" /\ l.pc = "taken" /\ l.r = r /\ l.e = lst.e),
         xprt' \in [Ids -> [Eps -> {"none", "pending", "up", "gone"}]],
         \A s \in Ids, f \in Eps : s # r \/ f # lst.e => xprt'[s][f] = xprt[s][f],
         l # AtRest => xprt'[r][lst.e] = "none",
         made' = made, tree' = tree, asked' = asked, thr' = thr, app' = app,
         heard' = heard, bad' = bad, early' = early,
         q.connreq_eps + One(lst.pc = "found") >= rails[r].connreq_eps,
         Counted(r)'
  PROVE  IInv'
<1>1. /\ r \in Ids /\ r <= made /\ lst.e \in Eps /\ lst.e \in asked
      /\ rails[r] \in Rail /\ Counted(r) /\ Orderly(r) /\ xprt[r][lst.e] = "none"
      /\ r \notin early => tree = r /\ \A f \in Eps : ~thr[r][f].rm
  BY AtWork
<1>2. rails' \in [Ids -> Rail] /\ rails'[r] = q /\ \A s \in Ids : s # r => rails'[s] = rails[s]
  BY <1>1 DEF IInv, TypeOK
<1>3. TypeOK'
  BY <1>2 DEF IInv, TypeOK
<1>4. r # 0 /\ AtRest.r = 0 /\ AtRest.pc = "idle"
  BY <1>1, NEpsAssumption DEF Ids, AtRest
<1>5. Requests'
  <2>1. \A f \in Eps \ asked', s \in Ids : xprt'[s][f] = "none"
    BY <1>1 DEF IInv, Requests
  <2> QED BY <1>1, <1>4, <2>1 DEF IInv, Requests
<1>6. SafeRemoval'
  BY DEF IInv, SafeRemoval
<1>7. Orderly(r)'
  <2>1. One((lst.pc = "found" /\ lst.r = r))' = 0
    BY <1>4 DEF One
  <2>2. One(lst.pc = "found" /\ lst.r = r) = One(lst.pc = "found")
    BY DEF One
  <2>3. NEps - q.connreq_eps <= Cardinality(asked)
    <3>1. NEps - rails[r].connreq_eps + One(lst.pc = "found") <= Cardinality(asked)
      BY <1>1, <2>2 DEF Orderly
    <3>2. /\ rails[r].connreq_eps \in Int /\ q.connreq_eps \in Int /\ Cardinality(asked) \in Int
          /\ One(lst.pc = "found") \in Int
      BY <1>1, Sizes, OneNat DEF Rail, IInv
    <3> QED BY <3>1, <3>2, NEpsAssumption
  <2>4. NEps - rails'[r].connreq_eps + One((lst.pc = "found" /\ lst.r = r))' <= Cardinality(asked')
    <3>1. q.connreq_eps \in Int
      BY DEF Rail
    <3> QED BY <1>2, <2>1, <2>3, <3>1, NEpsAssumption
  <2> QED BY <1>1, <2>4 DEF Orderly
<1>8. \A s \in Ids : s # r => Same(s)
  <2> SUFFICES ASSUME NEW s \in Ids, s # r PROVE Same(s)
    OBVIOUS
  <2>1. xprt'[s] = xprt[s]
    <3>1. xprt[s] \in [Eps -> {"none", "pending", "up", "gone"}]
      BY DEF IInv, TypeOK
    <3>2. xprt'[s] \in [Eps -> {"none", "pending", "up", "gone"}]
      OBVIOUS
    <3>3. \A f \in Eps : xprt'[s][f] = xprt[s][f]
      OBVIOUS
    <3> QED BY <3>1, <3>2, <3>3
  <2>2. s # 0
    BY NEpsAssumption DEF Ids
  <2> QED BY <1>2, <1>4, <2>1, <2>2 DEF Same
<1>9. Cardinality(asked) <= Cardinality(asked')
  BY <1>1, Sizes DEF IInv
<1> QED BY <1>1, <1>3, <1>5, <1>6, <1>7, <1>8, <1>9, OneRailStep

\* The request is counted, unless it is refused.
LEMMA TakeOK == ASSUME IInv, NEW ok \in BOOLEAN, Take(ok) PROVE IInv'
<1>r. PICK r, i : r = lst.r /\ i = lst.e
  OBVIOUS
<1> DEFINE R == rails[r]
           want == R.ep[i] = "INIT" /\ R.connreq_eps > 0
           n == IF ok THEN R.connecting_eps + 1 ELSE R.connecting_eps
           ep == IF ok THEN [R.ep EXCEPT ![i] = "ACCEPTING"] ELSE R.ep
           q == IF want THEN [R EXCEPT !.connreq_eps = R.connreq_eps - 1,
                                       !.connecting_eps = n, !.ep = ep] ELSE R
           l == IF want /\ ok THEN [pc |-> "taken", r |-> r, e |-> i] ELSE AtRest
<1>1. /\ lst.pc = "found"
      /\ made' = made /\ tree' = tree /\ asked' = asked /\ xprt' = xprt
      /\ thr' = thr /\ app' = app /\ heard' = heard /\ bad' = bad /\ early' = early
  BY DEF Take
<1>2. /\ r \in Ids /\ r <= made /\ i \in Eps /\ R \in Rail /\ Counted(r) /\ xprt[r][i] = "none"
  BY <1>r, <1>1, AtWork
<1>3. lst' = l
  <2>1. lst' = IF want /\ ok THEN [lst EXCEPT !.pc = "taken"] ELSE AtRest
    BY <1>r DEF Take
  <2>2. [lst EXCEPT !.pc = "taken"] = [pc |-> "taken", r |-> r, e |-> i]
    BY <1>r DEF IInv, TypeOK, Listener
  <2> QED BY <2>1, <2>2
<1>4. rails' = [rails EXCEPT ![r] = q]
  <2>1. CASE want
    BY <1>r, <1>2, <2>1 DEF Take, Rail
  <2>2. CASE ~want
    <3>1. rails' = rails
      BY <1>r, <2>2 DEF Take
    <3>2. q = R
      BY <2>2
    <3> HIDE DEF q, want
    <3> QED BY <1>2, <3>1, <3>2 DEF IInv, TypeOK
  <2> QED BY <2>1, <2>2
<1>5. n \in Nat /\ ep \in [Eps -> EpState] /\ R.connreq_eps - 1 \in Int
  BY <1>2 DEF Rail, EpState
<1>6. /\ l \in Listener
      /\ l = AtRest \/ (l.pc = "taken" /\ l.r = r /\ l.e = i)
  BY <1>2, NEpsAssumption DEF Listener, AtRest, Eps, Ids
<1>7. /\ q \in Rail /\ q.connreq_eps \in {R.connreq_eps, R.connreq_eps - 1}
      /\ q.connected_eps = R.connected_eps /\ q.ref = R.ref
      /\ q.connecting_eps = R.connecting_eps + One(want /\ ok)
  <2>1. CASE want
    <3>1. n = R.connecting_eps + One(want /\ ok)
      BY <1>2, <2>1 DEF One, Rail
    <3>2. q = [R EXCEPT !.connreq_eps = R.connreq_eps - 1, !.connecting_eps = n, !.ep = ep]
      BY <2>1
    <3> HIDE DEF n, ep, q, want
    <3> QED BY <1>2, <1>5, <3>1, <3>2 DEF Rail
  <2>2. CASE ~want
    <3>1. q = R /\ One(want /\ ok) = 0
      BY <2>2 DEF One
    <3> HIDE DEF q, want
    <3> QED BY <1>2, <3>1 DEF Rail
  <2> QED BY <2>1, <2>2
<1>8. /\ One((lst.pc = "taken" /\ lst.r = r))' = One(want /\ ok)
      /\ One(lst.pc = "taken" /\ lst.r = r) = 0 /\ One(lst.pc = "found") = 1
  <2>1. CASE want /\ ok
    BY <1>1, <1>3, <2>1 DEF One
  <2>2. CASE ~(want /\ ok)
    BY <1>1, <1>3, <2>2 DEF One, AtRest
  <2> QED BY <2>1, <2>2
<1> HIDE DEF q, l, want
<1>9. rails'[r] = q
  BY <1>2, <1>4 DEF IInv, TypeOK
<1>10. Counted(r)'
  <2>1. In(r, "pending")' = In(r, "pending") /\ In(r, "up")' = In(r, "up") /\ Busy(r)' = Busy(r)
    BY <1>1 DEF In, Busy
  <2>2. One((app[r] = "holds"))' = One(app[r] = "holds") /\ One((tree = r))' = One(tree = r)
    BY <1>1
  <2>3. /\ R.connecting_eps = Cardinality(In(r, "pending"))
        /\ R.connected_eps = Cardinality(In(r, "up"))
        /\ R.ref = One(app[r] = "holds") + One(tree = r) + Cardinality(In(r, "pending"))
                    + Cardinality(In(r, "up")) + Cardinality(Busy(r))
    BY <1>2, <1>8, Sizes DEF Counted, IInv
  <2> QED BY <1>7, <1>8, <1>9, <2>1, <2>2, <2>3 DEF Counted
<1>11. q.connreq_eps + One(lst.pc = "found") >= R.connreq_eps
  BY <1>2, <1>7, <1>8 DEF Rail
<1>12. xprt' \in [Ids -> [Eps -> {"none", "pending", "up", "gone"}]]
  BY <1>1 DEF IInv, TypeOK
<1> QED BY <1>r, <1>1, <1>2, <1>3, <1>4, <1>6, <1>7, <1>10, <1>11, <1>12, ListenerStep

\* An accepted endpoint is pending and holds a reference; one that fails is
\* no longer counted.
LEMMA AcceptOK == ASSUME IInv, NEW ok \in BOOLEAN, Accept(ok) PROVE IInv'
<1>r. PICK r, i : r = lst.r /\ i = lst.e
  OBVIOUS
<1> DEFINE R == rails[r]
           n == IF ok THEN R.connecting_eps ELSE R.connecting_eps - 1
           m == IF ok THEN R.ref + 1 ELSE R.ref
           ep == IF ok THEN R.ep ELSE [R.ep EXCEPT ![i] = "ERROR"]
           q == [R EXCEPT !.ref = m, !.connecting_eps = n, !.ep = ep]
           x == IF ok THEN "pending" ELSE "none"
<1>1. /\ lst.pc = "taken" /\ lst' = AtRest
      /\ made' = made /\ tree' = tree /\ asked' = asked
      /\ thr' = thr /\ app' = app /\ heard' = heard /\ bad' = bad /\ early' = early
  BY DEF Accept
<1>2. /\ r \in Ids /\ r <= made /\ i \in Eps /\ R \in Rail /\ Counted(r) /\ xprt[r][i] = "none"
  BY <1>r, <1>1, AtWork
<1>3. rails' = [rails EXCEPT ![r] = q]
  <2> DEFINE v == IF ok THEN [R EXCEPT !.ref = @ + 1]
                  ELSE [R EXCEPT !.connecting_eps = @ - 1, !.ep[i] = "ERROR"]
  <2>1. rails' = [rails EXCEPT ![r] = v]
    BY <1>r, SMT DEF Accept
  <2>2. CASE ok
    <3>1. v = q
      BY <1>2, <2>2 DEF Rail
    <3> HIDE DEF v, q
    <3> QED BY <2>1, <3>1
  <2>3. CASE ~ok
    <3>1. v = q
      BY <1>2, <2>3 DEF Rail
    <3> HIDE DEF v, q
    <3> QED BY <2>1, <3>1
  <2> QED BY <2>2, <2>3
<1>4. /\ xprt' \in [Ids -> [Eps -> {"none", "pending", "up", "gone"}]]
      /\ xprt'[r][i] = x
      /\ \A s \in Ids, f \in Eps : s # r \/ f # i => xprt'[s][f] = xprt[s][f]
  <2>1. xprt' = IF ok THEN [xprt EXCEPT ![r][i] = "pending"] ELSE xprt
    BY <1>r, Zenon DEF Accept
  <2>2. xprt \in [Ids -> [Eps -> {"none", "pending", "up", "gone"}]]
    BY DEF IInv, TypeOK
  <2> QED BY <1>2, <2>1, <2>2
<1>5. One(lst.pc = "found") = 0 /\ One(lst.pc = "taken" /\ lst.r = r) = 1
  BY <1>r, <1>1 DEF One
<1>6. /\ Cardinality(In(r, "pending")) \in Nat /\ Cardinality(In(r, "up")) \in Nat
      /\ Cardinality(Busy(r)) \in Nat /\ In(r, "pending") \in SUBSET Eps
      /\ One(app[r] = "holds") \in Nat /\ One(tree = r) \in Nat
  BY <1>2, Sizes, OneNat DEF IInv
<1>7. /\ R.connecting_eps = Cardinality(In(r, "pending")) + 1
      /\ R.connected_eps = Cardinality(In(r, "up"))
      /\ R.ref = One(app[r] = "holds") + One(tree = r) + Cardinality(In(r, "pending"))
                 + Cardinality(In(r, "up")) + Cardinality(Busy(r))
  BY <1>2, <1>5 DEF Counted
<1>8. n \in Nat /\ m \in Nat /\ ep \in [Eps -> EpState]
  BY <1>2, <1>6, <1>7 DEF Rail, EpState
<1>9. /\ q \in Rail /\ q.ref = m /\ q.connecting_eps = n
      /\ q.connected_eps = R.connected_eps /\ q.connreq_eps = R.connreq_eps
  <2> HIDE DEF n, m, ep
  <2> QED BY <1>2, <1>8 DEF Rail
<1>10. Counted(r)'
  <2>1. In(r, "up")' = In(r, "up") /\ Busy(r)' = Busy(r)
    BY <1>1, <1>2, <1>4 DEF In, Busy
  <2>2. /\ One((app[r] = "holds"))' = One(app[r] = "holds") /\ One((tree = r))' = One(tree = r)
        /\ One((lst.pc = "taken" /\ lst.r = r))' = 0
    BY <1>1 DEF One, AtRest
  <2>3. rails'[r] = q
    <3> HIDE DEF q
    <3> QED BY <1>2, <1>3 DEF IInv, TypeOK
  <2>4. i \notin In(r, "pending")
    BY <1>2 DEF In
  <2>5. CASE ok
    <3>1. In(r, "pending")' = In(r, "pending") \cup {i}
      BY <1>2, <1>4, <2>5 DEF In
    <3>2. Cardinality(In(r, "pending"))' = Cardinality(In(r, "pending")) + 1
      BY <1>2, <1>6, <2>4, <3>1, AddOne
    <3>3. m = R.ref + 1 /\ n = R.connecting_eps
      BY <2>5
    <3> HIDE DEF m, n, q
    <3> QED BY <1>6, <1>7, <1>9, <2>1, <2>2, <2>3, <3>2, <3>3 DEF Counted
  <2>6. CASE ~ok
    <3>1. In(r, "pending")' = In(r, "pending")
      BY <1>2, <1>4, <2>6 DEF In
    <3>2. m = R.ref /\ n = R.connecting_eps - 1
      BY <2>6
    <3> HIDE DEF m, n, q
    <3> QED BY <1>6, <1>7, <1>9, <2>1, <2>2, <2>3, <3>1, <3>2 DEF Counted
  <2> QED BY <2>5, <2>6
<1>11. AtRest \in Listener
  BY NEpsAssumption DEF Listener, AtRest, Eps
<1>12. q.connreq_eps + One(lst.pc = "found") >= R.connreq_eps
  <2> HIDE DEF q
  <2> QED BY <1>2, <1>5, <1>9 DEF Rail
<1> HIDE DEF q
<1> QED BY <1>r, <1>1, <1>3, <1>4, <1>9, <1>10, <1>11, <1>12, ListenerStep

\* An endpoint with an event to come is counted by its rail, which is in the
\* tree unless it was removed early.
LEMMA PendingCounted ==
  ASSUME IInv, NEW r \in Ids, NEW e \in Eps, xprt[r][e] \in {"pending", "up"}
  PROVE  /\ rails[r] \in Rail /\ r <= made /\ Counted(r) /\ Orderly(r)
         /\ xprt[r][e] = "pending" => rails[r].connecting_eps >= 1
         /\ xprt[r][e] = "up" => rails[r].connected_eps >= 1
         /\ r \notin early => tree = r /\ \A f \in Eps : ~thr[r][f].rm
<1>1. r <= made /\ Counted(r) /\ Orderly(r)
  BY IsMade
<1>2. /\ rails[r] \in Rail
      /\ In(r, "pending") \in SUBSET Eps /\ In(r, "up") \in SUBSET Eps
      /\ Cardinality(In(r, "pending")) \in Nat /\ Cardinality(In(r, "up")) \in Nat
  BY Sizes DEF IInv
<1>3. xprt[r][e] = "pending" => rails[r].connecting_eps >= 1
  <2> SUFFICES ASSUME xprt[r][e] = "pending" PROVE rails[r].connecting_eps >= 1
    OBVIOUS
  <2>1. Cardinality(In(r, "pending")) >= 1
    BY <1>2, RemoveOne DEF In
  <2> QED BY <1>1, <1>2, <2>1, OneNat DEF Counted
<1>4. xprt[r][e] = "up" => rails[r].connected_eps >= 1
  <2> SUFFICES ASSUME xprt[r][e] = "up" PROVE rails[r].connected_eps >= 1
    OBVIOUS
  <2>1. Cardinality(In(r, "up")) >= 1
    BY <1>2, RemoveOne DEF In
  <2> QED BY <1>1, <1>2, <2>1 DEF Counted
<1>5. r \notin early => tree = r /\ \A f \in Eps : ~thr[r][f].rm
  BY <1>1 DEF Orderly, Finished
<1> QED BY <1>1, <1>2, <1>3, <1>4, <1>5

\* What an event of endpoint e, whose transport becomes x, does to rail r.
Moves(r, e, q, x) ==
  /\ q \in Rail /\ x \in {"up", "gone"}
  /\ thr[r][e].pc = "idle" /\ xprt[r][e] \in {"pending", "up"}
  /\ x = "up" => xprt[r][e] = "pending"
  /\ q.connreq_eps = rails[r].connreq_eps
  /\ q.ref = rails[r].ref + One(x = "up")
  /\ q.connecting_eps = rails[r].connecting_eps - One(xprt[r][e] = "pending")
  /\ q.connected_eps = rails[r].connected_eps - One(xprt[r][e] = "up") + One(x = "up")

\* The sums of Moves.
LEMMA Units ==
  \A n \in Nat : /\ n + 0 = n /\ n - 0 = n /\ n - 0 + 0 = n
                 /\ n - 0 + 1 = n + 1 /\ n - 1 + 0 = n - 1
OBVIOUS

\* An event of an endpoint that is pending or up.  A removal that it decides is
\* early, or the rail is finished.
LEMMA HandleOK ==
  ASSUME IInv, NEW r \in Ids, NEW e \in Eps, NEW q, NEW x, NEW ends,
         Handle(r, e, q, x, ends), Moves(r, e, q, x), x = "up" => ~ends
  PROVE  IInv'
<1> DEFINE b == ends /\ RmTrigger(q)
           ev == PrepEvent(q)
           c == [pc |-> "app", ev |-> ev, rm |-> b]
           P == In(r, "pending")
           U == In(r, "up")
           B == Busy(r)
<1>a. /\ q \in Rail /\ x \in {"up", "gone"}
      /\ thr[r][e].pc = "idle" /\ xprt[r][e] \in {"pending", "up"}
      /\ x = "up" => xprt[r][e] = "pending" /\ ~ends
  BY DEF Moves
<1>c. q.connreq_eps = rails[r].connreq_eps
  BY DEF Moves
<1>d. /\ q.ref = rails[r].ref + One(x = "up")
      /\ q.connecting_eps = rails[r].connecting_eps - One(xprt[r][e] = "pending")
      /\ q.connected_eps = rails[r].connected_eps - One(xprt[r][e] = "up") + One(x = "up")
  BY DEF Moves
<1>1. /\ rails[r] \in Rail /\ r <= made /\ Counted(r) /\ Orderly(r)
      /\ r \notin early => tree = r /\ \A f \in Eps : ~thr[r][f].rm
  BY <1>a, PendingCounted
<1>2. /\ rails' = [rails EXCEPT ![r] = Prepped(q)]
      /\ thr' = [thr EXCEPT ![r][e] = c]
      /\ xprt' = [xprt EXCEPT ![r][e] = x]
      /\ early' = IF b /\ ~Complete(r) THEN early \cup {r} ELSE early
      /\ made' = made /\ tree' = tree /\ lst' = lst /\ asked' = asked
      /\ app' = app /\ heard' = heard /\ bad' = bad
  BY Zenon DEF Handle
<1>3. /\ P \in SUBSET Eps /\ U \in SUBSET Eps /\ B \in SUBSET Eps
      /\ Cardinality(P) \in Nat /\ Cardinality(U) \in Nat /\ Cardinality(B) \in Nat
  BY Sizes DEF IInv
<1>4. /\ rails' \in [Ids -> Rail] /\ rails'[r] = Prepped(q)
      /\ \A s \in Ids : s # r => rails'[s] = rails[s]
  BY <1>a, <1>2, PreppedFields DEF IInv, TypeOK
<1>5. /\ rails'[r].connreq_eps = rails[r].connreq_eps /\ rails'[r].ref = q.ref
      /\ rails'[r].connecting_eps = q.connecting_eps
      /\ rails'[r].connected_eps = q.connected_eps
  BY <1>a, <1>c, <1>4, PreppedFields
<1>6. b \in BOOLEAN
  BY Zenon
<1>7. ev \in RailEvent
  BY <1>a, PreppedFields
<1> HIDE DEF ev, P, U, B
<1>8. b => ends /\ Drained(q)
  BY DEF RmTrigger
<1> HIDE DEF b
<1>9. c \in Thread /\ c.pc = "app" /\ c.rm = b
  BY <1>6, <1>7, Zenon DEF Thread
<1> HIDE DEF c
<1>10. /\ thr' \in [Ids -> [Eps -> Thread]] /\ thr'[r][e] = c
       /\ \A f \in Eps : f # e => thr'[r][f] = thr[r][f]
       /\ \A s \in Ids : s # r => thr'[s] = thr[s]
  BY <1>2, <1>9 DEF IInv, TypeOK
<1>11. /\ xprt' \in [Ids -> [Eps -> {"none", "pending", "up", "gone"}]] /\ xprt'[r][e] = x
       /\ \A f \in Eps : f # e => xprt'[r][f] = xprt[r][f]
       /\ \A s \in Ids : s # r => xprt'[s] = xprt[s]
  BY <1>a, <1>2 DEF IInv, TypeOK
<1>12. TypeOK'
  <2>1. early' \subseteq Ids
    BY <1>2 DEF IInv, TypeOK
  <2> QED BY <1>2, <1>4, <1>10, <1>11, <2>1 DEF IInv, TypeOK
<1>13. Requests'
  <2>1. e \in asked /\ (lst.pc # "idle" => lst.r # r \/ lst.e # e)
    BY <1>a DEF IInv, Requests
  <2>2. lst.pc # "idle" => xprt'[lst.r][lst.e] = "none"
    <3>1. lst.pc # "idle" => /\ xprt[lst.r][lst.e] = "none" /\ lst.e \in Eps
                             /\ lst.r \in Ids
      BY AtWork DEF IInv
    <3> QED BY <1>11, <2>1, <3>1
  <2>3. \A f \in Eps \ asked, s \in Ids : xprt'[s][f] = "none"
    <3>1. \A f \in Eps \ asked, s \in Ids : xprt[s][f] = "none"
      BY DEF IInv, Requests
    <3> QED BY <1>11, <2>1, <3>1
  <2> QED BY <1>2, <2>2, <2>3 DEF IInv, Requests
<1>14. SafeRemoval'
  BY <1>2 DEF IInv, SafeRemoval
<1>15. Cardinality(P') = Cardinality(P) - One(xprt[r][e] = "pending")
  <2>1. CASE xprt[r][e] = "pending"
    <3>1. P' = P \ {e} /\ e \in P
      BY <1>a, <1>3, <1>11, <2>1 DEF P, In
    <3> QED BY <1>3, <2>1, <3>1, RemoveOne DEF One
  <2>2. CASE xprt[r][e] # "pending"
    <3>1. P' = P
      BY <1>a, <1>11, <2>2 DEF P, In
    <3> QED BY <1>3, <2>2, <3>1 DEF One
  <2> QED BY <2>1, <2>2
<1>16. Cardinality(U') = Cardinality(U) - One(xprt[r][e] = "up") + One(x = "up")
  <2>1. CASE x = "up"
    <3>1. U' = U \cup {e} /\ e \notin U /\ xprt[r][e] # "up"
      BY <1>a, <1>11, <2>1 DEF U, In
    <3> QED BY <1>3, <2>1, <3>1, AddOne DEF One
  <2>2. CASE x = "gone" /\ xprt[r][e] = "up"
    <3>1. U' = U \ {e} /\ e \in U
      BY <1>11, <2>2 DEF U, In
    <3> QED BY <1>3, <2>2, <3>1, RemoveOne DEF One
  <2>3. CASE x = "gone" /\ xprt[r][e] # "up"
    <3>1. U' = U
      BY <1>11, <2>3 DEF U, In
    <3> QED BY <1>3, <2>3, <3>1 DEF One
  <2> QED BY <1>a, <2>1, <2>2, <2>3
<1>17. Cardinality(B') = Cardinality(B) + 1
  <2>1. B' = B \cup {e} /\ e \notin B
    BY <1>a, <1>9, <1>10 DEF B, Busy
  <2> QED BY <1>3, <2>1, AddOne
<1> DEFINE p == Cardinality(P)
           u == Cardinality(U)
           n == Cardinality(B)
           h == One(app[r] = "holds")
           t == One(tree = r)
           k == One(lst.pc = "taken" /\ lst.r = r)
           dp == One(xprt[r][e] = "pending")
           du == One(xprt[r][e] = "up")
           dx == One(x = "up")
<1>18. /\ rails'[r].connecting_eps = Cardinality(P') + k
       /\ rails'[r].connected_eps = Cardinality(U')
       /\ rails'[r].ref = h + t + Cardinality(P') + Cardinality(U') + Cardinality(B')
       /\ Cardinality(P') \in Int
  <2>1. p \in Nat /\ u \in Nat /\ n \in Nat
    BY <1>3
  <2>2. h \in Nat /\ t \in Nat /\ k \in Nat /\ dp \in Nat /\ du \in Nat /\ dx \in Nat
    BY OneNat
  <2>3. /\ rails[r].connecting_eps = p + k /\ rails[r].connected_eps = u
        /\ rails[r].ref = h + t + p + u + n
    BY <1>1 DEF Counted, P, U, B
  <2>4. dp + du = 1
    BY <1>a DEF One
  <2>5. Cardinality(P') = p - dp /\ Cardinality(U') = u - du + dx /\ Cardinality(B') = n + 1
    BY <1>15, <1>16, <1>17
  <2>6. /\ rails'[r].connecting_eps = rails[r].connecting_eps - dp
        /\ rails'[r].connected_eps = rails[r].connected_eps - du + dx
        /\ rails'[r].ref = rails[r].ref + dx
    BY <1>d, <1>5
  <2> HIDE DEF p, u, n, h, t, k, dp, du, dx
  <2>7. /\ (p + k) - dp = (p - dp) + k /\ p - dp \in Int
        /\ (h + t + p + u + n) + dx = h + t + (p - dp) + (u - du + dx) + (n + 1)
    BY <2>1, <2>2, <2>4
  <2> QED BY <2>3, <2>5, <2>6, <2>7, Zenon
<1>19. Counted(r)'
  <2>1. h' = h /\ t' = t /\ k' = k
    BY <1>2
  <2> QED BY <1>18, <2>1 DEF Counted, P, U, B
<1> HIDE DEF p, u, n, h, t, dp, du, dx
<1>20. b /\ Complete(r) => Finished(r)'
  <2> SUFFICES ASSUME b, Complete(r) PROVE Finished(r)'
    OBVIOUS
  <2>1. lst.r # r /\ rails[r].connreq_eps = 0 /\ k = 0
    BY DEF Complete, One
  <2>2. q.connecting_eps = 0 /\ q.connected_eps = 0
    BY <1>8 DEF Drained
  <2> HIDE DEF k
  <2>3. Cardinality(P') = 0 /\ Cardinality(U') = 0
    BY <1>18, <1>5, <2>1, <2>2
  <2>4. P' \in SUBSET Eps /\ U' \in SUBSET Eps
    BY DEF P, U, In
  <2>5. P' = {} /\ U' = {}
    BY <2>3, <2>4, EpsFinite, FS_EmptySet
  <2>6. \A f \in Eps : xprt'[r][f] \notin {"pending", "up"}
    BY <2>5 DEF P, U, In
  <2> QED BY <1>2, <1>5, <2>1, <2>6 DEF Finished
<1>21. Orderly(r)'
  <2>1. \A f \in Eps : thr'[r][f].pc = "remove" => thr'[r][f].rm
    BY <1>1, <1>9, <1>10 DEF Orderly
  <2>2. /\ One((lst.pc = "found" /\ lst.r = r))' = One(lst.pc = "found" /\ lst.r = r)
        /\ Cardinality(asked') = Cardinality(asked)
    BY <1>2
  <2>3. NEps - rails'[r].connreq_eps + One((lst.pc = "found" /\ lst.r = r))' <= Cardinality(asked')
    BY <1>1, <1>5, <2>2 DEF Orderly
  <2>4. r \notin early' => /\ r \notin early /\ tree' = r
                           /\ b => Finished(r)'
                           /\ \A f \in Eps : f # e => ~thr'[r][f].rm
    BY <1>1, <1>2, <1>10, <1>20
  <2>5. thr'[r][e].rm = b
    BY <1>9, <1>10, Zenon
  <2> QED BY <2>1, <2>3, <2>4, <2>5 DEF Orderly
<1>22. \A s \in Ids : s # r => Same(s)
  BY <1>2, <1>4, <1>10, <1>11 DEF Same
<1>23. Cardinality(asked) <= Cardinality(asked')
  BY <1>2, Sizes DEF IInv
<1> QED BY <1>1, <1>2, <1>12, <1>13, <1>14, <1>19, <1>21, <1>22, <1>23, OneRailStep

\* CONNECTED: the endpoint is up.
LEMMA ConnectedOK ==
  ASSUME IInv, NEW r \in Ids, NEW e \in Eps, Connected(r, e) PROVE IInv'
<1> DEFINE q == OnConnected(rails[r], e)
           x == "up"
           ends == FALSE
<1>1. /\ xprt[r][e] = "pending" /\ thr[r][e].pc = "idle"
      /\ Handle(r, e, q, x, ends)
  BY Zenon DEF Connected, Waiting
<1>2. rails[r] \in Rail /\ rails[r].connecting_eps >= 1
  BY <1>1, PendingCounted
<1>3. /\ q \in Rail
      /\ q.connreq_eps = rails[r].connreq_eps
      /\ q.connecting_eps = rails[r].connecting_eps - 1
      /\ q.connected_eps = rails[r].connected_eps + 1
      /\ q.ref = rails[r].ref + 1
  BY <1>2, OnConnectedFields, ZenonT(40)
<1>4. x = "up" /\ (x = "up" => ~ends)
  OBVIOUS
<1> HIDE DEF q, x, ends
<1>5. /\ rails[r].connecting_eps \in Nat /\ rails[r].connected_eps \in Nat
      /\ rails[r].ref \in Nat
  BY <1>2 DEF Rail
<1>6. Moves(r, e, q, x)
  <2>1. One(x = "up") = 1 /\ One(xprt[r][e] = "pending") = 1 /\ One(xprt[r][e] = "up") = 0
    BY <1>1, <1>4 DEF One
  <2>2. /\ q.ref = rails[r].ref + One(x = "up")
        /\ q.connecting_eps = rails[r].connecting_eps - One(xprt[r][e] = "pending")
        /\ q.connected_eps = rails[r].connected_eps - One(xprt[r][e] = "up") + One(x = "up")
    BY <1>3, <1>5, <2>1, Units, Zenon
  <2> QED BY <1>1, <1>3, <1>4, <2>2 DEF Moves
<1> QED BY <1>1, <1>4, <1>6, HandleOK

\* REJECTED: the endpoint is gone.
LEMMA RejectedOK ==
  ASSUME IInv, NEW r \in Ids, NEW e \in Eps, Rejected(r, e) PROVE IInv'
<1> DEFINE q == OnRejected(rails[r], e)
           x == "gone"
           ends == TRUE
<1>1. /\ xprt[r][e] = "pending" /\ thr[r][e].pc = "idle"
      /\ Handle(r, e, q, x, ends)
  BY Zenon DEF Rejected, Waiting
<1>2. rails[r] \in Rail /\ rails[r].connecting_eps >= 1
  BY <1>1, PendingCounted
<1>3. /\ q \in Rail
      /\ q.connreq_eps = rails[r].connreq_eps
      /\ q.connecting_eps = rails[r].connecting_eps - 1
      /\ q.connected_eps = rails[r].connected_eps
      /\ q.ref = rails[r].ref
  BY <1>2, OnRejectedFields
<1>4. x = "gone" /\ (x = "up" => ~ends)
  OBVIOUS
<1> HIDE DEF q, x, ends
<1>5. /\ rails[r].connecting_eps \in Nat /\ rails[r].connected_eps \in Nat
      /\ rails[r].ref \in Nat
  BY <1>2 DEF Rail
<1>6. Moves(r, e, q, x)
  <2>1. One(x = "up") = 0 /\ One(xprt[r][e] = "pending") = 1 /\ One(xprt[r][e] = "up") = 0
    BY <1>1, <1>4 DEF One
  <2>2. /\ q.ref = rails[r].ref + One(x = "up")
        /\ q.connecting_eps = rails[r].connecting_eps - One(xprt[r][e] = "pending")
        /\ q.connected_eps = rails[r].connected_eps - One(xprt[r][e] = "up") + One(x = "up")
    BY <1>3, <1>5, <2>1, Units, Zenon
  <2> QED BY <1>1, <1>3, <1>4, <2>2 DEF Moves
<1> QED BY <1>1, <1>4, <1>6, HandleOK

\* ERROR: the endpoint is gone.
LEMMA ConnectErrorOK ==
  ASSUME IInv, NEW r \in Ids, NEW e \in Eps, ConnectError(r, e) PROVE IInv'
<1> DEFINE q == OnError(rails[r], e)
           x == "gone"
           ends == TRUE
<1>1. /\ xprt[r][e] = "pending" /\ thr[r][e].pc = "idle"
      /\ Handle(r, e, q, x, ends)
  BY Zenon DEF ConnectError, Waiting
<1>2. rails[r] \in Rail /\ rails[r].connecting_eps >= 1
  BY <1>1, PendingCounted
<1>3. /\ q \in Rail
      /\ q.connreq_eps = rails[r].connreq_eps
      /\ q.connecting_eps = rails[r].connecting_eps - 1
      /\ q.connected_eps = rails[r].connected_eps
      /\ q.ref = rails[r].ref
  BY <1>2, OnErrorFields
<1>4. x = "gone" /\ (x = "up" => ~ends)
  OBVIOUS
<1> HIDE DEF q, x, ends
<1>5. /\ rails[r].connecting_eps \in Nat /\ rails[r].connected_eps \in Nat
      /\ rails[r].ref \in Nat
  BY <1>2 DEF Rail
<1>6. Moves(r, e, q, x)
  <2>1. One(x = "up") = 0 /\ One(xprt[r][e] = "pending") = 1 /\ One(xprt[r][e] = "up") = 0
    BY <1>1, <1>4 DEF One
  <2>2. /\ q.ref = rails[r].ref + One(x = "up")
        /\ q.connecting_eps = rails[r].connecting_eps - One(xprt[r][e] = "pending")
        /\ q.connected_eps = rails[r].connected_eps - One(xprt[r][e] = "up") + One(x = "up")
    BY <1>3, <1>5, <2>1, Units, Zenon
  <2> QED BY <1>1, <1>3, <1>4, <2>2 DEF Moves
<1> QED BY <1>1, <1>4, <1>6, HandleOK

\* DISCONNECTED: the endpoint is gone.
LEMMA DisconnectedOK ==
  ASSUME IInv, NEW r \in Ids, NEW e \in Eps, Disconnected(r, e) PROVE IInv'
<1> DEFINE q == OnDisconnected(rails[r], e)
           x == "gone"
           ends == TRUE
<1>1. /\ xprt[r][e] = "up" /\ thr[r][e].pc = "idle"
      /\ Handle(r, e, q, x, ends)
  BY Zenon DEF Disconnected, Waiting
<1>2. rails[r] \in Rail /\ rails[r].connected_eps >= 1
  BY <1>1, PendingCounted
<1>3. /\ q \in Rail
      /\ q.connreq_eps = rails[r].connreq_eps
      /\ q.connecting_eps = rails[r].connecting_eps
      /\ q.connected_eps = rails[r].connected_eps - 1
      /\ q.ref = rails[r].ref
  BY <1>2, OnDisconnectedFields
<1>4. x = "gone" /\ (x = "up" => ~ends)
  OBVIOUS
<1> HIDE DEF q, x, ends
<1>5. /\ rails[r].connecting_eps \in Nat /\ rails[r].connected_eps \in Nat
      /\ rails[r].ref \in Nat
  BY <1>2 DEF Rail
<1>6. Moves(r, e, q, x)
  <2>1. One(x = "up") = 0 /\ One(xprt[r][e] = "pending") = 0 /\ One(xprt[r][e] = "up") = 1
    BY <1>1, <1>4 DEF One
  <2>2. /\ q.ref = rails[r].ref + One(x = "up")
        /\ q.connecting_eps = rails[r].connecting_eps - One(xprt[r][e] = "pending")
        /\ q.connected_eps = rails[r].connected_eps - One(xprt[r][e] = "up") + One(x = "up")
    BY <1>3, <1>5, <2>1, Units, Zenon
  <2> QED BY <1>1, <1>3, <1>4, <2>2 DEF Moves
<1> QED BY <1>1, <1>4, <1>6, HandleOK

\* The application is called; it may put its reference.
LEMMA DeliverOK ==
  ASSUME IInv, NEW r \in Ids, NEW e \in Eps, Deliver(r, e) PROVE IInv'
<1> DEFINE puts == thr[r][e].ev \in Terminal /\ app[r] = "holds"
           k == (IF puts THEN 1 ELSE 0)
           j == (IF thr[r][e].rm THEN 0 ELSE 1)
           re == "remove"
           c == IF thr[r][e].rm THEN [thr[r][e] EXCEPT !.pc = re] ELSE Idle
<1>1. /\ thr[r][e].pc = "app"
      /\ app' = IF puts THEN [app EXCEPT ![r] = "released"] ELSE app
      /\ heard' = IF thr[r][e].ev = "CONNECTED" THEN heard \cup {r} ELSE heard
      /\ thr' = [thr EXCEPT ![r][e] = c]
      /\ rails' = [rails EXCEPT ![r].ref = @ - k - j]
      /\ made' = made /\ tree' = tree /\ lst' = lst /\ asked' = asked
      /\ xprt' = xprt /\ bad' = bad /\ early' = early
  BY DEF Deliver
<1>2. r <= made /\ Counted(r) /\ Orderly(r)
  BY <1>1, IsMade
<1>3. /\ rails[r] \in Rail /\ Busy(r) \in SUBSET Eps /\ thr[r][e] \in Thread
      /\ Cardinality(In(r, "pending")) \in Nat /\ Cardinality(In(r, "up")) \in Nat
      /\ Cardinality(Busy(r)) \in Nat
  BY Sizes DEF IInv
<1>4. /\ c \in Thread /\ (c.pc = "remove" => c.rm)
      /\ (c.rm <=> thr[r][e].rm) /\ (c.pc = "idle" <=> ~thr[r][e].rm)
  <2>1. CASE thr[r][e].rm
    <3>1. re \in {"idle", "app", "remove"} /\ re # "idle"
      OBVIOUS
    <3>2. c = [thr[r][e] EXCEPT !.pc = re]
      BY <2>1
    <3> HIDE DEF re
    <3>3. c \in Thread /\ c.pc = re /\ c.rm = thr[r][e].rm
      BY <1>3, <3>1, <3>2, Zenon DEF Thread
    <3> HIDE DEF c
    <3> QED BY <2>1, <3>1, <3>3
  <2>2. CASE ~thr[r][e].rm
    <3>1. c = Idle /\ Idle.pc = "idle"
      BY <2>2 DEF Idle
    <3>2. Idle \in Thread /\ ~Idle.rm
      BY Zenon DEF Idle, Thread, RailEvent
    <3> HIDE DEF c
    <3> QED BY <2>2, <3>1, <3>2
  <2> QED BY <2>1, <2>2
<1>5. k \in {0, 1} /\ j \in {0, 1}
  OBVIOUS
<1> HIDE DEF c
<1>6. /\ thr' \in [Ids -> [Eps -> Thread]] /\ thr'[r][e] = c
      /\ \A f \in Eps : f # e => thr'[r][f] = thr[r][f]
      /\ \A s \in Ids : s # r => thr'[s] = thr[s]
  BY <1>1, <1>4 DEF IInv, TypeOK
<1>7. Cardinality(Busy(r)') = Cardinality(Busy(r)) - j /\ Cardinality(Busy(r)) >= 1
  <2>1. e \in Busy(r)
    BY <1>1 DEF Busy
  <2>2. CASE thr[r][e].rm
    <3>1. Busy(r)' = Busy(r) /\ j = 0
      BY <1>3, <1>4, <1>6, <2>1, <2>2 DEF Busy
    <3>2. Cardinality(Busy(r)) >= 1
      BY <1>3, <2>1, RemoveOne
    <3> HIDE DEF j
    <3> QED BY <1>3, <3>1, <3>2
  <2>3. CASE ~thr[r][e].rm
    <3>1. Busy(r)' = Busy(r) \ {e} /\ j = 1
      BY <1>3, <1>4, <1>6, <2>3 DEF Busy
    <3> QED BY <1>3, <2>1, <3>1, RemoveOne
  <2> QED BY <2>2, <2>3
<1>8. /\ One((app[r] = "holds"))' = One(app[r] = "holds") - k
      /\ One(app[r] = "holds") - k \in Nat
  BY <1>1, <1>3 DEF One, IInv, TypeOK
<1>9. \A s \in Ids : s # r => app'[s] = app[s]
  BY <1>1 DEF IInv, TypeOK
<1>10. app' \in [Ids -> {"none", "holds", "released"}] /\ heard' \subseteq Ids
  BY <1>1 DEF IInv, TypeOK
<1> HIDE DEF k, j, puts
<1>11. rails[r].ref - k - j \in Nat
  BY <1>2, <1>3, <1>5, <1>7, <1>8 DEF Counted, One
<1> DEFINE m == rails[r].ref - k - j
           q == [rails[r] EXCEPT !.ref = m]
<1>12. rails' = [rails EXCEPT ![r] = q]
  BY <1>1, <1>3 DEF IInv, TypeOK, Rail
<1>13. m \in Nat
  BY <1>11
<1> HIDE DEF m
<1>14. q \in Rail
  BY <1>3, <1>13, Zenon DEF Rail
<1>15. /\ q.connreq_eps = rails[r].connreq_eps /\ q.connecting_eps = rails[r].connecting_eps
       /\ q.connected_eps = rails[r].connected_eps /\ q.ref = m
  BY <1>3 DEF Rail
<1> HIDE DEF q
<1>16. /\ rails' \in [Ids -> Rail] /\ rails'[r] = q
       /\ \A s \in Ids : s # r => rails'[s] = rails[s]
  BY <1>12, <1>14 DEF IInv, TypeOK
<1>17. TypeOK' /\ Requests' /\ SafeRemoval'
  <2>1. TypeOK'
    BY <1>1, <1>6, <1>10, <1>16 DEF IInv, TypeOK
  <2> QED BY <1>1, <2>1 DEF IInv, Requests, SafeRemoval
<1>18. Counted(r)'
  <2>1. In(r, "pending")' = In(r, "pending") /\ In(r, "up")' = In(r, "up")
    BY <1>1 DEF In
  <2>2. /\ One((tree = r))' = One(tree = r) /\ One(tree = r) \in Nat
        /\ One((lst.pc = "taken" /\ lst.r = r))' = One(lst.pc = "taken" /\ lst.r = r)
    BY <1>1 DEF One
  <2>3. m = One((app[r] = "holds"))' + One(tree = r) + Cardinality(In(r, "pending"))
            + Cardinality(In(r, "up")) + Cardinality(Busy(r)')
    <3>1. rails[r].ref = One(app[r] = "holds") + One(tree = r) + Cardinality(In(r, "pending"))
                         + Cardinality(In(r, "up")) + Cardinality(Busy(r))
      BY <1>2 DEF Counted
    <3>2. One(app[r] = "holds") \in Nat
      BY DEF One
    <3>3. k \in Int /\ j \in Int
      BY <1>5
    <3> QED BY <1>3, <1>7, <1>8, <2>2, <3>1, <3>2, <3>3 DEF m
  <2> QED BY <1>2, <1>15, <1>16, <2>1, <2>2, <2>3 DEF Counted
<1>19. Orderly(r)'
  <2>1. \A f \in Eps : (thr'[r][f].rm <=> thr[r][f].rm)
    BY <1>4, <1>6
  <2>2. \A f \in Eps : thr'[r][f].pc = "remove" => thr'[r][f].rm
    BY <1>2, <1>4, <1>6 DEF Orderly
  <2>3. Finished(r) => Finished(r)'
    BY <1>1, <1>15, <1>16 DEF Finished
  <2>4. /\ One((lst.pc = "found" /\ lst.r = r))' = One(lst.pc = "found" /\ lst.r = r)
        /\ Cardinality(asked') = Cardinality(asked)
    BY <1>1
  <2> QED BY <1>1, <1>2, <1>15, <1>16, <2>1, <2>2, <2>3, <2>4 DEF Orderly
<1>20. \A s \in Ids : s # r => Same(s)
  BY <1>1, <1>6, <1>9, <1>16 DEF Same
<1>21. Cardinality(asked) <= Cardinality(asked') /\ r <= made' /\ made' = made
  BY <1>1, <1>2, Sizes DEF IInv
<1> QED BY <1>17, <1>18, <1>19, <1>20, <1>21, OneRailStep

\* The rail leaves the tree.
LEMMA RemoveOK ==
  ASSUME IInv, NEW r \in Ids, NEW e \in Eps, Remove(r, e) PROVE IInv'
<1>1. /\ thr[r][e].pc = "remove" /\ thr' = [thr EXCEPT ![r][e] = Idle]
      /\ rails' = [rails EXCEPT ![r].ref = @ - 2]
      /\ tree = r /\ tree' = 0
      /\ made' = made /\ lst' = lst /\ asked' = asked /\ xprt' = xprt
      /\ app' = app /\ heard' = heard /\ bad' = bad /\ early' = early
  BY DEF Remove
<1>2. r <= made /\ Counted(r) /\ Orderly(r)
  BY <1>1, IsMade
<1>3. /\ rails[r] \in Rail /\ Busy(r) \in SUBSET Eps
      /\ Cardinality(In(r, "pending")) \in Nat /\ Cardinality(In(r, "up")) \in Nat
      /\ Cardinality(Busy(r)) \in Nat
  BY Sizes DEF IInv
<1>4. thr[r][e].rm
  BY <1>1, <1>2 DEF Orderly
<1>5. Idle \in Thread /\ Idle.pc = "idle" /\ ~Idle.rm
  BY Zenon DEF Idle, Thread, RailEvent
<1>6. /\ thr' \in [Ids -> [Eps -> Thread]] /\ thr'[r][e] = Idle
      /\ \A f \in Eps : f # e => thr'[r][f] = thr[r][f]
      /\ \A s \in Ids : s # r => thr'[s] = thr[s]
  BY <1>1, <1>5 DEF IInv, TypeOK
<1>7. Cardinality(Busy(r)') = Cardinality(Busy(r)) - 1 /\ Cardinality(Busy(r)) >= 1
  <2>1. e \in Busy(r) /\ Busy(r)' = Busy(r) \ {e}
    BY <1>1, <1>5, <1>6 DEF Busy
  <2> QED BY <1>3, <2>1, RemoveOne
<1>8. /\ rails[r].ref = One(app[r] = "holds") + 1 + Cardinality(In(r, "pending"))
                        + Cardinality(In(r, "up")) + Cardinality(Busy(r))
      /\ One(app[r] = "holds") \in Nat
  BY <1>1, <1>2 DEF Counted, One
<1> DEFINE m == rails[r].ref - 2
           q == [rails[r] EXCEPT !.ref = m]
<1>9. rails' = [rails EXCEPT ![r] = q]
  BY <1>1, <1>3 DEF IInv, TypeOK, Rail
<1>10. /\ m \in Nat
       /\ m = One(app[r] = "holds") + Cardinality(In(r, "pending"))
              + Cardinality(In(r, "up")) + Cardinality(Busy(r)')
  BY <1>3, <1>7, <1>8
<1> HIDE DEF m
<1>11. q \in Rail
  BY <1>3, <1>10, Zenon DEF Rail
<1>12. /\ q.connreq_eps = rails[r].connreq_eps /\ q.connecting_eps = rails[r].connecting_eps
       /\ q.connected_eps = rails[r].connected_eps /\ q.ref = m
  BY <1>3 DEF Rail
<1> HIDE DEF q
<1>13. /\ rails' \in [Ids -> Rail] /\ rails'[r] = q
       /\ \A s \in Ids : s # r => rails'[s] = rails[s]
  BY <1>9, <1>11 DEF IInv, TypeOK
<1>14. r \in Nat /\ r # 0 /\ made \in Nat /\ \A s \in Ids : s # 0
  BY NEpsAssumption DEF IInv, TypeOK, Ids
<1>15. TypeOK' /\ Requests' /\ SafeRemoval'
  <2>1. tree' \in 0 .. NEps /\ tree' <= made'
    BY <1>1, <1>14, NEpsAssumption
  <2> QED BY <1>1, <1>6, <1>13, <2>1 DEF IInv, TypeOK, Requests, SafeRemoval
<1>16. Counted(r)'
  <2>1. In(r, "pending")' = In(r, "pending") /\ In(r, "up")' = In(r, "up")
    BY <1>1 DEF In
  <2>2. /\ One((tree = r))' = 0 /\ One((app[r] = "holds"))' = One(app[r] = "holds")
        /\ One((lst.pc = "taken" /\ lst.r = r))' = One(lst.pc = "taken" /\ lst.r = r)
    BY <1>1, <1>14 DEF One
  <2>3. Cardinality(Busy(r)') \in Nat
    BY <1>3, <1>7
  <2>4. m = One(app[r] = "holds") + 0 + Cardinality(In(r, "pending"))
            + Cardinality(In(r, "up")) + Cardinality(Busy(r)')
    BY <1>3, <1>8, <1>10, <2>3
  <2> QED BY <1>2, <1>12, <1>13, <2>1, <2>2, <2>4 DEF Counted
<1>17. Orderly(r)'
  <2>1. \A f \in Eps : thr'[r][f].pc = "remove" => thr'[r][f].rm
    BY <1>2, <1>5, <1>6 DEF Orderly
  <2>2. r \notin early => Finished(r)' /\ \A f \in Eps : ~thr'[r][f].rm
    <3>1. r \notin early => Finished(r) /\ \A f \in Eps \ {e} : ~thr[r][f].rm
      BY <1>2, <1>4 DEF Orderly
    <3> QED BY <1>1, <1>5, <1>6, <1>12, <1>13, <3>1 DEF Finished
  <2>3. /\ One((lst.pc = "found" /\ lst.r = r))' = One(lst.pc = "found" /\ lst.r = r)
        /\ Cardinality(asked') = Cardinality(asked)
    BY <1>1
  <2> QED BY <1>1, <1>2, <1>12, <1>13, <2>1, <2>2, <2>3 DEF Orderly
<1>18. \A s \in Ids : s # r => Same(s)
  BY <1>1, <1>6, <1>13, <1>14 DEF Same
<1>19. Cardinality(asked) <= Cardinality(asked') /\ r <= made' /\ made' = made
  BY <1>1, <1>2, Sizes DEF IInv
<1> QED BY <1>15, <1>16, <1>17, <1>18, <1>19, OneRailStep

\* ldms_xprt_close() touches neither counters nor references.
LEMMA AppCloseOK == ASSUME IInv, NEW r \in Ids, AppClose(r) PROVE IInv'
<1> DEFINE q == Close(rails[r])
<1>1. /\ app[r] = "holds" /\ rails' = [rails EXCEPT ![r] = q]
      /\ made' = made /\ tree' = tree /\ lst' = lst /\ asked' = asked /\ xprt' = xprt
      /\ thr' = thr /\ app' = app /\ heard' = heard /\ bad' = bad /\ early' = early
  BY DEF AppClose
<1>2. r <= made /\ Counted(r) /\ Orderly(r)
  BY <1>1, IsMade
<1>3. rails[r] \in Rail
  BY Sizes DEF IInv
<1>4. /\ q \in Rail /\ q.connreq_eps = rails[r].connreq_eps
      /\ q.connecting_eps = rails[r].connecting_eps
      /\ q.connected_eps = rails[r].connected_eps /\ q.ref = rails[r].ref
  BY <1>3, CloseFields
<1> HIDE DEF q
<1>5. /\ rails' \in [Ids -> Rail] /\ rails'[r] = q
      /\ \A s \in Ids : s # r => rails'[s] = rails[s]
  BY <1>1, <1>4 DEF IInv, TypeOK
<1>6. TypeOK' /\ Requests' /\ SafeRemoval'
  BY <1>1, <1>5 DEF IInv, TypeOK, Requests, SafeRemoval
<1>7. Counted(r)'
  <2>1. /\ In(r, "pending")' = In(r, "pending") /\ In(r, "up")' = In(r, "up")
        /\ Busy(r)' = Busy(r)
    BY <1>1 DEF In, Busy
  <2>2. /\ One((app[r] = "holds"))' = One(app[r] = "holds")
        /\ One((tree = r))' = One(tree = r)
        /\ One((lst.pc = "taken" /\ lst.r = r))' = One(lst.pc = "taken" /\ lst.r = r)
    BY <1>1
  <2> QED BY <1>2, <1>4, <1>5, <2>1, <2>2 DEF Counted
<1>8. Orderly(r)'
  <2>1. Finished(r) => Finished(r)'
    BY <1>1, <1>4, <1>5 DEF Finished
  <2>2. One((lst.pc = "found" /\ lst.r = r))' = One(lst.pc = "found" /\ lst.r = r)
    BY <1>1
  <2> QED BY <1>1, <1>2, <1>4, <1>5, <2>1, <2>2 DEF Orderly
<1>9. \A s \in Ids : s # r => Same(s)
  BY <1>1, <1>5 DEF Same
<1>10. Cardinality(asked) <= Cardinality(asked') /\ r <= made' /\ made' = made
  BY <1>1, <1>2, Sizes DEF IInv
<1> QED BY <1>6, <1>7, <1>8, <1>9, <1>10, OneRailStep

\* A removal that finds the rail out of the tree was decided early.
LEMMA RemoveTwiceOK ==
  ASSUME IInv, NEW r \in Ids, NEW e \in Eps, RemoveTwice(r, e) PROVE IInv'
<1>1. /\ thr[r][e].pc = "remove" /\ tree # r /\ bad' = r
      /\ rails' = rails /\ made' = made /\ tree' = tree /\ lst' = lst /\ asked' = asked
      /\ xprt' = xprt /\ thr' = thr /\ app' = app /\ heard' = heard /\ early' = early
  BY DEF RemoveTwice
<1>2. r \in early
  BY <1>1, IsMade DEF Orderly
<1>3. bad' \in 0 .. NEps
  BY <1>1, NEpsAssumption DEF Ids
<1> QED BY <1>1, <1>2, <1>3, NothingTouched DEF SafeRemoval

\* A rail freed under the listener's thread was removed early: the others are in
\* the tree while the thread works on them.
LEMMA ListenerFaultOK == ASSUME IInv, ListenerFault PROVE IInv'
<1>1. /\ lst.pc \in {"found", "taken"} /\ Freed(lst.r) /\ bad' = lst.r
      /\ rails' = rails /\ made' = made /\ tree' = tree /\ lst' = lst /\ asked' = asked
      /\ xprt' = xprt /\ thr' = thr /\ app' = app /\ heard' = heard /\ early' = early
  BY DEF ListenerFault
<1>2. PICK r \in Ids : r = lst.r
  <2>1. lst.pc # "idle"
    BY <1>1
  <2> QED BY <2>1, AtWork DEF IInv
<1>3. r <= made /\ rails[r].ref = 0
  BY <1>1, <1>2 DEF Freed
<1>4. Counted(r) /\ Orderly(r)
  <2>1. r \in Int /\ made \in Int /\ RailOK(r)
    BY NEpsAssumption DEF IInv, TypeOK, Ids
  <2> QED BY <1>3, <2>1 DEF RailOK
<1>5. r \in early
  <2> SUFFICES ASSUME r \notin early PROVE FALSE
    OBVIOUS
  <2>1. tree = r
    BY <1>2, <1>4 DEF Orderly, Finished
  <2>2. One(tree = r) = 1
    BY <2>1 DEF One
  <2>3. /\ Cardinality(In(r, "pending")) \in Nat /\ Cardinality(In(r, "up")) \in Nat
        /\ Cardinality(Busy(r)) \in Nat /\ One(app[r] = "holds") \in Nat
    BY Sizes, OneNat DEF IInv
  <2> QED BY <1>3, <1>4, <2>2, <2>3 DEF Counted
<1>6. bad' \in 0 .. NEps
  BY <1>1, <1>2, NEpsAssumption DEF Ids
<1> QED BY <1>1, <1>2, <1>5, <1>6, NothingTouched DEF SafeRemoval

\* Every step preserves the invariant.
LEMMA StepOK == ASSUME IInv, [Next]_vars PROVE IInv'
<1>1. ASSUME NEW e \in Eps, Find(e) PROVE IInv'
  BY <1>1, FindOK
<1>2. ASSUME NEW ok \in BOOLEAN, Take(ok) PROVE IInv'
  BY <1>2, TakeOK
<1>3. ASSUME NEW ok \in BOOLEAN, Accept(ok) PROVE IInv'
  BY <1>3, AcceptOK
<1>4. ASSUME NEW r \in Ids, AppClose(r) PROVE IInv'
  BY <1>4, AppCloseOK
<1>5. ASSUME NEW r \in Ids, NEW e \in Eps, Connected(r, e) PROVE IInv'
  BY <1>5, ConnectedOK
<1>6. ASSUME NEW r \in Ids, NEW e \in Eps, Rejected(r, e) PROVE IInv'
  BY <1>6, RejectedOK
<1>7. ASSUME NEW r \in Ids, NEW e \in Eps, ConnectError(r, e) PROVE IInv'
  BY <1>7, ConnectErrorOK
<1>8. ASSUME NEW r \in Ids, NEW e \in Eps, Disconnected(r, e) PROVE IInv'
  BY <1>8, DisconnectedOK
<1>9. ASSUME NEW r \in Ids, NEW e \in Eps, Deliver(r, e) PROVE IInv'
  BY <1>9, DeliverOK
<1>10. ASSUME NEW r \in Ids, NEW e \in Eps, Remove(r, e) PROVE IInv'
  BY <1>10, RemoveOK
<1>11. ASSUME NEW r \in Ids, NEW e \in Eps, RemoveTwice(r, e) PROVE IInv'
  BY <1>11, RemoveTwiceOK
<1>12. ASSUME ListenerFault PROVE IInv'
  BY <1>12, ListenerFaultOK
<1>13. CASE UNCHANGED vars
  <2>1. bad' \in 0 .. NEps /\ SafeRemoval'
    BY <1>13 DEF IInv, TypeOK, SafeRemoval, vars
  <2> QED BY <1>13, <2>1, NothingTouched DEF vars
<1> QED
  BY <1>1, <1>2, <1>3, <1>4, <1>5, <1>6, <1>7, <1>8, <1>9, <1>10, <1>11, <1>12, <1>13
  DEF Next, Step
-----------------------------------------------------------------------------
\* The invariant holds throughout.
LEMMA Invariance == Spec => []IInv
<1>1. IInv /\ [Next]_vars => IInv'
  BY StepOK
<1> QED BY InitOK, <1>1, PTL DEF Spec

\* The properties of the rails that were made follow.
LEMMA CountedIsExact == IInv => CountersExact /\ RefsExact
<1> SUFFICES ASSUME IInv, NEW r \in 1 .. made PROVE Counted(r)
  BY DEF CountersExact, RefsExact, Counted, Busy
<1>1. r \in Ids /\ ~(r > made)
  BY NEpsAssumption DEF IInv, TypeOK, Ids
<1> QED BY <1>1 DEF IInv, RailOK

\* Every variable keeps its type; in particular no counter of a passive rail
\* and no reference count is ever decremented below zero.
THEOREM TypeCorrect == Spec => []TypeOK
<1>1. IInv => TypeOK
  BY DEF IInv
<1> QED BY Invariance, <1>1, PTL

\* connecting_eps and connected_eps of every passive rail of a peer count the
\* endpoints being accepted and those that are up, also when the peer's later
\* requests make a second rail while the first one is going.
THEOREM CountersAreExact == Spec => []CountersExact
<1>1. IInv => CountersExact
  BY CountedIsExact
<1> QED BY Invariance, <1>1, PTL

\* Every reference of a passive rail has a holder and every holder a reference.
THEOREM RefsAreExact == Spec => []RefsExact
<1>1. IInv => RefsExact
  BY CountedIsExact
<1> QED BY Invariance, <1>1, PTL

\* The listener's thread works on a freed rail, or __rail_cb() takes a rail out
\* of __passive_rail_rbt when it is not there, only if the rail's removal was
\* decided before the peer's requests for it were all served.
THEOREM RemovalIsSafe == Spec => []SafeRemoval
<1>1. IInv => SafeRemoval
  BY DEF IInv
<1> QED BY Invariance, <1>1, PTL
=============================================================================
