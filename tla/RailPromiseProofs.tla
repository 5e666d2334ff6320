-------------------------- MODULE RailPromiseProofs -------------------------
(***************************************************************************)
(* A rail of any number of endpoints implements RailPromise: its user sees *)
(* one connection.                                                         *)
(***************************************************************************)
EXTENDS RailActiveProofs

\* The parts of the refinement mapping.
Doomed == rail.state \in {"ERROR", "REJECTED"}
Events == Told \cup DueEvents
St == IF app = "new" THEN "idle"
      ELSE IF Events \cap Terminal # {} \/ In("none") = Eps THEN "over"
      ELSE IF "CONNECTED" \in Events THEN "up"
      ELSE IF app = "holds" THEN "posted" ELSE "stray"
Due == IF DueEvents = {} THEN "none"
       ELSE IF DueEvents = {"CONNECTED"} THEN "CONNECTED" ELSE "TERMINAL"

Abstract(s, b, d) == [st |-> s, doomed |-> b, due |-> d]

\* doomed is a truth value.
LEMMA DoomedBoolean == Doomed \in BOOLEAN /\ Doomed' \in BOOLEAN
<1>1. Doomed \in BOOLEAN
  BY DEF Doomed
<1>2. Doomed' \in BOOLEAN
  BY DEF Doomed
<1> QED BY <1>1, <1>2

\* The mapping is made of these parts.
LEMMA MapParts == AbstractConn = Abstract(St, Doomed, Due)
BY Zenon DEF AbstractConn, Abstract, St, Doomed, Due, Events

\* The same in the next state.
LEMMA MapPartsNext == AbstractConn' = Abstract(St', Doomed', Due')
BY Zenon DEF AbstractConn, Abstract, St, Doomed, Due, Events

\* Replacing some of its parts.
LEMMA SetSt ==
  ASSUME NEW s, NEW b, NEW d, NEW x
  PROVE  [Abstract(s, b, d) EXCEPT !.st = x] = Abstract(x, b, d)
BY DEF Abstract

\* The same for doomed.
LEMMA SetDoomed ==
  ASSUME NEW s, NEW b, NEW d, NEW x
  PROVE  [Abstract(s, b, d) EXCEPT !.doomed = x] = Abstract(s, x, d)
BY DEF Abstract

\* The same for due.
LEMMA SetDue ==
  ASSUME NEW s, NEW b, NEW d, NEW x
  PROVE  [Abstract(s, b, d) EXCEPT !.due = x] = Abstract(s, b, x)
BY DEF Abstract

\* What the steps of RailConn are on such records.
StepsOf(s, b, d) ==
  /\ Promise!NewConn = Abstract("idle", FALSE, "none")
  /\ Promise!Post(Abstract(s, b, d)) = Abstract("posted", b, d)
  /\ Promise!PostFails(Abstract(s, b, d), TRUE) = Abstract("stray", TRUE, d)
  /\ Promise!PostFails(Abstract(s, b, d), FALSE) = Abstract("over", TRUE, d)
  /\ Promise!Doom(Abstract(s, b, d)) = Abstract(s, TRUE, d)
  /\ Promise!ComeUp(Abstract(s, b, d)) = Abstract("up", b, "CONNECTED")
  /\ Promise!End(Abstract(s, b, d)) = Abstract("over", TRUE, "TERMINAL")
  /\ Promise!Delivered(Abstract(s, b, d)) = Abstract(s, b, "none")
  /\ Abstract(s, b, d).st = s /\ Abstract(s, b, d).due = d

\* The definitions of RailConn, expanded.
LEMMA AbstractSteps ==
  ASSUME NEW s, NEW b, NEW d
  PROVE  StepsOf(s, b, d)
<1> DEFINE c == Abstract(s, b, d)
<1>1. Promise!NewConn = Abstract("idle", FALSE, "none")
  BY Zenon DEF Abstract, Promise!NewConn
<1>2. /\ Promise!Post(c) = [c EXCEPT !.st = "posted"]
      /\ Promise!PostFails(c, TRUE) = [c EXCEPT !.st = "stray", !.doomed = TRUE]
      /\ Promise!PostFails(c, FALSE) = [c EXCEPT !.st = "over", !.doomed = TRUE]
      /\ Promise!Doom(c) = [c EXCEPT !.doomed = TRUE]
      /\ Promise!End(c) = [c EXCEPT !.st = "over", !.doomed = TRUE, !.due = "TERMINAL"]
      /\ Promise!ComeUp(c) = [c EXCEPT !.st = "up", !.due = "CONNECTED"]
      /\ Promise!Delivered(c) = [c EXCEPT !.due = "none"]
  BY Zenon DEF Promise!Post, Promise!PostFails, Promise!Doom, Promise!End,
               Promise!ComeUp, Promise!Delivered
<1>3. ASSUME NEW x PROVE [c EXCEPT !.st = x] = Abstract(x, b, d)
  BY SetSt
<1>4. ASSUME NEW x PROVE [c EXCEPT !.doomed = x] = Abstract(s, x, d)
  BY SetDoomed
<1>5. ASSUME NEW x PROVE [c EXCEPT !.due = x] = Abstract(s, b, x)
  BY SetDue
<1>6. Abstract(s, b, d).st = s /\ Abstract(s, b, d).due = d
  BY DEF Abstract
<1> HIDE DEF c
<1>7. ASSUME NEW x, NEW y PROVE [c EXCEPT !.st = x, !.doomed = y] = Abstract(x, y, d)
  <2>1. [c EXCEPT !.st = x, !.doomed = y] = [[c EXCEPT !.st = x] EXCEPT !.doomed = y]
    BY Zenon
  <2>2. [c EXCEPT !.st = x] = Abstract(x, b, d)
    BY <1>3
  <2>3. [Abstract(x, b, d) EXCEPT !.doomed = y] = Abstract(x, y, d)
    BY SetDoomed
  <2> QED BY <2>1, <2>2, <2>3, Zenon
<1>8. ASSUME NEW x, NEW y PROVE [c EXCEPT !.st = x, !.due = y] = Abstract(x, b, y)
  <2>1. [c EXCEPT !.st = x, !.due = y] = [[c EXCEPT !.st = x] EXCEPT !.due = y]
    BY Zenon
  <2>2. [c EXCEPT !.st = x] = Abstract(x, b, d)
    BY <1>3
  <2>3. [Abstract(x, b, d) EXCEPT !.due = y] = Abstract(x, b, y)
    BY SetDue
  <2> QED BY <2>1, <2>2, <2>3, Zenon
<1>9. ASSUME NEW x, NEW y, NEW z
      PROVE  [c EXCEPT !.st = x, !.doomed = y, !.due = z] = Abstract(x, y, z)
  <2>1. [c EXCEPT !.st = x, !.doomed = y, !.due = z]
          = [[c EXCEPT !.st = x, !.doomed = y] EXCEPT !.due = z]
    BY Zenon
  <2>2. [c EXCEPT !.st = x, !.doomed = y] = Abstract(x, y, d)
    BY <1>7, Zenon
  <2>3. [Abstract(x, y, d) EXCEPT !.due = z] = Abstract(x, y, z)
    BY SetDue
  <2> QED BY <2>1, <2>2, <2>3, Zenon
<1>10. /\ Promise!Post(c) = Abstract("posted", b, d)
       /\ Promise!Doom(c) = Abstract(s, TRUE, d)
       /\ Promise!Delivered(c) = Abstract(s, b, "none")
  BY <1>2, <1>3, <1>4, <1>5, Zenon
<1>11. /\ Promise!PostFails(c, TRUE) = Abstract("stray", TRUE, d)
       /\ Promise!PostFails(c, FALSE) = Abstract("over", TRUE, d)
  BY <1>2, <1>7, Zenon
<1>12. Promise!ComeUp(c) = Abstract("up", b, "CONNECTED")
  <2>1. [c EXCEPT !.st = "up", !.due = "CONNECTED"] = Abstract("up", b, "CONNECTED")
    BY <1>8, Zenon
  <2> QED BY <1>2, <2>1, Zenon
<1>13. Promise!End(c) = Abstract("over", TRUE, "TERMINAL")
  BY <1>2, <1>9, Zenon
<1> QED BY <1>1, <1>6, <1>10, <1>11, <1>12, <1>13, Zenon DEF c, StepsOf

\* The steps of a connection in terms of the parts, from s, b, d to t, c, f.
PartStep(s, b, d, t, c, f) ==
  \/ s = "idle" /\ t = "posted" /\ c = b /\ f = d
  \/ s = "idle" /\ t \in {"stray", "over"} /\ c = TRUE /\ f = d
  \/ s \in {"posted", "up"} /\ t = s /\ c = TRUE /\ f = d
  \/ s = "posted" /\ b = FALSE /\ d = "none" /\ t = "up" /\ c = b /\ f = "CONNECTED"
  \/ s \in {"posted", "stray", "up"} /\ d = "none" /\ t = "over" /\ c = TRUE /\ f = "TERMINAL"
  \/ d # "none" /\ t = s /\ c = b /\ f = "none"

\* They are the steps of RailConn.
LEMMA PartStepIsStep ==
  ASSUME NEW s, NEW b, NEW d, NEW t, NEW c, NEW f, PartStep(s, b, d, t, c, f)
  PROVE  Promise!ConnStep(Abstract(s, b, d), Abstract(t, c, f))
<1> DEFINE u == Abstract(s, b, d)
           v == Abstract(t, c, f)
<1>1. /\ Promise!Post(u) = Abstract("posted", b, d)
      /\ Promise!PostFails(u, TRUE) = Abstract("stray", TRUE, d)
      /\ Promise!PostFails(u, FALSE) = Abstract("over", TRUE, d)
      /\ Promise!Doom(u) = Abstract(s, TRUE, d)
      /\ Promise!ComeUp(u) = Abstract("up", b, "CONNECTED")
      /\ Promise!End(u) = Abstract("over", TRUE, "TERMINAL")
      /\ Promise!Delivered(u) = Abstract(s, b, "none")
      /\ u.st = s /\ u.due = d
  <2>1. StepsOf(s, b, d)
    BY AbstractSteps
  <2> QED BY <2>1, Zenon DEF StepsOf
<1>2. u.doomed = b
  BY DEF Abstract
<1> HIDE DEF u, v
<1>3. CASE s = "idle" /\ t = "posted" /\ c = b /\ f = d
  BY <1>1, <1>3, Zenon DEF v, u, Promise!ConnStep
<1>4. CASE s = "idle" /\ t \in {"stray", "over"} /\ c = TRUE /\ f = d
  BY <1>1, <1>4, Zenon DEF v, u, Promise!ConnStep
<1>5. CASE s \in {"posted", "up"} /\ t = s /\ c = TRUE /\ f = d
  BY <1>1, <1>5, Zenon DEF v, u, Promise!ConnStep
<1>6. CASE s = "posted" /\ b = FALSE /\ d = "none" /\ t = "up" /\ c = b /\ f = "CONNECTED"
  BY <1>1, <1>2, <1>6, Zenon DEF v, u, Promise!ConnStep, Promise!CanComeUp
<1>7. CASE /\ s \in {"posted", "stray", "up"} /\ d = "none" /\ t = "over"
           /\ c = TRUE /\ f = "TERMINAL"
  BY <1>1, <1>7, Zenon DEF v, u, Promise!ConnStep, Promise!CanEnd
<1>8. CASE d # "none" /\ t = s /\ c = b /\ f = "none"
  BY <1>1, <1>8, Zenon DEF v, u, Promise!ConnStep
<1> QED BY <1>3, <1>4, <1>5, <1>6, <1>7, <1>8, Zenon DEF PartStep

\* What a step of the rail may be to its user.
Shows == PartStep(St, Doomed, Due, St', Doomed', Due')
Hidden == St' = St /\ Doomed' = Doomed /\ Due' = Due

\* Either kind is allowed by RailPromise.
LEMMA StepIsPromised ==
  ASSUME Shows \/ Hidden
  PROVE  [Promise!Next]_AbstractConn
<1>1. CASE Shows
  <2>1. Promise!ConnStep(Abstract(St, Doomed, Due), Abstract(St', Doomed', Due'))
    BY <1>1, PartStepIsStep, Zenon DEF Shows
  <2> QED BY <2>1, MapParts, MapPartsNext, Zenon DEF Promise!Next
<1>2. CASE Hidden
  BY <1>2, MapParts, MapPartsNext, Zenon DEF Hidden
<1> QED BY <1>1, <1>2

(***************************************************************************)
(* What the mapping needs beyond IInv.                                     *)
(***************************************************************************)

\* A connect that returned 0 has posted every endpoint, and a rail that the
\* application does not hold, or that has told it the end, is doomed.
Life ==
  /\ app = "holds" => \A e \in Eps : xprt[e] # "none"
  /\ app \in {"failed", "released"} => Doomed
  /\ \A e \in Eps : thr[e] \in Terminal => Doomed
  /\ \A i \in 1 .. Len(calls) : calls[i] \in Terminal => Doomed

\* What the four endpoint events have in common: r is the rail that the case of
\* __rail_cb() leaves, x the transport of the endpoint.
EventOf(e, r, x) ==
  /\ r \in Rail /\ x \in {"up", "gone"} /\ Handle(e, r, x)
  /\ xprt[e] \in {"pending", "up"} /\ thr[e] = "idle"
  /\ r.state \in {"CONNECTING", "ACCEPTING"} => rail.state = r.state
  /\ Doomed => r.state \in {"ERROR", "REJECTED"}

\* Each of them is one.
LEMMA AnEvent ==
  ASSUME IInv, NEW e \in Eps, Answered(e) \/ Disconnected(e)
  PROVE  \E r \in Rail, x \in {"up", "gone"} : EventOf(e, r, x)
<1>t. rail \in Rail /\ xprt \in [Eps -> XprtState]
  BY DEF IInv, CountInv, TypeOK
<1>p. /\ xprt[e] = "pending" => rail.connecting_eps >= 1
      /\ xprt[e] = "up" => rail.connected_eps >= 1
  <2>1. In("pending") \in SUBSET Eps /\ In("up") \in SUBSET Eps
        /\ (xprt[e] = "pending" => e \in In("pending")) /\ (xprt[e] = "up" => e \in In("up"))
    BY DEF In
  <2> QED BY <2>1, RemoveOne DEF IInv, CountInv, CountersExact
<1>1. CASE Connected(e)
  <2> DEFINE r == OnConnected(rail, e)
  <2>1. xprt[e] = "pending" /\ thr[e] = "idle" /\ Handle(e, r, "up")
    BY <1>1 DEF Connected
  <2>2. r \in Rail /\ r.state = rail.state
    BY <1>t, <1>p, <2>1, OnConnectedFields
  <2> HIDE DEF r
  <2>3. EventOf(e, r, "up")
    BY <2>1, <2>2 DEF EventOf, Doomed
  <2> QED BY <2>2, <2>3
<1>2. CASE Rejected(e)
  <2> DEFINE r == OnRejected(rail, e)
  <2>1. xprt[e] = "pending" /\ thr[e] = "idle" /\ Handle(e, r, "gone")
    BY <1>2 DEF Rejected
  <2>2. r \in Rail /\ r.state = "REJECTED"
    BY <1>t, <1>p, <2>1, OnRejectedFields
  <2> HIDE DEF r
  <2>3. EventOf(e, r, "gone")
    BY <2>1, <2>2 DEF EventOf, Doomed
  <2> QED BY <2>2, <2>3
<1>3. CASE ConnectError(e)
  <2> DEFINE r == OnError(rail, e)
  <2>1. xprt[e] = "pending" /\ thr[e] = "idle" /\ Handle(e, r, "gone")
    BY <1>3 DEF ConnectError
  <2>2. r \in Rail /\ r.state = "ERROR"
    BY <1>t, <1>p, <2>1, OnErrorFields
  <2> HIDE DEF r
  <2>3. EventOf(e, r, "gone")
    BY <2>1, <2>2 DEF EventOf, Doomed
  <2> QED BY <2>2, <2>3
<1>4. CASE Disconnected(e)
  <2> DEFINE r == OnDisconnected(rail, e)
  <2>1. xprt[e] = "up" /\ thr[e] = "idle" /\ Handle(e, r, "gone")
    BY <1>4 DEF Disconnected
  <2>2. r \in Rail /\ r.state = IF rail.state = "CONNECTED" THEN "ERROR" ELSE rail.state
    BY <1>t, <1>p, <2>1, OnDisconnectedFields
  <2> HIDE DEF r
  <2>3. EventOf(e, r, "gone")
    BY <2>1, <2>2 DEF EventOf, Doomed
  <2> QED BY <2>2, <2>3
<1> QED BY <1>1, <1>2, <1>3, <1>4 DEF Answered

\* What an event prepared by __rail_ev_prep() says about the rail.
LEMMA EventEffect ==
  ASSUME IInv, NEW e \in Eps, NEW r, NEW x, EventOf(e, r, x)
  PROVE  /\ app' = app /\ calls' = calls /\ app # "new"
         /\ thr' = [thr EXCEPT ![e] = PrepEvent(r)] /\ PrepEvent(r) \in RailEvent
         /\ thr \in [Eps -> {"idle"} \cup RailEvent]
         /\ \A f \in Eps : (xprt'[f] = "none") = (xprt[f] = "none")
         /\ xprt[e] # "none"
         /\ PrepEvent(r) \in Terminal => rail'.state \in {"ERROR", "REJECTED"}
         /\ PrepEvent(r) = "CONNECTED" => rail.state = "CONNECTING" /\ rail'.state = "CONNECTED"
         /\ rail.state \in {"ERROR", "REJECTED"} => rail'.state \in {"ERROR", "REJECTED"}
<1>1. /\ rail' = Prepped(r) /\ xprt' = [xprt EXCEPT ![e] = x] /\ app' = app /\ calls' = calls
      /\ thr' = [thr EXCEPT ![e] = PrepEvent(r)] /\ r \in Rail /\ x \in {"up", "gone"}
      /\ xprt[e] \in {"pending", "up"}
  BY DEF EventOf, Handle
<1>2. xprt \in [Eps -> XprtState] /\ thr \in [Eps -> {"idle"} \cup RailEvent] /\ app # "new"
  BY <1>1 DEF IInv, CountInv, TypeOK, Fresh
<1>3. PrepEvent(r) \in RailEvent
      /\ rail'.state = IF PrepEvent(r) = "CONNECTED" THEN "CONNECTED" ELSE r.state
  BY <1>1, PreppedFields
<1>4. \A f \in Eps : (xprt'[f] = "none") = (xprt[f] = "none")
  <2>1. \A f \in Eps : xprt'[f] = IF f = e THEN x ELSE xprt[f]
    BY <1>1, <1>2
  <2> QED BY <1>1, <2>1
<1>5. PrepEvent(r) \in Terminal => r.state \in {"ERROR", "REJECTED"}
  BY DEF PrepEvent, Terminal
<1>6. PrepEvent(r) = "CONNECTED" => r.state \in {"CONNECTING", "ACCEPTING"}
  BY DEF PrepEvent
<1>7. rail.state # "ACCEPTING"
  BY DEF IInv, EpsAgree
<1>8. /\ r.state \in {"CONNECTING", "ACCEPTING"} => rail.state = r.state
      /\ rail.state \in {"ERROR", "REJECTED"} => r.state \in {"ERROR", "REJECTED"}
  BY DEF EventOf, Doomed
<1> QED BY <1>1, <1>2, <1>3, <1>4, <1>5, <1>6, <1>7, <1>8 DEF Terminal

\* St has five values; while the application holds the rail and it is not
\* doomed, it is waiting or up.
LEMMA HeldIsLive ==
  ASSUME IInv, Life, app = "holds", ~Doomed
  PROVE  St \in {"posted", "up"}
<1>1. 0 \in Eps
  BY NEpsAssumption DEF Eps
<1>2. In("none") # Eps
  BY <1>1 DEF Life, In
<1>3. Events \cap Terminal = {}
  BY DEF Events, Told, DueEvents, Life
<1> QED BY <1>2, <1>3, Zenon DEF St

\* An event of an endpoint keeps Life ...
LEMMA EventLife ==
  ASSUME IInv, Life, NEW e \in Eps, NEW r, NEW x, EventOf(e, r, x)
  PROVE  Life'
<1>1. /\ app' = app /\ calls' = calls /\ app # "new"
      /\ thr' = [thr EXCEPT ![e] = PrepEvent(r)] /\ PrepEvent(r) \in RailEvent
      /\ thr \in [Eps -> {"idle"} \cup RailEvent]
      /\ \A f \in Eps : (xprt'[f] = "none") = (xprt[f] = "none")
      /\ PrepEvent(r) \in Terminal => Doomed'
      /\ Doomed => Doomed'
  BY EventEffect DEF Doomed
<1>2. \A f \in Eps : thr'[f] = IF f = e THEN PrepEvent(r) ELSE thr[f]
  BY <1>1
<1>3. app' = "holds" => \A f \in Eps : xprt'[f] # "none"
  BY <1>1 DEF Life
<1>4. app' \in {"failed", "released"} => Doomed'
  BY <1>1 DEF Life
<1>5. \A f \in Eps : thr'[f] \in Terminal => Doomed'
  BY <1>1, <1>2 DEF Life
<1>6. \A i \in 1 .. Len(calls') : calls'[i] \in Terminal => Doomed'
  BY <1>1 DEF Life
<1> QED BY <1>3, <1>4, <1>5, <1>6 DEF Life

\* ... and is no step of the connection, or dooms it, or brings it up, or ends it.
LEMMA EventShows ==
  ASSUME IInv, IInv', Life, Life', NEW e \in Eps, NEW r, NEW x, EventOf(e, r, x)
  PROVE  Shows \/ Hidden
<1> DEFINE p == PrepEvent(r)
<1>1. /\ app' = app /\ calls' = calls /\ app # "new"
      /\ thr' = [thr EXCEPT ![e] = p] /\ p \in RailEvent
      /\ thr \in [Eps -> {"idle"} \cup RailEvent] /\ thr[e] = "idle"
      /\ xprt[e] # "none" /\ xprt[e] \in {"pending", "up"}
      /\ \A f \in Eps : (xprt'[f] = "none") = (xprt[f] = "none")
  BY EventEffect DEF EventOf
<1>2. /\ p \in Terminal => rail'.state \in {"ERROR", "REJECTED"}
      /\ p = "CONNECTED" => rail.state = "CONNECTING" /\ rail'.state = "CONNECTED"
      /\ Doomed => Doomed'
  BY EventEffect DEF Doomed
<1> HIDE DEF p
<1>3. Told' = Told
  BY <1>1 DEF Told
<1>4. DueEvents' = DueEvents \cup ({p} \ {"NONE"})
  <2>1. \A f \in Eps : thr'[f] = IF f = e THEN p ELSE thr[f]
    BY <1>1
  <2>2. p # "idle"
    BY <1>1 DEF RailEvent, Terminal
  <2> QED BY <1>1, <2>1, <2>2 DEF DueEvents
<1>5. In("none")' = In("none") /\ In("none") # Eps
  BY <1>1 DEF In
<1>6. Events' = Events \cup ({p} \ {"NONE"})
  BY <1>3, <1>4 DEF Events
<1>7. Doomed \in BOOLEAN /\ Doomed' \in BOOLEAN
  BY DoomedBoolean
<1>8. app = "holds" \/ Doomed
  BY <1>1 DEF Life, IInv, CountInv, TypeOK, AppState
<1>9. CASE p = "NONE"
  <2>1. DueEvents' = DueEvents /\ Events' = Events
    BY <1>4, <1>6, <1>9
  <2>2. Due' = Due
    BY <2>1, Zenon DEF Due
  <2>3. St' = St
    BY <1>1, <1>5, <2>1, Zenon DEF St
  <2>4. CASE Doomed
    <3>1. Doomed' = Doomed
      BY <1>2, <1>7, <2>4, Zenon
    <3> QED BY <2>2, <2>3, <3>1 DEF Hidden
  <2>5. CASE ~Doomed /\ ~Doomed'
    <3>1. Doomed' = Doomed
      BY <1>7, <2>5, Zenon
    <3> QED BY <2>2, <2>3, <3>1 DEF Hidden
  <2>6. CASE ~Doomed /\ Doomed'
    <3>1. Doomed' = TRUE
      BY <1>7, <2>6, Zenon
    <3>2. St \in {"posted", "up"}
      BY <1>8, <2>6, HeldIsLive
    <3> QED BY <2>2, <2>3, <3>1, <3>2, Zenon DEF Shows, PartStep
  <2> QED BY <2>4, <2>5, <2>6
<1>10. CASE p = "CONNECTED"
  <2>1. rail.state = "CONNECTING" /\ rail'.state = "CONNECTED"
    BY <1>2, <1>10
  <2>2. ~Doomed /\ ~Doomed'
    BY <2>1 DEF Doomed
  <2>3. Doomed = FALSE /\ Doomed' = FALSE
    BY <1>7, <2>2, Zenon
  <2>4. calls = <<>> /\ \A f \in Eps : Quiet(f)
    BY <2>1 DEF IInv, ThreadsInOrder
  <2>5. DueEvents = {} /\ Events = {}
    BY <2>4 DEF DueEvents, Events, Told, Quiet
  <2>6. DueEvents' = {"CONNECTED"} /\ Events' = {"CONNECTED"}
    BY <1>4, <1>6, <1>10, <2>5
  <2>7. St = "posted"
    BY <1>5, <1>8, <2>2, <2>5 DEF St
  <2>8. Due = "none" /\ Due' = "CONNECTED"
    BY <2>5, <2>6 DEF Due
  <2>9. St' = "up"
    <3>1. Events' \cap Terminal = {} /\ "CONNECTED" \in Events'
      BY <2>6 DEF Terminal
    <3> QED BY <1>1, <1>5, <3>1, Zenon DEF St
  <2> QED BY <2>3, <2>7, <2>8, <2>9, Zenon DEF Shows, PartStep
<1>11. CASE p \in Terminal
  <2>1. Doomed' = TRUE
    BY <1>2, <1>11, Zenon DEF Doomed
  <2>2. thr'[e] \in Terminal
    BY <1>1, <1>11
  <2>3. \A f \in Eps \ {e} : Quiet(f)'
    BY <2>2 DEF IInv, ThreadsInOrder
  <2>4. DueEvents = {}
    BY <1>1, <2>3 DEF DueEvents, Quiet
  <2>5. Events \cap Terminal = {}
    <3>1. \A i \in 1 .. Len(calls) : calls[i] = "CONNECTED"
      BY <1>1, LiveMeansEarly
    <3> QED BY <2>4, <3>1 DEF Events, Told, Terminal
  <2>6. DueEvents' = {p} /\ p \in Events' \cap Terminal /\ p # "CONNECTED"
    BY <1>4, <1>6, <1>11, <2>4 DEF Terminal
  <2>7. Due = "none" /\ Due' = "TERMINAL"
    BY <2>4, <2>6 DEF Due
  <2>8. St \in {"posted", "stray", "up"}
    BY <1>1, <1>5, <2>5, Zenon DEF St
  <2>9. St' = "over"
    BY <1>1, <2>6 DEF St
  <2> QED BY <2>1, <2>7, <2>8, <2>9, Zenon DEF Shows, PartStep
<1> QED BY <1>1, <1>9, <1>10, <1>11 DEF RailEvent

\* ldms_xprt_connect() posts the connection, or fails with or without a rest.
LEMMA ConnectShows ==
  ASSUME IInv, NEW n \in 0 .. NEps, Connect(n)
  PROVE  Life' /\ Shows
<1>1. /\ app = "new" /\ rail = NewRail /\ calls = <<>> /\ calls' = calls /\ thr' = thr
      /\ \A e \in Eps : thr[e] = "idle"
      /\ xprt' = [e \in Eps |-> IF e < n THEN "pending" ELSE "none"]
      /\ app' = IF n = NEps THEN "holds" ELSE "failed"
  BY DEF Connect, IInv, CountInv, Fresh
<1>2. rail'.state = IF n = NEps THEN "CONNECTING" ELSE "ERROR"
  <2>1. rail \in Rail
    BY DEF IInv, CountInv, TypeOK
  <2> QED BY <2>1 DEF Connect, Rail
<1>3. Events = {} /\ Events' = {} /\ DueEvents = {} /\ DueEvents' = {}
  BY <1>1 DEF Events, Told, DueEvents
<1>4. St = "idle" /\ Due = "none" /\ Due' = "none"
  BY <1>1, <1>3 DEF St, Due
<1>5. Doomed = FALSE
  <2>1. ~Doomed
    BY <1>1 DEF Doomed, NewRail
  <2> QED BY <2>1, DoomedBoolean, Zenon
<1>6. 0 \in Eps /\ \A e \in Eps : e \in Nat /\ e < NEps
  BY NEpsAssumption DEF Eps
<1>7. Life'
  <2>1. app' = "holds" => \A e \in Eps : xprt'[e] # "none"
    BY <1>1, <1>6
  <2>2. app' \in {"failed", "released"} => Doomed'
    BY <1>1, <1>2 DEF Doomed
  <2>3. /\ \A e \in Eps : thr'[e] \in Terminal => Doomed'
        /\ \A i \in 1 .. Len(calls') : calls'[i] \in Terminal => Doomed'
    BY <1>1 DEF Terminal
  <2> QED BY <2>1, <2>2, <2>3 DEF Life
<1>8. CASE n = NEps
  <2>1. app' = "holds" /\ 0 \notin In("none")'
    BY <1>1, <1>6, <1>8 DEF In
  <2>2. St' = "posted"
    BY <1>3, <1>6, <2>1 DEF St
  <2>3. Doomed' = FALSE
    <3>1. ~Doomed'
      BY <1>2, <1>8 DEF Doomed
    <3> QED BY <3>1, DoomedBoolean, Zenon
  <2>4. Shows
    BY <1>4, <1>5, <2>2, <2>3, Zenon DEF Shows, PartStep
  <2> QED BY <1>7, <2>4
<1>9. CASE n # NEps
  <2>1. app' = "failed"
    BY <1>1, <1>9
  <2>2. Doomed' = TRUE
    <3>1. Doomed'
      BY <1>2, <1>9 DEF Doomed
    <3> QED BY <3>1, DoomedBoolean, Zenon
  <2>3. St' \in {"over", "stray"}
    BY <1>3, <2>1 DEF St
  <2>4. Shows
    BY <1>4, <2>2, <2>3, Zenon DEF Shows, PartStep
  <2> QED BY <1>7, <2>4
<1> QED BY <1>8, <1>9

\* Dropping a rail whose connect failed does not show.
LEMMA AppDropHides ==
  ASSUME IInv, Life, AppDrop
  PROVE  Life' /\ Hidden
<1>1. /\ app = "failed" /\ app' = "released" /\ xprt' = xprt /\ thr' = thr /\ calls' = calls
      /\ rail'.state = rail.state
  <2>1. rail \in Rail
    BY DEF IInv, CountInv, TypeOK
  <2> QED BY <2>1 DEF AppDrop, Rail
<1>2. Events' = Events /\ DueEvents' = DueEvents /\ In("none")' = In("none")
  BY <1>1 DEF Events, Told, DueEvents, In
<1>3. St' = St
  BY <1>1, <1>2 DEF St
<1>4. Due' = Due
  BY <1>2, Zenon DEF Due
<1>5. Doomed' = Doomed
  BY <1>1, Zenon DEF Doomed
<1>6. Life'
  BY <1>1 DEF Life, Doomed
<1> QED BY <1>3, <1>4, <1>5, <1>6 DEF Hidden

\* ldms_xprt_close() dooms the connection.
LEMMA AppCloseShows ==
  ASSUME IInv, Life, AppClose
  PROVE  Life' /\ (Shows \/ Hidden)
<1>1. /\ app = "holds" /\ app' = app /\ xprt' = xprt /\ thr' = thr /\ calls' = calls
      /\ rail'.state = "ERROR"
  BY CloseFields DEF AppClose, IInv, CountInv, TypeOK
<1>2. Events' = Events /\ DueEvents' = DueEvents /\ In("none")' = In("none")
  BY <1>1 DEF Events, Told, DueEvents, In
<1>3. St' = St
  BY <1>1, <1>2, Zenon DEF St
<1>4. Due' = Due
  BY <1>2, Zenon DEF Due
<1>5. Doomed' = TRUE
  <2>1. Doomed'
    BY <1>1 DEF Doomed
  <2> QED BY <2>1, DoomedBoolean, Zenon
<1>6. Life'
  BY <1>1 DEF Life, Doomed
<1>7. CASE Doomed
  <2>1. Doomed' = Doomed
    BY <1>5, <1>7, DoomedBoolean, Zenon
  <2> QED BY <1>3, <1>4, <1>6, <2>1 DEF Hidden
<1>8. CASE ~Doomed
  <2>1. St \in {"posted", "up"}
    BY <1>1, <1>8, HeldIsLive
  <2>2. Shows
    BY <1>3, <1>4, <1>5, <2>1, Zenon DEF Shows, PartStep
  <2> QED BY <1>6, <2>2
<1> QED BY <1>7, <1>8

\* Calling the application delivers the event that was due, if any.
LEMMA DeliverShows ==
  ASSUME IInv, Life, NEW e \in Eps, Deliver(e)
  PROVE  Life' /\ (Shows \/ Hidden)
<1> DEFINE p == thr[e]
<1>1. /\ p # "idle" /\ thr' = [thr EXCEPT ![e] = "idle"] /\ xprt' = xprt
      /\ calls' = IF p = "NONE" THEN calls ELSE Append(calls, p)
      /\ app' = IF p \in Terminal /\ app = "holds" THEN "released" ELSE app
  BY DEF Deliver
<1>2. /\ thr \in [Eps -> {"idle"} \cup RailEvent] /\ calls \in Seq(RailEvent) /\ app # "new"
      /\ rail \in Rail
  BY <1>1 DEF IInv, CountInv, TypeOK, Fresh
<1>3. rail'.state = rail.state
  BY <1>2 DEF Deliver, Rail
<1>4. Doomed' = Doomed
  BY <1>3, Zenon DEF Doomed
<1>5. p \in RailEvent
  BY <1>1, <1>2
<1>6. \A f \in Eps : thr'[f] = IF f = e THEN "idle" ELSE thr[f]
  BY <1>1, <1>2
<1>7. In("none")' = In("none")
  BY <1>1 DEF In
<1>8. p \in Terminal => Doomed
  BY DEF Life
<1> HIDE DEF p
<1>9. Told' = IF p = "NONE" THEN Told ELSE Told \cup {p}
  <2>1. CASE p = "NONE"
    BY <1>1, <2>1 DEF Told
  <2>2. CASE p # "NONE"
    <3>1. calls' = Append(calls, p) /\ Len(calls') = Len(calls) + 1 /\ Len(calls) \in Nat
      BY <1>1, <1>2, <1>5, <2>2
    <3>2. \A i \in 1 .. Len(calls') : calls'[i] = IF i = Len(calls) + 1 THEN p ELSE calls[i]
      BY <1>2, <1>5, <3>1
    <3>3. Told' \subseteq Told \cup {p}
      BY <3>1, <3>2 DEF Told
    <3>4. Told \cup {p} \subseteq Told'
      <4>1. p \in Told'
        BY <3>1, <3>2 DEF Told
      <4>2. ASSUME NEW i \in 1 .. Len(calls) PROVE calls[i] \in Told'
        <5>1. i \in 1 .. Len(calls') /\ calls'[i] = calls[i]
          BY <3>1, <3>2
        <5> QED BY <5>1 DEF Told
      <4> QED BY <4>1, <4>2 DEF Told
    <3> QED BY <2>2, <3>3, <3>4
  <2> QED BY <2>1, <2>2
<1>10. Life'
  <2>1. app' = "holds" => \A f \in Eps : xprt'[f] # "none"
    BY <1>1 DEF Life
  <2>2. app' \in {"failed", "released"} => Doomed'
    BY <1>1, <1>4, <1>8 DEF Life
  <2>3. \A f \in Eps : thr'[f] \in Terminal => Doomed'
    BY <1>4, <1>6 DEF Life, Terminal
  <2>4. \A y \in Told' : y \in Terminal => Doomed'
    BY <1>4, <1>8, <1>9, ZenonT(40) DEF Life, Told
  <2>5. \A i \in 1 .. Len(calls') : calls'[i] \in Terminal => Doomed'
    BY <2>4 DEF Told
  <2> QED BY <2>1, <2>2, <2>3, <2>5 DEF Life
<1>11. CASE p = "NONE"
  <2>1. Told' = Told /\ app' = app
    BY <1>1, <1>9, <1>11 DEF Terminal
  <2>2. DueEvents' = DueEvents
    BY <1>6, <1>11 DEF DueEvents, p
  <2>3. Events' = Events
    BY <2>1, <2>2 DEF Events
  <2>4. St' = St
    BY <1>7, <2>1, <2>3, Zenon DEF St
  <2>5. Due' = Due
    BY <2>2, Zenon DEF Due
  <2>6. Hidden
    BY <1>4, <2>4, <2>5 DEF Hidden
  <2> QED BY <1>10, <2>6
<1>12. CASE p # "NONE"
  <2>1. \A f \in Eps \ {e} : Quiet(f)
    BY <1>5, <1>12 DEF RailEvent, IInv, ThreadsInOrder, p
  <2>2. DueEvents = {p} /\ DueEvents' = {}
    <3>1. DueEvents = {p}
      BY <1>1, <1>12, <2>1 DEF DueEvents, Quiet, p
    <3>2. DueEvents' = {}
      BY <1>6, <2>1 DEF DueEvents, Quiet
    <3> QED BY <3>1, <3>2
  <2>3. Events' = Events /\ p \in Events
    BY <1>9, <1>12, <2>2 DEF Events
  <2>4. Due # "none" /\ Due' = "none"
    BY <2>2 DEF Due
  <2>5. St' = St
    <3>1. CASE p \in Terminal
      BY <1>1, <1>2, <2>3, <3>1 DEF St
    <3>2. CASE p \notin Terminal
      <4>1. app' = app
        BY <1>1, <3>2
      <4> QED BY <1>7, <2>3, <4>1, Zenon DEF St
    <3> QED BY <3>1, <3>2
  <2>6. Shows
    BY <1>4, <2>4, <2>5, Zenon DEF Shows, PartStep
  <2> QED BY <1>10, <2>6
<1> QED BY <1>11, <1>12

\* Every step is one of the connection or does not show.
LEMMA NextPromised ==
  ASSUME IInv, IInv', Life, [Next]_vars
  PROVE  Life' /\ [Promise!Next]_AbstractConn
<1>1. ASSUME NEW n \in 0 .. NEps, Connect(n) PROVE Life' /\ (Shows \/ Hidden)
  BY <1>1, ConnectShows
<1>2. ASSUME AppDrop PROVE Life' /\ (Shows \/ Hidden)
  BY <1>2, AppDropHides
<1>3. ASSUME AppClose PROVE Life' /\ (Shows \/ Hidden)
  BY <1>3, AppCloseShows
<1>4. ASSUME NEW e \in Eps, Answered(e) \/ Disconnected(e) PROVE Life' /\ (Shows \/ Hidden)
  <2>1. PICK r \in Rail, x \in {"up", "gone"} : EventOf(e, r, x)
    BY <1>4, AnEvent
  <2>2. Life'
    BY <2>1, EventLife
  <2> QED BY <2>1, <2>2, EventShows
<1>5. ASSUME NEW e \in Eps, Deliver(e) PROVE Life' /\ (Shows \/ Hidden)
  BY <1>5, DeliverShows
<1>6. CASE UNCHANGED vars
  <2>1. St' = St /\ Due' = Due /\ Doomed' = Doomed
    BY <1>6, Zenon DEF vars, St, Due, Doomed, Events, Told, DueEvents, In
  <2>2. Life'
    BY <1>6 DEF vars, Life, Doomed
  <2> QED BY <2>1, <2>2, StepIsPromised DEF Hidden
<1>7. CASE Next
  <2>1. Life' /\ (Shows \/ Hidden)
    BY <1>1, <1>2, <1>3, <1>4, <1>5, <1>7 DEF Next
  <2> QED BY <2>1, StepIsPromised
<1> QED BY <1>6, <1>7

\* Before the connect the connection is idle.
LEMMA InitPromised == Init => Life /\ Promise!Init
<1> SUFFICES ASSUME Init PROVE Life /\ Promise!Init
  OBVIOUS
<1>1. app = "new" /\ calls = <<>> /\ rail.state = "INIT" /\ \A e \in Eps : thr[e] = "idle"
  BY DEF Init, NewRail
<1>2. Life
  BY <1>1 DEF Life, Terminal
<1>3. DueEvents = {}
  BY <1>1 DEF DueEvents
<1>4. St = "idle" /\ Due = "none"
  BY <1>1, <1>3 DEF St, Due
<1>5. Doomed = FALSE
  <2>1. ~Doomed
    BY <1>1 DEF Doomed
  <2> QED BY <2>1, DoomedBoolean, Zenon
<1>6. AbstractConn = Abstract("idle", FALSE, "none")
  BY <1>4, <1>5, MapParts, Zenon
<1>7. Promise!NewConn = Abstract("idle", FALSE, "none")
  BY Zenon DEF Abstract, Promise!NewConn
<1> QED BY <1>2, <1>6, <1>7, Zenon DEF Promise!Init

\* A rail of any number of endpoints, with their threads and the callbacks of
\* __rail_cb() outside r->mutex, is to the user of ldms_xprt_connect() one
\* connection, whatever the answers and the losses.
THEOREM Implements == Spec => ImplementsPromise
<1>1. IInv /\ IInv' /\ Life /\ [Next]_vars => Life' /\ [Promise!Next]_AbstractConn
  BY NextPromised
<1> QED BY <1>1, InitPromised, InitOrder, NextOrder, PTL
        DEF Spec, ImplementsPromise, Promise!Spec
=============================================================================
