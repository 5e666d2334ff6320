------------------------------ MODULE RailCore ------------------------------
(***************************************************************************)
(* The pure part of an LDMS rail (src/ldms/src/core/ldms_rail.c): one      *)
(* logical transport made of NEps transport endpoints.  A rail is a record *)
(* with the fields of struct ldms_rail_s that drive its connection state,  *)
(* and each operator below is what the code does to that record while it   *)
(* holds r->mutex.  RailActive and RailPassive supply the threads, the     *)
(* transport and the application around it.                                *)
(***************************************************************************)
EXTENDS Integers, FiniteSets

CONSTANT NEps                        \* r->n_eps

ASSUME NEpsAssumption == NEps \in Nat \ {0}

Eps == 0 .. NEps - 1                 \* indices into r->eps[]

\* enum ldms_rail_ep_state_e, used for r->state and for r->eps[i].state.
EpState == {"INIT", "LISTENING", "ACCEPTING", "CONNECTING", "CONNECTED",
            "PEER_CLOSE", "CLOSE", "ERROR", "REJECTED"}

\* The connection events that __rail_ev_prep() can prepare for the application.
\* "NONE": call_cb is 0 and the application is not called.
Terminal == {"REJECTED", "ERROR", "DISCONNECTED"}
RailEvent == {"NONE", "CONNECTED"} \cup Terminal

Rail == [passive : BOOLEAN, state : EpState, ep : [Eps -> EpState],
         connecting_eps : Nat, connected_eps : Nat, rejected_eps : Nat,
         conn_error_eps : Nat, connreq_eps : Int,
         closing : SUBSET Eps, ref : Nat, bad : BOOLEAN]

\* ldms_xprt_rail_new(): every counter is zero, the creator holds "rail_ref".
\* "closing" are the endpoints given to ldms_xprt_close(); "bad" records that
\* an assert() of __rail_cb() failed.
NewRail == [passive |-> FALSE, state |-> "INIT", ep |-> [e \in Eps |-> "INIT"],
            connecting_eps |-> 0, connected_eps |-> 0, rejected_eps |-> 0,
            conn_error_eps |-> 0, connreq_eps |-> 0,
            closing |-> {}, ref |-> 1, bad |-> FALSE]

Drained(r) == r.connected_eps = 0 /\ r.connecting_eps = 0

\* __rail_cut(): close every endpoint that is still CONNECTED.  __rail_close()
\* does the same to the endpoints.
Cut(r) ==
  LET up == {e \in Eps : r.ep[e] = "CONNECTED"}
  IN  [r EXCEPT !.ep = [e \in Eps |-> IF e \in up THEN "ERROR" ELSE r.ep[e]],
                !.closing = @ \cup up]

\* Mutant: the ERROR case forgets the endpoints that are still connecting.
PrepEvent_ForgetsConnecting(r) ==
  CASE r.state \in {"CONNECTING", "ACCEPTING"} /\ r.connected_eps = NEps -> "CONNECTED"
    [] r.state = "REJECTED" /\ ~r.passive /\ Drained(r) -> "REJECTED"
    [] r.state = "ERROR" /\ r.connected_eps = 0 -> "ERROR"
    [] OTHER -> "NONE"

\* __rail_ev_prep(): the event that the rail's state calls for, ...
PrepEvent(r) ==
  CASE r.state \in {"CONNECTING", "ACCEPTING"} /\ r.connected_eps = NEps -> "CONNECTED"
    [] r.state = "REJECTED" /\ ~r.passive /\ Drained(r) -> "REJECTED"
    [] r.state = "ERROR" /\ Drained(r) -> IF r.conn_error_eps > 0 THEN "ERROR"
                                          ELSE IF r.rejected_eps > 0 THEN "REJECTED"
                                          ELSE "DISCONNECTED"
    [] OTHER -> "NONE"

\* ... and the state change it makes when the last endpoint is connected.
Prepped(r) == IF PrepEvent(r) = "CONNECTED" THEN [r EXCEPT !.state = "CONNECTED"] ELSE r

\* Mutant: a CONNECTED that is late is counted but not closed.
OnConnected_KeepsLate(r, e) ==
  [r EXCEPT !.ref = @ + 1, !.ep[e] = "CONNECTED",
            !.connected_eps = @ + 1, !.connecting_eps = @ - 1]

\* Mutant: the failed endpoint is still counted as connecting.
OnError_KeepsCount(r, e) ==
  Cut([r EXCEPT !.conn_error_eps = @ + 1, !.state = "ERROR", !.ep[e] = "ERROR"])

\* Mutant: the other endpoints are not closed.
OnError_NoCut(r, e) ==
  [r EXCEPT !.connecting_eps = @ - 1, !.conn_error_eps = @ + 1,
            !.state = "ERROR", !.ep[e] = "ERROR"]

\* Mutant: the wrong counter is decremented.
OnDisconnected_WrongCounter(r, e) ==
  Cut([r EXCEPT !.state = IF @ = "CONNECTED" THEN "ERROR" ELSE @,
                !.connecting_eps = @ - 1,
                !.ep[e] = IF @ = "CONNECTED" THEN "CLOSE" ELSE @])

\* Mutant: close leaves the rail in the state that a closed endpoint has.
Close_AsClosed(r) == Cut([r EXCEPT !.state = "CLOSE"])

(***************************************************************************)
(* __rail_cb(), one operator per endpoint event, up to the point where     *)
(* r->mutex is released.  The rail_cb reference is taken here; the         *)
(* reference of the endpoint ("ldms_connect" or "ldms_accepting", then     *)
(* "ldms_connected") is put or exchanged, so CONNECTED adds one reference  *)
(* and every other event leaves the count as it was.                       *)
(***************************************************************************)
OnConnected(r, e) ==
  LET refused == r.state = "ERROR"
  IN  [r EXCEPT !.ref = @ + 1,      \* +rail_cb -ldms_connect +ldms_connected
                !.ep[e] = IF refused THEN "ERROR" ELSE "CONNECTED",
                !.closing = IF refused THEN @ \cup {e} ELSE @,
                !.connected_eps = @ + 1,
                !.connecting_eps = @ - 1,
                !.bad = r.state \notin {"CONNECTING", "ACCEPTING", "ERROR"}]

OnRejected(r, e) ==
  Cut([r EXCEPT !.bad = r.ep[e] \notin {"CONNECTING", "ACCEPTING"},
                !.connecting_eps = @ - 1,
                !.rejected_eps = @ + 1,
                !.state = "REJECTED",
                !.ep[e] = "REJECTED"])

OnError(r, e) ==
  Cut([r EXCEPT !.bad = r.ep[e] \notin {"CONNECTING", "ACCEPTING"},
                !.connecting_eps = @ - 1,
                !.conn_error_eps = @ + 1,
                !.state = "ERROR",
                !.ep[e] = "ERROR"])

OnDisconnected(r, e) ==
  Cut([r EXCEPT !.state = IF @ = "CONNECTED" THEN "ERROR" ELSE @,
                !.connected_eps = @ - 1,
                !.bad = r.ep[e] \notin {"CONNECTED", "ERROR"},
                !.ep[e] = IF @ = "CONNECTED" THEN "CLOSE" ELSE @])

\* Mutant: the endpoints that are still being accepted are forgotten.
RmTrigger_ForgetsConnecting(r) == r.passive /\ r.connected_eps = 0

\* passive_rail_rm_trigger
RmTrigger(r) == r.passive /\ Drained(r)

\* __rail_close(), from the application.
Close(r) == Cut([r EXCEPT !.state = "ERROR"])
=============================================================================
