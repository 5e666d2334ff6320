---------------------------- MODULE RailPromise -----------------------------
(***************************************************************************)
(* The abstract specification of a rail that connects: the callback given  *)
(* to ldms_xprt_connect() hears CONNECTED at most once and first, then one *)
(* terminal event, then nothing.                                           *)
(***************************************************************************)
EXTENDS RailConn

VARIABLE conn

Init == conn = NewConn
Next == ConnStep(conn, conn')
Spec == Init /\ [][Next]_conn
=============================================================================
