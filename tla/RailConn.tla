------------------------------ MODULE RailConn ------------------------------
(***************************************************************************)
(* What a rail promises to the code that opened it with                    *)
(* ldms_xprt_connect(): the abstract state of one connection attempt and   *)
(* the steps it may take.  RailPromise makes a specification of it, which  *)
(* RailActive implements; Prdcr uses the same steps for its transports.    *)
(***************************************************************************)

\* st:     "idle" before the connect, "posted" once it has returned 0, "stray"
\*         if it returned an error after it had posted some endpoints, "up" once
\*         the rail is CONNECTED, "over" when nothing more is to come;
\* doomed: the rail was closed or has failed, it can only end;
\* due:    the event that a transport thread is about to give to the callback.
Conn == [st : {"idle", "posted", "stray", "up", "over"}, doomed : BOOLEAN,
         due : {"none", "CONNECTED", "TERMINAL"}]

NewConn == [st |-> "idle", doomed |-> FALSE, due |-> "none"]

Post(c) == [c EXCEPT !.st = "posted"]
\* left: some endpoints were posted before one failed.
PostFails(c, left) == [c EXCEPT !.st = IF left THEN "stray" ELSE "over", !.doomed = TRUE]

Doom(c) == [c EXCEPT !.doomed = TRUE]

CanComeUp(c) == c.st = "posted" /\ ~c.doomed /\ c.due = "none"
ComeUp(c) == [c EXCEPT !.st = "up", !.due = "CONNECTED"]

CanEnd(c) == c.st \in {"posted", "stray", "up"} /\ c.due = "none"
End(c) == [c EXCEPT !.st = "over", !.doomed = TRUE, !.due = "TERMINAL"]

Delivered(c) == [c EXCEPT !.due = "none"]

\* Something is still to be told about this connection.
Outstanding(c) == c.st \in {"posted", "stray", "up"} \/ c.due # "none"

\* One step of a connection, from c to d.
ConnStep(c, d) ==
  \/ c.st = "idle" /\ d \in {Post(c), PostFails(c, TRUE), PostFails(c, FALSE)}
  \/ c.st \in {"posted", "up"} /\ d = Doom(c)
  \/ CanComeUp(c) /\ d = ComeUp(c)
  \/ CanEnd(c) /\ d = End(c)
  \/ c.due # "none" /\ d = Delivered(c)
=============================================================================
