---------------------------- MODULE MCOvisEvent -----------------------------
(***************************************************************************)
(* Events for the runs of OvisEvent: timers whose waits differ, and a      *)
(* periodic event whose phase is negative.                                 *)
(***************************************************************************)
EXTENDS OvisEvent, TLC

CONSTANTS t1, t2, t3, t4, t5, t6, p1, f1, o1

MCWait == (t1 :> 1) @@ (t2 :> 3) @@ (p1 :> 2)
          @@ (t3 :> 2) @@ (t4 :> 4) @@ (t5 :> 5) @@ (t6 :> 6)
MCPhase == p1 :> -1
=============================================================================
