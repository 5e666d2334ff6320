------------------------------ MODULE OvisHeap -------------------------------
(***************************************************************************)
(* The binary heap of timer events of the scheduler (struct                *)
(* ovis_event_heap, src/lib/src/ovis_event/ovis_event.c).  A heap is a     *)
(* sequence of events, position i here being index i - 1 in the code, and  *)
(* tv gives every event its wake-up time.  priv.idx of an event, which the *)
(* code writes with every move, is its position: an event is in a heap at  *)
(* most once.                                                              *)
(***************************************************************************)
EXTENDS Integers, Sequences

\* ovis_event_lt()
Earlier(tv, e0, e1) == tv[e0] < tv[e1]

Swap(h, i, j) == [h EXCEPT ![i] = h[j], ![j] = h[i]]

\* ovis_event_heap_float(): the event at i changes places with later parents.
RECURSIVE Float(_, _, _)
Float(h, tv, i) ==
  LET parent == i \div 2
  IN  IF i > 1 /\ Earlier(tv, h[i], h[parent])
        THEN Float(Swap(h, i, parent), tv, parent)
        ELSE h

\* ovis_event_heap_sink(): the event at i changes places with its earlier child,
\* the right one when both are due together.
RECURSIVE Sink(_, _, _)
Sink(h, tv, i) ==
  LET l == 2 * i
      x == IF l + 1 <= Len(h) /\ ~Earlier(tv, h[l], h[l + 1]) THEN l + 1 ELSE l
  IN  IF l <= Len(h) /\ Earlier(tv, h[x], h[i])
        THEN Sink(Swap(h, i, x), tv, x)
        ELSE h

\* ovis_event_heap_insert(), for a heap that is not full.
Insert(h, tv, e) == Float(Append(h, e), tv, Len(h) + 1)

Position(h, e) == CHOOSE i \in DOMAIN h : h[i] = e

\* ovis_event_heap_remove(): the last event fills the hole and sinks.
RemoveAt(h, tv, i) ==
  LET last == Len(h)
      rest == SubSeq([h EXCEPT ![i] = h[last]], 1, last - 1)
  IN  IF i = last THEN rest ELSE Sink(rest, tv, i)
Remove(h, tv, e) == RemoveAt(h, tv, Position(h, e))

\* Mutant: a rearmed event may only float.
Update_FloatsOnly(h, tv, e) == Float(h, tv, Position(h, e))

\* ovis_event_heap_update(): the event whose time has changed floats, or sinks if
\* it did not move.
Update(h, tv, e) ==
  LET i == Position(h, e)
      f == Float(h, tv, i)
  IN  IF f[i] = e THEN Sink(f, tv, i) ELSE f

\* ovis_event_heap_top() of a heap that is not empty.
Top(h) == h[1]
Elements(h) == {h[i] : i \in DOMAIN h}
=============================================================================
