------------------------------ MODULE PrdcrSet ------------------------------
(***************************************************************************)
(* The sets of one producer, from the directory entry to the periodic      *)
(* update: ldmsd_prdcr.c adds and resets them, ldmsd_updtr.c looks them up *)
(* and updates them, ldms_xprt.c completes the requests and passes on the  *)
(* deletions of the peer.                                                  *)
(*                                                                         *)
(* A slot of ps is a struct ldmsd_prdcr_set; it is free when its count is  *)
(* zero.  tree stands for the membership in the set tree and in the hint   *)
(* tree, which change together under prdcr->lock; they and the initial     *)
(* reference make three.  look says that a lookup request is at the peer,  *)
(* read is the outstanding RDMA read, io and pdel are LDMS_SET_F_IO and    *)
(* LDMS_SET_F_PDEL of the local set, set is prd_set->set, fresh holds in   *)
(* the first second after a lookup, and cb counts the failed lookups whose *)
(* callbacks are between their unlock and the reset.                       *)
(*                                                                         *)
(* bad records a failed assertion or the use of a freed set; the daemon    *)
(* goes no further then.  Set groups and updaters that push are left out.  *)
(***************************************************************************)
EXTENDS Naturals, FiniteSets

CONSTANTS
    Names,    \* instance names the peer may offer
    Slots,    \* memory for producer sets
    NoName,   \* the name of a free slot
    NoSlot,   \* _add_cb() is not in its unlocked part
    MaxCb     \* bound: failed lookups of one set whose callbacks have not ended

ASSUME PrdcrSetAssumption ==
    /\ NoName \notin Names
    /\ NoSlot \notin Slots
    /\ MaxCb \in Nat

VARIABLES
    conn,     \* the connection: up, lost but not yet reported, or down
    peer,     \* a name at the peer: absent, offered, or looked up by us
    dirq,     \* names whose DIR_ADD is under way
    del,      \* SET_DELETE of a name: none, sent, or about to be reported
    ps,       \* the producer sets
    adding,   \* the set _add_cb() has just added, without a reference
    updtr     \* state of the updater

vars == <<conn, peer, dirq, del, ps, adding, updtr>>

SetState == {"START", "LOOKUP", "READY", "UPDATING"}

\* "put": a reference is put that nobody holds.
\* "looked": a set is looked up that has been, updtr.c:589 and 648.
\* "reset": a set is reset that is not in the tree, prdcr.c:194-195.
\* "added": _add_cb() uses a set that has been freed, prdcr.c:390.
Fault == {"none", "put", "looked", "reset", "added"}

NoSet == [name |-> NoName, state |-> "START", ref |-> 0, tree |-> FALSE,
          set |-> FALSE, fresh |-> FALSE, io |-> FALSE, pdel |-> FALSE,
          look |-> FALSE, read |-> "none", cb |-> 0, bad |-> "none"]

InTree(n) == {s \in Slots : ps[s].tree /\ ps[s].name = n}

\* The local ldms_set of a name: it exists from the rendezvous on, and until
\* the producer set that owns it is freed.
LocalSet(n) ==
    {s \in Slots : ps[s].name = n /\ (ps[s].set \/ ps[s].read = "lookup")}

\* k calls of ldmsd_prdcr_set_ref_put(); the last one frees the set and what
\* it owns.
Put(p, k) ==
    IF p.ref > k
    THEN [p EXCEPT !.ref = @ - k]
    ELSE [NoSet EXCEPT !.bad = IF p.bad # "none" THEN p.bad
                               ELSE IF p.ref < k THEN "put" ELSE "none"]

\* Mutant: the set is marked DELETED, a state that no handler leaves.
Reset_Deleted(p) ==
    IF p.tree
    THEN Put([p EXCEPT !.tree = FALSE, !.state = "DELETED"], 3)
    ELSE [p EXCEPT !.bad = "reset"]

\* __prdcr_reset_set(): out of the hint tree, out of the set tree, and deleted.
Reset(p) ==
    IF p.tree
    THEN Put([p EXCEPT !.tree = FALSE, !.state = "START"], 3)
    ELSE [p EXCEPT !.bad = "reset"]

Init ==
    /\ conn = "down"
    /\ peer = [n \in Names |-> "absent"]
    /\ dirq = {}
    /\ del = [n \in Names |-> "none"]
    /\ ps = [s \in Slots |-> NoSet]
    /\ adding = NoSlot
    /\ updtr = "STOPPED"

\* No assertion has failed and no freed memory has been used.
Alive == \A s \in Slots : ps[s].bad = "none"
-----------------------------------------------------------------------------
(* The peer.                                                               *)

\* Bound: one DIR_ADD of a name is under way at a time.
PeerCreate(n) ==
    /\ Alive /\ peer[n] = "absent" /\ n \notin dirq
    /\ peer' = [peer EXCEPT ![n] = "offered"]
    /\ dirq' = IF conn = "up" THEN dirq \cup {n} ELSE dirq
    /\ UNCHANGED <<conn, del, ps, adding, updtr>>

\* Only a transport that has looked the set up hears of its deletion.  Bound:
\* one SET_DELETE of a name is under way at a time.
PeerDelete(n) ==
    /\ Alive /\ peer[n] # "absent"
    /\ peer[n] = "known" => del[n] = "none"
    /\ peer' = [peer EXCEPT ![n] = "absent"]
    /\ del' = IF peer[n] = "known" THEN [del EXCEPT ![n] = "sent"] ELSE del
    /\ UNCHANGED <<conn, dirq, ps, adding, updtr>>

Connect ==
    /\ Alive /\ conn = "down"
    /\ conn' = "up"
    /\ dirq' = {n \in Names : peer[n] # "absent"}
    /\ UNCHANGED <<peer, del, ps, adding, updtr>>

\* What is on the wire is lost, and the peer forgets who looked its sets up.
Lose ==
    /\ Alive /\ conn = "up"
    /\ conn' = "losing"
    /\ dirq' = {}
    /\ del' = [n \in Names |-> IF del[n] = "sent" THEN "none" ELSE del[n]]
    /\ peer' = [n \in Names |-> IF peer[n] = "known" THEN "offered" ELSE peer[n]]
    /\ UNCHANGED <<ps, adding, updtr>>

\* Every endpoint has flushed its reads and left its callbacks.  A lookup that
\* the peer has not answered is dropped without its callback, so nobody puts
\* its reference.
Disconnected ==
    /\ Alive /\ conn = "losing" /\ adding = NoSlot
    /\ \A n \in Names : del[n] = "none"
    /\ \A s \in Slots : ps[s].read = "none" /\ ps[s].cb = 0
    /\ conn' = "down"
    /\ ps' = [s \in Slots |->
                LET p == [ps[s] EXCEPT !.look = FALSE] IN
                IF p.tree THEN Reset(p) ELSE p]
    /\ UNCHANGED <<peer, dirq, del, adding, updtr>>
-----------------------------------------------------------------------------
(* The directory.                                                          *)

\* _add_cb(): an entry is ignored while the producer has a set of its name, or
\* without memory.  ldms_xprt_set_by_name() asks the collections of the rail's
\* endpoints, which hold what the peer has looked up here and never a set of
\* the peer, so it finds nothing.
Add(n) ==
    /\ Alive /\ n \in dirq /\ adding = NoSlot
    /\ dirq' = dirq \ {n}
    /\ LET free == {s \in Slots : ps[s].ref = 0} IN
       IF InTree(n) # {} \/ free = {}
       THEN UNCHANGED <<ps, adding>>
       ELSE \E s \in free :
              /\ ps' = [ps EXCEPT ![s] = [NoSet EXCEPT
                          !.name = n, !.ref = 3, !.tree = TRUE]]
              /\ adding' = s
    /\ UNCHANGED <<conn, peer, del, updtr>>

\* The updater tasks have been told of the set; _add_cb() locks prdcr again.
AddEnd ==
    /\ Alive /\ adding # NoSlot
    /\ ps' = IF ps[adding].ref = 0 THEN [ps EXCEPT ![adding].bad = "added"] ELSE ps
    /\ adding' = NoSlot
    /\ UNCHANGED <<conn, peer, dirq, del, updtr>>
-----------------------------------------------------------------------------
(* The updater.                                                            *)

\* An error at once brings the set back to START and puts the reference: the
\* connection is gone (ENOTCONN), or there is a local set of the name (EEXIST).
Lookup(p) ==
    IF conn = "up" /\ LocalSet(p.name) = {}
    THEN [p EXCEPT !.state = "LOOKUP", !.ref = @ + 1, !.look = TRUE]
    ELSE p

\* schedule_set_updates() of a set that is no group.  One reference is for the
\* update and one for its context; an error at once puts only one of them, and
\* leaves the state.  The local set refuses a second read (EBUSY) and one of a
\* deleted set (ENOENT); what is refused later, at the latest by the transport,
\* leaves LDMS_SET_F_IO.
Update(p) ==
    LET q == [p EXCEPT !.state = "UPDATING", !.ref = @ + 1] IN
    IF p.io \/ p.pdel
    THEN {q}
    ELSE {[q EXCEPT !.io = TRUE]}
           \cup (IF conn = "up"
                 THEN {[q EXCEPT !.io = TRUE, !.ref = @ + 1, !.read = "update"]}
                 ELSE {})

\* malloc() of the context has failed: the reference is put.
UpdateNoMem(p) == [p EXCEPT !.state = "UPDATING"]

\* The updater's task visits a set of the producer: schedule_prdset_updates().
\* The producer is CONNECTED until it has heard of the loss.
Schedule(s) ==
    /\ Alive /\ updtr = "RUNNING" /\ ps[s].tree /\ conn # "down"
    /\ \/ /\ ps[s].state = "START"
          /\ ps' = [ps EXCEPT ![s] =
                       IF ps[s].set THEN [@ EXCEPT !.bad = "looked"] ELSE Lookup(@)]
       \/ /\ ps[s].state = "READY" /\ ~ps[s].fresh
          /\ \E p \in Update(ps[s]) \cup {UpdateNoMem(ps[s])} :
               ps' = [ps EXCEPT ![s] = p]
    /\ UNCHANGED <<conn, peer, dirq, del, adding, updtr>>

\* A second has passed since the lookup.
Settle(s) ==
    /\ Alive /\ ps[s].fresh
    /\ ps' = [ps EXCEPT ![s].fresh = FALSE]
    /\ UNCHANGED <<conn, peer, dirq, del, adding, updtr>>

Start ==
    /\ Alive /\ updtr = "STOPPED"
    /\ updtr' = "RUNNING"
    /\ UNCHANGED <<conn, peer, dirq, del, ps, adding>>

Stop ==
    /\ Alive /\ updtr = "RUNNING"
    /\ updtr' = "STOPPING"
    /\ UNCHANGED <<conn, peer, dirq, del, ps, adding>>

StopEnd ==
    /\ Alive /\ updtr = "STOPPING"
    /\ updtr' = "STOPPED"
    /\ UNCHANGED <<conn, peer, dirq, del, ps, adding>>
-----------------------------------------------------------------------------
(* Completions, in the thread of the set's endpoint.                       *)

\* Mutant: the reference of the lookup is put before the reset, too.
Failed_PutsNow(p, reset) ==
    LET q == Put([p EXCEPT !.state = "START"], 1) IN
    IF reset THEN [q EXCEPT !.cb = @ + 1] ELSE q

\* __ldmsd_prdset_lookup_cb() with an error: the state is START at once, the
\* reset (unless memory is short or the set exists) follows in LookupReset.
Failed(p, reset) ==
    LET q == [p EXCEPT !.state = "START"] IN
    IF reset THEN [q EXCEPT !.cb = @ + 1] ELSE Put(q, 1)

\* The peer answers: it has no such set, or it shares its memory.  With a
\* local set of that name the lookup ends with EEXIST.
LookupReply(s) ==
    /\ Alive /\ conn = "up" /\ ps[s].look /\ ps[s].cb < MaxCb
    /\ LET p == [ps[s] EXCEPT !.look = FALSE]
           n == p.name IN
       /\ ps' = [ps EXCEPT ![s] =
                   IF peer[n] = "absent" THEN Failed(p, TRUE)
                   ELSE IF LocalSet(n) # {} THEN Failed(p, FALSE)
                   ELSE [p EXCEPT !.read = "lookup", !.io = TRUE]]
       /\ peer' = IF peer[n] = "absent" THEN peer ELSE [peer EXCEPT ![n] = "known"]
    /\ UNCHANGED <<conn, dirq, del, adding, updtr>>

\* Mutant: the set is not made READY.
LookupDone_KeepsLookup(p) ==
    Put([p EXCEPT !.set = TRUE, !.fresh = TRUE], 1)

\* __ldmsd_prdset_lookup_cb() of a set that is no group.
LookupDone(p) ==
    IF p.set
    THEN [p EXCEPT !.bad = "looked"]
    ELSE Put([p EXCEPT !.state = "READY", !.set = TRUE, !.fresh = TRUE], 1)

\* The metadata has been read, or the read has failed: the connection is gone
\* or the peer has refused it.  After a failure, and for a set that the peer
\* has deleted, the local set goes.
LookupRead(s) ==
    /\ Alive /\ ps[s].read = "lookup"
    /\ LET p == [ps[s] EXCEPT !.read = "none", !.io = FALSE, !.pdel = FALSE] IN
       \/ /\ ps[s].cb < MaxCb
          /\ ps' = [ps EXCEPT ![s] = Failed(p, TRUE)]
       \/ /\ conn = "up" /\ ~ps[s].pdel
          /\ ps' = [ps EXCEPT ![s] = LookupDone(p)]
    /\ UNCHANGED <<conn, peer, dirq, del, adding, updtr>>

\* The rest of a failed lookup's callback, without prdcr->lock.
LookupReset(s) ==
    /\ Alive /\ ps[s].cb > 0
    /\ ps' = [ps EXCEPT ![s] = Put(Reset([ps[s] EXCEPT !.cb = @ - 1]), 1)]
    /\ UNCHANGED <<conn, peer, dirq, del, adding, updtr>>

\* Mutant: a complete update puts one of its references.
UpdateDone_KeepsContext(s) ==
    /\ Alive /\ ps[s].read = "update"
    /\ LET p == [ps[s] EXCEPT !.read = "none", !.io = ps[s].pdel] IN
       \/ ps' = [ps EXCEPT ![s] = Put(p, 1)]
       \/ /\ conn = "up" /\ ~ps[s].pdel
          /\ ps' = [ps EXCEPT ![s] = Put([p EXCEPT !.state = "READY"], 1)]
    /\ del' = IF ps[s].pdel THEN [del EXCEPT ![ps[s].name] = "event"] ELSE del
    /\ UNCHANGED <<conn, peer, dirq, adding, updtr>>

\* updtr_update_cb(): an error (the connection is gone, the peer has refused the
\* read or has deleted the set) leaves the state.  After a deletion the thread
\* goes on to report it and leaves LDMS_SET_F_IO.
UpdateDone(s) ==
    /\ Alive /\ ps[s].read = "update"
    /\ LET p == [ps[s] EXCEPT !.read = "none", !.io = ps[s].pdel] IN
       \/ ps' = [ps EXCEPT ![s] = Put(p, 2)]
       \/ /\ conn = "up" /\ ~ps[s].pdel
          /\ ps' = [ps EXCEPT ![s] = Put([p EXCEPT !.state = "READY"], 2)]
    /\ del' = IF ps[s].pdel THEN [del EXCEPT ![ps[s].name] = "event"] ELSE del
    /\ UNCHANGED <<conn, peer, dirq, adding, updtr>>

\* process_set_delete_request(): with LDMS_SET_F_IO the completion of the read
\* reports the deletion, else this thread does.
SetDelete(n) ==
    /\ Alive /\ del[n] = "sent"
    /\ LET local == LocalSet(n) IN
       /\ ps' = [s \in Slots |-> IF s \in local THEN [ps[s] EXCEPT !.pdel = TRUE]
                                               ELSE ps[s]]
       /\ del' = [del EXCEPT ![n] =
                    IF \E s \in local : ps[s].io THEN "none" ELSE "event"]
    /\ UNCHANGED <<conn, peer, dirq, adding, updtr>>

\* The event SET_DELETE, under prdcr->lock.
DeleteEvent(n) ==
    /\ Alive /\ del[n] = "event"
    /\ ps' = [s \in Slots |-> IF s \in InTree(n) THEN Reset(ps[s]) ELSE ps[s]]
    /\ del' = [del EXCEPT ![n] = "none"]
    /\ UNCHANGED <<conn, peer, dirq, adding, updtr>>
-----------------------------------------------------------------------------
Completion(s) ==
    LookupReply(s) \/ LookupRead(s) \/ LookupReset(s) \/ UpdateDone(s) \/ Settle(s)

Next ==
    \/ \E n \in Names : \/ PeerCreate(n) \/ PeerDelete(n) \/ Add(n)
                        \/ SetDelete(n) \/ DeleteEvent(n)
    \/ Connect \/ Lose \/ Disconnected \/ AddEnd \/ Start \/ Stop \/ StopEnd
    \/ \E s \in Slots : Schedule(s) \/ Completion(s)

Spec == Init /\ [][Next]_vars

\* The updater's task visits every set in each period, requests complete,
\* messages arrive, and a callback that has begun goes on.  The entries of the
\* directory arrive in order, so one that waits for the end of the entry before
\* it is handled in its turn.  Nothing is said of the peer, the network or the
\* administrator.
FairSpec ==
    /\ Spec
    /\ \A s \in Slots : WF_vars(Schedule(s)) /\ WF_vars(Completion(s))
    /\ \A n \in Names : SF_vars(Add(n)) /\ WF_vars(SetDelete(n) \/ DeleteEvent(n))
    /\ WF_vars(AddEnd)
-----------------------------------------------------------------------------
\* Every field keeps its type.
TypeOK ==
    /\ conn \in {"up", "losing", "down"}
    /\ peer \in [Names -> {"absent", "offered", "known"}]
    /\ dirq \subseteq Names
    /\ del \in [Names -> {"none", "sent", "event"}]
    /\ ps \in [Slots -> [name : Names \cup {NoName}, state : SetState, ref : Nat,
                         tree : BOOLEAN, set : BOOLEAN, fresh : BOOLEAN,
                         io : BOOLEAN, pdel : BOOLEAN, look : BOOLEAN,
                         read : {"none", "lookup", "update"}, cb : 0..MaxCb,
                         bad : Fault]]
    /\ adding \in Slots \cup {NoSlot}
    /\ updtr \in {"STOPPED", "RUNNING", "STOPPING"}

\* The references of a set that somebody will put: three while the producer has
\* it, one for a lookup until its callback has put it, two for an update.
Holders(p) ==
    (IF p.tree THEN 3 ELSE 0) + (IF p.look THEN 1 ELSE 0) + p.cb
      + (CASE p.read = "lookup" -> 1 [] p.read = "update" -> 2 [] OTHER -> 0)

\* Every request, callback and tree that refers to a producer set has its own
\* reference, whatever the order of completions, deletions, errors and losses,
\* so that none of them meets a freed set.  A set has a reference more, and is
\* then kept for ever, only in UPDATING (an update that was refused at once) or
\* when it has left the producer.
RefsExact ==
    \A s \in Slots : LET p == ps[s] IN
      /\ p.bad = "none" => p.ref >= Holders(p)
      /\ p.bad = "none" /\ p.tree /\ p.state # "UPDATING" => p.ref = Holders(p)

\* No reference is put that nobody holds, and no set is looked up that has been:
\* the assertions on ref_count (prdcr.c:163 and 169), updtr.c:589 and
\* updtr.c:648 hold whatever falls between a failed lookup and its reset.
NoAssertFails == \A s \in Slots : ps[s].bad \notin {"put", "looked"}

\* A set whose update the daemon waits for though none is under way: the update
\* has been refused at once or its read has failed.
Stuck(s) == ps[s].state = "UPDATING" /\ ps[s].read = "none"

\* A set that has left the producer and keeps its local set, so that no lookup
\* of the name succeeds.
Stale(n) == \E s \in LocalSet(n) : ~ps[s].tree

\* While the connection is up, the updater runs and the peer offers a set, the
\* set is updated again and again, unless one of four things has happened to
\* it for good: its producer set waits for an update that is not under way, the
\* local set of an earlier one is in its way, the producer has lost it and will
\* not hear of it again, or the daemon has failed.  No set stays in START,
\* LOOKUP or READY.
OfferedIsUpdated ==
    \A n \in Names :
      <>[](conn = "up" /\ peer[n] # "absent" /\ updtr = "RUNNING") =>
        \/ []<>(\E s \in InTree(n) : ps[s].read = "update")
        \/ <>[](\E s \in InTree(n) : Stuck(s))
        \/ <>[](Stale(n))
        \/ <>[](InTree(n) = {})
        \/ <>(~Alive)

\* A set of the producer that no request is under way for has the references of
\* the trees and its first one: what an update takes is put back when the
\* update is over, as the comment at updtr.c:351 says.
UpdatePutsBack ==
    \A s \in Slots : LET p == ps[s] IN
      p.tree /\ ~p.look /\ p.cb = 0 /\ p.read = "none" => p.ref = 3
=============================================================================
