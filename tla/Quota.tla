-------------------------------- MODULE Quota --------------------------------
(***************************************************************************)
(* The send quota of a rail, from the publisher that takes it, through the *)
(* receiver that holds the message and returns the quota, back to the      *)
(* publisher's endpoint; the receiver may change the limit meanwhile; and  *)
(* the receiver's quota group, which holds a return back when the group's  *)
(* own quota is used up, until the next reset.                             *)
(*                                                                         *)
(* The atomic operations of the C code are the steps: __rep_quota_release()*)
(* takes from the debt in one and adds to the quota in another, a          *)
(* reconfiguration walks the endpoints one by one, and the reset of the    *)
(* quota group runs under the group's mutex, which the thread that frees a *)
(* message takes only to put the endpoint in the group's queue.            *)
(***************************************************************************)
EXTENDS Integers, Sequences, FiniteSets, SequencesExt

CONSTANTS
  NEps,        \* r->n_eps
  Pubs,        \* the threads that publish on the rail
  Freers,      \* the threads that put the last reference of a message
  Sizes,       \* sbuf->msg->msg_len; a tag has one size
  Word,        \* 2^64; LDMS_UNLIMITED is its last value
  Limits,      \* the receive quotas the receiver may set
  QGQuota,     \* qg->cfg.quota
  RateLimited, \* whether __rate_quota_acquire() may refuse
  MaxEvents    \* bound on the reconfigurations, failed sends and stops together

Eps == 1..NEps
Unlimited == Word - 1

ASSUME QuotaAssumption ==
  /\ NEps \in Nat \ {0} /\ QGQuota \in Nat \ {0}
  /\ MaxEvents \in Nat
  /\ Sizes \subseteq Nat \ {0} /\ Limits \subseteq 1..Unlimited
  /\ Pubs \cap Eps = {}
  /\ RateLimited \in BOOLEAN

VARIABLES
  rail,    \* the publisher's rail: send_quota, and the reconfiguration under way
  ep,      \* its endpoints: send_quota and send_quota_debt
  thr,     \* its threads: the publishers, and the transport thread of each endpoint
  out,     \* messages sent and not freed yet, by size
  back,    \* SEND_QUOTA and QUOTA_RECONFIG messages to the publisher, per endpoint
  recv,    \* r->recv_quota of the receiver
  rep,     \* the receiver's endpoints: pending_ret_quota and in_eps_stq
  free,    \* the threads that free messages
  qg,      \* the quota group: state, quota, eps_stq
  reset,   \* __qgroup_reset(): where it is, its q, p and remaining entries, and
           \* whether the timer's callback is about to call it
  astray,  \* history: quota that failed sends have lost, less what they have made
  events   \* reconfigurations, failed sends and stops so far

vars == <<rail, ep, thr, out, back, recv, rep, free, qg, reset, astray, events>>

sender == <<rail, ep, thr>>
receiver == <<recv, rep, free, qg, reset>>
ghosts == <<astray, events>>

Threads == Pubs \cup Eps
Idle == [pc |-> "idle", e |-> 1, n |-> 0]

TypeOK ==
  /\ rail \in [send_quota : 1..Unlimited, next : 1..NEps + 1, add : -Word..Word]
  /\ ep \in [Eps -> [send_quota : 0..Unlimited, debt : 0..Unlimited]]
  /\ thr \in [Threads -> [pc : {"idle", "rate", "debt", "release", "walk", "owe"},
                          e : Eps, n : 0..Unlimited]]
  /\ out \in [Sizes -> Nat]
  /\ \A e \in Eps : \A k \in DOMAIN back[e] :
       back[e][k] \in [type : {"SEND_QUOTA", "QUOTA_RECONFIG"}, q : 0..Unlimited]
  /\ recv \in 1..Unlimited
  /\ rep \in [Eps -> [pending_ret_quota : Nat, in_eps_stq : {0, 1}]]
  /\ free \in [Freers -> [pc : {"idle", "refused", "held", "enqueue"}, e : Eps, n : Nat]]
  /\ qg.state \in {"STOPPED", "STARTED", "STOPPING"} /\ qg.quota \in 0..QGQuota
  /\ qg.eps_stq \in Seq(Eps)
  /\ reset.pc \in {"idle", "scan", "unmark", "return", "aborted"} /\ reset.q \in 0..QGQuota
  /\ reset.p \in Nat /\ reset.todo \in Seq(Eps) /\ reset.starting \in BOOLEAN
  /\ reset.fired \in BOOLEAN /\ astray \in [Eps -> Int]

Init ==
  /\ recv \in Limits
  /\ rail = [send_quota |-> recv, next |-> NEps + 1, add |-> 0]
  /\ ep = [e \in Eps |-> [send_quota |-> recv, debt |-> 0]]
  /\ thr = [t \in Threads |-> Idle]
  /\ out = [n \in Sizes |-> 0]
  /\ back = [e \in Eps |-> <<>>]
  /\ rep = [e \in Eps |-> [pending_ret_quota |-> 0, in_eps_stq |-> 0]]
  /\ free = [f \in Freers |-> Idle]
  /\ qg = [state |-> "STOPPED", quota |-> 0, eps_stq |-> <<>>]
  /\ reset = [pc |-> "idle", q |-> 0, p |-> 0, todo |-> <<>>, starting |-> FALSE,
              fired |-> FALSE]
  /\ astray = [e \in Eps |-> 0]
  /\ events = 0

-----------------------------------------------------------------------------
(* The quota counters *)

\* __quota_acquire(): the compare-and-exchange loop is one step.
Enough(quota, n) == quota = Unlimited \/ quota >= n
Acquired(quota, n) == IF quota = Unlimited THEN quota ELSE quota - n

\* __quota_release()
Released(quota, n) == IF quota = Unlimited THEN quota ELSE (quota + n) % Word

\* __rail_ep_quota_return(), and the message of ldms_xprt_rail_recv_quota_set():
\* one zap_send() to the publisher.
Reply(e, type, q) == back' = [back EXCEPT ![e] = Append(@, [type |-> type, q |-> q])]

\* int64_t add = q - r->send_quota
Signed(w) == IF w >= Word \div 2 THEN w - Word ELSE w
Difference(q, send_quota) == Signed((q - send_quota) % Word)

-----------------------------------------------------------------------------
(* The publisher's side *)

\* ep_idx = (hash % primer) % r->n_eps: the tag picks the endpoint.
EpOf(n) == 1 + (n % NEps)

\* ldms_msg_publish() and __remote_client_cb() up to __quota_acquire(); with
\* too little quota they return ENOBUFS and nothing changes.
Publish_Unchecked(t, n) ==
  /\ thr[t].pc = "idle"
  /\ ep' = [ep EXCEPT ![EpOf(n)].send_quota = Acquired(@, n)]
  /\ thr' = [thr EXCEPT ![t] = [pc |-> "rate", e |-> EpOf(n), n |-> n]]
  /\ UNCHANGED <<rail, out, back, receiver, ghosts>>
Publish(t, n) ==
  /\ thr[t].pc = "idle"
  /\ Enough(ep[EpOf(n)].send_quota, n)
  /\ ep' = [ep EXCEPT ![EpOf(n)].send_quota = Acquired(@, n)]
  /\ thr' = [thr EXCEPT ![t] = [pc |-> "rate", e |-> EpOf(n), n |-> n]]
  /\ UNCHANGED <<rail, out, back, receiver, ghosts>>

\* The rate quota suffices: __rep_publish() sends the message, and the caller
\* returns its result.
Published(t) ==
  /\ thr[t].pc = "rate"
  /\ thr' = [thr EXCEPT ![t] = Idle]
  /\ out' = [out EXCEPT ![thr[t].n] = @ + 1]
  /\ UNCHANGED <<rail, ep, back, receiver, ghosts>>

\* The send fails: what was taken is not released.
PublishFails(t) ==
  /\ thr[t].pc = "rate" /\ events < MaxEvents
  /\ thr' = [thr EXCEPT ![t] = Idle]
  /\ astray' = [astray EXCEPT ![thr[t].e] = @ + thr[t].n]
  /\ events' = events + 1
  /\ UNCHANGED <<rail, ep, out, back, receiver>>

\* __rate_quota_acquire() refuses: __rep_quota_acquire() releases what it took.
RateRefused(t) ==
  /\ RateLimited
  /\ thr[t].pc = "rate"
  /\ thr' = [thr EXCEPT ![t].pc = "debt"]
  /\ UNCHANGED <<rail, ep, out, back, receiver, ghosts>>

\* __rail_send() of an ldms_xprt_send(), on endpoint 1, that fails: it has taken
\* no quota and releases the length of the message.
RailSendFails(t, n) ==
  /\ thr[t].pc = "idle" /\ events < MaxEvents
  /\ thr' = [thr EXCEPT ![t] = [pc |-> "debt", e |-> 1, n |-> n]]
  /\ astray' = [astray EXCEPT ![1] = @ - n]
  /\ events' = events + 1
  /\ UNCHANGED <<rail, ep, out, back, receiver>>

\* __rep_quota_release(): the debt first ...
ReleaseDebt_KeepsAmount(t) ==
  /\ thr[t].pc = "debt"
  /\ ep' = [ep EXCEPT ![thr[t].e].debt = @ - Min({@, thr[t].n})]
  /\ thr' = [thr EXCEPT ![t].pc = "release"]
  /\ UNCHANGED <<rail, out, back, receiver, ghosts>>
ReleaseDebt(t) ==
  LET e == thr[t].e
      paid == Min({ep[e].debt, thr[t].n})
  IN /\ thr[t].pc = "debt"
     /\ ep' = [ep EXCEPT ![e].debt = @ - paid]
     /\ thr' = [thr EXCEPT ![t].pc = "release", ![t].n = @ - paid]
     /\ UNCHANGED <<rail, out, back, receiver, ghosts>>

\* Only endpoint 1's transport thread handles reconfigurations.
Continue(t) == IF t = 1 /\ rail.next <= NEps THEN [Idle EXCEPT !.pc = "walk"] ELSE Idle

\* ... then what is left.
ReleaseRest(t) ==
  /\ thr[t].pc = "release"
  /\ ep' = [ep EXCEPT ![thr[t].e].send_quota = Released(@, thr[t].n)]
  /\ thr' = [thr EXCEPT ![t] = Continue(t)]
  /\ UNCHANGED <<rail, out, back, receiver, ghosts>>

\* __rail_process_send_quota(), by the transport thread of endpoint e
Deposit(e) ==
  /\ thr[e].pc = "idle"
  /\ back[e] # <<>> /\ Head(back[e]).type = "SEND_QUOTA"
  /\ thr' = [thr EXCEPT ![e] = [pc |-> "debt", e |-> e, n |-> Head(back[e]).q]]
  /\ back' = [back EXCEPT ![e] = Tail(@)]
  /\ UNCHANGED <<rail, ep, out, receiver, ghosts>>

\* __rail_process_quota_reconfig(): the new limit, then every endpoint in turn.
Reconfig ==
  LET q == Head(back[1]).q
      add == Difference(q, rail.send_quota)
  IN /\ thr[1].pc = "idle"
     /\ back[1] # <<>> /\ Head(back[1]).type = "QUOTA_RECONFIG"
     /\ back' = [back EXCEPT ![1] = Tail(@)]
     /\ rail' = [send_quota |-> q, add |-> add, next |-> IF add = 0 THEN NEps + 1 ELSE 1]
     /\ thr' = [thr EXCEPT ![1].pc = IF add = 0 THEN "idle" ELSE "walk"]
     /\ UNCHANGED <<ep, out, receiver, ghosts>>

\* A larger limit: __rep_quota_release(rep, add)
Grow ==
  /\ thr[1].pc = "walk" /\ rail.add > 0
  /\ thr' = [thr EXCEPT ![1] = [pc |-> "debt", e |-> rail.next, n |-> rail.add]]
  /\ rail' = [rail EXCEPT !.next = @ + 1]
  /\ UNCHANGED <<ep, out, back, receiver, ghosts>>

\* A smaller limit: __quota_acquire(&rep->send_quota, -add) ...
Shrink ==
  LET e == rail.next
  IN /\ thr[1].pc = "walk" /\ rail.add < 0
     /\ \/ /\ Enough(ep[e].send_quota, -rail.add)
           /\ ep' = [ep EXCEPT ![e].send_quota = Acquired(@, -rail.add)]
           /\ rail' = [rail EXCEPT !.next = @ + 1]
           /\ thr' = [thr EXCEPT ![1].pc = IF e = NEps THEN "idle" ELSE "walk"]
        \/ /\ ~Enough(ep[e].send_quota, -rail.add)
           /\ thr' = [thr EXCEPT ![1].pc = "owe"]
           /\ UNCHANGED <<ep, rail>>
     /\ UNCHANGED <<out, back, receiver, ghosts>>

\* ... and when there is too little to take, all of it becomes debt.
Owe ==
  LET e == rail.next
  IN /\ thr[1].pc = "owe"
     /\ ep' = [ep EXCEPT ![e].debt = (@ - rail.add) % Word]
     /\ rail' = [rail EXCEPT !.next = @ + 1]
     /\ thr' = [thr EXCEPT ![1].pc = IF e = NEps THEN "idle" ELSE "walk"]
     /\ UNCHANGED <<out, back, receiver, ghosts>>

-----------------------------------------------------------------------------
(* The receiver's side *)

\* No assertion of the receiver has failed.
Alive == reset.pc # "aborted"

\* ldms_xprt_rail_recv_quota_set()
SetRecvQuota(q) ==
  /\ Alive /\ events < MaxEvents /\ q # recv
  /\ events' = events + 1
  /\ recv' = q
  /\ Reply(1, "QUOTA_RECONFIG", q)
  /\ UNCHANGED <<sender, out, rep, free, qg, reset, astray>>

\* __msg_buf_s_ref_free(): ldms_qgroup_quota_acquire() grants the quota, or the
\* group is stopped, and it is returned at once ...
Free(n) ==
  /\ Alive /\ out[n] > 0
  /\ qg.state = "STOPPED" \/ Enough(qg.quota, n)
  /\ out' = [out EXCEPT ![n] = @ - 1]
  /\ qg' = [qg EXCEPT !.quota = IF qg.state = "STOPPED" THEN @ ELSE Acquired(@, n)]
  /\ Reply(EpOf(n), "SEND_QUOTA", n)
  /\ UNCHANGED <<sender, recv, rep, free, reset, ghosts>>

\* ... or the group has too little left,
FreeRefused(f, n) ==
  /\ Alive /\ out[n] > 0 /\ free[f].pc = "idle"
  /\ qg.state # "STOPPED" /\ ~Enough(qg.quota, n)
  /\ out' = [out EXCEPT ![n] = @ - 1]
  /\ free' = [free EXCEPT ![f] = [pc |-> "refused", e |-> EpOf(n), n |-> n]]
  /\ UNCHANGED <<sender, back, recv, rep, qg, reset, ghosts>>

\* and the amount is added to what the endpoint holds back.
FreeHold(f) ==
  /\ Alive /\ free[f].pc = "refused"
  /\ rep' = [rep EXCEPT ![free[f].e].pending_ret_quota = @ + free[f].n]
  /\ free' = [free EXCEPT ![f].pc = "held"]
  /\ UNCHANGED <<sender, out, back, recv, qg, reset, ghosts>>

\* The thread that finds in_eps_stq clear sets it and queues the endpoint.
FreeMark_Unchecked(f) ==
  /\ Alive /\ free[f].pc = "held"
  /\ rep' = [rep EXCEPT ![free[f].e].in_eps_stq = 1]
  /\ free' = [free EXCEPT ![f].pc = "enqueue"]
  /\ UNCHANGED <<sender, out, back, recv, qg, reset, ghosts>>
FreeMark(f) ==
  /\ Alive /\ free[f].pc = "held"
  /\ rep' = [rep EXCEPT ![free[f].e].in_eps_stq = 1]
  /\ free' = [free EXCEPT ![f] = IF rep[free[f].e].in_eps_stq = 0
                                   THEN [@ EXCEPT !.pc = "enqueue"] ELSE Idle]
  /\ UNCHANGED <<sender, out, back, recv, qg, reset, ghosts>>

\* __qgroup_add_rep(), which takes the group's mutex
FreeEnqueue(f) ==
  /\ free[f].pc = "enqueue" /\ reset.pc = "idle"
  /\ qg' = [qg EXCEPT !.eps_stq = Append(@, free[f].e)]
  /\ free' = [free EXCEPT ![f] = Idle]
  /\ UNCHANGED <<sender, out, back, recv, rep, reset, ghosts>>

\* Without memory for the entry the endpoint is no longer marked, and what it
\* holds back waits for the next message.
FreeNoMem(f) ==
  /\ Alive /\ free[f].pc = "enqueue"
  /\ rep' = [rep EXCEPT ![free[f].e].in_eps_stq = 0]
  /\ free' = [free EXCEPT ![f] = Idle]
  /\ UNCHANGED <<sender, out, back, recv, qg, reset, ghosts>>

\* The timer of a started group fires; the callback waits for the group's mutex,
\* and does not ask for the state when it has it.
ResetTimer ==
  /\ Alive /\ qg.state = "STARTED" /\ ~reset.fired
  /\ reset' = [reset EXCEPT !.fired = TRUE]
  /\ UNCHANGED <<sender, out, back, recv, rep, free, qg, ghosts>>

\* __qgroup_reset(), called by the timer and by __qgroup_start(), with the
\* group's mutex: no quota meanwhile, and cfg.quota to hand out.
ResetBegin(starting) ==
  /\ reset.pc = "idle"
  /\ IF starting THEN qg.state = "STOPPED" ELSE reset.fired
  /\ qg' = [qg EXCEPT !.quota = 0]
  /\ reset' = [pc |-> "scan", q |-> QGQuota, p |-> 0, todo |-> qg.eps_stq,
               starting |-> starting, fired |-> starting /\ reset.fired]
  /\ UNCHANGED <<sender, out, back, recv, rep, free, ghosts>>

\* An entry is skipped when more is held back than there is left to hand out.
\* It reads pending_ret_quota once, and asserts that it is positive.
ResetScan_Short ==
  LET p == rep[Head(reset.todo)].pending_ret_quota
  IN /\ reset.pc = "scan" /\ reset.todo # <<>>
     /\ reset' = CASE p = 0 -> [reset EXCEPT !.pc = "aborted"]
                   [] p >= reset.q -> [reset EXCEPT !.todo = Tail(@)]
                   [] OTHER -> [reset EXCEPT !.pc = "unmark", !.p = p]
     /\ UNCHANGED <<sender, out, back, recv, rep, free, qg, ghosts>>
ResetScan ==
  LET p == rep[Head(reset.todo)].pending_ret_quota
  IN /\ reset.pc = "scan" /\ reset.todo # <<>>
     /\ reset' = CASE p = 0 -> [reset EXCEPT !.pc = "aborted"]
                   [] p > reset.q -> [reset EXCEPT !.todo = Tail(@)]
                   [] p \in 1..reset.q -> [reset EXCEPT !.pc = "unmark", !.p = p]
     /\ UNCHANGED <<sender, out, back, recv, rep, free, qg, ghosts>>

\* The entry leaves the queue and in_eps_stq is cleared ...
ResetUnmark ==
  LET e == Head(reset.todo)
  IN /\ reset.pc = "unmark"
     /\ qg' = [qg EXCEPT !.eps_stq = SelectSeq(@, LAMBDA x : x # e)]
     /\ rep' = [rep EXCEPT ![e].in_eps_stq = 0]
     /\ reset' = [reset EXCEPT !.pc = "return"]
     /\ UNCHANGED <<sender, out, back, recv, free, ghosts>>

\* ... what was read is returned to the peer and is no longer held back.
ResetReturn ==
  LET e == Head(reset.todo)
  IN /\ reset.pc = "return"
     /\ Reply(e, "SEND_QUOTA", reset.p)
     /\ rep' = [rep EXCEPT ![e].pending_ret_quota = @ - reset.p]
     /\ reset' = [reset EXCEPT !.pc = "scan", !.q = @ - reset.p, !.todo = Tail(@)]
     /\ UNCHANGED <<sender, out, recv, free, qg, ghosts>>

\* The rest becomes the group's quota; __qgroup_start() arms the timers.
ResetEnd ==
  /\ reset.pc = "scan" /\ reset.todo = <<>>
  /\ qg' = [qg EXCEPT !.quota = reset.q, !.state = IF reset.starting THEN "STARTED" ELSE @]
  /\ reset' = [reset EXCEPT !.pc = "idle", !.q = 0, !.p = 0, !.starting = FALSE]
  /\ UNCHANGED <<sender, out, back, recv, rep, free, ghosts>>

\* __qgroup_stop(): the timers are deleted, then the members are joined.
Stop ==
  /\ events < MaxEvents /\ reset.pc = "idle" /\ qg.state = "STARTED"
  /\ events' = events + 1
  /\ qg' = [qg EXCEPT !.state = "STOPPING"]
  /\ UNCHANGED <<sender, out, back, recv, rep, free, reset, astray>>

StopEnd ==
  /\ reset.pc = "idle" /\ qg.state = "STOPPING"
  /\ qg' = [qg EXCEPT !.state = "STOPPED"]
  /\ UNCHANGED <<sender, out, back, recv, rep, free, reset, ghosts>>

-----------------------------------------------------------------------------

Release(t) == ReleaseDebt(t) \/ ReleaseRest(t)
Walk == Reconfig \/ Grow \/ Shrink \/ Owe
Hold(f) == FreeHold(f) \/ FreeMark(f) \/ FreeEnqueue(f) \/ FreeNoMem(f)
Reset == ResetScan \/ ResetUnmark \/ ResetReturn \/ ResetEnd

Next ==
  \/ \E t \in Pubs, n \in Sizes : Publish(t, n) \/ RailSendFails(t, n)
  \/ \E t \in Pubs : Published(t) \/ PublishFails(t) \/ RateRefused(t)
  \/ \E t \in Threads : Release(t)
  \/ \E e \in Eps : Deposit(e)
  \/ Walk
  \/ \E q \in Limits : SetRecvQuota(q)
  \/ \E n \in Sizes : Free(n) \/ \E f \in Freers : FreeRefused(f, n)
  \/ \E f \in Freers : Hold(f)
  \/ ResetTimer \/ \E starting \in BOOLEAN : ResetBegin(starting)
  \/ Reset
  \/ Stop \/ StopEnd

Spec == Init /\ [][Next]_vars

\* The threads run, the group's mutex is free between two resets for as long as
\* the reset interval, and the reset timer of a started group fires periodically.
FairSpec ==
  /\ Spec
  /\ \A f \in Freers : WF_vars(FreeHold(f) \/ FreeMark(f)) /\ SF_vars(FreeEnqueue(f))
  /\ WF_vars(Reset) /\ WF_vars(ResetTimer) /\ WF_vars(ResetBegin(FALSE))

-----------------------------------------------------------------------------
(* Properties *)

\* Taken, or about to be given back, by a thread of the publisher
InHand(e) ==
  MapThenSumSet(LAMBDA t : thr[t].n,
    {t \in Threads : thr[t].e = e /\ thr[t].pc \in {"rate", "debt", "release"}})

\* In messages the receiver has not freed
Outstanding(e) == MapThenSumSet(LAMBDA n : n * out[n], {n \in Sizes : EpOf(n) = e})

\* Held back by the receiver
HeldBack(e) ==
  rep[e].pending_ret_quota
    + MapThenSumSet(LAMBDA f : free[f].n, {f \in Freers : free[f].e = e /\ free[f].pc = "refused"})

\* In SEND_QUOTA messages on their way
Returning(e) ==
  FoldLeft(LAMBDA sum, m : sum + m.q, 0, SelectSeq(back[e], LAMBDA m : m.type = "SEND_QUOTA"))

\* The limit that endpoint e goes by: a reconfiguration reaches it in its turn.
LimitOf(e) == IF e < rail.next THEN rail.send_quota ELSE (rail.send_quota - rail.add) % Word

\* No byte of quota is lost or made up, but for the sends that fail: on every
\* endpoint, what the publisher may still send, what is in hand, in messages, held
\* back and being returned, and what failed sends have lost, add up to the limit
\* and the debt, through concurrent publishers, refusals by the rate limit,
\* returns and reconfigurations (__rep_quota_acquire, __rep_quota_release,
\* __rail_process_quota_reconfig, __msg_buf_s_ref_free, __qgroup_reset).  Without
\* a limit the publisher may always send.
Conserved ==
  \A e \in Eps :
    IF LimitOf(e) = Unlimited
      THEN ep[e].send_quota = Unlimited
      ELSE ep[e].send_quota + InHand(e) + Outstanding(e) + HeldBack(e) + Returning(e)
             + astray[e] = LimitOf(e) + ep[e].debt

\* in_eps_stq says exactly that the endpoint is in the group's queue or that one
\* thread is about to put it there, so no endpoint is queued twice; and what a
\* reset has read of pending_ret_quota is still there when it is taken off: no
\* interleaving of frees and a reset returns an amount twice.
QueueExact ==
  /\ IsInjective(qg.eps_stq)
  /\ \A e \in Eps :
       LET marking == {f \in Freers : free[f].e = e /\ free[f].pc = "enqueue"}
           queued == IF e \in Range(qg.eps_stq) THEN 1 ELSE 0
       IN rep[e].in_eps_stq = Cardinality(marking) + queued
  /\ reset.pc \in {"unmark", "return"} =>
       reset.p \in 1..rep[Head(reset.todo)].pending_ret_quota

\* While the group runs, an endpoint that waits for a reset to return its quota
\* gets it, unless it holds back more than the quota of the whole group, or an
\* assertion fails: no endpoint is passed over for ever (the order of eps_stq and
\* the fresh cfg.quota of every reset).
QueuedIsReturned ==
  \A e \in Eps :
    rep[e].in_eps_stq = 1 ~> \/ rep[e].in_eps_stq = 0 \/ qg.state # "STARTED"
                             \/ rep[e].pending_ret_quota > QGQuota \/ ~Alive

\* An endpoint in the queue holds quota back: assert(p > 0) of __qgroup_reset().
QueuedHoldsBack == Alive
=============================================================================
