# A TLA+ model of LDMS

LDMS (Lightweight Distributed Metric Service) moves metric sets from sampler
daemons through aggregators to storage. This directory models the parts of it
that are hardest to test: the ones where transport threads, scheduler threads and
administrators interleave. `PROJECT.json` maps every definition to the source
lines it stands for, and lists runs, mutants, findings, hazards and theorems.

## The system

| Layer | Source | Role | Here |
|---|---|---|---|
| zap | `src/lib/src/zap` | endpoints and I/O threads of sock, rdma, ugni, fabric | external |
| legacy transport | `core/ldms_xprt.c` | one zap endpoint: requests, completions, set deletion | what a producer set sees of it, in `PrdcrSet` |
| rail | `core/ldms_rail.c` | one logical transport made of n endpoints | `RailCore`, `RailActive`, `RailPassive` |
| quotas | `core/ldms_rail.c`, `ldms_qgroup.c` | flow control of messages | `Quota` |
| message service | `core/ldms_msg.c`, `ldms_msg_chan.c` | publish, subscribe, forward | where it takes and returns quota, in `Quota` |
| sets | `core/ldms.c`, `ldms_heap.c` | metric set memory | no |
| scheduler | `src/lib/src/ovis_event` | timer heap, loop, notification pipe | `OvisHeap`, `OvisTime`, `OvisEvent` |
| tasks | `ldmsd/ldmsd.c` | periodic function with start, stop, join | `LdmsdTask`, `OvisTime` |
| samplers | `ldmsd/ldmsd.c` | plugin instances that are sampled periodically | `Sampler` |
| producers | `ldmsd/ldmsd_prdcr.c` | connection to one peer daemon, with reconnect | `Prdcr` |
| updaters, sets | `ldmsd/ldmsd_updtr.c`, `ldmsd_prdcr.c` | lookup and periodic update | `PrdcrSet` |
| storage policies | `ldmsd/ldmsd_strgp.c` | storing updated sets | no |
| configuration | `ldmsd/ldmsd_request.c` | parsing and dispatch | commands are actions |
| failover | `ldmsd/ldmsd_failover.c` | disabled (ENOTSUP) | no |
| plugins, tools, bindings | `sampler`, `store`, `python` | I/O and formatting | no |

A producer's task calls `prdcr_connect()`, which makes a rail and posts its
endpoints. Each endpoint's I/O thread reports to `__rail_cb()`. When the rail as
a whole is connected or finished, `__rail_cb()` calls `prdcr_connect_cb()`. At
the peer, the listener's thread collects the endpoints into a passive rail. Once
connected, the producer asks for the directory of the peer and adds a producer
set for each entry; updaters look the sets up and update them. Messages go over
the same rails and are limited by a quota that the receiver returns. Tasks,
updaters and samplers are all called by the loop of a scheduler.

## Modules

| Module | What it is |
|---|---|
| `RailCore` | The rail record, and what each event, cut and close does to it under `r->mutex`. No variables. |
| `RailConn`, `RailPromise` | One connection as its user sees it, and the abstract specification made of it. |
| `RailActive` | The connecting side: connect, close, answers, losses, callbacks. |
| `RailPassive` | The listening side: connect requests, the tree of passive rails, accept, removal. |
| `LdmsdTask` | A task: what start, stop and the two halves of the callback do under `task->lock`. No variables. |
| `Prdcr` | A producer with its task, its transports (`RailConn`) and its administrators. |
| `PrdcrSet` | The sets of a producer: directory, lookup, update, deletion, loss of the connection, one updater. |
| `OvisHeap` | The binary heap of timers. Recursive operators, no variables. |
| `OvisTime` | The wake-up times of periodic events and synchronous tasks. No variables. |
| `OvisEvent`, `MCOvisEvent` | A scheduler: its loop, pipe, heap, files and one-shot events; the events of the runs. |
| `Sampler` | A sampler instance, its administrators, and the shared or exclusive scheduler thread. |
| `Quota` | Send quota between a publisher's rail and a receiver with a quota group. |
| `RailCoreProofs`, `RailActiveProofs`, `RailPromiseProofs`, `RailPassiveProofs`, `PrdcrProofs`, `PrdcrSetProofs`, `SamplerProofs`, `OvisTimeProofs` | Lemmas and theorems. |

The rail and the producer are composed through `RailConn`. `RailActive` is shown
to implement `RailPromise`, whose steps are the steps of `RailConn`; `Prdcr`
moves its transports by the same operators. The refinement covers safety. That a
rail is answered and ends is an assumption of `Prdcr`; `RailActive` confirms it
but for a rail that loses an endpoint while it is CONNECTING, of which the
application may never hear.

No module restricts its environment: an answer, a loss, a stop or a failed sample
may come at every point where the code lets another thread run. Some of these
orders end in a failed `assert()`, a use of freed memory or a null pointer. The
model records the fault (`bad`, or `aborted` in `Quota`) and stops there, since
nothing can be said of the program afterwards; `Alive` says that it has not. The
properties name the orders that lead to a fault, and say that no other does.

### Rails

`RailCore!Rail` keeps the fields of `struct ldms_rail_s` that drive the
connection. Each `On...` operator is one case of `__rail_cb()` up to the release
of `r->mutex`; `PrepEvent` is `__rail_ev_prep()`. `closing` is the set of
endpoints given to `ldms_xprt_close()`, `bad` records a failed assertion.

`RailActive` adds for each endpoint a transport (`none`, `pending`, `up`, `gone`)
and a thread, which is idle or holds the event it is about to give to the
application. So `Handle` and `Deliver` are two steps, as in the code, where the
callback runs outside the mutex. Two details are coarser than the code: the
references that a CONNECTED exchanges are counted in one step with the state
change, and authentication is part of the answer of an endpoint.

`RailPassive` follows the listener's thread through three steps of
`__rail_zap_handle_conn_req()`, one for each lock it takes and releases. Each
endpoint's callback has up to three: the event, the application, the removal
from the tree. The history variable `early` holds the rails whose removal was
decided before all requests of the peer were served. One peer rail is modelled;
rails of different peers share nothing but the tree. Failing to create a rail
changes nothing and is left out.

### Tasks and producers

The task's `os` stands for both the pointer and the timer in that scheduler's
heap. `TaskThread` is a scheduler thread: `fired` between
`ovis_event_heap_process()` and the lock in `task_cb_fn()`, `fn` before the
function, `end` after it. Heap space is taken for granted.

`Prdcr` covers the types that open their own connection. `sets` abstracts the
set tree to the transport its sets came from, and `dstart` is
`LDMSD_PERM_DSTART`. `__ldmsd_prdcr_stop()` is three actions, since it releases
`prdcr->lock` around the join. Two history variables tell the properties what
has happened: `dropped`, a connect has failed half-way, with endpoints of its
rail still to report; `twice`, two threads have been in the task's callback at
once. `Dir` is slightly wider than the code: after a failed allocation in
`__agg_routine()` no directory is asked for, and the model allows it. A finished
rail's slot is reused. Permission checks, the EBUSY returns and the "already
stopped" return change nothing and appear only as guards.

### Producer sets

A slot is a `struct ldmsd_prdcr_set`. The peer creates and deletes sets
(`PeerCreate`, `PeerDelete`), its directory entries and deletions arrive later
(`Add`, `SetDelete`), and the updater visits each set (`Schedule`), which posts a
lookup or an update according to the set's state. `Completion` is the arrival of
the answer: the reply to a lookup, the read of the metadata, the read of an
update, each with its error path. `_add_cb()` and the callback of a failed lookup
release a lock half way, so each is two steps. A connection is lost (`Lose`)
before the producer hears of it (`Disconnected`, which resets every set); what is
asked in between is refused at once. A lookup that a disconnect drops has no
callback, so its reference is never put: the set leaves the tree and keeps its
slot for ever, as it keeps its memory in the daemon. Set groups, and the
allocations of a lookup that fail, are left out.

### Scheduler

The scheduler's mutex is held in each action of `OvisEvent`; the steps of the
loop are the stretches between its releases, so a callback, the check of the
event count, `epoll_wait()` and the dispatch of what it reports are separate.
`aim` is the instant for which the timeout of `epoll_wait()` was computed. The
pipe is non-blocking and may be full. `OvisHeap` keeps the code's order of
comparisons and swaps, because a property depends on it. Times are whole
microseconds; clock units are abstract. One detail is coarser than the code:
`AddFile` and `DelFile` change the watched files and `evcount` in one step, while
`epoll_ctl()` (`ovis_event.c:553`, `625`) comes before the mutex that guards the
count. The two differ only while the calling thread is between them, and
`EvcountExact` is about the times when it is not.

### Samplers

Each command is found, executed under the sampler's lock and put; config puts its
reference before it takes the lock. A stop of a sampler on an exclusive scheduler
holds the lock while it joins the thread. The scheduler thread has a step for each
point where others can run: the loop begins, the timer fires, the callback takes
its reference, gets the lock, samples or fails, puts. A command may find the
thread at any of them. A start is refused for its interval or offset; its failures
for lack of memory or threads are left out. The shared scheduler's other samplers
appear only in `ev_count[]`.

### Quota

The atomic operations of the code are the steps. On the publisher, a publish takes
quota, then asks for rate, then sends, which may fail; a return pays the debt first
and then adds to the quota, in two steps; a reconfiguration walks the endpoints. On
the receiver, a freed message returns its quota at once or, when the group's quota
is used up, is held back until `__qgroup_reset()` returns it; both sides are at the
grain of their atomic operations, so a free and a reset meet everywhere. `astray`
sums up what failed sends have lost, less what they have made. A word has 32
values instead of 2^64 and all arithmetic is modulo that.

## Runs

| Run | Result | Shows |
|---|---|---|
| `rail_active` | holds | exact counters and references, event order, no open endpoint left behind, the refinement; connects answered, failed rails freed and asserts held but in the named cases |
| `rail_passive` | holds | exact counters and references; a freed rail is used only if it ended early; a lost rail is freed |
| `prdcr` | holds | no transport forgotten and no stale sets but after a connect that failed half-way, the task's timer kept but after two callbacks at once, STOPPING left |
| `prdcr_retry` | violated | a DISCONNECTED producer is left without a task |
| `prdcr_stop_undone` | violated | a late CONNECTED undoes a stop |
| `updtr` | holds | every holder of a producer set has a reference, no lookup is done twice; an offered set is updated again and again but in the named cases |
| `updtr_sync_error` | violated | an update that fails at once leaks a reference |
| `ovis_event` | holds | event count exact, no lost wake-up, periodic events on their grid, due timers called, termination |
| `ovis_event_remove` | violated | removing a timer from the middle of the heap hides an earlier one |
| `sampler` | holds | references and scheduler claims exact, faults are the named races, stop returns but for two deadlocks, a started sampler is sampled |
| `quota` | holds | quota conserved but for failed sends, nothing returned twice, queued quota returned |
| `quota_assert` | violated | an endpoint is queued that holds nothing back |

Run one with `tlc -config Prdcr.cfg Prdcr`. Deadlock is not checked: a model stops
at a fault, a rail is used once and ends, and the commands of a sampler, the
operations on a scheduler and the events of the quotas are bounded. What must go on
is stated as liveness.

**Bounds.** Three endpoints give a rail one that fails, one that is up and one
still pending at the same time. Two scheduler threads let a task move between
threads; two transports let a new one exist beside an old one. A producer has one
administrator, which the theorems do not assume: with two, one may stop and the
other start, and `join_cv`, which is signalled and not broadcast, need not wake
both; the return of a second `ldmsd_task_join()` is not stated. One set name with two slots lets a new
producer set exist beside an old one that has left the tree; sets of different
names meet only in `prdcr->lock`. A set that is leaked keeps its slot, and an
entry that finds none free is ignored, as it is without memory. `MaxCb` = 2
bounds the failed lookups of one set whose callbacks have not ended. Two
administrators and eight commands (`MaxCommands`) start and stop a sampler on both
exclusive schedulers and on the shared one, and let two commands meet. Four
operations (`MaxOps`) and four instants (`MaxNow`) on a heap of two let timers
with different waits, a periodic event with negative phase, a file and a one-shot
event meet, including a full heap and a full pipe; the violated run needs six
timers, as the heap must have an event whose parent differs from that of the last
one. `Quota` has two sizes that go to different endpoints, one publisher beside
the transport threads, one thread that frees, and one event (`MaxEvents`) that is a
reconfiguration, a failed send or a stop of the group; more of them repeat the
same steps.

**Fairness** is on single actors, and weak unless said otherwise. A scheduler
thread whose timer is due or whose callback has begun goes on, and time passes. A
callback of a rail returns. zap answers every connect it has accepted, completes
every read and reports the end of every endpoint that was closed. A thread in a
command goes on when it can. The updater visits every set in each period, as its
task is periodic, and the reset timer of a quota group is periodic too. It is
strong in two places. A directory entry that waits for `prdcr->lock` gets it, as
entries arrive in order and each handler is short; and so does a thread that waits
for a quota group's mutex, which is free for the whole interval between two
resets. Nothing forces an administrator to act, a peer to ask or to offer, or a
healthy connection to be lost.

### What the violated runs mean

* **`prdcr_retry`** The connection comes up and goes down while the thread that
  posted it is still in the callback. CONNECTED has asked for the task's stop, so
  the task is RUNNING with a stop to come; `ldmsd_task_start()` returns EBUSY,
  which `prdcr_connect_cb()` ignores, and the callback ends STOPPED. The
  producer is "Ready for connect attempts" (`ldmsd.h:252`) that nobody makes.
* **`prdcr_stop_undone`** CONNECTED overwrites STOPPING, so the DISCONNECTED of
  the close is taken for a loss and the reconnect task is started.
* **`ovis_event_remove`** `ovis_event_heap_remove()` fills the hole with the last
  event and sinks it, but never floats it. If it is earlier than the parent of
  the hole, a later event can become the top before it.
* **`updtr_sync_error`** `schedule_set_updates()` takes two references, and when
  the update is refused at once its error path puts one, although the comment at
  `ldmsd_updtr.c:351` says where the other is put back. The set and its local set
  stay in memory, and a lookup after the reconnect finds the name in use.
* **`quota_assert`** A thread adds a return to `pending_ret_quota`; before it looks
  at `in_eps_stq`, a reset returns that amount and clears the mark. The thread
  then queues an endpoint with nothing pending, and `assert(p > 0)`
  (`ldms_qgroup.c:478`) fails at the next reset.

### Known deviations

The passing runs reach these states too. Each of their properties names the case
as its exception, so that it says what the code guarantees otherwise.

| Run | Exception, and the property that names it | Why |
|---|---|---|
| `rail_active` | `LostEarly`, `LostUnheard` in `ConnectAnswered`, `FailedRailFreed` | DISCONNECTED changes the rail's state only if it was CONNECTED; during CONNECTING the other endpoints are cut and `__rail_ev_prep()` finds no reason to call the application, not even after a close. |
| | `bad` with state REJECTED in `NoAssertFails` | The CONNECTED case does not expect the state REJECTED, which another endpoint's answer has set. |
| `rail_passive` | `early` in `SafeRemoval` | The listener uses the pointer found in the tree after the tree's lock is released, without a reference; a rail whose endpoints end before the peer has asked for all is freed meanwhile, or removed twice. |
| `prdcr` | `dropped` in `NoAssertFails`, `NoXprtForgotten`, `SetsOfXprt` | A connect that fails at a later endpoint than the first is forgotten, and the first one reports to a producer that is STOPPED ("STOPPED shouldn't have xprt event") or has another transport. |
| | `twice` in `ScheduledHasTimer`, `NoAssertFails`; `StopFaults` in `StoppingEnds` | A stop and a start between the scheduler's unlock and `task_cb_fn()`'s lock make two threads run the task; a further stop leaves it STARTED without a timer. With one thread, the default of ldmsd (`ldmsd.c:2197`), it cannot happen (`OneThreadIsEnough`). |
| `sampler` | `Hangs` in `StopReturns`: the thread is in its callback | Stop joins the exclusive thread with the sampler's lock (`ldmsd.c:1027`), which that thread waits for (`ldmsd.c:677`). |
| | the same: the thread has not entered its loop | `ovis_scheduler_term()` returns EINVAL before the loop has begun; `ldmsd_sampler_xthread_delete()` ignores it and joins a thread that nobody has told to end. |
| | `freed` in `FaultsAreRaces` | The callback takes its reference only when it runs, after stop, term and unload could free the sampler; config puts its own before it takes the lock. |
| | `null` in the same | `stop_sampler()` trusts `samp->os`, which a stop has cleared since the callback began. |
| | `claim` in the same | `stop_sampler()` of a sampler on an exclusive scheduler releases `ev_count[-1]`. |
| `quota` | `astray` in `Conserved` | A publish whose send fails does not release its quota (`ldms_msg.c:978`), while `__rail_send()` does though it has taken none (`ldms_rail.c:1260`). |
| | finite `Limits` | The difference to an unlimited quota is computed as if it were a size (`ldms_rail.c:2188`): with 31 in `Limits`, `Conserved` fails at a change from or to it. |
| | more held back than `QGQuota` in `QueuedIsReturned` | A reset returns what an endpoint holds back only if all of it fits into the group's quota (`ldms_qgroup.c:479`): `p > cfg.quota` is never returned. |
| | not named: `QueueExact` allows it | A return that is added after a reset has read the pending sum, but before it clears `in_eps_stq`, is queued by nobody until the endpoint's next message. |
| `updtr` | `Stuck` in `OfferedIsUpdated`, UPDATING in `RefsExact` | The update is refused at once, after a loss or a deletion that the producer has not heard of, or its completion has an error: the set stays UPDATING, and no visit of the updater takes it up again. |
| | `Stale` in `OfferedIsUpdated` | A set that has left the producer with a leaked reference keeps its local set, and a lookup of the name ends with EEXIST. |
| | `InTree(n) = {}` in the same | The entry of a set that was deleted and created again is ignored while the old producer set is present, whose reset then leaves none. |
| | `~Alive` in the same, with `bad` = `reset` | A failed lookup's callback sets START before it resets the set; the updater looks it up again in between, and the set is reset twice. |
| | the same, with `bad` = `added` | `_add_cb()` uses a set after it has released `prdcr->lock`, without a reference. |

## Proofs

TLC checks small instances; the theorems hold for every value of the constants and
assume nothing of the environment. The named assumptions of the modules only say
that sets are finite and that the placeholders (`NoXprt`, `NoOs`...) are none of
their members.

| Module | Theorems |
|---|---|
| `RailActiveProofs` | `TypeCorrect`, `CountersAreExact`, `RefsAreExact`, `NoUseAfterFree`, `EventsAreOrdered`, `NothingLeftBehind`, `AssertsHold` |
| `RailPromiseProofs` | `Implements` |
| `RailPassiveProofs` | `TypeCorrect`, `CountersAreExact`, `RefsAreExact`, `RemovalIsSafe` |
| `PrdcrProofs` | `TypeCorrect`, `XprtNeverForgotten`, `SetsBelongToXprt`, `TimerNeverLost`, `AssertsHold`, `OneThreadIsEnough` |
| `PrdcrSetProofs` | `TypeCorrect`, `RefsAreExact`, `AssertsHold`, `OneSetOfEachName` |
| `SamplerProofs` | `TypeCorrect`, `RefsAreExact`, `ClaimsAreExact`, `OnlyRacesFail` |
| `OvisTimeProofs` | `PeriodicNextTime`, `SynchronousTask` (for a phase within one period of zero; an offset of at least minus one period) |

**Rails, connecting side.** `CountInv` is typing, `CountersExact`, `RefsExact` and
`Fresh` (nothing has happened before the connect). It is inductive by itself,
because an event moves one endpoint between sets that are counted; typing alone is
not, since that a counter stays a natural number needs its meaning. `IInv` adds
`EpsAgree` (an endpoint that is up is CONNECTED or being closed), `CallsInOrder`
and `ThreadsInOrder`. The last one carries the argument about the callbacks
outside the mutex: while one thread has an event to deliver no other thread has
one, and a terminal event is prepared only when no endpoint is pending or up.
`Expected` says which states the rail and a pending endpoint can be in until an
assert fails; REJECTED is the only one of them that the CONNECTED case does not
expect. `RailCoreProofs` holds the facts about the operators of `RailCore` and
the counting of endpoints.

**Refinement.** `Implements` shows that each step of a rail is a step of the one
connection of `RailPromise` or does not show. It rests on `IInv` and on `Life`,
which says when the mapped connection is doomed: the application was told so or is
about to be, or it has given the rail up. One lemma for each kind of step puts it
into one of the two classes.

**Rails, listening side.** `Requests` bounds the rails that are made by the
requests of the peer. `Counted` is the two counting invariants for one rail.
`Orderly` says that a rail counts down the requests it serves and, unless its
removal was decided early, that one thread has decided it, when the rail was
`Finished` and in the tree. So the listener has no pointer to a rail that is
removed, and no second thread removes it. For a rail in `early` only the counts
are kept, which is enough for the references.

**Producer.** The invariant has two independent layers, each under the history
variable that ends it. Until `dropped`, `OneXprt`: a rail in use is the producer's
transport, and STOPPED and DISCONNECTED mean there is none. Until `twice`,
`OneRunner`: one thread runs the task, which is RUNNING exactly then and has a
timer when it is STARTED or will be. `OneThreadIsEnough` adds that `twice` needs
two threads.

**Producer sets.** `Sound` says of each set that it has references for all its
holders (`Holders`), that its state tells which request it waits for, and that it
has one request at a time. `Owed(p, k)` is the same in the middle of an operation
that is about to put k references more, so each operation is proved by itself and
the actions are put together from them. `OneSetPerName` keeps names apart, in the
tree and among the local sets.

**Sampler.** `Scheduled` and `OneCommand` are added to the four invariants: a
sampler with a scheduler is RUNNING and only the shared one has a `thread_id`, at
most one command joins, with the timer gone, and at most one unloads.

**Times.** Both theorems are about arithmetic for all integers and cover the cases
of `set_next_periodic_time()` and `resched_task()`.

**Only model-checked:** all liveness properties (fairness is out of the prover's
reach); the invariants of `OvisEvent`, whose heap is recursive; the invariants of
`Quota`, which sum over sets with a fold.

## Mutants

Each property of a passing run has a mutant: an operator named
`<definition>_<what it breaks>`, placed before the definition it replaces. With
the replacement the run must fail on that property.

## Not modelled

The definitions stand for about 3500 lines. Most of the repository has no control
that a model of this kind could say something about, and is left out for good:

* sampler, store and authentication plugins, tools and Python bindings, more than
  half of the code: each reads or writes an external format and calls the modelled
  interfaces;
* network I/O of the zap transports, which are external to the models;
* parsing and dispatch of requests, the layout of set memory, decomposition of
  rows, red-black trees and other data structures;
* failover, whose requests are answered with ENOTSUP.

These parts have state of their own and are not modelled:

* rails: the wrapping of a legacy peer by a listener, `__rail_listen()`;
* quotas: the forwards that wait for quota (`sbuf_tq`), the refill of the rate
  credit, asking and donating between the members of a quota group and the
  connections between them;
* message service: subscriptions, their trees, channels and their reconnects;
* legacy transport: the authentication exchange, push, notify;
* producers: passive, generated and local ones (STANDBY), the references of the
  configuration object, `prdcr_del`;
* updaters: set groups (`ldmsd_updtr.c:385` posts the lookup of a member without
  the reference that its callback puts), push, the task tree of automatic
  intervals, DIR_UPD and DIR_DEL, deletion, the lists of producers and matches;
* storage policies, with the snapshot of them that `updtr_update_cb()` may fail to
  allocate (`ldmsd_updtr.c:269`);
* samplers: one-shot sampling, starts that fail for lack of memory or threads;
* scheduler: growth of the heap, EPOLL_TIMEOUT events and the deletion of a queued
  one-shot event, which nothing in the repository uses;
* `ldmsd_task_resched()`, which nothing calls.
