# The ConfigMapTemplate controller in TLA+

This directory specifies the controller of this repository (`controller.go`,
`main.go`, `pkg/`) together with the parts of the vendored client-go it stands
on: the rate limited work queue and the shared informers. The generated client
code in `pkg/client` has a model of its own. TLC checks small instances; TLAPS
proves the main invariants for every instance.

To check a module: `tlc -config ControllerRest.cfg MCController.tla`; to check the
proofs: `tlapm ControllerProofs.tla`.

## 1. The system

A `ConfigMapTemplate` (CRD, `pkg/apis/cmt/v1alpha1/types.go`) names a ConfigMap
and gives, per key, a Go text template. The controller creates the ConfigMap
with the texts executed, sets itself as its owner and keeps it up to date when
the template, the ConfigMap or the pods of the namespace change (texts may list
pods).

    API server --watch--> reflector -> DeltaFIFO -> indexer (cache) -> listener -> handler
        ^                                              |                             |
        |                                         listers (reads)             AddRateLimited
        |                                              v                             v
        +------- Create / Update ------- syncHandler (2 workers) <--- Get --- work queue

| Component (source) | State | Operations | Talks to |
|---|---|---|---|
| Controller (`controller.go`) | per worker: the key, the template read, the ConfigMap being built | event handlers, `enqueueConfigMapTemplate`, `processNextWorkItem`, `syncHandler`, `newConfigMap`, `Run` | listers, work queue, API server |
| Process (`main.go`, `pkg/signals`) | stopCh | start, first signal, second signal, end | Run, informers |
| Work queue (`util/workqueue/queue.go`) | queue, dirty, processing, shuttingDown, a condition variable | Add, Get, Done, ShutDown | workers, waitingLoop |
| Delaying and rate limiting queue (`delaying_queue.go`, `rate_limitting_queue.go`) | channel of 1000 requests, heap, clock | AddRateLimited, AddAfter, Forget, waitingLoop, ShutDown | informer callbacks, inner queue |
| Rate limiters (`default_rate_limiters.go`) | failures per item, token bucket | When, Forget | delaying queue |
| Shared informers (`shared_informer.go`, `controller.go` of client-go) | listeners with pending notifications | HandleDeltas, distribute, HasSynced | DeltaFIFO, indexer, handlers |
| Reflector, DeltaFIFO (`reflector.go`, `delta_fifo.go`) | last resource version; pending deltas per object | ListAndWatch; Add, Update, Delete, Replace, Resync, Pop | API server, informer |
| Indexers, listers (`thread_safe_store.go`, `listers.go`) | objects by key and namespace | Get, List, Add, Update, Delete | everybody |
| Generated informer factory (`pkg/client/informers`, `pkg/client/listers`) | the informer of the type, whether it is started, a lock | `InformerFor`, `Start`, `WaitForCacheSync`; the lister's `Get`, `List` | clientset, shared informers |
| Fake clientset and tracker (`pkg/client/clientset/.../fake`, `client-go/testing/fixture.go`), deepcopy | stored objects, watchers with their events | Create, Update, Delete, Get, List, Watch, Patch, DeleteCollection | informers, callers |
| REST clients (`pkg/client/clientset/.../typed`) | none | the same | API server; not modelled |
| Event recorder, manifests | - | - | not modelled |

What is hard about it, and what must be true:

* **Stale reads.** Three caches that lag behind the server, each on its own;
  `syncHandler` reads them one after the other, and what it decides is done
  later. Whatever changes in between must lead to another sync
  (`RestMeansConverged`, `EventuallyConverged`).
* **Two workers, one key; two keys, one ConfigMap.** (`Exclusive`, `NoRegress`,
  `OwnerIsKept`.)
* **Unconditional writes.** Update sends no resource version
  (`NoRegress`, `OnlyOwnIsUpdated`).
* **Writes that come back as events.** The controller must come to rest
  (`EventuallyAtRest`).
* **Failures, crashes, shutdown.** A call may get no answer and be applied any time
  later or never, the process may end between any two steps; only the server persists,
  and what it lists to the next process may be older than what the last one knew
  (`EventuallySettled`, `RestMeansConverged` with faults and restarts).
* **The queue's concurrency.** Signal wakes one goroutine, callbacks block on a
  channel, delays overtake each other, shutdown meets all of it (`QueueInv`,
  `NoStranded`, `DelayHonoured`, `ShutDownCompletes`, `SendersReleased`).
* **Lists and watches.** After a broken watch a list of some other moment meets
  what is still queued, and resync goroutines of two `ListAndWatch` calls
  overlap (`PipelineFollows`, `DeletionsMatter`, `SyncedMeansHandled`,
  `DeletionsAreTold`, `EventuallyCaughtUp`).
* **Shared pointers.** Tracker, watchers, indexers and callers exchange objects;
  only deep copies keep their edits apart (`Isolated`, `ImplementsObjectStore`).
* **The factory's lock.** Several goroutines create, start and wait for one
  informer (`RunOnce`, `WaitCoversMine`, `CallsReturn`).

`PROJECT.json` lists these hazards at their lines, and with each the properties
that would catch it.

## 2. Modules

| Module | What it is |
|---|---|
| `KeyQueue` | abstract specification: what the controller relies on in the queue (sets and counters only) |
| `WorkQueue` | client-go's queue in detail; implements `KeyQueue` |
| `Cluster` | API server, other actors, informers and caches |
| `Controller` | handlers, workers, process; composes `Cluster` and `KeyQueue` |
| `Informer` | reflector, DeltaFIFO, HandleDeltas and resync of one informer whose watch may break |
| `ObjectStore` | abstract specification: what the tracker behind a clientset promises (a store of values) |
| `FakeClientset` | the generated fake clientset with the objects it hands around; implements `ObjectStore` |
| `ClientStack` | the generated informer factory; composes `FakeClientset` with its callers and informers |
| `MCWorkQueue`, `MCController`, `MCInformer`, `MCClientStack` | small instances |
| `WorkQueueProofs`, `KeyQueueRefinementProofs` | theorems on the queue; that it implements `KeyQueue` |
| `ControllerProofs`, `ControllerHistoryProofs`, `ControllerRestProofs` | theorems on types, exclusion and informers; on the order of versions and on owners; on lost updates |
| `InformerProofs`, `ClientStackProofs` | theorems on the informer; on the factory and the fake clientset |

`Controller` uses `Cluster` and `KeyQueue`, and `WorkQueue` implements `KeyQueue`.
`Informer` is the path of `Cluster` from server to handler for one kind, in more
detail; it stands beside `Cluster`, which keeps the simpler path so that three
kinds with a controller on top can be checked. `ClientStack` stands for a test of the controller: it
uses the generated code the way `controller_test.go` and `main.go` do.

**WorkQueue.** One action per critical section or channel operation. `GetWait`,
`GetItem` and `GetShutdown` are the three ways through `Get`; `sleeping` is the
set of goroutines in `cond.Wait`. `AddRateLimited` is the call up to the
`select` of `AddAfter`, `Send` and `GiveUp` are its two cases. `LoopTop`,
`LoopExpire`, `LoopBlock`, `LoopWake`, `LoopStop`, `LoopReceive`, `LoopDrained`
are `waitingLoop`. Time is relative: `readyAt` counts the ticks left and `Tick`
may happen at any moment, also between the loop's reading of the clock and its
use, which makes the loop at most later than it is. The heap is the set of its
entries: which elapsed entry is added first is left open. The token bucket is
a set of delays it may answer.

**KeyQueue.** `waiting[k]` counts requests under way to becoming dirty (in a
channel or in the heap), `dirty` and `processing` are the two sets of
`queue.go`. The order of the queue is abstracted away; what is left of it is the
fairness (`Get` of a key happens if the key is there long enough).

**Cluster.** `server` holds the objects; `deltas[o]` the versions of `o` that
the watch and DeltaFIFO have still to hand to the cache, in order; `cache` the
three indexers; `notes[k]` the notifications the listener of kind `k` holds.
DeltaFIFO keeps order per object only, so `Deliver(o)` picks any object.
A `List` asks for resource version "0" and may be answered by a server that lags behind
(`reflector.go:243-245`): `past[o]` holds the last `MaxLag` versions of `o` before the present one, `List` finds
each object as it was up to so many versions ago, and the watch brings the rest (`Since`). In the code the list
is of one moment; letting each object lag on its own only adds behaviours.
`Deliver` is `HandleDeltas` for one delta: cache first, then notification. In the
code `HandleDeltas` works through all the deltas of an object under one lock;
letting others in between two of them only adds behaviours. A text of a template is one
of four classes, by what executing it can give: `"plain"` (nothing about pods),
`"pods"` (the set of pods), `"first"` (the first pod of an unordered list; fails
without pods), `"bad"` (does not parse). Pods have an observable state such as an
address. The garbage collector, the users and the acceptance rules of the API
server are external.

**Controller.** `syncHandler` is cut at every point where something else can
come in: `LookupTemplate` (template lister), `FindConfigMap` (ConfigMap lister and the
ownership check), `RenderKey` (one text, with its read of the pod lister, in any
order of the keys as the code ranges over a map), `Write` (the API call, which
may succeed, be refused, or get no answer), `Finish` (Done;
nothing is queued again after an error). A call that gets no answer (a timeout, a broken
connection, the end of the process) stays on the `wire`, from which it may come to the
API server at once or any time later, once, after other writes and in the time of another process (`Arrive`), or never. `Handle` is one notification through
its handler, including the cache lookup and `AddRateLimited`. `StartWorkers`, `Stop`,
`ReturnFromRun`, `Exit`, `Crash` are `Run`, the signal handler, `main` and the
end of the process; after it a new process starts with empty caches and an empty
queue on the same server, and with the same calls on the wire. A signal while `Run` waits for the caches makes it
return without workers (phases `aborting`, `aborted`). `failed` and `written` record what happened in this process, for
properties only.

**Informer.** `history` is what the server held after each change and `position` how
far the reflector has come; an object's version is the number of its change. `List` is
`ListAndWatch` up to the watch, with the whole of `Replace`: it may answer with any past state,
since it asks for resource version "0". `WatchEvent` is one turn of `watchHandler`,
`BreakWatch` the return of `ListAndWatch`. Every call of DeltaFIFO that queues something
is `Enqueue`: `queueActionLocked` with its skipped Syncs and merged deletions, for one key
or for all the keys of a `Replace` or `Resync`, in any order, as they come from maps.
`Pop` takes the lock, `HandleDelta` is one turn of `HandleDeltas`, and the last one gives the
lock back; the items that the code has taken out of the map by then stay in
`items` while they are worked off. `ShouldResync` and `Resync` are the two halves of a resync
goroutine; `syncing` is whether the handler is among `syncingListeners`, and
`"cancelled"` the goroutine of the `ListAndWatch` before. `unhandled` and `doubtful`
are for properties only.

**ObjectStore.** The tracker's interface on values: `Create` for a name that is free, `Update`, `Delete` and
`Get` for one that is taken (a call that is refused changes nothing), and what clients do with their own objects.

**FakeClientset.** An object is the address of its maps, `heap` what they hold. `DeepCopy` gives
new addresses; the tracker's own object goes to the watchers, and from there to
the indexers, as in the code. `held` is the object a client has from a call or has made. A
call is one action because `Fake.Invokes` keeps a lock for all of it. `missed` are the
names that changed without the informer being told.

**ClientStack.** A caller's goroutine goes from one critical section to the next (`pc`);
`Make` and `Mark` are the second halves of `InformerFor` and `Start`, with the lock. An informer
lists, watches and receives. The factory knows one type, so its map of informers is one variable.

## 3. Runs

| Run | Instance | Shows |
|---|---|---|
| `work_queue_safety` | 2 items, 2 workers, 1 producer, channel of 1, delays up to 3 ticks | `QueueInv`, `Exclusive`, `NoStranded`, `DelayHonoured`; `WorkQueue` implements `KeyQueue!Spec` |
| `work_queue_liveness` | the same with one delay, under `FairSpec` | `KeyQueue!Fairness`, `ShutDownCompletes`, `SendersReleased` |
| `controller_rest` | empty server, 2 keys, a pod, a text that lists pods and one that does not parse; 3 disturbances: changes, at most 1 unanswered call, at most 1 restart; Lists up to 1 version behind | `CacheFollows`, `RestMeansConverged` |
| `controller_race` | 2 templates, 1 name, 2 workers; 3 disturbances: edits, a foreign ConfigMap, at most 1 unanswered call, at most 1 restart; Lists up to 1 version behind | `Exclusive`, `OwnerIsKept`, `NoRegress` |
| `controller_converges` | 2 changes, under `FairSpec` | `EventuallyConverged`, `EventuallyAtRest` |
| `controller_resync` | 2 of: disown, delete the ConfigMap, an unanswered call, a restart; Lists up to 1 version behind; periodic resync, under `FairSpec` | `EventuallySettled` |
| `informer` | 2 objects, 2 changes, 2 lists, under `FairSpec` | `FifoInv`, `PipelineFollows`, `DeletionsMatter`, `SyncedMeansHandled`, `DeletionsAreTold`, `EventuallyCaughtUp` |
| `client_stack` | 2 names, 2 callers, 1 client, room for 2 informers, 6 addresses, under `FairSpec` | `Isolated`, `RunOnce`, `WaitCoversMine`, `ListerFollows`, `CallsReturn`; `FakeClientset` implements `ObjectStore` |

What two of these say and what they do not. `NoRegress` is about one process: there no older version of a
template is written after a newer one. Between processes it would be false, as a new process may list an older
template than the old one wrote, and so it would for a call that comes to the API server after its caller has gone on; in both
cases older data is written over newer. `RestMeansConverged`, which covers both, says
that this does not last: whoever rests has the latest. `EventuallySettled` does not say that a disowned
ConfigMap is taken back: each sync ends with an error at `controller.go:307-310` for as long as it is there. If it is
deleted, no event names the template, and the resync makes it anew; in the run that is disown, then delete.

Four runs end in a violation, each of a sentence of the source's comments (the
quotations are in `PROJECT.json`, "findings"):

| Run | The comment | What happens |
|---|---|---|
| `failed_is_requeued` | after an error "we'll requeue the item" | nobody does; the item waits for the next event or the resync |
| `only_own_is_updated` | a ConfigMap not controlled by the template is left alone | the check is on the cache, the write is unconditional: a foreign ConfigMap is overwritten and taken over |
| `workers_see_synced_caches` | "Wait for the caches to be synced" | the pod cache is not waited for |
| `flapping` | a synced item "does not get queued again until another change happens" | a text that depends on the order of the pods is written differently by each sync, which queues the next |

Two more disagreements with comments need no run. `Run` is said to "wait for workers to
finish processing their current work items" (`controller.go:167-169`); it returns
when stopCh is closed, whatever the workers do, so `ReturnFromRun` has no
such guard. `ObjectTracker.Delete` is said to return no error for what does not exist
(`fixture.go:53-55`); the tracker returns NotFound. `controller_test.go` calls a method
`CMT` of the factory, which is named `Cmt` there (`factory.go:178`).

What a relist may get wrong. "Reflector framework will catch up via Watch() eventually"
(`reflector.go:243-245`) holds but for two cases that `Informer` names `doubtful` and
`PipelineFollows` and `EventuallyCaughtUp` leave out. (1) A deletion is queued, the watch breaks, the
object is created again and listed: its Sync is ignored as that of an object about to be deleted, and the
cache lacks the object until it changes again. (2) A creation is queued, the watch breaks, the object is deleted:
the list lacks it, the indexer does not have it yet, so nothing is queued for it, and the cache keeps
an object that is gone, until one of its name comes again. For both the watch must break while
deltas are unhandled.

### Bounds

`MaxChanges` bounds what others do, not what the controller does, and
`MaxDisturbances` their changes, the unanswered calls and the restarts together; two or three
suffice to put one before, one inside and one after a sync, or two
inside it. `MaxWaiting` is how many requests for one key are kept apart: a further
one must merge, which only brings the next sync forward. With 1, one request waits while
the key is dirty and being processed, which is all the places a request can be in. `MaxBacklog` makes the garbage collector wait while two versions
or notifications of ConfigMaps are unseen: a template deleted while its sync runs
can be created again by the sync and collected again, a circle that would fill
the channels without bound if events were never delivered. `controller_rest` has 1 (it collects only when the
controller has seen everything), the others 2. Its two keys are symmetric, which is sound as it checks invariants and no
definition tells the keys of a template's data apart. `MaxFaults` and
`MaxRestarts` are 1: the process keeps nothing of a failed sync, so a second fault would only put a second
call on the wire, where calls do not depend on each other but in the order of their arrival; one already comes between any two
answered writes. `MaxLag` is how many versions of an object a List may be behind: 1 gives every wrong start (a template
that is older, gone or not there yet), and what is further behind comes to the cache the same way, a
version at a time (2 was checked for `controller_race` as well). It is 0 in the other runs, which do not restart: there it would only
put the first events of a run before its beginning. One or two objects of a kind
suffice as templates meet only in a ConfigMap they both name. In `WorkQueue` a channel
of 1 is the boundary (full and empty at once), `MaxFailures` is where the
counter stops because the delay is `MaxDelay` from there on (an assumption the
module states), and two workers and two items make waking the wrong one possible.

`Informer`: two changes let an object be created and deleted, or deleted and created, around a
relist (three changes with two lists, and two with three, were checked without liveness as well);
two lists are one relist, what comes before a list is a cache and a queue in any
state either way. At most one cancelled resync goroutine is about: it lives for a moment after the
break, a watch lasts longer. `ClientStack`: `MaxCalls` counts the calls of the factory and
the calls and edits of the client together; 5 are enough for two `InformerFor` calls, a `Start`, a wait and one
call of the client, or for a longer history of either (6 were checked as well, in a few minutes). Two
informers can be made, so that a second one would show. 6 addresses hold a stored and an indexed object for
either name, the client's own and one copy on the way; `MaxEvents` is 2 where the code
panics at 100.

### Fairness

Goroutines that can go on do (weak fairness of `LoopStep`, `WorkerStep`,
`Handle`, `Deliver`, `Sync`), syncs return, the clock runs. In `WorkQueue`, Go's
`select` is fair between ready cases (strong fairness of `LoopReceive` and
`LoopStop`) and `LoopDrained` is strongly fair: the channel to `waitingLoop` runs empty again and
again. The code does not guarantee the last one: the inner receive loop
does not look at the heap, and callers faster than it would starve elapsed
entries. Events in this program are far slower, and the assumption is stated
where it is made. `Controller` assumes strong fairness of taking a key, which is
what a first-in-first-out queue gives; `work_queue_liveness` checks that from
`WorkQueue`'s own fairness. In `Informer` the reflector and the resync goroutine get DeltaFIFO's lock in the end, also under
contention (strong fairness of `List`, `WatchEvent`, `Resync`), as a Go mutex is handed to one that has waited long
enough; the loop of the controller goes on and the timer fires. A cancelled goroutine, a broken watch and
a change are never obliged to happen. In `ClientStack` a caller's call goes on and gets the lock
(strong fairness of `CallerStep`, for the same reason), and an informer lists unless stopCh is closed.
Nothing obliges others to change anything, nor the process to stop or
crash. The garbage collector works, and so does the periodic resync.

`CHECK_DEADLOCK FALSE` in the Controller, Informer and ClientStack runs: once others have
made their changes and everything is at rest there really is nothing to do.

## 4. Proofs

All theorems hold for any constants that satisfy the modules' named assumptions
(`WorkQueueAssumption`, `ClusterAssumption`, `ControllerAssumption`,
`InformerAssumption`, `ClientsetAssumption`, `FactoryAssumption`: distinct
sentinels, finite sets of workers, templates and objects, positive capacities, and initial servers that
are `Sound`: uids and versions the server has given out, a uid for one template only, a ConfigMap and its owner in
one namespace).

*WorkQueueProofs.* `TypeCorrect`, then `QueueConsistent` and `MutualExclusion`.
None of the invariants is inductive alone. That `Get` hands out an
item nobody holds follows from the queue's head being outside `processing`,
which is `QueueInv`; that `Done` may queue an item follows from its being in
`processing` and so not in the queue, which needs `Exclusive`. The inductive
invariant is the conjunction of the three. The queue being without
repetition is carried through `Append` and `Tail` by two lemmas on injective sequences.
`DelaysHonoured` needs the types only: it is a property of each step of the waiting loop.
`NobodyStranded` is a count: each action moves one worker or one item, so both sides of the inequality change by one.
Its inductive invariant `WakeInv` adds that workers end only after ShutDown, and that those that
sleep or have ended hold nothing: `Done` then comes from a worker that is awake, and becomes free for the item it queues.

*KeyQueueRefinementProofs.* `RefinesKeyQueue`: every step of `WorkQueue` is one step of `KeyQueue` or a stutter,
with `Waiting` counting the requests in the channel and in the heap. `Send` is the
abstract request (a blocked caller does not show), `LoopReceive` keeps the number, merges two requests or, like `LoopExpire`, makes
the item dirty; the slice, the sleeping workers and the clock stutter. The lemmas count the places of an item in the channel when
something is appended or the head is taken.
`Controller` may thus be read with client-go's queue in the place of `KeyQueue`, as far as safety goes.

*ControllerProofs.* `MutualExclusion` from `ExclusionInv`, which adds that a worker
has a key exactly when it is not idle. `TypeCorrect` from `TypeInv`, which adds that a worker
past its lookup holds a template that names a ConfigMap; otherwise the write
would not be well formed. `InformersLoseNothing` (`CacheFollows`) from types and
`UnlistedEmpty` (before the first List cache and deltas are empty); the lemma
`OthersPut` says that whatever others do is one `Put`, so that the three ways
`deltas` change (a change on the server, a List, a delivery) remain.

*ControllerHistoryProofs.* All that a worker holds was on the server once, and reached it through a cache that
goes forward. `LineStep` says this of one object: its line, the cache, the deltas and the server in that order,
is extended at one end by a change, shortened at the other by a delivery, filled by the first List, or begun
anew by a new process. `OrderInv` adds that versions of a template grow along the line
(`LineInv`), and that the version written last for a template, and the one a worker holds of it, are in the past of all that
line (`Reaches`), the first not newer than the second. A template read later is then not
older than what was written. That is why `Exclusive` is needed for `NoStaleWrite`: a second worker could
write between the read and the write of the first. A lagging List is the one step that puts older versions into a line;
the versions a List can give (`past`) are in order as well, and by `StartedInv` workers run only after the List of the
templates: a List therefore comes before anything is written or held, and the theorem needs no bound on the lag. It is a theorem about one process
for that very reason: across a restart a List comes after a write.
Of two templates with one ConfigMap this says nothing; that is `OwnerIsKept`. It holds (`OwnerNeverChanges`) as long as
others leave owners, ConfigMaps and templates in place (`Benign`), from
`OwnerInv`: if a version of a ConfigMap that the cache holds, or that is on its way to it, has an owner that exists,
this is the owner on the server, so the ownership check on the cached one is as good as one on the server;
and a uid stands for one template (`UidInv`). It says the same of the versions a List may give, and of every
call on the wire that its Update can only meet the ConfigMap of its own template.

*ControllerRestProofs.* `NoLostUpdate` (`RestMeansConverged`) follows the news. What a worker has read from the three
caches can only become outdated by a delivery, and a delivery leaves a notification, which leaves a request, which leaves a dirty key.
`RestInv` says, for each template whose news are used up (`Settled`: no request, no notification of it or of a pod
of its namespace), that every worker at it still holds what the caches say (`Carries`), and
if its last sync is over and succeeded, that the server has what the cached template gives on the cached pods (`Good`), or a change of
a ConfigMap of its is on the way to `handleObject` (`OwnNews`). `RestMeansConverged` is what is left when nothing is on its way, as the caches
then are the server (`CacheFollows`). Each action can disturb one of these, and must leave the news behind: a `Deliver` its
notification, `Handle` its request, a worker that starts its own look at the caches, an edit by others the
old owner's name in a delta.

The last is where the code ends, and why the theorem has a hypothesis. `handleObject` finds the template to queue in the owner
reference of the new object. If a ConfigMap loses it, or is taken over by another template, the old owner is not told. `NoTakeover`
excludes both: while a ConfigMap exists the name of its owner stays. Two theorems say when it holds: if nobody removes owner references and no two templates can name the same
ConfigMap (`ApartNoTakeover`, from `NamespaceInv`), or if others leave what the controller made in place (`BenignNoTakeover`), with
`ApartLosesNoUpdate` and `BenignLosesNoUpdate` for what follows. The instance of `controller_rest` is `Apart`, that of `controller_race` is `Benign`.
Without either TLC finds the loss, with two templates of one namespace and `configMapName`: a
worker of `t1` has read its own ConfigMap from the cache; the ConfigMap is deleted; `t2` creates it, successfully; the worker's
Update takes it over, and `t2` rests without a ConfigMap. It is the takeover of `only_own_is_updated` once more, with another template as the
stranger.

*InformerProofs.* Five invariants, each on top of the ones before.
`TypeInv` (`TypeCorrect`, `FifoConsistent`): types and `FifoInv` need each other, since
that `Pop` finds deltas is `FifoInv`. The lemma `QueuedProperties` says what `queueActionLocked` does to
a key's deltas: the end they lead to is the new delta's, unless it is a Sync that is ignored,
and no two deletions follow each other; `EnqueueProperties` lifts it to all the keys of a `Replace`.
`PipeInv` (`InformerFollows`, `NoIdleDeletion`) adds that one change of the server concerns one
object, so that a watch event leaves the others where they were. `SyncedIsHandled` counts: the keys of the
first list that the cache has not seen are among the first `initialPopulationCount` of the queue, which
is why popping them one by one, under the lock, is enough. `ToldInv`
(`HandlerKnows`) adds that the handler stays among the syncing listeners until a second `ListAndWatch`,
because the resync timers of one never overlap.

*ClientStackProofs.* `Safe` (`ClientsAreIsolated`, `RefinesObjectStore`): types, `Isolated`, and
that what is in use has contents (`Live`). Without `Live`, an address that is in use might be given a second
time. Each call has a lemma that it keeps `Safe`, leaves what is shared as it was (`Kept`) and is a
given step of `ObjectStore`, or a stutter of it (the informers' steps). `FactoryInv` (`InformersRunOnce`, `WaitsAreForMine`, `TypeCorrect`): only the holder of the lock is in
the middle of a call, there is one informer, and everybody's is that one. `FollowInv` (`ListersFollow`): an informer
that has not begun to watch has no events.

Every invariant and every action property of the passing runs is proved, and both refinements. Only model-checked: liveness
under fairness (`ShutDownCompletes`, `SendersReleased`, `ImplementsKeyQueueFairness`, `EventuallyConverged`, `EventuallyAtRest`,
`EventuallySettled`, `EventuallyCaughtUp`, `CallsReturn`), which is out of the prover's reach, as is `ENABLED`. That powers of two are
naturals is an assumption of `WorkQueue`, because the provers know no `2^n`.

## 5. Plan

In this order; 1 to 7 exist.

1. `KeyQueue`, `WorkQueue`: everything else stands on the queue.
2. `Cluster`, `Controller`: the controller's own logic.
3. Refinement `WorkQueue` => `KeyQueue`, with its fairness.
4. Proofs of exclusion, types and of the informers' completeness.
5. `Informer`: reflector, DeltaFIFO and handler with broken watches, relists, tombstones
   and deduplication, with proofs of all its safety properties.
6. `ObjectStore`, `FakeClientset`, `ClientStack`: the generated client code, the refinement
   `FakeClientset` => `ObjectStore` and proofs of all its safety properties.
7. Proofs: safety of the refinement of `KeyQueue`; `NoStranded`, `DelayHonoured`; `NoRegress` (caches
   and workers only hold versions the server had, in order); `OwnerIsKept`; `RestMeansConverged`.
8. `Reconciler`: what a user is promised (a ConfigMap follows its template),
   as an abstract specification the controller implements.

## 6. Not modelled

* Events, logging, metrics; BinaryData (the controller never reads it).
* The requests, codecs and scheme of the generated REST clients (stateless); the fake's record of actions and reactors a test may add; label
  selectors and resync periods given to the factory; manifests and scripts.
* Relists below the controller: `Informer` has them, `Cluster` has one list and one watch per process.
  Handlers added to a running informer, `DeltaFIFO.Close` and `AddIfNotPresent`, which this program does not use
  or only at its end. Two processes at a time during a rolling update.
* The numbers of the rate limiters (5 ms, 1000 s, the float arithmetic of `When` and its overflow guard).
* The content of texts, selectors of the `pods` function (they only make the
  set of pods smaller), ConfigMap names the server refuses (like any failing call).
* A text whose function panics (`modulo` by zero): depending on the Go version it is a text
  that fails or a process that dies; both exist in the model, the link does not.
