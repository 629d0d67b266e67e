------------------------------- MODULE Informer -------------------------------
(***************************************************************************)
(* One shared informer of client-go with one event handler, when its watch  *)
(* may break: Reflector, DeltaFIFO, HandleDeltas and the resync goroutines. *)
(* Cluster has the same path for the life of one watch.                     *)
(*                                                                         *)
(*   history --List, WatchEvent--> items, queue --Pop--> cache --> told     *)
(*                                                                         *)
(* An object's version is the length of the server's history when it was    *)
(* written; 0 stands for no object.  f.lock is held from Pop to the last     *)
(* HandleDelta of the key (popped), and everything else that touches the    *)
(* DeltaFIFO waits for it; the deltas being handled may thus stay in items. *)
(***************************************************************************)
EXTENDS Integers, Sequences, FiniteSets

CONSTANTS
  Keys, NoKey,
  MaxChanges,   \* changes on the server
  MaxLists      \* times the reflector lists

ASSUME InformerAssumption ==
  IsFiniteSet(Keys) /\ NoKey \notin Keys /\ MaxChanges \in Nat /\ MaxLists \in Nat \ {0}

VARIABLES
  history,      \* the server's states, oldest first
  position,     \* the reflector's resourceVersion: how far it has come in history
  watching,     \* ListAndWatch is past its List
  lists,        \* Lists so far
  items, queue, populated, initialPopulationCount,  \* DeltaFIFO
  popped,       \* the key Pop is processing, with f.lock held
  cache,        \* the indexer
  syncing,      \* the handler is in syncingListeners
  told,         \* per key, what the handler was last told
  resync,       \* the resync goroutine of this ListAndWatch and a cancelled one
  disturbed,    \* goroutines whose timer was running when the other called ShouldResync
  unhandled,    \* keys of the first List the cache has not seen (for properties)
  doubtful      \* keys a relist met with a pending delta it mishandles (for properties)

reflectorVars == <<position, watching, lists>>
fifoVars == <<items, queue, populated, initialPopulationCount, popped>>
storeVars == <<cache, told>>
resyncVars == <<syncing, resync, disturbed>>
ghostVars == <<unhandled, doubtful>>
vars == <<history, reflectorVars, fifoVars, storeVars, resyncVars, ghostVars>>

Version == 0..(MaxChanges + 1)
Delta == [type : {"Sync", "Added", "Updated", "Deleted", "DeletedFinalStateUnknown"},
          version : Version \ {0}]
Goroutines == {"current", "cancelled"}

TypeOK ==
  /\ history \in Seq([Keys -> Version]) /\ Len(history) \in 1..(MaxChanges + 1)
  /\ position \in 0..Len(history)
  /\ watching \in BOOLEAN /\ lists \in 0..MaxLists
  /\ items \in [Keys -> Seq(Delta)]
  /\ queue \in Seq(Keys)
  /\ populated \in BOOLEAN /\ initialPopulationCount \in Nat
  /\ popped \in Keys \cup {NoKey}
  /\ cache \in [Keys -> Version] /\ told \in [Keys -> Version]
  /\ syncing \in BOOLEAN /\ disturbed \in SUBSET Goroutines
  /\ resync \in [Goroutines -> {"off", "armed", "due"}]
  /\ unhandled \in SUBSET Keys /\ doubtful \in SUBSET Keys

None == [k \in Keys |-> 0]
server == history[Len(history)]

Init ==
  /\ \E s \in [Keys -> {0, 1}] : history = <<s>>
  /\ position = 0 /\ watching = FALSE /\ lists = 0
  /\ items = [k \in Keys |-> <<>>] /\ queue = <<>>
  /\ populated = FALSE /\ initialPopulationCount = 0 /\ popped = NoKey
  /\ cache = None /\ told = None
  /\ syncing = TRUE /\ disturbed = {}
  /\ resync = [g \in Goroutines |-> "off"]
  /\ unhandled = {} /\ doubtful = {}

(* Somebody creates or updates an object, or deletes it. *)
Change(k) ==
  /\ Len(history) <= MaxChanges
  /\ \E v \in {Len(history) + 1, 0} \ {server[k]} :
       history' = Append(history, [server EXCEPT ![k] = v])
  /\ UNCHANGED <<reflectorVars, fifoVars, storeVars, resyncVars, ghostVars>>

-------------------------------------------------------------------------------
(* DeltaFIFO: queueActionLocked, for one key or for several at once.        *)

IsDeletion(d) == d.type \in {"Deleted", "DeletedFinalStateUnknown"}

(* What the cache holds after delta d. *)
Result(d) == IF IsDeletion(d) THEN 0 ELSE d.version

(* willObjectBeDeletedLocked *)
WillBeDeleted(k) == items[k] # <<>> /\ IsDeletion(items[k][Len(items[k])])

(* A bug that keeps both of two deletions in a row. *)
QueuedTwice(k, d) ==
  IF d.type = "Sync" /\ WillBeDeleted(k) THEN items[k] ELSE Append(items[k], d)

(* A Sync of what is about to be deleted is ignored; of two deletions in a  *)
(* row the one that knows the final state is kept.                          *)
Queued(k, d) ==
  CASE WillBeDeleted(k) /\ d.type = "Sync" -> items[k]
    [] WillBeDeleted(k) /\ IsDeletion(d) ->
         IF items[k][Len(items[k])].type = "Deleted" THEN items[k]
         ELSE [items[k] EXCEPT ![Len(items[k])] = d]
    [] OTHER -> Append(items[k], d)

(* The orders a Go map may be ranged over: each key at one place. *)
Orders(S) ==
  {s \in [1..Cardinality(S) -> S] :
     \A k \in S : \E i \in DOMAIN s : \A j \in DOMAIN s : s[j] = k <=> j = i}

(* A bug that queues a key that is queued already. *)
EnqueueAgain(D, delta) ==
  /\ popped = NoKey
  /\ items' = [k \in Keys |-> IF k \in D THEN Queued(k, delta[k]) ELSE items[k]]
  /\ \E s \in Orders(D) : queue' = queue \o s
  /\ UNCHANGED popped

(* The keys in D get a delta each. *)
Enqueue(D, delta) ==
  /\ popped = NoKey
  /\ items' = [k \in Keys |-> IF k \in D THEN Queued(k, delta[k]) ELSE items[k]]
  /\ \E s \in Orders({k \in D : items[k] = <<>>}) : queue' = queue \o s
  /\ UNCHANGED popped

-------------------------------------------------------------------------------
(* Reflector.ListAndWatch *)

(* A bug that compares the list with what is queued instead of what is known. *)
GoneFromQueue(state) == {k \in Keys : state[k] = 0 /\ items[k] # <<>> /\ cache[k] # 0}

(* The objects Replace misses in the list: it asks the indexer, not the queue. *)
Gone(state) == {k \in Keys : state[k] = 0 /\ cache[k] # 0}

(* Replace with a list of what the server held at some time: resource        *)
(* version "0" lets it answer from a cache that lags behind.                *)
List(i) ==
  LET state == history[i]
      found == {k \in Keys : state[k] # 0}
      gone == Gone(state)
  IN
  /\ ~watching /\ lists < MaxLists
  /\ Enqueue(found \cup gone,
             [k \in found \cup gone |->
                IF k \in found THEN [type |-> "Sync", version |-> state[k]]
                ELSE [type |-> "DeletedFinalStateUnknown", version |-> cache[k]]])
  /\ position' = i /\ watching' = TRUE /\ lists' = lists + 1
  /\ populated' = TRUE
  /\ initialPopulationCount' = IF populated THEN initialPopulationCount
                               ELSE Cardinality(found) + Cardinality(gone)
  /\ resync' = [resync EXCEPT !["current"] = "armed"]
  /\ disturbed' = disturbed \ {"current"}
  /\ unhandled' = IF populated THEN unhandled ELSE found
  /\ doubtful' = {k \in found : WillBeDeleted(k)} \cup
                 {k \in Keys \ (found \cup gone) : items[k] # <<>> /\ ~WillBeDeleted(k)}
  /\ UNCHANGED <<history, storeVars, syncing>>

(* watchHandler for the next event.  Delete skips what is neither known nor *)
(* queued.                                                                  *)
WatchEvent(k) ==
  /\ watching /\ position < Len(history)
  /\ LET old == history[position][k]
         new == history[position + 1][k]
     IN
     /\ old # new
     /\ Enqueue(IF new = 0 /\ cache[k] = 0 /\ items[k] = <<>> THEN {} ELSE {k},
                [x \in {k} |->
                   CASE new = 0 -> [type |-> "Deleted", version |-> old]
                     [] old = 0 -> [type |-> "Added", version |-> new]
                     [] OTHER   -> [type |-> "Updated", version |-> new]])
  /\ position' = position + 1
  /\ doubtful' = doubtful \ {k}
  /\ UNCHANGED <<history, watching, lists, populated, initialPopulationCount, storeVars,
                 resyncVars, unhandled>>

(* The watch ends with an error, such as a resource version that is too old, *)
(* and ListAndWatch returns.  (One that just closes is resumed where it was.) *)
(* A resync goroutine whose timer fires now may not see that it is cancelled; *)
(* at most one such goroutine is about.                                      *)
BreakWatch ==
  /\ watching /\ lists < MaxLists
  /\ resync["cancelled"] = "off"
  /\ watching' = FALSE
  /\ \E late \in IF resync["current"] = "due" THEN {"due"} ELSE {"off", "armed"} :
       resync' = [g \in Goroutines |-> IF g = "current" THEN "off" ELSE late]
  /\ disturbed' = IF "current" \in disturbed THEN Goroutines ELSE {}
  /\ UNCHANGED <<history, position, lists, fifoVars, storeVars, syncing, ghostVars>>

(* A goroutine that sees it is cancelled returns, the other starts its timer. *)
Rearmed(g) == IF g = "current" THEN "armed" ELSE "off"

(* The timer of a resync goroutine fires and it calls ShouldResync, which    *)
(* makes syncingListeners anew.  The handler is due, unless another call     *)
(* has come in between and put its next resync off.                         *)
ShouldResync(g) ==
  /\ resync[g] = "armed"
  /\ \E due \in IF g \in disturbed THEN BOOLEAN ELSE {TRUE} :
       /\ syncing' = due
       /\ resync' = [resync EXCEPT ![g] = IF due THEN "due" ELSE Rearmed(g)]
  /\ disturbed' = Goroutines \ {g}
  /\ UNCHANGED <<history, reflectorVars, fifoVars, storeVars, ghostVars>>

(* A bug that lets a resync overtake what is queued. *)
ResyncedAll == {k \in Keys : cache[k] # 0}

(* syncKeyLocked leaves out what has something queued. *)
Resynced == {k \in Keys : cache[k] # 0 /\ items[k] = <<>>}

(* DeltaFIFO.Resync *)
Resync(g) ==
  /\ resync[g] = "due"
  /\ Enqueue(Resynced, [k \in Keys |-> [type |-> "Sync", version |-> cache[k]]])
  /\ resync' = [resync EXCEPT ![g] = Rearmed(g)]
  /\ UNCHANGED <<history, reflectorVars, populated, initialPopulationCount, storeVars,
                 syncing, disturbed, ghostVars>>

-------------------------------------------------------------------------------
(* DeltaFIFO.Pop and sharedIndexInformer.HandleDeltas *)

(* A bug that counts below zero once the first List is handled. *)
PopUnchecked ==
  /\ popped = NoKey /\ queue # <<>>
  /\ popped' = Head(queue)
  /\ queue' = Tail(queue)
  /\ initialPopulationCount' = initialPopulationCount - 1
  /\ UNCHANGED <<history, reflectorVars, items, populated, storeVars, resyncVars, ghostVars>>

Pop ==
  /\ popped = NoKey /\ queue # <<>>
  /\ popped' = Head(queue)
  /\ queue' = Tail(queue)
  /\ initialPopulationCount' =
       IF initialPopulationCount > 0 THEN initialPopulationCount - 1 ELSE 0
  /\ UNCHANGED <<history, reflectorVars, items, populated, storeVars, resyncVars, ghostVars>>

(* A bug that tells only syncing listeners of anything. *)
HandleDeltaSyncing ==
  /\ popped # NoKey
  /\ LET d == Head(items[popped]) IN
       /\ cache' = [cache EXCEPT ![popped] = Result(d)]
       /\ told' = IF syncing THEN [told EXCEPT ![popped] = Result(d)] ELSE told
  /\ items' = [items EXCEPT ![popped] = Tail(@)]
  /\ popped' = IF Len(items[popped]) = 1 THEN NoKey ELSE popped
  /\ unhandled' = unhandled \ {popped}
  /\ UNCHANGED <<history, reflectorVars, queue, populated, initialPopulationCount, resyncVars,
                 doubtful>>

(* The cache first, then the handler; a Sync is for syncing listeners only. *)
HandleDelta ==
  /\ popped # NoKey
  /\ LET d == Head(items[popped]) IN
       /\ cache' = [cache EXCEPT ![popped] = Result(d)]
       /\ told' = IF d.type # "Sync" \/ syncing THEN [told EXCEPT ![popped] = Result(d)] ELSE told
  /\ items' = [items EXCEPT ![popped] = Tail(@)]
  /\ popped' = IF Len(items[popped]) = 1 THEN NoKey ELSE popped
  /\ unhandled' = unhandled \ {popped}
  /\ UNCHANGED <<history, reflectorVars, queue, populated, initialPopulationCount, resyncVars,
                 doubtful>>

-------------------------------------------------------------------------------
Next ==
  \/ \E k \in Keys : Change(k) \/ WatchEvent(k)
  \/ \E i \in 1..Len(history) : List(i)
  \/ BreakWatch
  \/ \E g \in Goroutines : ShouldResync(g) \/ Resync(g)
  \/ Pop \/ HandleDelta

Spec == Init /\ [][Next]_vars

(* The reflector's goroutine and the controller's loop go on, timers fire.   *)
(* Nothing has to change on the server, and no watch has to break.          *)
Fairness ==
  /\ SF_vars(\E i \in 1..Len(history) : List(i)) /\ SF_vars(\E k \in Keys : WatchEvent(k))
  /\ WF_vars(Pop) /\ WF_vars(HandleDelta)
  /\ WF_vars(ShouldResync("current")) /\ SF_vars(Resync("current"))

FairSpec == Spec /\ Fairness

-------------------------------------------------------------------------------
(* delta_fifo.go:101-102.  "items in the set are in the queue and vice       *)
(* versa": what is queued has deltas, and what has deltas is queued once or  *)
(* being processed.                                                         *)
FifoInv ==
  /\ {queue[i] : i \in DOMAIN queue} = {k \in Keys : items[k] # <<>>} \ {popped}
  /\ \A i, j \in DOMAIN queue : queue[i] = queue[j] => i = j
  /\ popped # NoKey => items[popped] # <<>>

(* What the cache will hold for k when it has worked off what is queued. *)
Outcome(k) ==
  IF items[k] = <<>> THEN cache[k] ELSE Result(items[k][Len(items[k])])

(* However often the watch breaks and whatever lists and resyncs come in     *)
(* between, the informer ends at the state of the server it has got to: no   *)
(* change is lost, undone by a resync or invented.  The exceptions are the    *)
(* objects a relist handles wrongly because a delta of before the break is    *)
(* still queued: one deleted, queued and created again meanwhile, whose Sync  *)
(* is ignored, and one queued for creation and deleted meanwhile, which no    *)
(* one finds missing.                                                       *)
PipelineFollows ==
  lists > 0 => \A k \in Keys \ doubtful : Outcome(k) = history[position][k]

(* Handlers are told of a deletion only when the object is in the cache, and  *)
(* once: skipping, tombstones and deduplication leave no deletion queued that *)
(* finds nothing to delete.                                                  *)
DeletionsMatter ==
  \A k \in Keys : \A i \in DOMAIN items[k] :
    IsDeletion(items[k][i]) => IF i = 1 THEN cache[k] # 0 ELSE ~IsDeletion(items[k][i - 1])

(* A bug that looks at the count without f.lock. *)
HasSyncedUnlocked == populated /\ initialPopulationCount = 0

HasSynced == popped = NoKey /\ populated /\ initialPopulationCount = 0

(* HasSynced, which the workers wait for, counts what is popped, not what was *)
(* listed: still nothing of the first List is missing from the cache then.    *)
SyncedMeansHandled == HasSynced => unhandled = {}

(* What HandleDeltas withholds from a handler that is not syncing is never a  *)
(* deletion: no handler goes on believing in an object the cache has lost.    *)
(* And as long as the reflector has not listed again it is nothing at all.    *)
DeletionsAreTold ==
  /\ \A k \in Keys : cache[k] = 0 => told[k] = 0
  /\ lists <= 1 => told = cache

(* In the end the cache is what the server holds, and the periodic resync     *)
(* has told the handler so, also what it was not told during a relist.        *)
EventuallyCaughtUp ==
  <>[](\A k \in Keys \ doubtful : cache[k] = server[k] /\ told[k] = cache[k])
===============================================================================
