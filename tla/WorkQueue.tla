------------------------------- MODULE WorkQueue ------------------------------
(***************************************************************************)
(* client-go/util/workqueue as the controller uses it: queue.go (Type),    *)
(* delaying_queue.go (delayingType and its waitingLoop goroutine) and the  *)
(* per-item exponential limiter, driven by the goroutines that call it:    *)
(* producers (the informer callbacks, AddRateLimited), workers (Get,       *)
(* Forget, Done) and the goroutine that calls ShutDown.                    *)
(*                                                                         *)
(* One action per critical section or channel operation.  Time is relative: *)
(* readyAt holds the ticks left, Tick takes one off every running delay,   *)
(* and a delay of 0 is one that has elapsed.                               *)
(***************************************************************************)
EXTENDS Integers, Sequences, FiniteSets, Functions

CONSTANTS
  Items,        \* the keys put on the queue
  Workers,      \* goroutines running processNextWorkItem
  Producers,    \* goroutines calling AddRateLimited
  NoItem,       \* "holds nothing"
  ChanCap,      \* capacity of waitingForAddCh (1000 in the code)
  BaseDelay,    \* the limiter's baseDelay, in ticks
  MaxDelay,     \* the limiter's maxDelay, in ticks
  BucketDelays, \* what the overall token bucket may impose, in ticks
  MaxFailures   \* failures saturate here: past it the delay is MaxDelay

ASSUME WorkQueueAssumption ==
  /\ NoItem \notin Items /\ IsFiniteSet(Workers)
  /\ ChanCap \in Nat \ {0}
  /\ BaseDelay \in Nat /\ MaxDelay \in Nat /\ MaxFailures \in Nat
  /\ BucketDelays \subseteq Nat /\ BucketDelays # {}
  /\ BaseDelay = 0 \/ BaseDelay * 2^MaxFailures >= MaxDelay
  /\ \A n \in 0..MaxFailures : BaseDelay * 2^n \in Nat  \* the provers know no powers

VARIABLES
  queue,        \* Type.queue: the order in which dirty items are handed out
  dirty,        \* Type.dirty
  processing,   \* Type.processing
  shuttingDown, \* Type.shuttingDown
  sleeping,     \* workers blocked in cond.Wait
  holding,      \* what each worker got and has not declared Done
  exited,       \* workers told to end by Get
  failures,     \* ItemExponentialFailureRateLimiter.failures
  sending,      \* producers inside AddAfter's select: a set of requests each
  addCh,        \* waitingForAddCh
  stopped,      \* delayingType.stopCh is closed
  known,        \* keys of waitingEntryByData, i.e. of the heap
  readyAt,      \* ticks left of each known entry
  loop          \* where waitingLoop is

baseVars  == <<queue, dirty, processing, shuttingDown, sleeping>>
delayVars == <<addCh, stopped, known, readyAt, loop>>
vars == <<baseVars, holding, exited, failures, sending, delayVars>>

(* No delay exceeds what the two limiters may impose. *)
Delays == {n \in Nat : n <= MaxDelay \/ \E b \in BucketDelays : n <= b}
Request == [data : Items, readyAt : Delays]
Awake == {w \in Workers : w \notin sleeping /\ w \notin exited /\ holding[w] = NoItem}

TypeOK ==
  /\ queue \in Seq(Items)
  /\ dirty \in SUBSET Items /\ processing \in SUBSET Items
  /\ shuttingDown \in BOOLEAN /\ stopped \in BOOLEAN
  /\ sleeping \in SUBSET Workers /\ exited \in SUBSET Workers
  /\ holding \in [Workers -> Items \cup {NoItem}]
  /\ failures \in [Items -> 0..MaxFailures]
  /\ sending \in [Producers -> SUBSET Request]
  /\ addCh \in Seq(Request)
  /\ known \in SUBSET Items
  /\ readyAt \in [Items -> Delays]
  /\ loop \in {"top", "expire", "select", "drain", "exited"}

Init ==
  /\ queue = <<>> /\ dirty = {} /\ processing = {} /\ shuttingDown = FALSE
  /\ sleeping = {} /\ exited = {}
  /\ holding = [w \in Workers |-> NoItem]
  /\ failures = [i \in Items |-> 0]
  /\ sending = [p \in Producers |-> {}]
  /\ addCh = <<>> /\ stopped = FALSE
  /\ known = {} /\ readyAt = [i \in Items |-> 0]
  /\ loop = "top"

-------------------------------------------------------------------------------
(* queue.go *)

(* cond.Signal wakes one waiter, if there is one. *)
Signal ==
  IF sleeping = {} THEN UNCHANGED sleeping
  ELSE \E w \in sleeping : sleeping' = sleeping \ {w}

(* A bug that queues an item without waking anybody. *)
AddSilently(i) ==
  /\ UNCHANGED <<processing, shuttingDown, sleeping>>
  /\ IF shuttingDown \/ i \in dirty
     THEN UNCHANGED <<queue, dirty>>
     ELSE /\ dirty' = dirty \cup {i}
          /\ IF i \in processing THEN UNCHANGED queue ELSE queue' = Append(queue, i)

(* A bug that queues an item although a worker is processing it. *)
AddUnguarded(i) ==
  /\ UNCHANGED <<processing, shuttingDown>>
  /\ IF shuttingDown \/ i \in dirty
     THEN UNCHANGED <<queue, dirty, sleeping>>
     ELSE dirty' = dirty \cup {i} /\ queue' = Append(queue, i) /\ Signal

(* Add: an item already dirty, or any item once shutting down, is ignored; *)
(* one being processed is only marked, Done will queue it.                 *)
Add(i) ==
  /\ UNCHANGED <<processing, shuttingDown>>
  /\ IF shuttingDown \/ i \in dirty
     THEN UNCHANGED <<queue, dirty, sleeping>>
     ELSE /\ dirty' = dirty \cup {i}
          /\ IF i \in processing
             THEN UNCHANGED <<queue, sleeping>>
             ELSE queue' = Append(queue, i) /\ Signal

(* Get, the three ways through its critical section. *)
GetWait(w) ==
  /\ w \in Awake
  /\ queue = <<>> /\ ~shuttingDown
  /\ sleeping' = sleeping \cup {w}
  /\ UNCHANGED <<queue, dirty, processing, shuttingDown, holding, exited, failures,
                 sending, delayVars>>

GetShutdown(w) ==
  /\ w \in Awake
  /\ queue = <<>> /\ shuttingDown
  /\ exited' = exited \cup {w}
  /\ UNCHANGED <<baseVars, holding, failures, sending, delayVars>>

(* A bug that leaves the item dirty when it is handed out. *)
GetKeepsDirty(w) ==
  /\ w \in Awake
  /\ queue # <<>>
  /\ queue' = Tail(queue)
  /\ processing' = processing \cup {Head(queue)}
  /\ holding' = [holding EXCEPT ![w] = Head(queue)]
  /\ UNCHANGED <<dirty, shuttingDown, sleeping, exited, failures, sending, delayVars>>

GetItem(w) ==
  /\ w \in Awake
  /\ queue # <<>>
  /\ queue' = Tail(queue)
  /\ processing' = processing \cup {Head(queue)}
  /\ dirty' = dirty \ {Head(queue)}
  /\ holding' = [holding EXCEPT ![w] = Head(queue)]
  /\ UNCHANGED <<shuttingDown, sleeping, exited, failures, sending, delayVars>>

(* A bug that drops an item which became dirty while it was processed. *)
FinishForgetful(w, forget) ==
  /\ holding[w] # NoItem
  /\ processing' = processing \ {holding[w]}
  /\ holding' = [holding EXCEPT ![w] = NoItem]
  /\ failures' = IF forget THEN [failures EXCEPT ![holding[w]] = 0] ELSE failures
  /\ UNCHANGED <<queue, dirty, sleeping, shuttingDown, exited, sending, delayVars>>

(* The end of processNextWorkItem: Forget when the sync succeeded, then    *)
(* Done, which queues the item again if it was marked meanwhile.           *)
Finish(w, forget) ==
  /\ holding[w] # NoItem
  /\ processing' = processing \ {holding[w]}
  /\ IF holding[w] \in dirty
     THEN queue' = Append(queue, holding[w]) /\ Signal
     ELSE UNCHANGED <<queue, sleeping>>
  /\ holding' = [holding EXCEPT ![w] = NoItem]
  /\ failures' = IF forget THEN [failures EXCEPT ![holding[w]] = 0] ELSE failures
  /\ UNCHANGED <<dirty, shuttingDown, exited, sending, delayVars>>

-------------------------------------------------------------------------------
(* rate_limitting_queue.go, default_rate_limiters.go *)

Larger(a, b) == IF a > b THEN a ELSE b
Smaller(a, b) == IF a < b THEN a ELSE b

(* A bug that lets the delay grow past maxDelay. *)
BackoffUncapped(i) == BaseDelay * 2^failures[i]

(* ItemExponentialFailureRateLimiter.When: the delay before this failure is *)
(* counted; MaxOfRateLimiter takes the worse of it and the bucket's.       *)
Backoff(i) == Smaller(BaseDelay * 2^failures[i], MaxDelay)
Counted(i) == [failures EXCEPT ![i] = Smaller(@ + 1, MaxFailures)]

(* AddRateLimited up to AddAfter's select: the limiter is asked, a queue   *)
(* that is shutting down ignores the request, a zero delay adds at once,   *)
(* any other becomes a request to send.                                    *)
AddRateLimited(p, i) ==
  \E b \in BucketDelays :
    LET delay == Larger(Backoff(i), b) IN
    /\ sending[p] = {}
    /\ failures' = Counted(i)
    /\ IF shuttingDown \/ delay > 0
       THEN UNCHANGED baseVars
       ELSE Add(i)
    /\ sending' = IF shuttingDown \/ delay = 0 THEN sending
                  ELSE [sending EXCEPT ![p] = {[data |-> i, readyAt |-> delay]}]
    /\ UNCHANGED <<holding, exited, delayVars>>

-------------------------------------------------------------------------------
(* delaying_queue.go *)

(* The two cases of AddAfter's select: the buffered channel has room, or   *)
(* stopCh is closed.                                                       *)
Send(p) ==
  /\ \E r \in sending[p] : addCh' = Append(addCh, r)
  /\ Len(addCh) < ChanCap
  /\ sending' = [sending EXCEPT ![p] = {}]
  /\ UNCHANGED <<baseVars, holding, exited, failures, stopped, known, readyAt, loop>>

(* A bug that leaves a blocked sender blocked when the queue stops. *)
GiveUpNever(p) == FALSE /\ UNCHANGED vars

GiveUp(p) ==
  /\ sending[p] # {}
  /\ stopped
  /\ sending' = [sending EXCEPT ![p] = {}]
  /\ UNCHANGED <<baseVars, holding, exited, failures, delayVars>>

(* A bug that wakes one worker only. *)
ShutDownSignal ==
  /\ ~shuttingDown
  /\ shuttingDown' = TRUE
  /\ Signal
  /\ UNCHANGED <<queue, dirty, processing, holding, exited, failures, sending, delayVars>>

(* delayingType.ShutDown: the inner queue first (Broadcast), then stopCh. *)
ShutDown ==
  /\ ~shuttingDown
  /\ shuttingDown' = TRUE
  /\ sleeping' = {}
  /\ UNCHANGED <<queue, dirty, processing, holding, exited, failures, sending, delayVars>>

CloseStopCh ==
  /\ shuttingDown /\ ~stopped
  /\ stopped' = TRUE
  /\ UNCHANGED <<baseVars, holding, exited, failures, sending, addCh, known, readyAt, loop>>

(* waitingLoop, top of the loop: leave if the queue is shutting down. *)
LoopTop ==
  /\ loop = "top"
  /\ loop' = IF shuttingDown THEN "exited" ELSE "expire"
  /\ UNCHANGED <<baseVars, holding, exited, failures, sending, addCh, stopped, known, readyAt>>

(* "Add ready entries": an entry whose time has come leaves the heap. *)
LoopExpire(i) ==
  /\ loop = "expire"
  /\ i \in known /\ readyAt[i] = 0
  /\ Add(i)
  /\ known' = known \ {i}
  /\ UNCHANGED <<holding, exited, failures, sending, addCh, stopped, readyAt, loop>>

LoopBlock ==
  /\ loop = "expire"
  /\ \A i \in known : readyAt[i] > 0
  /\ loop' = "select"
  /\ UNCHANGED <<baseVars, holding, exited, failures, sending, addCh, stopped, known, readyAt>>

(* The heartbeat, or the timer of the first entry. *)
LoopWake ==
  /\ loop = "select"
  /\ loop' = "top"
  /\ UNCHANGED <<baseVars, holding, exited, failures, sending, addCh, stopped, known, readyAt>>

LoopStop ==
  /\ loop = "select" /\ stopped
  /\ loop' = "exited"
  /\ UNCHANGED <<baseVars, holding, exited, failures, sending, addCh, stopped, known, readyAt>>

(* A bug that replaces a pending entry by the latest request. *)
InsertLatest(r) ==
  /\ known' = known \cup {r.data}
  /\ readyAt' = [readyAt EXCEPT ![r.data] = r.readyAt]

(* insert: a known entry only ever moves to an earlier time. *)
Insert(r) ==
  /\ known' = known \cup {r.data}
  /\ readyAt' = [readyAt EXCEPT ![r.data] =
                   IF r.data \in known THEN Smaller(@, r.readyAt) ELSE r.readyAt]

(* A request is received by the select or by the drain loop after it. *)
LoopReceive ==
  /\ loop \in {"select", "drain"}
  /\ addCh # <<>>
  /\ addCh' = Tail(addCh)
  /\ loop' = "drain"
  /\ IF Head(addCh).readyAt > 0
     THEN Insert(Head(addCh)) /\ UNCHANGED baseVars
     ELSE Add(Head(addCh).data) /\ UNCHANGED <<known, readyAt>>
  /\ UNCHANGED <<holding, exited, failures, sending, stopped>>

LoopDrained ==
  /\ loop = "drain" /\ addCh = <<>>
  /\ loop' = "top"
  /\ UNCHANGED <<baseVars, holding, exited, failures, sending, addCh, stopped, known, readyAt>>

-------------------------------------------------------------------------------
(* The clock. *)
Less(n) == IF n > 0 THEN n - 1 ELSE 0
Earlier(r) == [r EXCEPT !.readyAt = Less(@)]

Tick ==
  /\ readyAt' = [i \in Items |-> Less(readyAt[i])]
  /\ addCh' = [n \in 1..Len(addCh) |-> Earlier(addCh[n])]
  /\ sending' = [p \in Producers |-> {Earlier(r) : r \in sending[p]}]
  /\ UNCHANGED <<baseVars, holding, exited, failures, stopped, known, loop>>

-------------------------------------------------------------------------------
WorkerStep(w) ==
  \/ GetWait(w) \/ GetShutdown(w) \/ GetItem(w)
  \/ \E forget \in BOOLEAN : Finish(w, forget)

ProducerStep(p) ==
  \/ \E i \in Items : AddRateLimited(p, i)
  \/ Send(p) \/ GiveUp(p)

LoopStep ==
  \/ LoopTop \/ LoopBlock \/ LoopWake \/ LoopStop \/ LoopReceive \/ LoopDrained
  \/ \E i \in Items : LoopExpire(i)

Next ==
  \/ \E w \in Workers : WorkerStep(w)
  \/ \E p \in Producers : ProducerStep(p)
  \/ LoopStep
  \/ ShutDown \/ CloseStopCh
  \/ Tick

Spec == Init /\ [][Next]_vars

(* Goroutines keep running, time passes, a sync returns, and Go's select    *)
(* takes a case that is ready again and again.  LoopDrained is fair because *)
(* events come more slowly than the loop receives them: callers fast enough *)
(* to refill the channel for ever would starve the heap, as the drain loop  *)
(* does not look at it.  Nobody has to call AddRateLimited or ShutDown;     *)
(* ShutDown closes stopCh before it returns.                               *)
Fairness ==
  /\ \A w \in Workers : WF_vars(WorkerStep(w))
  /\ \A p \in Producers : WF_vars(Send(p) \/ GiveUp(p))
  /\ WF_vars(LoopStep)
  /\ SF_vars(LoopReceive) /\ SF_vars(LoopDrained) /\ SF_vars(LoopStop)
  /\ WF_vars(CloseStopCh)
  /\ WF_vars(Tick)

FairSpec == Spec /\ Fairness

-------------------------------------------------------------------------------
(* queue.go:48-60.  "Every element of queue should be in the dirty set and  *)
(* not in the processing set", and, as Done re-adds what was marked while   *)
(* it was processed, the queue holds all of those, each once.              *)
QueueInv ==
  /\ Range(queue) = dirty \ processing
  /\ IsInjective(queue)

(* controller.go:84-88.  "We are never processing the same item             *)
(* simultaneously in two different workers", and processing is exactly what *)
(* the workers hold: no item stays locked after its worker moved on.       *)
Exclusive ==
  /\ \A v, w \in Workers : holding[v] = holding[w] /\ holding[v] # NoItem => v = w
  /\ processing = {holding[w] : w \in Workers} \ {NoItem}

(* No lost wakeup, no early exit.  Once a worker sleeps in cond.Wait or has  *)
(* been told to end, the workers that are awake and free suffice for the     *)
(* items queued, although Signal wakes one goroutine only, a woken worker    *)
(* may find its item taken, and Done may queue an item after ShutDown; and   *)
(* none sleeps once the queue is shutting down.                              *)
NoStranded ==
  /\ sleeping \cup exited # {} => Len(queue) <= Cardinality(Awake)
  /\ shuttingDown => sleeping = {}

(* The delay an item was given can only become shorter while it waits in    *)
(* the heap, however many later requests with longer delays come in, and it *)
(* leaves the heap only when the delay has elapsed.                        *)
DelayHonoured ==
  [][\A i \in known : /\ i \in known' => readyAt'[i] <= readyAt[i]
                      /\ i \notin known' => readyAt[i] = 0]_vars

(* WorkQueue implements KeyQueue: the requests in the channel and in the     *)
(* heap are "waiting"; the order of queue, the sleeping workers, the clock   *)
(* and the limiter are details.                                             *)
Waiting(i) ==
  Cardinality({n \in 1..Len(addCh) : addCh[n].data = i}) + (IF i \in known THEN 1 ELSE 0)
KQ == INSTANCE KeyQueue WITH Keys <- Items, MaxWaiting <- ChanCap + 1,
                             waiting <- [i \in Items |-> Waiting(i)]
ImplementsKeyQueue == KQ!Spec

(* and its fairness, which Controller relies on: a delay elapses, an item   *)
(* that can be handed out is handed out.                                   *)
ImplementsKeyQueueFairness == KQ!Fairness

(* After ShutDown every worker ends, the loop ends and no informer callback *)
(* stays blocked on a channel nobody reads any more.                       *)
ShutDownCompletes ==
  shuttingDown ~> (exited = Workers /\ loop = "exited")
SendersReleased ==
  \A p \in Producers : (sending[p] # {}) ~> (sending[p] = {})
===============================================================================
