---------------------------- MODULE WorkQueueProofs ---------------------------
(***************************************************************************)
(* Proofs about WorkQueue, for any items, workers, producers and delays:    *)
(* its type invariant, the relation between queue, dirty and processing     *)
(* that queue.go states in a comment, and that no two workers hold the same *)
(* item.                                                                   *)
(***************************************************************************)
EXTENDS WorkQueue, SequenceTheorems, FiniteSetTheorems, TLAPS

-------------------------------------------------------------------------------
(* What the operations on the slice do to its elements. *)

LEMMA AppendRange ==
  ASSUME NEW S, NEW s \in Seq(S), NEW e \in S
  PROVE  /\ Append(s, e) \in Seq(S)
         /\ Range(Append(s, e)) = Range(s) \cup {e}
         /\ IsInjective(s) /\ e \notin Range(s) => IsInjective(Append(s, e))
<1> DEFINE t == Append(s, e)
<1>1. /\ t \in Seq(S) /\ Len(t) = Len(s) + 1
      /\ \A n \in 1..Len(s) : t[n] = s[n]
      /\ t[Len(s) + 1] = e
  BY AppendProperties
<1>2. DOMAIN s = 1..Len(s) /\ DOMAIN t = 1..(Len(s) + 1) /\ Len(s) \in Nat
  BY <1>1, LenProperties
<1>3. Range(t) = Range(s) \cup {e}
  BY <1>1, <1>2 DEF Range
<1>4. ASSUME IsInjective(s), e \notin Range(s) PROVE IsInjective(t)
  BY <1>1, <1>2, <1>4 DEF IsInjective, Range
<1> QED BY <1>1, <1>3, <1>4

LEMMA TailRange ==
  ASSUME NEW S, NEW s \in Seq(S), s # <<>>, IsInjective(s)
  PROVE  /\ Head(s) \in S /\ Head(s) \in Range(s)
         /\ Tail(s) \in Seq(S)
         /\ Range(Tail(s)) = Range(s) \ {Head(s)}
         /\ IsInjective(Tail(s))
<1> DEFINE t == Tail(s)
<1>1. /\ t \in Seq(S) /\ Len(t) = Len(s) - 1
      /\ \A n \in 1..Len(t) : t[n] = s[n + 1]
      /\ Head(s) \in S /\ Head(s) = s[1]
  BY HeadTailProperties
<1>2. DOMAIN s = 1..Len(s) /\ DOMAIN t = 1..(Len(s) - 1) /\ Len(s) \in Nat /\ Len(s) > 0
  BY <1>1, LenProperties, EmptySeq
<1>3. \A n \in 2..Len(s) : n - 1 \in 1..Len(t) /\ s[n] = t[n - 1]
  BY <1>1, <1>2
<1>4. Range(t) = Range(s) \ {Head(s)}
  <2>1. Range(t) \subseteq Range(s) \ {Head(s)}
    BY <1>1, <1>2 DEF Range, IsInjective
  <2>2. ASSUME NEW x \in Range(s), x # Head(s) PROVE x \in Range(t)
    <3>1. PICK n \in 1..Len(s) : x = s[n]
      BY <1>2 DEF Range
    <3>2. n \in 2..Len(s)
      BY <1>1, <1>2, <2>2, <3>1
    <3> QED BY <1>1, <1>2, <1>3, <3>1, <3>2 DEF Range
  <2> QED BY <2>1, <2>2
<1>5. IsInjective(t)
  BY <1>1, <1>2 DEF IsInjective
<1>6. Head(s) \in Range(s)
  BY <1>1, <1>2 DEF Range
<1> QED BY <1>1, <1>4, <1>5, <1>6

-------------------------------------------------------------------------------
(* The inductive invariant: an item is handed out to one worker only because *)
(* the queue holds none that is being processed, and the queue holds none    *)
(* because processing is exactly what the workers hold.                     *)
Inv == TypeOK /\ QueueInv /\ Exclusive

USE DEF baseVars, delayVars

LEMMA InitInv == Init => Inv
<1> SUFFICES ASSUME Init PROVE Inv
  OBVIOUS
<1>1. 0 \in Delays
  BY WorkQueueAssumption DEF Delays
<1>2. failures \in [Items -> 0..MaxFailures] /\ readyAt \in [Items -> Delays]
  BY <1>1, WorkQueueAssumption DEF Init
<1>3. queue \in Seq(Items) /\ addCh \in Seq(Request)
  BY EmptySeq DEF Init
<1>4. TypeOK
  BY <1>2, <1>3 DEF Init, TypeOK
<1>5. QueueInv
  BY DEF Init, QueueInv, Range, IsInjective
<1>6. Exclusive
  BY DEF Init, Exclusive
<1> QED BY <1>4, <1>5, <1>6 DEF Inv

(* Add keeps queue, dirty and processing consistent, from whichever goroutine *)
(* it is called.                                                             *)
LEMMA AddPreserves ==
  ASSUME Inv, NEW i \in Items, Add(i)
  PROVE  /\ queue' \in Seq(Items) /\ dirty' \in SUBSET Items /\ sleeping' \in SUBSET Workers
         /\ UNCHANGED <<processing, shuttingDown>>
         /\ QueueInv'
<1> USE DEF Inv, TypeOK, QueueInv
<1>1. UNCHANGED <<processing, shuttingDown>>
  BY DEF Add
<1>2. CASE shuttingDown \/ i \in dirty
  BY <1>1, <1>2 DEF Add
<1>3. CASE ~(shuttingDown \/ i \in dirty) /\ i \in processing
  BY <1>1, <1>3 DEF Add
<1>4. CASE ~(shuttingDown \/ i \in dirty) /\ i \notin processing
  <2>1. /\ dirty' = dirty \cup {i} /\ queue' = Append(queue, i)
        /\ sleeping' \in SUBSET Workers
    BY <1>4 DEF Add, Signal
  <2>2. i \notin Range(queue)
    BY <1>4
  <2>3. /\ queue' \in Seq(Items) /\ IsInjective(queue')
        /\ Range(queue') = Range(queue) \cup {i}
    BY <2>1, <2>2, AppendRange
  <2> QED BY <1>1, <1>4, <2>1, <2>3
<1> QED BY <1>2, <1>3, <1>4

LEMMA GetItemPreserves ==
  ASSUME Inv, NEW w \in Workers, GetItem(w)
  PROVE  Inv'
<1> USE DEF Inv
<1> DEFINE i == Head(queue)
<1>1. /\ i \in Items /\ i \in Range(queue)
      /\ Tail(queue) \in Seq(Items) /\ IsInjective(Tail(queue))
      /\ Range(Tail(queue)) = Range(queue) \ {i}
  BY TailRange DEF TypeOK, QueueInv, GetItem
<1>2. i \notin processing /\ i # NoItem /\ holding[w] = NoItem
  BY <1>1, WorkQueueAssumption DEF QueueInv, GetItem, Awake
<1>3. /\ queue' = Tail(queue) /\ processing' = processing \cup {i}
      /\ dirty' = dirty \ {i} /\ holding' = [holding EXCEPT ![w] = i]
      /\ UNCHANGED <<shuttingDown, sleeping, exited, failures, sending, delayVars>>
  BY DEF GetItem
<1>4. TypeOK'
  BY <1>1, <1>3 DEF TypeOK
<1>5. QueueInv'
  BY <1>1, <1>3 DEF QueueInv
<1>6. \A v \in Workers : holding'[v] = IF v = w THEN i ELSE holding[v]
  BY <1>3 DEF TypeOK
<1>7. \A v \in Workers : holding[v] # i
  BY <1>2 DEF Exclusive
<1>8. processing' = {holding'[v] : v \in Workers} \ {NoItem}
  BY <1>2, <1>3, <1>6 DEF Exclusive
<1>9. Exclusive'
  BY <1>6, <1>7, <1>8 DEF Exclusive
<1> QED BY <1>4, <1>5, <1>9

LEMMA FinishPreserves ==
  ASSUME Inv, NEW w \in Workers, NEW forget \in BOOLEAN, Finish(w, forget)
  PROVE  Inv'
<1> USE DEF Inv
<1> DEFINE i == holding[w]
<1>1. i \in Items /\ i \in processing
  BY DEF Finish, Exclusive, TypeOK
<1>2. /\ processing' = processing \ {i}
      /\ holding' = [holding EXCEPT ![w] = NoItem]
      /\ UNCHANGED <<dirty, shuttingDown, exited, sending, delayVars>>
  BY DEF Finish
<1>3. failures' \in [Items -> 0..MaxFailures]
  BY WorkQueueAssumption DEF Finish, TypeOK
<1>4. queue' \in Seq(Items) /\ sleeping' \in SUBSET Workers /\ QueueInv'
  <2>1. CASE i \in dirty
    <3>1. queue' = Append(queue, i) /\ sleeping' \in SUBSET Workers
      BY <2>1 DEF Finish, Signal, TypeOK
    <3>2. i \notin Range(queue)
      BY <1>1 DEF QueueInv
    <3>3. /\ queue' \in Seq(Items) /\ IsInjective(queue')
          /\ Range(queue') = Range(queue) \cup {i}
      BY <1>1, <3>1, <3>2, AppendRange DEF TypeOK, QueueInv
    <3> QED BY <1>1, <1>2, <2>1, <3>1, <3>3 DEF QueueInv
  <2>2. CASE i \notin dirty
    BY <1>2, <2>2 DEF Finish, QueueInv, TypeOK
  <2> QED BY <2>1, <2>2
<1>5. TypeOK'
  BY <1>1, <1>2, <1>3, <1>4 DEF TypeOK
<1>6. Exclusive'
  <2>1. \A v \in Workers : holding'[v] = IF v = w THEN NoItem ELSE holding[v]
    BY <1>2 DEF TypeOK
  <2>2. \A v \in Workers : v # w => holding[v] # i
    BY <1>1, WorkQueueAssumption DEF Exclusive
  <2> QED BY <1>2, <2>1, <2>2 DEF Exclusive
<1> QED BY <1>4, <1>5, <1>6

LEMMA WorkerPreserves ==
  ASSUME Inv, NEW w \in Workers, WorkerStep(w)
  PROVE  Inv'
<1>1. CASE GetWait(w) \/ GetShutdown(w)
  BY <1>1 DEF Inv, GetWait, GetShutdown, TypeOK, QueueInv, Exclusive
<1> QED BY <1>1, GetItemPreserves, FinishPreserves DEF WorkerStep

(* The limiters impose a delay within their bounds. *)
LEMMA DelayInBounds ==
  ASSUME failures \in [Items -> 0..MaxFailures], NEW i \in Items, NEW b \in BucketDelays
  PROVE  Larger(Backoff(i), b) \in Delays /\ Counted(i) \in [Items -> 0..MaxFailures]
<1>1. failures[i] \in 0..MaxFailures /\ BaseDelay * 2^failures[i] \in Nat
  BY WorkQueueAssumption
<1>2. Backoff(i) \in Nat /\ Backoff(i) <= MaxDelay
  BY <1>1, WorkQueueAssumption DEF Backoff, Smaller
<1>3. b \in Nat
  BY WorkQueueAssumption
<1>4. Larger(Backoff(i), b) \in Delays
  BY <1>2, <1>3, WorkQueueAssumption DEF Larger, Delays
<1>5. Counted(i) \in [Items -> 0..MaxFailures]
  BY <1>1, WorkQueueAssumption DEF Counted, Smaller
<1> QED BY <1>4, <1>5

LEMMA AddRateLimitedPreserves ==
  ASSUME Inv, NEW p \in Producers, NEW i \in Items, AddRateLimited(p, i)
  PROVE  Inv'
<1> USE DEF Inv
<1>1. PICK b \in BucketDelays :
        LET delay == Larger(Backoff(i), b) IN
        /\ failures' = Counted(i)
        /\ IF shuttingDown \/ delay > 0 THEN UNCHANGED baseVars ELSE Add(i)
        /\ sending' = IF shuttingDown \/ delay = 0 THEN sending
                      ELSE [sending EXCEPT ![p] = {[data |-> i, readyAt |-> delay]}]
        /\ UNCHANGED <<holding, exited, delayVars>>
  BY DEF AddRateLimited
<1>2. Larger(Backoff(i), b) \in Delays /\ failures' \in [Items -> 0..MaxFailures]
  BY <1>1, DelayInBounds DEF TypeOK
<1>3. sending' \in [Producers -> SUBSET Request]
  BY <1>1, <1>2 DEF TypeOK, Request
<1>4. /\ queue' \in Seq(Items) /\ dirty' \in SUBSET Items /\ sleeping' \in SUBSET Workers
      /\ UNCHANGED <<processing, shuttingDown>>
      /\ QueueInv'
  <2>1. CASE UNCHANGED baseVars
    BY <2>1 DEF TypeOK, QueueInv
  <2>2. CASE Add(i)
    BY <2>2, AddPreserves
  <2> QED BY <1>1, <2>1, <2>2
<1>5. TypeOK'
  BY <1>1, <1>2, <1>3, <1>4 DEF TypeOK
<1>6. Exclusive'
  BY <1>1, <1>4 DEF Exclusive
<1> QED BY <1>4, <1>5, <1>6

LEMMA ProducerPreserves ==
  ASSUME Inv, NEW p \in Producers, ProducerStep(p)
  PROVE  Inv'
<1> USE DEF Inv
<1>1. CASE Send(p)
  <2>1. PICK r \in sending[p] : addCh' = Append(addCh, r)
    BY <1>1 DEF Send
  <2>2. addCh' \in Seq(Request)
    BY <2>1, AppendProperties DEF TypeOK
  <2>3. sending' \in [Producers -> SUBSET Request]
    BY <1>1 DEF Send, TypeOK
  <2> QED BY <1>1, <2>2, <2>3 DEF Send, TypeOK, QueueInv, Exclusive
<1>2. CASE GiveUp(p)
  <2>1. sending' \in [Producers -> SUBSET Request]
    BY <1>2 DEF GiveUp, TypeOK
  <2> QED BY <1>2, <2>1 DEF GiveUp, TypeOK, QueueInv, Exclusive
<1> QED BY <1>1, <1>2, AddRateLimitedPreserves DEF ProducerStep

LEMMA LoopPreserves ==
  ASSUME Inv, LoopStep
  PROVE  Inv'
<1> USE DEF Inv
<1>1. CASE LoopTop \/ LoopBlock \/ LoopWake \/ LoopStop \/ LoopDrained
  BY <1>1 DEF LoopTop, LoopBlock, LoopWake, LoopStop, LoopDrained, TypeOK, QueueInv, Exclusive
<1>2. ASSUME NEW i \in Items, LoopExpire(i) PROVE Inv'
  <2>1. /\ queue' \in Seq(Items) /\ dirty' \in SUBSET Items /\ sleeping' \in SUBSET Workers
        /\ UNCHANGED <<processing, shuttingDown>>
        /\ QueueInv'
    BY <1>2, AddPreserves DEF LoopExpire
  <2>2. TypeOK' /\ Exclusive'
    BY <1>2, <2>1 DEF LoopExpire, TypeOK, Exclusive
  <2> QED BY <2>1, <2>2
<1>3. CASE LoopReceive
  <2> DEFINE r == Head(addCh)
  <2>1. /\ r \in Request /\ addCh' \in Seq(Request) /\ loop' = "drain"
        /\ UNCHANGED <<holding, exited, failures, sending, stopped>>
    BY <1>3, HeadTailProperties DEF LoopReceive, TypeOK
  <2>2. r.data \in Items /\ r.readyAt \in Delays
    BY <2>1 DEF Request
  <2>3. /\ queue' \in Seq(Items) /\ dirty' \in SUBSET Items /\ sleeping' \in SUBSET Workers
        /\ UNCHANGED <<processing, shuttingDown>>
        /\ QueueInv'
        /\ known' \in SUBSET Items /\ readyAt' \in [Items -> Delays]
    <3>1. CASE r.readyAt > 0
      <4>1. Insert(r) /\ UNCHANGED baseVars
        BY <1>3, <3>1 DEF LoopReceive
      <4>2. known' \in SUBSET Items /\ readyAt' \in [Items -> Delays]
        BY <2>2, <4>1 DEF Insert, Smaller, TypeOK
      <4> QED BY <4>1, <4>2 DEF TypeOK, QueueInv
    <3>2. CASE ~(r.readyAt > 0)
      <4>1. Add(r.data) /\ UNCHANGED <<known, readyAt>>
        BY <1>3, <3>2 DEF LoopReceive
      <4> QED BY <2>2, <4>1, AddPreserves DEF TypeOK
    <3> QED BY <3>1, <3>2
  <2>4. TypeOK' /\ Exclusive'
    BY <2>1, <2>3 DEF TypeOK, Exclusive
  <2> QED BY <2>3, <2>4
<1> QED BY <1>1, <1>2, <1>3 DEF LoopStep

LEMMA TickPreserves ==
  ASSUME Inv, Tick
  PROVE  Inv'
<1> USE DEF Inv
<1>1. \A n \in Delays : Less(n) \in Delays
  BY WorkQueueAssumption DEF Less, Delays
<1>2. \A r \in Request : Earlier(r) \in Request
  BY <1>1 DEF Earlier, Request
<1>3. readyAt' \in [Items -> Delays]
  BY <1>1 DEF Tick, TypeOK
<1>4. addCh' \in Seq(Request)
  <2>1. addCh' = [n \in 1..Len(addCh) |-> Earlier(addCh[n])] /\ Len(addCh) \in Nat
    BY LenProperties DEF Tick, TypeOK
  <2>2. \A n \in 1..Len(addCh) : Earlier(addCh[n]) \in Request
    BY <1>2, ElementOfSeq DEF TypeOK
  <2> QED BY <2>1, <2>2, SeqDef
<1>5. sending' \in [Producers -> SUBSET Request]
  BY <1>2 DEF Tick, TypeOK
<1> QED BY <1>3, <1>4, <1>5 DEF Tick, TypeOK, QueueInv, Exclusive

LEMMA StepInv == Inv /\ [Next]_vars => Inv'
<1> SUFFICES ASSUME Inv, [Next]_vars PROVE Inv'
  OBVIOUS
<1>1. CASE ShutDown \/ CloseStopCh
  <2>1. UNCHANGED <<queue, dirty, processing>>
    BY <1>1 DEF ShutDown, CloseStopCh
  <2>2. TypeOK'
    BY <1>1 DEF ShutDown, CloseStopCh, Inv, TypeOK
  <2> QED BY <1>1, <2>1, <2>2 DEF ShutDown, CloseStopCh, Inv, QueueInv, Exclusive
<1>2. CASE UNCHANGED vars
  BY <1>2 DEF vars, Inv, TypeOK, QueueInv, Exclusive
<1> QED
  BY <1>1, <1>2, WorkerPreserves, ProducerPreserves, LoopPreserves, TickPreserves DEF Next

-------------------------------------------------------------------------------
(* Whatever the items, workers, producers and delays, and whenever the queue  *)
(* is shut down, the invariant holds in every reachable state.               *)
THEOREM Invariance == Spec => []Inv
BY InitInv, StepInv, PTL DEF Spec

(* Every delay stays within what the limiters may impose, and the variables   *)
(* have their types.                                                         *)
THEOREM TypeCorrect == Spec => []TypeOK
<1>1. Inv => TypeOK
  BY DEF Inv
<1> QED BY <1>1, Invariance, PTL

(* queue.go:48-60: the queue holds exactly the items that are dirty and not   *)
(* being processed, each once.                                               *)
THEOREM QueueConsistent == Spec => []QueueInv
<1>1. Inv => QueueInv
  BY DEF Inv
<1> QED BY <1>1, Invariance, PTL

(* controller.go:84-88: no two workers ever hold the same item, and an item   *)
(* is marked as being processed exactly while a worker holds it.             *)
THEOREM MutualExclusion == Spec => []Exclusive
<1>1. Inv => Exclusive
  BY DEF Inv
<1> QED BY <1>1, Invariance, PTL
-------------------------------------------------------------------------------
(* The heap.  Every change of known or readyAt is a Tick, an insert or an      *)
(* entry that is taken out when its time has come.                           *)
DelayStep ==
  \A i \in known : /\ i \in known' => readyAt'[i] <= readyAt[i]
                   /\ i \notin known' => readyAt[i] = 0

LEMMA DelayNext == TypeOK /\ [Next]_vars => DelayStep
<1> SUFFICES ASSUME TypeOK, [Next]_vars PROVE DelayStep
  OBVIOUS
<1> USE DEF DelayStep
<1>1. \A i \in Items : readyAt[i] \in Nat
  BY DEF TypeOK, Delays
<1>2. CASE UNCHANGED <<known, readyAt>>
  BY <1>1, <1>2 DEF TypeOK
<1>3. CASE Tick
  BY <1>1, <1>3 DEF Tick, Less, TypeOK
<1>4. ASSUME NEW i \in Items, LoopExpire(i) PROVE DelayStep
  BY <1>1, <1>4 DEF LoopExpire, TypeOK
<1>5. CASE LoopReceive
  <2>1. Head(addCh).data \in Items /\ Head(addCh).readyAt \in Nat
    <3>1. Head(addCh) \in Request
      BY <1>5, HeadTailProperties DEF LoopReceive, TypeOK
    <3> QED BY <3>1 DEF Request, Delays
  <2>2. CASE Insert(Head(addCh))
    <3>1. \A i \in known : i \in known' /\ readyAt'[i] <= readyAt[i]
      BY <1>1, <2>1, <2>2 DEF Insert, Smaller, TypeOK
    <3> QED BY <3>1
  <2> QED BY <1>2, <1>5, <2>2 DEF LoopReceive
<1>6. ASSUME NEW w \in Workers, WorkerStep(w) PROVE DelayStep
  BY <1>2, <1>6 DEF WorkerStep, GetWait, GetShutdown, GetItem, Finish
<1>7. ASSUME NEW p \in Producers, ProducerStep(p) PROVE DelayStep
  BY <1>2, <1>7 DEF ProducerStep, AddRateLimited, Send, GiveUp
<1>8. CASE LoopTop \/ LoopBlock \/ LoopWake \/ LoopStop \/ LoopDrained \/ ShutDown \/ CloseStopCh
  BY <1>2, <1>8 DEF LoopTop, LoopBlock, LoopWake, LoopStop, LoopDrained, ShutDown, CloseStopCh
<1>9. CASE UNCHANGED vars
  BY <1>2, <1>9 DEF vars
<1> QED
  BY <1>3, <1>4, <1>5, <1>6, <1>7, <1>8, <1>9 DEF Next, LoopStep

(* delaying_queue.go:221-240: whatever requests follow, the delay of an entry *)
(* of the heap never grows, and an entry leaves only when it has elapsed.    *)
THEOREM DelaysHonoured == Spec => DelayHonoured
<1>1. Spec => []TypeOK
  BY TypeCorrect
<1>2. TypeOK /\ [Next]_vars
      => [\A i \in known : /\ i \in known' => readyAt'[i] <= readyAt[i]
                           /\ i \notin known' => readyAt[i] = 0]_vars
  BY DelayNext DEF DelayStep
<1> QED BY <1>1, <1>2, PTL DEF Spec, DelayHonoured

-------------------------------------------------------------------------------
(* Wakeups.  NoStranded is kept because every item that is queued comes with  *)
(* a worker that becomes free or awake, and every worker that stops looking   *)
(* has seen an empty queue.  Nobody is told to end before the shutdown, which *)
(* is why an item that Add queues finds a sleeper to wake or nobody stranded. *)
WakeInv ==
  /\ NoStranded
  /\ exited # {} => shuttingDown
  /\ sleeping \cap exited = {}
  /\ \A w \in sleeping \cup exited : holding[w] = NoItem

LEMMA AwakeCount ==
  ASSUME NEW A \in SUBSET Workers, NEW B \in SUBSET Workers
  PROVE  /\ Cardinality(A) \in Nat /\ Cardinality(B) \in Nat
         /\ A \subseteq B => Cardinality(A) <= Cardinality(B)
         /\ \A w \in B : A = B \ {w} => Cardinality(B) = Cardinality(A) + 1
<1>1. IsFiniteSet(A) /\ IsFiniteSet(B)
  BY WorkQueueAssumption, FS_Subset
<1>2. Cardinality(A) \in Nat /\ Cardinality(B) \in Nat
  BY <1>1, FS_CardinalityType
<1>3. A \subseteq B => Cardinality(A) <= Cardinality(B)
  BY <1>1, FS_Subset
<1>4. ASSUME NEW w \in B, A = B \ {w} PROVE Cardinality(B) = Cardinality(A) + 1
  <2>1. Cardinality(A) = Cardinality(B) - 1
    BY <1>1, <1>4, FS_RemoveElement
  <2> QED BY <1>2, <2>1
<1> QED BY <1>2, <1>3, <1>4

(* One more worker is awake. *)
LEMMA OneMoreAwake ==
  ASSUME NEW A \in SUBSET Workers, NEW B \in SUBSET Workers, NEW w \in B,
         w \notin A, A \subseteq B
  PROVE  Cardinality(A) + 1 <= Cardinality(B)
<1>1. A \subseteq B \ {w} /\ B \ {w} \in SUBSET Workers
  OBVIOUS
<1>2. Cardinality(A) <= Cardinality(B \ {w}) /\ Cardinality(A) \in Nat
  BY <1>1, AwakeCount
<1>3. Cardinality(B) = Cardinality(B \ {w}) + 1 /\ Cardinality(B \ {w}) \in Nat
  BY <1>1, AwakeCount
<1> QED BY <1>2, <1>3
(* Waking a sleeper makes one more worker awake; with no sleepers nothing     *)
(* changes.                                                                 *)
LEMMA SignalWakes ==
  ASSUME TypeOK, WakeInv, Signal, UNCHANGED <<holding, exited>>
  PROVE  /\ sleeping' \subseteq sleeping /\ Awake \in SUBSET Workers /\ Awake' \in SUBSET Workers
         /\ Awake \subseteq Awake'
         /\ sleeping # {} => Cardinality(Awake) + 1 <= Cardinality(Awake')
<1> USE DEF TypeOK, WakeInv, Awake
<1>1. /\ sleeping' \subseteq sleeping /\ Awake \in SUBSET Workers /\ Awake' \in SUBSET Workers
      /\ Awake \subseteq Awake'
  BY DEF Signal
<1>2. ASSUME sleeping # {} PROVE Cardinality(Awake) + 1 <= Cardinality(Awake')
  <2>1. PICK w \in sleeping : sleeping' = sleeping \ {w}
    BY <1>2 DEF Signal
  <2>2. w \in Awake' /\ w \notin Awake
    BY <2>1
  <2> HIDE DEF Awake
  <2> QED BY <1>1, <2>2, OneMoreAwake
<1> QED BY <1>1, <1>2

(* Add queues one item more only while the queue is open, and wakes a sleeper *)
(* if there is one; if there is none, nobody is stranded.                    *)
LEMMA AddWakes ==
  ASSUME TypeOK, WakeInv, NEW i \in Items, Add(i), UNCHANGED <<holding, exited>>
  PROVE  WakeInv'
<1> USE DEF TypeOK, WakeInv, NoStranded
<1>1. shuttingDown' = shuttingDown
  BY DEF Add
<1>2. CASE UNCHANGED <<queue, sleeping>>
  <2>1. Awake' = Awake
    BY <1>2 DEF Awake
  <2> QED BY <1>1, <1>2, <2>1
<1>3. CASE shuttingDown \/ i \in dirty \/ i \in processing
  BY <1>2, <1>3 DEF Add
<1>4. CASE ~(shuttingDown \/ i \in dirty) /\ i \notin processing
  <2>1. queue' = Append(queue, i) /\ Signal /\ exited = {}
    BY <1>4 DEF Add
  <2>2. Len(queue') = Len(queue) + 1 /\ Len(queue) \in Nat
    BY <2>1, AppendProperties
  <2>3. /\ sleeping' \subseteq sleeping
        /\ Awake \in SUBSET Workers /\ Awake' \in SUBSET Workers
        /\ sleeping # {} => Cardinality(Awake) + 1 <= Cardinality(Awake')
    BY <2>1, SignalWakes
  <2>4. Cardinality(Awake) \in Nat /\ Cardinality(Awake') \in Nat
    BY <2>3, AwakeCount
  <2>5. sleeping' # {} => Len(queue') <= Cardinality(Awake')
    BY <2>2, <2>3, <2>4
  <2> QED BY <1>1, <2>1, <2>3, <2>5
<1> QED BY <1>2, <1>3, <1>4

(* An item that is handed out takes one worker with it. *)
LEMMA GetItemWakes ==
  ASSUME Inv, WakeInv, NEW w \in Workers, GetItem(w)
  PROVE  WakeInv'
<1> USE DEF TypeOK, WakeInv, NoStranded
<1>1. /\ w \in Awake /\ queue # <<>> /\ queue' = Tail(queue)
      /\ holding' = [holding EXCEPT ![w] = Head(queue)]
      /\ UNCHANGED <<shuttingDown, sleeping, exited>>
  BY DEF GetItem
<1>2. Len(queue') = Len(queue) - 1 /\ Len(queue) \in Nat /\ Head(queue) \in Items
  BY <1>1, HeadTailProperties DEF Inv
<1>3. w \notin sleeping /\ w \notin exited
  BY <1>1 DEF Awake
<1>4. Awake' = Awake \ {w} /\ Awake \in SUBSET Workers /\ Awake' \in SUBSET Workers
  BY <1>1, <1>2, WorkQueueAssumption DEF Awake, Inv
<1>5. Cardinality(Awake) = Cardinality(Awake') + 1 /\ Cardinality(Awake') \in Nat
  BY <1>1, <1>4, AwakeCount
<1>6. NoStranded'
  BY <1>1, <1>2, <1>5
<1>7. \A v \in sleeping' \cup exited' : holding'[v] = NoItem
  BY <1>1, <1>3 DEF Inv
<1> QED BY <1>1, <1>6, <1>7

(* The worker that is done with an item is free for the one it queues again.  *)
LEMMA FinishWakes ==
  ASSUME Inv, WakeInv, NEW w \in Workers, NEW forget \in BOOLEAN, Finish(w, forget)
  PROVE  WakeInv'
<1> USE DEF TypeOK, WakeInv, NoStranded
<1>1. /\ holding[w] # NoItem /\ holding' = [holding EXCEPT ![w] = NoItem]
      /\ UNCHANGED <<shuttingDown, exited>>
      /\ \/ queue' = Append(queue, holding[w]) /\ Signal
         \/ UNCHANGED <<queue, sleeping>>
  BY DEF Finish
<1>2. sleeping' \subseteq sleeping /\ holding[w] \in Items
  BY <1>1 DEF Signal, Inv
<1>3. Len(queue') <= Len(queue) + 1 /\ Len(queue) \in Nat /\ Len(queue') \in Nat
  BY <1>1, <1>2, AppendProperties DEF Inv
<1>4. w \in Awake' /\ w \notin Awake /\ Awake \subseteq Awake'
      /\ Awake \in SUBSET Workers /\ Awake' \in SUBSET Workers
  BY <1>1, <1>2 DEF Awake, Inv
<1>5. Cardinality(Awake) + 1 <= Cardinality(Awake')
  BY <1>4, OneMoreAwake
<1>6. Cardinality(Awake) \in Nat /\ Cardinality(Awake') \in Nat
  BY <1>4, AwakeCount
<1>7. NoStranded'
  BY <1>1, <1>2, <1>3, <1>5, <1>6
<1>8. \A v \in sleeping' \cup exited' : holding'[v] = NoItem
  BY <1>1, <1>2 DEF Inv
<1> QED BY <1>1, <1>2, <1>7, <1>8

LEMMA WakeInit == Init => WakeInv
BY DEF Init, WakeInv, NoStranded

(* A worker goes to sleep, or ends, with nothing in the queue. *)
LEMMA LeavingWakes ==
  ASSUME Inv, WakeInv, NEW w \in Workers, GetWait(w) \/ GetShutdown(w)
  PROVE  WakeInv'
<1>1. /\ w \in Awake /\ queue' = <<>> /\ UNCHANGED <<holding, shuttingDown>>
      /\ \/ ~shuttingDown /\ sleeping' = sleeping \cup {w} /\ exited' = exited
         \/ shuttingDown /\ exited' = exited \cup {w} /\ sleeping' = sleeping
  BY DEF GetWait, GetShutdown
<1>2. Awake' \in SUBSET Workers
  BY DEF Awake
<1>3. Len(queue') <= Cardinality(Awake')
  <2>1. Cardinality(Awake') \in Nat
    BY <1>2, AwakeCount
  <2>2. Len(queue') = 0
    BY <1>1
  <2> QED BY <2>1, <2>2
<1>4. holding[w] = NoItem /\ w \notin sleeping /\ w \notin exited
  BY <1>1 DEF Awake
<1> QED BY <1>1, <1>3, <1>4 DEF WakeInv, NoStranded

LEMMA WakeNext == Inv /\ WakeInv /\ [Next]_vars => WakeInv'
<1> SUFFICES ASSUME Inv, WakeInv, [Next]_vars PROVE WakeInv'
  OBVIOUS
<1>1. CASE UNCHANGED <<queue, shuttingDown, sleeping, holding, exited>>
  <2>1. Awake' = Awake
    BY <1>1 DEF Awake
  <2> QED BY <1>1, <2>1 DEF WakeInv, NoStranded
<1>2. ASSUME NEW w \in Workers, WorkerStep(w) PROVE WakeInv'
  BY <1>2, LeavingWakes, GetItemWakes, FinishWakes DEF WorkerStep
<1>3. ASSUME NEW p \in Producers, ProducerStep(p) PROVE WakeInv'
  <2>1. CASE Send(p) \/ GiveUp(p)
    BY <1>1, <2>1 DEF Send, GiveUp
  <2>2. ASSUME NEW i \in Items, AddRateLimited(p, i) PROVE WakeInv'
    <3>1. (UNCHANGED baseVars \/ Add(i)) /\ UNCHANGED <<holding, exited>>
      BY <2>2 DEF AddRateLimited
    <3> QED BY <1>1, <3>1, AddWakes DEF Inv
  <2> QED BY <1>3, <2>1, <2>2 DEF ProducerStep
<1>4. ASSUME NEW i \in Items, LoopExpire(i) PROVE WakeInv'
  BY <1>4, AddWakes DEF LoopExpire, Inv
<1>5. CASE LoopReceive
  <2>1. Head(addCh).data \in Items
    <3>1. Head(addCh) \in Request
      BY <1>5, HeadTailProperties DEF LoopReceive, Inv, TypeOK
    <3> QED BY <3>1 DEF Request
  <2>2. (UNCHANGED baseVars \/ Add(Head(addCh).data)) /\ UNCHANGED <<holding, exited>>
    BY <1>5 DEF LoopReceive
  <2> QED BY <1>1, <2>1, <2>2, AddWakes DEF Inv
<1>6. CASE LoopTop \/ LoopBlock \/ LoopWake \/ LoopStop \/ LoopDrained \/ CloseStopCh \/ Tick
  BY <1>1, <1>6 DEF LoopTop, LoopBlock, LoopWake, LoopStop, LoopDrained, CloseStopCh, Tick
<1>7. CASE ShutDown
  <2>1. /\ shuttingDown' = TRUE /\ sleeping' = {} /\ ~shuttingDown
        /\ UNCHANGED <<queue, holding, exited>>
    BY <1>7 DEF ShutDown
  <2> QED BY <2>1 DEF WakeInv, NoStranded
<1>8. CASE UNCHANGED vars
  BY <1>1, <1>8 DEF vars
<1> QED
  BY <1>2, <1>3, <1>4, <1>5, <1>6, <1>7, <1>8 DEF Next, LoopStep

(* queue.go:96-184 with sync.Cond: whatever the number of workers and items,  *)
(* the workers awake suffice for what is queued once one sleeps or has ended. *)
THEOREM NobodyStranded == Spec => []NoStranded
<1>1. Init => Inv /\ WakeInv
  BY InitInv, WakeInit
<1>2. Inv /\ WakeInv /\ [Next]_vars => (Inv /\ WakeInv)'
  BY StepInv, WakeNext
<1>3. WakeInv => NoStranded
  BY DEF WakeInv
<1> QED BY <1>1, <1>2, <1>3, PTL DEF Spec
===============================================================================
