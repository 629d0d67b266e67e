----------------------- MODULE KeyQueueRefinementProofs -----------------------
(***************************************************************************)
(* Proof that WorkQueue implements KeyQueue, for any items, workers,        *)
(* producers, delays and capacity of the channel: every step of the queue   *)
(* in detail is a step of the abstract one, or changes nothing it shows.    *)
(***************************************************************************)
EXTENDS WorkQueueProofs

USE DEF baseVars, delayVars

-------------------------------------------------------------------------------
(* How many requests for an item the channel holds. *)
At(s, i) == {n \in 1..Len(s) : s[n].data = i}

LEMMA PlacesFinite ==
  ASSUME NEW n \in Nat
  PROVE  IsFiniteSet(1..n) /\ Cardinality(1..n) = n
<1>1. 1 \in Int /\ n \in Int
  OBVIOUS
<1>2. IsFiniteSet(1..n) /\ Cardinality(1..n) = IF 1 > n THEN 0 ELSE n - 1 + 1
  BY ONLY <1>1, FS_Interval, Zenon
<1>3. (IF 1 > n THEN 0 ELSE n - 1 + 1) = n
  OBVIOUS
<1> QED BY <1>2, <1>3

LEMMA AtFinite ==
  ASSUME NEW s \in Seq(Request), NEW i \in Items
  PROVE  /\ IsFiniteSet(At(s, i))
         /\ Cardinality(At(s, i)) \in Nat /\ Cardinality(At(s, i)) <= Len(s)
<1>1. Len(s) \in Nat
  BY LenProperties
<1>2. IsFiniteSet(1..Len(s)) /\ Cardinality(1..Len(s)) = Len(s)
  BY <1>1, PlacesFinite
<1>3. At(s, i) \in SUBSET (1..Len(s))
  BY DEF At
<1>4. IsFiniteSet(At(s, i)) /\ Cardinality(At(s, i)) <= Len(s)
  BY <1>2, <1>3, FS_Subset
<1>5. Cardinality(At(s, i)) \in Nat
  BY <1>4, FS_CardinalityType
<1> QED BY <1>1, <1>4, <1>5

LEMMA AtAppend ==
  ASSUME NEW s \in Seq(Request), NEW r \in Request, NEW i \in Items
  PROVE  Cardinality(At(Append(s, r), i))
           = Cardinality(At(s, i)) + (IF r.data = i THEN 1 ELSE 0)
<1> DEFINE t == Append(s, r)
<1>1. /\ Len(t) = Len(s) + 1 /\ Len(s) \in Nat
      /\ \A n \in 1..Len(s) : t[n] = s[n]
      /\ t[Len(s) + 1] = r
  BY AppendProperties, LenProperties
<1>2. IsFiniteSet(At(s, i)) /\ Len(s) + 1 \notin At(s, i) /\ Cardinality(At(s, i)) \in Nat
  BY <1>1, AtFinite DEF At
<1>3. CASE r.data = i
  <2>1. At(t, i) = At(s, i) \cup {Len(s) + 1}
    BY <1>1, <1>3 DEF At
  <2>2. Cardinality(At(t, i)) = Cardinality(At(s, i)) + 1
    BY <1>2, <2>1, FS_AddElement
  <2> QED BY <1>3, <2>2
<1>4. CASE r.data # i
  <2>1. At(t, i) = At(s, i)
    BY <1>1, <1>4 DEF At
  <2> QED BY <1>2, <1>4, <2>1
<1> QED BY <1>3, <1>4

(* What is left after the head lies one place further on in the whole. *)
LEMMA AtTail ==
  ASSUME NEW s \in Seq(Request), s # <<>>, NEW i \in Items
  PROVE  Cardinality(At(s, i))
           = Cardinality(At(Tail(s), i)) + (IF Head(s).data = i THEN 1 ELSE 0)
<1> DEFINE t == Tail(s)
           f == [n \in At(t, i) |-> n + 1]
<1>1. /\ t \in Seq(Request) /\ Len(t) = Len(s) - 1 /\ Head(s) = s[1]
      /\ Len(s) \in Nat /\ Len(s) > 0
      /\ \A n \in 1..Len(t) : t[n] = s[n + 1]
  BY HeadTailProperties, LenProperties, EmptySeq
<1>2. f \in Bijection(At(t, i), At(s, i) \ {1})
  <2>1. \A n \in At(t, i) : n + 1 \in At(s, i) \ {1}
    BY <1>1 DEF At
  <2>2. IsInjective(f)
    BY DEF IsInjective, At
  <2>3. \A m \in At(s, i) \ {1} : m - 1 \in At(t, i) /\ f[m - 1] = m
    <3> TAKE m \in At(s, i) \ {1}
    <3>1. m \in 2..Len(s) /\ s[m].data = i
      BY <1>1 DEF At
    <3>2. m - 1 \in 1..Len(t) /\ t[m - 1] = s[m] /\ (m - 1) + 1 = m
      BY <1>1, <3>1
    <3> QED BY <3>1, <3>2 DEF At
  <2>4. f \in [At(t, i) -> At(s, i) \ {1}]
    BY <2>1
  <2> QED BY <2>2, <2>3, <2>4 DEF Bijection, Injection, Surjection
<1>3. Cardinality(At(s, i) \ {1}) = Cardinality(At(t, i))
  <2>1. IsFiniteSet(At(t, i)) /\ ExistsBijection(At(t, i), At(s, i) \ {1})
    BY <1>1, <1>2, AtFinite DEF ExistsBijection
  <2> QED BY <2>1, FS_Bijection
<1>4. Cardinality(At(s, i) \ {1})
        = IF 1 \in At(s, i) THEN Cardinality(At(s, i)) - 1 ELSE Cardinality(At(s, i))
  BY AtFinite, FS_RemoveElement
<1>5. 1 \in At(s, i) <=> Head(s).data = i
  BY <1>1 DEF At
<1>6. Cardinality(At(s, i)) \in Nat /\ Cardinality(At(t, i)) \in Nat
  BY <1>1, AtFinite
<1> QED BY <1>3, <1>4, <1>5, <1>6

LEMMA WaitingIs ==
  ASSUME TypeOK, NEW i \in Items
  PROVE  /\ Waiting(i) = Cardinality(At(addCh, i)) + (IF i \in known THEN 1 ELSE 0)
         /\ Waiting(i) \in Nat
<1>1. Cardinality(At(addCh, i)) \in Nat
  BY AtFinite DEF TypeOK
<1>2. Waiting(i) = Cardinality(At(addCh, i)) + (IF i \in known THEN 1 ELSE 0)
  BY DEF Waiting, At
<1> QED BY <1>1, <1>2

-------------------------------------------------------------------------------
(* The steps that the abstract queue does not show. *)
Hidden == UNCHANGED <<[i \in Items |-> Waiting(i)], dirty, processing, shuttingDown>>
Step == KQ!Next \/ Hidden

LEMMA SameWaiting ==
  ASSUME UNCHANGED <<addCh, known>>
  PROVE  [i \in Items |-> Waiting(i)]' = [i \in Items |-> Waiting(i)]
BY DEF Waiting

(* Add, called from wherever, is the abstract Add.  *)
LEMMA AddIs ==
  ASSUME NEW i \in Items, Add(i), UNCHANGED <<addCh, known>>
  PROVE  Step
<1>1. dirty' = KQ!Added(i) /\ UNCHANGED <<processing, shuttingDown>>
  BY DEF Add, KQ!Added
<1>2. KQ!Add(i)
  BY <1>1, SameWaiting DEF KQ!Add
<1> QED BY <1>2 DEF Step, KQ!Next

LEMMA WorkerIs ==
  ASSUME Inv, NEW w \in Workers, WorkerStep(w)
  PROVE  Step
<1>1. CASE GetWait(w) \/ GetShutdown(w)
  BY <1>1, SameWaiting DEF GetWait, GetShutdown, Step, Hidden
<1>2. CASE GetItem(w)
  <2>1. Head(queue) \in Items /\ Head(queue) \in Range(queue)
    BY <1>2, TailRange DEF GetItem, Inv, TypeOK, QueueInv
  <2>2. /\ dirty' = dirty \ {Head(queue)} /\ processing' = processing \cup {Head(queue)}
        /\ UNCHANGED <<shuttingDown, addCh, known>>
    BY <1>2 DEF GetItem
  <2>3. KQ!Get(Head(queue))
    BY <2>1, <2>2, SameWaiting DEF KQ!Get, Inv, QueueInv
  <2> QED BY <2>1, <2>3 DEF Step, KQ!Next
<1>3. ASSUME NEW forget \in BOOLEAN, Finish(w, forget) PROVE Step
  <2>1. holding[w] \in Items /\ holding[w] \in processing
    BY <1>3 DEF Finish, Inv, TypeOK, Exclusive
  <2>2. processing' = processing \ {holding[w]} /\ UNCHANGED <<dirty, shuttingDown, addCh, known>>
    BY <1>3 DEF Finish
  <2>3. KQ!Done(holding[w])
    BY <2>1, <2>2, SameWaiting DEF KQ!Done
  <2> QED BY <2>1, <2>3 DEF Step, KQ!Next
<1> QED BY <1>1, <1>2, <1>3 DEF WorkerStep

(* A request is shown when it is in the channel: the channel had room, so the *)
(* item has at most ChanCap requests in it and one entry in the heap.        *)
LEMMA SendIs ==
  ASSUME Inv, Inv', NEW p \in Producers, Send(p)
  PROVE  Step
<1>1. PICK r \in sending[p] : addCh' = Append(addCh, r)
  BY DEF Send
<1>2. /\ r \in Request /\ r.data \in Items /\ addCh \in Seq(Request)
      /\ Len(addCh) < ChanCap /\ UNCHANGED <<known, dirty, processing, shuttingDown>>
  BY DEF Send, Inv, TypeOK, Request
<1>3. \A i \in Items : Waiting(i)' = IF i = r.data THEN Waiting(i) + 1 ELSE Waiting(i)
  <2> TAKE i \in Items
  <2>1. Cardinality(At(addCh', i)) = Cardinality(At(addCh, i)) + (IF r.data = i THEN 1 ELSE 0)
    BY <1>1, <1>2, AtAppend
  <2>2. Waiting(i)' = Cardinality(At(addCh', i)) + (IF i \in known' THEN 1 ELSE 0)
    BY DEF Waiting, At
  <2>3. Waiting(i) = Cardinality(At(addCh, i)) + (IF i \in known THEN 1 ELSE 0)
    BY DEF Waiting, At
  <2>4. Cardinality(At(addCh, i)) \in Nat
    BY <1>2, AtFinite
  <2> QED BY <1>2, <2>1, <2>2, <2>3, <2>4
<1>4. Waiting(r.data) < ChanCap + 1
  <2>1. /\ Cardinality(At(addCh, r.data)) \in Nat /\ Len(addCh) \in Nat
        /\ Cardinality(At(addCh, r.data)) <= Len(addCh)
    BY <1>2, AtFinite, LenProperties
  <2>2. Waiting(r.data) \in Nat /\ Waiting(r.data) <= Cardinality(At(addCh, r.data)) + 1
    BY <1>2, <2>1, WaitingIs DEF Inv
  <2>3. ChanCap \in Nat
    BY WorkQueueAssumption
  <2> QED BY <1>2, <2>1, <2>2, <2>3
<1>5. KQ!AddRateLimited({r.data})
  <2>1. KQ!Requested({r.data})
    BY <1>3 DEF KQ!Requested
  <2> QED BY <1>2, <1>4, <2>1 DEF KQ!AddRateLimited
<1> QED BY <1>2, <1>5 DEF Step, KQ!Next

LEMMA ProducerIs ==
  ASSUME Inv, Inv', NEW p \in Producers, ProducerStep(p)
  PROVE  Step
<1>1. CASE GiveUp(p)
  BY <1>1, SameWaiting DEF GiveUp, Step, Hidden
<1>2. ASSUME NEW i \in Items, AddRateLimited(p, i) PROVE Step
  <2>1. (UNCHANGED baseVars \/ Add(i)) /\ UNCHANGED <<addCh, known>>
    BY <1>2 DEF AddRateLimited
  <2>2. CASE UNCHANGED baseVars
    BY <2>1, <2>2, SameWaiting DEF Step, Hidden
  <2> QED BY <2>1, <2>2, AddIs
<1> QED BY <1>1, <1>2, SendIs DEF ProducerStep

-------------------------------------------------------------------------------
(* A request leaves the channel: for the heap, where it becomes the item's    *)
(* entry or meets the one that is there, or, its time having come, for the    *)
(* queue.                                                                   *)
LEMMA ReceiveIs ==
  ASSUME Inv, Inv', LoopReceive
  PROVE  Step
<1> DEFINE r == Head(addCh)
<1>1. /\ addCh \in Seq(Request) /\ addCh # <<>> /\ addCh' = Tail(addCh)
      /\ r \in Request /\ r.data \in Items
  <2>1. addCh \in Seq(Request) /\ addCh # <<>> /\ addCh' = Tail(addCh)
    BY DEF LoopReceive, Inv, TypeOK
  <2>2. r \in Request
    BY <2>1, HeadTailProperties
  <2> QED BY <2>1, <2>2 DEF Request
<1>2. ASSUME NEW i \in Items
      PROVE  /\ Waiting(i) = Cardinality(At(addCh', i)) + (IF r.data = i THEN 1 ELSE 0)
                               + (IF i \in known THEN 1 ELSE 0)
             /\ Waiting(i)' = Cardinality(At(addCh', i)) + (IF i \in known' THEN 1 ELSE 0)
             /\ Cardinality(At(addCh', i)) \in Nat
  <2>1. Cardinality(At(addCh, i)) = Cardinality(At(addCh', i)) + (IF r.data = i THEN 1 ELSE 0)
    BY <1>1, AtTail
  <2>2. Waiting(i) = Cardinality(At(addCh, i)) + (IF i \in known THEN 1 ELSE 0)
    BY DEF Waiting, At
  <2>3. Waiting(i)' = Cardinality(At(addCh', i)) + (IF i \in known' THEN 1 ELSE 0)
    BY DEF Waiting, At
  <2>4. Cardinality(At(addCh', i)) \in Nat
    BY AtFinite DEF Inv, TypeOK
  <2> QED BY <2>1, <2>2, <2>3, <2>4
<1>3. CASE Insert(r) /\ UNCHANGED baseVars /\ r.data \notin known
  <2>1. known' = known \cup {r.data}
    BY <1>3 DEF Insert
  <2>2. \A i \in Items : Waiting(i)' = Waiting(i)
    BY <1>2, <1>3, <2>1
  <2> QED BY <1>3, <2>2 DEF Step, Hidden
<1>4. CASE Insert(r) /\ UNCHANGED baseVars /\ r.data \in known
  <2>1. known' = known
    BY <1>4 DEF Insert
  <2>2. /\ Waiting(r.data) > 1
        /\ \A i \in Items : Waiting(i)' = IF i = r.data THEN Waiting(i) - 1 ELSE Waiting(i)
    BY <1>1, <1>2, <1>4, <2>1
  <2>3. KQ!Merge(r.data)
    BY <1>1, <1>4, <2>2 DEF KQ!Merge
  <2> QED BY <1>1, <2>3 DEF Step, KQ!Next
<1>5. CASE Add(r.data) /\ UNCHANGED known
  <2>1. /\ Waiting(r.data) > 0
        /\ \A i \in Items : Waiting(i)' = IF i = r.data THEN Waiting(i) - 1 ELSE Waiting(i)
    BY <1>1, <1>2, <1>5
  <2>2. KQ!Ready(r.data)
    BY <1>1, <1>5, <2>1 DEF KQ!Ready, KQ!Added, Add
  <2> QED BY <1>1, <2>2 DEF Step, KQ!Next
<1> QED BY <1>3, <1>4, <1>5 DEF LoopReceive

LEMMA ExpireIs ==
  ASSUME Inv, Inv', NEW i \in Items, LoopExpire(i)
  PROVE  Step
<1>1. i \in known /\ known' = known \ {i} /\ addCh' = addCh /\ Add(i)
  BY DEF LoopExpire
<1>2. ASSUME NEW j \in Items
      PROVE  /\ Waiting(j) = Cardinality(At(addCh, j)) + (IF j \in known THEN 1 ELSE 0)
             /\ Waiting(j)' = Cardinality(At(addCh, j)) + (IF j \in known' THEN 1 ELSE 0)
             /\ Cardinality(At(addCh, j)) \in Nat
  <2>1. Waiting(j) = Cardinality(At(addCh, j)) + (IF j \in known THEN 1 ELSE 0)
    BY DEF Waiting, At
  <2>2. Waiting(j)' = Cardinality(At(addCh, j)) + (IF j \in known' THEN 1 ELSE 0)
    BY <1>1 DEF Waiting, At
  <2>3. Cardinality(At(addCh, j)) \in Nat
    BY AtFinite DEF Inv, TypeOK
  <2> QED BY <2>1, <2>2, <2>3
<1>3. /\ Waiting(i) > 0
      /\ \A j \in Items : Waiting(j)' = IF j = i THEN Waiting(j) - 1 ELSE Waiting(j)
  BY <1>1, <1>2
<1>4. KQ!Ready(i)
  BY <1>1, <1>3 DEF KQ!Ready, KQ!Added, Add
<1> QED BY <1>4 DEF Step, KQ!Next

(* Time passing changes no item of a request. *)
LEMMA TickIs ==
  ASSUME Inv, Tick
  PROVE  Step
<1>1. addCh' = [n \in 1..Len(addCh) |-> Earlier(addCh[n])] /\ Len(addCh) \in Nat
  BY LenProperties DEF Tick, Inv, TypeOK
<1>2. Len(addCh') = Len(addCh)
  BY <1>1
<1>3. \A n \in 1..Len(addCh) : addCh'[n].data = addCh[n].data
  <2> TAKE n \in 1..Len(addCh)
  <2>1. addCh[n] \in Request
    BY ElementOfSeq DEF Inv, TypeOK
  <2> QED BY <1>1, <2>1 DEF Earlier, Request
<1>4. \A i \in Items : At(addCh', i) = At(addCh, i)
  BY <1>2, <1>3 DEF At
<1>5. \A i \in Items : Waiting(i)' = Waiting(i)
  <2> TAKE i \in Items
  <2>1. Waiting(i) = Cardinality(At(addCh, i)) + (IF i \in known THEN 1 ELSE 0)
    BY DEF Waiting, At
  <2>2. Waiting(i)' = Cardinality(At(addCh', i)) + (IF i \in known' THEN 1 ELSE 0)
    BY DEF Waiting, At
  <2> QED BY <1>4, <2>1, <2>2 DEF Tick
<1> QED BY <1>5 DEF Tick, Step, Hidden

LEMMA StepIs == Inv /\ Inv' /\ [Next]_vars => Step
<1> SUFFICES ASSUME Inv, Inv', [Next]_vars PROVE Step
  OBVIOUS
<1>1. CASE LoopTop \/ LoopBlock \/ LoopWake \/ LoopStop \/ LoopDrained \/ CloseStopCh
  BY <1>1, SameWaiting
     DEF LoopTop, LoopBlock, LoopWake, LoopStop, LoopDrained, CloseStopCh, Step, Hidden
<1>2. CASE ShutDown
  <2>1. KQ!ShutDown
    BY <1>2, SameWaiting DEF ShutDown, KQ!ShutDown
  <2> QED BY <2>1 DEF Step, KQ!Next
<1>3. CASE UNCHANGED vars
  BY <1>3, SameWaiting DEF vars, Step, Hidden
<1> QED
  BY <1>1, <1>2, <1>3, WorkerIs, ProducerIs, ReceiveIs, ExpireIs, TickIs DEF Next, LoopStep

LEMMA InitIs == Init => KQ!Init
<1> SUFFICES ASSUME Init PROVE KQ!Init
  OBVIOUS
<1>1. \A i \in Items : At(addCh, i) = {}
  BY DEF Init, At
<1>2. \A i \in Items : Waiting(i) = 0
  BY <1>1, FS_EmptySet DEF Init, Waiting, At
<1> QED BY <1>2 DEF Init, KQ!Init

(* queue.go, delaying_queue.go, rate_limitting_queue.go: slice, heap, channel, *)
(* limiter and condition variable together do only what KeyQueue says, which  *)
(* is all the controller is composed with.                                  *)
THEOREM RefinesKeyQueue == Spec => ImplementsKeyQueue
<1>1. Inv /\ Inv' /\ [Next]_vars
      => [KQ!Next]_<<[i \in Items |-> Waiting(i)], dirty, processing, shuttingDown>>
  BY StepIs DEF Step, Hidden
<1> QED BY InitIs, Invariance, <1>1, PTL DEF Spec, ImplementsKeyQueue, KQ!Spec, KQ!qvars
===============================================================================
