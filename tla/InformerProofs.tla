----------------------------- MODULE InformerProofs ----------------------------
(***************************************************************************)
(* Proofs about Informer, for any number of objects, changes and lists: its  *)
(* types, the relation between items and queue that delta_fifo.go states,    *)
(* that the pipeline ends where the reflector is, that no deletion is queued *)
(* for nothing, and that HasSynced means what the workers take it for.       *)
(***************************************************************************)
EXTENDS Informer, FiniteSetTheorems, SequenceTheorems, TLAPS

-------------------------------------------------------------------------------
(* Sequences of deltas. *)

(* Where a cache that holds c ends after the deltas ds. *)
EndOf(ds, c) == IF ds = <<>> THEN c ELSE Result(ds[Len(ds)])

(* Every deletion among ds deletes something from a cache that holds c. *)
Useful(ds, c) ==
  \A i \in DOMAIN ds : IsDeletion(ds[i]) => IF i = 1 THEN c # 0 ELSE ~IsDeletion(ds[i - 1])

(* What queueActionLocked makes of the deltas of a key. *)
LEMMA QueuedProperties ==
  ASSUME NEW k \in Keys, items[k] \in Seq(Delta), NEW d \in Delta
  PROVE  /\ Queued(k, d) \in Seq(Delta) /\ Queued(k, d) # <<>>
         /\ ~(WillBeDeleted(k) /\ d.type = "Sync")
              => \A c : EndOf(Queued(k, d), c) = Result(d)
         /\ \A c : Useful(items[k], c) /\ (IsDeletion(d) /\ items[k] = <<>> => c # 0)
                     => Useful(Queued(k, d), c)
<1> DEFINE s == items[k]
           q == Queued(k, d)
           n == Len(s)
<1>1. s \in Seq(Delta) /\ n \in Nat /\ DOMAIN s = 1..n /\ (s # <<>> => n > 0)
  BY LenProperties, EmptySeq
<1>2. CASE WillBeDeleted(k) /\ d.type = "Sync"
  <2>1. ~IsDeletion(d)
    BY <1>2 DEF IsDeletion
  <2>2. q = s
    BY <1>2, <2>1 DEF Queued
  <2>3. s # <<>>
    BY <1>2 DEF WillBeDeleted
  <2> QED BY <1>1, <1>2, <2>2, <2>3
<1>3. CASE WillBeDeleted(k) /\ IsDeletion(d) /\ s[n].type = "Deleted"
  <2>1. q = s /\ s # <<>> /\ IsDeletion(s[n])
    BY <1>3 DEF Queued, WillBeDeleted, IsDeletion
  <2>2. \A c : EndOf(q, c) = Result(d)
    BY <1>3, <2>1 DEF EndOf, Result
  <2> QED BY <1>1, <2>1, <2>2
<1>4. CASE WillBeDeleted(k) /\ IsDeletion(d) /\ s[n].type # "Deleted"
  <2>1. q = [s EXCEPT ![n] = d] /\ s # <<>> /\ IsDeletion(s[n])
    BY <1>4 DEF Queued, WillBeDeleted, IsDeletion
  <2>2. q \in Seq(Delta) /\ Len(q) = n /\ q[n] = d /\ DOMAIN q = 1..n
        /\ \A i \in 1..n : i # n => q[i] = s[i]
    BY <1>1, <2>1, ExceptSeq
  <2>3. q # <<>>
    BY <1>1, <2>1, <2>2, EmptySeq
  <2>4. \A i \in 1..n : IsDeletion(q[i]) <=> IsDeletion(s[i])
    BY <1>1, <1>4, <2>1, <2>2
  <2>5. \A c : EndOf(q, c) = Result(d)
    BY <2>2, <2>3 DEF EndOf
  <2>6. ASSUME NEW c, Useful(s, c) PROVE Useful(q, c)
    <3>1. \A i \in 1..n : i # 1 => i - 1 \in 1..n
      BY <1>1
    <3> QED BY <1>1, <2>2, <2>4, <2>6, <3>1 DEF Useful
  <2> QED BY <2>2, <2>3, <2>5, <2>6
<1>5. CASE ~WillBeDeleted(k) \/ (d.type # "Sync" /\ ~IsDeletion(d))
  <2>1. q = Append(s, d)
    BY <1>5 DEF Queued, IsDeletion
  <2>2. /\ q \in Seq(Delta) /\ Len(q) = n + 1 /\ q[n + 1] = d
        /\ \A i \in 1..n : q[i] = s[i]
    BY <2>1, <1>1, AppendProperties
  <2>3. q # <<>> /\ DOMAIN q = 1..(n + 1)
    BY <1>1, <2>2, EmptySeq, LenProperties
  <2>4. \A c : EndOf(q, c) = Result(d)
    BY <2>2, <2>3 DEF EndOf
  <2>5. ASSUME NEW c, Useful(s, c), IsDeletion(d) /\ s = <<>> => c # 0,
               NEW i \in 1..(n + 1), IsDeletion(q[i])
        PROVE  IF i = 1 THEN c # 0 ELSE ~IsDeletion(q[i - 1])
    <3>1. CASE i \in 1..n
      <4>1. i # 1 => i - 1 \in 1..n
        BY <1>1, <3>1
      <4> QED BY <1>1, <2>2, <2>5, <3>1, <4>1 DEF Useful
    <3>2. CASE i = n + 1 /\ s = <<>>
      BY <1>1, <2>2, <2>5, <3>2
    <3>3. CASE i = n + 1 /\ s # <<>>
      <4>1. ~IsDeletion(s[n])
        BY <1>5, <2>2, <2>5, <3>3 DEF WillBeDeleted, IsDeletion
      <4>2. i # 1 /\ i - 1 = n /\ n \in 1..n
        BY <1>1, <3>3
      <4> QED BY <2>2, <4>1, <4>2
    <3> QED BY <1>1, <3>1, <3>2, <3>3
  <2> QED BY <2>2, <2>3, <2>4, <2>5 DEF Useful
<1> QED BY <1>2, <1>3, <1>4, <1>5

(* Handling the oldest delta neither changes where the deltas end nor makes a *)
(* later deletion idle.                                                      *)
LEMMA HandledProperties ==
  ASSUME NEW ds \in Seq(Delta), ds # <<>>
  PROVE  /\ Head(ds) \in Delta /\ Tail(ds) \in Seq(Delta)
         /\ Len(ds) \in Nat \ {0} /\ (Tail(ds) = <<>> <=> Len(ds) = 1)
         /\ \A c : EndOf(Tail(ds), Result(Head(ds))) = EndOf(ds, c)
         /\ \A c : Useful(ds, c) => Useful(Tail(ds), Result(Head(ds)))
<1> DEFINE t == Tail(ds)
           n == Len(ds)
<1>1. /\ n \in Nat \ {0} /\ DOMAIN ds = 1..n
      /\ Head(ds) = ds[1] /\ Head(ds) \in Delta
      /\ t \in Seq(Delta) /\ Len(t) = n - 1 /\ DOMAIN t = 1..(n - 1)
      /\ \A i \in 1..(n - 1) : t[i] = ds[i + 1]
  <2>1. n \in Nat /\ n # 0 /\ DOMAIN ds = 1..n
    BY LenProperties, EmptySeq
  <2>2. Head(ds) = ds[1] /\ Head(ds) \in Delta /\ t \in Seq(Delta) /\ Len(t) = n - 1
        /\ \A i \in 1..Len(t) : t[i] = ds[i + 1]
    BY HeadTailProperties
  <2>3. DOMAIN t = 1..Len(t)
    BY <2>2, LenProperties
  <2> QED BY <2>1, <2>2, <2>3
<1>2. t = <<>> <=> n = 1
  <2>1. t = <<>> <=> Len(t) = 0
    BY <1>1, EmptySeq
  <2> QED BY <1>1, <2>1
<1>3. \A c : EndOf(t, Result(Head(ds))) = EndOf(ds, c)
  <2>1. CASE n = 1
    BY <1>1, <1>2, <2>1 DEF EndOf
  <2>2. CASE n # 1
    <3>1. n - 1 \in 1..(n - 1) /\ n - 1 + 1 = n
      BY <1>1, <2>2
    <3>2. t[n - 1] = ds[n]
      BY <1>1, <3>1
    <3> QED BY <1>1, <1>2, <2>2, <3>2 DEF EndOf
  <2> QED BY <2>1, <2>2
<1>4. ASSUME NEW c, Useful(ds, c), NEW i \in 1..(n - 1), IsDeletion(t[i])
      PROVE  IF i = 1 THEN Result(Head(ds)) # 0 ELSE ~IsDeletion(t[i - 1])
  <2>1. /\ i + 1 \in 1..n /\ i + 1 # 1 /\ (i + 1) - 1 = i /\ i \in 1..n
        /\ t[i] = ds[i + 1]
    BY <1>1
  <2>2. ~IsDeletion(ds[i])
    BY <1>1, <1>4, <2>1 DEF Useful
  <2>3. CASE i = 1
    <3>1. ds[1].version # 0
      BY <1>1 DEF Delta
    <3> QED BY <1>1, <2>2, <2>3, <3>1 DEF Result
  <2>4. CASE i # 1
    <3>1. i - 1 \in 1..(n - 1) /\ (i - 1) + 1 = i
      BY <1>1, <2>4
    <3>2. t[i - 1] = ds[i]
      BY <1>1, <3>1
    <3> QED BY <2>2, <2>4, <3>2
  <2> QED BY <2>3, <2>4
<1> QED BY <1>1, <1>2, <1>3, <1>4 DEF Useful
-------------------------------------------------------------------------------
(* Types, and items and queue that agree: without that Pop might find a key    *)
(* with nothing to handle.  A reflector that has listed has a position, and    *)
(* before its first List nothing is there.                                    *)

ListedFirst ==
  /\ watching => lists > 0
  /\ lists > 0 => position > 0 /\ populated
  /\ lists = 0 => /\ ~populated /\ cache = None /\ queue = <<>> /\ unhandled = {}
                  /\ popped = NoKey /\ items = [k \in Keys |-> <<>>]
                  /\ told = None /\ syncing
                  /\ resync = [g \in Goroutines |-> "off"]

TypeInv == TypeOK /\ FifoInv /\ ListedFirst

(* What an operation of DeltaFIFO other than Pop leaves behind. *)
LEMMA EnqueueProperties ==
  ASSUME TypeInv, NEW D \in SUBSET Keys, NEW delta, \A k \in D : delta[k] \in Delta,
         Enqueue(D, delta)
  PROVE  /\ items' \in [Keys -> Seq(Delta)]
         /\ \A k \in D : items'[k] = Queued(k, delta[k]) /\ items'[k] # <<>>
         /\ \A k \in Keys \ D : items'[k] = items[k]
         /\ popped = NoKey /\ popped' = NoKey
         /\ \E s \in Seq(Keys) :
              /\ queue' = queue \o s
              /\ s \in Orders({k \in D : items[k] = <<>>})
         /\ queue' \in Seq(Keys)
<1> DEFINE N == {k \in D : items[k] = <<>>}
<1>1. items' = [k \in Keys |-> IF k \in D THEN Queued(k, delta[k]) ELSE items[k]]
  BY DEF Enqueue
<1>2. \A k \in Keys : items[k] \in Seq(Delta)
  BY DEF TypeInv, TypeOK
<1>3. \A k \in D : Queued(k, delta[k]) \in Seq(Delta) /\ Queued(k, delta[k]) # <<>>
  BY <1>2, QueuedProperties
<1>4. PICK s \in Orders(N) : queue' = queue \o s
  BY DEF Enqueue
<1>5. IsFiniteSet(N) /\ Cardinality(N) \in Nat
  BY InformerAssumption, FS_Subset, FS_CardinalityType
<1>6. s \in Seq(Keys)
  <2>1. s \in [1..Cardinality(N) -> N]
    BY <1>4 DEF Orders
  <2>2. \E n \in Nat : s \in [1..n -> Keys]
    BY <1>5, <2>1
  <2> QED BY <2>2, SeqDef
<1>7. queue \o s \in Seq(Keys)
  BY <1>6, ConcatProperties DEF TypeInv, TypeOK
<1> QED BY <1>1, <1>2, <1>3, <1>4, <1>6, <1>7 DEF Enqueue

LEMMA EnqueueKeepsFifo ==
  ASSUME TypeInv, NEW D \in SUBSET Keys, NEW delta, \A k \in D : delta[k] \in Delta,
         Enqueue(D, delta)
  PROVE  FifoInv'
<1> DEFINE N == {k \in D : items[k] = <<>>}
           m == Len(queue)
           Q == {k \in Keys : items[k] # <<>>}
<1> HIDE DEF N, m, Q
<1>0. /\ queue \in Seq(Keys) /\ N \subseteq D /\ \A k \in N : items[k] = <<>>
      /\ \A k \in D : k \in N \/ items[k] # <<>>
      /\ \A k \in Keys : k \in Q <=> items[k] # <<>>
      /\ Q \subseteq Keys /\ NoKey \notin Q /\ N \subseteq Keys
  BY InformerAssumption DEF TypeInv, TypeOK, N, Q
<1>1. PICK s \in Seq(Keys) : queue' = queue \o s /\ s \in Orders(N)
  BY EnqueueProperties DEF N
<1>2. /\ \A k \in D : items'[k] # <<>>
      /\ \A k \in Keys \ D : items'[k] = items[k]
      /\ popped = NoKey /\ popped' = NoKey
  BY EnqueueProperties
<1>3. {k \in Keys : items'[k] # <<>>} = Q \cup N
  BY <1>0, <1>2
<1>4. /\ \A i \in DOMAIN s : s[i] \in N
      /\ \A k \in N : \E i \in DOMAIN s : \A j \in DOMAIN s : s[j] = k <=> j = i
  BY <1>1 DEF Orders
<1>5. /\ m \in Nat /\ Len(s) \in Nat /\ DOMAIN queue = 1..m /\ DOMAIN s = 1..Len(s)
      /\ DOMAIN queue' = 1..(m + Len(s))
      /\ \A i \in 1..m : queue'[i] = queue[i]
      /\ \A i \in (m + 1)..(m + Len(s)) : i - m \in 1..Len(s) /\ queue'[i] = s[i - m]
  BY <1>0, <1>1, ConcatProperties, LenProperties DEF m
<1>6. \A i \in 1..Len(s) : i + m \in (m + 1)..(m + Len(s)) /\ (i + m) - m = i
  BY <1>5
<1>7. /\ \A i \in 1..m : queue[i] \in Q
      /\ \A k \in Q : \E i \in 1..m : queue[i] = k
      /\ \A i, j \in 1..m : queue[i] = queue[j] => i = j
  <2>1. {queue[i] : i \in 1..m} = Q \ {NoKey}
    BY <1>2, <1>5 DEF TypeInv, FifoInv, Q
  <2>2. \A i, j \in 1..m : queue[i] = queue[j] => i = j
    BY <1>5 DEF TypeInv, FifoInv
  <2> QED BY <1>0, <2>1, <2>2
<1>8. {queue'[i] : i \in DOMAIN queue'} = Q \cup N
  <2>1. ASSUME NEW i \in DOMAIN queue' PROVE queue'[i] \in Q \cup N
    <3>1. CASE i \in 1..m
      BY <1>5, <1>7, <3>1
    <3>2. CASE i \in (m + 1)..(m + Len(s))
      <4>1. i - m \in DOMAIN s /\ queue'[i] = s[i - m]
        BY <1>5, <3>2
      <4> QED BY <1>4, <4>1
    <3> QED BY <1>5, <2>1, <3>1, <3>2
  <2>2. ASSUME NEW k \in Q PROVE \E i \in DOMAIN queue' : queue'[i] = k
    <3>1. PICK i \in 1..m : queue[i] = k
      BY <1>7
    <3>2. i \in DOMAIN queue' /\ queue'[i] = k
      BY <1>5, <3>1
    <3> QED BY <3>2
  <2>3. ASSUME NEW k \in N PROVE \E i \in DOMAIN queue' : queue'[i] = k
    <3>1. PICK i \in DOMAIN s : s[i] = k
      BY <1>4
    <3>2. i + m \in DOMAIN queue' /\ queue'[i + m] = k
      BY <1>5, <1>6, <3>1
    <3> QED BY <3>2
  <2> QED BY <2>1, <2>2, <2>3
<1>9. ASSUME NEW i \in DOMAIN queue', NEW j \in DOMAIN queue', queue'[i] = queue'[j]
      PROVE  i = j
  <2>1. CASE i \in 1..m /\ j \in 1..m
    BY <1>5, <1>7, <1>9, <2>1
  <2>2. CASE i \in (m + 1)..(m + Len(s)) /\ j \in (m + 1)..(m + Len(s))
    <3>1. /\ i - m \in DOMAIN s /\ queue'[i] = s[i - m]
          /\ j - m \in DOMAIN s /\ queue'[j] = s[j - m]
      BY <1>5, <2>2
    <3>2. PICK p \in DOMAIN s : \A x \in DOMAIN s : s[x] = queue'[i] <=> x = p
      BY <1>4, <3>1
    <3>3. i - m = p /\ j - m = p
      BY <1>9, <3>1, <3>2
    <3> QED BY <1>5, <2>2, <3>3
  <2>3. CASE i \in 1..m /\ j \in (m + 1)..(m + Len(s))
    <3>1. j - m \in DOMAIN s /\ queue'[j] = s[j - m] /\ queue'[i] = queue[i]
      BY <1>5, <2>3
    <3>2. queue'[j] \in N /\ queue'[i] \in Q
      BY <1>4, <1>7, <2>3, <3>1
    <3> QED BY <1>0, <1>9, <3>2
  <2>4. CASE j \in 1..m /\ i \in (m + 1)..(m + Len(s))
    <3>1. i - m \in DOMAIN s /\ queue'[i] = s[i - m] /\ queue'[j] = queue[j]
      BY <1>5, <2>4
    <3>2. queue'[i] \in N /\ queue'[j] \in Q
      BY <1>4, <1>7, <2>4, <3>1
    <3> QED BY <1>0, <1>9, <3>2
  <2> QED BY <1>5, <2>1, <2>2, <2>3, <2>4
<1>10. NoKey \notin Q \cup N
  BY <1>0, InformerAssumption
<1> QED BY <1>2, <1>3, <1>8, <1>9, <1>10 DEF FifoInv

(* The deltas of a List, of an event and of a resync are deltas. *)
ListDelta(state) ==
  [k \in {x \in Keys : state[x] # 0} \cup Gone(state) |->
     IF k \in {x \in Keys : state[x] # 0} THEN [type |-> "Sync", version |-> state[k]]
     ELSE [type |-> "DeletedFinalStateUnknown", version |-> cache[k]]]

EventDelta(k, old, new) ==
  CASE new = 0 -> [type |-> "Deleted", version |-> old]
    [] old = 0 -> [type |-> "Added", version |-> new]
    [] OTHER   -> [type |-> "Updated", version |-> new]

LEMMA DeltaTypes ==
  ASSUME TypeInv
  PROVE  /\ \A i \in 1..Len(history) :
              LET state == history[i] IN
              /\ state \in [Keys -> Version]
              /\ \A k \in {x \in Keys : state[x] # 0} \cup Gone(state) :
                   ListDelta(state)[k] \in Delta
         /\ \A k \in Keys, old, new \in Version : old # new => EventDelta(k, old, new) \in Delta
         /\ \A k \in Resynced : [type |-> "Sync", version |-> cache[k]] \in Delta
<1> USE DEF TypeInv, TypeOK
<1>1. ASSUME NEW i \in 1..Len(history)
      PROVE  LET state == history[i] IN
             /\ state \in [Keys -> Version]
             /\ \A k \in {x \in Keys : state[x] # 0} \cup Gone(state) :
                  ListDelta(state)[k] \in Delta
  <2>1. history[i] \in [Keys -> Version]
    BY ElementOfSeq
  <2> QED BY <2>1 DEF ListDelta, Delta, Gone
<1>2. ASSUME NEW k \in Keys, NEW old \in Version, NEW new \in Version, old # new
      PROVE  EventDelta(k, old, new) \in Delta
  <2>1. CASE new = 0
    BY <1>2, <2>1 DEF EventDelta, Delta
  <2>2. CASE new # 0 /\ old = 0
    BY <1>2, <2>2 DEF EventDelta, Delta
  <2>3. CASE new # 0 /\ old # 0
    BY <1>2, <2>3 DEF EventDelta, Delta
  <2> QED BY <2>1, <2>2, <2>3
<1>3. \A k \in Resynced : [type |-> "Sync", version |-> cache[k]] \in Delta
  BY DEF Resynced, Delta
<1> QED BY <1>1, <1>2, <1>3

LEMMA InitType == Init => TypeInv
<1> SUFFICES ASSUME Init PROVE TypeInv
  OBVIOUS
<1>1. PICK s \in [Keys -> {0, 1}] : history = <<s>>
  BY DEF Init
<1>2. 0 \in Version /\ 1 \in Version
  BY InformerAssumption DEF Version
<1>3. s \in [Keys -> Version]
  BY <1>2
<1>4. history \in Seq([Keys -> Version]) /\ Len(history) = 1
  BY <1>1, <1>3
<1>5. <<>> \in Seq(Delta) /\ <<>> \in Seq(Keys)
  BY EmptySeq
<1>6. FifoInv
  <2>1. DOMAIN queue = {} /\ popped = NoKey /\ \A k \in Keys : items[k] = <<>>
    BY DEF Init
  <2> QED BY <2>1 DEF FifoInv
<1>7. TypeOK
  <2>1. /\ items \in [Keys -> Seq(Delta)] /\ queue \in Seq(Keys)
        /\ cache \in [Keys -> Version] /\ told \in [Keys -> Version]
        /\ resync \in [Goroutines -> {"off", "armed", "due"}]
    BY <1>2, <1>5 DEF Init, None
  <2>2. /\ Len(history) \in 1..(MaxChanges + 1) /\ position \in 0..Len(history)
        /\ lists \in 0..MaxLists /\ initialPopulationCount \in Nat
    BY <1>4, InformerAssumption DEF Init
  <2> QED BY <1>4, <2>1, <2>2 DEF Init, TypeOK
<1>8. ListedFirst
  BY DEF Init, ListedFirst
<1> QED BY <1>6, <1>7, <1>8 DEF TypeInv

LEMMA NextType == TypeInv /\ [Next]_vars => TypeInv'
<1> SUFFICES ASSUME TypeInv, [Next]_vars PROVE TypeInv'
  OBVIOUS
<1> USE DEF TypeInv, TypeOK, ListedFirst, reflectorVars, fifoVars, storeVars,
            resyncVars, ghostVars
<1>1. ASSUME NEW k \in Keys, Change(k) PROVE TypeInv'
  <2>1. PICK v \in {Len(history) + 1, 0} :
          history' = Append(history, [server EXCEPT ![k] = v])
    BY <1>1 DEF Change
  <2>2. Len(history) \in 1..MaxChanges /\ v \in Version
    BY <1>1, <2>1, InformerAssumption DEF Change, Version
  <2>3. server \in [Keys -> Version]
    BY <2>2, ElementOfSeq DEF server
  <2>4. [server EXCEPT ![k] = v] \in [Keys -> Version]
    BY <2>2, <2>3
  <2>5. history' \in Seq([Keys -> Version]) /\ Len(history') = Len(history) + 1
    BY <2>1, <2>4, AppendProperties
  <2>6. position \in 0..Len(history') /\ Len(history') \in 1..(MaxChanges + 1)
    BY <2>2, <2>5, InformerAssumption
  <2>7. TypeOK'
    BY <1>1, <2>5, <2>6 DEF Change
  <2>8. FifoInv' /\ ListedFirst'
    BY <1>1 DEF Change, FifoInv
  <2> QED BY <2>7, <2>8
<1>2. ASSUME NEW k \in Keys, WatchEvent(k) PROVE TypeInv'
  <2> DEFINE old == history[position][k]
             new == history[position + 1][k]
             D == IF new = 0 /\ cache[k] = 0 /\ items[k] = <<>> THEN {} ELSE {k}
             delta == [x \in {k} |-> EventDelta(k, old, new)]
  <2>1. Enqueue(D, delta) /\ old # new /\ watching /\ position < Len(history)
    BY <1>2 DEF WatchEvent, EventDelta
  <2>2. position \in 1..Len(history) /\ position + 1 \in 1..Len(history)
    BY <2>1
  <2>3. old \in Version /\ new \in Version
    BY <2>2, DeltaTypes
  <2>4. D \in SUBSET Keys /\ \A x \in D : delta[x] \in Delta
    BY <2>1, <2>3, DeltaTypes
  <2>5. items' \in [Keys -> Seq(Delta)] /\ popped' = NoKey /\ queue' \in Seq(Keys) /\ FifoInv'
    BY <2>1, <2>4, EnqueueProperties, EnqueueKeepsFifo
  <2> QED BY <1>2, <2>1, <2>2, <2>5 DEF WatchEvent
<1>3. ASSUME NEW i \in 1..Len(history), List(i) PROVE TypeInv'
  <2> DEFINE state == history[i]
             found == {k \in Keys : state[k] # 0}
             gone == Gone(state)
  <2>1. Enqueue(found \cup gone, ListDelta(state))
    BY <1>3 DEF List, ListDelta
  <2>2. \A k \in found \cup gone : ListDelta(state)[k] \in Delta
    BY DeltaTypes
  <2>3. items' \in [Keys -> Seq(Delta)] /\ popped' = NoKey /\ queue' \in Seq(Keys) /\ FifoInv'
    BY <2>1, <2>2, EnqueueProperties, EnqueueKeepsFifo DEF Gone
  <2>4. Cardinality(found) \in Nat /\ Cardinality(gone) \in Nat
    BY InformerAssumption, FS_Subset, FS_CardinalityType DEF Gone
  <2>5. initialPopulationCount' \in Nat
    BY <1>3, <2>4 DEF List
  <2>6. position' \in 1..Len(history)
    BY <1>3 DEF List
  <2>7. /\ unhandled' \in SUBSET Keys /\ doubtful' \in SUBSET Keys
        /\ disturbed' \in SUBSET Goroutines
        /\ resync' \in [Goroutines -> {"off", "armed", "due"}]
        /\ lists' \in 1..MaxLists
        /\ watching' = TRUE /\ populated' = TRUE
        /\ UNCHANGED <<history, storeVars, syncing>>
    BY <1>3, InformerAssumption DEF List, Goroutines
  <2>8. ListedFirst'
    BY <2>6, <2>7 DEF ListedFirst
  <2>9. TypeOK'
    <3>1. history' = history /\ cache' = cache /\ told' = told /\ syncing' = syncing
      BY <2>7
    <3> QED BY <2>3, <2>5, <2>6, <2>7, <3>1 DEF TypeOK
  <2> QED BY <2>3, <2>8, <2>9
<1>4. ASSUME BreakWatch PROVE TypeInv'
  <2>1. FifoInv'
    BY <1>4 DEF BreakWatch, FifoInv
  <2>2. resync' \in [Goroutines -> {"off", "armed", "due"}]
    BY <1>4 DEF BreakWatch, Goroutines
  <2> QED BY <1>4, <2>1, <2>2 DEF BreakWatch, Goroutines
<1>5. ASSUME NEW g \in Goroutines, ShouldResync(g) PROVE TypeInv'
  <2>1. FifoInv'
    BY <1>5 DEF ShouldResync, FifoInv
  <2>2. resync' \in [Goroutines -> {"off", "armed", "due"}]
    BY <1>5 DEF ShouldResync, Rearmed
  <2>3. syncing' \in BOOLEAN /\ disturbed' \in SUBSET Goroutines
    BY <1>5 DEF ShouldResync
  <2>4. lists > 0
    BY <1>5 DEF ShouldResync
  <2> QED BY <1>5, <2>1, <2>2, <2>3, <2>4 DEF ShouldResync
<1>6. ASSUME NEW g \in Goroutines, Resync(g) PROVE TypeInv'
  <2> DEFINE delta == [k \in Keys |-> [type |-> "Sync", version |-> cache[k]]]
  <2>1. Enqueue(Resynced, delta)
    BY <1>6 DEF Resync
  <2>2. \A k \in Resynced : delta[k] \in Delta
    BY DeltaTypes DEF Resynced
  <2>3. items' \in [Keys -> Seq(Delta)] /\ popped' = NoKey /\ queue' \in Seq(Keys) /\ FifoInv'
    BY <2>1, <2>2, EnqueueProperties, EnqueueKeepsFifo DEF Resynced
  <2>4. lists > 0
    BY <1>6 DEF Resync
  <2> QED BY <1>6, <2>3, <2>4 DEF Resync, Rearmed, Goroutines
<1>7. ASSUME Pop PROVE TypeInv'
  <2> DEFINE k == Head(queue)
             t == Tail(queue)
             Q == {x \in Keys : items[x] # <<>>}
  <2>1. /\ k \in Keys /\ t \in Seq(Keys) /\ k = queue[1] /\ 1 \in DOMAIN queue
        /\ DOMAIN queue = 1..Len(queue) /\ Len(queue) \in Nat
        /\ DOMAIN t = 1..(Len(queue) - 1)
        /\ \A i \in DOMAIN t : i + 1 \in DOMAIN queue /\ t[i] = queue[i + 1] /\ i + 1 # 1
        /\ \A i \in DOMAIN queue : i # 1 => i - 1 \in DOMAIN t /\ queue[i] = t[i - 1]
    <3>1. queue \in Seq(Keys) /\ queue # <<>>
      BY <1>7 DEF Pop
    <3>2. /\ k \in Keys /\ t \in Seq(Keys) /\ k = queue[1] /\ Len(t) = Len(queue) - 1
          /\ \A i \in 1..Len(t) : t[i] = queue[i + 1]
      BY <3>1, HeadTailProperties
    <3>3. DOMAIN queue = 1..Len(queue) /\ Len(queue) \in Nat /\ DOMAIN t = 1..Len(t)
          /\ Len(queue) # 0
      BY <3>1, <3>2, LenProperties, EmptySeq
    <3>4. \A i \in 1..Len(queue) : i # 1 => i - 1 \in 1..Len(t) /\ (i - 1) + 1 = i
      BY <3>2, <3>3
    <3>5. 1 \in 1..Len(queue) /\ \A i \in 1..Len(t) : i + 1 \in 1..Len(queue) /\ i + 1 # 1
      BY <3>2, <3>3
    <3>6. \A i \in 1..Len(queue) : i # 1 => queue[i] = t[i - 1]
      <4> TAKE i \in 1..Len(queue)
      <4> HAVE i # 1
      <4>1. t[i - 1] = queue[(i - 1) + 1]
        BY <3>2, <3>4
      <4> QED BY <3>4, <4>1
    <3> HIDE DEF k, t
    <3> QED BY <3>2, <3>3, <3>4, <3>5, <3>6
  <2>2. lists > 0
    BY <1>7 DEF Pop
  <2>3. popped = NoKey /\ popped' = k /\ queue' = t /\ items' = items
    BY <1>7 DEF Pop
  <2>4. /\ {queue[i] : i \in DOMAIN queue} = Q
        /\ \A i, j \in DOMAIN queue : queue[i] = queue[j] => i = j
    <3>1. Q \ {popped} = Q
      BY <2>3, InformerAssumption
    <3>2. {queue[i] : i \in DOMAIN queue} = Q \ {popped}
      BY DEF FifoInv
    <3>3. \A i, j \in DOMAIN queue : queue[i] = queue[j] => i = j
      BY DEF FifoInv
    <3> QED BY <3>1, <3>2, <3>3
  <2> HIDE DEF k, t, Q
  <2>5. k \in Q
    BY <2>1, <2>4
  <2>6. {t[i] : i \in DOMAIN t} = Q \ {k}
    <3>1. ASSUME NEW i \in DOMAIN t PROVE t[i] \in Q \ {k}
      <4>1. i + 1 \in DOMAIN queue /\ t[i] = queue[i + 1] /\ i + 1 # 1
        BY <2>1
      <4>2. queue[i + 1] \in Q /\ queue[i + 1] # queue[1]
        BY <2>1, <2>4, <4>1
      <4> QED BY <2>1, <4>1, <4>2
    <3>2. ASSUME NEW x \in Q, x # k PROVE \E i \in DOMAIN t : t[i] = x
      <4>1. PICK i \in DOMAIN queue : queue[i] = x
        BY <2>4
      <4>2. i # 1
        BY <2>1, <3>2, <4>1
      <4> QED BY <2>1, <4>1, <4>2
    <3> QED BY <3>1, <3>2
  <2>7. \A i, j \in DOMAIN t : t[i] = t[j] => i = j
    <3>1. ASSUME NEW i \in DOMAIN t, NEW j \in DOMAIN t, t[i] = t[j] PROVE i = j
      <4>1. i + 1 = j + 1
        BY <2>1, <2>4, <3>1
      <4> QED BY <2>1, <4>1
    <3> QED BY <3>1
  <2>8. FifoInv'
    BY <2>3, <2>5, <2>6, <2>7 DEF FifoInv, Q
  <2>9. initialPopulationCount' \in Nat
    BY <1>7 DEF Pop
  <2> QED BY <1>7, <2>1, <2>2, <2>3, <2>8, <2>9 DEF Pop
<1>8. ASSUME HandleDelta PROVE TypeInv'
  <2>1. popped \in Keys /\ items[popped] \in Seq(Delta) /\ items[popped] # <<>> /\ lists > 0
    BY <1>8 DEF HandleDelta, FifoInv
  <2>2. /\ Head(items[popped]) \in Delta /\ Tail(items[popped]) \in Seq(Delta)
        /\ (Tail(items[popped]) = <<>> <=> Len(items[popped]) = 1)
    BY <2>1, HandledProperties
  <2>3. Result(Head(items[popped])) \in Version
    <3>1. \A d \in Delta : d.version \in Version
      BY DEF Delta
    <3>2. 0 \in Version
      BY InformerAssumption DEF Version
    <3> QED BY <2>2, <3>1, <3>2 DEF Result
  <2>4. /\ cache' \in [Keys -> Version] /\ told' \in [Keys -> Version]
        /\ items' = [items EXCEPT ![popped] = Tail(@)]
        /\ items' \in [Keys -> Seq(Delta)]
    BY <1>8, <2>1, <2>2, <2>3 DEF HandleDelta
  <2>5. FifoInv'
    <3>1. CASE Len(items[popped]) = 1
      <4>1. popped' = NoKey /\ queue' = queue
        BY <1>8, <3>1 DEF HandleDelta
      <4>2. {k \in Keys : items'[k] # <<>>} = {k \in Keys : items[k] # <<>>} \ {popped}
        BY <2>1, <2>2, <2>4, <3>1
      <4> QED BY <4>1, <4>2, InformerAssumption DEF FifoInv
    <3>2. CASE Len(items[popped]) # 1
      <4>1. popped' = popped /\ queue' = queue
        BY <1>8, <3>2 DEF HandleDelta
      <4>2. {k \in Keys : items'[k] # <<>>} = {k \in Keys : items[k] # <<>>}
        BY <2>1, <2>2, <2>4, <3>2
      <4> QED BY <2>1, <2>2, <2>4, <3>2, <4>1, <4>2 DEF FifoInv
    <3> QED BY <3>1, <3>2
  <2> QED BY <1>8, <2>1, <2>4, <2>5 DEF HandleDelta
<1>9. CASE UNCHANGED vars
  BY <1>9 DEF vars, FifoInv
<1> QED BY <1>1, <1>2, <1>3, <1>4, <1>5, <1>6, <1>7, <1>8, <1>9 DEF Next

(* Every variable keeps its type. *)
THEOREM TypeCorrect == Spec => []TypeOK
<1>1. TypeInv => TypeOK
  BY DEF TypeInv
<1> QED BY <1>1, InitType, NextType, PTL DEF Spec

(* delta_fifo.go:101-102.  What is in the queue has deltas and what has deltas *)
(* is in the queue, once, or in the hands of Pop's caller.                     *)
THEOREM FifoConsistent == Spec => []FifoInv
<1>1. TypeInv => FifoInv
  BY DEF TypeInv
<1> QED BY <1>1, InitType, NextType, PTL DEF Spec

-------------------------------------------------------------------------------
(* The pipeline.  That WatchEvent(k) brings nothing but k up to date needs     *)
(* that the server changes one object at a time; that a deletion is not queued *)
(* for nothing, that the deltas of each key alternate.                        *)

OneChangeEach ==
  \A i \in 1..(Len(history) - 1) : \A j, k \in Keys :
    history[i][j] # history[i + 1][j] /\ history[i][k] # history[i + 1][k] => j = k

PipeInv == OneChangeEach /\ PipelineFollows /\ DeletionsMatter

LEMMA OutcomeIsEnd == \A k : Outcome(k) = EndOf(items[k], cache[k])
  BY DEF Outcome, EndOf

LEMMA DeletionsAreUseful == DeletionsMatter <=> \A k \in Keys : Useful(items[k], cache[k])
  BY DEF DeletionsMatter, Useful

LEMMA InitPipe == Init => PipeInv
<1> SUFFICES ASSUME Init PROVE PipeInv
  OBVIOUS
<1>1. Len(history) = 1 /\ lists = 0 /\ \A k \in Keys : items[k] = <<>>
  BY DEF Init
<1> QED BY <1>1 DEF PipeInv, OneChangeEach, PipelineFollows, DeletionsMatter

(* One key gets a delta that may be queued. *)
LEMMA EnqueueEnds ==
  ASSUME TypeInv, DeletionsMatter, NEW D \in SUBSET Keys, NEW delta,
         \A k \in D : delta[k] \in Delta,
         \A k \in D : IsDeletion(delta[k]) /\ items[k] = <<>> => cache[k] # 0,
         Enqueue(D, delta), UNCHANGED cache
  PROVE  /\ DeletionsMatter'
         /\ \A k \in D : ~(WillBeDeleted(k) /\ delta[k].type = "Sync")
                            => Outcome(k)' = Result(delta[k])
         /\ \A k \in Keys \ D : Outcome(k)' = Outcome(k)
<1>1. /\ \A k \in D : items'[k] = Queued(k, delta[k])
      /\ \A k \in Keys \ D : items'[k] = items[k]
  BY EnqueueProperties
<1>2. \A k \in Keys : items[k] \in Seq(Delta)
  BY DEF TypeInv, TypeOK
<1>3. \A k \in Keys : Useful(items[k], cache[k])
  BY DeletionsAreUseful
<1>4. \A k \in D : Useful(items'[k], cache[k])
  BY <1>1, <1>2, <1>3, QueuedProperties
<1>5. \A k \in Keys : Useful(items'[k], cache'[k])
  BY <1>1, <1>3, <1>4
<1>6. DeletionsMatter'
  BY <1>5 DEF DeletionsMatter, Useful
<1>7. ASSUME NEW k \in D, ~(WillBeDeleted(k) /\ delta[k].type = "Sync")
      PROVE  Outcome(k)' = Result(delta[k])
  <2>1. EndOf(Queued(k, delta[k]), cache[k]) = Result(delta[k])
    BY <1>2, <1>7, QueuedProperties
  <2> QED BY <1>1, <2>1 DEF Outcome, EndOf
<1>8. \A k \in Keys \ D : Outcome(k)' = Outcome(k)
  BY <1>1 DEF Outcome
<1> QED BY <1>6, <1>7, <1>8

LEMMA NextPipe == TypeInv /\ TypeInv' /\ PipeInv /\ [Next]_vars => PipeInv'
<1> SUFFICES ASSUME TypeInv, TypeInv', PipeInv, [Next]_vars PROVE PipeInv'
  OBVIOUS
<1> USE DEF reflectorVars, fifoVars, storeVars, resyncVars, ghostVars
<1>0. /\ history \in Seq([Keys -> Version]) /\ Len(history) \in Nat \ {0}
      /\ position \in Nat /\ (lists > 0 => position \in 1..Len(history))
      /\ cache \in [Keys -> Version] /\ (watching => lists > 0) /\ lists \in Nat
      /\ doubtful \in SUBSET Keys
      /\ OneChangeEach /\ PipelineFollows /\ DeletionsMatter
  <2>1. /\ history \in Seq([Keys -> Version]) /\ Len(history) \in 1..(MaxChanges + 1)
        /\ position \in 0..Len(history) /\ lists \in 0..MaxLists
        /\ cache \in [Keys -> Version] /\ doubtful \in SUBSET Keys
        /\ (watching => lists > 0) /\ (lists > 0 => position > 0)
    BY DEF TypeInv, TypeOK, ListedFirst
  <2> QED BY <2>1, InformerAssumption DEF PipeInv
<1>1. ASSUME NEW k \in Keys, Change(k) PROVE PipeInv'
  <2>1. PICK v : history' = Append(history, [server EXCEPT ![k] = v])
    BY <1>1 DEF Change
  <2>2. server \in [Keys -> Version] /\ server = history[Len(history)]
    BY <1>0, ElementOfSeq DEF server
  <2>3. /\ Len(history') = Len(history) + 1
        /\ \A i \in 1..Len(history) : history'[i] = history[i]
        /\ history'[Len(history) + 1] = [server EXCEPT ![k] = v]
    <3>1. history \in Seq(UNION {[Keys -> Version], {[server EXCEPT ![k] = v]}})
      BY <1>0, SeqMonotonic
    <3> QED BY <2>1, <3>1, AppendProperties
  <2>4. OneChangeEach'
    <3>1. ASSUME NEW i \in 1..(Len(history') - 1), NEW x \in Keys, NEW y \in Keys,
                 history'[i][x] # history'[i + 1][x], history'[i][y] # history'[i + 1][y]
          PROVE  x = y
      <4>1. CASE i = Len(history)
        <5>1. history'[i] = server /\ history'[i + 1] = [server EXCEPT ![k] = v]
          BY <1>0, <2>2, <2>3, <4>1
        <5> QED BY <2>2, <3>1, <5>1
      <4>2. CASE i # Len(history)
        <5>1. i \in 1..(Len(history) - 1) /\ i + 1 \in 1..Len(history) /\ i \in 1..Len(history)
          BY <1>0, <2>3, <4>2
        <5>2. history'[i] = history[i] /\ history'[i + 1] = history[i + 1]
          BY <2>3, <5>1
        <5> QED BY <1>0, <3>1, <5>1, <5>2 DEF OneChangeEach
      <4> QED BY <4>1, <4>2
    <3> QED BY <3>1 DEF OneChangeEach
  <2>5. lists > 0 => history'[position] = history[position]
    BY <1>0, <2>3
  <2>6. UNCHANGED <<items, cache, lists, position, doubtful>>
    BY <1>1 DEF Change
  <2>7. PipelineFollows' /\ DeletionsMatter'
    BY <1>0, <2>5, <2>6 DEF PipelineFollows, DeletionsMatter, Outcome
  <2> QED BY <2>4, <2>7 DEF PipeInv
<1>2. ASSUME NEW k \in Keys, WatchEvent(k) PROVE PipeInv'
  <2> DEFINE old == history[position][k]
             new == history[position + 1][k]
             D == IF new = 0 /\ cache[k] = 0 /\ items[k] = <<>> THEN {} ELSE {k}
             delta == [x \in {k} |-> EventDelta(k, old, new)]
  <2>1. /\ Enqueue(D, delta) /\ old # new /\ watching /\ position < Len(history)
        /\ position' = position + 1 /\ doubtful' = doubtful \ {k}
        /\ UNCHANGED <<history, lists, cache>>
    BY <1>2 DEF WatchEvent, EventDelta
  <2>2. position \in 1..(Len(history) - 1) /\ position + 1 \in 1..Len(history) /\ lists > 0
    BY <1>0, <2>1
  <2>3. old \in Version /\ new \in Version
    BY <2>2, DeltaTypes
  <2>4. EventDelta(k, old, new) \in Delta
    BY <2>1, <2>3, DeltaTypes
  <2>5. /\ Result(EventDelta(k, old, new)) = new
        /\ EventDelta(k, old, new).type # "Sync"
        /\ IsDeletion(EventDelta(k, old, new)) => new = 0
    BY <2>1 DEF Result, IsDeletion, EventDelta
  <2>6. D \in SUBSET Keys /\ \A x \in D : delta[x] \in Delta
    BY <2>4
  <2>7. \A x \in D : IsDeletion(delta[x]) /\ items[x] = <<>> => cache[x] # 0
    BY <2>5
  <2>8. /\ DeletionsMatter'
        /\ k \in D => Outcome(k)' = new
        /\ \A x \in Keys \ D : Outcome(x)' = Outcome(x)
    <3> HIDE DEF D, delta
    <3>1. /\ DeletionsMatter'
          /\ \A x \in D : ~(WillBeDeleted(x) /\ delta[x].type = "Sync")
                             => Outcome(x)' = Result(delta[x])
          /\ \A x \in Keys \ D : Outcome(x)' = Outcome(x)
      BY <1>0, <2>1, <2>6, <2>7, EnqueueEnds
    <3>2. delta[k] = EventDelta(k, old, new)
      BY DEF delta
    <3> QED BY <2>5, <3>1, <3>2
  <2>9. k \notin D => new = 0 /\ Outcome(k) = 0
    BY DEF Outcome
  <2>10. Outcome(k)' = new
    BY <2>8, <2>9
  <2>11. \A x \in Keys \ {k} : history[position + 1][x] = history[position][x]
    BY <1>0, <2>1, <2>2 DEF OneChangeEach
  <2>12. PipelineFollows'
    BY <1>0, <2>1, <2>2, <2>8, <2>10, <2>11 DEF PipelineFollows
  <2>13. OneChangeEach'
    BY <1>0, <2>1 DEF OneChangeEach
  <2> QED BY <2>8, <2>12, <2>13 DEF PipeInv
<1>3. ASSUME NEW i \in 1..Len(history), List(i) PROVE PipeInv'
  <2> DEFINE state == history[i]
             found == {k \in Keys : state[k] # 0}
             gone == Gone(state)
             delta == ListDelta(state)
  <2>1. /\ Enqueue(found \cup gone, delta) /\ position' = i
        /\ doubtful' = {k \in found : WillBeDeleted(k)} \cup
                        {k \in Keys \ (found \cup gone) : items[k] # <<>> /\ ~WillBeDeleted(k)}
        /\ UNCHANGED <<history, cache>>
    BY <1>3 DEF List, ListDelta
  <2>2. \A k \in found \cup gone : delta[k] \in Delta
    BY DeltaTypes
  <2>3. state \in [Keys -> Version]
    BY DeltaTypes
  <2>4. /\ \A k \in found : delta[k] = [type |-> "Sync", version |-> state[k]]
        /\ \A k \in gone : /\ delta[k] = [type |-> "DeletedFinalStateUnknown", version |-> cache[k]]
                           /\ state[k] = 0 /\ cache[k] # 0 /\ k \in Keys
    BY DEF ListDelta, Gone
  <2>5. /\ \A k \in found : ~IsDeletion(delta[k]) /\ Result(delta[k]) = state[k]
        /\ \A k \in gone : /\ delta[k].type # "Sync" /\ Result(delta[k]) = 0
    <3>1. ASSUME NEW k \in found PROVE ~IsDeletion(delta[k]) /\ Result(delta[k]) = state[k]
      <4>1. delta[k] = [type |-> "Sync", version |-> state[k]]
        BY <2>4
      <4> HIDE DEF delta
      <4> QED BY <4>1 DEF IsDeletion, Result
    <3>2. ASSUME NEW k \in gone PROVE delta[k].type # "Sync" /\ Result(delta[k]) = 0
      <4>1. delta[k] = [type |-> "DeletedFinalStateUnknown", version |-> cache[k]]
        BY <2>4
      <4> HIDE DEF delta
      <4> QED BY <4>1 DEF IsDeletion, Result
    <3> QED BY <3>1, <3>2
  <2>6. found \cup gone \in SUBSET Keys
    BY DEF Gone
  <2>7. \A k \in found \cup gone : IsDeletion(delta[k]) /\ items[k] = <<>> => cache[k] # 0
    BY <2>4, <2>5
  <2>8. /\ DeletionsMatter'
        /\ \A k \in found \cup gone : ~(WillBeDeleted(k) /\ delta[k].type = "Sync")
                                       => Outcome(k)' = Result(delta[k])
        /\ \A k \in Keys \ (found \cup gone) : Outcome(k)' = Outcome(k)
    <3> HIDE DEF found, gone, delta
    <3> QED BY <1>0, <2>1, <2>2, <2>6, <2>7, EnqueueEnds
  <2>9. ASSUME NEW k \in Keys \ doubtful' PROVE Outcome(k)' = state[k]
    <3>1. CASE k \in found
      BY <2>1, <2>5, <2>8, <2>9, <3>1
    <3>2. CASE k \in gone
      BY <2>4, <2>5, <2>8, <3>2
    <3>3. CASE k \notin found /\ k \notin gone
      <4>1. state[k] = 0 /\ cache[k] = 0
        BY <3>3 DEF Gone
      <4>2. items[k] = <<>> \/ WillBeDeleted(k)
        BY <2>1, <2>9, <3>3
      <4>3. Outcome(k) = 0
        BY <4>1, <4>2 DEF Outcome, WillBeDeleted, Result
      <4> QED BY <2>8, <3>3, <4>1, <4>3
    <3> QED BY <3>1, <3>2, <3>3
  <2>10. PipelineFollows'
    BY <2>1, <2>9 DEF PipelineFollows
  <2>11. OneChangeEach'
    BY <1>0, <2>1 DEF OneChangeEach
  <2> QED BY <2>8, <2>10, <2>11 DEF PipeInv
<1>4. ASSUME BreakWatch PROVE PipeInv'
  BY <1>0, <1>4 DEF BreakWatch, PipeInv, OneChangeEach, PipelineFollows, DeletionsMatter, Outcome
<1>5. ASSUME NEW g \in Goroutines, ShouldResync(g) PROVE PipeInv'
  BY <1>0, <1>5 DEF ShouldResync, PipeInv, OneChangeEach, PipelineFollows, DeletionsMatter, Outcome
<1>6. ASSUME NEW g \in Goroutines, Resync(g) PROVE PipeInv'
  <2> DEFINE delta == [k \in Keys |-> [type |-> "Sync", version |-> cache[k]]]
  <2>1. Enqueue(Resynced, delta) /\ UNCHANGED <<history, position, lists, cache, doubtful>>
    BY <1>6 DEF Resync
  <2>2. Resynced \in SUBSET Keys
    BY DEF Resynced
  <2>3. \A k \in Resynced : delta[k] = [type |-> "Sync", version |-> cache[k]]
    BY <2>2
  <2>4. \A k \in Resynced : /\ delta[k] \in Delta /\ ~IsDeletion(delta[k])
                            /\ Result(delta[k]) = cache[k]
                            /\ items[k] = <<>> /\ ~WillBeDeleted(k)
    <3>1. \A k \in Resynced : delta[k] \in Delta
      BY <2>3, DeltaTypes
    <3> QED BY <2>3, <3>1 DEF IsDeletion, Result, Resynced, WillBeDeleted
  <2>5. /\ DeletionsMatter'
        /\ \A k \in Resynced : Outcome(k)' = cache[k]
        /\ \A k \in Keys \ Resynced : Outcome(k)' = Outcome(k)
    <3> HIDE DEF delta
    <3>1. /\ DeletionsMatter'
          /\ \A k \in Resynced : ~(WillBeDeleted(k) /\ delta[k].type = "Sync")
                                 => Outcome(k)' = Result(delta[k])
          /\ \A k \in Keys \ Resynced : Outcome(k)' = Outcome(k)
      BY <1>0, <2>1, <2>2, <2>4, EnqueueEnds
    <3> QED BY <2>4, <3>1
  <2>6. \A k \in Keys : Outcome(k)' = Outcome(k)
    BY <2>4, <2>5 DEF Outcome
  <2>7. PipelineFollows'
    BY <1>0, <2>1, <2>6 DEF PipelineFollows
  <2>8. OneChangeEach'
    BY <1>0, <2>1 DEF OneChangeEach
  <2> QED BY <2>5, <2>7, <2>8 DEF PipeInv
<1>7. ASSUME Pop PROVE PipeInv'
  BY <1>0, <1>7 DEF Pop, PipeInv, OneChangeEach, PipelineFollows, DeletionsMatter, Outcome
<1>8. ASSUME HandleDelta PROVE PipeInv'
  <2> DEFINE ds == items[popped]
  <2>1. popped \in Keys /\ ds \in Seq(Delta) /\ ds # <<>>
    BY <1>8 DEF HandleDelta, TypeInv, TypeOK, FifoInv
  <2>2. /\ items' = [items EXCEPT ![popped] = Tail(ds)]
        /\ cache' = [cache EXCEPT ![popped] = Result(Head(ds))]
        /\ UNCHANGED <<history, position, lists, doubtful>>
        /\ items \in [Keys -> Seq(Delta)]
    BY <1>8 DEF HandleDelta, TypeInv, TypeOK
  <2>3. \A k \in Keys : EndOf(items'[k], cache'[k]) = EndOf(items[k], cache[k])
    BY <1>0, <2>1, <2>2, HandledProperties
  <2>4. \A k \in Keys : Useful(items[k], cache[k])
    BY <1>0, DeletionsAreUseful
  <2>5. \A k \in Keys : Useful(items'[k], cache'[k])
    BY <1>0, <2>1, <2>2, <2>4, HandledProperties
  <2>6. DeletionsMatter'
    BY <2>5 DEF DeletionsMatter, Useful
  <2>7. \A k \in Keys : Outcome(k)' = Outcome(k)
    BY <2>3 DEF Outcome, EndOf
  <2>8. PipelineFollows'
    BY <1>0, <2>2, <2>7 DEF PipelineFollows
  <2>9. OneChangeEach'
    BY <1>0, <2>2 DEF OneChangeEach
  <2> QED BY <2>6, <2>8, <2>9 DEF PipeInv
<1>9. CASE UNCHANGED vars
  BY <1>0, <1>9 DEF vars, PipeInv, OneChangeEach, PipelineFollows, DeletionsMatter, Outcome
<1> QED BY <1>1, <1>2, <1>3, <1>4, <1>5, <1>6, <1>7, <1>8, <1>9 DEF Next

(* However often the watch breaks, what is queued leads the cache to the state *)
(* of the server the reflector has got to, but for the objects whose deltas a  *)
(* relist handles wrongly.                                                    *)
THEOREM InformerFollows == Spec => []PipelineFollows
<1>1. PipeInv => PipelineFollows
  BY DEF PipeInv
<1> QED BY <1>1, InitType, NextType, InitPipe, NextPipe, PTL DEF Spec

(* No deletion is queued that finds nothing to delete when its turn comes. *)
THEOREM NoIdleDeletion == Spec => []DeletionsMatter
<1>1. PipeInv => DeletionsMatter
  BY DEF PipeInv
<1> QED BY <1>1, InitType, NextType, InitPipe, NextPipe, PTL DEF Spec

-------------------------------------------------------------------------------
(* What HasSynced counts.  Keys of the first List that are still to be handled *)
(* are among the first initialPopulationCount of the queue, or being handled.  *)

Counted ==
  \A k \in unhandled :
    k = popped \/ \E i \in DOMAIN queue : i <= initialPopulationCount /\ queue[i] = k

(* Appending to the queue does not change its first elements. *)
LEMMA EnqueueKeepsCounted ==
  ASSUME TypeInv, Counted, NEW D \in SUBSET Keys, NEW delta, \A k \in D : delta[k] \in Delta,
         Enqueue(D, delta), UNCHANGED <<unhandled, initialPopulationCount>>
  PROVE  Counted'
<1>1. PICK s \in Seq(Keys) : queue' = queue \o s
  BY EnqueueProperties
<1>2. queue \in Seq(Keys) /\ NoKey \notin unhandled
  BY InformerAssumption DEF TypeInv, TypeOK
<1>3. /\ DOMAIN queue = 1..Len(queue) /\ DOMAIN queue' = 1..(Len(queue) + Len(s))
      /\ Len(queue) \in Nat /\ Len(s) \in Nat
      /\ \A i \in DOMAIN queue : queue'[i] = queue[i]
  BY <1>1, <1>2, ConcatProperties, LenProperties
<1>4. \A i \in DOMAIN queue : i \in DOMAIN queue'
  BY <1>3
<1>5. popped = NoKey
  BY DEF Enqueue
<1> QED BY <1>2, <1>3, <1>4, <1>5 DEF Counted

LEMMA NextCounted == TypeInv /\ Counted /\ [Next]_vars => Counted'
<1> SUFFICES ASSUME TypeInv, Counted, [Next]_vars PROVE Counted'
  OBVIOUS
<1> USE DEF reflectorVars, fifoVars, storeVars, resyncVars, ghostVars
<1>1. ASSUME NEW k \in Keys, Change(k) PROVE Counted'
  BY <1>1 DEF Change, Counted
<1>2. ASSUME NEW k \in Keys, WatchEvent(k) PROVE Counted'
  <2> DEFINE old == history[position][k]
             new == history[position + 1][k]
             D == IF new = 0 /\ cache[k] = 0 /\ items[k] = <<>> THEN {} ELSE {k}
             delta == [x \in {k} |-> EventDelta(k, old, new)]
  <2>1. /\ Enqueue(D, delta) /\ old # new /\ watching /\ position < Len(history)
        /\ UNCHANGED <<unhandled, initialPopulationCount>>
    BY <1>2 DEF WatchEvent, EventDelta
  <2>2. position \in 1..Len(history) /\ position + 1 \in 1..Len(history)
    BY <2>1 DEF TypeInv, TypeOK, ListedFirst
  <2>3. old \in Version /\ new \in Version
    BY <2>2, DeltaTypes
  <2>4. D \in SUBSET Keys /\ \A x \in D : delta[x] \in Delta
    BY <2>1, <2>3, DeltaTypes
  <2> HIDE DEF D, delta
  <2> QED BY <2>1, <2>4, EnqueueKeepsCounted
<1>3. ASSUME NEW i \in 1..Len(history), List(i) PROVE Counted'
  <2> DEFINE state == history[i]
             found == {k \in Keys : state[k] # 0}
             gone == Gone(state)
  <2>1. Enqueue(found \cup gone, ListDelta(state))
    BY <1>3 DEF List, ListDelta
  <2>2. \A k \in found \cup gone : ListDelta(state)[k] \in Delta
    BY DeltaTypes
  <2>3. found \cup gone \in SUBSET Keys
    BY DEF Gone
  <2>4. CASE populated
    <3>1. UNCHANGED <<unhandled, initialPopulationCount>>
      BY <1>3, <2>4 DEF List
    <3> QED BY <2>1, <2>2, <2>3, <3>1, EnqueueKeepsCounted
  <2>5. CASE ~populated
    <3>1. /\ queue = <<>> /\ cache = None /\ items = [k \in Keys |-> <<>>] /\ lists = 0
      BY <2>5 DEF TypeInv, TypeOK, ListedFirst
    <3>2. gone = {}
      BY <3>1 DEF Gone, None
    <3>3. {k \in found \cup gone : items[k] = <<>>} = found
      BY <3>1, <3>2
    <3>4. PICK s \in Seq(Keys) : queue' = queue \o s /\ s \in Orders(found)
      BY <2>1, <2>2, <2>3, <3>3, EnqueueProperties
    <3>5. queue' = s
      BY <3>1, <3>4, ConcatEmptySeq
    <3>6. Cardinality(found) \in Nat /\ Cardinality({}) = 0
      BY InformerAssumption, FS_Subset, FS_CardinalityType, FS_EmptySet
    <3>7. initialPopulationCount' = Cardinality(found) /\ unhandled' = found
      BY <1>3, <2>5, <3>2, <3>6 DEF List
    <3>8. /\ DOMAIN s = 1..Cardinality(found)
          /\ \A k \in found : \E j \in DOMAIN s : s[j] = k
      BY <3>4 DEF Orders
    <3> HIDE DEF found
    <3> QED BY <3>5, <3>6, <3>7, <3>8 DEF Counted
  <2> QED BY <2>4, <2>5
<1>4. ASSUME BreakWatch PROVE Counted'
  BY <1>4 DEF BreakWatch, Counted
<1>5. ASSUME NEW g \in Goroutines, ShouldResync(g) PROVE Counted'
  BY <1>5 DEF ShouldResync, Counted
<1>6. ASSUME NEW g \in Goroutines, Resync(g) PROVE Counted'
  <2> DEFINE delta == [k \in Keys |-> [type |-> "Sync", version |-> cache[k]]]
  <2>1. Enqueue(Resynced, delta) /\ UNCHANGED <<unhandled, initialPopulationCount>>
    BY <1>6 DEF Resync
  <2>2. Resynced \in SUBSET Keys /\ \A k \in Resynced : delta[k] \in Delta
    BY DeltaTypes DEF Resynced
  <2> HIDE DEF delta
  <2> QED BY <2>1, <2>2, EnqueueKeepsCounted
<1>7. ASSUME Pop PROVE Counted'
  <2>1. /\ queue \in Seq(Keys) /\ queue # <<>> /\ popped = NoKey /\ popped' = Head(queue)
        /\ queue' = Tail(queue) /\ unhandled' = unhandled /\ NoKey \notin unhandled
        /\ initialPopulationCount \in Nat
        /\ initialPopulationCount > 0 => initialPopulationCount' = initialPopulationCount - 1
    BY <1>7, InformerAssumption DEF Pop, TypeInv, TypeOK
  <2>2. /\ Head(queue) = queue[1] /\ Len(queue') = Len(queue) - 1 /\ Len(queue) \in Nat
        /\ DOMAIN queue = 1..Len(queue) /\ DOMAIN queue' = 1..(Len(queue) - 1)
        /\ \A i \in DOMAIN queue' : queue'[i] = queue[i + 1]
    BY <2>1, HeadTailProperties, LenProperties
  <2>3. ASSUME NEW k \in unhandled, k # Head(queue)
        PROVE  \E i \in DOMAIN queue' : i <= initialPopulationCount' /\ queue'[i] = k
    <3>1. PICK i \in DOMAIN queue : i <= initialPopulationCount /\ queue[i] = k
      BY <2>1 DEF Counted
    <3>2. i # 1 /\ i \in Nat /\ i > 0 /\ initialPopulationCount > 0
      BY <2>1, <2>2, <2>3, <3>1
    <3>3. i - 1 \in DOMAIN queue' /\ (i - 1) + 1 = i /\ i - 1 <= initialPopulationCount'
      BY <2>1, <2>2, <3>1, <3>2
    <3>4. queue'[i - 1] = k
      BY <2>2, <3>1, <3>3
    <3> QED BY <3>3, <3>4
  <2> QED BY <2>1, <2>3 DEF Counted
<1>8. ASSUME HandleDelta PROVE Counted'
  BY <1>8 DEF HandleDelta, Counted
<1>9. CASE UNCHANGED vars
  BY <1>9 DEF vars, Counted
<1> QED BY <1>1, <1>2, <1>3, <1>4, <1>5, <1>6, <1>7, <1>8, <1>9 DEF Next

(* When HasSynced, nothing of the first List is missing from the cache. *)
THEOREM SyncedIsHandled == Spec => []SyncedMeansHandled
<1>1. Init => Counted
  BY DEF Init, Counted
<1>2. TypeInv /\ Counted => SyncedMeansHandled
  <2> SUFFICES ASSUME TypeInv, Counted, popped = NoKey, initialPopulationCount = 0,
                      NEW k \in unhandled
               PROVE  FALSE
    BY DEF SyncedMeansHandled, HasSynced
  <2>1. k # popped
    BY InformerAssumption DEF TypeInv, TypeOK
  <2>2. \A i \in DOMAIN queue : ~(i <= 0)
    <3>1. DOMAIN queue = 1..Len(queue) /\ Len(queue) \in Nat
      BY LenProperties DEF TypeInv, TypeOK
    <3> QED BY <3>1
  <2> QED BY <2>1, <2>2 DEF Counted
<1> QED BY <1>1, <1>2, InitType, NextType, NextCounted, PTL DEF Spec

-------------------------------------------------------------------------------
(* What the handler knows.  Before the reflector lists a second time no two     *)
(* resync goroutines run at once, so that the handler is always due and never   *)
(* left out of syncingListeners.                                               *)

ToldInv ==
  /\ \A k \in Keys : cache[k] = 0 => told[k] = 0
  /\ watching => resync["current"] # "off"
  /\ lists <= 1 => /\ told = cache /\ syncing
                   /\ resync["current"] = "off" \/ resync["cancelled"] = "off"
                   /\ \A g \in Goroutines : resync[g] # "off" => g \notin disturbed

LEMMA NextTold == TypeInv /\ ToldInv /\ [Next]_vars => ToldInv'
<1> SUFFICES ASSUME TypeInv, ToldInv, [Next]_vars PROVE ToldInv'
  OBVIOUS
<1> USE DEF reflectorVars, fifoVars, storeVars, resyncVars, ghostVars
<1>0. /\ lists \in Nat /\ resync \in [Goroutines -> {"off", "armed", "due"}]
      /\ disturbed \in SUBSET Goroutines
      /\ cache \in [Keys -> Version] /\ told \in [Keys -> Version]
      /\ lists = 0 => resync = [g \in Goroutines |-> "off"] /\ told = cache /\ syncing
      /\ watching => lists > 0
  BY DEF TypeInv, TypeOK, ListedFirst
<1>1. ASSUME NEW k \in Keys, Change(k) PROVE ToldInv'
  BY <1>1 DEF Change, ToldInv
<1>2. ASSUME NEW k \in Keys, WatchEvent(k) PROVE ToldInv'
  BY <1>2 DEF WatchEvent, ToldInv
<1>3. ASSUME NEW i \in 1..Len(history), List(i) PROVE ToldInv'
  <2>1. /\ lists' = lists + 1 /\ watching' = TRUE
        /\ resync' = [resync EXCEPT !["current"] = "armed"]
        /\ disturbed' = disturbed \ {"current"}
        /\ UNCHANGED <<cache, told, syncing>>
    BY <1>3 DEF List
  <2>2. resync'["current"] = "armed"
    BY <1>0, <2>1 DEF Goroutines
  <2>3. lists' <= 1 => /\ lists = 0 /\ told = cache /\ syncing
                       /\ resync'["cancelled"] = "off"
    BY <1>0, <2>1 DEF Goroutines
  <2>4. "current" \notin disturbed'
    BY <2>1
  <2> QED BY <2>1, <2>2, <2>3, <2>4 DEF ToldInv, Goroutines
<1>4. ASSUME BreakWatch PROVE ToldInv'
  <2>1. /\ resync'["current"] = "off" /\ ~watching'
        /\ disturbed' = IF "current" \in disturbed THEN Goroutines ELSE {}
        /\ UNCHANGED <<lists, cache, told, syncing>>
    BY <1>4 DEF BreakWatch, Goroutines
  <2>2. lists <= 1 => "current" \notin disturbed
    BY <1>4 DEF BreakWatch, ToldInv, Goroutines
  <2> QED BY <2>1, <2>2 DEF ToldInv
<1>5. ASSUME NEW g \in Goroutines, ShouldResync(g) PROVE ToldInv'
  <2>1. PICK due \in IF g \in disturbed THEN BOOLEAN ELSE {TRUE} :
          /\ syncing' = due
          /\ resync' = [resync EXCEPT ![g] = IF due THEN "due" ELSE Rearmed(g)]
    BY <1>5 DEF ShouldResync
  <2>2. /\ resync[g] = "armed" /\ disturbed' = Goroutines \ {g}
        /\ UNCHANGED <<lists, watching, cache, told>>
    BY <1>5 DEF ShouldResync
  <2>3. watching' => resync'["current"] # "off"
    BY <1>0, <2>1, <2>2 DEF ToldInv, Goroutines, Rearmed
  <2>4. ASSUME lists <= 1
        PROVE  /\ syncing' /\ resync'[g] = "due"
               /\ \A h \in Goroutines \ {g} : resync'[h] = "off"
    <3>1. due = TRUE
      BY <2>1, <2>2, <2>4 DEF ToldInv
    <3>2. syncing' = TRUE /\ resync' = [resync EXCEPT ![g] = "due"]
      BY <2>1, <3>1
    <3>3. \A h \in Goroutines \ {g} : resync[h] = "off"
      BY <2>2, <2>4 DEF ToldInv, Goroutines
    <3> QED BY <1>0, <3>2, <3>3
  <2> QED BY <1>0, <2>2, <2>3, <2>4 DEF ToldInv, Goroutines
<1>6. ASSUME NEW g \in Goroutines, Resync(g) PROVE ToldInv'
  <2>1. /\ resync[g] = "due"
        /\ resync' = [resync EXCEPT ![g] = Rearmed(g)]
        /\ UNCHANGED <<lists, watching, cache, told, syncing, disturbed>>
    BY <1>6 DEF Resync
  <2> QED BY <1>0, <2>1 DEF ToldInv, Goroutines, Rearmed
<1>7. ASSUME Pop PROVE ToldInv'
  BY <1>7 DEF Pop, ToldInv
<1>8. ASSUME HandleDelta PROVE ToldInv'
  <2> DEFINE d == Head(items[popped])
  <2>1. popped \in Keys /\ items[popped] \in Seq(Delta) /\ items[popped] # <<>>
    BY <1>8 DEF HandleDelta, TypeInv, TypeOK, FifoInv
  <2>2. d \in Delta
    BY <2>1, HandledProperties
  <2>3. /\ cache' = [cache EXCEPT ![popped] = Result(d)]
        /\ told' = IF d.type # "Sync" \/ syncing THEN [told EXCEPT ![popped] = Result(d)] ELSE told
        /\ UNCHANGED <<lists, watching, syncing, resync, disturbed>>
    BY <1>8 DEF HandleDelta
  <2>4. d.type = "Sync" => Result(d) # 0
    BY <2>2 DEF Result, IsDeletion, Delta
  <2>5. \A k \in Keys : cache'[k] = 0 => told'[k] = 0
    BY <1>0, <2>1, <2>3, <2>4 DEF ToldInv
  <2> QED BY <2>3, <2>5 DEF ToldInv
<1>9. CASE UNCHANGED vars
  BY <1>9 DEF vars, ToldInv
<1> QED BY <1>1, <1>2, <1>3, <1>4, <1>5, <1>6, <1>7, <1>8, <1>9 DEF Next

(* The handler is told of every deletion, and of everything until the          *)
(* reflector lists again.                                                     *)
THEOREM HandlerKnows == Spec => []DeletionsAreTold
<1>1. Init => ToldInv
  BY DEF Init, ToldInv, Goroutines
<1>2. ToldInv => DeletionsAreTold
  BY DEF ToldInv, DeletionsAreTold
<1> QED BY <1>1, <1>2, InitType, NextType, NextTold, PTL DEF Spec
===============================================================================
