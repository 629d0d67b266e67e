--------------------------- MODULE ClientStackProofs ---------------------------
(***************************************************************************)
(* Proofs about ClientStack, for any number of names, clients, callers and    *)
(* calls: clients see values (Isolated and the refinement of ObjectStore),    *)
(* and the factory runs one informer once, the one everybody waits for.       *)
(***************************************************************************)
EXTENDS ClientStack, SequenceTheorems, TLAPS

-------------------------------------------------------------------------------
(* Memory: where copies go, and what a write leaves alone. *)

(* DeepCopy's addresses are unused ones, a different one for each copy. *)
LEMMA Copies ==
  ASSUME NEW from, Fits(from)
  PROVE  /\ DeepCopy(from) \in [DOMAIN from -> Addresses \ InUse]
         /\ \A r, s \in DOMAIN from : DeepCopy(from)[r] = DeepCopy(from)[s] => r = s
<1>1. DeepCopy(from) \in Places(from)
  BY DEF Fits, DeepCopy
<1> QED BY <1>1 DEF Places

(* What is in use has contents. *)
Live == \A a \in InUse : heap[a] \in Contents

(* What Shared consists of. *)
LEMMA SharedIs ==
  ASSUME ClientsetTypeOK
  PROVE  /\ \A n \in Names : tracker[n] # NoObject => tracker[n] \in Shared
         /\ \A i \in Informers, n \in Names : indexer[i][n] # NoObject => indexer[i][n] \in Shared
         /\ \A i \in Informers : \A j \in DOMAIN events[i] :
              events[i][j] \in Event /\ events[i][j].object \in Shared
         /\ \A a \in Shared : a \in Addresses
         /\ NoObject \notin Shared
<1>1. \A i \in Informers : \A j \in DOMAIN events[i] : events[i][j] \in Event
  BY ElementOfSeq, LenProperties DEF ClientsetTypeOK
<1>2. \A i \in Informers : \A j \in DOMAIN events[i] : events[i][j].object \in Addresses
  BY <1>1 DEF Event
<1>3. NoObject \notin Addresses
  BY ClientsetAssumption
<1>4. \A i \in Informers : \A j \in DOMAIN events[i] : events[i][j].object \in Shared
  BY <1>2 DEF Shared
<1>5. \A n \in Names : tracker[n] # NoObject => tracker[n] \in Shared
  BY DEF Shared, ClientsetTypeOK, Object
<1>6. \A i \in Informers, n \in Names : indexer[i][n] # NoObject => indexer[i][n] \in Shared
  BY DEF Shared, ClientsetTypeOK, Object
<1>7. \A a \in Shared : a \in Addresses
  BY DEF Shared
<1>8. NoObject \notin Shared
  BY <1>3 DEF Shared
<1> QED BY <1>1, <1>4, <1>5, <1>6, <1>7, <1>8

(* The tracker, the events or the indexers hold nothing new but the objects in X. *)
LEMMA SharedAfter ==
  ASSUME ClientsetTypeOK, NEW X,
         \A n \in Names : tracker'[n] \in Shared \cup X \cup {NoObject},
         \A i \in Informers : \A j \in DOMAIN events'[i] : events'[i][j].object \in Shared \cup X,
         \A i \in Informers, n \in Names : indexer'[i][n] \in Shared \cup X \cup {NoObject}
  PROVE  Shared' \subseteq Shared \cup X
BY ClientsetAssumption DEF Shared

(* The watchers get one object. *)
LEMMA Notified ==
  ASSUME ClientsetTypeOK, NEW n \in Names, NEW type \in {"ADDED", "MODIFIED", "DELETED"},
         NEW object \in Addresses, Notify(n, type, object)
  PROVE  /\ events' \in [Informers -> Seq(Event)]
         /\ missed' \in [Informers -> SUBSET Names]
         /\ \A i \in Informers : \A j \in DOMAIN events'[i] :
              events'[i][j].object \in Shared \cup {object}
<1> DEFINE e == [type |-> type, name |-> n, object |-> object]
<1>1. e \in Event
  BY DEF Event
<1>2. missed' \in [Informers -> SUBSET Names]
  BY DEF Notify, ClientsetTypeOK
<1>3. ASSUME NEW i \in Informers
      PROVE  /\ events'[i] \in Seq(Event)
             /\ \A j \in DOMAIN events'[i] : events'[i][j].object \in Shared \cup {object}
  <2>1. events[i] \in Seq(Event)
    BY DEF ClientsetTypeOK
  <2>2. CASE events'[i] = events[i]
    BY <2>1, <2>2, SharedIs
  <2>3. CASE events'[i] = Append(events[i], e)
    <3>1. /\ events'[i] \in Seq(Event) /\ DOMAIN events'[i] = 1..(Len(events[i]) + 1)
          /\ events'[i][Len(events[i]) + 1] = e
          /\ \A j \in 1..Len(events[i]) : events'[i][j] = events[i][j]
      BY <1>1, <2>1, <2>3, AppendProperties
    <3>2. \A j \in DOMAIN events'[i] : j \in DOMAIN events[i] \/ j = Len(events[i]) + 1
      BY <2>1, <3>1, LenProperties
    <3> QED BY <2>1, <3>1, <3>2, SharedIs, LenProperties
  <2> QED BY <2>2, <2>3 DEF Notify
<1>4. events' = [i \in Informers |-> events'[i]]
  BY DEF Notify
<1> QED BY <1>2, <1>3, <1>4

(* A write of contents to new addresses. *)
LEMMA Written ==
  ASSUME NEW to, NEW contents, Write(to, contents),
         ClientsetTypeOK, Live,
         \A r \in DOMAIN to : to[r] \in Addresses \ InUse /\ contents[r] \in Contents,
         \A r, s \in DOMAIN to : to[r] = to[s] => r = s,
         InUse' \subseteq InUse \cup {to[r] : r \in DOMAIN to}
  PROVE  /\ heap' \in [Addresses -> Contents \cup {NoObject}]
         /\ Live'
         /\ \A a \in InUse' : a \in InUse => heap'[a] = heap[a]
         /\ \A r \in DOMAIN to : to[r] \in InUse' => heap'[to[r]] = contents[r]
<1>1. heap \in [Addresses -> Contents \cup {NoObject}]
  BY DEF ClientsetTypeOK
<1>2. InUse' \subseteq Addresses
  <2>1. InUse \subseteq Addresses
    <3>1. Shared \subseteq Addresses
      BY SharedIs DEF ClientsetTypeOK, Object
    <3> QED BY <3>1 DEF ClientsetTypeOK, InUse, Object
  <2> QED BY <2>1
<1>3. ASSUME NEW a \in InUse' PROVE a \in InUse \/ \E r \in DOMAIN to : to[r] = a
  BY <1>3
<1>4. ASSUME NEW a \in Addresses, NEW r \in DOMAIN to, to[r] = a
      PROVE  (CHOOSE s \in DOMAIN to : to[s] = a) = r
  BY <1>4
<1>5. ASSUME NEW r \in DOMAIN to, to[r] \in InUse' PROVE heap'[to[r]] = contents[r]
  BY <1>2, <1>4, <1>5 DEF Write
<1>6. ASSUME NEW a \in InUse', a \in InUse PROVE heap'[a] = heap[a]
  BY <1>2, <1>6 DEF Write
<1>7. Live'
  BY <1>3, <1>5, <1>6 DEF Live
<1>8. heap' \in [Addresses -> Contents \cup {NoObject}]
  <2>1. \A a \in Addresses : a \in InUse' => heap'[a] \in Contents
    BY <1>7 DEF Live
  <2>2. \A a \in Addresses : a \notin InUse' => heap'[a] = NoObject
    BY DEF Write
  <2>3. heap' = [a \in Addresses |-> heap'[a]]
    BY DEF Write
  <2> QED BY <2>1, <2>2, <2>3
<1> QED BY <1>5, <1>6, <1>7, <1>8

-------------------------------------------------------------------------------
(* What each call of the clientset keeps, and which step of ObjectStore it is. *)

Safe == ClientsetTypeOK /\ Live /\ Isolated

(* What is shared before and after keeps its contents. *)
Kept == \A a \in Shared' : a \in Shared => heap'[a] = heap[a]

Objects == [n \in Names |-> ContentsOf(tracker[n])]
Got == [c \in Clients |-> ContentsOf(held[c])]
Same == Objects' = Objects /\ Got' = Got

(* A name is taken in ObjectStore when the tracker has an object under it. *)
LEMMA StoredExists ==
  ASSUME ClientsetTypeOK, Live, NEW n \in Names
  PROVE  Store!Exists(n) <=> tracker[n] # NoObject
<1>1. tracker[n] # NoObject => heap[tracker[n]] \in Contents
  BY SharedIs DEF Live, InUse
<1> QED BY <1>1, ClientsetAssumption DEF Store!Exists, ContentsOf

LEMMA AddStep ==
  ASSUME Safe, NEW c \in Clients, NEW n \in Names, NEW replaceExisting \in BOOLEAN,
         Add(c, n, replaceExisting)
  PROVE  /\ Safe' /\ Kept
         /\ IF replaceExisting THEN Store!Update(c, n) ELSE Store!Create(c, n)
<1> DEFINE from == [r \in {"stored", "reply"} |-> held[c]]
           to == DeepCopy(from)
<1>1. /\ ClientsetTypeOK /\ Live /\ Isolated
      /\ held[c] # NoObject /\ held[c] \in Addresses /\ held[c] \in InUse
  BY DEF Safe, Add, ClientsetTypeOK, Object, InUse
<1>2. /\ to["stored"] \in Addresses \ InUse /\ to["reply"] \in Addresses \ InUse
      /\ to["stored"] # to["reply"] /\ DOMAIN to = {"stored", "reply"}
  BY Copies DEF Add
<1>3. tracker' = [tracker EXCEPT ![n] = to["stored"]]
  BY DEF Add
<1>4. PICK kept \in {held[c], to["reply"]} : held' = [held EXCEPT ![c] = kept]
  BY DEF Add
<1>5. /\ events' \in [Informers -> Seq(Event)]
      /\ missed' \in [Informers -> SUBSET Names]
      /\ \A i \in Informers : \A j \in DOMAIN events'[i] :
           events'[i][j].object \in Shared \cup {to["stored"]}
  BY <1>1, <1>2, Notified DEF Add
<1>6. UNCHANGED <<scope, watching, indexer>>
  BY DEF Add
<1>7. Shared' \subseteq Shared \cup {to["stored"]}
  <2>1. \A m \in Names : tracker'[m] \in Shared \cup {to["stored"]} \cup {NoObject}
    BY <1>1, <1>3, SharedIs DEF ClientsetTypeOK
  <2>2. \A i \in Informers, m \in Names : indexer'[i][m] \in Shared \cup {to["stored"]} \cup {NoObject}
    BY <1>1, <1>6, SharedIs
  <2> QED BY <1>1, <1>5, <2>1, <2>2, SharedAfter
<1>8. \A d \in Clients : held'[d] = IF d = c THEN kept ELSE held[d]
  BY <1>1, <1>4 DEF ClientsetTypeOK
<1>9. InUse' \subseteq InUse \cup {to[r] : r \in DOMAIN to}
  BY <1>1, <1>2, <1>7, <1>8 DEF InUse
<1>10. heap[held[c]] \in Contents
  BY <1>1 DEF Live
<1> DEFINE contents == [r \in DOMAIN from |-> heap[from[r]]]
<1>11. /\ heap' \in [Addresses -> Contents \cup {NoObject}]
       /\ Live'
       /\ \A a \in InUse' : a \in InUse => heap'[a] = heap[a]
       /\ \A r \in DOMAIN to : to[r] \in InUse' => heap'[to[r]] = contents[r]
  <2>1. Write(to, contents)
    BY DEF Add, WriteCopies
  <2>2. \A r \in DOMAIN to : to[r] \in Addresses \ InUse /\ contents[r] \in Contents
    BY <1>2, <1>10
  <2>3. \A r, s \in DOMAIN to : to[r] = to[s] => r = s
    BY <1>2
  <2> HIDE DEF to, contents
  <2> QED BY <1>1, <1>9, <2>1, <2>2, <2>3, Written
<1>12. ClientsetTypeOK'
  BY <1>1, <1>2, <1>3, <1>4, <1>5, <1>6, <1>11 DEF ClientsetTypeOK, Object
<1>13. Isolated'
  <2>1. \A d \in Clients : held[d] # NoObject => held[d] \in InUse
    BY DEF InUse
  <2>2. to["stored"] # NoObject /\ to["reply"] # NoObject
    BY <1>2, ClientsetAssumption
  <2>3. ASSUME NEW d \in Clients, held'[d] # NoObject PROVE held'[d] \notin Shared'
    BY <1>1, <1>2, <1>7, <1>8, <2>1, <2>3 DEF Isolated, InUse
  <2>4. ASSUME NEW d \in Clients, held'[d] # NoObject, NEW f \in Clients \ {d}
        PROVE  held'[d] # held'[f]
    BY <1>1, <1>2, <1>8, <2>1, <2>2, <2>4 DEF Isolated
  <2> QED BY <2>3, <2>4 DEF Isolated
<1>14. /\ heap'[to["stored"]] = heap[held[c]] /\ to["stored"] # NoObject
       /\ kept # NoObject /\ heap'[kept] = heap[held[c]]
  <2>1. to["stored"] \in InUse' /\ to["stored"] # NoObject
    <3>1. to["stored"] \in Addresses /\ to["stored"] # NoObject
      BY <1>2, ClientsetAssumption
    <3>2. tracker'[n] = to["stored"]
      BY <1>1, <1>3 DEF ClientsetTypeOK
    <3>3. to["stored"] \in Shared'
      BY <3>1, <3>2 DEF Shared
    <3> QED BY <3>1, <3>3 DEF InUse
  <2>2. kept # NoObject /\ kept \in InUse'
    BY <1>1, <1>2, <1>8, ClientsetAssumption DEF InUse
  <2> QED BY <1>1, <1>2, <1>11, <2>1, <2>2
<1>15. ASSUME NEW m \in Names, m # n PROVE ContentsOf(tracker[m])' = ContentsOf(tracker[m])
  <2>1. tracker'[m] = tracker[m]
    BY <1>1, <1>3, <1>15 DEF ClientsetTypeOK
  <2>2. CASE tracker[m] # NoObject
    <3>1. tracker[m] \in Addresses
      BY <1>1, <1>15, <2>2 DEF ClientsetTypeOK, Object
    <3>2. tracker[m] \in Shared /\ tracker[m] \in Shared'
      BY <2>1, <3>1 DEF Shared
    <3>3. tracker[m] \in InUse /\ tracker[m] \in InUse'
      BY <3>1, <3>2 DEF InUse
    <3>4. heap'[tracker[m]] = heap[tracker[m]]
      BY <1>11, <3>3
    <3> QED BY <2>1, <3>4 DEF ContentsOf
  <2> QED BY <2>1, <2>2 DEF ContentsOf
<1>16. ASSUME NEW d \in Clients PROVE ContentsOf(held[d])' = ContentsOf(held[d])
  <2>1. CASE d # c
    BY <1>8, <1>11, <2>1 DEF InUse, ContentsOf
  <2>2. CASE d = c
    BY <1>1, <1>8, <1>14, <2>2 DEF ContentsOf
  <2> QED BY <2>1, <2>2
<1>17. ContentsOf(tracker[n])' = ContentsOf(held[c])
  BY <1>1, <1>3, <1>14 DEF ContentsOf, ClientsetTypeOK
<1>18. ContentsOf(held[c]) # NoObject
  BY <1>1, <1>10, ClientsetAssumption DEF ContentsOf
<1>19. Store!Send(c, n)
  BY <1>15, <1>16, <1>17, <1>18 DEF Store!Send
<1>20. Store!Exists(n) <=> replaceExisting
  BY <1>1, StoredExists DEF Add, Safe
<1> QED BY <1>11, <1>12, <1>13, <1>19, <1>20 DEF Safe, Kept, InUse, Store!Create, Store!Update

(* What is in use before and after keeps its contents, for whoever holds it. *)
LEMMA SameContents ==
  ASSUME ClientsetTypeOK, ClientsetTypeOK', \A a \in InUse' : a \in InUse => heap'[a] = heap[a]
  PROVE  /\ \A n \in Names : tracker'[n] = tracker[n] => ContentsOf(tracker[n])' = ContentsOf(tracker[n])
         /\ \A c \in Clients : held'[c] = held[c] => ContentsOf(held[c])' = ContentsOf(held[c])
<1>1. ASSUME NEW n \in Names, tracker'[n] = tracker[n]
      PROVE  ContentsOf(tracker[n])' = ContentsOf(tracker[n])
  BY <1>1 DEF InUse, Shared, ContentsOf, ClientsetTypeOK, Object
<1>2. ASSUME NEW c \in Clients, held'[c] = held[c]
      PROVE  ContentsOf(held[c])' = ContentsOf(held[c])
  BY <1>2 DEF InUse, ContentsOf
<1> QED BY <1>1, <1>2

(* When references only go, the rest stays as it is. *)
LEMMA Collected ==
  ASSUME Safe, Collect, held' = held, Shared' \subseteq Shared
  PROVE  /\ heap' \in [Addresses -> Contents \cup {NoObject}] /\ Live' /\ Isolated'
         /\ \A a \in InUse' : a \in InUse => heap'[a] = heap[a]
<1>1. InUse' \subseteq InUse
  BY DEF InUse
<1>2. ClientsetTypeOK /\ Live /\ Isolated
  BY DEF Safe
<1>3. /\ heap' \in [Addresses -> Contents \cup {NoObject}] /\ Live'
      /\ \A a \in InUse' : a \in InUse => heap'[a] = heap[a]
  <2> DEFINE none == <<>>
  <2>1. DOMAIN none = {}
    OBVIOUS
  <2>2. Write(none, none)
    BY DEF Collect
  <2> HIDE DEF none
  <2> QED BY <1>1, <1>2, <2>1, <2>2, Written
<1> QED BY <1>2, <1>3 DEF Isolated

LEMMA DeleteStep ==
  ASSUME Safe, NEW n \in Names, Delete(n)
  PROVE  Safe' /\ Kept /\ Store!Delete(n)
<1>1. /\ ClientsetTypeOK /\ tracker[n] # NoObject
      /\ tracker' = [tracker EXCEPT ![n] = NoObject]
      /\ UNCHANGED <<held, scope, watching, indexer>>
  BY DEF Safe, Delete
<1>2. tracker[n] \in Shared /\ tracker[n] \in Addresses
  BY <1>1, SharedIs
<1>3. /\ events' \in [Informers -> Seq(Event)]
      /\ missed' \in [Informers -> SUBSET Names]
      /\ \A i \in Informers : \A j \in DOMAIN events'[i] : events'[i][j].object \in Shared
  BY <1>1, <1>2, Notified DEF Delete
<1>4. Shared' \subseteq Shared
  <2>1. \A m \in Names : tracker'[m] \in Shared \cup {NoObject}
    BY <1>1, SharedIs DEF ClientsetTypeOK
  <2>2. \A i \in Informers, m \in Names : indexer'[i][m] \in Shared \cup {NoObject}
    BY <1>1, SharedIs
  <2> QED BY <1>1, <1>3, <2>1, <2>2, SharedAfter
<1>5. /\ heap' \in [Addresses -> Contents \cup {NoObject}] /\ Live' /\ Isolated'
      /\ \A a \in InUse' : a \in InUse => heap'[a] = heap[a]
  BY <1>1, <1>4, Collected DEF Delete
<1>6. ClientsetTypeOK'
  BY <1>1, <1>3, <1>5 DEF ClientsetTypeOK, Object
<1>7. /\ \A m \in Names : m # n => ContentsOf(tracker[m])' = ContentsOf(tracker[m])
      /\ \A c \in Clients : ContentsOf(held[c])' = ContentsOf(held[c])
  BY <1>1, <1>5, <1>6, SameContents DEF ClientsetTypeOK
<1>8. ContentsOf(tracker[n])' = NoObject
  BY <1>1 DEF ContentsOf, ClientsetTypeOK
<1>9. Store!Delete(n)
  <2>1. ClientsetTypeOK /\ Live /\ tracker[n] # NoObject
    BY DEF Safe, Delete
  <2>2. Store!Exists(n)
    BY <2>1, StoredExists
  <2> QED BY <1>7, <1>8, <2>2 DEF Store!Delete
<1> QED BY <1>5, <1>6, <1>9 DEF Safe, Kept, InUse

(* A client gets a new object at a, with contents v. *)
LEMMA NewObject ==
  ASSUME Safe, NEW c \in Clients, NEW a \in Addresses \ InUse, NEW v \in Contents,
         held' = [held EXCEPT ![c] = a],
         UNCHANGED <<tracker, scope, watching, events, indexer, missed>>,
         Write([r \in {"reply"} |-> a], [r \in {"reply"} |-> v])
  PROVE  Safe' /\ Kept /\ ContentsOf(held[c])' = v
         /\ UNCHANGED Objects /\ \A d \in Clients \ {c} : ContentsOf(held[d])' = ContentsOf(held[d])
<1> DEFINE to == [r \in {"reply"} |-> a]
           contents == [r \in {"reply"} |-> v]
<1>1. ClientsetTypeOK /\ Live /\ Isolated /\ a # NoObject
  BY ClientsetAssumption DEF Safe
<1>2. Shared' = Shared
  BY DEF Shared
<1>3. \A d \in Clients : held'[d] = IF d = c THEN a ELSE held[d]
  BY <1>1 DEF ClientsetTypeOK
<1>4. InUse' \subseteq InUse \cup {a} /\ a \in InUse'
  BY <1>1, <1>2, <1>3 DEF InUse
<1>5. /\ heap' \in [Addresses -> Contents \cup {NoObject}] /\ Live'
      /\ \A b \in InUse' : b \in InUse => heap'[b] = heap[b]
      /\ heap'[a] = v
  <2>1. DOMAIN to = {"reply"} /\ to["reply"] = a /\ contents["reply"] = v
    OBVIOUS
  <2>2. Write(to, contents)
    OBVIOUS
  <2> HIDE DEF to, contents
  <2> QED BY <1>1, <1>4, <2>1, <2>2, Written
<1>6. ClientsetTypeOK'
  BY <1>1, <1>5 DEF ClientsetTypeOK, Object
<1>7. Isolated'
  <2>1. \A d \in Clients : held[d] # NoObject => held[d] \in InUse
    BY DEF InUse
  <2> QED BY <1>1, <1>2, <1>3, <2>1 DEF Isolated, InUse
<1>8. UNCHANGED Objects /\ \A d \in Clients \ {c} : ContentsOf(held[d])' = ContentsOf(held[d])
  BY <1>1, <1>3, <1>5, <1>6, SameContents DEF Objects
<1> QED BY <1>1, <1>3, <1>5, <1>6, <1>7, <1>8 DEF Safe, ContentsOf, Kept, InUse

(* One client's object changes, to contents v. *)
LEMMA Takes ==
  ASSUME NEW c \in Clients, NEW v \in Contents, ContentsOf(held[c])' = v, UNCHANGED Objects,
         \A d \in Clients \ {c} : ContentsOf(held[d])' = ContentsOf(held[d])
  PROVE  /\ Got' = [Got EXCEPT ![c] = v]
         /\ v = Empty => Store!Make(c)
         /\ ContentsOf(held[c]) # NoObject => Store!Edit(c)
         /\ \A n \in Names : v = Objects[n] /\ Store!Exists(n) => Store!Get(c, n)
<1>1. Got' = [Got EXCEPT ![c] = v]
  BY DEF Got
<1> QED BY <1>1 DEF Store!Make, Store!Edit, Store!Get, Objects, Got

LEMMA GetStep ==
  ASSUME Safe, NEW c \in Clients, NEW n \in Names, Get(c, n)
  PROVE  Safe' /\ Kept /\ Store!Get(c, n)
<1> DEFINE from == [r \in {"reply"} |-> tracker[n]]
           to == DeepCopy(from)
           a == to["reply"]
<1>1. a \in Addresses \ InUse /\ to = [r \in {"reply"} |-> a]
  <2>1. to \in [{"reply"} -> Addresses \ InUse]
    BY Copies DEF Get
  <2> QED BY <2>1
<1>2. heap[tracker[n]] \in Contents
  BY SharedIs DEF Get, Safe, Live, InUse
<1>3. Write([r \in {"reply"} |-> a], [r \in {"reply"} |-> heap[tracker[n]]])
  <2>1. [r \in DOMAIN from |-> heap[from[r]]] = [r \in {"reply"} |-> heap[tracker[n]]]
    OBVIOUS
  <2>2. Write(to, [r \in DOMAIN from |-> heap[from[r]]])
    BY DEF Get, WriteCopies
  <2> QED BY <1>1, <2>1, <2>2
<1>4. held' = [held EXCEPT ![c] = a] /\ UNCHANGED <<tracker, scope, watching, events, indexer, missed>>
  BY DEF Get
<1>5. tracker[n] # NoObject /\ ClientsetTypeOK /\ Live
  BY DEF Get, Safe
<1>6. Objects[n] = heap[tracker[n]] /\ Store!Exists(n)
  BY <1>5, StoredExists DEF Objects, ContentsOf
<1> HIDE DEF a
<1> QED BY <1>1, <1>2, <1>3, <1>4, <1>6, NewObject, Takes

LEMMA PatchStep ==
  ASSUME Safe, NEW c \in Clients, Patch(c)
  PROVE  Safe' /\ Kept /\ Store!Make(c)
<1> DEFINE a == CHOOSE b \in Addresses \ InUse : TRUE
<1>1. a \in Addresses \ InUse
  BY DEF Patch
<1>2. /\ held' = [held EXCEPT ![c] = a] /\ UNCHANGED <<tracker, scope, watching, events, indexer, missed>>
      /\ Write([r \in {"reply"} |-> a], [r \in {"reply"} |-> Empty])
  BY DEF Patch
<1> HIDE DEF a
<1> QED BY <1>1, <1>2, NewObject, Takes, ClientsetAssumption

LEMMA EditStep ==
  ASSUME Safe, NEW c \in Clients, Edit(c)
  PROVE  Safe' /\ Kept /\ Store!Edit(c)
<1>1. PICK v \in Contents : heap' = [heap EXCEPT ![held[c]] = v]
  BY DEF Edit
<1>2. /\ ClientsetTypeOK /\ Live /\ Isolated
      /\ UNCHANGED <<tracker, held, scope, watching, events, indexer, missed>>
      /\ held[c] # NoObject /\ held[c] \in Addresses
  BY DEF Safe, Edit, ClientsetTypeOK, Object
<1>3. \A a \in Addresses : heap'[a] = IF a = held[c] THEN v ELSE heap[a]
  BY <1>1, <1>2 DEF ClientsetTypeOK
<1>4. Shared' = Shared /\ InUse' = InUse
  BY <1>2 DEF Shared, InUse
<1>5. ClientsetTypeOK'
  BY <1>1, <1>2 DEF ClientsetTypeOK
<1>6. Live' /\ Isolated'
  BY <1>2, <1>3, <1>4, SharedIs DEF Live, Isolated, InUse, ClientsetTypeOK, Object
<1>7. ASSUME NEW n \in Names PROVE ContentsOf(tracker[n])' = ContentsOf(tracker[n])
  <2>1. CASE tracker[n] # NoObject
    <3>1. tracker[n] \in Shared /\ tracker[n] \in Addresses /\ tracker[n] # held[c]
      BY <1>2, <2>1, SharedIs DEF Isolated
    <3> QED BY <1>2, <1>3, <3>1 DEF ContentsOf
  <2> QED BY <1>2, <2>1 DEF ContentsOf
<1>8. ASSUME NEW d \in Clients \ {c} PROVE ContentsOf(held[d])' = ContentsOf(held[d])
  <2>1. CASE held[d] # NoObject
    <3>1. held[d] # held[c] /\ held[d] \in Addresses
      BY <1>2, <2>1 DEF Isolated, ClientsetTypeOK, Object
    <3> QED BY <1>2, <1>3, <3>1 DEF ContentsOf
  <2> QED BY <1>2, <2>1 DEF ContentsOf
<1>9. ContentsOf(held[c])' = v
  BY <1>2, <1>3 DEF ContentsOf
<1>10. UNCHANGED Objects
  BY <1>7 DEF Objects
<1>11. Kept
  BY <1>2, <1>3 DEF Kept, Isolated, Shared
<1>12. ContentsOf(held[c]) # NoObject
  <2>1. heap[held[c]] \in Contents
    BY <1>2 DEF Live, InUse
  <2> QED BY <1>2, <2>1, ClientsetAssumption DEF ContentsOf
<1> QED BY <1>5, <1>6, <1>8, <1>9, <1>10, <1>11, <1>12, Takes DEF Safe

LEMMA ListStep ==
  ASSUME Safe, NEW i \in Informers, List(i)
  PROVE  /\ Safe' /\ Kept /\ Same
         /\ \A n \in scope : ContentsOf(indexer[i][n])' = ContentsOf(tracker[n])
<1> DEFINE from == [n \in {m \in scope : tracker[m] # NoObject} |-> tracker[n]]
           to == DeepCopy(from)
           contents == [n \in DOMAIN from |-> heap[from[n]]]
<1>1. /\ ClientsetTypeOK /\ Live /\ Isolated
      /\ UNCHANGED <<tracker, held, scope, watching, events>>
      /\ missed' = [missed EXCEPT ![i] = {}]
      /\ indexer' = [indexer EXCEPT ![i] =
                       [n \in Names |-> IF n \in DOMAIN from THEN to[n] ELSE NoObject]]
  BY DEF Safe, List
<1>2. scope \subseteq Names
  BY <1>1, ClientsetAssumption DEF ClientsetTypeOK
<1>3. /\ DOMAIN to = DOMAIN from
      /\ \A n \in DOMAIN from : to[n] \in Addresses \ InUse
      /\ \A m, n \in DOMAIN from : to[m] = to[n] => m = n
  <2>1. to \in [DOMAIN from -> Addresses \ InUse]
        /\ \A m, n \in DOMAIN from : to[m] = to[n] => m = n
    BY Copies DEF List
  <2> QED BY <2>1
<1>4. \A n \in DOMAIN from : contents[n] = heap[tracker[n]] /\ contents[n] \in Contents
  BY <1>1, <1>2, SharedIs DEF Live, InUse
<1> DEFINE X == {to[n] : n \in DOMAIN to}
<1>5. \A j \in Informers, n \in Names :
        indexer'[j][n] = IF j # i THEN indexer[j][n]
                         ELSE IF n \in DOMAIN from THEN to[n] ELSE NoObject
  BY <1>1 DEF ClientsetTypeOK
<1>6. Shared' \subseteq Shared \cup X
  <2>1. \A n \in Names : tracker'[n] \in Shared \cup X \cup {NoObject}
    BY <1>1, SharedIs
  <2>2. \A j \in Informers : \A k \in DOMAIN events'[j] : events'[j][k].object \in Shared \cup X
    BY <1>1, SharedIs
  <2>3. \A j \in Informers, n \in Names : indexer'[j][n] \in Shared \cup X \cup {NoObject}
    BY <1>1, <1>3, <1>5, SharedIs
  <2> HIDE DEF X
  <2> QED BY <1>1, <2>1, <2>2, <2>3, SharedAfter
<1>7. InUse' \subseteq InUse \cup X
  BY <1>1, <1>6 DEF InUse
<1>8. /\ heap' \in [Addresses -> Contents \cup {NoObject}] /\ Live'
      /\ \A a \in InUse' : a \in InUse => heap'[a] = heap[a]
      /\ \A n \in DOMAIN to : to[n] \in InUse' => heap'[to[n]] = contents[n]
  <2>1. Write(to, contents)
    BY DEF List, WriteCopies
  <2>2. /\ \A n \in DOMAIN to : to[n] \in Addresses \ InUse /\ contents[n] \in Contents
        /\ \A m, n \in DOMAIN to : to[m] = to[n] => m = n
    BY <1>3, <1>4
  <2> HIDE DEF to, contents
  <2> QED BY <1>1, <1>7, <2>1, <2>2, Written
<1>9. ClientsetTypeOK'
  <2>1. indexer' \in [Informers -> [Names -> Object]]
    BY <1>1, <1>3 DEF ClientsetTypeOK, Object
  <2> QED BY <1>1, <1>8, <2>1 DEF ClientsetTypeOK
<1>10. Isolated'
  BY <1>1, <1>3, <1>6 DEF Isolated, InUse
<1>11. Same
  BY <1>1, <1>8, <1>9, SameContents DEF Same, Objects, Got
<1>12. ASSUME NEW n \in scope PROVE ContentsOf(indexer[i][n])' = ContentsOf(tracker[n])
  <2>1. CASE tracker[n] # NoObject
    <3>1. n \in DOMAIN from /\ indexer'[i][n] = to[n] /\ to[n] # NoObject
      BY <1>2, <1>3, <1>5, <2>1, ClientsetAssumption
    <3>2. to[n] \in InUse'
      BY <1>2, <1>3, <3>1 DEF InUse, Shared
    <3> QED BY <1>3, <1>4, <1>8, <2>1, <3>1, <3>2 DEF ContentsOf
  <2>2. CASE tracker[n] = NoObject
    BY <1>2, <1>5, <2>2 DEF ContentsOf
  <2> QED BY <2>1, <2>2
<1> QED BY <1>8, <1>9, <1>10, <1>11, <1>12 DEF Safe, Kept, InUse

LEMMA WatchStep ==
  ASSUME Safe, NEW i \in Informers, Watch(i)
  PROVE  Safe' /\ Kept /\ Same
<1>1. /\ ClientsetTypeOK /\ Live /\ Isolated
      /\ UNCHANGED <<heap, tracker, held, scope, events, indexer, missed>>
      /\ watching' = [watching EXCEPT ![i] = TRUE]
  BY DEF Safe, Watch
<1>2. Shared' = Shared /\ InUse' = InUse
  BY <1>1 DEF Shared, InUse
<1>3. ClientsetTypeOK'
  BY <1>1 DEF ClientsetTypeOK
<1> QED BY <1>1, <1>2, <1>3 DEF Safe, Live, Isolated, Kept, Same, Objects, Got, ContentsOf

LEMMA ReceiveStep ==
  ASSUME Safe, NEW i \in Informers, Receive(i)
  PROVE  Safe' /\ Kept /\ Same
<1>1. /\ ClientsetTypeOK /\ events[i] # <<>> /\ events[i] \in Seq(Event)
      /\ events' = [events EXCEPT ![i] = Tail(@)]
      /\ UNCHANGED <<tracker, held, scope, watching, missed>>
  BY DEF Safe, Receive, ClientsetTypeOK
<1> DEFINE e == Head(events[i])
           object == Carried(e)
<1>2. e \in Event /\ e.object \in Shared /\ e.name \in Names
  <2>1. 1 \in DOMAIN events[i] /\ e = events[i][1]
    BY <1>1, HeadTailProperties, EmptySeq, LenProperties
  <2> QED BY <1>1, <2>1, SharedIs DEF Event
<1>3. indexer' = [indexer EXCEPT ![i][e.name] = object]
  BY DEF Receive
<1>4. \A j \in Informers, n \in Names :
        indexer'[j][n] = IF j = i /\ n = e.name THEN object ELSE indexer[j][n]
  BY <1>1, <1>2, <1>3 DEF ClientsetTypeOK
<1>5. /\ Tail(events[i]) \in Seq(Event)
      /\ \A j \in DOMAIN Tail(events[i]) : Tail(events[i])[j].object \in Shared
  <2>1. /\ Tail(events[i]) \in Seq(Event) /\ DOMAIN Tail(events[i]) = 1..(Len(events[i]) - 1)
        /\ \A j \in 1..(Len(events[i]) - 1) : Tail(events[i])[j] = events[i][j + 1]
    BY <1>1, HeadTailProperties, LenProperties
  <2>2. \A j \in 1..(Len(events[i]) - 1) : j + 1 \in DOMAIN events[i]
    BY <1>1, LenProperties
  <2> QED BY <1>1, <2>1, <2>2, SharedIs
<1>6. \A j \in Informers : events'[j] = IF j = i THEN Tail(events[i]) ELSE events[j]
  BY <1>1 DEF ClientsetTypeOK
<1>7. Shared' \subseteq Shared
  <2>1. \A n \in Names : tracker'[n] \in Shared \cup {NoObject}
    BY <1>1, SharedIs
  <2>2. \A j \in Informers : \A k \in DOMAIN events'[j] : events'[j][k].object \in Shared
    BY <1>1, <1>5, <1>6, SharedIs
  <2>3. \A j \in Informers, n \in Names : indexer'[j][n] \in Shared \cup {NoObject}
    BY <1>1, <1>2, <1>4, SharedIs DEF Carried
  <2> QED BY <1>1, <2>1, <2>2, <2>3, SharedAfter
<1>8. /\ heap' \in [Addresses -> Contents \cup {NoObject}] /\ Live' /\ Isolated'
      /\ \A a \in InUse' : a \in InUse => heap'[a] = heap[a]
  BY <1>1, <1>7, Collected DEF Receive
<1>9. ClientsetTypeOK'
  <2>1. object \in Object
    BY <1>2 DEF Event, Object, Carried
  <2>2. indexer' \in [Informers -> [Names -> Object]]
    BY <1>1, <1>3, <2>1 DEF ClientsetTypeOK
  <2> QED BY <1>1, <1>5, <1>8, <2>2 DEF ClientsetTypeOK
<1>10. Same
  BY <1>1, <1>8, <1>9, SameContents DEF Same, Objects, Got
<1> QED BY <1>8, <1>9, <1>10 DEF Safe, Kept, InUse

-------------------------------------------------------------------------------
(* The composition: clients see values. *)

LEMMA SafeStutter ==
  ASSUME Safe, UNCHANGED clientsetVars
  PROVE  Safe' /\ Kept /\ Same
<1>1. UNCHANGED <<Shared, InUse>>
  BY DEF clientsetVars, Shared, InUse
<1> QED BY <1>1 DEF clientsetVars, Kept, Safe, ClientsetTypeOK, Live, Isolated, Same, Objects, Got, ContentsOf

LEMMA SafeNext ==
  ASSUME Safe, Next
  PROVE  Safe' /\ Kept /\ (Store!StoreNext \/ Same)
<1>1. CASE UNCHANGED clientsetVars
  BY <1>1, SafeStutter
<1>2. ASSUME NEW u \in Callers, Call(u) \/ CallerStep(u) PROVE UNCHANGED clientsetVars
  BY <1>2 DEF Call, CallerStep, InformerFor, Make, Start, Mark, WaitForCacheSync, Poll
<1>3. CASE ClientStep
  <2>1. ASSUME NEW c \in Clients, Patch(c) \/ Edit(c) PROVE Safe' /\ Kept /\ Store!StoreNext
    BY <2>1, PatchStep, EditStep DEF Store!StoreNext
  <2>2. ASSUME NEW c \in Clients, NEW n \in Names, Create(c, n) \/ Update(c, n)
        PROVE  Safe' /\ Kept /\ Store!StoreNext
    <3>1. CASE Create(c, n)
      <4>1. Safe' /\ Kept /\ Store!Create(c, n)
        BY <3>1, AddStep DEF Create
      <4> QED BY <4>1 DEF Store!StoreNext
    <3>2. CASE Update(c, n)
      <4>1. Safe' /\ Kept /\ Store!Update(c, n)
        BY <3>2, AddStep DEF Update
      <4> QED BY <4>1 DEF Store!StoreNext
    <3> QED BY <2>2, <3>1, <3>2
  <2>3. ASSUME NEW c \in Clients, NEW n \in Names, Get(c, n) PROVE Safe' /\ Kept /\ Store!StoreNext
    BY <2>3, GetStep DEF Store!StoreNext
  <2>4. ASSUME NEW n \in Names, Delete(n) PROVE Safe' /\ Kept /\ Store!StoreNext
    BY <2>4, DeleteStep DEF Store!StoreNext
  <2> QED BY <1>3, <2>1, <2>2, <2>3, <2>4 DEF ClientStep
<1>4. ASSUME NEW i \in Informers, RunList(i) \/ RunWatch(i) \/ RunReceive(i) PROVE Safe' /\ Kept /\ Same
  BY <1>4, ListStep, WatchStep, ReceiveStep DEF RunList, RunWatch, RunReceive
<1>5. CASE Stop
  BY <1>1, <1>5 DEF Stop
<1> QED BY <1>1, <1>2, <1>3, <1>4, <1>5 DEF Next

LEMMA SafeInit == Init => Safe /\ Store!StoreInit
<1> SUFFICES ASSUME Init PROVE Safe /\ Store!StoreInit
  OBVIOUS
<1>1. ClientsetTypeOK
  BY DEF Init, ClientsetInit, ClientsetTypeOK, Nothing, Object
<1>2. Shared = {} /\ InUse = {}
  <2>1. Shared = {}
    BY ClientsetAssumption DEF Init, ClientsetInit, Nothing, Shared
  <2> QED BY <2>1 DEF Init, ClientsetInit, InUse
<1>3. Live /\ Isolated
  BY <1>2 DEF Live, Isolated, Init, ClientsetInit
<1>4. Objects = Nothing /\ Got = [c \in Clients |-> NoObject]
  BY DEF Objects, Got, ContentsOf, Init, ClientsetInit, Nothing
<1>5. Store!StoreInit
  BY <1>4 DEF Objects, Got, Nothing, Store!StoreInit
<1> QED BY <1>1, <1>3, <1>5 DEF Safe

(* What a client may write to is nobody else's, whatever calls, edits, events   *)
(* and informers there are: every way into the tracker and out of it copies.   *)
THEOREM ClientsAreIsolated == Spec => []Isolated
<1>1. Safe /\ [Next]_vars => Safe'
  BY SafeNext, SafeStutter DEF vars
<1>2. Safe => Isolated
  BY DEF Safe
<1> QED BY SafeInit, <1>1, <1>2, PTL DEF Spec

(* With its pointers, copies and garbage the fake clientset implements a store  *)
(* of values.                                                               *)
THEOREM RefinesObjectStore == Spec => ImplementsObjectStore
<1>1. Safe /\ [Next]_vars => Safe' /\ [Store!StoreNext]_<<Objects, Got>>
  BY SafeNext, SafeStutter DEF Same, vars
<1>2. Safe /\ [Next]_vars => Safe'
  BY <1>1
<1>3. Safe /\ [Next]_vars
        => [Store!StoreNext]_<<[n \in Names |-> ContentsOf(tracker[n])], [c \in Clients |-> ContentsOf(held[c])]>>
  BY <1>1 DEF Objects, Got
<1> QED BY SafeInit, <1>2, <1>3, PTL DEF Spec, ImplementsObjectStore, Store!StoreSpec

-------------------------------------------------------------------------------
(* The factory. *)

FactoryTypeOK ==
  /\ lock \in Callers \cup {Nobody}
  /\ informer \in Informers \cup {NoInformer} /\ startedInformers \in BOOLEAN
  /\ runs \in [Informers -> Nat]
  /\ phase \in [Informers -> {"none", "made", "running", "listed", "watching"}]
  /\ stopped \in BOOLEAN
  /\ pc \in [Callers -> Calls \cup {"idle", "make", "mark", "poll"}]
  /\ mine \in [Callers -> Informers \cup {NoInformer}]
  /\ awaited \in [Callers -> Informers \cup {NoInformer}]
  /\ result \in [Callers -> {"unknown", "nothing", "synced", "stopped"}]
  /\ served \in SUBSET Callers
  /\ calls \in 0..MaxCalls

Runs(i) == phase[i] \in {"running", "listed", "watching"}

(* Only the holder of the lock is in the middle of InformerFor or Start; there  *)
(* is one informer, startedInformers says whether it runs, and everybody's is   *)
(* that one.                                                                *)
FactoryInv ==
  /\ FactoryTypeOK
  /\ \A u \in Callers :
       /\ pc[u] \in {"make", "mark"} => lock = u
       /\ pc[u] = "make" => informer = NoInformer
       /\ pc[u] = "mark" => informer # NoInformer /\ Runs(informer)
       /\ pc[u] = "poll" => informer # NoInformer /\ awaited[u] = informer
       /\ mine[u] # NoInformer => mine[u] = informer
       /\ u \in served => startedInformers
       /\ result[u] = "nothing" => u \notin served
       /\ result[u] = "synced" => informer # NoInformer /\ HasSynced(informer)
  /\ \A i \in Informers :
       /\ i # informer => phase[i] = "none"
       /\ runs[i] = IF Runs(i) THEN 1 ELSE 0
  /\ startedInformers => informer # NoInformer /\ Runs(informer)
  /\ informer # NoInformer /\ Runs(informer) /\ lock = Nobody => startedInformers

LEMMA FactoryStarts == Init => FactoryInv
<1> SUFFICES ASSUME FactoryInit PROVE FactoryInv
  BY DEF Init
<1>1. FactoryTypeOK
  <2>1. calls \in 0..MaxCalls
    BY FactoryAssumption DEF FactoryInit
  <2>2. runs \in [Informers -> Nat] /\ phase \in [Informers -> {"none", "made", "running", "listed", "watching"}]
    BY DEF FactoryInit
  <2> QED BY <2>1, <2>2 DEF FactoryInit, FactoryTypeOK
<1>2. \A i \in Informers : phase[i] = "none" /\ runs[i] = 0
  BY DEF FactoryInit
<1>3. \A u \in Callers : pc[u] = "idle" /\ mine[u] = NoInformer /\ result[u] = "unknown" /\ u \notin served
  BY DEF FactoryInit
<1> QED BY <1>1, <1>2, <1>3 DEF FactoryInit, FactoryInv, Runs

LEMMA FactoryNext ==
  ASSUME FactoryInv, [Next]_vars
  PROVE  FactoryInv'
<1> USE FactoryAssumption DEF FactoryInv, FactoryTypeOK, Runs, HasSynced
<1>1. ASSUME NEW u \in Callers, Call(u) PROVE FactoryInv'
  BY <1>1 DEF Call, factoryVars, informerVars, Calls
<1>2. ASSUME NEW u \in Callers, InformerFor(u) PROVE FactoryInv'
  BY <1>2 DEF InformerFor, informerVars, Goto
<1>3. ASSUME NEW u \in Callers, Make(u) PROVE FactoryInv'
  BY <1>3 DEF Make, Unmade, Goto
<1>4. ASSUME NEW u \in Callers, Start(u) PROVE FactoryInv'
  <2>1. CASE informer # NoInformer /\ ~startedInformers
    <3>1. ~Runs(informer) /\ runs[informer] = 0 /\ lock = Nobody /\ informer \in Informers
      BY <1>4, <2>1 DEF Start
    <3>2. /\ runs' = [runs EXCEPT ![informer] = @ + 1]
          /\ phase' = [phase EXCEPT ![informer] = "running"]
          /\ lock' = u /\ pc' = [pc EXCEPT ![u] = "mark"]
          /\ UNCHANGED <<served, result, informer, startedInformers, stopped, mine, awaited, calls>>
      BY <1>4, <2>1 DEF Start, Goto
    <3> QED BY <3>1, <3>2
  <2>2. CASE ~(informer # NoInformer /\ ~startedInformers)
    BY <1>4, <2>2 DEF Start, Started, Goto
  <2> QED BY <2>1, <2>2
<1>5. ASSUME NEW u \in Callers, Mark(u) PROVE FactoryInv'
  BY <1>5 DEF Mark, Started, informerVars, Goto
<1>6. ASSUME NEW u \in Callers, WaitForCacheSync(u) PROVE FactoryInv'
  BY <1>6 DEF WaitForCacheSync, factoryVars, informerVars, Goto
<1>7. ASSUME NEW u \in Callers, Poll(u) PROVE FactoryInv'
  BY <1>7 DEF Poll, factoryVars, informerVars, Goto
<1>8. ASSUME NEW i \in Informers, RunList(i) \/ RunWatch(i) \/ RunReceive(i) PROVE FactoryInv'
  BY <1>8 DEF RunList, RunWatch, RunReceive, Advance, factoryVars, callerVars
<1>9. CASE ClientStep
  BY <1>9 DEF ClientStep, factoryVars, informerVars, callerVars
<1>10. CASE Stop
  BY <1>10 DEF Stop, factoryVars, callerVars
<1>11. CASE UNCHANGED vars
  BY <1>11 DEF vars, factoryVars, informerVars, callerVars
<1> QED BY <1>1, <1>2, <1>3, <1>4, <1>5, <1>6, <1>7, <1>8, <1>9, <1>10, <1>11 DEF Next, CallerStep

(* Start never runs an informer a second time, whoever calls it when. *)
THEOREM InformersRunOnce == Spec => []RunOnce
<1>1. FactoryInv => RunOnce
  BY DEF FactoryInv, FactoryTypeOK, RunOnce
<1> QED BY <1>1, FactoryStarts, FactoryNext, PTL DEF Spec

(* Whoever waits after a Start of its own waits for its own informer. *)
THEOREM WaitsAreForMine == Spec => []WaitCoversMine
<1>1. FactoryInv => WaitCoversMine
  BY DEF FactoryInv, FactoryTypeOK, WaitCoversMine, HasSynced
<1> QED BY <1>1, FactoryStarts, FactoryNext, PTL DEF Spec

(* The variables of the stack have their types. *)
THEOREM TypeCorrect == Spec => []TypeOK
<1>1. Safe /\ [Next]_vars => Safe'
  BY SafeNext, SafeStutter DEF vars
<1>2. Safe /\ FactoryInv => TypeOK
  BY DEF Safe, FactoryInv, FactoryTypeOK, TypeOK
<1> QED BY <1>1, <1>2, SafeInit, FactoryStarts, FactoryNext, PTL DEF Spec

-------------------------------------------------------------------------------
(* What listers give. *)

(* Nothing on n happens to informer i. *)
LEMMA FollowsSame ==
  ASSUME Safe, Safe', Kept, NEW i \in Informers, NEW n \in Names, Follows(i, n),
         tracker'[n] = tracker[n], indexer'[i][n] = indexer[i][n],
         \/ events'[i] = events[i]
         \/ \E e \in Event : e.name # n /\ events'[i] = Append(events[i], e)
  PROVE  Follows(i, n)'
<1>1. ClientsetTypeOK /\ ClientsetTypeOK' /\ events[i] \in Seq(Event)
  BY DEF Safe, ClientsetTypeOK
<1>2. ASSUME NEW a, a = NoObject \/ (a \in Shared /\ a \in Shared')
      PROVE  (IF a = NoObject THEN NoObject ELSE heap'[a]) = ContentsOf(a)
  BY <1>2 DEF ContentsOf, Kept
<1>3. ContentsOf(tracker[n])' = ContentsOf(tracker[n])
  BY <1>1, <1>2 DEF ContentsOf, Shared, ClientsetTypeOK, Object
<1>4. ContentsOf(ListerGet(i, n))' = ContentsOf(ListerGet(i, n))
  <2>1. indexer[i][n] = NoObject \/ (indexer[i][n] \in Shared /\ indexer[i][n] \in Shared')
    BY <1>1 DEF Shared, ClientsetTypeOK, Object
  <2> QED BY <1>2, <2>1 DEF ContentsOf, ListerGet
<1>5. /\ \A j \in DOMAIN events[i] : j \in DOMAIN events'[i] /\ events'[i][j] = events[i][j]
      /\ \A j \in DOMAIN events'[i] : events'[i][j].name = n => j \in DOMAIN events[i]
  <2>1. CASE events'[i] = events[i]
    BY <2>1
  <2>2. ASSUME NEW e \in Event, e.name # n, events'[i] = Append(events[i], e)
        PROVE  <1>5!1 /\ <1>5!2
    BY <1>1, <2>2, AppendProperties, LenProperties
  <2> QED BY <2>1, <2>2
<1>6. ASSUME NEW j \in DOMAIN events[i]
      PROVE  ContentsOf(Carried(events[i][j]))' = ContentsOf(Carried(events[i][j]))
  <2>1. events[i][j] \in Event /\ events[i][j].object \in Addresses
    BY <1>1, SharedIs DEF Event
  <2>2. events[i][j].object \in Shared /\ events[i][j].object \in Shared'
    BY <1>5, <2>1 DEF Shared
  <2> QED BY <1>2, <1>5, <2>2 DEF ContentsOf, Carried
<1>7. {j \in DOMAIN events'[i] : events'[i][j].name = n} = {j \in DOMAIN events[i] : events[i][j].name = n}
  BY <1>5
<1> QED BY <1>3, <1>4, <1>5, <1>6, <1>7 DEF Follows

FollowInv ==
  /\ Safe
  /\ \A i \in Informers : IF phase[i] = "watching" THEN watching[i]
                         ELSE ~watching[i] /\ events[i] = <<>>
  /\ ListerFollows

(* The watchers get the object now stored for n. *)
LEMMA NotifiedFollows ==
  ASSUME FollowInv, Safe', Kept, NEW n \in Names, NEW type \in {"ADDED", "MODIFIED", "DELETED"},
         NEW object \in Addresses, Notify(n, type, object),
         \A m \in Names : m # n => tracker'[m] = tracker[m],
         tracker'[n] = IF type = "DELETED" THEN NoObject ELSE object,
         UNCHANGED <<scope, watching, indexer, phase>>
  PROVE  FollowInv'
<1> DEFINE e == [type |-> type, name |-> n, object |-> object]
<1>1. /\ Safe /\ ClientsetTypeOK /\ e \in Event /\ scope \subseteq Names
      /\ \A i \in Informers : events[i] \in Seq(Event)
  BY ClientsetAssumption DEF FollowInv, Safe, ClientsetTypeOK, Event
<1>2. \A i \in Informers :
        /\ events'[i] = IF watching[i] /\ n \in scope THEN Append(events[i], e) ELSE events[i]
        /\ missed'[i] = IF watching[i] THEN missed[i] \ {n} ELSE missed[i] \cup {n}
  BY DEF Notify
<1>3. \A i \in Informers : IF phase'[i] = "watching" THEN watching'[i]
                         ELSE ~watching'[i] /\ events'[i] = <<>>
  BY <1>2 DEF FollowInv
<1>4. ASSUME NEW i \in Informers, HasSynced(i)', NEW m \in scope' \ missed'[i]
      PROVE  Follows(i, m)'
  <2>1. m \in Names /\ m \in scope /\ HasSynced(i)
    BY <1>1, <1>4 DEF HasSynced
  <2>2. CASE m # n
    <3>1. m \notin missed[i]
      BY <1>2, <1>4, <2>2
    <3>2. Follows(i, m)
      BY <2>1, <3>1 DEF FollowInv, ListerFollows
    <3>3. \/ events'[i] = events[i]
          \/ \E d \in Event : d.name # m /\ events'[i] = Append(events[i], d)
      BY <1>1, <1>2, <2>2
    <3> QED BY <1>1, <2>1, <2>2, <3>2, <3>3, FollowsSame
  <2>3. CASE m = n
    <3>1. watching[i] /\ events'[i] = Append(events[i], e)
      BY <1>2, <1>4, <2>1, <2>3
    <3> DEFINE l == Len(events[i]) + 1
    <3>2. /\ DOMAIN events'[i] = 1..l /\ events'[i][l] = e /\ l \in Nat /\ l > 0
      BY <1>1, <3>1, AppendProperties, LenProperties
    <3>3. \A j \in 1..l : l <= j => j = l
      BY <3>2
    <3>4. l \in {j \in DOMAIN events'[i] : events'[i][j].name = n}
      BY <3>2
    <3>5. Carried(e)' = tracker'[n]
      BY DEF Carried
    <3>6. ContentsOf(Carried(e))' = ContentsOf(tracker[n])'
      BY <3>5 DEF ContentsOf
    <3> HIDE DEF l
    <3>7. ASSUME NEW j \in {k \in DOMAIN events'[i] : events'[i][k].name = n},
                 \A k \in {k \in DOMAIN events'[i] : events'[i][k].name = n} : k <= j
          PROVE  ContentsOf(Carried(events[i][j]))' = ContentsOf(tracker[n])'
      <4>1. j = l
        BY <3>2, <3>3, <3>4, <3>7
      <4>2. events'[i][j] = e
        BY <3>2, <4>1
      <4> QED BY <3>5, <4>2 DEF ContentsOf, Carried
    <3> QED BY <2>3, <3>4, <3>7 DEF Follows
  <2> QED BY <2>2, <2>3
<1> QED BY <1>3, <1>4 DEF FollowInv, ListerFollows

(* The next event arrives. *)
LEMMA ReceiveFollows ==
  ASSUME FollowInv, Safe', Kept, NEW i \in Informers, phase[i] = "watching", Receive(i),
         UNCHANGED phase
  PROVE  FollowInv'
<1> DEFINE e == Head(events[i])
           l == Len(events[i])
<1>1. /\ Safe /\ ClientsetTypeOK /\ ClientsetTypeOK' /\ scope \subseteq Names
      /\ events[i] # <<>> /\ events[i] \in Seq(Event)
      /\ UNCHANGED <<tracker, held, scope, watching, missed>>
  BY ClientsetAssumption DEF FollowInv, Safe, ClientsetTypeOK, Receive
<1>2. /\ \A j \in Informers : events'[j] = IF j = i THEN Tail(events[i]) ELSE events[j]
      /\ \A j \in Informers, n \in Names :
           indexer'[j][n] = IF j = i /\ n = e.name THEN Carried(e) ELSE indexer[j][n]
  BY <1>1 DEF Receive, ClientsetTypeOK
<1>3. /\ l \in Nat /\ l > 0 /\ DOMAIN events[i] = 1..l /\ e = events[i][1]
      /\ DOMAIN events'[i] = 1..(l - 1)
      /\ \A j \in 1..(l - 1) : events'[i][j] = events[i][j + 1]
  <2>1. l \in Nat /\ l > 0 /\ DOMAIN events[i] = 1..l
    BY <1>1, EmptySeq, LenProperties
  <2>2. e = events[i][1]
    BY <1>1, HeadTailProperties
  <2>3. /\ Tail(events[i]) \in Seq(Event) /\ Len(Tail(events[i])) = l - 1
        /\ \A j \in 1..(l - 1) : Tail(events[i])[j] = events[i][j + 1]
    BY <1>1, HeadTailProperties
  <2>4. DOMAIN Tail(events[i]) = 1..(l - 1)
    BY <2>3, LenProperties
  <2>5. events'[i] = Tail(events[i])
    BY <1>2
  <2> QED BY <2>1, <2>2, <2>3, <2>4, <2>5
<1>4. \A j \in Informers : IF phase'[j] = "watching" THEN watching'[j]
                         ELSE ~watching'[j] /\ events'[j] = <<>>
  BY <1>1, <1>2 DEF FollowInv
<1>5. ASSUME NEW j \in Informers, HasSynced(j)', NEW n \in scope' \ missed'[j]
      PROVE  Follows(j, n)'
  <2>1. n \in Names /\ Follows(j, n)
    BY <1>1, <1>5 DEF HasSynced, FollowInv, ListerFollows
  <2>2. CASE j # i
    BY <1>1, <1>2, <2>1, <2>2, FollowsSame
  <2>3. CASE j = i
    <3>1. ASSUME NEW a, a = NoObject \/ (a \in Shared /\ a \in Shared')
          PROVE  (IF a = NoObject THEN NoObject ELSE heap'[a]) = ContentsOf(a)
      BY <3>1 DEF ContentsOf, Kept
    <3>2. ContentsOf(tracker[n])' = ContentsOf(tracker[n])
      BY <1>1, <2>1, <3>1 DEF ContentsOf, Shared, ClientsetTypeOK, Object
    <3>3. ASSUME {k \in DOMAIN events'[i] : events'[i][k].name = n} = {}
          PROVE  ContentsOf(ListerGet(i, n))' = ContentsOf(tracker[n])
      <4>1. \A k \in 1..(l - 1) : events[i][k + 1].name # n
        BY <1>3, <3>3
      <4>2. \A k \in 2..l : k - 1 \in 1..(l - 1) /\ (k - 1) + 1 = k
        BY <1>3
      <4>3. \A k \in 2..l : events[i][k].name # n
        BY <4>1, <4>2
      <4>4. indexer'[i][n] = NoObject \/ (indexer'[i][n] \in Shared')
        BY <1>1, <2>1 DEF Shared, ClientsetTypeOK, Object
      <4>5. CASE e.name = n
        <5>1. 1 \in {k \in DOMAIN events[i] : events[i][k].name = n}
          BY <1>3, <4>5
        <5>2. \A k \in {m \in DOMAIN events[i] : events[i][m].name = n} : k <= 1
          BY <1>3, <4>3
        <5>3. ContentsOf(Carried(e)) = ContentsOf(tracker[n])
          BY <1>3, <2>1, <2>3, <5>1, <5>2 DEF Follows
        <5>4. indexer'[i][n] = Carried(e)
          BY <1>2, <2>1, <4>5
        <5>5. Carried(e) = NoObject \/ Carried(e) \in Shared
          BY <1>1, <1>3, SharedIs DEF Carried
        <5> QED BY <3>1, <4>4, <5>3, <5>4, <5>5 DEF ContentsOf, ListerGet
      <4>6. CASE e.name # n
        <5>1. {k \in DOMAIN events[i] : events[i][k].name = n} = {}
          <6>1. \A k \in 1..l : k = 1 \/ k \in 2..l
            BY <1>3
          <6> QED BY <1>3, <4>3, <4>6, <6>1
        <5>2. ContentsOf(ListerGet(i, n)) = ContentsOf(tracker[n])
          BY <2>1, <2>3, <5>1 DEF Follows
        <5>3. indexer'[i][n] = indexer[i][n]
          BY <1>2, <2>1, <4>6
        <5>4. indexer[i][n] = NoObject \/ indexer[i][n] \in Shared
          BY <1>1, <2>1 DEF Shared, ClientsetTypeOK, Object
        <5> QED BY <3>1, <4>4, <5>2, <5>3, <5>4 DEF ContentsOf, ListerGet
      <4> QED BY <4>5, <4>6
    <3>4. ASSUME NEW k \in {m \in DOMAIN events'[i] : events'[i][m].name = n},
                 \A m \in {x \in DOMAIN events'[i] : events'[i][x].name = n} : m <= k
          PROVE  ContentsOf(Carried(events[i][k]))' = ContentsOf(tracker[n])
      <4>1. k \in 1..(l - 1) /\ k + 1 \in 1..l /\ events'[i][k] = events[i][k + 1]
            /\ events[i][k + 1].name = n
        BY <1>3, <3>4
      <4>2. \A m \in {x \in DOMAIN events[i] : events[i][x].name = n} : m <= k + 1
        <5> SUFFICES ASSUME NEW m \in 1..l, events[i][m].name = n PROVE m <= k + 1
          BY <1>3
        <5>1. CASE m = 1
          BY <1>3, <4>1, <5>1
        <5>2. CASE m # 1
          <6>1. m - 1 \in 1..(l - 1) /\ (m - 1) + 1 = m
            BY <1>3, <5>2
          <6>2. events'[i][m - 1] = events[i][m]
            BY <1>3, <6>1
          <6>3. m - 1 <= k
            BY <1>3, <3>4, <6>1, <6>2
          <6> QED BY <1>3, <4>1, <6>3
        <5> QED BY <5>1, <5>2
      <4>3. ContentsOf(Carried(events[i][k + 1])) = ContentsOf(tracker[n])
        BY <1>3, <2>1, <2>3, <4>1, <4>2 DEF Follows
      <4>4. events[i][k + 1] \in Event /\ events[i][k + 1].object \in Shared
        BY <1>1, <1>3, <4>1, SharedIs
      <4>5. events[i][k + 1].object \in Shared'
        BY <1>3, <3>4, <4>1, <4>4 DEF Shared, Event
      <4> QED BY <3>1, <4>1, <4>3, <4>4, <4>5 DEF ContentsOf, Carried
    <3> QED BY <2>3, <3>2, <3>3, <3>4 DEF Follows
  <2> QED BY <2>2, <2>3
<1> QED BY <1>4, <1>5 DEF FollowInv, ListerFollows

(* Nothing the lister's answers depend on changes, but what a new watcher will get. *)
LEMMA UnchangedFollows ==
  ASSUME FollowInv, Safe', Kept, UNCHANGED <<tracker, scope, events, indexer, missed>>,
         \A i \in Informers : HasSynced(i)' = HasSynced(i),
         \A i \in Informers : IF phase'[i] = "watching" THEN watching'[i]
                            ELSE ~watching'[i] /\ events'[i] = <<>>
  PROVE  FollowInv'
<1>1. ASSUME NEW i \in Informers, HasSynced(i)', NEW n \in scope' \ missed'[i]
      PROVE  Follows(i, n)'
  <2>1. n \in Names /\ Follows(i, n)
    BY <1>1, ClientsetAssumption DEF FollowInv, ListerFollows, Safe, ClientsetTypeOK
  <2> QED BY <2>1, FollowsSame DEF FollowInv
<1> QED BY <1>1 DEF FollowInv, ListerFollows

LEMMA FollowNext ==
  ASSUME FollowInv, FactoryInv, [Next]_vars
  PROVE  FollowInv'
<1>1. Safe /\ Safe' /\ Kept /\ ClientsetTypeOK /\ FactoryTypeOK
  BY SafeNext, SafeStutter DEF FollowInv, FactoryInv, Safe, vars
<1>2. CASE UNCHANGED <<clientsetVars, phase>>
  BY <1>1, <1>2, UnchangedFollows DEF clientsetVars, HasSynced, FollowInv
<1>3. ASSUME NEW i \in Informers, phase[i] \in {"none", "made"}, phase'[i] \in {"made", "running"},
             \A j \in Informers : j # i => phase'[j] = phase[j], UNCHANGED clientsetVars
      PROVE  FollowInv'
  BY <1>1, <1>3, UnchangedFollows DEF clientsetVars, HasSynced, FollowInv
<1>4. ASSUME NEW u \in Callers, Make(u) PROVE FollowInv'
  BY <1>1, <1>3, <1>4 DEF Make, Unmade, FactoryTypeOK
<1>5. ASSUME NEW u \in Callers, Start(u) PROVE FollowInv'
  <2>1. CASE informer # NoInformer /\ ~startedInformers
    <3>1. informer \in Informers /\ phase[informer] \in {"none", "made"}
      BY <1>5, <2>1 DEF Start, FactoryInv, FactoryTypeOK, Runs
    <3> QED BY <1>1, <1>3, <1>5, <2>1, <3>1 DEF Start, FactoryTypeOK
  <2>2. CASE ~(informer # NoInformer /\ ~startedInformers)
    BY <1>2, <1>5, <2>2 DEF Start
  <2> QED BY <2>1, <2>2
<1>6. ASSUME NEW u \in Callers, \/ Call(u) \/ InformerFor(u) \/ Mark(u)
                               \/ WaitForCacheSync(u) \/ Poll(u)
      PROVE  FollowInv'
  BY <1>2, <1>6 DEF Call, InformerFor, Mark, WaitForCacheSync, Poll, informerVars
<1>7. CASE Stop
  BY <1>2, <1>7 DEF Stop
<1>8. CASE UNCHANGED vars
  BY <1>2, <1>8 DEF vars, informerVars
<1>9. CASE ClientStep
  <2>1. UNCHANGED phase
    BY <1>9 DEF ClientStep, informerVars
  <2>2. ASSUME NEW c \in Clients, \/ Patch(c) \/ Edit(c) \/ \E n \in Names : Get(c, n)
        PROVE  FollowInv'
    BY <1>1, <2>1, <2>2, UnchangedFollows DEF Patch, Edit, Get, HasSynced, FollowInv
  <2>3. ASSUME NEW c \in Clients, NEW n \in Names, NEW replaceExisting \in BOOLEAN,
               Add(c, n, replaceExisting)
        PROVE  FollowInv'
    <3> DEFINE stored == DeepCopy([r \in {"stored", "reply"} |-> held[c]])["stored"]
               type == IF replaceExisting THEN "MODIFIED" ELSE "ADDED"
    <3>1. stored \in Addresses
      BY <2>3, Copies DEF Add
    <3>2. /\ tracker' = [tracker EXCEPT ![n] = stored] /\ Notify(n, type, stored)
          /\ UNCHANGED <<scope, watching, indexer>>
      BY <2>3 DEF Add
    <3>3. type \in {"ADDED", "MODIFIED", "DELETED"} /\ type # "DELETED"
      OBVIOUS
    <3> HIDE DEF stored, type
    <3> QED BY <1>1, <2>1, <3>1, <3>2, <3>3, NotifiedFollows DEF ClientsetTypeOK
  <2>4. ASSUME NEW n \in Names, Delete(n) PROVE FollowInv'
    <3>1. /\ tracker[n] \in Addresses /\ tracker' = [tracker EXCEPT ![n] = NoObject]
          /\ Notify(n, "DELETED", tracker[n]) /\ UNCHANGED <<scope, watching, indexer>>
      BY <1>1, <2>4 DEF Delete, ClientsetTypeOK, Object
    <3> QED BY <1>1, <2>1, <3>1, NotifiedFollows DEF ClientsetTypeOK
  <2> QED BY <1>9, <2>2, <2>3, <2>4 DEF ClientStep, Create, Update
<1>10. ASSUME NEW i \in Informers, RunList(i) PROVE FollowInv'
  <2>1. /\ List(i) /\ phase[i] = "running" /\ phase' = [phase EXCEPT ![i] = "listed"]
        /\ UNCHANGED <<tracker, scope, watching, events>>
    BY <1>10 DEF RunList, Advance, List
  <2>2. /\ \A n \in scope : ContentsOf(indexer[i][n])' = ContentsOf(tracker[n])
        /\ \A n \in Names : ContentsOf(tracker[n])' = ContentsOf(tracker[n])
    <3>1. Same /\ \A n \in scope : ContentsOf(indexer[i][n])' = ContentsOf(tracker[n])
      BY <1>1, <2>1, ListStep
    <3>2. ASSUME NEW n \in Names PROVE ContentsOf(tracker[n])' = ContentsOf(tracker[n])
      <4>1. Objects'[n] = Objects[n]
        BY <3>1 DEF Same
      <4> QED BY <4>1 DEF Objects
    <3> QED BY <3>1, <3>2
  <2>3. \A j \in Informers : j # i => indexer'[j] = indexer[j] /\ missed'[j] = missed[j]
    BY <1>1, <2>1 DEF List, ClientsetTypeOK
  <2>4. ASSUME NEW j \in Informers, HasSynced(j)', NEW n \in scope' \ missed'[j]
        PROVE  Follows(j, n)'
    <3>1. n \in Names /\ n \in scope
      BY <1>1, <2>1, <2>4, ClientsetAssumption DEF ClientsetTypeOK
    <3>2. CASE j # i
      <4>1. Follows(j, n)
        BY <1>1, <2>1, <2>3, <2>4, <3>1, <3>2 DEF HasSynced, FactoryTypeOK, FollowInv, ListerFollows
      <4> QED BY <1>1, <2>1, <2>3, <3>1, <3>2, <4>1, FollowsSame
    <3>3. CASE j = i
      <4>1. events'[i] = <<>>
        BY <2>1 DEF FollowInv
      <4>2. DOMAIN events'[i] = {}
        BY <4>1
      <4>3. ContentsOf(ListerGet(i, n))' = ContentsOf(tracker[n])'
        BY <2>2, <3>1 DEF ListerGet
      <4> QED BY <3>3, <4>2, <4>3 DEF Follows
    <3> QED BY <3>2, <3>3
  <2>5. \A j \in Informers : IF phase'[j] = "watching" THEN watching'[j]
                           ELSE ~watching'[j] /\ events'[j] = <<>>
    BY <1>1, <2>1 DEF FactoryTypeOK, FollowInv
  <2> QED BY <1>1, <2>4, <2>5 DEF FollowInv, ListerFollows
<1>11. ASSUME NEW i \in Informers, RunWatch(i) PROVE FollowInv'
  <2>1. /\ UNCHANGED <<heap, tracker, scope, events, indexer, missed>>
        /\ watching' = [watching EXCEPT ![i] = TRUE]
        /\ phase[i] = "listed" /\ phase' = [phase EXCEPT ![i] = "watching"]
    BY <1>11 DEF RunWatch, Advance, Watch
  <2>2. \A j \in Informers : IF phase'[j] = "watching" THEN watching'[j]
                           ELSE ~watching'[j] /\ events'[j] = <<>>
    BY <1>1, <2>1 DEF FactoryTypeOK, ClientsetTypeOK, FollowInv
  <2>3. \A j \in Informers : HasSynced(j)' = HasSynced(j)
    BY <1>1, <2>1 DEF FactoryTypeOK, HasSynced
  <2> QED BY <1>1, <2>1, <2>2, <2>3, UnchangedFollows
<1>12. ASSUME NEW i \in Informers, RunReceive(i) PROVE FollowInv'
  <2>1. Receive(i) /\ phase[i] = "watching" /\ phase' = [phase EXCEPT ![i] = "watching"]
    BY <1>12 DEF RunReceive, Advance
  <2>2. UNCHANGED phase
    BY <1>1, <2>1 DEF FactoryTypeOK
  <2> QED BY <1>1, <2>1, <2>2, ReceiveFollows
<1> QED
  BY <1>4, <1>5, <1>6, <1>7, <1>8, <1>9, <1>10, <1>11, <1>12 DEF Next, CallerStep

(* A synced informer's lister gives what is stored, save for what changed in    *)
(* the gap between List and Watch and for what is on its way.                  *)
THEOREM ListersFollow == Spec => []ListerFollows
<1>1. Init => FollowInv
  <2> SUFFICES ASSUME Init PROVE FollowInv
    OBVIOUS
  <2>1. Safe
    BY SafeInit
  <2>2. \A i \in Informers : phase[i] = "none" /\ ~watching[i] /\ events[i] = <<>>
    BY DEF Init, ClientsetInit, FactoryInit
  <2> QED BY <2>1, <2>2 DEF FollowInv, ListerFollows, HasSynced
<1>2. FollowInv => ListerFollows
  BY DEF FollowInv
<1> QED BY <1>1, <1>2, FollowNext, FactoryStarts, FactoryNext, PTL DEF Spec
===============================================================================
