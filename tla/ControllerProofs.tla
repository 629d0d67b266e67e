---------------------------- MODULE ControllerProofs --------------------------
(***************************************************************************)
(* Proofs about Controller, for any templates, ConfigMaps, pods and workers *)
(* and any number of changes, faults, late calls and restarts: no two       *)
(* workers process the same template, and the informers lose no version of   *)
(* an object.                                                              *)
(***************************************************************************)
EXTENDS Controller, SequenceTheorems, FiniteSetTheorems, TLAPS

USE DEF serverVars, informerVars, clusterVars, queueVars, workerVars, ghostVars, budgetVars

-------------------------------------------------------------------------------
(* Mutual exclusion.  A worker has a key exactly while it is not idle, so the *)
(* key Take assigns was free.                                               *)
WorkerInv ==
  /\ pc \in [Workers -> {"idle", "lookup", "find", "render", "done", "failed"}]
  /\ key \in [Workers -> Templates \cup {NoTemplate}]
  /\ \A w \in Workers : pc[w] = "idle" <=> key[w] = NoTemplate

ExclusionInv == WorkerInv /\ Exclusive

LEMMA ExclusionInit == Init => ExclusionInv
BY ControllerAssumption DEF Init, Q!Init, FreshWorkers, ExclusionInv, WorkerInv, Exclusive

LEMMA TakeExclusive ==
  ASSUME ExclusionInv, NEW w \in Workers, NEW t \in Templates, Take(w, t)
  PROVE  ExclusionInv'
<1> USE DEF ExclusionInv
<1>1. /\ pc[w] = "idle" /\ t \notin processing
      /\ processing' = processing \cup {t}
      /\ pc' = [pc EXCEPT ![w] = "lookup"]
      /\ key' = [key EXCEPT ![w] = t]
  BY DEF Take, Q!Get
<1>2. t # NoTemplate /\ key[w] = NoTemplate
  BY <1>1, ControllerAssumption DEF WorkerInv
<1>3. \A v \in Workers : key'[v] = IF v = w THEN t ELSE key[v]
  BY <1>1 DEF WorkerInv
<1>4. \A v \in Workers : key[v] # t
  BY <1>1, <1>2 DEF Exclusive
<1>5. WorkerInv'
  BY <1>1, <1>2 DEF WorkerInv
<1>6. processing' = {key'[v] : v \in Workers} \ {NoTemplate}
  BY <1>1, <1>2, <1>3 DEF Exclusive
<1>7. Exclusive'
  BY <1>3, <1>4, <1>6 DEF Exclusive
<1> QED BY <1>5, <1>7

LEMMA FinishExclusive ==
  ASSUME ExclusionInv, NEW w \in Workers, Finish(w)
  PROVE  ExclusionInv'
<1> USE DEF ExclusionInv
<1>1. /\ key[w] # NoTemplate
      /\ processing' = processing \ {key[w]}
      /\ pc' = [pc EXCEPT ![w] = "idle"]
      /\ key' = [key EXCEPT ![w] = NoTemplate]
  BY DEF Finish, Q!Done, WorkerInv
<1>2. \A v \in Workers : key'[v] = IF v = w THEN NoTemplate ELSE key[v]
  BY <1>1 DEF WorkerInv
<1>3. \A v \in Workers : v # w => key[v] # key[w]
  BY <1>1 DEF Exclusive
<1>4. WorkerInv'
  BY <1>1 DEF WorkerInv
<1>5. Exclusive'
  BY <1>1, <1>2, <1>3 DEF Exclusive
<1> QED BY <1>4, <1>5

(* The other steps of a sync change where the worker is, not what it holds. *)
LEMMA SyncExclusive ==
  ASSUME ExclusionInv, NEW w \in Workers, Sync(w)
  PROVE  ExclusionInv'
<1> USE DEF ExclusionInv
<1>1. CASE LookupTemplate(w)
  BY <1>1 DEF LookupTemplate, WorkerInv, Exclusive
<1>2. CASE FindConfigMap(w)
  BY <1>2 DEF FindConfigMap, WorkerInv, Exclusive
<1>3. CASE \E d \in DataKeys : RenderKey(w, d)
  BY <1>3 DEF RenderKey, WorkerInv, Exclusive
<1>4. CASE Write(w)
  <2>1. /\ pc[w] = "render" /\ UNCHANGED <<key, processing>>
        /\ pc' = [pc EXCEPT ![w] = "done"] \/ pc' = [pc EXCEPT ![w] = "failed"]
    BY <1>4 DEF Write, ReadyToWrite
  <2> QED BY <2>1 DEF WorkerInv, Exclusive
<1> QED BY <1>1, <1>2, <1>3, <1>4, FinishExclusive DEF Sync

LEMMA ExclusionStep == ExclusionInv /\ [Next]_vars => ExclusionInv'
<1> SUFFICES ASSUME ExclusionInv, [Next]_vars PROVE ExclusionInv'
  OBVIOUS
<1> DEFINE Same == UNCHANGED <<pc, key, processing>>
<1>1. CASE Same
  BY <1>1 DEF ExclusionInv, WorkerInv, Exclusive
<1>2. CASE UNCHANGED vars
  BY <1>1, <1>2 DEF vars
<1>3. CASE (Others \/ Informers) /\ ProcessUnchanged
  BY <1>1, <1>3 DEF ProcessUnchanged
<1>4. ASSUME NEW k \in Kinds, Handle(k) PROVE ExclusionInv'
  BY <1>1, <1>4 DEF Handle, Q!AddRateLimited
<1>5. ASSUME NEW t \in Templates, Ready(t) PROVE ExclusionInv'
  BY <1>1, <1>5 DEF Ready, Q!Ready
<1>6. CASE StartWorkers \/ Stop \/ ReturnFromRun
  BY <1>1, <1>6 DEF StartWorkers, Stop, ReturnFromRun, Q!ShutDown
<1>7. ASSUME NEW r \in wire, Arrive(r) PROVE ExclusionInv'
  BY <1>1, <1>7 DEF Arrive
<1>8. CASE Exit \/ Crash
  <2>1. /\ pc' = [w \in Workers |-> "idle"] /\ key' = [w \in Workers |-> NoTemplate]
        /\ processing' = {}
    BY <1>8 DEF Exit, Crash, NewProcess
  <2> QED BY <2>1 DEF ExclusionInv, WorkerInv, Exclusive
<1> QED
  BY <1>2, <1>3, <1>4, <1>5, <1>6, <1>7, <1>8, TakeExclusive, SyncExclusive DEF Next, Process

(* controller.go:84-88: no two workers ever process the same template, before *)
(* or after a restart, and the queue has locked exactly what they process.    *)
THEOREM MutualExclusion == Spec => []Exclusive
<1>1. ExclusionInv => Exclusive
  BY DEF ExclusionInv
<1> QED BY <1>1, ExclusionInit, ExclusionStep, PTL DEF Spec

-------------------------------------------------------------------------------
(* Types.  A worker that is past its lookup holds a template that names a     *)
(* ConfigMap, which is what makes a write well formed.                       *)
TypeInv ==
  /\ TypeOK
  /\ WorkerInv
  /\ \A w \in Workers : pc[w] \in {"find", "render"} =>
       tmpl[w] \in Template /\ tmpl[w].configMapName \in ConfigMaps

LEMMA ValuesOf ==
  /\ \A t \in Templates : Values(t) = {Absent} \cup Template /\ Kind(t) = "ConfigMapTemplate"
  /\ \A c \in ConfigMaps : Values(c) = {Absent} \cup ConfigMap /\ Kind(c) = "ConfigMap"
  /\ \A p \in Pods : Values(p) = {Absent} \cup PodStates /\ Kind(p) = "Pod"
  /\ \A o \in Objects : Absent \in Values(o) /\ Kind(o) \in Kinds
BY ClusterAssumption DEF Values, Kind, Kinds, Objects

LEMMA TypeInit == Init => TypeInv
<1> SUFFICES ASSUME Init PROVE TypeInv
  OBVIOUS
<1> USE DEF Init, ClusterInit, FreshInformers, FreshWorkers, Q!Init
<1>1. version \in Nat
  BY ClusterAssumption, FS_CardinalityType
<1>2. \A o \in Objects : server[o] \in Values(o)
  BY ClusterAssumption DEF Sound
<1>3. \A o \in Objects : cache[o] \in Values(o) /\ deltas[o] \in Seq(Values(o))
  BY ValuesOf, EmptySeq
<1>4. /\ DOMAIN server = Objects
      /\ \A o \in Objects : past[o] \in Seq(Values(o)) /\ Len(past[o]) <= MaxLag
  BY ClusterAssumption, EmptySeq DEF Sound
<1>5. DOMAIN notes = Kinds /\ \A k \in Kinds : notes[k] \in Seq(NotesOf(k))
  BY EmptySeq
<1>6. ClusterTypeOK
  BY <1>1, <1>2, <1>3, <1>4, <1>5, ClusterAssumption DEF ClusterTypeOK
<1>7. out \in [Workers -> [DataKeys -> Rendered \cup {Dropped, Pending}]]
  BY DEF NoOutput
<1>8. Q!TypeOK
  <2>1. 0 \in 0..MaxWaiting
    BY ControllerAssumption
  <2>2. waiting \in [Templates -> 0..MaxWaiting]
    BY <2>1
  <2> QED BY <2>2, Zenon DEF Q!TypeOK
<1>9. /\ tmpl \in [Workers -> Template \cup {Absent}]
      /\ written \in [Templates -> Nat]
      /\ faults \in 0..MaxFaults /\ restarts \in 0..MaxRestarts
  BY ControllerAssumption
<1>10. WorkerInv
  BY ExclusionInit DEF ExclusionInv
<1>11. TypeOK
  BY <1>6, <1>7, <1>8, <1>9, <1>10 DEF TypeOK, WorkerInv
<1> QED BY <1>10, <1>11 DEF TypeInv

(* The versions a List may be answered with stay few. *)
LEMMA LatestType ==
  ASSUME ClusterTypeOK, NEW o \in Objects
  PROVE  LET p == Latest(Append(past[o], server[o])) IN
         p \in Seq(Values(o)) /\ Len(p) <= MaxLag
<1> DEFINE all == Append(past[o], server[o])
<1>1. all \in Seq(Values(o)) /\ all # <<>> /\ Len(all) <= MaxLag + 1 /\ Len(all) \in Nat
  BY AppendProperties, ClusterAssumption DEF ClusterTypeOK
<1>2. Tail(all) \in Seq(Values(o)) /\ Len(Tail(all)) = Len(all) - 1
  BY <1>1, HeadTailProperties
<1> QED BY <1>1, <1>2, ClusterAssumption DEF Latest

(* A server object becomes another value of its type. *)
LEMMA PutType ==
  ASSUME ClusterTypeOK, NEW o \in Objects, NEW v \in Values(o), Put(o, v)
  PROVE  /\ DOMAIN server' = Objects /\ DOMAIN deltas' = Objects /\ DOMAIN past' = Objects
         /\ \A x \in Objects : server'[x] \in Values(x) /\ deltas'[x] \in Seq(Values(x))
         /\ \A x \in Objects : past'[x] \in Seq(Values(x)) /\ Len(past'[x]) <= MaxLag
         /\ \A x \in Objects : deltas[x] # <<>> => deltas'[x] # <<>>
<1> USE DEF ClusterTypeOK
<1>1. DOMAIN server' = Objects /\ \A x \in Objects : server'[x] = IF x = o THEN v ELSE server[x]
  BY DEF Put
<1>2. DOMAIN past' = Objects /\ \A x \in Objects : past'[x] \in Seq(Values(x)) /\ Len(past'[x]) <= MaxLag
  BY LatestType DEF Put
<1>3. CASE Kind(o) \notin listed
  BY <1>1, <1>2, <1>3 DEF Put
<1>4. CASE Kind(o) \in listed
  <2>1. /\ DOMAIN deltas' = Objects
        /\ \A x \in Objects : deltas'[x] = IF x = o THEN Append(deltas[o], v) ELSE deltas[x]
    BY <1>4 DEF Put
  <2>2. Append(deltas[o], v) \in Seq(Values(o)) /\ Append(deltas[o], v) # <<>>
    BY AppendProperties
  <2> QED BY <1>1, <1>2, <2>1, <2>2
<1> QED BY <1>3, <1>4

LEMMA PutClusterType ==
  ASSUME ClusterTypeOK, NEW o \in Objects, NEW v \in Values(o), Put(o, v),
         version' \in Nat, changes' \in 0..MaxChanges, UNCHANGED informerVars
  PROVE  ClusterTypeOK'
<1>1. /\ DOMAIN server' = Objects /\ DOMAIN deltas' = Objects /\ DOMAIN past' = Objects
      /\ \A x \in Objects : server'[x] \in Values(x) /\ deltas'[x] \in Seq(Values(x))
      /\ \A x \in Objects : past'[x] \in Seq(Values(x)) /\ Len(past'[x]) <= MaxLag
      /\ \A x \in Objects : deltas[x] # <<>> => deltas'[x] # <<>>
  BY PutType
<1> QED BY <1>1 DEF ClusterTypeOK

(* Every change others make is a Put of a value of the object's type. *)
LEMMA OthersPut ==
  ASSUME ClusterTypeOK, Others
  PROVE  /\ \E o \in Objects : \E v \in Values(o) : Put(o, v)
         /\ version' \in Nat /\ changes' \in 0..MaxChanges /\ UNCHANGED informerVars
<1> DEFINE Goal == /\ \E o \in Objects : \E v \in Values(o) : Put(o, v)
                   /\ version' \in Nat /\ changes' \in 0..MaxChanges
                   /\ UNCHANGED informerVars
<1>1. ASSUME NEW o \in Objects, NEW v \in Values(o), NEW kind, Change(o, v, kind),
             version' \in Nat
      PROVE  Goal
  BY <1>1, ClusterAssumption DEF Change, ClusterTypeOK
<1> USE DEF Objects
<1>2. version \in Nat /\ version + 1 \in Nat
  BY DEF ClusterTypeOK
<1>3. \A o \in Objects : server[o] \in Values(o)
  BY DEF ClusterTypeOK
<1>4. ASSUME NEW t \in Templates, CreateTemplate(t) PROVE Goal
  <2>1. PICK name \in Names(t), data \in [DataKeys -> Texts] :
          Change(t, [uid |-> version', rv |-> version', configMapName |-> name, data |-> data],
                 "createTemplate")
    BY <1>4 DEF CreateTemplate
  <2>2. version' \in Nat
    BY <1>2, <1>4 DEF CreateTemplate
  <2>3. [uid |-> version', rv |-> version', configMapName |-> name, data |-> data] \in Values(t)
    BY <2>2, ValuesOf DEF Template, Names
  <2> QED BY <1>1, <2>1, <2>2, <2>3
<1>5. ASSUME NEW t \in Templates, EditTemplate(t) PROVE Goal
  <2>1. PICK name \in Names(t), data \in [DataKeys -> Texts] :
          Change(t, [server[t] EXCEPT !.rv = version', !.configMapName = name, !.data = data],
                 "editTemplate")
    BY <1>5 DEF EditTemplate
  <2>2. version' \in Nat /\ server[t] \in Template
    BY <1>2, <1>3, <1>5, ValuesOf DEF EditTemplate
  <2>3. [server[t] EXCEPT !.rv = version', !.configMapName = name, !.data = data] \in Values(t)
    BY <2>2, ValuesOf DEF Template, Names
  <2> QED BY <1>1, <2>1, <2>2, <2>3
<1>6. ASSUME NEW t \in Templates, DeleteTemplate(t) PROVE Goal
  BY <1>1, <1>2, <1>6, ValuesOf DEF DeleteTemplate
<1>7. ASSUME NEW c \in ConfigMaps, CreateForeign(c) PROVE Goal
  <2>1. [owner |-> NoOwner, data |-> [d \in DataKeys |-> Tampered]] \in Values(c)
    BY ValuesOf DEF ConfigMap
  <2> QED BY <1>1, <1>2, <1>7, <2>1 DEF CreateForeign
<1>8. ASSUME NEW c \in ConfigMaps, TamperWith(c) PROVE Goal
  <2>1. server[c] \in ConfigMap
    BY <1>3, <1>8, ValuesOf DEF TamperWith
  <2>2. [server[c] EXCEPT !.data = [d \in DataKeys |-> Tampered]] \in Values(c)
    BY <2>1, ValuesOf DEF ConfigMap
  <2> QED BY <1>1, <1>2, <1>8, <2>2 DEF TamperWith
<1>9. ASSUME NEW c \in ConfigMaps, Disown(c) PROVE Goal
  <2>1. server[c] \in ConfigMap
    BY <1>3, <1>9, ValuesOf DEF Disown
  <2>2. [server[c] EXCEPT !.owner = NoOwner] \in Values(c)
    BY <2>1, ValuesOf DEF ConfigMap
  <2> QED BY <1>1, <1>2, <1>9, <2>2 DEF Disown
<1>10. ASSUME NEW c \in ConfigMaps, DeleteConfigMap(c) PROVE Goal
  BY <1>1, <1>2, <1>10, ValuesOf DEF DeleteConfigMap
<1>11. ASSUME NEW c \in ConfigMaps, CollectGarbage(c) PROVE Goal
  BY <1>2, <1>11, ValuesOf DEF CollectGarbage, ClusterTypeOK
<1>12. ASSUME NEW p \in Pods, ChangePod(p) PROVE Goal
  BY <1>1, <1>2, <1>12, ValuesOf DEF ChangePod
<1> QED
  BY <1>4, <1>5, <1>6, <1>7, <1>8, <1>9, <1>10, <1>11, <1>12 DEF Others

LEMMA OthersType ==
  ASSUME ClusterTypeOK, Others
  PROVE  ClusterTypeOK'
BY OthersPut, PutClusterType

(* What a List that is n versions behind brings of object o. *)
LEMMA SinceIs ==
  ASSUME ClusterTypeOK, NEW o \in Objects, NEW n \in 0..Len(past[o])
  PROVE  /\ Since(o, n) \in Seq(Values(o)) /\ Len(Since(o, n)) = n + 1
         /\ Since(o, n) # <<>> /\ Since(o, n)[n + 1] = server[o]
         /\ \A i \in 1..(n + 1) :
              Since(o, n)[i] = Append(past[o], server[o])[Len(past[o]) - n + i]
<1> DEFINE all == Append(past[o], server[o])
           l == Len(past[o])
<1>1. /\ past[o] \in Seq(Values(o)) /\ server[o] \in Values(o)
      /\ l \in Nat /\ n \in Nat /\ n <= l
  BY DEF ClusterTypeOK
<1>2. all \in Seq(Values(o)) /\ Len(all) = l + 1 /\ all[l + 1] = server[o]
  BY <1>1, AppendProperties
<1> HIDE DEF all, l
<1> DEFINE lo == l + 1 - n
           hi == l + 1
           s == SubSeq(all, lo, hi)
<1>3. \A i \in lo..hi : all[i] \in Values(o)
  BY <1>1, <1>2, ElementOfSeq
<1>4. /\ lo \in Int /\ hi \in Int /\ lo <= hi /\ hi - lo + 1 = n + 1
      /\ \A i \in 1..(n + 1) : lo + i - 1 = l - n + i
  BY <1>1
<1> HIDE DEF lo, hi
<1>5. /\ s \in Seq(Values(o))
      /\ Len(s) = IF lo <= hi THEN hi - lo + 1 ELSE 0
      /\ \A i \in 1..(hi - lo + 1) : s[i] = all[lo + i - 1]
  BY <1>3, <1>4, SubSeqProperties
<1> HIDE DEF s
<1>6. Len(s) = n + 1
  BY <1>4, <1>5
<1>7. s \in Seq(Values(o)) /\ Len(s) = n + 1 /\ \A i \in 1..(n + 1) : s[i] = all[l - n + i]
  BY <1>4, <1>5, <1>6
<1>8. s[n + 1] = server[o]
  <2>1. n + 1 \in 1..(n + 1) /\ l - n + (n + 1) = l + 1
    BY <1>1
  <2> QED BY <1>2, <1>7, <2>1
<1>9. s # <<>>
  BY <1>1, <1>7, EmptySeq
<1>10. Since(o, n) = s
  BY DEF Since, all, l, s, lo, hi
<1> QED BY <1>7, <1>8, <1>9, <1>10 DEF all, l

(* A List takes each object of its kind from some time on. *)
LEMMA ListIs ==
  ASSUME ClusterTypeOK, NEW k \in Kinds, List(k)
  PROVE  /\ k \notin listed /\ listed' = listed \cup {k}
         /\ UNCHANGED <<serverVars, cache, notes>>
         /\ DOMAIN deltas' = Objects /\ initial' \in SUBSET (Objects \cup initial)
         /\ \A o \in Objects :
              Kind(o) # k => deltas'[o] = deltas[o] /\ (o \in initial' <=> o \in initial)
         /\ \A o \in Objects : Kind(o) = k =>
              \E n \in 0..Len(past[o]) :
                \/ Since(o, n)[1] # Absent /\ o \in initial' /\ deltas'[o] = Since(o, n)
                \/ /\ Since(o, n)[1] = Absent /\ (o \in initial' <=> o \in initial)
                   /\ deltas'[o] = Tail(Since(o, n))
<1>1. PICK lag \in [{o \in Objects : Kind(o) = k} -> 0..MaxLag] :
        LET found == {o \in DOMAIN lag : Since(o, lag[o])[1] # Absent} IN
        /\ \A o \in DOMAIN lag : lag[o] <= Len(past[o])
        /\ initial' = initial \cup found
        /\ deltas' = [o \in Objects |-> IF o \notin DOMAIN lag THEN deltas[o]
                                      ELSE IF o \in found THEN Since(o, lag[o])
                                      ELSE Tail(Since(o, lag[o]))]
  BY DEF List
<1> DEFINE found == {o \in DOMAIN lag : Since(o, lag[o])[1] # Absent}
<1>2. DOMAIN lag = {o \in Objects : Kind(o) = k}
  OBVIOUS
<1>3. \A o \in DOMAIN lag : lag[o] \in 0..Len(past[o])
  BY <1>1 DEF ClusterTypeOK
<1>4. initial' = initial \cup found
  BY <1>1
<1>5. /\ DOMAIN deltas' = Objects
      /\ \A o \in Objects : deltas'[o] = IF o \notin DOMAIN lag THEN deltas[o]
                                         ELSE IF o \in found THEN Since(o, lag[o])
                                         ELSE Tail(Since(o, lag[o]))
  BY <1>1
<1> HIDE DEF Since
<1>6. ASSUME NEW o \in Objects, Kind(o) = k
      PROVE  \E n \in 0..Len(past[o]) :
               \/ Since(o, n)[1] # Absent /\ o \in initial' /\ deltas'[o] = Since(o, n)
               \/ /\ Since(o, n)[1] = Absent /\ (o \in initial' <=> o \in initial)
                  /\ deltas'[o] = Tail(Since(o, n))
  <2>1. o \in DOMAIN lag /\ lag[o] \in 0..Len(past[o])
    BY <1>2, <1>3, <1>6
  <2>2. CASE Since(o, lag[o])[1] # Absent
    BY <1>4, <1>5, <2>1, <2>2
  <2>3. CASE Since(o, lag[o])[1] = Absent
    BY <1>4, <1>5, <2>1, <2>3
  <2> QED BY <2>2, <2>3
<1>7. k \notin listed /\ listed' = listed \cup {k} /\ UNCHANGED <<serverVars, cache, notes>>
  BY DEF List
<1>8. ASSUME NEW o \in Objects, Kind(o) # k
      PROVE  deltas'[o] = deltas[o] /\ (o \in initial' <=> o \in initial)
  <2>1. o \notin DOMAIN lag /\ o \notin found
    BY <1>2, <1>8
  <2> QED BY <1>4, <1>5, <2>1
<1>9. initial' \in SUBSET (Objects \cup initial)
  BY <1>2, <1>4
<1> HIDE DEF found
<1> QED BY <1>5, <1>6, <1>7, <1>8, <1>9, Zenon

LEMMA InformersType ==
  ASSUME ClusterTypeOK, Informers
  PROVE  ClusterTypeOK'
<1> USE DEF ClusterTypeOK
<1>1. ASSUME NEW k \in Kinds, List(k) PROVE ClusterTypeOK'
  <2>1. ASSUME NEW o \in Objects PROVE deltas'[o] \in Seq(Values(o))
    <3>1. CASE Kind(o) # k
      BY <1>1, <3>1, ListIs
    <3>2. CASE Kind(o) = k
      <4>1. PICK n \in 0..Len(past[o]) : deltas'[o] \in {Since(o, n), Tail(Since(o, n))}
        BY <1>1, <3>2, ListIs
      <4>2. Since(o, n) \in Seq(Values(o)) /\ Since(o, n) # <<>>
        BY SinceIs
      <4>3. Tail(Since(o, n)) \in Seq(Values(o))
        BY <4>2, HeadTailProperties
      <4> QED BY <4>1, <4>2, <4>3
    <3> QED BY <3>1, <3>2
  <2>2. ASSUME NEW o \in initial' PROVE Kind(o) \in listed' /\ deltas'[o] # <<>>
    <3>1. o \in Objects /\ listed' = listed \cup {k} /\ (o \in initial => deltas[o] # <<>>)
      BY <1>1, <2>2, ListIs
    <3>2. CASE Kind(o) # k
      BY <1>1, <2>2, <3>1, <3>2, ListIs
    <3>3. CASE Kind(o) = k
      <4>1. o \notin initial
        BY <1>1, <3>3, ListIs
      <4>2. PICK n \in 0..Len(past[o]) : deltas'[o] = Since(o, n)
        BY <1>1, <2>2, <3>1, <3>3, <4>1, ListIs
      <4> QED BY <1>1, <3>1, <3>3, <4>2, SinceIs
    <3> QED BY <3>2, <3>3
  <2> QED BY <1>1, <2>1, <2>2, ListIs
<1>2. ASSUME NEW o \in Objects, Deliver(o) PROVE ClusterTypeOK'
  <2> DEFINE v == Head(deltas[o])
             note == NoteFor(o, v)
  <2>1. /\ deltas[o] # <<>>
        /\ notes' = [notes EXCEPT ![Kind(o)] = Append(@, note)]
        /\ cache' = [cache EXCEPT ![o] = v]
        /\ deltas' = [deltas EXCEPT ![o] = Tail(@)]
        /\ initial' = initial \ {o}
        /\ UNCHANGED <<serverVars, listed>>
    BY <1>2 DEF Deliver
  <2>2. v \in Values(o) /\ Tail(deltas[o]) \in Seq(Values(o)) /\ Kind(o) \in Kinds
    BY <2>1, HeadTailProperties, ValuesOf
  <2>3. note \in [obj : {o}, val : Values(o), type : {"set", "delete", "resync"}]
    BY <2>2 DEF NoteFor
  <2>4. note \in NotesOf(Kind(o))
    BY <2>3 DEF NotesOf
  <2>5. Append(notes[Kind(o)], note) \in Seq(NotesOf(Kind(o)))
    BY <2>2, <2>4, AppendProperties
  <2>6. DOMAIN notes' = Kinds /\ \A k \in Kinds : notes'[k] \in Seq(NotesOf(k))
    BY <2>1, <2>5
  <2> QED BY <2>1, <2>2, <2>6
<1>3. ASSUME NEW o \in Objects, Resync(o) PROVE ClusterTypeOK'
  <2> DEFINE note == [obj |-> o, val |-> cache[o], type |-> "resync"]
  <2>1. /\ notes' = [notes EXCEPT ![Kind(o)] = <<note>>]
        /\ UNCHANGED <<serverVars, deltas, listed, initial, cache>>
    BY <1>3 DEF Resync
  <2>2. note \in NotesOf(Kind(o))
    BY DEF NotesOf
  <2>3. <<note>> \in Seq(NotesOf(Kind(o)))
    BY <2>2
  <2>4. DOMAIN notes' = Kinds /\ \A k \in Kinds : notes'[k] \in Seq(NotesOf(k))
    BY <2>1, <2>3
  <2> QED BY <2>1, <2>4
<1> QED BY <1>1, <1>2, <1>3 DEF Informers

(* What a text gives when it is executed on the pods of a store. *)
LEMMA ResultType ==
  ASSUME NEW store, \A p \in Pods : store[p] \in PodStates \cup {Absent},
         NEW ns, NEW text \in Texts, NEW r \in Results(text, PodsIn(store, ns))
  PROVE  r \in Rendered \cup {Dropped}
<1>1. PodsIn(store, ns) \in View /\ NoPods \in View
  BY DEF PodsIn, NoPods, View
<1>2. CASE text = "plain" \/ text = "pods"
  BY <1>1, <1>2 DEF Results, Rendered
<1>3. CASE text = "first"
  <2>1. \A p \in Pods : [NoPods EXCEPT ![p] = PodsIn(store, ns)[p]] \in View
    BY <1>1 DEF View
  <2> QED BY <1>3, <2>1 DEF Results, Rendered
<1>4. CASE text = "bad"
  BY <1>4 DEF Results
<1> QED BY <1>2, <1>3, <1>4, ClusterAssumption

(* Requests the queue keeps or merges never exceed MaxWaiting. *)
LEMMA HandleType ==
  ASSUME TypeInv, NEW k \in Kinds, Handle(k)
  PROVE  TypeInv'
<1> USE DEF TypeInv, TypeOK
<1>1. /\ notes[k] # <<>> /\ notes' = [notes EXCEPT ![k] = Tail(@)]
      /\ UNCHANGED <<serverVars, deltas, listed, initial, cache, phase, workerVars, wire,
                     ghostVars, budgetVars, dirty, processing, shuttingDown>>
  BY DEF Handle, Q!AddRateLimited
<1>2. Tail(notes[k]) \in Seq(NotesOf(k))
  BY <1>1, HeadTailProperties DEF ClusterTypeOK
<1>3. DOMAIN notes' = Kinds /\ \A j \in Kinds : notes'[j] \in Seq(NotesOf(j))
  BY <1>1, <1>2 DEF ClusterTypeOK
<1>4. ClusterTypeOK'
  BY <1>1, <1>3 DEF ClusterTypeOK
<1>5. waiting' \in [Templates -> 0..MaxWaiting]
  <2>1. PICK T \in SUBSET Enqueued(k, Head(notes[k])) :
          /\ waiting' = [t \in Templates |-> IF t \in T THEN waiting[t] + 1 ELSE waiting[t]]
          /\ \A t \in T : waiting[t] < MaxWaiting
    BY DEF Handle, Q!AddRateLimited, Q!Requested
  <2>2. waiting \in [Templates -> 0..MaxWaiting]
    BY Zenon DEF Q!TypeOK
  <2>3. \A t \in Templates : waiting'[t] \in 0..MaxWaiting
    BY <2>1, <2>2, ControllerAssumption
  <2> QED BY <2>1, <2>3
<1>6. Q!TypeOK'
  BY <1>1, <1>5, Zenon DEF Q!TypeOK
<1> QED BY <1>1, <1>4, <1>6 DEF WorkerInv

LEMMA ReadyType ==
  ASSUME TypeInv, NEW t \in Templates, Ready(t)
  PROVE  TypeInv'
<1> USE DEF TypeInv, TypeOK
<1>1. /\ waiting[t] > 0 /\ waiting' = [waiting EXCEPT ![t] = @ - 1]
      /\ dirty' = (IF shuttingDown THEN dirty ELSE dirty \cup {t})
      /\ UNCHANGED <<clusterVars, phase, workerVars, wire, ghostVars, budgetVars,
                     processing, shuttingDown>>
  BY DEF Ready, Q!Ready, Q!Added
<1>2. waiting \in [Templates -> 0..MaxWaiting]
  BY Zenon DEF Q!TypeOK
<1>3. waiting' \in [Templates -> 0..MaxWaiting]
  BY <1>1, <1>2, ControllerAssumption
<1>4. dirty' \in SUBSET Templates
  BY <1>1 DEF Q!TypeOK
<1>5. Q!TypeOK'
  BY <1>1, <1>3, <1>4, Zenon DEF Q!TypeOK
<1>6. ClusterTypeOK'
  BY <1>1 DEF ClusterTypeOK
<1> QED BY <1>1, <1>5, <1>6 DEF WorkerInv

LEMMA TakeType ==
  ASSUME TypeInv, NEW w \in Workers, NEW t \in Templates, Take(w, t)
  PROVE  TypeInv'
<1> USE DEF TypeInv, TypeOK
<1>1. /\ dirty' = dirty \ {t} /\ processing' = processing \cup {t}
      /\ pc' = [pc EXCEPT ![w] = "lookup"] /\ key' = [key EXCEPT ![w] = t]
      /\ UNCHANGED <<clusterVars, phase, tmpl, op, out, wire, ghostVars, budgetVars,
                     waiting, shuttingDown>>
  BY DEF Take, Q!Get
<1>2. ClusterTypeOK'
  BY <1>1 DEF ClusterTypeOK
<1>3. Q!TypeOK'
  BY <1>1, Zenon DEF Q!TypeOK
<1>4. WorkerInv'
  BY <1>1, ControllerAssumption DEF WorkerInv
<1> QED BY <1>1, <1>2, <1>3, <1>4

(* What a worker reads from the caches has its type. *)
LEMMA ReadType ==
  ASSUME TypeInv, NEW w \in Workers,
         LookupTemplate(w) \/ FindConfigMap(w) \/ \E d \in DataKeys : RenderKey(w, d)
  PROVE  TypeInv'
<1> USE DEF TypeInv, TypeOK, Objects
<1>1. UNCHANGED <<clusterVars, queueVars, phase, key, wire, ghostVars, budgetVars>>
  BY DEF LookupTemplate, FindConfigMap, RenderKey
<1>2. ClusterTypeOK' /\ Q!TypeOK'
  <2>1. ClusterTypeOK'
    BY <1>1 DEF ClusterTypeOK
  <2>2. Q!TypeOK'
    BY <1>1, Zenon DEF Q!TypeOK
  <2> QED BY <2>1, <2>2
<1>3. CASE LookupTemplate(w)
  <2>1. key[w] \in Templates
    BY <1>3 DEF LookupTemplate, WorkerInv
  <2>2. cache[key[w]] \in Template \cup {Absent}
    BY <2>1, ValuesOf DEF ClusterTypeOK
  <2>3. CASE cache[key[w]] = Absent \/ cache[key[w]].configMapName = NoName
    BY <1>1, <1>2, <1>3, <2>3 DEF LookupTemplate, WorkerInv
  <2>4. CASE ~(cache[key[w]] = Absent \/ cache[key[w]].configMapName = NoName)
    <3>1. cache[key[w]] \in Template /\ cache[key[w]].configMapName \in ConfigMaps
      BY <2>2, <2>4 DEF Template
    <3>2. /\ pc' = [pc EXCEPT ![w] = "find"] /\ tmpl' = [tmpl EXCEPT ![w] = cache[key[w]]]
          /\ UNCHANGED <<op, out>>
      BY <1>3, <2>4 DEF LookupTemplate
    <3>3. pc[w] = "lookup"
      BY <1>3 DEF LookupTemplate
    <3> QED BY <1>1, <1>2, <3>1, <3>2, <3>3 DEF WorkerInv
  <2> QED BY <2>3, <2>4
<1>4. CASE FindConfigMap(w)
  <2>1. /\ pc[w] = "find" /\ UNCHANGED <<tmpl, out>>
        /\ \/ pc' = [pc EXCEPT ![w] = "render"]
              /\ op' \in {[op EXCEPT ![w] = "create"], [op EXCEPT ![w] = "update"]}
           \/ pc' = [pc EXCEPT ![w] = "failed"] /\ op' = op
    BY <1>4 DEF FindConfigMap
  <2> QED BY <1>1, <1>2, <2>1 DEF WorkerInv
<1>5. ASSUME NEW d \in DataKeys, RenderKey(w, d) PROVE TypeInv'
  <2>1. PICK r \in Results(tmpl[w].data[d], PodsIn(cache, NS[key[w]])) :
          out' = [out EXCEPT ![w] = [out[w] EXCEPT ![d] = r]]
    BY <1>5 DEF RenderKey
  <2>2. pc[w] = "render" /\ UNCHANGED <<pc, tmpl, op>>
    BY <1>5 DEF RenderKey
  <2>3. tmpl[w].data[d] \in Texts
    BY <2>2 DEF Template
  <2>4. \A p \in Pods : cache[p] \in PodStates \cup {Absent}
    BY ValuesOf DEF ClusterTypeOK
  <2>5. r \in Rendered \cup {Dropped}
    BY <2>1, <2>3, <2>4, ResultType
  <2>6. out' \in [Workers -> [DataKeys -> Rendered \cup {Dropped, Pending}]]
    BY <2>1, <2>5
  <2> QED BY <1>1, <1>2, <2>2, <2>6 DEF WorkerInv
<1> QED BY <1>3, <1>4, <1>5

(* What a worker writes when every text has been executed. *)
LEMMA WritesConfigMap ==
  ASSUME TypeInv, NEW w \in Workers, ReadyToWrite(w)
  PROVE  /\ tmpl[w].configMapName \in Objects /\ key[w] \in Templates
         /\ NewConfigMap(w) \in Values(tmpl[w].configMapName) /\ NewConfigMap(w) \in ConfigMap
         /\ Request(w) \in Requests
<1>1. /\ tmpl[w] \in Template /\ tmpl[w].configMapName \in ConfigMaps
      /\ key[w] \in Templates
  BY DEF ReadyToWrite, TypeInv, WorkerInv
<1>2. ControllerRef(key[w], tmpl[w]) \in OwnerRef
  BY <1>1 DEF ControllerRef, OwnerRef, Template
<1>3. out[w] \in [DataKeys -> Rendered \cup {Dropped, Tampered}]
  BY DEF ReadyToWrite, TypeInv, TypeOK
<1>4. NewConfigMap(w) \in ConfigMap
  BY <1>2, <1>3 DEF NewConfigMap, ConfigMap
<1>5. Request(w) \in Requests
  BY <1>1, <1>4, ControllerAssumption DEF Request, Requests, TypeInv, TypeOK
<1> QED BY <1>1, <1>4, <1>5, ValuesOf DEF Objects

(* What the API server does with a request. *)
LEMMA ApplyIs ==
  ASSUME NEW r \in Requests, Apply(r)
  PROVE  /\ r.name \in ConfigMaps /\ r.name \in Objects
         /\ r.value \in ConfigMap /\ r.value \in Values(r.name)
         /\ \/ Accepted(r) /\ server[r.name] # r.value /\ Put(r.name, r.value)
            \/ ~(Accepted(r) /\ server[r.name] # r.value) /\ UNCHANGED <<server, past, deltas>>
<1>1. r.name \in ConfigMaps /\ r.value \in ConfigMap
  BY DEF Requests
<1> QED BY <1>1, ValuesOf DEF Apply, Objects

LEMMA ApplyType ==
  ASSUME ClusterTypeOK, NEW r \in Requests, Apply(r), UNCHANGED <<version, changes, informerVars>>
  PROVE  ClusterTypeOK'
<1>1. version' \in Nat /\ changes' \in 0..MaxChanges
  BY DEF ClusterTypeOK
<1>2. CASE UNCHANGED <<server, past, deltas>>
  BY <1>2 DEF ClusterTypeOK
<1>3. CASE Put(r.name, r.value)
  BY <1>1, <1>3, ApplyIs, PutClusterType
<1> QED BY <1>2, <1>3, ApplyIs

(* A write that is applied puts a ConfigMap of the template's. *)
LEMMA WriteType ==
  ASSUME TypeInv, NEW w \in Workers, Write(w)
  PROVE  TypeInv'
<1> USE DEF TypeInv, TypeOK
<1>1. /\ pc[w] = "render" /\ ReadyToWrite(w)
      /\ pc' = [pc EXCEPT ![w] = "done"] \/ pc' = [pc EXCEPT ![w] = "failed"]
      /\ UNCHANGED <<version, changes, informerVars, queueVars, phase, key, tmpl, op, out,
                     failed, restarts>>
      /\ faults' = faults \/ (faults < MaxFaults /\ faults' = faults + 1)
      /\ Apply(Request(w)) \/ UNCHANGED <<server, past, deltas>>
      /\ wire' = wire \/ wire' = wire \cup {Request(w)}
      /\ written' = written \/ written' = [written EXCEPT ![key[w]] = tmpl[w].rv]
  BY DEF Write, ReadyToWrite, Fault
<1>2. WorkerInv'
  BY <1>1 DEF WorkerInv
<1>3. Q!TypeOK'
  BY <1>1, Zenon DEF Q!TypeOK
<1>4. faults' \in 0..MaxFaults
  BY <1>1, ControllerAssumption
<1>5. key[w] \in Templates /\ Request(w) \in Requests /\ tmpl[w].rv \in Nat
  BY <1>1, WritesConfigMap DEF WorkerInv, Template
<1>6. wire' \in SUBSET Requests /\ written' \in [Templates -> Nat]
  BY <1>1, <1>5
<1>7. ClusterTypeOK'
  <2>1. CASE Apply(Request(w))
    BY <1>1, <1>5, <2>1, ApplyType
  <2>2. CASE UNCHANGED <<server, past, deltas>>
    BY <1>1, <2>2 DEF ClusterTypeOK
  <2> QED BY <1>1, <2>1, <2>2
<1> QED BY <1>1, <1>2, <1>3, <1>4, <1>6, <1>7 DEF WorkerInv

(* Nor does a call that comes late put anything else. *)
LEMMA ArriveType ==
  ASSUME TypeInv, NEW r \in wire, Arrive(r)
  PROVE  TypeInv'
<1> USE DEF TypeInv, TypeOK
<1>1. /\ r \in Requests /\ Apply(r) /\ wire' \in SUBSET Requests
      /\ UNCHANGED <<version, changes, informerVars, queueVars, phase, workerVars, ghostVars,
                     budgetVars>>
  BY DEF Arrive
<1>2. ClusterTypeOK'
  BY <1>1, ApplyType
<1>3. Q!TypeOK'
  BY <1>1, Zenon DEF Q!TypeOK
<1> QED BY <1>1, <1>2, <1>3 DEF WorkerInv

LEMMA FinishType ==
  ASSUME TypeInv, NEW w \in Workers, Finish(w)
  PROVE  TypeInv'
<1> USE DEF TypeInv, TypeOK
<1>1. /\ key[w] \in Templates
      /\ processing' = processing \ {key[w]}
      /\ failed' = failed \cup {key[w]} \/ failed' = failed \ {key[w]}
      /\ pc' = [pc EXCEPT ![w] = "idle"] /\ key' = [key EXCEPT ![w] = NoTemplate]
      /\ tmpl' = [tmpl EXCEPT ![w] = Absent] /\ op' = [op EXCEPT ![w] = "create"]
      /\ out' = [out EXCEPT ![w] = NoOutput]
      /\ UNCHANGED <<clusterVars, phase, wire, written, budgetVars, waiting, dirty, shuttingDown>>
  BY DEF Finish, Q!Done, WorkerInv
<1>2. ClusterTypeOK'
  BY <1>1 DEF ClusterTypeOK
<1>3. Q!TypeOK'
  BY <1>1, Zenon DEF Q!TypeOK
<1>4. WorkerInv'
  BY <1>1 DEF WorkerInv
<1>5. out' \in [Workers -> [DataKeys -> Rendered \cup {Dropped, Pending}]]
  BY <1>1 DEF NoOutput
<1>6. failed' \in SUBSET Templates
  BY <1>1
<1> QED BY <1>1, <1>2, <1>3, <1>4, <1>5, <1>6 DEF WorkerInv

(* A new process starts as the first one did. *)
LEMMA ProcessType ==
  ASSUME TypeInv, Process
  PROVE  TypeInv'
<1> USE DEF TypeInv, TypeOK
<1>1. CASE StartWorkers \/ Stop \/ ReturnFromRun
  <2>1. /\ UNCHANGED <<clusterVars, workerVars, wire, ghostVars, faults, waiting, dirty, processing>>
        /\ phase' \in {"running", "aborting", "aborted", "stopping", "returned"}
        /\ shuttingDown' = shuttingDown \/ shuttingDown' = TRUE
        /\ restarts' = restarts \/ (restarts < MaxRestarts /\ restarts' = restarts + 1)
    BY <1>1 DEF StartWorkers, Stop, ReturnFromRun, Q!ShutDown
  <2>2. restarts' \in 0..MaxRestarts
    BY <2>1, ControllerAssumption
  <2>3. ClusterTypeOK'
    BY <2>1 DEF ClusterTypeOK
  <2>4. Q!TypeOK'
    BY <2>1, Zenon DEF Q!TypeOK
  <2> QED BY <2>1, <2>2, <2>3, <2>4 DEF WorkerInv
<1>2. CASE Exit \/ Crash
  <2>1. NewProcess /\ (restarts' = restarts \/ (restarts < MaxRestarts /\ restarts' = restarts + 1))
    BY <1>2 DEF Exit, Crash
  <2>2. restarts' \in 0..MaxRestarts
    BY <2>1, ControllerAssumption
  <2>3. ClusterTypeOK'
    <3>1. \A o \in Objects : cache'[o] \in Values(o) /\ deltas'[o] \in Seq(Values(o))
      BY <2>1, ValuesOf, EmptySeq DEF NewProcess
    <3>2. \A k \in Kinds : notes'[k] \in Seq(NotesOf(k))
      BY <2>1, EmptySeq DEF NewProcess
    <3> QED BY <2>1, <3>1, <3>2 DEF NewProcess, ClusterTypeOK
  <2>4. Q!TypeOK'
    <3>1. 0 \in 0..MaxWaiting
      BY ControllerAssumption
    <3>2. waiting' \in [Templates -> 0..MaxWaiting]
      BY <2>1, <3>1 DEF NewProcess
    <3> QED BY <2>1, <3>2, Zenon DEF NewProcess, Q!TypeOK
  <2>5. WorkerInv'
    BY <2>1 DEF NewProcess, WorkerInv
  <2>6. out' \in [Workers -> [DataKeys -> Rendered \cup {Dropped, Pending}]]
    BY <2>1 DEF NewProcess, NoOutput
  <2> QED BY <2>1, <2>2, <2>3, <2>4, <2>5, <2>6 DEF NewProcess
<1> QED BY <1>1, <1>2 DEF Process

LEMMA TypeStep == TypeInv /\ [Next]_vars => TypeInv'
<1> SUFFICES ASSUME TypeInv, [Next]_vars PROVE TypeInv'
  OBVIOUS
<1>1. ASSUME ProcessUnchanged, ClusterTypeOK' PROVE TypeInv'
  <2>1. Q!TypeOK'
    BY <1>1, Zenon DEF ProcessUnchanged, TypeInv, TypeOK, Q!TypeOK
  <2> QED BY <1>1, <2>1 DEF ProcessUnchanged, TypeInv, TypeOK, WorkerInv
<1>2. CASE UNCHANGED vars
  <2>1. ClusterTypeOK' /\ ProcessUnchanged
    BY <1>2 DEF vars, ProcessUnchanged, TypeInv, TypeOK, ClusterTypeOK
  <2> QED BY <1>1, <2>1
<1>3. CASE (Others \/ Informers) /\ ProcessUnchanged
  <2>1. ClusterTypeOK'
    BY <1>3, OthersType, InformersType DEF TypeInv, TypeOK
  <2> QED BY <1>1, <1>3, <2>1
<1>4. ASSUME NEW w \in Workers, Sync(w) PROVE TypeInv'
  BY <1>4, ReadType, WriteType, FinishType DEF Sync
<1> QED
  BY <1>2, <1>3, <1>4, HandleType, ReadyType, TakeType, ArriveType, ProcessType DEF Next

(* Every variable has its type: what syncHandler writes is a ConfigMap with   *)
(* the template's controller reference and every key executed or left out.    *)
THEOREM TypeCorrect == Spec => []TypeOK
<1>1. TypeInv => TypeOK
  BY DEF TypeInv
<1> QED BY <1>1, TypeInit, TypeStep, PTL DEF Spec

-------------------------------------------------------------------------------
(* The informers.  CacheFollows says nothing of a kind that is not listed; the *)
(* first List needs that its cache is empty then.                            *)
UnlistedEmpty ==
  \A o \in Objects : Kind(o) \notin listed => cache[o] = Absent /\ deltas[o] = <<>>

FollowInv == CacheFollows /\ UnlistedEmpty

LEMMA FollowInit == Init => FollowInv
BY DEF Init, ClusterInit, FreshInformers, FollowInv, CacheFollows, UnlistedEmpty

LEMMA PutFollows ==
  ASSUME ClusterTypeOK, FollowInv, NEW o \in Objects, NEW v \in Values(o), Put(o, v),
         UNCHANGED informerVars
  PROVE  FollowInv'
<1> USE DEF FollowInv, CacheFollows, UnlistedEmpty
<1>1. \A x \in Objects : server'[x] = IF x = o THEN v ELSE server[x]
  BY DEF Put, ClusterTypeOK
<1>2. CASE Kind(o) \notin listed
  BY <1>1, <1>2 DEF Put
<1>3. CASE Kind(o) \in listed
  <2>1. \A x \in Objects : deltas'[x] = IF x = o THEN Append(deltas[o], v) ELSE deltas[x]
    BY <1>3 DEF Put, ClusterTypeOK
  <2>2. deltas[o] \in Seq(Values(o))
    BY DEF ClusterTypeOK
  <2>3. Append(deltas[o], v) # <<>>
    BY <2>2, AppendProperties
  <2>4. Append(deltas[o], v)[Len(Append(deltas[o], v))] = v
    BY <2>2, AppendProperties
  <2> QED BY <1>1, <1>3, <2>1, <2>3, <2>4
<1> QED BY <1>2, <1>3

LEMMA OthersFollow ==
  ASSUME ClusterTypeOK, FollowInv, Others
  PROVE  FollowInv'
BY OthersPut, PutFollows

(* The last element of a sequence stays the last until it is the head. *)
LEMMA LastOfTail ==
  ASSUME NEW S, NEW s \in Seq(S), s # <<>>
  PROVE  IF Tail(s) = <<>> THEN Head(s) = s[Len(s)]
                           ELSE Tail(s)[Len(Tail(s))] = s[Len(s)]
<1>1. Len(Tail(s)) = Len(s) - 1 /\ Len(s) \in Nat /\ Tail(s) \in Seq(S)
  BY HeadTailProperties
<1>2. CASE Tail(s) = <<>>
  <2>1. Len(s) - 1 = 0
    BY <1>1, <1>2, EmptySeq, Zenon
  <2>2. Len(s) = 1
    <3>1. \A n \in Nat : n - 1 = 0 => n = 1
      OBVIOUS
    <3> QED BY <1>1, <2>1, <3>1, Zenon
  <2>3. Head(s) = s[1]
    OBVIOUS
  <2> QED BY <1>2, <2>2, <2>3
<1>3. CASE Tail(s) # <<>>
  <2>1. Len(Tail(s)) \in 1..Len(Tail(s))
    BY <1>1, <1>3, EmptySeq
  <2> QED BY <1>1, <1>3, <2>1, HeadTailProperties
<1> QED BY <1>2, <1>3

LEMMA InformersFollow ==
  ASSUME ClusterTypeOK, FollowInv, Informers
  PROVE  FollowInv'
<1> USE DEF FollowInv, CacheFollows, UnlistedEmpty
<1>1. ASSUME NEW k \in Kinds, List(k) PROVE FollowInv'
  <2>1. /\ k \notin listed /\ listed' = listed \cup {k} /\ UNCHANGED <<server, cache>>
        /\ \A o \in Objects : Kind(o) # k => deltas'[o] = deltas[o]
    BY <1>1, ListIs
  <2>2. ASSUME NEW o \in Objects, Kind(o) = k
        PROVE  IF deltas'[o] = <<>> THEN cache'[o] = server'[o]
               ELSE deltas'[o][Len(deltas'[o])] = server'[o]
    <3>1. PICK n \in 0..Len(past[o]) :
            \/ deltas'[o] = Since(o, n)
            \/ Since(o, n)[1] = Absent /\ deltas'[o] = Tail(Since(o, n))
      BY <1>1, <2>2, ListIs
    <3> DEFINE s == Since(o, n)
    <3>2. /\ s \in Seq(Values(o)) /\ s # <<>> /\ Len(s) = n + 1 /\ s[n + 1] = server[o]
      BY SinceIs
    <3> HIDE DEF s
    <3>3. s[Len(s)] = server[o]
      BY <3>2
    <3>4. CASE deltas'[o] = s
      BY <2>1, <3>2, <3>3, <3>4
    <3>5. CASE s[1] = Absent /\ deltas'[o] = Tail(s)
      <4>1. cache'[o] = Absent
        BY <2>1, <2>2
      <4>2. Head(s) = s[1]
        BY <3>2
      <4>3. IF Tail(s) = <<>> THEN Head(s) = s[Len(s)] ELSE Tail(s)[Len(Tail(s))] = s[Len(s)]
        BY <3>2, LastOfTail
      <4> QED BY <2>1, <3>3, <3>5, <4>1, <4>2, <4>3
    <3> QED BY <3>1, <3>4, <3>5 DEF s
  <2>3. ASSUME NEW o \in Objects, Kind(o) # k
        PROVE  deltas'[o] = deltas[o] /\ (Kind(o) \in listed' <=> Kind(o) \in listed)
    BY <2>1, <2>3
  <2> QED BY <2>1, <2>2, <2>3
<1>2. ASSUME NEW o \in Objects, Deliver(o) PROVE FollowInv'
  <2>1. /\ deltas[o] # <<>> /\ deltas[o] \in Seq(Values(o))
        /\ UNCHANGED <<server, listed>>
        /\ \A x \in Objects : cache'[x] = IF x = o THEN Head(deltas[o]) ELSE cache[x]
        /\ \A x \in Objects : deltas'[x] = IF x = o THEN Tail(deltas[o]) ELSE deltas[x]
    BY <1>2 DEF Deliver, ClusterTypeOK
  <2>2. Kind(o) \in listed
    BY <2>1
  <2>3. CASE Tail(deltas[o]) = <<>>
    <3>1. Head(deltas[o]) = deltas[o][Len(deltas[o])]
      BY <2>1, <2>3, LastOfTail
    <3>2. cache'[o] = server'[o] /\ deltas'[o] = <<>>
      <4>1. deltas[o][Len(deltas[o])] = server[o]
        BY <2>1, <2>2
      <4>2. cache'[o] = Head(deltas[o]) /\ deltas'[o] = Tail(deltas[o])
        BY <2>1
      <4> QED BY <2>1, <2>3, <3>1, <4>1, <4>2, Zenon
    <3>3. \A x \in Objects \ {o} : UNCHANGED <<cache[x], deltas[x]>>
      BY <2>1
    <3> QED BY <2>1, <2>2, <3>2, <3>3
  <2>4. CASE Tail(deltas[o]) # <<>>
    <3>1. Tail(deltas[o])[Len(Tail(deltas[o]))] = deltas[o][Len(deltas[o])]
      BY <2>1, <2>4, LastOfTail
    <3> QED BY <2>1, <2>2, <2>4, <3>1
  <2> QED BY <2>3, <2>4
<1>3. ASSUME NEW o \in Objects, Resync(o) PROVE FollowInv'
  BY <1>3 DEF Resync
<1> QED BY <1>1, <1>2, <1>3 DEF Informers

LEMMA ApplyFollows ==
  ASSUME ClusterTypeOK, FollowInv, NEW r \in Requests, Apply(r), UNCHANGED informerVars
  PROVE  FollowInv'
<1>1. CASE UNCHANGED <<server, past, deltas>>
  BY <1>1 DEF FollowInv, CacheFollows, UnlistedEmpty
<1>2. CASE Put(r.name, r.value)
  BY <1>2, ApplyIs, PutFollows
<1> QED BY <1>1, <1>2, ApplyIs

LEMMA WriteFollows ==
  ASSUME TypeInv, FollowInv, NEW w \in Workers, Write(w)
  PROVE  FollowInv'
<1>1. CASE UNCHANGED <<server, past, deltas>>
  BY <1>1 DEF Write, FollowInv, CacheFollows, UnlistedEmpty
<1>2. CASE Apply(Request(w))
  <2>1. Request(w) \in Requests
    BY WritesConfigMap DEF Write
  <2> QED BY <1>2, <2>1, ApplyFollows DEF Write, TypeInv, TypeOK
<1> QED BY <1>1, <1>2 DEF Write

LEMMA FollowStep == TypeInv /\ FollowInv /\ [Next]_vars => FollowInv'
<1> SUFFICES ASSUME TypeInv, FollowInv, [Next]_vars PROVE FollowInv'
  OBVIOUS
<1> USE DEF FollowInv, CacheFollows, UnlistedEmpty
<1>1. CASE UNCHANGED <<server, deltas, cache, listed>>
  BY <1>1
<1>2. CASE UNCHANGED vars
  BY <1>1, <1>2 DEF vars
<1>3. CASE (Others \/ Informers) /\ ProcessUnchanged
  BY <1>3, OthersFollow, InformersFollow DEF TypeInv, TypeOK
<1>4. ASSUME NEW k \in Kinds, Handle(k) PROVE FollowInv'
  BY <1>1, <1>4 DEF Handle
<1>5. ASSUME NEW t \in Templates, Ready(t) \/ \E w \in Workers : Take(w, t) PROVE FollowInv'
  BY <1>1, <1>5 DEF Ready, Take
<1>6. ASSUME NEW w \in Workers, Sync(w) PROVE FollowInv'
  <2>1. CASE Write(w)
    BY <2>1, WriteFollows
  <2>2. CASE ~Write(w)
    BY <1>1, <1>6, <2>2 DEF Sync, LookupTemplate, FindConfigMap, RenderKey, Finish
  <2> QED BY <2>1, <2>2
<1>7. ASSUME NEW r \in wire, Arrive(r) PROVE FollowInv'
  BY <1>7, ApplyFollows DEF Arrive, TypeInv, TypeOK
<1>8. CASE StartWorkers \/ Stop \/ ReturnFromRun
  BY <1>1, <1>8 DEF StartWorkers, Stop, ReturnFromRun
<1>9. CASE Exit \/ Crash
  BY <1>9 DEF Exit, Crash, NewProcess
<1> QED BY <1>2, <1>3, <1>4, <1>5, <1>6, <1>7, <1>8, <1>9 DEF Next, Process

(* The informers lose no version: whatever others, the workers and restarts  *)
(* do, a cache that has nothing left to take over is the server's state, and *)
(* otherwise the last version on its way is.                                *)
THEOREM InformersLoseNothing == Spec => []CacheFollows
<1>1. Init => TypeInv /\ FollowInv
  BY TypeInit, FollowInit
<1>2. TypeInv /\ FollowInv /\ [Next]_vars => (TypeInv /\ FollowInv)'
  BY TypeStep, FollowStep
<1>3. FollowInv => CacheFollows
  BY DEF FollowInv
<1> QED BY <1>1, <1>2, <1>3, PTL DEF Spec
===============================================================================
