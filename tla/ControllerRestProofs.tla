------------------------- MODULE ControllerRestProofs -------------------------
(***************************************************************************)
(* Proof that Controller loses no update: when a template has come to rest  *)
(* the server holds what it asks for (RestMeansConverged), for any          *)
(* templates, ConfigMaps, pods, workers, changes, faults, late calls and    *)
(* restarts, as long as no template takes a ConfigMap over from another.    *)
(*                                                                         *)
(* The argument follows the news.  What a worker read from the caches can   *)
(* only become outdated by a change that also leaves something behind that  *)
(* will make the template be synced again: a version on its way to a cache, *)
(* a notification, a request in the queue.                                  *)
(***************************************************************************)
EXTENDS ControllerHistoryProofs

USE DEF serverVars, informerVars, clusterVars, queueVars, workerVars, ghostVars, budgetVars

-------------------------------------------------------------------------------
(* Template t will be looked up again: it is queued, a worker is about to     *)
(* read it, or a notification of it is to be handled.                       *)
Direct(t) ==
  \/ waiting[t] > 0 \/ t \in dirty
  \/ \E w \in Workers : key[w] = t /\ pc[w] = "lookup"
  \/ \E n \in Range(notes["ConfigMapTemplate"]) : n.obj = t /\ n.type # "delete"

(* A notification of a pod that t may show. *)
PodNews(t) == \E n \in Range(notes["Pod"]) : NS[n.obj] = NS[t]

(* Version v of a ConfigMap leads handleObject to t. *)
Named(v, t) == v # Absent /\ v.owner # NoOwner /\ v.owner.name = t

(* What the cache holds when the n-th version on its way to it arrives. *)
Before(c, n) == IF n = 1 THEN cache[c] ELSE deltas[c][n - 1]
NotedAs(c, n) == IF deltas[c][n] = Absent THEN Before(c, n) ELSE deltas[c][n]

(* A change of one of its ConfigMaps that t will be told of. *)
OwnNote(t) ==
  \E n \in Range(notes["ConfigMap"]) : n.type # "resync" /\ Named(n.val, t)
OwnDelta(t) == \E c \in ConfigMaps : \E n \in 1..Len(deltas[c]) : Named(NotedAs(c, n), t)
OwnNews(t) == OwnNote(t) \/ OwnDelta(t)

(* What the cached template may give on the cached pods. *)
Wanted(t, d) == Results(cache[t].data[d], PodsIn(cache, NS[t]))

(* The server holds what the cached template gives on the cached pods. *)
Good(t) ==
  LET cm == server[cache[t].configMapName] IN
  /\ Named(cm, t) /\ cm.owner.uid = cache[t].uid
  /\ \A d \in DataKeys : cm.data[d] \in Wanted(t, d)

(* The caches hold nothing new for t, *)
Settled(t) ==
  cache[t] # Absent /\ cache[t].configMapName # NoName /\ ~Direct(t) /\ ~PodNews(t)

(* so that a worker is still right in what it has read, *)
Carries(w, t) ==
  key[w] = t /\ pc[w] \in {"find", "render"} =>
    /\ tmpl[w] = cache[t]
    /\ \A d \in DataKeys : out[w][d] = Pending \/ out[w][d] \in Wanted(t, d)

(* and once t is synced, *)
Resting(t) ==
  \/ t \notin failed /\ t \notin processing
  \/ \E w \in Workers : key[w] = t /\ pc[w] = "done"

(* the server is right too, or the news of why not is on its way. *)
Claim(t) ==
  Settled(t) => /\ \A w \in Workers : Carries(w, t)
                /\ Resting(t) => OwnNews(t) \/ Good(t)

RestInv ==
  /\ phase \in {"starting", "running"} => ~shuttingDown
  /\ phase = "starting" => \A w \in Workers : pc[w] = "idle"
  /\ phase = "running" => "ConfigMap" \in listed
  /\ \A w \in Workers : pc[w] \in {"idle", "lookup", "find"} => out[w] = NoOutput
  /\ phase = "starting" => \A t \in Templates : cache[t] # Absent => Direct(t)
  /\ phase = "running" => \A t \in Templates : Claim(t)

LEMMA RestInit == Init => RestInv
BY DEF Init, ClusterInit, FreshInformers, FreshWorkers, Q!Init, RestInv, Objects, NoOutput

-------------------------------------------------------------------------------
(* The invariant is what RestMeansConverged needs. *)
LEMMA RestConverges ==
  ASSUME TypeInv, ExclusionInv, CacheFollows, RestInv
  PROVE  RestMeansConverged
<1> SUFFICES ASSUME NEW t \in Templates, Quiet(t), Wants(t), t \notin failed
             PROVE  Converged(t)
  BY DEF RestMeansConverged
<1>1. /\ phase = "running" /\ listed = Kinds
      /\ \A o \in Objects : deltas[o] = <<>>
      /\ \A k \in Kinds : notes[k] = <<>>
      /\ waiting[t] = 0 /\ t \notin dirty /\ t \notin processing
  BY DEF Quiet
<1>2. \A o \in Objects : cache[o] = server[o]
  BY <1>1, ValuesOf DEF CacheFollows
<1>3. t \in Objects /\ Pods \subseteq Objects /\ ConfigMaps \subseteq Objects
  BY DEF Objects
<1>4. cache[t] = server[t] /\ server[t] # Absent /\ server[t].configMapName # NoName
  BY <1>2, <1>3 DEF Wants
<1>5. PodsIn(cache, NS[t]) = PodsIn(server, NS[t])
  BY <1>2, <1>3 DEF PodsIn
<1>6. \A w \in Workers : key[w] # t
  BY <1>1, ControllerAssumption DEF ExclusionInv, Exclusive
<1>7. Range(notes["ConfigMapTemplate"]) = {} /\ Range(notes["Pod"]) = {}
      /\ Range(notes["ConfigMap"]) = {}
  BY <1>1, RangeShort DEF Kinds
<1>8. Settled(t)
  BY <1>1, <1>4, <1>6, <1>7 DEF Settled, Direct, PodNews
<1>9. ~OwnNews(t)
  BY <1>1, <1>3, <1>7 DEF OwnNews, OwnNote, OwnDelta
<1>10. Good(t)
  BY <1>1, <1>8, <1>9 DEF RestInv, Claim, Resting
<1> QED BY <1>4, <1>5, <1>10 DEF Good, Named, Wanted, Converged, IsControlledBy

-------------------------------------------------------------------------------
(* The notifications. *)
LEMMA NoteTypes ==
  ASSUME ClusterTypeOK, NEW k \in Kinds
  PROVE  /\ notes[k] \in Seq(NotesOf(k)) /\ k \in DOMAIN notes
         /\ \A n \in Range(notes[k]) : n \in NotesOf(k)
         /\ \A n \in NotesOf(k) : n.obj \in Objects /\ Kind(n.obj) = k /\ n.val \in Values(n.obj)
<1>1. notes[k] \in Seq(NotesOf(k)) /\ k \in DOMAIN notes
  BY DEF ClusterTypeOK
<1>2. \A n \in Range(notes[k]) : n \in NotesOf(k)
  BY <1>1, LenProperties DEF Range
<1>3. \A n \in NotesOf(k) : n.obj \in Objects /\ Kind(n.obj) = k /\ n.val \in Values(n.obj)
  BY DEF NotesOf
<1> QED BY <1>1, <1>2, <1>3

LEMMA DeliverNotes ==
  ASSUME ClusterTypeOK, NEW o \in Objects, Deliver(o)
  PROVE  /\ Kind(o) \in Kinds /\ Head(deltas[o]) \in Values(o)
         /\ \A k \in Kinds :
              Range(notes'[k]) = IF k = Kind(o)
                                 THEN Range(notes[k]) \cup {NoteFor(o, Head(deltas[o]))}
                                 ELSE Range(notes[k])
<1> DEFINE v == Head(deltas[o])
           note == NoteFor(o, v)
<1>1. /\ deltas[o] # <<>> /\ deltas[o] \in Seq(Values(o)) /\ cache[o] \in Values(o)
      /\ notes' = [notes EXCEPT ![Kind(o)] = Append(@, note)]
  BY DEF Deliver, ClusterTypeOK
<1>2. v \in Values(o) /\ Kind(o) \in Kinds
  BY <1>1, HeadTailProperties, ValuesOf
<1>3. note \in NotesOf(Kind(o))
  BY <1>1, <1>2 DEF NoteFor, NotesOf
<1> HIDE DEF note
<1>4. Range(Append(notes[Kind(o)], note)) = Range(notes[Kind(o)]) \cup {note}
  BY <1>2, <1>3, NoteTypes, RangeAppend
<1>5. \A k \in Kinds : notes'[k] = IF k = Kind(o) THEN Append(notes[k], note) ELSE notes[k]
  BY <1>1, NoteTypes
<1> QED BY <1>2, <1>4, <1>5 DEF note

LEMMA ResyncNotes ==
  ASSUME ClusterTypeOK, NEW o \in Objects, Resync(o)
  PROVE  \A k \in Kinds :
           /\ Range(notes[k]) \subseteq Range(notes'[k])
           /\ \A n \in Range(notes'[k]) : n \in Range(notes[k]) \/ n.type = "resync"
<1> DEFINE note == [obj |-> o, val |-> cache[o], type |-> "resync"]
<1>1. notes[Kind(o)] = <<>> /\ notes' = [notes EXCEPT ![Kind(o)] = <<note>>]
  BY DEF Resync
<1>2. \A k \in Kinds : k # Kind(o) => notes'[k] = notes[k]
  BY <1>1, NoteTypes
<1>3. Range(notes[Kind(o)]) = {} /\ notes'[Kind(o)] = <<note>>
  BY <1>1, RangeShort, NoteTypes, ValuesOf
<1>4. Range(notes'[Kind(o)]) = {note}
  BY <1>3, RangeShort
<1> QED BY <1>2, <1>3, <1>4

LEMMA HandleNotes ==
  ASSUME TypeInv, NEW k \in Kinds, Handle(k)
  PROVE  /\ Range(notes[k]) = {Head(notes[k])} \cup Range(notes'[k])
         /\ \A j \in Kinds : j # k => notes'[j] = notes[j]
         /\ Head(notes[k]) \in NotesOf(k)
         /\ \A t \in Templates :
              /\ waiting[t] > 0 => waiting'[t] > 0
              /\ ~shuttingDown /\ t \in Enqueued(k, Head(notes[k])) => waiting'[t] > 0
<1>1. ClusterTypeOK
  BY DEF TypeInv, TypeOK
<1>2. notes[k] # <<>> /\ notes' = [notes EXCEPT ![k] = Tail(@)]
  BY DEF Handle
<1>3. notes[k] \in Seq(NotesOf(k)) /\ notes'[k] = Tail(notes[k])
  BY <1>1, <1>2, NoteTypes
<1>4. Head(notes[k]) \in NotesOf(k) /\ Range(notes[k]) = {Head(notes[k])} \cup Range(notes'[k])
  BY <1>2, <1>3, RangeTail
<1>5. PICK T \in SUBSET Enqueued(k, Head(notes[k])) :
        /\ waiting' = [t \in Templates |-> IF t \in T THEN waiting[t] + 1 ELSE waiting[t]]
        /\ \A t \in Enqueued(k, Head(notes[k])) \ T : shuttingDown \/ waiting[t] > 0
  BY DEF Handle, Q!AddRateLimited, Q!Requested
<1>6. waiting \in [Templates -> 0..MaxWaiting]
  BY Zenon DEF TypeInv, TypeOK, Q!TypeOK
<1>7. \A t \in Templates : /\ waiting[t] \in Nat
                           /\ waiting'[t] = IF t \in T THEN waiting[t] + 1 ELSE waiting[t]
  BY <1>5, <1>6, ControllerAssumption
<1>8. \A t \in Templates :
        /\ waiting[t] > 0 => waiting'[t] > 0
        /\ ~shuttingDown /\ t \in Enqueued(k, Head(notes[k])) => waiting'[t] > 0
  BY <1>5, <1>7
<1> QED BY <1>1, <1>2, <1>4, <1>8, NoteTypes

(* Everything else leaves the caches and the notifications alone. *)
LEMMA NotesSame ==
  ASSUME [Next]_vars, ~Exit, ~Crash
  PROVE  \/ UNCHANGED <<cache, notes>>
         \/ \E o \in Objects : (Deliver(o) \/ Resync(o)) /\ ProcessUnchanged
         \/ \E k \in Kinds : Handle(k)
<1>1. ASSUME NEW w \in Workers, Sync(w) PROVE UNCHANGED <<cache, notes>>
  BY <1>1 DEF Sync, LookupTemplate, FindConfigMap, RenderKey, Write, Finish
<1>2. CASE Others
  BY <1>2 DEF Others, CreateTemplate, EditTemplate, DeleteTemplate, CreateForeign, TamperWith,
              Disown, DeleteConfigMap, CollectGarbage, ChangePod, Change
<1>3. ASSUME NEW u \in Templates, Ready(u) \/ \E w \in Workers : Take(w, u)
      PROVE  UNCHANGED <<cache, notes>>
  BY <1>3 DEF Ready, Take
<1>4. CASE StartWorkers \/ Stop \/ ReturnFromRun
  BY <1>4 DEF StartWorkers, Stop, ReturnFromRun
<1>5. CASE Informers /\ ProcessUnchanged
  BY <1>5 DEF Informers, List
<1>6. CASE UNCHANGED vars
  BY <1>6 DEF vars
<1>7. ASSUME NEW r \in wire, Arrive(r) PROVE UNCHANGED <<cache, notes>>
  BY <1>7 DEF Arrive
<1> QED BY <1>1, <1>2, <1>3, <1>4, <1>5, <1>6, <1>7 DEF Next, Process

(* A template that will be looked up stays so until it is. *)
LEMMA DirectKept ==
  ASSUME TypeInv, ~shuttingDown, [Next]_vars, ~Exit, ~Crash, NEW t \in Templates, Direct(t),
         \A w \in Workers : LookupTemplate(w) => key[w] # t
  PROVE  Direct(t)'
<1> DEFINE Noted == \E n \in Range(notes["ConfigMapTemplate"]) : n.obj = t /\ n.type # "delete"
           Taken == \E w \in Workers : key[w] = t /\ pc[w] = "lookup"
           Queued == waiting[t] > 0 \/ t \in dirty
<1>1. ASSUME Noted PROVE Noted' \/ Queued'
  <2>1. CASE UNCHANGED <<cache, notes>>
    BY <1>1, <2>1
  <2>2. ASSUME NEW o \in Objects, Deliver(o) \/ Resync(o) PROVE Noted'
    BY <1>1, <2>2, DeliverNotes, ResyncNotes DEF TypeInv, TypeOK, Kinds
  <2>3. ASSUME NEW k \in Kinds, Handle(k) PROVE Noted' \/ Queued'
    BY <1>1, <2>3, HandleNotes DEF Enqueued, EnqueuedByTemplate, Kinds
  <2> QED BY <2>1, <2>2, <2>3, NotesSame
<1>2. ASSUME Queued \/ Taken PROVE Queued' \/ Taken'
  <2> DEFINE Goal == Queued' \/ Taken'
  <2>1. ASSUME UNCHANGED <<waiting, dirty, key, pc>> PROVE Goal
    BY <1>2, <2>1
  <2>2. ASSUME NEW k \in Kinds, Handle(k) PROVE Goal
    BY <1>2, <2>2, HandleNotes DEF Handle, Q!AddRateLimited
  <2>3. ASSUME NEW u \in Templates, Ready(u) PROVE Goal
    <3>1. /\ \A x \in Templates : x # u => waiting'[x] = waiting[x]
          /\ dirty' = dirty \cup {u} /\ UNCHANGED <<key, pc>>
      BY <2>3 DEF Ready, Q!Ready, Q!Added, TypeInv, TypeOK, Q!TypeOK
    <3>2. CASE Queued
      BY <3>1, <3>2
    <3>3. CASE Taken
      BY <3>1, <3>3
    <3> QED BY <1>2, <3>2, <3>3
  <2>4. ASSUME NEW w \in Workers, NEW u \in Templates, Take(w, u) PROVE Goal
    <3>1. /\ pc[w] = "idle" /\ dirty' = dirty \ {u} /\ waiting' = waiting
          /\ pc'[w] = "lookup" /\ key'[w] = u
          /\ \A v \in Workers : v # w => pc'[v] = pc[v] /\ key'[v] = key[v]
      BY <2>4 DEF Take, Q!Get, TypeInv, WorkerInv
    <3> QED BY <1>2, <3>1
  <2>5. ASSUME NEW w \in Workers, Sync(w) PROVE Goal
    <3>1. /\ UNCHANGED <<waiting, dirty>> /\ (pc[w] = "lookup" => LookupTemplate(w))
          /\ \A v \in Workers : v # w => pc'[v] = pc[v] /\ key'[v] = key[v]
      <4>1. CASE LookupTemplate(w) \/ FindConfigMap(w) \/ \E d \in DataKeys : RenderKey(w, d)
        BY <4>1 DEF LookupTemplate, FindConfigMap, RenderKey, TypeInv, WorkerInv
      <4>2. CASE Write(w)
        BY <4>2 DEF Write, ReadyToWrite, TypeInv, WorkerInv
      <4>3. CASE Finish(w)
        BY <4>3 DEF Finish, Q!Done, TypeInv, WorkerInv
      <4> QED BY <2>5, <4>1, <4>2, <4>3 DEF Sync
    <3> QED BY <1>2, <3>1
  <2> HIDE DEF Goal
  <2>6. ASSUME (Others \/ Informers) /\ ProcessUnchanged PROVE Goal
    BY <2>1, <2>6 DEF ProcessUnchanged
  <2>7. ASSUME StartWorkers \/ Stop \/ ReturnFromRun PROVE Goal
    BY <2>1, <2>7 DEF StartWorkers, Stop, ReturnFromRun, Q!ShutDown
  <2>8. ASSUME UNCHANGED vars PROVE Goal
    BY <2>1, <2>8 DEF vars
  <2>9. ASSUME NEW r \in wire, Arrive(r) PROVE Goal
    BY <2>1, <2>9 DEF Arrive
  <2>10. Goal
    BY <2>2, <2>3, <2>4, <2>5, <2>6, <2>7, <2>8, <2>9 DEF Next, Process
  <2> QED BY <2>10 DEF Goal
<1> QED BY <1>1, <1>2 DEF Direct

(* What t has settled on was there before the step. *)
LEMMA SettledKept ==
  ASSUME TypeInv, ~shuttingDown, [Next]_vars, ~Exit, ~Crash, NEW t \in Templates, Settled(t)',
         \A w \in Workers : LookupTemplate(w) => key[w] # t
  PROVE  Settled(t) /\ cache'[t] = cache[t] /\ PodsIn(cache, NS[t])' = PodsIn(cache, NS[t])
<1>1. /\ cache'[t] # Absent /\ cache'[t].configMapName # NoName
      /\ ~Direct(t)' /\ ~PodNews(t)' /\ ~Direct(t)
  BY DirectKept DEF Settled
<1>2. CASE UNCHANGED <<cache, notes>>
  BY <1>1, <1>2 DEF Settled, PodNews, PodsIn
<1>3. ASSUME NEW o \in Objects, Deliver(o)
      PROVE  /\ ~PodNews(t) /\ cache'[t] = cache[t]
             /\ PodsIn(cache, NS[t])' = PodsIn(cache, NS[t])
  <2> DEFINE v == Head(deltas[o])
  <2>1. /\ \A x \in Objects : cache'[x] = IF x = o THEN v ELSE cache[x]
        /\ NoteFor(o, v).obj = o /\ (v # Absent => NoteFor(o, v).type = "set")
    BY <1>3 DEF Deliver, NoteFor, TypeInv, TypeOK, ClusterTypeOK
  <2>2. /\ \A k \in Kinds : Range(notes[k]) \subseteq Range(notes'[k])
        /\ NoteFor(o, v) \in Range(notes'[Kind(o)])
    BY <1>3, DeliverNotes DEF TypeInv, TypeOK
  <2>3. ~PodNews(t)
    BY <1>1, <2>2 DEF PodNews, Kinds
  <2>4. o # t
    <3>1. ASSUME o = t PROVE FALSE
      <4>1. Kind(o) = "ConfigMapTemplate" /\ v # Absent
        BY <1>1, <2>1, <3>1, ValuesOf
      <4> QED BY <1>1, <2>1, <2>2, <3>1, <4>1 DEF Direct
    <3> QED BY <3>1
  <2>5. ASSUME NEW p \in Pods, NS[p] = NS[t] PROVE o # p
    BY <1>1, <2>1, <2>2, <2>5, ValuesOf DEF PodNews
  <2> QED BY <2>1, <2>3, <2>4, <2>5 DEF PodsIn, Objects
<1>4. ASSUME NEW o \in Objects, Resync(o)
      PROVE  ~PodNews(t) /\ cache' = cache
  BY <1>1, <1>4, ResyncNotes DEF PodNews, Resync, TypeInv, TypeOK, Kinds
<1>5. ASSUME NEW k \in Kinds, Handle(k)
      PROVE  ~PodNews(t) /\ cache' = cache
  <2>1. cache' = cache
    BY <1>5 DEF Handle
  <2>2. ASSUME PodNews(t) PROVE FALSE
    <3>1. k = "Pod" /\ NS[Head(notes[k]).obj] = NS[t]
      BY <1>1, <1>5, <2>2, HandleNotes DEF PodNews, Kinds
    <3>2. t \in Enqueued(k, Head(notes[k]))
      BY <1>1, <2>1, <3>1 DEF Enqueued, EnqueuedByPod, Cached
    <3> QED BY <1>1, <1>5, <3>2, HandleNotes DEF Direct
  <2> QED BY <2>1, <2>2
<1> QED BY <1>1, <1>2, <1>3, <1>4, <1>5, NotesSame DEF Settled, PodsIn

-------------------------------------------------------------------------------
(* The news of a template's own ConfigMaps.  When one changes in the server,  *)
(* its template will be told.                                              *)
LEMMA ChangeNews ==
  ASSUME TypeInv, FollowInv, "ConfigMap" \in listed, NEW t \in Templates,
         NEW c \in ConfigMaps, Named(server[c], t), NEW v \in Values(c), Put(c, v),
         cache' = cache, v # Absent => Named(v, t)
  PROVE  OwnDelta(t)'
<1> DEFINE s == deltas[c]
<1>1. /\ c \in Objects /\ Kind(c) = "ConfigMap" /\ s \in Seq(Values(c))
      /\ ClusterTypeOK
  BY ValuesOf DEF Objects, TypeInv, TypeOK, ClusterTypeOK
<1>2. deltas'[c] = Append(s, v)
  BY <1>1, PutShape
<1>3. /\ Len(Append(s, v)) = Len(s) + 1 /\ Append(s, v)[Len(s) + 1] = v
      /\ \A n \in 1..Len(s) : Append(s, v)[n] = s[n]
      /\ Len(s) \in Nat
  BY <1>1, AppendProperties
<1>4. IF s = <<>> THEN cache[c] = server[c] ELSE s[Len(s)] = server[c]
  BY <1>1 DEF FollowInv, CacheFollows
<1>5. s = <<>> => Len(s) = 0
  OBVIOUS
<1>6. s # <<>> => Len(s) \in 1..Len(s)
  BY <1>1, <1>3, EmptySeq
<1>0. PICK m \in Nat : m = Len(s) + 1
  BY <1>3
<1>7. m \in 1..Len(deltas'[c]) /\ deltas'[c][m] = v
  BY <1>0, <1>2, <1>3
<1>8. Before(c, m)' = server[c]
  <2>1. CASE s = <<>>
    BY <1>0, <1>4, <1>5, <2>1 DEF Before
  <2>2. CASE s # <<>>
    <3>1. m # 1 /\ m - 1 = Len(s) /\ deltas'[c][Len(s)] = s[Len(s)]
      BY <1>0, <1>2, <1>3, <1>6, <2>2
    <3> QED BY <1>4, <2>2, <3>1 DEF Before
  <2> QED BY <2>1, <2>2
<1>9. Named(NotedAs(c, m)', t)
  BY <1>7, <1>8 DEF NotedAs
<1> QED BY <1>7, <1>9 DEF OwnDelta, NotedAs, Before, Named

(* More versions, the same news. *)
LEMMA OwnDeltaGrows ==
  ASSUME ClusterTypeOK, NEW t \in Templates, OwnDelta(t), cache' = cache,
         \A c \in ConfigMaps : deltas'[c] = deltas[c]
                              \/ \E v \in Values(c) : deltas'[c] = Append(deltas[c], v)
  PROVE  OwnDelta(t)'
<1>0. PICK c \in ConfigMaps : \E n \in 1..Len(deltas[c]) : Named(NotedAs(c, n), t)
  BY DEF OwnDelta
<1>1. PICK n \in 1..Len(deltas[c]) : Named(NotedAs(c, n), t)
  BY <1>0
<1>2. deltas[c] \in Seq(Values(c))
  BY DEF ClusterTypeOK, Objects
<1>3. /\ Len(deltas[c]) \in Nat /\ Len(deltas[c]) <= Len(deltas'[c]) /\ Len(deltas'[c]) \in Nat
      /\ \A m \in 1..Len(deltas[c]) : deltas'[c][m] = deltas[c][m]
  BY <1>2, AppendProperties
<1>4. n \in 1..Len(deltas'[c]) /\ deltas'[c][n] = deltas[c][n]
  BY <1>3
<1>5. n # 1 => deltas'[c][n - 1] = deltas[c][n - 1]
  BY <1>3
<1>6. NotedAs(c, n)' = NotedAs(c, n)
  BY <1>4, <1>5 DEF NotedAs, Before
<1> QED BY <1>1, <1>4, <1>6 DEF OwnDelta, Named

(* A delivery turns the first version of an object into a notification. *)
LEMMA DeliverNews ==
  ASSUME TypeInv, NEW o \in Objects, Deliver(o), NEW t \in Templates, OwnNews(t)
  PROVE  OwnNews(t)'
<1> DEFINE v == Head(deltas[o])
<1>1. /\ deltas[o] # <<>> /\ deltas[o] \in Seq(Values(o))
      /\ \A x \in Objects : cache'[x] = IF x = o THEN v ELSE cache[x]
      /\ \A x \in Objects : deltas'[x] = IF x = o THEN Tail(deltas[o]) ELSE deltas[x]
  BY DEF Deliver, TypeInv, TypeOK, ClusterTypeOK
<1>2. /\ \A k \in Kinds : Range(notes[k]) \subseteq Range(notes'[k])
      /\ NoteFor(o, v) \in Range(notes'[Kind(o)])
  BY DeliverNotes DEF TypeInv, TypeOK
<1>3. CASE OwnNote(t)
  BY <1>2, <1>3 DEF OwnNews, OwnNote, Kinds
<1>4. CASE OwnDelta(t)
  <2>0. PICK c \in ConfigMaps : \E n \in 1..Len(deltas[c]) : Named(NotedAs(c, n), t)
    BY <1>4 DEF OwnDelta
  <2>1. PICK n \in 1..Len(deltas[c]) : Named(NotedAs(c, n), t)
    BY <2>0
  <2>2. c \in Objects /\ Kind(c) = "ConfigMap"
    BY ValuesOf DEF Objects
  <2>3. CASE c # o
    <3>1. deltas'[c] = deltas[c] /\ cache'[c] = cache[c]
      BY <1>1, <2>2, <2>3
    <3>2. NotedAs(c, n)' = NotedAs(c, n)
      BY <3>1 DEF NotedAs, Before
    <3> QED BY <2>1, <3>1, <3>2 DEF OwnNews, OwnDelta, Named
  <2>4. CASE c = o /\ n = 1
    <3>1. v = deltas[c][1]
      BY <1>1, <2>4, HeadTailProperties
    <3>2. NoteFor(o, v).val = NotedAs(c, n) /\ NoteFor(o, v).type # "resync"
      BY <2>4, <3>1 DEF NoteFor, NotedAs, Before
    <3> QED BY <1>2, <2>1, <2>2, <2>4, <3>2 DEF OwnNews, OwnNote
  <2>5. CASE c = o /\ n # 1
    <3>0. deltas'[c] = Tail(deltas[c]) /\ v = Head(deltas[c])
          /\ deltas[c] \in Seq(Values(c)) /\ deltas[c] # <<>>
      BY <1>1, <2>5
    <3>1. /\ Len(deltas'[c]) = Len(deltas[c]) - 1 /\ v = deltas[c][1]
          /\ Len(deltas[c]) \in Nat
          /\ \A m \in 1..Len(deltas'[c]) : deltas'[c][m] = deltas[c][m + 1]
      BY <3>0, HeadTailProperties
    <3>2. n - 1 \in 1..Len(deltas'[c]) /\ deltas'[c][n - 1] = deltas[c][n]
      BY <2>5, <3>1
    <3>3. cache'[c] = deltas[c][1]
      BY <1>1, <2>2, <2>5, <3>1
    <3>4. n # 2 => deltas'[c][n - 2] = deltas[c][n - 1]
      <4>1. n # 2 => n - 2 \in 1..Len(deltas'[c]) /\ (n - 2) + 1 = n - 1
        BY <2>5, <3>1
      <4> QED BY <3>1, <4>1
    <3>5. Before(c, n - 1)' = Before(c, n)
      <4>1. CASE n = 2
        BY <3>3, <4>1 DEF Before
      <4>2. CASE n # 2
        <5>1. n - 1 # 1 /\ (n - 1) - 1 = n - 2
          BY <2>5, <4>2
        <5> QED BY <2>5, <3>4, <4>2, <5>1 DEF Before
      <4> QED BY <4>1, <4>2
    <3>6. NotedAs(c, n - 1)' = NotedAs(c, n)
      BY <3>2, <3>5 DEF NotedAs
    <3> QED BY <2>1, <3>2, <3>6 DEF OwnNews, OwnDelta, NotedAs, Before, Named
  <2> QED BY <2>3, <2>4, <2>5
<1> QED BY <1>3, <1>4 DEF OwnNews

LEMMA InformersNews ==
  ASSUME TypeInv, "ConfigMap" \in listed, Informers, NEW t \in Templates, OwnNews(t)
  PROVE  OwnNews(t)'
<1>1. ASSUME NEW k \in Kinds, List(k) PROVE OwnNews(t)'
  <2>1. k # "ConfigMap" /\ UNCHANGED <<cache, notes>>
    BY <1>1 DEF List
  <2>2. \A c \in ConfigMaps : deltas'[c] = deltas[c]
    BY <1>1, <2>1, ValuesOf, ListIs DEF Objects, TypeInv, TypeOK
  <2> QED BY <2>1, <2>2, OwnDeltaGrows DEF OwnNews, OwnNote, TypeInv, TypeOK
<1>2. ASSUME NEW o \in Objects, Resync(o) PROVE OwnNews(t)'
  <2>1. /\ UNCHANGED <<cache, deltas>>
        /\ Range(notes["ConfigMap"]) \subseteq Range(notes'["ConfigMap"])
    BY <1>2, ResyncNotes DEF Resync, TypeInv, TypeOK, Kinds
  <2> QED BY <2>1, OwnDeltaGrows DEF OwnNews, OwnNote, TypeInv, TypeOK
<1> QED BY <1>1, <1>2, DeliverNews DEF Informers

(* When handleObject is told of it, t is queued. *)
LEMMA HandleNews ==
  ASSUME TypeInv, ~shuttingDown, NEW k \in Kinds, Handle(k), NEW t \in Templates,
         OwnNews(t), cache[t] # Absent
  PROVE  OwnNews(t)' \/ Direct(t)'
<1>1. UNCHANGED <<cache, deltas>>
  BY DEF Handle
<1>2. CASE OwnDelta(t)
  BY <1>1, <1>2, OwnDeltaGrows DEF OwnNews, TypeInv, TypeOK
<1>3. CASE OwnNote(t)
  <2>1. PICK n \in Range(notes["ConfigMap"]) : n.type # "resync" /\ Named(n.val, t)
    BY <1>3 DEF OwnNote
  <2>2. CASE n \in Range(notes'["ConfigMap"])
    BY <2>1, <2>2 DEF OwnNews, OwnNote, Named
  <2>3. CASE n \notin Range(notes'["ConfigMap"])
    <3>1. k = "ConfigMap" /\ n = Head(notes[k])
      BY <2>3, HandleNotes DEF Kinds
    <3>2. t \in Enqueued(k, n)
      BY <2>1, <3>1 DEF Enqueued, EnqueuedByConfigMap, Cached, Named
    <3> QED BY <3>1, <3>2, HandleNotes DEF Direct
  <2> QED BY <2>2, <2>3
<1> QED BY <1>2, <1>3 DEF OwnNews

(* Whatever others and workers do to the server, the news stay. *)
LEMMA PutNews ==
  ASSUME TypeInv, NEW o \in Objects, NEW v \in Values(o), Put(o, v), UNCHANGED informerVars,
         NEW t \in Templates, OwnNews(t)
  PROVE  OwnNews(t)'
<1>1. ASSUME NEW c \in ConfigMaps
      PROVE  deltas'[c] = deltas[c] \/ \E x \in Values(c) : deltas'[c] = Append(deltas[c], x)
  <2>1. deltas'[c] = deltas[c] \/ (c = o /\ deltas'[c] = Append(deltas[c], v))
    BY PutAt DEF TypeInv, TypeOK, Objects
  <2> QED BY <2>1
<1> QED BY <1>1, OwnDeltaGrows DEF OwnNews, OwnNote, TypeInv, TypeOK

LEMMA NewsKept ==
  ASSUME TypeInv, ~shuttingDown, "ConfigMap" \in listed, [Next]_vars, ~Exit, ~Crash,
         NEW t \in Templates, OwnNews(t), cache[t] # Absent
  PROVE  OwnNews(t)' \/ Direct(t)'
<1>1. ASSUME UNCHANGED <<cache, deltas, notes>> PROVE OwnNews(t)'
  BY <1>1, OwnDeltaGrows DEF OwnNews, OwnNote, TypeInv, TypeOK
<1>2. CASE Others
  BY <1>2, OthersPut, PutNews DEF TypeInv, TypeOK
<1>3. ASSUME NEW r \in Sent, Apply(r), UNCHANGED informerVars PROVE OwnNews(t)'
  <2>1. CASE UNCHANGED <<server, past, deltas>>
    BY <1>1, <1>3, <2>1
  <2>2. CASE Put(r.name, r.value)
    BY <1>3, <2>2, PutNews, SentType, ApplyIs
  <2> QED BY <1>3, <2>1, <2>2, SentType, ApplyIs
<1>4. ASSUME NEW w \in Workers, Write(w) PROVE OwnNews(t)'
  <2>1. ReadyToWrite(w) /\ UNCHANGED informerVars
        /\ (Apply(Request(w)) \/ UNCHANGED <<server, past, deltas>>)
    BY <1>4 DEF Write
  <2> QED BY <1>1, <1>3, <2>1 DEF Sent
<1>5. ASSUME NEW r \in wire, Arrive(r) PROVE OwnNews(t)'
  BY <1>3, <1>5 DEF Arrive, Sent
<1>6. ASSUME NEW w \in Workers, Sync(w) PROVE OwnNews(t)'
  BY <1>1, <1>4, <1>6 DEF Sync, LookupTemplate, FindConfigMap, RenderKey, Finish
<1>7. ASSUME NEW u \in Templates, Ready(u) \/ \E w \in Workers : Take(w, u) PROVE OwnNews(t)'
  BY <1>1, <1>7 DEF Ready, Take
<1>8. CASE StartWorkers \/ Stop \/ ReturnFromRun
  BY <1>1, <1>8 DEF StartWorkers, Stop, ReturnFromRun
<1>9. CASE UNCHANGED vars
  BY <1>1, <1>9 DEF vars
<1>10. ASSUME NEW k \in Kinds, Handle(k) PROVE OwnNews(t)' \/ Direct(t)'
  BY <1>10, HandleNews
<1>11. CASE Informers
  BY <1>11, InformersNews
<1> QED BY <1>2, <1>5, <1>6, <1>7, <1>8, <1>9, <1>10, <1>11 DEF Next, Process

(* A ConfigMap that is as t wants it stays so, or t is told. *)
LEMMA GoodKept ==
  ASSUME TypeInv, FollowInv, "ConfigMap" \in listed, [Next]_vars, [KeepsName]_vars,
         NEW t \in Templates, cache[t] # Absent, cache[t].configMapName # NoName, Good(t),
         cache'[t] = cache[t], PodsIn(cache, NS[t])' = PodsIn(cache, NS[t])
  PROVE  Good(t)' \/ OwnNews(t)'
<1> DEFINE c == cache[t].configMapName
<1>1. c \in ConfigMaps /\ c \in Objects
  BY ValuesOf DEF TypeInv, TypeOK, ClusterTypeOK, Template, Objects
<1>2. CASE server'[c] = server[c]
  BY <1>2 DEF Good, Wanted
<1>3. CASE server'[c] # server[c]
  <2>1. PICK o \in Objects : \E v \in Values(o) : Put(o, v) /\ UNCHANGED informerVars
    BY <1>3, ServerStep
  <2>2. PICK v \in Values(o) : Put(o, v) /\ UNCHANGED informerVars
    BY <2>1
  <2>3. o = c /\ server'[c] = v
    BY <1>1, <1>3, <2>2, PutAt DEF TypeInv, TypeOK
  <2>4. Named(server[c], t)
    BY DEF Good
  <2>5. KeepsName
    BY <1>3 DEF vars
  <2>6. v # Absent => Named(v, t)
    BY <1>1, <2>3, <2>4, <2>5 DEF KeepsName, Named
  <2>7. OwnDelta(t)'
    BY <1>1, <2>2, <2>3, <2>4, <2>6, ChangeNews
  <2> QED BY <2>7 DEF OwnNews
<1> QED BY <1>2, <1>3

-------------------------------------------------------------------------------
(* The workers.  What a worker has built changes when it executes a text and  *)
(* when it starts anew.                                                    *)
LEMMA OutSame ==
  ASSUME TypeInv, [Next]_vars, ~Exit, ~Crash, NEW w \in Workers
  PROVE  \/ out'[w] = out[w]
         \/ Finish(w)
         \/ \E d \in DataKeys : RenderKey(w, d)
<1> DEFINE Goal == \/ out'[w] = out[w] \/ Finish(w) \/ \E d \in DataKeys : RenderKey(w, d)
<1>1. ASSUME UNCHANGED out PROVE Goal
  BY <1>1
<1>2. ASSUME NEW v \in Workers, Sync(v) PROVE Goal
  <2>1. CASE LookupTemplate(v) \/ FindConfigMap(v) \/ Write(v)
    BY <1>1, <2>1 DEF LookupTemplate, FindConfigMap, Write
  <2>2. CASE Finish(v)
    BY <2>2 DEF Finish, TypeInv, TypeOK
  <2>3. CASE \E d \in DataKeys : RenderKey(v, d)
    BY <2>3 DEF RenderKey, TypeInv, TypeOK
  <2> QED BY <1>2, <2>1, <2>2, <2>3 DEF Sync
<1> HIDE DEF Goal
<1>3. ASSUME NEW k \in Kinds, Handle(k) PROVE Goal
  BY <1>1, <1>3 DEF Handle
<1>4. ASSUME NEW u \in Templates, Ready(u) \/ \E v \in Workers : Take(v, u) PROVE Goal
  BY <1>1, <1>4 DEF Ready, Take
<1>5. ASSUME StartWorkers \/ Stop \/ ReturnFromRun PROVE Goal
  BY <1>1, <1>5 DEF StartWorkers, Stop, ReturnFromRun
<1>6. ASSUME (Others \/ Informers) /\ ProcessUnchanged PROVE Goal
  BY <1>1, <1>6 DEF ProcessUnchanged
<1>7. ASSUME UNCHANGED vars PROVE Goal
  BY <1>1, <1>7 DEF vars
<1>8. ASSUME NEW r \in wire, Arrive(r) PROVE Goal
  BY <1>1, <1>8 DEF Arrive
<1>9. Goal
  BY <1>2, <1>3, <1>4, <1>5, <1>6, <1>7, <1>8 DEF Next, Process
<1> QED BY <1>9 DEF Goal

LEMMA CarriesKept ==
  ASSUME TypeInv, [Next]_vars, ~Exit, ~Crash, NEW t \in Templates, NEW w \in Workers,
         Carries(w, t), LookupTemplate(w) => key[w] # t,
         cache'[t] = cache[t], PodsIn(cache, NS[t])' = PodsIn(cache, NS[t])
  PROVE  Carries(w, t)'
<1> SUFFICES ASSUME key'[w] = t /\ pc'[w] \in {"find", "render"}
             PROVE  /\ tmpl'[w] = cache'[t]
                    /\ \A d \in DataKeys : out'[w][d] = Pending \/ out'[w][d] \in Wanted(t, d)'
  BY DEF Carries
<1>1. \A d \in DataKeys : Wanted(t, d)' = Wanted(t, d)
  BY DEF Wanted
<1>2. ~LookupTemplate(w)
  BY DEF LookupTemplate
<1>3. key[w] = t /\ tmpl'[w] = tmpl[w] /\ pc[w] \in {"find", "render"}
  BY <1>2, PastLookup
<1>4. tmpl[w] = cache[t] /\ \A d \in DataKeys : out[w][d] = Pending \/ out[w][d] \in Wanted(t, d)
  BY <1>3 DEF Carries
<1>5. CASE out'[w] = out[w]
  BY <1>1, <1>3, <1>4, <1>5
<1>6. ASSUME NEW d \in DataKeys, RenderKey(w, d)
      PROVE  \A e \in DataKeys : out'[w][e] = Pending \/ out'[w][e] \in Wanted(t, e)
  <2>1. PICK r \in Results(tmpl[w].data[d], PodsIn(cache, NS[key[w]])) :
          out' = [out EXCEPT ![w] = [out[w] EXCEPT ![d] = r]]
    BY <1>6 DEF RenderKey
  <2>2. r \in Wanted(t, d)
    BY <1>3, <1>4, <2>1 DEF Wanted
  <2>3. \A e \in DataKeys : out'[w][e] = IF e = d THEN r ELSE out[w][e]
    BY <2>1 DEF TypeInv, TypeOK
  <2> QED BY <1>4, <2>2, <2>3
<1>7. ~Finish(w)
  BY <1>3 DEF Finish
<1> QED BY <1>1, <1>3, <1>4, <1>5, <1>6, <1>7, OutSame

(* A worker that will be at t with a template has its key for itself. *)
LEMMA OnlyOne ==
  ASSUME ExclusionInv, NEW t \in Templates, NEW w \in Workers, key[w] = t
  PROVE  t \in processing /\ \A v \in Workers : key[v] = t => v = w
BY ControllerAssumption DEF ExclusionInv, Exclusive

(* A template comes to rest when its worker has looked it up in vain, or has  *)
(* written.                                                                *)
LEMMA RestingKept ==
  ASSUME TypeInv, ExclusionInv, [Next]_vars, ~Exit, ~Crash, NEW t \in Templates, Resting(t)'
  PROVE  \/ Resting(t)
         \/ \E w \in Workers : /\ key[w] = t /\ pc'[w] = "done"
                               /\ LookupTemplate(w) \/ Write(w)
<1> DEFINE Goal == \/ Resting(t)
                   \/ \E w \in Workers : /\ key[w] = t /\ pc'[w] = "done"
                                         /\ LookupTemplate(w) \/ Write(w)
<1>1. ASSUME UNCHANGED <<failed, processing, key, pc>> PROVE Goal
  BY <1>1 DEF Resting
<1>2. ASSUME NEW w \in Workers, NEW u \in Templates, Take(w, u) PROVE Goal
  <2>1. /\ processing' = processing \cup {u} /\ failed' = failed
        /\ pc'[w] = "lookup"
        /\ \A v \in Workers : v # w => pc'[v] = pc[v] /\ key'[v] = key[v]
    BY <1>2 DEF Take, Q!Get, TypeInv, WorkerInv
  <2> QED BY <2>1 DEF Resting
<1>3. ASSUME NEW w \in Workers, LookupTemplate(w) \/ Write(w) PROVE Goal
  <2>1. /\ UNCHANGED <<failed, processing, key>>
        /\ \A v \in Workers : v # w => pc'[v] = pc[v]
    <3>1. CASE LookupTemplate(w)
      BY <3>1 DEF LookupTemplate, TypeInv, WorkerInv
    <3>2. CASE Write(w)
      <4>1. /\ pc' = [pc EXCEPT ![w] = "done"] \/ pc' = [pc EXCEPT ![w] = "failed"]
            /\ UNCHANGED <<failed, processing, key>>
        BY <3>2 DEF Write
      <4> QED BY <4>1 DEF TypeInv, WorkerInv
    <3> QED BY <1>3, <3>1, <3>2
  <2> QED BY <1>3, <2>1 DEF Resting
<1>4. ASSUME NEW w \in Workers, FindConfigMap(w) \/ \E d \in DataKeys : RenderKey(w, d) PROVE Goal
  <2>1. /\ UNCHANGED <<failed, processing, key>> /\ pc'[w] # "done"
        /\ \A v \in Workers : v # w => pc'[v] = pc[v]
    BY <1>4 DEF FindConfigMap, RenderKey, TypeInv, WorkerInv
  <2> QED BY <2>1 DEF Resting
<1>5. ASSUME NEW w \in Workers, Finish(w) PROVE Goal
  <2>1. /\ key[w] \in Templates /\ pc[w] \in {"done", "failed"}
        /\ processing' = processing \ {key[w]}
        /\ failed' = IF pc[w] = "failed" THEN failed \cup {key[w]} ELSE failed \ {key[w]}
        /\ pc'[w] = "idle"
        /\ \A v \in Workers : v # w => pc'[v] = pc[v] /\ key'[v] = key[v]
    BY <1>5 DEF Finish, Q!Done, TypeInv, WorkerInv
  <2>2. CASE key[w] = t
    <3>1. \A v \in Workers : key'[v] = t => pc'[v] # "done"
      BY <2>1, <2>2, OnlyOne
    <3>2. t \notin failed'
      BY <3>1 DEF Resting
    <3>3. pc[w] = "done"
      BY <2>1, <2>2, <3>2
    <3> QED BY <2>2, <3>3 DEF Resting
  <2>3. CASE key[w] # t
    BY <2>1, <2>3 DEF Resting
  <2> QED BY <2>2, <2>3
<1> HIDE DEF Goal
<1>6. ASSUME NEW k \in Kinds, Handle(k) PROVE Goal
  BY <1>1, <1>6 DEF Handle, Q!AddRateLimited
<1>7. ASSUME NEW u \in Templates, Ready(u) PROVE Goal
  BY <1>1, <1>7 DEF Ready, Q!Ready
<1>8. ASSUME StartWorkers \/ Stop \/ ReturnFromRun PROVE Goal
  BY <1>1, <1>8 DEF StartWorkers, Stop, ReturnFromRun, Q!ShutDown
<1>9. ASSUME (Others \/ Informers) /\ ProcessUnchanged PROVE Goal
  BY <1>1, <1>9 DEF ProcessUnchanged
<1>10. ASSUME UNCHANGED vars PROVE Goal
  BY <1>1, <1>10 DEF vars
<1>11. ASSUME NEW w \in Workers, Sync(w) PROVE Goal
  BY <1>3, <1>4, <1>5, <1>11 DEF Sync
<1>12. ASSUME NEW r \in wire, Arrive(r) PROVE Goal
  BY <1>1, <1>12 DEF Arrive
<1>13. Goal
  BY <1>2, <1>6, <1>7, <1>8, <1>9, <1>10, <1>11, <1>12 DEF Next, Process
<1> QED BY <1>13 DEF Goal

(* The lookup: the worker now holds what is cached, and has built nothing. *)
LEMMA LookupClaim ==
  ASSUME TypeInv, ExclusionInv, NEW t \in Templates, NEW w \in Workers, LookupTemplate(w),
         key[w] = t, out[w] = NoOutput
  PROVE  Claim(t)'
<1> SUFFICES ASSUME Settled(t)'
             PROVE  (\A v \in Workers : Carries(v, t)') /\ ~Resting(t)'
  BY DEF Claim
<1>1. UNCHANGED <<cache, key, processing, out>> /\ pc[w] = "lookup"
  BY DEF LookupTemplate
<1>2. cache[t] # Absent /\ cache[t].configMapName # NoName
  BY <1>1 DEF Settled
<1>3. pc'[w] = "find" /\ tmpl'[w] = cache[t]
  BY <1>2 DEF LookupTemplate, TypeInv, TypeOK
<1>4. t \in processing /\ \A v \in Workers : key[v] = t => v = w
  BY OnlyOne
<1>5. \A v \in Workers : Carries(v, t)'
  BY <1>1, <1>3, <1>4 DEF Carries, NoOutput
<1>6. ~Resting(t)'
  BY <1>1, <1>3, <1>4 DEF Resting
<1> QED BY <1>5, <1>6

(* The write: the server then holds what the worker has built. *)
LEMMA WriteGood ==
  ASSUME TypeInv, NEW t \in Templates, NEW w \in Workers, Write(w), key[w] = t,
         pc'[w] = "done", Carries(w, t)
  PROVE  Good(t)'
<1> DEFINE c == cache[t].configMapName
<1>1. /\ pc[w] = "render" /\ \A d \in DataKeys : out[w][d] # Pending
      /\ cache' = cache
  BY DEF Write, ReadyToWrite
<1>2. Accepted(Request(w)) /\ Apply(Request(w))
  <2>1. \/ Accepted(Request(w)) /\ Apply(Request(w))
        \/ pc' = [pc EXCEPT ![w] = "failed"]
    BY DEF Write
  <2> QED BY <2>1 DEF TypeInv, WorkerInv
<1>3. tmpl[w] = cache[t] /\ \A d \in DataKeys : out[w][d] \in Wanted(t, d)
  BY <1>1 DEF Carries
<1>4. c \in Objects /\ NewConfigMap(w) \in ConfigMap
  BY <1>3, WritesConfigMap DEF Write
<1>5. server'[c] = NewConfigMap(w)
  <2>1. Request(w).name = c /\ Request(w).value = NewConfigMap(w)
    BY <1>3 DEF Request
  <2>2. CASE server[c] = NewConfigMap(w) /\ UNCHANGED server
    BY <2>2
  <2>3. CASE Put(c, NewConfigMap(w))
    <3>1. NewConfigMap(w) \in Values(c)
      BY <1>3, WritesConfigMap DEF Write
    <3> QED BY <1>4, <2>3, <3>1, PutAt DEF TypeInv, TypeOK
  <2> QED BY <1>2, <2>1, <2>2, <2>3 DEF Apply
<1>6. /\ NewConfigMap(w).owner = [name |-> t, uid |-> cache[t].uid]
      /\ NewConfigMap(w).data = out[w] /\ NewConfigMap(w) # Absent
      /\ NewConfigMap(w).owner \in OwnerRef
  <2>1. NewConfigMap(w).owner = [name |-> t, uid |-> cache[t].uid] /\ NewConfigMap(w).data = out[w]
    BY <1>3 DEF NewConfigMap, ControllerRef
  <2>2. cache[t] \in Template
    BY <1>1, <1>3 DEF TypeInv
  <2> QED BY <1>4, <2>1, <2>2, ClusterAssumption DEF OwnerRef, Template
<1>7. server'[c].owner # NoOwner
  BY <1>5, <1>6, ClusterAssumption
<1>8. \A d \in DataKeys : server'[c].data[d] \in Wanted(t, d)
  BY <1>3, <1>5, <1>6
<1> QED BY <1>1, <1>5, <1>6, <1>7, <1>8 DEF Good, Named, Wanted

LEMMA ClaimStep ==
  ASSUME TypeInv, ExclusionInv, FollowInv, ~shuttingDown, "ConfigMap" \in listed,
         \A w \in Workers : pc[w] = "lookup" => out[w] = NoOutput,
         [Next]_vars, [KeepsName]_vars, ~Exit, ~Crash, NEW t \in Templates, Claim(t)
  PROVE  Claim(t)'
<1>1. ASSUME NEW w \in Workers, LookupTemplate(w), key[w] = t PROVE Claim(t)'
  BY <1>1, LookupClaim DEF LookupTemplate
<1>2. ASSUME \A w \in Workers : LookupTemplate(w) => key[w] # t PROVE Claim(t)'
  <2> SUFFICES ASSUME Settled(t)'
               PROVE  /\ \A w \in Workers : Carries(w, t)'
                      /\ Resting(t)' => OwnNews(t)' \/ Good(t)'
    BY DEF Claim
  <2>1. Settled(t) /\ cache'[t] = cache[t] /\ PodsIn(cache, NS[t])' = PodsIn(cache, NS[t])
    BY <1>2, SettledKept
  <2>2. (\A w \in Workers : Carries(w, t)) /\ (Resting(t) => OwnNews(t) \/ Good(t))
    BY <2>1 DEF Claim
  <2>3. \A w \in Workers : Carries(w, t)'
    BY <1>2, <2>1, <2>2, CarriesKept
  <2>4. cache[t] # Absent /\ cache[t].configMapName # NoName /\ ~Direct(t)'
    BY <2>1 DEF Settled
  <2>5. OwnNews(t) \/ Good(t) => OwnNews(t)' \/ Good(t)'
    BY <2>1, <2>4, NewsKept, GoodKept
  <2>6. ASSUME NEW w \in Workers, Write(w), key[w] = t, pc'[w] = "done" PROVE Good(t)'
    BY <2>2, <2>6, WriteGood
  <2> QED BY <1>2, <2>2, <2>3, <2>5, <2>6, RestingKept
<1> QED BY <1>1, <1>2

(* The cached template comes with a notification. *)
LEMMA StartingStep ==
  ASSUME TypeInv, ~shuttingDown, [Next]_vars, ~Exit, ~Crash, NEW t \in Templates,
         \A w \in Workers : pc[w] = "idle", cache[t] # Absent => Direct(t), cache'[t] # Absent
  PROVE  Direct(t)'
<1>1. \A w \in Workers : ~LookupTemplate(w)
  BY DEF LookupTemplate
<1>2. CASE cache[t] # Absent
  BY <1>1, <1>2, DirectKept
<1>3. CASE cache[t] = Absent
  <2>1. ~UNCHANGED <<cache, notes>>
    BY <1>3
  <2>2. PICK o \in Objects : Deliver(o)
    BY <1>3, <2>1, NotesSame DEF Resync, Handle
  <2>3. o = t /\ Head(deltas[o]) # Absent
    BY <1>3, <2>2 DEF Deliver, TypeInv, TypeOK, ClusterTypeOK, Objects
  <2>4. NoteFor(o, Head(deltas[o])) \in Range(notes'["ConfigMapTemplate"])
    <3>1. ClusterTypeOK
      BY DEF TypeInv, TypeOK
    <3>2. Kind(o) = "ConfigMapTemplate" /\ "ConfigMapTemplate" \in Kinds
      BY <2>3, ValuesOf DEF Kinds
    <3>3. \A k \in Kinds : k = Kind(o) =>
            Range(notes'[k]) = Range(notes[k]) \cup {NoteFor(o, Head(deltas[o]))}
      BY <2>2, <3>1, DeliverNotes
    <3> QED BY <3>2, <3>3
  <2>5. LET n == NoteFor(o, Head(deltas[o])) IN n.obj = t /\ n.type # "delete"
    BY <2>3 DEF NoteFor
  <2>6. \E n \in Range(notes'["ConfigMapTemplate"]) : n.obj = t /\ n.type # "delete"
    BY <2>4, <2>5
  <2> QED BY <2>6 DEF Direct
<1> QED BY <1>2, <1>3

(* Run and main.  While the workers wait, the queue fills. *)
LEMMA PhaseStep ==
  ASSUME TypeInv, RestInv, [Next]_vars, ~Exit, ~Crash
  PROVE  /\ phase' \in {"starting", "running"} => ~shuttingDown'
         /\ phase' = "starting" => phase = "starting" /\ \A w \in Workers : pc'[w] = "idle"
         /\ phase' = "running" =>
              /\ "ConfigMap" \in listed'
              /\ phase = "running" \/ (phase = "starting" /\ StartWorkers)
<1> DEFINE Goal ==
      /\ phase' \in {"starting", "running"} => ~shuttingDown'
      /\ phase' = "starting" => phase = "starting" /\ \A w \in Workers : pc'[w] = "idle"
      /\ phase' = "running" =>
           /\ "ConfigMap" \in listed'
           /\ phase = "running" \/ (phase = "starting" /\ StartWorkers)
<1>1. ASSUME UNCHANGED <<phase, shuttingDown>>, listed \subseteq listed',
             phase = "starting" => pc' = pc
      PROVE  Goal
  BY <1>1 DEF RestInv
<1>2. ASSUME NEW w \in Workers, Sync(w) PROVE Goal
  <2>1. pc[w] # "idle" /\ UNCHANGED <<phase, shuttingDown, listed>>
    BY <1>2 DEF Sync, LookupTemplate, FindConfigMap, RenderKey, Write, ReadyToWrite, Finish, Q!Done
  <2> QED BY <1>1, <2>1 DEF RestInv
<1>3. ASSUME NEW u \in Templates, Ready(u) \/ \E w \in Workers : Take(w, u) PROVE Goal
  BY <1>1, <1>3 DEF Ready, Q!Ready, Take, Q!Get
<1>4. ASSUME NEW k \in Kinds, Handle(k) PROVE Goal
  BY <1>1, <1>4 DEF Handle, Q!AddRateLimited
<1>5. ASSUME StartWorkers \/ Stop \/ ReturnFromRun PROVE Goal
  BY <1>5 DEF StartWorkers, Stop, ReturnFromRun, RestInv, HasSynced
<1>6. ASSUME Others, ProcessUnchanged PROVE Goal
  <2>1. UNCHANGED listed
    BY <1>6, OthersPut DEF TypeInv, TypeOK
  <2> QED BY <1>1, <1>6, <2>1 DEF ProcessUnchanged
<1>7. ASSUME Informers, ProcessUnchanged PROVE Goal
  <2>1. listed \subseteq listed'
    BY <1>7 DEF Informers, List, Deliver, Resync
  <2> QED BY <1>1, <1>7, <2>1 DEF ProcessUnchanged
<1>8. ASSUME UNCHANGED vars PROVE Goal
  BY <1>1, <1>8 DEF vars
<1> HIDE DEF Goal
<1>9. ASSUME NEW r \in wire, Arrive(r) PROVE Goal
  BY <1>1, <1>9 DEF Arrive
<1>10. Goal
  BY <1>2, <1>3, <1>4, <1>5, <1>6, <1>7, <1>8, <1>9 DEF Next, Process
<1> QED BY <1>10 DEF Goal

(* A worker that has executed no text has built nothing. *)
LEMMA OutputStep ==
  ASSUME TypeInv, RestInv, [Next]_vars, ~Exit, ~Crash, NEW w \in Workers,
         pc'[w] \in {"idle", "lookup", "find"}
  PROVE  out'[w] = NoOutput
<1>1. pc[w] \in {"idle", "lookup", "find"} \/ Finish(w)
  <2> DEFINE Goal == pc[w] \in {"idle", "lookup", "find"} \/ Finish(w)
  <2>1. ASSUME pc'[w] = pc[w] PROVE Goal
    BY <2>1
  <2>2. ASSUME NEW v \in Workers, Sync(v) PROVE Goal
    <3>1. CASE v = w
      <4>1. CASE FindConfigMap(w) \/ LookupTemplate(w)
        BY <4>1 DEF FindConfigMap, LookupTemplate
      <4>2. CASE \E d \in DataKeys : RenderKey(w, d)
        BY <2>1, <4>2 DEF RenderKey
      <4>3. CASE Write(w)
        <5>1. pc'[w] \in {"done", "failed"}
          BY <4>3 DEF Write, TypeInv, WorkerInv
        <5> QED BY <5>1
      <4> QED BY <2>2, <3>1, <4>1, <4>2, <4>3 DEF Sync
    <3>2. CASE v # w
      <4>1. CASE LookupTemplate(v) \/ FindConfigMap(v) \/ \E d \in DataKeys : RenderKey(v, d)
        BY <2>1, <3>2, <4>1 DEF LookupTemplate, FindConfigMap, RenderKey, TypeInv, WorkerInv
      <4>2. CASE Write(v)
        <5>1. pc' = [pc EXCEPT ![v] = "done"] \/ pc' = [pc EXCEPT ![v] = "failed"]
          BY <4>2 DEF Write
        <5> QED BY <2>1, <3>2, <5>1 DEF TypeInv, WorkerInv
      <4>3. CASE Finish(v)
        BY <2>1, <3>2, <4>3 DEF Finish, TypeInv, WorkerInv
      <4> QED BY <2>2, <4>1, <4>2, <4>3 DEF Sync
    <3> QED BY <3>1, <3>2
  <2>3. ASSUME NEW u \in Templates, NEW v \in Workers, Take(v, u) PROVE Goal
    BY <2>1, <2>3 DEF Take, TypeInv, WorkerInv
  <2> HIDE DEF Goal
  <2>4. ASSUME NEW k \in Kinds, Handle(k) PROVE Goal
    BY <2>1, <2>4 DEF Handle
  <2>5. ASSUME NEW u \in Templates, Ready(u) PROVE Goal
    BY <2>1, <2>5 DEF Ready
  <2>6. ASSUME StartWorkers \/ Stop \/ ReturnFromRun PROVE Goal
    BY <2>1, <2>6 DEF StartWorkers, Stop, ReturnFromRun
  <2>7. ASSUME (Others \/ Informers) /\ ProcessUnchanged PROVE Goal
    BY <2>1, <2>7 DEF ProcessUnchanged
  <2>8. ASSUME UNCHANGED vars PROVE Goal
    BY <2>1, <2>8 DEF vars
  <2>9. ASSUME NEW r \in wire, Arrive(r) PROVE Goal
    BY <2>1, <2>9 DEF Arrive
  <2>10. Goal
    BY <2>2, <2>3, <2>4, <2>5, <2>6, <2>7, <2>8, <2>9 DEF Next, Process
  <2> QED BY <2>10 DEF Goal
<1>2. CASE Finish(w)
  BY <1>2 DEF Finish, TypeInv, TypeOK, NoOutput
<1>3. CASE ~Finish(w)
  <2>1. out[w] = NoOutput /\ \A d \in DataKeys : ~RenderKey(w, d)
    BY <1>1, <1>3 DEF RestInv, RenderKey
  <2> QED BY <1>3, <2>1, OutSame DEF NoOutput
<1> QED BY <1>2, <1>3

LEMMA RestStep ==
  ASSUME TypeInv, ExclusionInv, FollowInv, RestInv, [Next]_vars, [KeepsName]_vars
  PROVE  RestInv'
<1>1. CASE Exit \/ Crash
  BY <1>1 DEF Exit, Crash, NewProcess, RestInv, NoOutput, Objects
<1>2. CASE ~Exit /\ ~Crash
  <2>1. ASSUME phase' = "starting", NEW t \in Templates, cache'[t] # Absent PROVE Direct(t)'
    <3>1. phase = "starting"
      BY <1>2, <2>1, PhaseStep
    <3> QED BY <1>2, <2>1, <3>1, StartingStep DEF RestInv
  <2>2. ASSUME phase' = "running", NEW t \in Templates PROVE Claim(t)'
    <3>1. phase = "running" \/ (phase = "starting" /\ StartWorkers)
      BY <1>2, <2>2, PhaseStep
    <3>2. CASE phase = "running"
      <4>1. /\ ~shuttingDown /\ "ConfigMap" \in listed /\ Claim(t)
            /\ \A w \in Workers : pc[w] = "lookup" => out[w] = NoOutput
        BY <3>2 DEF RestInv
      <4> QED BY <1>2, <4>1, ClaimStep
    <3>3. CASE phase = "starting" /\ StartWorkers
      <4>1. /\ cache[t] # Absent => Direct(t)
            /\ \A w \in Workers : pc[w] = "idle" /\ ~shuttingDown
        BY <3>3 DEF RestInv
      <4>2. cache'[t] # Absent => Direct(t)'
        BY <1>2, <4>1, StartingStep, <3>3 DEF RestInv
      <4> QED BY <4>2 DEF Claim, Settled
    <3> QED BY <3>1, <3>2, <3>3
  <2> QED BY <1>2, <2>1, <2>2, PhaseStep, OutputStep DEF RestInv
<1> QED BY <1>1, <1>2

(* No lost update.  As long as no template takes a ConfigMap over from        *)
(* another, a template whose last sync succeeded and that nothing on its way  *)
(* will make sync again has its ConfigMap in the server, with its texts       *)
(* executed on the pods there are, however changes, deliveries, workers,      *)
(* faults, late calls, lagging Lists, crashes and restarts fall together.     *)
THEOREM NoLostUpdate == Spec /\ NoTakeover => []RestMeansConverged
<1> DEFINE AllInv == TypeInv /\ ExclusionInv /\ FollowInv /\ RestInv
<1>1. Init => AllInv
  BY TypeInit, ExclusionInit, FollowInit, RestInit
<1>2. AllInv /\ [Next]_vars /\ [KeepsName]_vars => AllInv'
  BY TypeStep, ExclusionStep, FollowStep, RestStep
<1>3. AllInv => RestMeansConverged
  BY RestConverges DEF FollowInv
<1> QED BY <1>1, <1>2, <1>3, PTL DEF Spec, NoTakeover

(* Templates that cannot name the same ConfigMap lose no update, even if      *)
(* others delete and tamper with what they want.                            *)
THEOREM ApartLosesNoUpdate == Apart /\ Spec => []RestMeansConverged
BY NoLostUpdate, ApartNoTakeover, PTL

(* Nor do templates that compete for a ConfigMap, if others leave the         *)
(* controller's objects in place: the loser's last sync has failed.           *)
THEOREM BenignLosesNoUpdate == Benign /\ Spec => []RestMeansConverged
BY NoLostUpdate, BenignNoTakeover, PTL
===============================================================================
