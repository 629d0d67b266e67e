------------------------ MODULE ControllerHistoryProofs -----------------------
(***************************************************************************)
(* Proofs about what the writes of Controller may do, for any templates,    *)
(* ConfigMaps, pods, workers, changes, faults, late calls and restarts: in   *)
(* one process no older version of a template is written after a newer one,  *)
(* and who owns a ConfigMap.  Both hang on what a List, the caches and the   *)
(* calls on the wire may hold while the server goes on.                     *)
(***************************************************************************)
EXTENDS ControllerProofs

USE DEF serverVars, informerVars, clusterVars, queueVars, workerVars, ghostVars, budgetVars

-------------------------------------------------------------------------------
(* The elements of a sequence that grows at its end and shrinks at its head.  *)
LEMMA RangeAppend ==
  ASSUME NEW S, NEW s \in Seq(S), NEW e \in S
  PROVE  Range(Append(s, e)) = Range(s) \cup {e}
<1> DEFINE t == Append(s, e)
<1>1. /\ Len(t) = Len(s) + 1 /\ t[Len(s) + 1] = e
      /\ \A n \in 1..Len(s) : t[n] = s[n]
  BY AppendProperties
<1>2. DOMAIN s = 1..Len(s) /\ DOMAIN t = 1..(Len(s) + 1) /\ Len(s) \in Nat
  BY <1>1, LenProperties
<1> QED BY <1>1, <1>2 DEF Range

LEMMA RangeTail ==
  ASSUME NEW S, NEW s \in Seq(S), s # <<>>
  PROVE  Head(s) \in S /\ Range(s) = {Head(s)} \cup Range(Tail(s))
<1> DEFINE t == Tail(s)
<1>1. /\ t \in Seq(S) /\ Len(t) = Len(s) - 1
      /\ \A n \in 1..Len(t) : t[n] = s[n + 1]
      /\ Head(s) \in S /\ Head(s) = s[1]
  BY HeadTailProperties
<1>2. DOMAIN s = 1..Len(s) /\ DOMAIN t = 1..(Len(s) - 1) /\ Len(s) \in Nat /\ Len(s) > 0
  BY <1>1, LenProperties, EmptySeq
<1>3. \A n \in 2..Len(s) : n - 1 \in 1..Len(t) /\ s[n] = t[n - 1]
  BY <1>1, <1>2
<1>4. Range(t) \subseteq Range(s)
  BY <1>1, <1>2 DEF Range
<1>5. ASSUME NEW x \in Range(s), x # Head(s) PROVE x \in Range(t)
  <2>1. PICK n \in 1..Len(s) : x = s[n]
    BY <1>2 DEF Range
  <2>2. n \in 2..Len(s)
    BY <1>1, <1>2, <1>5, <2>1
  <2> QED BY <1>1, <1>2, <1>3, <2>1, <2>2 DEF Range
<1>6. Head(s) \in Range(s)
  BY <1>1, <1>2 DEF Range
<1> QED BY <1>1, <1>4, <1>5, <1>6

LEMMA RangeShort ==
  /\ Range(<<>>) = {}
  /\ \A e : Range(<<e>>) = {e}
BY DEF Range

(* Versions of a template that come in the order in which they were made. *)
Sorted(s) ==
  \A m, n \in 1..Len(s) :
    m <= n /\ s[m] # Absent /\ s[n] # Absent => s[m].rv <= s[n].rv

LEMMA SortedAppend ==
  ASSUME NEW t \in Templates, NEW s \in Seq(Values(t)), NEW v \in Values(t), Sorted(s),
         v # Absent => \A x \in Range(s) : x # Absent => x.rv <= v.rv
  PROVE  Sorted(Append(s, v))
<1>1. /\ Len(Append(s, v)) = Len(s) + 1 /\ Append(s, v)[Len(s) + 1] = v
      /\ \A n \in 1..Len(s) : Append(s, v)[n] = s[n]
      /\ Len(s) \in Nat /\ DOMAIN s = 1..Len(s)
  BY AppendProperties, LenProperties
<1>2. v # Absent => v.rv \in Nat
  BY ValuesOf DEF Template
<1>3. \A n \in 1..Len(s) : s[n] \in Range(s)
  BY <1>1 DEF Range
<1> QED BY <1>1, <1>2, <1>3 DEF Sorted

LEMMA SortedTail ==
  ASSUME NEW t \in Templates, NEW s \in Seq(Values(t)), s # <<>>, Sorted(s)
  PROVE  /\ Sorted(Tail(s))
         /\ Head(s) # Absent => \A x \in Range(Tail(s)) : x # Absent => Head(s).rv <= x.rv
<1>1. /\ Tail(s) \in Seq(Values(t)) /\ Len(Tail(s)) = Len(s) - 1 /\ Head(s) = s[1]
      /\ Len(s) \in Nat /\ Len(s) > 0
      /\ \A n \in 1..Len(Tail(s)) : Tail(s)[n] = s[n + 1]
  BY HeadTailProperties, LenProperties, EmptySeq
<1>2. DOMAIN Tail(s) = 1..(Len(s) - 1)
  BY <1>1, LenProperties
<1>3. Sorted(Tail(s))
  BY <1>1 DEF Sorted
<1>4. ASSUME Head(s) # Absent, NEW x \in Range(Tail(s)), x # Absent PROVE Head(s).rv <= x.rv
  <2>1. PICK n \in 1..(Len(s) - 1) : x = Tail(s)[n]
    BY <1>2 DEF Range
  <2>2. x = s[n + 1] /\ n + 1 \in 1..Len(s) /\ 1 \in 1..Len(s) /\ 1 <= n + 1
    BY <1>1, <2>1
  <2> QED BY <1>1, <1>4, <2>2 DEF Sorted
<1> QED BY <1>3, <1>4

-------------------------------------------------------------------------------
(* What others do: one object becomes another value, and which one. *)
TemplateChange(t, v) ==
  \/ v = Absent /\ "deleteTemplate" \in EnvOps /\ version' = version
  \/ /\ v \in Template /\ version' = version + 1
     /\ v.rv = version' /\ v.configMapName \in Names(t)
     /\ v.uid = IF server[t] = Absent THEN version' ELSE server[t].uid

ConfigMapChange(c, v) ==
  \/ v = Absent /\ ("deleteConfigMap" \in EnvOps \/ Orphaned(server[c]))
  \/ v # Absent /\ server[c] = Absent /\ v.owner = NoOwner
  \/ v # Absent /\ server[c] # Absent /\ v.owner = server[c].owner
  \/ v # Absent /\ server[c] # Absent /\ v.owner = NoOwner /\ "disown" \in EnvOps

OtherChange(o, v) ==
  /\ Put(o, v) /\ UNCHANGED informerVars
  /\ o \in Templates => TemplateChange(o, v)
  /\ o \in ConfigMaps => ConfigMapChange(o, v)
  /\ o \notin Templates => version' = version

LEMMA OthersChange ==
  ASSUME ClusterTypeOK, Others
  PROVE  \E o \in Objects : \E v \in Values(o) : OtherChange(o, v)
<1> DEFINE Goal == \E o \in Objects : \E v \in Values(o) : OtherChange(o, v)
<1> USE DEF Objects
<1>1. \A o \in Objects : server[o] \in Values(o)
  BY DEF ClusterTypeOK
<1>2. version \in Nat /\ version + 1 \in Nat
  BY DEF ClusterTypeOK
<1>3. /\ \A t \in Templates : t \notin ConfigMaps
      /\ \A p \in Pods : p \notin Templates /\ p \notin ConfigMaps
  BY ClusterAssumption
<1>4. ASSUME NEW t \in Templates, CreateTemplate(t) PROVE Goal
  <2>1. PICK name \in Names(t), data \in [DataKeys -> Texts] :
          Change(t, [uid |-> version', rv |-> version', configMapName |-> name, data |-> data],
                 "createTemplate")
    BY <1>4 DEF CreateTemplate
  <2> DEFINE v == [uid |-> version', rv |-> version', configMapName |-> name, data |-> data]
  <2>2. server[t] = Absent /\ version' = version + 1
    BY <1>4 DEF CreateTemplate
  <2>3. v \in Template /\ v \in Values(t)
    BY <1>2, <2>2, ValuesOf DEF Template, Names
  <2>4. TemplateChange(t, v)
    BY <2>2, <2>3 DEF TemplateChange
  <2>5. OtherChange(t, v)
    BY <1>3, <2>1, <2>4 DEF OtherChange, Change
  <2> QED BY <2>3, <2>5
<1>5. ASSUME NEW t \in Templates, EditTemplate(t) PROVE Goal
  <2>1. PICK name \in Names(t), data \in [DataKeys -> Texts] :
          Change(t, [server[t] EXCEPT !.rv = version', !.configMapName = name, !.data = data],
                 "editTemplate")
    BY <1>5 DEF EditTemplate
  <2> DEFINE v == [server[t] EXCEPT !.rv = version', !.configMapName = name, !.data = data]
  <2>2. server[t] # Absent /\ version' = version + 1 /\ server[t] \in Template
    BY <1>1, <1>5, ValuesOf DEF EditTemplate
  <2>3. v \in Template /\ v \in Values(t) /\ v.rv = version' /\ v.uid = server[t].uid
        /\ v.configMapName = name
    BY <1>2, <2>2, ValuesOf DEF Template, Names
  <2>4. TemplateChange(t, v)
    BY <2>2, <2>3 DEF TemplateChange
  <2>5. OtherChange(t, v)
    BY <1>3, <2>1, <2>4 DEF OtherChange, Change
  <2> QED BY <2>3, <2>5
<1>6. ASSUME NEW t \in Templates, DeleteTemplate(t) PROVE Goal
  <2>1. OtherChange(t, Absent) /\ Absent \in Values(t)
    BY <1>3, <1>6, ValuesOf DEF DeleteTemplate, Change, OtherChange, TemplateChange
  <2> QED BY <2>1
<1>7. ASSUME NEW c \in ConfigMaps, CreateForeign(c) PROVE Goal
  <2> DEFINE v == [owner |-> NoOwner, data |-> [d \in DataKeys |-> Tampered]]
  <2>1. v \in ConfigMap /\ v \in Values(c) /\ v # Absent
    BY ValuesOf, ClusterAssumption DEF ConfigMap
  <2>2. OtherChange(c, v)
    BY <1>3, <1>7, <2>1 DEF CreateForeign, Change, OtherChange, ConfigMapChange
  <2> QED BY <2>1, <2>2
<1>8. ASSUME NEW c \in ConfigMaps, TamperWith(c) PROVE Goal
  <2> DEFINE v == [server[c] EXCEPT !.data = [d \in DataKeys |-> Tampered]]
  <2>1. server[c] \in ConfigMap /\ server[c] # Absent
    BY <1>1, <1>8, ValuesOf DEF TamperWith
  <2>2. v \in ConfigMap /\ v \in Values(c) /\ v # Absent /\ v.owner = server[c].owner
    BY <2>1, ValuesOf, ClusterAssumption DEF ConfigMap
  <2>3. OtherChange(c, v)
    BY <1>3, <1>8, <2>1, <2>2 DEF TamperWith, Change, OtherChange, ConfigMapChange
  <2> QED BY <2>2, <2>3
<1>9. ASSUME NEW c \in ConfigMaps, Disown(c) PROVE Goal
  <2> DEFINE v == [server[c] EXCEPT !.owner = NoOwner]
  <2>1. server[c] \in ConfigMap /\ server[c] # Absent
    BY <1>1, <1>9, ValuesOf DEF Disown
  <2>2. v \in ConfigMap /\ v \in Values(c) /\ v # Absent /\ v.owner = NoOwner
    BY <2>1, ValuesOf, ClusterAssumption DEF ConfigMap
  <2>3. OtherChange(c, v)
    BY <1>3, <1>9, <2>1, <2>2 DEF Disown, Change, OtherChange, ConfigMapChange
  <2> QED BY <2>2, <2>3
<1>10. ASSUME NEW c \in ConfigMaps, DeleteConfigMap(c) PROVE Goal
  <2>1. OtherChange(c, Absent) /\ Absent \in Values(c)
    BY <1>3, <1>10, ValuesOf DEF DeleteConfigMap, Change, OtherChange, ConfigMapChange
  <2> QED BY <2>1
<1>11. ASSUME NEW c \in ConfigMaps, CollectGarbage(c) PROVE Goal
  <2>1. OtherChange(c, Absent) /\ Absent \in Values(c)
    BY <1>3, <1>11, ValuesOf DEF CollectGarbage, OtherChange, ConfigMapChange
  <2> QED BY <2>1
<1>12. ASSUME NEW p \in Pods, ChangePod(p) PROVE Goal
  <2>1. PICK v \in (PodStates \cup {Absent}) \ {server[p]} : Change(p, v, "pod")
    BY <1>12 DEF ChangePod
  <2>2. v \in Values(p) /\ OtherChange(p, v)
    BY <1>3, <1>12, <2>1, ValuesOf DEF ChangePod, Change, OtherChange
  <2> QED BY <2>2
<1> QED
  BY <1>4, <1>5, <1>6, <1>7, <1>8, <1>9, <1>10, <1>11, <1>12 DEF Others

-------------------------------------------------------------------------------
(* An object on its way from the server to the cache: what a step of the      *)
(* system may do with it.                                                  *)
(* What may come to the API server next: from a worker, or after all. *)
Sent == wire \cup {Request(w) : w \in {x \in Workers : ReadyToWrite(x)}}

Written(c, v) == \E r \in Sent : Accepted(r) /\ c = r.name /\ v = r.value

SameLine(o) == /\ version' = version \/ version' = version + 1
               /\ UNCHANGED <<server[o], past[o], cache[o], deltas[o]>>
PutLine(o) == \E v \in Values(o) :
  /\ o \in Templates => TemplateChange(o, v)
  /\ o \in ConfigMaps => ConfigMapChange(o, v) \/ Written(o, v)
  /\ o \notin Templates => version' = version
  /\ server'[o] = v /\ deltas'[o] \in {deltas[o], Append(deltas[o], v)} /\ cache'[o] = cache[o]
  /\ past'[o] = Latest(Append(past[o], server[o]))
ListLine(o) ==
  /\ Kind(o) \notin listed
  /\ \E n \in 0..Len(past[o]) : deltas'[o] \in {Since(o, n), Tail(Since(o, n))}
  /\ UNCHANGED <<version, server[o], past[o], cache[o]>>
DeliverLine(o) ==
  /\ deltas[o] # <<>> /\ cache'[o] = Head(deltas[o]) /\ deltas'[o] = Tail(deltas[o])
  /\ UNCHANGED <<version, server[o], past[o]>>
FreshLine(o) == cache'[o] = Absent /\ deltas'[o] = <<>> /\ UNCHANGED <<version, server[o], past[o]>>

LineStep(o) == SameLine(o) \/ PutLine(o) \/ ListLine(o) \/ DeliverLine(o) \/ FreshLine(o)

LEMMA PutShape ==
  ASSUME ClusterTypeOK, NEW o \in Objects, NEW v \in Values(o), Put(o, v)
  PROVE  /\ \A x \in Objects : server'[x] = IF x = o THEN v ELSE server[x]
         /\ \A x \in Objects :
              past'[x] = IF x = o THEN Latest(Append(past[x], server[x])) ELSE past[x]
         /\ \A x \in Objects :
              deltas'[x] = IF x = o /\ Kind(o) \in listed THEN Append(deltas[x], v) ELSE deltas[x]
<1>1. /\ \A x \in Objects : server'[x] = IF x = o THEN v ELSE server[x]
      /\ \A x \in Objects :
           past'[x] = IF x = o THEN Latest(Append(past[x], server[x])) ELSE past[x]
  BY DEF Put, ClusterTypeOK
<1>2. CASE Kind(o) \in listed
  BY <1>1, <1>2 DEF Put, ClusterTypeOK
<1>3. CASE Kind(o) \notin listed
  BY <1>1, <1>3 DEF Put, ClusterTypeOK
<1> QED BY <1>2, <1>3

LEMMA PutAt ==
  ASSUME ClusterTypeOK, NEW o \in Objects, NEW v \in Values(o), Put(o, v), NEW x \in Objects
  PROVE  /\ server'[x] = IF x = o THEN v ELSE server[x]
         /\ past'[x] = IF x = o THEN Latest(Append(past[x], server[x])) ELSE past[x]
         /\ deltas'[x] = deltas[x] \/ (x = o /\ deltas'[x] = Append(deltas[x], v))
<1>1. /\ \A y \in Objects : server'[y] = IF y = o THEN v ELSE server[y]
      /\ \A y \in Objects :
           past'[y] = IF y = o THEN Latest(Append(past[y], server[y])) ELSE past[y]
      /\ \A y \in Objects :
           deltas'[y] = IF y = o /\ Kind(o) \in listed THEN Append(deltas[y], v) ELSE deltas[y]
  BY PutShape, Zenon
<1> QED BY <1>1

LEMMA OthersLine ==
  ASSUME ClusterTypeOK, Others, NEW x \in Objects
  PROVE  LineStep(x)
<1>1. PICK o \in Objects : \E v \in Values(o) : OtherChange(o, v)
  BY OthersChange
<1>2. PICK v \in Values(o) : OtherChange(o, v)
  BY <1>1
<1>3. /\ server'[x] = IF x = o THEN v ELSE server[x]
      /\ past'[x] = IF x = o THEN Latest(Append(past[x], server[x])) ELSE past[x]
      /\ deltas'[x] = deltas[x] \/ (x = o /\ deltas'[x] = Append(deltas[x], v))
  BY <1>2, PutAt DEF OtherChange
<1>4. cache' = cache
  BY <1>2 DEF OtherChange
<1>5. version' = version \/ version' = version + 1
  BY <1>2 DEF OtherChange, TemplateChange
<1>6. CASE o = x
  BY <1>2, <1>3, <1>4, <1>6 DEF OtherChange, LineStep, PutLine
<1>7. CASE o # x
  BY <1>3, <1>4, <1>5, <1>7 DEF LineStep, SameLine
<1> QED BY <1>6, <1>7

LEMMA InformersLine ==
  ASSUME ClusterTypeOK, Informers, NEW x \in Objects
  PROVE  LineStep(x)
<1>1. ASSUME NEW k \in Kinds, List(k) PROVE LineStep(x)
  <2>1. CASE Kind(x) = k
    BY <1>1, <2>1, ListIs DEF LineStep, ListLine
  <2>2. CASE Kind(x) # k
    BY <1>1, <2>2, ListIs DEF LineStep, SameLine
  <2> QED BY <2>1, <2>2
<1>2. ASSUME NEW o \in Objects, Deliver(o) PROVE LineStep(x)
  BY <1>2 DEF Deliver, LineStep, DeliverLine, SameLine, ClusterTypeOK
<1>3. ASSUME NEW o \in Objects, Resync(o) PROVE LineStep(x)
  BY <1>3 DEF Resync, LineStep, SameLine
<1> QED BY <1>1, <1>2, <1>3 DEF Informers

LEMMA SentType ==
  ASSUME TypeInv
  PROVE  Sent \subseteq Requests
BY WritesConfigMap DEF Sent, TypeInv, TypeOK

LEMMA ApplyLine ==
  ASSUME TypeInv, NEW r \in Sent, Apply(r), UNCHANGED <<version, cache>>, NEW x \in Objects
  PROVE  LineStep(x)
<1>1. /\ r \in Requests /\ r.name \in ConfigMaps /\ r.name \in Objects
      /\ r.value \in Values(r.name) /\ r.name \notin Templates /\ ClusterTypeOK
  BY SentType, ApplyIs, ClusterAssumption DEF TypeInv, TypeOK
<1>2. CASE UNCHANGED <<server, past, deltas>>
  BY <1>2 DEF LineStep, SameLine
<1>3. CASE Accepted(r) /\ Put(r.name, r.value)
  <2>1. Written(r.name, r.value)
    BY <1>3 DEF Written
  <2>2. /\ server'[x] = IF x = r.name THEN r.value ELSE server[x]
        /\ past'[x] = IF x = r.name THEN Latest(Append(past[x], server[x])) ELSE past[x]
        /\ deltas'[x] = deltas[x] \/ (x = r.name /\ deltas'[x] = Append(deltas[x], r.value))
    <3> DEFINE o == r.name
               v == r.value
    <3>1. o \in Objects /\ v \in Values(o) /\ Put(o, v)
      BY <1>1, <1>3
    <3> HIDE DEF o, v
    <3>2. /\ server'[x] = IF x = o THEN v ELSE server[x]
          /\ past'[x] = IF x = o THEN Latest(Append(past[x], server[x])) ELSE past[x]
          /\ deltas'[x] = deltas[x] \/ (x = o /\ deltas'[x] = Append(deltas[x], v))
      BY <1>1, <3>1, PutAt
    <3> QED BY <3>2 DEF o, v
  <2>3. CASE x = r.name
    BY <1>1, <2>1, <2>2, <2>3 DEF LineStep, PutLine
  <2>4. CASE x # r.name
    BY <2>2, <2>4 DEF LineStep, SameLine
  <2> QED BY <2>3, <2>4
<1> QED BY <1>1, <1>2, <1>3, ApplyIs

LEMMA WriteLine ==
  ASSUME TypeInv, NEW w \in Workers, Write(w), NEW x \in Objects
  PROVE  LineStep(x)
<1>1. UNCHANGED <<version, cache>> /\ Request(w) \in Sent
  BY DEF Write, Sent
<1>2. CASE UNCHANGED <<server, past, deltas>>
  BY <1>1, <1>2 DEF LineStep, SameLine
<1>3. CASE Apply(Request(w))
  BY <1>1, <1>3, ApplyLine
<1> QED BY <1>2, <1>3 DEF Write

LEMMA NextLine ==
  ASSUME TypeInv, [Next]_vars, NEW x \in Objects
  PROVE  LineStep(x)
<1>1. CASE UNCHANGED clusterVars
  BY <1>1 DEF LineStep, SameLine
<1>2. CASE UNCHANGED vars
  BY <1>1, <1>2 DEF vars
<1>3. CASE (Others \/ Informers) /\ ProcessUnchanged
  BY <1>3, OthersLine, InformersLine DEF TypeInv, TypeOK
<1>4. ASSUME NEW k \in Kinds, Handle(k) PROVE LineStep(x)
  BY <1>4 DEF Handle, LineStep, SameLine
<1>5. ASSUME NEW u \in Templates, Ready(u) \/ \E w \in Workers : Take(w, u) PROVE LineStep(x)
  BY <1>1, <1>5 DEF Ready, Take
<1>6. ASSUME NEW w \in Workers, Sync(w) PROVE LineStep(x)
  <2>1. CASE Write(w)
    BY <2>1, WriteLine
  <2>2. CASE ~Write(w)
    BY <1>1, <1>6, <2>2 DEF Sync, LookupTemplate, FindConfigMap, RenderKey, Finish
  <2> QED BY <2>1, <2>2
<1>7. ASSUME NEW r \in wire, Arrive(r) PROVE LineStep(x)
  BY <1>7, ApplyLine DEF Arrive, Sent
<1>8. CASE StartWorkers \/ Stop \/ ReturnFromRun
  BY <1>1, <1>8 DEF StartWorkers, Stop, ReturnFromRun
<1>9. CASE Exit \/ Crash
  BY <1>9 DEF Exit, Crash, NewProcess, LineStep, FreshLine
<1> QED BY <1>2, <1>3, <1>4, <1>5, <1>6, <1>7, <1>8, <1>9 DEF Next, Process

LEMMA VersionGrows ==
  ASSUME TypeInv, [Next]_vars
  PROVE  version' = version \/ version' = version + 1
<1> DEFINE Goal == version' = version \/ version' = version + 1
<1>1. CASE Others
  BY <1>1, OthersChange DEF TypeInv, TypeOK, OtherChange, TemplateChange
<1>2. ASSUME NEW w \in Workers, Sync(w) PROVE Goal
  BY <1>2 DEF Sync, LookupTemplate, FindConfigMap, RenderKey, Write, Finish
<1>3. CASE Informers \/ \E k \in Kinds : Handle(k)
  BY <1>3 DEF Informers, List, Deliver, Resync, Handle
<1>4. ASSUME NEW u \in Templates, Ready(u) \/ \E w \in Workers : Take(w, u) PROVE Goal
  BY <1>4 DEF Ready, Take
<1>5. CASE Process
  BY <1>5 DEF Process, StartWorkers, Stop, ReturnFromRun, Exit, Crash, NewProcess
<1>6. ASSUME NEW r \in wire, Arrive(r) PROVE Goal
  BY <1>6 DEF Arrive
<1>7. CASE UNCHANGED vars
  BY <1>7 DEF vars
<1> QED BY <1>1, <1>2, <1>3, <1>4, <1>5, <1>6, <1>7 DEF Next

(* A step changes one object in the server at most, and tells of it. *)
LEMMA ServerStep ==
  ASSUME TypeInv, [Next]_vars
  PROVE  \/ server' = server
         \/ \E o \in Objects : \E v \in Values(o) : Put(o, v) /\ UNCHANGED informerVars
<1> DEFINE Goal == \/ server' = server
                   \/ \E o \in Objects : \E v \in Values(o) : Put(o, v) /\ UNCHANGED informerVars
<1>1. CASE Others
  BY <1>1, OthersPut DEF TypeInv, TypeOK
<1>2. ASSUME NEW r \in Sent, Apply(r), UNCHANGED informerVars PROVE Goal
  BY <1>2, SentType, ApplyIs
<1>3. ASSUME NEW w \in Workers, Write(w) PROVE Goal
  BY <1>2, <1>3 DEF Write, Sent
<1>4. ASSUME NEW r \in wire, Arrive(r) PROVE Goal
  BY <1>2, <1>4 DEF Arrive, Sent
<1>5. ASSUME NEW w \in Workers, Sync(w) PROVE Goal
  BY <1>3, <1>5 DEF Sync, LookupTemplate, FindConfigMap, RenderKey, Finish
<1>6. CASE Informers \/ \E k \in Kinds : Handle(k)
  BY <1>6 DEF Informers, List, Deliver, Resync, Handle
<1>7. ASSUME NEW u \in Templates, Ready(u) \/ \E w \in Workers : Take(w, u) PROVE Goal
  BY <1>7 DEF Ready, Take
<1>8. CASE Process
  BY <1>8 DEF Process, StartWorkers, Stop, ReturnFromRun, Exit, Crash, NewProcess
<1>9. CASE UNCHANGED vars
  BY <1>9 DEF vars
<1> QED BY <1>1, <1>4, <1>5, <1>6, <1>7, <1>8, <1>9 DEF Next

(* A call is on its way from a worker only. *)
LEMMA WireStep ==
  ASSUME [Next]_vars
  PROVE  wire' \subseteq Sent
<1>1. ASSUME NEW w \in Workers, Sync(w) PROVE wire' \subseteq Sent
  BY <1>1 DEF Sync, LookupTemplate, FindConfigMap, RenderKey, Write, Finish, Sent
<1>2. ASSUME NEW r \in wire, Arrive(r) PROVE wire' \subseteq Sent
  BY <1>2 DEF Arrive, Sent
<1>3. CASE wire' = wire
  BY <1>3 DEF Sent
<1>4. CASE UNCHANGED vars
  BY <1>3, <1>4 DEF vars
<1>5. CASE (Others \/ Informers) /\ ProcessUnchanged
  BY <1>3, <1>5 DEF ProcessUnchanged
<1>6. ASSUME NEW k \in Kinds, Handle(k) PROVE wire' = wire
  BY <1>6 DEF Handle
<1>7. ASSUME NEW t \in Templates, Ready(t) \/ \E w \in Workers : Take(w, t) PROVE wire' = wire
  BY <1>7 DEF Ready, Take
<1>8. CASE Process
  BY <1>3, <1>8 DEF Process, StartWorkers, Stop, ReturnFromRun, Exit, Crash, NewProcess
<1> QED BY <1>1, <1>2, <1>3, <1>4, <1>5, <1>6, <1>7, <1>8 DEF Next

LEMMA OneChange ==
  ASSUME TypeInv, [Next]_vars, NEW x \in Objects, NEW y \in Objects, x # y
  PROVE  server'[x] = server[x] \/ server'[y] = server[y]
<1>1. ASSUME NEW o \in Objects, NEW v \in Values(o), Put(o, v)
      PROVE  server'[x] = server[x] \/ server'[y] = server[y]
  BY <1>1, PutShape DEF TypeInv, TypeOK
<1> QED BY <1>1, ServerStep

-------------------------------------------------------------------------------
(* Version r of template t is in the past of everything that is still to be   *)
(* seen of t.                                                              *)
Reaches(t, r) ==
  /\ r <= version
  /\ server[t] # Absent => r <= server[t].rv
  /\ cache[t] # Absent => r <= cache[t].rv
  /\ \A v \in Range(deltas[t]) : v # Absent => r <= v.rv

(* What a List may find of t. *)
Stored(t) == Append(past[t], server[t])

(* The versions of t come to the cache in the order in which they were made.  *)
LineInv(t) ==
  /\ \A v \in Range(Stored(t)) : v # Absent => v.rv <= version
  /\ Sorted(Stored(t))
  /\ cache[t] # Absent => Reaches(t, cache[t].rv)
  /\ \A v \in Range(deltas[t]) : v # Absent =>
       v.rv <= version /\ (server[t] # Absent => v.rv <= server[t].rv)
  /\ Sorted(deltas[t])

LEMMA LineTypes ==
  ASSUME ClusterTypeOK, NEW t \in Templates
  PROVE  /\ t \in Objects /\ version \in Nat
         /\ server[t] \in Values(t) /\ cache[t] \in Values(t) /\ deltas[t] \in Seq(Values(t))
         /\ \A v \in Values(t) : v # Absent => v.rv \in Nat
         /\ Range(deltas[t]) \subseteq Values(t)
         /\ past[t] \in Seq(Values(t)) /\ Stored(t) \in Seq(Values(t)) /\ Stored(t) # <<>>
         /\ Range(Stored(t)) \subseteq Values(t) /\ server[t] \in Range(Stored(t))
<1>1. t \in Objects
  BY DEF Objects
<1>2. /\ version \in Nat /\ past[t] \in Seq(Values(t))
      /\ server[t] \in Values(t) /\ cache[t] \in Values(t) /\ deltas[t] \in Seq(Values(t))
  BY <1>1 DEF ClusterTypeOK
<1>3. \A v \in Values(t) : v # Absent => v.rv \in Nat
  BY ValuesOf DEF Template
<1>4. Range(deltas[t]) \subseteq Values(t)
  BY <1>2, LenProperties DEF Range
<1>5. /\ Stored(t) \in Seq(Values(t)) /\ Stored(t) # <<>>
      /\ Range(Stored(t)) = Range(past[t]) \cup {server[t]}
  BY <1>2, AppendProperties, RangeAppend DEF Stored
<1>6. Range(past[t]) \subseteq Values(t)
  BY <1>2, LenProperties DEF Range
<1> QED BY <1>1, <1>2, <1>3, <1>4, <1>5, <1>6

(* Of a sequence in order a part is in order. *)
LEMMA SortedLatest ==
  ASSUME ClusterTypeOK, NEW t \in Templates, Sorted(Stored(t))
  PROVE  LET p == Latest(Stored(t)) IN
         p \in Seq(Values(t)) /\ Sorted(p) /\ Range(p) \subseteq Range(Stored(t))
<1>1. Stored(t) \in Seq(Values(t)) /\ Stored(t) # <<>>
  BY LineTypes
<1>2. /\ Tail(Stored(t)) \in Seq(Values(t)) /\ Sorted(Tail(Stored(t)))
      /\ Range(Tail(Stored(t))) \subseteq Range(Stored(t))
  BY <1>1, HeadTailProperties, RangeTail, SortedTail
<1> QED BY <1>1, <1>2 DEF Latest

LEMMA SortedSince ==
  ASSUME ClusterTypeOK, NEW t \in Templates, Sorted(Stored(t)), NEW n \in 0..Len(past[t]),
         NEW s \in {Since(t, n), Tail(Since(t, n))}
  PROVE  s \in Seq(Values(t)) /\ Sorted(s) /\ Range(s) \subseteq Range(Stored(t))
<1> DEFINE all == Stored(t)
           l == Len(past[t])
           p == Since(t, n)
<1>1. /\ p \in Seq(Values(t)) /\ p # <<>> /\ Len(p) = n + 1
      /\ \A i \in 1..(n + 1) : p[i] = all[l - n + i]
  BY LineTypes, SinceIs DEF Stored
<1>2. l \in Nat /\ n \in Nat /\ n <= l /\ Len(all) = l + 1 /\ DOMAIN all = 1..(l + 1)
  BY LineTypes, LenProperties, AppendProperties DEF Stored
<1>3. \A i \in 1..(n + 1) : l - n + i \in 1..Len(all)
  BY <1>2
<1> HIDE DEF all, l, p
<1>4. Sorted(p)
  BY <1>1, <1>2, <1>3 DEF Sorted, all
<1>5. \A x \in Range(p) : x \in Range(all)
  <2>1. DOMAIN p = 1..(n + 1)
    BY <1>1, LenProperties
  <2> QED BY <1>1, <1>2, <1>3, <2>1 DEF Range
<1>6. /\ Tail(p) \in Seq(Values(t)) /\ Sorted(Tail(p))
      /\ Range(Tail(p)) \subseteq Range(p)
  BY <1>1, <1>4, HeadTailProperties, RangeTail, SortedTail
<1> QED BY <1>1, <1>4, <1>5, <1>6 DEF all, p

LEMMA SortedLast ==
  ASSUME ClusterTypeOK, NEW t \in Templates, Sorted(Stored(t)), NEW v \in Range(Stored(t)),
         v # Absent, server[t] # Absent
  PROVE  v.rv <= server[t].rv
<1>1. /\ DOMAIN Stored(t) = 1..(Len(past[t]) + 1) /\ Len(Stored(t)) = Len(past[t]) + 1
      /\ Stored(t)[Len(past[t]) + 1] = server[t] /\ Len(past[t]) \in Nat
  BY LineTypes, LenProperties, AppendProperties DEF Stored
<1>2. PICK i \in 1..(Len(past[t]) + 1) : v = Stored(t)[i]
  BY <1>1 DEF Range
<1> QED BY <1>1, <1>2 DEF Sorted

(* Whatever happens to t, the order is kept, and, but for the first List of a *)
(* process, so is all that was behind.                                      *)
LEMMA LineKept ==
  ASSUME ClusterTypeOK, ClusterTypeOK', UnlistedEmpty, NEW t \in Templates, LineInv(t), LineStep(t)
  PROVE  /\ LineInv(t)'
         /\ Kind(t) \in listed => \A r \in Nat : Reaches(t, r) => Reaches(t, r)'
<1> DEFINE Behind == \A r \in Nat : Reaches(t, r) => Reaches(t, r)'
<1>1. /\ version \in Nat
      /\ server[t] \in Values(t) /\ cache[t] \in Values(t) /\ deltas[t] \in Seq(Values(t))
      /\ \A v \in Values(t) : v # Absent => v.rv \in Nat
      /\ \A v \in Range(deltas[t]) : v \in Values(t)
      /\ \A v \in Range(Stored(t)) : v \in Values(t)
      /\ server[t] \in Range(Stored(t)) /\ t \in Objects
  BY LineTypes
<1>2. version' \in Nat
  BY DEF ClusterTypeOK
<1>3. CASE SameLine(t)
  <2>1. version <= version'
    BY <1>1, <1>3 DEF SameLine
  <2>2. UNCHANGED <<server[t], cache[t], deltas[t], Stored(t)>>
    BY <1>3 DEF SameLine, Stored
  <2>3. \A r \in Nat : r <= version => r <= version'
    BY <1>1, <1>2, <2>1
  <2>4. Behind
    BY <2>2, <2>3 DEF Reaches
  <2>5. LineInv(t)'
    BY <1>1, <2>2, <2>3, <2>4 DEF LineInv, Sorted
  <2> QED BY <2>4, <2>5
<1>4. CASE PutLine(t)
  <2>1. PICK v \in Values(t) :
          /\ TemplateChange(t, v)
          /\ server'[t] = v /\ deltas'[t] \in {deltas[t], Append(deltas[t], v)}
          /\ cache'[t] = cache[t] /\ past'[t] = Latest(Stored(t))
    BY <1>4 DEF PutLine, Stored
  <2>2. version <= version' /\ (v # Absent => v.rv = version' /\ version' = version + 1)
    BY <1>1, <2>1, ClusterAssumption DEF TemplateChange
  <2>3. \A r \in Nat : r <= version => r <= version' /\ (v # Absent => r <= v.rv)
    BY <1>1, <1>2, <2>2
  <2>4. Range(Append(deltas[t], v)) = Range(deltas[t]) \cup {v}
    BY <1>1, RangeAppend
  <2>5. \A x \in Range(deltas'[t]) : x \in Range(deltas[t]) \/ x = v
    BY <2>1, <2>4
  <2>6. Behind
    BY <2>1, <2>3, <2>5 DEF Reaches
  <2>7. /\ \A x \in Range(deltas[t]) : x # Absent => x.rv \in Nat /\ x.rv <= version
        /\ \A x \in Range(Stored(t)) : x # Absent => x.rv \in Nat /\ x.rv <= version
    BY <1>1 DEF LineInv
  <2>8. Sorted(deltas'[t])
    <3>1. v # Absent => \A x \in Range(deltas[t]) : x # Absent => x.rv <= v.rv
      BY <2>3, <2>7
    <3>2. Sorted(Append(deltas[t], v))
      BY <1>1, <3>1, SortedAppend DEF LineInv
    <3> QED BY <2>1, <3>2 DEF LineInv
  <2>9. \A x \in Range(deltas'[t]) : x # Absent => x.rv <= version' /\ (v # Absent => x.rv <= v.rv)
    BY <1>1, <1>2, <2>2, <2>3, <2>5, <2>7
  <2>10. cache'[t] # Absent => Reaches(t, cache[t].rv)'
    BY <1>1, <2>1, <2>6 DEF LineInv
  <2>11. v # Absent => v.rv <= version'
    BY <1>2, <2>2
  <2>12. /\ Sorted(Stored(t)')
         /\ \A x \in Range(Stored(t)') : x # Absent => x.rv <= version'
    <3> DEFINE q == Latest(Stored(t))
    <3>1. q \in Seq(Values(t)) /\ Sorted(q) /\ Range(q) \subseteq Range(Stored(t))
      BY SortedLatest DEF LineInv
    <3>2. Stored(t)' = Append(q, v)
      BY <2>1 DEF Stored
    <3> HIDE DEF q
    <3>3. v # Absent => \A x \in Range(q) : x # Absent => x.rv <= v.rv
      BY <2>3, <2>7, <3>1
    <3>4. Sorted(Append(q, v)) /\ Range(Append(q, v)) = Range(q) \cup {v}
      BY <3>1, <3>3, SortedAppend, RangeAppend
    <3> QED BY <2>3, <2>7, <2>11, <3>1, <3>2, <3>4
  <2> QED BY <2>1, <2>6, <2>8, <2>9, <2>10, <2>11, <2>12 DEF LineInv
<1>5. CASE ListLine(t)
  <2>1. PICK n \in 0..Len(past[t]) : deltas'[t] \in {Since(t, n), Tail(Since(t, n))}
    BY <1>5 DEF ListLine
  <2>2. /\ Kind(t) \notin listed /\ cache'[t] = Absent
        /\ UNCHANGED <<version, server[t], Stored(t)>>
    BY <1>1, <1>5 DEF ListLine, UnlistedEmpty, Stored
  <2>3. Sorted(deltas'[t]) /\ Range(deltas'[t]) \subseteq Range(Stored(t))
    BY <2>1, SortedSince DEF LineInv
  <2>4. \A v \in Range(deltas'[t]) : v # Absent =>
          v.rv <= version' /\ (server'[t] # Absent => v.rv <= server'[t].rv)
    BY <2>2, <2>3, SortedLast DEF LineInv
  <2> QED BY <2>2, <2>3, <2>4 DEF LineInv, Sorted
<1>6. CASE DeliverLine(t)
  <2>1. /\ deltas[t] # <<>> /\ cache'[t] = Head(deltas[t]) /\ deltas'[t] = Tail(deltas[t])
        /\ UNCHANGED <<version, server[t], Stored(t)>>
    BY <1>6 DEF DeliverLine, Stored
  <2>2. Range(deltas[t]) = {cache'[t]} \cup Range(deltas'[t])
    BY <1>1, <2>1, RangeTail
  <2>3. /\ Sorted(deltas'[t])
        /\ cache'[t] # Absent =>
             \A x \in Range(deltas'[t]) : x # Absent => cache'[t].rv <= x.rv
    BY <1>1, <2>1, SortedTail DEF LineInv
  <2>4. Behind
    BY <2>1, <2>2 DEF Reaches
  <2>5. cache'[t] # Absent => Reaches(t, cache[t].rv)'
    BY <1>1, <2>1, <2>2, <2>3 DEF LineInv, Reaches
  <2> QED BY <2>1, <2>2, <2>3, <2>4, <2>5 DEF LineInv, Sorted
<1>7. CASE FreshLine(t)
  <2>1. /\ cache'[t] = Absent /\ deltas'[t] = <<>>
        /\ UNCHANGED <<version, server[t], Stored(t)>>
    BY <1>7 DEF FreshLine, Stored
  <2>2. Range(deltas'[t]) = {}
    BY <2>1, RangeShort
  <2>3. Sorted(deltas'[t])
    BY <2>1 DEF Sorted
  <2> QED BY <2>1, <2>2, <2>3 DEF LineInv, Reaches, Sorted
<1> QED BY <1>3, <1>4, <1>5, <1>6, <1>7 DEF LineStep

-------------------------------------------------------------------------------
(* Before the workers of a process start they have done nothing, and they     *)
(* start when the templates are listed.                                     *)
Early == {"starting", "aborting", "aborted"}

StartedInv ==
  IF phase \in Early
  THEN (\A w \in Workers : pc[w] = "idle") /\ (\A t \in Templates : written[t] = 0)
  ELSE "ConfigMapTemplate" \in listed

LEMMA StartedStep ==
  ASSUME TypeInv, StartedInv, [Next]_vars
  PROVE  /\ StartedInv'
         /\ "ConfigMapTemplate" \notin listed => phase' \in Early
         /\ phase' \in Early => phase \in Early \/ phase' = "starting"
<1> DEFINE Goal == /\ StartedInv'
                   /\ "ConfigMapTemplate" \notin listed => phase' \in Early
                   /\ phase' \in Early => phase \in Early \/ phase' = "starting"
<1>1. ASSUME phase' = phase, listed \subseteq listed', phase \in Early => UNCHANGED <<pc, written>>
      PROVE  Goal
  BY <1>1 DEF StartedInv
<1>2. ASSUME StartWorkers \/ Stop \/ ReturnFromRun PROVE Goal
  BY <1>2 DEF StartWorkers, Stop, ReturnFromRun, HasSynced, StartedInv, Early
<1>3. ASSUME Exit \/ Crash PROVE Goal
  BY <1>3 DEF Exit, Crash, NewProcess, StartedInv, Early
<1> HIDE DEF Goal
<1>4. ASSUME NEW w \in Workers, Sync(w) PROVE Goal
  <2>1. pc[w] # "idle" /\ UNCHANGED <<phase, listed>>
    BY <1>4 DEF Sync, LookupTemplate, FindConfigMap, RenderKey, Write, ReadyToWrite, Finish
  <2> QED BY <1>1, <2>1 DEF StartedInv
<1>5. ASSUME NEW t \in Templates, NEW w \in Workers, Take(w, t) PROVE Goal
  BY <1>1, <1>5 DEF Take, Early
<1>6. ASSUME NEW t \in Templates, Ready(t) PROVE Goal
  BY <1>1, <1>6 DEF Ready
<1>7. ASSUME NEW k \in Kinds, Handle(k) PROVE Goal
  BY <1>1, <1>7 DEF Handle
<1>8. ASSUME NEW r \in wire, Arrive(r) PROVE Goal
  BY <1>1, <1>8 DEF Arrive
<1>9. ASSUME Others, ProcessUnchanged PROVE Goal
  BY <1>1, <1>9, OthersPut DEF ProcessUnchanged, TypeInv, TypeOK
<1>10. ASSUME Informers, ProcessUnchanged PROVE Goal
  <2>1. listed \subseteq listed'
    BY <1>10 DEF Informers, List, Deliver, Resync
  <2> QED BY <1>1, <1>10, <2>1 DEF ProcessUnchanged
<1>11. ASSUME UNCHANGED vars PROVE Goal
  BY <1>1, <1>11 DEF vars
<1>12. Goal
  BY <1>2, <1>3, <1>4, <1>5, <1>6, <1>7, <1>8, <1>9, <1>10, <1>11 DEF Next, Process
<1> QED BY <1>12 DEF Goal

-------------------------------------------------------------------------------
(* What a worker holds of a template is in the past of what is still to come, *)
(* and not older than what the last write was made from.                    *)
HeldInOrder(w, t) ==
  key[w] = t /\ pc[w] \in {"find", "render"} =>
    Reaches(t, tmpl[w].rv) /\ written[t] <= tmpl[w].rv

OrderInv ==
  \A t \in Templates :
    /\ LineInv(t)
    /\ Reaches(t, written[t])
    /\ \A w \in Workers : HeldInOrder(w, t)

LEMMA OrderInit == Init => OrderInv
<1> SUFFICES ASSUME Init, NEW t \in Templates
             PROVE  LineInv(t) /\ Reaches(t, written[t]) /\ \A w \in Workers : HeldInOrder(w, t)
  BY DEF OrderInv
<1>1. /\ version = Cardinality(Templates) /\ server \in InitialServers
      /\ cache[t] = Absent /\ deltas[t] = <<>> /\ past[t] = <<>> /\ written[t] = 0
      /\ pc = [w \in Workers |-> "idle"]
  BY DEF Init, ClusterInit, FreshInformers, FreshWorkers, Objects
<1>2. version \in Nat /\ (server[t] # Absent => server[t].rv \in Nat /\ server[t].rv <= version)
  <2>1. Sound(server)
    BY <1>1, ClusterAssumption
  <2>2. version \in Nat
    BY <1>1, ClusterAssumption, FS_CardinalityType
  <2>3. server[t] # Absent => server[t] \in Template
    BY <2>1, ValuesOf DEF Sound, Objects
  <2> QED BY <1>1, <2>1, <2>2, <2>3 DEF Sound, Template
<1>3. Range(deltas[t]) = {} /\ Sorted(deltas[t])
  BY <1>1, RangeShort DEF Sorted
<1>4. Stored(t) = <<server[t]>> /\ Range(Stored(t)) = {server[t]}
  BY <1>1, RangeShort DEF Stored
<1>5. Sorted(Stored(t))
  BY <1>2, <1>4 DEF Sorted
<1> QED BY <1>1, <1>2, <1>3, <1>4, <1>5 DEF LineInv, Reaches, HeldInOrder

LEMMA OrderStep ==
  ASSUME TypeInv, TypeInv', FollowInv, ExclusionInv, StartedInv, OrderInv, [Next]_vars
  PROVE  OrderInv' /\ (phase' # "starting" => \A t \in Templates : written'[t] >= written[t])
<1> SUFFICES ASSUME NEW t \in Templates
             PROVE  /\ LineInv(t)' /\ Reaches(t, written[t])'
                    /\ \A w \in Workers : HeldInOrder(w, t)'
                    /\ phase' # "starting" => written'[t] >= written[t]
  BY DEF OrderInv
<1> DEFINE Goal == /\ Reaches(t, written[t])'
                   /\ \A w \in Workers : HeldInOrder(w, t)'
                   /\ phase' # "starting" => written'[t] >= written[t]
<1>0. LineInv(t)' /\ (Kind(t) \in listed => \A r \in Nat : Reaches(t, r) => Reaches(t, r)')
  BY NextLine, LineKept DEF OrderInv, TypeInv, TypeOK, Objects, FollowInv
<1> SUFFICES ASSUME phase' \notin Early PROVE Goal
  <2>1. CASE phase' \in Early
    <3>1. /\ \A w \in Workers : pc'[w] = "idle"
          /\ written'[t] = 0 /\ (phase' # "starting" => written[t] = 0)
      BY <2>1, StartedStep DEF StartedInv
    <3>2. Reaches(t, 0)'
      <4>1. /\ version' \in Nat /\ (server'[t] # Absent => server'[t].rv \in Nat)
            /\ cache'[t] # Absent => cache'[t].rv \in Nat
            /\ \A v \in Range(deltas'[t]) : v # Absent => v.rv \in Nat
        <5>1. /\ version' \in Nat /\ server'[t] \in Values(t) /\ cache'[t] \in Values(t)
              /\ deltas'[t] \in Seq(Values(t))
          BY DEF TypeInv, TypeOK, ClusterTypeOK, Objects
        <5>2. \A v \in Range(deltas'[t]) : v \in Values(t)
          BY <5>1, LenProperties DEF Range
        <5> QED BY <5>1, <5>2, ValuesOf DEF Template
      <4> QED BY <4>1 DEF Reaches
    <3> QED BY <1>0, <3>1, <3>2 DEF HeldInOrder
  <2> QED BY <1>0, <2>1
<1>1. LineInv(t)' /\ \A r \in Nat : Reaches(t, r) => Reaches(t, r)'
  BY <1>0, StartedStep, ValuesOf
<1>2. /\ written[t] \in Nat /\ LineInv(t) /\ Reaches(t, written[t])
      /\ \A w \in Workers : HeldInOrder(w, t)
      /\ \A w \in Workers : pc[w] \in {"find", "render"} => tmpl[w].rv \in Nat
  BY DEF OrderInv, TypeInv, TypeOK, Template
<1>3. ASSUME written'[t] = written[t],
             NEW v \in Workers, key'[v] = t /\ pc'[v] \in {"find", "render"},
             key[v] = t /\ pc[v] \in {"find", "render"} /\ tmpl'[v] = tmpl[v]
      PROVE  HeldInOrder(v, t)'
  BY <1>1, <1>2, <1>3 DEF HeldInOrder
<1>4. ASSUME written'[t] = written[t] PROVE Reaches(t, written[t])' /\ written'[t] >= written[t]
  BY <1>1, <1>2, <1>4
<1>5. ASSUME UNCHANGED <<pc, key, tmpl, written>> PROVE Goal
  BY <1>3, <1>4, <1>5 DEF HeldInOrder
<1> HIDE DEF Goal
<1>6. ASSUME UNCHANGED vars PROVE Goal
  BY <1>5, <1>6 DEF vars
<1>7. ASSUME (Others \/ Informers) /\ ProcessUnchanged PROVE Goal
  BY <1>5, <1>7 DEF ProcessUnchanged
<1>8. ASSUME NEW k \in Kinds, Handle(k) PROVE Goal
  BY <1>5, <1>8 DEF Handle
<1>9. ASSUME NEW u \in Templates, Ready(u) PROVE Goal
  BY <1>5, <1>9 DEF Ready
<1>10. ASSUME NEW u \in Templates, NEW w \in Workers, Take(w, u) PROVE Goal
  <2>1. /\ \A v \in Workers : v # w => key'[v] = key[v] /\ pc'[v] = pc[v]
        /\ pc'[w] = "lookup" /\ UNCHANGED <<tmpl, written>>
    BY <1>10 DEF Take, TypeInv, WorkerInv
  <2> QED BY <1>3, <1>4, <2>1 DEF HeldInOrder, Goal
<1>11. ASSUME NEW w \in Workers, LookupTemplate(w) PROVE Goal
  <2>1. /\ \A v \in Workers : v # w => pc'[v] = pc[v] /\ tmpl'[v] = tmpl[v]
        /\ UNCHANGED <<key, written, clusterVars>>
    BY <1>11 DEF LookupTemplate, TypeInv, TypeOK
  <2>2. ASSUME key[w] = t PROVE HeldInOrder(w, t)'
    <3>1. pc'[w] = "done" \/ (cache[t] # Absent /\ tmpl'[w] = cache[t])
      BY <1>11, <2>2 DEF LookupTemplate, TypeInv, TypeOK
    <3>2. cache[t] # Absent => Reaches(t, cache[t].rv)' /\ written[t] <= cache[t].rv
      <4>1. cache[t] # Absent => cache[t].rv \in Nat
        BY LineTypes DEF TypeInv, TypeOK
      <4> QED BY <1>1, <1>2, <2>1, <4>1 DEF LineInv, Reaches
    <3> QED BY <2>1, <3>1, <3>2 DEF HeldInOrder
  <2> QED BY <1>3, <1>4, <2>1, <2>2 DEF HeldInOrder, Goal
<1>12. ASSUME NEW w \in Workers, FindConfigMap(w) \/ \E d \in DataKeys : RenderKey(w, d)
       PROVE  Goal
  <2>1. /\ \A v \in Workers : v # w => pc'[v] = pc[v]
        /\ pc[w] \in {"find", "render"} /\ UNCHANGED <<key, tmpl, written>>
    BY <1>12 DEF FindConfigMap, RenderKey, TypeInv, WorkerInv
  <2> QED BY <1>3, <1>4, <2>1 DEF HeldInOrder, Goal
<1>13. ASSUME NEW w \in Workers, Write(w) PROVE Goal
  <2>1. /\ pc[w] = "render" /\ key[w] \in Templates
        /\ \A v \in Workers : v # w => pc'[v] = pc[v]
        /\ pc'[w] \in {"done", "failed"} /\ UNCHANGED <<key, tmpl>>
    BY <1>13 DEF Write, ReadyToWrite, TypeInv, WorkerInv
  <2>2. CASE written'[t] = written[t]
    BY <1>3, <1>4, <2>1, <2>2 DEF HeldInOrder, Goal
  <2>3. CASE written'[t] # written[t]
    <3>1. key[w] = t /\ written'[t] = tmpl[w].rv
      BY <1>13, <2>3 DEF Write, TypeInv, TypeOK
    <3>2. Reaches(t, tmpl[w].rv) /\ written[t] <= tmpl[w].rv /\ tmpl[w].rv \in Nat
      BY <1>2, <2>1, <3>1 DEF HeldInOrder
    <3>3. \A v \in Workers : key[v] = t => v = w
      BY <2>1, <3>1, ControllerAssumption DEF ExclusionInv, Exclusive
    <3>4. \A v \in Workers : HeldInOrder(v, t)'
      BY <2>1, <3>3 DEF HeldInOrder
    <3> QED BY <1>1, <1>2, <3>1, <3>2, <3>4 DEF Goal
  <2> QED BY <2>2, <2>3
<1>14. ASSUME NEW w \in Workers, Finish(w) PROVE Goal
  <2>1. /\ \A v \in Workers : v # w => key'[v] = key[v] /\ pc'[v] = pc[v] /\ tmpl'[v] = tmpl[v]
        /\ pc'[w] = "idle" /\ UNCHANGED written
    BY <1>14 DEF Finish, TypeInv, WorkerInv, TypeOK
  <2> QED BY <1>3, <1>4, <2>1 DEF HeldInOrder, Goal
<1>15. ASSUME StartWorkers \/ Stop \/ ReturnFromRun PROVE Goal
  BY <1>5, <1>15 DEF StartWorkers, Stop, ReturnFromRun
<1>16. ~Exit /\ ~Crash
  BY DEF Exit, Crash, NewProcess, Early
<1>17. ASSUME NEW r \in wire, Arrive(r) PROVE Goal
  BY <1>5, <1>17 DEF Arrive
<1>18. Goal
  BY <1>6, <1>7, <1>8, <1>9, <1>10, <1>11, <1>12, <1>13, <1>14, <1>15, <1>16, <1>17
  DEF Next, Process, Sync
<1> QED BY <1>1, <1>18 DEF Goal

(* In one process (a step to "starting" begins another) an older version of a *)
(* template is never written after a newer one, whichever workers do it,      *)
(* however late the informers bring the versions and whatever older versions  *)
(* the List at its start found.  Of two processes, or of a call that comes to *)
(* the API server late, this is not so: see NoRegress.                      *)
THEOREM NoStaleWrite == Spec => NoRegress
<1> DEFINE Inv == TypeInv /\ FollowInv /\ ExclusionInv /\ StartedInv /\ OrderInv
<1>1. Init => Inv
  <2>1. Init => StartedInv
    BY DEF Init, FreshWorkers, StartedInv, Early
  <2> QED BY <2>1, TypeInit, FollowInit, ExclusionInit, OrderInit
<1>2. /\ Inv /\ [Next]_vars => Inv'
      /\ Inv /\ [Next]_vars
         => [phase' # "starting" => \A t \in Templates : written'[t] >= written[t]]_vars
  BY TypeStep, FollowStep, ExclusionStep, StartedStep, OrderStep
<1> QED BY <1>1, <1>2, PTL DEF Spec, NoRegress

-------------------------------------------------------------------------------
(* Who owns a ConfigMap.  Seen holds the versions of an object the caches      *)
(* still work with or may be listed.                                        *)
Seen(o) == {cache[o]} \cup Range(deltas[o]) \cup Range(past[o])

LEMMA RangeSince ==
  ASSUME ClusterTypeOK, NEW o \in Objects, NEW n \in 0..Len(past[o]),
         NEW s \in {Since(o, n), Tail(Since(o, n))}
  PROVE  Range(s) \subseteq Range(past[o]) \cup {server[o]}
<1> DEFINE all == Append(past[o], server[o])
           l == Len(past[o])
           p == Since(o, n)
<1>1. /\ p \in Seq(Values(o)) /\ p # <<>> /\ Len(p) = n + 1
      /\ \A i \in 1..(n + 1) : p[i] = all[l - n + i]
  BY SinceIs
<1>2. past[o] \in Seq(Values(o)) /\ server[o] \in Values(o)
  BY DEF ClusterTypeOK
<1>3. /\ l \in Nat /\ n \in Nat /\ n <= l /\ all \in Seq(Values(o)) /\ Len(all) = l + 1
      /\ Range(all) = Range(past[o]) \cup {server[o]}
  BY <1>2, LenProperties, AppendProperties, RangeAppend
<1>4. DOMAIN all = 1..(l + 1) /\ DOMAIN p = 1..(n + 1)
  BY <1>1, <1>3, LenProperties
<1>5. \A i \in 1..(n + 1) : l - n + i \in 1..(l + 1)
  BY <1>3
<1> HIDE DEF all, l, p
<1>6. Range(p) \subseteq Range(all)
  BY <1>1, <1>4, <1>5 DEF Range
<1>7. Range(Tail(p)) \subseteq Range(p)
  BY <1>1, RangeTail
<1> QED BY <1>3, <1>6, <1>7 DEF p

LEMMA RangeLatest ==
  ASSUME ClusterTypeOK, NEW o \in Objects
  PROVE  Range(Latest(Append(past[o], server[o]))) \subseteq Range(past[o]) \cup {server[o]}
<1> DEFINE all == Append(past[o], server[o])
<1>1. past[o] \in Seq(Values(o)) /\ server[o] \in Values(o)
  BY DEF ClusterTypeOK
<1>2. all \in Seq(Values(o)) /\ all # <<>> /\ Range(all) = Range(past[o]) \cup {server[o]}
  BY <1>1, AppendProperties, RangeAppend
<1> HIDE DEF all
<1>3. Range(Tail(all)) \subseteq Range(all)
  BY <1>2, RangeTail
<1> QED BY <1>2, <1>3 DEF Latest, all

LEMMA SeenStep ==
  ASSUME TypeInv, [Next]_vars, NEW o \in Objects
  PROVE  Seen(o)' \subseteq Seen(o) \cup {server[o], server'[o], Absent}
<1>1. deltas[o] \in Seq(Values(o)) /\ ClusterTypeOK
  BY DEF TypeInv, TypeOK, ClusterTypeOK
<1>2. CASE SameLine(o)
  BY <1>2 DEF SameLine, Seen
<1>3. CASE PutLine(o)
  <2>1. PICK v \in Values(o) : /\ server'[o] = v /\ cache'[o] = cache[o]
                               /\ deltas'[o] \in {deltas[o], Append(deltas[o], v)}
                               /\ past'[o] = Latest(Append(past[o], server[o]))
    BY <1>3 DEF PutLine
  <2>2. Range(Append(deltas[o], v)) = Range(deltas[o]) \cup {v}
    BY <1>1, RangeAppend
  <2>3. Range(past'[o]) \subseteq Range(past[o]) \cup {server[o]}
    BY <1>1, <2>1, RangeLatest
  <2> QED BY <2>1, <2>2, <2>3 DEF Seen
<1>4. CASE ListLine(o)
  <2>1. PICK n \in 0..Len(past[o]) : deltas'[o] \in {Since(o, n), Tail(Since(o, n))}
    BY <1>4 DEF ListLine
  <2>2. Range(deltas'[o]) \subseteq Range(past[o]) \cup {server[o]}
    BY <1>1, <2>1, RangeSince
  <2> QED BY <1>4, <2>2 DEF ListLine, Seen
<1>5. CASE DeliverLine(o)
  <2>1. Range(deltas[o]) = {Head(deltas[o])} \cup Range(Tail(deltas[o]))
    BY <1>1, <1>5, RangeTail DEF DeliverLine
  <2> QED BY <1>5, <2>1 DEF DeliverLine, Seen
<1>6. CASE FreshLine(o)
  BY <1>6, RangeShort DEF FreshLine, Seen
<1> QED BY <1>2, <1>3, <1>4, <1>5, <1>6, NextLine DEF LineStep

(* Nobody but the controller and the garbage collector takes a ConfigMap from *)
(* its owner.                                                              *)
Benign == EnvOps \cap {"disown", "deleteConfigMap", "deleteTemplate"} = {}

(* A uid stands for one template, which stays. *)
UidInv ==
  /\ \A t \in Templates : server[t] # Absent => server[t].uid <= version
  /\ \A t, u \in Templates :
       server[t] # Absent /\ server[u] # Absent /\ server[t].uid = server[u].uid => t = u
  /\ \A t \in Templates : \A v \in Seen(t) :
       v # Absent => server[t] # Absent /\ v.uid = server[t].uid

(* Version v of ConfigMap c: if its owner is there, it still owns c. *)
OwnedBy(v, c) ==
  v # Absent /\ v.owner # NoOwner =>
    /\ v.owner.uid <= version
    /\ \A t \in Templates : server[t] # Absent /\ server[t].uid = v.owner.uid =>
         v.owner.name = t /\ server[c] # Absent /\ server[c].owner = v.owner

(* A worker holds its template's uid, and will update only what it owns. *)
HeldOwner(w) ==
  /\ pc[w] \in {"find", "render"} =>
       server[key[w]] # Absent /\ tmpl[w].uid = server[key[w]].uid
  /\ pc[w] = "render" /\ op[w] = "update" =>
       /\ server[tmpl[w].configMapName] # Absent
       /\ server[tmpl[w].configMapName].owner = ControllerRef(key[w], tmpl[w])

(* So will what it has sent. *)
RequestOwner(r) ==
  LET own == r.value.owner IN
  /\ own \in OwnerRef /\ own # NoOwner
  /\ server[own.name] # Absent /\ own.uid = server[own.name].uid
  /\ r.op = "update" => server[r.name] # Absent /\ server[r.name].owner = own

OwnerInv ==
  /\ Benign
  /\ UidInv
  /\ \A c \in ConfigMaps : \A v \in Seen(c) \cup {server[c]} : OwnedBy(v, c)
  /\ \A w \in Workers : HeldOwner(w)
  /\ \A r \in wire : RequestOwner(r)

LEMMA OwnerInit == Benign /\ Init => OwnerInv
<1> SUFFICES ASSUME Benign, Init PROVE OwnerInv
  OBVIOUS
<1>1. /\ version = Cardinality(Templates) /\ server \in InitialServers
      /\ \A o \in Objects : cache[o] = Absent /\ deltas[o] = <<>> /\ past[o] = <<>>
      /\ pc = [w \in Workers |-> "idle"] /\ wire = {}
  BY DEF Init, ClusterInit, FreshInformers, FreshWorkers
<1>2. Sound(server)
  BY <1>1, ClusterAssumption
<1>3. \A o \in Objects : Seen(o) = {Absent}
  BY <1>1, RangeShort DEF Seen
<1>4. UidInv
  BY <1>1, <1>2, <1>3 DEF Sound, UidInv, Objects
<1>5. ASSUME NEW c \in ConfigMaps, NEW v \in Seen(c) \cup {server[c]} PROVE OwnedBy(v, c)
  <2>1. v = Absent \/ v = server[c]
    BY <1>3, <1>5 DEF Objects
  <2> QED BY <1>1, <1>2, <2>1 DEF Sound, OwnedBy
<1>6. \A w \in Workers : HeldOwner(w)
  BY <1>1 DEF HeldOwner
<1> QED BY <1>1, <1>4, <1>5, <1>6 DEF OwnerInv

(* Types of what is compared here. *)
LEMMA OwnerTypes ==
  ASSUME TypeInv
  PROVE  /\ version \in Nat
         /\ \A t \in Templates : \A v \in Seen(t) \cup {server[t]} : v # Absent => v.uid \in Nat
         /\ \A c \in ConfigMaps : \A v \in Seen(c) \cup {server[c]} :
              /\ v \in Values(c)
              /\ v # Absent /\ v.owner # NoOwner => v.owner \in OwnerRef /\ v.owner.uid \in Nat
         /\ \A w \in Workers : pc[w] \in {"find", "render"} =>
              /\ key[w] \in Templates /\ tmpl[w].uid \in Nat
              /\ tmpl[w].configMapName \in ConfigMaps
<1>1. ClusterTypeOK
  BY DEF TypeInv, TypeOK
<1>2. \A o \in Objects : \A v \in Seen(o) \cup {server[o]} : v \in Values(o)
  BY <1>1, LenProperties DEF ClusterTypeOK, Seen, Range
<1>3. \A t \in Templates : \A v \in Seen(t) \cup {server[t]} : v # Absent => v \in Template
  BY <1>2, ValuesOf DEF Objects
<1>4. \A c \in ConfigMaps : \A v \in Seen(c) \cup {server[c]} : v # Absent => v \in ConfigMap
  BY <1>2, ValuesOf DEF Objects
<1>5. \A c \in ConfigMaps : \A v \in Seen(c) \cup {server[c]} :
        /\ v \in Values(c)
        /\ v # Absent /\ v.owner # NoOwner => v.owner \in OwnerRef /\ v.owner.uid \in Nat
  BY <1>2, <1>4 DEF ConfigMap, OwnerRef, Objects
<1>6. \A w \in Workers : pc[w] \in {"find", "render"} =>
              /\ key[w] \in Templates /\ tmpl[w].uid \in Nat
              /\ tmpl[w].configMapName \in ConfigMaps
  BY DEF TypeInv, WorkerInv, Template
<1>7. version \in Nat
  BY <1>1 DEF ClusterTypeOK
<1> QED BY <1>3, <1>5, <1>6, <1>7 DEF Template

(* A template that is there stays and keeps its uid; a new one gets a new uid. *)
LEMMA UidKept ==
  ASSUME TypeInv, OwnerInv, [Next]_vars
  PROVE  /\ version' \in Nat /\ version <= version'
         /\ \A t \in Templates :
              IF server[t] # Absent
              THEN server'[t] # Absent /\ server'[t].uid = server[t].uid
              ELSE server'[t] # Absent => server'[t] # server[t] /\ server'[t].uid = version + 1
                                          /\ version' = version + 1
<1>1. version \in Nat
  BY OwnerTypes
<1>2. version' \in Nat /\ version <= version'
  BY <1>1, VersionGrows
<1>3. ASSUME NEW t \in Templates
      PROVE  IF server[t] # Absent
             THEN server'[t] # Absent /\ server'[t].uid = server[t].uid
             ELSE server'[t] # Absent => server'[t] # server[t] /\ server'[t].uid = version + 1
                                         /\ version' = version + 1
  <2>1. LineStep(t)
    BY NextLine DEF Objects
  <2>2. CASE server'[t] = server[t]
    BY <2>2
  <2>3. CASE server'[t] # server[t]
    <3>1. TemplateChange(t, server'[t])
      BY <2>1, <2>3 DEF LineStep, SameLine, PutLine, ListLine, DeliverLine, FreshLine
    <3>2. "deleteTemplate" \notin EnvOps
      BY DEF OwnerInv, Benign
    <3>3. Absent \notin Template
      BY ClusterAssumption
    <3> QED BY <2>3, <3>1, <3>2, <3>3 DEF TemplateChange
  <2> QED BY <2>2, <2>3
<1> QED BY <1>2, <1>3

LEMMA UidStep ==
  ASSUME TypeInv, OwnerInv, [Next]_vars
  PROVE  UidInv'
<1>1. /\ version' \in Nat /\ version \in Nat /\ version <= version'
      /\ \A t \in Templates :
           IF server[t] # Absent
           THEN server'[t] # Absent /\ server'[t].uid = server[t].uid
           ELSE server'[t] # Absent => server'[t] # server[t] /\ server'[t].uid = version + 1
                                       /\ version' = version + 1
  BY UidKept, OwnerTypes
<1>2. /\ \A t \in Templates : server[t] # Absent => server[t].uid <= version /\ server[t].uid \in Nat
      /\ UidInv
  BY OwnerTypes DEF OwnerInv, UidInv
<1>3. ASSUME NEW t \in Templates, server'[t] # Absent PROVE server'[t].uid <= version'
  BY <1>1, <1>2, <1>3
<1>4. ASSUME NEW t \in Templates, NEW u \in Templates, server'[t] # Absent, server'[u] # Absent,
             server'[t].uid = server'[u].uid
      PROVE  t = u
  <2>1. CASE server[t] # Absent /\ server[u] # Absent
    BY <1>1, <1>2, <1>4, <2>1 DEF UidInv
  <2>2. CASE server[t] = Absent /\ server[u] = Absent
    <3>1. server'[t] # server[t] /\ server'[u] # server[u]
      BY <1>4, <2>2
    <3>2. t \in Objects /\ u \in Objects
      BY DEF Objects
    <3> QED BY <3>1, <3>2, OneChange
  <2>3. CASE server[t] # Absent /\ server[u] = Absent
    BY <1>1, <1>2, <1>4, <2>3
  <2>4. CASE server[t] = Absent /\ server[u] # Absent
    BY <1>1, <1>2, <1>4, <2>4
  <2> QED BY <2>1, <2>2, <2>3, <2>4
<1>5. ASSUME NEW t \in Templates, NEW v \in Seen(t)', v # Absent
      PROVE  server'[t] # Absent /\ v.uid = server'[t].uid
  <2>1. v \in Seen(t) \/ v = server[t] \/ v = server'[t]
    BY <1>5, SeenStep DEF Objects
  <2> QED BY <1>1, <1>2, <1>5, <2>1 DEF UidInv
<1> QED BY <1>3, <1>4, <1>5 DEF UidInv

(* What a worker has sent or will send is for a ConfigMap of its own. *)
LEMMA SentOwner ==
  ASSUME TypeInv, OwnerInv, NEW r \in Sent
  PROVE  RequestOwner(r)
<1>1. CASE r \in wire
  BY <1>1 DEF OwnerInv
<1>2. CASE \E w \in Workers : ReadyToWrite(w) /\ r = Request(w)
  <2>1. PICK w \in Workers : ReadyToWrite(w) /\ r = Request(w)
    BY <1>2
  <2>2. /\ r.value.owner = ControllerRef(key[w], tmpl[w]) /\ r.op = op[w]
        /\ r.name = tmpl[w].configMapName
    BY <2>1 DEF Request, NewConfigMap
  <2>3. pc[w] = "render" /\ key[w] \in Templates /\ tmpl[w].uid \in Nat
    BY <2>1, OwnerTypes DEF ReadyToWrite
  <2>4. ControllerRef(key[w], tmpl[w]) \in OwnerRef
    BY <2>3 DEF ControllerRef, OwnerRef
  <2>5. HeldOwner(w)
    BY DEF OwnerInv
  <2> QED BY <2>2, <2>3, <2>4, <2>5, ClusterAssumption DEF HeldOwner, RequestOwner, ControllerRef
<1> QED BY <1>1, <1>2 DEF Sent

(* What is written: a ConfigMap of a template's, over nothing or its own.     *)
LEMMA WrittenOwner ==
  ASSUME TypeInv, OwnerInv, NEW c \in ConfigMaps, NEW v, Written(c, v)
  PROVE  /\ v # Absent /\ (server[c] # Absent => server[c].owner = v.owner)
         /\ \E t \in Templates : /\ v.owner = [name |-> t, uid |-> server[t].uid]
                                 /\ server[t] # Absent
<1>1. PICK r \in Sent : Accepted(r) /\ c = r.name /\ v = r.value
  BY DEF Written
<1>2. r \in Requests /\ v \in ConfigMap /\ r.op \in {"create", "update"}
  BY <1>1, SentType DEF Requests
<1>3. RequestOwner(r)
  BY SentOwner
<1>4. server[c] # Absent => server[c].owner = v.owner
  BY <1>1, <1>2, <1>3 DEF RequestOwner, Accepted
<1>5. /\ v.owner \in OwnerRef /\ server[v.owner.name] # Absent
      /\ v.owner.uid = server[v.owner.name].uid
  BY <1>1, <1>3 DEF RequestOwner
<1>6. v.owner = [name |-> v.owner.name, uid |-> v.owner.uid] /\ v.owner.name \in Templates
  BY <1>5 DEF OwnerRef
<1> QED BY <1>2, <1>4, <1>5, <1>6, ClusterAssumption

(* What happens to a ConfigMap in the server. *)
LEMMA ConfigMapStep ==
  ASSUME TypeInv, OwnerInv, [Next]_vars, NEW c \in ConfigMaps, server'[c] # server[c]
  PROVE  \/ server'[c] = Absent /\ Orphaned(server[c])
         \/ server'[c] # Absent /\ server[c] = Absent /\ server'[c].owner = NoOwner
         \/ server'[c] # Absent /\ server[c] # Absent /\ server'[c].owner = server[c].owner
         \/ Written(c, server'[c])
<1>1. LineStep(c) /\ c \in Objects
  BY NextLine DEF Objects
<1>2. ConfigMapChange(c, server'[c]) \/ Written(c, server'[c])
  BY <1>1 DEF LineStep, SameLine, PutLine, ListLine, DeliverLine, FreshLine
<1>3. "deleteConfigMap" \notin EnvOps /\ "disown" \notin EnvOps
  BY DEF OwnerInv, Benign
<1> QED BY <1>2, <1>3 DEF ConfigMapChange

(* As long as its owner is there a ConfigMap stays, and stays the owner's.    *)
LEMMA OwnedKept ==
  ASSUME TypeInv, OwnerInv, [Next]_vars, NEW c \in ConfigMaps, server[c] # Absent,
         server[c].owner # NoOwner, NEW t \in Templates, server[t] # Absent,
         server[t].uid = server[c].owner.uid
  PROVE  server'[c] # Absent /\ server'[c].owner = server[c].owner
<1>1. server[c].owner.name = t
  BY DEF OwnerInv, OwnedBy
<1>2. ~Orphaned(server[c])
  BY <1>1 DEF Orphaned, Live
<1>3. CASE Written(c, server'[c])
  BY <1>3, WrittenOwner
<1> QED BY <1>2, <1>3, ConfigMapStep

LEMMA OwnedStep ==
  ASSUME TypeInv, OwnerInv, [Next]_vars, NEW c \in ConfigMaps,
         NEW v \in Seen(c)' \cup {server'[c]}
  PROVE  OwnedBy(v, c)'
<1> SUFFICES ASSUME v # Absent, v.owner # NoOwner
             PROVE  /\ v.owner.uid <= version'
                    /\ \A t \in Templates : server'[t] # Absent /\ server'[t].uid = v.owner.uid =>
                         v.owner.name = t /\ server'[c] # Absent /\ server'[c].owner = v.owner
  BY DEF OwnedBy
<1>1. /\ version' \in Nat /\ version \in Nat /\ version <= version'
      /\ \A t \in Templates :
           IF server[t] # Absent
           THEN server'[t] # Absent /\ server'[t].uid = server[t].uid
           ELSE server'[t] # Absent => server'[t].uid = version + 1
  BY UidKept, OwnerTypes
<1>2. ASSUME NEW x \in Seen(c) \cup {server[c]}, x # Absent, x.owner = v.owner
      PROVE  /\ v.owner.uid <= version'
             /\ \A t \in Templates : server'[t] # Absent /\ server'[t].uid = v.owner.uid =>
                  v.owner.name = t /\ server'[c] # Absent /\ server'[c].owner = v.owner
  <2>1. v.owner.uid <= version /\ v.owner.uid \in Nat /\ OwnedBy(x, c)
    BY <1>2, OwnerTypes DEF OwnerInv, OwnedBy
  <2>2. ASSUME NEW t \in Templates, server'[t] # Absent, server'[t].uid = v.owner.uid
        PROVE  v.owner.name = t /\ server'[c] # Absent /\ server'[c].owner = v.owner
    <3>1. server[t] # Absent /\ server[t].uid = v.owner.uid
      BY <1>1, <2>1, <2>2
    <3>2. v.owner.name = t /\ server[c] # Absent /\ server[c].owner = v.owner
      BY <1>2, <2>1, <3>1 DEF OwnedBy
    <3> QED BY <3>1, <3>2, OwnedKept
  <2> QED BY <1>1, <2>1, <2>2
<1>3. CASE v \notin Seen(c) \cup {server[c]}
  <2>1. v = server'[c] /\ server'[c] # server[c]
    BY <1>3, SeenStep DEF Objects
  <2>2. CASE server[c] # Absent /\ server'[c].owner = server[c].owner
    BY <1>2, <2>1, <2>2
  <2>3. CASE Written(c, server'[c])
    <3>1. PICK t \in Templates : v.owner = [name |-> t, uid |-> server[t].uid] /\ server[t] # Absent
      BY <2>1, <2>3, WrittenOwner
    <3>2. server[t].uid <= version /\ server[t].uid \in Nat
      BY <3>1, OwnerTypes DEF OwnerInv, UidInv
    <3>3. server'[t] # Absent /\ server'[t].uid = server[t].uid
      BY <1>1, <3>1
    <3>4. \A u \in Templates : server'[u] # Absent /\ server'[u].uid = server'[t].uid => u = t
      BY <3>3, UidStep DEF UidInv
    <3> QED BY <1>1, <2>1, <3>1, <3>2, <3>3, <3>4
  <2>4. \/ server[c] # Absent /\ server'[c].owner = server[c].owner
        \/ Written(c, server'[c])
    <3>1. server'[c] # Absent /\ server'[c].owner # NoOwner
      BY <2>1
    <3> QED BY <2>1, <3>1, ConfigMapStep
  <2> QED BY <2>2, <2>3, <2>4
<1> QED BY <1>2, <1>3

(* A worker in the same place with the same template. *)
LEMMA HeldKept ==
  ASSUME TypeInv, OwnerInv, [Next]_vars, NEW w \in Workers,
         pc'[w] \in {"find", "render"} =>
           UNCHANGED <<key[w], tmpl[w]>> /\ pc[w] \in {"find", "render"},
         pc'[w] = "render" /\ op'[w] = "update" => pc[w] = "render" /\ op[w] = "update"
  PROVE  HeldOwner(w)'
<1>1. HeldOwner(w)
  BY DEF OwnerInv
<1>2. ASSUME pc'[w] \in {"find", "render"}
      PROVE  server'[key'[w]] # Absent /\ tmpl'[w].uid = server'[key'[w]].uid
  <2>1. key[w] \in Templates /\ key'[w] = key[w] /\ tmpl'[w] = tmpl[w]
    BY <1>2, OwnerTypes
  <2>2. server[key[w]] # Absent /\ tmpl[w].uid = server[key[w]].uid
    BY <1>1, <1>2 DEF HeldOwner
  <2> QED BY <2>1, <2>2, UidKept
<1>3. ASSUME pc'[w] = "render" /\ op'[w] = "update"
      PROVE  LET c == tmpl'[w].configMapName IN
             server'[c] # Absent /\ server'[c].owner = ControllerRef(key'[w], tmpl'[w])
  <2> DEFINE c == tmpl[w].configMapName
  <2>1. key[w] \in Templates /\ key'[w] = key[w] /\ tmpl'[w] = tmpl[w] /\ c \in ConfigMaps
    BY <1>3, OwnerTypes
  <2>2. /\ server[key[w]] # Absent /\ tmpl[w].uid = server[key[w]].uid
        /\ server[c] # Absent /\ server[c].owner = ControllerRef(key[w], tmpl[w])
    BY <1>1, <1>3 DEF HeldOwner
  <2>3. server[c].owner # NoOwner /\ server[c].owner.uid = tmpl[w].uid
    <3>1. ControllerRef(key[w], tmpl[w]) \in OwnerRef
      BY <1>3, <2>1, OwnerTypes DEF ControllerRef, OwnerRef
    <3> QED BY <2>2, <3>1, ClusterAssumption DEF ControllerRef
  <2> QED BY <2>1, <2>2, <2>3, OwnedKept
<1> QED BY <1>2, <1>3 DEF HeldOwner, ControllerRef

(* A worker past its lookup has just done it or was there before. *)
LEMMA PastLookup ==
  ASSUME TypeInv, [Next]_vars, NEW w \in Workers
  PROVE  \/ pc'[w] \notin {"find", "render"} \/ LookupTemplate(w)
         \/ UNCHANGED <<key[w], tmpl[w]>> /\ pc[w] \in {"find", "render"}
<1> DEFINE Goal == \/ pc'[w] \notin {"find", "render"} \/ LookupTemplate(w)
                   \/ UNCHANGED <<key[w], tmpl[w]>> /\ pc[w] \in {"find", "render"}
<1>1. ASSUME UNCHANGED <<pc[w], key[w], tmpl[w]>> PROVE Goal
  BY <1>1
<1>2. ASSUME NEW v \in Workers, LookupTemplate(v) \/ FindConfigMap(v) PROVE Goal
  <2>1. CASE v = w
    BY <1>2, <2>1 DEF FindConfigMap
  <2>2. CASE v # w
    BY <1>1, <1>2, <2>2 DEF LookupTemplate, FindConfigMap, TypeInv, TypeOK
  <2> QED BY <2>1, <2>2
<1>3. ASSUME NEW v \in Workers, Write(v) PROVE Goal
  <2>1. /\ pc' = [pc EXCEPT ![v] = "done"] \/ pc' = [pc EXCEPT ![v] = "failed"]
        /\ UNCHANGED <<key, tmpl>>
    BY <1>3 DEF Write
  <2> QED BY <1>1, <2>1 DEF TypeInv, WorkerInv
<1>4. ASSUME NEW v \in Workers, Finish(v) PROVE Goal
  BY <1>1, <1>4 DEF Finish, TypeInv, TypeOK
<1>5. ASSUME NEW t \in Templates, NEW v \in Workers, Take(v, t) PROVE Goal
  BY <1>1, <1>5 DEF Take, TypeInv, WorkerInv
<1>6. ASSUME Exit \/ Crash PROVE Goal
  BY <1>6 DEF Exit, Crash, NewProcess
<1>7. ASSUME UNCHANGED <<pc, key, tmpl>> PROVE Goal
  BY <1>1, <1>7
<1> HIDE DEF Goal
<1>8. ASSUME (Others \/ Informers) /\ ProcessUnchanged PROVE Goal
  BY <1>7, <1>8 DEF ProcessUnchanged
<1>9. ASSUME NEW k \in Kinds, Handle(k) PROVE Goal
  BY <1>7, <1>9 DEF Handle
<1>10. ASSUME NEW t \in Templates, Ready(t) PROVE Goal
  BY <1>7, <1>10 DEF Ready
<1>11. ASSUME NEW v \in Workers, NEW d \in DataKeys, RenderKey(v, d) PROVE Goal
  BY <1>7, <1>11 DEF RenderKey
<1>12. ASSUME StartWorkers \/ Stop \/ ReturnFromRun PROVE Goal
  BY <1>7, <1>12 DEF StartWorkers, Stop, ReturnFromRun
<1>13. ASSUME NEW v \in Workers, Sync(v) PROVE Goal
  BY <1>2, <1>3, <1>4, <1>11, <1>13 DEF Sync
<1>14. ASSUME UNCHANGED vars PROVE Goal
  BY <1>7, <1>14 DEF vars
<1>15. ASSUME NEW r \in wire, Arrive(r) PROVE Goal
  BY <1>7, <1>15 DEF Arrive
<1>16. Goal
  BY <1>5, <1>6, <1>8, <1>9, <1>10, <1>12, <1>13, <1>14, <1>15 DEF Next, Process
<1> QED BY <1>16 DEF Goal

LEMMA HeldStep ==
  ASSUME TypeInv, OwnerInv, [Next]_vars, NEW w \in Workers
  PROVE  HeldOwner(w)'
<1> DEFINE Goal == HeldOwner(w)'
<1>1. ASSUME UNCHANGED <<pc[w], key[w], tmpl[w], op[w]>> PROVE Goal
  BY <1>1, HeldKept
<1>2. ASSUME pc'[w] \notin {"find", "render"} PROVE Goal
  BY <1>2 DEF HeldOwner
<1>3. ASSUME LookupTemplate(w) PROVE Goal
  <2>1. /\ key[w] \in Templates /\ UNCHANGED <<key, server>>
        /\ pc'[w] \in {"done", "find"}
        /\ pc'[w] = "find" => cache[key[w]] # Absent /\ tmpl'[w] = cache[key[w]]
    BY <1>3 DEF LookupTemplate, TypeInv, TypeOK, WorkerInv
  <2>2. cache[key[w]] # Absent =>
          server[key[w]] # Absent /\ cache[key[w]].uid = server[key[w]].uid
    BY <2>1 DEF OwnerInv, UidInv, Seen
  <2> QED BY <2>1, <2>2 DEF HeldOwner
<1>4. ASSUME FindConfigMap(w) PROVE Goal
  <2> DEFINE c == tmpl[w].configMapName
  <2>1. /\ pc[w] = "find" /\ UNCHANGED <<key, tmpl, server>>
        /\ pc'[w] \in {"render", "failed"}
        /\ pc'[w] = "render" /\ op'[w] = "update" =>
             cache[c] # Absent /\ IsControlledBy(cache[c], tmpl[w])
    BY <1>4 DEF FindConfigMap, TypeInv, TypeOK
  <2>2. /\ key[w] \in Templates /\ c \in ConfigMaps
        /\ server[key[w]] # Absent /\ tmpl[w].uid = server[key[w]].uid
    BY <2>1, OwnerTypes DEF OwnerInv, HeldOwner
  <2>3. ASSUME cache[c] # Absent, IsControlledBy(cache[c], tmpl[w])
        PROVE  server[c] # Absent /\ server[c].owner = ControllerRef(key[w], tmpl[w])
    <3>1. cache[c].owner # NoOwner /\ cache[c].owner.uid = tmpl[w].uid
      BY <2>3 DEF IsControlledBy
    <3>2. cache[c] \in Seen(c)
      BY DEF Seen
    <3>3. cache[c].owner \in OwnerRef /\ OwnedBy(cache[c], c)
      BY <2>2, <2>3, <3>1, <3>2, OwnerTypes DEF OwnerInv
    <3>4. cache[c].owner.name = key[w] /\ server[c] # Absent /\ server[c].owner = cache[c].owner
      BY <2>2, <2>3, <3>1, <3>3 DEF OwnedBy
    <3> QED BY <3>1, <3>3, <3>4 DEF OwnerRef, ControllerRef
  <2> QED BY <2>1, <2>2, <2>3 DEF HeldOwner, ControllerRef
<1> HIDE DEF Goal
<1>5. ASSUME UNCHANGED vars PROVE Goal
  BY <1>1, <1>5 DEF vars
<1>6. ASSUME (Others \/ Informers) /\ ProcessUnchanged PROVE Goal
  BY <1>1, <1>6 DEF ProcessUnchanged
<1>7. ASSUME NEW k \in Kinds, Handle(k) PROVE Goal
  BY <1>1, <1>7 DEF Handle
<1>8. ASSUME NEW t \in Templates, Ready(t) PROVE Goal
  BY <1>1, <1>8 DEF Ready
<1>9. ASSUME NEW t \in Templates, NEW v \in Workers, Take(v, t) PROVE Goal
  BY <1>1, <1>2, <1>9 DEF Take, TypeInv, WorkerInv
<1>10. ASSUME NEW v \in Workers, v # w, LookupTemplate(v) \/ FindConfigMap(v) PROVE Goal
  BY <1>1, <1>10 DEF LookupTemplate, FindConfigMap, TypeInv, TypeOK
<1>11. ASSUME NEW v \in Workers, \E d \in DataKeys : RenderKey(v, d) PROVE Goal
  BY <1>1, <1>11 DEF RenderKey
<1>12. ASSUME NEW v \in Workers, Write(v) PROVE Goal
  <2>1. /\ pc' = [pc EXCEPT ![v] = "done"] \/ pc' = [pc EXCEPT ![v] = "failed"]
        /\ UNCHANGED <<key, tmpl, op>>
    BY <1>12 DEF Write
  <2> QED BY <1>1, <1>2, <2>1 DEF TypeInv, WorkerInv
<1>13. ASSUME NEW v \in Workers, Finish(v) PROVE Goal
  BY <1>1, <1>2, <1>13 DEF Finish, TypeInv, TypeOK
<1>14. ASSUME StartWorkers \/ Stop \/ ReturnFromRun PROVE Goal
  BY <1>1, <1>14 DEF StartWorkers, Stop, ReturnFromRun
<1>15. ASSUME Exit \/ Crash PROVE Goal
  BY <1>2, <1>15 DEF Exit, Crash, NewProcess
<1>16. ASSUME NEW v \in Workers, Sync(v) PROVE Goal
  BY <1>3, <1>4, <1>10, <1>11, <1>12, <1>13, <1>16 DEF Sync
<1>17. ASSUME NEW r \in wire, Arrive(r) PROVE Goal
  BY <1>1, <1>17 DEF Arrive
<1>18. Goal
  BY <1>5, <1>6, <1>7, <1>8, <1>9, <1>14, <1>15, <1>16, <1>17 DEF Next, Process
<1> QED BY <1>18 DEF Goal

LEMMA RequestStep ==
  ASSUME TypeInv, OwnerInv, [Next]_vars, NEW r \in wire'
  PROVE  RequestOwner(r)'
<1> DEFINE own == r.value.owner
<1>1. r \in Sent /\ r.name \in ConfigMaps
  BY WireStep, SentType DEF Requests
<1>2. /\ own \in OwnerRef /\ own # NoOwner /\ own.name \in Templates
      /\ server[own.name] # Absent /\ own.uid = server[own.name].uid
      /\ r.op = "update" => server[r.name] # Absent /\ server[r.name].owner = own
  BY <1>1, SentOwner DEF RequestOwner, OwnerRef
<1>3. server'[own.name] # Absent /\ own.uid = server'[own.name].uid
  BY <1>2, UidKept
<1>4. r.op = "update" => server'[r.name] # Absent /\ server'[r.name].owner = own
  BY <1>1, <1>2, OwnedKept
<1> QED BY <1>2, <1>3, <1>4 DEF RequestOwner

LEMMA OwnerStep == TypeInv /\ OwnerInv /\ [Next]_vars => OwnerInv'
BY UidStep, OwnedStep, HeldStep, RequestStep DEF OwnerInv

LEMMA OwnerKept ==
  ASSUME TypeInv, OwnerInv, [Next]_vars, NEW c \in ConfigMaps,
         server[c] # Absent, server'[c] # Absent
  PROVE  server'[c].owner = server[c].owner
BY ConfigMapStep, WrittenOwner

(* As long as nobody else deletes or disowns ConfigMaps or deletes templates, *)
(* a ConfigMap keeps its owner for good: of workers whose creates race on     *)
(* caches that show nothing one wins, and a ConfigMap of others is never      *)
(* taken over, although an update replaces whatever is there.                *)
THEOREM OwnerNeverChanges == Benign /\ Spec => OwnerIsKept
<1>1. Benign /\ Init => TypeInv /\ OwnerInv
  BY TypeInit, OwnerInit
<1>2. /\ TypeInv /\ OwnerInv /\ [Next]_vars => (TypeInv /\ OwnerInv)'
      /\ TypeInv /\ OwnerInv /\ [Next]_vars
         => [\A c \in ConfigMaps : server[c] # Absent /\ server'[c] # Absent
               => server'[c].owner = server[c].owner]_vars
  BY TypeStep, OwnerStep, OwnerKept
<1> QED BY <1>1, <1>2, PTL DEF Spec, OwnerIsKept

-------------------------------------------------------------------------------
(* A template touches ConfigMaps of its namespace only. *)
RequestNamespace(r) ==
  LET own == r.value.owner IN own \in OwnerRef /\ own # NoOwner /\ NS[own.name] = NS[r.name]

NamespaceInv ==
  /\ \A t \in Templates : \A v \in Seen(t) \cup {server[t]} :
       v # Absent => v.configMapName \in Names(t)
  /\ \A w \in Workers : pc[w] \in {"find", "render"} => tmpl[w].configMapName \in Names(key[w])
  /\ \A c \in ConfigMaps : \A v \in Seen(c) \cup {server[c]} :
       v # Absent /\ v.owner # NoOwner => NS[v.owner.name] = NS[c]
  /\ \A r \in wire : RequestNamespace(r)

LEMMA NamespaceInit == Init => NamespaceInv
<1> SUFFICES ASSUME Init PROVE NamespaceInv
  OBVIOUS
<1>1. /\ server \in InitialServers
      /\ \A o \in Objects : cache[o] = Absent /\ deltas[o] = <<>> /\ past[o] = <<>>
      /\ pc = [w \in Workers |-> "idle"] /\ wire = {}
  BY DEF Init, ClusterInit, FreshInformers, FreshWorkers
<1>2. Sound(server)
  BY <1>1, ClusterAssumption
<1>3. \A o \in Objects : Seen(o) = {Absent}
  BY <1>1, RangeShort DEF Seen
<1> QED BY <1>1, <1>2, <1>3 DEF NamespaceInv, Sound, Objects

LEMMA SentNamespace ==
  ASSUME TypeInv, NamespaceInv, NEW r \in Sent
  PROVE  RequestNamespace(r)
<1>1. CASE r \in wire
  BY <1>1 DEF NamespaceInv
<1>2. CASE \E w \in Workers : ReadyToWrite(w) /\ r = Request(w)
  <2>1. PICK w \in Workers : ReadyToWrite(w) /\ r = Request(w)
    BY <1>2
  <2>2. /\ pc[w] = "render" /\ key[w] \in Templates /\ tmpl[w].configMapName \in ConfigMaps
        /\ ControllerRef(key[w], tmpl[w]) \in OwnerRef
    BY <2>1, OwnerTypes DEF ReadyToWrite, ControllerRef, OwnerRef
  <2>3. r.value.owner = ControllerRef(key[w], tmpl[w]) /\ r.name = tmpl[w].configMapName
    BY <2>1 DEF Request, NewConfigMap
  <2>4. r.name \in Names(key[w]) /\ r.name # NoName
    BY <2>2, <2>3, ClusterAssumption DEF NamespaceInv
  <2>5. NS[r.name] = NS[key[w]]
    BY <2>4 DEF Names
  <2> QED BY <2>2, <2>3, <2>5, ClusterAssumption DEF RequestNamespace, ControllerRef
<1> QED BY <1>1, <1>2 DEF Sent

LEMMA WrittenNamespace ==
  ASSUME TypeInv, NamespaceInv, NEW c \in ConfigMaps, NEW v, Written(c, v)
  PROVE  /\ v # Absent /\ v.owner # NoOwner
         /\ \E t \in Templates : v.owner.name = t /\ NS[t] = NS[c]
<1>1. PICK r \in Sent : c = r.name /\ v = r.value
  BY DEF Written
<1>2. v \in ConfigMap /\ v # Absent
  BY <1>1, SentType, ClusterAssumption DEF Requests
<1> QED BY <1>1, <1>2, SentNamespace DEF RequestNamespace, OwnerRef

LEMMA NamespaceStep == TypeInv /\ NamespaceInv /\ [Next]_vars => NamespaceInv'
<1> SUFFICES ASSUME TypeInv, NamespaceInv, [Next]_vars PROVE NamespaceInv'
  OBVIOUS
<1>1. ASSUME NEW t \in Templates, NEW v \in Seen(t)' \cup {server'[t]}, v # Absent
      PROVE  v.configMapName \in Names(t)
  <2>1. LineStep(t) /\ t \in Objects
    BY NextLine DEF Objects
  <2>2. server'[t] = server[t] \/ TemplateChange(t, server'[t])
    BY <2>1 DEF LineStep, SameLine, PutLine, ListLine, DeliverLine, FreshLine
  <2>3. server'[t] # Absent => server'[t].configMapName \in Names(t)
    BY <2>2 DEF NamespaceInv, TemplateChange
  <2> QED BY <1>1, <2>1, <2>3, SeenStep DEF NamespaceInv
<1>2. ASSUME NEW c \in ConfigMaps, NEW v \in Seen(c)' \cup {server'[c]}, v # Absent, v.owner # NoOwner
      PROVE  NS[v.owner.name] = NS[c]
  <2>1. LineStep(c) /\ c \in Objects
    BY NextLine DEF Objects
  <2>2. \/ server'[c] = server[c] \/ ConfigMapChange(c, server'[c]) \/ Written(c, server'[c])
    BY <2>1 DEF LineStep, SameLine, PutLine, ListLine, DeliverLine, FreshLine
  <2>3. server'[c] # Absent /\ server'[c].owner # NoOwner => NS[server'[c].owner.name] = NS[c]
    BY <2>2, WrittenNamespace DEF NamespaceInv, ConfigMapChange
  <2> QED BY <1>2, <2>1, <2>3, SeenStep DEF NamespaceInv
<1> DEFINE Held(w) == pc[w] \in {"find", "render"} => tmpl[w].configMapName \in Names(key[w])
<1>3. ASSUME NEW w \in Workers PROVE Held(w)'
  <2>1. CASE pc'[w] \notin {"find", "render"}
    BY <2>1
  <2>2. CASE UNCHANGED <<key[w], tmpl[w]>> /\ pc[w] \in {"find", "render"}
    BY <2>2 DEF NamespaceInv
  <2>3. CASE LookupTemplate(w)
    <3>1. /\ key[w] \in Templates /\ UNCHANGED key
          /\ pc'[w] \in {"done", "find"}
          /\ pc'[w] = "find" => cache[key[w]] # Absent /\ tmpl'[w] = cache[key[w]]
      BY <2>3 DEF LookupTemplate, TypeInv, TypeOK, WorkerInv
    <3> QED BY <3>1 DEF NamespaceInv, Seen
  <2>4. \/ pc'[w] \notin {"find", "render"} \/ LookupTemplate(w)
        \/ UNCHANGED <<key[w], tmpl[w]>> /\ pc[w] \in {"find", "render"}
    BY PastLookup
  <2> QED BY <2>1, <2>2, <2>3, <2>4
<1>4. ASSUME NEW r \in wire' PROVE RequestNamespace(r)
  BY <1>4, WireStep, SentNamespace
<1> QED BY <1>1, <1>2, <1>3, <1>4 DEF NamespaceInv, RequestNamespace

(* A ConfigMap passes from no template to another, and is never disowned,     *)
(* unless it is deleted in between.                                        *)
KeepsName ==
  \A c \in ConfigMaps :
    server[c] # Absent /\ server[c].owner # NoOwner /\ server'[c] # Absent
      => server'[c].owner # NoOwner /\ server'[c].owner.name = server[c].owner.name
NoTakeover == [][KeepsName]_vars

(* No two templates can name the same ConfigMap. *)
Apart ==
  /\ "disown" \notin EnvOps
  /\ \A t, u \in Templates : NS[t] = NS[u] => t = u

LEMMA ApartKeepsName ==
  ASSUME TypeInv, NamespaceInv, Apart, [Next]_vars
  PROVE  KeepsName
<1> SUFFICES ASSUME NEW c \in ConfigMaps, server[c] # Absent, server[c].owner # NoOwner,
                    server'[c] # Absent
             PROVE  server'[c].owner # NoOwner /\ server'[c].owner.name = server[c].owner.name
  BY DEF KeepsName
<1>1. LineStep(c) /\ c \in Objects
  BY NextLine DEF Objects
<1>2. \/ server'[c] = server[c] \/ ConfigMapChange(c, server'[c]) \/ Written(c, server'[c])
  BY <1>1 DEF LineStep, SameLine, PutLine, ListLine, DeliverLine, FreshLine
<1>3. CASE server'[c] = server[c] \/ ConfigMapChange(c, server'[c])
  BY <1>3 DEF ConfigMapChange, Apart
<1>4. CASE Written(c, server'[c])
  <2>1. /\ server'[c].owner # NoOwner
        /\ server'[c].owner.name \in Templates /\ NS[server'[c].owner.name] = NS[c]
    BY <1>4, WrittenNamespace
  <2>2. server[c].owner.name \in Templates /\ NS[server[c].owner.name] = NS[c]
    BY OwnerTypes DEF NamespaceInv, OwnerRef
  <2> QED BY <2>1, <2>2 DEF Apart
<1> QED BY <1>2, <1>3, <1>4

(* Two cases in which no template takes a ConfigMap over from another:        *)
(* templates that cannot meet, and a cluster where others leave the           *)
(* controller's objects in place.                                          *)
THEOREM ApartNoTakeover == Apart /\ Spec => NoTakeover
<1>1. Apart /\ Init => TypeInv /\ NamespaceInv /\ Apart
  BY TypeInit, NamespaceInit
<1>2. /\ TypeInv /\ NamespaceInv /\ Apart /\ [Next]_vars => (TypeInv /\ NamespaceInv /\ Apart)'
      /\ TypeInv /\ NamespaceInv /\ Apart /\ [Next]_vars => [KeepsName]_vars
  BY TypeStep, NamespaceStep, ApartKeepsName DEF Apart
<1> QED BY <1>1, <1>2, PTL DEF Spec, NoTakeover

THEOREM BenignNoTakeover == Benign /\ Spec => NoTakeover
<1>1. Benign /\ Init => TypeInv /\ OwnerInv
  BY TypeInit, OwnerInit
<1>2. /\ TypeInv /\ OwnerInv /\ [Next]_vars => (TypeInv /\ OwnerInv)'
      /\ TypeInv /\ OwnerInv /\ [Next]_vars => [KeepsName]_vars
  BY TypeStep, OwnerStep, OwnerKept DEF KeepsName
<1> QED BY <1>1, <1>2, PTL DEF Spec, NoTakeover
===============================================================================
