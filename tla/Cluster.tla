------------------------------- MODULE Cluster --------------------------------
(***************************************************************************)
(* What surrounds the controller: the objects in the API server, the people *)
(* and controllers that change them, and the three shared informers that    *)
(* bring the changes into the process.                                     *)
(*                                                                         *)
(*    server --watch--> deltas --HandleDeltas--> cache                     *)
(*                                          \--> notes --> event handlers  *)
(*                                                                         *)
(* An object is a model value standing for its kind, namespace and name.    *)
(* deltas[o] is what DeltaFIFO, and the connection before it, holds for o:  *)
(* the versions the cache has still to go through, in order.  The order     *)
(* between objects is not kept, as DeltaFIFO hands out everything it has    *)
(* for one object at a time.  past[o] are the versions before server[o]     *)
(* that a List may still be answered with.                                 *)
(***************************************************************************)
EXTENDS Integers, Sequences, FiniteSets

CONSTANTS
  Templates, ConfigMaps, Pods,  \* the objects of the three kinds
  NS,                           \* the namespace of every object
  DataKeys,                     \* the keys of a template's data
  Texts,                        \* what stands under a key: see Results
  PodStates,                    \* what templates can see of a pod (its address, say)
  Absent,                       \* no such object
  NoName,                       \* an empty configMapName
  NoOwner,                      \* no owner reference with controller: true
  Dropped, Tampered, Pending,   \* no text, somebody else's text, not rendered yet
  EnvOps,                       \* which changes by others a run allows
  InitialServers,               \* the servers a run starts from
  MaxChanges,                   \* how many changes others make
  MaxLag,                       \* how many versions of an object a List may be behind
  MaxBacklog                    \* the garbage collector waits while this much is unseen

Objects == Templates \cup ConfigMaps \cup Pods
Kinds == {"ConfigMapTemplate", "ConfigMap", "Pod"}
Kind(o) == CASE o \in Templates  -> "ConfigMapTemplate"
             [] o \in ConfigMaps -> "ConfigMap"
             [] OTHER            -> "Pod"

(* metadata.uid, a version that only grows, and the spec. *)
Template == [uid : Nat, rv : Nat, configMapName : ConfigMaps \cup {NoName},
             data : [DataKeys -> Texts]]
OwnerRef == [name : Templates, uid : Nat]
View == [Pods -> PodStates \cup {Absent}]
Rendered == [text : Texts, pods : View]
ConfigMap == [owner : OwnerRef \cup {NoOwner},
              data : [DataKeys -> Rendered \cup {Dropped, Tampered}]]

Values(o) == {Absent} \cup (CASE o \in Templates  -> Template
                              [] o \in ConfigMaps -> ConfigMap
                              [] OTHER            -> PodStates)

(* What a template may name: a ConfigMap of its namespace, or none. *)
Names(t) == {c \in ConfigMaps : NS[c] = NS[t]} \cup {NoName}

(* The objects of an API server before a run: it has given out the uids and   *)
(* versions they bear, a uid stands for one template, and a ConfigMap and     *)
(* its owner are in one namespace.                                          *)
Sound(s) ==
  /\ DOMAIN s = Objects /\ \A o \in Objects : s[o] \in Values(o)
  /\ \A t \in Templates : s[t] # Absent =>
       /\ s[t].uid <= Cardinality(Templates) /\ s[t].rv <= Cardinality(Templates)
       /\ s[t].configMapName \in Names(t)
       /\ \A u \in Templates : s[u] # Absent /\ s[u].uid = s[t].uid => u = t
  /\ \A c \in ConfigMaps : s[c] # Absent /\ s[c].owner # NoOwner =>
       /\ s[c].owner.uid <= Cardinality(Templates) /\ NS[s[c].owner.name] = NS[c]
       /\ \A t \in Templates : s[t] # Absent /\ s[t].uid = s[c].owner.uid => t = s[c].owner.name

ASSUME ClusterAssumption ==
  /\ IsFiniteSet(Templates)
  /\ Templates \cap ConfigMaps = {} /\ Templates \cap Pods = {} /\ ConfigMaps \cap Pods = {}
  /\ Texts \subseteq {"plain", "pods", "first", "bad"}
  /\ Absent \notin Template \cup ConfigMap \cup PodStates
  /\ NoName \notin ConfigMaps /\ NoOwner \notin OwnerRef
  /\ MaxChanges \in Nat /\ MaxLag \in Nat /\ MaxBacklog \in Nat \ {0}
  /\ \A s \in InitialServers : Sound(s)

VARIABLES
  server,   \* the API server's objects
  past,     \* per object, its latest versions before that, at most MaxLag
  version,  \* the last uid or resource version it gave to a template
  changes,  \* changes made by others so far
  listed,   \* kinds whose reflector has done its first List
  initial,  \* objects of that List which the cache has not taken over yet
  deltas,   \* per object, the versions on their way to the cache
  cache,    \* the three indexers
  notes     \* per kind, the notifications its processorListener still holds

serverVars == <<server, past, version, changes>>
informerVars == <<listed, initial, cache, notes>>
clusterVars == <<serverVars, deltas, informerVars>>

NotesOf(k) == UNION {[obj : {o}, val : Values(o), type : {"set", "delete", "resync"}] :
                       o \in {x \in Objects : Kind(x) = k}}

ClusterTypeOK ==
  /\ \A o \in Objects : /\ server[o] \in Values(o)
                        /\ past[o] \in Seq(Values(o)) /\ Len(past[o]) <= MaxLag
                        /\ cache[o] \in Values(o)
                        /\ deltas[o] \in Seq(Values(o))
  /\ DOMAIN server = Objects /\ DOMAIN past = Objects
  /\ DOMAIN cache = Objects /\ DOMAIN deltas = Objects
  /\ version \in Nat /\ changes \in 0..MaxChanges
  /\ listed \in SUBSET Kinds /\ initial \in SUBSET Objects
  /\ \A o \in initial : Kind(o) \in listed /\ deltas[o] # <<>>
  /\ DOMAIN notes = Kinds /\ \A k \in Kinds : notes[k] \in Seq(NotesOf(k))

(* A process that has just started has listed nothing. *)
FreshInformers ==
  /\ listed = {} /\ initial = {}
  /\ deltas = [o \in Objects |-> <<>>]
  /\ cache = [o \in Objects |-> Absent]
  /\ notes = [k \in Kinds |-> <<>>]

ClusterInit ==
  /\ server \in InitialServers
  /\ past = [o \in Objects |-> <<>>]
  /\ version = Cardinality(Templates)
  /\ changes = 0
  /\ FreshInformers

-------------------------------------------------------------------------------
(* Templates and what they give. *)

(* The pods a lister returns for a namespace, seen in store (cache or      *)
(* server).  A selector would only make the set smaller.                   *)
PodsIn(store, ns) == [p \in Pods |-> IF NS[p] = ns THEN store[p] ELSE Absent]
NoPods == [p \in Pods |-> Absent]

(* What executing one text may give.  "plain" uses no pods; "pods" gives    *)
(* something that depends on the set of pods only; "first" uses the first   *)
(* of the list, which comes in the random order of a Go map, and fails when *)
(* there is none; "bad" does not parse.  The key of a text that fails is    *)
(* left out.                                                               *)
Results(text, view) ==
  CASE text = "plain" -> {[text |-> text, pods |-> NoPods]}
    [] text = "pods"  -> {[text |-> text, pods |-> view]}
    [] text = "first" ->
         IF view = NoPods THEN {Dropped}
         ELSE {[text |-> text, pods |-> [NoPods EXCEPT ![p] = view[p]]] :
                 p \in {q \in Pods : view[q] # Absent}}
    [] OTHER -> {Dropped}

ControllerRef(t, tmpl) == [name |-> t, uid |-> tmpl.uid]

(* metav1.IsControlledBy: the uid decides, not the name. *)
IsControlledBy(cm, tmpl) == cm.owner # NoOwner /\ cm.owner.uid = tmpl.uid

(* The server holds what template t asks for. *)
Converged(t) ==
  LET tmpl == server[t]
      cm == server[tmpl.configMapName]
  IN /\ cm # Absent
     /\ IsControlledBy(cm, tmpl)
     /\ \A d \in DataKeys : cm.data[d] \in Results(tmpl.data[d], PodsIn(server, NS[t]))

-------------------------------------------------------------------------------
(* The API server. *)

(* Object o becomes v; a watch that is open will tell. *)
Latest(versions) == IF Len(versions) > MaxLag THEN Tail(versions) ELSE versions
Put(o, v) ==
  /\ server' = [server EXCEPT ![o] = v]
  /\ past' = [past EXCEPT ![o] = Latest(Append(@, server[o]))]
  /\ deltas' = IF Kind(o) \in listed THEN [deltas EXCEPT ![o] = Append(@, v)] ELSE deltas

(* One of the changes others make. *)
Change(o, v, kindOfChange) ==
  /\ kindOfChange \in EnvOps
  /\ changes < MaxChanges
  /\ changes' = changes + 1
  /\ Put(o, v)
  /\ UNCHANGED informerVars

CreateTemplate(t) ==
  /\ server[t] = Absent
  /\ version' = version + 1
  /\ \E name \in Names(t), data \in [DataKeys -> Texts] :
       Change(t, [uid |-> version', rv |-> version', configMapName |-> name, data |-> data],
              "createTemplate")

EditTemplate(t) ==
  /\ server[t] # Absent
  /\ version' = version + 1
  /\ \E name \in Names(t), data \in [DataKeys -> Texts] :
       /\ <<name, data>> # <<server[t].configMapName, server[t].data>>
       /\ Change(t, [server[t] EXCEPT !.rv = version', !.configMapName = name, !.data = data],
                 "editTemplate")

DeleteTemplate(t) ==
  /\ server[t] # Absent
  /\ Change(t, Absent, "deleteTemplate")
  /\ UNCHANGED version

(* Somebody else's ConfigMap, under a name a template may want. *)
CreateForeign(c) ==
  /\ server[c] = Absent
  /\ Change(c, [owner |-> NoOwner, data |-> [d \in DataKeys |-> Tampered]], "createForeign")
  /\ UNCHANGED version

TamperWith(c) ==
  /\ server[c] # Absent
  /\ server[c].data # [d \in DataKeys |-> Tampered]
  /\ Change(c, [server[c] EXCEPT !.data = [d \in DataKeys |-> Tampered]], "tamper")
  /\ UNCHANGED version

Disown(c) ==
  /\ server[c] # Absent /\ server[c].owner # NoOwner
  /\ Change(c, [server[c] EXCEPT !.owner = NoOwner], "disown")
  /\ UNCHANGED version

DeleteConfigMap(c) ==
  /\ server[c] # Absent
  /\ Change(c, Absent, "deleteConfigMap")
  /\ UNCHANGED version

ChangePod(p) ==
  /\ \E v \in (PodStates \cup {Absent}) \ {server[p]} : Change(p, v, "pod")
  /\ UNCHANGED version

(* The garbage collector removes what a deleted template owned.  A template  *)
(* whose deletion has not reached the cache is synced again when it does,    *)
(* and creates it again: the bound keeps this circle finite.                *)
Live(owner) == server[owner.name] # Absent /\ server[owner.name].uid = owner.uid
Orphaned(cm) == cm # Absent /\ cm.owner # NoOwner /\ ~Live(cm.owner)

CollectGarbage(c) ==
  /\ Orphaned(server[c])
  /\ Len(deltas[c]) + Len(notes["ConfigMap"]) < MaxBacklog
  /\ Put(c, Absent)
  /\ UNCHANGED <<version, changes, informerVars>>

Others ==
  \/ \E t \in Templates : CreateTemplate(t) \/ EditTemplate(t) \/ DeleteTemplate(t)
  \/ \E c \in ConfigMaps : \/ CreateForeign(c) \/ TamperWith(c) \/ Disown(c)
                           \/ DeleteConfigMap(c) \/ CollectGarbage(c)
  \/ \E p \in Pods : ChangePod(p)

-------------------------------------------------------------------------------
(* Reflector, DeltaFIFO, shared informer. *)

HasSynced(k) == k \in listed /\ \A o \in initial : Kind(o) # k

(* Object o as of n versions ago, and all it has become since then. *)
Since(o, n) == SubSeq(Append(past[o], server[o]), Len(past[o]) + 1 - n, Len(past[o]) + 1)

(* The first List of a kind fills the DeltaFIFO; from here on the watch     *)
(* delivers every later change.  The List asks for resource version "0" and  *)
(* may be answered by an API server that is behind the others, each object  *)
(* on its own here, which only adds behaviours: the watch makes up for it.  *)
List(k) ==
  /\ k \notin listed
  /\ listed' = listed \cup {k}
  /\ \E lag \in [{o \in Objects : Kind(o) = k} -> 0..MaxLag] :
       LET found == {o \in DOMAIN lag : Since(o, lag[o])[1] # Absent} IN
       /\ \A o \in DOMAIN lag : lag[o] <= Len(past[o])
       /\ initial' = initial \cup found
       /\ deltas' = [o \in Objects |-> IF o \notin DOMAIN lag THEN deltas[o]
                                     ELSE IF o \in found THEN Since(o, lag[o])
                                     ELSE Tail(Since(o, lag[o]))]
  /\ UNCHANGED <<serverVars, cache, notes>>

(* The notification for the next version of o; a deletion carries the last  *)
(* state that was cached, as does a DeletedFinalStateUnknown.              *)
NoteFor(o, v) == IF v = Absent THEN [obj |-> o, val |-> cache[o], type |-> "delete"]
                 ELSE [obj |-> o, val |-> v, type |-> "set"]

(* A bug that notifies the handlers and leaves the old version in the cache *)
(* when an object is updated.                                              *)
DeliverUncached(o) ==
  /\ deltas[o] # <<>>
  /\ LET v == Head(deltas[o]) IN
       /\ notes' = [notes EXCEPT ![Kind(o)] = Append(@, NoteFor(o, v))]
       /\ cache' = IF cache[o] = Absent \/ v = Absent THEN [cache EXCEPT ![o] = v] ELSE cache
  /\ deltas' = [deltas EXCEPT ![o] = Tail(@)]
  /\ initial' = initial \ {o}
  /\ UNCHANGED <<serverVars, listed>>

(* A bug that never counts the objects of the first List off. *)
DeliverUncounted(o) ==
  /\ deltas[o] # <<>>
  /\ LET v == Head(deltas[o]) IN
       /\ notes' = [notes EXCEPT ![Kind(o)] = Append(@, NoteFor(o, v))]
       /\ cache' = [cache EXCEPT ![o] = v]
  /\ deltas' = [deltas EXCEPT ![o] = Tail(@)]
  /\ UNCHANGED <<serverVars, listed, initial>>

(* HandleDeltas for one delta: first the cache, then the listener. *)
Deliver(o) ==
  /\ deltas[o] # <<>>
  /\ LET v == Head(deltas[o]) IN
       /\ notes' = [notes EXCEPT ![Kind(o)] = Append(@, NoteFor(o, v))]
       /\ cache' = [cache EXCEPT ![o] = v]
  /\ deltas' = [deltas EXCEPT ![o] = Tail(@)]
  /\ initial' = initial \ {o}
  /\ UNCHANGED <<serverVars, listed>>

(* The periodic resync (30s) of an object with nothing on its way: a        *)
(* notification with the cached object as old and as new.  It waits until   *)
(* the listener is idle, which bounds the notifications.                   *)
Resync(o) ==
  /\ "resync" \in EnvOps
  /\ cache[o] # Absent /\ deltas[o] = <<>>
  /\ notes[Kind(o)] = <<>>
  /\ notes' = [notes EXCEPT ![Kind(o)] =
                 <<[obj |-> o, val |-> cache[o], type |-> "resync"]>>]
  /\ UNCHANGED <<serverVars, deltas, listed, initial, cache>>

Informers ==
  \/ \E k \in Kinds : List(k)
  \/ \E o \in Objects : Deliver(o) \/ Resync(o)

-------------------------------------------------------------------------------
(* The informers lose nothing: the last version on its way to the cache is  *)
(* the server's, and when none is on its way the cache is up to date.       *)
CacheFollows ==
  \A o \in Objects :
    Kind(o) \in listed =>
      IF deltas[o] = <<>> THEN cache[o] = server[o]
      ELSE deltas[o][Len(deltas[o])] = server[o]
===============================================================================
