---------------------------- MODULE FakeClientset -----------------------------
(***************************************************************************)
(* The generated clientset's fake, with everybody who holds objects of it:   *)
(* the clients that call it, the tracker behind it, and the informers that    *)
(* list and watch through it.                                               *)
(*                                                                         *)
(* An object is the address of what a copy of the Go struct still shares:    *)
(* the maps Data and BinaryData.  A name stands for a namespace and a name.   *)
(* Fake.Invokes holds the clientset's lock for a whole call.                 *)
(***************************************************************************)
EXTENDS Integers, Sequences, FiniteSets

CONSTANTS
  Names, Clients, Informers,
  Addresses,  \* the memory for objects
  MaxEvents,  \* events in a watcher's channel, which panics at 100
  Contents, Empty, NoObject,
  Scopes      \* per namespace an informer may be made for, the names in it

ASSUME ClientsetAssumption ==
  /\ Empty \in Contents /\ NoObject \notin Contents \cup Addresses
  /\ Scopes \subseteq SUBSET Names /\ MaxEvents \in Nat

VARIABLES
  heap,      \* the contents at an address
  tracker,   \* the object stored under a name
  held,      \* the object a client works on
  scope,     \* the namespace of the informers
  watching,  \* per informer, whether the tracker has its watcher
  events,    \* per informer, the events in its watcher's channel
  indexer,   \* per informer, the objects it keeps
  missed     \* names changed since an informer's List without an event (for properties)

clientsetVars == <<heap, tracker, held, scope, watching, events, indexer, missed>>

Nothing == [n \in Names |-> NoObject]
Object == Addresses \cup {NoObject}
Event == [type : {"ADDED", "MODIFIED", "DELETED"}, name : Names, object : Addresses]

ClientsetTypeOK ==
  /\ heap \in [Addresses -> Contents \cup {NoObject}]
  /\ tracker \in [Names -> Object] /\ held \in [Clients -> Object]
  /\ scope \in Scopes
  /\ watching \in [Informers -> BOOLEAN] /\ events \in [Informers -> Seq(Event)]
  /\ indexer \in [Informers -> [Names -> Object]]
  /\ missed \in [Informers -> SUBSET Names]

(* NewSimpleClientset.  It adds its objects the way Create does. *)
ClientsetInit ==
  /\ tracker = Nothing /\ heap = [a \in Addresses |-> NoObject]
  /\ held = [c \in Clients |-> NoObject]
  /\ scope \in Scopes
  /\ watching = [i \in Informers |-> FALSE] /\ events = [i \in Informers |-> <<>>]
  /\ indexer = [i \in Informers |-> Nothing]
  /\ missed = [i \in Informers |-> {}]

-------------------------------------------------------------------------------
(* Memory *)

(* What is reached other than by a client. *)
Shared ==
  {a \in Addresses :
     \/ \E n \in Names : tracker[n] = a
     \/ \E i \in Informers : \/ \E j \in DOMAIN events[i] : events[i][j].object = a
                            \/ \E n \in Names : indexer[i][n] = a}

InUse == Shared \cup ({held[c] : c \in Clients} \ {NoObject})

(* Places for the copies of the objects in from: addresses nobody uses. *)
Places(from) ==
  {to \in [DOMAIN from -> Addresses \ InUse] :
     \A r, s \in DOMAIN from : to[r] = to[s] => r = s}

Fits(from) == Places(from) # {}

(* A bug: an object is copied as a struct. *)
DeepCopyShallow(from) == from

DeepCopy(from) == CHOOSE to \in Places(from) : TRUE

(* contents is written to the objects in to; what nobody uses any more is     *)
(* collected.                                                               *)
Write(to, contents) ==
  heap' = [a \in Addresses |->
             IF a \notin InUse' THEN NoObject
             ELSE IF \E r \in DOMAIN to : to[r] = a
                  THEN contents[CHOOSE r \in DOMAIN to : to[r] = a]
                  ELSE heap[a]]

WriteCopies(to, from) == Write(to, [r \in DOMAIN from |-> heap[from[r]]])
Collect == Write(<<>>, <<>>)

-------------------------------------------------------------------------------
(* Calls of clients *)

(* Every watcher for the namespace gets the tracker's own object. *)
Notify(n, type, object) ==
  /\ \A i \in Informers : Len(events[i]) < MaxEvents
  /\ events' = [i \in Informers |->
       IF watching[i] /\ n \in scope
       THEN Append(events[i], [type |-> type, name |-> n, object |-> object]) ELSE events[i]]
  /\ missed' = [i \in Informers |-> IF watching[i] THEN missed[i] \ {n} ELSE missed[i] \cup {n}]

(* tracker.add, and the Get for the reply.  (A name that is taken, or is not  *)
(* there to be updated, is an error and changes nothing.)                   *)
Add(c, n, replaceExisting) ==
  /\ held[c] # NoObject
  /\ (tracker[n] # NoObject) = replaceExisting
  /\ LET from == [r \in {"stored", "reply"} |-> held[c]]
         to == DeepCopy(from)
     IN
     /\ Fits(from)
     /\ tracker' = [tracker EXCEPT ![n] = to["stored"]]
     /\ Notify(n, IF replaceExisting THEN "MODIFIED" ELSE "ADDED", to["stored"])
     /\ \E kept \in {held[c], to["reply"]} : held' = [held EXCEPT ![c] = kept]
     /\ UNCHANGED <<scope, watching, indexer>>
     /\ WriteCopies(to, from)

Create(c, n) == Add(c, n, FALSE)
Update(c, n) == Add(c, n, TRUE)

(* A bug: the watchers are told of a deletion as of a change. *)
DeleteAsChange(n) ==
  /\ tracker[n] # NoObject
  /\ tracker' = [tracker EXCEPT ![n] = NoObject]
  /\ Notify(n, "MODIFIED", tracker[n])
  /\ UNCHANGED <<held, scope, watching, indexer>>
  /\ Collect

(* A bug: the watchers get what is stored after the deletion. *)
DeleteFirst(n) ==
  /\ tracker[n] # NoObject
  /\ tracker' = [tracker EXCEPT ![n] = NoObject]
  /\ Notify(n, "DELETED", tracker'[n])
  /\ UNCHANGED <<held, scope, watching, indexer>>
  /\ Collect

(* A name that is not there is an error, other than ObjectTracker says. *)
Delete(n) ==
  /\ tracker[n] # NoObject
  /\ tracker' = [tracker EXCEPT ![n] = NoObject]
  /\ Notify(n, "DELETED", tracker[n])
  /\ UNCHANGED <<held, scope, watching, indexer>>
  /\ Collect

(* A bug: the reply is the tracker's own object. *)
GetOwn(c, n) ==
  /\ tracker[n] # NoObject
  /\ held' = [held EXCEPT ![c] = tracker[n]]
  /\ UNCHANGED <<tracker, scope, watching, events, indexer, missed>>
  /\ Collect

(* A client's List gives it the same for every name. *)
Get(c, n) ==
  LET from == [r \in {"reply"} |-> tracker[n]]
      to == DeepCopy(from)
  IN
  /\ tracker[n] # NoObject /\ Fits(from)
  /\ held' = [held EXCEPT ![c] = to["reply"]]
  /\ UNCHANGED <<tracker, scope, watching, events, indexer, missed>>
  /\ WriteCopies(to, from)

(* Nothing reacts to Patch (nor to DeleteCollection): nothing changes, and    *)
(* the reply is a new object.  A client may make one as well.                *)
Patch(c) ==
  LET new == CHOOSE a \in Addresses \ InUse : TRUE
  IN
  /\ Addresses \ InUse # {}
  /\ held' = [held EXCEPT ![c] = new]
  /\ UNCHANGED <<tracker, scope, watching, events, indexer, missed>>
  /\ Write([r \in {"reply"} |-> new], [r \in {"reply"} |-> Empty])

(* The client writes to its object. *)
Edit(c) ==
  /\ held[c] # NoObject
  /\ \E v \in Contents \ {heap[held[c]]} : heap' = [heap EXCEPT ![held[c]] = v]
  /\ UNCHANGED <<tracker, held, scope, watching, events, indexer, missed>>

-------------------------------------------------------------------------------
(* Calls of an informer's reflector; the objects go to its indexer as they are *)

(* ListFunc *)
List(i) ==
  LET from == [n \in {m \in scope : tracker[m] # NoObject} |-> tracker[n]]
      to == DeepCopy(from)
  IN
  /\ Fits(from)
  /\ indexer' = [indexer EXCEPT ![i] =
                   [n \in Names |-> IF n \in DOMAIN from THEN to[n] ELSE NoObject]]
  /\ missed' = [missed EXCEPT ![i] = {}]
  /\ UNCHANGED <<tracker, held, scope, watching, events>>
  /\ WriteCopies(to, from)

(* WatchFunc: the events from now on, whatever was listed. *)
Watch(i) ==
  /\ watching' = [watching EXCEPT ![i] = TRUE]
  /\ UNCHANGED <<heap, tracker, held, scope, events, indexer, missed>>

(* What the indexer keeps after event e. *)
Carried(e) == IF e.type = "DELETED" THEN NoObject ELSE e.object

Receive(i) ==
  /\ events[i] # <<>>
  /\ LET e == Head(events[i]) IN
       indexer' = [indexer EXCEPT ![i][e.name] = Carried(e)]
  /\ events' = [events EXCEPT ![i] = Tail(@)]
  /\ UNCHANGED <<tracker, held, scope, watching, missed>>
  /\ Collect

-------------------------------------------------------------------------------
(* The lister's Get: the object itself, which the caller only reads. *)
ListerGet(i, n) == indexer[i][n]

ContentsOf(a) == IF a = NoObject THEN NoObject ELSE heap[a]

(* When the events on their way have arrived, the lister gives for n what the  *)
(* tracker has stored: the last of them on n carries it, or it is there.      *)
Follows(i, n) ==
  LET on == {j \in DOMAIN events[i] : events[i][j].name = n} IN
  /\ on = {} => ContentsOf(ListerGet(i, n)) = ContentsOf(tracker[n])
  /\ \A j \in on : (\A k \in on : k <= j) => ContentsOf(Carried(events[i][j])) = ContentsOf(tracker[n])

(* Nothing a client may write to is reached by anyone else: the tracker, an    *)
(* event, an indexer or another client.  Watchers get the tracker's own        *)
(* objects, so one copy left out anywhere between them would be shared.       *)
Isolated ==
  \A c \in Clients : held[c] # NoObject =>
    held[c] \notin Shared \cup {held[d] : d \in Clients \ {c}}

Store == INSTANCE ObjectStore WITH
  objects <- [n \in Names |-> ContentsOf(tracker[n])],
  got <- [c \in Clients |-> ContentsOf(held[c])]

(* Clients see values: what the fake does with pointers, copies and edits is   *)
(* what ObjectStore does without.                                           *)
ImplementsObjectStore == Store!StoreSpec
===============================================================================
