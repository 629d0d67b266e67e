----------------------------- MODULE ObjectStore ------------------------------
(***************************************************************************)
(* What ObjectTracker promises those that call it through a clientset:       *)
(* objects are values, and a name holds one.  Nobody's edits reach what is    *)
(* stored, or what somebody else has got, but through Create and Update.      *)
(* FakeClientset implements this with pointers.                             *)
(*                                                                         *)
(* A step is a call that succeeds.  One that is refused, because the name is   *)
(* taken (AlreadyExists) or is not there (NotFound), changes nothing.          *)
(***************************************************************************)
CONSTANTS Names, Clients, Contents, Empty, NoObject

VARIABLES
  objects,  \* what is stored under a name
  got       \* the object a client works on

StoreInit ==
  /\ objects \in [Names -> Contents \cup {NoObject}]
  /\ got = [c \in Clients |-> NoObject]

Exists(n) == objects[n] # NoObject

(* A client's List gives it the same for every name. *)
Get(c, n) ==
  /\ Exists(n)
  /\ got' = [got EXCEPT ![c] = objects[n]]
  /\ UNCHANGED objects

(* A new object: the client's own, or the reply to a Patch nothing handles. *)
Make(c) ==
  /\ got' = [got EXCEPT ![c] = Empty]
  /\ UNCHANGED objects

Edit(c) ==
  /\ got[c] # NoObject
  /\ \E v \in Contents : got' = [got EXCEPT ![c] = v]
  /\ UNCHANGED objects

Send(c, n) ==
  /\ got[c] # NoObject
  /\ objects' = [objects EXCEPT ![n] = got[c]]
  /\ UNCHANGED got

Create(c, n) == ~Exists(n) /\ Send(c, n)
Update(c, n) == Exists(n) /\ Send(c, n)

Delete(n) ==
  /\ Exists(n)
  /\ objects' = [objects EXCEPT ![n] = NoObject]
  /\ UNCHANGED got

StoreNext ==
  \/ \E c \in Clients : Make(c) \/ Edit(c)
  \/ \E c \in Clients, n \in Names : Get(c, n) \/ Create(c, n) \/ Update(c, n)
  \/ \E n \in Names : Delete(n)

StoreSpec == StoreInit /\ [][StoreNext]_<<objects, got>>
===============================================================================
