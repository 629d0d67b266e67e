------------------------------- MODULE KeyQueue -------------------------------
(***************************************************************************)
(* What the controller relies on in client-go's rate limited work queue,   *)
(* without the means (slice, heap, channel, clock, condition variable):    *)
(*                                                                         *)
(*   waiting     requests of AddRateLimited whose delay has not elapsed,   *)
(*               per key                                                   *)
(*   dirty       keys that need processing                                 *)
(*   processing  keys some worker got and has not yet declared Done        *)
(*                                                                         *)
(* Every operation is an action on these variables only, so that Controller *)
(* composes them with its own state and WorkQueue refines them.            *)
(***************************************************************************)
EXTENDS Integers

CONSTANTS
  Keys,
  MaxWaiting  \* the most requests for one key that are kept apart

VARIABLES waiting, dirty, processing, shuttingDown

qvars == <<waiting, dirty, processing, shuttingDown>>

TypeOK ==
  /\ waiting \in [Keys -> 0..MaxWaiting]
  /\ dirty \in SUBSET Keys
  /\ processing \in SUBSET Keys
  /\ shuttingDown \in BOOLEAN

Init ==
  /\ waiting = [k \in Keys |-> 0]
  /\ dirty = {}
  /\ processing = {}
  /\ shuttingDown = FALSE

-------------------------------------------------------------------------------
(* The dirty set after Add(k): a key is remembered once, and not at all    *)
(* once the queue is shutting down.                                        *)
Added(k) == IF shuttingDown THEN dirty ELSE dirty \cup {k}

(* Add without delay. *)
Add(k) ==
  /\ dirty' = Added(k)
  /\ UNCHANGED <<waiting, processing, shuttingDown>>

(* The requests for the keys of T are kept, the others of S are not. *)
Requested(T) == waiting' = [k \in Keys |-> IF k \in T THEN waiting[k] + 1 ELSE waiting[k]]

(* AddRateLimited for every key of S.  A request can merge with an earlier  *)
(* one for the key (the heap holds a key once), and a queue that is shutting *)
(* down may drop it (or not: a sender blocked on the channel may still win). *)
AddRateLimited(S) ==
  /\ \E T \in SUBSET S :
       /\ Requested(T)
       /\ \A k \in T : waiting[k] < MaxWaiting
       /\ \A k \in S \ T : shuttingDown \/ waiting[k] > 0
  /\ UNCHANGED <<dirty, processing, shuttingDown>>

(* Two requests for k meet in the heap: the earlier time counts for both. *)
Merge(k) ==
  /\ waiting[k] > 1
  /\ waiting' = [waiting EXCEPT ![k] = @ - 1]
  /\ UNCHANGED <<dirty, processing, shuttingDown>>

(* The delay of a request for k elapses. *)
Ready(k) ==
  /\ waiting[k] > 0
  /\ waiting' = [waiting EXCEPT ![k] = @ - 1]
  /\ dirty' = Added(k)
  /\ UNCHANGED <<processing, shuttingDown>>

(* A bug that hands out a key which another worker is processing. *)
GetShared(k) ==
  /\ k \in dirty
  /\ dirty' = dirty \ {k}
  /\ processing' = processing \cup {k}
  /\ UNCHANGED <<waiting, shuttingDown>>

(* A worker takes a key: never one that is being processed. *)
Get(k) ==
  /\ k \in dirty \ processing
  /\ dirty' = dirty \ {k}
  /\ processing' = processing \cup {k}
  /\ UNCHANGED <<waiting, shuttingDown>>

(* A bug that forgets a key marked dirty while it was processed. *)
DoneForgetful(k) ==
  /\ k \in processing
  /\ processing' = processing \ {k}
  /\ dirty' = dirty \ {k}
  /\ UNCHANGED <<waiting, shuttingDown>>

(* The worker has finished with k; if k became dirty meanwhile it can be   *)
(* taken again.                                                            *)
Done(k) ==
  /\ k \in processing
  /\ processing' = processing \ {k}
  /\ UNCHANGED <<waiting, dirty, shuttingDown>>

ShutDown ==
  /\ shuttingDown' = TRUE
  /\ UNCHANGED <<waiting, dirty, processing>>

-------------------------------------------------------------------------------
Next ==
  \/ \E k \in Keys : \/ Add(k) \/ AddRateLimited({k}) \/ Merge(k)
                     \/ Ready(k) \/ Get(k) \/ Done(k)
  \/ ShutDown

Spec == Init /\ [][Next]_qvars

(* What the queue itself guarantees: delays elapse while it is open, and   *)
(* no key is overtaken for ever.                                           *)
Fairness ==
  \A k \in Keys : /\ WF_qvars(~shuttingDown /\ Ready(k))
                  /\ WF_qvars(Get(k))

FairSpec == Spec /\ Fairness
===============================================================================
