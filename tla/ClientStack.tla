----------------------------- MODULE ClientStack ------------------------------
(***************************************************************************)
(* The generated shared informer factory over the fake clientset.  The       *)
(* factory knows one type, ConfigMapTemplate.  Callers may call InformerFor   *)
(* (as Informer, Lister and ForResource do), Start and WaitForCacheSync from   *)
(* several goroutines, as main and a test do, in any order and repeatedly.    *)
(***************************************************************************)
EXTENDS FakeClientset

CONSTANTS
  Callers, NoInformer, Nobody,
  MaxCalls  \* calls of the factory, and calls and edits of clients

ASSUME FactoryAssumption ==
  /\ NoInformer \notin Informers /\ Nobody \notin Callers
  /\ MaxCalls \in Nat

VARIABLES
  lock,              \* f.lock
  informer,          \* f.informers, for the one type
  startedInformers,  \* the same
  runs,              \* per informer, how often Run was called
  phase,             \* per informer, how far it is
  stopped,           \* stopCh is closed
  pc,                \* what a caller is about to do
  mine,              \* the informer a caller was given
  awaited,           \* the informers a WaitForCacheSync waits for
  result,            \* what the caller's last WaitForCacheSync returned since its last Start
  served,            \* callers that have started what they were given (for properties)
  calls              \* so far (for the bound)

factoryVars == <<lock, informer, startedInformers>>
informerVars == <<runs, phase, stopped>>
callerVars == <<pc, mine, awaited, result, served>>
vars == <<clientsetVars, factoryVars, informerVars, callerVars, calls>>

Calls == {"InformerFor", "Start", "WaitForCacheSync"}

TypeOK ==
  /\ ClientsetTypeOK
  /\ lock \in Callers \cup {Nobody}
  /\ informer \in Informers \cup {NoInformer} /\ startedInformers \in BOOLEAN
  /\ runs \in [Informers -> Nat]
  /\ phase \in [Informers -> {"none", "made", "running", "listed", "watching"}]
  /\ stopped \in BOOLEAN
  /\ pc \in [Callers -> Calls \cup {"idle", "make", "mark", "poll"}]
  /\ mine \in [Callers -> Informers \cup {NoInformer}]
  /\ awaited \in [Callers -> Informers \cup {NoInformer}]
  /\ result \in [Callers -> {"unknown", "nothing", "synced", "stopped"}]
  /\ served \in SUBSET Callers
  /\ calls \in 0..MaxCalls

(* NewSharedInformerFactoryWithOptions; WithNamespace chooses the scope. *)
FactoryInit ==
  /\ lock = Nobody /\ informer = NoInformer /\ startedInformers = FALSE
  /\ runs = [i \in Informers |-> 0] /\ phase = [i \in Informers |-> "none"]
  /\ stopped = FALSE
  /\ pc = [u \in Callers |-> "idle"] /\ mine = [u \in Callers |-> NoInformer]
  /\ awaited = [u \in Callers |-> NoInformer]
  /\ result = [u \in Callers |-> "unknown"] /\ served = {}
  /\ calls = 0

Init == ClientsetInit /\ FactoryInit

-------------------------------------------------------------------------------
(* Calls of the factory *)

Call(u) ==
  /\ pc[u] = "idle"
  /\ calls < MaxCalls /\ calls' = calls + 1
  /\ \E c \in Calls : pc' = [pc EXCEPT ![u] = c]
  /\ UNCHANGED <<clientsetVars, factoryVars, informerVars, mine, awaited, result, served>>

Goto(u, label) == pc' = [pc EXCEPT ![u] = label]

(* A bug: the map is looked up before the lock is taken. *)
InformerForUnlocked(u) ==
  /\ pc[u] = "InformerFor"
  /\ IF informer # NoInformer
     THEN Goto(u, "idle") /\ mine' = [mine EXCEPT ![u] = informer]
     ELSE Goto(u, "make") /\ UNCHANGED mine
  /\ UNCHANGED <<clientsetVars, factoryVars, informerVars, awaited, result, served, calls>>

InformerFor(u) ==
  /\ pc[u] = "InformerFor" /\ lock = Nobody
  /\ IF informer # NoInformer
     THEN Goto(u, "idle") /\ mine' = [mine EXCEPT ![u] = informer] /\ UNCHANGED lock
     ELSE Goto(u, "make") /\ lock' = u /\ UNCHANGED mine
  /\ UNCHANGED <<clientsetVars, informer, startedInformers, informerVars, awaited, result, served, calls>>

Unmade == {i \in Informers : phase[i] = "none"}

(* A bug: the lock is kept when an informer had to be made. *)
MakeLocked(u) ==
  /\ pc[u] = "make"
  /\ Unmade # {}
  /\ LET i == CHOOSE j \in Unmade : TRUE IN
       /\ phase' = [phase EXCEPT ![i] = "made"]
       /\ informer' = i /\ mine' = [mine EXCEPT ![u] = i]
  /\ Goto(u, "idle")
  /\ UNCHANGED <<clientsetVars, lock, startedInformers, runs, stopped, awaited, result, served, calls>>

(* InformerFor goes on: newFunc makes an informer. *)
Make(u) ==
  /\ pc[u] = "make"
  /\ Unmade # {}
  /\ LET i == CHOOSE j \in Unmade : TRUE IN
       /\ phase' = [phase EXCEPT ![i] = "made"]
       /\ informer' = i /\ mine' = [mine EXCEPT ![u] = i]
  /\ lock' = Nobody
  /\ Goto(u, "idle")
  /\ UNCHANGED <<clientsetVars, startedInformers, runs, stopped, awaited, result, served, calls>>

Started(u) ==
  /\ served' = IF mine[u] # NoInformer THEN served \cup {u} ELSE served \ {u}
  /\ result' = [result EXCEPT ![u] = "unknown"]

(* A bug: what is started already is started again. *)
StartAgain(u) ==
  /\ pc[u] = "Start" /\ lock = Nobody
  /\ IF informer # NoInformer
     THEN /\ runs' = [runs EXCEPT ![informer] = @ + 1]
          /\ phase' = [phase EXCEPT ![informer] = "running"]
          /\ lock' = u /\ Goto(u, "mark") /\ UNCHANGED <<served, result>>
     ELSE Goto(u, "idle") /\ Started(u) /\ UNCHANGED <<runs, phase, lock>>
  /\ UNCHANGED <<clientsetVars, informer, startedInformers, stopped, mine, awaited, calls>>

(* go informer.Run *)
Start(u) ==
  /\ pc[u] = "Start" /\ lock = Nobody
  /\ IF informer # NoInformer /\ ~startedInformers
     THEN /\ runs' = [runs EXCEPT ![informer] = @ + 1]
          /\ phase' = [phase EXCEPT ![informer] = "running"]
          /\ lock' = u /\ Goto(u, "mark") /\ UNCHANGED <<served, result>>
     ELSE Goto(u, "idle") /\ Started(u) /\ UNCHANGED <<runs, phase, lock>>
  /\ UNCHANGED <<clientsetVars, informer, startedInformers, stopped, mine, awaited, calls>>

(* Start goes on. *)
Mark(u) ==
  /\ pc[u] = "mark"
  /\ startedInformers' = TRUE /\ lock' = Nobody
  /\ Goto(u, "idle") /\ Started(u)
  /\ UNCHANGED <<clientsetVars, informer, informerVars, mine, awaited, calls>>

(* The informers to wait for are looked up under the lock. *)
WaitForCacheSync(u) ==
  /\ pc[u] = "WaitForCacheSync" /\ lock = Nobody
  /\ IF startedInformers
     THEN Goto(u, "poll") /\ awaited' = [awaited EXCEPT ![u] = informer] /\ UNCHANGED result
     ELSE Goto(u, "idle") /\ result' = [result EXCEPT ![u] = "nothing"] /\ UNCHANGED awaited
  /\ UNCHANGED <<clientsetVars, factoryVars, informerVars, mine, served, calls>>

HasSynced(i) == phase[i] \in {"listed", "watching"}

(* cache.WaitForCacheSync *)
Poll(u) ==
  /\ pc[u] = "poll"
  /\ \/ HasSynced(awaited[u]) /\ result' = [result EXCEPT ![u] = "synced"]
     \/ stopped /\ result' = [result EXCEPT ![u] = "stopped"]
  /\ awaited' = [awaited EXCEPT ![u] = NoInformer]
  /\ Goto(u, "idle")
  /\ UNCHANGED <<clientsetVars, factoryVars, informerVars, mine, served, calls>>

-------------------------------------------------------------------------------
(* The informer's goroutines, other callers of the clientset, and the end     *)

Advance(i, from, to) ==
  /\ phase[i] = from /\ phase' = [phase EXCEPT ![i] = to]
  /\ UNCHANGED <<factoryVars, runs, stopped, callerVars, calls>>

RunList(i) == Advance(i, "running", "listed") /\ List(i)
RunWatch(i) == Advance(i, "listed", "watching") /\ Watch(i)
RunReceive(i) == Advance(i, "watching", "watching") /\ Receive(i)

ClientStep ==
  /\ calls < MaxCalls /\ calls' = calls + 1
  /\ \/ \E c \in Clients : \/ Patch(c) \/ Edit(c)
                           \/ \E n \in Names : Create(c, n) \/ Update(c, n) \/ Get(c, n)
     \/ \E n \in Names : Delete(n)
  /\ UNCHANGED <<factoryVars, informerVars, callerVars>>

Stop ==
  /\ ~stopped /\ stopped' = TRUE
  /\ UNCHANGED <<clientsetVars, factoryVars, runs, phase, callerVars, calls>>

CallerStep(u) ==
  InformerFor(u) \/ Make(u) \/ Start(u) \/ Mark(u) \/ WaitForCacheSync(u) \/ Poll(u)

Next ==
  \/ \E u \in Callers : Call(u) \/ CallerStep(u)
  \/ \E i \in Informers : RunList(i) \/ RunWatch(i) \/ RunReceive(i)
  \/ ClientStep
  \/ Stop

Spec == Init /\ [][Next]_vars

(* A call goes on, and gets the lock in the end: a Go mutex is handed to one   *)
(* that has waited long enough.  Until stopCh is closed informers list.       *)
Fairness ==
  /\ \A u \in Callers : SF_vars(CallerStep(u))
  /\ \A i \in Informers : WF_vars(~stopped /\ RunList(i))

FairSpec == Spec /\ Fairness

-------------------------------------------------------------------------------
(* factory.go:47-48, "This allows Start() to be called multiple times safely": *)
(* no informer runs twice.                                                  *)
RunOnce == \A i \in Informers : runs[i] <= 1

(* Whoever asks for the informer gets the one that Start runs and that        *)
(* WaitForCacheSync waits for: after a caller's own Start the wait covers the   *)
(* caller's informer, and when the wait says so it has synced.                *)
WaitCoversMine ==
  \A u \in Callers :
    /\ u \in served => result[u] # "nothing"
    /\ mine[u] # NoInformer /\ result[u] = "synced" => HasSynced(mine[u])

(* What a synced informer's lister gives for a name, once the events on their  *)
(* way have arrived, is what the tracker has stored for it.  The fake's Watch   *)
(* starts where it is called, so this is not so for names that were changed     *)
(* between the informer's List and its Watch, until they change again.        *)
ListerFollows ==
  \A i \in Informers : HasSynced(i) => \A n \in scope \ missed[i] : Follows(i, n)

(* Every call of the factory returns: none deadlocks on f.lock, and a wait     *)
(* ends as what it waits for has been started or stopCh is closed.            *)
CallsReturn == \A u \in Callers : pc[u] # "idle" ~> pc[u] = "idle"
===============================================================================
