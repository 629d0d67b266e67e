------------------------------ MODULE Controller ------------------------------
(***************************************************************************)
(* controller.go and main.go: the event handlers, the workers and their     *)
(* syncHandler, Run and the end of the process, on top of the informers     *)
(* (Cluster) and of the work queue, of which it uses what KeyQueue says.    *)
(*                                                                         *)
(* syncHandler is cut where another goroutine or the API server can come in *)
(* between: at every read of a lister and at the write.                    *)
(***************************************************************************)
EXTENDS Cluster

CONSTANTS
  Workers,      \* goroutines running runWorker
  NoTemplate,   \* a worker with nothing to do
  MaxWaiting,   \* requests for one template the queue keeps apart, see KeyQueue
  MaxFaults,    \* calls of the API server that get no answer
  MaxRestarts,  \* times the process is told to stop, or dies
  MaxDisturbances  \* all of these and the changes by others together

ASSUME ControllerAssumption ==
  /\ NoTemplate \notin Templates
  /\ MaxWaiting \in Nat \ {0}
  /\ MaxFaults \in Nat /\ MaxRestarts \in Nat /\ MaxDisturbances \in Nat

VARIABLES
  waiting, dirty, processing, shuttingDown,  \* the work queue, see KeyQueue
  phase,     \* where main and Run are
  pc,        \* where each worker is in processNextWorkItem
  key,       \* the key it took
  tmpl,      \* the template it read from the cache
  op,        \* whether it will create or update
  out,       \* Data of the ConfigMap being built
  failed,    \* templates whose last sync returned an error (for properties)
  wire,      \* calls that got no answer and may yet come to the API server
  written,   \* per template, the version this process' last write was made from (for properties)
  faults, restarts

queueVars == <<waiting, dirty, processing, shuttingDown>>
workerVars == <<pc, key, tmpl, op, out>>
ghostVars == <<failed, written>>
budgetVars == <<faults, restarts>>
vars == <<clusterVars, queueVars, phase, workerVars, wire, ghostVars, budgetVars>>

Q == INSTANCE KeyQueue WITH Keys <- Templates

Requests == [number : Nat, name : ConfigMaps, op : {"create", "update"}, value : ConfigMap]

TypeOK ==
  /\ ClusterTypeOK
  /\ Q!TypeOK
  /\ phase \in {"starting", "aborting", "aborted", "running", "stopping", "returned"}
  /\ pc \in [Workers -> {"idle", "lookup", "find", "render", "done", "failed"}]
  /\ key \in [Workers -> Templates \cup {NoTemplate}]
  /\ tmpl \in [Workers -> Template \cup {Absent}]
  /\ op \in [Workers -> {"create", "update"}]
  /\ out \in [Workers -> [DataKeys -> Rendered \cup {Dropped, Pending}]]
  /\ wire \in SUBSET Requests
  /\ failed \in SUBSET Templates
  /\ written \in [Templates -> Nat]
  /\ faults \in 0..MaxFaults /\ restarts \in 0..MaxRestarts

NoOutput == [d \in DataKeys |-> Pending]

FreshWorkers ==
  /\ pc = [w \in Workers |-> "idle"]
  /\ key = [w \in Workers |-> NoTemplate]
  /\ tmpl = [w \in Workers |-> Absent]
  /\ op = [w \in Workers |-> "create"]
  /\ out = [w \in Workers |-> NoOutput]

Init ==
  /\ ClusterInit
  /\ Q!Init
  /\ FreshWorkers
  /\ phase = "starting"
  /\ wire = {} /\ failed = {} /\ written = [t \in Templates |-> 0]
  /\ faults = 0 /\ restarts = 0

-------------------------------------------------------------------------------
(* The event handlers. *)

Cached(t) == cache[t] # Absent

(* A bug that takes a resync for no news. *)
EnqueuedByChangedTemplate(n) == IF n.type = "set" THEN {n.obj} ELSE {}

(* enqueueConfigMapTemplate is not registered for deletions. *)
EnqueuedByTemplate(n) == IF n.type = "delete" THEN {} ELSE {n.obj}

(* handlePod: every template of the pod's namespace. *)
EnqueuedByPod(n) == {t \in Templates : Cached(t) /\ NS[t] = NS[n.obj]}

(* A bug that compares the owner's uid with the cached template's. *)
EnqueuedByOwnerUid(n) ==
  IF n.type = "resync" \/ n.val.owner = NoOwner THEN {}
  ELSE {t \in {n.val.owner.name} : Cached(t) /\ cache[t].uid = n.val.owner.uid}

(* handleObject, behind an UpdateFunc that ignores equal versions: the      *)
(* template whose name the controller reference gives, if it exists.       *)
EnqueuedByConfigMap(n) ==
  IF n.type = "resync" \/ n.val.owner = NoOwner THEN {}
  ELSE {t \in {n.val.owner.name} : Cached(t)}

Enqueued(k, n) ==
  CASE k = "ConfigMapTemplate" -> EnqueuedByTemplate(n)
    [] k = "Pod"               -> EnqueuedByPod(n)
    [] OTHER                   -> EnqueuedByConfigMap(n)

(* processorListener.run hands the next notification to the handler. *)
Handle(k) ==
  /\ notes[k] # <<>>
  /\ notes' = [notes EXCEPT ![k] = Tail(@)]
  /\ Q!AddRateLimited(Enqueued(k, Head(notes[k])))
  /\ UNCHANGED <<serverVars, deltas, listed, initial, cache, phase, workerVars, wire,
                 ghostVars, budgetVars>>

(* A delay of the rate limiter elapses.  (Requests that meet in the heap need *)
(* no step: AddRateLimited may merge them at once.)                         *)
Ready(t) ==
  /\ Q!Ready(t)
  /\ UNCHANGED <<clusterVars, phase, workerVars, wire, ghostVars, budgetVars>>

-------------------------------------------------------------------------------
(* processNextWorkItem and syncHandler. *)

Take(w, t) ==
  /\ phase \in {"running", "stopping", "returned"}
  /\ pc[w] = "idle"
  /\ Q!Get(t)
  /\ pc' = [pc EXCEPT ![w] = "lookup"]
  /\ key' = [key EXCEPT ![w] = t]
  /\ UNCHANGED <<clusterVars, phase, tmpl, op, out, wire, ghostVars, budgetVars>>

(* A template that is gone or names no ConfigMap ends the sync without an   *)
(* error.                                                                  *)
LookupTemplate(w) ==
  /\ pc[w] = "lookup"
  /\ IF cache[key[w]] = Absent \/ cache[key[w]].configMapName = NoName
     THEN /\ pc' = [pc EXCEPT ![w] = "done"]
          /\ UNCHANGED tmpl
     ELSE /\ pc' = [pc EXCEPT ![w] = "find"]
          /\ tmpl' = [tmpl EXCEPT ![w] = cache[key[w]]]
  /\ UNCHANGED <<clusterVars, queueVars, phase, key, op, out, wire, ghostVars, budgetVars>>

(* A bug that leaves out the ownership check. *)
FindConfigMapUnchecked(w) ==
  /\ pc[w] = "find"
  /\ pc' = [pc EXCEPT ![w] = "render"]
  /\ op' = [op EXCEPT ![w] = IF cache[tmpl[w].configMapName] = Absent THEN "create" ELSE "update"]
  /\ UNCHANGED <<clusterVars, queueVars, phase, key, tmpl, out, wire, ghostVars, budgetVars>>

(* Is there a ConfigMap of that name in the cache, and is it the            *)
(* template's?  Another's is an error.                                     *)
FindConfigMap(w) ==
  /\ pc[w] = "find"
  /\ LET cm == cache[tmpl[w].configMapName] IN
       IF cm = Absent \/ IsControlledBy(cm, tmpl[w])
       THEN /\ pc' = [pc EXCEPT ![w] = "render"]
            /\ op' = [op EXCEPT ![w] = IF cm = Absent THEN "create" ELSE "update"]
       ELSE /\ pc' = [pc EXCEPT ![w] = "failed"]
            /\ UNCHANGED op
  /\ UNCHANGED <<clusterVars, queueVars, phase, key, tmpl, out, wire, ghostVars, budgetVars>>

(* newConfigMap executes one text; its pods function asks the pod lister. *)
RenderKey(w, d) ==
  /\ pc[w] = "render"
  /\ out[w][d] = Pending
  /\ \E r \in Results(tmpl[w].data[d], PodsIn(cache, NS[key[w]])) :
       out' = [out EXCEPT ![w][d] = r]
  /\ UNCHANGED <<clusterVars, queueVars, phase, pc, key, tmpl, op, wire, ghostVars, budgetVars>>

NewConfigMap(w) == [owner |-> ControllerRef(key[w], tmpl[w]), data |-> out[w]]

ReadyToWrite(w) == pc[w] = "render" /\ \A d \in DataKeys : out[w][d] # Pending

Request(w) == [number |-> faults, name |-> tmpl[w].configMapName, op |-> op[w],
               value |-> NewConfigMap(w)]

(* Create needs the name to be free, Update needs it to be taken.  Update   *)
(* sends no resource version: whatever is there is replaced.  A write that  *)
(* changes nothing makes no new version, and nobody is told of it.         *)
Accepted(r) == (server[r.name] = Absent) <=> (r.op = "create")

Apply(r) ==
  IF Accepted(r) /\ server[r.name] # r.value
  THEN Put(r.name, r.value)
  ELSE UNCHANGED <<server, past, deltas>>

Disturbances == changes + faults + restarts

Fault == /\ faults < MaxFaults /\ Disturbances < MaxDisturbances
         /\ faults' = faults + 1

(* The call succeeds, or is refused, or gets no answer. *)
Write(w) ==
  /\ ReadyToWrite(w)
  /\ \/ /\ Accepted(Request(w))
        /\ Apply(Request(w))
        /\ pc' = [pc EXCEPT ![w] = "done"]
        /\ written' = [written EXCEPT ![key[w]] = tmpl[w].rv]
        /\ UNCHANGED <<wire, faults>>
     \/ /\ ~Accepted(Request(w))
        /\ pc' = [pc EXCEPT ![w] = "failed"]
        /\ UNCHANGED <<server, past, deltas, wire, written, faults>>
     \/ /\ Fault
        /\ pc' = [pc EXCEPT ![w] = "failed"]
        /\ wire' = wire \cup {Request(w)}
        /\ UNCHANGED <<server, past, deltas, written>>
  /\ UNCHANGED <<version, changes, informerVars, queueVars, phase, key, tmpl, op, out,
                 failed, restarts>>

(* A call that got no answer comes to the API server after all, at once or    *)
(* any time later, after other calls or in the time of another process; or   *)
(* never, as nothing obliges it to.                                        *)
Arrive(r) ==
  /\ wire' = wire \ {r}
  /\ Apply(r)
  /\ UNCHANGED <<version, changes, informerVars, queueVars, phase, workerVars, ghostVars,
                 budgetVars>>

(* A bug that requeues after a success as well. *)
FinishRequeues(w) ==
  /\ pc[w] \in {"done", "failed"}
  /\ processing' = processing \ {key[w]}
  /\ dirty' = Q!Added(key[w])
  /\ failed' = IF pc[w] = "failed" THEN failed \cup {key[w]} ELSE failed \ {key[w]}
  /\ pc' = [pc EXCEPT ![w] = "idle"]
  /\ key' = [key EXCEPT ![w] = NoTemplate]
  /\ tmpl' = [tmpl EXCEPT ![w] = Absent]
  /\ op' = [op EXCEPT ![w] = "create"]
  /\ out' = [out EXCEPT ![w] = NoOutput]
  /\ UNCHANGED <<clusterVars, waiting, shuttingDown, phase, wire, written, budgetVars>>

(* Done, whatever the outcome; an error is logged and nothing is requeued.  *)
(* (Forget only matters to the length of later delays: see WorkQueue.)      *)
Finish(w) ==
  /\ pc[w] \in {"done", "failed"}
  /\ Q!Done(key[w])
  /\ failed' = IF pc[w] = "failed" THEN failed \cup {key[w]} ELSE failed \ {key[w]}
  /\ pc' = [pc EXCEPT ![w] = "idle"]
  /\ key' = [key EXCEPT ![w] = NoTemplate]
  /\ tmpl' = [tmpl EXCEPT ![w] = Absent]
  /\ op' = [op EXCEPT ![w] = "create"]
  /\ out' = [out EXCEPT ![w] = NoOutput]
  /\ UNCHANGED <<clusterVars, phase, wire, written, budgetVars>>

Sync(w) ==
  \/ LookupTemplate(w) \/ FindConfigMap(w)
  \/ \E d \in DataKeys : RenderKey(w, d)
  \/ Write(w) \/ Finish(w)

-------------------------------------------------------------------------------
(* Run, main and the signal handler. *)

(* Run waits for two of the three caches. *)
StartWorkers ==
  /\ phase = "starting"
  /\ HasSynced("ConfigMap") /\ HasSynced("ConfigMapTemplate")
  /\ phase' = "running"
  /\ UNCHANGED <<clusterVars, queueVars, workerVars, wire, ghostVars, budgetVars>>

(* SIGTERM closes stopCh; if Run still waits for the caches it will start no  *)
(* workers.                                                                *)
Stop ==
  /\ phase \in {"starting", "running"}
  /\ restarts < MaxRestarts /\ Disturbances < MaxDisturbances
  /\ phase' = IF phase = "starting" THEN "aborting" ELSE "stopping"
  /\ restarts' = restarts + 1
  /\ UNCHANGED <<clusterVars, queueVars, workerVars, wire, ghostVars, faults>>

(* Run returns (from WaitForCacheSync or from <-stopCh): its deferred call  *)
(* shuts the queue down.                                                   *)
ReturnFromRun ==
  /\ phase \in {"aborting", "stopping"}
  /\ Q!ShutDown
  /\ phase' = IF phase = "aborting" THEN "aborted" ELSE "returned"
  /\ UNCHANGED <<clusterVars, workerVars, wire, ghostVars, budgetVars>>

(* The process is gone, with all it held, and the Deployment starts another.  *)
(* What it has sent goes on: a call under way when it ends is one that gets  *)
(* no answer (Write) before that.                                          *)
NewProcess ==
  /\ phase' = "starting"
  /\ listed' = {} /\ initial' = {}
  /\ deltas' = [o \in Objects |-> <<>>]
  /\ cache' = [o \in Objects |-> Absent]
  /\ notes' = [k \in Kinds |-> <<>>]
  /\ waiting' = [t \in Templates |-> 0]
  /\ dirty' = {} /\ processing' = {} /\ shuttingDown' = FALSE
  /\ pc' = [w \in Workers |-> "idle"]
  /\ key' = [w \in Workers |-> NoTemplate]
  /\ tmpl' = [w \in Workers |-> Absent]
  /\ op' = [w \in Workers |-> "create"]
  /\ out' = [w \in Workers |-> NoOutput]
  /\ failed' = {} /\ written' = [t \in Templates |-> 0]
  /\ UNCHANGED <<serverVars, wire, faults>>

(* main returns. *)
Exit ==
  /\ phase \in {"aborted", "returned"}
  /\ NewProcess
  /\ UNCHANGED restarts

(* The process dies, or a second signal makes it exit at once. *)
Crash ==
  /\ restarts < MaxRestarts /\ Disturbances < MaxDisturbances
  /\ restarts' = restarts + 1
  /\ NewProcess

Process == StartWorkers \/ Stop \/ ReturnFromRun \/ Exit \/ Crash

-------------------------------------------------------------------------------
ProcessUnchanged == UNCHANGED <<queueVars, phase, workerVars, wire, ghostVars, budgetVars>>

Next ==
  \/ Others /\ ProcessUnchanged /\ changes' + faults + restarts <= MaxDisturbances
  \/ Informers /\ ProcessUnchanged
  \/ \E k \in Kinds : Handle(k)
  \/ \E t \in Templates : Ready(t) \/ \E w \in Workers : Take(w, t)
  \/ \E w \in Workers : Sync(w)
  \/ \E r \in wire : Arrive(r)
  \/ Process

Spec == Init /\ [][Next]_vars

(* Goroutines run, watches and syncs come back, the clock runs, a process    *)
(* that was told to stop stops.  A key that can be taken is taken in the    *)
(* end although workers are busy meanwhile, because the queue is first in   *)
(* first out (WorkQueue, ImplementsKeyQueueFairness).  The garbage          *)
(* collector works.  Nobody has to change, stop or crash anything.          *)
Fairness ==
  /\ \A k \in Kinds : WF_vars(List(k) /\ ProcessUnchanged) /\ WF_vars(Handle(k))
  /\ \A o \in Objects : WF_vars(Deliver(o) /\ ProcessUnchanged) /\ SF_vars(Resync(o) /\ ProcessUnchanged)
  /\ \A c \in ConfigMaps : WF_vars(CollectGarbage(c) /\ ProcessUnchanged)
  /\ \A t \in Templates : WF_vars(Ready(t)) /\ SF_vars(\E w \in Workers : Take(w, t))
  /\ \A w \in Workers : WF_vars(Sync(w))
  /\ WF_vars(StartWorkers) /\ WF_vars(ReturnFromRun) /\ WF_vars(Exit)

FairSpec == Spec /\ Fairness

-------------------------------------------------------------------------------
(* controller.go:84-88.  No two workers process the same template, and the  *)
(* queue has locked exactly the templates the workers are at.              *)
Exclusive ==
  /\ \A v, w \in Workers : key[v] = key[w] /\ key[v] # NoTemplate => v = w
  /\ processing = {key[w] : w \in Workers} \ {NoTemplate}

(* A template that names a ConfigMap. *)
Wants(t) == server[t] # Absent /\ server[t].configMapName # NoName

(* Nothing on its way to the caches, to the handlers or to a worker could   *)
(* make template t be synced again.                                        *)
Quiet(t) ==
  /\ phase = "running" /\ listed = Kinds
  /\ \A o \in Objects : deltas[o] = <<>>
  /\ \A k \in Kinds : notes[k] = <<>>
  /\ waiting[t] = 0 /\ t \notin dirty \cup processing

(* No lost update.  When a template has come to rest and its last sync      *)
(* succeeded, the server holds what it asks for: whatever changed while     *)
(* the sync read the caches, rendered and wrote has caused another sync.    *)
(* There are two exceptions.  Nobody is told of a ConfigMap that loses its   *)
(* owner reference (EnvOps without "disown").  And a template is not told   *)
(* when its ConfigMap is taken over by another template of the same         *)
(* configMapName, which still knew it as its own before it was deleted and  *)
(* created again (one template, or EnvOps without deletions).               *)
RestMeansConverged ==
  \A t \in Templates : Quiet(t) /\ Wants(t) /\ t \notin failed => Converged(t)

(* As long as nobody else deletes or disowns ConfigMaps, a ConfigMap keeps  *)
(* its owner: of two templates with the same configMapName, whose creates   *)
(* may race on caches that show neither, one wins for good, and a foreign   *)
(* ConfigMap is never taken over.                                          *)
OwnerIsKept ==
  [][\A c \in ConfigMaps :
       server[c] # Absent /\ server'[c] # Absent => server'[c].owner = server[c].owner]_vars

(* In one process an older version of a template is never written after a    *)
(* newer one, whichever worker does it, although Update sends no resource   *)
(* version.  (A step to "starting" is the start of another process, which   *)
(* may list older versions; a call that got no answer may arrive after a    *)
(* newer one; and a broken watch, which Cluster has none of, would list      *)
(* anew.  Then older data is written over newer, and RestMeansConverged     *)
(* says that this does not last.)                                         *)
NoRegress ==
  [][phase' # "starting" => \A t \in Templates : written'[t] >= written[t]]_vars

(* Once others change nothing any more every template that names a          *)
(* ConfigMap has it, with its texts executed on the pods there are.         *)
EventuallyConverged == <>[](\A t \in Templates : Wants(t) => Converged(t))

(* A ConfigMap that is not, or no longer, the template's is left alone, and  *)
(* with it the template, for as long as it is there (controller.go:304-310). *)
(* Once it is gone, of which no event tells the template, the periodic      *)
(* resync makes the ConfigMap anew; and it makes up for calls that failed.  *)
Blocked(t) ==
  LET cm == server[server[t].configMapName] IN cm # Absent /\ ~IsControlledBy(cm, server[t])
EventuallySettled ==
  \A t \in Templates : <>[](~(Wants(t) /\ Blocked(t))) => <>[](Wants(t) => Converged(t))

(* controller.go:242-243.  A template that was synced "does not get queued  *)
(* again until another change happens": once others change nothing, no      *)
(* template is queued any more.  (Without the periodic resync.)             *)
EventuallyAtRest == <>[](dirty \cup processing = {} /\ \A t \in Templates : waiting[t] = 0)

(* controller.go:297-299, 321-323.  "If an error occurs ..., we'll requeue  *)
(* the item so we can attempt processing again later."                      *)
FailedIsRequeued ==
  \A t \in Templates : (t \in failed) ~> (waiting[t] > 0 \/ t \in dirty \cup processing)

(* controller.go:177.  "Wait for the caches to be synced before starting    *)
(* workers": no worker renders from a pod cache that is not filled.         *)
WorkersSeeSyncedCaches ==
  \A w \in Workers : pc[w] # "idle" => \A k \in Kinds : HasSynced(k)

(* controller.go:304-306.  "If the ConfigMap is not controlled by this        *)
(* ConfigMapTemplate resource, we should log a warning ... and ret": a       *)
(* ConfigMap the template does not control is not written.                  *)
OnlyOwnIsUpdated ==
  [][\A w \in Workers :
       LET c == tmpl[w].configMapName IN
       (ReadyToWrite(w) /\ server'[c] # server[c] /\ server[c] # Absent /\ server'[c] # Absent)
         => IsControlledBy(server[c], tmpl[w])]_vars
===============================================================================
