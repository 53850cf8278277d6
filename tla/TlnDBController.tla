-------------------------- MODULE TlnDBController ---------------------------
(***************************************************************************)
(* The reconciler of internal/controller/tlndb_controller.go for one TlnDB *)
(* name, together with what it runs against: the API server, the informer  *)
(* caches it reads from, its work queue, the users of the TlnDB, and the   *)
(* Kubernetes controllers that act on the children.                        *)
(*                                                                         *)
(* One call of Reconcile is many steps, one per request to the API server. *)
(* Reads go to the caches, which may lag; everything else in the cluster   *)
(* may change between two steps.  There is one worker, so one call at a    *)
(* time.                                                                   *)
(*                                                                         *)
(* A resourceVersion is only ever compared for equality with the server's, *)
(* so instead of a number each copy carries a Boolean: crFresh, fresh[k]   *)
(* and instFresh say that the copy has the version the server has.         *)
(***************************************************************************)
EXTENDS TlnDBResources

CONSTANTS
  UserSpecs,            \* specs users may apply
  ExtVersions,          \* contents the external ConfigMap may have
  MonitoringInstalled,  \* the ServiceMonitor CRD is in the cluster
  ScaleTo,              \* sizes the autoscaler may ask for
  Lagging,              \* bound: the objects whose cached copy may lag
  MaxInstances,         \* bound: how often the TlnDB is (re)created
  MaxEdits,             \* bound: edits and deletions by users
  MaxFaults,            \* bound: failed calls, crashes, drift, scaling, pod failures
  Seconds               \* bound: how many seconds are told apart

ASSUME InputAssumption ==
  /\ UserSpecs \subseteq TlnDBSpec
  /\ ExtVersions \subseteq Configs
  /\ MonitoringInstalled \in BOOLEAN
  /\ ScaleTo \subseteq Nat

ASSUME BoundAssumption ==
  /\ Lagging \subseteq {"TlnDB"} \cup (Child \ {"ServiceMonitor"})
  /\ {MaxInstances, MaxEdits, MaxFaults, Seconds} \subseteq Nat

VARIABLES
  (* the API server *)
  cr,         \* the stored TlnDB
  ext,        \* content of the ConfigMap named by spec.configFrom
  obj,        \* the stored children
  (* the informer caches *)
  ccr, crFresh,
  cobj, fresh,
  cext,
  (* the work queue *)
  queued,     \* the TlnDB's key is in the queue
  timer,      \* the key is scheduled to be added later (RequeueAfter, backoff)
  (* the running call of Reconcile *)
  pc,         \* "idle", or the step about to be taken
  inst,       \* the local variable instance
  instFresh,  \* instance carries the server's resourceVersion
  hash,       \* the local variable configHash
  managed,    \* the local variable managed
  (* bookkeeping of the bounds *)
  uids, edits, faults, now

server == <<cr, ext, obj>>
crCache == <<ccr, crFresh>>
crSide == <<cr, crCache, queued>>
childCache == <<cobj, fresh>>
childSide == <<obj, childCache, queued>>
queue == <<queued, timer>>
locals == <<inst, instFresh, hash, managed>>
vars == <<server, crCache, childCache, cext, queue, pc, locals,
          uids, edits, faults, now>>

-----------------------------------------------------------------------------
(***************************************************************************)
(* SetupWithManager watches the TlnDB and every owned kind but             *)
(* ServiceMonitor, which is read from the server (unstructured objects are *)
(* not cached by default).                                                 *)
(***************************************************************************)
Watched == Child \ {"ServiceMonitor"}

ConditionSteps ==
  {"RBACReady", "ConfigMapReady", "ServiceReady", "NetworkPolicyReady",
   "ServiceMonitorReady", "ServiceMonitorMissing", "ConfigMapMissing"}

(***************************************************************************)
(* Everything that can still follow in the call once reconcileResources    *)
(* has been entered.                                                       *)
(***************************************************************************)
ResourceSteps ==
  Steps \cup ConditionSteps \cup {"SetProvisioning", "SetFailed", "SyncStatus"}

DeletionSteps == {"SetTerminating", "RemoveFinalizer"}

PC == {"idle", "AddFinalizer"} \cup DeletionSteps \cup ResourceSteps

Init ==
  /\ cr = None /\ ccr = None /\ crFresh = TRUE
  /\ ext \in ExtVersions \cup {None} /\ cext = ext
  /\ obj = [k \in Child |-> None]
  /\ cobj = [k \in Watched |-> None]
  /\ fresh = [k \in Watched |-> TRUE]
  /\ queued = FALSE /\ timer = FALSE
  /\ pc = "idle" /\ inst = None /\ instFresh = FALSE
  /\ hash = None /\ managed = {}
  /\ uids = 0 /\ edits = 0 /\ faults = 0 /\ now = 1

-----------------------------------------------------------------------------
(***************************************************************************)
(* Requests to the API server.                                             *)
(*                                                                         *)
(* A request may fail for reasons that have nothing to do with its content *)
(* (timeout, throttling, lost connection), before or after it was applied; *)
(* both cost one unit of MaxFaults.                                        *)
(***************************************************************************)
Fault == faults < MaxFaults /\ faults' = faults + 1

(***************************************************************************)
(* Writing an object that already has this value leaves its                *)
(* resourceVersion alone and sends no event.  A watched object that does   *)
(* not lag has its event delivered with the write.                         *)
(***************************************************************************)
StoreCR(new) ==
  /\ cr' = new
  /\ IF "TlnDB" \in Lagging
       THEN /\ crFresh' = (crFresh /\ new = cr)
            /\ UNCHANGED <<ccr, queued>>
       ELSE /\ ccr' = new
            /\ queued' = (queued \/ new # cr)
            /\ UNCHANGED crFresh

\* Defect: deletions of owned objects do not reach the queue.
StoreIgnoringDeletes(k, new) ==
  /\ obj' = [obj EXCEPT ![k] = new]
  /\ IF k \in Lagging
       THEN /\ fresh' = [fresh EXCEPT ![k] = @ /\ new = obj[k]]
            /\ UNCHANGED <<cobj, queued>>
       ELSE /\ cobj' = [cobj EXCEPT ![k] = new]
            /\ queued' = (queued \/ (k \in Watched /\ new \notin {None, obj[k]}))
            /\ UNCHANGED fresh

Store(k, new) ==
  /\ obj' = [obj EXCEPT ![k] = new]
  /\ IF k \in Lagging
       THEN /\ fresh' = [fresh EXCEPT ![k] = @ /\ new = obj[k]]
            /\ UNCHANGED <<cobj, queued>>
       ELSE /\ cobj' = [cobj EXCEPT ![k] = new]
            /\ queued' = (queued \/ (k \in Watched /\ new # obj[k]))
            /\ UNCHANGED fresh

(***************************************************************************)
(* r.Status().Patch of instance after its status was set to new: a merge   *)
(* patch addressed by name only, computed against the copy the call holds. *)
(***************************************************************************)
\* Defect: the whole status is sent instead of what changed.
Overwritten(new) == [cr EXCEPT !.status = new]

Patched(new) ==
  [cr EXCEPT !.status = MergePatch(cr.status, inst.status, new)]

PatchStatus(new, reply) ==
  \/ /\ cr # None /\ reply = "ok"
     /\ StoreCR(Patched(new)) /\ UNCHANGED faults
  \/ /\ cr = None /\ reply = "error"
     /\ UNCHANGED <<crSide, faults>>
  \/ /\ reply = "error" /\ Fault
     /\ UNCHANGED crSide
  \/ /\ cr # None /\ reply = "error" /\ Fault
     /\ StoreCR(Patched(new))

(***************************************************************************)
(* What the call holds afterwards: the decoded response, or its own        *)
(* modified copy.                                                          *)
(***************************************************************************)
KeepInstance(new, reply) ==
  LET local == [inst EXCEPT !.status = new] IN
  /\ inst' = IF reply = "ok" THEN DecodeInto(local, cr') ELSE local
  /\ instFresh' = (reply = "ok" \/ (instFresh /\ cr' = cr))

(***************************************************************************)
(* Leaving Reconcile.  A returned error, Requeue and RequeueAfter all put  *)
(* the key back later.                                                     *)
(***************************************************************************)
Return(requeue) ==
  /\ pc' = "idle" /\ inst' = None /\ instFresh' = FALSE
  /\ hash' = None /\ managed' = {}
  /\ timer' = (timer \/ requeue)

Environment == <<ext, cext, uids, edits, now>>

-----------------------------------------------------------------------------
(***************************************************************************)
(* Reconcile: the Get from the cache and the choice of what to do.         *)
(***************************************************************************)
\* Defect: resources are reconciled before the finalizer is stored.
EntryWithoutFinalizer(instance) ==
  CASE instance.deleting ->
         IF instance.finalizer THEN "SetTerminating" ELSE "idle"
    [] OTHER ->
         IF instance.status.phase = "" THEN "SetProvisioning"
                                       ELSE FirstStep(instance.spec)

Entry(instance) ==
  CASE instance.deleting ->
         IF instance.finalizer THEN "SetTerminating" ELSE "idle"
    [] ~ instance.deleting /\ ~ instance.finalizer -> "AddFinalizer"
    [] OTHER ->
         IF instance.status.phase = "" THEN "SetProvisioning"
                                       ELSE FirstStep(instance.spec)

Reconcile ==
  /\ pc = "idle" /\ queued
  /\ queued' = FALSE
  /\ IF ccr = None \/ Entry(ccr) = "idle"
       THEN UNCHANGED <<pc, inst, instFresh>>
       ELSE pc' = Entry(ccr) /\ inst' = ccr /\ instFresh' = crFresh
  /\ UNCHANGED <<server, crCache, childCache, timer, hash, managed, faults,
                 Environment>>

(***************************************************************************)
(* r.Update of the whole object, refused unless it carries the server's    *)
(* resourceVersion.  Requeue: true on success, the error otherwise.        *)
(***************************************************************************)
WithFinalizer ==
  LET stored == StoredByUpdate(inst.spec) IN
  [cr EXCEPT !.finalizer = TRUE,
             !.spec = stored,
             !.generation = IF stored = cr.spec THEN @ ELSE @ + 1]

AddFinalizer ==
  /\ pc = "AddFinalizer"
  /\ \/ instFresh /\ StoreCR(WithFinalizer) /\ UNCHANGED faults
     \/ ~ instFresh /\ UNCHANGED <<crSide, faults>>
     \/ Fault /\ UNCHANGED crSide
     \/ Fault /\ instFresh /\ StoreCR(WithFinalizer)
  /\ Return(TRUE)
  /\ UNCHANGED <<obj, childCache, Environment>>

(***************************************************************************)
(* setPhase.                                                               *)
(***************************************************************************)
WithPhase(phase) ==
  [inst.status EXCEPT !.phase = phase, !.lastUpdateTime = now]

SetProvisioning ==
  /\ pc = "SetProvisioning"
  /\ \E reply \in {"ok", "error"} :
       /\ PatchStatus(WithPhase("Provisioning"), reply)
       /\ IF reply = "ok"
            THEN /\ KeepInstance(WithPhase("Provisioning"), reply)
                 /\ pc' = FirstStep(inst'.spec)
                 /\ UNCHANGED <<hash, managed, timer>>
            ELSE Return(TRUE)
  /\ UNCHANGED <<obj, childCache, Environment>>

(***************************************************************************)
(* Reconcile's error path: the outcome of setPhase is ignored and the      *)
(* error of reconcileResources returned.                                   *)
(***************************************************************************)
\* Defect: the error is recorded in the phase but not returned.
SetFailedWithoutRetry ==
  /\ pc = "SetFailed"
  /\ \E reply \in {"ok", "error"} : PatchStatus(WithPhase("Failed"), reply)
  /\ Return(FALSE)
  /\ UNCHANGED <<obj, childCache, Environment>>

SetFailed ==
  /\ pc = "SetFailed"
  /\ \E reply \in {"ok", "error"} : PatchStatus(WithPhase("Failed"), reply)
  /\ Return(TRUE)
  /\ UNCHANGED <<obj, childCache, Environment>>

(***************************************************************************)
(* reconcileDeletion: the patch, then the Update without the finalizer.    *)
(* The server deletes a terminating object when its last finalizer goes;   *)
(* for an object that is not terminating the request is invalid, because   *)
(* it carries a deletionTimestamp.                                         *)
(***************************************************************************)
\* Defect: reconcileDeletion returns after recording the phase.
SetTerminatingOnly ==
  /\ pc = "SetTerminating"
  /\ \E reply \in {"ok", "error"} : PatchStatus(WithPhase("Terminating"), reply)
  /\ Return(FALSE)
  /\ UNCHANGED <<obj, childCache, Environment>>

SetTerminating ==
  /\ pc = "SetTerminating"
  /\ \E reply \in {"ok", "error"} :
       /\ PatchStatus(WithPhase("Terminating"), reply)
       /\ IF reply = "ok"
            THEN /\ KeepInstance(WithPhase("Terminating"), reply)
                 /\ pc' = "RemoveFinalizer"
                 /\ UNCHANGED <<hash, managed, timer>>
            ELSE Return(TRUE)
  /\ UNCHANGED <<obj, childCache, Environment>>

RemoveFinalizer ==
  LET accepted == instFresh /\ cr.deleting
      remove == StoreCR(None)
  IN
  /\ pc = "RemoveFinalizer"
  /\ \/ accepted /\ remove /\ UNCHANGED faults /\ Return(FALSE)
     \/ ~ accepted /\ UNCHANGED <<crSide, faults>> /\ Return(TRUE)
     \/ Fault /\ UNCHANGED crSide /\ Return(TRUE)
     \/ Fault /\ accepted /\ remove /\ Return(TRUE)
  /\ UNCHANGED <<obj, childCache, Environment>>

-----------------------------------------------------------------------------
(***************************************************************************)
(* reconcileResources.                                                     *)
(*                                                                         *)
(* The createOrUpdate helpers: read, then Create or Update.  The           *)
(* ServiceMonitor is read from the server; that Get and the write that     *)
(* follows it are one step, and a deletion between the two shows as a      *)
(* write that fails.                                                       *)
(***************************************************************************)
Existing(k) == IF k = "ServiceMonitor" THEN obj[k] ELSE cobj[k]

Desired(k) == Build(k, inst.spec, hash)

\* Defect: a ServiceMonitor that is not found counts as one in order.
SentIgnoringNotFound(k) ==
  IF Existing(k) = None
    THEN k # "ServiceMonitor"
    ELSE NeedsUpdate(k, Existing(k).body, Desired(k))

Sent(k) ==
  Existing(k) # None => NeedsUpdate(k, Existing(k).body, Desired(k))

Written(k) ==
  IF Existing(k) = None
    THEN NewObject(k, Desired(k), inst.uid)
    ELSE UpdatedObject(k, Existing(k), Desired(k), inst.uid)

Accepted(k) ==
  IF Existing(k) = None
    THEN obj[k] = None /\ (k = "ServiceMonitor" => MonitoringInstalled)
    ELSE obj[k] # None /\ (k \in Watched => fresh[k])

(***************************************************************************)
(* A refused Create is AlreadyExists, a refused Update is NotFound or,     *)
(* when the object is there, Conflict: the one error createOrUpdatePDB and *)
(* createOrUpdateHPA do not report.                                        *)
(***************************************************************************)
Swallowed(k) ==
  /\ k \in {"PodDisruptionBudget", "HorizontalPodAutoscaler"}
  /\ Existing(k) # None
  /\ obj[k] # None

Apply(k, reply) ==
  \/ /\ ~ Sent(k) /\ reply = "ok"
     /\ UNCHANGED <<childSide, faults>>
  \/ /\ Sent(k) /\ Accepted(k) /\ reply = "ok"
     /\ Store(k, Written(k)) /\ UNCHANGED faults
  \/ /\ Sent(k) /\ ~ Accepted(k)
     /\ reply = IF Swallowed(k) THEN "ok" ELSE "error"
     /\ UNCHANGED <<childSide, faults>>
  \/ /\ Sent(k) /\ reply = "error" /\ Fault
     /\ UNCHANGED childSide
  \/ /\ Sent(k) /\ Accepted(k) /\ reply = "error" /\ Fault
     /\ Store(k, Written(k))

\* Defect: a failed ServiceMonitor is skipped without a condition.
CreateOrUpdateSkipping(k) ==
  /\ pc = k
  /\ \E reply \in {"ok", "error"} :
       /\ Apply(k, reply)
       /\ IF reply = "ok"
            THEN /\ pc' = NextStep(k, inst.spec)
                 /\ managed' = managed \cup {k}
                 /\ hash' = IF k = "ConfigMap"
                              THEN HashStringData(Desired(k)) ELSE hash
            ELSE /\ pc' = IF k = "ServiceMonitor"
                            THEN NextStep("ServiceMonitorReady", inst.spec)
                            ELSE "SetFailed"
                 /\ UNCHANGED <<managed, hash>>
  /\ UNCHANGED <<cr, crCache, timer, inst, instFresh, Environment>>

CreateOrUpdate(k) ==
  /\ pc = k
  /\ \E reply \in {"ok", "error"} :
       /\ Apply(k, reply)
       /\ IF reply = "ok"
            THEN /\ pc' = NextStep(k, inst.spec)
                 /\ managed' = managed \cup {k}
                 /\ hash' = IF k = "ConfigMap"
                              THEN HashStringData(Desired(k)) ELSE hash
            ELSE /\ pc' = IF k = "ServiceMonitor"
                            THEN "ServiceMonitorMissing" ELSE "SetFailed"
                 /\ UNCHANGED <<managed, hash>>
  /\ UNCHANGED <<cr, crCache, timer, inst, instFresh, Environment>>

(***************************************************************************)
(* spec.configFrom: the external ConfigMap is read (from the cache) and    *)
(* hashed.                                                                 *)
(***************************************************************************)
\* Defect: a missing ConfigMap ends the call without an error.
ExternalConfigMapSilent ==
  /\ pc = "ExternalConfigMap"
  /\ IF cext = None
       THEN Return(FALSE)
       ELSE /\ pc' = NextStep("ExternalConfigMap", inst.spec)
            /\ hash' = HashStringData(cext)
            /\ UNCHANGED <<timer, inst, instFresh, managed>>
  /\ UNCHANGED <<server, crCache, childCache, queued, faults, Environment>>

ExternalConfigMap ==
  /\ pc = "ExternalConfigMap"
  /\ IF cext = None
       THEN pc' = "ConfigMapMissing" /\ UNCHANGED hash
       ELSE /\ pc' = NextStep("ExternalConfigMap", inst.spec)
            /\ hash' = HashStringData(cext)
  /\ UNCHANGED <<server, crCache, childCache, queue, inst, instFresh, managed,
                 faults, Environment>>

(***************************************************************************)
(* deleteStatefulSetIfExists for the follower set.                         *)
(***************************************************************************)
\* Defect: the follower set is not removed.
PruneNothing ==
  /\ pc = "PruneFollower"
  /\ pc' = NextStep(pc, inst.spec)
  /\ UNCHANGED <<childSide, faults, cr, crCache, timer, locals, Environment>>

PruneFollower ==
  LET k == "FollowerStatefulSet" IN
  /\ pc = "PruneFollower"
  /\ \/ /\ IF cobj[k] # None
             THEN Store(k, None)
             ELSE UNCHANGED childSide
        /\ pc' = NextStep(pc, inst.spec) /\ UNCHANGED faults
     \/ /\ cobj[k] # None /\ Fault
        /\ UNCHANGED childSide /\ pc' = "SetFailed"
     \/ /\ cobj[k] # None /\ Fault
        /\ Store(k, None) /\ pc' = "SetFailed"
  /\ UNCHANGED <<cr, crCache, timer, locals, Environment>>

(***************************************************************************)
(* setCondition.  Its errors are logged and dropped; on success instance   *)
(* becomes what the server answered, which may be a newer spec.            *)
(***************************************************************************)
ConditionOf(step) ==
  CASE step = "ConfigMapMissing" -> "ConfigMapReady"
    [] step = "ServiceMonitorMissing" -> "ServiceMonitorReady"
    [] OTHER -> step

WithCondition(c, status) ==
  [inst.status EXCEPT
     !.conditions[c] = [status             |-> status,
                        observedGeneration |-> inst.generation]]

SetCondition ==
  LET new == WithCondition(ConditionOf(pc),
                           IF pc = ConditionOf(pc) THEN "True" ELSE "False")
  IN
  /\ pc \in ConditionSteps
  /\ \E reply \in {"ok", "error"} :
       PatchStatus(new, reply) /\ KeepInstance(new, reply)
  /\ pc' = IF pc = "ConfigMapMissing"
             THEN "SetFailed" ELSE NextStep(ConditionOf(pc), inst'.spec)
  /\ UNCHANGED <<obj, childCache, timer, hash, managed, Environment>>


PersistStatus ==
  LET new == [inst.status EXCEPT
                !.managedResources = managed,
                !.currentImage = inst.spec.image,
                !.lastUpdateTime = now,
                !.observedGeneration = inst.generation]
  IN
  /\ pc = "PersistStatus"
  /\ \E reply \in {"ok", "error"} :
       /\ PatchStatus(new, reply) /\ KeepInstance(new, reply)
       /\ pc' = IF reply = "ok" THEN "SyncStatus" ELSE "SetFailed"
  /\ UNCHANGED <<obj, childCache, timer, hash, managed, Environment>>

(***************************************************************************)
(* syncStatus: the phase from the cached primary StatefulSet.              *)
(***************************************************************************)
\* Defect: readiness is not compared with the desired number.
PhaseOfAnyReady(sts, spec) ==
  IF sts.observed THEN "Running" ELSE "Provisioning"

PhaseOf(sts, spec) ==
  CASE ~ sts.observed -> "Provisioning"
    [] sts.observed /\ sts.ready < desiredReplicas(spec) -> "Degraded"
    [] OTHER -> "Running"

SyncStatus ==
  LET sts == cobj[primaryStatefulSet(inst.spec)]
      phase == PhaseOf(sts, inst.spec)
      new == [WithCondition("StatefulSetReady",
                            IF phase = "Running" THEN "True" ELSE "False")
                EXCEPT !.readyReplicas = sts.ready, !.phase = phase]
  IN
  /\ pc = "SyncStatus"
  /\ IF sts = None
       THEN Return(TRUE) /\ UNCHANGED <<crSide, faults>>
       ELSE \E reply \in {"ok", "error"} :
              /\ PatchStatus(new, reply)
              /\ Return(reply = "error" \/ phase # "Running")
  /\ UNCHANGED <<obj, childCache, Environment>>

(***************************************************************************)
(* The operator process dies and is started again: the call and the timers *)
(* are gone, the caches are listed anew and every TlnDB found is queued.   *)
(***************************************************************************)
Restart ==
  /\ Fault
  /\ pc' = "idle" /\ inst' = None /\ instFresh' = FALSE
  /\ hash' = None /\ managed' = {} /\ timer' = FALSE
  /\ ccr' = cr /\ crFresh' = TRUE
  /\ cobj' = [k \in Watched |-> obj[k]]
  /\ fresh' = [k \in Watched |-> TRUE]
  /\ cext' = ext
  /\ queued' = TRUE
  /\ UNCHANGED <<server, uids, edits, now>>

Operator ==
  \/ Reconcile \/ AddFinalizer \/ SetProvisioning \/ SetFailed
  \/ SetTerminating \/ RemoveFinalizer
  \/ \E k \in Child : CreateOrUpdate(k)
  \/ ExternalConfigMap \/ PruneFollower \/ SetCondition
  \/ PersistStatus \/ SyncStatus

-----------------------------------------------------------------------------
(***************************************************************************)
(* The caches and the queue.  A watch event brings a cached copy up to     *)
(* date and queues the owner.  The external ConfigMap is in the ConfigMap  *)
(* cache, but it has no owner reference and queues nothing.                *)
(***************************************************************************)
SyncCR ==
  /\ ~ crFresh
  /\ ccr' = cr /\ crFresh' = TRUE /\ queued' = TRUE
  /\ UNCHANGED <<server, childCache, timer, pc, locals, faults, Environment>>

SyncChild(k) ==
  /\ ~ fresh[k]
  /\ cobj' = [cobj EXCEPT ![k] = obj[k]]
  /\ fresh' = [fresh EXCEPT ![k] = TRUE]
  /\ queued' = TRUE
  /\ UNCHANGED <<server, crCache, timer, pc, locals, faults, Environment>>

SyncExt ==
  /\ cext # ext
  /\ cext' = ext
  /\ UNCHANGED <<server, crCache, childCache, queue, pc, locals, uids, edits,
                 faults, now>>

TimerFires ==
  /\ timer
  /\ timer' = FALSE /\ queued' = TRUE
  /\ UNCHANGED <<server, crCache, childCache, pc, locals, faults, Environment>>

-----------------------------------------------------------------------------
(***************************************************************************)
(* Users.                                                                  *)
(***************************************************************************)
UserWrites(new) ==
  /\ StoreCR(new) /\ instFresh' = FALSE
  /\ UNCHANGED <<ext, obj, childCache, cext, timer, pc, inst, hash, managed,
                 faults, now>>

UserCreate ==
  /\ cr = None /\ uids < MaxInstances
  /\ uids' = uids + 1
  /\ \E spec \in UserSpecs :
       UserWrites([uid        |-> uids + 1,
                   generation |-> 1,
                   spec       |-> spec,
                   deleting   |-> FALSE,
                   finalizer  |-> FALSE,
                   status     |-> EmptyStatus])
  /\ UNCHANGED edits

UserEdit ==
  /\ cr # None /\ edits < MaxEdits
  /\ edits' = edits + 1
  /\ \E spec \in UserSpecs \ {cr.spec} :
       UserWrites([cr EXCEPT !.spec = spec, !.generation = @ + 1])
  /\ UNCHANGED uids

UserDelete ==
  /\ cr # None /\ ~ cr.deleting /\ edits < MaxEdits
  /\ edits' = edits + 1
  /\ UserWrites(IF cr.finalizer
                  THEN [cr EXCEPT !.deleting = TRUE, !.generation = @ + 1]
                  ELSE None)
  /\ UNCHANGED uids

ExtEdit ==
  /\ edits < MaxEdits
  /\ edits' = edits + 1
  /\ ext' \in (ExtVersions \cup {None}) \ {ext}
  /\ UNCHANGED <<cr, obj, crCache, childCache, cext, queue, pc, locals, uids,
                 faults, now>>

-----------------------------------------------------------------------------
(***************************************************************************)
(* The rest of the cluster: the StatefulSet controller and the kubelet,    *)
(* the garbage collector, somebody deleting a child by hand, and time.     *)
(***************************************************************************)
ClusterWrites(k, new) ==
  /\ Store(k, new)
  /\ UNCHANGED <<cr, crCache, timer, pc, locals, Environment>>

StsObserve(k) ==
  /\ obj[k] # None /\ ~ obj[k].observed
  /\ \E r \in 0 .. obj[k].ready :
       /\ r <= obj[k].body.replicas
       /\ ClusterWrites(k, [obj[k] EXCEPT !.observed = TRUE, !.ready = r])
  /\ UNCHANGED faults

HasData(body) ==
  body.claimTemplate \/ body.template.dataVolume # "claimTemplate"

PodReady(k) ==
  /\ obj[k] # None /\ obj[k].observed
  /\ obj[k].ready < obj[k].body.replicas /\ HasData(obj[k].body)
  /\ ClusterWrites(k, [obj[k] EXCEPT !.ready = @ + 1])
  /\ UNCHANGED faults

PodFails(k) ==
  /\ obj[k] # None /\ obj[k].ready > 0
  /\ Fault
  /\ ClusterWrites(k, [obj[k] EXCEPT !.ready = @ - 1])

(***************************************************************************)
(* The horizontal autoscaler resizes the target BuildHPA names, the        *)
(* StatefulSet with the TlnDB's own name, whatever the mode and whether or *)
(* not the spec still asks for an HPA.                                     *)
(***************************************************************************)
HPATarget == "StatefulSet"

Autoscale ==
  LET target == obj[HPATarget] IN
  /\ obj["HorizontalPodAutoscaler"] # None /\ target # None
  /\ \E n \in ScaleTo \ {target.body.replicas} :
       ClusterWrites(HPATarget, [target EXCEPT !.body.replicas = n,
                                               !.observed = FALSE])
  /\ Fault

Orphan(k) == obj[k] # None /\ (cr # None => obj[k].owner # cr.uid)

CollectGarbage(k) ==
  /\ Orphan(k)
  /\ ClusterWrites(k, None)
  /\ UNCHANGED faults

DeleteChild(k) ==
  /\ obj[k] # None
  /\ Fault
  /\ ClusterWrites(k, None)

(***************************************************************************)
(* The clock never stops.  Only whether a second has passed since an       *)
(* earlier stamp matters, so the seconds repeat.                           *)
(***************************************************************************)
Tick ==
  /\ now' = IF now < Seconds THEN now + 1 ELSE 1
  /\ UNCHANGED <<server, crCache, childCache, cext, queue, pc, locals, uids,
                 edits, faults>>

Cluster ==
  \/ SyncCR \/ SyncExt \/ TimerFires
  \/ \E k \in Watched : SyncChild(k)
  \/ \E k \in StatefulSets : StsObserve(k) \/ PodReady(k) \/ PodFails(k)
  \/ \E k \in Child : CollectGarbage(k) \/ DeleteChild(k)
  \/ Autoscale \/ Tick

Users == UserCreate \/ UserEdit \/ UserDelete \/ ExtEdit

Next == Operator \/ Restart \/ Cluster \/ Users

Spec == Init /\ [][Next]_vars

(***************************************************************************)
(* The worker takes the next key and runs the call to its end, watches and *)
(* timers deliver, and Kubernetes does its part.  Nobody has to edit       *)
(* anything and nothing has to fail.                                       *)
(***************************************************************************)
Fairness ==
  /\ WF_vars(Operator)
  /\ WF_vars(SyncCR) /\ WF_vars(SyncExt) /\ WF_vars(TimerFires)
  /\ WF_vars(\E k \in Watched : SyncChild(k))
  /\ WF_vars(\E k \in StatefulSets : StsObserve(k) \/ PodReady(k))
  /\ WF_vars(\E k \in Child : CollectGarbage(k))

FairSpec == Spec /\ Fairness
=============================================================================
