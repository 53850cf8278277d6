----------------------- MODULE TlnDBQuiescenceProofs ------------------------
(***************************************************************************)
(* When the operator of TlnDBController rests, children and status are     *)
(* those of the stored spec, for every set of specs, every lag and every   *)
(* bound: QuiescentChildren and QuiescentStatus.                           *)
(*                                                                         *)
(* A call may read anything and write anything; what saves it is that a    *)
(* disturbance leaves something Waiting, and whatever waits leads to       *)
(* another call.  So only calls that end with nothing waiting have to be   *)
(* right, and through those nothing has changed: neither the TlnDB nor a   *)
(* watched child, not even by their own writes.                            *)
(***************************************************************************)
EXTENDS TlnDBProofs

(***************************************************************************)
(* Something will start another call.                                      *)
(***************************************************************************)
Waiting == queued \/ timer \/ ~ crFresh \/ \E k \in Watched : ~ fresh[k]

(***************************************************************************)
(* The steps of reconcileResources that the running call has behind it.    *)
(***************************************************************************)
BehindAt(step, spec) ==
  CASE step = "SetProvisioning" -> {}
    [] step = "SyncStatus" -> {s \in Steps : Taken(s, spec)}
    [] OTHER -> Before(ConditionOf(step), spec)

Behind == BehindAt(pc, inst.spec)

(***************************************************************************)
(* The steps a call without an error goes through.  All others end in a    *)
(* retry or with the TlnDB gone.                                           *)
(***************************************************************************)
Working == Steps \cup {"SetProvisioning", "ServiceMonitorMissing", "SyncStatus"}

-----------------------------------------------------------------------------
(***************************************************************************)
(* What a step of reconcileResources is there for.                         *)
(***************************************************************************)
Fulfilled(s) ==
  /\ s \in Watched => obj[s] # None /\ Reflects(s)
  /\ s = "PruneFollower" => obj["FollowerStatefulSet"] = None

HashRight ==
  Behind \cap {"ConfigMap", "ExternalConfigMap"} # {} =>
    \E content \in Contents : hash = HashStringData(content)

ManagedRight ==
  managed \subseteq Behind /\ Behind \cap Watched \subseteq managed

(***************************************************************************)
(* The copy the call works on agrees with the stored TlnDB in everything   *)
(* but the conditions, whose patches may fail, and the time stamp.         *)
(***************************************************************************)
SameRecord(a, b) ==
  /\ a.phase = b.phase /\ a.observedGeneration = b.observedGeneration
  /\ a.readyReplicas = b.readyReplicas /\ a.currentImage = b.currentImage
  /\ a.managedResources = b.managedResources

Agrees ==
  /\ inst.uid = cr.uid /\ inst.generation = cr.generation /\ inst.spec = cr.spec
  /\ SameRecord(inst.status, cr.status)

(***************************************************************************)
(* What PersistStatus records.                                             *)
(***************************************************************************)
Recorded ==
  /\ cr.status.observedGeneration = cr.generation
  /\ cr.status.currentImage = cr.spec.image
  /\ cr.status.managedResources \cap Watched = Wanted(cr.spec) \cap Watched

(***************************************************************************)
(* And what SyncStatus records.                                            *)
(***************************************************************************)
Running ==
  LET primary == obj[primaryStatefulSet(cr.spec)] IN
  /\ cr.status.phase = "Running"
  /\ cr.status.readyReplicas = primary.ready
  /\ primary.ready >= desiredReplicas(cr.spec)

CallRight ==
  /\ Agrees /\ Live(cr)
  /\ pc \in Steps => Taken(pc, inst.spec)
  /\ \A s \in Behind : Fulfilled(s)
  /\ HashRight /\ ManagedRight
  /\ pc = "SyncStatus" => Recorded

RestRight ==
  /\ Live(cr) /\ Recorded /\ Running
  /\ \A s \in Steps : Taken(s, cr.spec) => Fulfilled(s)

(***************************************************************************)
(* The inductive invariant: while nothing waits, the running call is       *)
(* right, and so is what the last one left.                                *)
(***************************************************************************)
Right == (pc \in Working => CallRight) /\ (pc = "idle" => RestRight)

Undisturbed == cr # None /\ ~ Waiting => Right

\* A terminating TlnDB holds the finalizer.
Held == cr # None /\ cr.deleting => cr.finalizer

\* A call starts with nothing managed.
StartsEmpty == pc = "idle" => managed = {}

\* The external ConfigMap and its cached copy.
Sources == ext \in ExtVersions \cup {None} /\ cext \in ExtVersions \cup {None}

QInv == CopyInv /\ Held /\ StartsEmpty /\ Sources /\ Undisturbed

-----------------------------------------------------------------------------
\* The step under its own name, or the one it stands for.
LEMMA BehindIs ==
  ASSUME NEW spec
  PROVE  /\ \A s \in Steps : BehindAt(s, spec) = Before(s, spec)
         /\ BehindAt("ServiceMonitorMissing", spec) = Before("ServiceMonitorReady", spec)
         /\ BehindAt("SetProvisioning", spec) = {}
         /\ BehindAt("SyncStatus", spec) = {s \in Steps : Taken(s, spec)}
<1>1. ASSUME NEW s \in Steps PROVE BehindAt(s, spec) = Before(s, spec)
  <2>1. s \notin {"SetProvisioning", "SyncStatus", "ConfigMapMissing",
                  "ServiceMonitorMissing"}
    BY StepNames DEF Child, Services, StatefulSets, Optional
  <2>2. QED
    BY <2>1 DEF BehindAt, ConditionOf
<1>2. QED
  BY <1>1 DEF BehindAt, ConditionOf

(***************************************************************************)
(* A write after which nothing waits has changed nothing.                  *)
(***************************************************************************)
LEMMA StoreCRSilent ==
  ASSUME CopyInv, NEW new, StoreCR(new), ~ queued', crFresh'
  PROVE  new = cr /\ cr' = cr /\ ~ queued /\ crFresh
BY DEF StoreCR, CopyInv, TypeOK, TlnDBTypes, OtherTypes

\* The same for a watched child.
LEMMA StoreSilent ==
  ASSUME CopyInv, NEW k \in Watched, NEW new, Store(k, new), ~ queued',
         \A c \in Watched : fresh'[c]
  PROVE  new = obj[k] /\ obj' = obj /\ ~ queued /\ \A c \in Watched : fresh[c]
<1>1. k \in Child /\ fresh \in [Watched -> BOOLEAN]
  BY DEF Watched, CopyInv, TypeOK, ChildTypes
<1>2. new = obj[k] /\ ~ queued /\ \A c \in Watched : fresh[c]
  <2>1. CASE k \in Lagging
    BY <1>1, <2>1 DEF Store
  <2>2. CASE k \notin Lagging
    BY <1>1, <2>2 DEF Store
  <2>3. QED
    BY <2>1, <2>2
<1>3. obj' = obj
  BY <1>1, <1>2 DEF Store, CopyInv, TypeOK, ChildTypes
<1>4. QED
  BY <1>2, <1>3

\* A ServiceMonitor has no cached copy and queues nothing.
LEMMA StoreMonitor ==
  ASSUME CopyInv, NEW new, Store("ServiceMonitor", new)
  PROVE  /\ queued' = queued /\ fresh' = fresh
         /\ obj'["ServiceMonitor"] = new
         /\ \A k \in Watched : obj'[k] = obj[k]
<1>1. "ServiceMonitor" \notin Lagging /\ "ServiceMonitor" \notin Watched
  BY BoundAssumption DEF Watched
<1>2. "ServiceMonitor" \in Child /\ Watched \subseteq Child
  BY DEF Child, Optional, Watched
<1>3. QED
  BY <1>1, <1>2 DEF Store, CopyInv, TypeOK, ChildTypes, OtherTypes

(***************************************************************************)
(* A patch after which nothing waits was accepted with what the server     *)
(* already had, or not applied.                                            *)
(***************************************************************************)
LEMMA PatchSilent ==
  ASSUME CopyInv, inst \in TlnDB, NEW new \in TlnDBStatus, NEW reply,
         PatchStatus(new, reply), ~ queued', crFresh'
  PROVE  /\ cr' = cr /\ ~ queued /\ crFresh
         /\ reply = "ok" /\ Agrees => SameRecord(new, cr.status)
<1>1. /\ cr' = cr /\ ~ queued /\ crFresh
      /\ reply = "ok" => cr # None /\ Patched(new) = cr
  <2>1. CASE cr # None /\ StoreCR(Patched(new))
    BY <2>1, StoreCRSilent
  <2>2. CASE UNCHANGED crSide /\ reply = "error"
    BY <2>2 DEF crSide, crCache
  <2>3. QED
    BY <2>1, <2>2 DEF PatchStatus
<1>2. ASSUME reply = "ok", Agrees PROVE SameRecord(new, cr.status)
  <2>1. cr \in TlnDB /\ Patched(new) = cr
    BY <1>1, <1>2 DEF CopyInv, TypeOK, TlnDBTypes
  <2>2. cr.status = MergePatch(cr.status, inst.status, new)
    BY <2>1 DEF Patched, TlnDB
  <2>3. SameRecord(inst.status, cr.status)
    BY <1>2 DEF Agrees
  <2> DEFINE m == MergePatch(cr.status, inst.status, new)
  <2>4. /\ m.phase = Changed(inst.status.phase, new.phase, cr.status.phase)
        /\ m.observedGeneration =
             Changed(inst.status.observedGeneration, new.observedGeneration,
                     cr.status.observedGeneration)
        /\ m.readyReplicas =
             Changed(inst.status.readyReplicas, new.readyReplicas,
                     cr.status.readyReplicas)
        /\ m.currentImage =
             Changed(inst.status.currentImage, new.currentImage,
                     cr.status.currentImage)
        /\ m.managedResources =
             Changed(inst.status.managedResources, new.managedResources,
                     cr.status.managedResources)
    BY DEF MergePatch
  <2>5. m = cr.status
    BY <2>2
  <2> HIDE DEF m
  <2>6. QED
    BY <2>3, <2>4, <2>5 DEF SameRecord, Changed
<1>3. QED
  BY <1>1, <1>2

\* What the call holds after such a patch still agrees with the server.
LEMMA KeepAgrees ==
  ASSUME Agrees, inst \in TlnDB, cr \in TlnDB, cr' = cr, NEW new \in TlnDBStatus,
         NEW reply, KeepInstance(new, reply),
         reply = "ok" => SameRecord(new, cr.status),
         reply # "ok" => SameRecord(new, inst.status)
  PROVE  Agrees'
<1> DEFINE local == [inst EXCEPT !.status = new]
           d == DecodeInto(local, cr)
<1>1. /\ local.uid = inst.uid /\ local.generation = inst.generation
      /\ local.spec = inst.spec /\ local.status = new
  BY DEF TlnDB
<1>2. CASE reply # "ok"
  <2>1. inst' = local
    BY <1>2 DEF KeepInstance
  <2>2. QED
    BY <1>1, <1>2, <2>1 DEF Agrees, SameRecord
<1>3. CASE reply = "ok"
  <2>1. inst' = d
    BY <1>3 DEF KeepInstance
  <2>2. d.uid = cr.uid /\ d.generation = cr.generation
    BY DEF DecodeInto
  <2>3. d.spec = cr.spec
    <3>1. /\ cr.spec \in TlnDBSpec /\ local.spec = cr.spec
      BY <1>1 DEF Agrees, TlnDB
    <3>2. d.spec = [cr.spec EXCEPT !.configFrom = @ \/ cr.spec.configFrom,
                      !.serviceAccountName = @ \/ cr.spec.serviceAccountName]
      BY <3>1 DEF DecodeInto
    <3>3. /\ cr.spec.configFrom \in BOOLEAN /\ cr.spec.serviceAccountName \in BOOLEAN
          /\ cr.spec = [cr.spec EXCEPT
                          !.configFrom = cr.spec.configFrom,
                          !.serviceAccountName = cr.spec.serviceAccountName]
      BY <3>1 DEF TlnDBSpec
    <3> HIDE DEF d
    <3>4. QED
      BY <3>2, <3>3
  <2>4. /\ d.status.phase = Kept("", new.phase, cr.status.phase)
        /\ d.status.observedGeneration =
             Kept(0, new.observedGeneration, cr.status.observedGeneration)
        /\ d.status.readyReplicas = Kept(0, new.readyReplicas, cr.status.readyReplicas)
        /\ d.status.currentImage = Kept(None, new.currentImage, cr.status.currentImage)
        /\ d.status.managedResources =
             Kept({}, new.managedResources, cr.status.managedResources)
    BY <1>1 DEF DecodeInto
  <2> HIDE DEF d
  <2>5. SameRecord(d.status, cr.status)
    BY <1>3, <2>4 DEF SameRecord, Kept
  <2>6. QED
    BY <2>1, <2>2, <2>3, <2>5 DEF Agrees
<1>4. QED
  BY <1>2, <1>3

-----------------------------------------------------------------------------
(***************************************************************************)
(* What is right stays right while the TlnDB and the watched children stay *)
(* as they are.                                                            *)
(***************************************************************************)
LEMMA FulfilledStays ==
  ASSUME cr' = cr, \A k \in Watched : obj'[k] = obj[k], NEW s, Fulfilled(s)
  PROVE  Fulfilled(s)'
<1>1. "FollowerStatefulSet" \in Watched
  BY DEF Watched, Child, StatefulSets
<1>2. s = "PruneFollower" => obj'["FollowerStatefulSet"] = None
  BY <1>1 DEF Fulfilled
<1>3. s \in Watched => obj'[s] # None /\ Reflects(s)'
  <2> SUFFICES ASSUME s \in Watched PROVE obj'[s] # None /\ Reflects(s)'
    OBVIOUS
  <2>1. obj'[s] = obj[s] /\ obj[s] # None /\ Reflects(s)
    BY DEF Fulfilled
  <2>2. Contents' = Contents
    BY DEF Contents
  <2>3. QED
    BY <2>1, <2>2 DEF Reflects
<1>4. QED
  BY <1>2, <1>3 DEF Fulfilled

(***************************************************************************)
(* A step to the next place of the call: what it adds to the steps behind  *)
(* has to be fulfilled, and nothing else.                                  *)
(***************************************************************************)
LEMMA CallGoesOn ==
  ASSUME CallRight, Agrees', cr' = cr, \A k \in Watched : obj'[k] = obj[k],
         pc' \in Steps => Taken(pc', inst'.spec),
         NEW done, Behind' \subseteq Behind \cup {done}, Fulfilled(done)',
         HashRight', ManagedRight', pc' = "SyncStatus" => Recorded'
  PROVE  CallRight'
<1>1. \A s \in Behind : Fulfilled(s)'
  BY FulfilledStays DEF CallRight
<1>2. \A s \in Behind' : Fulfilled(s)'
  BY <1>1
<1>3. Live(cr)'
  BY DEF CallRight, Live
<1>4. QED
  BY <1>2, <1>3 DEF CallRight

-----------------------------------------------------------------------------
(***************************************************************************)
(* One lemma per action: what it leaves is right, if nothing waits.        *)
(*                                                                         *)
(* A call that starts works on the stored TlnDB, because its cached copy   *)
(* is current, and has nothing behind it.                                  *)
(***************************************************************************)
LEMMA ReconcileRight ==
  ASSUME QInv, Reconcile, cr' # None, ~ Waiting' PROVE Right'
<1>1. crFresh /\ UNCHANGED <<cr, ccr, obj, hash, managed>>
  BY DEF Reconcile, Waiting, server, crCache
<1>2. ccr = cr /\ cr # None /\ cr \in TlnDB
  BY <1>1 DEF QInv, CopyInv, CacheCurrent, TypeOK, TlnDBTypes
<1>3. cr.deleting => cr.finalizer
  BY <1>2 DEF QInv, Held
<1>4. managed' = {}
  BY <1>1 DEF Reconcile, QInv, StartsEmpty
<1>5. Entry(cr) \in {"SetTerminating", "AddFinalizer", "SetProvisioning"} \cup Steps
  BY <1>2, <1>3, FirstStepIsStep DEF Entry, TlnDB
<1>6. Entry(cr) # "idle"
  BY <1>5, StepKinds
<1>7. pc' = Entry(cr) /\ inst' = cr
  BY <1>2, <1>6 DEF Reconcile
<1>8. pc' # "idle"
  BY <1>6, <1>7
<1>9. ASSUME pc' \in Working PROVE CallRight'
  <2>1. pc' \notin {"SetTerminating", "AddFinalizer"}
    BY <1>9, StepNames DEF Working, Child, Services, StatefulSets, Optional
  <2>2. Live(cr)
    BY <1>2, <1>3, <1>7, <2>1 DEF Entry, Live, TlnDB
  <2>3. pc' = "SetProvisioning" \/ pc' = FirstStep(cr.spec)
    BY <1>2, <1>7, <2>2 DEF Entry, Live, TlnDB
  <2>4. Behind' = {}
    BY <1>7, <2>3, FirstStepBehind, BehindIs DEF Behind
  <2>5. pc' \in Steps => Taken(pc', inst'.spec)
    BY <1>7, <2>3, FirstStepBehind, StepNames DEF Child, Services, StatefulSets, Optional
  <2>6. Agrees' /\ Live(cr)'
    BY <1>1, <1>7, <2>2 DEF Agrees, SameRecord, Live
  <2>7. HashRight' /\ ManagedRight'
    BY <1>4, <2>4 DEF HashRight, ManagedRight
  <2>8. pc' # "SyncStatus"
    BY <2>3, FirstStepBehind, StepNames DEF Child, Services, StatefulSets, Optional
  <2>9. QED
    BY <2>4, <2>5, <2>6, <2>7, <2>8 DEF CallRight
<1>10. QED
  BY <1>8, <1>9 DEF Right

(***************************************************************************)
(* Steps that end the call with a retry, or with the TlnDB gone, or that   *)
(* bring a wait to its end by queueing.                                    *)
(***************************************************************************)
LEMMA WaitsAgain ==
  ASSUME QInv, AddFinalizer \/ SetFailed \/ Restart \/ SyncCR \/ TimerFires
                 \/ \E k \in Watched : SyncChild(k)
  PROVE  Waiting'
BY DEF AddFinalizer, SetFailed, Restart, SyncCR, TimerFires, SyncChild, Return, Waiting

\* reconcileDeletion.
LEMMA DeletionRight ==
  ASSUME QInv, SetTerminating \/ RemoveFinalizer, cr' # None, ~ Waiting'
  PROVE  Right'
<1>1. CASE SetTerminating
  <2>1. pc' = "RemoveFinalizer"
    BY <1>1 DEF SetTerminating, Return, Waiting
  <2>2. pc' \notin Working /\ pc' # "idle"
    BY <2>1, StepNames DEF Working, Child, Services, StatefulSets, Optional
  <2>3. QED
    BY <2>2 DEF Right
<1>2. CASE RemoveFinalizer
  BY <1>2 DEF RemoveFinalizer, Return, Waiting, StoreCR
<1>3. QED
  BY <1>1, <1>2

(***************************************************************************)
(* The steps that patch the status.                                        *)
(***************************************************************************)
LEMMA SetProvisioningRight ==
  ASSUME QInv, SetProvisioning, cr' # None, ~ Waiting' PROVE Right'
<1> USE DEF QInv
<1>1. inst \in TlnDB /\ now \in Nat
  BY CallHoldsInstance DEF SetProvisioning, CopyInv, TypeOK, OtherTypes
<1> DEFINE new == WithPhase("Provisioning")
<1>2. new \in TlnDBStatus
  BY <1>1, WithPhaseType DEF Phases
<1> HIDE DEF new
<1>3. /\ PatchStatus(new, "ok") /\ KeepInstance(new, "ok")
      /\ pc' = FirstStep(inst'.spec) /\ UNCHANGED <<hash, managed, timer>>
  BY DEF SetProvisioning, Return, Waiting, new
<1>4. UNCHANGED <<obj, childCache>>
  BY DEF SetProvisioning
<1>5. ~ queued' /\ crFresh'
  BY DEF Waiting
<1>6. /\ cr' = cr /\ ~ queued /\ crFresh
      /\ Agrees => SameRecord(new, cr.status)
  BY <1>1, <1>2, <1>3, <1>5, PatchSilent
<1>7. ~ Waiting
  BY <1>3, <1>4, <1>6 DEF Waiting, childCache
<1>8. pc \in Working /\ CallRight
  BY <1>6, <1>7 DEF Undisturbed, Right, SetProvisioning, Working
<1>9. Agrees'
  BY <1>1, <1>2, <1>3, <1>6, <1>8, KeepAgrees DEF CallRight, CopyInv, TypeOK, TlnDBTypes
<1>10. pc' \in Steps /\ Taken(pc', inst'.spec) /\ Behind' = {}
  BY <1>3, FirstStepBehind, BehindIs DEF Behind
<1>11. managed' = {}
  BY <1>3, <1>8, BehindIs DEF CallRight, ManagedRight, Behind, SetProvisioning
<1>12. HashRight' /\ ManagedRight'
  BY <1>10, <1>11 DEF HashRight, ManagedRight
<1>13. pc' # "SyncStatus" /\ pc' # "idle"
  BY <1>10, StepNames DEF Child, Services, StatefulSets, Optional
<1>14. Live(cr)'
  BY <1>6, <1>8 DEF CallRight, Live
<1>15. CallRight'
  BY <1>9, <1>10, <1>12, <1>13, <1>14 DEF CallRight
<1>16. QED
  BY <1>13, <1>15 DEF Right

\* setCondition: its patch may fail, but touches conditions only.
LEMMA SetConditionRight ==
  ASSUME QInv, SetCondition, cr' # None, ~ Waiting' PROVE Right'
<1> USE DEF QInv
<1>0. PICK c : c = ConditionOf(pc)
  OBVIOUS
<1> DEFINE v == IF pc = c THEN "True" ELSE "False"
           new == WithCondition(c, v)
<1>1. inst \in TlnDB
  BY StepKinds, CallHoldsInstance DEF SetCondition
<1>2. c \in ConditionTypes /\ v \in {"True", "False"} /\ c \in Steps \ {"PersistStatus"}
  BY <1>0, StepNames DEF SetCondition, ConditionSteps, ConditionOf, ConditionTypes
<1>3. new \in TlnDBStatus
  BY <1>1, <1>2, WithConditionType
<1>4. SameRecord(new, inst.status)
  BY <1>1 DEF WithCondition, SameRecord, TlnDB, TlnDBStatus
<1>5. PICK reply \in {"ok", "error"} : PatchStatus(new, reply) /\ KeepInstance(new, reply)
  BY <1>0 DEF SetCondition
<1>6. /\ pc \in ConditionSteps
      /\ pc' = IF pc = "ConfigMapMissing" THEN "SetFailed" ELSE NextStep(c, inst'.spec)
      /\ UNCHANGED <<obj, childCache, timer, hash, managed>>
  BY <1>0 DEF SetCondition
<1> HIDE DEF new, v
<1>7. CASE pc = "ConfigMapMissing"
  <2>1. pc' \notin Working /\ pc' # "idle"
    BY <1>6, <1>7, StepNames DEF Working, Child, Services, StatefulSets, Optional
  <2>2. QED
    BY <2>1 DEF Right
<1>8. CASE pc # "ConfigMapMissing"
  <2>1. ~ queued' /\ crFresh'
    BY DEF Waiting
  <2>2. /\ cr' = cr /\ ~ queued /\ crFresh
        /\ reply = "ok" /\ Agrees => SameRecord(new, cr.status)
    BY <1>1, <1>3, <1>5, <2>1, PatchSilent
  <2>3. ~ Waiting
    BY <1>6, <2>2 DEF Waiting, childCache
  <2>4. pc \in Working /\ CallRight
    <3>1. pc = c \/ pc = "ServiceMonitorMissing"
      BY <1>0, <1>6, <1>8 DEF ConditionOf, ConditionSteps
    <3>2. QED
      BY <1>2, <2>2, <2>3, <3>1 DEF Undisturbed, Right, Working
  <2>5. Agrees'
    BY <1>1, <1>3, <1>4, <1>5, <2>2, <2>4, KeepAgrees DEF CallRight, CopyInv, TypeOK, TlnDBTypes
  <2>6. inst'.spec = inst.spec
    BY <2>2, <2>4, <2>5 DEF CallRight, Agrees
  <2>7. pc' = NextStep(c, inst.spec)
    BY <1>6, <1>8, <2>6
  <2>8. /\ pc' \in Steps /\ Taken(pc', inst'.spec)
        /\ Before(c, inst.spec) \subseteq Behind'
        /\ Behind' \subseteq Before(c, inst.spec) \cup {c}
    <3>1. pc' \in Steps /\ Taken(pc', inst.spec)
      BY <1>2, <2>7, NextStepBehind
    <3>2. Behind' = Before(pc', inst.spec)
      BY <2>6, <3>1, BehindIs DEF Behind
    <3>3. QED
      BY <1>2, <2>6, <2>7, <3>1, <3>2, NextStepBehind
  <2>9. Behind = Before(c, inst.spec)
    BY <1>0, <1>2, <1>6, <1>8, BehindIs DEF Behind, ConditionOf, ConditionSteps
  <2>10. c \notin Watched /\ c \notin {"PruneFollower", "ConfigMap", "ExternalConfigMap"}
    BY <1>0, <1>6 DEF ConditionSteps, ConditionOf, Watched, Child, Services, StatefulSets,
                Optional
  <2>11. Fulfilled(c)'
    BY <2>10 DEF Fulfilled, Watched
  <2>12. HashRight'
    BY <1>6, <2>2, <2>4, <2>8, <2>9, <2>10 DEF CallRight, HashRight, Contents
  <2>13. ManagedRight'
    BY <1>6, <2>2, <2>4, <2>8, <2>9, <2>10 DEF CallRight, ManagedRight, Watched
  <2>14. pc' # "SyncStatus" /\ pc' # "idle"
    BY <2>8, StepNames DEF Child, Services, StatefulSets, Optional
  <2>15. CallRight'
    BY <1>6, <2>2, <2>4, <2>5, <2>8, <2>9, <2>11, <2>12, <2>13, <2>14, CallGoesOn
  <2>16. QED
    BY <2>14, <2>15 DEF Right
<1>9. QED
  BY <1>7, <1>8

\* The status patch that ends reconcileResources.
LEMMA PersistStatusRight ==
  ASSUME QInv, PersistStatus, cr' # None, ~ Waiting' PROVE Right'
<1> USE DEF QInv
<1> DEFINE new == [inst.status EXCEPT
                     !.managedResources = managed,
                     !.currentImage = inst.spec.image,
                     !.lastUpdateTime = now,
                     !.observedGeneration = inst.generation]
<1>1. inst \in TlnDB /\ managed \in SUBSET Child
  BY CallHoldsInstance DEF PersistStatus, CopyInv, TypeOK, CallTypes
<1>2. /\ inst.status \in TlnDBStatus /\ inst.generation \in Nat
      /\ inst.spec.image \in Images /\ now \in Nat
  BY <1>1 DEF TlnDB, TlnDBSpec, CopyInv, TypeOK, OtherTypes
<1>3. new \in TlnDBStatus
  BY <1>1, <1>2 DEF TlnDBStatus
<1>4. /\ new.managedResources = managed /\ new.currentImage = inst.spec.image
      /\ new.observedGeneration = inst.generation
  BY <1>2 DEF TlnDBStatus
<1>5. PICK reply \in {"ok", "error"} :
        /\ PatchStatus(new, reply) /\ KeepInstance(new, reply)
        /\ pc' = IF reply = "ok" THEN "SyncStatus" ELSE "SetFailed"
  BY DEF PersistStatus
<1>6. pc = "PersistStatus" /\ UNCHANGED <<obj, childCache, timer, hash, managed>>
  BY DEF PersistStatus
<1> HIDE DEF new
<1>7. CASE reply # "ok"
  <2>1. pc' \notin Working /\ pc' # "idle"
    BY <1>5, <1>7, StepNames DEF Working, Child, Services, StatefulSets, Optional
  <2>2. QED
    BY <2>1 DEF Right
<1>8. CASE reply = "ok"
  <2>1. ~ queued' /\ crFresh'
    BY DEF Waiting
  <2>2. /\ cr' = cr /\ ~ queued /\ crFresh
        /\ Agrees => SameRecord(new, cr.status)
    BY <1>1, <1>3, <1>5, <1>8, <2>1, PatchSilent
  <2>3. ~ Waiting
    BY <1>6, <2>2 DEF Waiting, childCache
  <2>4. pc \in Working /\ CallRight
    BY <1>6, <2>2, <2>3, StepNames DEF Undisturbed, Right, Working
  <2>5. Agrees'
    BY <1>1, <1>3, <1>5, <1>8, <2>2, <2>4, KeepAgrees DEF CallRight, CopyInv, TypeOK, TlnDBTypes
  <2>6. inst'.spec = inst.spec /\ inst.spec = cr.spec /\ inst.generation = cr.generation
    BY <2>2, <2>4, <2>5 DEF CallRight, Agrees
  <2>7. /\ Behind = Before("PersistStatus", inst.spec)
        /\ Behind' = Behind \cup {"PersistStatus"}
        /\ Behind' = {s \in Steps : Taken(s, inst.spec)}
    BY <1>5, <1>6, <1>8, <2>6, StepNames, LastBehind, BehindIs DEF Behind
  <2>8. "PersistStatus" \notin Child
    BY DEF Child, Services, StatefulSets, Optional
  <2>9. Fulfilled("PersistStatus")'
    BY <2>8 DEF Fulfilled, Watched
  <2>10. HashRight'
    BY <1>6, <2>2, <2>4, <2>7 DEF CallRight, HashRight, Contents
  <2>11. ManagedRight'
    BY <1>6, <2>2, <2>4, <2>7, <2>8 DEF CallRight, ManagedRight, Watched
  <2>12. /\ cr.status.managedResources = managed /\ cr.status.currentImage = cr.spec.image
         /\ cr.status.observedGeneration = cr.generation
    BY <1>4, <2>2, <2>4, <2>6 DEF SameRecord, CallRight
  <2>13. managed \cap Watched = Wanted(cr.spec) \cap Watched
    <3>1. managed \subseteq Behind' /\ Behind' \cap Watched \subseteq managed
      BY <1>6, <2>11 DEF ManagedRight
    <3>2. Behind' \cap Watched = Wanted(cr.spec) \cap Watched
      BY <2>6, <2>7, StepNames DEF Wanted, Watched
    <3>3. QED
      BY <3>1, <3>2
  <2>14. Recorded'
    BY <2>2, <2>12, <2>13 DEF Recorded
  <2>15. pc' \notin Steps /\ pc' # "idle"
    BY <1>5, <1>8, StepNames DEF Child, Services, StatefulSets, Optional
  <2>16. CallRight'
    BY <1>6, <2>2, <2>4, <2>5, <2>7, <2>9, <2>10, <2>11, <2>14, <2>15, CallGoesOn
  <2>17. QED
    BY <2>15, <2>16 DEF Right
<1>9. QED
  BY <1>7, <1>8

\* syncStatus: a call that ends without a retry has found all pods ready.
LEMMA SyncStatusRight ==
  ASSUME QInv, SyncStatus, cr' # None, ~ Waiting' PROVE Right'
<1> USE DEF QInv
<1> DEFINE k == primaryStatefulSet(inst.spec)
           sts == cobj[k]
           phase == PhaseOf(sts, inst.spec)
           v == IF phase = "Running" THEN "True" ELSE "False"
           new == [WithCondition("StatefulSetReady", v)
                     EXCEPT !.readyReplicas = sts.ready, !.phase = phase]
<1>1. inst \in TlnDB /\ k \in Watched /\ k \in StatefulSets
  BY CallHoldsInstance DEF SyncStatus, primaryStatefulSet, Watched, Child, StatefulSets
<1>2. /\ sts # None /\ PatchStatus(new, "ok") /\ phase = "Running"
      /\ pc' = "idle" /\ timer' = timer /\ UNCHANGED <<obj, childCache>>
  <2>1. sts # None
    BY DEF SyncStatus, Return, Waiting
  <2>2. PICK reply \in {"ok", "error"} :
          PatchStatus(new, reply) /\ Return(reply = "error" \/ phase # "Running")
    BY <2>1 DEF SyncStatus
  <2> HIDE DEF new, phase
  <2>3. ~ timer' /\ timer \in BOOLEAN
    BY DEF Waiting, CopyInv, TypeOK, OtherTypes
  <2>4. reply = "ok" /\ phase = "Running" /\ timer' = timer /\ pc' = "idle"
    BY <2>2, <2>3 DEF Return
  <2>5. QED
    BY <2>1, <2>2, <2>4 DEF SyncStatus
<1>3. sts.ready \in Nat /\ sts.observed \in BOOLEAN
  BY <1>1, <1>2 DEF CopyInv, TypeOK, ChildTypes, ObjectOf
<1>4. sts.ready >= desiredReplicas(inst.spec)
  <2>1. desiredReplicas(inst.spec) \in Nat
    BY <1>1 DEF desiredReplicas, TlnDB, TlnDBSpec
  <2>2. QED
    BY <1>2, <1>3, <2>1 DEF PhaseOf
<1>5. WithCondition("StatefulSetReady", v) \in TlnDBStatus
  BY <1>1, WithConditionType DEF ConditionTypes
<1>6. new \in TlnDBStatus /\ new.readyReplicas = sts.ready /\ new.phase = phase
  BY <1>2, <1>3, <1>5 DEF TlnDBStatus, Phases
<1> HIDE DEF new, v, phase
<1>7. ~ queued' /\ crFresh'
  BY DEF Waiting
<1>8. /\ cr' = cr /\ ~ queued /\ crFresh
      /\ Agrees => SameRecord(new, cr.status)
  BY <1>1, <1>2, <1>6, <1>7, PatchSilent
<1>9. ~ Waiting
  BY <1>2, <1>8 DEF Waiting, childCache
<1>10. pc = "SyncStatus" /\ CallRight
  BY <1>8, <1>9 DEF Undisturbed, Right, Working, SyncStatus
<1>11. /\ inst.spec = cr.spec /\ Recorded /\ Live(cr)
       /\ \A s \in Steps : Taken(s, cr.spec) => Fulfilled(s)
  BY <1>10, BehindIs DEF CallRight, Agrees, Behind
<1>12. obj[k] = sts
  BY <1>1, <1>9 DEF Waiting, CopyInv, ChildCurrent
<1>13. Running
  BY <1>2, <1>4, <1>6, <1>8, <1>10, <1>11, <1>12 DEF Running, SameRecord, CallRight
<1>14. RestRight'
  <2>1. Live(cr)' /\ Recorded' /\ Running'
    BY <1>2, <1>8, <1>11, <1>13 DEF Live, Recorded, Running
  <2>2. \A s \in Steps : Fulfilled(s) => Fulfilled(s)'
    BY <1>2, <1>8, FulfilledStays
  <2>3. QED
    BY <1>8, <1>11, <2>1, <2>2 DEF RestRight
<1>15. pc' \notin Working
  BY <1>2, StepKinds DEF Working
<1>16. QED
  BY <1>14, <1>15 DEF Right

(***************************************************************************)
(* A helper that found nothing to send, or sent what was stored already,   *)
(* leaves a child that reflects the spec.                                  *)
(***************************************************************************)
LEMMA HelperReflects ==
  ASSUME QInv, NEW k \in Watched, pc = k, CallRight, cr \in TlnDB, obj[k] # None,
         \/ ~ NeedsUpdate(k, obj[k].body, Desired(k))
         \/ UpdatedObject(k, obj[k], Desired(k), inst.uid) = obj[k]
  PROVE  Reflects(k)
<1> USE DEF QInv
<1>1. /\ k \in Child /\ k \in Steps /\ inst.spec = cr.spec /\ cr.spec \in TlnDBSpec
      /\ obj[k] \in ObjectOf(k) /\ k # "ServiceMonitor"
  BY StepNames DEF Watched, CallRight, Agrees, CopyInv, TypeOK, ChildTypes, TlnDB
<1>2. Desired(k) = Build(k, cr.spec, hash)
  BY <1>1 DEF Desired
<1>3. hash \in Hashes \cup {None}
  BY DEF CopyInv, TypeOK, CallTypes
<1>4. Desired(k) \in BodyOf(k)
  BY <1>1, <1>2, <1>3, BuildType
<1>5. CASE k \in StatefulSets
  <2>1. Desired(k) \in StatefulSetBody /\ obj[k].body \in StatefulSetBody
    BY <1>1, <1>4, <1>5, StatefulSetBodies DEF ObjectOf
  <2>2. /\ obj[k].body.replicas = Desired(k).replicas
        /\ obj[k].body.image = Desired(k).image
        /\ obj[k].body.hash = Desired(k).hash
    <3>1. CASE ~ NeedsUpdate(k, obj[k].body, Desired(k))
      BY <1>5, <3>1 DEF NeedsUpdate, statefulSetNeedsUpdate
    <3>2. CASE UpdatedObject(k, obj[k], Desired(k), inst.uid) = obj[k]
      <4>1. obj[k].body = UpdatedBody(k, obj[k].body, Desired(k))
        BY <1>1, <3>2 DEF UpdatedObject, ObjectOf
      <4>2. UpdatedBody(k, obj[k].body, Desired(k)) =
              [Desired(k) EXCEPT !.claimTemplate = obj[k].body.claimTemplate]
        BY <1>5 DEF UpdatedBody
      <4>3. QED
        BY <2>1, <4>1, <4>2 DEF StatefulSetBody
    <3>3. QED
      BY <3>1, <3>2
  <2>3. \E content \in Contents : hash = HashStringData(content)
    <3>1. Behind = Before(k, inst.spec)
      BY <1>1, BehindIs DEF Behind
    <3>2. QED
      BY <1>1, <1>5, <3>1, HashBehind DEF CallRight, HashRight
  <2>4. QED
    BY <1>1, <1>2, <1>5, <2>2, <2>3, BuildHash DEF Reflects
<1>6. CASE k \notin StatefulSets
  <2>1. obj[k].body = Desired(k)
    <3>1. CASE ~ NeedsUpdate(k, obj[k].body, Desired(k))
      BY <1>6, <3>1 DEF NeedsUpdate
    <3>2. CASE UpdatedObject(k, obj[k], Desired(k), inst.uid) = obj[k]
      BY <1>1, <1>6, <3>2 DEF UpdatedObject, UpdatedBody, ObjectOf
    <3>3. QED
      BY <3>1, <3>2
  <2>2. QED
    BY <1>1, <1>2, <1>6, <2>1, BuildHash DEF Reflects
<1>7. QED
  BY <1>5, <1>6

\* Where the call stands after a helper, or after another plain step.
LEMMA PlainStep ==
  ASSUME Agrees, NEW step \in Steps \ {"PersistStatus"}, pc = step,
         pc' = NextStep(step, inst.spec), inst' = inst
  PROVE  /\ pc' \in Steps /\ Taken(pc', inst'.spec) /\ pc' # "idle" /\ pc' # "SyncStatus"
         /\ step \notin Behind
         /\ Behind \subseteq Behind' /\ Behind' \subseteq Behind \cup {step}
         /\ Taken(step, inst.spec) => step \in Behind'
<1>1. pc' \in Steps /\ Taken(pc', inst.spec)
  BY NextStepBehind
<1>2. Behind' = Before(pc', inst.spec) /\ Behind = Before(step, inst.spec)
  BY <1>1, BehindIs DEF Behind
<1>3. step \notin Before(step, inst.spec)
  BY PositionInverse DEF Before
<1>4. pc' # "idle" /\ pc' # "SyncStatus"
  BY <1>1, StepNames DEF Child, Services, StatefulSets, Optional
<1>5. QED
  BY <1>1, <1>2, <1>3, <1>4, NextStepBehind

\* The helper of a watched child.
LEMMA WatchedChildRight ==
  ASSUME QInv, NEW k \in Watched, CreateOrUpdate(k), cr' # None, ~ Waiting'
  PROVE  Right'
<1> USE DEF QInv
<1>1. /\ pc = k /\ k \in Child /\ k \in Steps \ {"PersistStatus"}
      /\ k # "ServiceMonitor" /\ k # "ExternalConfigMap" /\ k # "PruneFollower"
  BY StepNames DEF CreateOrUpdate, Watched, Child, Services, StatefulSets, Optional
<1>2. inst \in TlnDB
  BY <1>1, StepKinds, CallHoldsInstance
<1>3. UNCHANGED <<cr, crFresh, timer, inst>>
  BY DEF CreateOrUpdate, crCache
<1>4. PICK reply \in {"ok", "error"} :
        /\ Apply(k, reply)
        /\ IF reply = "ok"
             THEN /\ pc' = NextStep(k, inst.spec)
                  /\ managed' = managed \cup {k}
                  /\ hash' = IF k = "ConfigMap"
                               THEN HashStringData(Desired(k)) ELSE hash
             ELSE /\ pc' = IF k = "ServiceMonitor"
                             THEN "ServiceMonitorMissing" ELSE "SetFailed"
                  /\ UNCHANGED <<managed, hash>>
  BY DEF CreateOrUpdate
<1>5. CASE reply # "ok"
  <2>1. pc' \notin Working /\ pc' # "idle"
    BY <1>1, <1>4, <1>5, StepNames DEF Working, Child, Services, StatefulSets, Optional
  <2>2. QED
    BY <2>1 DEF Right
<1>6. CASE reply = "ok"
  <2>1. ~ queued' /\ \A c \in Watched : fresh'[c]
    BY DEF Waiting
  <2>2. /\ obj' = obj /\ ~ queued /\ \A c \in Watched : fresh[c]
        /\ Store(k, Written(k)) => Written(k) = obj[k]
    <3>1. CASE UNCHANGED childSide
      <4>1. Store(k, Written(k)) => Written(k) = obj[k]
        BY <1>1, <2>1, StoreSilent
      <4>2. QED
        BY <2>1, <3>1, <4>1 DEF childSide, childCache
    <3>2. CASE Store(k, Written(k))
      BY <1>1, <2>1, <3>2, StoreSilent
    <3>3. QED
      BY <1>4, <3>1, <3>2 DEF Apply
  <2>3. ~ Waiting
    BY <1>3, <2>2 DEF Waiting
  <2>4. CallRight
    BY <1>1, <1>3, <2>3 DEF Undisturbed, Right, Working
  <2>5. cr \in TlnDB /\ Existing(k) = obj[k]
    <3>1. cr \in TlnDB
      BY <1>3 DEF CopyInv, TypeOK, TlnDBTypes
    <3>2. QED
      BY <1>1, <2>2, <3>1 DEF Existing, CopyInv, ChildCurrent
  <2>6. obj[k] # None /\ Reflects(k)
    <3>1. CASE ~ Sent(k)
      BY <1>1, <2>4, <2>5, <3>1, HelperReflects DEF Sent
    <3>2. CASE Sent(k) /\ Accepted(k) /\ Store(k, Written(k))
      <4>1. Written(k) = obj[k] /\ Written(k) \in ObjectOf(k)
        BY <1>1, <1>2, <2>2, <3>2, WrittenType
      <4>2. obj[k] # None
        BY <1>1, <4>1, AbsenceAssumption
      <4>3. UpdatedObject(k, obj[k], Desired(k), inst.uid) = obj[k]
        BY <2>5, <4>1, <4>2 DEF Written
      <4>4. QED
        BY <1>1, <2>4, <2>5, <4>2, <4>3, HelperReflects
    <3>3. CASE Sent(k) /\ ~ Accepted(k) /\ Swallowed(k)
      BY <1>1, <2>2, <3>3 DEF Accepted, Swallowed
    <3>4. QED
      BY <1>4, <1>6, <3>1, <3>2, <3>3 DEF Apply
  <2>7. Fulfilled(k)
    BY <1>1, <2>6 DEF Fulfilled
  <2>8. Fulfilled(k)'
    BY <1>3, <2>2, <2>7, FulfilledStays
  <2>9. Taken(k, inst.spec) /\ Agrees /\ inst.spec = cr.spec
    BY <1>1, <2>4 DEF CallRight, Agrees
  <2>10. /\ pc' \in Steps /\ Taken(pc', inst'.spec) /\ pc' # "idle" /\ pc' # "SyncStatus"
         /\ Behind \subseteq Behind' /\ Behind' \subseteq Behind \cup {k} /\ k \in Behind'
    BY <1>1, <1>3, <1>4, <1>6, <2>9, PlainStep
  <2>11. Agrees'
    BY <1>3, <2>9 DEF Agrees
  <2>12. HashRight'
    <3>1. Contents' = Contents
      BY <1>3 DEF Contents
    <3>2. CASE k = "ConfigMap"
      <4>1. ~ cr.spec.configFrom
        BY <2>9, <3>2, TakenConfig
      <4>2. Contents = {cr.spec.config}
        BY <4>1 DEF Contents
      <4>3. Desired(k) = cr.spec.config
        BY <2>9, <3>2 DEF Desired, Build, BuildConfigMap
      <4>4. hash' = HashStringData(cr.spec.config)
        BY <1>4, <1>6, <3>2, <4>3
      <4>5. QED
        BY <3>1, <4>2, <4>4 DEF HashRight, HashStringData
    <3>3. CASE k # "ConfigMap"
      <4>1. hash' = hash
        BY <1>4, <1>6, <3>3
      <4>2. Behind' \cap {"ConfigMap", "ExternalConfigMap"} # {} =>
              Behind \cap {"ConfigMap", "ExternalConfigMap"} # {}
        BY <1>1, <2>10, <3>3
      <4>3. QED
        BY <2>4, <3>1, <4>1, <4>2 DEF HashRight, CallRight, HashStringData
    <3>4. QED
      BY <3>2, <3>3
  <2>13. ManagedRight'
    <3>1. managed' = managed \cup {k}
      BY <1>4, <1>6
    <3>2. Watched' = Watched
      BY DEF Watched
    <3>3. QED
      BY <1>1, <2>4, <2>10, <3>1, <3>2 DEF CallRight, ManagedRight
  <2>14. CallRight'
    BY <1>3, <2>2, <2>4, <2>8, <2>10, <2>11, <2>12, <2>13, CallGoesOn
  <2>15. QED
    BY <2>10, <2>14 DEF Right
<1>7. QED
  BY <1>5, <1>6

\* The helper of the ServiceMonitor: managed or missing.
LEMMA MonitorChildRight ==
  ASSUME QInv, CreateOrUpdate("ServiceMonitor"), cr' # None, ~ Waiting'
  PROVE  Right'
<1> USE DEF QInv
<1> DEFINE k == "ServiceMonitor"
<1>1. /\ pc = k /\ k \in Child /\ k \in Steps \ {"PersistStatus"} /\ k \notin Watched
      /\ k \notin StatefulSets
  BY StepNames DEF CreateOrUpdate, Watched, Child, Services, StatefulSets, Optional
<1>2. inst \in TlnDB
  BY <1>1, StepKinds, CallHoldsInstance
<1>3. UNCHANGED <<cr, crFresh, timer, inst>>
  BY DEF CreateOrUpdate, crCache
<1>4. PICK reply \in {"ok", "error"} :
        /\ Apply(k, reply)
        /\ IF reply = "ok"
             THEN /\ pc' = NextStep(k, inst.spec)
                  /\ managed' = managed \cup {k}
                  /\ hash' = hash
             ELSE /\ pc' = "ServiceMonitorMissing"
                  /\ UNCHANGED <<managed, hash>>
  BY DEF CreateOrUpdate
<1>5. /\ queued' = queued /\ fresh' = fresh /\ \A c \in Watched : obj'[c] = obj[c]
      /\ Store(k, Written(k)) => obj'[k] = Written(k)
  <2>1. CASE UNCHANGED childSide
    BY <2>1, StoreMonitor DEF childSide, childCache
  <2>2. CASE Store(k, Written(k))
    BY <2>2, StoreMonitor
  <2>3. QED
    BY <1>4, <2>1, <2>2 DEF Apply
<1>6. ~ Waiting
  BY <1>3, <1>5 DEF Waiting
<1>7. CallRight
  BY <1>1, <1>3, <1>6 DEF Undisturbed, Right, Working
<1>8. Taken(k, inst.spec) /\ Agrees /\ inst.spec = cr.spec /\ inst.uid = cr.uid /\ Agrees'
  BY <1>1, <1>3, <1>7 DEF CallRight, Agrees
<1>9. Behind = Before(k, inst.spec) /\ k \notin Behind
  <2>1. Behind = Before(k, inst.spec)
    BY <1>1, BehindIs DEF Behind
  <2>2. k \notin Before(k, inst.spec)
    BY <1>1, PositionInverse DEF Before
  <2>3. QED
    BY <2>1, <2>2
<1>10. k \notin managed
  BY <1>7, <1>9 DEF CallRight, ManagedRight
<1>11. Fulfilled(k)'
  BY <1>1 DEF Fulfilled, Watched
<1>12. Contents' = Contents /\ hash' = hash /\ Watched' = Watched
  BY <1>3, <1>4 DEF Contents, Watched
<1>13. CASE reply # "ok"
  <2>1. pc' = "ServiceMonitorMissing"
    BY <1>4, <1>13
  <2>2. Behind' = Behind \cup {k}
    BY <1>3, <1>8, <1>9, <2>1, BehindIs, MonitorBehind DEF Behind
  <2>3. HashRight'
    BY <1>7, <1>12, <2>2 DEF HashRight, CallRight, HashStringData
  <2>4. ManagedRight'
    BY <1>1, <1>4, <1>7, <1>10, <1>12, <1>13, <2>2 DEF ManagedRight, CallRight
  <2>5. pc' \notin Steps /\ pc' # "SyncStatus" /\ pc' # "idle"
    BY <2>1, StepNames DEF Child, Services, StatefulSets, Optional
  <2>6. CallRight'
    BY <1>3, <1>5, <1>7, <1>8, <1>11, <2>2, <2>3, <2>4, <2>5, CallGoesOn
  <2>7. QED
    BY <2>5, <2>6 DEF Right
<1>14. CASE reply = "ok"
  <2>1. /\ pc' \in Steps /\ Taken(pc', inst'.spec) /\ pc' # "idle" /\ pc' # "SyncStatus"
        /\ Behind \subseteq Behind' /\ Behind' \subseteq Behind \cup {k} /\ k \in Behind'
    BY <1>1, <1>3, <1>4, <1>8, <1>14, PlainStep
  <2>2. HashRight'
    BY <1>7, <1>12, <2>1 DEF HashRight, CallRight, HashStringData
  <2>3. ManagedRight'
    BY <1>1, <1>4, <1>7, <1>12, <1>14, <2>1 DEF ManagedRight, CallRight
  <2>4. CallRight'
    BY <1>3, <1>5, <1>7, <1>8, <1>11, <2>1, <2>2, <2>3, CallGoesOn
  <2>5. QED
    BY <2>1, <2>4 DEF Right
<1>15. QED
  BY <1>13, <1>14

\* The external ConfigMap, whose cached content gives the hash.
LEMMA ExternalConfigMapRight ==
  ASSUME QInv, ExternalConfigMap, cr' # None, ~ Waiting' PROVE Right'
<1> USE DEF QInv
<1> DEFINE k == "ExternalConfigMap"
<1>1. pc = k /\ k \in Steps \ {"PersistStatus"} /\ k \notin Child
  BY StepNames DEF ExternalConfigMap, Child, Services, StatefulSets, Optional
<1>2. UNCHANGED <<cr, obj, crFresh, fresh, queued, timer, inst, managed>>
  BY DEF ExternalConfigMap, server, crCache, childCache, queue
<1>3. CASE cext = None
  <2>1. pc' = "ConfigMapMissing"
    BY <1>3 DEF ExternalConfigMap
  <2>2. pc' \notin Working /\ pc' # "idle"
    BY <2>1, StepNames DEF Working, Child, Services, StatefulSets, Optional
  <2>3. QED
    BY <2>2 DEF Right
<1>4. CASE cext # None
  <2>1. pc' = NextStep(k, inst.spec) /\ hash' = HashStringData(cext)
    BY <1>4 DEF ExternalConfigMap
  <2>2. ~ Waiting
    BY <1>2 DEF Waiting
  <2>3. CallRight
    BY <1>1, <1>2, <2>2 DEF Undisturbed, Right, Working
  <2>4. Taken(k, inst.spec) /\ Agrees /\ inst.spec = cr.spec /\ Agrees'
    BY <1>1, <1>2, <2>3 DEF CallRight, Agrees
  <2>5. /\ pc' \in Steps /\ Taken(pc', inst'.spec) /\ pc' # "idle" /\ pc' # "SyncStatus"
        /\ Behind \subseteq Behind' /\ Behind' \subseteq Behind \cup {k}
    BY <1>1, <1>2, <2>1, <2>4, PlainStep
  <2>6. HashRight'
    <3>1. cr.spec.configFrom
      BY <2>4, TakenConfig
    <3>2. cext \in Contents'
      BY <1>2, <1>4, <3>1 DEF Contents, Sources
    <3>3. QED
      BY <2>1, <3>2 DEF HashRight, HashStringData
  <2>7. ManagedRight'
    BY <1>1, <1>2, <2>3, <2>5 DEF ManagedRight, CallRight, Watched
  <2>8. Fulfilled(k)'
    BY <1>1 DEF Fulfilled, Watched
  <2>9. CallRight'
    BY <1>2, <2>3, <2>4, <2>5, <2>6, <2>7, <2>8, CallGoesOn
  <2>10. QED
    BY <2>5, <2>9 DEF Right
<1>5. QED
  BY <1>3, <1>4

\* deleteStatefulSetIfExists.
LEMMA PruneFollowerRight ==
  ASSUME QInv, PruneFollower, cr' # None, ~ Waiting' PROVE Right'
<1> USE DEF QInv
<1> DEFINE k == "PruneFollower"
           f == "FollowerStatefulSet"
<1>1. pc = k /\ k \in Steps \ {"PersistStatus"} /\ k \notin Child /\ f \in Watched
  BY StepNames DEF PruneFollower, Watched, Child, Services, StatefulSets, Optional
<1>2. UNCHANGED <<cr, crFresh, timer, inst, hash, managed>>
  BY DEF PruneFollower, crCache, locals
<1>3. CASE pc' = "SetFailed"
  <2>1. pc' \notin Working /\ pc' # "idle"
    BY <1>3, StepNames DEF Working, Child, Services, StatefulSets, Optional
  <2>2. QED
    BY <2>1 DEF Right
<1>4. CASE /\ IF cobj[f] # None THEN Store(f, None) ELSE UNCHANGED childSide
           /\ pc' = NextStep(k, inst.spec)
  <2>1. ~ queued' /\ \A c \in Watched : fresh'[c]
    BY DEF Waiting
  <2>2. /\ obj' = obj /\ ~ queued /\ \A c \in Watched : fresh[c]
        /\ cobj[f] # None => obj[f] = None
    BY <1>1, <1>4, <2>1, StoreSilent DEF childSide, childCache
  <2>3. obj[f] = None
    BY <1>1, <2>2 DEF CopyInv, ChildCurrent
  <2>4. ~ Waiting
    BY <1>2, <2>2 DEF Waiting
  <2>5. CallRight
    BY <1>1, <1>2, <2>4 DEF Undisturbed, Right, Working
  <2>6. Agrees /\ Agrees'
    BY <1>2, <2>5 DEF CallRight, Agrees
  <2>7. /\ pc' \in Steps /\ Taken(pc', inst'.spec) /\ pc' # "idle" /\ pc' # "SyncStatus"
        /\ Behind \subseteq Behind' /\ Behind' \subseteq Behind \cup {k}
    BY <1>1, <1>2, <1>4, <2>6, PlainStep
  <2>8. HashRight'
    BY <1>2, <2>5, <2>7 DEF HashRight, CallRight, HashStringData, Contents
  <2>9. ManagedRight'
    BY <1>1, <1>2, <2>2, <2>5, <2>7 DEF ManagedRight, CallRight, Watched
  <2>10. Fulfilled(k)'
    BY <1>1, <2>2, <2>3 DEF Fulfilled, Watched
  <2>11. CallRight'
    BY <1>2, <2>2, <2>5, <2>6, <2>7, <2>8, <2>9, <2>10, CallGoesOn
  <2>12. QED
    BY <2>7, <2>11 DEF Right
<1>5. QED
  BY <1>1, <1>3, <1>4 DEF PruneFollower

-----------------------------------------------------------------------------
(***************************************************************************)
(* Steps that leave the TlnDB, the call and the watched children alone.    *)
(***************************************************************************)
LEMMA UntouchedRight ==
  ASSUME cr # None, Right, UNCHANGED <<cr, pc, inst, hash, managed>>,
         \A k \in Watched : obj'[k] = obj[k]
  PROVE  Right'
<1>1. \A s : Fulfilled(s) => Fulfilled(s)'
  BY FulfilledStays
<1>2. ASSUME pc' \in Working PROVE CallRight'
  <2>1. CallRight
    BY <1>2 DEF Right, Working
  <2>2. Behind' = Behind /\ Agrees' /\ Live(cr)' /\ Contents' = Contents
    BY <2>1 DEF CallRight, Behind, Agrees, Live, Contents
  <2>3. HashRight' /\ ManagedRight'
    BY <2>1, <2>2 DEF CallRight, HashRight, HashStringData, ManagedRight, Watched
  <2>4. Recorded => Recorded'
    BY DEF Recorded
  <2>5. QED
    BY <1>1, <2>1, <2>2, <2>3, <2>4 DEF CallRight
<1>3. ASSUME pc' = "idle" PROVE RestRight'
  <2>1. RestRight
    BY <1>3 DEF Right
  <2>2. Live(cr)' /\ Recorded'
    BY <2>1 DEF RestRight, Live, Recorded
  <2>3. primaryStatefulSet(cr.spec) \in Watched
    BY DEF primaryStatefulSet, Watched, Child, StatefulSets
  <2>4. Running'
    BY <2>1, <2>3 DEF RestRight, Running
  <2>5. QED
    BY <1>1, <2>1, <2>2, <2>4 DEF RestRight
<1>4. QED
  BY <1>2, <1>3 DEF Right

\* Time and the external ConfigMap.
LEMMA ElsewhereRight ==
  ASSUME QInv, SyncExt \/ ExtEdit \/ Tick \/ UNCHANGED vars, cr' # None, ~ Waiting'
  PROVE  Right'
<1>1. UNCHANGED <<cr, obj, crFresh, fresh, queued, timer, pc, inst, hash, managed>>
  BY DEF SyncExt, ExtEdit, Tick, vars, server, crCache, childCache, queue, locals
<1>2. ~ Waiting
  BY <1>1 DEF Waiting
<1>3. QED
  BY <1>1, <1>2, UntouchedRight DEF QInv, Undisturbed

\* Users: what they write is never what is stored.
LEMMA UsersRight ==
  ASSUME QInv, UserCreate \/ UserEdit \/ UserDelete, cr' # None PROVE Waiting'
<1> USE DEF QInv
<1> SUFFICES ASSUME ~ queued', crFresh' PROVE FALSE
  BY DEF Waiting
<1>1. PICK new : StoreCR(new) /\ new # cr
  <2>1. CASE UserCreate
    <3>1. PICK spec \in UserSpecs :
            StoreCR([uid |-> uids + 1, generation |-> 1, spec |-> spec,
                     deleting |-> FALSE, finalizer |-> FALSE, status |-> EmptyStatus])
      BY <2>1 DEF UserCreate, UserWrites
    <3>2. PICK new : StoreCR(new)
      BY <3>1
    <3>3. cr = None /\ new = cr'
      BY <2>1, <3>2 DEF UserCreate, StoreCR
    <3>4. QED
      BY <3>2, <3>3
  <2>2. CASE UserEdit
    <3>1. PICK spec \in UserSpecs \ {cr.spec} :
            StoreCR([cr EXCEPT !.spec = spec, !.generation = @ + 1])
      BY <2>2 DEF UserEdit, UserWrites
    <3>2. cr \in TlnDB
      BY <2>2 DEF UserEdit, CopyInv, TypeOK, TlnDBTypes
    <3>3. [cr EXCEPT !.spec = spec, !.generation = @ + 1].spec = spec
      BY <3>2 DEF TlnDB
    <3>4. [cr EXCEPT !.spec = spec, !.generation = @ + 1] # cr
      BY <3>1, <3>3
    <3>5. QED
      BY <3>1, <3>4
  <2>3. CASE UserDelete
    <3>1. PICK new : StoreCR(new) /\ new = (IF cr.finalizer
                  THEN [cr EXCEPT !.deleting = TRUE, !.generation = @ + 1]
                  ELSE None)
      BY <2>3 DEF UserDelete, UserWrites
    <3>2. cr \in TlnDB /\ ~ cr.deleting /\ new # None
      BY <2>3, <3>1 DEF UserDelete, CopyInv, TypeOK, TlnDBTypes, StoreCR
    <3>3. new.deleting = TRUE
      BY <3>1, <3>2 DEF TlnDB
    <3>4. QED
      BY <3>1, <3>2, <3>3
  <2>4. QED
    BY <2>1, <2>2, <2>3
<1>2. QED
  BY <1>1, StoreCRSilent

\* The rest of the cluster: a watched child that changes is reported.
LEMMA ClusterRight ==
  ASSUME QInv, NEW k \in Child, NEW new, ClusterWrites(k, new), cr' # None, ~ Waiting'
  PROVE  Right'
<1> USE DEF QInv
<1>1. UNCHANGED <<cr, crFresh, timer, pc, inst, hash, managed>> /\ Store(k, new)
  BY DEF ClusterWrites, crCache, locals
<1>2. ~ queued' /\ \A c \in Watched : fresh'[c]
  BY DEF Waiting
<1>3. ~ queued /\ \A c \in Watched : fresh[c] /\ obj'[c] = obj[c]
  <2>1. CASE k \in Watched
    BY <1>1, <1>2, <2>1, StoreSilent
  <2>2. CASE k \notin Watched
    <3>1. k = "ServiceMonitor"
      BY <2>2 DEF Watched
    <3>2. QED
      BY <1>1, <1>2, <3>1, StoreMonitor
  <2>3. QED
    BY <2>1, <2>2
<1>4. ~ Waiting
  BY <1>1, <1>3 DEF Waiting
<1>5. QED
  BY <1>1, <1>3, <1>4, UntouchedRight DEF Undisturbed

-----------------------------------------------------------------------------
(***************************************************************************)
(* The three facts on the side.                                            *)
(***************************************************************************)
LEMMA HeldStep ==
  ASSUME CopyInv, Held, [Next]_vars PROVE Held'
<1>1. CASE SameOwner
  BY <1>1 DEF SameOwner, Held
<1>2. CASE AddFinalizer /\ ~ UNCHANGED crSide
  <2>1. cr' = WithFinalizer /\ inst \in TlnDB /\ cr = inst
    BY <1>2 DEF AddFinalizer, StoreCR, CopyInv, TypeOK, CallTypes, UpdateClaim
  <2>2. cr'.finalizer = TRUE
    BY <2>1 DEF WithFinalizer, TlnDB
  <2>3. QED
    BY <2>2 DEF Held
<1>3. CASE RemoveFinalizer /\ ~ UNCHANGED crSide
  BY <1>3 DEF RemoveFinalizer, StoreCR, Held
<1>4. CASE UserCreate
  <2>1. ~ cr'.deleting
    BY <1>4 DEF UserCreate, UserWrites, StoreCR
  <2>2. QED
    BY <2>1 DEF Held
<1>5. CASE UserEdit
  <2>1. PICK spec : cr' = [cr EXCEPT !.spec = spec, !.generation = @ + 1]
    BY <1>5 DEF UserEdit, UserWrites, StoreCR
  <2>2. cr \in TlnDB /\ cr # None
    BY <1>5 DEF UserEdit, CopyInv, TypeOK, TlnDBTypes
  <2>3. cr'.deleting = cr.deleting /\ cr'.finalizer = cr.finalizer
    BY <2>1, <2>2 DEF TlnDB
  <2>4. QED
    BY <2>2, <2>3 DEF Held
<1>6. CASE UserDelete
  <2>1. cr \in TlnDB
    BY <1>6 DEF UserDelete, CopyInv, TypeOK, TlnDBTypes
  <2>2. cr' = IF cr.finalizer THEN [cr EXCEPT !.deleting = TRUE, !.generation = @ + 1]
                             ELSE None
    BY <1>6 DEF UserDelete, UserWrites, StoreCR
  <2>3. CASE cr.finalizer
    <3>1. cr'.finalizer = cr.finalizer
      BY <2>1, <2>2, <2>3 DEF TlnDB
    <3>2. QED
      BY <2>3, <3>1 DEF Held
  <2>4. CASE ~ cr.finalizer
    BY <2>2, <2>4 DEF Held
  <2>5. QED
    BY <2>3, <2>4
<1>7. CASE cr' = cr
  BY <1>7 DEF Held
<1>8. CASE Operator
  <2>1. CASE SetProvisioning \/ SetFailed \/ SetTerminating \/ SetCondition
               \/ PersistStatus \/ SyncStatus
    BY <1>1, <2>1, StatusSteps
  <2>2. CASE AddFinalizer \/ RemoveFinalizer
    BY <1>2, <1>3, <1>7, <2>2 DEF crSide
  <2>3. CASE Reconcile \/ ExternalConfigMap \/ PruneFollower
               \/ \E k \in Child : CreateOrUpdate(k)
    BY <1>7, <2>3 DEF Reconcile, ExternalConfigMap, PruneFollower, CreateOrUpdate, server
  <2>4. QED
    BY <1>8, <2>1, <2>2, <2>3 DEF Operator
<1>9. CASE Restart \/ Cluster \/ ExtEdit \/ UNCHANGED vars
  BY <1>7, <1>9, ClusterLeaves DEF Restart, ExtEdit, vars, server
<1>10. QED
  BY <1>4, <1>5, <1>6, <1>8, <1>9 DEF Next, Users

\* Every way out of a call forgets what it managed.
LEMMA StartsEmptyStep ==
  ASSUME StartsEmpty, [Next]_vars PROVE StartsEmpty'
<1>1. ASSUME UNCHANGED <<pc, managed>> PROVE StartsEmpty'
  BY <1>1 DEF StartsEmpty
<1>2. ASSUME NEW requeue, Return(requeue) PROVE StartsEmpty'
  BY <1>2 DEF Return, StartsEmpty
<1>3. ASSUME pc' # "idle" PROVE StartsEmpty'
  BY <1>3 DEF StartsEmpty
<1>4. CASE Operator
  <2>1. CASE Reconcile
    BY <2>1 DEF Reconcile, StartsEmpty
  <2>2. CASE AddFinalizer \/ SetFailed \/ RemoveFinalizer
    BY <1>2, <2>2 DEF AddFinalizer, SetFailed, RemoveFinalizer
  <2>3. CASE SyncStatus
    BY <1>2, <2>3 DEF SyncStatus
  <2>4. \A spec : FirstStep(spec) # "idle"
    BY FirstStepIsStep, StepKinds
  <2>5. CASE SetProvisioning \/ SetTerminating
    BY <1>2, <1>3, <2>4, <2>5 DEF SetProvisioning, SetTerminating
  <2>6. ASSUME NEW s \in Steps \ {"PersistStatus"}, NEW spec
        PROVE  NextStep(s, spec) # "idle"
    BY NextStepIsStep, StepKinds
  <2>7. CASE \E k \in Child : CreateOrUpdate(k)
    <3>1. PICK k \in Child : CreateOrUpdate(k)
      BY <2>7
    <3>2. k \in Steps \ {"PersistStatus"}
      BY StepNames DEF Child, Services, StatefulSets, Optional
    <3>3. pc' # "idle"
      BY <2>6, <3>1, <3>2 DEF CreateOrUpdate
    <3>4. QED
      BY <1>3, <3>3
  <2>8. CASE ExternalConfigMap \/ PruneFollower
    <3>1. "ExternalConfigMap" \in Steps \ {"PersistStatus"}
          /\ "PruneFollower" \in Steps \ {"PersistStatus"}
      BY StepNames
    <3>2. pc' # "idle"
      BY <2>6, <2>8, <3>1 DEF ExternalConfigMap, PruneFollower
    <3>3. QED
      BY <1>3, <3>2
  <2>9. CASE SetCondition
    <3>1. ConditionOf(pc) \in Steps \ {"PersistStatus"}
      BY <2>9, StepNames DEF SetCondition, ConditionSteps, ConditionOf
    <3>2. pc' # "idle"
      BY <2>6, <2>9, <3>1 DEF SetCondition
    <3>3. QED
      BY <1>3, <3>2
  <2>10. CASE PersistStatus
    BY <1>3, <2>10 DEF PersistStatus
  <2>11. QED
    BY <1>4, <2>1, <2>2, <2>3, <2>5, <2>7, <2>8, <2>9, <2>10 DEF Operator
<1>5. CASE Restart
  BY <1>5 DEF Restart, StartsEmpty
<1>6. CASE Cluster \/ Users \/ UNCHANGED vars
  BY <1>1, <1>6, ClusterLeaves DEF Users, UserCreate, UserEdit, UserDelete, UserWrites,
     ExtEdit, vars, locals
<1>7. QED
  BY <1>4, <1>5, <1>6 DEF Next

\* The external ConfigMap and its cached copy hold what users put there.
LEMMA SourcesStep ==
  ASSUME Sources, [Next]_vars PROVE Sources'
<1>1. CASE UNCHANGED <<ext, cext>>
  BY <1>1 DEF Sources
<1>2. CASE Restart \/ SyncExt \/ ExtEdit
  BY <1>2 DEF Restart, SyncExt, ExtEdit, server, Sources
<1>3. CASE Operator
  BY <1>1, <1>3 DEF Operator, Reconcile, AddFinalizer, SetProvisioning, SetFailed,
     SetTerminating, RemoveFinalizer, CreateOrUpdate, ExternalConfigMap, PruneFollower,
     SetCondition, PersistStatus, SyncStatus, server, Environment
<1>4. CASE Cluster /\ ~ SyncExt
  BY <1>1, <1>4 DEF Cluster, SyncCR, TimerFires, SyncChild, DeleteChild, StsObserve,
     PodReady, PodFails, CollectGarbage, Autoscale, ClusterWrites, Tick, server, Environment
<1>5. CASE UserCreate \/ UserEdit \/ UserDelete \/ UNCHANGED vars
  BY <1>1, <1>5 DEF UserCreate, UserEdit, UserDelete, UserWrites, vars, server
<1>6. QED
  BY <1>2, <1>3, <1>4, <1>5 DEF Next, Users

-----------------------------------------------------------------------------
(***************************************************************************)
(* Initially there is no TlnDB.                                            *)
(***************************************************************************)
LEMMA InitQInv == Init => QInv
<1> SUFFICES ASSUME Init PROVE QInv
  OBVIOUS
<1>1. Held /\ StartsEmpty /\ Sources /\ Undisturbed
  BY DEF Init, Held, StartsEmpty, Sources, Undisturbed
<1>2. QED
  BY <1>1, InitIInv DEF QInv, IInv

\* Every step, and stuttering, preserves the invariant.
LEMMA NextQInv == QInv /\ [Next]_vars => QInv'
<1> SUFFICES ASSUME QInv, [Next]_vars PROVE QInv'
  OBVIOUS
<1>1. CopyInv' /\ Held' /\ StartsEmpty' /\ Sources'
  BY NextKeeps, HeldStep, StartsEmptyStep, SourcesStep DEF QInv, Keeps
<1>2. ASSUME cr' # None, ~ Waiting' PROVE Right'
  <2>1. CASE Operator
    <3>1. CASE \E k \in Child : CreateOrUpdate(k)
      BY <1>2, <3>1, WatchedChildRight, MonitorChildRight DEF Watched
    <3>2. QED
      BY <1>2, <2>1, <3>1, ReconcileRight, WaitsAgain, DeletionRight, SetProvisioningRight,
         SetConditionRight, PersistStatusRight, SyncStatusRight, ExternalConfigMapRight,
         PruneFollowerRight DEF Operator
  <2>2. CASE Restart \/ SyncCR \/ TimerFires \/ \E k \in Watched : SyncChild(k)
    BY <1>2, <2>2, WaitsAgain
  <2>3. CASE SyncExt \/ ExtEdit \/ Tick \/ UNCHANGED vars
    BY <1>2, <2>3, ElsewhereRight
  <2>4. CASE UserCreate \/ UserEdit \/ UserDelete
    BY <1>2, <2>4, UsersRight
  <2>5. ASSUME NEW k \in Child, CollectGarbage(k) \/ DeleteChild(k) PROVE Right'
    BY <1>2, <2>5, ClusterRight DEF CollectGarbage, DeleteChild
  <2>6. ASSUME NEW k \in Watched,
               StsObserve(k) \/ PodReady(k) \/ PodFails(k)
                 \/ (k = HPATarget /\ Autoscale)
        PROVE  Right'
    <3>1. k \in Child /\ k # "ServiceMonitor"
      BY DEF Watched
    <3>2. PICK new : ClusterWrites(k, new)
      <4>1. CASE PodReady(k) \/ PodFails(k)
        BY <4>1 DEF PodReady, PodFails
      <4>2. CASE StsObserve(k)
        BY <4>2 DEF StsObserve
      <4>3. CASE k = HPATarget /\ Autoscale
        BY <4>3 DEF Autoscale
      <4>4. QED
        BY <2>6, <4>1, <4>2, <4>3
    <3>3. QED
      BY <1>2, <3>1, <3>2, ClusterRight
  <2>7. StatefulSets \subseteq Watched /\ HPATarget \in Watched
    BY DEF Watched, Child, StatefulSets, HPATarget
  <2>8. CASE Cluster
    BY <2>2, <2>3, <2>5, <2>6, <2>7, <2>8 DEF Cluster
  <2>9. QED
    BY <2>1, <2>2, <2>3, <2>4, <2>8 DEF Next, Users
<1>3. QED
  BY <1>1, <1>2 DEF QInv, Undisturbed

\* The invariant holds throughout.
LEMMA AlwaysQInv == Spec => []QInv
BY InitQInv, NextQInv, PTL DEF Spec

(***************************************************************************)
(* A resting operator has left everything right; and what is no orphan     *)
(* belongs to this TlnDB.                                                  *)
(***************************************************************************)
LEMMA RestSettles ==
  ASSUME QInv, Quiet, cr # None PROVE ChildrenSettled /\ StatusSettled
<1>1. ~ Waiting /\ pc = "idle"
  BY DEF Quiet, Waiting
<1>2. RestRight
  BY <1>1 DEF QInv, Undisturbed, Right
<1>3. \A k \in Watched : obj[k] # None => obj[k].owner = cr.uid
  BY DEF Quiet, Orphan, Watched
<1>4. ChildrenSettled
  <2>1. \A s \in Steps : Taken(s, cr.spec) => Fulfilled(s)
    BY <1>2 DEF RestRight
  <2>2. \A k \in Wanted(cr.spec) \cap Watched :
          obj[k] # None /\ obj[k].owner = cr.uid /\ Reflects(k)
    BY <1>3, <2>1, StepNames DEF Wanted, Fulfilled
  <2>3. Taken("PruneFollower", cr.spec) => obj["FollowerStatefulSet"] = None
    BY <2>1, StepNames DEF Fulfilled
  <2>4. QED
    BY <2>2, <2>3 DEF ChildrenSettled
<1>5. StatusSettled
  BY <1>2 DEF RestRight, Recorded, Running, Live, StatusSettled
<1>6. QED
  BY <1>4, <1>5

(***************************************************************************)
(* The children are right whenever the operator rests: whatever was stale, *)
(* refused, dropped or failed on the way led to another call, and the call *)
(* after which nothing waits found or left every watched child as the      *)
(* stored spec asks for.                                                   *)
(***************************************************************************)
THEOREM ChildrenAtRest == Spec => []QuiescentChildren
<1>1. QInv => QuiescentChildren
  BY RestSettles DEF QuiescentChildren
<1>2. QED
  BY <1>1, AlwaysQInv, PTL

(***************************************************************************)
(* The status tells the truth whenever the operator rests, although it was *)
(* patched against copies that may have been stale, and some patches may   *)
(* have failed silently: the phase, the ready count, the generation, the   *)
(* image and the managed resources.                                        *)
(***************************************************************************)
THEOREM StatusAtRest == Spec => []QuiescentStatus
<1>1. QInv => QuiescentStatus
  BY RestSettles DEF QuiescentStatus
<1>2. QED
  BY <1>1, AlwaysQInv, PTL
=============================================================================
