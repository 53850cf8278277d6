----------------------------- MODULE TlnDBProofs ----------------------------
(***************************************************************************)
(* Proofs about TlnDBController, for every set of specs, every lag and     *)
(* every value of the bounds.                                              *)
(***************************************************************************)
EXTENDS TlnDBCorrect, TlnDBResourcesProofs

-----------------------------------------------------------------------------
(***************************************************************************)
(* The inductive invariant.                                                *)
(*                                                                         *)
(* CopyInv is what the copies of one manager are worth, whoever else       *)
(* writes to the server: a copy with the server's resourceVersion is what  *)
(* is stored.  The types need it: that AddFinalizer stores a TlnDB follows *)
(* from the optimistic lock.  The claims on top of it hold only while no   *)
(* other manager is at work.                                               *)
(***************************************************************************)
ChildCurrent ==
  \A k \in Watched :
    /\ fresh[k] => cobj[k] = obj[k]
    /\ k \notin Lagging => fresh[k]

CopyInv == TypeOK /\ CacheCurrent /\ ChildCurrent /\ UpdateClaim

Claims == CacheClaims /\ CallClaims

IInv == CopyInv /\ Claims

\* What each step is shown to do.
Keeps == CopyInv' /\ (Claims => Claims')

(***************************************************************************)
(* The kinds of steps a call can be at do not overlap.                     *)
(***************************************************************************)
LEMMA StepKinds ==
  /\ "idle" \notin ResourceSteps /\ "AddFinalizer" \notin ResourceSteps
  /\ "idle" \notin DeletionSteps /\ "AddFinalizer" \notin DeletionSteps
  /\ \A s \in DeletionSteps : s \notin ResourceSteps
  /\ Steps \subseteq ResourceSteps /\ ResourceSteps \subseteq PC
  /\ ConditionSteps \subseteq ResourceSteps
BY StepNames DEF ResourceSteps, DeletionSteps, ConditionSteps, PC, Child, Services,
                 StatefulSets, Optional

(***************************************************************************)
(* cr' is the same TlnDB as cr, or both are absent: what every status      *)
(* patch preserves.                                                        *)
(***************************************************************************)
SameOwner ==
  \/ cr = None /\ cr' = None
  \/ /\ cr # None /\ cr' # None
     /\ cr'.uid = cr.uid /\ cr'.finalizer = cr.finalizer
     /\ cr'.deleting = cr.deleting

(***************************************************************************)
(* Storing a TlnDB keeps the cache honest: the cached copy is the old one  *)
(* or the new object, and only a copy marked current has to be the latter. *)
(***************************************************************************)
LEMMA StoreCRKeeps ==
  ASSUME TlnDBTypes, CacheCurrent, queued \in BOOLEAN,
         NEW new \in TlnDB \cup {None}, StoreCR(new)
  PROVE  /\ TlnDBTypes' /\ CacheCurrent' /\ queued' \in BOOLEAN
         /\ cr' = new /\ (ccr' = ccr \/ ccr' = cr')
BY DEF TlnDBTypes, CacheCurrent, StoreCR

(***************************************************************************)
(* A status patch changes the status alone, of whatever TlnDB is stored    *)
(* under the name; it succeeds only if there is one.                       *)
(***************************************************************************)
LEMMA PatchStatusKeeps ==
  ASSUME TlnDBTypes, CacheCurrent, OtherTypes, inst \in TlnDB,
         NEW new \in TlnDBStatus, NEW reply, PatchStatus(new, reply)
  PROVE  /\ TlnDBTypes' /\ CacheCurrent'
         /\ queued' \in BOOLEAN /\ faults' \in Nat
         /\ SameOwner /\ (ccr' = ccr \/ ccr' = cr')
         /\ reply = "ok" => cr' # None
<1>1. ASSUME cr # None
      PROVE  /\ Patched(new) \in TlnDB
             /\ Patched(new).uid = cr.uid
             /\ Patched(new).finalizer = cr.finalizer
             /\ Patched(new).deleting = cr.deleting
  <2>1. cr \in TlnDB
    BY <1>1 DEF TlnDBTypes
  <2>2. cr.status \in TlnDBStatus /\ inst.status \in TlnDBStatus
    BY <2>1 DEF TlnDB
  <2>3. MergePatch(cr.status, inst.status, new) \in TlnDBStatus
    BY <2>2, MergePatchType
  <2>4. QED
    BY <2>1, <2>3 DEF Patched, TlnDB
<1>2. faults' \in Nat
  BY DEF PatchStatus, Fault, OtherTypes
<1>3. CASE cr # None /\ StoreCR(Patched(new))
  <2>1. /\ TlnDBTypes' /\ CacheCurrent' /\ queued' \in BOOLEAN
        /\ cr' = Patched(new) /\ (ccr' = ccr \/ ccr' = cr')
    BY <1>1, <1>3, StoreCRKeeps DEF OtherTypes
  <2>2. cr' # None
    BY <1>1, <1>3, <2>1, NoneAssumption
  <2>3. SameOwner
    BY <1>1, <1>3, <2>1, <2>2 DEF SameOwner
  <2>4. QED
    BY <1>2, <2>1, <2>2, <2>3
<1>4. CASE UNCHANGED crSide /\ reply = "error"
  BY <1>2, <1>4 DEF crSide, crCache, TlnDBTypes, CacheCurrent, OtherTypes, SameOwner
<1>5. QED
  BY <1>3, <1>4 DEF PatchStatus

(***************************************************************************)
(* A step that keeps the stored TlnDB's identity keeps the cache's claims. *)
(***************************************************************************)
LEMMA SameOwnerKeepsClaims ==
  ASSUME CacheClaims, SameOwner, ccr' = ccr \/ ccr' = cr'
  PROVE  /\ CacheClaims'
         /\ Live(cr)' <=> Live(cr)
         /\ ~ Live(cr) /\ ~ Live(ccr) => ~ Live(ccr)'
BY DEF CacheClaims, SameOwner, Live

(***************************************************************************)
(* Storing a child of the right type keeps the types of the children.      *)
(***************************************************************************)
LEMMA StoreKeeps ==
  ASSUME ChildTypes, queued \in BOOLEAN, NEW k \in Child,
         NEW new \in ObjectOf(k) \cup {None}, Store(k, new)
  PROVE  ChildTypes' /\ queued' \in BOOLEAN
<1>1. queued' \in BOOLEAN
  BY DEF Store
<1>2. /\ obj' = [c \in Child |-> obj'[c]]
      /\ \A c \in Child : obj'[c] \in ObjectOf(c) \cup {None}
  BY DEF Store, ChildTypes
<1>3. /\ cobj' = [c \in Watched |-> cobj'[c]]
      /\ \A c \in Watched : cobj'[c] \in ObjectOf(c) \cup {None}
  BY DEF Store, ChildTypes
<1>4. fresh' \in [Watched -> BOOLEAN]
  BY DEF Store, ChildTypes
<1>5. QED
  BY <1>1, <1>2, <1>3, <1>4 DEF ChildTypes

\* Storing a child, wherever its cached copy stands, keeps the caches honest.
LEMMA StoreKeepsCurrent ==
  ASSUME ChildTypes, ChildCurrent, NEW k \in Child, NEW new, Store(k, new)
  PROVE  ChildCurrent'
<1> SUFFICES ASSUME NEW c \in Watched
             PROVE  /\ fresh'[c] => cobj'[c] = obj'[c]
                    /\ c \notin Lagging => fresh'[c]
  BY DEF ChildCurrent
<1>1. c \in Child
  BY DEF Watched
<1>2. /\ fresh[c] => cobj[c] = obj[c]
      /\ c \notin Lagging => fresh[c]
  BY DEF ChildCurrent
<1>3. CASE k \in Lagging
  BY <1>1, <1>2, <1>3 DEF Store, ChildTypes
<1>4. CASE k \notin Lagging
  BY <1>1, <1>2, <1>4 DEF Store, ChildTypes
<1>5. QED
  BY <1>3, <1>4

\* A step that leaves the children and their caches alone.
LEMMA IdleChildren ==
  ASSUME ChildTypes, ChildCurrent, UNCHANGED <<obj, childCache>>
  PROVE  ChildTypes' /\ ChildCurrent'
BY DEF ChildTypes, ChildCurrent, childCache

(***************************************************************************)
(* A step of the cluster that leaves the TlnDB and the call alone.         *)
(***************************************************************************)
LEMMA ElsewhereKeeps ==
  ASSUME CopyInv, UNCHANGED <<cr, crCache, pc, locals>>, ChildTypes', ChildCurrent',
         OtherTypes'
  PROVE  Keeps
<1>1. TlnDBTypes' /\ CallTypes'
  BY DEF CopyInv, TypeOK, TlnDBTypes, CallTypes, crCache, locals
<1>2. CacheCurrent' /\ UpdateClaim'
  BY DEF CopyInv, CacheCurrent, UpdateClaim, crCache, locals
<1>3. Claims => Claims'
  BY DEF Claims, CacheClaims, CallClaims, Live, crCache, locals
<1>4. QED
  BY <1>1, <1>2, <1>3 DEF Keeps, CopyInv, TypeOK

(***************************************************************************)
(* The end of a call: whatever was claimed for it lapses.                  *)
(***************************************************************************)
LEMMA ReturnKeeps ==
  ASSUME timer \in BOOLEAN, NEW requeue \in BOOLEAN, Return(requeue)
  PROVE  CallTypes' /\ UpdateClaim' /\ CallClaims' /\ timer' \in BOOLEAN
<1>1. CallTypes' /\ timer' \in BOOLEAN
  BY DEF Return, CallTypes, PC
<1>2. UpdateClaim' /\ CallClaims'
  BY StepKinds DEF Return, UpdateClaim, CallClaims
<1>3. QED
  BY <1>1, <1>2

-----------------------------------------------------------------------------
(***************************************************************************)
(* One lemma per action: it preserves the inductive invariant.             *)
(*                                                                         *)
(* Initially there is no TlnDB, no cached copy and no call.                *)
(***************************************************************************)
LEMMA InitIInv == Init => IInv
<1> SUFFICES ASSUME Init PROVE IInv
  OBVIOUS
<1>1. TypeOK
  <2>1. TlnDBTypes /\ OtherTypes
    <3>1. TlnDBTypes
      BY DEF Init, TlnDBTypes
    <3>2. ext \in Configs \cup {None} /\ cext = ext
      BY InputAssumption, Zenon DEF Init
    <3>3. queued \in BOOLEAN /\ timer \in BOOLEAN
      BY DEF Init
    <3>4. {uids, edits, faults, now} \subseteq Nat
      BY DEF Init
    <3>5. QED
      BY <3>1, <3>2, <3>3, <3>4 DEF OtherTypes
  <2>2. ChildTypes
    BY DEF Init, ChildTypes
  <2>3. CallTypes
    BY DEF Init, CallTypes, PC
  <2>4. QED
    BY <2>1, <2>2, <2>3 DEF TypeOK
<1>2. CacheCurrent /\ ChildCurrent /\ UpdateClaim
  BY DEF Init, CacheCurrent, ChildCurrent, UpdateClaim, Watched
<1>3. Claims
  BY StepKinds DEF Init, Claims, CacheClaims, CallClaims, Live
<1>4. QED
  BY <1>1, <1>2, <1>3 DEF IInv, CopyInv

(***************************************************************************)
(* Reconcile starts a call: the claims of the call come from those of the  *)
(* cached copy it reads.                                                   *)
(***************************************************************************)
LEMMA ReconcileStep == CopyInv /\ Reconcile => Keeps
<1> SUFFICES ASSUME CopyInv, Reconcile PROVE Keeps
  OBVIOUS
<1> USE DEF CopyInv, TypeOK, Keeps, Claims
<1>1. TlnDBTypes' /\ ChildTypes' /\ OtherTypes'
  BY DEF Reconcile, TlnDBTypes, ChildTypes, OtherTypes, server, crCache, childCache,
         Environment
<1>2. CacheCurrent' /\ ChildCurrent' /\ (CacheClaims => CacheClaims')
  BY IdleChildren DEF Reconcile, CacheCurrent, CacheClaims, Live, server, crCache
<1>3. CASE UNCHANGED <<pc, inst, instFresh>>
  <2>1. CallTypes'
    BY <1>3 DEF Reconcile, CallTypes
  <2>2. UpdateClaim' /\ CallClaims'
    BY <1>3, StepKinds DEF Reconcile, UpdateClaim, CallClaims
  <2>3. QED
    BY <1>1, <1>2, <2>1, <2>2
<1>4. CASE /\ ccr # None /\ Entry(ccr) # "idle"
           /\ pc' = Entry(ccr) /\ inst' = ccr /\ instFresh' = crFresh
  <2>1. ccr \in TlnDB
    BY <1>4 DEF TlnDBTypes
  <2>2. UNCHANGED <<cr, ccr, crFresh, hash, managed>>
    BY DEF Reconcile, server, crCache
  <2>3. CASE ccr.deleting
    <3>1. pc' = "SetTerminating"
      BY <1>4, <2>3 DEF Entry
    <3>2. CallTypes' /\ UpdateClaim'
      BY <1>4, <2>1, <2>2, <3>1 DEF CallTypes, TlnDBTypes, PC, DeletionSteps, UpdateClaim
    <3>3. CacheClaims => CallClaims'
      BY <1>4, <2>2, <2>3, <3>1, StepKinds DEF CallClaims, CacheClaims, Live,
                                               DeletionSteps
    <3>4. QED
      BY <1>1, <1>2, <3>2, <3>3
  <2>4. CASE ~ ccr.deleting /\ ~ ccr.finalizer
    <3>1. pc' = "AddFinalizer"
      BY <1>4, <2>4 DEF Entry
    <3>2. CallTypes'
      BY <1>4, <2>1, <2>2, <3>1 DEF CallTypes, TlnDBTypes, PC
    <3>3. UpdateClaim' /\ CallClaims'
      BY <1>4, <2>2, <2>4, <3>1, StepKinds DEF UpdateClaim, CallClaims, CacheCurrent
    <3>4. QED
      BY <1>1, <1>2, <3>2, <3>3
  <2>5. CASE ~ ccr.deleting /\ ccr.finalizer
    <3>1. pc' = "SetProvisioning" \/ pc' = FirstStep(ccr.spec)
      BY <1>4, <2>5 DEF Entry
    <3>2. pc' \in ResourceSteps
      BY <3>1, FirstStepIsStep DEF ResourceSteps
    <3>3. CallTypes' /\ UpdateClaim'
      BY <1>4, <2>1, <2>2, <3>2, StepKinds DEF CallTypes, TlnDBTypes, UpdateClaim
    <3>4. CacheClaims => CallClaims'
      BY <1>4, <2>2, <2>5, <3>2, StepKinds DEF CallClaims, CacheClaims, Live
    <3>5. QED
      BY <1>1, <1>2, <3>3, <3>4
  <2>6. QED
    BY <2>1, <2>3, <2>4, <2>5 DEF TlnDB
<1>5. QED
  BY <1>3, <1>4 DEF Reconcile

(***************************************************************************)
(* The Update that adds the finalizer makes a TlnDB live.  The optimistic  *)
(* lock guarantees that it is the one the call read, which was not         *)
(* terminating, and that the cache has seen it.                            *)
(***************************************************************************)
LEMMA AddFinalizerStep == CopyInv /\ AddFinalizer => Keeps
<1> SUFFICES ASSUME CopyInv, AddFinalizer PROVE Keeps
  OBVIOUS
<1> USE DEF CopyInv, TypeOK, Keeps, Claims
<1>1. CallTypes' /\ UpdateClaim' /\ CallClaims' /\ timer' \in BOOLEAN
  BY ReturnKeeps DEF AddFinalizer, OtherTypes
<1>2. ChildTypes' /\ ChildCurrent'
  BY IdleChildren DEF AddFinalizer
<1>3. UNCHANGED <<ext, cext, uids, edits, now>> /\ faults' \in Nat
  BY DEF AddFinalizer, Environment, Fault, OtherTypes
<1>4. CASE instFresh /\ StoreCR(WithFinalizer)
  <2>1. cr = inst /\ cr \in TlnDB /\ ~ cr.deleting /\ crFresh /\ ccr = cr
    BY <1>4 DEF AddFinalizer, UpdateClaim, CallTypes, CacheCurrent
  <2>2. StoredByUpdate(inst.spec) \in TlnDBSpec
    BY <2>1, StoredByUpdateType DEF TlnDB
  <2>3. /\ WithFinalizer \in TlnDB /\ WithFinalizer.uid = cr.uid
        /\ WithFinalizer.finalizer = TRUE
    <3> DEFINE g == IF StoredByUpdate(inst.spec) = cr.spec
                      THEN cr.generation ELSE cr.generation + 1
    <3>1. g \in Nat
      BY <2>1 DEF TlnDB
    <3>2. WithFinalizer = [cr EXCEPT !.finalizer = TRUE,
                                     !.spec = StoredByUpdate(inst.spec),
                                     !.generation = g]
      BY DEF WithFinalizer
    <3> HIDE DEF g
    <3>3. QED
      BY <2>1, <2>2, <3>1, <3>2 DEF TlnDB
  <2>4. /\ TlnDBTypes' /\ CacheCurrent' /\ queued' \in BOOLEAN
        /\ cr' = WithFinalizer /\ (ccr' = ccr \/ ccr' = cr')
    BY <1>4, <2>3, StoreCRKeeps DEF OtherTypes
  <2>5. CacheClaims'
    BY <2>1, <2>3, <2>4, NoneAssumption DEF CacheClaims, Live
  <2>6. OtherTypes'
    BY <1>1, <1>3, <2>4 DEF OtherTypes
  <2>7. QED
    BY <1>1, <1>2, <2>4, <2>5, <2>6
<1>5. CASE UNCHANGED crSide
  BY <1>1, <1>2, <1>3, <1>5 DEF crSide, crCache, TlnDBTypes, OtherTypes, CacheCurrent,
                                CacheClaims, Live
<1>6. QED
  BY <1>4, <1>5 DEF AddFinalizer

(***************************************************************************)
(* A call that ends with a status patch.                                   *)
(***************************************************************************)
LEMMA PatchAndReturn ==
  ASSUME CopyInv, inst \in TlnDB, NEW new \in TlnDBStatus, NEW reply,
         PatchStatus(new, reply), NEW requeue \in BOOLEAN, Return(requeue),
         UNCHANGED <<obj, childCache, Environment>>
  PROVE  Keeps
<1> USE DEF CopyInv, TypeOK, Keeps, Claims
<1>1. CallTypes' /\ UpdateClaim' /\ CallClaims' /\ timer' \in BOOLEAN
  BY ReturnKeeps DEF OtherTypes
<1>2. ChildTypes' /\ ChildCurrent'
  BY IdleChildren
<1>3. /\ TlnDBTypes' /\ CacheCurrent' /\ queued' \in BOOLEAN /\ faults' \in Nat
      /\ SameOwner /\ (ccr' = ccr \/ ccr' = cr')
  BY PatchStatusKeeps
<1>4. CacheClaims => CacheClaims'
  BY <1>3, SameOwnerKeepsClaims
<1>5. OtherTypes'
  BY <1>1, <1>3 DEF OtherTypes, Environment
<1>6. QED
  BY <1>1, <1>2, <1>3, <1>4, <1>5

(***************************************************************************)
(* A call that goes on after a status patch: what it then holds is a copy  *)
(* of the stored TlnDB, or its own.                                        *)
(***************************************************************************)
LEMMA PatchAndContinue ==
  ASSUME CopyInv, inst \in TlnDB, NEW new \in TlnDBStatus,
         NEW reply \in {"ok", "error"}, PatchStatus(new, reply),
         KeepInstance(new, reply), UNCHANGED <<obj, childCache, timer, hash, managed, Environment>>,
         \/ pc \in ResourceSteps /\ pc' \in ResourceSteps
         \/ pc \in DeletionSteps /\ pc' \in DeletionSteps
  PROVE  Keeps
<1> USE DEF CopyInv, TypeOK, Keeps, Claims
<1>1. ChildTypes' /\ ChildCurrent'
  BY IdleChildren
<1>2. /\ TlnDBTypes' /\ CacheCurrent' /\ queued' \in BOOLEAN /\ faults' \in Nat
      /\ SameOwner /\ (ccr' = ccr \/ ccr' = cr')
      /\ reply = "ok" => cr' # None
  BY PatchStatusKeeps
<1>3. CacheClaims => CacheClaims'
  BY <1>2, SameOwnerKeepsClaims
<1>4. OtherTypes'
  BY <1>2 DEF OtherTypes, Environment
<1>5. /\ inst' \in TlnDB /\ instFresh' \in BOOLEAN
      /\ inst'.uid = IF reply = "ok" THEN cr'.uid ELSE inst.uid
  <2>1. /\ [inst EXCEPT !.status = new] \in TlnDB
        /\ [inst EXCEPT !.status = new].uid = inst.uid
    BY DEF TlnDB
  <2>2. CASE reply = "ok"
    <3>1. cr' \in TlnDB
      BY <1>2, <2>2 DEF TlnDBTypes
    <3>2. QED
      BY <2>1, <2>2, <3>1, DecodeIntoType DEF KeepInstance
  <2>3. CASE reply = "error"
    BY <2>1, <2>3 DEF KeepInstance, CallTypes
  <2>4. QED
    BY <2>2, <2>3
<1>6. CallTypes' /\ UpdateClaim'
  BY <1>5, StepKinds DEF CallTypes, PC, UpdateClaim
<1>7. CASE pc \in ResourceSteps /\ pc' \in ResourceSteps
  <2>1. CallClaims => CallClaims'
    BY <1>2, <1>5, <1>7, StepKinds DEF CallClaims, SameOwner
  <2>2. QED
    BY <1>1, <1>2, <1>3, <1>4, <1>6, <2>1
<1>8. CASE pc \in DeletionSteps /\ pc' \in DeletionSteps
  <2>1. Claims => CallClaims'
    BY <1>2, <1>8, StepKinds, SameOwnerKeepsClaims DEF CallClaims
  <2>2. QED
    BY <1>1, <1>2, <1>3, <1>4, <1>6, <2>1
<1>9. QED
  BY <1>7, <1>8

(***************************************************************************)
(* A call past its Get holds a TlnDB.                                      *)
(***************************************************************************)
LEMMA CallHoldsInstance ==
  ASSUME CopyInv, pc # "idle" PROVE inst \in TlnDB
BY DEF CopyInv, TypeOK, CallTypes

(***************************************************************************)
(* The statuses the call computes.                                         *)
(***************************************************************************)
LEMMA WithPhaseType ==
  ASSUME inst \in TlnDB, now \in Nat, NEW phase \in Phases
  PROVE  WithPhase(phase) \in TlnDBStatus
<1>1. inst.status \in TlnDBStatus
  BY DEF TlnDB
<1>2. QED
  BY <1>1 DEF WithPhase, TlnDBStatus

\* setConditionOnInstance yields a status.
LEMMA WithConditionType ==
  ASSUME inst \in TlnDB, NEW c \in ConditionTypes, NEW status \in {"True", "False"}
  PROVE  WithCondition(c, status) \in TlnDBStatus
<1> DEFINE new == [status |-> status, observedGeneration |-> inst.generation]
<1>1. inst.status \in TlnDBStatus /\ inst.generation \in Nat
  BY DEF TlnDB
<1>2. new \in Condition
  BY <1>1 DEF Condition
<1> HIDE DEF new
<1>3. [inst.status.conditions EXCEPT ![c] = new] \in [ConditionTypes -> Condition]
  BY <1>1, <1>2 DEF TlnDBStatus
<1>4. WithCondition(c, status) =
        [inst.status EXCEPT !.conditions =
           [inst.status.conditions EXCEPT ![c] = new]]
  BY <1>1 DEF WithCondition, TlnDBStatus, new
<1>5. QED
  BY <1>1, <1>3, <1>4 DEF TlnDBStatus

(***************************************************************************)
(* setPhase(Provisioning) and setPhase(Failed).                            *)
(***************************************************************************)
LEMMA SetProvisioningStep == CopyInv /\ SetProvisioning => Keeps
<1> SUFFICES ASSUME CopyInv, SetProvisioning PROVE Keeps
  OBVIOUS
<1>1. inst \in TlnDB /\ now \in Nat
  BY CallHoldsInstance DEF SetProvisioning, CopyInv, TypeOK, OtherTypes
<1>2. WithPhase("Provisioning") \in TlnDBStatus
  BY <1>1, WithPhaseType DEF Phases
<1>3. PICK reply \in {"ok", "error"} :
        /\ PatchStatus(WithPhase("Provisioning"), reply)
        /\ IF reply = "ok"
             THEN /\ KeepInstance(WithPhase("Provisioning"), reply)
                  /\ pc' = FirstStep(inst'.spec)
                  /\ UNCHANGED <<hash, managed, timer>>
             ELSE Return(TRUE)
  BY DEF SetProvisioning
<1>4. UNCHANGED <<obj, childCache, Environment>>
  BY DEF SetProvisioning
<1>5. CASE reply = "ok"
  <2>1. pc \in ResourceSteps /\ pc' \in ResourceSteps
    BY <1>3, <1>5, FirstStepIsStep DEF SetProvisioning, ResourceSteps
  <2>2. QED
    BY <1>1, <1>2, <1>3, <1>4, <1>5, <2>1, PatchAndContinue
<1>6. CASE reply = "error"
  BY <1>1, <1>2, <1>3, <1>4, <1>6, PatchAndReturn
<1>7. QED
  BY <1>5, <1>6

\* setPhase(Failed) ends the call with the error.
LEMMA SetFailedStep == CopyInv /\ SetFailed => Keeps
<1> SUFFICES ASSUME CopyInv, SetFailed PROVE Keeps
  OBVIOUS
<1>1. inst \in TlnDB /\ now \in Nat
  BY CallHoldsInstance DEF SetFailed, CopyInv, TypeOK, OtherTypes
<1>2. WithPhase("Failed") \in TlnDBStatus
  BY <1>1, WithPhaseType DEF Phases
<1>3. QED
  BY <1>1, <1>2, PatchAndReturn DEF SetFailed

(***************************************************************************)
(* reconcileDeletion.  Nothing is live while it runs, so removing the      *)
(* finalizer takes no live TlnDB away.                                     *)
(***************************************************************************)
LEMMA SetTerminatingStep == CopyInv /\ SetTerminating => Keeps
<1> SUFFICES ASSUME CopyInv, SetTerminating PROVE Keeps
  OBVIOUS
<1>1. inst \in TlnDB /\ now \in Nat
  BY CallHoldsInstance DEF SetTerminating, CopyInv, TypeOK, OtherTypes
<1>2. WithPhase("Terminating") \in TlnDBStatus
  BY <1>1, WithPhaseType DEF Phases
<1>3. PICK reply \in {"ok", "error"} :
        /\ PatchStatus(WithPhase("Terminating"), reply)
        /\ IF reply = "ok"
             THEN /\ KeepInstance(WithPhase("Terminating"), reply)
                  /\ pc' = "RemoveFinalizer"
                  /\ UNCHANGED <<hash, managed, timer>>
             ELSE Return(TRUE)
  BY DEF SetTerminating
<1>4. UNCHANGED <<obj, childCache, Environment>>
  BY DEF SetTerminating
<1>5. CASE reply = "ok"
  <2>1. pc \in DeletionSteps /\ pc' \in DeletionSteps
    BY <1>3, <1>5 DEF SetTerminating, DeletionSteps
  <2>2. QED
    BY <1>1, <1>2, <1>3, <1>4, <1>5, <2>1, PatchAndContinue
<1>6. CASE reply = "error"
  BY <1>1, <1>2, <1>3, <1>4, <1>6, PatchAndReturn
<1>7. QED
  BY <1>5, <1>6

\* The Update that lets the TlnDB go.
LEMMA RemoveFinalizerStep == CopyInv /\ RemoveFinalizer => Keeps
<1> SUFFICES ASSUME CopyInv, RemoveFinalizer PROVE Keeps
  OBVIOUS
<1> USE DEF CopyInv, TypeOK, Keeps, Claims
<1>1. CallTypes' /\ UpdateClaim' /\ CallClaims' /\ timer' \in BOOLEAN
  BY ReturnKeeps DEF RemoveFinalizer, OtherTypes
<1>2. ChildTypes' /\ ChildCurrent'
  BY IdleChildren DEF RemoveFinalizer
<1>3. UNCHANGED <<ext, cext, uids, edits, now>> /\ faults' \in Nat
  <2>1. UNCHANGED faults \/ faults' = faults + 1
    BY DEF RemoveFinalizer, Fault
  <2>2. QED
    BY <2>1 DEF RemoveFinalizer, Environment, OtherTypes
<1>4. CASE StoreCR(None)
  <2>1. CallClaims => ~ Live(ccr)
    BY DEF RemoveFinalizer, CallClaims, DeletionSteps
  <2>2. /\ TlnDBTypes' /\ CacheCurrent' /\ queued' \in BOOLEAN
        /\ cr' = None /\ (ccr' = ccr \/ ccr' = cr')
    BY <1>4, StoreCRKeeps DEF OtherTypes
  <2>3. Claims => CacheClaims'
    BY <2>1, <2>2 DEF CacheClaims, Live
  <2>4. OtherTypes'
    BY <1>1, <1>3, <2>2 DEF OtherTypes
  <2>5. QED
    BY <1>1, <1>2, <2>2, <2>3, <2>4
<1>5. CASE UNCHANGED crSide
  BY <1>1, <1>2, <1>3, <1>5 DEF crSide, crCache, TlnDBTypes, OtherTypes, CacheCurrent,
                                CacheClaims, Live
<1>6. QED
  BY <1>4, <1>5 DEF RemoveFinalizer

(***************************************************************************)
(* A step of reconcileResources that leaves the TlnDB and instance alone.  *)
(***************************************************************************)
LEMMA ResourceStepKeeps ==
  ASSUME CopyInv, pc \in ResourceSteps, pc' \in ResourceSteps,
         UNCHANGED <<cr, crCache, inst, instFresh>>,
         hash' \in Hashes \cup {None}, managed' \in SUBSET Child,
         ChildTypes', ChildCurrent', OtherTypes'
  PROVE  Keeps
<1> USE DEF CopyInv, TypeOK, Keeps, Claims, crCache
<1>1. TlnDBTypes' /\ CacheCurrent' /\ (CacheClaims => CacheClaims')
  BY DEF TlnDBTypes, CacheCurrent, CacheClaims, Live
<1>2. CallTypes' /\ UpdateClaim'
  BY StepKinds DEF CallTypes, UpdateClaim
<1>3. CallClaims => CallClaims'
  BY StepKinds DEF CallClaims
<1>4. QED
  BY <1>1, <1>2, <1>3

(***************************************************************************)
(* The createOrUpdate helpers.                                             *)
(***************************************************************************)
LEMMA WrittenType ==
  ASSUME CopyInv, NEW k \in Child, inst \in TlnDB
  PROVE  Written(k) \in ObjectOf(k)
<1>1. Desired(k) \in BodyOf(k) /\ inst.uid \in Nat \ {0}
  BY BuildType DEF Desired, TlnDB, CopyInv, TypeOK, CallTypes
<1>2. Existing(k) \in ObjectOf(k) \cup {None}
  BY DEF Existing, Watched, CopyInv, TypeOK, ChildTypes
<1>3. QED
  BY <1>1, <1>2, NewObjectType, UpdatedObjectType DEF Written

\* A createOrUpdate helper, whichever way its request ends.
LEMMA CreateOrUpdateStep ==
  ASSUME CopyInv, NEW k \in Child, CreateOrUpdate(k) PROVE Keeps
<1>1. k \in Steps /\ k # "PersistStatus" /\ pc = k
  BY StepNames DEF CreateOrUpdate, Child, Services, StatefulSets, Optional
<1>2. inst \in TlnDB
  BY <1>1, StepKinds, CallHoldsInstance
<1>3. PICK reply \in {"ok", "error"} : Apply(k, reply)
  BY DEF CreateOrUpdate
<1>4. ChildTypes' /\ ChildCurrent' /\ queued' \in BOOLEAN /\ faults' \in Nat
  <2>1. faults' \in Nat
    BY <1>3 DEF Apply, Fault, CopyInv, TypeOK, OtherTypes
  <2>2. CASE Store(k, Written(k))
    BY <1>2, <2>1, <2>2, StoreKeeps, StoreKeepsCurrent, WrittenType
       DEF CopyInv, TypeOK, OtherTypes
  <2>3. CASE UNCHANGED childSide
    BY <2>1, <2>3, IdleChildren DEF childSide, CopyInv, TypeOK, OtherTypes
  <2>4. QED
    BY <1>3, <2>2, <2>3 DEF Apply
<1>5. OtherTypes'
  BY <1>4 DEF CreateOrUpdate, Environment, OtherTypes, CopyInv, TypeOK
<1>6. pc \in ResourceSteps /\ pc' \in ResourceSteps
  <2>1. NextStep(k, inst.spec) \in ResourceSteps
    BY <1>1, StepKinds, NextStepIsStep
  <2>2. "ServiceMonitorMissing" \in ResourceSteps /\ "SetFailed" \in ResourceSteps
    BY DEF ResourceSteps, ConditionSteps
  <2>3. QED
    BY <1>1, <2>1, <2>2, StepKinds DEF CreateOrUpdate
<1>7. hash' \in Hashes \cup {None} /\ managed' \in SUBSET Child
  <2>1. k = "ConfigMap" => Desired(k) \in Configs
    BY <1>2 DEF Desired, Build, BuildConfigMap, TlnDB, TlnDBSpec
  <2>2. k = "ConfigMap" => HashStringData(Desired(k)) \in Hashes
    BY <2>1, DigestAssumption DEF HashStringData
  <2>3. QED
    BY <2>2 DEF CreateOrUpdate, CopyInv, TypeOK, CallTypes
<1>8. QED
  BY <1>4, <1>5, <1>6, <1>7, ResourceStepKeeps DEF CreateOrUpdate

(***************************************************************************)
(* The external ConfigMap and the pruning of the follower set.             *)
(***************************************************************************)
LEMMA ExternalConfigMapStep == CopyInv /\ ExternalConfigMap => Keeps
<1> SUFFICES ASSUME CopyInv, ExternalConfigMap PROVE Keeps
  OBVIOUS
<1>1. pc \in Steps \ {"PersistStatus"} /\ pc \in ResourceSteps
  BY StepNames, StepKinds DEF ExternalConfigMap
<1>2. pc' \in ResourceSteps
  <2>1. NextStep(pc, inst.spec) \in ResourceSteps
    BY <1>1, StepKinds, NextStepIsStep
  <2>2. "ConfigMapMissing" \in ResourceSteps
    BY DEF ResourceSteps, ConditionSteps
  <2>3. QED
    BY <2>1, <2>2 DEF ExternalConfigMap
<1>3. hash' \in Hashes \cup {None}
  BY DigestAssumption DEF ExternalConfigMap, HashStringData, CopyInv, TypeOK, CallTypes,
                          OtherTypes
<1>4. ChildTypes' /\ ChildCurrent' /\ OtherTypes' /\ managed' \in SUBSET Child
  BY IdleChildren DEF ExternalConfigMap, server, queue, Environment, CopyInv, TypeOK,
     OtherTypes, CallTypes
<1>5. UNCHANGED <<cr, crCache, inst, instFresh>>
  BY DEF ExternalConfigMap, server
<1>6. QED
  BY <1>1, <1>2, <1>3, <1>4, <1>5, ResourceStepKeeps

\* deleteStatefulSetIfExists.
LEMMA PruneFollowerStep == CopyInv /\ PruneFollower => Keeps
<1> SUFFICES ASSUME CopyInv, PruneFollower PROVE Keeps
  OBVIOUS
<1>1. pc \in Steps \ {"PersistStatus"} /\ pc \in ResourceSteps
  BY StepNames, StepKinds DEF PruneFollower
<1>2. pc' \in ResourceSteps
  <2>1. NextStep(pc, inst.spec) \in ResourceSteps
    BY <1>1, StepKinds, NextStepIsStep
  <2>2. "SetFailed" \in ResourceSteps
    BY DEF ResourceSteps
  <2>3. QED
    BY <2>1, <2>2 DEF PruneFollower
<1>3. ChildTypes' /\ ChildCurrent' /\ queued' \in BOOLEAN /\ faults' \in Nat
  <2>1. faults' \in Nat
    BY DEF PruneFollower, Fault, CopyInv, TypeOK, OtherTypes
  <2>2. CASE Store("FollowerStatefulSet", None)
    BY <2>1, <2>2, StoreKeeps, StoreKeepsCurrent
       DEF CopyInv, TypeOK, OtherTypes, Child, StatefulSets
  <2>3. CASE UNCHANGED childSide
    BY <2>1, <2>3, IdleChildren DEF childSide, CopyInv, TypeOK, OtherTypes
  <2>4. QED
    BY <2>2, <2>3 DEF PruneFollower
<1>4. OtherTypes' /\ hash' \in Hashes \cup {None} /\ managed' \in SUBSET Child
  BY <1>3 DEF PruneFollower, Environment, locals, OtherTypes, CallTypes, CopyInv, TypeOK
<1>5. UNCHANGED <<cr, crCache, inst, instFresh>>
  BY DEF PruneFollower, locals
<1>6. QED
  BY <1>1, <1>2, <1>3, <1>4, <1>5, ResourceStepKeeps

(***************************************************************************)
(* setCondition, the final status of reconcileResources, and syncStatus.   *)
(***************************************************************************)
LEMMA SetConditionStep == CopyInv /\ SetCondition => Keeps
<1> SUFFICES ASSUME CopyInv, SetCondition PROVE Keeps
  OBVIOUS
<1> DEFINE c == ConditionOf(pc)
           v == IF pc = c THEN "True" ELSE "False"
<1>1. pc \in ResourceSteps /\ inst \in TlnDB
  BY StepKinds, CallHoldsInstance DEF SetCondition
<1>2. c \in ConditionTypes /\ c \in Steps \ {"PersistStatus"}
  BY StepNames DEF SetCondition, ConditionSteps, ConditionOf, ConditionTypes
<1>3. v \in {"True", "False"}
  OBVIOUS
<1>4. WithCondition(c, v) \in TlnDBStatus
  BY <1>1, <1>2, <1>3, WithConditionType
<1>5. pc' \in ResourceSteps
  <2>1. \A spec : NextStep(c, spec) \in ResourceSteps
    BY <1>2, StepKinds, NextStepIsStep
  <2>2. "SetFailed" \in ResourceSteps
    BY DEF ResourceSteps
  <2>3. QED
    BY <2>1, <2>2 DEF SetCondition
<1>6. PICK reply \in {"ok", "error"} :
        PatchStatus(WithCondition(c, v), reply) /\ KeepInstance(WithCondition(c, v), reply)
  BY DEF SetCondition
<1>7. UNCHANGED <<obj, childCache, timer, hash, managed, Environment>>
  BY DEF SetCondition
<1> HIDE DEF c, v
<1>8. QED
  BY <1>1, <1>4, <1>5, <1>6, <1>7, PatchAndContinue

\* The status patch that ends reconcileResources.
LEMMA PersistStatusStep == CopyInv /\ PersistStatus => Keeps
<1> SUFFICES ASSUME CopyInv, PersistStatus PROVE Keeps
  OBVIOUS
<1> DEFINE new == [inst.status EXCEPT
                     !.managedResources = managed,
                     !.currentImage = inst.spec.image,
                     !.lastUpdateTime = now,
                     !.observedGeneration = inst.generation]
<1>1. pc \in ResourceSteps /\ pc' \in ResourceSteps
  BY StepNames, StepKinds DEF PersistStatus, ResourceSteps
<1>2. inst \in TlnDB
  BY <1>1, StepKinds, CallHoldsInstance
<1>3. new \in TlnDBStatus
  <2>1. /\ inst.status \in TlnDBStatus /\ inst.generation \in Nat
        /\ inst.spec.image \in Images /\ now \in Nat /\ managed \in SUBSET Child
    BY <1>2 DEF TlnDB, TlnDBSpec, CopyInv, TypeOK, OtherTypes, CallTypes
  <2>2. QED
    BY <2>1 DEF TlnDBStatus
<1>4. PICK reply \in {"ok", "error"} : PatchStatus(new, reply) /\ KeepInstance(new, reply)
  BY DEF PersistStatus
<1>5. UNCHANGED <<obj, childCache, timer, hash, managed, Environment>>
  BY DEF PersistStatus
<1> HIDE DEF new
<1>6. QED
  BY <1>1, <1>2, <1>3, <1>4, <1>5, PatchAndContinue

\* syncStatus, with or without a StatefulSet in the cache.
LEMMA SyncStatusStep == CopyInv /\ SyncStatus => Keeps
<1> SUFFICES ASSUME CopyInv, SyncStatus PROVE Keeps
  OBVIOUS
<1> DEFINE sts == cobj[primaryStatefulSet(inst.spec)]
           phase == PhaseOf(sts, inst.spec)
           v == IF phase = "Running" THEN "True" ELSE "False"
           new == [WithCondition("StatefulSetReady", v)
                     EXCEPT !.readyReplicas = sts.ready, !.phase = phase]
<1>1. inst \in TlnDB
  BY CallHoldsInstance DEF SyncStatus
<1>2. UNCHANGED <<obj, childCache, Environment>>
  BY DEF SyncStatus
<1>3. CASE sts = None
  <2>1. Return(TRUE) /\ UNCHANGED <<crSide, faults>>
    BY <1>3 DEF SyncStatus
  <2>2. CallTypes' /\ UpdateClaim' /\ CallClaims' /\ timer' \in BOOLEAN
    BY <2>1, ReturnKeeps DEF CopyInv, TypeOK, OtherTypes
  <2>3. TlnDBTypes' /\ CacheCurrent' /\ (CacheClaims => CacheClaims')
    BY <2>1 DEF crSide, crCache, CopyInv, TypeOK, TlnDBTypes, CacheCurrent, CacheClaims, Live
  <2>4. ChildTypes' /\ ChildCurrent' /\ OtherTypes'
    BY <1>2, <2>1, <2>2, IdleChildren DEF crSide, Environment, CopyInv, TypeOK, OtherTypes
  <2>5. QED
    BY <2>2, <2>3, <2>4 DEF CopyInv, TypeOK, Keeps, Claims
<1>4. CASE sts # None
  <2>1. sts.ready \in Nat
    <3>1. primaryStatefulSet(inst.spec) \in Watched
      BY DEF primaryStatefulSet, Watched, Child, StatefulSets
    <3>2. sts \in ObjectOf(primaryStatefulSet(inst.spec))
      BY <1>4, <3>1 DEF CopyInv, TypeOK, ChildTypes
    <3>3. QED
      BY <3>2 DEF ObjectOf
  <2>2. phase \in Phases
    BY DEF PhaseOf, Phases
  <2>3. WithCondition("StatefulSetReady", v) \in TlnDBStatus
    BY <1>1, WithConditionType DEF ConditionTypes
  <2>4. new \in TlnDBStatus
    BY <2>1, <2>2, <2>3 DEF TlnDBStatus
  <2>5. PICK reply \in {"ok", "error"} :
          PatchStatus(new, reply) /\ Return(reply = "error" \/ phase # "Running")
    BY <1>4 DEF SyncStatus
  <2> HIDE DEF new, phase
  <2>6. (reply = "error" \/ phase # "Running") \in BOOLEAN
    OBVIOUS
  <2>7. QED
    BY <1>1, <1>2, <2>4, <2>5, <2>6, PatchAndReturn
<1>5. QED
  BY <1>3, <1>4

(***************************************************************************)
(* A restart ends the call and lists everything anew.                      *)
(***************************************************************************)
LEMMA RestartStep == CopyInv /\ Restart => Keeps
<1> SUFFICES ASSUME CopyInv, Restart PROVE Keeps
  OBVIOUS
<1>1. TlnDBTypes' /\ CacheCurrent' /\ CacheClaims'
  BY DEF Restart, server, CopyInv, TypeOK, TlnDBTypes, CacheCurrent, CacheClaims, Live
<1>2. ChildTypes' /\ ChildCurrent'
  BY DEF Restart, server, CopyInv, TypeOK, ChildTypes, ChildCurrent, Watched
<1>3. CallTypes'
  BY DEF Restart, CallTypes, PC
<1>4. UpdateClaim' /\ CallClaims'
  BY StepKinds DEF Restart, UpdateClaim, CallClaims
<1>5. OtherTypes'
  <2>1. ext \in Configs \cup {None} /\ {uids, edits, faults, now} \subseteq Nat
    BY DEF CopyInv, TypeOK, OtherTypes
  <2>2. /\ UNCHANGED <<ext, uids, edits, now>> /\ faults' = faults + 1
        /\ cext' = ext /\ queued' = TRUE /\ timer' = FALSE
    BY DEF Restart, server, Fault
  <2>3. cext' \in Configs \cup {None} /\ ext' \in Configs \cup {None}
    BY <2>1, <2>2
  <2>4. {uids', edits', faults', now'} \subseteq Nat
    BY <2>1, <2>2
  <2>5. queued' \in BOOLEAN /\ timer' \in BOOLEAN
    BY <2>2
  <2>6. QED
    BY <2>3, <2>4, <2>5 DEF OtherTypes
<1>6. QED
  BY <1>1, <1>2, <1>3, <1>4, <1>5 DEF CopyInv, TypeOK, Keeps, Claims

(***************************************************************************)
(* A watch event for the TlnDB brings the cached copy up to date.  A call  *)
(* about to add the finalizer on an older copy has lost its claim before.  *)
(***************************************************************************)
LEMMA SyncCRStep == CopyInv /\ SyncCR => Keeps
<1> SUFFICES ASSUME CopyInv, SyncCR PROVE Keeps
  OBVIOUS
<1> USE DEF CopyInv, TypeOK, Keeps, Claims
<1>1. TlnDBTypes' /\ CacheCurrent' /\ CacheClaims'
  BY DEF SyncCR, server, TlnDBTypes, CacheCurrent, CacheClaims, Live
<1>2. ChildTypes' /\ ChildCurrent' /\ CallTypes' /\ OtherTypes'
  BY IdleChildren DEF SyncCR, server, locals, Environment, CallTypes, OtherTypes
<1>3. UpdateClaim' /\ (CallClaims => CallClaims')
  BY StepKinds DEF SyncCR, server, locals, UpdateClaim, CallClaims, Live
<1>4. QED
  BY <1>1, <1>2, <1>3

(***************************************************************************)
(* The other caches, the timer and the clock.                              *)
(***************************************************************************)
LEMMA DeliveryStep ==
  ASSUME CopyInv, (\E k \in Watched : SyncChild(k)) \/ SyncExt \/ TimerFires \/ Tick
  PROVE  Keeps
<1> USE DEF CopyInv, TypeOK
<1>1. CASE \E k \in Watched : SyncChild(k)
  <2>1. PICK k \in Watched : SyncChild(k)
    BY <1>1
  <2>2. k \in Child /\ obj[k] \in ObjectOf(k) \cup {None}
    BY DEF Watched, ChildTypes
  <2>3. ChildTypes' /\ ChildCurrent'
    BY <2>1, <2>2 DEF SyncChild, server, ChildTypes, ChildCurrent
  <2>4. OtherTypes'
    BY <2>1 DEF SyncChild, server, Environment, OtherTypes
  <2>5. QED
    BY <2>1, <2>3, <2>4, ElsewhereKeeps DEF SyncChild, server
<1>2. CASE SyncExt
  BY <1>2, ElsewhereKeeps, IdleChildren DEF SyncExt, server, queue, OtherTypes
<1>3. CASE TimerFires
  BY <1>3, ElsewhereKeeps, IdleChildren DEF TimerFires, server, Environment, OtherTypes
<1>4. CASE Tick
  BY <1>4, ElsewhereKeeps, IdleChildren DEF Tick, server, queue, OtherTypes
<1>5. QED
  BY <1>1, <1>2, <1>3, <1>4

\* Deliveries and the cluster leave the stored TlnDB and the call alone.
LEMMA ClusterLeaves ==
  ASSUME Cluster
  PROVE  /\ UNCHANGED <<cr, pc, inst, instFresh, hash, managed>>
         /\ ccr' = ccr \/ ccr' = cr'
         /\ faults' = faults \/ faults' = faults + 1
<1> DEFINE Left == /\ UNCHANGED <<cr, pc, inst, instFresh, hash, managed>>
                   /\ ccr' = ccr \/ ccr' = cr'
                   /\ faults' = faults \/ faults' = faults + 1
<1>1. CASE SyncCR \/ SyncExt \/ TimerFires \/ Tick
  BY <1>1 DEF SyncCR, SyncExt, TimerFires, Tick, server, crCache, locals
<1>2. ASSUME NEW k, SyncChild(k) PROVE Left
  BY <1>2 DEF SyncChild, server, crCache, locals
<1>3. ASSUME NEW k, NEW new, ClusterWrites(k, new), faults' = faults \/ Fault PROVE Left
  BY <1>3 DEF ClusterWrites, Fault, crCache, locals
<1> HIDE DEF Left
<1>4. ASSUME NEW k, CollectGarbage(k) \/ DeleteChild(k) PROVE Left
  BY <1>3, <1>4 DEF CollectGarbage, DeleteChild
<1>5. ASSUME NEW k, StsObserve(k) \/ PodReady(k) \/ PodFails(k) PROVE Left
  BY <1>3, <1>5 DEF StsObserve, PodReady, PodFails
<1>6. ASSUME Autoscale PROVE Left
  <2>1. PICK n \in ScaleTo :
          ClusterWrites(HPATarget, [obj[HPATarget] EXCEPT !.body.replicas = n,
                                                          !.observed = FALSE])
    BY <1>6 DEF Autoscale
  <2>2. PICK new : ClusterWrites(HPATarget, new)
    BY <2>1
  <2>3. Fault
    BY <1>6 DEF Autoscale
  <2>4. QED
    BY <1>3, <2>2, <2>3
<1>7. Left
  BY <1>1, <1>2, <1>4, <1>5, <1>6 DEF Cluster, Left
<1>8. QED
  BY <1>7 DEF Left

(***************************************************************************)
(* What the rest of the cluster writes to a child.                         *)
(***************************************************************************)
LEMMA ClusterWritesKeeps ==
  ASSUME CopyInv, NEW k \in Child, NEW new \in ObjectOf(k) \cup {None},
         ClusterWrites(k, new), faults' \in Nat
  PROVE  Keeps
<1>1. ChildTypes' /\ ChildCurrent' /\ queued' \in BOOLEAN
  BY StoreKeeps, StoreKeepsCurrent DEF ClusterWrites, CopyInv, TypeOK, OtherTypes
<1>2. OtherTypes'
  BY <1>1 DEF ClusterWrites, Environment, CopyInv, TypeOK, OtherTypes
<1>3. QED
  BY <1>1, <1>2, ElsewhereKeeps DEF ClusterWrites

\* The StatefulSet controller, the kubelet, the garbage collector, a hand.
LEMMA ChildStep ==
  ASSUME CopyInv, NEW k \in Child,
         StsObserve(k) \/ PodReady(k) \/ PodFails(k) \/ CollectGarbage(k) \/ DeleteChild(k)
  PROVE  Keeps
<1>1. /\ faults \in Nat /\ obj[k] \in ObjectOf(k) \cup {None}
  BY DEF CopyInv, TypeOK, ChildTypes, OtherTypes
<1>2. ASSUME obj[k] # None
      PROVE  obj[k].ready \in Nat /\ obj[k] \in ObjectOf(k)
  BY <1>1, <1>2 DEF ObjectOf
<1>3. CASE StsObserve(k)
  <2>1. PICK r \in 0 .. obj[k].ready :
           ClusterWrites(k, [obj[k] EXCEPT !.observed = TRUE, !.ready = r])
    BY <1>3 DEF StsObserve
  <2>2. obj[k] # None
    BY <1>3 DEF StsObserve
  <2> obj[k] \in ObjectOf(k) /\ r \in Nat
    BY <1>2, <2>2
  <2>3. [obj[k] EXCEPT !.observed = TRUE, !.ready = r] \in ObjectOf(k)
    BY DEF ObjectOf
  <2>4. QED
    BY <1>1, <1>3, <2>1, <2>3, ClusterWritesKeeps DEF StsObserve
<1>4. CASE PodReady(k)
  <2>1. [obj[k] EXCEPT !.ready = @ + 1] \in ObjectOf(k)
    BY <1>2, <1>4 DEF PodReady, ObjectOf
  <2>2. QED
    BY <1>1, <1>4, <2>1, ClusterWritesKeeps DEF PodReady
<1>5. CASE PodFails(k)
  <2>1. [obj[k] EXCEPT !.ready = @ - 1] \in ObjectOf(k)
    BY <1>2, <1>5 DEF PodFails, ObjectOf
  <2>2. QED
    BY <1>1, <1>5, <2>1, ClusterWritesKeeps DEF PodFails, Fault
<1>6. CASE CollectGarbage(k)
  BY <1>1, <1>6, ClusterWritesKeeps DEF CollectGarbage
<1>7. CASE DeleteChild(k)
  BY <1>1, <1>7, ClusterWritesKeeps DEF DeleteChild, Fault
<1>8. QED
  BY <1>3, <1>4, <1>5, <1>6, <1>7

\* The autoscaler resizes a StatefulSet.
LEMMA AutoscaleStep == CopyInv /\ Autoscale => Keeps
<1> SUFFICES ASSUME CopyInv, Autoscale PROVE Keeps
  OBVIOUS
<1> DEFINE k == HPATarget
<1>1. k \in Child /\ k \in StatefulSets
  BY DEF HPATarget, Child, StatefulSets
<1>2. PICK n \in ScaleTo :
         ClusterWrites(k, [obj[k] EXCEPT !.body.replicas = n, !.observed = FALSE])
  BY DEF Autoscale
<1>3. obj[k] \in ObjectOf(k) /\ faults \in Nat /\ n \in Nat
  BY <1>1, InputAssumption DEF Autoscale, CopyInv, TypeOK, ChildTypes, OtherTypes
<1>4. obj[k].body \in StatefulSetBody
  BY <1>1, <1>3, StatefulSetBodies DEF ObjectOf
<1>5. [obj[k].body EXCEPT !.replicas = n] \in StatefulSetBody
  BY <1>3, <1>4 DEF StatefulSetBody
<1>6. [obj[k] EXCEPT !.body.replicas = n, !.observed = FALSE] \in ObjectOf(k)
  BY <1>1, <1>3, <1>5, StatefulSetBodies DEF ObjectOf
<1>7. QED
  BY <1>1, <1>2, <1>3, <1>6, ClusterWritesKeeps DEF Autoscale, Fault

(***************************************************************************)
(* Users.  A new TlnDB is not live yet; deleting a live one keeps its      *)
(* finalizer, so it stays stored until the operator lets go.               *)
(***************************************************************************)
LEMMA UserWritesKeeps ==
  ASSUME CopyInv, NEW new \in TlnDB \cup {None}, UserWrites(new),
         uids' \in Nat, edits' \in Nat,
         Claims /\ new = None => ~ Live(ccr) /\ pc \notin ResourceSteps,
         new # None /\ cr = None => ~ new.finalizer,
         new # None /\ cr # None =>
           /\ new.uid = cr.uid /\ new.finalizer = cr.finalizer
           /\ cr.deleting => new.deleting
  PROVE  Keeps
<1> USE DEF CopyInv, TypeOK, Keeps, Claims
<1>1. /\ TlnDBTypes' /\ CacheCurrent' /\ queued' \in BOOLEAN
      /\ cr' = new /\ (ccr' = ccr \/ ccr' = cr')
  BY StoreCRKeeps DEF UserWrites, OtherTypes
<1>2. UNCHANGED <<pc, inst, hash, managed>> /\ instFresh' = FALSE
  BY DEF UserWrites
<1>3. ChildTypes' /\ ChildCurrent' /\ CallTypes' /\ OtherTypes'
  <2>1. ChildTypes' /\ ChildCurrent'
    BY IdleChildren DEF UserWrites
  <2>2. CallTypes'
    BY <1>2 DEF CallTypes
  <2>3. OtherTypes'
    BY <1>1 DEF UserWrites, OtherTypes
  <2>4. QED
    BY <2>1, <2>2, <2>3
<1>4. UpdateClaim'
  BY <1>2 DEF UpdateClaim
<1>5. Claims => CacheClaims'
  BY <1>1 DEF CacheClaims, Live
<1>6. ASSUME Claims PROVE CallClaims'
  <2>1. (pc \in DeletionSteps => ~ Live(cr) /\ ~ Live(ccr))'
    BY <1>1, <1>2, <1>6 DEF CallClaims, Live
  <2>2. (pc \in ResourceSteps => cr # None /\ cr.finalizer /\ cr.uid = inst.uid)'
    BY <1>1, <1>2, <1>6 DEF CallClaims
  <2>3. QED
    BY <2>1, <2>2 DEF CallClaims
<1>7. QED
  BY <1>1, <1>3, <1>4, <1>5, <1>6

\* Creating, editing and deleting the TlnDB, and the external ConfigMap.
LEMMA UserStep == CopyInv /\ Users => Keeps
<1> SUFFICES ASSUME CopyInv, Users PROVE Keeps
  OBVIOUS
<1>1. uids \in Nat /\ edits \in Nat /\ cr \in TlnDB \cup {None}
  BY DEF CopyInv, TypeOK, OtherTypes, TlnDBTypes
<1>2. CASE UserCreate
  <2>1. PICK spec \in UserSpecs :
          UserWrites([uid |-> uids + 1, generation |-> 1, spec |-> spec,
                      deleting |-> FALSE, finalizer |-> FALSE,
                      status |-> EmptyStatus])
    BY <1>2 DEF UserCreate
  <2> DEFINE new == [uid |-> uids + 1, generation |-> 1, spec |-> spec,
                     deleting |-> FALSE, finalizer |-> FALSE,
                     status |-> EmptyStatus]
  <2>2. EmptyStatus \in TlnDBStatus
    BY DEF EmptyStatus, TlnDBStatus, Condition, Phases
  <2>3. spec \in TlnDBSpec
    BY InputAssumption
  <2>4. new \in TlnDB /\ new.finalizer = FALSE
    BY <1>1, <2>2, <2>3 DEF TlnDB
  <2>5. UserWrites(new)
    BY <2>1
  <2> HIDE DEF new
  <2>6. new # None
    BY <2>4, NoneAssumption
  <2>7. cr = None /\ uids' \in Nat /\ edits' \in Nat
    BY <1>1, <1>2 DEF UserCreate
  <2>8. QED
    BY <2>4, <2>5, <2>6, <2>7, UserWritesKeeps
<1>3. CASE UserEdit
  <2>1. PICK spec \in UserSpecs :
          UserWrites([cr EXCEPT !.spec = spec, !.generation = @ + 1])
    BY <1>3 DEF UserEdit
  <2> DEFINE new == [cr EXCEPT !.spec = spec, !.generation = @ + 1]
  <2>2. cr # None /\ cr \in TlnDB /\ uids' \in Nat /\ edits' \in Nat
    BY <1>1, <1>3 DEF UserEdit
  <2>3. spec \in TlnDBSpec
    BY InputAssumption
  <2>4. /\ new \in TlnDB /\ new.uid = cr.uid /\ new.finalizer = cr.finalizer
        /\ new.deleting = cr.deleting
    <3> DEFINE g == cr.generation + 1
    <3>1. g \in Nat /\ new = [cr EXCEPT !.spec = spec, !.generation = g]
      BY <2>2 DEF TlnDB
    <3> HIDE DEF g, new
    <3>2. QED
      BY <2>2, <2>3, <3>1 DEF TlnDB
  <2>5. UserWrites(new) /\ new # None
    BY <2>1, <2>4, NoneAssumption
  <2> HIDE DEF new
  <2>6. QED
    BY <2>2, <2>4, <2>5, UserWritesKeeps
<1>4. CASE UserDelete
  <2>1. cr # None /\ cr \in TlnDB /\ uids' \in Nat /\ edits' \in Nat
    BY <1>1, <1>4 DEF UserDelete
  <2>2. CASE cr.finalizer
    <3> DEFINE new == [cr EXCEPT !.deleting = TRUE, !.generation = @ + 1]
    <3>1. /\ new \in TlnDB /\ new.uid = cr.uid /\ new.finalizer = cr.finalizer
          /\ new.deleting = TRUE
      <4> DEFINE g == cr.generation + 1
      <4>1. g \in Nat /\ new = [cr EXCEPT !.deleting = TRUE, !.generation = g]
        BY <2>1 DEF TlnDB
      <4> HIDE DEF g, new
      <4>2. QED
        BY <2>1, <4>1 DEF TlnDB
    <3>2. UserWrites(new) /\ new # None
      BY <1>4, <2>2, <3>1, NoneAssumption DEF UserDelete
    <3> HIDE DEF new
    <3>3. QED
      BY <2>1, <3>1, <3>2, UserWritesKeeps
  <2>3. CASE ~ cr.finalizer
    <3>1. UserWrites(None)
      BY <1>4, <2>3 DEF UserDelete
    <3>2. Claims => ~ Live(ccr) /\ pc \notin ResourceSteps
      BY <2>3 DEF Claims, CacheClaims, CallClaims
    <3>3. QED
      BY <2>1, <3>1, <3>2, UserWritesKeeps
  <2>4. QED
    BY <2>2, <2>3
<1>5. CASE ExtEdit
  <2>1. ChildTypes' /\ ChildCurrent'
    BY <1>5, IdleChildren DEF ExtEdit, CopyInv, TypeOK
  <2>2. OtherTypes'
    BY <1>1, <1>5, InputAssumption DEF ExtEdit, queue, CopyInv, TypeOK, OtherTypes
  <2>3. QED
    BY <1>5, <2>1, <2>2, ElsewhereKeeps DEF ExtEdit
<1>6. QED
  BY <1>2, <1>3, <1>4, <1>5 DEF Users

-----------------------------------------------------------------------------
(***************************************************************************)
(* A status patch leaves the identity of the stored TlnDB and all children *)
(* alone.                                                                  *)
(***************************************************************************)
LEMMA PatchKeepsOwner ==
  ASSUME CopyInv, pc # "idle", NEW new \in TlnDBStatus, NEW reply,
         PatchStatus(new, reply)
  PROVE  SameOwner
BY CallHoldsInstance, PatchStatusKeeps DEF CopyInv, TypeOK

\* The six steps that patch the status.
LEMMA StatusSteps ==
  ASSUME CopyInv,
         SetProvisioning \/ SetFailed \/ SetTerminating \/ SetCondition
           \/ PersistStatus \/ SyncStatus
  PROVE  SameOwner /\ UNCHANGED <<obj, childCache, uids>>
<1>1. UNCHANGED <<obj, childCache, uids>>
  BY DEF SetProvisioning, SetFailed, SetTerminating, SetCondition, PersistStatus,
         SyncStatus, Environment
<1>2. pc # "idle"
  BY StepNames, StepKinds DEF SetProvisioning, SetFailed, SetTerminating, SetCondition,
     PersistStatus, SyncStatus
<1>3. inst \in TlnDB /\ now \in Nat
  BY <1>2, CallHoldsInstance DEF CopyInv, TypeOK, OtherTypes
<1>4. CASE SetProvisioning \/ SetFailed \/ SetTerminating
  <2>1. \A phase \in Phases : WithPhase(phase) \in TlnDBStatus
    BY <1>3, WithPhaseType
  <2>2. PICK phase \in Phases, reply \in {"ok", "error"} :
          PatchStatus(WithPhase(phase), reply)
    BY <1>4 DEF SetProvisioning, SetFailed, SetTerminating, Phases
  <2>3. QED
    BY <1>1, <1>2, <2>1, <2>2, PatchKeepsOwner
<1>5. CASE SetCondition
  <2> DEFINE c == ConditionOf(pc)
             v == IF pc = c THEN "True" ELSE "False"
  <2>1. c \in ConditionTypes /\ v \in {"True", "False"}
    BY <1>5 DEF SetCondition, ConditionSteps, ConditionOf, ConditionTypes
  <2>2. WithCondition(c, v) \in TlnDBStatus
    BY <1>3, <2>1, WithConditionType
  <2>3. PICK reply : PatchStatus(WithCondition(c, v), reply)
    BY <1>5 DEF SetCondition
  <2> HIDE DEF c, v
  <2>4. QED
    BY <1>1, <1>2, <2>2, <2>3, PatchKeepsOwner
<1>6. CASE PersistStatus
  <2> DEFINE new == [inst.status EXCEPT
                       !.managedResources = managed,
                       !.currentImage = inst.spec.image,
                       !.lastUpdateTime = now,
                       !.observedGeneration = inst.generation]
  <2>1. /\ inst.status \in TlnDBStatus /\ inst.generation \in Nat
        /\ inst.spec.image \in Images /\ managed \in SUBSET Child
    BY <1>3 DEF TlnDB, TlnDBSpec, CopyInv, TypeOK, CallTypes
  <2>2. new \in TlnDBStatus
    BY <1>3, <2>1 DEF TlnDBStatus
  <2>3. PICK reply : PatchStatus(new, reply)
    BY <1>6 DEF PersistStatus
  <2> HIDE DEF new
  <2>4. QED
    BY <1>1, <1>2, <2>2, <2>3, PatchKeepsOwner
<1>7. CASE SyncStatus
  <2> DEFINE k == primaryStatefulSet(inst.spec)
             sts == cobj[k]
             phase == PhaseOf(sts, inst.spec)
             v == IF phase = "Running" THEN "True" ELSE "False"
             new == [WithCondition("StatefulSetReady", v)
                       EXCEPT !.readyReplicas = sts.ready, !.phase = phase]
  <2>1. CASE sts = None
    BY <1>1, <1>7, <2>1 DEF SyncStatus, crSide, SameOwner
  <2>2. CASE sts # None
    <3>1. k \in Watched
      BY DEF primaryStatefulSet, Watched, Child, StatefulSets
    <3>2. sts.ready \in Nat
      BY <2>2, <3>1 DEF CopyInv, TypeOK, ChildTypes, ObjectOf
    <3>3. phase \in Phases
      BY DEF PhaseOf, Phases
    <3>4. WithCondition("StatefulSetReady", v) \in TlnDBStatus
      BY <1>3, WithConditionType DEF ConditionTypes
    <3>5. new \in TlnDBStatus
      BY <3>2, <3>3, <3>4 DEF TlnDBStatus
    <3>6. PICK reply : PatchStatus(new, reply)
      BY <1>7, <2>2 DEF SyncStatus
    <3> HIDE DEF new
    <3>7. QED
      BY <1>1, <1>2, <3>5, <3>6, PatchKeepsOwner
  <2>3. QED
    BY <2>1, <2>2
<1>8. QED
  BY <1>4, <1>5, <1>6, <1>7

-----------------------------------------------------------------------------
(***************************************************************************)
(* Every step, and stuttering, preserves the invariant.                    *)
(***************************************************************************)
LEMMA NextKeeps == CopyInv /\ [Next]_vars => Keeps
<1> SUFFICES ASSUME CopyInv, [Next]_vars PROVE Keeps
  OBVIOUS
<1>1. CASE Operator
  BY <1>1, ReconcileStep, AddFinalizerStep, SetProvisioningStep, SetFailedStep,
     SetTerminatingStep, RemoveFinalizerStep, CreateOrUpdateStep, ExternalConfigMapStep,
     PruneFollowerStep, SetConditionStep, PersistStatusStep, SyncStatusStep
     DEF Operator
<1>2. CASE Restart
  BY <1>2, RestartStep
<1>3. CASE Cluster
  <2>1. Watched \subseteq Child /\ StatefulSets \subseteq Child
    BY DEF Watched, Child
  <2>2. QED
    BY <1>3, <2>1, SyncCRStep, DeliveryStep, ChildStep, AutoscaleStep DEF Cluster
<1>4. CASE Users
  BY <1>4, UserStep
<1>5. CASE UNCHANGED vars
  BY <1>5, ElsewhereKeeps, IdleChildren DEF vars, server, queue, CopyInv, TypeOK, OtherTypes
<1>6. QED
  BY <1>1, <1>2, <1>3, <1>4, <1>5 DEF Next

\* With the claims.
LEMMA NextIInv == IInv /\ [Next]_vars => IInv'
BY NextKeeps DEF IInv, Keeps

(***************************************************************************)
(* The inductive invariant holds throughout.                               *)
(***************************************************************************)
LEMMA AlwaysIInv == Spec => []IInv
BY InitIInv, NextIInv, PTL DEF Spec

(***************************************************************************)
(* Type correctness: in every state of every run a call past its Get holds *)
(* a TlnDB, every stored and cached child has the shape its builder gives  *)
(* it, and the call is at a step the code has.                             *)
(***************************************************************************)
THEOREM TypeCorrect == Spec => []TypeOK
<1>1. IInv => TypeOK
  BY DEF IInv, CopyInv
<1>2. QED
  BY <1>1, AlwaysIInv, PTL

(***************************************************************************)
(* Ownership: a cached TlnDB on which Reconcile would work on resources is *)
(* the stored one and holds the finalizer, and so does the copy a running  *)
(* call works with, however stale caches are and however often the TlnDB   *)
(* is deleted and created again under the same name.                       *)
(***************************************************************************)
THEOREM Ownership == Spec => []OwnershipInv
<1>1. IInv => OwnershipInv
  BY DEF IInv, CopyInv, Claims, OwnershipInv
<1>2. QED
  BY <1>1, AlwaysIInv, PTL

(***************************************************************************)
(* Only createOrUpdate brings a child into being, and then for the stored  *)
(* TlnDB, which holds the finalizer.                                       *)
(***************************************************************************)
LEMMA StoreTouchesOne ==
  ASSUME NEW k \in Child, NEW new, Store(k, new), obj = [c \in Child |-> obj[c]],
         NEW c \in Child, obj[c] = None, obj'[c] # None
  PROVE  c = k /\ obj'[c] = new
BY DEF Store

\* A step that creates a child does so for the stored, claimed TlnDB.
LEMMA CreationStep == IInv /\ [Next]_vars => CreatedForLiveOwner
<1> SUFFICES ASSUME IInv, [Next]_vars, NEW c \in Child, obj[c] = None, obj'[c] # None
             PROVE  cr # None /\ cr.finalizer /\ obj'[c].owner = cr.uid
  BY DEF CreatedForLiveOwner
<1>1. obj' # obj /\ obj = [k \in Child |-> obj[k]]
  BY DEF IInv, CopyInv, TypeOK, ChildTypes
<1>2. ASSUME NEW k \in Child, CreateOrUpdate(k)
      PROVE  cr # None /\ cr.finalizer /\ obj'[c].owner = cr.uid
  <2>1. Store(k, Written(k)) /\ Accepted(k)
    BY <1>1, <1>2 DEF CreateOrUpdate, Apply, childSide
  <2>2. c = k /\ obj'[c] = Written(k)
    BY <1>1, <2>1, StoreTouchesOne
  <2>3. obj'[c].owner = inst.uid
    BY <2>1, <2>2 DEF Accepted, Written, NewObject
  <2>4. pc \in ResourceSteps
    BY <1>2, StepNames, StepKinds DEF CreateOrUpdate
  <2>5. QED
    BY <2>3, <2>4 DEF IInv, Claims, CallClaims
<1>3. ASSUME NEW k \in Child, NEW new, Store(k, new), new # None => obj[k] # None
      PROVE  FALSE
  BY <1>1, <1>3, StoreTouchesOne
<1>4. CASE Operator
  <2>1. ~ PruneFollower
    <3>1. "FollowerStatefulSet" \in Child
      BY DEF Child, StatefulSets
    <3>2. QED
      BY <1>1, <1>3, <3>1 DEF PruneFollower, childSide
  <2>2. \E k \in Child : CreateOrUpdate(k)
    BY <1>1, <1>4, <2>1 DEF Operator, Reconcile, AddFinalizer, SetProvisioning, SetFailed,
       SetTerminating, RemoveFinalizer, ExternalConfigMap, SetCondition, PersistStatus,
       SyncStatus, server
  <2>3. QED
    BY <1>2, <2>2
<1>5. CASE Restart \/ Users \/ UNCHANGED vars
  BY <1>1, <1>5 DEF Restart, Users, UserCreate, UserEdit, UserDelete, UserWrites, ExtEdit,
                    vars, server
<1>6. CASE Cluster
  <2>1. ASSUME NEW k \in Child,
               StsObserve(k) \/ PodReady(k) \/ PodFails(k) \/ CollectGarbage(k)
                 \/ DeleteChild(k)
        PROVE  FALSE
    BY <1>3, <2>1 DEF StsObserve, PodReady, PodFails, CollectGarbage, DeleteChild, Orphan,
                      ClusterWrites
  <2>2. Watched \subseteq Child /\ StatefulSets \subseteq Child
    BY DEF Watched, Child
  <2>3. ~ Autoscale
    BY <1>3, <2>2 DEF Autoscale, ClusterWrites, HPATarget, StatefulSets
  <2>4. QED
    BY <1>1, <1>6, <2>1, <2>2, <2>3 DEF Cluster, SyncCR, SyncExt, TimerFires, SyncChild, Tick,
                                  server
<1>7. QED
  BY <1>4, <1>5, <1>6 DEF Next

(***************************************************************************)
(* Owned creation: whatever the caches show and whatever users do to the   *)
(* TlnDB meanwhile, a child is only created while the TlnDB that owns it   *)
(* is stored and holds the finalizer, and with that TlnDB's uid.           *)
(***************************************************************************)
THEOREM CreationIsOwned == Spec => OwnedCreation
<1>1. IInv /\ [Next]_vars => [CreatedForLiveOwner]_vars
  BY CreationStep
<1>2. QED
  BY <1>1, AlwaysIInv, PTL DEF Spec, OwnedCreation
=============================================================================
