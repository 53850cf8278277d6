----------------------- MODULE TlnDBGenerationProofs ------------------------
(***************************************************************************)
(* status.observedGeneration does not go back, for every set of specs,     *)
(* every lag and all bounds.                                               *)
(*                                                                         *)
(* A call may start from a copy of the TlnDB that is older than what an    *)
(* earlier call has recorded.  The condition ServiceReady is set on every  *)
(* path to the final patch; if that patch does not fail, its answer brings *)
(* the copy up to date, and the record is not changed in between.          *)
(***************************************************************************)
EXTENDS TlnDBProofs

-----------------------------------------------------------------------------
\* The call is past the condition ServiceReady.
Refreshed == pc \in Steps /\ "ServiceReady" \in Before(pc, inst.spec)

\* No copy of the stored TlnDB is ahead of it.
CopiesNotAhead ==
  /\ Live(ccr) => ccr.generation <= cr.generation
  /\ pc \in ResourceSteps => inst.generation <= cr.generation

\* Nor is what it records.
RecordNotAhead == cr # None => cr.status.observedGeneration <= cr.generation

\* Past that condition the call's copy is not behind the record.
CallUpToDate ==
  faults = 0 /\ Refreshed => inst.generation >= cr.status.observedGeneration

GInv == IInv /\ CopiesNotAhead /\ RecordNotAhead /\ CallUpToDate

-----------------------------------------------------------------------------
(***************************************************************************)
(* What every step but PersistStatus does to the stored TlnDB.             *)
(***************************************************************************)
RecordKept ==
  /\ ccr' = ccr \/ ccr' = cr'
  /\ \/ cr' = None
     \/ cr = None /\ cr' # None /\ cr'.status.observedGeneration = 0
     \/ /\ cr # None /\ cr' # None
        /\ cr'.generation >= cr.generation
        /\ cr'.status.observedGeneration = cr.status.observedGeneration

\* The numbers that are compared.
Numeric ==
  /\ cr # None => cr.generation \in Nat /\ cr.status.observedGeneration \in Nat
  /\ ccr # None => ccr.generation \in Nat
  /\ pc # "idle" => inst.generation \in Nat
  /\ faults \in Nat

\* They are numbers before and after a step.
LEMMA Numbers == (IInv => Numeric) /\ (IInv' => Numeric')
<1>1. IInv => Numeric
  BY DEF IInv, CopyInv, TypeOK, TlnDBTypes, CallTypes, OtherTypes, TlnDB, TlnDBStatus, Numeric
<1>2. IInv' => Numeric'
  BY DEF IInv, CopyInv, TypeOK, TlnDBTypes, CallTypes, OtherTypes, TlnDB, TlnDBStatus, Numeric
<1>3. QED
  BY <1>1, <1>2

(***************************************************************************)
(* A status patch leaves the generation alone, and the record too unless   *)
(* that is what it sets.                                                   *)
(***************************************************************************)
LEMMA PatchRecord ==
  ASSUME IInv, inst \in TlnDB, NEW new \in TlnDBStatus, NEW reply, PatchStatus(new, reply)
  PROVE  /\ ccr' = ccr \/ ccr' = cr'
         /\ cr = None <=> cr' = None
         /\ cr # None =>
              /\ cr'.generation = cr.generation
              /\ \/ cr'.status.observedGeneration = cr.status.observedGeneration
                 \/ /\ new.observedGeneration # inst.status.observedGeneration
                    /\ cr'.status.observedGeneration = new.observedGeneration
         /\ reply = "error" => cr = None \/ faults' = faults + 1
         /\ faults' = faults \/ faults' = faults + 1
<1>1. /\ SameOwner /\ (ccr' = ccr \/ ccr' = cr')
  BY PatchStatusKeeps DEF IInv, CopyInv, TypeOK
<1>2. ASSUME cr # None, StoreCR(Patched(new))
      PROVE  /\ cr'.generation = cr.generation
             /\ \/ cr'.status.observedGeneration = cr.status.observedGeneration
                \/ /\ new.observedGeneration # inst.status.observedGeneration
                   /\ cr'.status.observedGeneration = new.observedGeneration
  <2>1. cr \in TlnDB /\ cr' = Patched(new)
    BY <1>2 DEF StoreCR, IInv, CopyInv, TypeOK, TlnDBTypes
  <2>2. /\ cr'.generation = cr.generation
        /\ cr'.status = MergePatch(cr.status, inst.status, new)
    BY <2>1 DEF Patched, TlnDB
  <2>3. cr'.status.observedGeneration =
          Changed(inst.status.observedGeneration, new.observedGeneration,
                  cr.status.observedGeneration)
    BY <2>2 DEF MergePatch
  <2>4. QED
    BY <2>2, <2>3 DEF Changed
<1>3. reply = "error" => cr = None \/ faults' = faults + 1
  BY DEF PatchStatus, Fault
<1>4. faults' = faults \/ faults' = faults + 1
  BY DEF PatchStatus, Fault
<1>5. cr = None <=> cr' = None
  BY <1>1 DEF SameOwner
<1>6. cr # None /\ ~ StoreCR(Patched(new)) => cr' = cr
  BY DEF PatchStatus, crSide
<1>7. QED
  BY <1>1, <1>2, <1>3, <1>4, <1>5, <1>6

\* In particular, patches of the phase and of conditions keep the record.
LEMMA PatchKeepsRecord ==
  ASSUME IInv, inst \in TlnDB, NEW new \in TlnDBStatus, NEW reply, PatchStatus(new, reply),
         new.observedGeneration = inst.status.observedGeneration
  PROVE  RecordKept
<1>1. cr # None => cr.generation \in Nat
  BY Numbers DEF Numeric
<1>2. QED
  BY <1>1, PatchRecord DEF RecordKept

-----------------------------------------------------------------------------
(***************************************************************************)
(* Where the record is kept, nothing gets ahead of the stored TlnDB.       *)
(***************************************************************************)
LEMMA NotAhead ==
  ASSUME GInv, IInv', RecordKept
  PROVE  /\ RecordNotAhead'
         /\ Live(ccr)' => ccr'.generation <= cr'.generation
<1>1. RecordNotAhead'
  <2>1. CASE cr = None \/ cr' = None
    BY <2>1, Numbers DEF Numeric, RecordKept, RecordNotAhead
  <2>2. CASE cr # None /\ cr' # None
    BY <2>2, Numbers DEF Numeric, RecordKept, RecordNotAhead, GInv
  <2>3. QED
    BY <2>1, <2>2
<1>2. ASSUME Live(ccr)' PROVE ccr'.generation <= cr'.generation
  <2>1. cr' # None /\ cr'.generation \in Nat
    BY <1>2, Numbers DEF Numeric, IInv, Claims, CacheClaims, Live
  <2>2. CASE ccr' = cr'
    BY <2>1, <2>2
  <2>3. CASE ccr' = ccr
    <3>1. Live(ccr) /\ ccr # None
      BY <1>2, <2>3 DEF Live
    <3>2. cr # None /\ ccr.generation <= cr.generation
      BY <3>1 DEF GInv, CopiesNotAhead, IInv, Claims, CacheClaims
    <3>3. QED
      BY <2>1, <2>3, <3>1, <3>2, Numbers DEF Numeric, RecordKept, GInv
  <2>4. QED
    BY <2>2, <2>3 DEF RecordKept
<1>3. QED
  BY <1>1, <1>2

\* A step that leaves the call where it is.
LEMMA CallRests ==
  ASSUME GInv, IInv', RecordKept, UNCHANGED <<pc, inst>>,
         faults' = faults \/ faults' = faults + 1
  PROVE  GInv'
<1>1. pc \in ResourceSteps => cr # None /\ cr' # None /\ pc # "idle"
  BY StepKinds DEF GInv, IInv, Claims, CallClaims
<1>2. pc \in ResourceSteps => inst.generation <= cr'.generation
  BY <1>1, Numbers DEF Numeric, GInv, CopiesNotAhead, RecordKept
<1>3. CallUpToDate'
  <2> SUFFICES ASSUME faults' = 0, Refreshed'
               PROVE  inst.generation >= cr'.status.observedGeneration
    BY DEF CallUpToDate
  <2>1. faults = 0 /\ Refreshed
    BY Numbers DEF Numeric, Refreshed, GInv
  <2>2. pc \in ResourceSteps
    BY <2>1, StepKinds DEF Refreshed
  <2>3. QED
    BY <1>1, <2>1, <2>2 DEF GInv, CallUpToDate, RecordKept
<1>4. QED
  BY <1>2, <1>3, NotAhead DEF GInv, CopiesNotAhead

\* The end of a call, or a step outside reconcileResources.
LEMMA CallOver ==
  ASSUME GInv, IInv', RecordKept, pc' \notin ResourceSteps
  PROVE  GInv'
<1>1. pc' \notin Steps
  BY StepKinds
<1>2. CallUpToDate'
  BY <1>1 DEF CallUpToDate, Refreshed
<1>3. QED
  BY <1>2, NotAhead DEF GInv, CopiesNotAhead

\* A step of reconcileResources that writes children only.
LEMMA CallAdvances ==
  ASSUME GInv, IInv', UNCHANGED <<cr, ccr, inst>>, pc \in Steps \ {"PersistStatus", "ServiceReady"},
         pc' = NextStep(pc, inst.spec) \/ pc' \in ResourceSteps \ Steps,
         faults' = faults \/ faults' = faults + 1
  PROVE  GInv'
<1>1. pc \in ResourceSteps /\ pc # "idle"
  BY StepKinds
<1>2. RecordKept
  BY Numbers DEF Numeric, RecordKept, GInv
<1>3. CopiesNotAhead'
  BY <1>1, NotAhead, <1>2 DEF GInv, CopiesNotAhead
<1>4. CallUpToDate'
  <2> SUFFICES ASSUME faults' = 0, Refreshed'
               PROVE  inst.generation >= cr.status.observedGeneration
    BY DEF CallUpToDate
  <2>1. faults = 0
    BY Numbers DEF Numeric, GInv
  <2>2. pc' = NextStep(pc, inst.spec) /\ "ServiceReady" \in Before(pc', inst.spec)
    BY DEF Refreshed
  <2>3. PICK s : s = pc
    OBVIOUS
  <2>4. Before(NextStep(s, inst.spec), inst.spec) \subseteq Before(s, inst.spec) \cup {s}
    BY <2>3, NextStepBehind
  <2>5. Refreshed
    BY <2>2, <2>3, <2>4 DEF Refreshed
  <2>6. QED
    BY <2>1, <2>5 DEF GInv, CallUpToDate
<1>5. QED
  BY <1>2, <1>3, <1>4, NotAhead DEF GInv

(***************************************************************************)
(* The copy a call holds after a patch: of the answer's generation, or of  *)
(* its own if something failed.                                            *)
(***************************************************************************)
LEMMA KeptGeneration ==
  ASSUME GInv, IInv', pc \in ResourceSteps, inst \in TlnDB, NEW new \in TlnDBStatus,
         NEW reply \in {"ok", "error"}, PatchStatus(new, reply), KeepInstance(new, reply)
  PROVE  /\ cr # None /\ cr' # None /\ cr'.generation = cr.generation
         /\ inst'.generation <= cr'.generation
         /\ faults' = 0 => inst'.generation = cr'.generation
<1>1. cr # None
  BY DEF GInv, IInv, Claims, CallClaims
<1>2. /\ cr' # None /\ cr'.generation = cr.generation
      /\ reply = "error" => faults' = faults + 1
  BY <1>1, PatchRecord DEF GInv
<1>3. cr.generation \in Nat /\ inst.generation <= cr.generation /\ faults \in Nat
  BY <1>1, Numbers DEF Numeric, GInv, CopiesNotAhead
<1>4. CASE reply = "ok"
  <2>1. inst'.generation = cr'.generation
    BY <1>4 DEF KeepInstance, DecodeInto
  <2>2. QED
    BY <1>1, <1>2, <1>3, <2>1
<1>5. CASE reply = "error"
  <2>1. inst'.generation = inst.generation
    BY <1>5 DEF KeepInstance, TlnDB
  <2>2. QED
    BY <1>1, <1>2, <1>3, <1>5, <2>1
<1>6. QED
  BY <1>4, <1>5

\* A patch of the phase or of a condition in the middle of the call.
LEMMA CallRefreshed ==
  ASSUME GInv, IInv', pc \in ResourceSteps, inst \in TlnDB, NEW new \in TlnDBStatus,
         NEW reply \in {"ok", "error"}, PatchStatus(new, reply), KeepInstance(new, reply),
         new.observedGeneration = inst.status.observedGeneration
  PROVE  GInv'
<1>1. RecordKept
  BY PatchKeepsRecord DEF GInv
<1>2. /\ cr' # None /\ inst'.generation <= cr'.generation
      /\ faults' = 0 => inst'.generation = cr'.generation
  BY KeptGeneration
<1>3. RecordNotAhead' /\ CopiesNotAhead'
  BY <1>1, <1>2, NotAhead DEF CopiesNotAhead
<1>4. CallUpToDate'
  BY <1>2, <1>3, Numbers DEF Numeric, CallUpToDate, RecordNotAhead
<1>5. QED
  BY <1>3, <1>4 DEF GInv

-----------------------------------------------------------------------------
\* Initially there is no TlnDB and no call.
LEMMA InitGInv == Init => GInv
<1> SUFFICES ASSUME Init PROVE GInv
  OBVIOUS
<1>1. IInv /\ cr = None /\ ccr = None /\ pc = "idle"
  BY InitIInv DEF Init
<1>2. pc \notin ResourceSteps /\ pc \notin Steps
  BY <1>1, StepKinds
<1>3. QED
  BY <1>1, <1>2 DEF GInv, CopiesNotAhead, RecordNotAhead, CallUpToDate, Refreshed, Live

\* The Get: a live cached copy is not ahead, and nothing is behind the call.
LEMMA ReconcileGeneration ==
  ASSUME GInv, IInv', Reconcile PROVE GInv'
<1>1. UNCHANGED <<cr, ccr, faults>>
  BY DEF Reconcile, server, crCache
<1>2. RecordKept
  BY <1>1, Numbers DEF Numeric, RecordKept, GInv
<1>3. CASE UNCHANGED <<pc, inst>>
  BY <1>1, <1>2, <1>3, CallRests
<1>4. CASE pc' \notin ResourceSteps
  BY <1>2, <1>4, CallOver
<1>5. CASE pc' = Entry(ccr) /\ inst' = ccr /\ ccr # None /\ pc' \in ResourceSteps
  <2>1. "SetTerminating" \notin ResourceSteps
    BY StepKinds DEF DeletionSteps
  <2>2. /\ ~ ccr.deleting /\ ccr.finalizer
        /\ pc' \in {"SetProvisioning", FirstStep(ccr.spec)}
    BY <1>5, <2>1, StepKinds DEF Entry
  <2>3. Live(ccr)
    BY <1>5, <2>2 DEF Live
  <2>4. CopiesNotAhead'
    BY <1>1, <1>2, <1>5, <2>3, NotAhead DEF GInv, CopiesNotAhead
  <2>5. ~ Refreshed'
    <3>1. "SetProvisioning" \notin Steps
      BY StepNames DEF Child, Services, StatefulSets, Optional
    <3>2. PICK sp : sp = ccr.spec
      OBVIOUS
    <3>3. Before(FirstStep(sp), sp) = {}
      BY FirstStepBehind
    <3>4. inst'.spec = sp
      BY <1>5, <3>2
    <3>5. QED
      BY <2>2, <3>1, <3>2, <3>3, <3>4 DEF Refreshed
  <2>6. QED
    BY <1>2, <2>4, <2>5, NotAhead DEF GInv, CallUpToDate
<1>6. QED
  BY <1>3, <1>4, <1>5 DEF Reconcile

\* setPhase and setCondition.
LEMMA PhaseRecord ==
  ASSUME IInv, pc # "idle", NEW phase \in Phases
  PROVE  /\ inst \in TlnDB /\ WithPhase(phase) \in TlnDBStatus
         /\ WithPhase(phase).observedGeneration = inst.status.observedGeneration
<1>1. inst \in TlnDB /\ now \in Nat /\ inst.status \in TlnDBStatus
  BY DEF IInv, CopyInv, TypeOK, CallTypes, OtherTypes, TlnDB
<1>2. WithPhase(phase).observedGeneration = inst.status.observedGeneration
  BY <1>1 DEF WithPhase, TlnDBStatus
<1>3. QED
  BY <1>1, <1>2, WithPhaseType

\* The same for a condition.
LEMMA ConditionRecord ==
  ASSUME IInv, pc # "idle", NEW c \in ConditionTypes, NEW status \in {"True", "False"}
  PROVE  /\ inst \in TlnDB /\ WithCondition(c, status) \in TlnDBStatus
         /\ WithCondition(c, status).observedGeneration = inst.status.observedGeneration
<1>1. inst \in TlnDB /\ inst.status \in TlnDBStatus
  BY DEF IInv, CopyInv, TypeOK, CallTypes, TlnDB
<1>2. WithCondition(c, status).observedGeneration = inst.status.observedGeneration
  BY <1>1 DEF WithCondition, TlnDBStatus
<1>3. QED
  BY <1>1, <1>2, WithConditionType

(***************************************************************************)
(* The steps of a call that patch the phase or a condition.                *)
(***************************************************************************)
LEMMA PhaseGeneration ==
  ASSUME GInv, IInv', SetProvisioning \/ SetFailed \/ SetTerminating PROVE GInv'
<1>1. IInv /\ pc # "idle"
  BY DEF GInv, SetProvisioning, SetFailed, SetTerminating
<1>2. "idle" \notin ResourceSteps /\ "RemoveFinalizer" \notin ResourceSteps
  BY StepKinds DEF DeletionSteps
<1>3. CASE SetProvisioning
  <2>1. PICK reply \in {"ok", "error"} :
          /\ PatchStatus(WithPhase("Provisioning"), reply)
          /\ \/ KeepInstance(WithPhase("Provisioning"), reply)
             \/ pc' = "idle"
    BY <1>3 DEF SetProvisioning, Return
  <2>2. pc \in ResourceSteps
    BY <1>3 DEF SetProvisioning, ResourceSteps
  <2>3. /\ inst \in TlnDB /\ WithPhase("Provisioning") \in TlnDBStatus
        /\ WithPhase("Provisioning").observedGeneration = inst.status.observedGeneration
    BY <1>1, PhaseRecord DEF Phases
  <2>4. RecordKept
    BY <1>1, <2>1, <2>3, PatchKeepsRecord
  <2>5. QED
    BY <1>2, <2>1, <2>2, <2>3, <2>4, CallRefreshed, CallOver
<1>4. CASE SetFailed
  <2>1. PICK reply \in {"ok", "error"} : PatchStatus(WithPhase("Failed"), reply)
    BY <1>4 DEF SetFailed
  <2>2. /\ inst \in TlnDB /\ WithPhase("Failed") \in TlnDBStatus
        /\ WithPhase("Failed").observedGeneration = inst.status.observedGeneration
    BY <1>1, PhaseRecord DEF Phases
  <2>3. RecordKept
    BY <1>1, <2>1, <2>2, PatchKeepsRecord
  <2>4. pc' = "idle"
    BY <1>4 DEF SetFailed, Return
  <2>5. QED
    BY <1>2, <2>3, <2>4, CallOver
<1>5. CASE SetTerminating
  <2>1. PICK reply \in {"ok", "error"} : PatchStatus(WithPhase("Terminating"), reply)
    BY <1>5 DEF SetTerminating
  <2>2. /\ inst \in TlnDB /\ WithPhase("Terminating") \in TlnDBStatus
        /\ WithPhase("Terminating").observedGeneration = inst.status.observedGeneration
    BY <1>1, PhaseRecord DEF Phases
  <2>3. RecordKept
    BY <1>1, <2>1, <2>2, PatchKeepsRecord
  <2>4. pc' \in {"idle", "RemoveFinalizer"}
    BY <1>5 DEF SetTerminating, Return
  <2>5. QED
    BY <1>2, <2>3, <2>4, CallOver
<1>6. QED
  BY <1>3, <1>4, <1>5

\* setCondition.
LEMMA ConditionGeneration ==
  ASSUME GInv, IInv', SetCondition PROVE GInv'
<1> DEFINE c == ConditionOf(pc)
           v == IF pc = c THEN "True" ELSE "False"
<1>1. IInv /\ pc \in ResourceSteps /\ pc # "idle"
  BY StepKinds DEF SetCondition, GInv
<1>2. c \in ConditionTypes
  BY DEF SetCondition, ConditionSteps, ConditionOf, ConditionTypes
<1>3. PICK reply \in {"ok", "error"} :
        PatchStatus(WithCondition(c, v), reply) /\ KeepInstance(WithCondition(c, v), reply)
  BY DEF SetCondition
<1>4. v \in {"True", "False"}
  OBVIOUS
<1> HIDE DEF c, v
<1>5. /\ inst \in TlnDB /\ WithCondition(c, v) \in TlnDBStatus
      /\ WithCondition(c, v).observedGeneration = inst.status.observedGeneration
  BY <1>1, <1>2, <1>4, ConditionRecord
<1>6. QED
  BY <1>1, <1>3, <1>5, CallRefreshed

\* syncStatus.
LEMMA SyncStatusRecord ==
  ASSUME GInv, IInv', SyncStatus PROVE RecordKept /\ pc' = "idle"
<1> DEFINE sts == cobj[primaryStatefulSet(inst.spec)]
           phase == PhaseOf(sts, inst.spec)
           v == IF phase = "Running" THEN "True" ELSE "False"
           new == [WithCondition("StatefulSetReady", v)
                     EXCEPT !.readyReplicas = sts.ready, !.phase = phase]
<1>1. IInv /\ pc # "idle" /\ pc' = "idle"
  BY DEF GInv, SyncStatus, Return
<1>2. CASE sts = None
  BY <1>1, <1>2, Numbers DEF Numeric, SyncStatus, crSide, crCache, RecordKept
<1>3. CASE sts # None
  <2>1. sts.ready \in Nat
    <3>1. primaryStatefulSet(inst.spec) \in Watched
      BY DEF primaryStatefulSet, Watched, Child, StatefulSets
    <3>2. sts \in ObjectOf(primaryStatefulSet(inst.spec))
      BY <1>1, <1>3, <3>1 DEF IInv, CopyInv, TypeOK, ChildTypes
    <3>3. QED
      BY <3>2 DEF ObjectOf
  <2>2. phase \in Phases
    BY DEF PhaseOf, Phases
  <2>3. /\ inst \in TlnDB /\ WithCondition("StatefulSetReady", v) \in TlnDBStatus
        /\ WithCondition("StatefulSetReady", v).observedGeneration
             = inst.status.observedGeneration
    BY <1>1, ConditionRecord DEF ConditionTypes
  <2>4. new \in TlnDBStatus /\ new.observedGeneration = inst.status.observedGeneration
    BY <2>1, <2>2, <2>3 DEF TlnDBStatus
  <2>5. PICK reply \in {"ok", "error"} : PatchStatus(new, reply)
    BY <1>3 DEF SyncStatus
  <2> HIDE DEF new
  <2>6. QED
    BY <1>1, <2>3, <2>4, <2>5, PatchKeepsRecord
<1>4. QED
  BY <1>2, <1>3

(***************************************************************************)
(* The patch that sets the record: to the generation of a copy that is not *)
(* ahead of the stored TlnDB and, without failures, not behind the record. *)
(***************************************************************************)
LEMMA PersistStatusRecord ==
  ASSUME GInv, IInv', PersistStatus
  PROVE  /\ ccr' = ccr \/ ccr' = cr'
         /\ cr # None /\ cr' # None /\ cr'.generation = cr.generation
         /\ inst'.generation <= cr'.generation
         /\ \/ cr'.status.observedGeneration = cr.status.observedGeneration
            \/ cr'.status.observedGeneration = inst.generation
         /\ faults = 0 => inst.generation >= cr.status.observedGeneration
<1> DEFINE new == [inst.status EXCEPT
                     !.managedResources = managed,
                     !.currentImage = inst.spec.image,
                     !.lastUpdateTime = now,
                     !.observedGeneration = inst.generation]
<1>1. pc = "PersistStatus" /\ pc \in Steps /\ pc \in ResourceSteps /\ pc # "idle" /\ IInv
  BY StepNames, StepKinds DEF PersistStatus, GInv
<1>2. inst \in TlnDB
  BY <1>1, CallHoldsInstance DEF IInv
<1>3. new \in TlnDBStatus /\ new.observedGeneration = inst.generation
  <2>1. /\ inst.status \in TlnDBStatus /\ inst.generation \in Nat
        /\ inst.spec.image \in Images /\ now \in Nat /\ managed \in SUBSET Child
    BY <1>1, <1>2 DEF TlnDB, TlnDBSpec, IInv, CopyInv, TypeOK, OtherTypes, CallTypes
  <2>2. QED
    BY <2>1 DEF TlnDBStatus
<1>4. PICK reply \in {"ok", "error"} : PatchStatus(new, reply) /\ KeepInstance(new, reply)
  BY DEF PersistStatus
<1> HIDE DEF new
<1>5. /\ cr # None /\ cr' # None /\ cr'.generation = cr.generation
      /\ inst'.generation <= cr'.generation
  BY <1>1, <1>2, <1>3, <1>4, KeptGeneration
<1>6. /\ ccr' = ccr \/ ccr' = cr'
      /\ \/ cr'.status.observedGeneration = cr.status.observedGeneration
         \/ cr'.status.observedGeneration = inst.generation
  BY <1>1, <1>2, <1>3, <1>4, <1>5, PatchRecord
<1>7. Refreshed
  <2>1. PICK sp : sp = inst.spec
    OBVIOUS
  <2>2. Taken("ServiceReady", sp) /\ "ServiceReady" \in Steps
    BY StepNames DEF Taken, Optional
  <2>3. "ServiceReady" \in Before("PersistStatus", sp)
    BY <2>2, LastBehind
  <2>4. QED
    BY <1>1, <2>1, <2>3 DEF Refreshed
<1>8. QED
  BY <1>5, <1>6, <1>7 DEF GInv, CallUpToDate

\* So the invariant is kept.
LEMMA PersistStatusGeneration ==
  ASSUME GInv, IInv', PersistStatus PROVE GInv'
<1>1. IInv /\ pc \in ResourceSteps /\ pc # "idle" /\ inst.generation <= cr.generation
  BY StepNames, StepKinds DEF PersistStatus, GInv, CopiesNotAhead
<1>2. pc' \notin Steps
  BY StepNames DEF PersistStatus, Child, Services, StatefulSets, Optional
<1>3. RecordNotAhead'
  BY <1>1, PersistStatusRecord DEF RecordNotAhead, GInv
<1>4. ASSUME Live(ccr)' PROVE ccr'.generation <= cr'.generation
  <2>1. CASE ccr' = cr'
    BY <2>1, PersistStatusRecord, Numbers DEF Numeric
  <2>2. CASE ccr' = ccr
    <3>1. Live(ccr)
      BY <1>4, <2>2 DEF Live
    <3>2. QED
      BY <2>2, <3>1, PersistStatusRecord DEF GInv, CopiesNotAhead
  <2>3. QED
    BY <2>1, <2>2, PersistStatusRecord
<1>5. CopiesNotAhead'
  BY <1>4, PersistStatusRecord DEF CopiesNotAhead
<1>6. QED
  BY <1>2, <1>3, <1>5 DEF GInv, CallUpToDate, Refreshed

-----------------------------------------------------------------------------
(***************************************************************************)
(* The Updates of the whole object, and users.                             *)
(***************************************************************************)
LEMMA UpdateRecord ==
  ASSUME GInv, IInv', AddFinalizer \/ RemoveFinalizer
  PROVE  RecordKept /\ pc' = "idle"
<1>1. pc' = "idle"
  BY DEF AddFinalizer, RemoveFinalizer, Return
<1>2. CASE UNCHANGED <<cr, ccr>>
  BY <1>1, <1>2, Numbers DEF Numeric, RecordKept, GInv
<1>3. CASE RemoveFinalizer /\ StoreCR(None)
  BY <1>1, <1>3 DEF StoreCR, RecordKept
<1>4. CASE AddFinalizer /\ instFresh /\ StoreCR(WithFinalizer)
  <2>1. cr # None /\ cr \in TlnDB
    BY <1>4, CallHoldsInstance, NoneAssumption
       DEF AddFinalizer, GInv, IInv, CopyInv, TypeOK, TlnDBTypes, UpdateClaim
  <2>2. cr' = WithFinalizer /\ (ccr' = ccr \/ ccr' = cr')
    BY <1>4 DEF StoreCR
  <2>3. /\ cr'.generation \in {cr.generation, cr.generation + 1}
        /\ cr'.status = cr.status
    BY <2>1, <2>2 DEF WithFinalizer, TlnDB
  <2>4. cr.generation \in Nat
    BY <2>1 DEF TlnDB
  <2>5. cr'.generation >= cr.generation
    BY <2>3, <2>4
  <2>6. QED
    BY <1>1, <2>1, <2>2, <2>3, <2>5 DEF RecordKept
<1>5. QED
  BY <1>2, <1>3, <1>4 DEF AddFinalizer, RemoveFinalizer, crSide, crCache

\* Users create with nothing recorded, and an edit or a deletion raises the generation.
LEMMA UserRecord ==
  ASSUME GInv, Users PROVE RecordKept /\ UNCHANGED <<pc, inst, faults>>
<1>1. UNCHANGED <<pc, inst, faults>>
  BY DEF Users, UserCreate, UserEdit, UserDelete, ExtEdit, UserWrites, locals
<1>2. ASSUME UserCreate \/ UserEdit \/ UserDelete PROVE ccr' = ccr \/ ccr' = cr'
  BY <1>2 DEF UserCreate, UserEdit, UserDelete, UserWrites, StoreCR
<1>3. CASE UserCreate
  <2>1. cr = None /\ cr'.status = EmptyStatus
    BY <1>3 DEF UserCreate, UserWrites, StoreCR
  <2>2. EmptyStatus.observedGeneration = 0
    BY Zenon DEF EmptyStatus
  <2>3. QED
    BY <1>1, <1>2, <1>3, <2>1, <2>2 DEF RecordKept
<1>4. CASE UserEdit \/ UserDelete
  <2>1. cr \in TlnDB /\ cr # None /\ cr.generation \in Nat
    BY <1>4 DEF UserEdit, UserDelete, GInv, IInv, CopyInv, TypeOK, TlnDBTypes, TlnDB
  <2>2. \/ cr' = None
        \/ cr'.generation = cr.generation + 1 /\ cr'.status = cr.status
    <3>1. CASE UserEdit
      BY <2>1, <3>1 DEF UserEdit, UserWrites, StoreCR, TlnDB
    <3>2. CASE UserDelete
      BY <2>1, <3>2 DEF UserDelete, UserWrites, StoreCR, TlnDB
    <3>3. QED
      BY <1>4, <3>1, <3>2
  <2>3. QED
    BY <1>1, <1>2, <1>4, <2>1, <2>2 DEF RecordKept
<1>5. CASE ExtEdit
  BY <1>1, <1>5, Numbers DEF Numeric, ExtEdit, crCache, RecordKept, GInv
<1>6. QED
  BY <1>3, <1>4, <1>5 DEF Users

\* Deliveries and the cluster write no TlnDB.
LEMMA ClusterRecord ==
  ASSUME GInv, Cluster
  PROVE  /\ RecordKept /\ UNCHANGED <<pc, inst>>
         /\ faults' = faults \/ faults' = faults + 1
BY ClusterLeaves, Numbers DEF Numeric, RecordKept, GInv

\* The steps that write children.
LEMMA ChildGeneration ==
  ASSUME GInv, IInv',
         (\E k \in Child : CreateOrUpdate(k)) \/ ExternalConfigMap \/ PruneFollower
  PROVE  GInv'
<1>1. /\ UNCHANGED <<cr, ccr, inst>>
      /\ faults' = faults \/ faults' = faults + 1
  BY DEF CreateOrUpdate, Apply, ExternalConfigMap, PruneFollower, Fault, server, crCache, locals
<1>2. pc \in Steps \ {"PersistStatus", "ServiceReady"}
  BY StepNames DEF CreateOrUpdate, ExternalConfigMap, PruneFollower, Child, Services,
                   StatefulSets, Optional
<1>3. {"ConfigMapMissing", "ServiceMonitorMissing", "SetFailed"} \subseteq ResourceSteps \ Steps
  BY StepNames DEF ResourceSteps, ConditionSteps, Child, Services, StatefulSets, Optional
<1>4. pc' = NextStep(pc, inst.spec) \/ pc' \in ResourceSteps \ Steps
  BY <1>3 DEF CreateOrUpdate, ExternalConfigMap, PruneFollower
<1>5. QED
  BY <1>1, <1>2, <1>4, CallAdvances

\* A restart ends the call and reads the TlnDB anew.
LEMMA RestartRecord ==
  ASSUME GInv, Restart PROVE RecordKept /\ pc' = "idle"
BY Numbers DEF Numeric, Restart, server, RecordKept, GInv

-----------------------------------------------------------------------------
\* Every step keeps the invariant.
LEMMA NextGInv == GInv /\ [Next]_vars => GInv'
<1> SUFFICES ASSUME GInv, [Next]_vars PROVE GInv'
  OBVIOUS
<1>1. IInv'
  BY NextIInv DEF GInv
<1>2. "idle" \notin ResourceSteps
  BY StepKinds
<1>3. CASE UNCHANGED vars
  <2>1. UNCHANGED <<cr, ccr, pc, inst, faults>>
    BY <1>3 DEF vars, server, crCache, locals
  <2>2. RecordKept
    BY <2>1, Numbers DEF Numeric, RecordKept, GInv
  <2>3. QED
    BY <1>1, <2>1, <2>2, CallRests
<1>4. CASE Operator
  BY <1>1, <1>2, <1>4, ReconcileGeneration, PhaseGeneration, ConditionGeneration,
     ChildGeneration, PersistStatusGeneration, SyncStatusRecord, UpdateRecord, CallOver
     DEF Operator
<1>5. CASE Restart
  BY <1>1, <1>2, <1>5, RestartRecord, CallOver
<1>6. CASE Cluster
  BY <1>1, <1>6, ClusterRecord, CallRests
<1>7. CASE Users
  BY <1>1, <1>7, UserRecord, CallRests
<1>8. QED
  BY <1>3, <1>4, <1>5, <1>6, <1>7 DEF Next

\* A step keeps the record, or it is the final patch of an undisturbed call.
LEMMA RecordStep == GInv /\ [Next]_vars => ObservedGenerationGrows
<1> SUFFICES ASSUME GInv, [Next]_vars, faults = 0, cr # None, cr' # None
             PROVE  cr'.status.observedGeneration >= cr.status.observedGeneration
  BY DEF ObservedGenerationGrows
<1>1. IInv /\ IInv' /\ cr.status.observedGeneration \in Nat
  BY NextIInv, Numbers DEF Numeric, GInv
<1>2. ASSUME RecordKept
      PROVE  cr'.status.observedGeneration >= cr.status.observedGeneration
  BY <1>1, <1>2 DEF RecordKept
<1>3. ASSUME UNCHANGED cr
      PROVE  cr'.status.observedGeneration >= cr.status.observedGeneration
  BY <1>1, <1>3
<1>4. CASE PersistStatus
  BY <1>1, <1>4, PersistStatusRecord
<1>5. ASSUME NEW phase \in Phases, NEW reply, PatchStatus(WithPhase(phase), reply), pc # "idle"
      PROVE  RecordKept
  BY <1>1, <1>5, PhaseRecord, PatchKeepsRecord
<1>6. CASE SetProvisioning \/ SetFailed \/ SetTerminating
  BY <1>2, <1>5, <1>6 DEF SetProvisioning, SetFailed, SetTerminating, Phases
<1>7. CASE SetCondition
  <2> DEFINE c == ConditionOf(pc)
             v == IF pc = c THEN "True" ELSE "False"
  <2>1. c \in ConditionTypes /\ v \in {"True", "False"} /\ pc # "idle"
    BY <1>7 DEF SetCondition, ConditionSteps, ConditionOf, ConditionTypes
  <2>2. PICK reply \in {"ok", "error"} : PatchStatus(WithCondition(c, v), reply)
    BY <1>7 DEF SetCondition
  <2> HIDE DEF c, v
  <2>3. QED
    BY <1>1, <1>2, <2>1, <2>2, ConditionRecord, PatchKeepsRecord
<1>8. CASE SyncStatus \/ AddFinalizer \/ RemoveFinalizer
  BY <1>1, <1>2, <1>8, SyncStatusRecord, UpdateRecord
<1>9. CASE Restart \/ Cluster \/ Users
  BY <1>2, <1>9, RestartRecord, ClusterRecord, UserRecord
<1>10. CASE \/ Reconcile \/ ExternalConfigMap \/ PruneFollower \/ UNCHANGED vars
            \/ \E k \in Child : CreateOrUpdate(k)
  BY <1>3, <1>10 DEF Reconcile, ExternalConfigMap, PruneFollower, CreateOrUpdate, vars, server
<1>11. QED
  BY <1>4, <1>6, <1>7, <1>8, <1>9, <1>10 DEF Next, Operator

(***************************************************************************)
(* As long as no request has failed, the observedGeneration that clients   *)
(* see never goes back, whatever copy a call started from and whatever     *)
(* users do to the TlnDB meanwhile.                                        *)
(***************************************************************************)
THEOREM RecordNeverGoesBack == Spec => ObservedGenerationMonotone
<1>1. GInv /\ [Next]_vars => [ObservedGenerationGrows]_vars
  BY RecordStep
<1>2. Spec => []GInv
  BY InitGInv, NextGInv, PTL DEF Spec
<1>3. QED
  BY <1>1, <1>2, PTL DEF Spec, ObservedGenerationMonotone
=============================================================================
