------------------------- MODULE TlnDBMonitorProofs -------------------------
(***************************************************************************)
(* The ServiceMonitor.  It is not watched, its errors do not fail the      *)
(* call, and those of the patch that records its condition are dropped.    *)
(* Still, when the operator rests, what the status says of it is true, but *)
(* for a deletion by hand since the last call: QuiescentMonitorListed and  *)
(* QuiescentServiceMonitor.                                                *)
(*                                                                         *)
(* In the last call nothing waits, so its patches change nothing; if the   *)
(* one for the condition succeeds, the condition was there.  If it fails,  *)
(* that was the one failure, and every call before it was without: such a  *)
(* call may overwrite the list of conditions with an older one, but then   *)
(* holds the stored TlnDB, passes the ServiceMonitor, and leaves the       *)
(* condition behind or the phase other than Running.                       *)
(***************************************************************************)
EXTENDS TlnDBMonitor, TlnDBQuiescenceProofs, TlnDBGenerationProofs

NoConditions == EmptyStatus.conditions

MonitorCondition(tlndb) == tlndb.status.conditions["ServiceMonitorReady"].status

\* What the condition ought to be.
Outcome == IF MonitoringInstalled THEN "True" ELSE "False"

(***************************************************************************)
(* The one thing a resting operator must not leave: all is recorded as     *)
(* done, but the condition is not what it ought to be.                     *)
(***************************************************************************)
Lost ==
  /\ cr # None /\ cr.status.phase = "Running"
  /\ cr.status.observedGeneration = cr.generation
  /\ "ServiceMonitor" \in cr.spec.enabled
  /\ MonitorCondition(cr) # Outcome

-----------------------------------------------------------------------------
(***************************************************************************)
(* Calls in which nothing failed.                                          *)
(*                                                                         *)
(* A copy of the stored generation has its spec, and there are conditions  *)
(* on the server if a copy has some.                                       *)
(***************************************************************************)
SameEnabled(copy) ==
  copy.generation = cr.generation => copy.spec.enabled = cr.spec.enabled

ConditionsKnown(copy) ==
  copy.status.conditions # NoConditions => cr.status.conditions # NoConditions

CopiesTell ==
  /\ Live(ccr) => SameEnabled(ccr) /\ ConditionsKnown(ccr)
  /\ pc \in ResourceSteps =>
       SameEnabled(inst) /\ (faults = 0 => ConditionsKnown(inst))

\* Without the CRD there is no ServiceMonitor; with it only a failure makes
\* the helper fail, and so the condition false.
NotFalse ==
  /\ cr # None => MonitorCondition(cr) # "False"
  /\ ccr # None => MonitorCondition(ccr) # "False"
  /\ pc # "idle" => MonitorCondition(inst) # "False"

OnlyWhenInstalled ==
  /\ ~ MonitoringInstalled => obj["ServiceMonitor"] = None
  /\ pc = "ServiceMonitorReady" => MonitoringInstalled
  /\ MonitoringInstalled /\ faults = 0 => NotFalse /\ pc # "ServiceMonitorMissing"
  /\ MonitoringInstalled /\ faults <= 1 /\ pc = "ServiceMonitorMissing" =>
       MonitorCondition(cr) # "False"

\* Past ServiceReady the call's list of conditions is the stored one.
ListUpToDate ==
  faults = 0 /\ pc \in Working /\ "ServiceReady" \in Behind =>
    inst.status.conditions = cr.status.conditions

\* Past its condition the ServiceMonitor is accounted for.
Accounted ==
  faults = 0 =>
    /\ pc \in Steps /\ "ServiceMonitorReady" \in Before(pc, inst.spec) =>
         MonitorCondition(cr) = Outcome
    /\ /\ pc = "SyncStatus" /\ cr.status.observedGeneration = cr.generation
       /\ "ServiceMonitor" \in cr.spec.enabled
       => MonitorCondition(cr) = Outcome

\* A condition that was lost will be set, or the call will fail.
MonitorAhead ==
  \/ pc = "SetFailed"
  \/ /\ pc \in Steps \cup {"ConfigMapMissing", "ServiceMonitorMissing"}
     /\ "ServiceMonitorReady" \notin Before(ConditionOf(pc), inst.spec)

LostIsNoticed ==
  faults = 0 /\ Lost =>
    /\ MonitorAhead
    /\ inst.status.phase = "Running"
    /\ inst.generation = cr.generation /\ inst.spec.enabled = cr.spec.enabled

FaultlessInv ==
  CopiesTell /\ OnlyWhenInstalled /\ ListUpToDate /\ Accounted /\ LostIsNoticed

-----------------------------------------------------------------------------
(***************************************************************************)
(* Calls in which nothing waits.                                           *)
(***************************************************************************)
MonitorRight ==
  LET monitor == obj["ServiceMonitor"] IN
  /\ monitor # None /\ monitor.owner = cr.uid
  /\ monitor.body = BuildServiceMonitor(cr.spec)

RightOrGone == MonitorRight \/ (obj["ServiceMonitor"] = None /\ gone)

\* What is listed is there, or was deleted during this call or since.
Listed ==
  /\ pc \in Working /\ "ServiceMonitor" \in managed => RightOrGone
  /\ pc \in {"SyncStatus", "idle"} => MonitorListed

PastMonitor == "ServiceMonitorReady" \in Behind

\* The call sees the condition as it is stored.
ConditionSeen ==
  pc \in Working /\ ~ PastMonitor => MonitorCondition(inst) = MonitorCondition(cr)

\* With at most one failure the condition is not lost,
ConditionKept ==
  faults = 0 \/ pc = "idle" \/ (pc \in Working /\ PastMonitor) => ~ Lost

\* and what is there is listed.
WillBeListed ==
  MonitoringInstalled /\ "ServiceMonitor" \in cr.spec.enabled =>
    /\ pc \in Working /\ (pc = "ServiceMonitorReady" \/ PastMonitor) =>
         "ServiceMonitor" \in managed
    /\ pc \in {"SyncStatus", "idle"} => "ServiceMonitor" \in cr.status.managedResources

\* A call that misses the ServiceMonitor was asked for it.
Asked == pc = "ServiceMonitorMissing" => "ServiceMonitor" \in cr.spec.enabled

Known ==
  /\ Listed /\ ConditionSeen /\ Asked
  /\ faults <= 1 => ConditionKept /\ WillBeListed

Silent == cr # None /\ ~ Waiting => Known

MonitorInv == QInv /\ GInv /\ FaultlessInv /\ Silent

-----------------------------------------------------------------------------
(***************************************************************************)
(* The place of the ServiceMonitor in reconcileResources: its condition    *)
(* follows it directly, under the same if, and no other condition comes    *)
(* after it.                                                               *)
(***************************************************************************)
LEMMA MonitorTaken ==
  ASSUME NEW spec
  PROVE  /\ Taken("ServiceMonitor", spec) <=> "ServiceMonitor" \in spec.enabled
         /\ Taken("ServiceMonitorReady", spec) <=> "ServiceMonitor" \in spec.enabled
BY DEF Taken, Optional

\* Nothing up to its condition has the condition behind it.
LEMMA MonitorPlace ==
  ASSUME NEW spec
  PROVE  /\ \A s \in ConditionTypes \ {"StatefulSetReady"} :
              s \in Steps /\ "ServiceMonitorReady" \notin Before(s, spec)
         /\ "ServiceMonitor" \in spec.enabled =>
              "ServiceMonitorReady" \in Before("PersistStatus", spec)
         /\ "ServiceReady" \in Before("ServiceMonitor", spec)
         /\ "ServiceReady" \in Before("ServiceMonitorReady", spec)
         /\ "ServiceReady" \in Before("PersistStatus", spec)
<1>1. /\ Order[4] = "RBACReady" /\ Order[7] = "ConfigMapReady"
      /\ Order[15] = "ServiceReady" /\ Order[18] = "NetworkPolicyReady"
      /\ Order[19] = "ServiceMonitor" /\ Order[20] = "ServiceMonitorReady"
  BY DEF Order
<1>2. /\ Position("RBACReady") = 4 /\ Position("ConfigMapReady") = 7
      /\ Position("ServiceReady") = 15 /\ Position("NetworkPolicyReady") = 18
      /\ Position("ServiceMonitor") = 19 /\ Position("ServiceMonitorReady") = 20
      /\ Position("PersistStatus") = 23
  BY <1>1, PositionOf, OrderLength
<1>3. \A s \in ConditionTypes \ {"StatefulSetReady"} :
        s \in Steps /\ "ServiceMonitorReady" \notin Before(s, spec)
  BY <1>2, StepNames DEF Before, ConditionTypes
<1>4. "ServiceMonitorReady" # "PersistStatus"
  OBVIOUS
<1>5. "ServiceMonitor" \in spec.enabled =>
        "ServiceMonitorReady" \in Before("PersistStatus", spec)
  BY <1>4, MonitorTaken, LastBehind, StepNames
<1>6. Taken("ServiceReady", spec) /\ "ServiceReady" \in Steps
  BY StepNames DEF Taken, Optional
<1>7. QED
  BY <1>2, <1>3, <1>5, <1>6 DEF Before

\* The condition is reached from the helper alone.
LEMMA OnlyAfterMonitor ==
  ASSUME NEW spec
  PROVE  /\ FirstStep(spec) # "ServiceMonitorReady"
         /\ \A step \in Steps \ {"PersistStatus"} :
              NextStep(step, spec) = "ServiceMonitorReady" => step = "ServiceMonitor"
<1>1. /\ Order[19] = "ServiceMonitor" /\ Order[20] = "ServiceMonitorReady"
  BY DEF Order
<1>2. /\ Position("ServiceMonitor") = 19 /\ Position("ServiceMonitorReady") = 20
      /\ "ServiceMonitor" \in Steps
  BY <1>1, PositionOf, StepNames DEF Child, Optional
<1>3. ASSUME NEW i \in 0 .. 22, TakenAfter(i, spec) = "ServiceMonitorReady" PROVE i = 19
  <2>1. /\ Taken("ServiceMonitorReady", spec) /\ i < 20
        /\ i < 19 => ~ Taken("ServiceMonitor", spec)
    BY <1>2, <1>3, TakenAfterPosition
  <2>2. QED
    BY <2>1, MonitorTaken
<1>4. FirstStep(spec) # "ServiceMonitorReady"
  BY <1>3 DEF FirstStep
<1>5. ASSUME NEW step \in Steps \ {"PersistStatus"},
             NextStep(step, spec) = "ServiceMonitorReady"
      PROVE  step = "ServiceMonitor"
  <2>1. Position(step) \in 1 .. 23 /\ Order[Position(step)] = step
    BY PositionInverse
  <2>2. Position(step) # 23
    BY <2>1, OrderLength
  <2>3. TakenAfter(Position(step), spec) = "ServiceMonitorReady"
    BY <1>5 DEF NextStep, Position
  <2>4. Position(step) = 19
    BY <1>3, <2>1, <2>2, <2>3
  <2>5. QED
    BY <1>1, <2>1, <2>4
<1>6. QED
  BY <1>4, <1>5

-----------------------------------------------------------------------------
(***************************************************************************)
(* What a status patch does to the fields that matter here.  An error is a *)
(* failure, and the patch may have been applied all the same.              *)
(***************************************************************************)
Merged(new) ==
  /\ cr'.status.phase = Changed(inst.status.phase, new.phase, cr.status.phase)
  /\ cr'.status.conditions =
       Changed(inst.status.conditions, new.conditions, cr.status.conditions)
  /\ cr'.status.observedGeneration =
       Changed(inst.status.observedGeneration, new.observedGeneration,
               cr.status.observedGeneration)
  /\ cr'.status.managedResources =
       Changed(inst.status.managedResources, new.managedResources,
               cr.status.managedResources)

LEMMA PatchEffect ==
  ASSUME CopyInv, inst \in TlnDB, cr # None, NEW new \in TlnDBStatus,
         NEW reply \in {"ok", "error"}, PatchStatus(new, reply)
  PROVE  /\ cr \in TlnDB /\ cr' \in TlnDB /\ cr' # None
         /\ cr'.generation = cr.generation /\ cr'.spec = cr.spec
         /\ ccr' = ccr \/ ccr' = cr'
         /\ cr' = cr \/ Merged(new)
         /\ reply = "ok" => Merged(new) /\ faults' = faults
         /\ reply = "error" => faults' = faults + 1
<1>1. cr \in TlnDB /\ cr.status \in TlnDBStatus /\ inst.status \in TlnDBStatus
  BY DEF CopyInv, TypeOK, TlnDBTypes, TlnDB
<1>2. MergePatch(cr.status, inst.status, new) \in TlnDBStatus
  BY <1>1, MergePatchType
<1>3. /\ Patched(new) \in TlnDB /\ Patched(new).generation = cr.generation
      /\ Patched(new).spec = cr.spec
      /\ Patched(new).status = MergePatch(cr.status, inst.status, new)
  BY <1>1, <1>2 DEF Patched, TlnDB
<1>4. ASSUME StoreCR(Patched(new))
      PROVE  /\ cr' = Patched(new) /\ Merged(new)
             /\ ccr' = ccr \/ ccr' = cr'
  <2>1. cr' = Patched(new) /\ (ccr' = ccr \/ ccr' = cr')
    BY <1>4 DEF StoreCR
  <2>2. Merged(new)
    BY <1>3, <2>1 DEF Merged, MergePatch
  <2>3. QED
    BY <2>1, <2>2
<1>5. /\ reply = "ok" => StoreCR(Patched(new)) /\ faults' = faults
      /\ reply = "error" => faults' = faults + 1
      /\ StoreCR(Patched(new)) \/ (cr' = cr /\ ccr' = ccr)
  BY DEF PatchStatus, Fault, crSide, crCache
<1>6. CASE StoreCR(Patched(new))
  BY <1>1, <1>3, <1>4, <1>5, <1>6, NoneAssumption
<1>7. CASE cr' = cr /\ ccr' = ccr /\ reply = "error"
  BY <1>1, <1>5, <1>7
<1>8. QED
  BY <1>5, <1>6, <1>7

\* What the call holds afterwards.
LEMMA KeptCopy ==
  ASSUME inst \in TlnDB, cr' \in TlnDB, NEW new \in TlnDBStatus, NEW reply,
         KeepInstance(new, reply)
  PROVE  /\ reply = "ok" =>
              /\ inst'.generation = cr'.generation
              /\ inst'.spec.enabled = cr'.spec.enabled
              /\ inst'.status.phase = Kept("", new.phase, cr'.status.phase)
              /\ inst'.status.conditions =
                   Kept(NoConditions, new.conditions, cr'.status.conditions)
         /\ reply # "ok" =>
              /\ inst'.generation = inst.generation /\ inst'.spec = inst.spec
              /\ inst'.status = new
<1> DEFINE local == [inst EXCEPT !.status = new]
           d == DecodeInto(local, cr')
<1>1. /\ local.generation = inst.generation /\ local.spec = inst.spec
      /\ local.status = new
  BY DEF TlnDB
<1>2. /\ d.generation = cr'.generation
      /\ d.status.phase = Kept("", new.phase, cr'.status.phase)
      /\ d.status.conditions =
           Kept(NoConditions, new.conditions, cr'.status.conditions)
  BY <1>1 DEF DecodeInto, NoConditions
<1>3. d.spec.enabled = cr'.spec.enabled
  <2>1. cr'.spec \in TlnDBSpec
    BY DEF TlnDB
  <2>2. d.spec = [cr'.spec EXCEPT
                    !.configFrom = @ \/ local.spec.configFrom,
                    !.serviceAccountName = @ \/ local.spec.serviceAccountName]
    BY DEF DecodeInto
  <2> HIDE DEF d, local
  <2>3. QED
    BY <2>1, <2>2 DEF TlnDBSpec
<1>4. inst' = IF reply = "ok" THEN d ELSE local
  BY DEF KeepInstance
<1> HIDE DEF d, local
<1>5. QED
  BY <1>1, <1>2, <1>3, <1>4

-----------------------------------------------------------------------------
(***************************************************************************)
(* Calls in which nothing failed: FaultlessInv.                            *)
(*                                                                         *)
(* What every step does to the stored TlnDB.                               *)
(***************************************************************************)
StoredStep ==
  /\ ccr' = ccr \/ ccr' = cr'
  /\ \/ cr' = None
     \/ cr = None /\ cr' # None /\ cr'.status = EmptyStatus
     \/ /\ cr # None /\ cr' # None
        /\ cr'.generation >= cr.generation
        /\ cr'.generation = cr.generation => cr'.spec.enabled = cr.spec.enabled
        /\ cr.status.conditions # NoConditions => cr'.status.conditions # NoConditions
        /\ MonitoringInstalled /\ faults = 0 /\ faults' = 0 => MonitorCondition(cr') # "False"

\* The cached copy stays a copy of it.
LEMMA CacheTells ==
  ASSUME GInv, IInv', CopiesTell, StoredStep
  PROVE  Live(ccr)' => SameEnabled(ccr)' /\ ConditionsKnown(ccr)'
<1> SUFFICES ASSUME Live(ccr)' PROVE SameEnabled(ccr)' /\ ConditionsKnown(ccr)'
  OBVIOUS
<1>1. CASE ccr' = cr'
  BY <1>1 DEF SameEnabled, ConditionsKnown, NoConditions
<1>2. CASE ccr' = ccr
  <2>1. Live(ccr) /\ ccr # None
    BY <1>2 DEF Live
  <2>2. cr # None /\ cr' # None
    BY <2>1 DEF GInv, IInv, Claims, CacheClaims
  <2>3. /\ ccr.generation <= cr.generation /\ SameEnabled(ccr) /\ ConditionsKnown(ccr)
        /\ {ccr.generation, cr.generation, cr'.generation} \subseteq Nat
    BY <2>1, <2>2, Numbers DEF GInv, CopiesNotAhead, CopiesTell, Numeric
  <2>4. QED
    BY <1>2, <2>2, <2>3 DEF StoredStep, SameEnabled, ConditionsKnown, NoConditions
<1>3. QED
  BY <1>1, <1>2 DEF StoredStep

\* A new TlnDB has no condition and no phase.
LEMMA NothingRecorded ==
  /\ EmptyStatus.phase = ""
  /\ NoConditions = EmptyStatus.conditions
  /\ \A c \in ConditionTypes : EmptyStatus.conditions[c].status = ""
  /\ EmptyStatus.conditions["ServiceMonitorReady"].status = ""
<1> DEFINE none == [c \in ConditionTypes |-> [status |-> "", observedGeneration |-> 0]]
<1>1. EmptyStatus.conditions = none /\ EmptyStatus.phase = ""
  <2>1. EmptyStatus = [phase |-> "", conditions |-> none, observedGeneration |-> 0,
                       readyReplicas |-> 0, currentImage |-> None,
                       managedResources |-> {}, lastUpdateTime |-> 0]
    BY DEF EmptyStatus
  <2> HIDE DEF none
  <2>2. QED
    BY <2>1
<1>2. ASSUME NEW c \in ConditionTypes PROVE EmptyStatus.conditions[c].status = ""
  <2>1. PICK e : e = none[c]
    OBVIOUS
  <2>2. e = [status |-> "", observedGeneration |-> 0]
    BY <2>1
  <2>3. e.status = ""
    BY <2>2
  <2> HIDE DEF none
  <2>4. QED
    BY <1>1, <2>1, <2>3
<1>3. "ServiceMonitorReady" \in ConditionTypes
  BY DEF ConditionTypes
<1> HIDE DEF none
<1>4. QED
  BY <1>1, <1>2, <1>3 DEF NoConditions

\* Without a failure neither of them says that the ServiceMonitor is missing.
LEMMA StoredNotFalse ==
  ASSUME OnlyWhenInstalled, StoredStep, MonitoringInstalled, faults = 0, faults' = 0
  PROVE  /\ cr' # None => MonitorCondition(cr') # "False"
         /\ ccr' # None => MonitorCondition(ccr') # "False"
<1>1. MonitorCondition(cr') # "False" \/ cr' = None
  <2>1. CASE cr'.status = EmptyStatus
    BY <2>1, NothingRecorded DEF MonitorCondition
  <2>2. QED
    BY <2>1 DEF StoredStep
<1>2. QED
  BY <1>1 DEF StoredStep, OnlyWhenInstalled, NotFalse

\* Numbers of failures.
LEMMA Failures ==
  ASSUME GInv, faults' = faults \/ faults' = faults + 1
  PROVE  /\ faults' = 0 => faults = 0 /\ faults' = faults
         /\ faults' <= 1 => faults <= 1
         /\ faults' = faults + 1 => faults' # 0
         /\ faults' <= 1 /\ faults' = faults + 1 => faults = 0
<1>1. faults \in Nat
  BY Numbers DEF GInv, Numeric
<1>2. QED
  BY <1>1

(***************************************************************************)
(* Steps that leave the call and the stored TlnDB alone.                   *)
(***************************************************************************)
LEMMA ElsewhereFaultless ==
  ASSUME GInv, FaultlessInv, IInv', UNCHANGED <<cr, pc, inst>>, ccr' = ccr \/ ccr' = cr',
         faults' = faults \/ faults' = faults + 1,
         obj'["ServiceMonitor"] \in {obj["ServiceMonitor"], None}
  PROVE  FaultlessInv'
<1> USE DEF FaultlessInv
<1>1. StoredStep
  BY Numbers DEF StoredStep, Numeric, GInv, OnlyWhenInstalled, NotFalse, MonitorCondition
<1>2. CopiesTell'
  <2>1. Live(ccr)' => SameEnabled(ccr)' /\ ConditionsKnown(ccr)'
    BY <1>1, CacheTells
  <2>2. pc' \in ResourceSteps =>
          SameEnabled(inst)' /\ (faults' = 0 => ConditionsKnown(inst)')
    BY Failures DEF CopiesTell, SameEnabled, ConditionsKnown, NoConditions, ResourceSteps
  <2>3. QED
    BY <2>1, <2>2 DEF CopiesTell
<1>3. OnlyWhenInstalled'
  <2>1. MonitoringInstalled /\ faults' = 0 => NotFalse'
    BY <1>1, Failures, StoredNotFalse DEF OnlyWhenInstalled, NotFalse, MonitorCondition
  <2>2. QED
    BY <2>1, Failures DEF OnlyWhenInstalled, MonitorCondition
<1>4. ListUpToDate' /\ Accounted'
  BY Failures DEF ListUpToDate, Accounted, MonitorCondition, Outcome, Behind
<1>5. LostIsNoticed'
  BY Failures DEF LostIsNoticed, Lost, MonitorCondition, Outcome, MonitorAhead
<1>6. QED
  BY <1>2, <1>3, <1>4, <1>5

(***************************************************************************)
(* Steps after which there is no call that works on resources.             *)
(***************************************************************************)
LEMMA CallOverFaultless ==
  ASSUME GInv, FaultlessInv, IInv', StoredStep, pc' \notin ResourceSteps,
         faults' = faults \/ faults' = faults + 1,
         ~ MonitoringInstalled => obj'["ServiceMonitor"] = None,
         faults' = 0 => ~ Lost',
         MonitoringInstalled /\ faults' = 0 /\ pc' # "idle" => MonitorCondition(inst') # "False"
  PROVE  FaultlessInv'
<1> USE DEF FaultlessInv
<1>1. /\ pc' \notin Steps /\ pc' \notin Working
      /\ pc' \notin {"SyncStatus", "ServiceMonitorReady", "ServiceMonitorMissing"}
  BY StepNames DEF ResourceSteps, Working, ConditionSteps
<1>2. CopiesTell'
  BY CacheTells DEF CopiesTell
<1>3. OnlyWhenInstalled'
  BY <1>1, Failures, StoredNotFalse DEF OnlyWhenInstalled, NotFalse, MonitorCondition
<1>4. ListUpToDate' /\ Accounted' /\ LostIsNoticed'
  BY <1>1 DEF ListUpToDate, Accounted, LostIsNoticed
<1>5. QED
  BY <1>2, <1>3, <1>4

(***************************************************************************)
(* The steps that write children, and the one that reads the external      *)
(* ConfigMap.                                                              *)
(***************************************************************************)
LEMMA ChildFaultless ==
  ASSUME GInv, FaultlessInv, IInv', UNCHANGED <<cr, ccr, inst>>,
         pc \in Steps \ (ConditionTypes \cup {"PersistStatus"}),
         faults' = faults \/ faults' = faults + 1,
         ~ MonitoringInstalled => obj'["ServiceMonitor"] = None,
         \/ /\ pc' = NextStep(pc, inst.spec)
            /\ pc = "ServiceMonitor" => MonitoringInstalled
         \/ pc' = "SetFailed"
         \/ pc' = "ConfigMapMissing"
         \/ /\ pc = "ServiceMonitor" /\ pc' = "ServiceMonitorMissing"
            /\ MonitoringInstalled => faults' = faults + 1
  PROVE  FaultlessInv'
<1> USE DEF FaultlessInv
<1>1. /\ pc \in ResourceSteps /\ pc # "idle" /\ cr # None
      /\ ConditionOf(pc) = pc /\ pc \in Working
  <2>1. pc \in ResourceSteps /\ pc # "idle" /\ pc \in Working
    BY StepKinds DEF Working
  <2>2. pc \notin {"ConfigMapMissing", "ServiceMonitorMissing"}
    BY StepNames DEF Child, Services, StatefulSets, Optional
  <2>3. QED
    BY <2>1, <2>2 DEF ConditionOf, GInv, IInv, Claims, CallClaims
<1>2. /\ NextStep(pc, inst.spec) \in Steps
      /\ Before(NextStep(pc, inst.spec), inst.spec) \subseteq Before(pc, inst.spec) \cup {pc}
  BY NextStepBehind
<1>3. \A s \in {"ServiceReady", "ServiceMonitorReady"} :
        s \in Before(NextStep(pc, inst.spec), inst.spec) => s \in Before(pc, inst.spec)
  BY <1>2 DEF ConditionTypes
<1>4. {"SetFailed", "ConfigMapMissing", "ServiceMonitorMissing", "SyncStatus"} \cap Steps = {}
  BY StepNames DEF Child, Services, StatefulSets, Optional
<1>5. CopiesTell'
  BY <1>1, Failures DEF CopiesTell, SameEnabled, ConditionsKnown, NoConditions, Live
<1>6. OnlyWhenInstalled'
  <2>1. pc' = "ServiceMonitorReady" => MonitoringInstalled
    <3>1. "ServiceMonitorReady" \notin {"SetFailed", "ConfigMapMissing", "ServiceMonitorMissing"}
      OBVIOUS
    <3>2. QED
      BY <3>1, OnlyAfterMonitor
  <2>2. MonitoringInstalled /\ faults' = 0 => NotFalse'
    BY <1>1, Failures DEF OnlyWhenInstalled, NotFalse, MonitorCondition
  <2>3. MonitoringInstalled /\ pc' = "ServiceMonitorMissing" => faults' = faults + 1
    BY <1>2, <1>4
  <2>4. MonitoringInstalled /\ pc' = "ServiceMonitorMissing" /\ faults' <= 1 =>
          MonitorCondition(cr') # "False"
    BY <1>1, <2>3, Failures DEF OnlyWhenInstalled, NotFalse, MonitorCondition
  <2>5. QED
    BY <2>1, <2>2, <2>3, <2>4, Failures DEF OnlyWhenInstalled, MonitorCondition
<1>7. ListUpToDate'
  <2> SUFFICES ASSUME faults' = 0, pc' \in Working, "ServiceReady" \in Behind'
               PROVE  "ServiceReady" \in Behind
    BY <1>1, Failures DEF ListUpToDate
  <2>1. Behind = Before(pc, inst.spec)
    BY BehindIs DEF Behind
  <2>2. CASE pc' = NextStep(pc, inst.spec)
    BY <1>2, <1>3, <2>1, <2>2, BehindIs DEF Behind
  <2>3. CASE pc = "ServiceMonitor"
    BY <2>1, <2>3, MonitorPlace
  <2>4. "SetFailed" \notin Working /\ "ConfigMapMissing" \notin Working
    BY <1>4 DEF Working
  <2>5. QED
    BY <2>2, <2>3, <2>4
<1>8. Accounted'
  <2>1. pc' \in Steps => pc' = NextStep(pc, inst.spec)
    BY <1>4
  <2>2. pc' # "SyncStatus"
    BY <1>2, <1>4
  <2>3. QED
    BY <1>3, <2>1, <2>2, Failures DEF Accounted, MonitorCondition, Outcome
<1>9. LostIsNoticed'
  <2> SUFFICES ASSUME faults' = 0, Lost' PROVE MonitorAhead'
    BY Failures DEF LostIsNoticed, Lost, MonitorCondition, Outcome
  <2>1. MonitorAhead
    BY Failures DEF LostIsNoticed, Lost, MonitorCondition, Outcome
  <2>2. "ServiceMonitorReady" \notin Before(pc, inst.spec)
    BY <1>1, <1>4, <2>1 DEF MonitorAhead
  <2>3. CASE pc' = NextStep(pc, inst.spec)
    <3>1. ConditionOf(pc') = pc'
      BY <1>2, <1>4, <2>3 DEF ConditionOf
    <3>2. QED
      BY <1>2, <1>3, <2>2, <2>3, <3>1 DEF MonitorAhead
  <2>4. CASE pc' = "SetFailed"
    BY <2>4 DEF MonitorAhead
  <2>5. CASE pc' \in {"ConfigMapMissing", "ServiceMonitorMissing"}
    BY <2>5, MonitorPlace DEF MonitorAhead, ConditionOf, ConditionTypes
  <2>6. QED
    BY <2>3, <2>4, <2>5
<1>10. QED
  BY <1>5, <1>6, <1>7, <1>8, <1>9

(***************************************************************************)
(* Users: a new TlnDB has nothing recorded, and an edit or a deletion      *)
(* makes what is recorded that of an older generation.                     *)
(***************************************************************************)
LEMMA UsersFaultless ==
  ASSUME GInv, FaultlessInv, IInv', Users PROVE FaultlessInv'
<1> USE DEF FaultlessInv
<1>1. CASE ExtEdit
  BY <1>1, ElsewhereFaultless DEF ExtEdit, crCache, locals
<1>2. CASE UserCreate \/ UserEdit \/ UserDelete
  <2>1. UNCHANGED <<pc, inst, obj, faults>> /\ (ccr' = ccr \/ ccr' = cr')
    BY <1>2 DEF UserCreate, UserEdit, UserDelete, UserWrites, StoreCR
  <2>2. \/ cr' = None
        \/ cr = None /\ cr' # None /\ cr'.status = EmptyStatus
        \/ /\ cr # None /\ cr' # None /\ cr'.status = cr.status
           /\ cr.generation \in Nat /\ cr'.generation = cr.generation + 1
    <3>1. CASE UserCreate
      BY <3>1 DEF UserCreate, UserWrites, StoreCR
    <3>2. CASE UserEdit \/ UserDelete
      <4>1. cr \in TlnDB /\ cr # None /\ cr.generation \in Nat
        BY <3>2 DEF UserEdit, UserDelete, GInv, IInv, CopyInv, TypeOK, TlnDBTypes, TlnDB
      <4>2. CASE UserEdit
        BY <4>1, <4>2 DEF UserEdit, UserWrites, StoreCR, TlnDB
      <4>3. CASE UserDelete
        BY <4>1, <4>3 DEF UserDelete, UserWrites, StoreCR, TlnDB
      <4>4. QED
        BY <3>2, <4>1, <4>2, <4>3
    <3>3. QED
      BY <1>2, <3>1, <3>2
  <2>3. StoredStep
    BY <2>1, <2>2 DEF StoredStep, OnlyWhenInstalled, NotFalse, MonitorCondition
  <2>4. pc \in ResourceSteps =>
          /\ pc # "idle" /\ cr' # None /\ cr'.status = cr.status
          /\ cr'.generation = cr.generation + 1 /\ inst.generation <= cr.generation
          /\ {inst.generation, cr.generation} \subseteq Nat
    BY <2>1, <2>2, StepKinds, Numbers
       DEF GInv, IInv, Claims, CallClaims, CopiesNotAhead, Numeric
  <2>5. ASSUME cr' # None PROVE ~ (cr'.status.observedGeneration = cr'.generation
                                     /\ cr'.status.phase = "Running")
    <3>1. CASE cr'.status = EmptyStatus
      BY <3>1, NothingRecorded
    <3>2. QED
      BY <2>2, <2>5, <3>1, Numbers DEF GInv, RecordNotAhead, Numeric
  <2>6. CopiesTell'
    <3>1. Live(ccr)' => SameEnabled(ccr)' /\ ConditionsKnown(ccr)'
      BY <2>3, CacheTells
    <3>2. pc' \in ResourceSteps =>
            SameEnabled(inst)' /\ (faults' = 0 => ConditionsKnown(inst)')
      BY <2>1, <2>4 DEF CopiesTell, SameEnabled, ConditionsKnown, NoConditions, ResourceSteps
    <3>3. QED
      BY <3>1, <3>2 DEF CopiesTell
  <2>7. OnlyWhenInstalled'
    <3>1. MonitoringInstalled /\ faults' = 0 => NotFalse'
      BY <2>1, <2>3, StoredNotFalse DEF OnlyWhenInstalled, NotFalse, MonitorCondition
    <3>2. "ServiceMonitorMissing" \in ResourceSteps
      BY DEF ResourceSteps, ConditionSteps
    <3>3. QED
      BY <2>1, <2>4, <3>1, <3>2 DEF OnlyWhenInstalled, MonitorCondition
  <2>8. ListUpToDate'
    <3>1. Working \subseteq ResourceSteps
      BY DEF Working, ResourceSteps, ConditionSteps
    <3>2. QED
      BY <2>1, <2>4, <3>1 DEF ListUpToDate, Behind
  <2>9. Accounted'
    <3>1. pc \in Steps \cup {"SyncStatus"} => pc \in ResourceSteps
      BY DEF ResourceSteps
    <3>2. pc \in ResourceSteps => cr'.status.observedGeneration # cr'.generation
      BY <2>4, Numbers DEF GInv, IInv, Claims, CallClaims, RecordNotAhead, Numeric
    <3>3. QED
      BY <2>1, <2>4, <3>1, <3>2 DEF Accounted, MonitorCondition, Outcome
  <2>10. LostIsNoticed'
    BY <2>5 DEF LostIsNoticed, Lost
  <2>11. QED
    BY <2>6, <2>7, <2>8, <2>9, <2>10
<1>3. QED
  BY <1>1, <1>2 DEF Users

-----------------------------------------------------------------------------
(***************************************************************************)
(* Status patches: they leave the list of conditions, or send one that has *)
(* conditions in it.                                                       *)
(***************************************************************************)
LEMMA PatchStored ==
  ASSUME GInv, FaultlessInv, inst \in TlnDB, NEW new \in TlnDBStatus,
         NEW reply \in {"ok", "error"}, PatchStatus(new, reply),
         \/ new.conditions = inst.status.conditions
         \/ /\ new.conditions # NoConditions
            /\ MonitoringInstalled /\ faults = 0 /\ faults' = 0 =>
                 new.conditions["ServiceMonitorReady"].status # "False"
  PROVE  StoredStep /\ (faults' = faults \/ faults' = faults + 1)
<1>1. CopyInv
  BY DEF GInv, IInv
<1>2. CASE cr = None
  BY <1>2 DEF PatchStatus, crSide, crCache, StoredStep, Fault
<1>3. CASE cr # None
  <2>1. /\ cr' \in TlnDB /\ cr' # None /\ cr'.generation = cr.generation
        /\ cr'.spec = cr.spec /\ (ccr' = ccr \/ ccr' = cr') /\ (cr' = cr \/ Merged(new))
    BY <1>1, <1>3, PatchEffect
  <2>2. faults' = faults \/ faults' = faults + 1
    BY <1>1, <1>3, PatchEffect
  <2>3. cr.generation \in Nat
    BY <1>3, Numbers DEF GInv, Numeric
  <2>4. \/ cr'.status.conditions = cr.status.conditions
        \/ /\ new.conditions # inst.status.conditions
           /\ cr'.status.conditions = new.conditions
    BY <2>1 DEF Merged, Changed
  <2>5. MonitoringInstalled /\ faults = 0 /\ faults' = 0 => MonitorCondition(cr') # "False"
    BY <1>3, <2>4 DEF FaultlessInv, OnlyWhenInstalled, NotFalse, MonitorCondition
  <2>6. QED
    BY <1>3, <2>1, <2>2, <2>3, <2>4, <2>5 DEF StoredStep
<1>4. QED
  BY <1>2, <1>3

\* setPhase leaves the conditions and the record alone.
LEMMA PhaseSet ==
  ASSUME IInv, pc # "idle", NEW phase \in Phases
  PROVE  /\ inst \in TlnDB /\ WithPhase(phase) \in TlnDBStatus
         /\ WithPhase(phase).phase = phase
         /\ WithPhase(phase).conditions = inst.status.conditions
         /\ WithPhase(phase).observedGeneration = inst.status.observedGeneration
         /\ WithPhase(phase).managedResources = inst.status.managedResources
<1>1. inst.status \in TlnDBStatus
  BY DEF IInv, CopyInv, TypeOK, CallTypes, TlnDB
<1>2. QED
  BY <1>1, PhaseRecord DEF WithPhase, TlnDBStatus

\* setCondition leaves all but its own condition alone.
LEMMA ConditionSet ==
  ASSUME IInv, pc # "idle", NEW c \in ConditionTypes, NEW status \in {"True", "False"}
  PROVE  LET new == WithCondition(c, status) IN
         /\ inst \in TlnDB /\ new \in TlnDBStatus
         /\ new.conditions # NoConditions
         /\ new.conditions[c].status = status
         /\ c # "ServiceMonitorReady" =>
              new.conditions["ServiceMonitorReady"] =
                inst.status.conditions["ServiceMonitorReady"]
         /\ new.phase = inst.status.phase
         /\ new.observedGeneration = inst.status.observedGeneration
         /\ new.managedResources = inst.status.managedResources
<1> DEFINE new == WithCondition(c, status)
           one == [status |-> status, observedGeneration |-> inst.generation]
<1>1. inst \in TlnDB /\ inst.status \in TlnDBStatus /\ new \in TlnDBStatus
  BY ConditionRecord DEF IInv, CopyInv, TypeOK, CallTypes, TlnDB
<1>2. inst.status.conditions \in [ConditionTypes -> Condition]
  BY <1>1 DEF TlnDBStatus
<1>3. /\ new.conditions = [inst.status.conditions EXCEPT ![c] = one]
      /\ new.phase = inst.status.phase
      /\ new.observedGeneration = inst.status.observedGeneration
      /\ new.managedResources = inst.status.managedResources
  BY <1>1 DEF WithCondition, TlnDBStatus
<1>4. /\ new.conditions[c] = one
      /\ c # "ServiceMonitorReady" =>
           new.conditions["ServiceMonitorReady"] =
             inst.status.conditions["ServiceMonitorReady"]
  BY <1>2, <1>3 DEF ConditionTypes
<1>5. NoConditions[c].status = ""
  BY NothingRecorded
<1>6. new.conditions[c].status = status
  BY <1>4
<1>7. new.conditions # NoConditions
  BY <1>5, <1>6
<1> HIDE DEF new, one
<1>8. QED
  BY <1>1, <1>3, <1>4, <1>6, <1>7 DEF new

(***************************************************************************)
(* A patch of the phase to something else does not lose the condition; and *)
(* if it is not sent, the call's copy had that phase already.              *)
(***************************************************************************)
LEMMA PhaseNotLost ==
  ASSUME GInv, inst \in TlnDB, NEW phase \in Phases \ {"Running"}, NEW new \in TlnDBStatus,
         new.phase = phase, new.conditions = inst.status.conditions,
         new.observedGeneration = inst.status.observedGeneration,
         NEW reply \in {"ok", "error"}, PatchStatus(new, reply), Lost', faults' = 0
  PROVE  Lost /\ inst.status.phase = phase
<1>1. CopyInv
  BY DEF GInv, IInv
<1>2. cr # None
  BY DEF Lost, PatchStatus, crSide
<1>3. /\ cr'.generation = cr.generation /\ cr'.spec = cr.spec
      /\ reply = "ok" => Merged(new)
      /\ reply = "error" => faults' = faults + 1
  BY <1>1, <1>2, PatchEffect
<1>4. Merged(new)
  BY <1>3, Failures
<1>5. /\ cr'.status.conditions = cr.status.conditions
      /\ cr'.status.observedGeneration = cr.status.observedGeneration
      /\ cr'.status.phase = IF phase # inst.status.phase THEN phase ELSE cr.status.phase
  BY <1>4 DEF Merged, Changed
<1>6. QED
  BY <1>2, <1>3, <1>5 DEF Lost, MonitorCondition, Outcome

\* setPhase at the start of a call, in its error path, and on deletion.
LEMMA PhaseFaultless ==
  ASSUME GInv, FaultlessInv, IInv', SetProvisioning \/ SetFailed \/ SetTerminating
  PROVE  FaultlessInv'
<1> USE DEF FaultlessInv
<1>1. IInv /\ pc # "idle" /\ UNCHANGED obj
  BY DEF GInv, SetProvisioning, SetFailed, SetTerminating
<1>2. PICK phase \in {"Provisioning", "Failed", "Terminating"},
           reply \in {"ok", "error"} :
        /\ PatchStatus(WithPhase(phase), reply)
        /\ \/ /\ pc = "SetProvisioning" /\ phase = "Provisioning" /\ reply = "ok"
              /\ KeepInstance(WithPhase(phase), reply) /\ pc' = FirstStep(inst'.spec)
           \/ /\ pc = "SetTerminating" /\ reply = "ok"
              /\ KeepInstance(WithPhase(phase), reply) /\ pc' = "RemoveFinalizer"
           \/ /\ pc = "SetFailed" /\ phase = "Failed" /\ pc' = "idle"
           \/ /\ pc \in {"SetProvisioning", "SetTerminating"} /\ pc' = "idle"
  <2>1. CASE SetProvisioning
    BY <2>1 DEF SetProvisioning, Return
  <2>2. CASE SetFailed
    BY <2>2 DEF SetFailed, Return
  <2>3. CASE SetTerminating
    BY <2>3 DEF SetTerminating, Return
  <2>4. QED
    BY <2>1, <2>2, <2>3
<1>3. PICK new : new = WithPhase(phase)
  OBVIOUS
<1>4. /\ inst \in TlnDB /\ new \in TlnDBStatus /\ new.phase = phase
      /\ new.conditions = inst.status.conditions
      /\ new.observedGeneration = inst.status.observedGeneration
  BY <1>1, <1>3, PhaseSet DEF Phases
<1>5. PatchStatus(new, reply)
  BY <1>2, <1>3
<1>6. StoredStep /\ (faults' = faults \/ faults' = faults + 1)
  BY <1>4, <1>5, PatchStored
<1>7. ASSUME faults' = 0, Lost' PROVE FALSE
  <2>1. faults = 0
    BY <1>6, <1>7, Failures
  <2>2. Lost /\ inst.status.phase = phase /\ phase # "Running"
    <3>1. phase \in Phases \ {"Running"}
      BY DEF Phases
    <3>2. QED
      BY <1>4, <1>5, <1>7, <3>1, PhaseNotLost
  <2>3. MonitorAhead /\ inst.status.phase = "Running"
    BY <2>1, <2>2 DEF LostIsNoticed
  <2>4. QED
    BY <2>2, <2>3
<1>8. CASE pc' = "idle"
  BY <1>1, <1>6, <1>7, <1>8, StepKinds, CallOverFaultless DEF OnlyWhenInstalled
<1>9. CASE pc' # "idle"
  <2>1. reply = "ok" /\ KeepInstance(new, reply)
    BY <1>2, <1>3, <1>9
  <2>2. cr # None
    BY <1>5, <2>1 DEF PatchStatus
  <2>3. /\ cr' \in TlnDB /\ cr' # None /\ faults' = faults
        /\ cr'.status.conditions = cr.status.conditions
    <3>1. CopyInv
      BY <1>1 DEF IInv
    <3>2. cr' \in TlnDB /\ cr' # None /\ faults' = faults /\ Merged(new)
      BY <1>4, <1>5, <2>1, <2>2, <3>1, PatchEffect
    <3>3. QED
      BY <1>4, <3>2 DEF Merged, Changed
  <2>4. /\ inst'.generation = cr'.generation
        /\ inst'.spec.enabled = cr'.spec.enabled
        /\ inst'.status.conditions \in {inst.status.conditions, cr.status.conditions}
        /\ cr.status.conditions # NoConditions =>
             inst'.status.conditions = cr.status.conditions
    BY <1>4, <2>1, <2>3, KeptCopy DEF Kept
  <2>5. MonitoringInstalled /\ faults' = 0 => MonitorCondition(inst') # "False"
    BY <1>1, <2>2, <2>3, <2>4 DEF OnlyWhenInstalled, NotFalse, MonitorCondition
  <2>6. CASE pc' = "RemoveFinalizer"
    <3>1. pc' \notin ResourceSteps
      BY <2>6, StepKinds DEF DeletionSteps
    <3>2. QED
      BY <1>1, <1>6, <1>7, <2>5, <3>1, CallOverFaultless DEF OnlyWhenInstalled
  <2>7. CASE pc = "SetProvisioning" /\ pc' = FirstStep(inst'.spec)
    <3>1. /\ pc' \in Steps /\ Behind' = {} /\ Before(pc', inst'.spec) = {}
          /\ pc' \notin {"ServiceMonitorReady", "ServiceMonitorMissing", "SyncStatus"}
      <4>1. PICK sp : sp = inst'.spec
        OBVIOUS
      <4>2. FirstStep(sp) \in Steps /\ Before(FirstStep(sp), sp) = {}
        BY FirstStepBehind
      <4>3. FirstStep(sp) # "ServiceMonitorReady"
        BY OnlyAfterMonitor
      <4>4. {"ServiceMonitorMissing", "SyncStatus"} \cap Steps = {}
        BY StepNames DEF Child, Services, StatefulSets, Optional
      <4>5. QED
        BY <2>7, <4>1, <4>2, <4>3, <4>4, BehindIs DEF Behind
    <3>2. CopiesTell'
      <4>1. pc \in ResourceSteps
        BY <2>7 DEF ResourceSteps
      <4>2. SameEnabled(inst)' /\ (faults' = 0 => ConditionsKnown(inst)')
        BY <2>3, <2>4, <4>1 DEF CopiesTell, SameEnabled, ConditionsKnown, NoConditions
      <4>3. QED
        BY <1>6, <4>2, CacheTells DEF CopiesTell
    <3>3. OnlyWhenInstalled'
      BY <1>1, <1>6, <2>3, <2>5, <3>1, StoredNotFalse
         DEF OnlyWhenInstalled, NotFalse, MonitorCondition
    <3>4. ListUpToDate' /\ Accounted' /\ LostIsNoticed'
      BY <1>7, <3>1 DEF ListUpToDate, Accounted, LostIsNoticed
    <3>5. QED
      BY <3>2, <3>3, <3>4
  <2>8. QED
    BY <1>2, <1>9, <2>6, <2>7
<1>10. QED
  BY <1>8, <1>9

(***************************************************************************)
(* A failure in the middle of a call: of what follows only the generation  *)
(* of the call's copy matters.                                             *)
(***************************************************************************)
LEMMA FailedFaultless ==
  ASSUME GInv, FaultlessInv, IInv', StoredStep, faults' = faults + 1,
         cr # None, cr' # None, cr'.generation = cr.generation, cr'.spec = cr.spec,
         pc \in ResourceSteps, inst'.generation = inst.generation, inst'.spec = inst.spec,
         UNCHANGED obj, pc' \notin {"ServiceMonitorReady", "ServiceMonitorMissing"}
  PROVE  FaultlessInv'
<1> USE DEF FaultlessInv
<1>1. faults' # 0
  BY Failures
<1>2. CopiesTell'
  BY <1>1, CacheTells DEF CopiesTell, SameEnabled
<1>3. OnlyWhenInstalled'
  BY <1>1 DEF OnlyWhenInstalled
<1>4. QED
  BY <1>1, <1>2, <1>3 DEF ListUpToDate, Accounted, LostIsNoticed

\* setCondition: its answer brings the call's copy up to date.
LEMMA ConditionFaultless ==
  ASSUME GInv, FaultlessInv, IInv', SetCondition PROVE FaultlessInv'
<1> USE DEF FaultlessInv
<1>0. PICK c : c = ConditionOf(pc)
  OBVIOUS
<1> DEFINE v == IF pc = c THEN "True" ELSE "False"
<1>1. /\ c \in ConditionTypes \ {"StatefulSetReady"} /\ v \in {"True", "False"}
      /\ c \in Steps \ {"PersistStatus", "ServiceMonitor"}
      /\ pc \in ResourceSteps /\ pc # "idle" /\ IInv /\ CopyInv
  BY <1>0, StepNames, StepKinds
     DEF SetCondition, ConditionSteps, ConditionOf, ConditionTypes, GInv, IInv
<1>2. PICK new : new = WithCondition(c, v)
  OBVIOUS
<1>3. PICK reply \in {"ok", "error"} : PatchStatus(new, reply) /\ KeepInstance(new, reply)
  BY <1>0, <1>2 DEF SetCondition
<1>4. pc' = (IF pc = "ConfigMapMissing" THEN "SetFailed" ELSE NextStep(c, inst'.spec))
      /\ UNCHANGED obj
  BY <1>0 DEF SetCondition
<1>5. /\ inst \in TlnDB /\ new \in TlnDBStatus /\ new.conditions # NoConditions
      /\ new.conditions[c].status = v
      /\ c # "ServiceMonitorReady" =>
           new.conditions["ServiceMonitorReady"] =
             inst.status.conditions["ServiceMonitorReady"]
      /\ new.phase = inst.status.phase
      /\ new.observedGeneration = inst.status.observedGeneration
  BY <1>1, <1>2, ConditionSet
<1>6. \/ pc = c
      \/ pc = "ServiceMonitorMissing" /\ c = "ServiceMonitorReady"
      \/ pc = "ConfigMapMissing" /\ c = "ConfigMapReady"
  BY <1>0 DEF ConditionOf
<1>7. pc = c => v = "True"
  OBVIOUS
<1>8. pc = "ServiceMonitorMissing" => v = "False"
  BY <1>0 DEF ConditionOf
<1> HIDE DEF v
<1>9. cr # None
  BY <1>1 DEF GInv, IInv, Claims, CallClaims
<1>10. MonitoringInstalled /\ faults = 0 =>
         new.conditions["ServiceMonitorReady"].status # "False"
  <2> SUFFICES ASSUME MonitoringInstalled, faults = 0
               PROVE  new.conditions["ServiceMonitorReady"].status # "False"
    OBVIOUS
  <2>1. pc # "ServiceMonitorMissing" /\ MonitorCondition(inst) # "False"
    BY <1>1 DEF OnlyWhenInstalled, NotFalse
  <2>2. c = "ServiceMonitorReady" => v = "True"
    BY <1>6, <1>7, <2>1
  <2>3. QED
    BY <1>5, <2>1, <2>2 DEF MonitorCondition
<1>11. StoredStep
  BY <1>3, <1>5, <1>10, PatchStored
<1>12. /\ cr' \in TlnDB /\ cr' # None /\ cr'.generation = cr.generation /\ cr'.spec = cr.spec
       /\ reply = "ok" => Merged(new) /\ faults' = faults
       /\ reply = "error" => faults' = faults + 1
  BY <1>1, <1>3, <1>5, <1>9, PatchEffect
<1>13. /\ pc' = "SetFailed" \/ pc' \in Steps
       /\ pc' \notin {"ServiceMonitorReady", "ServiceMonitorMissing", "SyncStatus"}
  <2>1. PICK sp : sp = inst'.spec
    OBVIOUS
  <2>2. NextStep(c, sp) \in Steps /\ NextStep(c, sp) # "ServiceMonitorReady"
    BY <1>1, NextStepIsStep, OnlyAfterMonitor
  <2>3. {"ServiceMonitorMissing", "SyncStatus"} \cap Steps = {}
    BY StepNames DEF Child, Services, StatefulSets, Optional
  <2>4. QED
    BY <1>4, <2>1, <2>2, <2>3
<1>14. CASE reply = "error"
  <2>1. inst'.generation = inst.generation /\ inst'.spec = inst.spec
    BY <1>3, <1>5, <1>12, <1>14, KeptCopy
  <2>2. QED
    BY <1>1, <1>4, <1>9, <1>11, <1>12, <1>13, <1>14, <2>1, FailedFaultless
<1>15. CASE reply = "ok"
  <2>1. Merged(new) /\ faults' = faults
    BY <1>12, <1>15
  <2>2. /\ cr'.status.conditions =
             IF new.conditions # inst.status.conditions THEN new.conditions
                                                       ELSE cr.status.conditions
        /\ cr'.status.phase = cr.status.phase
    BY <1>5, <2>1 DEF Merged, Changed
  <2>3. faults = 0 => cr'.status.conditions # NoConditions
    BY <1>1, <1>5, <2>2 DEF CopiesTell, ConditionsKnown
  <2>4. /\ inst'.generation = cr'.generation
        /\ inst'.spec.enabled = cr'.spec.enabled
        /\ cr'.status.phase # "" => inst'.status.phase = cr'.status.phase
        /\ faults = 0 => inst'.status.conditions = cr'.status.conditions
    BY <1>3, <1>5, <1>12, <1>15, <2>3, KeptCopy DEF Kept
  <2>5. CopiesTell'
    <3>1. SameEnabled(inst)' /\ (faults' = 0 => ConditionsKnown(inst)')
      BY <2>1, <2>4 DEF SameEnabled, ConditionsKnown, NoConditions
    <3>2. QED
      BY <1>11, <3>1, CacheTells DEF CopiesTell
  <2>6. OnlyWhenInstalled'
    <3>1. MonitoringInstalled /\ faults = 0 =>
            /\ MonitorCondition(cr') # "False"
            /\ ccr' # None => MonitorCondition(ccr') # "False"
      BY <1>11, <1>12, <2>1, StoredNotFalse
    <3>2. MonitoringInstalled /\ faults' = 0 => NotFalse'
      BY <2>1, <2>4, <3>1 DEF NotFalse, MonitorCondition
    <3>3. QED
      BY <1>4, <1>13, <3>2 DEF OnlyWhenInstalled
  <2>7. ListUpToDate'
    BY <2>1, <2>4 DEF ListUpToDate
  <2>8. ASSUME faults' = 0, pc' \in Steps, "ServiceMonitorReady" \in Before(pc', inst'.spec)
        PROVE  MonitorCondition(cr') = Outcome
    <3>1. PICK sp : sp = inst'.spec
      OBVIOUS
    <3>2. pc' = NextStep(c, sp) /\ pc # "ConfigMapMissing"
      <4>1. "SetFailed" \notin Steps
        BY StepNames DEF Child, Services, StatefulSets, Optional
      <4>2. QED
        BY <1>4, <2>8, <3>1, <4>1
    <3>3. /\ Before(NextStep(c, sp), sp) \subseteq Before(c, sp) \cup {c}
          /\ "ServiceMonitorReady" \notin Before(c, sp)
      BY <1>1, NextStepBehind, MonitorPlace
    <3>4. c = "ServiceMonitorReady"
      BY <2>8, <3>1, <3>2, <3>3
    <3>5. v = Outcome
      BY <1>6, <1>7, <1>8, <2>1, <2>8, <3>4 DEF Outcome, OnlyWhenInstalled
    <3>6. inst.status.conditions = cr.status.conditions
      <4>1. PICK isp : isp = inst.spec
        OBVIOUS
      <4>2. BehindAt(pc, isp) = Before("ServiceMonitorReady", isp)
        BY <1>1, <1>6, <3>4, BehindIs
      <4>3. "ServiceReady" \in Behind
        BY <4>1, <4>2, MonitorPlace DEF Behind
      <4>4. pc \in Working
        BY <1>1, <1>6, <3>4 DEF Working
      <4>5. QED
        BY <2>1, <2>8, <4>3, <4>4 DEF ListUpToDate
    <3>7. cr'.status.conditions = new.conditions
      BY <2>2, <3>6
    <3>8. QED
      BY <1>5, <3>4, <3>5, <3>7 DEF MonitorCondition
  <2>9. Accounted'
    BY <1>13, <2>8 DEF Accounted, MonitorCondition, Outcome
  <2>10. LostIsNoticed'
    <3> SUFFICES ASSUME faults' = 0, Lost'
                 PROVE  MonitorAhead' /\ inst'.status.phase = "Running"
      BY <2>4 DEF LostIsNoticed
    <3>1. inst'.status.phase = "Running"
      BY <2>4 DEF Lost
    <3>2. CASE pc' = "SetFailed"
      BY <3>1, <3>2 DEF MonitorAhead
    <3>3. CASE pc' \in Steps
      <4>1. "ServiceMonitorReady" \notin Before(pc', inst'.spec)
        BY <2>8, <3>3 DEF Lost, MonitorCondition, Outcome
      <4>2. ConditionOf(pc') = pc'
        <5>1. {"ConfigMapMissing", "ServiceMonitorMissing"} \cap Steps = {}
          BY StepNames DEF Child, Services, StatefulSets, Optional
        <5>2. QED
          BY <3>3, <5>1 DEF ConditionOf
      <4>3. QED
        BY <3>1, <3>3, <4>1, <4>2 DEF MonitorAhead
    <3>4. QED
      BY <1>13, <3>2, <3>3
  <2>11. QED
    BY <2>5, <2>6, <2>7, <2>9, <2>10
<1>16. QED
  BY <1>14, <1>15

\* The final patch records only what the call has accounted for.
LEMMA PersistFaultless ==
  ASSUME GInv, FaultlessInv, IInv', PersistStatus PROVE FaultlessInv'
<1> USE DEF FaultlessInv
<1>1. PICK new : new = [inst.status EXCEPT
                          !.managedResources = managed,
                          !.currentImage = inst.spec.image,
                          !.lastUpdateTime = now,
                          !.observedGeneration = inst.generation]
  OBVIOUS
<1>2. /\ pc = "PersistStatus" /\ pc \in Steps /\ pc \in ResourceSteps /\ pc # "idle"
      /\ IInv /\ CopyInv /\ cr # None /\ UNCHANGED obj
  BY StepNames, StepKinds DEF PersistStatus, GInv, IInv, Claims, CallClaims
<1>3. inst \in TlnDB
  BY <1>2, CallHoldsInstance
<1>4. /\ new \in TlnDBStatus /\ new.observedGeneration = inst.generation
      /\ new.conditions = inst.status.conditions /\ new.phase = inst.status.phase
  <2>1. /\ inst.status \in TlnDBStatus /\ inst.generation \in Nat
        /\ inst.spec.image \in Images /\ now \in Nat /\ managed \in SUBSET Child
    BY <1>2, <1>3 DEF TlnDB, TlnDBSpec, CopyInv, TypeOK, OtherTypes, CallTypes
  <2>2. QED
    BY <1>1, <2>1 DEF TlnDBStatus
<1>5. PICK reply \in {"ok", "error"} :
        /\ PatchStatus(new, reply) /\ KeepInstance(new, reply)
        /\ pc' = IF reply = "ok" THEN "SyncStatus" ELSE "SetFailed"
  BY <1>1 DEF PersistStatus
<1>6. StoredStep
  BY <1>3, <1>4, <1>5, PatchStored
<1>7. /\ cr' \in TlnDB /\ cr' # None /\ cr'.generation = cr.generation /\ cr'.spec = cr.spec
      /\ reply = "ok" => Merged(new) /\ faults' = faults
      /\ reply = "error" => faults' = faults + 1
  BY <1>2, <1>3, <1>4, <1>5, PatchEffect
<1>8. CASE reply = "error"
  <2>1. inst'.generation = inst.generation /\ inst'.spec = inst.spec
    BY <1>3, <1>4, <1>5, <1>7, <1>8, KeptCopy
  <2>2. QED
    BY <1>2, <1>5, <1>6, <1>7, <1>8, <2>1, FailedFaultless
<1>9. CASE reply = "ok"
  <2>1. Merged(new) /\ faults' = faults /\ pc' = "SyncStatus"
    BY <1>5, <1>7, <1>9
  <2>2. /\ cr'.status.conditions = cr.status.conditions
        /\ \/ cr'.status.observedGeneration = inst.generation
           \/ cr'.status.observedGeneration = cr.status.observedGeneration
    BY <1>4, <2>1 DEF Merged, Changed
  <2>3. /\ inst'.generation = cr'.generation
        /\ inst'.spec.enabled = cr'.spec.enabled
        /\ inst'.status.conditions \in {inst.status.conditions, cr.status.conditions}
        /\ cr.status.conditions # NoConditions =>
             inst'.status.conditions = cr.status.conditions
    BY <1>3, <1>4, <1>5, <1>7, <1>9, <2>2, KeptCopy DEF Kept
  <2>4. PICK sp : sp = inst.spec
    OBVIOUS
  <2>5. faults = 0 => inst.status.conditions = cr.status.conditions
    <3>1. "ServiceReady" \in Behind /\ pc \in Working
      BY <1>2, <2>4, BehindIs, MonitorPlace DEF Behind, Working
    <3>2. QED
      BY <3>1 DEF ListUpToDate
  <2>6. CopiesTell'
    <3>1. SameEnabled(inst)' /\ (faults' = 0 => ConditionsKnown(inst)')
      BY <2>1, <2>2, <2>3, <2>5 DEF SameEnabled, ConditionsKnown, NoConditions
    <3>2. QED
      BY <1>6, <3>1, CacheTells DEF CopiesTell
  <2>7. OnlyWhenInstalled'
    <3>1. MonitoringInstalled /\ faults' = 0 => NotFalse'
      BY <1>2, <1>6, <2>1, <2>3, StoredNotFalse
         DEF OnlyWhenInstalled, NotFalse, MonitorCondition
    <3>2. QED
      BY <1>2, <2>1, <3>1 DEF OnlyWhenInstalled
  <2>8. ListUpToDate'
    BY <2>1, <2>2, <2>3, <2>5 DEF ListUpToDate
  <2>9. ASSUME faults' = 0, cr'.status.observedGeneration = cr'.generation,
               "ServiceMonitor" \in cr'.spec.enabled
        PROVE  MonitorCondition(cr') = Outcome
    <3>1. /\ inst.generation <= cr.generation
          /\ {inst.generation, cr.generation, cr.status.observedGeneration} \subseteq Nat
      BY <1>2, Numbers DEF GInv, CopiesNotAhead, Numeric
    <3>2. inst.generation >= cr.status.observedGeneration
      BY PersistStatusRecord, <2>1, <2>9
    <3>3. inst.generation = cr.generation
      BY <1>7, <2>2, <2>9, <3>1, <3>2
    <3>4. "ServiceMonitor" \in inst.spec.enabled
      BY <1>2, <1>7, <2>9, <3>3 DEF CopiesTell, SameEnabled
    <3>5. "ServiceMonitorReady" \in Before(pc, inst.spec)
      BY <1>2, <2>4, <3>4, MonitorPlace
    <3>6. MonitorCondition(cr) = Outcome
      BY <1>2, <2>1, <2>9, <3>5 DEF Accounted
    <3>7. QED
      BY <2>2, <3>6 DEF MonitorCondition
  <2>10. Accounted'
    <3>1. pc' \notin Steps
      BY <2>1, StepNames DEF Child, Services, StatefulSets, Optional
    <3>2. QED
      BY <2>9, <3>1 DEF Accounted, MonitorCondition, Outcome
  <2>11. LostIsNoticed'
    BY <2>9 DEF LostIsNoticed, Lost, MonitorCondition, Outcome
  <2>12. QED
    BY <2>6, <2>7, <2>8, <2>10, <2>11
<1>10. QED
  BY <1>8, <1>9

\* syncStatus sends the stored condition of the ServiceMonitor, if any.
LEMMA SyncStatusFaultless ==
  ASSUME GInv, FaultlessInv, IInv', SyncStatus PROVE FaultlessInv'
<1> USE DEF FaultlessInv
<1> DEFINE sts == cobj[primaryStatefulSet(inst.spec)]
           phase == PhaseOf(sts, inst.spec)
           v == IF phase = "Running" THEN "True" ELSE "False"
           new == [WithCondition("StatefulSetReady", v)
                     EXCEPT !.readyReplicas = sts.ready, !.phase = phase]
<1>1. /\ IInv /\ CopyInv /\ pc = "SyncStatus" /\ pc # "idle" /\ pc' = "idle"
      /\ pc \in ResourceSteps /\ pc \in Working /\ cr # None /\ UNCHANGED obj
      /\ pc' \notin ResourceSteps
  BY StepKinds DEF GInv, SyncStatus, Return, ResourceSteps, Working, IInv, Claims, CallClaims
<1>2. CASE sts = None
  <2>1. UNCHANGED <<cr, ccr, faults>>
    BY <1>2 DEF SyncStatus, crSide, crCache
  <2>2. StoredStep
    BY <1>1, <2>1, Numbers DEF StoredStep, Numeric, OnlyWhenInstalled, NotFalse, MonitorCondition
  <2>3. faults' = 0 => ~ Lost'
    BY <1>1, <2>1, Failures, StepNames
       DEF LostIsNoticed, Lost, MonitorCondition, Outcome, Accounted
  <2>4. QED
    BY <1>1, <2>1, <2>2, <2>3, CallOverFaultless DEF OnlyWhenInstalled
<1>3. CASE sts # None
  <2>1. sts.ready \in Nat
    <3>1. primaryStatefulSet(inst.spec) \in Watched
      BY DEF primaryStatefulSet, Watched, Child, StatefulSets
    <3>2. sts \in ObjectOf(primaryStatefulSet(inst.spec))
      BY <1>1, <1>3, <3>1 DEF IInv, CopyInv, TypeOK, ChildTypes
    <3>3. QED
      BY <3>2 DEF ObjectOf
  <2>2. phase \in Phases /\ v \in {"True", "False"} /\ "StatefulSetReady" \in ConditionTypes
    BY DEF PhaseOf, Phases, ConditionTypes
  <2>3. PICK w : w = WithCondition("StatefulSetReady", v)
    OBVIOUS
  <2>4. /\ inst \in TlnDB /\ w \in TlnDBStatus /\ w.conditions # NoConditions
        /\ w.conditions["ServiceMonitorReady"] = inst.status.conditions["ServiceMonitorReady"]
        /\ w.observedGeneration = inst.status.observedGeneration
    BY <1>1, <2>2, <2>3, ConditionSet
  <2>5. /\ new \in TlnDBStatus /\ new.conditions = w.conditions
        /\ new.observedGeneration = w.observedGeneration
    BY <2>1, <2>2, <2>3, <2>4 DEF TlnDBStatus
  <2>6. PICK reply \in {"ok", "error"} : PatchStatus(new, reply)
    BY <1>3 DEF SyncStatus
  <2> HIDE DEF new
  <2>7. MonitoringInstalled /\ faults = 0 =>
          new.conditions["ServiceMonitorReady"].status # "False"
    BY <1>1, <2>4, <2>5 DEF OnlyWhenInstalled, NotFalse, MonitorCondition
  <2>8. StoredStep /\ (faults' = faults \/ faults' = faults + 1)
    BY <2>4, <2>5, <2>6, <2>7, PatchStored
  <2>9. ASSUME faults' = 0, Lost' PROVE FALSE
    <3>1. faults = 0
      BY <2>8, <2>9, Failures
    <3>2. /\ cr'.generation = cr.generation /\ cr'.spec = cr.spec
          /\ cr' = cr \/ Merged(new)
      BY <1>1, <2>4, <2>5, <2>6, PatchEffect
    <3>3. inst.status.conditions = cr.status.conditions
      <4>1. PICK sp : sp = inst.spec
        OBVIOUS
      <4>2. "ServiceReady" \in BehindAt("SyncStatus", sp)
        BY BehindIs, LastBehind, MonitorPlace
      <4>3. QED
        BY <1>1, <3>1, <4>1, <4>2 DEF ListUpToDate, Behind
    <3>4. /\ cr'.status.observedGeneration = cr.status.observedGeneration
          /\ MonitorCondition(cr') = MonitorCondition(cr)
      BY <2>4, <2>5, <3>2, <3>3 DEF Merged, Changed, MonitorCondition
    <3>5. MonitorCondition(cr) = Outcome
      BY <1>1, <2>9, <3>1, <3>2, <3>4 DEF Accounted, Lost
    <3>6. QED
      BY <2>9, <3>4, <3>5 DEF Lost, MonitorCondition, Outcome
  <2>10. QED
    BY <1>1, <2>8, <2>9, CallOverFaultless DEF OnlyWhenInstalled
<1>4. QED
  BY <1>2, <1>3

\* The Updates of the whole object: a record stays that of its generation.
LEMMA UpdateFaultless ==
  ASSUME GInv, FaultlessInv, IInv', AddFinalizer \/ RemoveFinalizer PROVE FaultlessInv'
<1> USE DEF FaultlessInv
<1>1. /\ pc' = "idle" /\ pc' \notin ResourceSteps /\ UNCHANGED obj
      /\ faults' = faults \/ faults' = faults + 1
  BY StepKinds DEF AddFinalizer, RemoveFinalizer, Return, Fault
<1>2. faults = 0 => ~ Lost
  BY StepNames DEF AddFinalizer, RemoveFinalizer, LostIsNoticed, MonitorAhead, Child, Services,
                   StatefulSets, Optional
<1>3. StoredStep /\ (Lost' => Lost)
  <2>1. CASE UNCHANGED <<cr, ccr>>
    BY <2>1, Numbers DEF StoredStep, Numeric, GInv, OnlyWhenInstalled, NotFalse,
                         MonitorCondition, Lost, Outcome
  <2>2. CASE StoreCR(None)
    BY <2>2 DEF StoreCR, StoredStep, Lost
  <2>3. CASE AddFinalizer /\ instFresh /\ StoreCR(WithFinalizer)
    <3>1. cr # None /\ cr \in TlnDB
      BY <2>3, CallHoldsInstance, NoneAssumption
         DEF AddFinalizer, GInv, IInv, CopyInv, TypeOK, TlnDBTypes, UpdateClaim
    <3>2. cr' = WithFinalizer /\ (ccr' = ccr \/ ccr' = cr')
      BY <2>3 DEF StoreCR
    <3>3. /\ cr'.status = cr.status /\ cr.generation \in Nat
          /\ \/ cr'.generation = cr.generation /\ cr'.spec = cr.spec
             \/ cr'.generation = cr.generation + 1
      <4>1. cr'.status = cr.status /\ cr.generation \in Nat
        BY <3>1, <3>2 DEF WithFinalizer, TlnDB
      <4>2. \/ cr'.generation = cr.generation /\ cr'.spec = cr.spec
            \/ cr'.generation = cr.generation + 1
        BY <3>1, <3>2 DEF WithFinalizer, TlnDB
      <4>3. QED
        BY <4>1, <4>2
    <3>4. StoredStep
      BY <3>1, <3>2, <3>3 DEF StoredStep, OnlyWhenInstalled, NotFalse, MonitorCondition
    <3>5. Lost' => Lost
      BY <3>1, <3>3, Numbers DEF Lost, MonitorCondition, Outcome, GInv, RecordNotAhead, Numeric
    <3>6. QED
      BY <3>4, <3>5
  <2>4. QED
    BY <2>1, <2>2, <2>3 DEF AddFinalizer, RemoveFinalizer, crSide, crCache
<1>4. QED
  BY <1>1, <1>2, <1>3, Failures, CallOverFaultless DEF OnlyWhenInstalled

\* The Get: at rest the condition is not lost, and the call has all ahead of it.
LEMMA ReconcileFaultless ==
  ASSUME GInv, FaultlessInv, IInv', Reconcile PROVE FaultlessInv'
<1> USE DEF FaultlessInv
<1>1. UNCHANGED <<cr, ccr, obj, faults>> /\ pc = "idle"
  BY DEF Reconcile, server, crCache
<1>2. faults = 0 => ~ Lost
  BY <1>1, StepKinds DEF LostIsNoticed, MonitorAhead
<1>3. StoredStep
  BY <1>1, Numbers DEF StoredStep, Numeric, GInv, OnlyWhenInstalled, NotFalse, MonitorCondition
<1>4. ~ Lost => ~ Lost'
  BY <1>1 DEF Lost, MonitorCondition, Outcome
<1>5. CASE UNCHANGED <<pc, inst>>
  BY <1>1, <1>5, ElsewhereFaultless
<1>6. CASE pc' = Entry(ccr) /\ inst' = ccr /\ ccr # None
  <2>1. MonitoringInstalled /\ faults' = 0 => MonitorCondition(inst') # "False"
    BY <1>1, <1>6 DEF OnlyWhenInstalled, NotFalse
  <2>2. CASE pc' \notin ResourceSteps
    BY <1>1, <1>2, <1>3, <1>4, <2>1, <2>2, CallOverFaultless DEF OnlyWhenInstalled
  <2>3. CASE pc' \in ResourceSteps
    <3>1. "SetTerminating" \notin ResourceSteps
      BY StepKinds DEF DeletionSteps
    <3>2. /\ ~ ccr.deleting /\ ccr.finalizer
          /\ pc' \in {"SetProvisioning", FirstStep(ccr.spec)}
      BY <1>6, <2>3, <3>1, StepKinds DEF Entry
    <3>3. Live(ccr)
      BY <1>6, <3>2 DEF Live
    <3>4. PICK sp : sp = ccr.spec
      OBVIOUS
    <3>5. /\ Behind' = {} /\ (pc' \in Steps => Before(pc', inst'.spec) = {})
          /\ pc' \notin {"ServiceMonitorReady", "ServiceMonitorMissing", "SyncStatus"}
      <4>1. FirstStep(sp) \in Steps /\ Before(FirstStep(sp), sp) = {}
        BY FirstStepBehind
      <4>2. FirstStep(sp) # "ServiceMonitorReady"
        BY OnlyAfterMonitor
      <4>3. {"ServiceMonitorMissing", "SyncStatus", "SetProvisioning"} \cap Steps = {}
        BY StepNames DEF Child, Services, StatefulSets, Optional
      <4>4. QED
        BY <1>6, <3>2, <3>4, <4>1, <4>2, <4>3, BehindIs DEF Behind
    <3>6. CopiesTell'
      BY <1>1, <1>3, <1>6, <3>3, CacheTells
         DEF CopiesTell, SameEnabled, ConditionsKnown, NoConditions
    <3>7. OnlyWhenInstalled'
      BY <1>1, <1>3, <2>1, <3>5, StoredNotFalse DEF OnlyWhenInstalled, NotFalse, MonitorCondition
    <3>8. ListUpToDate' /\ Accounted' /\ LostIsNoticed'
      BY <1>1, <1>2, <1>4, <3>5 DEF ListUpToDate, Accounted, LostIsNoticed
    <3>9. QED
      BY <3>6, <3>7, <3>8
  <2>4. QED
    BY <2>2, <2>3
<1>7. QED
  BY <1>5, <1>6 DEF Reconcile

\* The helpers; that of the ServiceMonitor fails without the CRD or by accident.
LEMMA HelperFaultless ==
  ASSUME GInv, FaultlessInv, IInv',
         (\E k \in Child : CreateOrUpdate(k)) \/ ExternalConfigMap \/ PruneFollower
  PROVE  FaultlessInv'
<1>1. UNCHANGED <<cr, ccr, inst>> /\ (faults' = faults \/ faults' = faults + 1)
  BY DEF CreateOrUpdate, Apply, ExternalConfigMap, PruneFollower, Fault, server, crCache, locals
<1>2. pc \in Steps \ (ConditionTypes \cup {"PersistStatus"})
  BY StepNames DEF CreateOrUpdate, ExternalConfigMap, PruneFollower, Child, Services,
                   StatefulSets, Optional, ConditionTypes
<1>3. "ServiceMonitor" \in Child
  BY DEF Child, Optional
<1>4. ASSUME NEW k \in Child \ {"ServiceMonitor"}, NEW new, Store(k, new)
      PROVE  obj'["ServiceMonitor"] = obj["ServiceMonitor"]
  BY <1>3, <1>4 DEF Store, GInv, IInv, CopyInv, TypeOK, ChildTypes
<1>5. CASE ExternalConfigMap \/ PruneFollower
  <2>1. obj'["ServiceMonitor"] = obj["ServiceMonitor"]
    <3>1. "FollowerStatefulSet" \in Child \ {"ServiceMonitor"}
      BY DEF Child, StatefulSets
    <3>2. QED
      BY <1>4, <1>5, <3>1 DEF ExternalConfigMap, PruneFollower, server, childSide
  <2>2. /\ pc # "ServiceMonitor"
        /\ pc' \in {NextStep(pc, inst.spec), "SetFailed", "ConfigMapMissing"}
    BY <1>5 DEF ExternalConfigMap, PruneFollower
  <2>3. QED
    BY <1>1, <1>2, <2>1, <2>2, ChildFaultless DEF FaultlessInv, OnlyWhenInstalled
<1>6. ASSUME NEW k \in Child \ {"ServiceMonitor"}, CreateOrUpdate(k) PROVE FaultlessInv'
  <2>1. obj'["ServiceMonitor"] = obj["ServiceMonitor"]
    BY <1>4, <1>6 DEF CreateOrUpdate, Apply, childSide
  <2>2. pc # "ServiceMonitor" /\ pc' \in {NextStep(pc, inst.spec), "SetFailed"}
    BY <1>6 DEF CreateOrUpdate
  <2>3. QED
    BY <1>1, <1>2, <2>1, <2>2, ChildFaultless DEF FaultlessInv, OnlyWhenInstalled
<1>7. CASE CreateOrUpdate("ServiceMonitor")
  <2> DEFINE k == "ServiceMonitor"
  <2>1. PICK reply \in {"ok", "error"} :
          /\ Apply(k, reply)
          /\ pc' = IF reply = "ok" THEN NextStep(k, inst.spec) ELSE "ServiceMonitorMissing"
    BY <1>7 DEF CreateOrUpdate
  <2>2. pc = k /\ Existing(k) = obj[k] /\ k \notin Watched
    BY <1>7 DEF CreateOrUpdate, Existing, Watched
  <2>3. ~ MonitoringInstalled => obj[k] = None
    BY DEF FaultlessInv, OnlyWhenInstalled
  <2>4. ~ MonitoringInstalled => reply = "error" /\ obj'[k] = None
    <3>1. ~ MonitoringInstalled => Sent(k) /\ ~ Accepted(k) /\ ~ Swallowed(k)
      BY <2>2, <2>3 DEF Sent, Accepted, Swallowed
    <3>2. QED
      BY <2>1, <2>3, <3>1 DEF Apply, childSide
  <2>5. MonitoringInstalled /\ reply = "error" => faults' = faults + 1
    <3>1. MonitoringInstalled => Accepted(k)
      BY <2>2 DEF Accepted
    <3>2. QED
      BY <2>1, <3>1 DEF Apply, Fault
  <2>6. QED
    BY <1>1, <1>2, <2>1, <2>2, <2>4, <2>5, ChildFaultless
<1>8. QED
  BY <1>5, <1>6, <1>7

\* Deliveries and the cluster; it only takes a ServiceMonitor away.
LEMMA ClusterFaultless ==
  ASSUME GInv, FaultlessInv, IInv', Cluster PROVE FaultlessInv'
<1>1. "ServiceMonitor" \in Child
  BY DEF Child, Optional
<1>2. ASSUME NEW k \in Child, NEW new, Store(k, new), k # "ServiceMonitor" \/ new = None
      PROVE  obj'["ServiceMonitor"] \in {obj["ServiceMonitor"], None}
  BY <1>1, <1>2 DEF Store, GInv, IInv, CopyInv, TypeOK, ChildTypes
<1>3. ASSUME NEW k \in Child, CollectGarbage(k) \/ DeleteChild(k)
      PROVE  obj'["ServiceMonitor"] \in {obj["ServiceMonitor"], None}
  BY <1>2, <1>3 DEF CollectGarbage, DeleteChild, ClusterWrites
<1>4. ASSUME NEW k \in StatefulSets,
             StsObserve(k) \/ PodReady(k) \/ PodFails(k) \/ (k = HPATarget /\ Autoscale)
      PROVE  obj'["ServiceMonitor"] \in {obj["ServiceMonitor"], None}
  <2>1. k \in Child /\ k # "ServiceMonitor"
    BY DEF StatefulSets, Child
  <2>2. PICK new : Store(k, new)
    <3>1. CASE PodReady(k) \/ PodFails(k)
      BY <3>1 DEF PodReady, PodFails, ClusterWrites
    <3>2. CASE StsObserve(k)
      BY <3>2 DEF StsObserve, ClusterWrites
    <3>3. CASE k = HPATarget /\ Autoscale
      BY <3>3 DEF Autoscale, ClusterWrites
    <3>4. QED
      BY <1>4, <3>1, <3>2, <3>3
  <2>3. QED
    BY <1>2, <2>1, <2>2
<1>5. Watched \subseteq Child /\ HPATarget \in StatefulSets
  BY DEF Watched, HPATarget, StatefulSets
<1>6. obj'["ServiceMonitor"] \in {obj["ServiceMonitor"], None}
  <2>1. CASE SyncCR \/ SyncExt \/ TimerFires \/ Tick \/ \E k \in Watched : SyncChild(k)
    BY <2>1 DEF SyncCR, SyncExt, TimerFires, Tick, SyncChild, server
  <2>2. QED
    BY <1>3, <1>4, <1>5, <2>1 DEF Cluster
<1>7. QED
  BY <1>6, ClusterLeaves, ElsewhereFaultless

\* Every step, and stuttering, preserves the facts about failure-free calls.
LEMMA NextFaultless ==
  ASSUME GInv, FaultlessInv, [Next]_vars PROVE FaultlessInv'
<1>1. IInv'
  BY NextIInv DEF GInv
<1>2. CASE UNCHANGED vars
  BY <1>1, <1>2, ElsewhereFaultless DEF vars, server, crCache, locals
<1>3. CASE Restart
  <2>1. /\ UNCHANGED <<cr, obj>> /\ ccr' = cr' /\ pc' = "idle" /\ faults' = faults + 1
        /\ pc' \notin ResourceSteps
    BY <1>3, StepKinds DEF Restart, Fault, server
  <2>2. StoredStep
    BY <2>1, Numbers DEF StoredStep, Numeric, GInv, FaultlessInv, OnlyWhenInstalled, NotFalse,
                         MonitorCondition
  <2>3. QED
    BY <1>1, <2>1, <2>2, Failures, CallOverFaultless DEF FaultlessInv, OnlyWhenInstalled
<1>4. CASE Operator
  BY <1>1, <1>4, ReconcileFaultless, UpdateFaultless, PhaseFaultless, ConditionFaultless,
     PersistFaultless, SyncStatusFaultless, HelperFaultless DEF Operator
<1>5. QED
  BY <1>1, <1>2, <1>3, <1>4, ClusterFaultless, UsersFaultless DEF Next

-----------------------------------------------------------------------------
(***************************************************************************)
(* Calls in which nothing waits: Silent.                                   *)
(*                                                                         *)
(* Except for the Get, a step after which nothing waits had nothing        *)
(* waiting before it, and leaves the stored TlnDB as it is.                *)
(***************************************************************************)
LEMMA PatchNothingWaited ==
  ASSUME QInv, inst \in TlnDB, NEW new \in TlnDBStatus, NEW reply, PatchStatus(new, reply),
         UNCHANGED childCache, timer => timer', ~ Waiting'
  PROVE  cr' = cr /\ ~ Waiting
<1>1. ~ queued' /\ crFresh' /\ ~ timer' /\ \A k \in Watched : fresh'[k]
  BY DEF Waiting
<1>2. cr' = cr /\ ~ queued /\ crFresh
  BY <1>1, PatchSilent DEF QInv
<1>3. QED
  BY <1>1, <1>2 DEF Waiting, childCache

\* The same for a child.
LEMMA StoreNothingWaited ==
  ASSUME QInv, NEW k \in Child, NEW new, Store(k, new) \/ UNCHANGED childSide,
         UNCHANGED <<cr, crCache, timer>>, ~ Waiting'
  PROVE  ~ Waiting
<1> USE DEF QInv
<1>1. ~ queued' /\ crFresh' /\ ~ timer' /\ \A c \in Watched : fresh'[c]
  BY DEF Waiting
<1>2. ~ queued /\ \A c \in Watched : fresh[c]
  <2>1. CASE UNCHANGED childSide
    BY <1>1, <2>1 DEF childSide, childCache
  <2>2. CASE Store(k, new) /\ k \in Watched
    BY <1>1, <2>2, StoreSilent
  <2>3. CASE Store(k, new) /\ k \notin Watched
    <3>1. k = "ServiceMonitor"
      BY <2>3 DEF Watched
    <3>2. QED
      BY <1>1, <2>3, <3>1, StoreMonitor
  <2>4. QED
    BY <2>1, <2>2, <2>3
<1>3. QED
  BY <1>1, <1>2 DEF Waiting, crCache

\* All steps.
LEMMA NothingWaited ==
  ASSUME QInv, [Next]_vars, ~ Reconcile, cr' # None, ~ Waiting'
  PROVE  cr' = cr /\ ~ Waiting
<1>1. CopyInv /\ now \in Nat
  BY DEF QInv, CopyInv, TypeOK, OtherTypes
<1>2. CASE SetProvisioning \/ SetTerminating
  <2>1. inst \in TlnDB
    BY <1>1, <1>2, CallHoldsInstance DEF SetProvisioning, SetTerminating
  <2>2. PICK phase \in Phases, reply \in {"ok", "error"} : PatchStatus(WithPhase(phase), reply)
    BY <1>2 DEF SetProvisioning, SetTerminating, Phases
  <2>3. WithPhase(phase) \in TlnDBStatus
    BY <1>1, <2>1, WithPhaseType
  <2>4. UNCHANGED childCache /\ (timer => timer')
    BY <1>2 DEF SetProvisioning, SetTerminating, Return
  <2>5. QED
    BY <2>1, <2>2, <2>3, <2>4, PatchNothingWaited
<1>3. CASE SetCondition
  <2> DEFINE c == ConditionOf(pc)
             v == IF pc = c THEN "True" ELSE "False"
  <2>1. c \in ConditionTypes /\ v \in {"True", "False"} /\ pc # "idle"
    BY <1>3 DEF SetCondition, ConditionSteps, ConditionOf, ConditionTypes
  <2>2. PICK reply \in {"ok", "error"} : PatchStatus(WithCondition(c, v), reply)
    BY <1>3 DEF SetCondition
  <2>3. UNCHANGED <<childCache, timer>>
    BY <1>3 DEF SetCondition
  <2> HIDE DEF c, v
  <2>4. inst \in TlnDB /\ WithCondition(c, v) \in TlnDBStatus
    BY <1>1, <2>1, CallHoldsInstance, WithConditionType
  <2>5. QED
    BY <2>2, <2>3, <2>4, PatchNothingWaited
<1>4. CASE PersistStatus
  <2> DEFINE new == [inst.status EXCEPT
                       !.managedResources = managed,
                       !.currentImage = inst.spec.image,
                       !.lastUpdateTime = now,
                       !.observedGeneration = inst.generation]
  <2>1. inst \in TlnDB
    BY <1>1, <1>4, CallHoldsInstance DEF PersistStatus
  <2>2. new \in TlnDBStatus
    BY <1>1, <2>1 DEF TlnDB, TlnDBSpec, TlnDBStatus, CopyInv, TypeOK, CallTypes
  <2>3. PICK reply \in {"ok", "error"} : PatchStatus(new, reply)
    BY <1>4 DEF PersistStatus
  <2>4. UNCHANGED <<childCache, timer>>
    BY <1>4 DEF PersistStatus
  <2> HIDE DEF new
  <2>5. QED
    BY <2>1, <2>2, <2>3, <2>4, PatchNothingWaited
<1>5. CASE SyncStatus
  <2> DEFINE k == primaryStatefulSet(inst.spec)
             sts == cobj[k]
             phase == PhaseOf(sts, inst.spec)
             v == IF phase = "Running" THEN "True" ELSE "False"
             new == [WithCondition("StatefulSetReady", v)
                       EXCEPT !.readyReplicas = sts.ready, !.phase = phase]
  <2>1. inst \in TlnDB /\ k \in Watched
    BY <1>1, <1>5, CallHoldsInstance DEF SyncStatus, primaryStatefulSet, Watched, Child, StatefulSets
  <2>2. sts # None
    BY <1>5 DEF SyncStatus, Return, Waiting
  <2>3. sts.ready \in Nat
    <3>1. k \in StatefulSets
      BY DEF primaryStatefulSet, StatefulSets
    <3>2. QED
      BY <1>1, <2>1, <2>2, <3>1 DEF CopyInv, TypeOK, ChildTypes, ObjectOf
  <2>4. WithCondition("StatefulSetReady", v) \in TlnDBStatus /\ phase \in Phases
    BY <2>1, WithConditionType DEF ConditionTypes, PhaseOf, Phases
  <2>5. new \in TlnDBStatus
    BY <2>3, <2>4 DEF TlnDBStatus
  <2>6. PICK reply \in {"ok", "error"} : PatchStatus(new, reply)
    BY <1>5, <2>2 DEF SyncStatus
  <2>7. UNCHANGED childCache /\ (timer => timer')
    BY <1>5 DEF SyncStatus, Return
  <2> HIDE DEF new
  <2>8. QED
    BY <2>1, <2>5, <2>6, <2>7, PatchNothingWaited
<1>6. CASE RemoveFinalizer
  BY <1>6 DEF RemoveFinalizer, Return, Waiting, StoreCR
<1>7. CASE \E k \in Child : CreateOrUpdate(k)
  <2>1. PICK k \in Child : CreateOrUpdate(k)
    BY <1>7
  <2>2. UNCHANGED <<cr, crCache, timer>> /\ (Store(k, Written(k)) \/ UNCHANGED childSide)
    BY <2>1 DEF CreateOrUpdate, Apply
  <2>3. QED
    BY <2>2, StoreNothingWaited
<1>8. CASE PruneFollower
  <2>1. /\ UNCHANGED <<cr, crCache, timer>>
        /\ Store("FollowerStatefulSet", None) \/ UNCHANGED childSide
    BY <1>8 DEF PruneFollower
  <2>2. "FollowerStatefulSet" \in Child
    BY DEF Child, StatefulSets
  <2>3. QED
    BY <2>1, <2>2, StoreNothingWaited
<1>9. CASE ExternalConfigMap \/ SyncExt \/ ExtEdit \/ Tick \/ UNCHANGED vars
  <2>1. UNCHANGED <<cr, crFresh, fresh, queued, timer>>
    BY <1>9 DEF ExternalConfigMap, SyncExt, ExtEdit, Tick, vars, server, crCache, childCache, queue
  <2>2. QED
    BY <2>1 DEF Waiting
<1>10. ASSUME NEW k \in Child, NEW new, ClusterWrites(k, new) PROVE cr' = cr /\ ~ Waiting
  BY <1>10, StoreNothingWaited DEF ClusterWrites
<1>11. CASE Cluster
  <2>1. CASE SyncCR \/ TimerFires \/ \E k \in Watched : SyncChild(k)
    BY <2>1, WaitsAgain
  <2>2. ASSUME NEW k \in Child, CollectGarbage(k) \/ DeleteChild(k) PROVE cr' = cr /\ ~ Waiting
    BY <1>10, <2>2 DEF CollectGarbage, DeleteChild
  <2>3. ASSUME NEW k \in StatefulSets,
               StsObserve(k) \/ PodReady(k) \/ PodFails(k) \/ (k = HPATarget /\ Autoscale)
        PROVE  cr' = cr /\ ~ Waiting
    <3>1. k \in Child
      BY DEF StatefulSets, Child
    <3>2. CASE PodReady(k) \/ PodFails(k)
      BY <1>10, <3>1, <3>2 DEF PodReady, PodFails
    <3>3. CASE StsObserve(k)
      BY <1>10, <3>1, <3>3 DEF StsObserve
    <3>4. CASE k = HPATarget /\ Autoscale
      BY <1>10, <3>1, <3>4 DEF Autoscale
    <3>5. QED
      BY <2>3, <3>2, <3>3, <3>4
  <2>4. Watched \subseteq Child /\ HPATarget \in StatefulSets
    BY DEF Watched, HPATarget, StatefulSets
  <2>5. QED
    BY <1>9, <1>11, <2>1, <2>2, <2>3, <2>4 DEF Cluster
<1>12. CASE AddFinalizer \/ SetFailed \/ Restart
  BY <1>12, WaitsAgain
<1>13. CASE UserCreate \/ UserEdit \/ UserDelete
  BY <1>13, UsersRight
<1>14. QED
  BY <1>2, <1>3, <1>4, <1>5, <1>6, <1>7, <1>8, <1>9, <1>11, <1>12, <1>13
     DEF Next, Operator, Users

-----------------------------------------------------------------------------
\* Off the path of a call without an error only the condition matters.
LEMMA OffPath ==
  ASSUME pc' \notin Working, pc' # "idle", faults' = 0 => ~ Lost' PROVE Known'
<1>1. pc' \notin {"SyncStatus", "ServiceMonitorMissing"}
  BY DEF Working
<1>2. QED
  BY <1>1 DEF Known, Listed, ConditionSeen, Asked, ConditionKept, WillBeListed

\* The list of what is managed and the stored TlnDB are looked at by name.
LEMMA SameMonitor ==
  ASSUME cr' = cr, obj'["ServiceMonitor"] = obj["ServiceMonitor"], gone => gone'
  PROVE  /\ RightOrGone => RightOrGone'
         /\ MonitorListed => MonitorListed'
         /\ Lost' = Lost
BY DEF RightOrGone, MonitorRight, MonitorListed, Lost, MonitorCondition, Outcome,
       BuildServiceMonitor

\* A step that leaves the call alone and takes no ServiceMonitor but an orphan,
\* or is remembered to have taken it.
LEMMA RestKnown ==
  ASSUME GInv, cr # None, Known, UNCHANGED <<cr, pc, inst, managed>>, gone => gone',
         faults' = faults \/ faults' = faults + 1,
         \/ obj'["ServiceMonitor"] = obj["ServiceMonitor"]
         \/ Orphan("ServiceMonitor")
         \/ obj'["ServiceMonitor"] = None /\ gone'
  PROVE  Known'
<1>1. /\ RightOrGone => RightOrGone'
      /\ MonitorListed => MonitorListed'
      /\ Lost' = Lost
  <2>1. CASE obj'["ServiceMonitor"] = obj["ServiceMonitor"]
    BY <2>1, SameMonitor
  <2>2. CASE Orphan("ServiceMonitor")
    <3>1. ~ RightOrGone
      BY <2>2 DEF Orphan, RightOrGone, MonitorRight
    <3>2. MonitorListed => MonitorListed'
      BY <2>2 DEF Orphan, MonitorListed
    <3>3. QED
      BY <3>1, <3>2 DEF Lost, MonitorCondition, Outcome
  <2>3. CASE obj'["ServiceMonitor"] = None /\ gone'
    BY <2>3 DEF RightOrGone, MonitorListed, Lost, MonitorCondition, Outcome
  <2>4. QED
    BY <2>1, <2>2, <2>3
<1>2. PastMonitor' = PastMonitor
  BY DEF PastMonitor, Behind
<1>3. Listed' /\ ConditionSeen' /\ Asked'
  BY <1>1, <1>2 DEF Known, Listed, ConditionSeen, Asked, MonitorCondition
<1>4. faults' <= 1 => ConditionKept' /\ WillBeListed'
  BY <1>1, <1>2, Failures DEF Known, ConditionKept, WillBeListed
<1>5. QED
  BY <1>3, <1>4 DEF Known

\* A step of the call that has nothing to do with the ServiceMonitor.
LEMMA GoesOnKnown ==
  ASSUME GInv, Known, UNCHANGED <<cr, inst>>, pc \in Working, pc' \in Steps,
         pc' # "ServiceMonitorReady", PastMonitor' = PastMonitor,
         ("ServiceMonitor" \in managed') = ("ServiceMonitor" \in managed),
         faults' = faults \/ faults' = faults + 1,
         obj'["ServiceMonitor"] = obj["ServiceMonitor"], gone => gone'
  PROVE  Known'
<1>1. pc' \notin {"SyncStatus", "idle", "ServiceMonitorMissing"} /\ pc' \in Working
  BY StepNames DEF Working, Child, Services, StatefulSets, Optional
<1>2. Listed' /\ ConditionSeen' /\ Asked'
  BY <1>1, SameMonitor DEF Known, Listed, ConditionSeen, Asked, MonitorCondition
<1>3. faults' <= 1 => ConditionKept' /\ WillBeListed'
  BY <1>1, Failures, SameMonitor DEF Known, ConditionKept, WillBeListed
<1>4. QED
  BY <1>2, <1>3 DEF Known

\* The start of a call, with nothing behind it.
LEMMA StartKnown ==
  ASSUME pc' \in {"SetProvisioning", FirstStep(inst'.spec)}, managed' = {},
         MonitorCondition(inst') = MonitorCondition(cr'), faults' = 0 => ~ Lost'
  PROVE  Known'
<1>1. PICK sp : sp = inst'.spec
  OBVIOUS
<1>2. FirstStep(sp) \in Steps /\ Before(FirstStep(sp), sp) = {}
  BY FirstStepBehind
<1>3. FirstStep(sp) # "ServiceMonitorReady"
  BY OnlyAfterMonitor
<1>4. {"ServiceMonitorMissing", "SyncStatus", "idle"} \cap Steps = {}
  BY StepNames DEF Child, Services, StatefulSets, Optional
<1>5. /\ ~ PastMonitor'
      /\ pc' \notin {"SyncStatus", "idle", "ServiceMonitorMissing", "ServiceMonitorReady"}
  BY <1>1, <1>2, <1>3, <1>4, BehindIs DEF PastMonitor, Behind
<1>6. Listed' /\ ConditionSeen' /\ Asked' /\ ConditionKept' /\ WillBeListed'
  BY <1>5 DEF Listed, ConditionSeen, Asked, ConditionKept, WillBeListed, MonitorCondition
<1>7. QED
  BY <1>6 DEF Known

(***************************************************************************)
(* One lemma per action.                                                   *)
(***************************************************************************)
LEMMA ReconcileKnown ==
  ASSUME QInv, GInv, FaultlessInv, Reconcile, cr' # None, ~ Waiting' PROVE Known'
<1>1. crFresh /\ UNCHANGED <<cr, ccr, obj, faults, managed>> /\ pc = "idle"
  BY DEF Reconcile, Waiting, server, crCache
<1>2. ccr = cr /\ cr # None /\ cr \in TlnDB /\ managed' = {}
  BY <1>1 DEF QInv, CopyInv, CacheCurrent, TypeOK, TlnDBTypes, StartsEmpty
<1>3. cr.deleting => cr.finalizer
  BY <1>2 DEF QInv, Held
<1>4. Entry(cr) \in {"SetTerminating", "AddFinalizer", "SetProvisioning", FirstStep(cr.spec)}
  BY <1>2, <1>3 DEF Entry, TlnDB
<1>5. Entry(cr) # "idle"
  BY <1>4, FirstStepIsStep, StepKinds
<1>6. pc' = Entry(cr) /\ inst' = cr
  BY <1>2, <1>5 DEF Reconcile
<1>7. faults' = 0 => ~ Lost'
  BY <1>1, StepKinds DEF FaultlessInv, LostIsNoticed, MonitorAhead, Lost, MonitorCondition, Outcome
<1>8. CASE pc' \in {"SetTerminating", "AddFinalizer"}
  <2>1. pc' \notin Working /\ pc' # "idle"
    BY <1>8, StepNames DEF Working, Child, Services, StatefulSets, Optional
  <2>2. QED
    BY <1>7, <2>1, OffPath
<1>9. CASE pc' \in {"SetProvisioning", FirstStep(cr.spec)}
  BY <1>1, <1>2, <1>6, <1>7, <1>9, StartKnown DEF MonitorCondition
<1>10. QED
  BY <1>4, <1>6, <1>8, <1>9

\* setPhase at the start of a call.
LEMMA SetProvisioningKnown ==
  ASSUME QInv, GInv, Silent, SetProvisioning, cr' # None, ~ Waiting', Right',
         cr' = cr, ~ Waiting
  PROVE  Known'
<1> DEFINE new == WithPhase("Provisioning")
<1>1. pc = "SetProvisioning" /\ pc # "idle" /\ pc \in Working /\ Known
  BY DEF SetProvisioning, Working, Silent
<1>2. /\ PatchStatus(new, "ok") /\ KeepInstance(new, "ok") /\ pc' = FirstStep(inst'.spec)
  BY DEF SetProvisioning, Return, Waiting
<1>3. /\ inst \in TlnDB /\ new \in TlnDBStatus
      /\ new.conditions = inst.status.conditions
  BY <1>1, PhaseSet DEF GInv, Phases
<1> HIDE DEF new
<1>4. cr' \in TlnDB
  BY DEF QInv, CopyInv, TypeOK, TlnDBTypes
<1>5. inst'.status.conditions \in {inst.status.conditions, cr.status.conditions}
  BY <1>2, <1>3, <1>4, KeptCopy DEF Kept
<1>6. ~ PastMonitor
  BY <1>1, BehindIs DEF PastMonitor, Behind
<1>7. MonitorCondition(inst') = MonitorCondition(cr')
  BY <1>1, <1>5, <1>6 DEF Known, ConditionSeen, MonitorCondition
<1>8. faults' = faults
  BY <1>2 DEF PatchStatus
<1>9. faults' = 0 => ~ Lost'
  BY <1>1, <1>8 DEF Known, ConditionKept, Lost, MonitorCondition, Outcome
<1>10. managed' = {}
  <2>1. pc' \in Steps
    BY <1>2, FirstStepBehind
  <2>2. Behind' = {}
    BY <1>2, FirstStepBehind, BehindIs DEF Behind
  <2>3. ManagedRight'
    BY <2>1 DEF Right, Working, CallRight
  <2>4. QED
    BY <2>2, <2>3 DEF ManagedRight
<1>11. QED
  BY <1>2, <1>7, <1>9, <1>10, StartKnown

(***************************************************************************)
(* setCondition.  A patch that succeeds has found the condition as it      *)
(* sets it; one that fails is the only failure, so there was nothing lost  *)
(* before.                                                                 *)
(***************************************************************************)
LEMMA SetConditionKnown ==
  ASSUME QInv, GInv, FaultlessInv, Silent, SetCondition, cr' # None, ~ Waiting', Right',
         cr' = cr, ~ Waiting, gone => gone'
  PROVE  Known'
<1>0. PICK c : c = ConditionOf(pc)
  OBVIOUS
<1> DEFINE v == IF pc = c THEN "True" ELSE "False"
<1>1. /\ c \in ConditionTypes \ {"StatefulSetReady"} /\ v \in {"True", "False"}
      /\ c \in Steps \ {"PersistStatus", "ServiceMonitor"}
      /\ pc # "idle" /\ IInv /\ CopyInv /\ pc \in ConditionSteps
  BY <1>0, StepNames, StepKinds
     DEF SetCondition, ConditionSteps, ConditionOf, ConditionTypes, GInv, IInv
<1>2. PICK new : new = WithCondition(c, v)
  OBVIOUS
<1>3. PICK reply \in {"ok", "error"} : PatchStatus(new, reply) /\ KeepInstance(new, reply)
  BY <1>0, <1>2 DEF SetCondition
<1>4. /\ pc' = IF pc = "ConfigMapMissing" THEN "SetFailed" ELSE NextStep(c, inst'.spec)
      /\ UNCHANGED <<obj, managed>>
  BY <1>0 DEF SetCondition
<1>5. /\ inst \in TlnDB /\ new \in TlnDBStatus /\ new.conditions # NoConditions
      /\ new.conditions[c].status = v
      /\ c # "ServiceMonitorReady" =>
           new.conditions["ServiceMonitorReady"] =
             inst.status.conditions["ServiceMonitorReady"]
  BY <1>1, <1>2, ConditionSet
<1>6. /\ pc = c => v = "True"
      /\ pc = "ServiceMonitorMissing" => c = "ServiceMonitorReady" /\ v = "False"
      /\ pc \notin {"ConfigMapMissing", "ServiceMonitorMissing"} => pc = c
  BY <1>0 DEF ConditionOf
<1> HIDE DEF v
<1>7. /\ cr' \in TlnDB
      /\ reply = "ok" => Merged(new) /\ faults' = faults
      /\ reply = "error" => faults' = faults + 1
  BY <1>1, <1>3, <1>5, PatchEffect
<1>8. Known /\ (faults' = 0 => faults = 0) /\ (faults' <= 1 => faults <= 1) /\ Lost' = Lost
  BY <1>4, <1>7, Failures, SameMonitor DEF Silent
<1>9. faults' = 0 => ~ Lost'
  BY <1>8 DEF Known, ConditionKept
<1>10. CASE pc = "ConfigMapMissing"
  <2>1. pc' \notin Working /\ pc' # "idle"
    BY <1>4, <1>10, StepNames DEF Working, Child, Services, StatefulSets, Optional
  <2>2. QED
    BY <1>9, <2>1, OffPath
<1>11. CASE pc # "ConfigMapMissing"
  <2>1. pc \in Working /\ (c # "ServiceMonitorReady" => pc = c)
    BY <1>1, <1>6, <1>11 DEF Working
  <2>2. PICK sp : sp = inst.spec
    OBVIOUS
  <2>3. /\ pc' = NextStep(c, inst'.spec) /\ pc' \in Steps
        /\ pc' \notin {"SyncStatus", "idle", "ServiceMonitorMissing", "ServiceMonitorReady"}
        /\ pc' \in Working
    <3>1. PICK isp : isp = inst'.spec
      OBVIOUS
    <3>2. NextStep(c, isp) \in Steps /\ NextStep(c, isp) # "ServiceMonitorReady"
      BY <1>1, NextStepIsStep, OnlyAfterMonitor
    <3>3. {"ServiceMonitorMissing", "SyncStatus", "idle"} \cap Steps = {}
      BY StepNames DEF Child, Services, StatefulSets, Optional
    <3>4. QED
      BY <1>4, <1>11, <3>1, <3>2, <3>3 DEF Working
  <2>4. CallRight /\ inst.spec = cr.spec /\ inst'.spec = sp
    BY <2>1, <2>2, <2>3 DEF QInv, Undisturbed, Right, CallRight, Agrees
  <2>5. /\ Behind' \subseteq Before(c, sp) \cup {c}
        /\ Taken(c, sp) => c \in Behind'
        /\ "ServiceMonitorReady" \notin Before(c, sp)
    <3>1. Behind' = Before(NextStep(c, sp), sp)
      BY <1>1, <2>3, <2>4, BehindIs, NextStepIsStep DEF Behind
    <3>2. QED
      BY <1>1, <3>1, NextStepBehind, MonitorPlace
  <2>6. Behind = Before(c, sp) /\ ~ PastMonitor
    <3>1. Behind = Before(c, sp)
      BY <1>1, <1>6, <1>11, <2>2, BehindIs DEF Behind
    <3>2. QED
      BY <2>5, <3>1 DEF PastMonitor
  <2>7. MonitorCondition(inst) = MonitorCondition(cr)
    BY <1>8, <2>1, <2>6 DEF Known, ConditionSeen
  <2>8. PastMonitor' <=> c = "ServiceMonitorReady"
    <3>1. ASSUME c = "ServiceMonitorReady" PROVE Taken(c, sp)
      <4>1. CASE pc = c
        BY <1>1, <2>2, <2>4, <4>1 DEF CallRight
      <4>2. CASE pc = "ServiceMonitorMissing"
        BY <1>8, <2>2, <2>4, <3>1, <4>2, MonitorTaken DEF Known, Asked
      <4>3. QED
        BY <1>6, <1>11, <4>1, <4>2
    <3>2. QED
      BY <2>5, <3>1 DEF PastMonitor
  <2>9. reply = "ok" =>
          /\ \/ new.conditions = inst.status.conditions
             \/ cr.status.conditions = new.conditions
          /\ inst'.status.conditions \in {new.conditions, cr.status.conditions}
    BY <1>3, <1>5, <1>7, KeptCopy DEF Merged, Changed, Kept
  <2>10. reply = "error" => inst'.status = new
    BY <1>3, <1>5, <1>7, KeptCopy
  <2>11. Listed' /\ Asked'
    BY <1>4, <1>8, <2>1, <2>3, SameMonitor DEF Known, Listed, Asked
  <2>12. ConditionSeen'
    <3> SUFFICES ASSUME c # "ServiceMonitorReady"
                 PROVE  MonitorCondition(inst') = MonitorCondition(cr')
      BY <2>8 DEF ConditionSeen, MonitorCondition
    <3>1. new.conditions["ServiceMonitorReady"].status = MonitorCondition(cr)
      BY <1>5, <2>7 DEF MonitorCondition
    <3>2. QED
      BY <2>9, <2>10, <3>1 DEF MonitorCondition
  <2>13. ASSUME faults' <= 1, c = "ServiceMonitorReady", reply = "ok"
         PROVE  MonitorCondition(cr) = Outcome /\ (MonitoringInstalled => pc = c)
    <3>1. MonitorCondition(cr) = v
      BY <1>5, <2>7, <2>9, <2>13 DEF MonitorCondition
    <3>2. CASE pc = c
      BY <1>6, <2>13, <3>1, <3>2 DEF FaultlessInv, OnlyWhenInstalled, Outcome
    <3>3. CASE pc = "ServiceMonitorMissing"
      BY <1>6, <1>8, <2>13, <3>1, <3>3 DEF FaultlessInv, OnlyWhenInstalled, Outcome
    <3>4. QED
      BY <1>6, <1>11, <3>2, <3>3
  <2>14. ASSUME faults' <= 1, reply = "error" PROVE faults = 0
    BY <1>7, <2>14, Failures
  <2>15. ASSUME faults' <= 1 PROVE ConditionKept'
    <3> SUFFICES ASSUME c = "ServiceMonitorReady" PROVE ~ Lost
      BY <1>8, <1>9, <2>3, <2>8 DEF ConditionKept
    <3>1. CASE reply = "ok"
      BY <2>13, <2>15, <3>1 DEF Lost
    <3>2. CASE reply = "error"
      BY <1>8, <2>14, <2>15, <3>2 DEF Known, ConditionKept
    <3>3. QED
      BY <3>1, <3>2
  <2>16. ASSUME faults' <= 1 PROVE WillBeListed'
    <3> SUFFICES ASSUME MonitoringInstalled, "ServiceMonitor" \in cr.spec.enabled,
                        c = "ServiceMonitorReady"
                 PROVE  "ServiceMonitor" \in managed
      BY <1>4, <2>3, <2>8 DEF WillBeListed
    <3>1. pc = "ServiceMonitorReady"
      <4>1. CASE reply = "ok"
        BY <2>13, <2>16, <4>1
      <4>2. CASE reply = "error"
        BY <1>6, <1>11, <2>14, <2>16, <4>2 DEF FaultlessInv, OnlyWhenInstalled
      <4>3. QED
        BY <4>1, <4>2
    <3>2. QED
      BY <1>8, <2>1, <2>16, <3>1 DEF Known, WillBeListed
  <2>17. QED
    BY <2>11, <2>12, <2>15, <2>16 DEF Known
<1>12. QED
  BY <1>10, <1>11

\* The final patch lists what the call has written.
LEMMA PersistStatusKnown ==
  ASSUME QInv, GInv, Silent, PersistStatus, cr' # None, ~ Waiting', Right',
         cr' = cr, ~ Waiting, gone => gone'
  PROVE  Known'
<1>1. PICK new : new = [inst.status EXCEPT
                          !.managedResources = managed,
                          !.currentImage = inst.spec.image,
                          !.lastUpdateTime = now,
                          !.observedGeneration = inst.generation]
  OBVIOUS
<1>2. /\ pc = "PersistStatus" /\ pc \in Steps /\ pc # "idle" /\ pc \in Working
      /\ CopyInv /\ UNCHANGED <<obj, managed>>
  BY StepNames DEF PersistStatus, GInv, IInv, Working
<1>3. inst \in TlnDB
  BY <1>2, CallHoldsInstance
<1>4. /\ new \in TlnDBStatus /\ new.managedResources = managed
      /\ new.conditions = inst.status.conditions
  <2>1. /\ inst.status \in TlnDBStatus /\ inst.generation \in Nat
        /\ inst.spec.image \in Images /\ now \in Nat /\ managed \in SUBSET Child
    BY <1>2, <1>3 DEF TlnDB, TlnDBSpec, CopyInv, TypeOK, OtherTypes, CallTypes
  <2>2. QED
    BY <1>1, <2>1 DEF TlnDBStatus
<1>5. PICK reply \in {"ok", "error"} :
        /\ PatchStatus(new, reply) /\ KeepInstance(new, reply)
        /\ pc' = IF reply = "ok" THEN "SyncStatus" ELSE "SetFailed"
  BY <1>1 DEF PersistStatus
<1>6. /\ cr' \in TlnDB
      /\ reply = "ok" => Merged(new) /\ faults' = faults
      /\ reply = "error" => faults' = faults + 1
  BY <1>2, <1>3, <1>4, <1>5, PatchEffect
<1>7. Known /\ (faults' = 0 => faults = 0) /\ Lost' = Lost
  BY <1>2, <1>6, Failures, SameMonitor DEF Silent
<1>8. faults' = 0 => ~ Lost'
  BY <1>7 DEF Known, ConditionKept
<1>9. CASE reply = "error"
  <2>1. pc' \notin Working /\ pc' # "idle"
    BY <1>5, <1>9, StepNames DEF Working, Child, Services, StatefulSets, Optional
  <2>2. QED
    BY <1>8, <2>1, OffPath
<1>10. CASE reply = "ok"
  <2>1. pc' = "SyncStatus" /\ faults' = faults
    BY <1>5, <1>6, <1>10
  <2>2. CallRight /\ inst.spec = cr.spec
    BY <1>2 DEF QInv, Undisturbed, Right, CallRight, Agrees
  <2>3. inst'.spec = cr.spec
    BY <2>1 DEF Right, Working, CallRight, Agrees
  <2>4. cr.status.managedResources = managed
    <3>1. ~ queued' /\ crFresh'
      BY DEF Waiting
    <3>2. SameRecord(new, cr.status)
      BY <1>2, <1>3, <1>4, <1>5, <1>10, <2>2, <3>1, PatchSilent DEF CallRight
    <3>3. QED
      BY <1>4, <3>2 DEF SameRecord
  <2>5. PICK sp : sp = cr.spec
    OBVIOUS
  <2>6. /\ Behind = Before("PersistStatus", sp)
        /\ Behind' = Behind \cup {"PersistStatus"}
        /\ Behind \subseteq {s \in Steps : Taken(s, sp)}
    BY <1>2, <2>1, <2>2, <2>3, <2>5, LastBehind, BehindIs DEF Behind
  <2>7. PastMonitor' = PastMonitor
    BY <2>6 DEF PastMonitor
  <2>8. "ServiceMonitor" \in managed => "ServiceMonitor" \in cr.spec.enabled
    BY <2>2, <2>5, <2>6, MonitorTaken DEF CallRight, ManagedRight
  <2>9. "ServiceMonitor" \in managed => RightOrGone
    BY <1>2, <1>7 DEF Known, Listed
  <2>10. MonitorListed
    BY <2>4, <2>8, <2>9 DEF MonitorListed, MonitorRight, RightOrGone
  <2>11. Listed' /\ Asked'
    BY <1>2, <2>1, <2>9, <2>10, SameMonitor DEF Listed, Asked
  <2>12. inst'.status.conditions \in {inst.status.conditions, cr.status.conditions}
    BY <1>3, <1>4, <1>5, <1>6, <1>10, KeptCopy DEF Kept
  <2>13. ConditionSeen'
    BY <1>2, <1>7, <2>7, <2>12 DEF Known, ConditionSeen, MonitorCondition
  <2>14. faults' <= 1 => ConditionKept'
    BY <1>2, <1>7, <1>8, <2>1, <2>7 DEF Known, ConditionKept
  <2>15. faults' <= 1 => WillBeListed'
    <3>1. "ServiceMonitor" \in cr.spec.enabled => PastMonitor
      BY <2>5, <2>6, MonitorPlace DEF PastMonitor
    <3>2. QED
      BY <1>2, <1>7, <2>1, <2>4, <3>1 DEF Known, WillBeListed
  <2>16. QED
    BY <2>11, <2>13, <2>14, <2>15 DEF Known
<1>11. QED
  BY <1>9, <1>10

\* syncStatus ends the call, with the condition of the ServiceMonitor behind it.
LEMMA SyncStatusKnown ==
  ASSUME QInv, GInv, Silent, SyncStatus, cr' # None, cr' = cr, ~ Waiting, gone => gone'
  PROVE  Known'
<1>1. /\ pc = "SyncStatus" /\ pc \in Working /\ pc' = "idle" /\ pc' \notin Working
      /\ UNCHANGED obj
  BY StepKinds DEF SyncStatus, Return, Working
<1>2. faults' = faults \/ faults' = faults + 1
  BY DEF SyncStatus, PatchStatus, Fault
<1>3. Known /\ Lost' = Lost
  BY <1>1, SameMonitor DEF Silent
<1>4. Listed' /\ ConditionSeen' /\ Asked'
  BY <1>1, <1>3, SameMonitor DEF Known, Listed, ConditionSeen, Asked
<1>5. "ServiceMonitor" \in cr.spec.enabled => PastMonitor
  <2>1. inst.spec = cr.spec
    BY <1>1 DEF QInv, Undisturbed, Right, CallRight, Agrees
  <2>2. PICK sp : sp = cr.spec
    OBVIOUS
  <2>3. BehindAt("SyncStatus", sp) = Before("PersistStatus", sp) \cup {"PersistStatus"}
    BY LastBehind, BehindIs
  <2>4. QED
    BY <1>1, <2>1, <2>2, <2>3, MonitorPlace DEF PastMonitor, Behind
<1>6. faults' <= 1 => ConditionKept'
  BY <1>1, <1>2, <1>3, <1>5, Failures DEF Known, ConditionKept, Lost
<1>7. faults' <= 1 => WillBeListed'
  BY <1>1, <1>2, <1>3, Failures DEF Known, WillBeListed
<1>8. QED
  BY <1>4, <1>6, <1>7 DEF Known

\* The helper of the ServiceMonitor leaves it right, or missing.
LEMMA MonitorKnown ==
  ASSUME QInv, GInv, Silent, CreateOrUpdate("ServiceMonitor"), cr' # None, ~ Waiting
  PROVE  Known'
<1> USE DEF QInv
<1> DEFINE k == "ServiceMonitor"
<1>1. /\ pc = k /\ k \in Child /\ k \in Steps \ {"PersistStatus"} /\ k \notin Watched
      /\ k \notin StatefulSets /\ pc \in Working
  BY StepNames DEF CreateOrUpdate, Watched, Child, Services, StatefulSets, Optional, Working
<1>2. inst \in TlnDB
  BY <1>1, StepKinds, CallHoldsInstance
<1>3. UNCHANGED <<cr, inst>> /\ (faults' = faults \/ faults' = faults + 1)
  BY DEF CreateOrUpdate, Apply, Fault
<1>4. PICK reply \in {"ok", "error"} :
        /\ Apply(k, reply)
        /\ IF reply = "ok"
             THEN pc' = NextStep(k, inst.spec) /\ managed' = managed \cup {k}
             ELSE pc' = "ServiceMonitorMissing" /\ managed' = managed
  BY DEF CreateOrUpdate
<1>5. CallRight /\ Known /\ Existing(k) = obj[k]
  BY <1>1, <1>3 DEF Undisturbed, Right, Silent, Existing
<1>6. Taken(k, inst.spec) /\ Agrees /\ inst.spec = cr.spec /\ inst.uid = cr.uid
  BY <1>1, <1>5 DEF CallRight, Agrees
<1>7. PICK sp : sp = inst.spec
  OBVIOUS
<1>8. Behind = Before(k, sp) /\ k \notin Behind /\ "ServiceMonitorReady" \notin Behind
  <2>1. Behind = Before(k, sp)
    BY <1>1, <1>7, BehindIs DEF Behind
  <2>2. k \notin Before(k, sp)
    BY <1>1, PositionInverse DEF Before
  <2>3. Before(k, sp) \subseteq Before("ServiceMonitorReady", sp)
    BY <1>6, <1>7, MonitorBehind
  <2>4. "ServiceMonitorReady" \notin Before("ServiceMonitorReady", sp)
    BY MonitorPlace DEF ConditionTypes
  <2>5. QED
    BY <2>1, <2>2, <2>3, <2>4
<1>9. k \notin managed
  BY <1>5, <1>8 DEF CallRight, ManagedRight
<1>10. Lost' = Lost
  BY <1>3 DEF Lost, MonitorCondition, Outcome
<1>11. faults' = 0 => ~ Lost'
  BY <1>3, <1>5, <1>10, Failures DEF Known, ConditionKept
<1>12. MonitorCondition(inst) = MonitorCondition(cr)
  BY <1>1, <1>5, <1>8 DEF Known, ConditionSeen, PastMonitor
<1>13. "ServiceMonitor" \in cr.spec.enabled
  BY <1>6, <1>7, MonitorTaken
<1>14. CASE reply # "ok"
  <2>1. /\ pc' = "ServiceMonitorMissing" /\ managed' = managed
        /\ pc' \notin {"SyncStatus", "idle", "ServiceMonitorReady"}
    BY <1>4, <1>14
  <2>2. Behind' = Before("ServiceMonitorReady", sp)
    BY <1>3, <1>7, <2>1, BehindIs DEF Behind
  <2>3. ~ PastMonitor'
    BY <2>2, MonitorPlace DEF PastMonitor, ConditionTypes
  <2>4. Listed' /\ ConditionSeen' /\ Asked' /\ ConditionKept' /\ WillBeListed'
    BY <1>3, <1>9, <1>11, <1>12, <1>13, <2>1, <2>3
       DEF Listed, ConditionSeen, Asked, ConditionKept, WillBeListed, MonitorCondition
  <2>5. QED
    BY <2>4 DEF Known
<1>15. CASE reply = "ok"
  <2>1. MonitorRight'
    <3>1. Desired(k) = BuildServiceMonitor(cr.spec)
      BY <1>6 DEF Desired, Build
    <3>2. Sent(k)
      BY <1>1 DEF Sent, NeedsUpdate, StatefulSets
    <3>3. CASE Store(k, Written(k))
      <4>1. obj'[k] = Written(k)
        BY <3>3, StoreMonitor
      <4>2. Written(k).body = Desired(k) /\ Written(k).owner = cr.uid
        <5>1. CASE obj[k] = None
          BY <1>1, <1>5, <1>6, <5>1 DEF Written, NewObject
        <5>2. CASE obj[k] # None
          <6>1. obj[k] \in ObjectOf(k)
            BY <1>1, <5>2 DEF CopyInv, TypeOK, ChildTypes
          <6>2. QED
            BY <1>1, <1>5, <1>6, <5>2, <6>1 DEF Written, UpdatedObject, UpdatedBody, ObjectOf
        <5>3. QED
          BY <5>1, <5>2
      <4>3. Written(k) # None
        BY <1>1, <1>2, WrittenType, AbsenceAssumption
      <4>4. QED
        BY <1>3, <3>1, <4>1, <4>2, <4>3 DEF MonitorRight, BuildServiceMonitor
    <3>4. QED
      BY <1>1, <1>4, <1>15, <3>2, <3>3 DEF Apply, Swallowed
  <2>2. /\ pc' \in Steps /\ pc' # "idle" /\ pc' # "SyncStatus"
        /\ Behind' \subseteq Behind \cup {k}
    BY <1>1, <1>3, <1>4, <1>6, <1>15, PlainStep
  <2>3. ~ PastMonitor' /\ pc' # "ServiceMonitorMissing" /\ k \in managed'
    BY <1>4, <1>8, <1>15, <2>2, StepNames
       DEF PastMonitor, Child, Services, StatefulSets, Optional
  <2>4. Listed' /\ ConditionSeen' /\ Asked' /\ ConditionKept' /\ WillBeListed'
    BY <1>3, <1>11, <1>12, <2>1, <2>2, <2>3
       DEF Listed, RightOrGone, ConditionSeen, Asked, ConditionKept, WillBeListed,
           MonitorCondition
  <2>5. QED
    BY <2>4 DEF Known
<1>16. QED
  BY <1>14, <1>15

\* The other steps that write children.
LEMMA HelperKnown ==
  ASSUME QInv, GInv, Silent, cr' # None, ~ Waiting, gone => gone',
         \/ \E k \in Child \ {"ServiceMonitor"} : CreateOrUpdate(k)
         \/ ExternalConfigMap \/ PruneFollower
  PROVE  Known'
<1>1. UNCHANGED <<cr, inst>> /\ (faults' = faults \/ faults' = faults + 1)
  BY DEF CreateOrUpdate, Apply, ExternalConfigMap, PruneFollower, Fault, server, locals
<1>2. PICK step : step = pc
  OBVIOUS
<1>3. step \in Steps \ (ConditionTypes \cup {"PersistStatus", "ServiceMonitor"})
  BY <1>2, StepNames DEF CreateOrUpdate, ExternalConfigMap, PruneFollower, Child, Services,
                   StatefulSets, Optional, ConditionTypes
<1>4. "ServiceMonitor" \in Child
  BY DEF Child, Optional
<1>5. ASSUME NEW k \in Child \ {"ServiceMonitor"}, NEW new, Store(k, new)
      PROVE  obj'["ServiceMonitor"] = obj["ServiceMonitor"]
  BY <1>4, <1>5 DEF Store, QInv, CopyInv, TypeOK, ChildTypes
<1>6. /\ obj'["ServiceMonitor"] = obj["ServiceMonitor"]
      /\ ("ServiceMonitor" \in managed') = ("ServiceMonitor" \in managed)
      /\ pc' \in {NextStep(step, inst.spec), "SetFailed", "ConfigMapMissing"}
  <2>1. ASSUME NEW k \in Child \ {"ServiceMonitor"}, CreateOrUpdate(k)
        PROVE  /\ obj'["ServiceMonitor"] = obj["ServiceMonitor"]
               /\ ("ServiceMonitor" \in managed') = ("ServiceMonitor" \in managed)
               /\ pc' \in {NextStep(step, inst.spec), "SetFailed", "ConfigMapMissing"}
    BY <1>2, <1>5, <2>1 DEF CreateOrUpdate, Apply, childSide
  <2>2. CASE ExternalConfigMap
    BY <1>2, <2>2 DEF ExternalConfigMap, server
  <2>3. CASE PruneFollower
    <3>1. "FollowerStatefulSet" \in Child \ {"ServiceMonitor"}
      BY DEF Child, StatefulSets
    <3>2. QED
      BY <1>2, <1>5, <2>3, <3>1 DEF PruneFollower, childSide, locals
  <2>4. QED
    BY <2>1, <2>2, <2>3
<1>7. Known /\ pc \in Working
  BY <1>1, <1>2, <1>3 DEF Silent, Working
<1>8. Lost' = Lost
  BY <1>1 DEF Lost, MonitorCondition, Outcome
<1>9. CASE pc' \in {"SetFailed", "ConfigMapMissing"}
  <2>1. pc' \notin Working /\ pc' # "idle"
    BY <1>9, StepNames DEF Working, Child, Services, StatefulSets, Optional
  <2>2. faults' = 0 => ~ Lost'
    BY <1>1, <1>7, <1>8, Failures DEF Known, ConditionKept
  <2>3. QED
    BY <2>1, <2>2, OffPath
<1>10. CASE pc' = NextStep(step, inst.spec)
  <2>1. pc' \in Steps /\ pc' # "ServiceMonitorReady"
    BY <1>3, <1>10, NextStepIsStep, OnlyAfterMonitor
  <2>2. /\ Behind' = Before(NextStep(step, inst.spec), inst.spec)
        /\ Behind = Before(step, inst.spec)
    BY <1>1, <1>2, <1>3, <1>10, <2>1, BehindIs DEF Behind
  <2>3. PastMonitor' = PastMonitor
    BY <1>3, <2>2, NextStepBehind DEF PastMonitor, ConditionTypes
  <2>4. QED
    BY <1>1, <1>6, <1>7, <2>1, <2>3, GoesOnKnown
<1>11. QED
  BY <1>6, <1>9, <1>10

\* The cluster: the garbage collector takes a ServiceMonitor only if orphaned, and
\* that somebody else took it is remembered.
LEMMA ClusterKnown ==
  ASSUME QInv, GInv, Silent, Cluster, cr' # None, ~ Waiting, Remembers PROVE Known'
<1>0. gone => gone'
  BY ClusterLeaves DEF Remembers, CallBegins
<1>1. "ServiceMonitor" \in Child
  BY DEF Child, Optional
<1>2. ASSUME NEW k \in Child \ {"ServiceMonitor"}, NEW new, Store(k, new)
      PROVE  obj'["ServiceMonitor"] = obj["ServiceMonitor"]
  BY <1>1, <1>2 DEF Store, QInv, CopyInv, TypeOK, ChildTypes
<1>3. ASSUME NEW k \in Child, CollectGarbage(k)
      PROVE  obj'["ServiceMonitor"] = obj["ServiceMonitor"] \/ Orphan("ServiceMonitor")
  BY <1>2, <1>3 DEF CollectGarbage, ClusterWrites
<1>4. ASSUME NEW k \in Child \ {"ServiceMonitor"},
             DeleteChild(k) \/ StsObserve(k) \/ PodReady(k) \/ PodFails(k)
               \/ (k = HPATarget /\ Autoscale)
      PROVE  obj'["ServiceMonitor"] = obj["ServiceMonitor"]
  <2>1. PICK new : Store(k, new)
    <3>1. CASE DeleteChild(k) \/ PodReady(k) \/ PodFails(k)
      BY <3>1 DEF DeleteChild, PodReady, PodFails, ClusterWrites
    <3>2. CASE StsObserve(k)
      BY <3>2 DEF StsObserve, ClusterWrites
    <3>3. CASE k = HPATarget /\ Autoscale
      BY <3>3 DEF Autoscale, ClusterWrites
    <3>4. QED
      BY <1>4, <3>1, <3>2, <3>3
  <2>2. QED
    BY <1>2, <2>1
<1>5. /\ Watched \subseteq Child \ {"ServiceMonitor"}
      /\ StatefulSets \subseteq Child \ {"ServiceMonitor"} /\ HPATarget \in StatefulSets
  BY DEF Watched, Child, HPATarget, StatefulSets
<1>6. CASE SyncCR \/ SyncExt \/ TimerFires \/ Tick \/ \E k \in Watched : SyncChild(k)
  <2>1. obj' = obj
    BY <1>6 DEF SyncCR, SyncExt, TimerFires, Tick, SyncChild, server
  <2>2. QED
    BY <1>0, <2>1, ClusterLeaves, RestKnown DEF Silent
<1>7. CASE obj'["ServiceMonitor"] = obj["ServiceMonitor"] \/ Orphan("ServiceMonitor")
  BY <1>0, <1>7, ClusterLeaves, RestKnown DEF Silent
<1>8. CASE DeleteChild("ServiceMonitor")
  <2>1. obj["ServiceMonitor"] # None /\ obj'["ServiceMonitor"] = None /\ cr' = cr
    BY <1>8, StoreMonitor, ClusterLeaves DEF DeleteChild, ClusterWrites, QInv
  <2>2. CASE obj["ServiceMonitor"].owner = cr.uid
    <3>1. gone'
      BY <2>1, <2>2 DEF Remembers, DeletedByHand
    <3>2. QED
      BY <1>0, <2>1, <3>1, ClusterLeaves, RestKnown DEF Silent
  <2>3. CASE obj["ServiceMonitor"].owner # cr.uid
    BY <1>7, <2>1, <2>3 DEF Orphan
  <2>4. QED
    BY <2>2, <2>3
<1>9. QED
  BY <1>3, <1>4, <1>5, <1>6, <1>7, <1>8 DEF Cluster

-----------------------------------------------------------------------------
\* Initially there is no TlnDB, no child and no call.
LEMMA InitMonitorInv == Init => MonitorInv
<1> SUFFICES ASSUME Init PROVE MonitorInv
  OBVIOUS
<1>1. cr = None /\ ccr = None /\ pc = "idle" /\ faults = 0 /\ obj = [k \in Child |-> None]
  BY DEF Init
<1>2. /\ pc \notin ResourceSteps /\ pc \notin Steps /\ pc \notin Working
      /\ pc \notin {"SyncStatus", "ServiceMonitorReady", "ServiceMonitorMissing"}
  BY <1>1, StepKinds DEF Working
<1>3. obj["ServiceMonitor"] = None
  BY <1>1 DEF Child, Optional
<1>4. CopiesTell /\ OnlyWhenInstalled
  BY <1>1, <1>2, <1>3 DEF CopiesTell, Live, OnlyWhenInstalled, NotFalse
<1>5. ListUpToDate /\ Accounted /\ LostIsNoticed /\ Silent
  BY <1>1, <1>2 DEF ListUpToDate, Accounted, LostIsNoticed, Lost, Silent
<1>6. QED
  BY <1>4, <1>5, InitQInv, InitGInv DEF MonitorInv, FaultlessInv

\* A deletion is forgotten by nothing but the Get that begins a call.
LEMMA StaysGone ==
  ASSUME [Next /\ Remembers]_monitored, ~ Reconcile PROVE gone => gone'
<1>1. CASE UNCHANGED monitored
  BY <1>1 DEF monitored
<1>2. CASE Next /\ Remembers
  <2>1. ~ CallBegins
    <3>1. ASSUME NEW k \in Child, CreateOrUpdate(k) PROVE pc # "idle"
      BY <3>1, StepKinds, StepNames DEF CreateOrUpdate
    <3>2. CASE SetCondition
      BY <3>2, StepKinds DEF SetCondition, ConditionSteps, CallBegins
    <3>3. CASE Operator
      BY <3>1, <3>2, <3>3 DEF Operator, AddFinalizer, SetProvisioning, SetFailed,
         SetTerminating, RemoveFinalizer, ExternalConfigMap, PruneFollower, PersistStatus,
         SyncStatus, CallBegins
    <3>4. CASE Restart
      BY <3>4 DEF Restart, CallBegins
    <3>5. CASE Cluster
      BY <3>5, ClusterLeaves DEF CallBegins
    <3>6. CASE Users
      BY <3>6 DEF Users, UserCreate, UserEdit, UserDelete, UserWrites, ExtEdit, CallBegins
    <3>7. QED
      BY <1>2, <3>3, <3>4, <3>5, <3>6 DEF Next
  <2>2. QED
    BY <1>2, <2>1 DEF Remembers
<1>3. QED
  BY <1>1, <1>2

\* Every step, and stuttering, preserves the invariant.
LEMMA NextMonitorInv == MonitorInv /\ [Next /\ Remembers]_monitored => MonitorInv'
<1> SUFFICES ASSUME MonitorInv, [Next /\ Remembers]_monitored PROVE MonitorInv'
  OBVIOUS
<1>0. [Next]_vars /\ (Cluster => Remembers \/ UNCHANGED vars)
  BY DEF monitored
<1> USE DEF MonitorInv
<1>1. QInv' /\ GInv' /\ FaultlessInv'
  BY <1>0, NextQInv, NextGInv, NextFaultless
<1>2. ASSUME cr' # None, ~ Waiting' PROVE Known'
  <2>1. CASE Reconcile
    BY <1>2, <2>1, ReconcileKnown
  <2>2. CASE ~ Reconcile
    <3>1. cr' = cr /\ ~ Waiting /\ Right' /\ (gone => gone')
      BY <1>0, <1>1, <1>2, <2>2, NothingWaited, StaysGone DEF QInv, Undisturbed
    <3>2. CASE SetTerminating
      <4>1. pc' = "RemoveFinalizer"
        BY <1>2, <3>2 DEF SetTerminating, Return, Waiting
      <4>2. pc' \notin Working /\ pc' # "idle"
        BY <4>1, StepNames DEF Working, Child, Services, StatefulSets, Optional
      <4>3. faults' = faults \/ faults' = faults + 1
        BY <3>2 DEF SetTerminating, PatchStatus, Fault
      <4>4. faults' = 0 => ~ Lost'
        BY <1>2, <3>1, <4>3, Failures
           DEF Silent, Known, ConditionKept, Lost, MonitorCondition, Outcome
      <4>5. QED
        BY <4>2, <4>4, OffPath
    <3>3. CASE RemoveFinalizer
      BY <1>2, <3>3 DEF RemoveFinalizer, Return, Waiting, StoreCR
    <3>4. CASE AddFinalizer \/ SetFailed \/ Restart
      BY <1>2, <3>4, WaitsAgain
    <3>5. CASE Operator
      <4>1. CASE \E k \in Child : CreateOrUpdate(k)
        BY <1>2, <3>1, <4>1, MonitorKnown, HelperKnown
      <4>2. QED
        BY <1>2, <2>2, <3>1, <3>2, <3>3, <3>4, <3>5, <4>1, SetProvisioningKnown,
           SetConditionKnown, PersistStatusKnown, SyncStatusKnown, HelperKnown DEF Operator
    <3>6. CASE UserCreate \/ UserEdit \/ UserDelete
      BY <1>2, <3>6, UsersRight
    <3>7. CASE ExtEdit \/ UNCHANGED vars
      <4>1. UNCHANGED <<cr, pc, inst, managed, faults, obj>>
        BY <3>7 DEF ExtEdit, vars, server, locals
      <4>2. QED
        BY <1>2, <3>1, <4>1, RestKnown DEF Silent
    <3>8. QED
      BY <1>0, <1>2, <3>1, <3>4, <3>5, <3>6, <3>7, ClusterKnown DEF Next, Users
  <2>3. QED
    BY <2>1, <2>2
<1>3. QED
  BY <1>1, <1>2 DEF Silent

\* The invariant holds throughout.
LEMMA AlwaysMonitorInv == SpecMonitored => []MonitorInv
BY InitMonitorInv, NextMonitorInv, PTL DEF SpecMonitored, InitMonitored

(***************************************************************************)
(* Whenever the operator rests, whatever failed on the way, a listed       *)
(* ServiceMonitor is asked for and current, or was deleted by hand since   *)
(* the last call began: a call lists it only after its own write, and      *)
(* nothing else takes it from the stored TlnDB.                            *)
(***************************************************************************)
THEOREM ListedAtRest == SpecMonitored => []QuiescentMonitorListed
<1>1. ASSUME MonitorInv, Quiet, cr # None PROVE MonitorListed
  <2>1. ~ Waiting /\ pc = "idle"
    BY <1>1 DEF Quiet, Waiting
  <2>2. QED
    BY <1>1, <2>1 DEF MonitorInv, Silent, Known, Listed
<1>2. MonitorInv => QuiescentMonitorListed
  BY <1>1 DEF QuiescentMonitorListed
<1>3. QED
  BY <1>2, AlwaysMonitorInv, PTL

(***************************************************************************)
(* With at most one failure, the condition and the list of a resting       *)
(* operator agree with whether the ServiceMonitor is there, unless it was  *)
(* deleted by hand since the last call; although the errors of its helper  *)
(* do not fail the call and those of the patch that sets the condition are *)
(* dropped.                                                                *)
(***************************************************************************)
THEOREM MonitorAtRest == SpecMonitored => []QuiescentServiceMonitor
<1>1. ASSUME MonitorInv, Quiet, cr # None, ~ gone,
             "ServiceMonitor" \in cr.spec.enabled, faults <= 1
      PROVE  LET present == obj["ServiceMonitor"] # None IN
             /\ MonitorCondition(cr) = (IF present THEN "True" ELSE "False")
             /\ ("ServiceMonitor" \in cr.status.managedResources) = present
  <2>1. ~ Waiting /\ pc = "idle"
    BY <1>1 DEF Quiet, Waiting
  <2>2. Known /\ RestRight
    BY <1>1, <2>1 DEF MonitorInv, Silent, QInv, Undisturbed, Right
  <2>3. MonitorCondition(cr) = Outcome
    BY <1>1, <2>1, <2>2 DEF Known, ConditionKept, Lost, RestRight, Recorded, Running
  <2>4. CASE MonitoringInstalled
    <3>1. "ServiceMonitor" \in cr.status.managedResources
      BY <1>1, <2>1, <2>2, <2>4 DEF Known, WillBeListed
    <3>2. obj["ServiceMonitor"] # None
      BY <1>1, <2>1, <2>2, <3>1 DEF Known, Listed, MonitorListed
    <3>3. QED
      BY <2>3, <2>4, <3>1, <3>2 DEF Outcome
  <2>5. CASE ~ MonitoringInstalled
    <3>1. obj["ServiceMonitor"] = None
      BY <1>1, <2>5 DEF MonitorInv, FaultlessInv, OnlyWhenInstalled
    <3>2. "ServiceMonitor" \notin cr.status.managedResources
      BY <1>1, <2>1, <2>2, <3>1 DEF Known, Listed, MonitorListed
    <3>3. QED
      BY <2>3, <2>5, <3>1, <3>2 DEF Outcome
  <2>6. QED
    BY <2>4, <2>5
<1>2. MonitorInv => QuiescentServiceMonitor
  BY <1>1 DEF QuiescentServiceMonitor, MonitorCondition
<1>3. QED
  BY <1>2, AlwaysMonitorInv, PTL

(***************************************************************************)
(* Without the CRD there is nothing to delete by hand, and a resting       *)
(* operator has told that the ServiceMonitor is missing, unless two        *)
(* requests failed.                                                        *)
(***************************************************************************)
THEOREM MissingAtRest == SpecMonitored => []QuiescentWithoutCRD
<1> DEFINE NothingTaken == MonitoringInstalled \/ ~ gone
<1>1. InitMonitored => NothingTaken
  BY DEF InitMonitored
<1>2. MonitorInv /\ NothingTaken /\ [Next /\ Remembers]_monitored => NothingTaken'
  BY DEF MonitorInv, FaultlessInv, OnlyWhenInstalled, Remembers, DeletedByHand, monitored
<1>3. SpecMonitored => []NothingTaken
  BY <1>1, <1>2, AlwaysMonitorInv, PTL DEF SpecMonitored
<1>4. NothingTaken /\ QuiescentServiceMonitor /\ MonitorInv => QuiescentWithoutCRD
  BY AbsenceAssumption
     DEF QuiescentServiceMonitor, QuiescentWithoutCRD, MonitorInv, FaultlessInv,
         OnlyWhenInstalled
<1>5. QED
  BY <1>3, <1>4, MonitorAtRest, AlwaysMonitorInv, PTL
=============================================================================
