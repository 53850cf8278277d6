------------------------ MODULE TlnDBManagersProofs -------------------------
(***************************************************************************)
(* HandoverSettles for every set of specs and every bound: what one        *)
(* manager leaves when it rests is right, although another one, in the     *)
(* middle of a call on an older copy, wrote beneath it.                    *)
(*                                                                         *)
(* The proofs about one manager are used twice.  What a manager's copies   *)
(* are worth (CopyInv) does not depend on who writes, so it holds of both. *)
(* Ownership (Claims) is one manager's own and is not needed.  The old     *)
(* leader's writes reach the new one as events: after them it has          *)
(* something waiting, and the next call starts afresh.                     *)
(***************************************************************************)
EXTENDS TlnDBManagers, TlnDBQuiescenceProofs

S ==
  INSTANCE TlnDBQuiescenceProofs WITH
    ccr <- ccr2, crFresh <- crFresh2, cobj <- cobj2, fresh <- fresh2,
    cext <- cext2, queued <- queued2, timer <- timer2, pc <- pc2,
    inst <- inst2, instFresh <- instFresh2, hash <- hash2, managed <- managed2

\* The first manager works, and has something to answer for, once it leads.
Leads == IF elected THEN Undisturbed ELSE pc = "idle"

MInv ==
  /\ elected \in BOOLEAN
  /\ CopyInv /\ S!CopyInv
  /\ Held /\ StartsEmpty /\ Sources /\ S!Sources
  /\ Leads

-----------------------------------------------------------------------------
(***************************************************************************)
(* The second manager is the same program: a step of it as TlnDBManagers   *)
(* takes it is one of those the lemmas are about.  The two instances differ*)
(* in name only.                                                           *)
(***************************************************************************)
LEMMA SecondSteps == SecondLeads => S!Next
<1>1. SecondLeads =>
        \/ S!Operator \/ S!TimerFires
        \/ \E k \in S!StatefulSets : S!StsObserve(k) \/ S!PodReady(k)
        \/ \E k \in S!Child : S!CollectGarbage(k)
        \/ S!UserCreate \/ S!UserEdit \/ S!UserDelete
  BY Zenon
  DEF SecondLeads, Child, Services, StatefulSets, Optional,
     Second!Optional, S!Optional, Second!ConditionTypes, S!ConditionTypes,
     Second!StatefulSets, S!StatefulSets, Second!Services, S!Services, Second!Child,
     S!Child, Second!EmptyStatus, S!EmptyStatus, Second!Replicated, S!Replicated,
     Second!StoredByUpdate, S!StoredByUpdate, Second!Changed, S!Changed,
     Second!MergePatch, S!MergePatch, Second!Kept, S!Kept, Second!DecodeInto,
     S!DecodeInto, Second!HashStringData, S!HashStringData, Second!BuildRBAC,
     S!BuildRBAC, Second!buildStatefulSet, S!buildStatefulSet,
     Second!BuildStatefulSet, S!BuildStatefulSet, Second!BuildLeaderStatefulSet,
     S!BuildLeaderStatefulSet, Second!BuildFollowerStatefulSet,
     S!BuildFollowerStatefulSet, Second!serviceWith, S!serviceWith,
     Second!BuildService, S!BuildService, Second!BuildWriteService,
     S!BuildWriteService, Second!BuildReadService, S!BuildReadService,
     Second!BuildHeadlessService, S!BuildHeadlessService, Second!BuildConfigMap,
     S!BuildConfigMap, Second!BuildIngress, S!BuildIngress,
     Second!BuildNetworkPolicy, S!BuildNetworkPolicy, Second!BuildServiceMonitor,
     S!BuildServiceMonitor, Second!BuildPDB, S!BuildPDB, Second!BuildHPA, S!BuildHPA,
     Second!Build, S!Build, Second!Order, S!Order, Second!Taken, S!Taken,
     Second!TakenAfter, S!TakenAfter, Second!FirstStep, S!FirstStep, Second!NextStep,
     S!NextStep, Second!primaryStatefulSet, S!primaryStatefulSet,
     Second!desiredReplicas, S!desiredReplicas, Second!NewObject, S!NewObject,
     Second!statefulSetNeedsUpdate, S!statefulSetNeedsUpdate, Second!NeedsUpdate,
     S!NeedsUpdate, Second!UpdatedBody, S!UpdatedBody, Second!UpdatedObject,
     S!UpdatedObject, Second!server, S!server, Second!crCache, S!crCache,
     Second!crSide, S!crSide, Second!childCache, S!childCache, Second!childSide,
     S!childSide, Second!queue, S!queue, Second!locals, S!locals, Second!Watched,
     S!Watched, Second!ConditionSteps, S!ConditionSteps, Second!Fault, S!Fault,
     Second!StoreCR, S!StoreCR, Second!Store, S!Store, Second!Patched, S!Patched,
     Second!PatchStatus, S!PatchStatus, Second!KeepInstance, S!KeepInstance,
     Second!Return, S!Return, Second!Environment, S!Environment, Second!Entry,
     S!Entry, Second!Reconcile, S!Reconcile, Second!WithFinalizer, S!WithFinalizer,
     Second!AddFinalizer, S!AddFinalizer, Second!WithPhase, S!WithPhase,
     Second!SetProvisioning, S!SetProvisioning, Second!SetFailed, S!SetFailed,
     Second!SetTerminating, S!SetTerminating, Second!RemoveFinalizer,
     S!RemoveFinalizer, Second!Existing, S!Existing, Second!Desired, S!Desired,
     Second!Sent, S!Sent, Second!Written, S!Written, Second!Accepted, S!Accepted,
     Second!Swallowed, S!Swallowed, Second!Apply, S!Apply, Second!CreateOrUpdate,
     S!CreateOrUpdate, Second!ExternalConfigMap, S!ExternalConfigMap,
     Second!PruneFollower, S!PruneFollower, Second!ConditionOf, S!ConditionOf,
     Second!WithCondition, S!WithCondition, Second!SetCondition, S!SetCondition,
     Second!PersistStatus, S!PersistStatus, Second!PhaseOf, S!PhaseOf,
     Second!SyncStatus, S!SyncStatus, Second!Operator, S!Operator, Second!TimerFires,
     S!TimerFires, Second!UserWrites, S!UserWrites, Second!UserCreate, S!UserCreate,
     Second!UserEdit, S!UserEdit, Second!UserDelete, S!UserDelete,
     Second!ClusterWrites, S!ClusterWrites, Second!StsObserve, S!StsObserve,
     Second!HasData, S!HasData, Second!PodReady, S!PodReady, Second!Orphan, S!Orphan,
     Second!CollectGarbage, S!CollectGarbage
<1>2. QED
  BY <1>1 DEF S!Next, S!Cluster, S!Users

\* So are its initial states.
LEMMA SecondInit == Second!Init => S!Init
BY Zenon
DEF Second!Optional, S!Optional, Second!StatefulSets, S!StatefulSets, Second!Services,
     S!Services, Second!Child, S!Child, Second!Watched, S!Watched, Second!Init,
     S!Init

\* And the types.
LEMMA SameTypes ==
  /\ S!TlnDBSpec = TlnDBSpec /\ S!TlnDB = TlnDB
  /\ S!Child = Child /\ S!Watched = Watched
  /\ \A k : S!ObjectOf(k) = ObjectOf(k)
BY Zenon
DEF Optional, S!Optional, TlnDBSpec, S!TlnDBSpec, Phases, S!Phases, ConditionTypes,
     S!ConditionTypes, Condition, S!Condition, StatefulSets, S!StatefulSets,
     Services, S!Services, Child, S!Child, TlnDBStatus, S!TlnDBStatus, TlnDB,
     S!TlnDB, ServiceBody, S!ServiceBody, PortsBody, S!PortsBody, Template,
     S!Template, StatefulSetBody, S!StatefulSetBody, BuildRBAC, S!BuildRBAC, BodyOf,
     S!BodyOf, ObjectOf, S!ObjectOf, Watched, S!Watched

(***************************************************************************)
(* The lemmas about one manager, of the second.  The constants are shared, *)
(* so what is assumed of them is.                                          *)
(***************************************************************************)
LEMMA SecondInitially == Second!Init => S!QInv
BY SecondInit, S!InitQInv, SameTypes, DigestAssumption, NoneAssumption, AbsenceAssumption,
   InputAssumption, BoundAssumption

\* What a step preserves.
LEMMA SecondKeeps ==
  ASSUME S!Next
  PROVE  /\ S!CopyInv => S!CopyInv'
         /\ S!CopyInv /\ S!Held => S!Held'
         /\ S!Sources => S!Sources'
<1> USE SameTypes, DigestAssumption, NoneAssumption, AbsenceAssumption, InputAssumption,
        BoundAssumption
<1>1. S!CopyInv => S!CopyInv'
  BY S!NextKeeps DEF S!Keeps
<1>2. S!CopyInv /\ S!Held => S!Held'
  BY S!HeldStep
<1>3. S!Sources => S!Sources'
  BY S!SourcesStep
<1>4. QED
  BY <1>1, <1>2, <1>3

(***************************************************************************)
(* What the server holds is well-typed whoever's invariant says so.        *)
(***************************************************************************)
ServerTypes ==
  /\ cr \in TlnDB \cup {None}
  /\ obj = [k \in Child |-> obj[k]]
  /\ \A k \in Child : obj[k] \in ObjectOf(k) \cup {None}
  /\ ext \in Configs \cup {None}
  /\ {uids, edits, faults, now} \subseteq Nat

\* The first manager's invariant says so.
LEMMA FirstServerTypes == CopyInv' => ServerTypes'
BY DEF CopyInv, TypeOK, TlnDBTypes, ChildTypes, OtherTypes, ServerTypes

\* The second's does.
LEMMA SecondServerTypes == S!CopyInv' => ServerTypes'
BY SameTypes DEF S!CopyInv, S!TypeOK, S!TlnDBTypes, S!ChildTypes, S!OtherTypes, ServerTypes

-----------------------------------------------------------------------------
(***************************************************************************)
(* A manager that follows keeps its copies current, whatever the other one *)
(* has written: the first.                                                 *)
(***************************************************************************)
LEMMA FirstFollowing ==
  ASSUME CopyInv, ServerTypes', FirstFollows, elected \in BOOLEAN PROVE CopyInv'
<1> USE DEF CopyInv
<1>1. TypeOK'
  <2>1. TlnDBTypes'
    BY DEF FirstFollows, Follows, TypeOK, TlnDBTypes, ServerTypes
  <2>2. ChildTypes'
    BY DEF FirstFollows, Follows, TypeOK, ChildTypes, ServerTypes, Watched
  <2>3. CallTypes'
    BY DEF FirstFollows, Follows, TypeOK, CallTypes
  <2>4. OtherTypes'
    BY DEF FirstFollows, Event, TypeOK, OtherTypes, ServerTypes
  <2>5. QED
    BY <2>1, <2>2, <2>3, <2>4 DEF TypeOK
<1>2. CacheCurrent' /\ ChildCurrent'
  BY DEF FirstFollows, Follows, CacheCurrent, ChildCurrent
<1>3. UpdateClaim'
  BY DEF FirstFollows, Follows, UpdateClaim
<1>4. QED
  BY <1>1, <1>2, <1>3

\* The second.
LEMMA SecondFollowing ==
  ASSUME S!CopyInv, ServerTypes', SecondFollows, elected \in BOOLEAN PROVE S!CopyInv'
<1> USE DEF S!CopyInv
<1>1. S!TypeOK'
  <2>1. S!TlnDBTypes'
    BY SameTypes DEF SecondFollows, Follows, S!TypeOK, S!TlnDBTypes, ServerTypes
  <2>2. S!ChildTypes'
    BY SameTypes DEF SecondFollows, Follows, S!TypeOK, S!ChildTypes, ServerTypes, Watched
  <2>3. S!CallTypes'
    BY DEF SecondFollows, Follows, S!TypeOK, S!CallTypes
  <2>4. S!OtherTypes'
    BY DEF SecondFollows, Event, S!TypeOK, S!OtherTypes, ServerTypes
  <2>5. QED
    BY <2>1, <2>2, <2>3, <2>4 DEF S!TypeOK
<1>2. S!CacheCurrent' /\ S!ChildCurrent'
  BY SameTypes DEF SecondFollows, Follows, S!CacheCurrent, S!ChildCurrent
<1>3. S!UpdateClaim'
  BY DEF SecondFollows, Follows, S!UpdateClaim
<1>4. QED
  BY <1>1, <1>2, <1>3

-----------------------------------------------------------------------------
(***************************************************************************)
(* Initially there is no TlnDB, and the second manager leads.              *)
(***************************************************************************)
LEMMA InitMInv == InitManagers => MInv
<1> SUFFICES ASSUME InitManagers PROVE MInv
  OBVIOUS
<1>1. QInv /\ pc = "idle" /\ ~ elected
  BY InitQInv DEF InitManagers, Init
<1>2. S!QInv
  BY SecondInitially DEF InitManagers
<1>3. QED
  BY <1>1, <1>2 DEF MInv, QInv, S!QInv, Leads, InitManagers

(***************************************************************************)
(* A step of the second manager, or one that reaches its queue.  To the    *)
(* first it is an event or nothing.                                        *)
(***************************************************************************)
LEMMA SecondManagerStep ==
  ASSUME MInv, S!Next, FirstFollows, UNCHANGED elected
  PROVE  MInv'
<1> USE DEF MInv
<1>1. S!CopyInv' /\ S!Sources' /\ ServerTypes'
  BY SecondKeeps, SecondServerTypes
<1>2. CopyInv'
  BY <1>1, FirstFollowing
<1>3. Held'
  <2>1. S!Held <=> Held
    BY DEF Held, S!Held
  <2>2. S!Held' <=> Held'
    BY DEF Held, S!Held
  <2>3. QED
    BY <2>1, <2>2, SecondKeeps
<1>4. StartsEmpty' /\ Sources'
  BY <1>1 DEF FirstFollows, StartsEmpty, Sources, S!Sources
<1>5. Leads'
  <2>1. CASE ~ elected
    BY <2>1 DEF Leads, FirstFollows
  <2>2. CASE elected
    <3> SUFFICES ASSUME cr' # None, ~ Waiting' PROVE Right'
      BY <2>2 DEF Leads, Undisturbed
    <3>1. ~ Event /\ ~ Waiting
      BY <2>2 DEF Waiting, FirstFollows
    <3>2. cr' = cr /\ \A k \in Watched : obj'[k] = obj[k]
      BY <3>1 DEF Event
    <3>3. Right
      BY <2>2, <3>1, <3>2 DEF Leads, Undisturbed
    <3>4. QED
      BY <3>2, <3>3, UntouchedRight DEF FirstFollows
  <2>3. QED
    BY <2>1, <2>2
<1>6. QED
  BY <1>1, <1>2, <1>3, <1>4, <1>5

\* A step of the first manager once it leads, or one that reaches its queue.
LEMMA FirstManagerStep ==
  ASSUME MInv, elected, FirstLeads, SecondFollows, UNCHANGED elected
  PROVE  MInv'
<1> USE DEF MInv
<1>1. Next
  BY DEF FirstLeads, Next, Cluster, Users
<1>2. QInv'
  BY <1>1, NextQInv DEF QInv, Leads
<1>3. S!CopyInv'
  BY <1>2, FirstServerTypes, SecondFollowing DEF QInv
<1>4. S!Sources'
  BY <1>2 DEF QInv, Sources, S!Sources, SecondFollows
<1>5. QED
  BY <1>2, <1>3, <1>4 DEF QInv, Leads

(***************************************************************************)
(* The new leader starts with the TlnDB in its queue.                      *)
(***************************************************************************)
LEMMA HandoverStep == MInv /\ Handover => MInv'
<1> SUFFICES ASSUME MInv, Handover PROVE MInv'
  OBVIOUS
<1> USE DEF MInv
<1>1. /\ UNCHANGED <<cr, ext, obj, ccr, crFresh, cobj, fresh, cext, timer, pc, inst,
                     instFresh, hash, managed, uids, edits, faults, now>>
      /\ UNCHANGED <<ccr2, crFresh2, cobj2, fresh2, cext2, pc2, inst2, instFresh2, hash2,
                     managed2>>
      /\ queued' = (ccr # None) /\ queued2' = FALSE /\ timer2' = FALSE /\ elected' = TRUE
  BY DEF Handover, server, caches, locals, secondCaches, secondCall
<1>2. CopyInv'
  BY <1>1 DEF CopyInv, TypeOK, TlnDBTypes, ChildTypes, CallTypes, OtherTypes, CacheCurrent,
     ChildCurrent, UpdateClaim
<1>3. S!CopyInv'
  BY <1>1 DEF S!CopyInv, S!TypeOK, S!TlnDBTypes, S!ChildTypes, S!CallTypes, S!OtherTypes,
     S!CacheCurrent, S!ChildCurrent, S!UpdateClaim
<1>4. Held' /\ StartsEmpty' /\ Sources' /\ S!Sources'
  BY <1>1 DEF Held, StartsEmpty, Sources, S!Sources
<1>5. cr' # None => Waiting'
  BY <1>1 DEF CopyInv, CacheCurrent, Waiting
<1>6. Leads'
  BY <1>1, <1>5 DEF Leads, Undisturbed
<1>7. QED
  BY <1>1, <1>2, <1>3, <1>4, <1>6

\* The old leader's exit ends its call; nothing else changes.
LEMMA ExitStep == MInv /\ Exit => MInv'
<1> SUFFICES ASSUME MInv, Exit PROVE MInv'
  OBVIOUS
<1> USE DEF MInv
<1>1. /\ UNCHANGED <<cr, ext, obj, ccr, crFresh, cobj, fresh, cext, queued, timer, pc, inst,
                     instFresh, hash, managed, uids, edits, faults, now, elected>>
      /\ UNCHANGED <<ccr2, crFresh2, cobj2, fresh2, cext2, queued2, timer2>>
      /\ elected /\ pc2' = "idle" /\ inst2' = None /\ instFresh2' = FALSE
      /\ hash2' = None /\ managed2' = {}
  BY DEF Exit, vars, server, crCache, childCache, queue, locals, secondCaches
<1>2. CopyInv'
  BY <1>1 DEF CopyInv, TypeOK, TlnDBTypes, ChildTypes, CallTypes, OtherTypes, CacheCurrent,
     ChildCurrent, UpdateClaim
<1>3. S!CopyInv'
  BY <1>1 DEF S!CopyInv, S!TypeOK, S!TlnDBTypes, S!ChildTypes, S!CallTypes, S!OtherTypes,
     S!CacheCurrent, S!ChildCurrent, S!UpdateClaim, S!PC
<1>4. Held' /\ StartsEmpty' /\ Sources' /\ S!Sources'
  BY <1>1 DEF Held, StartsEmpty, Sources, S!Sources
<1>5. Undisturbed'
  <2> SUFFICES ASSUME cr' # None, ~ Waiting' PROVE Right'
    BY DEF Undisturbed
  <2>1. cr # None /\ ~ Waiting
    BY <1>1 DEF Waiting
  <2>2. Right
    BY <1>1, <2>1 DEF Leads, Undisturbed
  <2>3. QED
    BY <1>1, <2>1, <2>2, UntouchedRight
<1>6. QED
  BY <1>1, <1>2, <1>3, <1>4, <1>5 DEF Leads

\* Every step, and stuttering, preserves the invariant.
LEMMA NextMInv == MInv /\ [NextManagers]_allVars => MInv'
<1> SUFFICES ASSUME MInv, [NextManagers]_allVars PROVE MInv'
  OBVIOUS
<1>1. SecondFinishes => SecondLeads
  BY DEF SecondFinishes, SecondLeads
<1>2. CASE UNCHANGED allVars
  <2>1. /\ UNCHANGED <<cr, ext, obj, ccr, crFresh, cobj, fresh, cext, queued, timer, pc, inst,
                       instFresh, hash, managed, uids, edits, faults, now, elected>>
        /\ UNCHANGED <<ccr2, crFresh2, cobj2, fresh2, cext2, queued2, timer2, pc2, inst2,
                       instFresh2, hash2, managed2>>
    BY <1>2 DEF allVars, vars, server, crCache, childCache, queue, locals, secondCaches,
       secondCall
  <2>2. CopyInv' /\ Held' /\ StartsEmpty' /\ Sources' /\ S!Sources'
    BY <2>1 DEF MInv, CopyInv, TypeOK, TlnDBTypes, ChildTypes, CallTypes, OtherTypes,
       CacheCurrent, ChildCurrent, UpdateClaim, Held, StartsEmpty, Sources, S!Sources
  <2>3. S!CopyInv'
    BY <2>1 DEF MInv, S!CopyInv, S!TypeOK, S!TlnDBTypes, S!ChildTypes, S!CallTypes,
       S!OtherTypes, S!CacheCurrent, S!ChildCurrent, S!UpdateClaim
  <2>4. ASSUME elected, cr' # None, ~ Waiting' PROVE Right'
    <3>1. cr # None /\ Right
      BY <2>1, <2>4 DEF MInv, Leads, Undisturbed, Waiting
    <3>2. QED
      BY <2>1, <3>1, UntouchedRight
  <2>5. Leads'
    BY <2>1, <2>4 DEF MInv, Leads, Undisturbed
  <2>6. QED
    BY <2>1, <2>2, <2>3, <2>5 DEF MInv
<1>3. QED
  BY <1>1, <1>2, HandoverStep, ExitStep, SecondSteps, SecondManagerStep, FirstManagerStep
     DEF NextManagers

(***************************************************************************)
(* A new leader at rest has left children and status as the stored spec    *)
(* asks, whatever the old leader was still doing when it took over.        *)
(***************************************************************************)
THEOREM HandoverAtRest == SpecManagers => []HandoverSettles
<1>1. MInv => HandoverSettles
  BY RestSettles DEF MInv, Leads, QInv, HandoverSettles
<1>2. QED
  BY <1>1, InitMInv, NextMInv, PTL DEF SpecManagers
=============================================================================
