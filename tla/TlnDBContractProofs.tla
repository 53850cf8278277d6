------------------------ MODULE TlnDBContractProofs -------------------------
(***************************************************************************)
(* The reconciler of TlnDBController implements the contract of            *)
(* TlnDBContract, for every set of specs, every lag and every bound.       *)
(***************************************************************************)
EXTENDS TlnDBProofs

(***************************************************************************)
(* What the step simulation needs beyond IInv: the stored TlnDB is the     *)
(* last one created.                                                       *)
(***************************************************************************)
LastUid == cr # None => cr.uid = uids

ContractInv == IInv /\ LastUid

-----------------------------------------------------------------------------
\* A step that stores the same TlnDB, or none, and creates none.
LEMMA SameOwnerKeepsUid ==
  ASSUME LastUid, SameOwner, uids' = uids PROVE LastUid'
BY DEF LastUid, SameOwner

-----------------------------------------------------------------------------
(***************************************************************************)
(* Steps in which neither the TlnDB nor a child is written.                *)
(***************************************************************************)
LEMMA QuietSteps ==
  ASSUME Reconcile \/ ExternalConfigMap \/ SyncCR \/ SyncExt \/ TimerFires \/ ExtEdit
           \/ Tick
  PROVE  SameOwner /\ UNCHANGED <<obj, uids>>
BY DEF Reconcile, ExternalConfigMap, SyncCR, SyncExt, TimerFires, ExtEdit, Tick, server,
       Environment, SameOwner

-----------------------------------------------------------------------------
(***************************************************************************)
(* What a step looks like to the contract.                                 *)
(*                                                                         *)
(* One that keeps the identity of the TlnDB and the children is invisible. *)
(***************************************************************************)
LEMMA Invisible ==
  ASSUME SameOwner, UNCHANGED <<obj, uids>>
  PROVE  UNCHANGED Contract!vars
<1>1. Stage' = Stage
  BY DEF Stage, SameOwner
<1>2. Owners' = Owners
  BY DEF Owners
<1>3. QED
  BY <1>1, <1>2 DEF Contract!vars

\* Storing one child changes the owner of that child alone.
LEMMA StoreOwners ==
  ASSUME ChildTypes, NEW k \in Child, NEW new, Store(k, new)
  PROVE  Owners' = [Owners EXCEPT ![k] = IF new = None THEN 0 ELSE new.owner]
<1>1. obj' = [obj EXCEPT ![k] = new] /\ obj = [c \in Child |-> obj[c]]
  BY DEF Store, ChildTypes
<1>2. \A c \in Child : obj'[c] = IF c = k THEN new ELSE obj[c]
  BY <1>1
<1>3. QED
  BY <1>2 DEF Owners

\* Deleting a child removes it in the contract.
LEMMA StoreNoneRemoves ==
  ASSUME ChildTypes, NEW k \in Child, Store(k, None), UNCHANGED <<cr, uids>>
  PROVE  Contract!Next
<1>1. Stage' = Stage
  BY DEF Stage
<1>2. Owners' = [Owners EXCEPT ![k] = 0]
  BY StoreOwners
<1>3. Contract!Remove(k)
  BY <1>1, <1>2 DEF Contract!Remove
<1>4. QED
  BY <1>3 DEF Contract!Next

\* Writing a child without touching its owner reference is invisible.
LEMMA StoreSameOwnerInvisible ==
  ASSUME ChildTypes, NEW k \in Child, NEW new, Store(k, new), UNCHANGED <<cr, uids>>,
         new # None, obj[k] # None, new.owner = obj[k].owner
  PROVE  UNCHANGED Contract!vars
<1>1. Stage' = Stage
  BY DEF Stage
<1>2. Owners' = [Owners EXCEPT ![k] = new.owner]
  BY StoreOwners
<1>3. Owners[k] = new.owner /\ Owners = [c \in Child |-> Owners[c]]
  BY DEF Owners
<1>4. Owners' = Owners
  BY <1>2, <1>3
<1>5. QED
  BY <1>1, <1>4 DEF Contract!vars

\* Writing a child for the stored and claimed TlnDB provides it.
LEMMA StoreForOwnerProvides ==
  ASSUME ChildTypes, LastUid, NEW k \in Child, NEW new, Store(k, new),
         UNCHANGED <<cr, uids>>, cr # None, cr.finalizer, cr \in TlnDB,
         new # None, new.owner = cr.uid
  PROVE  Contract!Next
<1>1. Stage' = Stage /\ Stage \in {"claimed", "terminating"}
  BY DEF Stage, TlnDB
<1>2. Owners' = [Owners EXCEPT ![k] = uids]
  BY StoreOwners DEF LastUid
<1>3. Contract!Provide(k)
  BY <1>1, <1>2 DEF Contract!Provide
<1>4. QED
  BY <1>3 DEF Contract!Next

-----------------------------------------------------------------------------
(***************************************************************************)
(* Each step, with what it does to the contract and to the fact the        *)
(* simulation rests on.                                                    *)
(***************************************************************************)
Simulates == LastUid' /\ [Contract!Next]_(Contract!vars)

\* Status patches, and steps that write neither the TlnDB nor a child.
LEMMA InvisibleStep ==
  ASSUME ContractInv, SameOwner, UNCHANGED <<obj, uids>>
  PROVE  Simulates
BY Invisible, SameOwnerKeepsUid DEF ContractInv, Simulates

(***************************************************************************)
(* The finalizer: its addition claims the TlnDB the call read, because of  *)
(* the optimistic lock; its removal releases a terminating one.            *)
(***************************************************************************)
LEMMA AddFinalizerSimulates ==
  ASSUME ContractInv, AddFinalizer PROVE Simulates
<1> USE DEF ContractInv
<1>1. UNCHANGED <<obj, uids>>
  BY DEF AddFinalizer, Environment
<1>2. CASE UNCHANGED crSide
  <2>1. SameOwner
    BY <1>2 DEF crSide, SameOwner
  <2>2. QED
    BY <1>1, <2>1, InvisibleStep
<1>3. CASE instFresh /\ StoreCR(WithFinalizer)
  <2>1. cr \in TlnDB /\ ~ cr.deleting
    BY <1>3 DEF AddFinalizer, IInv, CopyInv, TypeOK, UpdateClaim, CallTypes
  <2>2. /\ cr' = WithFinalizer /\ cr'.uid = cr.uid /\ cr'.finalizer = TRUE
        /\ cr'.deleting = cr.deleting
    BY <1>3, <2>1 DEF StoreCR, WithFinalizer, TlnDB
  <2>3. cr # None
    BY <2>1, NoneAssumption
  <2>4. cr' # None
    <3>1. WithFinalizer = [cr EXCEPT !.finalizer = TRUE,
                                     !.spec = WithFinalizer.spec,
                                     !.generation = WithFinalizer.generation]
      BY <2>1 DEF WithFinalizer, TlnDB
    <3>2. WithFinalizer \in TlnDB
      <4>1. inst \in TlnDB /\ inst.spec \in TlnDBSpec
        BY <1>3, <2>1 DEF AddFinalizer, IInv, CopyInv, UpdateClaim, TlnDB
      <4>2. StoredByUpdate(inst.spec) \in TlnDBSpec
        BY <4>1, StoredByUpdateType
      <4>3. WithFinalizer.generation \in Nat /\ WithFinalizer.spec \in TlnDBSpec
        BY <2>1, <4>2 DEF WithFinalizer, TlnDB
      <4> HIDE DEF WithFinalizer
      <4>4. QED
        BY <2>1, <3>1, <4>3 DEF TlnDB
    <3>3. QED
      BY <2>2, <3>2, NoneAssumption
  <2>5. LastUid'
    BY <1>1, <2>2, <2>3 DEF LastUid
  <2>6. Owners' = Owners /\ uids' = uids
    BY <1>1 DEF Owners
  <2>7. Stage' = "claimed" /\ Stage \in {"claimed", "unclaimed"}
    BY <2>1, <2>2, <2>3, <2>4 DEF Stage
  <2>8. [Contract!Next]_(Contract!vars)
    BY <2>6, <2>7 DEF Contract!Next, Contract!Claim, Contract!vars
  <2>9. QED
    BY <2>5, <2>8 DEF Simulates
<1>4. QED
  BY <1>2, <1>3 DEF AddFinalizer

\* Removing the finalizer.
LEMMA RemoveFinalizerSimulates ==
  ASSUME ContractInv, RemoveFinalizer PROVE Simulates
<1> USE DEF ContractInv
<1>1. UNCHANGED <<obj, uids>>
  BY DEF RemoveFinalizer, Environment
<1>2. CASE UNCHANGED crSide
  <2>1. SameOwner
    BY <1>2 DEF crSide, SameOwner
  <2>2. QED
    BY <1>1, <2>1, InvisibleStep
<1>3. CASE cr = None /\ StoreCR(None)
  <2>1. SameOwner
    BY <1>3 DEF StoreCR, SameOwner
  <2>2. QED
    BY <1>1, <2>1, InvisibleStep
<1>4. CASE cr # None /\ cr.deleting /\ StoreCR(None)
  <2>1. cr' = None
    BY <1>4 DEF StoreCR
  <2>2. Stage = "terminating" /\ Stage' = "absent"
    BY <1>4, <2>1 DEF Stage
  <2>3. Owners' = Owners /\ uids' = uids
    BY <1>1 DEF Owners
  <2>4. Contract!Next
    BY <2>2, <2>3 DEF Contract!Next, Contract!Release
  <2>5. LastUid'
    BY <1>1, <2>1 DEF LastUid
  <2>6. QED
    BY <2>4, <2>5 DEF Simulates
<1>5. QED
  BY <1>2, <1>3, <1>4 DEF RemoveFinalizer

(***************************************************************************)
(* createOrUpdate: a child is created for the stored TlnDB; an update that *)
(* passes the optimistic lock keeps the owner reference the child has,     *)
(* except for a ServiceMonitor, which is handed to the stored TlnDB.       *)
(***************************************************************************)
LEMMA CreateOrUpdateSimulates ==
  ASSUME ContractInv, NEW k \in Child, CreateOrUpdate(k) PROVE Simulates
<1> USE DEF ContractInv
<1>1. UNCHANGED <<cr, uids>> /\ ChildTypes
  BY DEF CreateOrUpdate, Environment, IInv, CopyInv, TypeOK
<1>2. CASE UNCHANGED childSide
  <2>1. SameOwner
    BY <1>1 DEF SameOwner
  <2>2. QED
    BY <1>1, <1>2, <2>1, InvisibleStep DEF childSide
<1>3. CASE Accepted(k) /\ Store(k, Written(k))
  <2>1. pc \in ResourceSteps /\ pc # "idle"
    BY StepNames, StepKinds DEF CreateOrUpdate
  <2>2. inst \in TlnDB /\ cr # None /\ cr.finalizer /\ cr.uid = inst.uid /\ cr \in TlnDB
    BY <2>1, CallHoldsInstance DEF IInv, CopyInv, TypeOK, TlnDBTypes, Claims, CallClaims
  <2>3. Written(k) # None
    <3>1. Written(k) \in ObjectOf(k)
      BY <2>2, WrittenType DEF IInv
    <3>2. QED
      BY <3>1, AbsenceAssumption
  <2>4. LastUid'
    BY <1>1 DEF LastUid
  <2>5. CASE Existing(k) = None
    <3>1. Written(k).owner = cr.uid
      BY <2>2, <2>5 DEF Written, NewObject
    <3>2. Contract!Next
      BY <1>1, <1>3, <2>2, <2>3, <3>1, StoreForOwnerProvides
    <3>3. QED
      BY <2>4, <3>2 DEF Simulates
  <2>6. CASE Existing(k) # None
    <3>1. Existing(k) \in ObjectOf(k)
      BY <1>1, <2>6 DEF Existing, Watched, ChildTypes
    <3>2. /\ obj[k] # None
          /\ k \in Watched => cobj[k] = obj[k]
      BY <1>3, <2>6 DEF Accepted, IInv, CopyInv, ChildCurrent
    <3>3. CASE k = "ServiceMonitor"
      <4>1. Written(k).owner = cr.uid
        BY <2>2, <2>6, <3>1, <3>3 DEF Written, UpdatedObject, ObjectOf
      <4>2. Contract!Next
        BY <1>1, <1>3, <2>2, <2>3, <4>1, StoreForOwnerProvides
      <4>3. QED
        BY <2>4, <4>2 DEF Simulates
    <3>4. CASE k # "ServiceMonitor"
      <4>1. Written(k).owner = Existing(k).owner
        BY <2>6, <3>1, <3>4 DEF Written, UpdatedObject, ObjectOf
      <4>2. Existing(k) = obj[k]
        BY <3>2, <3>4 DEF Existing, Watched
      <4>3. UNCHANGED Contract!vars
        BY <1>1, <1>3, <2>3, <3>2, <4>1, <4>2, StoreSameOwnerInvisible
      <4>4. QED
        BY <2>4, <4>3 DEF Simulates
    <3>5. QED
      BY <3>3, <3>4
  <2>7. QED
    BY <2>5, <2>6
<1>4. QED
  BY <1>2, <1>3 DEF CreateOrUpdate, Apply

(***************************************************************************)
(* Deletions of children, whoever asks for them.                           *)
(***************************************************************************)
LEMMA DeletionSimulates ==
  ASSUME ContractInv, NEW k \in Child, Store(k, None), UNCHANGED <<cr, uids>>
  PROVE  Simulates
<1>1. LastUid'
  BY DEF ContractInv, LastUid
<1>2. Contract!Next
  BY StoreNoneRemoves DEF ContractInv, IInv, CopyInv, TypeOK
<1>3. QED
  BY <1>1, <1>2 DEF Simulates

\* Pruning the follower set.
LEMMA PruneFollowerSimulates ==
  ASSUME ContractInv, PruneFollower PROVE Simulates
<1>1. UNCHANGED <<cr, uids>>
  BY DEF PruneFollower, Environment
<1>2. CASE UNCHANGED childSide
  <2>1. SameOwner
    BY <1>1 DEF SameOwner
  <2>2. QED
    BY <1>1, <1>2, <2>1, InvisibleStep DEF childSide
<1>3. CASE Store("FollowerStatefulSet", None)
  <2>1. "FollowerStatefulSet" \in Child
    BY DEF Child, StatefulSets
  <2>2. QED
    BY <1>1, <1>3, <2>1, DeletionSimulates
<1>4. QED
  BY <1>2, <1>3 DEF PruneFollower

(***************************************************************************)
(* What the rest of the cluster does to a child: remove it, or write its   *)
(* status or size.                                                         *)
(***************************************************************************)
LEMMA ChildSimulates ==
  ASSUME ContractInv, NEW k \in Child,
         StsObserve(k) \/ PodReady(k) \/ PodFails(k) \/ CollectGarbage(k) \/ DeleteChild(k)
           \/ (k = HPATarget /\ Autoscale)
  PROVE  Simulates
<1> USE DEF ContractInv
<1>1. UNCHANGED <<cr, uids>> /\ ChildTypes
  BY DEF StsObserve, PodReady, PodFails, CollectGarbage, DeleteChild, Autoscale,
         ClusterWrites, Environment, IInv, CopyInv, TypeOK
<1>2. CASE CollectGarbage(k) \/ DeleteChild(k)
  BY <1>1, <1>2, DeletionSimulates DEF CollectGarbage, DeleteChild, ClusterWrites
<1>3. CASE StsObserve(k) \/ PodReady(k) \/ PodFails(k) \/ (k = HPATarget /\ Autoscale)
  <2>1. obj[k] # None /\ obj[k] \in ObjectOf(k)
    <3>1. obj[k] # None
      BY <1>3, Zenon DEF StsObserve, PodReady, PodFails, Autoscale
    <3>2. QED
      BY <1>1, <3>1 DEF ChildTypes
  <2>2. \E new : Store(k, new) /\ new.owner = obj[k].owner
    <3>1. CASE StsObserve(k)
      <4>1. PICK r \in 0 .. obj[k].ready :
               Store(k, [obj[k] EXCEPT !.observed = TRUE, !.ready = r])
        BY <3>1 DEF StsObserve, ClusterWrites
      <4> DEFINE new == [obj[k] EXCEPT !.observed = TRUE, !.ready = r]
      <4>2. Store(k, new) /\ new.owner = obj[k].owner
        BY <2>1, <4>1 DEF ObjectOf
      <4> HIDE DEF new
      <4>3. QED
        BY <4>2
    <3>2. CASE PodReady(k)
      <4> DEFINE new == [obj[k] EXCEPT !.ready = @ + 1]
      <4>1. Store(k, new) /\ new.owner = obj[k].owner
        BY <2>1, <3>2 DEF PodReady, ClusterWrites, ObjectOf
      <4> HIDE DEF new
      <4>2. QED
        BY <4>1
    <3>3. CASE PodFails(k)
      <4> DEFINE new == [obj[k] EXCEPT !.ready = @ - 1]
      <4>1. Store(k, new) /\ new.owner = obj[k].owner
        BY <2>1, <3>3 DEF PodFails, ClusterWrites, ObjectOf
      <4> HIDE DEF new
      <4>2. QED
        BY <4>1
    <3>4. CASE k = HPATarget /\ Autoscale
      <4>1. PICK n \in ScaleTo :
               Store(k, [obj[k] EXCEPT !.body.replicas = n, !.observed = FALSE])
        BY <3>4 DEF Autoscale, ClusterWrites
      <4> DEFINE new == [obj[k] EXCEPT !.body.replicas = n, !.observed = FALSE]
      <4>2. Store(k, new) /\ new.owner = obj[k].owner
        BY <2>1, <4>1 DEF ObjectOf
      <4> HIDE DEF new
      <4>3. QED
        BY <4>2
    <3>5. QED
      BY <1>3, <3>1, <3>2, <3>3, <3>4
  <2>3. PICK new : Store(k, new) /\ new.owner = obj[k].owner
    BY <2>2
  <2>4. LastUid'
    BY <1>1 DEF LastUid
  <2>5. CASE new = None
    BY <1>1, <2>3, <2>5, DeletionSimulates
  <2>6. CASE new # None
    <3>1. UNCHANGED Contract!vars
      BY <1>1, <2>1, <2>3, <2>6, StoreSameOwnerInvisible
    <3>2. QED
      BY <2>4, <3>1 DEF Simulates
  <2>7. QED
    BY <2>5, <2>6, Zenon
<1>4. QED
  BY <1>2, <1>3, Zenon

(***************************************************************************)
(* The caches are brought up to date, by an event or by a restart.         *)
(***************************************************************************)
LEMMA RefreshSimulates ==
  ASSUME ContractInv, Restart \/ \E k \in Watched : SyncChild(k) PROVE Simulates
<1> USE DEF ContractInv
<1>1. UNCHANGED <<cr, obj, uids>>
  BY DEF Restart, SyncChild, server, Environment
<1>2. SameOwner /\ LastUid'
  BY <1>1 DEF SameOwner, LastUid
<1>3. UNCHANGED Contract!vars
  BY <1>1, <1>2, Invisible
<1>4. QED
  BY <1>2, <1>3 DEF Simulates

(***************************************************************************)
(* Users.                                                                  *)
(***************************************************************************)
LEMMA UserSimulates ==
  ASSUME ContractInv, UserCreate \/ UserEdit \/ UserDelete PROVE Simulates
<1> USE DEF ContractInv
<1>1. UNCHANGED obj
  BY DEF UserCreate, UserEdit, UserDelete, UserWrites
<1>2. Owners' = Owners
  BY <1>1 DEF Owners
<1>3. cr \in TlnDB \cup {None} /\ uids \in Nat
  BY DEF IInv, CopyInv, TypeOK, TlnDBTypes, OtherTypes
<1>4. CASE UserCreate
  <2>1. PICK spec \in UserSpecs :
          cr' = [uid |-> uids + 1, generation |-> 1, spec |-> spec,
                 deleting |-> FALSE, finalizer |-> FALSE, status |-> EmptyStatus]
    BY <1>4 DEF UserCreate, UserWrites, StoreCR
  <2>2. uids' = uids + 1 /\ cr = None
    BY <1>4 DEF UserCreate
  <2>3. cr'.uid = uids' /\ ~ cr'.deleting /\ ~ cr'.finalizer
    BY <2>1, <2>2
  <2>4. cr' # None
    <3>1. EmptyStatus \in TlnDBStatus
      BY DEF EmptyStatus, TlnDBStatus, Condition, Phases
    <3>2. cr' \in TlnDB
      BY <1>3, <2>1, <3>1, InputAssumption DEF TlnDB
    <3>3. QED
      BY <3>2, NoneAssumption
  <2>5. Stage = "absent" /\ Stage' = "unclaimed"
    BY <2>2, <2>3, <2>4 DEF Stage
  <2>6. Contract!Next
    BY <1>2, <2>2, <2>5 DEF Contract!Next, Contract!Create
  <2>7. QED
    BY <1>2, <2>3, <2>6 DEF Simulates, LastUid
<1>5. CASE UserEdit
  <2>1. PICK spec \in UserSpecs : cr' = [cr EXCEPT !.spec = spec, !.generation = @ + 1]
    BY <1>5 DEF UserEdit, UserWrites, StoreCR
  <2>2. cr # None /\ cr \in TlnDB /\ uids' = uids
    BY <1>3, <1>5 DEF UserEdit
  <2>3. /\ cr'.uid = cr.uid /\ cr'.finalizer = cr.finalizer
        /\ cr'.deleting = cr.deleting
    BY <2>1, <2>2 DEF TlnDB
  <2>4. cr' # None
    <3>1. cr.generation + 1 \in Nat /\ spec \in TlnDBSpec
      BY <2>2, InputAssumption DEF TlnDB
    <3>2. cr' \in TlnDB
      BY <2>1, <2>2, <3>1 DEF TlnDB
    <3>3. QED
      BY <3>2, NoneAssumption
  <2>5. SameOwner
    BY <2>2, <2>3, <2>4 DEF SameOwner
  <2>6. QED
    BY <1>1, <2>2, <2>5, InvisibleStep
<1>6. CASE UserDelete
  <2>1. cr # None /\ cr \in TlnDB /\ ~ cr.deleting /\ uids' = uids
    BY <1>3, <1>6 DEF UserDelete
  <2>2. CASE cr.finalizer
    <3>1. cr' = [cr EXCEPT !.deleting = TRUE, !.generation = @ + 1]
      BY <1>6, <2>2 DEF UserDelete, UserWrites, StoreCR
    <3>2. cr'.uid = cr.uid /\ cr'.deleting
      BY <2>1, <3>1 DEF TlnDB
    <3>3. cr' # None
      <4>1. cr.generation + 1 \in Nat
        BY <2>1 DEF TlnDB
      <4>2. cr' \in TlnDB
        BY <2>1, <3>1, <4>1 DEF TlnDB
      <4>3. QED
        BY <4>2, NoneAssumption
    <3>4. Stage = "claimed" /\ Stage' = "terminating"
      BY <2>1, <2>2, <3>2, <3>3 DEF Stage
    <3>5. Contract!Next
      BY <1>2, <2>1, <3>4 DEF Contract!Next, Contract!Delete
    <3>6. QED
      BY <1>2, <2>1, <3>2, <3>5 DEF Simulates, LastUid
  <2>3. CASE ~ cr.finalizer
    <3>1. cr' = None
      BY <1>6, <2>3 DEF UserDelete, UserWrites, StoreCR
    <3>2. Stage = "unclaimed" /\ Stage' = "absent"
      BY <2>1, <2>3, <3>1 DEF Stage
    <3>3. Contract!Next
      BY <1>2, <2>1, <3>2 DEF Contract!Next, Contract!Delete
    <3>4. QED
      BY <1>2, <3>1, <3>3 DEF Simulates, LastUid
  <2>4. QED
    BY <2>2, <2>3
<1>7. QED
  BY <1>4, <1>5, <1>6

-----------------------------------------------------------------------------
(***************************************************************************)
(* Initially nothing has had the name.                                     *)
(***************************************************************************)
LEMMA InitSimulates == Init => ContractInv /\ Contract!Init
<1> SUFFICES ASSUME Init PROVE ContractInv /\ Contract!Init
  OBVIOUS
<1>1. LastUid
  BY DEF Init, LastUid
<1>2. Contract!Init
  BY DEF Init, Contract!Init, Stage, Owners
<1>3. QED
  BY <1>1, <1>2, InitIInv DEF ContractInv

\* Every step, and stuttering.
LEMMA NextSimulates == ContractInv /\ [Next]_vars => ContractInv' /\ Simulates
<1> SUFFICES ASSUME ContractInv, [Next]_vars PROVE Simulates
  BY NextIInv DEF ContractInv, Simulates
<1>1. CopyInv
  BY DEF ContractInv, IInv
<1>2. CASE Operator
  <2>1. CASE SetProvisioning \/ SetFailed \/ SetTerminating \/ SetCondition
               \/ PersistStatus \/ SyncStatus
    BY <1>1, <2>1, StatusSteps, InvisibleStep
  <2>2. CASE Reconcile \/ ExternalConfigMap
    BY <2>2, QuietSteps, InvisibleStep
  <2>3. QED
    BY <1>2, <2>1, <2>2, AddFinalizerSimulates, RemoveFinalizerSimulates,
       CreateOrUpdateSimulates, PruneFollowerSimulates DEF Operator
<1>3. CASE Restart
  BY <1>3, RefreshSimulates
<1>4. CASE Cluster
  <2>1. CASE SyncCR \/ SyncExt \/ TimerFires \/ Tick
    BY <2>1, QuietSteps, InvisibleStep
  <2>2. Watched \subseteq Child /\ StatefulSets \subseteq Child /\ HPATarget \in Child
    BY DEF Watched, Child, HPATarget, StatefulSets
  <2>3. QED
    BY <1>4, <2>1, <2>2, RefreshSimulates, ChildSimulates DEF Cluster
<1>5. CASE Users
  <2>1. CASE ExtEdit
    BY <2>1, QuietSteps, InvisibleStep
  <2>2. QED
    BY <1>5, <2>1, UserSimulates DEF Users
<1>6. CASE UNCHANGED vars
  <2>1. SameOwner /\ UNCHANGED <<obj, uids>>
    BY <1>6 DEF vars, server, SameOwner
  <2>2. QED
    BY <2>1, InvisibleStep
<1>7. QED
  BY <1>2, <1>3, <1>4, <1>5, <1>6 DEF Next

(***************************************************************************)
(* The reconciler implements the contract: whatever the caches show and    *)
(* wherever a call is, a TlnDB is claimed once and released once, a        *)
(* terminating one never comes back, and a child is made for, or handed    *)
(* to, only the TlnDB that is stored and claimed.                          *)
(***************************************************************************)
THEOREM Refinement == Spec => ImplementsContract
<1>1. ContractInv /\ [Next]_vars => [Contract!Next]_(Contract!vars)
  BY NextSimulates DEF Simulates
<1>2. ContractInv /\ [Next]_vars => ContractInv'
  BY NextSimulates
<1>3. Spec => []ContractInv
  BY <1>2, InitSimulates, PTL DEF Spec
<1>4. QED
  BY <1>1, <1>3, InitSimulates, PTL DEF Spec, ImplementsContract, Contract!Spec
=============================================================================
