------------------------ MODULE TlnDBResourcesProofs ------------------------
(***************************************************************************)
(* Facts about the operators of TlnDBApi and TlnDBResources that the       *)
(* proofs about the reconciler rest on: the types of what is built,        *)
(* patched and decoded, and the order of the steps of reconcileResources.  *)
(***************************************************************************)
EXTENDS TlnDBResources, WellFoundedInduction, TLAPS

-----------------------------------------------------------------------------
(***************************************************************************)
(* A non-empty set of numbers has a least element.                         *)
(***************************************************************************)
LEMMA LeastNumber ==
  ASSUME NEW T, T \subseteq Nat, T # {}
  PROVE  \E x \in T : \A y \in T : x <= y
<1> DEFINE R == OpToRel(<, Nat)
<1>1. IsWellFoundedOn(R, Nat)
  BY NatLessThanWellFounded
<1>2. \E x \in T : \A y \in T : ~ (<<y, x>> \in R)
  BY <1>1, WFMin
<1>3. PICK x \in T : \A y \in T : ~ (<<y, x>> \in R)
  BY <1>2
<1>4. ASSUME NEW y \in T PROVE x <= y
  <2>1. ~ (y < x)
    BY <1>3 DEF OpToRel
  <2>2. QED
    BY <2>1
<1>5. QED
  BY <1>4

(***************************************************************************)
(* reconcileResources ends with PersistStatus, which no if statement       *)
(* guards, so after every earlier position there is a next step.           *)
(***************************************************************************)
LEMMA OrderLength == Len(Order) = 23 /\ Order[23] = "PersistStatus"
BY DEF Order

\* After every position but the last some step is taken.
LEMMA TakenAfterIsStep ==
  ASSUME NEW i \in 0 .. 22, NEW spec
  PROVE  TakenAfter(i, spec) \in Steps
<1> DEFINE T == {j \in i + 1 .. Len(Order) : Taken(Order[j], spec)}
<1>1. Taken("PersistStatus", spec)
  BY DEF Taken, Optional
<1>2. 23 \in T
  BY <1>1, OrderLength
<1>3. PICK j \in T : \A m \in T : j <= m
  BY <1>2, LeastNumber, OrderLength
<1>4. \A m \in i + 1 .. j - 1 : ~ Taken(Order[m], spec)
  BY <1>3, OrderLength
<1>5. \E n \in i + 1 .. Len(Order) :
         /\ Taken(Order[n], spec)
         /\ \A m \in i + 1 .. n - 1 : ~ Taken(Order[m], spec)
  BY <1>3, <1>4
<1>6. QED
  BY <1>5, OrderLength DEF TakenAfter, Steps

\* The first step of reconcileResources is one of its steps.
LEMMA FirstStepIsStep ==
  ASSUME NEW spec PROVE FirstStep(spec) \in Steps
BY TakenAfterIsStep DEF FirstStep

\* Every step but the last has a successor among the steps.
LEMMA NextStepIsStep ==
  ASSUME NEW step \in Steps \ {"PersistStatus"}, NEW spec
  PROVE  NextStep(step, spec) \in Steps
<1> DEFINE i == CHOOSE n \in 1 .. Len(Order) : Order[n] = step
<1>1. i \in 1 .. Len(Order) /\ Order[i] = step
  BY DEF Steps
<1> HIDE DEF i
<1>2. i # 23
  BY <1>1, OrderLength
<1>3. i \in 0 .. 22
  BY <1>1, <1>2, OrderLength
<1>4. QED
  BY <1>3, TakenAfterIsStep DEF NextStep, i

\* The steps: one per child and eight more.
LEMMA StepNames ==
  Steps = Child \cup
            {"RBACReady", "ExternalConfigMap", "ConfigMapReady", "PruneFollower",
             "ServiceReady", "NetworkPolicyReady", "ServiceMonitorReady",
             "PersistStatus"}
<1>1. ASSUME NEW s \in Steps
      PROVE  s \in Child \cup
            {"RBACReady", "ExternalConfigMap", "ConfigMapReady", "PruneFollower",
             "ServiceReady", "NetworkPolicyReady", "ServiceMonitorReady",
             "PersistStatus"}
  BY DEF Steps, Order, Child, Services, StatefulSets, Optional
<1>2. ASSUME NEW s \in Child \cup
            {"RBACReady", "ExternalConfigMap", "ConfigMapReady", "PruneFollower",
             "ServiceReady", "NetworkPolicyReady", "ServiceMonitorReady",
             "PersistStatus"}
      PROVE  s \in Steps
  BY DEF Steps, Order, Child, Services, StatefulSets, Optional
<1>3. QED
  BY <1>1, <1>2

-----------------------------------------------------------------------------
(***************************************************************************)
(* Types of the operators the actions are built from.                      *)
(***************************************************************************)
LEMMA MergePatchType ==
  ASSUME NEW server0 \in TlnDBStatus, NEW base \in TlnDBStatus,
         NEW new \in TlnDBStatus
  PROVE  MergePatch(server0, base, new) \in TlnDBStatus
BY DEF MergePatch, Changed, TlnDBStatus

\* The decoded response is a TlnDB, with the uid of the stored one.
LEMMA DecodeIntoType ==
  ASSUME NEW local \in TlnDB, NEW stored \in TlnDB
  PROVE  /\ DecodeInto(local, stored) \in TlnDB
         /\ DecodeInto(local, stored).uid = stored.uid
<1> DEFINE d == DecodeInto(local, stored)
<1>1. d.spec \in TlnDBSpec
  <2>1. stored.spec \in TlnDBSpec /\ local.spec \in TlnDBSpec
    BY DEF TlnDB
  <2>2. QED
    BY <2>1 DEF DecodeInto, TlnDBSpec
<1>2. d.status \in TlnDBStatus
  <2>1. stored.status \in TlnDBStatus /\ local.status \in TlnDBStatus
    BY DEF TlnDB
  <2>2. QED
    BY <2>1 DEF DecodeInto, Kept, TlnDBStatus
<1>3. /\ d = [uid |-> d.uid, generation |-> d.generation, spec |-> d.spec,
               deleting |-> d.deleting, finalizer |-> d.finalizer,
               status |-> d.status]
      /\ d.uid = stored.uid /\ d.generation = stored.generation
      /\ d.deleting = (local.deleting \/ stored.deleting)
      /\ d.finalizer = (local.finalizer \/ stored.finalizer)
  BY DEF DecodeInto
<1> HIDE DEF d
<1>4. d.uid \in Nat \ {0} /\ d.generation \in Nat
  BY <1>3 DEF TlnDB
<1>5. d.deleting \in BOOLEAN /\ d.finalizer \in BOOLEAN
  BY <1>3
<1>6. d \in TlnDB
  BY <1>1, <1>2, <1>3, <1>4, <1>5 DEF TlnDB
<1>7. QED
  BY <1>3, <1>6 DEF d

\* A spec sent through the Go struct is stored as a spec.
LEMMA StoredByUpdateType ==
  ASSUME NEW spec \in TlnDBSpec
  PROVE  StoredByUpdate(spec) \in TlnDBSpec
BY DEF StoredByUpdate, TlnDBSpec

\* The three StatefulSet roles share one kind of body.
LEMMA StatefulSetBodies ==
  ASSUME NEW k \in StatefulSets
  PROVE  BodyOf(k) = StatefulSetBody
<1>1. k \notin Services \cup Optional
                 \cup {"ConfigMap", "ServiceAccount", "Role", "RoleBinding"}
  BY DEF StatefulSets, Services, Optional
<1>2. QED
  BY <1>1 DEF BodyOf, Optional

\* buildStatefulSet yields a StatefulSet body.
LEMMA buildStatefulSetType ==
  ASSUME NEW spec \in TlnDBSpec, NEW h \in Hashes \cup {None},
         NEW role \in {"standalone", "leader", "follower"}, NEW n \in Nat
  PROVE  buildStatefulSet(spec, h, role, n) \in StatefulSetBody
BY DEF buildStatefulSet, StatefulSetBody, Template, TlnDBSpec

\* Every builder yields a body of its child.
LEMMA BuildType ==
  ASSUME NEW k \in Child, NEW spec \in TlnDBSpec, NEW h \in Hashes \cup {None}
  PROVE  Build(k, spec, h) \in BodyOf(k)
<1>0. spec.replicas \in Nat /\ spec.readReplicas \in Nat /\ spec.config \in Configs
      /\ spec.options \in Options
  BY DEF TlnDBSpec
<1>1. CASE k \in StatefulSets
  <2>1. CASE k = "StatefulSet"
    BY <1>0, <1>1, <2>1, StatefulSetBodies, buildStatefulSetType DEF Build, BuildStatefulSet
  <2>2. CASE k = "LeaderStatefulSet"
    BY <1>0, <1>1, <2>2, StatefulSetBodies, buildStatefulSetType DEF Build,
       BuildLeaderStatefulSet
  <2>3. CASE k = "FollowerStatefulSet"
    BY <1>0, <1>1, <2>3, StatefulSetBodies, buildStatefulSetType DEF Build,
       BuildFollowerStatefulSet
  <2>4. QED
    BY <1>1, <2>1, <2>2, <2>3 DEF StatefulSets
<1>2. CASE k \in Services
  BY <1>0, <1>2 DEF Build, BodyOf, Services, StatefulSets, serviceWith, BuildService,
     BuildWriteService, BuildReadService, BuildHeadlessService, ServiceBody
<1>3. CASE k \notin StatefulSets \cup Services
  BY <1>0, <1>3 DEF Build, BodyOf, Child, Services, StatefulSets, Optional,
     BuildConfigMap, BuildIngress, BuildNetworkPolicy, BuildServiceMonitor, PortsBody,
     BuildPDB, BuildHPA, BuildRBAC
<1>4. QED
  BY <1>1, <1>2, <1>3

\* A created child is a well-formed object.
LEMMA NewObjectType ==
  ASSUME NEW k \in Child, NEW body \in BodyOf(k), NEW owner \in Nat \ {0}
  PROVE  NewObject(k, body, owner) \in ObjectOf(k)
BY DEF NewObject, ObjectOf

\* An updated child stays a well-formed object.
LEMMA UpdatedObjectType ==
  ASSUME NEW k \in Child, NEW existing \in ObjectOf(k),
         NEW desired \in BodyOf(k), NEW owner \in Nat \ {0}
  PROVE  UpdatedObject(k, existing, desired, owner) \in ObjectOf(k)
<1>1. UpdatedBody(k, existing.body, desired) \in BodyOf(k)
  <2>1. CASE k \in StatefulSets
    <3>1. desired \in StatefulSetBody /\ existing.body \in StatefulSetBody
      BY <2>1, StatefulSetBodies DEF ObjectOf
    <3>2. [desired EXCEPT !.claimTemplate = existing.body.claimTemplate]
             \in StatefulSetBody
      BY <3>1 DEF StatefulSetBody
    <3>3. QED
      BY <2>1, <3>2, StatefulSetBodies DEF UpdatedBody
  <2>2. CASE k \notin StatefulSets
    BY <2>2 DEF UpdatedBody
  <2>3. QED
    BY <2>1, <2>2
<1>2. QED
  BY <1>1 DEF UpdatedObject, ObjectOf

-----------------------------------------------------------------------------
(***************************************************************************)
(* The place of a step, and the steps that are taken before it.            *)
(***************************************************************************)
Position(step) == CHOOSE i \in 1 .. Len(Order) : Order[i] = step

Before(step, spec) == {s \in Steps : Taken(s, spec) /\ Position(s) < Position(step)}

(***************************************************************************)
(* The steps of reconcileResources are all different, so each has one      *)
(* position.                                                               *)
(***************************************************************************)
LEMMA OrderDistinct ==
  ASSUME NEW i \in 1 .. 23, NEW j \in 1 .. 23, Order[i] = Order[j]
  PROVE  i = j
BY DEF Order

\* The position of a step in Order.
LEMMA PositionOf ==
  ASSUME NEW i \in 1 .. 23 PROVE Position(Order[i]) = i
BY OrderDistinct, OrderLength DEF Position

\* Every position in Order is that of its step.
LEMMA PositionInverse ==
  ASSUME NEW s \in Steps
  PROVE  Position(s) \in 1 .. 23 /\ Order[Position(s)] = s
BY PositionOf, OrderLength DEF Steps

\* The step after position i: no step that is taken lies between.
LEMMA TakenAfterPosition ==
  ASSUME NEW i \in 0 .. 22, NEW spec
  PROVE  LET n == TakenAfter(i, spec) IN
         /\ n \in Steps /\ Taken(n, spec) /\ i < Position(n)
         /\ \A s \in Steps : i < Position(s) /\ Position(s) < Position(n) =>
              ~ Taken(s, spec)
<1> DEFINE T == {j \in i + 1 .. Len(Order) : Taken(Order[j], spec)}
           First(j) == /\ Taken(Order[j], spec)
                       /\ \A m \in i + 1 .. j - 1 : ~ Taken(Order[m], spec)
<1>1. Taken("PersistStatus", spec)
  BY DEF Taken, Optional
<1>2. 23 \in T
  BY <1>1, OrderLength
<1>3. PICK x \in T : \A m \in T : x <= m
  BY <1>2, LeastNumber, OrderLength
<1>4. \A m \in i + 1 .. x - 1 : ~ Taken(Order[m], spec)
  BY <1>3, OrderLength
<1>5. \E y \in i + 1 .. Len(Order) : First(y)
  BY <1>3, <1>4
<1>6. PICK j \in i + 1 .. 23 : First(j) /\ TakenAfter(i, spec) = Order[j]
  BY <1>5, OrderLength DEF TakenAfter
<1>7. Order[j] \in Steps /\ Position(Order[j]) = j
  BY <1>6, PositionOf, OrderLength DEF Steps
<1>8. i < j /\ j \in Nat
  BY <1>6
<1>9. ASSUME NEW s \in Steps, i < Position(s), Position(s) < j
      PROVE  ~ Taken(s, spec)
  <2>1. PICK p \in 1 .. 23 : p = Position(s) /\ Order[p] = s
    BY PositionInverse
  <2>2. p \in i + 1 .. j - 1
    BY <1>8, <1>9, <2>1
  <2>3. QED
    BY <1>6, <2>1, <2>2
<1>10. QED
  BY <1>6, <1>7, <1>8, <1>9

\* Where the call stands after a step.
LEMMA NextStepBehind ==
  ASSUME NEW step \in Steps \ {"PersistStatus"}, NEW spec
  PROVE  /\ NextStep(step, spec) \in Steps
         /\ Taken(NextStep(step, spec), spec)
         /\ Before(NextStep(step, spec), spec) \subseteq Before(step, spec) \cup {step}
         /\ Before(step, spec) \subseteq Before(NextStep(step, spec), spec)
         /\ Taken(step, spec) => step \in Before(NextStep(step, spec), spec)
<1>1. PICK i \in 1 .. 23 : i = Position(step) /\ Order[i] = step
  BY PositionInverse
<1>2. i # 23
  BY <1>1, OrderLength
<1>3. i \in 0 .. 22
  BY <1>1, <1>2
<1>4. PICK n : n = NextStep(step, spec)
  OBVIOUS
<1>5. n = TakenAfter(i, spec)
  BY <1>1, <1>4 DEF NextStep, Position
<1>6. /\ n \in Steps /\ Taken(n, spec) /\ i < Position(n)
      /\ \A s \in Steps : i < Position(s) /\ Position(s) < Position(n) =>
           ~ Taken(s, spec)
  BY <1>3, <1>5, TakenAfterPosition
<1>7. Position(n) \in Int /\ \A s \in Steps : Position(s) \in Int
  BY <1>6, PositionInverse
<1>8. ASSUME NEW s \in Before(n, spec)
      PROVE  s \in Before(step, spec) \cup {step}
  <2>1. s \in Steps /\ Taken(s, spec) /\ Position(s) < Position(n)
    BY DEF Before
  <2>2. ~ (i < Position(s))
    BY <1>6, <2>1
  <2>3. CASE Position(s) = i
    BY <1>1, <2>1, <2>3, PositionInverse
  <2>4. CASE Position(s) < i
    BY <1>1, <2>1, <2>4 DEF Before
  <2>5. QED
    BY <1>7, <2>1, <2>2, <2>3, <2>4
<1>9. ASSUME NEW s \in Before(step, spec) PROVE s \in Before(n, spec)
  <2>1. s \in Steps /\ Taken(s, spec) /\ Position(s) < i
    BY <1>1 DEF Before
  <2>2. Position(s) < Position(n)
    BY <1>6, <1>7, <2>1
  <2>3. QED
    BY <2>1, <2>2 DEF Before
<1>10. Taken(step, spec) => step \in Before(n, spec)
  BY <1>1, <1>6 DEF Before
<1>11. QED
  BY <1>4, <1>6, <1>8, <1>9, <1>10

\* The first step has nothing behind it.
LEMMA FirstStepBehind ==
  ASSUME NEW spec
  PROVE  /\ FirstStep(spec) \in Steps /\ Taken(FirstStep(spec), spec)
         /\ Before(FirstStep(spec), spec) = {}
<1>1. PICK n : n = FirstStep(spec)
  OBVIOUS
<1>2. /\ n \in Steps /\ Taken(n, spec) /\ 0 < Position(n)
      /\ \A s \in Steps : 0 < Position(s) /\ Position(s) < Position(n) =>
           ~ Taken(s, spec)
  BY <1>1, TakenAfterPosition DEF FirstStep
<1>3. \A s \in Steps : 0 < Position(s)
  BY PositionInverse
<1>4. Before(n, spec) = {}
  BY <1>2, <1>3 DEF Before
<1>5. QED
  BY <1>1, <1>2, <1>4

\* A ServiceMonitor and its condition are neighbours.
LEMMA MonitorBehind ==
  ASSUME NEW spec, Taken("ServiceMonitor", spec)
  PROVE  /\ Before("ServiceMonitorReady", spec) =
              Before("ServiceMonitor", spec) \cup {"ServiceMonitor"}
<1>1. Order[19] = "ServiceMonitor" /\ Order[20] = "ServiceMonitorReady"
  BY DEF Order
<1>2. Position("ServiceMonitor") = 19 /\ Position("ServiceMonitorReady") = 20
  BY <1>1, PositionOf
<1>3. "ServiceMonitor" \in Steps
  BY <1>1, OrderLength DEF Steps
<1>4. ASSUME NEW s \in Steps, Position(s) = 19 PROVE s = "ServiceMonitor"
  BY <1>1, <1>4, PositionInverse
<1>5. \A s \in Steps : Position(s) \in Int
  BY PositionInverse
<1>6. QED
  BY <1>2, <1>3, <1>4, <1>5 DEF Before

\* Everything else comes before the last step.
LEMMA LastBehind ==
  ASSUME NEW spec
  PROVE  {s \in Steps : Taken(s, spec)} = Before("PersistStatus", spec) \cup {"PersistStatus"}
<1>1. Position("PersistStatus") = 23 /\ Taken("PersistStatus", spec)
  BY OrderLength, PositionOf DEF Taken, Optional
<1>2. "PersistStatus" \in Steps
  BY StepNames
<1>3. ASSUME NEW s \in Steps, s # "PersistStatus" PROVE Position(s) < 23
  <2>1. PICK i \in 1 .. 23 : i = Position(s) /\ Order[i] = s
    BY PositionInverse
  <2>2. i # 23
    BY <1>3, <2>1, OrderLength
  <2>3. QED
    BY <2>1, <2>2
<1>4. {s \in Steps : Taken(s, spec)} \subseteq Before("PersistStatus", spec) \cup {"PersistStatus"}
  BY <1>1, <1>3 DEF Before
<1>5. Before("PersistStatus", spec) \cup {"PersistStatus"} \subseteq {s \in Steps : Taken(s, spec)}
  BY <1>1, <1>2 DEF Before
<1>6. QED
  BY <1>4, <1>5

\* The config is rendered or external.
LEMMA TakenConfig ==
  ASSUME NEW spec
  PROVE  /\ Taken("ConfigMap", spec) <=> ~ spec.configFrom
         /\ Taken("ExternalConfigMap", spec) <=> spec.configFrom
<1>1. Taken("ConfigMap", spec) <=> ~ spec.configFrom
  BY DEF Taken, Optional
<1>2. Taken("ExternalConfigMap", spec) <=> spec.configFrom
  BY DEF Taken, Optional
<1>3. QED
  BY <1>1, <1>2

\* The hash is there before the StatefulSets are built.
LEMMA HashBehind ==
  ASSUME NEW k \in StatefulSets, NEW spec \in TlnDBSpec
  PROVE  Before(k, spec) \cap {"ConfigMap", "ExternalConfigMap"} # {}
<1>1. /\ Order[5] = "ConfigMap" /\ Order[6] = "ExternalConfigMap"
      /\ Order[9] = "LeaderStatefulSet" /\ Order[10] = "FollowerStatefulSet"
      /\ Order[12] = "StatefulSet"
  BY DEF Order
<1>2. /\ Position("ConfigMap") = 5 /\ Position("ExternalConfigMap") = 6
      /\ Position("LeaderStatefulSet") = 9 /\ Position("FollowerStatefulSet") = 10
      /\ Position("StatefulSet") = 12
  BY <1>1, PositionOf
<1>3. Position(k) \in Int /\ Position(k) > 6
  BY <1>2 DEF StatefulSets
<1>4. "ConfigMap" \in Steps /\ "ExternalConfigMap" \in Steps
  BY StepNames DEF Child
<1>5. Taken("ConfigMap", spec) \/ Taken("ExternalConfigMap", spec)
  BY TakenConfig
<1>6. QED
  BY <1>2, <1>3, <1>4, <1>5 DEF Before

(***************************************************************************)
(* Of what Build returns only a StatefulSet's hash depends on the hash.    *)
(***************************************************************************)
LEMMA BuildHash ==
  ASSUME NEW k \in Child, NEW spec, NEW h
  PROVE  /\ k \notin StatefulSets => Build(k, spec, h) = Build(k, spec, None)
         /\ k \in StatefulSets =>
              /\ Build(k, spec, h).replicas = Build(k, spec, None).replicas
              /\ Build(k, spec, h).image = Build(k, spec, None).image
              /\ Build(k, spec, h).hash = h
<1>1. CASE k = "StatefulSet"
  BY <1>1 DEF Build, BuildStatefulSet, buildStatefulSet, StatefulSets
<1>2. CASE k = "LeaderStatefulSet"
  BY <1>2 DEF Build, BuildLeaderStatefulSet, buildStatefulSet, StatefulSets
<1>3. CASE k = "FollowerStatefulSet"
  BY <1>3 DEF Build, BuildFollowerStatefulSet, buildStatefulSet, StatefulSets
<1>4. CASE k \notin StatefulSets
  BY <1>4 DEF Build, StatefulSets, Child, Services, Optional
<1>5. QED
  BY <1>1, <1>2, <1>3, <1>4 DEF StatefulSets
=============================================================================
