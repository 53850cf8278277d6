--------------------------- MODULE TlnDBResources ---------------------------
(***************************************************************************)
(* The pure part of the operator: what internal/resources builds for a     *)
(* TlnDB spec, in which order reconcileResources applies it, and how each  *)
(* createOrUpdate helper compares and merges an existing object with the   *)
(* desired one.                                                            *)
(*                                                                         *)
(* Object names, labels and annotations are functions of the instance name *)
(* alone and are left out: a child is identified by its role (TlnDBApi).   *)
(***************************************************************************)
EXTENDS TlnDBApi, Sequences

CONSTANTS
  Hashes,     \* values of the db.tlndb.io/config-hash annotation
  Digest      \* the digest of each ConfigMap content

ASSUME DigestAssumption == Digest \in [Configs -> Hashes]

ASSUME NoneAssumption == None \notin TlnDB

HashStringData(data) == Digest[data]

-----------------------------------------------------------------------------
(***************************************************************************)
(* Builders.  A body keeps what distinguishes one version of the object    *)
(* from another.                                                           *)
(***************************************************************************)
ServiceBody ==
  [selector : {"instance", "leader", "follower"},
   ports    : Configs,
   options  : Options \cup {None}]

PortsBody == [ports : Configs, options : Options]

Template ==
  [role       : {"standalone", "leader", "follower"},
   account    : {"own", "supplied"},
   config     : {"rendered", "external"},
   dataVolume : {"claimTemplate", "existingClaim", "emptyDir"},
   ports      : Configs,
   pod        : Pods]

StatefulSetBody ==
  [replicas      : Nat,
   hash          : Hashes \cup {None},
   image         : Images,
   template      : Template,
   claimTemplate : BOOLEAN]

\* ServiceAccount, Role and RoleBinding depend on the name alone.
BuildRBAC == "fixed"

BodyOf(k) ==
  CASE k \in StatefulSets -> StatefulSetBody
    [] k \in Services -> ServiceBody
    [] k = "ConfigMap" -> Configs
    [] k \in {"Ingress", "NetworkPolicy", "ServiceMonitor"} -> PortsBody
    [] k \in {"PodDisruptionBudget", "HorizontalPodAutoscaler"} -> Options
    [] k \in {"ServiceAccount", "Role", "RoleBinding"} -> {BuildRBAC}

(***************************************************************************)
(* dataVolume "claimTemplate" is the case in which buildVolumes adds no    *)
(* volume named data and relies on the StatefulSet's claim template.       *)
(***************************************************************************)
buildStatefulSet(spec, hash, role, replicas) ==
  [replicas      |-> replicas,
   hash          |-> hash,
   image         |-> spec.image,
   template      |->
     [role       |-> role,
      account    |-> IF spec.serviceAccountName THEN "supplied" ELSE "own",
      config     |-> IF spec.configFrom THEN "external" ELSE "rendered",
      dataVolume |-> spec.storage,
      ports      |-> spec.config,
      pod        |-> spec.pod],
   claimTemplate |-> spec.storage = "claimTemplate"]

BuildStatefulSet(spec, hash) ==
  buildStatefulSet(spec, hash, "standalone", spec.replicas)

BuildLeaderStatefulSet(spec, hash) ==
  buildStatefulSet(spec, hash, "leader", 1)

BuildFollowerStatefulSet(spec, hash) ==
  buildStatefulSet(spec, hash, "follower", spec.readReplicas)

serviceWith(spec, selector) ==
  [selector |-> selector, ports |-> spec.config, options |-> spec.options]

BuildService(spec) == serviceWith(spec, "instance")

BuildWriteService(spec) == serviceWith(spec, "leader")

BuildReadService(spec) ==
  serviceWith(spec, IF spec.readReplicas = 0 THEN "leader" ELSE "follower")

BuildHeadlessService(spec) ==
  [selector |-> "instance", ports |-> spec.config, options |-> None]

BuildConfigMap(spec) == spec.config

BuildIngress(spec) == [ports |-> spec.config, options |-> spec.options]

BuildNetworkPolicy(spec) == [ports |-> spec.config, options |-> spec.options]

BuildServiceMonitor(spec) == [ports |-> spec.config, options |-> spec.options]

BuildPDB(spec) == spec.options

BuildHPA(spec) == spec.options

(***************************************************************************)
(* The builder reconcileResources calls for each child.                    *)
(***************************************************************************)
Build(k, spec, hash) ==
  CASE k = "StatefulSet" -> BuildStatefulSet(spec, hash)
    [] k = "LeaderStatefulSet" -> BuildLeaderStatefulSet(spec, hash)
    [] k = "FollowerStatefulSet" -> BuildFollowerStatefulSet(spec, hash)
    [] k = "HeadlessService" -> BuildHeadlessService(spec)
    [] k = "Service" -> IF Replicated(spec) THEN BuildWriteService(spec)
                                            ELSE BuildService(spec)
    [] k = "ReadService" -> BuildReadService(spec)
    [] k = "ConfigMap" -> BuildConfigMap(spec)
    [] k = "Ingress" -> BuildIngress(spec)
    [] k = "NetworkPolicy" -> BuildNetworkPolicy(spec)
    [] k = "ServiceMonitor" -> BuildServiceMonitor(spec)
    [] k = "PodDisruptionBudget" -> BuildPDB(spec)
    [] k = "HorizontalPodAutoscaler" -> BuildHPA(spec)
    [] k \in {"ServiceAccount", "Role", "RoleBinding"} -> BuildRBAC

-----------------------------------------------------------------------------
(***************************************************************************)
(* The steps of reconcileResources, in program order.  A step named after  *)
(* a child is its createOrUpdate; one named after a condition is the       *)
(* setCondition call that follows.                                         *)
(***************************************************************************)
Order ==
  <<"ServiceAccount", "Role", "RoleBinding", "RBACReady",
    "ConfigMap", "ExternalConfigMap", "ConfigMapReady",
    "HeadlessService",
    "LeaderStatefulSet", "FollowerStatefulSet", "PruneFollower",
    "StatefulSet", "Service", "ReadService", "ServiceReady",
    "Ingress",
    "NetworkPolicy", "NetworkPolicyReady",
    "ServiceMonitor", "ServiceMonitorReady",
    "PodDisruptionBudget", "HorizontalPodAutoscaler",
    "PersistStatus">>

Steps == {Order[i] : i \in 1 .. Len(Order)}

(***************************************************************************)
(* The if statements around a step, over the spec the reconciler holds     *)
(* when it gets there.                                                     *)
(***************************************************************************)
Taken(step, spec) ==
  CASE step \in {"ServiceAccount", "Role", "RoleBinding", "RBACReady"} ->
         ~ spec.serviceAccountName
    [] step = "ConfigMap" -> ~ spec.configFrom
    [] step = "ExternalConfigMap" -> spec.configFrom
    [] step \in {"LeaderStatefulSet", "ReadService"} -> Replicated(spec)
    [] step = "FollowerStatefulSet" ->
         Replicated(spec) /\ spec.readReplicas > 0
    [] step = "PruneFollower" -> Replicated(spec) /\ spec.readReplicas = 0
    [] step = "StatefulSet" -> ~ Replicated(spec)
    [] step = "NetworkPolicyReady" -> "NetworkPolicy" \in spec.enabled
    [] step = "ServiceMonitorReady" -> "ServiceMonitor" \in spec.enabled
    [] step \in Optional -> step \in spec.enabled
    [] OTHER -> TRUE

(***************************************************************************)
(* The first step that is taken strictly after position i.                 *)
(***************************************************************************)
TakenAfter(i, spec) ==
  Order[CHOOSE j \in i + 1 .. Len(Order) :
          /\ Taken(Order[j], spec)
          /\ \A m \in i + 1 .. j - 1 : ~ Taken(Order[m], spec)]

FirstStep(spec) == TakenAfter(0, spec)

NextStep(step, spec) ==
  TakenAfter(CHOOSE i \in 1 .. Len(Order) : Order[i] = step, spec)

(***************************************************************************)
(* The children one pass over this spec creates or updates, and the        *)
(* StatefulSet whose readiness decides the phase.                          *)
(***************************************************************************)
Wanted(spec) == {k \in Child : Taken(k, spec)}

primaryStatefulSet(spec) ==
  IF Replicated(spec) THEN "LeaderStatefulSet" ELSE "StatefulSet"

desiredReplicas(spec) == IF Replicated(spec) THEN 1 ELSE spec.replicas

-----------------------------------------------------------------------------
(***************************************************************************)
(* Stored children.  owner is the uid in the controller reference;         *)
(* observed (status.observedGeneration has caught up with generation) and  *)
(* ready (status.readyReplicas) are the status of a StatefulSet and stay   *)
(* at TRUE and 0 for the other kinds.                                      *)
(***************************************************************************)
ObjectOf(k) ==
  [owner : Nat \ {0}, body : BodyOf(k), observed : BOOLEAN, ready : Nat]

ASSUME AbsenceAssumption == \A k \in Child : None \notin ObjectOf(k)

\* Defect: SetControllerReference forgotten.
UnownedObject(k, body, owner) ==
  [owner |-> 0, body |-> body, observed |-> k \notin StatefulSets, ready |-> 0]

NewObject(k, body, owner) ==
  [owner    |-> owner,
   body     |-> body,
   observed |-> k \notin StatefulSets,
   ready    |-> 0]

\* Defect: the config hash is not compared.
NeedsUpdateIgnoringHash(existing, desired) ==
  existing.replicas # desired.replicas \/ existing.image # desired.image

statefulSetNeedsUpdate(existing, desired) ==
  \/ existing.replicas # desired.replicas
  \/ existing.hash # desired.hash
  \/ existing.image # desired.image

(***************************************************************************)
(* Whether the helper for k sends an Update for what it read: ConfigMap,   *)
(* Role and RoleBinding compare, the StatefulSet compares three fields,    *)
(* the rest always write.                                                  *)
(***************************************************************************)
NeedsUpdate(k, existing, desired) ==
  CASE k \in StatefulSets -> statefulSetNeedsUpdate(existing, desired)
    [] k \in {"ConfigMap", "Role", "RoleBinding"} -> existing # desired
    [] OTHER -> TRUE

(***************************************************************************)
(* The object the helper sends: the existing one with the body replaced.   *)
(* A StatefulSet keeps its claim templates.  The owner reference built     *)
(* into desired reaches the server only for ServiceMonitor, which is sent  *)
(* whole.                                                                  *)
(***************************************************************************)
UpdatedBody(k, existing, desired) ==
  IF k \in StatefulSets
    THEN [desired EXCEPT !.claimTemplate = existing.claimTemplate]
    ELSE desired

UpdatedObject(k, existing, desired, owner) ==
  LET body == UpdatedBody(k, existing.body, desired) IN
  [existing EXCEPT
     !.owner = IF k = "ServiceMonitor" THEN owner ELSE @,
     !.body = body,
     !.observed = @ /\ (k \in StatefulSets => existing.body = body)]
=============================================================================
