------------------------------ MODULE TlnDBApi ------------------------------
(***************************************************************************)
(* The TlnDB custom resource (api/v1alpha1/tlndb_types.go) and what the    *)
(* Kubernetes client does to it when the operator writes it.               *)
(*                                                                         *)
(* Field contents are abstracted to what the reconciler tells apart:       *)
(*   config   the whole of spec.config and the metrics settings, i.e.      *)
(*            everything that reaches the rendered config.yaml and the     *)
(*            port numbers;                                                *)
(*   pod      everything else that only reaches the pod template (env,     *)
(*            envFrom, resources, replication.oplogRetention, health, ...);*)
(*   options  the contents of the blocks that only reach Services and      *)
(*            optional children (networking, availability, serviceMonitor).*)
(* The two Booleans say that the optional reference is set.                *)
(***************************************************************************)
EXTENDS Naturals

CONSTANTS
  Images,     \* image references (resources.ImageRef)
  Configs,    \* contents of a config.yaml
  Pods,       \* values of the remaining pod-template fields
  Options,    \* values of the networking, availability, ... blocks
  None        \* "absent": a nil pointer, a missing object

Optional == {"Ingress", "NetworkPolicy", "ServiceMonitor",
             "PodDisruptionBudget", "HorizontalPodAutoscaler"}

TlnDBSpec ==
  [mode               : {"standalone", "replicated"},
   replicas           : Nat,
   readReplicas       : Nat,
   image              : Images,
   config             : Configs,
   configFrom         : BOOLEAN,
   serviceAccountName : BOOLEAN,
   pod                : Pods,
   options            : Options,
   storage            : {"claimTemplate", "existingClaim", "emptyDir"},
   enabled            : SUBSET Optional]

Phases == {"", "Provisioning", "Running", "Degraded", "Failed", "Terminating"}

ConditionTypes == {"StatefulSetReady", "ConfigMapReady", "ServiceReady",
                   "RBACReady", "NetworkPolicyReady", "ServiceMonitorReady"}

(***************************************************************************)
(* metav1.Condition without its wording; status "" stands for a condition  *)
(* that is not in the list.                                                *)
(***************************************************************************)
Condition == [status : {"", "True", "False"}, observedGeneration : Nat]

(***************************************************************************)
(* The objects the operator manages for one TlnDB, by the role they play;  *)
(* Service is the client-facing (standalone) or write (replicated) one.    *)
(***************************************************************************)
StatefulSets == {"StatefulSet", "LeaderStatefulSet", "FollowerStatefulSet"}

Services == {"HeadlessService", "Service", "ReadService"}

Child == {"ServiceAccount", "Role", "RoleBinding", "ConfigMap"}
           \cup Services \cup StatefulSets \cup Optional

TlnDBStatus ==
  [phase              : Phases,
   conditions         : [ConditionTypes -> Condition],
   observedGeneration : Nat,
   readyReplicas      : Nat,
   currentImage       : Images \cup {None},
   managedResources   : SUBSET Child,
   lastUpdateTime     : Nat]

(***************************************************************************)
(* One stored TlnDB.  finalizer says that db.tlndb.io/finalizer is on the  *)
(* object, deleting that its deletionTimestamp is set.                     *)
(***************************************************************************)
TlnDB ==
  [uid        : Nat \ {0},
   generation : Nat,
   spec       : TlnDBSpec,
   deleting   : BOOLEAN,
   finalizer  : BOOLEAN,
   status     : TlnDBStatus]

EmptyStatus ==
  [phase              |-> "",
   conditions         |-> [c \in ConditionTypes |->
                            [status |-> "", observedGeneration |-> 0]],
   observedGeneration |-> 0,
   readyReplicas      |-> 0,
   currentImage       |-> None,
   managedResources   |-> {},
   lastUpdateTime     |-> 0]

Replicated(spec) == spec.mode = "replicated"

-----------------------------------------------------------------------------
(***************************************************************************)
(* A full Update sends the Go struct.  readReplicas is an int32 with       *)
(* omitempty, so a zero is left out of the request and the CRD's default   *)
(* of 1 is what the server stores.                                         *)
(***************************************************************************)
StoredByUpdate(spec) ==
  [spec EXCEPT !.readReplicas = IF @ = 0 THEN 1 ELSE @]

(***************************************************************************)
(* client.MergeFrom: the request carries only the fields in which the      *)
(* modified copy differs from the copy it was made from; the server keeps  *)
(* its own value of every other field.  The list of conditions is replaced *)
(* as a whole.                                                             *)
(***************************************************************************)
Changed(base, new, server) == IF new # base THEN new ELSE server

MergePatch(server, base, new) ==
  [phase |-> Changed(base.phase, new.phase, server.phase),
   conditions |->
     Changed(base.conditions, new.conditions, server.conditions),
   observedGeneration |->
     Changed(base.observedGeneration, new.observedGeneration,
             server.observedGeneration),
   readyReplicas |->
     Changed(base.readyReplicas, new.readyReplicas, server.readyReplicas),
   currentImage |->
     Changed(base.currentImage, new.currentImage, server.currentImage),
   managedResources |->
     Changed(base.managedResources, new.managedResources,
             server.managedResources),
   lastUpdateTime |->
     Changed(base.lastUpdateTime, new.lastUpdateTime, server.lastUpdateTime)]

(***************************************************************************)
(* The response of a Patch is unmarshalled into the object the caller      *)
(* holds.  JSON leaves a Go field alone when the response omits it, so an  *)
(* absent (zero) server value keeps the local one.                         *)
(***************************************************************************)
Kept(zero, local, server) == IF server = zero THEN local ELSE server

DecodeInto(local, server) ==
  [uid        |-> server.uid,
   generation |-> server.generation,
   deleting   |-> local.deleting \/ server.deleting,
   finalizer  |-> local.finalizer \/ server.finalizer,
   spec       |-> [server.spec EXCEPT
                     !.configFrom = @ \/ local.spec.configFrom,
                     !.serviceAccountName = @ \/ local.spec.serviceAccountName],
   status     |->
     [phase |-> Kept("", local.status.phase, server.status.phase),
      conditions |->
        Kept(EmptyStatus.conditions, local.status.conditions,
             server.status.conditions),
      observedGeneration |->
        Kept(0, local.status.observedGeneration,
             server.status.observedGeneration),
      readyReplicas |->
        Kept(0, local.status.readyReplicas, server.status.readyReplicas),
      currentImage |->
        Kept(None, local.status.currentImage, server.status.currentImage),
      managedResources |->
        Kept({}, local.status.managedResources,
             server.status.managedResources),
      lastUpdateTime |->
        Kept(0, local.status.lastUpdateTime, server.status.lastUpdateTime)]]
=============================================================================
