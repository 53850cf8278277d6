---------------------------- MODULE MCController ----------------------------
(***************************************************************************)
(* Instances of TlnDBController for TLC: the specs users apply in each     *)
(* run.                                                                    *)
(***************************************************************************)
EXTENDS TlnDBClaims, TLC

CONSTANTS i1, i2, c1, c2, p1, p2, o1, o2

MCImages == {i1, i2}
MCConfigs == {c1, c2}
MCPods == {p1, p2}
MCOptions == {o1, o2}
MCDigest == [c \in MCConfigs |-> c]
SwapConfigs == Permutations(MCConfigs)

(***************************************************************************)
(* The smallest instance: standalone, supplied ServiceAccount, rendered    *)
(* config.  Its children are ConfigMap, HeadlessService, StatefulSet and   *)
(* Service.                                                                *)
(***************************************************************************)
Small ==
  [mode |-> "standalone", replicas |-> 1, readReplicas |-> 1, image |-> i1,
   config |-> c1, configFrom |-> FALSE, serviceAccountName |-> TRUE,
   pod |-> p1, options |-> o1, storage |-> "claimTemplate", enabled |-> {}]

SmallReplicated == [Small EXCEPT !.mode = "replicated"]

ConfigEdits == {Small, [Small EXCEPT !.config = c2]}

(***************************************************************************)
(* Followers come and go, with a PodDisruptionBudget beside them.          *)
(***************************************************************************)
FollowerEdits ==
  {[SmallReplicated EXCEPT !.readReplicas = 0,
                           !.enabled = {"PodDisruptionBudget"}],
   [SmallReplicated EXCEPT !.config = c2, !.image = i2, !.options = o2,
                           !.enabled = {"PodDisruptionBudget"}]}

PodEdits == {Small, [Small EXCEPT !.pod = p2]}

NoFollowers == {[SmallReplicated EXCEPT !.readReplicas = 0]}

ModeEdits == {Small, SmallReplicated}

StorageEdits ==
  {[Small EXCEPT !.storage = "emptyDir"], [Small EXCEPT !.image = i2]}

(***************************************************************************)
(* The configuration in a ConfigMap of its own, which may be missing, come *)
(* later or vanish; a ServiceMonitor whose CRD is missing; an autoscaler.  *)
(***************************************************************************)
ExternalConfig ==
  {[Small EXCEPT !.configFrom = TRUE,
                 !.enabled = {"ServiceMonitor", "Ingress",
                              "HorizontalPodAutoscaler"}]}
=============================================================================
