---------------------------- MODULE TlnDBClaims -----------------------------
(***************************************************************************)
(* Statements the repository's comments and documentation make about the   *)
(* operator, each of which TlnDBController shows to fail.                  *)
(***************************************************************************)
EXTENDS TlnDBCorrect

(***************************************************************************)
(* tlndb_types.go, ReadReplicas: "0 runs a leader only".  So no step of    *)
(* the operator may change the number a user asked for.                    *)
(***************************************************************************)
OperatorKeepsReadReplicas ==
  [][cr # None /\ cr' # None /\ pc' # pc =>
       cr'.spec.readReplicas = cr.spec.readReplicas]_vars

(***************************************************************************)
(* tlndb_types.go, Mode: "standalone" (default) runs a single StatefulSet. *)
(***************************************************************************)
StandaloneIsSingle ==
  Quiet /\ cr # None /\ ~ Replicated(cr.spec) =>
    obj["LeaderStatefulSet"] = None /\ obj["FollowerStatefulSet"] = None

(***************************************************************************)
(* tlndb_types.go: OplogRetention bounds the leader's op-log, Env injects  *)
(* environment variables into the container, and so on for every field     *)
(* that reaches the pod template: once the operator rests, the template is *)
(* the one the spec asks for.                                              *)
(***************************************************************************)
TemplateApplied ==
  Quiet /\ cr # None =>
    LET k == primaryStatefulSet(cr.spec) IN
    obj[k].body.template = Build(k, cr.spec, obj[k].body.hash).template

(***************************************************************************)
(* statefulset.go, buildVolumes: when using VolumeClaimTemplates the       *)
(* StatefulSet supplies the data volume, so every template has one.        *)
(***************************************************************************)
DataVolumeDefined ==
  \A k \in StatefulSets : obj[k] # None => HasData(obj[k].body)
=============================================================================
