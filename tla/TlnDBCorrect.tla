---------------------------- MODULE TlnDBCorrect ----------------------------
(***************************************************************************)
(* What makes the reconciler of TlnDBController correct.                   *)
(***************************************************************************)
EXTENDS TlnDBController

(***************************************************************************)
(* Types.  Every variable holds values the program can hold there; in      *)
(* particular a call that is past its Get always holds a TlnDB.            *)
(***************************************************************************)
TlnDBTypes ==
  cr \in TlnDB \cup {None} /\ ccr \in TlnDB \cup {None} /\ crFresh \in BOOLEAN

ChildTypes ==
  /\ obj = [k \in Child |-> obj[k]]
  /\ \A k \in Child : obj[k] \in ObjectOf(k) \cup {None}
  /\ cobj = [k \in Watched |-> cobj[k]]
  /\ \A k \in Watched : cobj[k] \in ObjectOf(k) \cup {None}
  /\ fresh \in [Watched -> BOOLEAN]

CallTypes ==
  /\ pc \in PC
  /\ inst \in (IF pc = "idle" THEN {None} ELSE TlnDB)
  /\ instFresh \in BOOLEAN
  /\ hash \in Hashes \cup {None} /\ managed \in SUBSET Child

OtherTypes ==
  /\ ext \in Configs \cup {None} /\ cext \in Configs \cup {None}
  /\ queued \in BOOLEAN /\ timer \in BOOLEAN
  /\ {uids, edits, faults, now} \subseteq Nat

TypeOK == TlnDBTypes /\ ChildTypes /\ CallTypes /\ OtherTypes

-----------------------------------------------------------------------------
(***************************************************************************)
(* Quiet: no event, timer or call is outstanding, so the operator does     *)
(* nothing more until a user or a failure disturbs it.                     *)
(***************************************************************************)
Quiet ==
  /\ pc = "idle" /\ ~ queued /\ ~ timer
  /\ crFresh /\ (\A k \in Watched : fresh[k]) /\ cext = ext
  /\ \A k \in Child : ~ Orphan(k)
  /\ \A k \in StatefulSets : obj[k] # None => obj[k].observed

(***************************************************************************)
(* The configurations the pods may be meant to run with.  The external     *)
(* ConfigMap is not watched: an edit of it reaches the pods with the next  *)
(* call, so until then they run with a content it has had.                 *)
(***************************************************************************)
Contents == IF cr.spec.configFrom THEN ExtVersions ELSE {cr.spec.config}

(***************************************************************************)
(* A child that reflects the stored spec.  Of a StatefulSet these are the  *)
(* parts statefulSetNeedsUpdate calls operator-managed; the other bodies   *)
(* do not depend on the hash.                                              *)
(***************************************************************************)
Reflects(k) ==
  LET desired == Build(k, cr.spec, None)
      body == obj[k].body
  IN IF k \in StatefulSets
       THEN /\ body.replicas = desired.replicas
            /\ body.image = desired.image
            /\ \E content \in Contents : body.hash = HashStringData(content)
       ELSE body = desired

ChildrenSettled ==
  /\ \A k \in Wanted(cr.spec) \cap Watched :
       obj[k] # None /\ obj[k].owner = cr.uid /\ Reflects(k)
  /\ Taken("PruneFollower", cr.spec) => obj["FollowerStatefulSet"] = None

(***************************************************************************)
(* When the operator rests, every watched child the spec asks for exists,  *)
(* belongs to this TlnDB (not to a deleted one of the same name) and       *)
(* reflects the spec, and no follower set is left when none is wanted.     *)
(* Stale caches, conflicts (those of the PDB and the HPA are dropped),     *)
(* AlreadyExists and failures on the way must all lead to another call.    *)
(***************************************************************************)
QuiescentChildren == Quiet /\ cr # None => ChildrenSettled

(***************************************************************************)
(* When the operator rests, the status tells the truth: the finalizer is   *)
(* held, the phase is Running with the StatefulSet's ready count behind    *)
(* it, and observedGeneration, image and managedResources are those of the *)
(* stored spec.  The status is merge-patched against copies that may be    *)
(* stale, and half of the patches may fail silently.                       *)
(***************************************************************************)
StatusSettled ==
  LET primary == obj[primaryStatefulSet(cr.spec)] IN
  /\ cr.finalizer /\ ~ cr.deleting
  /\ cr.status.phase = "Running"
  /\ cr.status.readyReplicas = primary.ready
  /\ primary.ready >= desiredReplicas(cr.spec)
  /\ cr.status.observedGeneration = cr.generation
  /\ cr.status.currentImage = cr.spec.image
  /\ cr.status.managedResources \cap Watched = Wanted(cr.spec) \cap Watched

QuiescentStatus == Quiet /\ cr # None => StatusSettled

(***************************************************************************)
(* Where the cluster has no ServiceMonitor CRD, writing the one that is    *)
(* asked for fails in every call.  That neither fails the call nor goes    *)
(* untold: when the operator rests, the condition is False and             *)
(* managedResources leaves the ServiceMonitor out, also where one failure, *)
(* perhaps of the condition's own patch, came in between.                  *)
(***************************************************************************)
QuiescentWithoutCRD ==
  /\ Quiet /\ cr # None /\ ~ MonitoringInstalled
  /\ "ServiceMonitor" \in cr.spec.enabled /\ faults <= 1
  => /\ cr.status.conditions["ServiceMonitorReady"].status = "False"
     /\ "ServiceMonitor" \notin cr.status.managedResources

(***************************************************************************)
(* A child is only created for a TlnDB that is stored and holds the        *)
(* finalizer at that moment, with its uid as owner.  Otherwise it would    *)
(* outlive its TlnDB, or a reconcile working on a cached TlnDB that is     *)
(* gone would bring back what the garbage collector removes.               *)
(***************************************************************************)
CreatedForLiveOwner ==
  \A k \in Child :
    obj[k] = None /\ obj'[k] # None =>
      cr # None /\ cr.finalizer /\ obj'[k].owner = cr.uid

OwnedCreation == [][CreatedForLiveOwner]_vars

(***************************************************************************)
(* Why that holds: whoever works on resources holds a claim.  Live(x) is a *)
(* copy of the TlnDB on which Reconcile would work on resources.           *)
(***************************************************************************)
Live(x) == x # None /\ x.finalizer /\ ~ x.deleting

\* A cached copy with the server's resourceVersion is the stored TlnDB.
CacheCurrent ==
  /\ crFresh => ccr = cr
  /\ "TlnDB" \notin Lagging => crFresh

\* However old, a live cached copy is of the TlnDB that is stored and that
\* still holds the finalizer; a terminating one shows that none is live.
CacheClaims ==
  /\ Live(ccr) => cr # None /\ cr.finalizer /\ cr.uid = ccr.uid
  /\ ccr # None /\ ccr.deleting => ~ Live(cr)

\* A call that adds the finalizer: what it would replace is what it holds.
UpdateClaim ==
  pc = "AddFinalizer" => ~ inst.deleting /\ (instFresh => crFresh /\ cr = inst)

\* A call that removes the finalizer, or works on resources.
CallClaims ==
  /\ pc \in DeletionSteps => ~ Live(cr) /\ ~ Live(ccr)
  /\ pc \in ResourceSteps => cr # None /\ cr.finalizer /\ cr.uid = inst.uid

(***************************************************************************)
(* The stored TlnDB, the cached copy and the copy a call works with agree  *)
(* on who owns the children, through deletion and re-creation under the    *)
(* same name.                                                              *)
(***************************************************************************)
OwnershipInv == CacheCurrent /\ UpdateClaim /\ CacheClaims /\ CallClaims

(***************************************************************************)
(* status.observedGeneration of one TlnDB does not go back, although each  *)
(* call starts from a cached copy that may be older than what an earlier   *)
(* call already recorded: the answers to its status patches bring the copy *)
(* up to date.  Where those patches fail, whose errors are dropped, an     *)
(* older generation can be recorded for a while; so only as long as no     *)
(* request has failed.                                                     *)
(***************************************************************************)
ObservedGenerationGrows ==
  faults = 0 /\ cr # None /\ cr' # None /\ cr'.uid = cr.uid =>
    cr'.status.observedGeneration >= cr.status.observedGeneration

ObservedGenerationMonotone == [][ObservedGenerationGrows]_vars

-----------------------------------------------------------------------------
(***************************************************************************)
(* The TlnDB and its children have settled, or, when the TlnDB was         *)
(* deleted, nothing of it remains.                                         *)
(***************************************************************************)
Settled ==
  IF cr = None THEN \A k \in Child : obj[k] = None
               ELSE ChildrenSettled /\ StatusSettled

(***************************************************************************)
(* Once users and failures stop, everything settles.  The external         *)
(* ConfigMap is not watched; still, a TlnDB created before it settles once *)
(* the ConfigMap is there.                                                 *)
(***************************************************************************)
ConvergesOnceConfigured == <>[](ext # None) => <>[]Settled


-----------------------------------------------------------------------------
(***************************************************************************)
(* The contract this implements: the life of the stored TlnDB by its       *)
(* finalizer and deletionTimestamp, and the owner references of the        *)
(* children, whatever the caches and the running call hold.                *)
(***************************************************************************)
Stage ==
  CASE cr = None -> "absent"
    [] cr # None /\ cr.deleting -> "terminating"
    [] cr # None /\ ~ cr.deleting /\ cr.finalizer -> "claimed"
    [] OTHER -> "unclaimed"

Owners == [k \in Child |-> IF obj[k] = None THEN 0 ELSE obj[k].owner]

Contract ==
  INSTANCE TlnDBContract WITH stage <- Stage, uid <- uids, owner <- Owners

(***************************************************************************)
(* Every step is a step of the contract or invisible to it: a finalizer is *)
(* added once and removed once, no patch of a stale call brings a          *)
(* terminating TlnDB back, and no child is made for, or handed to, a TlnDB *)
(* that is not the stored and claimed one.                                 *)
(***************************************************************************)
ImplementsContract == Contract!Spec

(***************************************************************************)
(* With fairness as well: a terminating TlnDB is let go, even when a patch *)
(* fails or the operator crashes in between, and what belonged to it       *)
(* disappears.                                                             *)
(***************************************************************************)
FulfilsContract == Contract!FairSpec
=============================================================================
