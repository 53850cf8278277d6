--------------------------- MODULE TlnDBContract ----------------------------
(***************************************************************************)
(* What the operator promises about one TlnDB name, without caches, calls  *)
(* or requests: a TlnDB is created by a user, claimed by the operator,     *)
(* deleted by a user and let go by the operator, and each child belongs to *)
(* one of the TlnDBs that have had the name.                               *)
(***************************************************************************)
EXTENDS Naturals

CONSTANT Child

VARIABLES
  stage,    \* where the TlnDB that has the name is in its life
  uid,      \* the number of TlnDBs that have had the name so far
  owner     \* the TlnDB each child belongs to, 0 where there is no child

vars == <<stage, uid, owner>>

Stages == {"absent", "unclaimed", "claimed", "terminating"}

TypeOK ==
  /\ stage \in Stages
  /\ uid \in Nat
  /\ owner \in [Child -> Nat]

Init ==
  /\ stage = "absent" /\ uid = 0
  /\ owner = [k \in Child |-> 0]

(***************************************************************************)
(* Users create a TlnDB and delete it; one that is not claimed yet is gone *)
(* at once.                                                                *)
(***************************************************************************)
Create ==
  /\ stage = "absent"
  /\ stage' = "unclaimed" /\ uid' = uid + 1
  /\ UNCHANGED owner

Delete ==
  /\ \/ stage = "unclaimed" /\ stage' = "absent"
     \/ stage = "claimed" /\ stage' = "terminating"
  /\ UNCHANGED <<uid, owner>>

(***************************************************************************)
(* The operator claims a TlnDB that nobody has deleted, and lets a deleted *)
(* one go.  There is no way back from terminating.                         *)
(***************************************************************************)
Claim ==
  /\ stage = "unclaimed" /\ stage' = "claimed"
  /\ UNCHANGED <<uid, owner>>

Release ==
  /\ stage = "terminating" /\ stage' = "absent"
  /\ UNCHANGED <<uid, owner>>

(***************************************************************************)
(* Children are made, or taken over from an earlier TlnDB, only for one    *)
(* that is claimed and has not been let go.  They disappear one at a time. *)
(***************************************************************************)
Provide(k) ==
  /\ stage \in {"claimed", "terminating"}
  /\ owner' = [owner EXCEPT ![k] = uid]
  /\ UNCHANGED <<stage, uid>>

Remove(k) ==
  /\ owner' = [owner EXCEPT ![k] = 0]
  /\ UNCHANGED <<stage, uid>>

Next ==
  \/ Create \/ Delete \/ Claim \/ Release
  \/ \E k \in Child : Provide(k) \/ Remove(k)

Spec == Init /\ [][Next]_vars

(***************************************************************************)
(* A deleted TlnDB is let go, and what belonged to it goes too.            *)
(***************************************************************************)
Abandoned(k) == owner[k] # 0 /\ (stage = "absent" \/ owner[k] # uid)

FairSpec ==
  /\ Spec
  /\ WF_vars(Release)
  /\ \A k \in Child : WF_vars(Abandoned(k) /\ Remove(k))
=============================================================================
