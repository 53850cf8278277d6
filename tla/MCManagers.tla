---------------------------- MODULE MCManagers ------------------------------
(***************************************************************************)
(* Two managers and a TlnDB that is created suspended, then resumed or     *)
(* deleted.                                                                *)
(***************************************************************************)
EXTENDS MCController, TlnDBManagers

SuspendEdits == {Small, [Small EXCEPT !.replicas = 0]}

\* The bound on creation: only the edit brings replicas.
CreatedSuspended == cr # None /\ cr.generation = 1 => cr.spec.replicas = 0
=============================================================================
