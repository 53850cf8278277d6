------------------------------ MODULE MCMonitor -------------------------------
(***************************************************************************)
(* The instance of TlnDBMonitor for TLC: a ServiceMonitor, and the history *)
(* variable that tells when it was deleted by hand.                        *)
(***************************************************************************)
EXTENDS MCController, TlnDBMonitor

(***************************************************************************)
(* Children of every kind but Ingress switched on or off, and the mode     *)
(* with them.                                                              *)
(***************************************************************************)
SwitchEdits ==
  {[SmallReplicated EXCEPT !.enabled = {"NetworkPolicy", "PodDisruptionBudget",
                                        "HorizontalPodAutoscaler"}],
   [Small EXCEPT !.serviceAccountName = FALSE, !.options = o2,
                 !.enabled = {"ServiceMonitor"}]}
=============================================================================
