---------------------------- MODULE TlnDBMonitor ----------------------------
(***************************************************************************)
(* The ServiceMonitor, the one child nothing watches, and what the status  *)
(* says of it.                                                             *)
(*                                                                         *)
(* Somebody may delete it by hand.  The operator does not hear of that, so *)
(* until the next call the status is wrong.  A history variable, gone,     *)
(* remembers it: the ServiceMonitor of the stored TlnDB was deleted since  *)
(* the last call began.                                                    *)
(***************************************************************************)
EXTENDS TlnDBCorrect

VARIABLE gone

monitored == <<vars, gone>>

(***************************************************************************)
(* The garbage collector does not come in here: it takes only what does    *)
(* not belong to the stored TlnDB.                                         *)
(***************************************************************************)
DeletedByHand ==
  /\ cr # None /\ obj["ServiceMonitor"] # None
  /\ obj["ServiceMonitor"].owner = cr.uid
  /\ obj'["ServiceMonitor"] = None

CallBegins == pc = "idle" /\ pc' # "idle"

Remembers == gone' = (DeletedByHand \/ (gone /\ ~ CallBegins))

InitMonitored == Init /\ gone = FALSE

SpecMonitored == InitMonitored /\ [][Next /\ Remembers]_monitored

-----------------------------------------------------------------------------
(***************************************************************************)
(* When the operator rests, a ServiceMonitor listed in managedResources is *)
(* asked for, belongs to this TlnDB and is current, whatever failed on the *)
(* way; and if it is not there at all, somebody has deleted it since the   *)
(* last call.                                                              *)
(***************************************************************************)
MonitorListed ==
  LET monitor == obj["ServiceMonitor"] IN
  "ServiceMonitor" \in cr.status.managedResources =>
    /\ "ServiceMonitor" \in cr.spec.enabled
    /\ IF monitor = None
         THEN gone
         ELSE /\ monitor.owner = cr.uid
              /\ monitor.body = BuildServiceMonitor(cr.spec)

QuiescentMonitorListed == Quiet /\ cr # None => MonitorListed

(***************************************************************************)
(* The errors of a ServiceMonitor do not fail the call, and those of the   *)
(* patch that records its condition are dropped.  Still, when the operator *)
(* rests and nobody deleted the ServiceMonitor since the last call, the    *)
(* condition and managedResources agree with whether it is there: also     *)
(* after an earlier deletion, which the next call makes good.  Two         *)
(* failures in a row can leave the condition wrong until the next call; so *)
(* only up to one.                                                         *)
(***************************************************************************)
QuiescentServiceMonitor ==
  /\ Quiet /\ cr # None /\ ~ gone
  /\ "ServiceMonitor" \in cr.spec.enabled /\ faults <= 1
  => LET present == obj["ServiceMonitor"] # None IN
     /\ cr.status.conditions["ServiceMonitorReady"].status =
          (IF present THEN "True" ELSE "False")
     /\ ("ServiceMonitor" \in cr.status.managedResources) = present
=============================================================================
