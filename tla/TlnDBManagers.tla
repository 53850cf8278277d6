--------------------------- MODULE TlnDBManagers ----------------------------
(***************************************************************************)
(* A change of leader between two managers (cmd/main.go, --leader-elect).  *)
(*                                                                         *)
(* The first manager is the one of TlnDBController.  It stands by until it *)
(* is elected.  The second is the same program with caches, a queue and a  *)
(* call of its own: it leads at first, its lease runs out in the middle of *)
(* a call (a pause, a partition), and it goes on with that call until it   *)
(* ends or the process notices and exits.  Nothing in the reconciler knows *)
(* of the other manager.  The server, the users, the rest of the cluster   *)
(* and the bounds are shared.                                              *)
(*                                                                         *)
(* Caches do not lag here; what ages is the copy a running call works on.  *)
(***************************************************************************)
EXTENDS TlnDBCorrect

VARIABLES
  elected,                                   \* the first manager leads
  ccr2, crFresh2, cobj2, fresh2, cext2,      \* the second manager's caches
  queued2, timer2,                           \* its queue
  pc2, inst2, instFresh2, hash2, managed2    \* its running call

Second ==
  INSTANCE TlnDBCorrect WITH
    ccr <- ccr2, crFresh <- crFresh2, cobj <- cobj2, fresh <- fresh2,
    cext <- cext2, queued <- queued2, timer <- timer2, pc <- pc2,
    inst <- inst2, instFresh <- instFresh2, hash <- hash2, managed <- managed2

caches == <<ccr, crFresh, cobj, fresh, cext>>
secondCaches == <<ccr2, crFresh2, cobj2, fresh2, cext2>>
secondCall == <<pc2, inst2, instFresh2, hash2, managed2>>
allVars == <<vars, elected, secondCaches, queued2, timer2, secondCall>>

InitManagers == Init /\ Second!Init /\ elected = FALSE

-----------------------------------------------------------------------------
(***************************************************************************)
(* What a step of one manager, of a user or of the cluster means to a      *)
(* manager that does not take it: its caches follow, and the copy its call *)
(* holds may have become old.  Only the controller of the leader handles   *)
(* the event.                                                              *)
(***************************************************************************)
Event == cr' # cr \/ \E k \in Watched : obj'[k] # obj[k]

Follows(tlndb, children, callFresh) ==
  /\ tlndb' = cr'
  /\ children' = [k \in Watched |-> obj'[k]]
  /\ callFresh' = (callFresh /\ cr' = cr)

FirstFollows ==
  /\ Follows(ccr, cobj, instFresh)
  /\ queued' = (queued \/ (elected /\ Event))
  /\ UNCHANGED <<crFresh, fresh, cext, timer, pc, inst, hash, managed>>

SecondFollows ==
  /\ Follows(ccr2, cobj2, instFresh2)
  /\ queued2' = (queued2 \/ (~ elected /\ Event))
  /\ UNCHANGED <<crFresh2, fresh2, cext2, timer2, pc2, inst2, hash2, managed2>>

(***************************************************************************)
(* The lease passes.  The new leader's controller starts on caches that    *)
(* were kept up while it stood by, and queues every TlnDB it finds; the    *)
(* old leader takes no more keys.                                          *)
(***************************************************************************)
\* Defect: the new leader waits for the next event.
HandoverSilently ==
  /\ ~ elected /\ elected' = TRUE
  /\ queued2' = FALSE /\ timer2' = FALSE
  /\ UNCHANGED <<server, caches, queue, pc, locals, uids, edits, faults, now,
                 secondCaches, secondCall>>

Handover ==
  /\ ~ elected /\ elected' = TRUE
  /\ queued' = (ccr # None)
  /\ queued2' = FALSE /\ timer2' = FALSE
  /\ UNCHANGED <<server, caches, timer, pc, locals, uids, edits, faults, now,
                 secondCaches, secondCall>>

(***************************************************************************)
(* The old leader finds its lease gone and exits, whatever it was doing.   *)
(***************************************************************************)
Exit ==
  /\ elected /\ pc2 # "idle"
  /\ pc2' = "idle" /\ inst2' = None /\ instFresh2' = FALSE
  /\ hash2' = None /\ managed2' = {}
  /\ UNCHANGED <<vars, elected, secondCaches, queued2, timer2>>

(***************************************************************************)
(* Before the handover the second manager leads, and what users and the    *)
(* rest of the cluster do reaches its queue; afterwards the first, while   *)
(* the second ends the call it is in.                                      *)
(***************************************************************************)
SecondLeads ==
  \/ Second!Operator \/ Second!TimerFires
  \/ \E k \in StatefulSets : Second!StsObserve(k) \/ Second!PodReady(k)
  \/ \E k \in Child : Second!CollectGarbage(k)
  \/ Second!UserCreate \/ Second!UserEdit \/ Second!UserDelete

FirstLeads ==
  \/ Operator \/ TimerFires
  \/ \E k \in StatefulSets : StsObserve(k) \/ PodReady(k)
  \/ \E k \in Child : CollectGarbage(k)
  \/ UserCreate \/ UserEdit \/ UserDelete

SecondFinishes == pc2 # "idle" /\ Second!Operator

NextManagers ==
  \/ Handover \/ Exit
  \/ ~ elected /\ SecondLeads /\ FirstFollows /\ UNCHANGED elected
  \/ elected /\ FirstLeads /\ SecondFollows /\ UNCHANGED elected
  \/ elected /\ SecondFinishes /\ FirstFollows /\ UNCHANGED elected

SpecManagers == InitManagers /\ [][NextManagers]_allVars

-----------------------------------------------------------------------------
(***************************************************************************)
(* When the new leader rests, children and status are those of the stored  *)
(* spec, even while the old one's call goes on: two calls that interleave  *)
(* their writes and patches, one of them on an older spec, leave nothing   *)
(* half done, and a TlnDB that was deleted meanwhile is let go.            *)
(***************************************************************************)
HandoverSettles ==
  elected /\ Quiet /\ cr # None => ChildrenSettled /\ StatusSettled
=============================================================================
