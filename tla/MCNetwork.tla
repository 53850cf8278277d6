----------------------------- MODULE MCNetwork ------------------------------
(***************************************************************************)
(* TlnDBs for TLC: a and two that clash with it, in the StatefulSets       *)
(* (a-follower) and in the Services (a-read), but not with each other.     *)
(***************************************************************************)
EXTENDS TlnDBNetwork, TLC

CONSTANTS i1, p1, o1

a == <<"a">>
aFollower == <<"a", "follower">>
aRead == <<"a", "read">>

MCNames == {a, aFollower, aRead}

MCNumber ==
  "" :> None @@ "[" :> None @@ "1]" :> None @@
  "8080" :> 8080 @@ "9899" :> 9899 @@ "65535" :> 65535 @@ "65536" :> 65536

(***************************************************************************)
(* Listen addresses: none, an IPv6 one with the largest port, one with a   *)
(* number that is no port.                                                 *)
(***************************************************************************)
Default == <<"">>
Largest == <<"[", "", "", "1]", "65535">>
TooLarge == <<"", "65536">>

Written ==
  {[tcp |-> Default, http |-> Largest], [tcp |-> Largest, http |-> TooLarge]}

MCConfigs == Written \cup {renderConfigYAML(c) : c \in Written}

MCDigest == [c \in MCConfigs |-> c]

MCImages == {i1}
MCPods == {p1}
MCOptions == {o1}
MCEgress == o1 :> {}

Base ==
  [mode |-> "standalone", replicas |-> 1, readReplicas |-> 1, image |-> i1,
   config |-> [tcp |-> Default, http |-> Largest], configFrom |-> FALSE,
   serviceAccountName |-> TRUE, pod |-> p1, options |-> o1,
   storage |-> "claimTemplate", enabled |-> {}]

MCSpecs ==
  {Base,
   [Base EXCEPT !.mode = "replicated", !.readReplicas = 0],
   [Base EXCEPT !.mode = "replicated", !.enabled = {"NetworkPolicy"},
                !.config = [tcp |-> Largest, http |-> TooLarge]]}
=============================================================================
