---------------------------- MODULE TlnDBNetwork ----------------------------
(***************************************************************************)
(* Several TlnDBs in one namespace: the names their children get, the      *)
(* labels and selectors that tie Services to pods, the listen addresses    *)
(* and the ports derived from them.                                        *)
(*                                                                         *)
(* TlnDBController looks at one TlnDB and lets everything go wrong around  *)
(* it.  Here nothing fails and caches do not lag; the TlnDBs share the     *)
(* namespace and the operator's one worker.  A call takes one step per     *)
(* child; statuses and finalizers are left to TlnDBController.             *)
(*                                                                         *)
(* A name is the sequence of its segments between dashes, so "a-read" is   *)
(* <<"a", "read">> and adding a suffix is Append.  A listen address is the *)
(* sequence of its parts between colons: ":9899" is <<"", "9899">>, the    *)
(* empty string <<"">>.                                                    *)
(***************************************************************************)
EXTENDS TlnDBResources, Integers, FiniteSets

CONSTANTS
  Names,      \* names of TlnDBs in the namespace
  UserSpecs,  \* specs users may apply
  Number,     \* the integer each part of an address spells, None if none
  Egress,     \* ports that the egress rules in an options value allow
  MaxTlnDBs,  \* bound: TlnDBs that are created
  MaxEdits    \* bound: edits and deletions by users

Addresses == Seq(DOMAIN Number) \ {<<>>}

ASSUME NetworkAssumption ==
  /\ \A n \in Names : n \in Seq(STRING)
  /\ UserSpecs \subseteq {s \in TlnDBSpec : ~ s.configFrom}
  /\ Configs \subseteq [tcp : Addresses, http : Addresses]
  /\ \A part \in DOMAIN Number : Number[part] \in Int \cup {None}
  /\ Egress \in [Options -> SUBSET Nat]
  /\ {MaxTlnDBs, MaxEdits} \subseteq Nat

\* No two contents have the same SHA-256 digest.
ASSUME NoCollisions ==
  \A c, d \in Configs : HashStringData(c) = HashStringData(d) => c = d

VARIABLES
  spec,     \* the stored spec of each TlnDB, None where there is none
  gone,     \* names whose TlnDB was deleted
  stored,   \* the objects in the namespace, by kind and name
  queue,    \* names in the work queue or waiting to be retried
  call,     \* the running call of Reconcile, None when the worker is idle
  edits     \* bookkeeping of the bound

vars == <<spec, gone, stored, queue, call, edits>>

-----------------------------------------------------------------------------
(***************************************************************************)
(* Names of children.                                                      *)
(***************************************************************************)
Kind(k) ==
  CASE k \in StatefulSets -> "StatefulSet"
    [] k \in Services -> "Service"
    [] OTHER -> k

Suffix ==
  [LeaderStatefulSet   |-> "leader",
   FollowerStatefulSet |-> "follower",
   HeadlessService     |-> "headless",
   ReadService         |-> "read",
   ConfigMap           |-> "config"]

\* Defect: the base of the name is cut off at its first dash.
ResourceNameCut(k, n) ==
  IF k \in DOMAIN Suffix THEN <<n[1], Suffix[k]>> ELSE n

ResourceName(k, n) ==
  IF k \in DOMAIN Suffix THEN Append(n, Suffix[k]) ELSE n

Key(k, n) == <<Kind(k), ResourceName(k, n)>>

Keys == {Key(k, n) : k \in Child, n \in Names}

(***************************************************************************)
(* Two TlnDBs share a key when the name of one is the name of the other    *)
(* with a suffix.                                                          *)
(***************************************************************************)
Clash(m, n) ==
  \E k \in DOMAIN Suffix : m = Append(n, Suffix[k]) \/ n = Append(m, Suffix[k])

Created == gone \cup {n \in Names : spec[n] # None}

Apart(n) == \A m \in Created \ {n} : ~ Clash(m, n)

-----------------------------------------------------------------------------
(***************************************************************************)
(* Addresses.  strconv.ParseInt fails on what is no number of 32 bits; the *)
(* default also covers numbers that are no ports.                          *)
(***************************************************************************)
DefaultGRPCPort == 9899
DefaultHTTPPort == 8080
MaxPort == 65535

\* None is no number, and the defaults are spelled as in config.yaml.
ASSUME NumberAssumption ==
  /\ None \notin Int
  /\ "9899" \in DOMAIN Number => Number["9899"] = DefaultGRPCPort
  /\ "8080" \in DOMAIN Number => Number["8080"] = DefaultHTTPPort

\* Defect: strings.Index for strings.LastIndex.
PortAfterFirstColon(addr, def) ==
  IF Len(addr) = 1 THEN def
  ELSE LET p == Number[addr[2]] IN
       IF p = None THEN def
       ELSE IF p <= 0 \/ p > MaxPort THEN def ELSE p

PortFromAddr(addr, def) ==
  IF Len(addr) = 1 THEN def
  ELSE LET p == Number[addr[Len(addr)]] IN
       IF p = None THEN def
       ELSE IF p <= 0 \/ p > MaxPort THEN def ELSE p

Port(config, listener) ==
  IF listener = "tcp" THEN PortFromAddr(config.tcp, DefaultGRPCPort)
                      ELSE PortFromAddr(config.http, DefaultHTTPPort)

(***************************************************************************)
(* The rendered config.yaml: an empty address is replaced by the default.  *)
(***************************************************************************)
renderConfigYAML(config) ==
  [tcp  |-> IF config.tcp = <<"">> THEN <<"", "9899">> ELSE config.tcp,
   http |-> IF config.http = <<"">> THEN <<"", "8080">> ELSE config.http]

\* Every content with its defaults filled in is a content.
ASSUME RenderAssumption == \A c \in Configs : renderConfigYAML(c) \in Configs

(***************************************************************************)
(* An address a listener can be bound to and dialled at: host and port,    *)
(* the port written as a number.                                           *)
(***************************************************************************)
Usable(addr) ==
  Len(addr) > 1 /\ Number[addr[Len(addr)]] \in 1 .. MaxPort

-----------------------------------------------------------------------------
(***************************************************************************)
(* Objects and calls.  instance is the app.kubernetes.io/instance label in *)
(* selectors and templates; role the role label of an immutable selector,  *)
(* None where the selector has none.                                       *)
(***************************************************************************)
Object(k) ==
  [owner : Names, instance : Names, body : BodyOf(k),
   role  : {"leader", "follower", None}]

Call ==
  [name : Names, spec : TlnDBSpec, hash : Hashes \cup {None}, step : Steps]

ASSUME NothingAssumption ==
  /\ None \notin TlnDBSpec /\ None \notin Call
  /\ \A k \in Child : None \notin Object(k)

Desired(k, n) ==
  LET body == IF k = "ConfigMap" THEN renderConfigYAML(call.spec.config)
                                 ELSE Build(k, call.spec, call.hash)
  IN [owner |-> n, instance |-> n, body |-> body,
      role  |-> IF k \in StatefulSets \ {"StatefulSet"}
                  THEN body.template.role ELSE None]

(***************************************************************************)
(* What a helper leaves in place of what it finds.  It keeps owner and     *)
(* immutable fields; a StatefulSet whose new template does not match its   *)
(* selector is refused.                                                    *)
(***************************************************************************)
Merged(k, existing, desired) ==
  [desired EXCEPT
     !.owner = IF k = "ServiceMonitor" THEN @ ELSE existing.owner,
     !.role = existing.role,
     !.body = UpdatedBody(k, existing.body, @)]

Refused(k, existing, desired) ==
  /\ k \in StatefulSets
  /\ \/ existing.instance # desired.instance
     \/ existing.role \notin {None, desired.body.template.role}

-----------------------------------------------------------------------------
(***************************************************************************)
(* One step of a call.  A change queues the owner of the object.           *)
(***************************************************************************)
\* Defect: the event of a write is dropped.
PutSilently(key, new) ==
  stored' = [stored EXCEPT ![key] = new] /\ UNCHANGED queue

Put(key, new) ==
  /\ stored' = [stored EXCEPT ![key] = new]
  /\ queue' = IF new = stored[key] THEN queue
              ELSE queue \cup {IF new = None THEN stored[key].owner
                                             ELSE new.owner}

Fail ==
  /\ call' = None /\ queue' = queue \cup {call.name}
  /\ UNCHANGED stored

CreateOrUpdate(k) ==
  LET key == Key(k, call.name)
      existing == stored[key]
      desired == Desired(k, call.name)
      proceed ==
        call' = [call EXCEPT !.step = NextStep(k, call.spec),
                             !.hash = IF k = "ConfigMap"
                                        THEN HashStringData(desired.body) ELSE @]
  IN
  /\ call # None /\ call.step = k
  /\ \/ existing = None /\ Put(key, desired) /\ proceed
     \/ /\ existing # None /\ ~ NeedsUpdate(k, existing.body, desired.body)
        /\ UNCHANGED <<stored, queue>> /\ proceed
     \/ /\ existing # None /\ NeedsUpdate(k, existing.body, desired.body)
        /\ IF Refused(k, existing, desired)
             THEN Fail
             ELSE Put(key, Merged(k, existing, desired)) /\ proceed
  /\ UNCHANGED <<spec, gone, edits>>

(***************************************************************************)
(* deleteStatefulSetIfExists goes by the name alone.                       *)
(***************************************************************************)
PruneFollower ==
  LET key == Key("FollowerStatefulSet", call.name) IN
  /\ call # None /\ call.step = "PruneFollower"
  /\ Put(key, None)
  /\ call' = [call EXCEPT !.step = NextStep("PruneFollower", call.spec)]
  /\ UNCHANGED <<spec, gone, edits>>

(***************************************************************************)
(* setCondition: the call goes on with the spec in the server's answer,    *)
(* in which a reference that was removed meanwhile is still set.           *)
(***************************************************************************)
SetCondition ==
  LET decoded == [spec[call.name] EXCEPT
                    !.serviceAccountName = @ \/ call.spec.serviceAccountName]
  IN
  /\ call # None
  /\ call.step \in {"RBACReady", "ConfigMapReady", "ServiceReady",
                    "NetworkPolicyReady", "ServiceMonitorReady"}
  /\ call' = [call EXCEPT !.step = NextStep(call.step, decoded),
                          !.spec = decoded]
  /\ UNCHANGED <<spec, gone, stored, queue, edits>>

(***************************************************************************)
(* The end of the call.  Its status patches, or a wait for pods, may queue *)
(* the name again.                                                         *)
(***************************************************************************)
PersistStatus ==
  /\ call # None /\ call.step = "PersistStatus"
  /\ call' = None
  /\ queue' \in {queue, queue \cup {call.name}}
  /\ UNCHANGED <<spec, gone, stored, edits>>

Reconcile(n) ==
  /\ call = None /\ n \in queue
  /\ queue' = queue \ {n}
  /\ call' = IF spec[n] = None THEN None
             ELSE [name |-> n, spec |-> spec[n], hash |-> None,
                   step |-> FirstStep(spec[n])]
  /\ UNCHANGED <<spec, gone, stored, edits>>

-----------------------------------------------------------------------------
(***************************************************************************)
(* Users.  The spec a TlnDB has once it holds the finalizer is what the    *)
(* first call's Update made of it.  A deleted TlnDB goes in a call of its  *)
(* own, so never while another call for it runs.                           *)
(***************************************************************************)
UserCreate(n) ==
  /\ n \notin Created /\ Cardinality(Created) < MaxTlnDBs
  /\ \E s \in UserSpecs : spec' = [spec EXCEPT ![n] = StoredByUpdate(s)]
  /\ queue' = queue \cup {n}
  /\ UNCHANGED <<gone, stored, call, edits>>

UserEdit(n) ==
  /\ spec[n] # None /\ edits < MaxEdits
  /\ edits' = edits + 1
  /\ \E s \in UserSpecs \ {spec[n]} : spec' = [spec EXCEPT ![n] = s]
  /\ queue' = queue \cup {n}
  /\ UNCHANGED <<gone, stored, call>>

UserDelete(n) ==
  /\ spec[n] # None /\ edits < MaxEdits
  /\ call # None => call.name # n
  /\ edits' = edits + 1
  /\ spec' = [spec EXCEPT ![n] = None]
  /\ gone' = gone \cup {n}
  /\ queue' = queue \cup {n}
  /\ UNCHANGED <<stored, call>>

CollectGarbage(key) ==
  /\ stored[key] # None /\ stored[key].owner \in gone
  /\ Put(key, None)
  /\ UNCHANGED <<spec, gone, call, edits>>

Init ==
  /\ spec = [n \in Names |-> None] /\ gone = {}
  /\ stored = [key \in Keys |-> None]
  /\ queue = {} /\ call = None /\ edits = 0

Calls ==
  \/ \E k \in Child : CreateOrUpdate(k)
  \/ PruneFollower \/ SetCondition \/ PersistStatus

Next ==
  \/ Calls
  \/ \E n \in Names : Reconcile(n) \/ UserCreate(n) \/ UserEdit(n) \/ UserDelete(n)
  \/ \E key \in Keys : CollectGarbage(key)

Spec == Init /\ [][Next]_vars

-----------------------------------------------------------------------------
(***************************************************************************)
(* A TlnDB's call changes or deletes no object of another TlnDB, unless    *)
(* the two names differ by a suffix.  The helpers address objects by name  *)
(* and none of them looks at the owner it finds.                           *)
(***************************************************************************)
Undisturbed ==
  \A key \in Keys :
    stored[key] # None /\ stored'[key] # stored[key] =>
      LET m == stored[key].owner IN
      m \in gone \/ (call # None /\ (call.name = m \/ Clash(m, call.name)))

NonInterference == [][Undisturbed]_vars

(***************************************************************************)
(* The operator is done with n until something changes.                    *)
(***************************************************************************)
AtRest(n) ==
  spec[n] # None /\ n \notin queue /\ (call # None => call.name # n)

Reflects(object, k, n) ==
  LET config == renderConfigYAML(spec[n].config)
      desired == Build(k, spec[n], HashStringData(config))
      body == object.body
  IN
  /\ object.instance = n
  /\ CASE k \in StatefulSets ->
            /\ body.replicas = desired.replicas
            /\ body.image = desired.image
            /\ body.hash = desired.hash
       [] k = "ConfigMap" -> body = config
       [] OTHER -> body = desired

(***************************************************************************)
(* Once the operator is done with a TlnDB, what it owns is what its spec   *)
(* asks for, even where a TlnDB with a clashing name writes or deletes the *)
(* same objects: those writes queue the owner, which has the last word.    *)
(* Without a clash nothing is missing either.                              *)
(***************************************************************************)
OwnersPrevail ==
  \A n \in Names : AtRest(n) =>
    \A k \in Wanted(spec[n]) :
      LET object == stored[Key(k, n)] IN
      /\ object # None /\ object.owner = n => Reflects(object, k, n)
      /\ Apart(n) => object # None /\ object.owner = n

(***************************************************************************)
(* The StatefulSets whose pods a Service selects.                          *)
(***************************************************************************)
Backends(key) ==
  {q \in Keys :
     /\ q[1] = "StatefulSet" /\ stored[q] # None
     /\ stored[q].instance = stored[key].instance
     /\ stored[key].body.selector \in {"instance", stored[q].body.template.role}}

(***************************************************************************)
(* Writes go to the leader alone and reads to the followers, or to the     *)
(* leader when there are none: also where pods of an earlier mode are      *)
(* still there, and pods of other TlnDBs around.                           *)
(***************************************************************************)
RoutesByRole ==
  \A n \in Names : AtRest(n) /\ Apart(n) /\ Replicated(spec[n]) =>
    /\ Backends(Key("Service", n)) = {Key("LeaderStatefulSet", n)}
    /\ Backends(Key("ReadService", n)) =
         {Key(IF spec[n].readReplicas = 0
                THEN "LeaderStatefulSet" ELSE "FollowerStatefulSet", n)}

(***************************************************************************)
(* The port the pods listen on, from the ConfigMap they mount.             *)
(***************************************************************************)
Listens(n, listener) ==
  LET addr == stored[Key("ConfigMap", n)].body[listener] IN
  Number[addr[Len(addr)]]

(***************************************************************************)
(* Where the addresses are usable, the port pods listen on is the one      *)
(* their containers and probes, the Services, the followers' leader        *)
(* address and the NetworkPolicy name.  Four builders derive it from the   *)
(* spec, each object is updated on its own condition, and a default is     *)
(* filled in twice, once when rendering and once when parsing.             *)
(*                                                                         *)
(* For StatefulSets this takes that users edited at most once.  An edit in *)
(* the middle of a call leaves a template with the new ports under the     *)
(* hash of the old config; a second edit back to the old config makes that *)
(* hash right, and the template is not looked at again.                    *)
(***************************************************************************)
PortsAgree ==
  \A n \in Names, listener \in {"tcp", "http"} :
    /\ AtRest(n) /\ Apart(n)
    /\ Usable(renderConfigYAML(spec[n].config)[listener])
    => /\ \A k \in Wanted(spec[n]) \cap (Services \cup {"NetworkPolicy"}) :
            Listens(n, listener) = Port(stored[Key(k, n)].body.ports, listener)
       /\ edits <= 1 => \A k \in Wanted(spec[n]) \cap StatefulSets :
            Listens(n, listener) = Port(stored[Key(k, n)].body.template.ports, listener)

(***************************************************************************)
(* The repository's README.md, Replicated mode: follower replicas "stream  *)
(* the leader's op-log".  So a NetworkPolicy of the operator lets them     *)
(* dial the leader's port.                                                 *)
(***************************************************************************)
buildDefaultEgressRules == {53}

FollowersReachLeader ==
  \A n \in Names :
    LET policy == stored[Key("NetworkPolicy", n)]
        followers == stored[Key("FollowerStatefulSet", n)]
    IN
    /\ AtRest(n) /\ Apart(n) /\ followers # None /\ policy # None
    => Port(followers.body.template.ports, "tcp") \in
         buildDefaultEgressRules \cup Egress[policy.body.options]

(***************************************************************************)
(* tlndb_controller.go, deleteStatefulSetIfExists: "Used to prune the      *)
(* follower set when readReplicas drops to 0."  So no call deletes a       *)
(* StatefulSet that is not a set of followers.                             *)
(***************************************************************************)
PrunesFollowers ==
  [][\A key \in Keys :
       /\ call # None /\ call.step = "PruneFollower"
       /\ stored[key] # None /\ stored'[key] = None
       => stored[key].body.template.role = "follower"]_vars
=============================================================================
