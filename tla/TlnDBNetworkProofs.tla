------------------------- MODULE TlnDBNetworkProofs -------------------------
(***************************************************************************)
(* Several TlnDBs in one namespace, for every set of names, specs and      *)
(* addresses: those whose names do not clash leave each other's objects    *)
(* alone; however names clash, owners have the last word over their        *)
(* objects and Services select pods by role; and all ports agree.          *)
(***************************************************************************)
EXTENDS TlnDBNetwork, TlnDBResourcesProofs

(***************************************************************************)
(* The inductive invariant: a call is for a name, and every object is one  *)
(* that its owner would put there.                                         *)
(***************************************************************************)
Placed(key) ==
  stored[key].owner \in Names /\ \E k \in Child : key = Key(k, stored[key].owner)

Named == call # None => "name" \in DOMAIN call /\ call.name \in Names

NInv ==
  /\ Named
  /\ stored = [key \in Keys |-> stored[key]]
  /\ \A key \in Keys : stored[key] # None => Placed(key)

-----------------------------------------------------------------------------
(***************************************************************************)
(* A suffix can be taken off again.                                        *)
(***************************************************************************)
LEMMA AppendInjective ==
  ASSUME NEW S, NEW m \in Seq(S), NEW n \in Seq(S), NEW x, NEW y,
         Append(m, x) = Append(n, y)
  PROVE  m = n
<1>1. Len(m) \in Nat /\ Len(n) \in Nat
  OBVIOUS
<1>2. Len(Append(m, x)) = Len(m) + 1 /\ Len(Append(n, y)) = Len(n) + 1
  OBVIOUS
<1>3. Len(m) = Len(n)
  BY <1>1, <1>2
<1>4. \A i \in 1 .. Len(m) : m[i] = n[i]
  BY <1>1, <1>3
<1>5. QED
  BY <1>3, <1>4

(***************************************************************************)
(* Two TlnDBs share a key only if they are one, or their names clash.      *)
(***************************************************************************)
LEMMA SharedKey ==
  ASSUME NEW j \in Child, NEW k \in Child, NEW m \in Names, NEW n \in Names,
         Key(j, m) = Key(k, n)
  PROVE  m = n \/ Clash(m, n)
<1>1. m \in Seq(STRING) /\ n \in Seq(STRING)
  BY NetworkAssumption
<1>2. ResourceName(j, m) = ResourceName(k, n)
  BY DEF Key
<1>3. CASE j \in DOMAIN Suffix /\ k \in DOMAIN Suffix
  <2>1. Append(m, Suffix[j]) = Append(n, Suffix[k])
    BY <1>2, <1>3 DEF ResourceName
  <2>2. QED
    BY <1>1, <2>1, AppendInjective
<1>4. CASE j \in DOMAIN Suffix /\ k \notin DOMAIN Suffix
  <2>1. n = Append(m, Suffix[j])
    BY <1>2, <1>4 DEF ResourceName
  <2>2. QED
    BY <1>4, <2>1 DEF Clash
<1>5. CASE j \notin DOMAIN Suffix /\ k \in DOMAIN Suffix
  <2>1. m = Append(n, Suffix[k])
    BY <1>2, <1>5 DEF ResourceName
  <2>2. QED
    BY <1>5, <2>1 DEF Clash
<1>6. CASE j \notin DOMAIN Suffix /\ k \notin DOMAIN Suffix
  BY <1>2, <1>6 DEF ResourceName
<1>7. QED
  BY <1>3, <1>4, <1>5, <1>6

-----------------------------------------------------------------------------
(***************************************************************************)
(* Writing at a key of a TlnDB an object that belongs to it, or to whoever *)
(* owned what was there, or none.                                          *)
(***************************************************************************)
LEMMA PutKeeps ==
  ASSUME NInv, NEW k \in Child, NEW n \in Names, NEW new, Put(Key(k, n), new),
         new # None => \/ new.owner = n
                       \/ stored[Key(k, n)] # None
                            /\ new.owner = stored[Key(k, n)].owner,
         Named'
  PROVE  NInv'
<1> DEFINE key == Key(k, n)
<1>1. key \in Keys
  BY DEF Keys
<1>2. stored' = [stored EXCEPT ![key] = new]
  BY DEF Put
<1>3. stored' = [q \in Keys |-> stored'[q]]
  BY <1>2 DEF NInv
<1>4. \A q \in Keys : stored'[q] = IF q = key THEN new ELSE stored[q]
  BY <1>1, <1>2 DEF NInv
<1> HIDE DEF key
<1>5. ASSUME NEW q \in Keys, stored'[q] # None PROVE Placed(q)'
  <2>1. CASE q # key
    BY <1>4, <1>5, <2>1 DEF NInv, Placed
  <2>2. CASE q = key /\ new.owner = n
    BY <1>4, <2>2 DEF Placed, key
  <2>3. CASE q = key /\ stored[key] # None /\ new.owner = stored[key].owner
    BY <1>1, <1>4, <2>3 DEF NInv, Placed
  <2>4. QED
    BY <1>4, <1>5, <2>1, <2>2, <2>3 DEF key
<1>6. QED
  BY <1>3, <1>5 DEF NInv

\* Only the object at the key written to may be disturbed.
LEMMA PutDisturbs ==
  ASSUME NInv, NEW k \in Child, call # None, NEW new, Put(Key(k, call.name), new)
  PROVE  Undisturbed
<1> DEFINE key == Key(k, call.name)
<1> SUFFICES ASSUME NEW q \in Keys, stored[q] # None, stored'[q] # stored[q]
             PROVE  call.name = stored[q].owner \/ Clash(stored[q].owner, call.name)
  BY DEF Undisturbed
<1>1. q = key
  BY DEF Put, NInv
<1>2. PICK j \in Child : stored[q].owner \in Names /\ q = Key(j, stored[q].owner)
  BY DEF NInv, Placed
<1>3. call.name \in Names
  BY DEF NInv, Named
<1>4. QED
  BY <1>1, <1>2, <1>3, SharedKey

-----------------------------------------------------------------------------
(***************************************************************************)
(* Each step keeps the invariant and disturbs nobody else.                 *)
(***************************************************************************)
LEMMA IdleStep ==
  ASSUME NInv, UNCHANGED stored, Named'
  PROVE  NInv' /\ Undisturbed
BY DEF NInv, Undisturbed, Placed

\* The createOrUpdate helpers.
LEMMA CreateOrUpdateStep ==
  ASSUME NInv, NEW k \in Child, CreateOrUpdate(k) PROVE NInv' /\ Undisturbed
<1> DEFINE n == call.name
           key == Key(k, n)
           desired == Desired(k, n)
<1>1. call # None /\ n \in Names
  BY DEF CreateOrUpdate, NInv, Named
<1>2. desired.owner = n
  BY DEF Desired
<1>3. Named'
  BY <1>1 DEF CreateOrUpdate, Fail, NInv, Named
<1>4. CASE UNCHANGED stored
  BY <1>3, <1>4, IdleStep
<1>5. CASE Put(key, desired)
  BY <1>1, <1>2, <1>3, <1>5, PutKeeps, PutDisturbs
<1>6. CASE stored[key] # None /\ Put(key, Merged(k, stored[key], desired))
  <2>1. Merged(k, stored[key], desired).owner \in {n, stored[key].owner}
    BY DEF Merged, Desired
  <2>2. QED
    BY <1>1, <1>3, <1>6, <2>1, PutKeeps, PutDisturbs
<1>7. QED
  BY <1>4, <1>5, <1>6 DEF CreateOrUpdate, Fail

\* Pruning.
LEMMA PruneFollowerStep ==
  ASSUME NInv, PruneFollower PROVE NInv' /\ Undisturbed
<1>1. call # None /\ call.name \in Names /\ "FollowerStatefulSet" \in Child
  BY DEF PruneFollower, NInv, Named, Child, StatefulSets
<1>2. Named'
  BY <1>1 DEF PruneFollower, NInv, Named
<1>3. QED
  BY <1>1, <1>2, PutKeeps, PutDisturbs DEF PruneFollower

\* The garbage collector takes only what belonged to a deleted TlnDB.
LEMMA CollectGarbageStep ==
  ASSUME NInv, NEW key \in Keys, CollectGarbage(key) PROVE NInv' /\ Undisturbed
<1>1. stored' = [stored EXCEPT ![key] = None] /\ call' = call
  BY DEF CollectGarbage, Put
<1>2. \A q \in Keys : stored'[q] = IF q = key THEN None ELSE stored[q]
  BY <1>1 DEF NInv
<1>3. stored' = [q \in Keys |-> stored'[q]]
  BY <1>1 DEF NInv
<1>4. NInv'
  BY <1>1, <1>2, <1>3 DEF NInv, Named, Placed
<1>5. Undisturbed
  BY <1>2 DEF CollectGarbage, Undisturbed
<1>6. QED
  BY <1>4, <1>5

\* Every step, and stuttering.
LEMMA NextStepUndisturbed == NInv /\ [Next]_vars => NInv' /\ Undisturbed
<1> SUFFICES ASSUME NInv, [Next]_vars PROVE NInv' /\ Undisturbed
  OBVIOUS
<1>1. CASE Calls
  <2>1. CASE SetCondition \/ PersistStatus
    <3>1. UNCHANGED stored /\ Named'
      BY <2>1 DEF SetCondition, PersistStatus, NInv, Named
    <3>2. QED
      BY <3>1, IdleStep
  <2>2. QED
    BY <1>1, <2>1, CreateOrUpdateStep, PruneFollowerStep DEF Calls
<1>2. CASE \E n \in Names : Reconcile(n) \/ UserCreate(n) \/ UserEdit(n) \/ UserDelete(n)
  <2>1. UNCHANGED stored /\ Named'
    BY <1>2 DEF Reconcile, UserCreate, UserEdit, UserDelete, NInv, Named
  <2>2. QED
    BY <2>1, IdleStep
<1>3. CASE \E key \in Keys : CollectGarbage(key)
  BY <1>3, CollectGarbageStep
<1>4. CASE UNCHANGED vars
  BY <1>4, IdleStep DEF vars, NInv, Named
<1>5. QED
  BY <1>1, <1>2, <1>3, <1>4 DEF Next

(***************************************************************************)
(* Non-interference: whatever the names, specs and edits, a TlnDB's call   *)
(* changes or deletes an object of another TlnDB only if the two names     *)
(* differ by one of the five suffixes.                                     *)
(***************************************************************************)
THEOREM NamesKeepApart == Spec => NonInterference
<1>1. Init => NInv
  BY DEF Init, NInv, Named
<1>2. NInv /\ [Next]_vars => NInv'
  BY NextStepUndisturbed
<1>3. NInv /\ [Next]_vars => [Undisturbed]_vars
  BY NextStepUndisturbed
<1>4. QED
  BY <1>1, <1>2, <1>3, PTL DEF Spec, NonInterference

-----------------------------------------------------------------------------
(***************************************************************************)
(* Owners have the last word over their objects, and Services select pods  *)
(* by role, for every set of names and specs, however names clash.         *)
(*                                                                         *)
(* The argument.  A write or a deletion queues the owner of the object.    *)
(* So as long as a TlnDB is not queued, nobody touched what it owns since  *)
(* its last call began, and what that call left behind it stays settled.   *)
(* What no call may change, the selector of a StatefulSet, keeps the       *)
(* StatefulSets of clashing names apart.                                   *)
(***************************************************************************)

Owned(k, n) == stored[Key(k, n)] # None /\ stored[Key(k, n)].owner = n

(***************************************************************************)
(* What OwnersPrevail says of one child.                                   *)
(***************************************************************************)
SettledAt(k, n) ==
  /\ Owned(k, n) => Reflects(stored[Key(k, n)], k, n)
  /\ Apart(n) => Owned(k, n)

(***************************************************************************)
(* A call for n that nothing has overtaken: it works with the stored spec, *)
(* its hash is that of the stored config, and the children behind it are   *)
(* settled.                                                                *)
(***************************************************************************)
CallRight(n) ==
  /\ call.spec = spec[n]
  /\ "ConfigMap" \in Before(call.step, spec[n]) =>
       call.hash = HashStringData(renderConfigYAML(spec[n].config))
  /\ \A k \in Child \cap Before(call.step, spec[n]) : SettledAt(k, n)

WorkRight(n) ==
  IF call # None /\ call.name = n
    THEN CallRight(n)
    ELSE \A k \in Wanted(spec[n]) : SettledAt(k, n)

Rights == \A n \in Names : spec[n] # None /\ n \notin queue => WorkRight(n)

(***************************************************************************)
(* Types, and which TlnDBs are there.                                      *)
(***************************************************************************)
Rendered == {s \in TlnDBSpec : ~ s.configFrom}

NetworkTypeOK ==
  /\ spec \in [Names -> Rendered \cup {None}]
  /\ gone \subseteq Names
  /\ call \in Call \cup {None}
  /\ \A k \in Child, n \in Names : stored[Key(k, n)] \in Object(k) \cup {None}

Present ==
  /\ \A n \in gone : spec[n] = None
  /\ call # None => spec[call.name] # None /\ ~ call.spec.configFrom
  /\ \A key \in Keys : stored[key] # None => stored[key].owner \in Created

(***************************************************************************)
(* The selector and the role of an object that is still its owner's.       *)
(* Services are left out: a call of another TlnDB rewrites those.          *)
(***************************************************************************)
RoleOf ==
  [StatefulSet         |-> "standalone",
   LeaderStatefulSet   |-> "leader",
   FollowerStatefulSet |-> "follower"]

Shape ==
  \A k \in Child \ Services, n \in Names : Owned(k, n) =>
    /\ stored[Key(k, n)].instance = n
    /\ k \in StatefulSets => stored[Key(k, n)].body.template.role = RoleOf[k]

OInv == NInv /\ NetworkTypeOK /\ Present /\ Shape /\ Rights

-----------------------------------------------------------------------------
(***************************************************************************)
(* Keys.                                                                   *)
(***************************************************************************)
LEMMA AppendLast ==
  ASSUME NEW S, NEW n \in Seq(S), NEW x, NEW y
  PROVE  Append(n, x) # n /\ (Append(n, x) = Append(n, y) => x = y)
<1>1. Len(n) \in Nat /\ Len(Append(n, x)) = Len(n) + 1
  OBVIOUS
<1>2. Append(n, x)[Len(n) + 1] = x /\ Append(n, y)[Len(n) + 1] = y
  BY <1>1
<1>3. Append(n, x) # n
  BY <1>1
<1>4. QED
  BY <1>2, <1>3

\* The children of one TlnDB have different keys.
LEMMA KeyOwn ==
  ASSUME NEW j \in Child, NEW k \in Child, NEW n \in Names, Key(j, n) = Key(k, n)
  PROVE  j = k
<1>1. n \in Seq(STRING)
  BY NetworkAssumption
<1>2. Kind(j) = Kind(k) /\ ResourceName(j, n) = ResourceName(k, n)
  BY DEF Key
<1>3. CASE j \in DOMAIN Suffix /\ k \in DOMAIN Suffix
  <2>1. Append(n, Suffix[j]) = Append(n, Suffix[k])
    BY <1>2, <1>3 DEF ResourceName
  <2>2. Suffix[j] = Suffix[k]
    BY <1>1, <2>1, AppendLast
  <2>3. QED
    BY <1>3, <2>2 DEF Suffix
<1>4. CASE j \in DOMAIN Suffix /\ k \notin DOMAIN Suffix
  <2>1. Append(n, Suffix[j]) = n
    BY <1>2, <1>4 DEF ResourceName
  <2>2. QED
    BY <1>1, <2>1, AppendLast
<1>5. CASE j \notin DOMAIN Suffix /\ k \in DOMAIN Suffix
  <2>1. Append(n, Suffix[k]) = n
    BY <1>2, <1>5 DEF ResourceName
  <2>2. QED
    BY <1>1, <2>1, AppendLast
<1>6. CASE j \notin DOMAIN Suffix /\ k \notin DOMAIN Suffix
  BY <1>2, <1>6 DEF Suffix, Kind, Child, Services, StatefulSets, Optional
<1>7. QED
  BY <1>3, <1>4, <1>5, <1>6

\* Children with one key are of one kind.
LEMMA KeyKind ==
  ASSUME NEW j \in Child, NEW k \in Child, NEW m, NEW n, Key(j, m) = Key(k, n)
  PROVE  /\ j \in StatefulSets <=> k \in StatefulSets
         /\ j \in Services <=> k \in Services
         /\ k \notin Services \cup StatefulSets => j = k
<1>1. Kind(j) = Kind(k)
  BY DEF Key
<1>2. QED
  BY <1>1 DEF Kind, Child, Services, StatefulSets, Optional

\* Children of one kind have the same type.
LEMMA KindObject ==
  ASSUME NEW j \in Child, NEW k \in Child, NEW m, NEW n, Key(j, m) = Key(k, n)
  PROVE  Object(j) = Object(k)
<1>1. BodyOf(j) = BodyOf(k)
  <2>1. CASE k \in StatefulSets
    BY <2>1, KeyKind, StatefulSetBodies
  <2>2. CASE k \in Services
    BY <2>2, KeyKind DEF BodyOf, Services, StatefulSets
  <2>3. CASE k \notin StatefulSets \cup Services
    BY <2>3, KeyKind
  <2>4. QED
    BY <2>1, <2>2, <2>3
<1>2. QED
  BY <1>1 DEF Object

\* Only StatefulSets and Services can be shared between TlnDBs.
LEMMA PrivateKey ==
  ASSUME NEW j \in Child, NEW k \in Child \ (Services \cup StatefulSets),
         NEW m \in Names, NEW n \in Names, Key(j, m) = Key(k, n)
  PROVE  j = k /\ m = n
<1>1. j = k
  BY KeyKind
<1>2. ResourceName(k, m) = ResourceName(k, n)
  BY <1>1 DEF Key
<1>3. m \in Seq(STRING) /\ n \in Seq(STRING)
  BY NetworkAssumption
<1>4. CASE k \in DOMAIN Suffix
  <2>1. Append(m, Suffix[k]) = Append(n, Suffix[k])
    BY <1>2, <1>4 DEF ResourceName
  <2>2. QED
    BY <1>1, <1>3, <2>1, AppendInjective
<1>5. CASE k \notin DOMAIN Suffix
  BY <1>1, <1>2, <1>5 DEF ResourceName
<1>6. QED
  BY <1>4, <1>5

(***************************************************************************)
(* What a TlnDB without a clash finds at its keys is its own.              *)
(***************************************************************************)
LEMMA ApartOwns ==
  ASSUME NEW j \in Child, NEW k \in Child, NEW m \in Created, NEW n \in Names,
         gone \subseteq Names, Key(j, m) = Key(k, n), Apart(n)
  PROVE  m = n
<1>1. m \in Names
  BY DEF Created
<1>2. m = n \/ Clash(m, n)
  BY <1>1, SharedKey
<1>3. QED
  BY <1>2 DEF Apart

\* If no name clashes with n, what is stored under a key of n is owned by n.
LEMMA FoundOwned ==
  ASSUME OInv, NEW k \in Child, NEW n \in Names, stored[Key(k, n)] # None, Apart(n)
  PROVE  Owned(k, n)
<1>1. Key(k, n) \in Keys
  BY DEF Keys
<1>2. PICK m : m = stored[Key(k, n)].owner
  OBVIOUS
<1>3. m \in Created /\ gone \subseteq Names
  BY <1>1, <1>2 DEF OInv, Present, NetworkTypeOK
<1>4. PICK j \in Child : Key(k, n) = Key(j, m)
  BY <1>1, <1>2 DEF OInv, NInv, Placed
<1>5. m = n
  BY <1>3, <1>4, ApartOwns
<1>6. QED
  BY <1>2, <1>5 DEF Owned

-----------------------------------------------------------------------------
(***************************************************************************)
(* What the helpers write.                                                 *)
(***************************************************************************)
LEMMA DesiredType ==
  ASSUME OInv, NEW k \in Child, call # None
  PROVE  Desired(k, call.name) \in Object(k)
<1> DEFINE d == Desired(k, call.name)
<1>1. call \in Call
  BY DEF OInv, NetworkTypeOK
<1>2. call.name \in Names /\ call.spec \in TlnDBSpec /\ call.hash \in Hashes \cup {None}
  BY <1>1 DEF Call
<1>3. call.spec.config \in Configs
  BY <1>2 DEF TlnDBSpec
<1>4. d.body \in BodyOf(k)
  <2>1. CASE k = "ConfigMap"
    <3>1. BodyOf(k) = Configs
      BY <2>1 DEF BodyOf, StatefulSets, Services
    <3>2. QED
      BY <1>3, <2>1, <3>1, RenderAssumption DEF Desired
  <2>2. CASE k # "ConfigMap"
    BY <1>2, <2>2, BuildType DEF Desired
  <2>3. QED
    BY <2>1, <2>2
<1>5. d.role \in {"leader", "follower", None}
  <2>1. CASE k = "LeaderStatefulSet"
    BY <2>1 DEF Desired, Build, BuildLeaderStatefulSet, buildStatefulSet, StatefulSets
  <2>2. CASE k = "FollowerStatefulSet"
    BY <2>2 DEF Desired, Build, BuildFollowerStatefulSet, buildStatefulSet, StatefulSets
  <2>3. CASE k \notin StatefulSets \ {"StatefulSet"}
    BY <2>3 DEF Desired
  <2>4. QED
    BY <2>1, <2>2, <2>3 DEF StatefulSets
<1>6. d = [owner |-> d.owner, instance |-> d.instance, body |-> d.body, role |-> d.role]
      /\ d.owner = call.name /\ d.instance = call.name
  BY DEF Desired
<1> HIDE DEF d
<1>7. d \in Object(k)
  BY <1>2, <1>4, <1>5, <1>6 DEF Object
<1>8. QED
  BY <1>7 DEF d

\* The role a StatefulSet gets depends on the child alone.
LEMMA DesiredRole ==
  ASSUME NEW k \in StatefulSets, NEW n
  PROVE  Desired(k, n).body.template.role = RoleOf[k]
<1>1. CASE k = "StatefulSet"
  BY <1>1 DEF Desired, Build, BuildStatefulSet, buildStatefulSet, RoleOf
<1>2. CASE k = "LeaderStatefulSet"
  BY <1>2 DEF Desired, Build, BuildLeaderStatefulSet, buildStatefulSet, RoleOf
<1>3. CASE k = "FollowerStatefulSet"
  BY <1>3 DEF Desired, Build, BuildFollowerStatefulSet, buildStatefulSet, RoleOf
<1>4. QED
  BY <1>1, <1>2, <1>3 DEF StatefulSets

\* An update keeps the owner, except that of a ServiceMonitor.
LEMMA MergedType ==
  ASSUME NEW k \in Child, NEW existing \in Object(k), NEW desired \in Object(k)
  PROVE  /\ Merged(k, existing, desired) \in Object(k)
         /\ Merged(k, existing, desired).owner =
              IF k = "ServiceMonitor" THEN desired.owner ELSE existing.owner
         /\ Merged(k, existing, desired).instance = desired.instance
         /\ Merged(k, existing, desired).body =
              UpdatedBody(k, existing.body, desired.body)
<1>1. existing.body \in BodyOf(k) /\ desired.body \in BodyOf(k)
  BY DEF Object
<1>2. UpdatedBody(k, existing.body, desired.body) \in BodyOf(k)
  <2>1. CASE k \in StatefulSets
    <3>1. PICK e, d : /\ e = existing.body /\ d = desired.body
                      /\ e \in StatefulSetBody /\ d \in StatefulSetBody
      BY <1>1, <2>1, StatefulSetBodies
    <3>2. [d EXCEPT !.claimTemplate = e.claimTemplate] \in StatefulSetBody
      BY <3>1 DEF StatefulSetBody
    <3>3. QED
      BY <2>1, <3>1, <3>2, StatefulSetBodies DEF UpdatedBody
  <2>2. CASE k \notin StatefulSets
    BY <1>1, <2>2 DEF UpdatedBody
  <2>3. QED
    BY <2>1, <2>2
<1>3. QED
  BY <1>2 DEF Merged, Object

\* What an update leaves in a StatefulSet.
LEMMA UpdatedStatefulSet ==
  ASSUME NEW k \in StatefulSets, NEW existing \in StatefulSetBody,
         NEW desired \in StatefulSetBody
  PROVE  LET b == UpdatedBody(k, existing, desired) IN
         /\ b.replicas = desired.replicas /\ b.image = desired.image
         /\ b.hash = desired.hash /\ b.template = desired.template
BY DEF UpdatedBody, StatefulSetBody

-----------------------------------------------------------------------------
(***************************************************************************)
(* A write at one key: the new object belongs to who writes or to who      *)
(* owned the old one.                                                      *)
(***************************************************************************)
Rightful(key, new) ==
  new # None =>
    \/ stored[key] # None /\ new.owner = stored[key].owner
    \/ new.owner \in Created /\ \E j \in Child : key = Key(j, new.owner)

\* Put stores the object under its key and leaves every other key alone.
LEMMA PutStored ==
  ASSUME OInv, NEW key \in Keys, NEW new, Put(key, new)
  PROVE  \A q \in Keys : stored'[q] = IF q = key THEN new ELSE stored[q]
BY DEF OInv, NInv, Put

\* Storing an object with a rightful owner keeps the owners of all objects created.
LEMMA PutPresent ==
  ASSUME OInv, NEW key \in Keys, NEW new, Put(key, new), Rightful(key, new),
         UNCHANGED <<spec, gone>>
  PROVE  \A q \in Keys : stored'[q] # None => stored'[q].owner \in Created'
<1>1. Created' = Created
  BY DEF Created
<1>2. ASSUME NEW q \in Keys, stored'[q] # None PROVE stored'[q].owner \in Created
  <2>1. CASE q # key
    BY <1>2, <2>1, PutStored DEF OInv, Present
  <2>2. CASE q = key
    BY <1>2, <2>2, PutStored DEF OInv, Present, Rightful
  <2>3. QED
    BY <2>1, <2>2
<1>3. QED
  BY <1>1, <1>2

\* Storing a well-formed object keeps the types.
LEMMA PutTyped ==
  ASSUME OInv, NEW j \in Child, NEW m \in Names, NEW new \in Object(j) \cup {None},
         Put(Key(j, m), new)
  PROVE  \A k \in Child, n \in Names : stored'[Key(k, n)] \in Object(k) \cup {None}
<1> SUFFICES ASSUME NEW k \in Child, NEW n \in Names
             PROVE  stored'[Key(k, n)] \in Object(k) \cup {None}
  OBVIOUS
<1>1. Key(k, n) \in Keys /\ Key(j, m) \in Keys
  BY DEF Keys
<1>2. CASE Key(k, n) # Key(j, m)
  BY <1>1, <1>2, PutStored DEF OInv, NetworkTypeOK
<1>3. CASE Key(k, n) = Key(j, m)
  BY <1>1, <1>3, PutStored, KindObject
<1>4. QED
  BY <1>2, <1>3

(***************************************************************************)
(* A write leaves settled what belongs to a TlnDB that it does not queue.  *)
(***************************************************************************)
LEMMA PutSettled ==
  ASSUME OInv, NEW key \in Keys, NEW new, Put(key, new), Rightful(key, new),
         UNCHANGED <<spec, gone>>, NEW k \in Child, NEW n \in Names,
         n \notin queue', SettledAt(k, n)
  PROVE  SettledAt(k, n)'
<1> DEFINE own == Key(k, n)
<1>1. own \in Keys
  BY DEF Keys
<1>2. Apart(n)' <=> Apart(n)
  BY DEF Apart, Created
<1>3. CASE stored'[own] = stored[own]
  BY <1>2, <1>3 DEF SettledAt, Owned, Reflects
<1>4. CASE stored'[own] # stored[own]
  <2>1. own = key /\ stored'[own] = new /\ new # stored[key]
    BY <1>1, <1>4, PutStored
  <2>2. n # IF new = None THEN stored[key].owner ELSE new.owner
    BY <2>1 DEF Put
  <2>3. ~ Owned(k, n)'
    BY <2>1, <2>2 DEF Owned
  <2>4. ~ Apart(n)
    <3>1. SUFFICES ASSUME Apart(n) PROVE FALSE
      OBVIOUS
    <3>2. stored[key] # None /\ stored[key].owner = n
      BY <2>1, <3>1 DEF SettledAt, Owned
    <3>3. new # None /\ new.owner # n
      BY <2>2, <3>2
    <3>4. PICK j \in Child : new.owner \in Created /\ key = Key(j, new.owner)
      BY <3>2, <3>3 DEF Rightful
    <3>5. gone \subseteq Names
      BY DEF OInv, NetworkTypeOK
    <3>6. QED
      BY <2>1, <3>1, <3>3, <3>4, <3>5, ApartOwns
  <2>5. QED
    BY <1>2, <2>3, <2>4 DEF SettledAt
<1>5. QED
  BY <1>3, <1>4

(***************************************************************************)
(* So what is right for a TlnDB without a call stays right.                *)
(***************************************************************************)
LEMMA PutElsewhere ==
  ASSUME OInv, NEW key \in Keys, NEW new, Put(key, new), Rightful(key, new),
         UNCHANGED <<spec, gone>>, NEW n \in Names, spec[n] # None,
         n \notin queue', ~ (call # None /\ call.name = n),
         ~ (call' # None /\ call'.name = n)
  PROVE  WorkRight(n)'
<1>1. n \notin queue
  BY DEF Put
<1>2. \A k \in Wanted(spec[n]) : SettledAt(k, n)
  BY <1>1 DEF OInv, Rights, WorkRight
<1>3. \A k \in Wanted(spec[n]) : SettledAt(k, n)'
  BY <1>2, PutSettled DEF Wanted
<1>4. spec'[n] = spec[n]
  OBVIOUS
<1>5. \A k \in Wanted(spec'[n]) : SettledAt(k, n)'
  BY <1>3, <1>4
<1>6. QED
  BY <1>5 DEF WorkRight

(***************************************************************************)
(* A write keeps the shape if what it writes has the shape, for whoever    *)
(* may own it.                                                             *)
(***************************************************************************)
Formed(key, new) ==
  \A j \in Child \ Services, n \in Names :
    key = Key(j, n) /\ new # None /\ new.owner = n =>
      /\ new.instance = n
      /\ j \in StatefulSets => new.body.template.role = RoleOf[j]

\* Storing an object with the labels and role of its owner keeps Shape.
LEMMA PutShape ==
  ASSUME OInv, NEW key \in Keys, NEW new, Put(key, new), Formed(key, new)
  PROVE  Shape'
<1> SUFFICES ASSUME NEW j \in Child \ Services, NEW n \in Names, Owned(j, n)'
             PROVE  /\ stored'[Key(j, n)].instance = n
                    /\ j \in StatefulSets =>
                         stored'[Key(j, n)].body.template.role = RoleOf[j]
  BY DEF Shape
<1>1. Key(j, n) \in Keys
  BY DEF Keys
<1>2. CASE Key(j, n) # key
  <2>1. stored'[Key(j, n)] = stored[Key(j, n)]
    BY <1>1, <1>2, PutStored
  <2>2. Owned(j, n)
    BY <2>1 DEF Owned
  <2>3. QED
    BY <2>1, <2>2 DEF OInv, Shape
<1>3. CASE Key(j, n) = key
  <2>1. stored'[Key(j, n)] = new
    BY <1>1, <1>3, PutStored
  <2>2. QED
    BY <1>3, <2>1 DEF Owned, Formed
<1>4. QED
  BY <1>2, <1>3

\* A call that nothing has overtaken asks for what the stored spec asks.
LEMMA RightDesired ==
  ASSUME OInv, NEW k \in Child, call # None, call.step = k,
         spec[call.name] # None, call.name \notin queue
  PROVE  LET n == call.name
             config == renderConfigYAML(spec[n].config)
             built == Build(k, spec[n], HashStringData(config))
             body == Desired(k, n).body
         IN
         /\ CallRight(n)
         /\ k \in StatefulSets => /\ body.replicas = built.replicas
                                  /\ body.image = built.image
                                  /\ body.hash = built.hash
         /\ k = "ConfigMap" => body = config
         /\ k \notin StatefulSets \cup {"ConfigMap"} => body = built
<1>1. PICK n \in Names : n = call.name
  BY DEF OInv, NetworkTypeOK, Call
<1>2. CallRight(n)
  BY <1>1 DEF OInv, Rights, WorkRight
<1>3. call.spec = spec[n]
  BY <1>2 DEF CallRight
<1>4. spec[n] \in TlnDBSpec /\ ~ spec[n].configFrom
  BY <1>1 DEF OInv, NetworkTypeOK, Rendered
<1>5. CASE k \in StatefulSets
  <2>1. Before(k, spec[n]) \cap {"ConfigMap", "ExternalConfigMap"} # {}
    BY <1>4, <1>5, HashBehind
  <2>2. "ExternalConfigMap" \notin Before(k, spec[n])
    BY <1>4, TakenConfig DEF Before
  <2>3. call.hash = HashStringData(renderConfigYAML(spec[n].config))
    BY <1>2, <2>1, <2>2 DEF CallRight
  <2>4. k # "ConfigMap"
    BY <1>5 DEF StatefulSets
  <2>5. Desired(k, n).body =
          Build(k, spec[n], HashStringData(renderConfigYAML(spec[n].config)))
    BY <1>3, <2>3, <2>4 DEF Desired
  <2>6. QED
    BY <1>1, <1>2, <1>5, <2>4, <2>5
<1>6. CASE k = "ConfigMap"
  BY <1>1, <1>2, <1>3, <1>6 DEF Desired, StatefulSets
<1>7. CASE k \notin StatefulSets \cup {"ConfigMap"}
  <2>1. Desired(k, n).body = Build(k, spec[n], call.hash)
    BY <1>3, <1>7 DEF Desired
  <2>2. QED
    BY <1>1, <1>2, <1>7, <2>1, BuildHash
<1>8. QED
  BY <1>5, <1>6, <1>7

\* An object with what the call asks for reflects the stored spec.
LEMMA RightReflects ==
  ASSUME OInv, NEW k \in Child, call # None, call.step = k,
         spec[call.name] # None, call.name \notin queue,
         NEW object, object.instance = call.name,
         k \in StatefulSets =>
           LET desired == Desired(k, call.name).body IN
           /\ object.body.replicas = desired.replicas
           /\ object.body.image = desired.image
           /\ object.body.hash = desired.hash,
         k \notin StatefulSets => object.body = Desired(k, call.name).body
  PROVE  Reflects(object, k, call.name)
<1>1. CASE k \in StatefulSets
  <2>1. k # "ConfigMap"
    BY <1>1 DEF StatefulSets
  <2>2. LET built == Build(k, spec[call.name],
                       HashStringData(renderConfigYAML(spec[call.name].config)))
        IN /\ object.body.replicas = built.replicas
           /\ object.body.image = built.image
           /\ object.body.hash = built.hash
    BY <1>1, RightDesired
  <2>3. QED
    BY <1>1, <2>1, <2>2 DEF Reflects
<1>2. CASE k = "ConfigMap"
  BY <1>2, RightDesired DEF Reflects, StatefulSets
<1>3. CASE k \notin StatefulSets \cup {"ConfigMap"}
  BY <1>3, RightDesired DEF Reflects
<1>4. QED
  BY <1>1, <1>2, <1>3

\* What stays as it is stays settled.
LEMMA SameSettled ==
  ASSUME NEW k, NEW n, SettledAt(k, n), stored'[Key(k, n)] = stored[Key(k, n)],
         UNCHANGED <<spec, gone>>
  PROVE  SettledAt(k, n)'
<1>1. Apart(n)' <=> Apart(n)
  BY DEF Apart, Created
<1>2. QED
  BY <1>1 DEF SettledAt, Owned, Reflects

-----------------------------------------------------------------------------
(***************************************************************************)
(* A helper leaves its own child settled, unless it queued its TlnDB.      *)
(***************************************************************************)
LEMMA UpdateSettles ==
  ASSUME OInv, NEW k \in Child, NEW n \in Names, call # None, call.name = n,
         call.step = k, spec[n] # None, n \notin queue', stored[Key(k, n)] # None,
         Put(Key(k, n), Merged(k, stored[Key(k, n)], Desired(k, n))),
         UNCHANGED <<spec, gone>>
  PROVE  SettledAt(k, n)'
<1>1. n = call.name
  OBVIOUS
<1>2. PICK key \in Keys : key = Key(k, n)
  BY DEF Keys
<1>3. PICK old \in Object(k) : old = stored[key]
  BY <1>1, <1>2 DEF OInv, NetworkTypeOK
<1>4. PICK desired \in Object(k) : desired = Desired(k, n)
  BY <1>1, DesiredType
<1>5. desired.owner = n /\ desired.instance = n
  BY <1>4 DEF Desired
<1>6. PICK new : new = Merged(k, old, desired)
  OBVIOUS
<1>7. /\ new \in Object(k) /\ new # None
      /\ new.owner = IF k = "ServiceMonitor" THEN n ELSE old.owner
      /\ new.instance = n
      /\ new.body = UpdatedBody(k, old.body, desired.body)
  BY <1>5, <1>6, MergedType, NothingAssumption
<1>8. Put(key, new) /\ n \notin queue'
  BY <1>1, <1>2, <1>3, <1>4, <1>6
<1>9. stored'[key] = new
  BY <1>8, PutStored
<1>10. Apart(n) => old.owner = n
  BY <1>1, <1>2, <1>3, FoundOwned DEF Owned
<1>11. CASE new # stored[key]
  <2>1. new.owner # n
    BY <1>7, <1>8, <1>11 DEF Put
  <2>2. ~ Owned(k, n)' /\ ~ Apart(n)
    BY <1>2, <1>7, <1>9, <1>10, <2>1 DEF Owned
  <2>3. ~ Apart(n)'
    BY <2>2 DEF Apart, Created
  <2>4. QED
    BY <1>1, <2>2, <2>3 DEF SettledAt
<1>12. CASE new = stored[key]
  <2>1. n \notin queue
    BY <1>8 DEF Put
  <2>2. Reflects(new, k, n)
    <3>1. CASE k \in StatefulSets
      <4>1. old.body \in StatefulSetBody /\ desired.body \in StatefulSetBody
        BY <3>1, StatefulSetBodies DEF Object
      <4>2. /\ new.body.replicas = desired.body.replicas
            /\ new.body.image = desired.body.image
            /\ new.body.hash = desired.body.hash
        BY <1>7, <3>1, <4>1, UpdatedStatefulSet
      <4>3. QED
        BY <1>1, <1>4, <1>7, <2>1, <3>1, <4>2, RightReflects
    <3>2. CASE k \notin StatefulSets
      <4>1. new.body = desired.body
        BY <1>7, <3>2 DEF UpdatedBody
      <4>2. QED
        BY <1>1, <1>4, <1>7, <2>1, <3>2, <4>1, RightReflects
    <3>3. QED
      BY <3>1, <3>2
  <2>3. SettledAt(k, n)
    BY <1>2, <1>3, <1>7, <1>10, <1>12, <2>2 DEF SettledAt, Owned
  <2>4. QED
    BY <1>1, <1>2, <1>9, <1>12, <2>3, SameSettled
<1>13. QED
  BY <1>11, <1>12

\* A helper that finds nothing to update leaves its object settled.
LEMMA KeepSettles ==
  ASSUME OInv, NEW k \in Child, NEW n \in Names, call # None, call.name = n,
         call.step = k, spec[n] # None, n \notin queue, stored[Key(k, n)] # None,
         ~ NeedsUpdate(k, stored[Key(k, n)].body, Desired(k, n).body)
  PROVE  SettledAt(k, n)
<1>1. k \in StatefulSets \cup {"ConfigMap", "Role", "RoleBinding"}
  BY DEF NeedsUpdate
<1>2. k \notin Services
  BY <1>1 DEF StatefulSets, Services
<1>3. Apart(n) => Owned(k, n)
  BY FoundOwned
<1>4. ASSUME Owned(k, n) PROVE Reflects(stored[Key(k, n)], k, n)
  <2>1. stored[Key(k, n)].instance = n
    BY <1>2, <1>4 DEF OInv, Shape
  <2>2. CASE k \in StatefulSets
    BY <2>1, <2>2, RightReflects DEF NeedsUpdate, statefulSetNeedsUpdate
  <2>3. CASE k \notin StatefulSets
    BY <1>1, <2>1, <2>3, RightReflects DEF NeedsUpdate
  <2>4. QED
    BY <2>2, <2>3
<1>5. QED
  BY <1>3, <1>4 DEF SettledAt

(***************************************************************************)
(* The call moves on past a child.                                         *)
(***************************************************************************)
Proceed(k) ==
  call' = [call EXCEPT !.step = NextStep(k, call.spec),
                       !.hash = IF k = "ConfigMap"
                                  THEN HashStringData(Desired(k, call.name).body)
                                  ELSE @]

\* A call for an unqueued TlnDB moves on: what lies behind the next step is settled.
LEMMA Advance ==
  ASSUME OInv, NEW k \in Child, NEW n \in Names, call # None, call.name = n,
         call.step = k, spec[n] # None, n \notin queue, UNCHANGED <<spec, gone>>,
         Proceed(k),
         \A j \in Child \cap (Before(k, spec[n]) \cup {k}) : SettledAt(j, n)'
  PROVE  CallRight(n)'
<1>1. call \in Call /\ k \in Steps \ {"PersistStatus"}
  BY StepNames DEF OInv, NetworkTypeOK, Child, Services, StatefulSets, Optional
<1>2. CallRight(n)
  BY DEF OInv, Rights, WorkRight
<1>3. call.spec = spec[n]
  BY <1>2 DEF CallRight
<1>4. PICK s : s = spec[n]
  OBVIOUS
<1>5. PICK next : next = NextStep(k, s)
  OBVIOUS
<1>6. /\ call'.spec = s /\ call'.step = next /\ spec'[n] = s
      /\ call'.hash = IF k = "ConfigMap" THEN HashStringData(Desired(k, n).body)
                                         ELSE call.hash
  BY <1>1, <1>3, <1>4, <1>5 DEF Call, Proceed
<1>7. Before(next, s) \subseteq Before(k, s) \cup {k}
  BY <1>1, <1>5, NextStepBehind
<1>8. \A j \in Child \cap Before(next, s) : SettledAt(j, n)'
  BY <1>4, <1>7
<1>9. "ConfigMap" \in Before(next, s) =>
        call'.hash = HashStringData(renderConfigYAML(s.config))
  <2>1. CASE k = "ConfigMap"
    BY <1>3, <1>4, <1>6, <2>1 DEF Desired
  <2>2. CASE k # "ConfigMap"
    BY <1>2, <1>4, <1>6, <1>7, <2>2 DEF CallRight
  <2>3. QED
    BY <2>1, <2>2
<1>10. QED
  BY <1>6, <1>8, <1>9 DEF CallRight

-----------------------------------------------------------------------------
(***************************************************************************)
(* One lemma per action.  First the three outcomes of a helper.            *)
(***************************************************************************)
LEMMA Proceeds ==
  ASSUME OInv, NEW k \in Child, call # None, call.step = k,
         Proceed(k)
  PROVE  /\ call' \in Call /\ call' # None
         /\ call'.name = call.name /\ call'.spec = call.spec
<1>1. call \in Call /\ k \in Steps \ {"PersistStatus"}
  BY StepNames DEF OInv, NetworkTypeOK, Child, Services, StatefulSets, Optional
<1>2. NextStep(k, call.spec) \in Steps
  BY <1>1, NextStepIsStep
<1>3. k = "ConfigMap" => HashStringData(Desired(k, call.name).body) \in Hashes
  <2>1. Desired(k, call.name).body \in BodyOf(k)
    BY DesiredType DEF Object
  <2>2. k = "ConfigMap" => BodyOf(k) = Configs
    BY DEF BodyOf, StatefulSets, Services
  <2>3. QED
    BY <2>1, <2>2, DigestAssumption DEF HashStringData
<1>4. QED
  BY <1>1, <1>2, <1>3, NothingAssumption DEF Call, Proceed

\* The call's part of the invariant, when the TlnDBs stay as they are.
LEMMA CallPresent ==
  ASSUME OInv, UNCHANGED <<spec, gone>>,
         call' = None \/ (call # None /\ call'.name = call.name /\ call'.spec = call.spec)
  PROVE  /\ \A n \in gone' : spec'[n] = None
         /\ call' # None => spec'[call'.name] # None /\ ~ call'.spec.configFrom
BY DEF OInv, Present

\* Nothing is written, nothing changes hands.
LEMMA StillShape ==
  ASSUME OInv, UNCHANGED stored
  PROVE  /\ Shape'
         /\ \A k \in Child, n \in Names : stored'[Key(k, n)] \in Object(k) \cup {None}
<1>1. Shape'
  BY DEF OInv, Shape, Owned
<1>2. QED
  BY <1>1 DEF OInv, NetworkTypeOK

\* While no object is written and no TlnDB goes, owners stay created.
LEMMA StillOwners ==
  ASSUME OInv, UNCHANGED stored, Created \subseteq Created'
  PROVE  \A q \in Keys : stored'[q] # None => stored'[q].owner \in Created'
BY DEF OInv, Present

\* What is right for a TlnDB without a call stays right where nothing happens.
LEMMA StillElsewhere ==
  ASSUME OInv, UNCHANGED <<spec, gone, stored>>, NEW n \in Names, spec[n] # None,
         n \notin queue, ~ (call # None /\ call.name = n),
         ~ (call' # None /\ call'.name = n)
  PROVE  WorkRight(n)'
<1>1. \A k \in Wanted(spec[n]) : SettledAt(k, n)
  BY DEF OInv, Rights, WorkRight
<1>2. \A k \in Wanted(spec[n]) : SettledAt(k, n)'
  BY <1>1, SameSettled
<1>3. spec'[n] = spec[n]
  OBVIOUS
<1>4. \A k \in Wanted(spec'[n]) : SettledAt(k, n)'
  BY <1>2, <1>3
<1>5. QED
  BY <1>4 DEF WorkRight

OwnersStep == NetworkTypeOK' /\ Present' /\ Shape' /\ Rights'

\* A helper writes and goes on.
LEMMA WriteStep ==
  ASSUME OInv, NEW k \in Child, NEW m \in Names, call # None, call.name = m,
         call.step = k, NEW new \in Object(k), Put(Key(k, m), new),
         Rightful(Key(k, m), new), UNCHANGED <<spec, gone>>,
         Proceed(k),
         Formed(Key(k, m), new),
         m \notin queue' => SettledAt(k, m)'
  PROVE  OwnersStep
<1>1. PICK key \in Keys : key = Key(k, m)
  BY DEF Keys
<1>2. /\ call' \in Call /\ call' # None /\ call'.name = m /\ call'.spec = call.spec
  BY Proceeds
<1>3. spec[m] # None
  BY DEF OInv, Present
<1>4. NetworkTypeOK'
  BY <1>2, PutTyped DEF OInv, NetworkTypeOK
<1>5. Present'
  BY <1>1, <1>2, CallPresent, PutPresent DEF Present
<1>6. Shape'
  BY <1>1, PutShape
<1>7. ASSUME NEW n \in Names, spec'[n] # None, n \notin queue' PROVE WorkRight(n)'
  <2>1. CASE n # m
    BY <1>1, <1>2, <1>7, <2>1, PutElsewhere
  <2>2. CASE n = m
    <3>1. n \notin queue
      BY <1>7 DEF Put
    <3>2. CallRight(n)
      BY <1>3, <2>2, <3>1 DEF OInv, Rights, WorkRight
    <3>3. \A j \in Child \cap Before(k, spec[n]) : SettledAt(j, n)'
      BY <1>1, <1>7, <2>2, <3>2, PutSettled DEF CallRight
    <3>4. \A j \in Child \cap (Before(k, spec[n]) \cup {k}) : SettledAt(j, n)'
      BY <1>7, <2>2, <3>3
    <3>5. CallRight(n)'
      BY <1>3, <2>2, <3>1, <3>4, Advance
    <3>6. QED
      BY <1>2, <2>2, <3>5 DEF WorkRight
  <2>3. QED
    BY <2>1, <2>2
<1>8. QED
  BY <1>4, <1>5, <1>6, <1>7 DEF Rights, OwnersStep

\* createOrUpdate finds nothing and creates.
LEMMA CreateOwners ==
  ASSUME OInv, NEW k \in Child, NEW m \in Names, call # None, call.name = m,
         call.step = k, stored[Key(k, m)] = None, Put(Key(k, m), Desired(k, m)),
         UNCHANGED <<spec, gone>>,
         Proceed(k)
  PROVE  OwnersStep
<1>1. PICK new \in Object(k) : new = Desired(k, m)
  BY DesiredType
<1>2. new.owner = m /\ new.instance = m
  BY <1>1 DEF Desired
<1>3. new # None
  BY NothingAssumption
<1>4. m \in Created
  BY DEF OInv, Present, Created
<1>5. Rightful(Key(k, m), new)
  BY <1>2, <1>4 DEF Rightful
<1>6. m \in queue'
  BY <1>1, <1>2, <1>3 DEF Put
<1>7. ASSUME NEW j \in Child \ Services, NEW n \in Names,
             Key(k, m) = Key(j, n), new.owner = n
      PROVE  /\ new.instance = n
             /\ j \in StatefulSets => new.body.template.role = RoleOf[j]
  <2>1. n = m /\ j = k
    BY <1>2, <1>7, KeyOwn
  <2>2. QED
    BY <1>1, <1>2, <2>1, DesiredRole
<1>8. Formed(Key(k, m), new)
  BY <1>7 DEF Formed
<1>9. QED
  BY <1>1, <1>5, <1>6, <1>8, WriteStep

\* createOrUpdate finds an object that it updates.
LEMMA UpdateOwners ==
  ASSUME OInv, NEW k \in Child, NEW m \in Names, call # None, call.name = m,
         call.step = k, stored[Key(k, m)] # None,
         ~ Refused(k, stored[Key(k, m)], Desired(k, m)),
         Put(Key(k, m), Merged(k, stored[Key(k, m)], Desired(k, m))),
         UNCHANGED <<spec, gone>>,
         Proceed(k)
  PROVE  OwnersStep
<1>1. PICK desired \in Object(k) : desired = Desired(k, m)
  BY DesiredType
<1>2. desired.owner = m /\ desired.instance = m
  BY <1>1 DEF Desired
<1>3. PICK old \in Object(k) : old = stored[Key(k, m)]
  BY DEF OInv, NetworkTypeOK
<1>4. PICK new \in Object(k) : new = Merged(k, old, desired)
  BY MergedType
<1>5. /\ new.owner = IF k = "ServiceMonitor" THEN m ELSE old.owner
      /\ new.instance = m
      /\ new.body = UpdatedBody(k, old.body, desired.body)
  BY <1>2, <1>4, MergedType
<1>6. m \in Created /\ spec[m] # None
  BY DEF OInv, Present, Created
<1>7. Rightful(Key(k, m), new)
  BY <1>3, <1>5, <1>6 DEF Rightful
<1>8. ASSUME NEW j \in Child \ Services, NEW n \in Names,
             Key(k, m) = Key(j, n), new.owner = n
      PROVE  /\ new.instance = n
             /\ j \in StatefulSets => new.body.template.role = RoleOf[j]
  <2>1. CASE j \in StatefulSets
    <3>1. k \in StatefulSets
      BY <1>8, <2>1, KeyKind
    <3>2. old.owner = n
      BY <1>5, <1>8, <3>1 DEF StatefulSets
    <3>3. old.instance = n
      BY <1>3, <1>8, <3>2 DEF OInv, Shape, Owned
    <3>4. old.instance = m
      BY <1>1, <1>2, <1>3, <3>1 DEF Refused
    <3>5. n = m /\ j = k
      BY <1>8, <3>3, <3>4, KeyOwn
    <3>6. old.body \in StatefulSetBody /\ desired.body \in StatefulSetBody
      BY <3>1, StatefulSetBodies DEF Object
    <3>7. new.body.template = desired.body.template
      BY <1>5, <3>1, <3>6, UpdatedStatefulSet
    <3>8. desired.body.template.role = RoleOf[k]
      BY <1>1, <3>1, DesiredRole
    <3>9. QED
      BY <1>5, <3>5, <3>7, <3>8
  <2>2. CASE j \notin StatefulSets
    BY <1>5, <1>8, <2>2, PrivateKey
  <2>3. QED
    BY <2>1, <2>2
<1>9. m \notin queue' => SettledAt(k, m)'
  BY <1>6, UpdateSettles
<1>10. Formed(Key(k, m), new)
  BY <1>8 DEF Formed
<1>11. QED
  BY <1>1, <1>3, <1>4, <1>7, <1>9, <1>10, WriteStep

\* createOrUpdate finds what it wants.
LEMMA KeepOwners ==
  ASSUME OInv, NEW k \in Child, NEW m \in Names, call # None, call.name = m,
         call.step = k, stored[Key(k, m)] # None,
         ~ NeedsUpdate(k, stored[Key(k, m)].body, Desired(k, m).body),
         UNCHANGED <<spec, gone, stored, queue>>,
         Proceed(k)
  PROVE  OwnersStep
<1>1. call' \in Call /\ call' # None /\ call'.name = m /\ call'.spec = call.spec
  BY Proceeds
<1>2. spec[m] # None
  BY DEF OInv, Present
<1>3. NetworkTypeOK'
  BY <1>1, StillShape DEF OInv, NetworkTypeOK
<1>4. Present'
  BY <1>1, CallPresent, StillOwners DEF Present, Created
<1>5. Shape'
  BY StillShape
<1>6. ASSUME NEW n \in Names, spec'[n] # None, n \notin queue' PROVE WorkRight(n)'
  <2>1. CASE n # m
    BY <1>1, <1>6, <2>1, StillElsewhere
  <2>2. CASE n = m
    <3>1. CallRight(n)
      BY <1>2, <1>6, <2>2 DEF OInv, Rights, WorkRight
    <3>2. SettledAt(k, n)
      BY <1>2, <1>6, <2>2, KeepSettles
    <3>3. \A j \in Child \cap (Before(k, spec[n]) \cup {k}) : SettledAt(j, n)
      BY <2>2, <3>1, <3>2 DEF CallRight
    <3>4. \A j \in Child \cap (Before(k, spec[n]) \cup {k}) : SettledAt(j, n)'
      BY <3>3, SameSettled
    <3>5. CallRight(n)'
      BY <1>2, <1>6, <2>2, <3>4, Advance
    <3>6. QED
      BY <1>1, <2>2, <3>5 DEF WorkRight
  <2>3. QED
    BY <2>1, <2>2
<1>7. QED
  BY <1>3, <1>4, <1>5, <1>6 DEF Rights, OwnersStep

\* createOrUpdate is refused by the server; the call ends with an error.
LEMMA FailOwners ==
  ASSUME OInv, call # None, Fail, UNCHANGED <<spec, gone>>
  PROVE  OwnersStep
<1>1. call' = None /\ queue' = queue \cup {call.name} /\ UNCHANGED stored
  BY DEF Fail
<1>2. NetworkTypeOK'
  BY <1>1, StillShape DEF OInv, NetworkTypeOK
<1>3. Present'
  BY <1>1, CallPresent, StillOwners DEF Present, Created
<1>4. Shape'
  BY <1>1, StillShape
<1>5. ASSUME NEW n \in Names, spec'[n] # None, n \notin queue' PROVE WorkRight(n)'
  BY <1>1, <1>5, StillElsewhere
<1>6. QED
  BY <1>2, <1>3, <1>4, <1>5 DEF Rights, OwnersStep

\* The createOrUpdate helpers.
LEMMA CreateOrUpdateOwners ==
  ASSUME OInv, NEW k \in Child, CreateOrUpdate(k) PROVE OwnersStep
<1>1. call # None /\ call.step = k /\ UNCHANGED <<spec, gone>>
  BY DEF CreateOrUpdate
<1>2. PICK m \in Names : m = call.name
  BY <1>1 DEF OInv, NetworkTypeOK, Call
<1>3. CASE stored[Key(k, m)] = None
  BY <1>1, <1>2, <1>3, CreateOwners DEF CreateOrUpdate, Proceed
<1>4. CASE /\ stored[Key(k, m)] # None
           /\ ~ NeedsUpdate(k, stored[Key(k, m)].body, Desired(k, m).body)
  BY <1>1, <1>2, <1>4, KeepOwners DEF CreateOrUpdate, Proceed
<1>5. CASE /\ stored[Key(k, m)] # None
           /\ NeedsUpdate(k, stored[Key(k, m)].body, Desired(k, m).body)
           /\ Refused(k, stored[Key(k, m)], Desired(k, m))
  BY <1>1, <1>2, <1>5, FailOwners DEF CreateOrUpdate
<1>6. CASE /\ stored[Key(k, m)] # None
           /\ NeedsUpdate(k, stored[Key(k, m)].body, Desired(k, m).body)
           /\ ~ Refused(k, stored[Key(k, m)], Desired(k, m))
  BY <1>1, <1>2, <1>6, UpdateOwners DEF CreateOrUpdate, Proceed
<1>7. QED
  BY <1>3, <1>4, <1>5, <1>6

\* deleteStatefulSetIfExists.
LEMMA PruneFollowerOwners ==
  ASSUME OInv, PruneFollower PROVE OwnersStep
<1>1. /\ call # None /\ call.step = "PruneFollower" /\ call \in Call
      /\ UNCHANGED <<spec, gone>>
  BY DEF PruneFollower, OInv, NetworkTypeOK
<1>2. PICK m \in Names : m = call.name
  BY <1>1 DEF Call
<1>3. PICK next : next = NextStep("PruneFollower", call.spec)
  OBVIOUS
<1>4. "PruneFollower" \in Steps \ {"PersistStatus"} /\ "FollowerStatefulSet" \in Child
  BY StepNames DEF Child, StatefulSets
<1>5. /\ next \in Steps
      /\ Before(next, call.spec) \subseteq Before("PruneFollower", call.spec)
                                             \cup {"PruneFollower"}
  BY <1>3, <1>4, NextStepBehind
<1>6. /\ call' \in Call /\ call' # None /\ call'.name = m /\ call'.spec = call.spec
      /\ call'.step = next /\ call'.hash = call.hash
  BY <1>1, <1>2, <1>3, <1>5, NothingAssumption DEF PruneFollower, Call
<1>7. PICK key \in Keys : key = Key("FollowerStatefulSet", m)
  BY <1>4 DEF Keys
<1>8. Put(key, None)
  BY <1>2, <1>7 DEF PruneFollower
<1>9. Rightful(key, None) /\ Formed(key, None)
  BY DEF Rightful, Formed
<1>10. NetworkTypeOK'
  BY <1>1, <1>4, <1>6, <1>7, <1>8, PutTyped DEF OInv, NetworkTypeOK
<1>11. Present'
  BY <1>1, <1>2, <1>6, <1>8, <1>9, CallPresent, PutPresent DEF Present
<1>12. Shape'
  BY <1>8, <1>9, PutShape
<1>13. ASSUME NEW n \in Names, spec'[n] # None, n \notin queue' PROVE WorkRight(n)'
  <2>1. CASE n # m
    BY <1>1, <1>2, <1>6, <1>8, <1>9, <1>13, <2>1, PutElsewhere
  <2>2. CASE n = m
    <3>1. n \notin queue
      BY <1>8, <1>13 DEF Put
    <3>2. CallRight(n)
      BY <1>1, <1>2, <1>13, <2>2, <3>1 DEF OInv, Rights, WorkRight
    <3>3. PICK s : s = spec[n] /\ s = call.spec /\ s = spec'[n] /\ s = call'.spec
      BY <1>1, <1>6, <3>2 DEF CallRight
    <3>4. "PruneFollower" \notin Child
      BY DEF Child, Services, StatefulSets, Optional
    <3>5. \A j \in Child \cap Before(next, s) : SettledAt(j, n)
      BY <1>1, <1>5, <3>2, <3>3, <3>4 DEF CallRight
    <3>6. \A j \in Child \cap Before(next, s) : SettledAt(j, n)'
      BY <1>1, <1>8, <1>9, <1>13, <3>5, PutSettled
    <3>7. "ConfigMap" \in Before(next, s) =>
            call'.hash = HashStringData(renderConfigYAML(s.config))
      BY <1>1, <1>5, <1>6, <3>2, <3>3 DEF CallRight
    <3>8. CallRight(n)'
      BY <1>6, <3>3, <3>6, <3>7 DEF CallRight
    <3>9. QED
      BY <1>2, <1>6, <2>2, <3>8 DEF WorkRight
  <2>3. QED
    BY <2>1, <2>2
<1>14. QED
  BY <1>10, <1>11, <1>12, <1>13 DEF Rights, OwnersStep

\* setCondition: the answer of the server replaces the call's spec.
LEMMA SetConditionOwners ==
  ASSUME OInv, SetCondition PROVE OwnersStep
<1>1. /\ call # None /\ call \in Call
      /\ UNCHANGED <<spec, gone, stored, queue>>
      /\ call.step \in {"RBACReady", "ConfigMapReady", "ServiceReady",
                        "NetworkPolicyReady", "ServiceMonitorReady"}
  BY DEF SetCondition, OInv, NetworkTypeOK
<1>2. PICK m \in Names : m = call.name
  BY <1>1 DEF Call
<1>3. spec[m] # None /\ spec[m] \in Rendered
  BY <1>1, <1>2 DEF OInv, Present, NetworkTypeOK
<1>4. PICK d : d = [spec[m] EXCEPT !.serviceAccountName = @ \/ call.spec.serviceAccountName]
  OBVIOUS
<1>5. d \in TlnDBSpec /\ ~ d.configFrom
  BY <1>3, <1>4 DEF Rendered, TlnDBSpec
<1>6. PICK step \in Steps : step = call.step
  BY <1>1 DEF Call
<1>7. PICK next : next = NextStep(step, d)
  OBVIOUS
<1>8. step \notin Child \cup {"PersistStatus"}
  BY <1>1, <1>6 DEF Child, Services, StatefulSets, Optional
<1>9. /\ next \in Steps
      /\ Before(next, d) \subseteq Before(step, d) \cup {step}
  BY <1>7, <1>8, NextStepBehind
<1>10. call' = [call EXCEPT !.step = next, !.spec = d]
  BY <1>2, <1>4, <1>6, <1>7 DEF SetCondition
<1>11. /\ call' \in Call /\ call' # None /\ call'.name = m /\ call'.spec = d
       /\ call'.step = next /\ call'.hash = call.hash
  BY <1>1, <1>2, <1>5, <1>9, <1>10, NothingAssumption DEF Call
<1>12. NetworkTypeOK'
  BY <1>1, <1>11, StillShape DEF OInv, NetworkTypeOK
<1>13. Present'
  <2>1. Created' = Created
    BY <1>1 DEF Created
  <2>2. \A q \in Keys : stored'[q] # None => stored'[q].owner \in Created'
    BY <1>1, <2>1, StillOwners
  <2>3. QED
    BY <1>1, <1>3, <1>5, <1>11, <2>2 DEF OInv, Present
<1>14. Shape'
  BY <1>1, StillShape
<1>15. ASSUME NEW n \in Names, spec'[n] # None, n \notin queue' PROVE WorkRight(n)'
  <2>1. CASE n # m
    BY <1>1, <1>2, <1>11, <1>15, <2>1, StillElsewhere
  <2>2. CASE n = m
    <3>1. CallRight(n)
      BY <1>1, <1>2, <1>15, <2>2 DEF OInv, Rights, WorkRight
    <3>2. call.spec = spec[n]
      BY <3>1 DEF CallRight
    <3>3. spec[n].serviceAccountName \in BOOLEAN
      BY <1>3, <2>2 DEF Rendered, TlnDBSpec
    <3>4. d = spec[n]
      BY <1>3, <1>4, <2>2, <3>2, <3>3 DEF Rendered, TlnDBSpec
    <3>5. \A j \in Child \cap Before(next, d) : SettledAt(j, n)
      BY <1>6, <1>8, <1>9, <3>1, <3>4 DEF CallRight
    <3>6. \A j \in Child \cap Before(next, d) : SettledAt(j, n)'
      BY <1>1, <3>5, SameSettled
    <3>7. "ConfigMap" # step
      BY <1>8 DEF Child
    <3>8. "ConfigMap" \in Before(next, d) =>
            call'.hash = HashStringData(renderConfigYAML(d.config))
      BY <1>6, <1>9, <1>11, <3>1, <3>4, <3>7 DEF CallRight
    <3>9. spec'[n] = d
      BY <1>1, <3>4
    <3>10. CallRight(n)'
      BY <1>11, <3>6, <3>8, <3>9 DEF CallRight
    <3>11. QED
      BY <1>2, <1>11, <2>2, <3>10 DEF WorkRight
  <2>3. QED
    BY <2>1, <2>2
<1>16. QED
  BY <1>12, <1>13, <1>14, <1>15 DEF Rights, OwnersStep

\* The end of a call: everything wanted is behind it.
LEMMA PersistStatusOwners ==
  ASSUME OInv, PersistStatus PROVE OwnersStep
<1>1. /\ call # None /\ call.step = "PersistStatus" /\ call' = None
      /\ queue \subseteq queue' /\ UNCHANGED <<spec, gone, stored>>
  BY DEF PersistStatus
<1>2. NetworkTypeOK'
  BY <1>1, StillShape DEF OInv, NetworkTypeOK
<1>3. Present'
  BY <1>1, CallPresent, StillOwners DEF Present, Created
<1>4. Shape'
  BY <1>1, StillShape
<1>5. ASSUME NEW n \in Names, spec'[n] # None, n \notin queue' PROVE WorkRight(n)'
  <2>1. CASE n # call.name
    BY <1>1, <1>5, <2>1, StillElsewhere
  <2>2. CASE n = call.name
    <3>1. CallRight(n)
      BY <1>1, <1>5, <2>2 DEF OInv, Rights, WorkRight
    <3>2. Wanted(spec[n]) \subseteq Child \cap Before("PersistStatus", spec[n])
      <4>1. Child \subseteq Steps /\ "PersistStatus" \notin Child
        BY StepNames DEF Child, Services, StatefulSets, Optional
      <4>2. QED
        BY <4>1, LastBehind DEF Wanted
    <3>3. \A k \in Wanted(spec[n]) : SettledAt(k, n)
      BY <1>1, <3>1, <3>2 DEF CallRight
    <3>4. \A k \in Wanted(spec[n]) : SettledAt(k, n)'
      BY <1>1, <3>3, SameSettled
    <3>5. spec'[n] = spec[n]
      BY <1>1
    <3>6. \A k \in Wanted(spec'[n]) : SettledAt(k, n)'
      BY <3>4, <3>5
    <3>7. QED
      BY <1>1, <3>6 DEF WorkRight
  <2>3. QED
    BY <2>1, <2>2
<1>6. QED
  BY <1>2, <1>3, <1>4, <1>5 DEF Rights, OwnersStep

\* A call begins, with nothing behind it.
LEMMA ReconcileOwners ==
  ASSUME OInv, NEW m \in Names, Reconcile(m) PROVE OwnersStep
<1>1. /\ call = None /\ queue' = queue \ {m} /\ UNCHANGED <<spec, gone, stored>>
      /\ m \in queue
  BY DEF Reconcile
<1>2. Created' = Created
  BY <1>1 DEF Created
<1>3. \A q \in Keys : stored'[q] # None => stored'[q].owner \in Created'
  BY <1>1, <1>2, StillOwners
<1>4. Shape'
  BY <1>1, StillShape
<1>5. CASE spec[m] = None
  <2>1. call' = None
    BY <1>5 DEF Reconcile
  <2>2. NetworkTypeOK'
    BY <1>1, <2>1, StillShape DEF OInv, NetworkTypeOK
  <2>3. Present'
    BY <1>1, <1>3, <2>1 DEF OInv, Present
  <2>4. ASSUME NEW n \in Names, spec'[n] # None, n \notin queue' PROVE WorkRight(n)'
    BY <1>1, <1>5, <2>1, <2>4, StillElsewhere
  <2>5. QED
    BY <1>4, <2>2, <2>3, <2>4 DEF Rights, OwnersStep
<1>6. CASE spec[m] # None
  <2>1. PICK s \in Rendered : s = spec[m]
    BY <1>6 DEF OInv, NetworkTypeOK
  <2>2. s \in TlnDBSpec /\ ~ s.configFrom
    BY DEF Rendered
  <2>3. PICK first \in Steps : first = FirstStep(s) /\ Before(first, s) = {}
    BY FirstStepBehind
  <2>4. call' = [name |-> m, spec |-> s, hash |-> None, step |-> first]
    BY <1>6, <2>1, <2>3 DEF Reconcile
  <2>5. call' \in Call /\ call'.name = m /\ call'.spec = s /\ call'.step = first
    BY <2>2, <2>4 DEF Call
  <2>6. NetworkTypeOK'
    BY <1>1, <2>5, StillShape DEF OInv, NetworkTypeOK
  <2>7. Present'
    BY <1>1, <1>3, <1>6, <2>2, <2>5 DEF OInv, Present
  <2>8. ASSUME NEW n \in Names, spec'[n] # None, n \notin queue' PROVE WorkRight(n)'
    <3>1. CASE n # m
      BY <1>1, <2>5, <2>8, <3>1, StillElsewhere
    <3>2. CASE n = m
      <4>1. spec'[n] = s
        BY <1>1, <2>1, <3>2
      <4>2. CallRight(n)'
        BY <2>3, <2>5, <4>1 DEF CallRight
      <4>3. call' # None
        BY <2>5, NothingAssumption
      <4>4. QED
        BY <2>5, <3>2, <4>2, <4>3 DEF WorkRight
    <3>3. QED
      BY <3>1, <3>2
  <2>9. QED
    BY <1>4, <2>6, <2>7, <2>8 DEF Rights, OwnersStep
<1>7. QED
  BY <1>5, <1>6

(***************************************************************************)
(* Users change one TlnDB, queue it, and take away none of the names there *)
(* were.  Whatever is not queued is as settled as before.                  *)
(***************************************************************************)
LEMMA UserStep ==
  ASSUME OInv, NEW m \in Names, NEW s \in Rendered \cup {None},
         spec' = [spec EXCEPT ![m] = s], gone' \subseteq Names,
         Created \subseteq Created', queue' = queue \cup {m},
         UNCHANGED <<stored, call>>, \A n \in gone' : spec'[n] = None,
         call # None => spec'[call.name] # None
  PROVE  OwnersStep
<1>1. \A n \in Names : spec'[n] = IF n = m THEN s ELSE spec[n]
  BY DEF OInv, NetworkTypeOK
<1>2. NetworkTypeOK'
  BY StillShape DEF OInv, NetworkTypeOK
<1>3. Present'
  BY StillOwners DEF OInv, Present
<1>4. Shape'
  BY StillShape
<1>5. ASSUME NEW n \in Names, n # m, NEW k, SettledAt(k, n) PROVE SettledAt(k, n)'
  <2>1. Apart(n)' => Apart(n)
    BY DEF Apart
  <2>2. spec'[n] = spec[n]
    BY <1>1, <1>5
  <2>3. QED
    BY <1>5, <2>1, <2>2 DEF SettledAt, Owned, Reflects
<1>6. ASSUME NEW n \in Names, spec'[n] # None, n \notin queue' PROVE WorkRight(n)'
  <2>1. n # m /\ n \notin queue /\ spec'[n] = spec[n]
    BY <1>1, <1>6
  <2>2. WorkRight(n)
    BY <1>6, <2>1 DEF OInv, Rights
  <2>3. CASE call # None /\ call.name = n
    <3>1. CallRight(n)
      BY <2>2, <2>3 DEF WorkRight
    <3>2. \A k \in Child \cap Before(call.step, spec[n]) : SettledAt(k, n)'
      BY <1>5, <2>1, <3>1 DEF CallRight
    <3>3. CallRight(n)'
      BY <2>1, <3>1, <3>2 DEF CallRight
    <3>4. QED
      BY <2>3, <3>3 DEF WorkRight
  <2>4. CASE ~ (call # None /\ call.name = n)
    <3>1. \A k \in Wanted(spec[n]) : SettledAt(k, n)'
      BY <1>5, <2>1, <2>2, <2>4 DEF WorkRight
    <3>2. \A k \in Wanted(spec'[n]) : SettledAt(k, n)'
      BY <2>1, <3>1
    <3>3. QED
      BY <2>4, <3>2 DEF WorkRight
  <2>5. QED
    BY <2>3, <2>4
<1>7. QED
  BY <1>2, <1>3, <1>4, <1>6 DEF Rights, OwnersStep

\* Users create, edit and delete.
LEMMA UserOwners ==
  ASSUME OInv, NEW m \in Names, UserCreate(m) \/ UserEdit(m) \/ UserDelete(m)
  PROVE  OwnersStep
<1>0. UserSpecs \subseteq Rendered /\ None \notin Rendered
  BY NetworkAssumption, NothingAssumption DEF Rendered
<1>1. CASE UserCreate(m)
  <2>1. PICK s \in UserSpecs : spec' = [spec EXCEPT ![m] = StoredByUpdate(s)]
    BY <1>1 DEF UserCreate
  <2>2. PICK r : r = StoredByUpdate(s)
    OBVIOUS
  <2>3. r \in Rendered
    BY <1>0, <2>2, StoredByUpdateType DEF Rendered, StoredByUpdate, TlnDBSpec
  <2>4. /\ m \notin Created /\ queue' = queue \cup {m}
        /\ UNCHANGED <<gone, stored, call>>
    BY <1>1 DEF UserCreate
  <2>5. \A n \in Names : spec'[n] = IF n = m THEN r ELSE spec[n]
    BY <2>1, <2>2 DEF OInv, NetworkTypeOK
  <2>6. r # None
    BY <1>0, <2>3
  <2>7. Created \subseteq Created'
    BY <2>4, <2>5, <2>6 DEF Created
  <2>8. gone' \subseteq Names /\ \A n \in gone' : spec'[n] = None
    BY <2>4, <2>5 DEF OInv, NetworkTypeOK, Present, Created
  <2>9. call # None => spec'[call.name] # None
    BY <2>5, <2>6 DEF OInv, NetworkTypeOK, Present, Call
  <2>10. QED
    BY <2>1, <2>2, <2>3, <2>4, <2>7, <2>8, <2>9, UserStep
<1>2. CASE UserEdit(m)
  <2>1. PICK s \in Rendered : spec' = [spec EXCEPT ![m] = s]
    BY <1>0, <1>2 DEF UserEdit
  <2>2. /\ spec[m] # None /\ queue' = queue \cup {m}
        /\ UNCHANGED <<gone, stored, call>>
    BY <1>2 DEF UserEdit
  <2>3. \A n \in Names : spec'[n] = IF n = m THEN s ELSE spec[n]
    BY <2>1 DEF OInv, NetworkTypeOK
  <2>4. s # None
    BY <1>0
  <2>5. Created \subseteq Created'
    BY <2>2, <2>3, <2>4 DEF Created
  <2>6. gone' \subseteq Names /\ \A n \in gone' : spec'[n] = None
    BY <2>2, <2>3 DEF OInv, NetworkTypeOK, Present
  <2>7. call # None => spec'[call.name] # None
    BY <2>3, <2>4 DEF OInv, NetworkTypeOK, Present, Call
  <2>8. QED
    BY <2>1, <2>2, <2>5, <2>6, <2>7, UserStep
<1>3. CASE UserDelete(m)
  <2>1. /\ spec' = [spec EXCEPT ![m] = None] /\ gone' = gone \cup {m}
        /\ spec[m] # None /\ queue' = queue \cup {m} /\ UNCHANGED <<stored, call>>
        /\ call # None => call.name # m
    BY <1>3 DEF UserDelete
  <2>2. \A n \in Names : spec'[n] = IF n = m THEN None ELSE spec[n]
    BY <2>1 DEF OInv, NetworkTypeOK
  <2>3. Created \subseteq Created'
    BY <2>1, <2>2 DEF Created
  <2>4. gone' \subseteq Names /\ \A n \in gone' : spec'[n] = None
    BY <2>1, <2>2 DEF OInv, NetworkTypeOK, Present
  <2>5. call # None => spec'[call.name] # None
    BY <2>1, <2>2 DEF OInv, NetworkTypeOK, Present, Call
  <2>6. QED
    BY <2>1, <2>3, <2>4, <2>5, UserStep
<1>4. QED
  BY <1>1, <1>2, <1>3

\* The garbage collector takes nothing of a TlnDB that is there.
LEMMA CollectGarbageOwners ==
  ASSUME OInv, NEW key \in Keys, CollectGarbage(key) PROVE OwnersStep
<1>1. Put(key, None) /\ UNCHANGED <<spec, gone, call>>
  BY DEF CollectGarbage
<1>2. Rightful(key, None) /\ Formed(key, None)
  BY DEF Rightful, Formed
<1>3. PICK j \in Child, m \in Names : key = Key(j, m)
  BY DEF Keys
<1>4. NetworkTypeOK'
  BY <1>1, <1>3, PutTyped DEF OInv, NetworkTypeOK
<1>5. Present'
  BY <1>1, <1>2, CallPresent, PutPresent DEF Present
<1>6. Shape'
  BY <1>1, <1>2, PutShape
<1>7. ASSUME NEW n \in Names, spec'[n] # None, n \notin queue' PROVE WorkRight(n)'
  <2>1. CASE ~ (call # None /\ call.name = n)
    BY <1>1, <1>2, <1>7, <2>1, PutElsewhere
  <2>2. CASE call # None /\ call.name = n
    <3>1. n \notin queue
      BY <1>1, <1>7 DEF Put
    <3>2. CallRight(n)
      BY <1>1, <1>7, <2>2, <3>1 DEF OInv, Rights, WorkRight
    <3>3. \A k \in Child \cap Before(call.step, spec[n]) : SettledAt(k, n)'
      BY <1>1, <1>2, <1>7, <3>2, PutSettled DEF CallRight
    <3>4. CallRight(n)'
      BY <1>1, <3>2, <3>3 DEF CallRight
    <3>5. QED
      BY <1>1, <2>2, <3>4 DEF WorkRight
  <2>3. QED
    BY <2>1, <2>2
<1>8. QED
  BY <1>4, <1>5, <1>6, <1>7 DEF Rights, OwnersStep

\* Every step keeps the invariant.
LEMMA NextOwners == OInv /\ [Next]_vars => OInv'
<1> SUFFICES ASSUME OInv, [Next]_vars PROVE OInv'
  OBVIOUS
<1>1. NInv'
  BY NextStepUndisturbed DEF OInv
<1>2. CASE Calls
  BY <1>1, <1>2, CreateOrUpdateOwners, PruneFollowerOwners, SetConditionOwners,
     PersistStatusOwners DEF Calls, OInv, OwnersStep
<1>3. CASE \E n \in Names : Reconcile(n) \/ UserCreate(n) \/ UserEdit(n) \/ UserDelete(n)
  BY <1>1, <1>3, ReconcileOwners, UserOwners DEF OInv, OwnersStep
<1>4. CASE \E key \in Keys : CollectGarbage(key)
  BY <1>1, <1>4, CollectGarbageOwners DEF OInv, OwnersStep
<1>5. CASE UNCHANGED vars
  <2>1. UNCHANGED <<spec, gone, stored, queue, call>>
    BY <1>5 DEF vars
  <2>2. \A n \in Names : WorkRight(n) => WorkRight(n)'
    BY <2>1 DEF WorkRight, CallRight, SettledAt, Owned, Reflects, Apart, Created
  <2>3. Rights'
    BY <2>1, <2>2 DEF OInv, Rights
  <2>4. NetworkTypeOK' /\ Shape'
    BY <2>1, StillShape DEF OInv, NetworkTypeOK
  <2>5. Present'
    BY <2>1 DEF OInv, Present, Created
  <2>6. QED
    BY <1>1, <2>3, <2>4, <2>5 DEF OInv
<1>6. QED
  BY <1>2, <1>3, <1>4, <1>5 DEF Next

\* Initially there is nothing.
LEMMA InitOwners == Init => OInv
<1> SUFFICES ASSUME Init PROVE OInv
  OBVIOUS
<1>1. NInv
  BY DEF Init, NInv, Named
<1>2. \A k \in Child, n \in Names : Key(k, n) \in Keys /\ stored[Key(k, n)] = None
  BY DEF Init, Keys
<1>3. NetworkTypeOK
  BY <1>2 DEF Init, NetworkTypeOK
<1>4. Present /\ Rights
  BY DEF Init, Present, Rights
<1>5. Shape
  BY <1>2 DEF Shape, Owned
<1>6. QED
  BY <1>1, <1>3, <1>4, <1>5 DEF OInv

-----------------------------------------------------------------------------
(***************************************************************************)
(* Owners prevail: when the operator is done with a TlnDB, every object it *)
(* owns is what its spec asks for, whatever TlnDBs with clashing names did *)
(* to the same objects, and without a clash none is missing.               *)
(***************************************************************************)
THEOREM OwnersHaveTheLastWord == Spec => []OwnersPrevail
<1>1. OInv => OwnersPrevail
  <2> SUFFICES ASSUME OInv, NEW n \in Names, AtRest(n), NEW k \in Wanted(spec[n])
               PROVE  SettledAt(k, n)
    BY DEF OwnersPrevail, SettledAt, Owned
  <2>1. QED
    BY DEF OInv, Rights, WorkRight, AtRest
<1>2. QED
  BY <1>1, InitOwners, NextOwners, PTL DEF Spec

-----------------------------------------------------------------------------
(***************************************************************************)
(* Pods.  A StatefulSet carries the instance label of its owner, so what a *)
(* Service of n selects by that label are StatefulSets of n.               *)
(***************************************************************************)
LEMMA StatefulSetOf ==
  ASSUME OInv, NEW q \in Keys, q[1] = "StatefulSet", stored[q] # None,
         NEW n \in Names, stored[q].instance = n
  PROVE  \E j \in StatefulSets : /\ q = Key(j, n) /\ Owned(j, n)
                                 /\ stored[q].body.template.role = RoleOf[j]
<1>1. PICK j \in Child : stored[q].owner \in Names /\ q = Key(j, stored[q].owner)
  BY DEF OInv, NInv, Placed
<1>2. PICK m \in Names : m = stored[q].owner /\ q = Key(j, m)
  BY <1>1
<1>3. j \in StatefulSets
  BY <1>2 DEF Key, Kind, Child, Services, StatefulSets, Optional
<1>4. j \in Child \ Services /\ Owned(j, m)
  BY <1>2, <1>3 DEF Owned, Services, StatefulSets
<1>5. m = n /\ stored[q].body.template.role = RoleOf[j]
  BY <1>2, <1>3, <1>4 DEF OInv, Shape
<1>6. QED
  BY <1>2, <1>3, <1>4, <1>5

(***************************************************************************)
(* A Service that selects a role finds the one StatefulSet of that role.   *)
(***************************************************************************)
LEMMA SelectsRole ==
  ASSUME OInv, NEW n \in Names, NEW j \in StatefulSets, Owned(j, n), NEW key,
         stored[key].instance = n, stored[key].body.selector = RoleOf[j],
         j # "StatefulSet"
  PROVE  Backends(key) = {Key(j, n)}
<1>1. j \in {"LeaderStatefulSet", "FollowerStatefulSet"} /\ j \in Child \ Services
  BY DEF StatefulSets, Child, Services
<1>2. RoleOf[j] # "instance" /\ \A i \in StatefulSets : RoleOf[i] = RoleOf[j] => i = j
  BY <1>1 DEF RoleOf, StatefulSets
<1>3. Key(j, n) \in Backends(key)
  <2>1. Key(j, n) \in Keys /\ Key(j, n)[1] = "StatefulSet"
    BY <1>1 DEF Keys, Key, Kind
  <2>2. stored[Key(j, n)] # None
    BY DEF Owned
  <2>3. stored[Key(j, n)].instance = n /\ stored[Key(j, n)].body.template.role = RoleOf[j]
    BY <1>1 DEF OInv, Shape
  <2>4. QED
    BY <2>1, <2>2, <2>3 DEF Backends
<1>4. ASSUME NEW q \in Backends(key) PROVE q = Key(j, n)
  <2>1. /\ q \in Keys /\ q[1] = "StatefulSet" /\ stored[q] # None
        /\ stored[q].instance = n
        /\ stored[key].body.selector \in {"instance", stored[q].body.template.role}
    BY DEF Backends
  <2>2. PICK i \in StatefulSets : /\ q = Key(i, n)
                                  /\ stored[q].body.template.role = RoleOf[i]
    BY <2>1, StatefulSetOf
  <2>3. RoleOf[i] = RoleOf[j]
    BY <1>2, <2>1, <2>2
  <2>4. QED
    BY <1>2, <2>2, <2>3
<1>5. QED
  BY <1>3, <1>4

(***************************************************************************)
(* Routing: when the operator is done with a replicated TlnDB whose name   *)
(* clashes with no other, the write Service has the leader's pods behind   *)
(* it and no other, and the read Service the followers' or, without        *)
(* followers, the leader's, also with pods left over from another mode.    *)
(***************************************************************************)
THEOREM ServicesRouteByRole == Spec => []RoutesByRole
<1>1. OInv => RoutesByRole
  <2> SUFFICES ASSUME OInv, NEW n \in Names, AtRest(n), Apart(n), Replicated(spec[n])
               PROVE  /\ Backends(Key("Service", n)) = {Key("LeaderStatefulSet", n)}
                      /\ Backends(Key("ReadService", n)) =
                           {Key(IF spec[n].readReplicas = 0
                                  THEN "LeaderStatefulSet" ELSE "FollowerStatefulSet", n)}
    BY DEF RoutesByRole
  <2>1. \A k \in Wanted(spec[n]) : SettledAt(k, n)
    BY DEF OInv, Rights, WorkRight, AtRest
  <2>2. \A k \in Wanted(spec[n]) : Owned(k, n) /\ Reflects(stored[Key(k, n)], k, n)
    BY <2>1 DEF SettledAt
  <2>3. spec[n].readReplicas \in Nat
    BY DEF OInv, NetworkTypeOK, Rendered, TlnDBSpec, AtRest
  <2>4. {"Service", "ReadService", "LeaderStatefulSet"} \subseteq Wanted(spec[n])
    <3>1. {"Service", "ReadService", "LeaderStatefulSet"} \subseteq Child
      BY DEF Child, Services, StatefulSets
    <3>2. Taken("Service", spec[n])
      BY DEF Taken, Optional
    <3>3. Taken("ReadService", spec[n])
      BY DEF Taken, Replicated, Optional
    <3>4. Taken("LeaderStatefulSet", spec[n])
      BY DEF Taken, Replicated, Optional
    <3>5. QED
      BY <3>1, <3>2, <3>3, <3>4 DEF Wanted
  <2>5. ASSUME spec[n].readReplicas # 0 PROVE "FollowerStatefulSet" \in Wanted(spec[n])
    <3>1. "FollowerStatefulSet" \in Child
      BY DEF Child, StatefulSets
    <3>2. Taken("FollowerStatefulSet", spec[n])
      BY <2>3, <2>5 DEF Taken, Replicated, Optional
    <3>3. QED
      BY <3>1, <3>2 DEF Wanted
  <2>6. stored[Key("Service", n)].instance = n
        /\ stored[Key("Service", n)].body.selector = "leader"
    BY <2>2, <2>4 DEF Reflects, Build, BuildWriteService, serviceWith, StatefulSets
  <2>7. stored[Key("ReadService", n)].instance = n
        /\ stored[Key("ReadService", n)].body.selector =
             IF spec[n].readReplicas = 0 THEN "leader" ELSE "follower"
    BY <2>2, <2>4 DEF Reflects, Build, BuildReadService, serviceWith, StatefulSets
  <2>8. RoleOf["LeaderStatefulSet"] = "leader" /\ RoleOf["FollowerStatefulSet"] = "follower"
    BY DEF RoleOf
  <2>9. "LeaderStatefulSet" \in StatefulSets /\ "FollowerStatefulSet" \in StatefulSets
    BY DEF StatefulSets
  <2>10. Backends(Key("Service", n)) = {Key("LeaderStatefulSet", n)}
    BY <2>2, <2>4, <2>6, <2>8, <2>9, SelectsRole
  <2>11. CASE spec[n].readReplicas = 0
    BY <2>2, <2>4, <2>7, <2>8, <2>9, <2>10, <2>11, SelectsRole
  <2>12. CASE spec[n].readReplicas # 0
    BY <2>2, <2>5, <2>7, <2>8, <2>9, <2>10, <2>12, SelectsRole
  <2>13. QED
    BY <2>11, <2>12
<1>2. QED
  BY <1>1, InitOwners, NextOwners, PTL DEF Spec

-----------------------------------------------------------------------------
(***************************************************************************)
(* All ports agree, for every set of names, specs and addresses.           *)
(*                                                                         *)
(* What is settled (OInv) has the config hash of the stored                *)
(* spec; Services and the NetworkPolicy are rewritten by every call and    *)
(* have its ports too.  A StatefulSet is rewritten only if its hash is     *)
(* wrong, so its ports need a reason of their own: they belong to the      *)
(* config that was hashed or, after an edit, to the newer one.             *)
(***************************************************************************)

Match(hash, config) == hash = HashStringData(renderConfigYAML(config))

(***************************************************************************)
(* Before the first edit a call works with the stored spec, and hash and   *)
(* ports match wherever they are.                                          *)
(***************************************************************************)
Hashed == call # None /\ "ConfigMap" \in Before(call.step, call.spec)

Unedited ==
  /\ call # None => call.spec = spec[call.name]
  /\ Hashed => Match(call.hash, call.spec.config)
  /\ \A k \in StatefulSets, n \in Names : Owned(k, n) =>
       LET body == stored[Key(k, n)].body IN Match(body.hash, body.template.ports)

(***************************************************************************)
(* After one edit they match, or the ports are already the new ones.       *)
(***************************************************************************)
EditedOnce ==
  /\ Hashed => \/ Match(call.hash, call.spec.config)
               \/ call.spec.config = spec[call.name].config
  /\ \A k \in StatefulSets, n \in Names : Owned(k, n) /\ spec[n] # None =>
       LET body == stored[Key(k, n)].body IN
       \/ Match(body.hash, body.template.ports)
       \/ body.template.ports = spec[n].config

PInv ==
  /\ OInv /\ edits \in Nat
  /\ edits = 0 => Unedited
  /\ edits = 1 => EditedOnce

-----------------------------------------------------------------------------
(***************************************************************************)
(* Parsing an address.                                                     *)
(***************************************************************************)
LEMMA SecondPart ==
  ASSUME NEW S, NEW a \in Seq(S), Len(a) = 2 PROVE a[2] \in S
OBVIOUS

\* What follows the colon of an address with no host is one of its parts.
LEMMA PortPart ==
  ASSUME NEW S, NEW part, NEW a \in Seq(S), a = <<"", part>>
  PROVE  part \in S /\ Number[a[Len(a)]] = Number[part]
<1>1. Len(a) = 2
  OBVIOUS
<1>2. a[2] = part
  OBVIOUS
<1>3. a[2] \in S
  BY <1>1, SecondPart, Zenon
<1>4. QED
  BY <1>1, <1>2, <1>3, Zenon

\* A usable address is parsed to its port.
LEMMA ParsedPort ==
  ASSUME NEW S, NEW addr \in Seq(S), NEW def, Usable(addr)
  PROVE  PortFromAddr(addr, def) = Number[addr[Len(addr)]]
<1>1. PICK p : p = Number[addr[Len(addr)]]
  OBVIOUS
<1>2. Len(addr) # 1 /\ p \in 1 .. MaxPort
  BY <1>1 DEF Usable
<1>3. p # None
  BY <1>2, NumberAssumption
<1>4. ~ (p <= 0 \/ p > MaxPort)
  <2>1. MaxPort \in Int
    BY DEF MaxPort
  <2>2. QED
    BY <1>2, <2>1
<1>5. QED
  BY <1>1, <1>2, <1>3, <1>4 DEF PortFromAddr

\* An empty address is parsed to the default.
LEMMA DefaultPort ==
  ASSUME NEW def PROVE PortFromAddr(<<"">>, def) = def
<1>1. Len(<<"">>) = 1
  OBVIOUS
<1>2. QED
  BY <1>1 DEF PortFromAddr

(***************************************************************************)
(* The two defaults agree: the port parsed from the spec is the one in the *)
(* rendered config, wherever that one can be listened on.                  *)
(***************************************************************************)
FillsIn(written, rendered, spelled) ==
  rendered = IF written = <<"">> THEN <<"", spelled>> ELSE written

\* The port read from the written address is the one in the rendered address.
LEMMA RenderedPort ==
  ASSUME NEW S, NEW written, NEW rendered \in Seq(S), NEW spelled, NEW def,
         FillsIn(written, rendered, spelled),
         spelled \in S => Number[spelled] = def, Usable(rendered)
  PROVE  PortFromAddr(written, def) = Number[rendered[Len(rendered)]]
<1>1. CASE written = <<"">>
  <2>1. rendered = <<"", spelled>>
    BY <1>1 DEF FillsIn
  <2>2. spelled \in S /\ Number[rendered[Len(rendered)]] = Number[spelled]
    BY <2>1, PortPart, Zenon
  <2>3. PortFromAddr(written, def) = def
    BY <1>1, DefaultPort, Zenon
  <2>4. QED
    BY <2>2, <2>3, Zenon
<1>2. CASE written # <<"">>
  <2>1. rendered = written
    BY <1>2 DEF FillsIn
  <2>2. QED
    BY <2>1, ParsedPort, Zenon
<1>3. QED
  BY <1>1, <1>2

\* RenderedPort for the address a config.yaml was rendered from.
LEMMA PortOfRendered ==
  ASSUME NEW c \in Configs, NEW listener \in {"tcp", "http"},
         Usable(renderConfigYAML(c)[listener])
  PROVE  LET addr == renderConfigYAML(c)[listener] IN
         Port(c, listener) = Number[addr[Len(addr)]]
<1>1. PICK r : r = renderConfigYAML(c)
  OBVIOUS
<1>2. PICK S : S = DOMAIN Number
  OBVIOUS
<1>3. r \in [tcp : Addresses, http : Addresses]
  BY <1>1, RenderAssumption, NetworkAssumption, Zenon
<1>4. r.tcp \in Seq(S) /\ r.http \in Seq(S)
  BY <1>2, <1>3 DEF Addresses
<1>5. FillsIn(c.tcp, r.tcp, "9899") /\ FillsIn(c.http, r.http, "8080")
  BY <1>1 DEF renderConfigYAML, FillsIn
<1>6. CASE listener = "tcp"
  <2>1. Usable(r.tcp)
    BY <1>1, <1>6
  <2>2. "9899" \in S => Number["9899"] = DefaultGRPCPort
    BY <1>2, NumberAssumption, Zenon
  <2>3. PortFromAddr(c.tcp, DefaultGRPCPort) = Number[r.tcp[Len(r.tcp)]]
    BY <1>4, <1>5, <2>1, <2>2, RenderedPort, SMT
  <2>4. QED
    BY <1>1, <1>6, <2>3 DEF Port
<1>7. CASE listener = "http"
  <2>1. Usable(r.http)
    BY <1>1, <1>7
  <2>2. "8080" \in S => Number["8080"] = DefaultHTTPPort
    BY <1>2, NumberAssumption, Zenon
  <2>3. PortFromAddr(c.http, DefaultHTTPPort) = Number[r.http[Len(r.http)]]
    BY <1>4, <1>5, <2>1, <2>2, RenderedPort, SMT
  <2>4. QED
    BY <1>1, <1>7, <2>3 DEF Port
<1>8. QED
  BY <1>6, <1>7

(***************************************************************************)
(* A hash that matches two configs stands for the same ports.              *)
(***************************************************************************)
LEMMA MatchingPorts ==
  ASSUME NEW c \in Configs, NEW d \in Configs, NEW h, Match(h, c), Match(h, d),
         NEW listener \in {"tcp", "http"}, Usable(renderConfigYAML(c)[listener])
  PROVE  Port(c, listener) = Port(d, listener)
<1>1. renderConfigYAML(c) \in Configs /\ renderConfigYAML(d) \in Configs
  BY RenderAssumption
<1>2. renderConfigYAML(c) = renderConfigYAML(d)
  BY <1>1, NoCollisions DEF Match
<1>3. QED
  BY <1>2, PortOfRendered

-----------------------------------------------------------------------------
(***************************************************************************)
(* Who writes a StatefulSet's hash and ports: a helper of its owner.       *)
(***************************************************************************)
LEMMA DesiredPorts ==
  ASSUME NEW k \in StatefulSets, NEW n
  PROVE  /\ Desired(k, n).body.hash = call.hash
         /\ Desired(k, n).body.template.ports = call.spec.config
<1>1. CASE k = "StatefulSet"
  BY <1>1 DEF Desired, Build, BuildStatefulSet, buildStatefulSet
<1>2. CASE k = "LeaderStatefulSet"
  BY <1>2 DEF Desired, Build, BuildLeaderStatefulSet, buildStatefulSet
<1>3. CASE k = "FollowerStatefulSet"
  BY <1>3 DEF Desired, Build, BuildFollowerStatefulSet, buildStatefulSet
<1>4. QED
  BY <1>1, <1>2, <1>3 DEF StatefulSets

Retained(k, n) == Owned(k, n) /\ stored'[Key(k, n)] = stored[Key(k, n)]

Written(k, n) ==
  /\ call # None /\ call.name = n /\ call.step = k
  /\ stored'[Key(k, n)].body.hash = call.hash
  /\ stored'[Key(k, n)].body.template.ports = call.spec.config

\* A helper keeps a StatefulSet's hash and ports or writes those of the call.
LEMMA CreateOrUpdateWrites ==
  ASSUME OInv, NEW j \in Child, CreateOrUpdate(j), NEW k \in StatefulSets,
         NEW n \in Names, Owned(k, n)'
  PROVE  Retained(k, n) \/ Written(k, n)
<1>1. PICK m \in Names : m = call.name /\ call # None /\ call.step = j
  BY DEF CreateOrUpdate, OInv, NetworkTypeOK, Call
<1>2. k \in Child /\ Key(j, m) \in Keys /\ Key(k, n) \in Keys
  BY DEF Child, Keys
<1>3. CASE stored'[Key(k, n)] = stored[Key(k, n)]
  BY <1>3 DEF Owned, Retained
<1>4. CASE stored'[Key(k, n)] # stored[Key(k, n)]
  <2>1. PICK new : /\ Put(Key(j, m), new)
                   /\ \/ stored[Key(j, m)] = None /\ new = Desired(j, m)
                      \/ /\ stored[Key(j, m)] # None
                         /\ ~ Refused(j, stored[Key(j, m)], Desired(j, m))
                         /\ new = Merged(j, stored[Key(j, m)], Desired(j, m))
    BY <1>1, <1>4 DEF CreateOrUpdate, Fail
  <2>2. Key(k, n) = Key(j, m) /\ stored'[Key(k, n)] = new
    BY <1>2, <1>4, <2>1, PutStored
  <2>3. j \in StatefulSets
    BY <1>2, <2>2, KeyKind
  <2>4. PICK desired \in Object(j) : /\ desired = Desired(j, m)
                                     /\ desired.owner = m /\ desired.instance = m
    BY <1>1, DesiredType DEF Desired
  <2>5. new.owner = n
    BY <2>2 DEF Owned
  <2>6. CASE stored[Key(j, m)] = None
    <3>1. new = desired
      BY <2>1, <2>4, <2>6
    <3>2. n = m
      BY <2>4, <2>5, <3>1
    <3>3. j = k
      BY <1>2, <2>2, <3>2, KeyOwn
    <3>4. QED
      BY <1>1, <2>2, <2>3, <2>4, <3>1, <3>2, <3>3, DesiredPorts DEF Written
  <2>7. CASE stored[Key(j, m)] # None
    <3>1. PICK old \in Object(j) : old = stored[Key(j, m)]
      BY <2>7 DEF OInv, NetworkTypeOK
    <3>2. new = Merged(j, old, desired) /\ ~ Refused(j, old, desired)
      BY <2>1, <2>4, <2>7, <3>1
    <3>3. /\ new.owner = old.owner
          /\ new.body = UpdatedBody(j, old.body, desired.body)
      BY <2>3, <3>2, MergedType DEF StatefulSets
    <3>4. old.instance = m
      BY <2>3, <2>4, <3>2 DEF Refused
    <3>5. Owned(k, n) /\ k \in Child \ Services
      BY <1>2, <2>2, <2>5, <2>7, <3>1, <3>3 DEF Owned, Services, StatefulSets
    <3>6. old.instance = n
      BY <2>2, <3>1, <3>5 DEF OInv, Shape
    <3>7. n = m /\ j = k
      BY <1>2, <2>2, <3>4, <3>6, KeyOwn
    <3>8. old.body \in StatefulSetBody /\ desired.body \in StatefulSetBody
      BY <2>3, StatefulSetBodies DEF Object
    <3>9. new.body.hash = desired.body.hash /\ new.body.template = desired.body.template
      BY <2>3, <3>3, <3>8, UpdatedStatefulSet
    <3>10. QED
      BY <1>1, <2>2, <2>3, <2>4, <3>7, <3>9, DesiredPorts DEF Written
  <2>8. QED
    BY <2>6, <2>7
<1>5. QED
  BY <1>3, <1>4

\* The other steps only take StatefulSets away.
LEMMA StatefulSetAfter ==
  ASSUME OInv, Next, NEW k \in StatefulSets, NEW n \in Names, Owned(k, n)'
  PROVE  Retained(k, n) \/ Written(k, n)
<1>1. k \in Child /\ Key(k, n) \in Keys
  BY DEF Child, Keys
<1>2. CASE UNCHANGED stored
  BY <1>2 DEF Retained, Owned
<1>3. CASE \E key \in Keys : Put(key, None)
  <2>1. PICK key \in Keys : Put(key, None)
    BY <1>3
  <2>2. stored'[Key(k, n)] \in {None, stored[Key(k, n)]}
    BY <1>1, <2>1, PutStored
  <2>3. QED
    BY <2>2 DEF Retained, Owned
<1>4. CASE PruneFollower
  <2>1. call.name \in Names /\ "FollowerStatefulSet" \in Child
    BY <1>4 DEF PruneFollower, OInv, NetworkTypeOK, Call, Child, StatefulSets
  <2>2. Key("FollowerStatefulSet", call.name) \in Keys
    BY <2>1 DEF Keys
  <2>3. QED
    BY <1>3, <1>4, <2>2 DEF PruneFollower
<1>5. QED
  BY <1>2, <1>3, <1>4, CreateOrUpdateWrites DEF Next, Calls, SetCondition, PersistStatus,
     Reconcile, UserCreate, UserEdit, UserDelete, CollectGarbage

\* A helper that writes a StatefulSet has the hash.
LEMMA WrittenHashed ==
  ASSUME OInv, NEW k \in StatefulSets, NEW n, Written(k, n)
  PROVE  Hashed
<1>1. call # None /\ call.step = k /\ call \in Call /\ ~ call.spec.configFrom
  BY DEF Written, OInv, NetworkTypeOK, Present
<1>2. call.spec \in TlnDBSpec
  BY <1>1 DEF Call
<1>3. Before(k, call.spec) \cap {"ConfigMap", "ExternalConfigMap"} # {}
  BY <1>2, HashBehind
<1>4. "ExternalConfigMap" \notin Before(k, call.spec)
  BY <1>1, TakenConfig DEF Before
<1>5. QED
  BY <1>1, <1>3, <1>4 DEF Hashed

(***************************************************************************)
(* Where the hash of a call comes from: it was just computed, or it was    *)
(* there before, and the call's config is the one it was, or the stored    *)
(* one since a setCondition.                                               *)
(***************************************************************************)
Computed == Match(call'.hash, call'.spec.config)

Carried ==
  /\ Hashed /\ call'.hash = call.hash /\ call'.name = call.name
  /\ call'.spec = call.spec \/ call'.spec.config = spec[call.name].config

\* A helper's step computes the hash (ConfigMap) or carries on the one the call has.
LEMMA CreateOrUpdateHash ==
  ASSUME OInv, NEW k \in Child, CreateOrUpdate(k), Hashed'
  PROVE  Computed \/ Carried
<1>1. call # None /\ call.step = k /\ call \in Call /\ call' # None
  BY DEF CreateOrUpdate, OInv, NetworkTypeOK, Hashed
<1>2. Proceed(k)
  BY <1>1 DEF CreateOrUpdate, Fail, Proceed
<1>3. PICK s : s = call.spec
  OBVIOUS
<1>4. PICK next : next = NextStep(k, s)
  OBVIOUS
<1>5. /\ call'.spec = s /\ call'.name = call.name /\ call'.step = next
      /\ call'.hash = IF k = "ConfigMap"
                        THEN HashStringData(Desired(k, call.name).body) ELSE call.hash
  BY <1>1, <1>2, <1>3, <1>4 DEF Proceed, Call
<1>6. k \in Steps \ {"PersistStatus"}
  BY StepNames DEF Child, Services, StatefulSets, Optional
<1>7. "ConfigMap" \in Before(k, s) \cup {k}
  BY <1>4, <1>5, <1>6, NextStepBehind DEF Hashed
<1>8. CASE k = "ConfigMap"
  BY <1>3, <1>5, <1>8 DEF Computed, Match, Desired
<1>9. CASE k # "ConfigMap"
  BY <1>1, <1>3, <1>5, <1>7, <1>9 DEF Carried, Hashed
<1>10. QED
  BY <1>8, <1>9

\* Pruning the follower set carries on the hash the call has.
LEMMA PruneFollowerHash ==
  ASSUME OInv, PruneFollower, Hashed' PROVE Carried
<1>1. call # None /\ call.step = "PruneFollower" /\ call \in Call
  BY DEF PruneFollower, OInv, NetworkTypeOK
<1>2. PICK s : s = call.spec
  OBVIOUS
<1>3. PICK next : next = NextStep("PruneFollower", s)
  OBVIOUS
<1>4. /\ call'.spec = s /\ call'.name = call.name /\ call'.step = next
      /\ call'.hash = call.hash
  BY <1>1, <1>2, <1>3 DEF PruneFollower, Call
<1>5. "PruneFollower" \in Steps \ {"PersistStatus"}
  BY StepNames
<1>6. "ConfigMap" \in Before("PruneFollower", s)
  BY <1>3, <1>4, <1>5, NextStepBehind DEF Hashed
<1>7. QED
  BY <1>1, <1>2, <1>4, <1>6 DEF Carried, Hashed

\* setCondition switches to the stored spec.
LEMMA SetConditionHash ==
  ASSUME OInv, SetCondition, Hashed' PROVE Carried
<1>1. /\ call # None /\ call \in Call /\ ~ call.spec.configFrom
      /\ call.step \in {"RBACReady", "ConfigMapReady", "ServiceReady",
                        "NetworkPolicyReady", "ServiceMonitorReady"}
  BY DEF SetCondition, OInv, NetworkTypeOK, Present
<1>2. PICK step \in Steps \ {"PersistStatus", "ConfigMap"} : step = call.step
  BY <1>1 DEF Call
<1>3. spec[call.name] \in Rendered
  BY <1>1 DEF OInv, NetworkTypeOK, Present, Call
<1>4. PICK d : d = [spec[call.name] EXCEPT
                      !.serviceAccountName = @ \/ call.spec.serviceAccountName]
  OBVIOUS
<1>5. d.config = spec[call.name].config
  BY <1>3, <1>4 DEF Rendered, TlnDBSpec
<1>6. PICK next : next = NextStep(step, d)
  OBVIOUS
<1>7. call' = [call EXCEPT !.step = next, !.spec = d]
  BY <1>2, <1>4, <1>6 DEF SetCondition
<1>8. /\ call'.spec = d /\ call'.name = call.name /\ call'.step = next
      /\ call'.hash = call.hash
  BY <1>1, <1>7 DEF Call
<1>9. "ConfigMap" \in Before(step, d)
  BY <1>2, <1>6, <1>8, NextStepBehind DEF Hashed
<1>10. "ConfigMap" \in Before(step, call.spec)
  BY <1>1, <1>9, TakenConfig DEF Before
<1>11. QED
  BY <1>1, <1>2, <1>5, <1>8, <1>10 DEF Carried, Hashed

\* The remaining steps compute no hash.
LEMMA HashAfter ==
  ASSUME OInv, Next, Hashed' PROVE Computed \/ Carried
<1>1. CASE Calls
  <2>1. ~ PersistStatus
    BY DEF PersistStatus, Hashed
  <2>2. QED
    BY <1>1, <2>1, CreateOrUpdateHash, PruneFollowerHash, SetConditionHash DEF Calls
<1>2. CASE call' = call
  BY <1>2 DEF Carried, Hashed
<1>3. ASSUME NEW n \in Names, Reconcile(n) PROVE FALSE
  <2>1. PICK s : s = spec[n]
    OBVIOUS
  <2>2. call' # None
    BY DEF Hashed
  <2>3. call' = [name |-> n, spec |-> s, hash |-> None, step |-> FirstStep(s)]
    BY <1>3, <2>1, <2>2 DEF Reconcile
  <2>4. "ConfigMap" \in Before(FirstStep(s), s)
    BY <2>3 DEF Hashed
  <2>5. QED
    BY <2>4, FirstStepBehind
<1>4. QED
  BY <1>1, <1>2, <1>3 DEF Next, UserCreate, UserEdit, UserDelete, CollectGarbage

\* Before the first edit a call keeps to the stored spec.
LEMMA SpecAfter ==
  ASSUME OInv, Unedited, Next, UNCHANGED spec, call' # None
  PROVE  call'.spec = spec[call'.name]
<1>1. CASE call # None /\ call'.spec = call.spec /\ call'.name = call.name
  BY <1>1 DEF Unedited
<1>2. ASSUME NEW k \in Child, CreateOrUpdate(k) PROVE call'.spec = spec[call'.name]
  <2>1. call # None /\ call.step = k /\ Proceed(k)
    BY <1>2 DEF CreateOrUpdate, Fail, Proceed
  <2>2. QED
    BY <1>1, <2>1, Proceeds
<1>3. CASE PruneFollower
  BY <1>1, <1>3 DEF PruneFollower, OInv, NetworkTypeOK, Call
<1>4. CASE SetCondition
  <2>1. /\ call # None /\ call \in Call /\ call.spec = spec[call.name]
        /\ spec[call.name] \in Rendered
    BY <1>4 DEF SetCondition, Unedited, OInv, NetworkTypeOK, Present, Call
  <2>2. PICK s \in TlnDBSpec : s = spec[call.name]
    BY <2>1 DEF Rendered
  <2>3. [s EXCEPT !.serviceAccountName = @ \/ s.serviceAccountName] = s
    BY DEF TlnDBSpec
  <2>4. PICK next : call' = [call EXCEPT !.step = next, !.spec = s]
    BY <1>4, <2>1, <2>2, <2>3 DEF SetCondition
  <2>5. call'.spec = s /\ call'.name = call.name
    BY <2>1, <2>4 DEF Call
  <2>6. QED
    BY <2>2, <2>5
<1>5. ASSUME NEW n \in Names, Reconcile(n) PROVE call'.spec = spec[call'.name]
  BY <1>5 DEF Reconcile
<1>6. CASE call' = call
  BY <1>6 DEF Unedited
<1>7. QED
  BY <1>2, <1>3, <1>4, <1>5, <1>6 DEF Next, Calls, PersistStatus, UserCreate, UserEdit,
     UserDelete, CollectGarbage

-----------------------------------------------------------------------------
(***************************************************************************)
(* Steps that leave the specs alone.                                       *)
(***************************************************************************)
LEMMA UneditedStep ==
  ASSUME OInv, Unedited, Next, UNCHANGED spec PROVE Unedited'
<1>1. call' # None => call'.spec = spec[call'.name]
  BY SpecAfter
<1>2. ASSUME Hashed' PROVE Match(call'.hash, call'.spec.config)
  <2>1. CASE Computed
    BY <2>1 DEF Computed
  <2>2. CASE Carried
    <3>1. call # None /\ call.spec = spec[call.name] /\ Match(call.hash, call.spec.config)
      BY <2>2 DEF Carried, Unedited, Hashed
    <3>2. QED
      BY <2>2, <3>1 DEF Carried
  <2>3. QED
    BY <1>2, <2>1, <2>2, HashAfter
<1>3. ASSUME NEW k \in StatefulSets, NEW n \in Names, Owned(k, n)'
      PROVE  LET body == stored'[Key(k, n)].body IN Match(body.hash, body.template.ports)
  <2>1. CASE Retained(k, n)
    BY <2>1 DEF Retained, Unedited
  <2>2. CASE Written(k, n)
    BY <2>2, WrittenHashed DEF Written, Unedited
  <2>3. QED
    BY <1>3, <2>1, <2>2, StatefulSetAfter
<1>4. QED
  BY <1>1, <1>2, <1>3 DEF Unedited, Match

\* After the only edit every step keeps EditedOnce.
LEMMA EditedStep ==
  ASSUME OInv, EditedOnce, Next, UNCHANGED spec PROVE EditedOnce'
<1>1. ASSUME Hashed'
      PROVE  \/ Match(call'.hash, call'.spec.config)
             \/ call'.spec.config = spec[call'.name].config
  <2>1. CASE Computed
    BY <2>1 DEF Computed
  <2>2. CASE Carried
    BY <2>2 DEF Carried, EditedOnce
  <2>3. QED
    BY <1>1, <2>1, <2>2, HashAfter
<1>2. ASSUME NEW k \in StatefulSets, NEW n \in Names, Owned(k, n)', spec[n] # None
      PROVE  LET body == stored'[Key(k, n)].body IN
             \/ Match(body.hash, body.template.ports)
             \/ body.template.ports = spec[n].config
  <2>1. CASE Retained(k, n)
    BY <1>2, <2>1 DEF Retained, EditedOnce
  <2>2. CASE Written(k, n)
    BY <2>2, WrittenHashed DEF Written, EditedOnce
  <2>3. QED
    BY <1>2, <2>1, <2>2, StatefulSetAfter
<1>3. QED
  BY <1>1, <1>2 DEF EditedOnce, Match

(***************************************************************************)
(* Steps that change one spec: a creation, of a TlnDB that has no object   *)
(* and no call yet, and the first edit.                                    *)
(***************************************************************************)
LEMMA CreationStep ==
  ASSUME OInv, NEW m \in Names, UserCreate(m)
  PROVE  (Unedited => Unedited') /\ (EditedOnce => EditedOnce')
<1>1. UNCHANGED <<stored, call>> /\ m \notin Created
  BY DEF UserCreate
<1>2. \A n \in Names : n # m => spec'[n] = spec[n]
  BY DEF UserCreate, OInv, NetworkTypeOK
<1>3. call # None => spec'[call.name] = spec[call.name]
  BY <1>1, <1>2 DEF OInv, NetworkTypeOK, Present, Call, Created
<1>4. \A k \in StatefulSets, n \in Names : Owned(k, n) => spec'[n] = spec[n]
  <2> SUFFICES ASSUME NEW k \in StatefulSets, NEW n \in Names, Owned(k, n)
               PROVE  n # m
    BY <1>2
  <2>1. Key(k, n) \in Keys
    BY DEF Keys, Child
  <2>2. n \in Created
    BY <2>1 DEF Owned, OInv, Present
  <2>3. QED
    BY <1>1, <2>2
<1>5. Hashed' <=> Hashed
  BY <1>1 DEF Hashed
<1>6. \A k, n : Owned(k, n)' <=> Owned(k, n)
  BY <1>1 DEF Owned
<1>7. Unedited => Unedited'
  BY <1>1, <1>3, <1>5, <1>6 DEF Unedited, Match
<1>8. EditedOnce => EditedOnce'
  <2> SUFFICES ASSUME EditedOnce PROVE EditedOnce'
    OBVIOUS
  <2>1. ASSUME NEW k \in StatefulSets, NEW n \in Names, Owned(k, n)', spec'[n] # None
        PROVE  LET body == stored'[Key(k, n)].body IN
               \/ Match(body.hash, body.template.ports)
               \/ body.template.ports = spec'[n].config
    <3>1. Owned(k, n) /\ spec'[n] = spec[n]
      BY <1>4, <1>6, <2>1
    <3>2. QED
      BY <1>1, <2>1, <3>1 DEF EditedOnce
  <2>2. ASSUME Hashed'
        PROVE  \/ Match(call'.hash, call'.spec.config)
               \/ call'.spec.config = spec'[call'.name].config
    <3>1. Hashed /\ call # None
      BY <1>5, <2>2 DEF Hashed
    <3>2. QED
      BY <1>1, <1>3, <3>1 DEF EditedOnce
  <2>3. QED
    BY <2>1, <2>2 DEF EditedOnce, Match
<1>9. QED
  BY <1>7, <1>8

\* The first edit leads from Unedited to EditedOnce.
LEMMA FirstEditStep ==
  ASSUME OInv, Unedited, NEW m \in Names, UserEdit(m) \/ UserDelete(m)
  PROVE  EditedOnce'
<1>1. UNCHANGED <<stored, call>>
  BY DEF UserEdit, UserDelete
<1>2. (Hashed' <=> Hashed) /\ \A k, n : Owned(k, n)' <=> Owned(k, n)
  <2>1. Hashed' <=> Hashed
    BY <1>1 DEF Hashed
  <2>2. \A k, n : Owned(k, n)' <=> Owned(k, n)
    BY <1>1, Zenon DEF Owned
  <2>3. QED
    BY <2>1, <2>2, Zenon
<1>3. QED
  BY <1>1, <1>2 DEF Unedited, EditedOnce, Match

\* Every step keeps PInv.
LEMMA PortsStep == PInv /\ [Next]_vars => PInv'
<1> SUFFICES ASSUME PInv, [Next]_vars PROVE PInv'
  OBVIOUS
<1>0. OInv /\ OInv' /\ edits \in Nat
  BY NextOwners DEF PInv
<1>1. CASE UNCHANGED vars
  <2>1. UNCHANGED <<spec, stored, call, edits>>
    BY <1>1 DEF vars
  <2>2. (Hashed' <=> Hashed) /\ \A k, n : Owned(k, n)' <=> Owned(k, n)
    BY <2>1 DEF Hashed, Owned
  <2>3. Unedited => Unedited'
    BY <2>1, <2>2 DEF Unedited, Match
  <2>4. EditedOnce => EditedOnce'
    BY <2>1, <2>2 DEF EditedOnce, Match
  <2>5. QED
    BY <1>0, <2>1, <2>3, <2>4 DEF PInv
<1>2. ASSUME NEW m \in Names, UserEdit(m) \/ UserDelete(m) PROVE PInv'
  <2>1. edits' = edits + 1
    BY <1>2 DEF UserEdit, UserDelete
  <2>2. edits = 0 => EditedOnce'
    BY <1>0, <1>2, FirstEditStep DEF PInv
  <2>3. edits' \in Nat /\ edits' # 0 /\ (edits' = 1 => edits = 0)
    BY <1>0, <2>1
  <2>4. QED
    BY <1>0, <2>2, <2>3 DEF PInv
<1>3. ASSUME NEW m \in Names, UserCreate(m) PROVE PInv'
  <2>1. edits' = edits
    BY <1>3 DEF UserCreate
  <2>2. QED
    BY <1>0, <1>3, <2>1, CreationStep DEF PInv
<1>4. CASE Next /\ UNCHANGED <<spec, edits>>
  BY <1>0, <1>4, UneditedStep, EditedStep, Zenon DEF PInv
<1>5. QED
  BY <1>1, <1>2, <1>3, <1>4, Zenon
     DEF Next, Calls, CreateOrUpdate, PruneFollower, SetCondition, PersistStatus, Reconcile,
         CollectGarbage

-----------------------------------------------------------------------------
(***************************************************************************)
(* Ports agree: when the operator is done with a TlnDB whose name clashes  *)
(* with no other, Services, NetworkPolicy and (up to the first edit)       *)
(* StatefulSets name the port that the pods listen on, whatever the listen *)
(* addresses, if they can be listened on at all.                           *)
(***************************************************************************)
THEOREM OnePortPerListener == Spec => []PortsAgree
<1>1. Init => PInv
  <2> SUFFICES ASSUME Init PROVE PInv
    OBVIOUS
  <2>1. OInv
    BY InitOwners
  <2>2. \A k \in StatefulSets, n \in Names : ~ Owned(k, n)
    <3>1. \A k \in StatefulSets, n \in Names : Key(k, n) \in Keys
      BY DEF Keys, Child
    <3>2. QED
      BY <3>1 DEF Init, Owned
  <2>3. Unedited
    BY <2>2 DEF Init, Unedited, Hashed
  <2>4. QED
    BY <2>1, <2>3 DEF Init, PInv
<1>2. PInv => PortsAgree
  <2> SUFFICES ASSUME PInv, NEW n \in Names, NEW listener \in {"tcp", "http"},
                      AtRest(n), Apart(n),
                      Usable(renderConfigYAML(spec[n].config)[listener])
      PROVE  /\ \A k \in Wanted(spec[n]) \cap (Services \cup {"NetworkPolicy"}) :
                  Listens(n, listener) = Port(stored[Key(k, n)].body.ports, listener)
             /\ edits <= 1 => \A k \in Wanted(spec[n]) \cap StatefulSets :
                  Listens(n, listener) =
                    Port(stored[Key(k, n)].body.template.ports, listener)
    BY DEF PortsAgree
  <2>1. OInv /\ edits \in Nat
    BY DEF PInv
  <2>2. \A k \in Wanted(spec[n]) : Owned(k, n) /\ Reflects(stored[Key(k, n)], k, n)
    BY <2>1 DEF OInv, Rights, WorkRight, AtRest, SettledAt
  <2>3. spec[n] \in TlnDBSpec /\ ~ spec[n].configFrom /\ spec[n] # None
    BY <2>1 DEF OInv, NetworkTypeOK, Rendered, AtRest
  <2>4. PICK c \in Configs : c = spec[n].config
    BY <2>3 DEF TlnDBSpec
  <2>5. "ConfigMap" \in Wanted(spec[n])
    BY <2>3, TakenConfig DEF Wanted, Child
  <2>6. stored[Key("ConfigMap", n)].body = renderConfigYAML(c)
    BY <2>2, <2>4, <2>5 DEF Reflects, StatefulSets
  <2>7. Listens(n, listener) = Port(c, listener)
    BY <2>4, <2>6, PortOfRendered DEF Listens
  <2>8. ASSUME NEW k \in Wanted(spec[n]) \cap (Services \cup {"NetworkPolicy"})
        PROVE  stored[Key(k, n)].body.ports = c
    <3>1. k \notin StatefulSets \cup {"ConfigMap"}
      BY DEF Services, StatefulSets
    <3>2. PICK h : stored[Key(k, n)].body = Build(k, spec[n], h)
      BY <2>2, <3>1 DEF Reflects
    <3>3. Build(k, spec[n], h).ports = spec[n].config
      <4>1. CASE k = "NetworkPolicy"
        BY <4>1 DEF Build, BuildNetworkPolicy
      <4>2. CASE k = "HeadlessService"
        BY <4>2 DEF Build, BuildHeadlessService
      <4>3. CASE k = "Service"
        BY <4>3 DEF Build, BuildService, BuildWriteService, serviceWith
      <4>4. CASE k = "ReadService"
        BY <4>4 DEF Build, BuildReadService, serviceWith
      <4>5. QED
        BY <4>1, <4>2, <4>3, <4>4 DEF Services
    <3>4. QED
      BY <2>4, <3>2, <3>3
  <2>9. ASSUME edits <= 1, NEW k \in Wanted(spec[n]) \cap StatefulSets
        PROVE  Port(c, listener) = Port(stored[Key(k, n)].body.template.ports, listener)
    <3>1. k \in Child /\ Owned(k, n) /\ Reflects(stored[Key(k, n)], k, n)
      BY <2>2 DEF Wanted
    <3>2. PICK body : body = stored[Key(k, n)].body
      OBVIOUS
    <3>3. body \in StatefulSetBody
      BY <2>1, <3>1, <3>2, StatefulSetBodies DEF OInv, NetworkTypeOK, Object, Owned
    <3>4. body.template.ports \in Configs
      BY <3>3 DEF StatefulSetBody, Template
    <3>5. Match(body.hash, c)
      <4>1. PICK h : h = HashStringData(renderConfigYAML(c))
        OBVIOUS
      <4>2. body.hash = Build(k, spec[n], h).hash
        <5>1. k \in StatefulSets /\ k # "ConfigMap"
          BY DEF StatefulSets
        <5>2. QED
          BY <2>4, <3>1, <3>2, <4>1, <5>1 DEF Reflects
      <4>3. Build(k, spec[n], h).hash = h
        BY <3>1, BuildHash
      <4>4. QED
        BY <4>1, <4>2, <4>3 DEF Match
    <3>6. edits \in {0, 1}
      BY <2>1, <2>9
    <3>7. Match(body.hash, body.template.ports) \/ body.template.ports = c
      BY <2>3, <2>4, <3>1, <3>2, <3>6 DEF PInv, Unedited, EditedOnce
    <3>8. QED
      BY <2>4, <3>2, <3>4, <3>5, <3>7, MatchingPorts
  <2>10. QED
    BY <2>7, <2>8, <2>9
<1>3. QED
  BY <1>1, <1>2, PortsStep, PTL DEF Spec
=============================================================================
