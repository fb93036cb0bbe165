--------------------------- MODULE ReconcileProofs ---------------------------
(***************************************************************************)
(* The safety properties of Reconcile, for every number of instances,      *)
(* changes and faults, and every interleaving of the controllers.  RInv    *)
(* carries what PipelineSafety proves of a run into the cluster: what the  *)
(* run has seen is what the kube objects report or have reported, and what *)
(* it puts has the form that the controllers expect.                       *)
(***************************************************************************)
EXTENDS Reconcile, PipelineSafety

(* The cluster, between any two steps. *)
TypedObjects ==
  /\ DOMAIN objects \subseteq Names
  /\ \A n \in DOMAIN objects :
       /\ objects[n] = [spec |-> objects[n].spec, status |-> objects[n].status]
       /\ objects[n].spec \in ManifestsFor(n)
       /\ objects[n].status = Nil \/ objects[n].status \in ManifestsFor(n)

TypedLive ==
  /\ DOMAIN live \subseteq DOMAIN objects
  /\ \A n \in DOMAIN live : live[n] \in ManifestsFor(n)

TypedRest ==
  /\ DOMAIN ops \subseteq DOMAIN live /\ \A n \in DOMAIN ops : n[1] = "pg-restart"
  /\ IsXR(xr) /\ size \in Sizes
  /\ creds \in [PostgresFields -> {Nil, "v1", "v2"}]
  /\ DOMAIN volumes = LuksInstances /\ excused \subseteq LuksInstances
  /\ clock \in Times
  /\ StartScheme \subseteq scheme /\ scheme \subseteq StartScheme \union {"AlertmanagerConfig"}

Idle ==
  /\ fn = 0 /\ iter = 0 /\ results = <<>> /\ resources = <<>>

(* What a run works on, and what it has made of it so far. *)
Asks(list) == \A n \in NamesIn(list) : n \in Names /\ At(list, n).raw.spec \in ManifestsFor(n)

SnapshotOK ==
  /\ IsXR(Comp) /\ IsXR(request.composite)
  /\ \A n \in NamesIn(request.observed) : n \in Names /\ (~Fails(n) => Observed(n).obj \in ManifestsFor(n))
  /\ RenderedCluster.err = "none" /\ RenderedCluster.obj \in ManifestsFor(Cluster)
  /\ Asks(Rendered)

RunInv ==
  /\ IInv /\ EncryptedComplete /\ FatalReasons /\ RestartOpsExact
  /\ SnapshotOK
  /\ fn > 0 => Asks(resources)
  /\ fn > 0 /\ iter = 0 => io = Synced

(* The key of instance i is one and the same wherever it is. *)
KeyOK(i) ==
  LET n == LuksKey(i) IN
  /\ n \in DOMAIN objects /\ objects[n].status # Nil => objects[n].status.data = objects[n].spec.data
  /\ n \in DOMAIN live => live[n].data = objects[n].spec.data
  /\ volumes[i] # Nil => n \in DOMAIN live /\ live[n].data = volumes[i]
  /\ running /\ n \in DOMAIN objects /\ ~Fails(n) => Observed(n).obj.data = objects[n].spec.data

RInv ==
  /\ TypedObjects /\ TypedLive /\ TypedRest
  /\ running \in BOOLEAN
  /\ ~running => Idle
  /\ running => RunInv /\ NamesIn(request.observed) = DOMAIN objects
  /\ \A i \in LuksInstances \ excused : KeyOK(i)
------------------------------------------------------------------------------
(* Names, and what may be under them. *)

LEMMA NamesApart ==
  /\ Namespace # Connection /\ Namespace # Cluster /\ Connection # Cluster
  /\ \A n \in Base : ~OwnName(n)
  /\ \A i : LuksKey(i) \notin Base
  /\ \A t : RestartOp(t) \notin Base
  BY DEF Base, Namespace, Connection, Cluster, OwnName, LuksKey, RestartOp

LEMMA ManifestsOf ==
  /\ ManifestsFor(Namespace) = {[kind |-> "Namespace"]}
  /\ ManifestsFor(Connection) = ConnectionSecrets
  /\ ManifestsFor(Cluster) = Clusters
  /\ \A i : ManifestsFor(LuksKey(i)) = {LuksSecret(i, key) : key \in NewKeys \ {Bad}}
  /\ \A t : ManifestsFor(RestartOp(t)) = {RestartAt(t)}
<1>1. /\ Namespace # Connection /\ Namespace # Cluster /\ Connection # Cluster
      /\ Namespace[1] \notin {"luks-key", "pg-restart"}
      /\ Connection[1] \notin {"luks-key", "pg-restart"}
      /\ Cluster[1] \notin {"luks-key", "pg-restart"}
  BY DEF Namespace, Connection, Cluster
<1>2. ManifestsFor(Namespace) = {[kind |-> "Namespace"]}
  BY <1>1 DEF ManifestsFor
<1>3. ManifestsFor(Connection) = ConnectionSecrets
  BY <1>1 DEF ManifestsFor
<1>4. ManifestsFor(Cluster) = Clusters
  BY <1>1 DEF ManifestsFor
<1>5. ASSUME NEW i PROVE ManifestsFor(LuksKey(i)) = {LuksSecret(i, key) : key \in NewKeys \ {Bad}}
  <2>1. LuksKey(i)[1] = "luks-key" /\ LuksKey(i)[2] = i
        /\ LuksKey(i) # Namespace /\ LuksKey(i) # Connection /\ LuksKey(i) # Cluster
    BY NamesApart, OwnNames DEF Base
  <2>. QED
    BY <2>1 DEF ManifestsFor
<1>6. ASSUME NEW t PROVE ManifestsFor(RestartOp(t)) = {RestartAt(t)}
  <2>1. RestartOp(t)[1] = "pg-restart" /\ RestartOp(t)[1] # "luks-key" /\ RestartOp(t)[2] = t
        /\ RestartOp(t) # Namespace /\ RestartOp(t) # Connection /\ RestartOp(t) # Cluster
    BY NamesApart, OwnNames DEF Base
  <2>. QED
    BY <2>1 DEF ManifestsFor
<1>. QED
  BY <1>2, <1>3, <1>4, <1>5, <1>6

LEMMA NameCases ==
  ASSUME NEW n \in Names
  PROVE  \/ n \in Base
         \/ \E i \in LuksInstances : n = LuksKey(i)
         \/ \E t \in Times : n = RestartOp(t)
  BY DEF Names

LEMMA KindOfManifest ==
  ASSUME NEW n \in Names, NEW m \in ManifestsFor(n)
  PROVE  m.kind = KindOf(n)
<1> DEFINE K == KindOf(n)
<1>1. CASE n = Namespace
  <2>1. n[1] # "pg-restart" /\ n # Cluster
    BY <1>1, NamesApart DEF Namespace
  <2>2. m.kind = "Namespace" /\ K = "Namespace"
    BY <1>1, <2>1, ManifestsOf DEF KindOf, ConnectionSecrets, Clusters
  <2>. QED
    BY <2>2
<1>2. CASE n = Connection
  <2>1. n[1] # "pg-restart" /\ n # Namespace /\ n # Cluster
    BY <1>2, NamesApart DEF Connection
  <2>2. m.kind = "Secret" /\ K = "Secret"
    BY <1>2, <2>1, ManifestsOf DEF KindOf, ConnectionSecrets, Clusters
  <2>. QED
    BY <2>2
<1>3. CASE n = Cluster
  <2>1. n[1] # "pg-restart" /\ n # Namespace
    BY <1>3, NamesApart DEF Cluster
  <2>2. m.kind = "SGCluster" /\ K = "SGCluster"
    BY <1>3, <2>1, ManifestsOf DEF KindOf, ConnectionSecrets, Clusters
  <2>. QED
    BY <2>2
<1>4. ASSUME NEW i \in LuksInstances, n = LuksKey(i) PROVE m.kind = KindOf(n)
  <2>1. n[1] # "pg-restart" /\ n # Namespace /\ n # Cluster
    BY <1>4, NamesApart, OwnNames DEF Base
  <2>2. m.kind = "Secret"
    BY <1>4, ManifestsOf DEF LuksSecret
  <2>. QED
    BY <2>1, <2>2 DEF KindOf
<1>5. ASSUME NEW t \in Times, n = RestartOp(t) PROVE m.kind = KindOf(n)
  <2>1. n[1] = "pg-restart" /\ n # Namespace /\ n # Cluster
    BY <1>5, NamesApart, OwnNames DEF Base
  <2>2. m.kind = "SGDbOps"
    BY <1>5, ManifestsOf DEF RestartAt
  <2>. QED
    BY <2>1, <2>2 DEF KindOf
<1>. QED
  BY <1>1, <1>2, <1>3, <1>4, <1>5, NameCases DEF Base

(* Nil and Bad are no manifests, nor objects that hold one.                *)
LEMMA Unmarked ==
  ASSUME NEW n \in Names
  PROVE  /\ \A m \in ManifestsFor(n) :
              /\ m # Nil /\ m # Bad
              /\ Extracted(m) = [err |-> "none", obj |-> m]
              /\ \A st \in {Nil} \union ManifestsFor(n) :
                   [kind |-> "Object", meta |-> n, refs |-> {}, spec |-> m, status |-> st] # Bad
  BY MarksAssumption, ExtractedManifest DEF ObjectsFor

LEMMA InstanceIsCounted ==
  ASSUME NEW s \in Sizes, NEW i \in 0 .. s - 1
  PROVE  i \in LuksInstances
<1> DEFINE top == CHOOSE n \in Sizes : \A m \in Sizes : m <= n
<1>1. top \in Sizes /\ \A m \in Sizes : m <= top
  BY ReconcileAssumption
<1>. HIDE DEF top
<1>2. s \in Nat /\ top \in Nat /\ s <= top
  BY <1>1, ReconcileAssumption
<1>3. LuksInstances = 0 .. top - 1
  BY DEF LuksInstances, top
<1>. QED
  BY <1>2, <1>3
------------------------------------------------------------------------------
(* The snapshot *)

LEMMA ObservedList ==
  ASSUME TypedObjects,
         NEW list, list = [i \in DOMAIN Listed(DOMAIN objects) |-> ObservedEntry(Listed(DOMAIN objects)[i])]
  PROVE  /\ IsList(list) /\ NamesIn(list) = DOMAIN objects
         /\ \A n \in DOMAIN objects : ObservedManifest(list, n) = Extracted(objects[n].status)
<1> DEFINE names == Listed(DOMAIN objects)
<1>1. /\ names \in Seq(DOMAIN objects) /\ \A n \in DOMAIN objects : \E i \in DOMAIN names : names[i] = n
      /\ \A i, j \in DOMAIN names : names[i] = names[j] => i = j
  BY ListedAssumption DEF TypedObjects
<1>. HIDE DEF names
<1>2. /\ list = [i \in 1 .. Len(names) |-> ObservedEntry(names[i])] /\ Len(names) \in Nat
      /\ DOMAIN list = DOMAIN names
  BY <1>1 DEF names
<1>3. list \in Seq(Range(list))
  BY <1>2 DEF Range
<1>4. ASSUME NEW i \in DOMAIN list
      PROVE  /\ list[i].raw = [kind |-> "Object", meta |-> names[i], refs |-> {},
                               spec |-> objects[names[i]].spec, status |-> objects[names[i]].status]
             /\ list[i].name = names[i] /\ IsEntry(list[i]) /\ names[i] \in DOMAIN objects
  <2>1. i \in 1 .. Len(names) /\ names[i] \in DOMAIN objects
    BY <1>1, <1>2
  <2>2. list[i] = ObservedEntry(names[i])
    BY <1>2, <2>1
  <2>. QED
    BY <2>1, <2>2 DEF ObservedEntry, IsEntry
<1>40. \A i \in DOMAIN list : list[i].name = names[i] /\ IsEntry(list[i]) /\ names[i] \in DOMAIN objects
  BY <1>4
<1>5. IsList(list)
  <2>1. UniqueIn(list)
    BY <1>1, <1>2, <1>40 DEF UniqueIn
  <2>. QED
    BY <1>3, <1>40, <2>1 DEF IsList
<1>6. NamesIn(list) = DOMAIN objects
  <2>1. NamesIn(list) \subseteq DOMAIN objects
    BY <1>40 DEF NamesIn
  <2>2. ASSUME NEW n \in DOMAIN objects PROVE n \in NamesIn(list)
    <3>1. PICK i \in DOMAIN names : names[i] = n
      BY <1>1
    <3>2. i \in DOMAIN list /\ list[i].name = n
      BY <1>2, <1>40, <3>1
    <3>. QED
      BY <3>2 DEF NamesIn
  <2>. QED
    BY <2>1, <2>2
<1>7. ASSUME NEW n \in DOMAIN objects
      PROVE  ObservedManifest(list, n) = Extracted(objects[n].status)
  <2> DEFINE raw == [kind |-> "Object", meta |-> n, refs |-> {},
                     spec |-> objects[n].spec, status |-> objects[n].status]
             g   == GetFrom(list, KubeObject(Nil, {}), n)
  <2>1. PICK i \in DOMAIN list : names[i] = n
    BY <1>1, <1>2
  <2>2. At(list, n) = list[i] /\ n \in NamesIn(list)
    BY <2>1, <1>40, <1>5, EntryAt
  <2>3. At(list, n).raw = raw
    <3>1. list[i].raw = [kind |-> "Object", meta |-> names[i], refs |-> {},
                         spec |-> objects[names[i]].spec, status |-> objects[names[i]].status]
      BY <1>4
    <3>. QED
      BY <2>1, <2>2, <3>1
  <2>4. raw # Bad
    BY Unmarked DEF TypedObjects
  <2>5. g = [err |-> "none", obj |-> Decode(raw, KubeObject(Nil, {}))]
    BY <1>5, <2>2, <2>3, <2>4, GetFromAt
  <2>6. g.obj.status = objects[n].status
    <3>1. Decode(raw, KubeObject(Nil, {})).status = raw.status
      BY DEF Decode, KubeObject, Over
    <3>. QED
      BY <2>5, <3>1
  <2>7. ObservedManifest(list, n) = IF g.err = "none" THEN Extracted(g.obj.status) ELSE [err |-> g.err, obj |-> Nil]
    BY DEF ObservedManifest
  <2>. HIDE DEF g, raw
  <2>. QED
    BY <2>5, <2>6, <2>7
<1>. QED
  BY <1>5, <1>6, <1>7

(* What a snapshot shows of a kube object is a manifest of its name.       *)
LEMMA ObservedIsTyped ==
  ASSUME TypedObjects,
         NEW list, list = [i \in DOMAIN Listed(DOMAIN objects) |-> ObservedEntry(Listed(DOMAIN objects)[i])],
         NEW n \in DOMAIN objects, ObservedManifest(list, n).err = "none"
  PROVE  /\ objects[n].status # Nil /\ ObservedManifest(list, n).obj = objects[n].status
         /\ ObservedManifest(list, n).obj \in ManifestsFor(n) /\ n \in Names
<1>1. ObservedManifest(list, n) = Extracted(objects[n].status)
  BY ObservedList
<1>2. objects[n].status # Nil
  BY <1>1, ExtractedManifest
<1>3. n \in Names /\ objects[n].status \in ManifestsFor(n)
  BY <1>2 DEF TypedObjects
<1>. QED
  BY <1>1, <1>2, <1>3, Unmarked

LEMMA ObservedIsObserved ==
  ASSUME TypedObjects,
         NEW list, list = [i \in DOMAIN Listed(DOMAIN objects) |-> ObservedEntry(Listed(DOMAIN objects)[i])]
  PROVE  IsObserved(list)
<1>1. IsList(list) /\ NamesIn(list) = DOMAIN objects
  BY ObservedList
<1>2. ASSUME NEW n \in NamesIn(list), ObservedManifest(list, n).err = "none"
      PROVE  LET obj == ObservedManifest(list, n).obj IN
             /\ n[1] = "luks-key" => obj.data # Bad
             /\ n[1] = "pg-restart" =>
                  /\ obj.kind = "SGDbOps" /\ obj.runAt \in Int /\ obj.runAt = n[2]
                  /\ Readable(<<>>, obj, n, {})
  <2> DEFINE obj == ObservedManifest(list, n).obj
  <2>1. obj \in ManifestsFor(n) /\ n \in Names
    BY <1>1, <1>2, ObservedIsTyped
  <2>. HIDE DEF obj
  <2>2. CASE n \in Base
    BY <2>2, NamesApart DEF OwnName
  <2>3. ASSUME NEW i \in LuksInstances, n = LuksKey(i)
        PROVE  n[1] # "pg-restart" /\ obj.data # Bad
    <3>1. PICK key \in NewKeys \ {Bad} : obj = LuksSecret(i, key)
      BY <2>1, <2>3, ManifestsOf
    <3>. QED
      BY <2>3, <3>1, OwnNames DEF LuksSecret
  <2>4. ASSUME NEW t \in Times, n = RestartOp(t)
        PROVE  /\ n[1] # "luks-key"
               /\ obj.kind = "SGDbOps" /\ obj.runAt \in Int /\ obj.runAt = n[2]
               /\ Readable(<<>>, obj, n, {})
    <3>1. obj = RestartAt(t) /\ n[1] = "pg-restart" /\ n[2] = t
      BY <2>1, <2>4, ManifestsOf, OwnNames
    <3>2. Stored(<<>>, obj, n, {}) = Fresh(n, {}, obj)
      BY EmptyIsList, StoredObject
    <3>3. obj # Nil /\ obj # Bad /\ Fresh(n, {}, obj) # Bad
      BY <2>1, Unmarked DEF Fresh
    <3>. QED
      BY <3>1, <3>2, <3>3 DEF RestartAt, Readable, Times
  <2>. QED
    BY <2>1, <2>2, <2>3, <2>4, NameCases DEF obj
<1>. QED
  BY <1>1, <1>2 DEF IsObserved
------------------------------------------------------------------------------
(* What the composition renders *)

LEMMA RenderingIsTyped ==
  ASSUME NEW s \in Sizes, NEW n \in Base
  PROVE  Rendering(n, s) \in ManifestsFor(n) /\ n \in Names
<1>1. n \in Names
  BY DEF Names
<1>2. CASE n = Namespace
  <2>1. Rendering(n, s) = [kind |-> "Namespace"]
    BY <1>2, NamesApart DEF Rendering
  <2>. QED
    BY <1>1, <1>2, <2>1, ManifestsOf
<1>3. CASE n = Connection
  <2>1. Rendering(n, s) = [kind |-> "Secret", meta |-> Connection, data |-> Nil]
    BY <1>3, NamesApart DEF Rendering
  <2>2. Rendering(n, s) \in ConnectionSecrets
    BY <2>1 DEF ConnectionSecrets
  <2>. QED
    BY <1>1, <1>3, <2>2, ManifestsOf
<1>4. CASE n = Cluster
  <2>1. Rendering(n, s) = [kind |-> "SGCluster", instances |-> s, storageClass |-> Nil, conditions |-> <<>>]
    BY <1>4, NamesApart DEF Rendering
  <2>2. Rendering(n, s) \in Clusters
    BY <2>1 DEF Clusters
  <2>. QED
    BY <1>1, <1>4, <2>2, ManifestsOf
<1>. QED
  BY <1>1, <1>2, <1>3, <1>4 DEF Base

LEMMA ComposedList ==
  ASSUME size \in Sizes
  PROVE  /\ IsList(Composed) /\ NamesIn(Composed) = Base
         /\ \A n \in Base : At(Composed, n).raw = Fresh(n, {}, Rendering(n, size))
<1> DEFINE names == <<Namespace, Connection, Cluster>>
<1>1. /\ DOMAIN names = 1 .. 3
      /\ \A i \in 1 .. 3 : names[i] \in Base
      /\ \A n \in Base : \E i \in 1 .. 3 : names[i] = n
      /\ \A i, j \in 1 .. 3 : names[i] = names[j] => i = j
  BY NamesApart DEF Base
<1>. HIDE DEF names
<1>2. Composed = [i \in 1 .. 3 |-> RenderedEntry(names[i], Rendering(names[i], size))]
  BY <1>1 DEF Composed, names
<1>3. \A i \in 1 .. 3 : /\ Composed[i].name = names[i] /\ IsEntry(Composed[i])
                        /\ Composed[i].raw = Fresh(names[i], {}, Rendering(names[i], size))
  BY <1>2 DEF RenderedEntry, Fresh, IsEntry
<1>4. DOMAIN Composed = 1 .. 3 /\ Composed \in Seq(Range(Composed))
  BY <1>2 DEF Range
<1>5. IsList(Composed)
  BY <1>1, <1>3, <1>4 DEF IsList, UniqueIn
<1>6. NamesIn(Composed) = Base
  BY <1>1, <1>3, <1>4 DEF NamesIn
<1>7. ASSUME NEW n \in Base
      PROVE  At(Composed, n).raw = Fresh(n, {}, Rendering(n, size))
  <2>1. PICK i \in 1 .. 3 : names[i] = n
    BY <1>1
  <2>2. At(Composed, Composed[i].name) = Composed[i]
    BY <1>4, <1>5, EntryAt
  <2>. QED
    BY <1>3, <2>1, <2>2
<1>. QED
  BY <1>5, <1>6, <1>7

LEMMA ComposedIsRendered ==
  ASSUME size \in Sizes
  PROVE  /\ IsRendered(Composed)
         /\ DesiredManifest(Composed, Cluster) = [err |-> "none", obj |-> Rendering(Cluster, size)]
<1> DEFINE c    == Rendering(Cluster, size)
           encr == [c EXCEPT !.storageClass = "ssd-encrypted"]
<1>1. /\ IsList(Composed) /\ NamesIn(Composed) = Base
      /\ \A n \in Base : At(Composed, n).raw = Fresh(n, {}, Rendering(n, size))
  BY ComposedList
<1>2. Cluster \in Base /\ c \in ManifestsFor(Cluster) /\ Cluster \in Names
  BY RenderingIsTyped DEF Base
<1>3. c = [kind |-> "SGCluster", instances |-> size, storageClass |-> Nil, conditions |-> <<>>] /\ size \in Nat
  BY NamesApart, ReconcileAssumption DEF Rendering
<1>4. encr = [kind |-> "SGCluster", instances |-> size, storageClass |-> "ssd-encrypted", conditions |-> <<>>]
  BY <1>3
<1>5. encr \in ManifestsFor(Cluster)
  BY <1>4, ManifestsOf DEF Clusters
<1>6. Fresh(Cluster, {}, c) # Bad /\ Fresh(Cluster, {}, encr) # Bad
      /\ Extracted(c) = [err |-> "none", obj |-> c] /\ encr # Nil /\ encr # Bad
  BY <1>2, <1>5, Unmarked DEF Fresh
<1>. HIDE DEF c, encr
<1>7. DesiredManifest(Composed, Cluster) = [err |-> "none", obj |-> c]
  <2>1. At(Composed, Cluster).raw.spec = c
    <3>1. At(Composed, Cluster).raw = Fresh(Cluster, {}, c)
      BY <1>1, <1>2 DEF c
    <3>. QED
      BY <3>1 DEF Fresh
  <2>2. At(Composed, Cluster).raw # Bad
    BY <1>1, <1>2, <1>6 DEF c
  <2>. QED
    BY <1>1, <1>2, <1>6, <2>1, <2>2, DesiredManifestAt
<1>8. Readable(Composed, encr, Cluster, {})
  <2>1. At(Composed, Cluster).raw = Fresh(Cluster, {}, c)
    BY <1>1, <1>2 DEF c
  <2>2. Stored(Composed, encr, Cluster, {}) = Renewed(Fresh(Cluster, {}, c), Cluster, {}, encr)
    BY <1>1, <1>2, <1>6, <2>1, StoredObject
  <2>3. Renewed(Fresh(Cluster, {}, c), Cluster, {}, encr) = Fresh(Cluster, {}, encr)
    BY DEF Renewed, Fresh, Over
  <2>. QED
    BY <1>6, <2>2, <2>3 DEF Readable
<1>9. \A i \in DOMAIN Composed : Composed[i].raw.kind \in StartScheme
  <2>. SUFFICES ASSUME NEW i \in DOMAIN Composed PROVE Composed[i].raw.kind \in StartScheme
    OBVIOUS
  <2>1. Composed[i] = At(Composed, Composed[i].name) /\ Composed[i].name \in Base
    BY <1>1, EntryAt
  <2>2. Composed[i].raw = Fresh(Composed[i].name, {}, Rendering(Composed[i].name, size))
    BY <1>1, <2>1
  <2>. QED
    BY <2>2 DEF Fresh, StartScheme
<1>10. \A n \in NamesIn(Composed) : ~OwnName(n)
  BY <1>1, NamesApart
<1>. QED
  BY <1>1, <1>3, <1>7, <1>8, <1>9, <1>10 DEF IsRendered, encr, c
------------------------------------------------------------------------------
(* A run begins *)

LEMMA PatchedIsXR == IsXR(xr) => IsXR(Patched)
<1>. SUFFICES ASSUME IsXR(xr) PROVE IsXR(Patched)
  OBVIOUS
<1> DEFINE new == [xr EXCEPT !.ns = "instance"]
<1>1. IsComposite(new) /\ new.ns = "instance" /\ new.ref = xr.ref /\ new.template = xr.template
      /\ new.secretRef = xr.secretRef
  BY DEF IsXR, IsComposite
<1>2. IsXR(new)
  BY <1>1 DEF IsXR
<1>. QED
  BY <1>2 DEF Patched

LEMMA AlertReadable ==
  ASSUME NEW c, IsXR(c)
  PROVE  Readable(<<>>, AlertmanagerConfig("postgresql-alertmanagerconfig", c, Nil),
                  AlertConfig, Patches(c.ref, "spec"))
<1> DEFINE first == [FirstXR EXCEPT !.ns = c.ns]
<1>1. IsComposite(FirstXR)
  BY MarksAssumption DEF IsXR
<1>2. first.ns = c.ns
  BY <1>1 DEF IsComposite
<1>3. AlertmanagerConfig("postgresql-alertmanagerconfig", c, Nil)
        = AlertmanagerConfig("postgresql-alertmanagerconfig", first, Nil)
  BY <1>2 DEF AlertmanagerConfig
<1>. QED
  BY <1>3, MarksAssumption DEF IsXR

LEMMA SnapshotAdmissible ==
  ASSUME TypedObjects, TypedRest
  PROVE  Admissible(Snapshot)
<1> DEFINE r == Snapshot
<1>1. /\ r.obsComposite = xr /\ r.composite = Patched /\ r.resources = Composed /\ r.conn = <<>> /\ r.now = clock
      /\ r.observed = [i \in DOMAIN Listed(DOMAIN objects) |-> ObservedEntry(Listed(DOMAIN objects)[i])]
  BY DEF Snapshot
<1>. HIDE DEF r
<1>2. IsXR(xr) /\ IsXR(Patched)
  BY PatchedIsXR DEF TypedRest
<1>3. \A c \in {r.composite, r.obsComposite} \ {Bad} : IsComposite(c)
  BY <1>1, <1>2 DEF IsXR
<1>4. Readable(<<>>, AlertmanagerConfig("postgresql-alertmanagerconfig", r.obsComposite, Nil),
               AlertConfig, Patches(r.obsComposite.ref, "spec"))
  BY <1>1, <1>2, AlertReadable
<1>5. IsObserved(r.observed) /\ IsRendered(r.resources)
  BY <1>1, ObservedIsObserved, ComposedIsRendered DEF TypedRest
<1>6. r.conn \in Seq(Range(r.conn)) /\ UniqueIn(r.conn) /\ r.now \in Int
  BY <1>1, EmptyIsList DEF IsList, TypedRest, Times
<1>. QED
  BY <1>3, <1>4, <1>5, <1>6 DEF Admissible, r

LEMMA SnapshotInv ==
  TypedObjects /\ TypedRest /\ Idle /\ request = Snapshot
    => /\ RunInv /\ NamesIn(request.observed) = DOMAIN objects
       /\ \A n \in DOMAIN objects : ~Fails(n) => Observed(n).obj = objects[n].status /\ objects[n].status # Nil
<1>. SUFFICES ASSUME TypedObjects, TypedRest, Idle, request = Snapshot
              PROVE  /\ RunInv /\ NamesIn(request.observed) = DOMAIN objects
                     /\ \A n \in DOMAIN objects : ~Fails(n) => Observed(n).obj = objects[n].status /\ objects[n].status # Nil
  OBVIOUS
<1>1. /\ Comp = xr /\ request.composite = Patched /\ Rendered = Composed
      /\ request.observed = [i \in DOMAIN Listed(DOMAIN objects) |-> ObservedEntry(Listed(DOMAIN objects)[i])]
  BY DEF Snapshot, Comp, Rendered
<1>2. Admissible(request)
  BY SnapshotAdmissible
<1>3. IInv
  <2>1. LuksKeys(resources) = {}
    BY EmptyIsList DEF Idle, LuksKeys
  <2>2. results \in Seq({"Normal", "Warning", "Fatal"}) /\ Len(results) = 0
    BY DEF Idle
  <2>. QED
    BY <1>2, <2>1, <2>2 DEF IInv, Inv, Stage, LuksSecrets, Idle, TypedRest
<1>4. EncryptedComplete /\ FatalReasons /\ RestartOpsExact
  <2>1. Len(results) = 0
    BY DEF Idle
  <2>2. ~Ran(1) /\ ~Ran(2) /\ ~Ran(3) /\ ~Ran(4) /\ ~Ran(5)
    BY <2>1 DEF Ran
  <2>. QED
    BY <2>2 DEF EncryptedComplete, FatalReasons, RestartOpsExact
<1>5. NamesIn(request.observed) = DOMAIN objects
  BY <1>1, ObservedList
<1>6. ASSUME NEW n \in DOMAIN objects, ~Fails(n)
      PROVE  /\ Observed(n).obj = objects[n].status /\ objects[n].status # Nil
             /\ Observed(n).obj \in ManifestsFor(n)
  BY <1>1, <1>6, ObservedIsTyped DEF Fails, Observed
<1>7. SnapshotOK
  <2>1. RenderedCluster.err = "none" /\ RenderedCluster.obj \in ManifestsFor(Cluster)
    <3>1. DesiredManifest(request.resources, Cluster) = [err |-> "none", obj |-> Rendering(Cluster, size)]
      BY <1>1, ComposedIsRendered DEF TypedRest, Rendered
    <3>. QED
      BY <3>1, RenderingIsTyped DEF RenderedCluster, TypedRest, Base
  <2>2. Asks(Rendered)
    <3>. SUFFICES ASSUME NEW n \in Base PROVE n \in Names /\ At(Composed, n).raw.spec \in ManifestsFor(n)
      BY <1>1, ComposedList DEF Asks, TypedRest
    <3>1. At(Composed, n).raw = Fresh(n, {}, Rendering(n, size))
      BY ComposedList DEF TypedRest
    <3>2. At(Composed, n).raw.spec = Rendering(n, size)
      BY <3>1 DEF Fresh
    <3>. QED
      BY <3>2, RenderingIsTyped DEF TypedRest
  <2>3. IsXR(Comp) /\ IsXR(request.composite)
    BY <1>1, PatchedIsXR DEF TypedRest
  <2>4. \A n \in NamesIn(request.observed) : n \in Names /\ (~Fails(n) => Observed(n).obj \in ManifestsFor(n))
    BY <1>5, <1>6 DEF TypedObjects
  <2>. QED
    BY <2>1, <2>2, <2>3, <2>4 DEF SnapshotOK
<1>. QED
  BY <1>3, <1>4, <1>5, <1>6, <1>7 DEF RunInv, Idle
------------------------------------------------------------------------------
(* A run goes on: it asks for what it has seen, or for what is made anew.  *)

LEMMA AsksPut ==
  ASSUME NEW list, Asks(list), NEW n \in Names, NEW raw, raw.spec \in ManifestsFor(n),
         NEW new, Puts(list, new, n, raw)
  PROVE  Asks(new)
<1>1. /\ NamesIn(new) = NamesIn(list) \union {n}
      /\ \A m \in NamesIn(list) \ {n} : At(new, m) = At(list, m)
      /\ At(new, n).raw = raw
  BY DEF Puts
<1>. QED
  BY <1>1 DEF Asks

LEMMA AlertingAsksNothing ==
  ASSUME AddUserAlerting, IsXR(Comp)
  PROVE  resources' = resources
<1>1. Comp.ref = Nil /\ Comp.template = Nil /\ Comp.secretRef = Nil
  BY DEF IsXR
<1>2. \A types : DeployAll(Comp, types).list = resources
  BY <1>1, DeploySteps
<1>. QED
  BY <1>2 DEF AddUserAlerting, Comp

LEMMA PendingTimeIsTyped ==
  ASSUME RunInv, PendingTime # 0
  PROVE  PendingTime \in Times /\ RestartOp(PendingTime) \in Names
<1> DEFINE conditions == Observed(Cluster).obj.conditions
           i == SelectInSeq(conditions, IsPending)
<1>1. ~Fails(Cluster) /\ PendingTime = PendingRestart(conditions)
  BY DEF PendingTime
<1>2. Cluster \in NamesIn(request.observed)
  BY <1>1, ObservedErrors DEF Fails, RunInv, IInv, Inv
<1>3. Observed(Cluster).obj \in Clusters
  BY <1>1, <1>2, ManifestsOf DEF RunInv, SnapshotOK
<1>4. conditions \in {<<>>} \union {Restarting(s, t) : s \in {"True", "False"}, t \in Times}
  BY <1>3 DEF Clusters
<1>. HIDE DEF conditions
<1>5. i # 0 /\ PendingTime = conditions[i].at
  BY <1>1 DEF PendingRestart
<1>6. i \in DOMAIN conditions
  <2> DEFINE I == {k \in 1 .. Len(conditions) : IsPending(conditions[k])}
  <2>1. i = IF I # {} THEN Min(I) ELSE 0
    BY DEF SelectInSeq
  <2>2. I # {} /\ i = Min(I)
    BY <1>5, <2>1
  <2>3. Len(conditions) \in {0, 1} /\ DOMAIN conditions = 1 .. Len(conditions)
    BY <1>4 DEF Restarting
  <2>4. I = {1}
    BY <2>2, <2>3
  <2>5. Min(I) = 1
    BY <2>4 DEF Min
  <2>. QED
    BY <2>2, <2>3, <2>4, <2>5
<1>7. PICK s \in {"True", "False"}, t \in Times : conditions = Restarting(s, t)
  BY <1>4, <1>6
<1>8. conditions[i].at = t
  BY <1>6, <1>7 DEF Restarting
<1>. QED
  BY <1>5, <1>8 DEF Names

LEMMA AsksStep ==
  ASSUME RunInv, Step
  PROVE  Asks(resources')
<1>0. /\ fn \in 0 .. 6 /\ Admissible(request) /\ IInv /\ SnapshotOK
      /\ fn > 0 => Asks(resources)
  BY DEF RunInv, IInv, Inv
<1>1. CASE NewRuntime
  BY <1>0, <1>1 DEF NewRuntime, SnapshotOK, Rendered
<1>2. CASE AddUrlToConnectionDetails
  BY <1>0, <1>2, RunningPosition DEF AddUrlToConnectionDetails
<1>3. CASE AddUserAlerting
  BY <1>0, <1>3, RunningPosition, AlertingAsksNothing DEF AddUserAlerting, SnapshotOK
<1>4. CASE StartRestart
  BY <1>0, <1>4, RunningPosition DEF StartRestart, desired
<1>5. CASE KeepRecentRestartOp
  <2> DEFINE n == request.observed[iter].name
  <2>1. /\ fn = 3 /\ iter \in DOMAIN request.observed
        /\ \/ IsRecentRestart(n) /\ Puts(resources, resources', n, Fresh(n, {}, Observed(n).obj))
           \/ resources' = resources
    BY <1>0, <1>5, KeepRecentEffect
  <2>2. n \in NamesIn(request.observed)
    BY <2>1 DEF NamesIn
  <2>3. IsRecentRestart(n) => n \in Names /\ Fresh(n, {}, Observed(n).obj).spec \in ManifestsFor(n)
    BY <1>0, <2>2 DEF SnapshotOK, IsRecentRestart, Fails, Observed, Fresh
  <2>. QED
    BY <1>0, <2>1, <2>3, AsksPut
<1>6. CASE ScheduleRestart
  <2>1. /\ fn = 3
        /\ \/ resources' = resources
           \/ /\ PendingTime # 0
              /\ \E raw : raw.spec = RestartAt(PendingTime) /\ Puts(resources, resources', RestartOp(PendingTime), raw)
    BY <1>0, <1>6, ScheduleRestartEffect
  <2>2. PendingTime # 0 => RestartOp(PendingTime) \in Names
    BY PendingTimeIsTyped
  <2>3. RestartAt(PendingTime) \in ManifestsFor(RestartOp(PendingTime))
    BY ManifestsOf
  <2>. QED
    BY <1>0, <2>1, <2>2, <2>3, AsksPut
<1>7. CASE TransformSchedule
  BY <1>0, <1>7, RunningPosition DEF TransformSchedule
<1>8. CASE StartPvcSecret
  <2>1. /\ fn = 5
        /\ \/ resources' = resources
           \/ RenderedCluster.err = "none" /\ Puts(resources, resources', Cluster, ClusterRaw)
    BY <1>0, <1>8, StartPvcEffect
  <2>2. RenderedCluster.err = "none" => ClusterRaw.spec = EncryptedCluster
    BY <1>0, ClusterFacts
  <2>3. EncryptedCluster \in ManifestsFor(Cluster)
    BY <1>0, ManifestsOf DEF SnapshotOK, EncryptedCluster, Clusters
  <2>4. Cluster \in Names
    BY DEF Names, Base
  <2>. QED
    BY <1>0, <2>1, <2>2, <2>3, <2>4, AsksPut
<1>9. CASE WriteLuksSecret
  <2> DEFINE i == iter - 1
             n == LuksKey(i)
  <2>1. /\ fn = 5 /\ iter > 0 /\ i < RenderedCluster.obj.instances
        /\ \/ resources' = resources
           \/ \E key \in LuksKeysFor(i) \ {Bad} : Puts(resources, resources', n, Fresh(n, {}, LuksSecret(i, key)))
    BY <1>0, <1>9, WriteLuksEffect
  <2>2. i \in LuksInstances
    <3>1. RenderedCluster.obj.instances \in Sizes
      BY <1>0, ManifestsOf DEF SnapshotOK, Clusters
    <3>2. RenderedCluster.obj.instances \in Nat /\ iter \in Nat
      BY <1>0, <3>1, ReconcileAssumption DEF IInv, Stage
    <3>3. i \in 0 .. RenderedCluster.obj.instances - 1
      BY <2>1, <3>2
    <3>. QED
      BY <3>1, <3>3, InstanceIsCounted
  <2>3. n \in Names
    BY <2>2 DEF Names
  <2>4. ASSUME NEW key \in LuksKeysFor(i) \ {Bad}
        PROVE  key \in NewKeys \ {Bad}
    <3>1. CASE Fails(n)
      BY <1>0, <2>4, <3>1, KeysOfInstance
    <3>2. CASE ~Fails(n)
      <4>1. key = Observed(n).obj.data
        BY <1>0, <2>4, <3>2, KeysOfInstance
      <4>2. Observed(n).obj \in ManifestsFor(n)
        BY <1>0, <3>2, ObservedErrors DEF SnapshotOK, Fails
      <4>3. PICK k \in NewKeys \ {Bad} : Observed(n).obj = LuksSecret(i, k)
        BY <4>2, ManifestsOf
      <4>. QED
        BY <4>1, <4>3 DEF LuksSecret
    <3>. QED
      BY <3>1, <3>2
  <2>5. \A key \in LuksKeysFor(i) \ {Bad} : Fresh(n, {}, LuksSecret(i, key)).spec \in ManifestsFor(n)
    BY <2>4, ManifestsOf DEF Fresh
  <2>. QED
    BY <1>0, <2>1, <2>3, <2>5, AsksPut
<1>10. CASE EndPvcSecret
  BY <1>0, <1>10, EndPvcEffect
<1>. QED
  BY <1>1, <1>2, <1>3, <1>4, <1>5, <1>6, <1>7, <1>8, <1>9, <1>10 DEF Step, TransformRestart, AddPvcSecret

LEMMA RunStepKeeps == RunInv /\ [Next]_vars => RunInv'
<1>. SUFFICES ASSUME RunInv, [Next]_vars PROVE RunInv'
  OBVIOUS
<1>1. IInv' /\ EncryptedComplete' /\ FatalReasons' /\ RestartOpsExact'
  BY NextIInv, EncryptedStep, FatalStep, ExactStep DEF RunInv
<1>2. request' = request
  BY ResultsStep DEF RunInv
<1>3. SnapshotOK'
  <2>1. \A n : Fails(n)' <=> Fails(n)
    BY <1>2, RequestKept DEF Fails
  <2>. QED
    BY <1>2, <2>1, RequestKept DEF RunInv, SnapshotOK
<1>4. CASE Step
  <2>1. Asks(resources)' /\ (iter' > 0 \/ io' = Synced')
    BY <1>4, AsksStep, StepSyncs DEF RunInv, Asks
  <2>. QED
    BY <1>1, <1>3, <2>1 DEF RunInv
<1>5. CASE UNCHANGED vars
  <2>1. UNCHANGED <<resources, composite, conn, io, fn, iter>>
    BY <1>5 DEF vars, desired, exec
  <2>. QED
    BY <1>1, <1>3, <2>1 DEF RunInv, Asks, Synced
<1>. QED
  BY <1>4, <1>5 DEF Next
------------------------------------------------------------------------------
(* The controllers and the user: they leave the run alone.                 *)

LEMMA RunLeftAlone ==
  ASSUME RInv, UNCHANGED <<runVars, running>>, DOMAIN objects' = DOMAIN objects,
         TypedObjects', TypedLive', TypedRest',
         \A i \in LuksInstances \ excused' : KeyOK(i)'
  PROVE  RInv'
<1>1. UNCHANGED vars
  BY DEF runVars, vars
<1>2. UNCHANGED <<request, resources, results, fn, iter>>
  BY <1>1 DEF vars, desired, exec
<1>3. running => RunInv'
  BY <1>1, RunStepKeeps DEF RInv
<1>4. ~running' => Idle'
  BY <1>2 DEF RInv, Idle
<1>. QED
  BY <1>2, <1>3, <1>4 DEF RInv

(* Nothing of the key of instance i has changed.                           *)
LEMMA KeyFrame ==
  ASSUME NEW i, KeyOK(i), request' = request, running' = running,
         LuksKey(i) \in DOMAIN objects' <=> LuksKey(i) \in DOMAIN objects,
         LuksKey(i) \in DOMAIN objects => objects'[LuksKey(i)] = objects[LuksKey(i)],
         LuksKey(i) \in DOMAIN live' <=> LuksKey(i) \in DOMAIN live,
         LuksKey(i) \in DOMAIN live => live'[LuksKey(i)] = live[LuksKey(i)],
         volumes'[i] = volumes[i], DOMAIN live \subseteq DOMAIN objects
  PROVE  KeyOK(i)'
<1>1. \A n : Observed(n)' = Observed(n) /\ (Fails(n)' <=> Fails(n))
  BY RequestKept DEF Fails
<1>. QED
  BY <1>1 DEF KeyOK

(* The controllers change the cluster and its volumes as their types say.  *)
LEMMA ConditionsTyped ==
  ASSUME TypedLive, Cluster \in DOMAIN live, NEW s \in {"True", "False"}, NEW t \in Times
  PROVE  [live[Cluster] EXCEPT !.conditions = Restarting(s, t)] \in ManifestsFor(Cluster)
<1>1. live[Cluster] \in Clusters
  BY ManifestsOf DEF TypedLive
<1>. QED
  BY <1>1, ManifestsOf DEF Clusters

LEMMA WantedTyped ==
  ASSUME TypedObjects, TypedLive, TypedRest, NEW n \in DOMAIN objects
  PROVE  /\ Wanted(n) \in ManifestsFor(n)
         /\ n \notin {Cluster, Connection} => Wanted(n) = objects[n].spec
<1>0. objects[n].spec \in ManifestsFor(n)
  BY DEF TypedObjects
<1>1. CASE n = Cluster
  <2> DEFINE c == IF n \in DOMAIN live THEN live[n].conditions ELSE <<>>
  <2>1. objects[n].spec \in Clusters
    BY <1>0, <1>1, ManifestsOf
  <2>2. c \in {<<>>} \union {Restarting(s, t) : s \in {"True", "False"}, t \in Times}
    <3>1. n \in DOMAIN live => live[n] \in Clusters
      BY <1>1, ManifestsOf DEF TypedLive
    <3>. QED
      BY <3>1 DEF Clusters
  <2>3. Wanted(n) = [objects[n].spec EXCEPT !.conditions = c]
    BY <1>1, NamesApart DEF Wanted
  <2>. HIDE DEF c
  <2>4. Wanted(n) \in Clusters
    BY <2>1, <2>2, <2>3 DEF Clusters
  <2>. QED
    BY <1>1, <2>4, ManifestsOf
<1>2. CASE n = Connection
  <2>1. objects[n].spec \in ConnectionSecrets
    BY <1>0, <1>2, ManifestsOf
  <2>2. Wanted(n) = [objects[n].spec EXCEPT !.data = creds]
    BY <1>2, NamesApart DEF Wanted
  <2>3. Wanted(n) \in ConnectionSecrets
    BY <2>1, <2>2 DEF ConnectionSecrets, TypedRest
  <2>. QED
    BY <1>2, <2>3, ManifestsOf
<1>3. CASE n \notin {Cluster, Connection}
  BY <1>0, <1>3 DEF Wanted
<1>. QED
  BY <1>1, <1>2, <1>3

LEMMA ProviderWriteKeeps == ASSUME RInv, NEW n \in Names, ProviderWrite(n) PROVE RInv'
<1>1. /\ n \in DOMAIN objects /\ live' = With(live, n, Wanted(n))
      /\ UNCHANGED <<runVars, running, xr, size, objects, volumes, excused, creds, ops, clock>>
  BY DEF ProviderWrite, bounds
<1>2. TypedObjects /\ TypedLive /\ TypedRest
  BY DEF RInv
<1>3. /\ DOMAIN live' = DOMAIN live \union {n} /\ live'[n] = Wanted(n)
      /\ \A m \in DOMAIN live : m # n => live'[m] = live[m]
  BY <1>1 DEF With
<1>4. UNCHANGED <<request, scheme>>
  BY <1>1 DEF runVars
<1>5. TypedObjects' /\ TypedLive' /\ TypedRest'
  BY <1>1, <1>2, <1>3, <1>4, WantedTyped DEF TypedObjects, TypedLive, TypedRest
<1>6. ASSUME NEW i \in LuksInstances \ excused'
      PROVE  KeyOK(i)'
  <2>1. KeyOK(i)
    BY <1>1, <1>6 DEF RInv
  <2>2. CASE n = LuksKey(i)
    <3>1. Wanted(n) = objects[n].spec
      BY <1>1, <1>2, <2>2, WantedTyped, NamesApart DEF Base
    <3>2. \A m : Observed(m)' = Observed(m) /\ (Fails(m)' <=> Fails(m))
      BY <1>4, RequestKept DEF Fails
    <3>3. volumes[i] # Nil => live[n].data = objects[n].spec.data
      BY <2>1, <2>2 DEF KeyOK
    <3>. QED
      BY <1>1, <1>3, <2>1, <2>2, <3>1, <3>2, <3>3 DEF KeyOK
  <2>3. CASE n # LuksKey(i)
    BY <1>1, <1>2, <1>3, <1>4, <2>1, <2>3, KeyFrame DEF TypedLive
  <2>. QED
    BY <2>2, <2>3
<1>. QED
  BY <1>1, <1>5, <1>6, RunLeftAlone

LEMMA ProviderReportKeeps == ASSUME RInv, NEW n \in Names, ProviderReport(n) PROVE RInv'
<1>1. /\ n \in DOMAIN objects /\ n \in DOMAIN live /\ objects' = [objects EXCEPT ![n].status = live[n]]
      /\ UNCHANGED <<runVars, running, xr, size, live, volumes, excused, creds, ops, clock>>
  BY DEF ProviderReport, bounds
<1>2. TypedObjects /\ TypedLive /\ TypedRest
  BY DEF RInv
<1>3. /\ DOMAIN objects' = DOMAIN objects
      /\ objects'[n] = [spec |-> objects[n].spec, status |-> live[n]]
      /\ \A m \in DOMAIN objects : m # n => objects'[m] = objects[m]
  BY <1>1, <1>2 DEF TypedObjects
<1>4. UNCHANGED <<request, scheme>>
  BY <1>1 DEF runVars
<1>5. TypedObjects' /\ TypedLive' /\ TypedRest'
  <2>1. live[n] \in ManifestsFor(n)
    BY <1>1, <1>2 DEF TypedLive
  <2>2. TypedObjects'
    BY <1>2, <1>3, <2>1 DEF TypedObjects
  <2>. QED
    BY <1>1, <1>2, <1>3, <1>4, <2>2 DEF TypedLive, TypedRest
<1>6. ASSUME NEW i \in LuksInstances \ excused'
      PROVE  KeyOK(i)'
  <2>1. KeyOK(i)
    BY <1>1, <1>6 DEF RInv
  <2>2. CASE n = LuksKey(i)
    <3>1. \A m : Observed(m)' = Observed(m) /\ (Fails(m)' <=> Fails(m))
      BY <1>4, RequestKept DEF Fails
    <3>. QED
      BY <1>1, <1>3, <2>1, <2>2, <3>1 DEF KeyOK
  <2>3. CASE n # LuksKey(i)
    BY <1>1, <1>2, <1>3, <1>4, <2>1, <2>3, KeyFrame DEF TypedLive
  <2>. QED
    BY <2>2, <2>3
<1>. QED
  BY <1>1, <1>3, <1>5, <1>6, RunLeftAlone

LEMMA FormatVolumeKeeps == ASSUME RInv, NEW i \in LuksInstances, FormatVolume(i) PROVE RInv'
<1>1. /\ LuksKey(i) \in DOMAIN live /\ volumes' = [volumes EXCEPT ![i] = live[LuksKey(i)].data]
      /\ UNCHANGED <<runVars, running, xr, size, objects, live, excused, creds, ops, clock>>
  BY DEF FormatVolume, bounds
<1>2. TypedObjects /\ TypedLive /\ TypedRest
  BY DEF RInv
<1>3. UNCHANGED <<request, scheme>>
  BY <1>1 DEF runVars
<1>4. TypedObjects' /\ TypedLive' /\ TypedRest'
  BY <1>1, <1>2, <1>3 DEF TypedObjects, TypedLive, TypedRest
<1>5. ASSUME NEW j \in LuksInstances \ excused'
      PROVE  KeyOK(j)'
  <2>1. KeyOK(j)
    BY <1>1, <1>5 DEF RInv
  <2>2. CASE j = i
    <3>1. \A m : Observed(m)' = Observed(m) /\ (Fails(m)' <=> Fails(m))
      BY <1>3, RequestKept DEF Fails
    <3>. QED
      BY <1>1, <1>2, <2>1, <2>2, <3>1 DEF KeyOK, TypedRest
  <2>3. CASE j # i
    BY <1>1, <1>2, <1>3, <2>1, <2>3, KeyFrame DEF TypedLive, TypedRest
  <2>. QED
    BY <2>2, <2>3
<1>. QED
  BY <1>1, <1>4, <1>5, RunLeftAlone

(* The other actions leave the kube objects, the volumes and the secrets   *)
(* of the keys as they are.                                                *)
LEMMA KeysLeftAlone ==
  ASSUME RInv, UNCHANGED <<runVars, running, objects, volumes, excused>>,
         DOMAIN live' = DOMAIN live, \A n \in DOMAIN live : n # Cluster => live'[n] = live[n],
         TypedLive', TypedRest'
  PROVE  RInv'
<1>1. TypedObjects /\ TypedLive
  BY DEF RInv
<1>2. TypedObjects'
  BY <1>1 DEF TypedObjects
<1>3. request' = request
  BY DEF runVars
<1>4. ASSUME NEW i \in LuksInstances \ excused'
      PROVE  KeyOK(i)'
  <2>1. KeyOK(i) /\ LuksKey(i) # Cluster
    BY <1>4, NamesApart DEF RInv, Base
  <2>. QED
    BY <1>1, <1>3, <2>1, KeyFrame DEF TypedLive
<1>. QED
  BY <1>2, <1>4, RunLeftAlone

LEMMA StartOpKeeps == ASSUME RInv, NEW n \in Names, StartOp(n) PROVE RInv'
<1>1. /\ n \in DOMAIN live /\ n[1] = "pg-restart"
      /\ \E v : ops' = With(ops, n, v)
      /\ UNCHANGED <<runVars, running, xr, size, objects, live, volumes, excused, creds, clock>>
  BY DEF StartOp, bounds
<1>2. DOMAIN ops' = DOMAIN ops \union {n} /\ scheme' = scheme
  BY <1>1 DEF With, runVars
<1>3. TypedLive' /\ TypedRest'
  BY <1>1, <1>2 DEF RInv, TypedLive, TypedRest
<1>. QED
  BY <1>1, <1>3, KeysLeftAlone

(* What StackGres or the database makes of the conditions of the cluster.  *)
LEMMA ConditionsKeep ==
  ASSUME RInv, Cluster \in DOMAIN live, NEW s \in {"True", "False"},
         live' = [live EXCEPT ![Cluster].conditions = Restarting(s, clock)],
         DOMAIN ops' = DOMAIN ops,
         UNCHANGED <<runVars, running, xr, size, objects, volumes, excused, creds, clock>>
  PROVE  RInv'
<1>1. TypedLive /\ TypedRest /\ clock \in Times
  BY DEF RInv, TypedRest
<1>2. /\ DOMAIN live' = DOMAIN live
      /\ live'[Cluster] = [live[Cluster] EXCEPT !.conditions = Restarting(s, clock)]
      /\ \A n \in DOMAIN live : n # Cluster => live'[n] = live[n]
  OBVIOUS
<1>3. live'[Cluster] \in ManifestsFor(Cluster)
  BY <1>1, <1>2, ConditionsTyped
<1>4. TypedLive' /\ TypedRest'
  BY <1>1, <1>2, <1>3 DEF TypedLive, TypedRest, runVars
<1>. QED
  BY <1>2, <1>4, KeysLeftAlone

LEMMA EndOpKeeps == ASSUME RInv, NEW n \in Names, EndOp(n) PROVE RInv'
<1>1. /\ n \in DOMAIN ops /\ ops' = [ops EXCEPT ![n] = "done"]
      /\ live' = [live EXCEPT ![Cluster].conditions = Restarting("False", clock)]
      /\ UNCHANGED <<runVars, running, xr, size, objects, volumes, excused, creds, clock>>
  BY DEF EndOp, bounds
<1>2. DOMAIN ops' = DOMAIN ops
  BY <1>1
<1>3. CASE Cluster \in DOMAIN live
  BY <1>1, <1>2, <1>3, ConditionsKeep
<1>4. CASE Cluster \notin DOMAIN live
  <2>1. live' = [m \in DOMAIN live |-> live[m]]
    BY <1>1, <1>4
  <2>2. DOMAIN live' = DOMAIN live /\ \A m \in DOMAIN live : live'[m] = live[m]
    BY <2>1
  <2>3. TypedLive' /\ TypedRest'
    BY <1>1, <1>2, <2>2 DEF RInv, TypedLive, TypedRest, runVars
  <2>. QED
    BY <1>1, <2>2, <2>3, KeysLeftAlone
<1>. QED
  BY <1>3, <1>4

LEMMA ReconfigureKeeps == RInv /\ Reconfigure => RInv'
<1>. SUFFICES ASSUME RInv, Reconfigure PROVE RInv'
  OBVIOUS
<1>1. /\ Cluster \in DOMAIN live
      /\ live' = [live EXCEPT ![Cluster].conditions = Restarting("True", clock)]
      /\ UNCHANGED <<runVars, running, xr, size, objects, volumes, excused, creds, ops, clock>>
  BY DEF Reconfigure, Change
<1>. QED
  BY <1>1, ConditionsKeep

LEMMA CredentialsKeep ==
  RInv /\ (ProvideCredentials \/ RotateCredentials) => RInv'
<1>. SUFFICES ASSUME RInv, ProvideCredentials \/ RotateCredentials PROVE RInv'
  OBVIOUS
<1>1. UNCHANGED <<runVars, running, xr, size, objects, live, volumes, excused, ops, clock>>
  BY DEF ProvideCredentials, RotateCredentials, Change, bounds
<1>2. creds' \in [PostgresFields -> {Nil, "v1", "v2"}]
  BY DEF ProvideCredentials, RotateCredentials, Credentials
<1>3. TypedLive' /\ TypedRest'
  BY <1>1, <1>2 DEF RInv, TypedLive, TypedRest, runVars
<1>. QED
  BY <1>1, <1>3, KeysLeftAlone

(* The user chooses a number of instances, encryption and a strategy.      *)
LEMMA UserKeeps ==
  RInv /\ (Scale \/ SwitchEncryption \/ SwitchStrategy) => RInv'
<1>. SUFFICES ASSUME RInv, Scale \/ SwitchEncryption \/ SwitchStrategy PROVE RInv'
  OBVIOUS
<1>1. UNCHANGED <<runVars, running, objects, live, volumes, excused, creds, ops, clock>>
  BY DEF Scale, SwitchEncryption, SwitchStrategy, Change
<1>2. IsXR(xr) /\ size \in Sizes
  BY DEF RInv, TypedRest
<1>3. size' \in Sizes
  BY <1>2 DEF Scale, SwitchEncryption, SwitchStrategy
<1>4. IsXR(xr')
  BY <1>2 DEF Scale, SwitchEncryption, SwitchStrategy, IsXR, IsComposite
<1>5. TypedLive' /\ TypedRest'
  BY <1>1, <1>3, <1>4 DEF RInv, TypedLive, TypedRest, runVars
<1>. QED
  BY <1>1, <1>5, KeysLeftAlone

LEMMA TickKeeps == RInv /\ Tick => RInv'
<1>. SUFFICES ASSUME RInv, Tick PROVE RInv'
  OBVIOUS
<1>1. UNCHANGED <<runVars, running, xr, size, objects, live, volumes, excused, creds, ops>>
  BY DEF Tick, cluster
<1>2. clock' \in Times
  <2>1. clock \in 1 .. MaxTime /\ MaxTime \in Nat
    BY ReconcileAssumption DEF RInv, TypedRest, Times
  <2>2. clock < MaxTime /\ clock' = clock + 1
    BY DEF Tick
  <2>. QED
    BY <2>1, <2>2 DEF Times
<1>3. TypedLive' /\ TypedRest'
  BY <1>1, <1>2 DEF RInv, TypedLive, TypedRest, runVars
<1>. QED
  BY <1>1, <1>3, KeysLeftAlone
------------------------------------------------------------------------------
(* Crossplane takes a snapshot and runs the functions.                     *)

LEMMA SnapshotInvNext ==
  (TypedObjects /\ TypedRest /\ Idle /\ request = Snapshot)'
    => (/\ RunInv /\ NamesIn(request.observed) = DOMAIN objects
        /\ \A n \in DOMAIN objects : ~Fails(n) => Observed(n).obj = objects[n].status /\ objects[n].status # Nil)'
  BY SnapshotInv, PTL

LEMMA BeginKeeps == RInv /\ Begin => RInv'
<1>. SUFFICES ASSUME RInv, Begin PROVE RInv'
  OBVIOUS
<1>1. /\ ~running /\ running' = TRUE /\ request' = Snapshot
      /\ UNCHANGED <<resources, composite, conn, scheme, io, results, fn, iter>>
      /\ UNCHANGED <<xr, size, objects, live, volumes, excused, creds, ops, clock>>
  BY DEF Begin, desired, exec, cluster, bounds
<1>2. request' = Snapshot'
  BY <1>1 DEF Snapshot, ObservedEntry, Composed, RenderedEntry, Patched
<1>3. TypedObjects' /\ TypedLive' /\ TypedRest' /\ Idle'
  BY <1>1 DEF RInv, TypedObjects, TypedLive, TypedRest, Idle
<1>4. /\ RunInv' /\ NamesIn(request.observed)' = DOMAIN objects'
      /\ \A n \in DOMAIN objects' :
           ~Fails(n)' => Observed(n)'.obj = objects'[n].status /\ objects'[n].status # Nil
  BY <1>2, <1>3, SnapshotInvNext
<1>5. ASSUME NEW i \in LuksInstances \ excused'
      PROVE  KeyOK(i)'
  <2>1. KeyOK(i)
    BY <1>1, <1>5 DEF RInv
  <2>. QED
    BY <1>1, <1>4, <2>1 DEF KeyOK
<1>. QED
  BY <1>1, <1>3, <1>4, <1>5 DEF RInv

LEMMA RunStepLeavesCluster == RInv /\ RunStep => RInv'
<1>. SUFFICES ASSUME RInv, RunStep PROVE RInv'
  OBVIOUS
<1>1. /\ running /\ running' = running /\ Step
      /\ UNCHANGED <<xr, size, objects, live, volumes, excused, creds, ops, clock>>
  BY DEF RunStep, cluster, bounds
<1>2. RunInv' /\ request' = request
  BY <1>1, RunStepKeeps, ResultsStep DEF RInv, RunInv, Next
<1>3. TypedObjects' /\ TypedLive' /\ TypedRest'
  BY <1>1, <1>2 DEF RInv, TypedObjects, TypedLive, TypedRest, RunInv, IInv
<1>4. ASSUME NEW i \in LuksInstances \ excused'
      PROVE  KeyOK(i)'
  <2>1. KeyOK(i)
    BY <1>1, <1>4 DEF RInv
  <2>. QED
    BY <1>1, <1>2, <2>1, KeyFrame DEF RInv, TypedLive
<1>. QED
  BY <1>1, <1>2, <1>3, <1>4 DEF RInv

(* No answer, or none that is used: the next run begins anew.              *)
LEMMA ResetRunIsIdle ==
  RInv /\ ResetRun => Idle' /\ ~running' /\ running' \in BOOLEAN /\ scheme' = scheme
  BY DEF ResetRun, Idle

LEMMA NoAnswerKeeps == RInv /\ (Reject \/ Lose) => RInv'
<1>. SUFFICES ASSUME RInv, Reject \/ Lose PROVE RInv'
  OBVIOUS
<1>1. ResetRun /\ UNCHANGED <<xr, size, objects, live, volumes, excused, creds, ops, clock>>
  BY DEF Reject, Lose, cluster, bounds
<1>2. Idle' /\ ~running' /\ running' \in BOOLEAN /\ scheme' = scheme
  BY <1>1, ResetRunIsIdle
<1>3. TypedObjects' /\ TypedLive' /\ TypedRest'
  BY <1>1, <1>2 DEF RInv, TypedObjects, TypedLive, TypedRest
<1>4. ASSUME NEW i \in LuksInstances \ excused'
      PROVE  KeyOK(i)'
  BY <1>1, <1>2, <1>4 DEF RInv, KeyOK
<1>. QED
  BY <1>2, <1>3, <1>4 DEF RInv
------------------------------------------------------------------------------
(* What the answer of a run that did not fail holds.                       *)
UsableAnswer == running /\ Finished /\ \A i \in DOMAIN results : results[i] # "Fatal"

LEMMA AnswerFacts ==
  ASSUME RInv, UsableAnswer
  PROVE  /\ io.resources = resources /\ io.composite = composite /\ IsXR(Comp) /\ IsXR(composite)
         /\ composite.strategy = request.composite.strategy
         /\ IsList(resources) /\ Asks(resources)
         /\ Ran(3) /\ results[3] # "Fatal" /\ Ran(5) /\ results[5] # "Fatal"
         /\ Comp # Bad /\ RenderedCluster.obj.instances \in Nat
<1>1. /\ RunInv /\ IInv /\ Inv /\ fn = 6
  BY DEF UsableAnswer, Finished, RInv, RunInv, IInv, postgresFunctions
<1>2. iter = 0 /\ io = Synced /\ Asks(resources) /\ SnapshotOK /\ FatalReasons
  BY <1>1 DEF RunInv, IInv, Stage
<1>3. results \in Seq({"Normal", "Warning", "Fatal"}) /\ Len(results) = 5
  BY <1>1 DEF Inv
<1>4. \A k \in 1 .. 5 : Ran(k) /\ results[k] # "Fatal"
  BY <1>3 DEF UsableAnswer, Ran
<1>5. Comp # Bad /\ request.composite # Bad
  BY <1>2, <1>4 DEF FatalReasons
<1>6. IsXR(Comp) /\ IsXR(request.composite)
  BY <1>2 DEF SnapshotOK
<1>7. PICK offset \in Offsets : composite = Scheduled(request.composite, offset)
  BY <1>1, <1>5 DEF Inv, ScheduleOf
<1>8. IsXR(composite) /\ composite.strategy = request.composite.strategy
  BY <1>6, <1>7 DEF Scheduled, IsXR, IsComposite
<1>9. io.resources = resources /\ io.composite = composite
  BY <1>2 DEF Synced
<1>10. IsList(resources)
  BY <1>1 DEF IInv, KeepsRendered
<1>11. RenderedCluster.obj.instances \in Nat
  <2>1. RenderedCluster.obj.instances \in Sizes
    BY <1>2, ManifestsOf DEF SnapshotOK, Clusters
  <2>. QED
    BY <2>1, ReconcileAssumption
<1>. QED
  BY <1>2, <1>4, <1>5, <1>6, <1>8, <1>9, <1>10, <1>11

(* What is written of an answer, resource by resource.                     *)
LEMMA AppliedObjects ==
  ASSUME RInv, UsableAnswer, NEW done \in SUBSET NamesIn(io.resources), Applied(done)
  PROVE  /\ DOMAIN objects' = (DOMAIN objects \intersect NamesIn(resources)) \union done
         /\ DOMAIN live' = DOMAIN live \intersect NamesIn(resources)
         /\ DOMAIN ops' = DOMAIN ops \intersect NamesIn(resources)
         /\ \A n \in DOMAIN live' : live'[n] = live[n]
         /\ \A n \in DOMAIN objects' :
              /\ objects'[n] = [spec |-> objects'[n].spec, status |-> objects'[n].status]
              /\ objects'[n].spec = IF n \in done THEN Manifest(n) ELSE objects[n].spec
              /\ objects'[n].status = IF n \in DOMAIN objects THEN objects[n].status ELSE Nil
<1> DEFINE old(n) == IF n \in DOMAIN objects THEN objects[n] ELSE [spec |-> Nil, status |-> Nil]
           kept   == {n \in DOMAIN objects : n \in NamesIn(io.resources)}
<1>1. io.resources = resources
  BY AnswerFacts
<1>2. /\ objects' = [n \in kept \union done |->
           IF n \in done THEN [old(n) EXCEPT !.spec = Manifest(n)] ELSE old(n)]
      /\ live' = Restrict(live, DOMAIN live \intersect kept)
      /\ ops' = Restrict(ops, DOMAIN ops \intersect kept)
  BY <1>1 DEF Applied, Manifest, Entry
<1>3. kept = DOMAIN objects \intersect NamesIn(resources)
  BY <1>1
<1>. HIDE DEF kept
<1>4. DOMAIN live \subseteq DOMAIN objects /\ DOMAIN ops \subseteq DOMAIN live
  BY DEF RInv, TypedLive, TypedRest
<1>5. /\ DOMAIN live' = DOMAIN live \intersect kept /\ \A n \in DOMAIN live' : live'[n] = live[n]
      /\ DOMAIN ops' = DOMAIN ops \intersect kept
  BY <1>2 DEF Restrict
<1>6. \A n : old(n) = [spec |-> old(n).spec, status |-> IF n \in DOMAIN objects THEN objects[n].status ELSE Nil]
  BY DEF RInv, TypedObjects
<1>7. \A n : n \in DOMAIN objects => old(n).spec = objects[n].spec
  OBVIOUS
<1>. HIDE DEF old
<1>8. DOMAIN objects' = kept \union done
  BY <1>2
<1>9. ASSUME NEW n \in DOMAIN objects'
      PROVE  /\ objects'[n] = [spec |-> objects'[n].spec, status |-> objects'[n].status]
             /\ objects'[n].spec = IF n \in done THEN Manifest(n) ELSE objects[n].spec
             /\ objects'[n].status = IF n \in DOMAIN objects THEN objects[n].status ELSE Nil
  <2> DEFINE status == IF n \in DOMAIN objects THEN objects[n].status ELSE Nil
  <2>1. objects'[n] = IF n \in done THEN [old(n) EXCEPT !.spec = Manifest(n)] ELSE old(n)
    BY <1>2, <1>8
  <2>2. old(n) = [spec |-> old(n).spec, status |-> status]
    BY <1>6
  <2>3. n \notin done => old(n).spec = objects[n].spec
    BY <1>3, <1>7, <1>8
  <2>. HIDE DEF status
  <2>4. [old(n) EXCEPT !.spec = Manifest(n)] = [spec |-> Manifest(n), status |-> status]
    BY <2>2
  <2>5. objects'[n] = [spec |-> objects'[n].spec, status |-> objects'[n].status] /\ objects'[n].status = status
        /\ objects'[n].spec = IF n \in done THEN Manifest(n) ELSE objects[n].spec
    BY <2>1, <2>2, <2>3, <2>4
  <2>. QED
    BY <2>5 DEF status
<1>. QED
  BY <1>3, <1>4, <1>5, <1>8, <1>9

(* An instance whose key is not given up has its key from the snapshot, or *)
(* a first one: the run has put it into the answer.                        *)
LEMMA KeyInAnswer ==
  ASSUME RInv, UsableAnswer, NEW done, Applied(done), NEW i \in LuksInstances \ excused'
  PROVE  /\ LuksKey(i) \in NamesIn(resources) /\ KeyOK(i)
         /\ LuksKey(i) \in DOMAIN objects =>
              ~Fails(LuksKey(i)) /\ Manifest(LuksKey(i)).data = objects[LuksKey(i)].spec.data
<1> DEFINE n == LuksKey(i)
<1>1. /\ i \notin excused /\ Comp.encrypted /\ ~(i >= RenderedCluster.obj.instances)
      /\ ~(n \in NamesIn(request.observed) /\ Fails(n))
  BY DEF Applied
<1>2. KeyOK(i)
  BY <1>1 DEF RInv
<1>3. /\ Comp # Bad /\ Ran(5) /\ results[5] # "Fatal" /\ RenderedCluster.obj.instances \in Nat
  BY AnswerFacts
<1>4. i \in 0 .. RenderedCluster.obj.instances - 1
  <2>1. i \in Int /\ i >= 0
    BY DEF LuksInstances
  <2>. QED
    BY <2>1, <1>1, <1>3
<1>5. EncryptedComplete /\ running /\ NamesIn(request.observed) = DOMAIN objects
  BY DEF RInv, RunInv, UsableAnswer
<1>6. /\ n \in NamesIn(resources)
      /\ Manifest(n).data \in IF Fails(n) THEN NewKeys \ {Bad} ELSE {Observed(n).obj.data}
  BY <1>1, <1>3, <1>4, <1>5 DEF EncryptedComplete, Desired
<1>7. ASSUME n \in DOMAIN objects
      PROVE  ~Fails(n) /\ Manifest(n).data = objects[n].spec.data
  <2>1. ~Fails(n)
    BY <1>1, <1>5, <1>7
  <2>2. Observed(n).obj.data = objects[n].spec.data
    BY <1>2, <1>5, <1>7, <2>1 DEF KeyOK
  <2>. QED
    BY <1>6, <2>1, <2>2
<1>. QED
  BY <1>2, <1>6, <1>7

LEMMA AppliedComposite ==
  ASSUME RInv, UsableAnswer, NEW done, Applied(done)
  PROVE  IsXR(xr')
<1>1. IsXR(xr) /\ IsXR(composite) /\ io.composite = composite
  BY AnswerFacts DEF RInv, TypedRest
<1>2. xr' = [f \in DOMAIN xr |-> IF composite[f] = Comp[f] THEN xr[f] ELSE composite[f]]
  BY <1>1 DEF Applied
<1>3. \A f \in DOMAIN xr : xr'[f] \in {xr[f], composite[f]}
  BY <1>2
<1>4. DOMAIN xr = {"ns", "strategy", "ref", "template", "secretRef", "encrypted", "backup",
                   "timeOfDay", "dayOfWeek", "rest"}
  BY <1>1 DEF IsXR, IsComposite
<1>5. IsComposite(xr')
  BY <1>2, <1>4 DEF IsComposite
<1>6. /\ xr'["ns"] \in {xr["ns"], composite["ns"]} /\ xr'["ref"] \in {xr["ref"], composite["ref"]}
      /\ xr'["template"] \in {xr["template"], composite["template"]}
      /\ xr'["secretRef"] \in {xr["secretRef"], composite["secretRef"]}
  BY <1>3, <1>4
<1>. QED
  BY <1>1, <1>5, <1>6 DEF IsXR

LEMMA AppliedKeeps ==
  ASSUME RInv, UsableAnswer, NEW done \in SUBSET NamesIn(io.resources), Applied(done)
  PROVE  RInv'
<1>1. /\ DOMAIN objects' = (DOMAIN objects \intersect NamesIn(resources)) \union done
      /\ DOMAIN live' = DOMAIN live \intersect NamesIn(resources)
      /\ DOMAIN ops' = DOMAIN ops \intersect NamesIn(resources)
      /\ \A n \in DOMAIN live' : live'[n] = live[n]
      /\ \A n \in DOMAIN objects' :
           /\ objects'[n] = [spec |-> objects'[n].spec, status |-> objects'[n].status]
           /\ objects'[n].spec = IF n \in done THEN Manifest(n) ELSE objects[n].spec
           /\ objects'[n].status = IF n \in DOMAIN objects THEN objects[n].status ELSE Nil
  BY AppliedObjects
<1>2. /\ TypedObjects /\ TypedLive /\ TypedRest
  BY DEF RInv
<1>3. /\ ResetRun /\ UNCHANGED <<size, volumes, creds, clock>> /\ done \subseteq NamesIn(resources)
      /\ excused' \subseteq excused \union LuksInstances
  BY AnswerFacts DEF Applied
<1>4. Idle' /\ ~running' /\ running' \in BOOLEAN /\ scheme' = scheme
  BY <1>3, ResetRunIsIdle
<1>5. TypedObjects'
  <2>1. ASSUME NEW n \in done PROVE n \in Names /\ Manifest(n) \in ManifestsFor(n)
    BY <1>3, AnswerFacts DEF Asks, Manifest, Entry, At
  <2>2. DOMAIN objects' \subseteq Names
    BY <1>1, <1>2, <2>1 DEF TypedObjects
  <2>3. ASSUME NEW n \in DOMAIN objects'
        PROVE  /\ objects'[n] = [spec |-> objects'[n].spec, status |-> objects'[n].status]
               /\ objects'[n].spec \in ManifestsFor(n)
               /\ objects'[n].status = Nil \/ objects'[n].status \in ManifestsFor(n)
    <3>1. /\ objects'[n].spec = IF n \in done THEN Manifest(n) ELSE objects[n].spec
          /\ objects'[n].status = IF n \in DOMAIN objects THEN objects[n].status ELSE Nil
          /\ objects'[n] = [spec |-> objects'[n].spec, status |-> objects'[n].status]
      BY <1>1
    <3>2. n \in done \/ n \in DOMAIN objects
      BY <1>1
    <3>. QED
      BY <1>2, <2>1, <3>1, <3>2 DEF TypedObjects
  <2>. QED
    BY <2>2, <2>3 DEF TypedObjects
<1>6. TypedLive' /\ TypedRest'
  BY <1>1, <1>2, <1>3, <1>4, AppliedComposite DEF TypedLive, TypedRest
<1>7. ASSUME NEW i \in LuksInstances \ excused'
      PROVE  KeyOK(i)'
  <2> DEFINE n == LuksKey(i)
  <2>1. /\ n \in NamesIn(resources) /\ KeyOK(i)
        /\ n \in DOMAIN objects => Manifest(n).data = objects[n].spec.data
    BY <1>7, KeyInAnswer
  <2>. HIDE DEF n
  <2>2. CASE n \in DOMAIN objects
    <3>1. n \in DOMAIN objects'
      BY <1>1, <2>1, <2>2
    <3>2. objects'[n].spec.data = objects[n].spec.data /\ objects'[n].status = objects[n].status
      BY <1>1, <2>1, <2>2, <3>1
    <3>3. (n \in DOMAIN live' <=> n \in DOMAIN live) /\ (n \in DOMAIN live => live'[n] = live[n])
      BY <1>1, <2>1
    <3>. QED
      BY <1>3, <1>4, <2>1, <2>2, <3>1, <3>2, <3>3 DEF KeyOK, n
  <2>3. CASE n \notin DOMAIN objects
    <3>1. n \notin DOMAIN live /\ n \notin DOMAIN live' /\ volumes[i] = Nil
      BY <1>1, <1>2, <2>1, <2>3 DEF KeyOK, TypedLive, n
    <3>2. n \in DOMAIN objects' => objects'[n].status = Nil
      BY <1>1, <2>3
    <3>. QED
      BY <1>3, <1>4, <3>1, <3>2 DEF KeyOK, n
  <2>. QED
    BY <2>2, <2>3
<1>. QED
  BY <1>4, <1>5, <1>6, <1>7 DEF RInv
------------------------------------------------------------------------------
(* The invariant is inductive.                                             *)

LEMMA InitRInv == ReconcileInit => RInv
<1>. SUFFICES ASSUME ReconcileInit PROVE RInv
  OBVIOUS
<1>1. /\ ~running /\ running \in BOOLEAN /\ Idle /\ IsXR(xr) /\ size \in Sizes /\ clock = 1
      /\ ops = <<>> /\ volumes = [i \in LuksInstances |-> Nil] /\ excused = {}
      /\ scheme = StartScheme \union {"AlertmanagerConfig"}
  BY MarksAssumption DEF ReconcileInit, InitRun, Idle
<1>2. Present \subseteq Base /\ Base \subseteq Names
  BY ReconcileAssumption DEF Names
<1>3. creds \in [PostgresFields -> {Nil, "v1", "v2"}]
  BY ReconcileAssumption DEF ReconcileInit, Credentials
<1>4. ASSUME NEW n \in Present
      PROVE  live[n] \in ManifestsFor(n)
  <2>1. CASE n = Connection
    <3>1. Rendering(n, size) \in ConnectionSecrets
      BY <1>1, <1>2, <2>1, RenderingIsTyped, ManifestsOf
    <3>2. live[n] = [Rendering(n, size) EXCEPT !.data = creds]
      BY <2>1 DEF ReconcileInit
    <3>3. live[n] \in ConnectionSecrets
      BY <1>3, <3>1, <3>2 DEF ConnectionSecrets
    <3>. QED
      BY <2>1, <3>3, ManifestsOf
  <2>2. CASE n # Connection
    <3>1. live[n] = Rendering(n, size)
      BY <2>2 DEF ReconcileInit
    <3>. QED
      BY <1>1, <1>2, <3>1, RenderingIsTyped
  <2>. QED
    BY <2>1, <2>2
<1>5. DOMAIN live = Present /\ DOMAIN objects = Present
      /\ \A n \in Present : objects[n] = [spec |-> Rendering(n, size), status |-> live[n]]
  BY DEF ReconcileInit
<1>6. TypedObjects /\ TypedLive
  BY <1>1, <1>2, <1>4, <1>5, RenderingIsTyped DEF TypedObjects, TypedLive
<1>7. TypedRest
  <2>1. DOMAIN ops = {} /\ clock \in Times
    BY <1>1, ReconcileAssumption DEF Times
  <2>. QED
    BY <1>1, <1>3, <2>1 DEF TypedRest
<1>8. ASSUME NEW i \in LuksInstances \ excused
      PROVE  KeyOK(i)
  <2>1. LuksKey(i) \notin DOMAIN objects /\ LuksKey(i) \notin DOMAIN live /\ volumes[i] = Nil
    BY <1>1, <1>2, <1>5, NamesApart
  <2>. QED
    BY <2>1 DEF KeyOK
<1>. QED
  BY <1>1, <1>6, <1>7, <1>8 DEF RInv

LEMMA PartlyIsApplied ==
  ASSUME ApplyPartly
  PROVE  UsableAnswer /\ \E done \in SUBSET NamesIn(io.resources) : Applied(done)
<1>. DEFINE new == [n \in NamesIn(io.resources) |-> io.resources[Position(io.resources, n)].raw.spec]
<1>1. \E failed : Applied(DOMAIN new \ failed)
  BY DEF ApplyPartly
<1>2. DOMAIN new = NamesIn(io.resources)
  OBVIOUS
<1>. HIDE DEF new
<1>3. PICK failed : Applied(NamesIn(io.resources) \ failed)
  BY <1>1, <1>2
<1>4. NamesIn(io.resources) \ failed \in SUBSET NamesIn(io.resources)
  OBVIOUS
<1>. QED
  BY <1>3, <1>4 DEF ApplyPartly, Applied, UsableAnswer

LEMMA NextRInv == RInv /\ [ReconcileNext]_allVars => RInv'
<1>. SUFFICES ASSUME RInv, [ReconcileNext]_allVars PROVE RInv'
  OBVIOUS
<1>1. CASE Begin
  BY <1>1, BeginKeeps
<1>2. CASE RunStep
  BY <1>2, RunStepLeavesCluster
<1>3. CASE Apply
  <2>1. Applied(NamesIn(io.resources)) /\ UsableAnswer
    BY <1>3 DEF Apply, Applied, UsableAnswer
  <2>. QED
    BY <2>1, AppliedKeeps
<1>4. CASE ApplyPartly
  <2>1. PICK done \in SUBSET NamesIn(io.resources) : Applied(done)
    BY <1>4, PartlyIsApplied
  <2>2. UsableAnswer
    BY <1>4, PartlyIsApplied
  <2>. QED
    BY <2>1, <2>2, AppliedKeeps
<1>5. CASE Lose \/ Reject
  BY <1>5, NoAnswerKeeps
<1>6. ASSUME NEW n \in Names, Provider(n) \/ Ops(n) PROVE RInv'
  BY <1>6, ProviderWriteKeeps, ProviderReportKeeps, StartOpKeeps, EndOpKeeps DEF Provider, Ops
<1>7. ASSUME NEW i \in LuksInstances, FormatVolume(i) PROVE RInv'
  BY <1>7, FormatVolumeKeeps
<1>8. CASE ProvideCredentials \/ RotateCredentials
  BY <1>8, CredentialsKeep
<1>9. CASE Scale \/ SwitchEncryption \/ SwitchStrategy
  BY <1>9, UserKeeps
<1>10. CASE Reconfigure
  BY <1>10, ReconfigureKeeps
<1>11. CASE Tick
  BY <1>11, TickKeeps
<1>12. CASE UNCHANGED allVars
  <2>1. UNCHANGED <<runVars, running, xr, size, objects, live, volumes, excused, creds, ops, clock>>
    BY <1>12 DEF allVars, cluster, bounds
  <2>2. TypedLive' /\ TypedRest'
    BY <2>1 DEF RInv, TypedLive, TypedRest, runVars
  <2>. QED
    BY <2>1, <2>2, KeysLeftAlone
<1>. QED
  BY <1>1, <1>2, <1>3, <1>4, <1>5, <1>6, <1>7, <1>8, <1>9, <1>10, <1>11, <1>12 DEF ReconcileNext

LEMMA RInvHolds == ReconcileSpec => []RInv
  BY InitRInv, NextRInv, PTL DEF ReconcileSpec

(* What the controllers find under a name is what it stands for: whatever  *)
(* the functions put and in whatever order they act, no object of another  *)
(* kind comes under the name of a key or a restart operation, nothing is   *)
(* created that is not asked for, and no restart runs without its object   *)
(* (encrypted_pvc.go:95-107, restart.go:79-107).                           *)
THEOREM ClusterIsTyped == ReconcileSpec => []ReconcileTypeOK
<1>1. RInv => ReconcileTypeOK
  <2>. SUFFICES ASSUME RInv PROVE ReconcileTypeOK
    OBVIOUS
  <2>1. \A n \in DOMAIN objects : n \in Names /\ objects[n].spec.kind = KindOf(n)
    BY KindOfManifest DEF RInv, TypedObjects
  <2>2. \A n \in DOMAIN live : live[n].kind = KindOf(n)
    BY <2>1, KindOfManifest DEF RInv, TypedLive
  <2>. QED
    BY <2>1, <2>2 DEF ReconcileTypeOK, RInv, TypedObjects, TypedLive, TypedRest, Idle
<1>. QED
  BY <1>1, RInvHolds, PTL

(* The volume of an instance can always be opened again, unless its key    *)
(* was given up: through any number of lost answers, failing writes and    *)
(* changes, a run puts the key that it observes (encrypted_pvc.go:76-84),  *)
(* and one that does not observe it has nothing to replace.                *)
THEOREM VolumeKeysAreKept == ReconcileSpec => []VolumeKeyKept
<1>1. RInv => VolumeKeyKept
  BY DEF RInv, KeyOK, VolumeKeyKept
<1>. QED
  BY <1>1, RInvHolds, PTL

(* Only an answer that is applied removes anything from the cluster.       *)
LEMMA OnlyAnswersRemove ==
  ASSUME RInv, [ReconcileNext]_allVars, NEW n \in DOMAIN live, n \notin DOMAIN live'
  PROVE  UsableAnswer /\ \E done \in SUBSET NamesIn(io.resources) : Applied(done)
<1>1. CASE Apply
  BY <1>1 DEF Apply, Applied, UsableAnswer
<1>2. CASE ApplyPartly
  BY <1>2, PartlyIsApplied
<1>3. CASE \E m \in Names : ProviderWrite(m)
  BY <1>3 DEF ProviderWrite, With
<1>4. CASE Reconfigure \/ \E m \in Names : EndOp(m)
  BY <1>4 DEF Reconfigure, EndOp
<1>5. CASE live' = live
  BY <1>5
<1>. QED
  <2>1. live' = live \/ Apply \/ ApplyPartly \/ Reconfigure \/ \E m \in Names : ProviderWrite(m) \/ EndOp(m)
    BY DEF ReconcileNext, allVars, cluster, Begin, RunStep, Lose, Reject, Provider, Ops, ProviderReport,
           StartOp, FormatVolume, ProvideCredentials, Scale, SwitchEncryption, SwitchStrategy,
           RotateCredentials, Tick
  <2>. QED
    BY <2>1, <1>1, <1>2, <1>3, <1>4, <1>5

(* A restart under way loses its operation only to a run that did not see  *)
(* the operation, or saw it past its retention time, and did not see the   *)
(* cluster wait for it (restart.go:36-47, 111-143).                        *)
THEOREM RestartsAreNotInterrupted == ReconcileSpec => NotInterrupted
<1>1. ASSUME RInv, [ReconcileNext]_allVars, NEW n \in DOMAIN ops, n \notin DOMAIN live'
      PROVE  n # RestartOp(Awaited) /\ (Fails(n) \/ request.now - n[2] > Retention)
  <2>1. n \in DOMAIN live /\ n \in DOMAIN objects /\ n \in Names /\ n[1] = "pg-restart"
    BY <1>1 DEF RInv, TypedObjects, TypedLive, TypedRest
  <2>2. PICK t \in Times : n = RestartOp(t)
    <3>1. n \notin Base
      BY <2>1, NamesApart DEF OwnName
    <3>2. \A i : n # LuksKey(i)
      BY <2>1, OwnNames
    <3>. QED
      BY <2>1, <3>1, <3>2, NameCases
  <2>3. PICK done \in SUBSET NamesIn(io.resources) : UsableAnswer /\ Applied(done)
    BY <1>1, <2>1, OnlyAnswersRemove
  <2>4. n \notin NamesIn(resources)
    BY <1>1, <2>1, <2>3, AppliedObjects
  <2>5. /\ NamesIn(request.observed) = DOMAIN objects /\ SnapshotOK /\ RestartOpsExact /\ Admissible(request)
        /\ Ran(3) /\ results[3] # "Fatal" /\ composite.strategy = request.composite.strategy
    BY <1>1, <2>3, AnswerFacts DEF RInv, RunInv, IInv, Inv, UsableAnswer
  <2> DEFINE recent == {m \in ObservedOps :
                          /\ Observed(m).obj.op = "restart"
                          /\ Observed(m).obj.runAt \notin {Nil, Bad}
                          /\ request.now - Observed(m).obj.runAt <= Retention}
  <2>6. RestartOps(resources) = recent \union (IF Awaited = 0 THEN {} ELSE {RestartOp(Awaited)})
    BY <2>5 DEF RestartOpsExact, Awaited
  <2>7. n \notin recent /\ (Awaited # 0 => n # RestartOp(Awaited))
    BY <2>4, <2>6 DEF RestartOps
  <2>8. n # RestartOp(Awaited)
    <3>1. Awaited = 0 => n # RestartOp(Awaited)
      BY <2>2, OwnNames DEF Times
    <3>. QED
      BY <2>7, <3>1
  <2>9. ASSUME ~Fails(n)
        PROVE  request.now - n[2] > Retention
    <3>1. Observed(n).obj = RestartAt(t)
      BY <2>1, <2>2, <2>5, <2>9, ManifestsOf DEF SnapshotOK
    <3>2. Observed(n).obj.op = "restart" /\ Observed(n).obj.runAt = t /\ n[2] = t
      BY <2>2, <3>1, OwnNames DEF RestartAt
    <3>3. t \notin {Nil, Bad} /\ t \in Int /\ request.now \in Int /\ Retention \in Int
      BY <2>5, MarksAssumption, RetentionAssumption DEF Times, Admissible
    <3>4. n \in ObservedOps
      BY <2>1, <2>5, <2>9 DEF ObservedOps, RestartOps
    <3>5. ~(request.now - t <= Retention)
      BY <2>7, <3>2, <3>3, <3>4
    <3>. QED
      BY <3>2, <3>3, <3>5
  <2>. QED
    BY <2>8, <2>9
<1>2. RInv /\ [ReconcileNext]_allVars =>
        [\A n \in DOMAIN ops : ops[n] = "running" /\ n \notin DOMAIN live' =>
           /\ n # RestartOp(Awaited)
           /\ Fails(n) \/ request.now - n[2] > Retention]_allVars
  BY <1>1
<1>. QED
  BY <1>2, RInvHolds, PTL DEF ReconcileSpec, NotInterrupted
------------------------------------------------------------------------------
(* The keys, seen as VolumeKeys sees them.                                 *)
SecretKeys == [i \in LuksInstances |-> SecretKey(i)]

LEMMA KeyOfManifest ==
  ASSUME NEW i, NEW m \in ManifestsFor(LuksKey(i))
  PROVE  m.data \in NewKeys \ {Bad} /\ m.data # Nil
<1>1. PICK k \in NewKeys \ {Bad} : m = LuksSecret(i, k)
  BY ManifestsOf
<1>2. m.data = k
  BY <1>1 DEF LuksSecret
<1>. QED
  BY <1>2, ReconcileAssumption

(* No secret of a key has changed. *)
LEMMA KeysUnchanged ==
  ASSUME UNCHANGED <<volumes, excused>>,
         \A n : n # Cluster => (n \in DOMAIN live' <=> n \in DOMAIN live) /\ (n \in DOMAIN live => live'[n] = live[n])
  PROVE  UNCHANGED Encryption!kvars
<1>1. ASSUME NEW i PROVE SecretKey(i)' = SecretKey(i)
  <2>1. LuksKey(i) # Cluster
    BY NamesApart DEF Base
  <2>. QED
    BY <2>1 DEF SecretKey
<1>. QED
  BY <1>1 DEF Encryption!kvars

(* A secret of a key is written: for the first time, or again with the key *)
(* that it has, unless that key has been given up.                         *)
LEMMA WriteImplements ==
  ASSUME RInv, RInv', NEW n \in Names, ProviderWrite(n)
  PROVE  Encryption!Next \/ UNCHANGED Encryption!kvars
<1>1. /\ n \in DOMAIN objects /\ live' = With(live, n, Wanted(n))
      /\ UNCHANGED <<objects, volumes, excused>>
  BY DEF ProviderWrite
<1>2. /\ DOMAIN live' = DOMAIN live \union {n} /\ live'[n] = Wanted(n)
      /\ \A m \in DOMAIN live : m # n => live'[m] = live[m]
  BY <1>1 DEF With
<1>3. TypedObjects /\ TypedLive /\ TypedRest /\ TypedObjects' /\ TypedLive'
  BY DEF RInv
<1>4. CASE \E i \in LuksInstances : n = LuksKey(i)
  <2>1. PICK i \in LuksInstances : n = LuksKey(i)
    BY <1>4
  <2>2. \A j \in LuksInstances : j # i => LuksKey(j) # n /\ SecretKey(j)' = SecretKey(j)
    <3>. SUFFICES ASSUME NEW j \in LuksInstances, j # i
                  PROVE  LuksKey(j) # n /\ SecretKey(j)' = SecretKey(j)
      OBVIOUS
    <3>1. LuksKey(j)[2] = j /\ n[2] = i
      BY <2>1, OwnNames
    <3>2. LuksKey(j) # n
      BY <3>1
    <3>. QED
      BY <1>2, <3>2 DEF SecretKey
  <2>3. SecretKey(i)' \in NewKeys \ {Bad}
    BY <1>2, <1>3, <2>1, KeyOfManifest DEF TypedLive, SecretKey
  <2> DEFINE k == SecretKey(i)'
  <2>4. SecretKeys' = [SecretKeys EXCEPT ![i] = k]
    BY <2>2 DEF SecretKeys
  <2>5. CASE i \in excused
    BY <1>1, <2>1, <2>3, <2>4, <2>5 DEF Encryption!Next, Encryption!Replace, SecretKeys
  <2>6. CASE i \notin excused /\ n \in DOMAIN live
    <3>1. Wanted(n) = objects[n].spec
      BY <1>1, <1>3, <2>1, WantedTyped, NamesApart DEF Base
    <3>2. live[n].data = objects[n].spec.data
      BY <2>1, <2>6 DEF RInv, KeyOK
    <3>3. SecretKey(i)' = SecretKey(i)
      BY <1>2, <2>1, <2>6, <3>1, <3>2 DEF SecretKey
    <3>. QED
      BY <1>1, <2>2, <3>3 DEF Encryption!kvars
  <2>7. CASE i \notin excused /\ n \notin DOMAIN live
    <3>1. SecretKeys[i] = Nil
      BY <2>1, <2>7 DEF SecretKey, SecretKeys
    <3>. QED
      BY <1>1, <2>1, <2>3, <2>4, <2>7, <3>1 DEF Encryption!Next, Encryption!Generate, SecretKeys
  <2>. QED
    BY <2>5, <2>6, <2>7
<1>5. CASE \A i \in LuksInstances : n # LuksKey(i)
  <2>1. \A i \in LuksInstances : SecretKey(i)' = SecretKey(i)
    BY <1>2, <1>5 DEF SecretKey
  <2>. QED
    BY <1>1, <2>1 DEF Encryption!kvars
<1>. QED
  BY <1>4, <1>5

(* A volume is formatted with the key in the secret of its instance. *)
LEMMA FormatImplements ==
  ASSUME RInv, NEW i \in LuksInstances, FormatVolume(i)
  PROVE  Encryption!Next
<1>1. /\ volumes[i] = Nil /\ LuksKey(i) \in DOMAIN live
      /\ volumes' = [volumes EXCEPT ![i] = SecretKey(i)] /\ UNCHANGED <<live, excused>>
  BY DEF FormatVolume, SecretKey
<1>2. SecretKey(i) # Nil
  BY <1>1, KeyOfManifest DEF RInv, TypedLive, SecretKey
<1>3. SecretKeys[i] = SecretKey(i) /\ SecretKeys' = SecretKeys
  BY <1>1 DEF SecretKeys, SecretKey
<1>. QED
  BY <1>1, <1>2, <1>3 DEF Encryption!Next, Encryption!Format, SecretKeys

(* An answer deletes only the keys that it gives up. *)
LEMMA AppliedImplements ==
  ASSUME RInv, UsableAnswer, NEW done \in SUBSET NamesIn(io.resources), Applied(done)
  PROVE  Encryption!Next
<1>1. /\ DOMAIN live' = DOMAIN live \intersect NamesIn(resources)
      /\ \A n \in DOMAIN live' : live'[n] = live[n]
  BY AppliedObjects
<1>2. UNCHANGED volumes /\ excused \subseteq excused' /\ excused' \subseteq excused \union LuksInstances
  BY DEF Applied
<1> DEFINE deleted == {i \in LuksInstances : LuksKey(i) \in DOMAIN live \ DOMAIN live'}
<1>3. ASSUME NEW i \in deleted PROVE i \in excused'
  <2>1. SUFFICES ASSUME i \in LuksInstances \ excused' PROVE FALSE
    OBVIOUS
  <2>2. LuksKey(i) \in NamesIn(resources)
    BY <2>1, KeyInAnswer
  <2>. QED
    BY <1>1, <2>2
<1>4. ASSUME NEW i \in LuksInstances
      PROVE  SecretKey(i)' = IF i \in deleted THEN Nil ELSE SecretKey(i)
  BY <1>1 DEF SecretKey
<1>5. SecretKeys' = [i \in LuksInstances |-> IF i \in deleted THEN Nil ELSE SecretKeys[i]]
  BY <1>4 DEF SecretKeys
<1>. HIDE DEF deleted
<1>6. excused' \subseteq LuksInstances
  BY <1>2 DEF RInv, TypedRest
<1>. QED
  BY <1>2, <1>3, <1>5, <1>6 DEF Encryption!Next, Encryption!GiveUp, SecretKeys

(* However often the functions run, and whatever becomes of their answers, *)
(* the keys behave as VolumeKeys says: what AddPvcSecret reads from one    *)
(* report and writes for another never changes or loses the key of an      *)
(* instance, unless it is one of those given up (encrypted_pvc.go:57-110). *)
THEOREM VolumeKeysAreImplemented == ReconcileSpec => ImplementsVolumeKeys
<1>1. ReconcileInit => Encryption!Init
  <2>. SUFFICES ASSUME ReconcileInit PROVE Encryption!Init
    OBVIOUS
  <2>1. DOMAIN live = Present /\ volumes = [i \in LuksInstances |-> Nil] /\ excused = {}
    BY DEF ReconcileInit
  <2>2. \A i \in LuksInstances : SecretKey(i) = Nil
    BY <2>1, NamesApart, ReconcileAssumption DEF SecretKey
  <2>. QED
    BY <2>1, <2>2 DEF Encryption!Init
<1>2. RInv /\ RInv' /\ [ReconcileNext]_allVars => [Encryption!Next]_(Encryption!kvars)
  <2>. SUFFICES ASSUME RInv, RInv', [ReconcileNext]_allVars
                PROVE  Encryption!Next \/ UNCHANGED Encryption!kvars
    OBVIOUS
  <2>1. CASE Apply \/ ApplyPartly
    <3>1. PICK done \in SUBSET NamesIn(io.resources) : UsableAnswer /\ Applied(done)
      BY <2>1, PartlyIsApplied DEF Apply, Applied, UsableAnswer
    <3>. QED
      BY <3>1, AppliedImplements
  <2>2. CASE \E n \in Names : ProviderWrite(n)
    BY <2>2, WriteImplements
  <2>3. CASE \E i \in LuksInstances : FormatVolume(i)
    BY <2>3, FormatImplements
  <2>4. CASE UNCHANGED <<live, volumes, excused>>
    BY <2>4, KeysUnchanged
  <2>5. CASE Reconfigure \/ \E n \in Names : EndOp(n)
    <3>1. UNCHANGED <<volumes, excused>> /\ \E c : live' = [live EXCEPT ![Cluster].conditions = c]
      BY <2>5 DEF Reconfigure, Change, EndOp
    <3>2. \A n : n # Cluster => (n \in DOMAIN live' <=> n \in DOMAIN live) /\ (n \in DOMAIN live => live'[n] = live[n])
      BY <3>1
    <3>. QED
      BY <3>1, <3>2, KeysUnchanged
  <2>6. \/ UNCHANGED <<live, volumes, excused>> \/ Apply \/ ApplyPartly \/ Reconfigure
        \/ (\E n \in Names : ProviderWrite(n) \/ EndOp(n)) \/ \E i \in LuksInstances : FormatVolume(i)
    BY DEF ReconcileNext, allVars, cluster, Begin, RunStep, Lose, Reject, Provider, Ops, ProviderReport,
           StartOp, ProvideCredentials, Change, Scale, SwitchEncryption, SwitchStrategy, RotateCredentials, Tick
  <2>. QED
    BY <2>1, <2>2, <2>3, <2>4, <2>5, <2>6
<1>. QED
  BY <1>1, <1>2, RInvHolds, PTL DEF ReconcileSpec, ImplementsVolumeKeys, Encryption!Spec
=============================================================================
