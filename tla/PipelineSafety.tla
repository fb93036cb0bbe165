--------------------------- MODULE PipelineSafety ---------------------------
(***************************************************************************)
(* The safety properties of Pipeline, for every request, every drawn time  *)
(* and every key.  IInv says how far each function has come: what it has   *)
(* not put yet is absent, and what it loops over is done up to iter.       *)
(***************************************************************************)
EXTENDS PipelineProofs, FiniteSetTheorems

Rendered == request.resources

(* The rendered resources in their places, then those of the functions. *)
KeepsRendered(list) ==
  /\ IsList(list)
  /\ \A i \in DOMAIN Rendered :
       /\ i \in DOMAIN list
       /\ list[i].name = Rendered[i].name /\ list[i].extra = Rendered[i].extra
       /\ Rendered[i].name # Cluster => list[i] = Rendered[i]
  /\ \A n \in NamesIn(list) : n \in NamesIn(Rendered) \/ OwnName(n)
  /\ \A i \in DOMAIN list : list[i].raw # Bad => list[i].raw.kind \in StartScheme

Without(list, prefix) == \A n \in NamesIn(list) : n[1] # prefix

Recent(k) == {request.observed[j].name : j \in {j \in 1 .. k - 1 : IsRecentRestart(request.observed[j].name)}}

LuksKeys(list) == {n \in NamesIn(list) : n[1] = "luks-key"}

EncryptedCluster == [RenderedCluster.obj EXCEPT !.storageClass = "ssd-encrypted"]
ClusterRaw == Renewed(At(Rendered, Cluster).raw, Cluster, {}, EncryptedCluster)

(* How far the restart and the encryption function have come. *)
RestartLoop ==
  /\ composite # Bad
  /\ iter <= Len(request.observed) + 1
  /\ RestartOps(resources) = Recent(iter)
  /\ \A n \in RestartOps(resources) : At(resources, n).raw = Fresh(n, {}, Observed(n).obj)

EncryptLoop ==
  /\ Comp # Bad /\ Comp.encrypted /\ RenderedCluster.err = "none"
  /\ Cluster \in NamesIn(resources)
  /\ At(resources, Cluster).raw = ClusterRaw
  /\ iter - 1 <= RenderedCluster.obj.instances
  /\ LuksKeys(resources) = {LuksKey(i) : i \in 0 .. iter - 2}

Stage ==
  /\ iter \in Nat /\ (iter > 0 => fn = 3 \/ fn = 5)
  /\ fn \in 1 .. 2 => Without(resources, "alertmanagerconfig") /\ Without(resources, "alertmanagerconfigsecret")
  /\ fn \in 1 .. 2 \/ (fn = 3 /\ iter = 0) => Without(resources, "pg-restart")
  /\ fn = 3 /\ iter > 0 => RestartLoop
  /\ fn \in 1 .. 4 \/ (fn = 5 /\ iter = 0) =>
       /\ Without(resources, "luks-key")
       /\ \A i \in DOMAIN Rendered : resources[i] = Rendered[i]
  /\ fn = 5 /\ iter > 0 => EncryptLoop

(* A LUKS secret holds a key that its instance may get. *)
LuksSecrets ==
  \A n \in LuksKeys(resources) :
    /\ n = LuksKey(n[2])
    /\ \E key \in LuksKeysFor(n[2]) \ {Bad} : At(resources, n).raw.spec = LuksSecret(n[2], key)

IInv ==
  /\ Inv
  /\ StartScheme \subseteq scheme /\ scheme \subseteq StartScheme \union {"AlertmanagerConfig"}
  /\ fn = 0 => resources = <<>>
  /\ fn > 0 => KeepsRendered(resources)
  /\ fn = 1 => conn = request.conn
  /\ Stage /\ LuksSecrets
------------------------------------------------------------------------------
(* Adding to the list under a name of the functions. *)
LEMMA OwnPut ==
  ASSUME IsRendered(Rendered), NEW list, KeepsRendered(list), NEW n, OwnName(n),
         NEW raw, raw.kind = "Object", NEW new, Puts(list, new, n, raw)
  PROVE  /\ KeepsRendered(new)
         /\ \A i \in DOMAIN Rendered : new[i] = list[i]
         /\ \A m : m # n => (m \in NamesIn(new) <=> m \in NamesIn(list))
         /\ \A m \in NamesIn(list) : m # n => At(new, m) = At(list, m)
<1>1. \A i \in DOMAIN Rendered : ~OwnName(Rendered[i].name)
  BY DEF IsRendered, NamesIn
<1>2. IsList(list) /\ IsList(new) /\ Len(list) \in Nat /\ Len(new) \in Nat
  BY DEF KeepsRendered, Puts, IsList
<1>3. DOMAIN list = 1 .. Len(list) /\ DOMAIN new = 1 .. Len(new)
  BY <1>2 DEF IsList
<1>4. \A i \in DOMAIN Rendered : i \in DOMAIN new /\ new[i] = list[i]
  BY <1>1, <1>2, <1>3 DEF KeepsRendered, Puts
<1>5. \A i \in DOMAIN new : new[i].raw # Bad => new[i].raw.kind \in StartScheme
  <2>. SUFFICES ASSUME NEW i \in DOMAIN new, new[i].raw # Bad PROVE new[i].raw.kind \in StartScheme
    OBVIOUS
  <2>1. new[i] = At(new, new[i].name) /\ new[i].name \in NamesIn(new)
    BY <1>2, EntryAt
  <2>2. CASE new[i].name = n
    BY <2>1, <2>2 DEF Puts, StartScheme
  <2>3. CASE new[i].name # n
    <3>1. new[i].name \in NamesIn(list) /\ new[i] = At(list, new[i].name)
      BY <2>1, <2>3 DEF Puts
    <3>2. Position(list, new[i].name) \in DOMAIN list
      BY <3>1, <1>2, EntryAt
    <3>. QED
      BY <3>1, <3>2 DEF At, KeepsRendered
  <2>. QED
    BY <2>2, <2>3
<1>6. \A m \in NamesIn(new) : m \in NamesIn(Rendered) \/ OwnName(m)
  BY DEF Puts, KeepsRendered
<1>7. KeepsRendered(new)
  BY <1>2, <1>4, <1>5, <1>6 DEF KeepsRendered
<1>. QED
  BY <1>4, <1>7 DEF Puts

(* AlertConfig and the like are what their prefixes say. *)
LEMMA OwnNames ==
  /\ OwnName(AlertConfig) /\ OwnName(AlertSecret) /\ ~OwnName(Cluster)
  /\ \A t : OwnName(RestartOp(t)) /\ RestartOp(t)[1] = "pg-restart" /\ RestartOp(t)[2] = t
  /\ \A i : OwnName(LuksKey(i)) /\ LuksKey(i)[1] = "luks-key" /\ LuksKey(i)[2] = i
  /\ AlertConfig[1] = "alertmanagerconfig" /\ AlertSecret[1] = "alertmanagerconfigsecret"
  /\ AlertConfig # AlertSecret
  BY DEF OwnName, AlertConfig, AlertSecret, Cluster, RestartOp, LuksKey

LEMMA EmptyIsList == IsList(<<>>) /\ NamesIn(<<>>) = {}
  BY DEF IsList, UniqueIn, NamesIn, Range

(* What is put where nothing has been put before can be read again. *)
LEMMA ReadableFresh ==
  ASSUME NEW manifest, NEW kon, NEW refs, Readable(<<>>, manifest, kon, refs)
  PROVE  manifest # Nil /\ manifest # Bad /\ Fresh(kon, refs, manifest) # Bad
<1>1. Stored(<<>>, manifest, kon, refs) = Fresh(kon, refs, manifest)
  BY EmptyIsList, StoredObject
<1>. QED
  BY <1>1 DEF Readable

LEMMA ReadableRenewed ==
  ASSUME NEW list, IsList(list), NEW manifest, NEW kon \in NamesIn(list), NEW refs,
         At(list, kon).raw # Bad, Readable(list, manifest, kon, refs)
  PROVE  manifest # Nil /\ manifest # Bad /\ Renewed(At(list, kon).raw, kon, refs, manifest) # Bad
<1>1. Stored(list, manifest, kon, refs) = Renewed(At(list, kon).raw, kon, refs, manifest)
  BY StoredObject
<1>. QED
  BY <1>1 DEF Readable

------------------------------------------------------------------------------
(* user-alerting *)

LEMMA DeploySteps ==
  ASSUME NEW comp, NEW types
  PROVE  \E byRef, byTemplate :
           /\ byRef = IF comp.ref # Nil THEN DeployFromRef(resources, comp, types)
                      ELSE [err |-> "none", list |-> resources]
           /\ byTemplate = IF comp.template # Nil /\ byRef.err = "none"
                           THEN DeployFromTemplate(byRef.list, comp, types) ELSE byRef
           /\ DeployAll(comp, types) = IF comp.secretRef # Nil /\ byTemplate.err = "none"
                                       THEN DeploySecretRef(byTemplate.list, comp, types) ELSE byTemplate
  BY DEF DeployAll, Deploy

(* An alerting configuration that is complete is deployed completely. *)
ConfigDeployed(list, comp) ==
  /\ At(list, AlertConfig).raw.refs = IF comp.ref = Nil THEN {} ELSE Patches(comp.ref, "spec")
  /\ At(list, AlertConfig).raw.spec.ns = comp.ns
  /\ comp.template # Nil => At(list, AlertConfig).raw.spec.data = comp.template

SecretDeployed(list, comp) ==
  /\ At(list, AlertSecret).raw.refs = Patches(comp.secretRef, "data")
  /\ At(list, AlertSecret).raw.spec.meta = comp.secretRef
  /\ At(list, AlertSecret).raw.spec.ns = comp.ns

LEMMA DeployAllEffect ==
  ASSUME IsRendered(Rendered), KeepsRendered(resources),
         AlertConfig \notin NamesIn(resources), AlertSecret \notin NamesIn(resources),
         NEW comp, NEW types, StartScheme \union {"AlertmanagerConfig"} \subseteq types,
         Readable(<<>>, AlertmanagerConfig("postgresql-alertmanagerconfig", comp, Nil),
                  AlertConfig, Patches(comp.ref, "spec"))
  PROVE  LET all == DeployAll(comp, types) IN
         /\ all.err = "none"
         /\ KeepsRendered(all.list)
         /\ \A i \in DOMAIN Rendered : all.list[i] = resources[i]
         /\ \A m : m \notin {AlertConfig, AlertSecret} =>
              (m \in NamesIn(all.list) <=> m \in NamesIn(resources))
         /\ AlertConfig \in NamesIn(all.list) => (comp.ref # Nil \/ comp.template # Nil) /\ ConfigDeployed(all.list, comp)
         /\ comp.secretRef # Nil => AlertSecret \in NamesIn(all.list) /\ SecretDeployed(all.list, comp)
<1>1. PICK byRef, byTemplate :
           /\ byRef = IF comp.ref # Nil THEN DeployFromRef(resources, comp, types)
                      ELSE [err |-> "none", list |-> resources]
           /\ byTemplate = IF comp.template # Nil /\ byRef.err = "none"
                           THEN DeployFromTemplate(byRef.list, comp, types) ELSE byRef
           /\ DeployAll(comp, types) = IF comp.secretRef # Nil /\ byTemplate.err = "none"
                                       THEN DeploySecretRef(byTemplate.list, comp, types) ELSE byTemplate
  BY DeploySteps
<1> DEFINE Same(list) ==
             /\ KeepsRendered(list)
             /\ \A i \in DOMAIN Rendered : list[i] = resources[i]
             /\ \A m : m \notin {AlertConfig, AlertSecret} =>
                  (m \in NamesIn(list) <=> m \in NamesIn(resources))
           refConfig == AlertmanagerConfig("postgresql-alertmanagerconfig", comp, Nil)
           fresh     == Fresh(AlertConfig, Patches(comp.ref, "spec"), refConfig)
<1>2. /\ "Object" \in types /\ "Secret" \in types /\ "AlertmanagerConfig" \in types
      /\ \A name, spec : AlertmanagerConfig(name, comp, spec).kind \in types
  BY DEF StartScheme, AlertmanagerConfig
<1>3. /\ byRef.err = "none" /\ Same(byRef.list)
      /\ AlertSecret \notin NamesIn(byRef.list)
      /\ comp.ref = Nil => AlertConfig \notin NamesIn(byRef.list)
      /\ comp.ref # Nil => AlertConfig \in NamesIn(byRef.list) /\ At(byRef.list, AlertConfig).raw = fresh
  <2>1. CASE comp.ref = Nil
    BY <1>1, <2>1
  <2>2. CASE comp.ref # Nil
    <3>1. byRef = PutIntoObject(resources, types, refConfig, AlertConfig, Patches(comp.ref, "spec"))
      BY <1>1, <2>2 DEF DeployFromRef
    <3>2. byRef.err = "none" /\ Puts(resources, byRef.list, AlertConfig, fresh)
      BY <3>1, <1>2, PutIntoObjectPuts DEF KeepsRendered
    <3>3. fresh.kind = "Object"
      BY DEF Fresh
    <3>. HIDE DEF fresh
    <3>4. Same(byRef.list) /\ AlertSecret \notin NamesIn(byRef.list)
      BY <3>2, <3>3, OwnPut, OwnNames
    <3>. QED
      BY <3>2, <3>4, <2>2 DEF Puts
  <2>. QED
    BY <2>1, <2>2
<1>4. fresh # Bad /\ fresh.refs = Patches(comp.ref, "spec") /\ fresh.spec.ns = comp.ns /\ fresh.refs # {}
  BY ReadableFresh DEF Fresh, AlertmanagerConfig, Patches
<1>5. /\ byTemplate.err = "none" /\ Same(byTemplate.list)
      /\ AlertSecret \notin NamesIn(byTemplate.list)
      /\ AlertConfig \in NamesIn(byTemplate.list) =>
           (comp.ref # Nil \/ comp.template # Nil) /\ ConfigDeployed(byTemplate.list, comp)
  <2>1. CASE comp.template = Nil
    BY <1>1, <1>3, <1>4, <2>1 DEF ConfigDeployed
  <2>2. CASE comp.template # Nil
    <3> DEFINE config == AlertmanagerConfig(comp.secretRef, comp, comp.template)
               raw    == IF comp.ref = Nil THEN Fresh(AlertConfig, {}, config)
                         ELSE Renewed(fresh, AlertConfig, {}, config)
    <3>1. byTemplate = PutIntoObject(byRef.list, types, config, AlertConfig, {})
      BY <1>1, <1>3, <2>2 DEF DeployFromTemplate
    <3>2. byTemplate.err = "none" /\ Puts(byRef.list, byTemplate.list, AlertConfig, raw)
      <4>1. IsList(byRef.list)
        BY <1>3 DEF KeepsRendered
      <4>. QED
        BY <3>1, <4>1, <1>2, <1>3, <1>4, PutIntoObjectPuts
    <3>3. /\ raw.kind = "Object" /\ raw.spec.ns = comp.ns /\ raw.spec.data = comp.template
          /\ raw.refs = IF comp.ref = Nil THEN {} ELSE Patches(comp.ref, "spec")
      BY <1>4 DEF Fresh, Renewed, AlertmanagerConfig
    <3>. HIDE DEF raw, config
    <3>4. Same(byTemplate.list) /\ AlertSecret \notin NamesIn(byTemplate.list)
      BY <3>2, <3>3, <1>3, OwnPut, OwnNames
    <3>5. ConfigDeployed(byTemplate.list, comp)
      BY <3>2, <3>3 DEF Puts, ConfigDeployed
    <3>. QED
      BY <3>2, <3>4, <3>5, <2>2
  <2>. QED
    BY <2>1, <2>2
<1> DEFINE all == DeployAll(comp, types)
<1>6. CASE comp.secretRef = Nil
  BY <1>1, <1>5, <1>6
<1>7. CASE comp.secretRef # Nil
  <2> DEFINE secret == [kind |-> "Secret", meta |-> comp.secretRef, ns |-> comp.ns, data |-> Nil]
             raw    == Fresh(AlertSecret, Patches(comp.secretRef, "data"), secret)
  <2>1. all = PutIntoObject(byTemplate.list, types, secret, AlertSecret, Patches(comp.secretRef, "data"))
    BY <1>1, <1>5, <1>7 DEF DeploySecretRef
  <2>2. all.err = "none" /\ Puts(byTemplate.list, all.list, AlertSecret, raw)
    <3>1. IsList(byTemplate.list)
      BY <1>5 DEF KeepsRendered
    <3>. QED
      BY <2>1, <3>1, <1>2, <1>5, PutIntoObjectPuts
  <2>3. /\ raw.kind = "Object" /\ raw.spec.ns = comp.ns /\ raw.spec.meta = comp.secretRef
        /\ raw.refs = Patches(comp.secretRef, "data")
    BY DEF Fresh
  <2>. HIDE DEF raw, secret, all
  <2>4. Same(all.list)
    BY <2>2, <2>3, <1>5, OwnPut, OwnNames
  <2>5. SecretDeployed(all.list, comp) /\ AlertSecret \in NamesIn(all.list)
    BY <2>2, <2>3 DEF Puts, SecretDeployed
  <2>6. AlertConfig \in NamesIn(all.list) =>
          AlertConfig \in NamesIn(byTemplate.list) /\ At(all.list, AlertConfig) = At(byTemplate.list, AlertConfig)
    BY <2>2, OwnNames DEF Puts
  <2>7. AlertConfig \in NamesIn(all.list) => (comp.ref # Nil \/ comp.template # Nil) /\ ConfigDeployed(all.list, comp)
    BY <2>6, <1>5 DEF ConfigDeployed
  <2>. QED
    BY <2>2, <2>4, <2>5, <2>7 DEF all
<1>. QED
  BY <1>6, <1>7
------------------------------------------------------------------------------
(* restart *)

LEMMA ObservedNames ==
  ASSUME Admissible(request), NEW i \in DOMAIN request.observed
  PROVE  /\ request.observed[i].name \in NamesIn(request.observed)
         /\ DOMAIN request.observed = 1 .. Len(request.observed) /\ Len(request.observed) \in Nat
         /\ \A j \in DOMAIN request.observed : request.observed[i].name = request.observed[j].name => i = j
  BY DEF Admissible, IsObserved, IsList, UniqueIn, NamesIn

LEMMA RecentStep ==
  ASSUME Admissible(request), NEW i \in DOMAIN request.observed
  PROVE  LET n == request.observed[i].name IN
         /\ n \notin Recent(i)
         /\ Recent(i + 1) = IF IsRecentRestart(n) THEN Recent(i) \union {n} ELSE Recent(i)
<1> DEFINE n == request.observed[i].name
           J(k) == {j \in 1 .. k - 1 : IsRecentRestart(request.observed[j].name)}
<1>1. i \in Nat /\ i >= 1 /\ i \in 1 .. Len(request.observed) /\ Len(request.observed) \in Nat
  BY ObservedNames
<1>2. n \notin Recent(i)
  BY <1>1, ObservedNames DEF Recent
<1>3. J(i + 1) = IF IsRecentRestart(n) THEN J(i) \union {i} ELSE J(i)
  BY <1>1
<1>4. Recent(i + 1) = IF IsRecentRestart(n) THEN Recent(i) \union {n} ELSE Recent(i)
  BY <1>3 DEF Recent
<1>. QED
  BY <1>2, <1>4

(* What is observed of a recent operation goes into the desired resources. *)
LEMMA RecentIsReadable ==
  ASSUME Admissible(request), NEW n \in NamesIn(request.observed), IsRecentRestart(n)
  PROVE  /\ n[1] = "pg-restart" /\ Observed(n).obj.kind = "SGDbOps"
         /\ Observed(n).obj.op = "restart" /\ Observed(n).obj.runAt = n[2]
         /\ Observed(n).obj.runAt \in Int
         /\ Fresh(n, {}, Observed(n).obj) # Bad
  BY ReadableFresh DEF Admissible, IsObserved, IsRecentRestart, Observed

LEMMA KeepRecentEffect ==
  ASSUME IInv, KeepRecentRestartOp
  PROVE  /\ fn = 3 /\ iter > 0 /\ Continue(iter + 1) /\ UNCHANGED <<composite, conn, scheme>>
         /\ iter \in DOMAIN request.observed
         /\ LET n == request.observed[iter].name IN
            \/ /\ IsRecentRestart(n) /\ n \notin NamesIn(resources)
               /\ Puts(resources, resources', n, Fresh(n, {}, Observed(n).obj))
            \/ ~IsRecentRestart(n) /\ resources' = resources
<1> DEFINE n == request.observed[iter].name
           p == PutIntoObject(resources, scheme, Observed(n).obj, n, {})
<1>1. fn = 3 /\ iter \in DOMAIN request.observed /\ UNCHANGED <<composite, conn, scheme>>
  BY RunningPosition DEF KeepRecentRestartOp, IInv, Inv
<1>2. Admissible(request) /\ KeepsRendered(resources) /\ StartScheme \subseteq scheme
  BY <1>1 DEF IInv, Inv
<1>3. n \in NamesIn(request.observed) /\ iter > 0
  BY <1>1, <1>2, ObservedNames
<1>4. RestartLoop
  BY <1>1, <1>3 DEF IInv, Stage
<1>5. CASE IsRecentRestart(n)
  <2>1. n[1] = "pg-restart" /\ Observed(n).obj.kind \in scheme /\ "Object" \in scheme
    BY <1>2, <1>3, <1>5, RecentIsReadable DEF StartScheme
  <2>2. n \notin NamesIn(resources)
    BY <1>1, <1>2, <1>4, <2>1, RecentStep DEF RestartLoop, RestartOps
  <2>3. p.err = "none" /\ Puts(resources, p.list, n, Fresh(n, {}, Observed(n).obj))
    BY <1>2, <2>1, <2>2, PutIntoObjectPuts DEF KeepsRendered
  <2>4. resources' = p.list /\ (IF p.err = "none" THEN Continue(iter + 1) ELSE Return("Fatal"))
    BY <1>5 DEF KeepRecentRestartOp, Observed
  <2>. QED
    BY <1>1, <1>3, <1>5, <2>2, <2>3, <2>4
<1>6. CASE ~IsRecentRestart(n)
  BY <1>1, <1>3, <1>6 DEF KeepRecentRestartOp
<1>. QED
  BY <1>5, <1>6

(* The operation that the cluster waits for; 0 when it waits for none.     *)
PendingTime ==
  IF Fails(Cluster) \/ composite.strategy = "OnRestart" THEN 0
  ELSE PendingRestart(Observed(Cluster).obj.conditions)

LEMMA ScheduleRestartEffect ==
  ASSUME IInv, ScheduleRestart
  PROVE  /\ fn = 3 /\ iter > 0 /\ iter = Len(request.observed) + 1 /\ UNCHANGED <<composite, conn, scheme>>
         /\ Return("Normal") \/ Return("Warning")
         /\ \/ PendingTime = 0 /\ resources' = resources
            \/ /\ PendingTime # 0
               /\ \E raw : /\ raw.kind = "Object" /\ raw.spec = RestartAt(PendingTime)
                           /\ Puts(resources, resources', RestartOp(PendingTime), raw)
<1>1. fn = 3 /\ iter = Len(request.observed) + 1 /\ UNCHANGED <<composite, conn, scheme>>
  BY RunningPosition DEF ScheduleRestart, IInv, Inv
<1>2. Admissible(request) /\ KeepsRendered(resources) /\ StartScheme \subseteq scheme
  BY <1>1 DEF IInv, Inv
<1>3. Len(request.observed) \in Nat /\ iter > 0
  BY <1>1, <1>2 DEF Admissible, IsObserved, IsList
<1>4. RestartLoop
  BY <1>1, <1>3 DEF IInv, Stage
<1> DEFINE time == PendingRestart(Observed(Cluster).obj.conditions)
           p    == PutIntoObject(resources, scheme, RestartAt(time), RestartOp(time), {})
<1>5. CASE composite.strategy = "OnRestart" \/ Fails(Cluster) \/ time = 0
  BY <1>1, <1>3, <1>5 DEF ScheduleRestart, PendingTime, Fails, Observed
<1>6. CASE ~(composite.strategy = "OnRestart" \/ Fails(Cluster) \/ time = 0)
  <2>1. PendingTime = time /\ time # 0
    BY <1>6 DEF PendingTime
  <2>2. resources' = p.list /\ Return(IF p.err = "none" THEN "Normal" ELSE "Fatal")
    BY <1>6 DEF ScheduleRestart, Fails, Observed
  <2>3. RestartAt(time).kind \in scheme /\ "Object" \in scheme
    BY <1>2 DEF RestartAt, StartScheme
  <2>4. RestartOp(time) \in NamesIn(resources) => At(resources, RestartOp(time)).raw # Bad
    <3>. SUFFICES ASSUME RestartOp(time) \in NamesIn(resources) PROVE At(resources, RestartOp(time)).raw # Bad
      OBVIOUS
    <3>1. RestartOp(time) \in RestartOps(resources)
      BY OwnNames DEF RestartOps
    <3>2. PICK j \in 1 .. iter - 1 : IsRecentRestart(request.observed[j].name) /\ RestartOp(time) = request.observed[j].name
      BY <3>1, <1>4 DEF RestartLoop, Recent
    <3>3. RestartOp(time) \in NamesIn(request.observed)
      BY <3>2, <1>1, <1>2, <1>3 DEF NamesIn, Admissible, IsObserved, IsList
    <3>. QED
      BY <3>1, <3>2, <3>3, <1>2, <1>4, RecentIsReadable DEF RestartLoop
  <2>5. p.err = "none" /\ \E raw : /\ raw.kind = "Object" /\ raw.spec = RestartAt(time)
                                   /\ Puts(resources, p.list, RestartOp(time), raw)
    <3>1. /\ p.err = "none"
          /\ RestartOp(time) \notin NamesIn(resources) =>
               Puts(resources, p.list, RestartOp(time), Fresh(RestartOp(time), {}, RestartAt(time)))
          /\ RestartOp(time) \in NamesIn(resources) =>
               Puts(resources, p.list, RestartOp(time),
                    Renewed(At(resources, RestartOp(time)).raw, RestartOp(time), {}, RestartAt(time)))
      BY <1>2, <2>3, <2>4, PutIntoObjectPuts DEF KeepsRendered
    <3>2. /\ Fresh(RestartOp(time), {}, RestartAt(time)).kind = "Object"
          /\ Fresh(RestartOp(time), {}, RestartAt(time)).spec = RestartAt(time)
      BY DEF Fresh
    <3>3. \A raw : Renewed(raw, RestartOp(time), {}, RestartAt(time)).kind = "Object"
                   /\ Renewed(raw, RestartOp(time), {}, RestartAt(time)).spec = RestartAt(time)
      BY DEF Renewed
    <3>. QED
      BY <3>1, <3>2, <3>3
  <2>. QED
    BY <1>1, <1>3, <2>1, <2>2, <2>5
<1>. QED
  BY <1>5, <1>6
------------------------------------------------------------------------------
(* encrypted-pvc-secret *)

LEMMA DesiredManifestAt ==
  ASSUME NEW list, IsList(list), NEW n
  PROVE  /\ n \notin NamesIn(list) => DesiredManifest(list, n).err = "Wrapped"
         /\ n \in NamesIn(list) /\ At(list, n).raw = Bad => DesiredManifest(list, n).err = "Wrapped"
         /\ n \in NamesIn(list) /\ At(list, n).raw # Bad =>
              DesiredManifest(list, n) = Extracted(At(list, n).raw.spec)
<1> DEFINE g == GetFrom(list, KubeObject(Nil, {}), n)
<1>1. /\ n \notin NamesIn(list) => g = [err |-> "NotFound", obj |-> KubeObject(Nil, {})]
      /\ n \in NamesIn(list) /\ At(list, n).raw = Bad => g = [err |-> "Decode", obj |-> KubeObject(Nil, {})]
      /\ n \in NamesIn(list) /\ At(list, n).raw # Bad =>
           g = [err |-> "none", obj |-> Decode(At(list, n).raw, KubeObject(Nil, {}))]
  BY GetFromAt
<1>2. DesiredManifest(list, n) = IF g.err = "none" THEN Extracted(g.obj.spec) ELSE [err |-> "Wrapped", obj |-> Nil]
  BY DEF DesiredManifest
<1>3. \A raw : Decode(raw, KubeObject(Nil, {})).spec = raw.spec
  BY DEF Decode, KubeObject, Over
<1>. HIDE DEF g
<1>. QED
  BY <1>1, <1>2, <1>3

LEMMA ExtractedManifest ==
  ASSUME NEW m
  PROVE  /\ Extracted(m).err = "none" => m \notin {Nil, Bad} /\ Extracted(m).obj = m
         /\ m \notin {Nil, Bad} => Extracted(m) = [err |-> "none", obj |-> m]
  BY DEF Extracted

(* The cluster as it was rendered and as the function writes it. *)
LEMMA ClusterFacts ==
  ASSUME Admissible(request), RenderedCluster.err = "none"
  PROVE  /\ Cluster \in NamesIn(Rendered) /\ At(Rendered, Cluster).raw # Bad
         /\ EncryptedCluster.kind = "SGCluster"
         /\ EncryptedCluster.storageClass = "ssd-encrypted"
         /\ EncryptedCluster.instances = RenderedCluster.obj.instances
         /\ RenderedCluster.obj.instances \in Nat
         /\ EncryptedCluster # Nil /\ EncryptedCluster # Bad
         /\ ClusterRaw # Bad /\ ClusterRaw.kind = "Object" /\ ClusterRaw.spec = EncryptedCluster
<1>1. IsList(Rendered) /\ IsRendered(Rendered)
  BY DEF Admissible, IsRendered, Rendered
<1>2. Cluster \in NamesIn(Rendered) /\ At(Rendered, Cluster).raw # Bad
  BY <1>1, DesiredManifestAt DEF RenderedCluster, Rendered
<1> DEFINE c == RenderedCluster.obj
<1>3. /\ c = [kind |-> "SGCluster", instances |-> c.instances,
              storageClass |-> c.storageClass, conditions |-> c.conditions]
      /\ c.instances \in Nat
      /\ Readable(Rendered, EncryptedCluster, Cluster, {})
  BY <1>1 DEF IsRendered, RenderedCluster, Rendered, EncryptedCluster
<1>4. EncryptedCluster = [c EXCEPT !.storageClass = "ssd-encrypted"]
  BY DEF EncryptedCluster
<1>. HIDE DEF c
<1>5. EncryptedCluster.kind = "SGCluster" /\ EncryptedCluster.storageClass = "ssd-encrypted"
      /\ EncryptedCluster.instances = c.instances
  BY <1>3, <1>4
<1>6. EncryptedCluster # Nil /\ EncryptedCluster # Bad /\ ClusterRaw # Bad
  BY <1>1, <1>2, <1>3, ReadableRenewed DEF ClusterRaw
<1>7. ClusterRaw.kind = "Object" /\ ClusterRaw.spec = EncryptedCluster
  BY DEF ClusterRaw, Renewed
<1>. QED
  BY <1>2, <1>3, <1>5, <1>6, <1>7 DEF c

LEMMA SameCluster ==
  ASSUME Admissible(request), KeepsRendered(resources), \A i \in DOMAIN Rendered : resources[i] = Rendered[i]
  PROVE  /\ Cluster \in NamesIn(resources) <=> Cluster \in NamesIn(Rendered)
         /\ Cluster \in NamesIn(resources) => At(resources, Cluster) = At(Rendered, Cluster)
         /\ DesiredManifest(resources, Cluster).err = "none" <=> RenderedCluster.err = "none"
         /\ RenderedCluster.err = "none" => DesiredManifest(resources, Cluster) = RenderedCluster
<1>1. IsList(Rendered) /\ IsList(resources)
  BY DEF Admissible, IsRendered, Rendered, KeepsRendered
<1>2. Cluster \in NamesIn(Rendered) => Cluster \in NamesIn(resources) /\ At(resources, Cluster) = At(Rendered, Cluster)
  <2>. SUFFICES ASSUME Cluster \in NamesIn(Rendered)
                PROVE  Cluster \in NamesIn(resources) /\ At(resources, Cluster) = At(Rendered, Cluster)
    OBVIOUS
  <2>1. PICK i \in DOMAIN Rendered : Rendered[i].name = Cluster
    BY DEF NamesIn
  <2>2. i \in DOMAIN resources /\ resources[i] = Rendered[i]
    BY DEF KeepsRendered
  <2>3. At(Rendered, Cluster) = Rendered[i]
    BY <1>1, <2>1, EntryAt
  <2>4. At(resources, Cluster) = resources[i] /\ Cluster \in NamesIn(resources)
    BY <1>1, <2>1, <2>2, EntryAt
  <2>. QED
    BY <2>2, <2>3, <2>4
<1>3. Cluster \in NamesIn(resources) => Cluster \in NamesIn(Rendered)
  BY OwnNames DEF KeepsRendered
<1>4. RenderedCluster = DesiredManifest(Rendered, Cluster)
  BY DEF RenderedCluster, Rendered
<1>. QED
  BY <1>1, <1>2, <1>3, <1>4, DesiredManifestAt

(* The function rewrites the cluster and leaves every other resource. *)
LEMMA ClusterPut ==
  ASSUME Admissible(request), RenderedCluster.err = "none", KeepsRendered(resources),
         NEW new, Puts(resources, new, Cluster, ClusterRaw)
  PROVE  KeepsRendered(new)
<1>1. IsList(resources) /\ IsList(new) /\ Len(resources) \in Nat /\ Len(new) \in Nat
  BY DEF KeepsRendered, Puts, IsList
<1>2. DOMAIN resources = 1 .. Len(resources) /\ DOMAIN new = 1 .. Len(new)
  BY <1>1 DEF IsList
<1>3. \A i \in DOMAIN Rendered :
       /\ i \in DOMAIN new
       /\ new[i].name = Rendered[i].name /\ new[i].extra = Rendered[i].extra
       /\ Rendered[i].name # Cluster => new[i] = Rendered[i]
  BY <1>1, <1>2 DEF KeepsRendered, Puts
<1>4. \A i \in DOMAIN new : new[i].raw # Bad => new[i].raw.kind \in StartScheme
  <2>. SUFFICES ASSUME NEW i \in DOMAIN new, new[i].raw # Bad PROVE new[i].raw.kind \in StartScheme
    OBVIOUS
  <2>1. new[i] = At(new, new[i].name) /\ new[i].name \in NamesIn(new)
    BY <1>1, EntryAt
  <2>2. CASE new[i].name = Cluster
    BY <2>1, <2>2, ClusterFacts DEF Puts, StartScheme
  <2>3. CASE new[i].name # Cluster
    <3>1. new[i].name \in NamesIn(resources) /\ new[i] = At(resources, new[i].name)
      BY <2>1, <2>3 DEF Puts
    <3>2. Position(resources, new[i].name) \in DOMAIN resources
      BY <3>1, <1>1, EntryAt
    <3>. QED
      BY <3>1, <3>2 DEF At, KeepsRendered
  <2>. QED
    BY <2>2, <2>3
<1>5. \A m \in NamesIn(new) : m \in NamesIn(Rendered) \/ OwnName(m)
  BY ClusterFacts DEF Puts, KeepsRendered
<1>. QED
  BY <1>1, <1>3, <1>4, <1>5 DEF KeepsRendered

LEMMA StartPvcEffect ==
  ASSUME IInv, StartPvcSecret
  PROVE  /\ fn = 5 /\ iter = 0 /\ UNCHANGED <<composite, conn, scheme>>
         /\ \/ Comp = Bad /\ resources' = resources /\ Return("Fatal")
            \/ Comp # Bad /\ ~Comp.encrypted /\ resources' = resources /\ Return("Normal")
            \/ /\ Comp # Bad /\ Comp.encrypted /\ RenderedCluster.err # "none"
               /\ resources' = resources /\ Return("Fatal")
            \/ /\ Comp # Bad /\ Comp.encrypted /\ RenderedCluster.err = "none"
               /\ Cluster \in NamesIn(resources)
               /\ Puts(resources, resources', Cluster, ClusterRaw) /\ Continue(1)
<1>1. fn = 5 /\ iter = 0 /\ UNCHANGED <<composite, conn, scheme>>
  BY RunningPosition DEF StartPvcSecret, IInv, Inv
<1>2. /\ Admissible(request) /\ KeepsRendered(resources) /\ StartScheme \subseteq scheme
      /\ \A i \in DOMAIN Rendered : resources[i] = Rendered[i]
  BY <1>1 DEF IInv, Inv, Stage
<1>3. CASE Comp = Bad \/ ~Comp.encrypted
  BY <1>1, <1>3 DEF StartPvcSecret, Comp
<1>4. CASE Comp # Bad /\ Comp.encrypted /\ RenderedCluster.err # "none"
  BY <1>1, <1>2, <1>4, SameCluster DEF StartPvcSecret, Comp
<1>5. CASE Comp # Bad /\ Comp.encrypted /\ RenderedCluster.err = "none"
  <2> DEFINE p == PutIntoObject(resources, scheme, EncryptedCluster, Cluster, {})
  <2>1. DesiredManifest(resources, Cluster) = RenderedCluster /\ Cluster \in NamesIn(resources)
        /\ At(resources, Cluster).raw = At(Rendered, Cluster).raw /\ At(resources, Cluster).raw # Bad
    BY <1>2, <1>5, SameCluster, ClusterFacts
  <2>2. EncryptedCluster.kind \in scheme /\ "Object" \in scheme
    BY <1>2, <1>5, ClusterFacts DEF StartScheme
  <2>3. p.err = "none" /\ Puts(resources, p.list, Cluster, ClusterRaw)
    BY <2>1, <2>2, <1>2, PutIntoObjectPuts DEF KeepsRendered, ClusterRaw
  <2>4. resources' = p.list /\ (IF p.err = "none" THEN Continue(1) ELSE Return("Fatal"))
    BY <1>5, <2>1 DEF StartPvcSecret, Comp, EncryptedCluster
  <2>. QED
    BY <1>1, <1>5, <2>1, <2>3, <2>4
<1>. QED
  BY <1>3, <1>4, <1>5

LEMMA InstancesKept ==
  ASSUME Admissible(request), KeepsRendered(resources), EncryptLoop
  PROVE  Instances = RenderedCluster.obj.instances
  BY DesiredManifestAt, ExtractedManifest, ClusterFacts DEF Instances, EncryptLoop, KeepsRendered

LEMMA WriteLuksEffect ==
  ASSUME IInv, WriteLuksSecret
  PROVE  /\ fn = 5 /\ iter > 0 /\ iter - 1 < RenderedCluster.obj.instances /\ UNCHANGED <<composite, conn, scheme>>
         /\ \/ Bad \in LuksKeysFor(iter - 1) /\ resources' = resources /\ Return("Fatal")
            \/ /\ LuksKey(iter - 1) \notin NamesIn(resources)
               /\ Continue(iter + 1)
               /\ \E key \in LuksKeysFor(iter - 1) \ {Bad} :
                    Puts(resources, resources', LuksKey(iter - 1),
                         Fresh(LuksKey(iter - 1), {}, LuksSecret(iter - 1, key)))
<1>1. fn = 5 /\ iter > 0 /\ UNCHANGED <<composite, conn, scheme>>
  BY RunningPosition DEF WriteLuksSecret, IInv, Inv
<1>2. Admissible(request) /\ KeepsRendered(resources) /\ StartScheme \subseteq scheme /\ EncryptLoop /\ iter \in Nat
  BY <1>1 DEF IInv, Inv, Stage
<1>3. iter - 1 < RenderedCluster.obj.instances
  BY <1>2, InstancesKept DEF WriteLuksSecret
<1>4. LuksKey(iter - 1) \notin NamesIn(resources)
  BY <1>2, OwnNames DEF EncryptLoop, LuksKeys
<1> DEFINE p(key) == PutIntoObject(resources, scheme, LuksSecret(iter - 1, key), LuksKey(iter - 1), {})
<1>5. PICK key \in LuksKeysFor(iter - 1) :
        IF key = Bad THEN resources' = resources /\ Return("Fatal")
        ELSE resources' = p(key).list /\ (IF p(key).err = "none" THEN Continue(iter + 1) ELSE Return("Fatal"))
  BY DEF WriteLuksSecret
<1>6. LuksSecret(iter - 1, key).kind \in scheme /\ "Object" \in scheme
  BY <1>2 DEF LuksSecret, StartScheme
<1>7. /\ p(key).err = "none"
      /\ Puts(resources, p(key).list, LuksKey(iter - 1), Fresh(LuksKey(iter - 1), {}, LuksSecret(iter - 1, key)))
  BY <1>2, <1>4, <1>6, PutIntoObjectPuts DEF KeepsRendered
<1>. HIDE DEF p
<1>. QED
  BY <1>1, <1>3, <1>4, <1>5, <1>7

LEMMA EndPvcEffect ==
  ASSUME IInv, EndPvcSecret
  PROVE  /\ fn = 5 /\ iter > 0 /\ iter - 1 = RenderedCluster.obj.instances
         /\ UNCHANGED <<resources, composite, conn, scheme>> /\ Return("Normal")
<1>1. fn = 5 /\ iter > 0 /\ UNCHANGED <<resources, composite, conn, scheme>> /\ Return("Normal")
  BY RunningPosition DEF EndPvcSecret, IInv, Inv, desired
<1>2. Admissible(request) /\ KeepsRendered(resources) /\ EncryptLoop /\ iter \in Nat
  BY <1>1 DEF IInv, Inv, Stage
<1>3. iter - 1 >= RenderedCluster.obj.instances /\ RenderedCluster.obj.instances \in Nat
  BY <1>2, InstancesKept, ClusterFacts DEF EndPvcSecret, EncryptLoop
<1>. QED
  BY <1>1, <1>2, <1>3 DEF EncryptLoop
------------------------------------------------------------------------------
(* The invariant is inductive. *)

LEMMA RequestKept ==
  ASSUME request' = request
  PROVE  /\ Admissible(request)' <=> Admissible(request)
         /\ Rendered' = Rendered /\ Comp' = Comp
         /\ \A n : Observed(n)' = Observed(n) /\ (IsRecentRestart(n)' <=> IsRecentRestart(n))
         /\ RenderedCluster' = RenderedCluster /\ ClusterRaw' = ClusterRaw
         /\ \A k : Recent(k)' = Recent(k) /\ LuksKeysFor(k)' = LuksKeysFor(k)
  BY DEF Rendered, Comp, Observed, IsRecentRestart, RenderedCluster, ClusterRaw, EncryptedCluster,
         Recent, LuksKeysFor

LEMMA KeepsRenderedNext ==
  ASSUME request' = request, KeepsRendered(resources')
  PROVE  KeepsRendered(resources)'
  BY DEF KeepsRendered, Rendered

(* Nothing of the invariant is lost by a function that leaves the          *)
(* resources as they are and ends.                                         *)
LEMMA ReturnKeepsIInv ==
  ASSUME IInv, Inv', fn \in 1 .. 5, request' = request, fn' = fn + 1, iter' = 0,
         resources' = resources, scheme' \in {scheme, scheme \union {"AlertmanagerConfig"}}
  PROVE  IInv'
<1>1. KeepsRendered(resources)'
  BY KeepsRenderedNext DEF IInv
<1>2. Stage'
  BY RequestKept DEF IInv, Stage, Without
<1>3. LuksSecrets'
  BY RequestKept DEF IInv, LuksSecrets, LuksKeys, At
<1>4. (StartScheme \subseteq scheme /\ scheme \subseteq StartScheme \union {"AlertmanagerConfig"})'
  BY DEF IInv
<1>. QED
  BY <1>1, <1>2, <1>3, <1>4 DEF IInv

LEMMA NewRuntimeKeepsIInv ==
  ASSUME IInv, Inv', NewRuntime
  PROVE  IInv'
<1>1. /\ request' = request /\ resources' = Rendered /\ conn' = request.conn /\ fn' = 1 /\ scheme' = scheme
      /\ iter' = iter /\ iter = 0 /\ IsRendered(Rendered)
  BY DEF NewRuntime, Rendered, IInv, Inv, Stage, Admissible
<1>2. KeepsRendered(resources')
  BY <1>1 DEF KeepsRendered, IsRendered, NamesIn
<1>3. KeepsRendered(resources)'
  BY <1>1, <1>2, KeepsRenderedNext
<1>4. \A n \in NamesIn(resources') : n[1] \notin {"alertmanagerconfig", "alertmanagerconfigsecret", "pg-restart", "luks-key"}
  BY <1>1 DEF IsRendered, OwnName
<1>5. Stage'
  BY <1>1, <1>4, RequestKept DEF Stage, Without
<1>6. LuksSecrets'
  BY <1>4 DEF LuksSecrets, LuksKeys
<1>. QED
  BY <1>1, <1>3, <1>5, <1>6 DEF IInv

LEMMA AlertingEffect ==
  ASSUME IInv, AddUserAlerting
  PROVE  /\ fn = 2 /\ UNCHANGED <<composite, conn>> /\ scheme' = scheme \union {"AlertmanagerConfig"}
         /\ \/ Comp = Bad /\ resources' = resources /\ Return("Fatal")
            \/ Comp # Bad /\ Comp.ns = Nil /\ resources' = resources /\ Return("Warning")
            \/ /\ Comp # Bad /\ Comp.ns # Nil /\ Comp.secretRef = Nil /\ (Comp.ref # Nil \/ Comp.template # Nil)
               /\ resources' = resources /\ Return("Fatal")
            \/ /\ Comp # Bad /\ Comp.ns # Nil /\ (Comp.secretRef = Nil => Comp.ref = Nil /\ Comp.template = Nil)
               /\ Return("Normal")
               /\ KeepsRendered(resources')
               /\ \A i \in DOMAIN Rendered : resources'[i] = resources[i]
               /\ \A m : m \notin {AlertConfig, AlertSecret} =>
                    (m \in NamesIn(resources') <=> m \in NamesIn(resources))
               /\ AlertConfig \in NamesIn(resources') =>
                    (Comp.ref # Nil \/ Comp.template # Nil) /\ ConfigDeployed(resources', Comp)
               /\ Comp.secretRef # Nil => AlertSecret \in NamesIn(resources') /\ SecretDeployed(resources', Comp)
<1> DEFINE types == scheme \union {"AlertmanagerConfig"}
           all   == DeployAll(Comp, types)
<1>1. fn = 2 /\ UNCHANGED <<composite, conn>> /\ scheme' = types
  BY RunningPosition DEF AddUserAlerting, IInv, Inv
<1>2. /\ Admissible(request) /\ KeepsRendered(resources) /\ StartScheme \subseteq scheme
      /\ Without(resources, "alertmanagerconfig") /\ Without(resources, "alertmanagerconfigsecret")
  BY <1>1 DEF IInv, Inv, Stage
<1>3. AlertConfig \notin NamesIn(resources) /\ AlertSecret \notin NamesIn(resources) /\ IsRendered(Rendered)
  BY <1>2, OwnNames DEF Without, Admissible, Rendered
<1>4. CASE Comp = Bad \/ Comp.ns = Nil \/ (Comp.secretRef = Nil /\ (Comp.ref # Nil \/ Comp.template # Nil))
  BY <1>1, <1>4 DEF AddUserAlerting, Comp
<1>5. CASE ~(Comp = Bad \/ Comp.ns = Nil \/ (Comp.secretRef = Nil /\ (Comp.ref # Nil \/ Comp.template # Nil)))
  <2>1. resources' = all.list /\ Return(IF all.err = "none" THEN "Normal" ELSE "Fatal")
    BY <1>5 DEF AddUserAlerting, Comp
  <2>2. Readable(<<>>, AlertmanagerConfig("postgresql-alertmanagerconfig", Comp, Nil), AlertConfig,
                 Patches(Comp.ref, "spec"))
    BY <1>2, <1>5 DEF Admissible, Comp
  <2>3. StartScheme \union {"AlertmanagerConfig"} \subseteq types
    BY <1>2
  <2>4. /\ all.err = "none"
        /\ KeepsRendered(all.list)
        /\ \A i \in DOMAIN Rendered : all.list[i] = resources[i]
        /\ \A m : m \notin {AlertConfig, AlertSecret} =>
             (m \in NamesIn(all.list) <=> m \in NamesIn(resources))
        /\ AlertConfig \in NamesIn(all.list) => (Comp.ref # Nil \/ Comp.template # Nil) /\ ConfigDeployed(all.list, Comp)
        /\ Comp.secretRef # Nil => AlertSecret \in NamesIn(all.list) /\ SecretDeployed(all.list, Comp)
    BY <1>2, <1>3, <2>2, <2>3, DeployAllEffect
  <2>. HIDE DEF all
  <2>. QED
    BY <1>1, <1>5, <2>1, <2>4
<1>. QED
  BY <1>4, <1>5

LEMMA AlertingKeepsIInv ==
  ASSUME IInv, Inv', AddUserAlerting
  PROVE  IInv'
<1>1. fn = 2 /\ scheme' = scheme \union {"AlertmanagerConfig"} /\ fn' = 3 /\ iter' = 0 /\ request' = request
  BY AlertingEffect DEF Return
<1>2. CASE resources' = resources
  BY <1>1, <1>2, ReturnKeepsIInv
<1>3. CASE resources' # resources
  <2>1. /\ KeepsRendered(resources')
        /\ \A i \in DOMAIN Rendered : resources'[i] = resources[i]
        /\ \A m : m \notin {AlertConfig, AlertSecret} => (m \in NamesIn(resources') <=> m \in NamesIn(resources))
    BY <1>3, AlertingEffect
  <2>2. KeepsRendered(resources)'
    BY <1>1, <2>1, KeepsRenderedNext
  <2>3. /\ Without(resources, "pg-restart") /\ Without(resources, "luks-key")
        /\ \A i \in DOMAIN Rendered : resources[i] = Rendered[i]
    BY <1>1 DEF IInv, Stage
  <2>4. Without(resources', "pg-restart") /\ Without(resources', "luks-key")
    BY <2>1, <2>3, OwnNames DEF Without
  <2>5. Without(resources, "pg-restart")' /\ Without(resources, "luks-key")'
    BY <2>4 DEF Without
  <2>6. Stage'
    BY <1>1, <2>1, <2>3, <2>5, RequestKept DEF Stage
  <2>7. LuksSecrets'
    BY <2>4 DEF LuksSecrets, LuksKeys, Without
  <2>8. (StartScheme \subseteq scheme /\ scheme \subseteq StartScheme \union {"AlertmanagerConfig"})'
    BY <1>1 DEF IInv
  <2>. QED
    BY <1>1, <2>2, <2>6, <2>7, <2>8 DEF IInv
<1>. QED
  BY <1>2, <1>3

LEMMA KeepRecentKeepsIInv ==
  ASSUME IInv, Inv', KeepRecentRestartOp
  PROVE  IInv'
<1> DEFINE n == request.observed[iter].name
<1>1. /\ fn = 3 /\ fn' = 3 /\ iter > 0 /\ iter' = iter + 1 /\ request' = request
      /\ composite' = composite /\ scheme' = scheme /\ iter \in DOMAIN request.observed
  BY KeepRecentEffect DEF Continue
<1>2. /\ Admissible(request) /\ KeepsRendered(resources) /\ RestartLoop /\ iter \in Nat
      /\ Without(resources, "luks-key") /\ \A i \in DOMAIN Rendered : resources[i] = Rendered[i]
  BY <1>1 DEF IInv, Inv, Stage
<1>3. iter + 1 <= Len(request.observed) + 1 /\ iter \in 1 .. Len(request.observed) /\ Len(request.observed) \in Nat
  BY <1>1, <1>2, ObservedNames
<1>4. /\ KeepsRendered(resources')
      /\ \A i \in DOMAIN Rendered : resources'[i] = resources[i]
      /\ Without(resources', "luks-key")
      /\ RestartOps(resources') = Recent(iter + 1)
      /\ \A m \in RestartOps(resources') : At(resources', m).raw = Fresh(m, {}, Observed(m).obj)
  <2>1. CASE resources' = resources /\ ~IsRecentRestart(n)
    BY <1>1, <1>2, <2>1, RecentStep DEF RestartLoop
  <2>2. CASE /\ IsRecentRestart(n) /\ n \notin NamesIn(resources)
             /\ Puts(resources, resources', n, Fresh(n, {}, Observed(n).obj))
    <3>1. n[1] = "pg-restart" /\ OwnName(n)
      BY <1>1, <1>2, <2>2, ObservedNames, RecentIsReadable DEF OwnName
    <3>2. Fresh(n, {}, Observed(n).obj).kind = "Object" /\ IsRendered(Rendered)
      BY <1>2 DEF Fresh, Admissible, Rendered
    <3>3. /\ KeepsRendered(resources')
          /\ \A i \in DOMAIN Rendered : resources'[i] = resources[i]
          /\ \A m : m # n => (m \in NamesIn(resources') <=> m \in NamesIn(resources))
          /\ \A m \in NamesIn(resources) : m # n => At(resources', m) = At(resources, m)
      BY <1>2, <2>2, <3>1, <3>2, OwnPut
    <3>4. n \in NamesIn(resources') /\ At(resources', n).raw = Fresh(n, {}, Observed(n).obj)
      BY <2>2 DEF Puts
    <3>5. Without(resources', "luks-key")
      BY <1>2, <3>1, <3>3 DEF Without
    <3>6. RestartOps(resources') = RestartOps(resources) \union {n}
      BY <3>1, <3>3, <3>4 DEF RestartOps
    <3>7. RestartOps(resources') = Recent(iter + 1)
      BY <1>1, <1>2, <2>2, <3>6, RecentStep DEF RestartLoop
    <3>8. \A m \in RestartOps(resources') : At(resources', m).raw = Fresh(m, {}, Observed(m).obj)
      BY <1>2, <3>3, <3>4, <3>6 DEF RestartLoop, RestartOps
    <3>. QED
      BY <3>3, <3>5, <3>7, <3>8
  <2>. QED
    BY <2>1, <2>2, KeepRecentEffect
<1>5. KeepsRendered(resources)'
  BY <1>1, <1>4, KeepsRenderedNext
<1>6. Without(resources, "luks-key")'
  BY <1>4 DEF Without
<1>7. RestartLoop'
  BY <1>1, <1>2, <1>3, <1>4, RequestKept DEF RestartLoop, RestartOps, At
<1>8. Stage'
  BY <1>1, <1>2, <1>4, <1>6, <1>7, RequestKept DEF Stage
<1>9. LuksSecrets'
  BY <1>6 DEF LuksSecrets, LuksKeys, Without
<1>. QED
  BY <1>1, <1>5, <1>8, <1>9 DEF IInv

LEMMA RestartKeepsIInv ==
  ASSUME IInv, Inv', TransformRestart
  PROVE  IInv'
<1>1. CASE StartRestart
  <2>1. fn = 3 /\ iter = 0 /\ UNCHANGED <<resources, composite, conn, scheme>>
        /\ (IF composite = Bad THEN Return("Fatal") ELSE Continue(1))
    BY <1>1, RunningPosition DEF StartRestart, IInv, Inv, desired
  <2>2. CASE composite = Bad
    BY <2>1, <2>2, ReturnKeepsIInv DEF Return
  <2>3. CASE composite # Bad
    <3>1. fn' = 3 /\ iter' = 1 /\ request' = request
      BY <2>1, <2>3 DEF Continue
    <3>2. Admissible(request) /\ KeepsRendered(resources) /\ Without(resources, "pg-restart")
      BY <2>1 DEF IInv, Inv, Stage
    <3>3. Len(request.observed) \in Nat
      BY <3>2 DEF Admissible, IsObserved, IsList
    <3>4. RestartOps(resources) = {} /\ Recent(1) = {}
      BY <3>2 DEF RestartOps, Without, Recent
    <3>5. RestartLoop'
      BY <2>1, <2>3, <3>1, <3>3, <3>4, RequestKept DEF RestartLoop, RestartOps
    <3>6. Stage'
      BY <2>1, <3>1, <3>5, RequestKept DEF IInv, Stage, Without
    <3>7. LuksSecrets'
      BY <2>1, <3>1, RequestKept DEF IInv, LuksSecrets, LuksKeys, At
    <3>8. KeepsRendered(resources)'
      BY <2>1, <3>1, <3>2, KeepsRenderedNext
    <3>. QED
      BY <2>1, <3>1, <3>6, <3>7, <3>8 DEF IInv
  <2>. QED
    BY <2>2, <2>3
<1>2. CASE KeepRecentRestartOp
  BY <1>2, KeepRecentKeepsIInv
<1>3. CASE ScheduleRestart
  <2>1. fn = 3 /\ fn' = 4 /\ iter' = 0 /\ scheme' = scheme /\ request' = request
    BY <1>3, ScheduleRestartEffect DEF Return
  <2>2. CASE resources' = resources
    BY <2>1, <2>2, ReturnKeepsIInv
  <2>3. CASE \E raw : raw.kind = "Object" /\ Puts(resources, resources', RestartOp(PendingTime), raw)
    <3>1. PICK raw : raw.kind = "Object" /\ Puts(resources, resources', RestartOp(PendingTime), raw)
      BY <2>3
    <3>2. /\ Admissible(request) /\ KeepsRendered(resources) /\ IsRendered(Rendered)
          /\ Without(resources, "luks-key") /\ \A i \in DOMAIN Rendered : resources[i] = Rendered[i]
      BY <2>1 DEF IInv, Inv, Stage, Admissible, Rendered
    <3>3. /\ KeepsRendered(resources')
          /\ \A i \in DOMAIN Rendered : resources'[i] = resources[i]
          /\ \A m : m # RestartOp(PendingTime) => (m \in NamesIn(resources') <=> m \in NamesIn(resources))
      BY <3>1, <3>2, OwnNames, OwnPut
    <3>4. Without(resources, "luks-key")'
      BY <3>2, <3>3, OwnNames DEF Without
    <3>5. Stage'
      BY <2>1, <3>2, <3>3, <3>4, RequestKept DEF Stage
    <3>6. LuksSecrets'
      BY <3>4 DEF LuksSecrets, LuksKeys, Without
    <3>7. KeepsRendered(resources)'
      BY <2>1, <3>3, KeepsRenderedNext
    <3>. QED
      BY <2>1, <3>5, <3>6, <3>7 DEF IInv
  <2>. QED
    BY <1>3, <2>2, <2>3, ScheduleRestartEffect
<1>. QED
  BY <1>1, <1>2, <1>3 DEF TransformRestart

LEMMA PvcSecretKeepsIInv ==
  ASSUME IInv, Inv', AddPvcSecret
  PROVE  IInv'
<1>1. CASE StartPvcSecret
  <2>1. fn = 5 /\ iter = 0 /\ scheme' = scheme
    BY <1>1, StartPvcEffect
  <2>2. CASE resources' = resources /\ \E s \in {"Normal", "Fatal"} : Return(s)
    BY <2>1, <2>2, ReturnKeepsIInv DEF Return
  <2>3. CASE /\ Comp # Bad /\ Comp.encrypted /\ RenderedCluster.err = "none" /\ Cluster \in NamesIn(resources)
             /\ Puts(resources, resources', Cluster, ClusterRaw) /\ Continue(1)
    <3>1. fn' = 5 /\ iter' = 1 /\ request' = request
      BY <2>1, <2>3 DEF Continue
    <3>2. Admissible(request) /\ KeepsRendered(resources) /\ Without(resources, "luks-key")
      BY <2>1 DEF IInv, Inv, Stage
    <3>3. KeepsRendered(resources')
      BY <2>3, <3>2, ClusterPut
    <3>4. LuksKeys(resources') = {}
      BY <2>3, <3>2, OwnNames DEF Puts, LuksKeys, Without, Cluster
    <3>5. RenderedCluster.obj.instances \in Nat
      BY <2>3, <3>2, ClusterFacts
    <3>6. Cluster \in NamesIn(resources') /\ At(resources', Cluster).raw = ClusterRaw
      BY <2>3 DEF Puts
    <3>7. EncryptLoop'
      BY <2>3, <3>1, <3>4, <3>5, <3>6, RequestKept DEF EncryptLoop, LuksKeys, At
    <3>8. Stage' /\ LuksSecrets'
      BY <3>1, <3>4, <3>7 DEF Stage, LuksSecrets, LuksKeys
    <3>9. KeepsRendered(resources)'
      BY <3>1, <3>3, KeepsRenderedNext
    <3>. QED
      BY <2>1, <3>1, <3>8, <3>9 DEF IInv
  <2>. QED
    BY <1>1, <2>2, <2>3, StartPvcEffect
<1>2. CASE WriteLuksSecret
  <2>1. fn = 5 /\ iter > 0 /\ scheme' = scheme /\ iter - 1 < RenderedCluster.obj.instances
    BY <1>2, WriteLuksEffect
  <2>2. CASE resources' = resources /\ Return("Fatal")
    BY <2>1, <2>2, ReturnKeepsIInv DEF Return
  <2>3. CASE /\ LuksKey(iter - 1) \notin NamesIn(resources)
             /\ Continue(iter + 1)
             /\ \E key \in LuksKeysFor(iter - 1) \ {Bad} :
                  Puts(resources, resources', LuksKey(iter - 1),
                       Fresh(LuksKey(iter - 1), {}, LuksSecret(iter - 1, key)))
    <3> DEFINE n == LuksKey(iter - 1)
    <3>1. fn' = 5 /\ iter' = iter + 1 /\ request' = request
      BY <2>1, <2>3 DEF Continue
    <3>2. PICK key \in LuksKeysFor(iter - 1) \ {Bad} :
            Puts(resources, resources', n, Fresh(n, {}, LuksSecret(iter - 1, key)))
      BY <2>3
    <3>3. /\ Admissible(request) /\ KeepsRendered(resources) /\ IsRendered(Rendered) /\ EncryptLoop
          /\ LuksSecrets /\ iter \in Nat
      BY <2>1 DEF IInv, Inv, Stage, Admissible, Rendered
    <3>4. /\ Fresh(n, {}, LuksSecret(iter - 1, key)).kind = "Object"
          /\ Fresh(n, {}, LuksSecret(iter - 1, key)).spec = LuksSecret(iter - 1, key)
      BY DEF Fresh
    <3>5. /\ KeepsRendered(resources')
          /\ \A m : m # n => (m \in NamesIn(resources') <=> m \in NamesIn(resources))
          /\ \A m \in NamesIn(resources) : m # n => At(resources', m) = At(resources, m)
      BY <3>2, <3>3, <3>4, OwnNames, OwnPut
    <3>6. n \in NamesIn(resources') /\ At(resources', n).raw.spec = LuksSecret(iter - 1, key)
      BY <3>2, <3>4 DEF Puts
    <3>7. LuksKeys(resources') = LuksKeys(resources) \union {n}
      BY <3>5, <3>6, OwnNames DEF LuksKeys
    <3>8. LuksKeys(resources') = {LuksKey(i) : i \in 0 .. iter' - 2}
      <4>1. 0 .. iter' - 2 = (0 .. iter - 2) \union {iter - 1}
        BY <2>1, <3>1, <3>3
      <4>. QED
        BY <3>3, <3>7, <4>1 DEF EncryptLoop
    <3>9. Cluster \in NamesIn(resources') /\ At(resources', Cluster).raw = ClusterRaw
      BY <3>3, <3>5, OwnNames DEF EncryptLoop
    <3>10. EncryptLoop'
      <4>1. iter' - 1 <= RenderedCluster.obj.instances
        BY <2>1, <3>1, <3>3, ClusterFacts DEF EncryptLoop
      <4>. QED
        BY <3>1, <3>3, <3>8, <3>9, <4>1, RequestKept DEF EncryptLoop, LuksKeys, At
    <3>11. Stage'
      BY <3>1, <3>3, <3>10 DEF Stage
    <3>12. LuksSecrets'
      <4>1. \A m \in LuksKeys(resources') :
              /\ m = LuksKey(m[2])
              /\ \E k \in LuksKeysFor(m[2]) \ {Bad} : At(resources', m).raw.spec = LuksSecret(m[2], k)
        BY <3>3, <3>5, <3>6, <3>7, OwnNames DEF LuksSecrets, LuksKeys
      <4>. QED
        BY <3>1, <4>1, RequestKept DEF LuksSecrets, LuksKeys, At
    <3>13. KeepsRendered(resources)'
      BY <3>1, <3>5, KeepsRenderedNext
    <3>. QED
      BY <2>1, <3>1, <3>11, <3>12, <3>13 DEF IInv
  <2>. QED
    BY <1>2, <2>2, <2>3, WriteLuksEffect
<1>3. CASE EndPvcSecret
  BY <1>3, EndPvcEffect, ReturnKeepsIInv DEF Return
<1>. QED
  BY <1>1, <1>2, <1>3 DEF AddPvcSecret

LEMMA InitIInv == Init => IInv
<1>. SUFFICES ASSUME Init PROVE IInv
  OBVIOUS
<1>1. fn = 0 /\ iter = 0 /\ resources = <<>> /\ Inv
  BY InitInv DEF Init
<1>2. LuksKeys(resources) = {}
  BY <1>1, EmptyIsList DEF LuksKeys
<1>. QED
  BY <1>1, <1>2 DEF Init, IInv, Stage, LuksSecrets

LEMMA NextIInv == IInv /\ [Next]_vars => IInv'
<1>. SUFFICES ASSUME IInv, [Next]_vars PROVE IInv'
  OBVIOUS
<1>1. Inv'
  BY NextInv DEF IInv
<1>2. CASE NewRuntime
  BY <1>1, <1>2, NewRuntimeKeepsIInv
<1>3. CASE AddUrlToConnectionDetails
  <2>1. fn = 1 /\ fn' = 2 /\ iter' = 0 /\ UNCHANGED <<request, resources, scheme>>
    BY <1>3, RunningPosition DEF AddUrlToConnectionDetails, Return, IInv, Inv
  <2>. QED
    BY <1>1, <2>1, ReturnKeepsIInv
<1>4. CASE AddUserAlerting
  BY <1>1, <1>4, AlertingKeepsIInv
<1>5. CASE TransformRestart
  BY <1>1, <1>5, RestartKeepsIInv
<1>6. CASE TransformSchedule
  <2>1. fn = 4 /\ fn' = 5 /\ iter' = 0 /\ UNCHANGED <<request, resources, scheme>>
    BY <1>6, RunningPosition DEF TransformSchedule, Return, IInv, Inv
  <2>. QED
    BY <1>1, <2>1, ReturnKeepsIInv
<1>7. CASE AddPvcSecret
  BY <1>1, <1>7, PvcSecretKeepsIInv
<1>8. CASE UNCHANGED vars
  <2>1. UNCHANGED <<request, resources, composite, conn, scheme, fn, iter>>
    BY <1>8 DEF vars, desired, exec
  <2>2. fn > 0 => KeepsRendered(resources)'
    BY <2>1, KeepsRenderedNext DEF IInv
  <2>3. RestartLoop' <=> RestartLoop
    BY <2>1, RequestKept DEF RestartLoop, RestartOps, At
  <2>4. EncryptLoop' <=> EncryptLoop
    BY <2>1, RequestKept DEF EncryptLoop, LuksKeys, At
  <2>5. Stage'
    BY <2>1, <2>3, <2>4, RequestKept DEF IInv, Stage, Without
  <2>6. LuksSecrets'
    BY <2>1, RequestKept DEF IInv, LuksSecrets, LuksKeys, At
  <2>. QED
    BY <1>1, <2>1, <2>2, <2>5, <2>6 DEF IInv
<1>. QED
  BY <1>2, <1>3, <1>4, <1>5, <1>6, <1>7, <1>8 DEF Next, Step
------------------------------------------------------------------------------
(* What a step leaves alone. *)

LEMMA StepReturns ==
  ASSUME Inv, Step
  PROVE  \/ fn = 0 /\ fn' = 1 /\ results' = results
         \/ fn > 0 /\ fn' = fn /\ results' = results
         \/ fn > 0 /\ fn' = fn + 1 /\ \E s : Return(s)
<1>. USE DEF Return, Continue
<1>0. fn \in 0 .. 6
  BY DEF Inv
<1>1. CASE NewRuntime
  BY <1>1 DEF NewRuntime
<1>2. CASE AddUrlToConnectionDetails
  BY <1>0, <1>2, RunningPosition DEF AddUrlToConnectionDetails
<1>3. CASE AddUserAlerting
  BY <1>0, <1>3, RunningPosition DEF AddUserAlerting
<1>4. CASE TransformRestart
  BY <1>0, <1>4, RunningPosition
     DEF TransformRestart, StartRestart, KeepRecentRestartOp, ScheduleRestart
<1>5. CASE TransformSchedule
  BY <1>0, <1>5, RunningPosition DEF TransformSchedule
<1>6. CASE AddPvcSecret
  BY <1>0, <1>6, RunningPosition
     DEF AddPvcSecret, StartPvcSecret, WriteLuksSecret, EndPvcSecret
<1>. QED
  BY <1>1, <1>2, <1>3, <1>4, <1>5, <1>6 DEF Step

LEMMA MovesByStep ==
  ASSUME [Next]_vars, fn' # fn
  PROVE  Step
  BY DEF Next, vars, exec

LEMMA ResultsStep ==
  ASSUME IInv, [Next]_vars
  PROVE  /\ request' = request
         /\ \/ fn' = fn /\ results' = results
            \/ fn = 0 /\ fn' = 1 /\ results' = results
            \/ fn > 0 /\ fn' = fn + 1 /\ \E s : Return(s) /\ Len(results') = fn /\ results'[fn] = s
         /\ \A k \in 1 .. 5 : (Ran(k) <=> fn > k) /\ (Ran(k)' <=> fn' > k)
         /\ \A k \in 1 .. 5 : Ran(k) => results'[k] = results[k] /\ Ran(k)'
<1>1. Inv /\ Inv'
  BY NextIInv DEF IInv
<1>2. /\ request' = request
      /\ \/ fn' = fn /\ results' = results
         \/ fn = 0 /\ fn' = 1 /\ results' = results
         \/ fn > 0 /\ fn' = fn + 1 /\ \E s : Return(s)
  <2>1. CASE Step
    BY <2>1, <1>1, StepReturns, StepEffect DEF Stays, Advances
  <2>2. CASE UNCHANGED vars
    BY <2>2 DEF vars, exec
  <2>. QED
    BY <2>1, <2>2 DEF Next
<1>3. \A k \in 1 .. 5 : (Ran(k) <=> fn > k) /\ (Ran(k)' <=> fn' > k)
  <2>1. fn \in 0 .. 6 /\ Len(results) = IF fn = 0 THEN 0 ELSE fn - 1
    BY <1>1 DEF Inv
  <2>2. fn' \in 0 .. 6 /\ Len(results') = IF fn' = 0 THEN 0 ELSE fn' - 1
    BY <1>1 DEF Inv
  <2>3. \A n \in 0 .. 6 : \A l : l = (IF n = 0 THEN 0 ELSE n - 1) => \A k \in 1 .. 5 : l >= k <=> n > k
    OBVIOUS
  <2>. QED
    BY <2>1, <2>2, <2>3 DEF Ran
<1>4. ASSUME NEW s, Return(s), fn > 0
      PROVE  Len(results') = fn /\ results'[fn] = s /\ \A k \in 1 .. 5 : fn > k => results'[k] = results[k]
  <2>1. results \in Seq({"Normal", "Warning", "Fatal"}) /\ Len(results) = fn - 1 /\ fn \in 0 .. 6
    BY <1>1, <1>4 DEF Inv
  <2>2. results \in Seq({"Normal", "Warning", "Fatal", s}) /\ results' = Append(results, s)
    BY <2>1, <1>4 DEF Return
  <2>. QED
    BY <2>1, <2>2
<1>5. fn \in 0 .. 6 /\ fn' \in 0 .. 6
  BY <1>1 DEF Inv
<1>. QED
  BY <1>2, <1>3, <1>4, <1>5

LEMMA ReturnedResult ==
  ASSUME IInv, fn > 0, NEW s, Return(s)
  PROVE  fn' = fn + 1 /\ results'[fn] = s
<1>1. results \in Seq({"Normal", "Warning", "Fatal"}) /\ Len(results) = fn - 1 /\ fn \in 0 .. 6
  BY DEF IInv, Inv
<1>2. results \in Seq({"Normal", "Warning", "Fatal", s}) /\ results' = Append(results, s) /\ fn' = fn + 1
  BY <1>1 DEF Return
<1>. QED
  BY <1>1, <1>2

(* The rendered resources stay; of the others, a step writes those of its  *)
(* function only.                                                          *)
LEMMA LeftAlone ==
  ASSUME IInv, [Next]_vars, fn > 0
  PROVE  /\ \/ \A i \in DOMAIN Rendered : resources'[i] = resources[i]
            \/ /\ RenderedCluster.err = "none"
               /\ Puts(resources, resources', Cluster, ClusterRaw)
         /\ \A m : /\ m # Cluster /\ m[1] # "luks-key"
                   /\ fn = 2 => m \notin {AlertConfig, AlertSecret}
                   /\ fn = 3 => m[1] # "pg-restart"
                   => /\ m \in NamesIn(resources') <=> m \in NamesIn(resources)
                      /\ fn > 2 /\ m \in NamesIn(resources) => At(resources', m) = At(resources, m)
<1> DEFINE Left(ms) == \A m \in ms :
             /\ m \in NamesIn(resources') <=> m \in NamesIn(resources)
             /\ m \in NamesIn(resources) => At(resources', m) = At(resources, m)
<1>1. fn \in 1 .. 6 /\ KeepsRendered(resources) /\ IsRendered(Rendered) /\ Admissible(request)
  BY DEF IInv, Inv, Admissible, Rendered
<1>2. CASE resources' = resources
  BY <1>2
<1>3. CASE AddUserAlerting
  BY <1>3, <1>2, AlertingEffect
<1>4. CASE TransformRestart /\ resources' # resources
  <2>1. PICK n, raw : fn = 3 /\ n[1] = "pg-restart" /\ raw.kind = "Object" /\ Puts(resources, resources', n, raw)
    <3>1. CASE StartRestart
      BY <3>1, <1>4 DEF StartRestart, desired
    <3>2. CASE KeepRecentRestartOp
      <4> DEFINE n == request.observed[iter].name
      <4>1. /\ fn = 3 /\ IsRecentRestart(n) /\ Puts(resources, resources', n, Fresh(n, {}, Observed(n).obj))
        BY <3>2, <1>4, KeepRecentEffect
      <4>2. n[1] = "pg-restart" /\ Fresh(n, {}, Observed(n).obj).kind = "Object"
        BY <4>1 DEF IsRecentRestart, Fresh
      <4>. QED
        BY <4>1, <4>2
    <3>3. CASE ScheduleRestart
      BY <3>3, <1>4, ScheduleRestartEffect, OwnNames
    <3>. QED
      BY <1>4, <3>1, <3>2, <3>3 DEF TransformRestart
  <2>2. OwnName(n)
    BY <2>1 DEF OwnName
  <2>. QED
    BY <1>1, <2>1, <2>2, OwnPut
<1>5. CASE AddPvcSecret /\ resources' # resources
  <2>1. fn = 5
    BY <1>5, <1>1, RunningPosition DEF AddPvcSecret, StartPvcSecret, WriteLuksSecret, EndPvcSecret
  <2>2. CASE StartPvcSecret
    BY <1>5, <2>1, <2>2, StartPvcEffect DEF Puts
  <2>3. CASE WriteLuksSecret
    <3>1. PICK key : Puts(resources, resources', LuksKey(iter - 1),
                          Fresh(LuksKey(iter - 1), {}, LuksSecret(iter - 1, key)))
      BY <1>5, <2>3, WriteLuksEffect
    <3>2. Fresh(LuksKey(iter - 1), {}, LuksSecret(iter - 1, key)).kind = "Object"
      BY DEF Fresh
    <3>. QED
      BY <1>1, <2>1, <3>1, <3>2, OwnPut, OwnNames
  <2>4. CASE EndPvcSecret
    BY <1>5, <2>4, EndPvcEffect
  <2>. QED
    BY <1>5, <2>2, <2>3, <2>4 DEF AddPvcSecret
<1>6. CASE NewRuntime \/ AddUrlToConnectionDetails \/ TransformSchedule \/ UNCHANGED vars
  BY <1>2, <1>6 DEF NewRuntime, AddUrlToConnectionDetails, TransformSchedule, vars, desired
<1>. QED
  BY <1>2, <1>3, <1>4, <1>5, <1>6 DEF Next, Step
------------------------------------------------------------------------------
LEMMA IInvHolds == Spec => []IInv
  BY InitIInv, NextIInv, PTL DEF Spec

LEMMA TypesOfIInv == IInv => TypeOK
<1>. SUFFICES ASSUME IInv PROVE TypeOK
  OBVIOUS
<1>1. fn \in 0 .. 6 /\ results \in Seq({"Normal", "Warning", "Fatal"}) /\ Len(results) = IF fn = 0 THEN 0 ELSE fn - 1
  BY DEF IInv, Inv
<1>2. iter \in Nat /\ (iter > 0 => postgresFunctions[fn] \in {"restart", "encrypted-pvc-secret"})
  BY DEF IInv, Stage, postgresFunctions
<1>3. Len(postgresFunctions) = 5
  BY DEF postgresFunctions
<1>4. \A i \in DOMAIN resources : resources[i].raw # Bad => resources[i].raw.kind \in scheme
  <2>1. CASE fn = 0
    BY <2>1 DEF IInv
  <2>2. CASE fn > 0
    BY <2>2 DEF IInv, KeepsRendered
  <2>. QED
    BY <1>1, <2>1, <2>2
<1>. QED
  BY <1>1, <1>2, <1>3, <1>4 DEF TypeOK, IInv

(* One result per function that has returned, a loop only where the code   *)
(* has one, and a Go type that the scheme knows for everything desired, at *)
(* every point of RunCommand (run.go:13-60, runtime.go:46-50).             *)
THEOREM TypesCorrect == Spec => []TypeOK
  BY TypesOfIInv, IInvHolds, PTL

LEMMA KeysOfIInv == IInv => KeyNeverReplaced
<1>. SUFFICES ASSUME IInv, NEW i \in DOMAIN resources,
                     resources[i].name[1] = "luks-key", ~Fails(resources[i].name)
              PROVE  Manifest(resources[i].name).data = Observed(resources[i].name).obj.data
  BY DEF KeyNeverReplaced
<1> DEFINE n == resources[i].name
<1>1. n \in LuksKeys(resources)
  BY DEF LuksKeys, NamesIn
<1>2. PICK key \in LuksKeysFor(n[2]) \ {Bad} : n = LuksKey(n[2]) /\ At(resources, n).raw.spec = LuksSecret(n[2], key)
  BY <1>1 DEF IInv, LuksSecrets
<1>3. key = Observed(n).obj.data
  BY <1>2 DEF LuksKeysFor, Fails, Observed
<1>. QED
  BY <1>2, <1>3 DEF Manifest, Entry, At, LuksSecret

(* No run of the functions, however it ends, replaces a LUKS key that is   *)
(* observed, for any number of instances and any observed resources        *)
(* (encrypted_pvc.go:69-105).                                              *)
THEOREM ObservedKeysAreKept == Spec => []KeyNeverReplaced
  BY KeysOfIInv, IInvHolds, PTL

LEMMA RenderedStep == IInv /\ RenderedKept /\ [Next]_vars => RenderedKept'
<1>. SUFFICES ASSUME IInv, RenderedKept, [Next]_vars PROVE RenderedKept'
  OBVIOUS
<1>1. IInv' /\ request' = request
  BY NextIInv, ResultsStep
<1>2. CASE fn = 0
  <2>1. fn' = 0 \/ resources' = request.resources
    <3>1. CASE fn' = fn
      BY <1>2, <3>1
    <3>2. CASE fn' # fn
      BY <1>2, <3>2, MovesByStep, StepOfFunction DEF NewRuntime
    <3>. QED
      BY <3>1, <3>2
  <2>. QED
    BY <1>1, <2>1 DEF RenderedKept
<1>3. CASE fn > 0
  <2>1. fn' > 0 /\ KeepsRendered(resources)' /\ KeepsRendered(resources) /\ Admissible(request)
    <3>1. fn \in 0 .. 6
      BY DEF IInv, Inv
    <3>2. fn' > 0
      BY <1>3, <3>1, ResultsStep
    <3>. QED
      BY <1>1, <1>3, <3>2 DEF IInv, Inv
  <2>2. CASE \A i \in DOMAIN Rendered : resources'[i] = resources[i]
    BY <1>1, <1>3, <2>1, <2>2 DEF RenderedKept, Rendered
  <2>3. CASE RenderedCluster.err = "none" /\ Puts(resources, resources', Cluster, ClusterRaw)
    <3>. SUFFICES ASSUME NEW i \in DOMAIN Rendered
                  PROVE  LET old == Rendered[i]
                             new == resources'[i]
                         IN /\ new.name = old.name /\ new.extra = old.extra
                            /\ old.name # Cluster => new = old
                            /\ old.raw # Bad => /\ old.raw.refs # {} => new.raw.refs = old.raw.refs
                                                /\ old.raw.meta # Nil => new.raw.meta = old.raw.meta
      BY <1>1 DEF RenderedKept, Rendered
    <3>1. /\ i \in DOMAIN resources' /\ resources'[i].name = Rendered[i].name
          /\ resources'[i].extra = Rendered[i].extra
          /\ Rendered[i].name # Cluster => resources'[i] = Rendered[i]
      BY <1>1, <2>1, RequestKept DEF KeepsRendered
    <3>2. CASE Rendered[i].name = Cluster
      <4>1. resources'[i].raw = ClusterRaw
        BY <2>3, <3>1, <3>2 DEF Puts
      <4>2. Rendered[i] = At(Rendered, Cluster)
        BY <2>1, <3>2, EntryAt DEF Admissible, IsRendered, Rendered
      <4>3. /\ ClusterRaw.refs = IF Rendered[i].raw.refs = {} THEN {} ELSE Rendered[i].raw.refs
            /\ ClusterRaw.meta = Over(Rendered[i].raw.meta, Cluster)
        BY <4>2 DEF ClusterRaw, Renewed
      <4>. QED
        BY <3>1, <3>2, <4>1, <4>3 DEF Over
    <3>. QED
      BY <3>1, <3>2
  <2>. QED
    BY <1>3, <2>2, <2>3, LeftAlone
<1>. QED
  BY <1>2, <1>3 DEF IInv, Inv

(* What the composition rendered keeps its place, and all but the cluster  *)
(* its manifest, whatever the functions put (desired.go:39-98).            *)
THEOREM RenderedIsKept == Spec => []RenderedKept
<1>1. Init => RenderedKept
  BY DEF Init, RenderedKept
<1>. QED
  BY <1>1, RenderedStep, IInvHolds, PTL DEF Spec

ReceiverDeployed ==
  Ran(2) /\ Desired(AlertConfig) =>
    /\ results[2] = "Normal"
    /\ Desired(AlertSecret)
    /\ SecretDeployed(resources, Comp) /\ ConfigDeployed(resources, Comp)

LEMMA ReceiverStep == IInv /\ ReceiverDeployed /\ [Next]_vars => ReceiverDeployed'
<1>. SUFFICES ASSUME IInv, ReceiverDeployed, [Next]_vars, Ran(2)', AlertConfig \in NamesIn(resources')
              PROVE  /\ results'[2] = "Normal"
                     /\ AlertSecret \in NamesIn(resources')
                     /\ SecretDeployed(resources', Comp) /\ ConfigDeployed(resources', Comp)
  BY ResultsStep, RequestKept DEF ReceiverDeployed, SecretDeployed, ConfigDeployed, At, Desired
<1>1. fn' > 2 /\ (Ran(2) <=> fn > 2) /\ fn \in 0 .. 6
  BY ResultsStep DEF IInv, Inv
<1>2. CASE fn > 2
  <2>1. results'[2] = results[2] /\ Ran(2)
    BY <1>1, <1>2, ResultsStep
  <2>2. /\ AlertConfig # Cluster /\ AlertSecret # Cluster
        /\ AlertConfig[1] \notin {"luks-key", "pg-restart"} /\ AlertSecret[1] \notin {"luks-key", "pg-restart"}
    BY OwnNames DEF Cluster, AlertConfig, AlertSecret
  <2>3. fn > 0 /\ fn # 2 /\ fn > 2
    BY <1>1, <1>2
  <2>4. \A m \in {AlertConfig, AlertSecret} :
          /\ m \in NamesIn(resources') <=> m \in NamesIn(resources)
          /\ m \in NamesIn(resources) => At(resources', m) = At(resources, m)
    BY <2>2, <2>3, LeftAlone
  <2>5. /\ results[2] = "Normal" /\ AlertSecret \in NamesIn(resources)
        /\ SecretDeployed(resources, Comp) /\ ConfigDeployed(resources, Comp)
    BY <2>1, <2>4 DEF ReceiverDeployed, Desired
  <2>. QED
    BY <2>1, <2>4, <2>5 DEF SecretDeployed, ConfigDeployed
<1>3. CASE fn <= 2
  <2>1. fn = 2 /\ fn' = 3
    BY <1>1, <1>3, ResultsStep
  <2>2. AddUserAlerting
    BY <2>1, MovesByStep, StepOfFunction
  <2>3. AlertConfig \notin NamesIn(resources)
    BY <2>1, OwnNames DEF IInv, Stage, Without
  <2>4. /\ Return("Normal") /\ (Comp.ref # Nil \/ Comp.template # Nil) /\ ConfigDeployed(resources', Comp)
        /\ Comp.secretRef # Nil /\ AlertSecret \in NamesIn(resources') /\ SecretDeployed(resources', Comp)
    BY <2>2, <2>3, AlertingEffect
  <2>5. results'[2] = "Normal"
    BY <2>1, <2>4, ReturnedResult
  <2>. QED
    BY <2>4, <2>5
<1>. QED
  BY <1>1, <1>2, <1>3

LEMMA DeployedIsComplete == ReceiverDeployed => ReceiverComplete
  BY DEF ReceiverDeployed, ReceiverComplete, SecretDeployed, ConfigDeployed, Entry, Manifest, At

(* An Alertmanager configuration never goes out without its secret, for    *)
(* every combination of the parameters (alerting.go:43-75).                *)
THEOREM ReceiverIsComplete == Spec => []ReceiverComplete
<1>1. Init => ReceiverDeployed
  BY DEF Init, ReceiverDeployed, Ran
<1>. QED
  BY <1>1, DeployedIsComplete, ReceiverStep, IInvHolds, PTL DEF Spec
------------------------------------------------------------------------------
RecentOps ==
  {n \in ObservedOps :
     /\ Observed(n).obj.op = "restart"
     /\ Observed(n).obj.runAt \notin {Nil, Bad}
     /\ request.now - Observed(n).obj.runAt <= Retention}

LEMMA LoopCollectsRecentOps ==
  ASSUME Admissible(request)
  PROVE  Recent(Len(request.observed) + 1) = RecentOps
<1>1. DOMAIN request.observed = 1 .. Len(request.observed) /\ Len(request.observed) \in Nat /\ request.now \in Int
  BY DEF Admissible, IsObserved, IsList
<1>2. Recent(Len(request.observed) + 1) = {n \in NamesIn(request.observed) : IsRecentRestart(n)}
  BY <1>1 DEF Recent, NamesIn
<1>3. ASSUME NEW n \in NamesIn(request.observed)
      PROVE  IsRecentRestart(n) <=> n \in RecentOps
  <2>1. CASE ~(n[1] = "pg-restart" /\ ~Fails(n) /\ Observed(n).obj.op = "restart" /\ Observed(n).obj.runAt \notin {Nil, Bad})
    BY <2>1 DEF IsRecentRestart, RecentOps, ObservedOps, RestartOps, Fails, Observed
  <2>2. CASE n[1] = "pg-restart" /\ ~Fails(n) /\ Observed(n).obj.op = "restart" /\ Observed(n).obj.runAt \notin {Nil, Bad}
    <3>1. Observed(n).obj.runAt \in Int
      BY <2>2 DEF Admissible, IsObserved, Fails, Observed
    <3>2. Observed(n).obj.runAt >= request.now - Retention <=> request.now - Observed(n).obj.runAt <= Retention
      BY <1>1, <3>1, RetentionAssumption
    <3>3. n \in RestartOps(request.observed)
      BY <2>2 DEF RestartOps
    <3>. QED
      BY <2>2, <3>2, <3>3 DEF IsRecentRestart, RecentOps, ObservedOps, Fails, Observed
  <2>. QED
    BY <2>1, <2>2
<1>4. RecentOps \subseteq NamesIn(request.observed)
  BY DEF RecentOps, ObservedOps, RestartOps
<1>. QED
  BY <1>2, <1>3, <1>4

(* RestartOpsExact with its parts named. *)
ExactOps ==
  /\ RestartOps(resources) = RecentOps \union (IF PendingTime = 0 THEN {} ELSE {RestartOp(PendingTime)})
  /\ \A n \in RestartOps(resources) :
       At(resources, n).raw.spec.op = "restart" /\ At(resources, n).raw.spec.runAt = n[2]

LEMMA ExactOpsMeansExact == RestartOpsExact <=> (Ran(3) /\ results[3] # "Fatal" => ExactOps)
  BY DEF RestartOpsExact, ExactOps, RecentOps, PendingTime, Manifest, Entry, At

LEMMA ScheduleMakesExact ==
  ASSUME IInv, ScheduleRestart
  PROVE  ExactOps'
<1>1. /\ fn = 3 /\ iter > 0 /\ iter = Len(request.observed) + 1 /\ request' = request /\ composite' = composite
  BY ScheduleRestartEffect DEF Return
<1>2. Admissible(request) /\ KeepsRendered(resources) /\ IsRendered(Rendered) /\ RestartLoop
  BY <1>1 DEF IInv, Inv, Stage, Admissible, Rendered
<1>3. RestartOps(resources) = RecentOps
  BY <1>1, <1>2, LoopCollectsRecentOps DEF RestartLoop
<1>4. ASSUME NEW n \in RestartOps(resources)
      PROVE  At(resources, n).raw.spec.op = "restart" /\ At(resources, n).raw.spec.runAt = n[2]
  <2>1. n \in NamesIn(request.observed) /\ IsRecentRestart(n)
    <3>1. PICK j \in 1 .. iter - 1 : IsRecentRestart(request.observed[j].name) /\ n = request.observed[j].name
      BY <1>2 DEF RestartLoop, Recent
    <3>2. j \in DOMAIN request.observed
      BY <1>1, <1>2, <3>1 DEF Admissible, IsObserved, IsList
    <3>. QED
      BY <3>1, <3>2 DEF NamesIn
  <2>2. At(resources, n).raw.spec = Observed(n).obj
    <3>1. At(resources, n).raw = Fresh(n, {}, Observed(n).obj)
      BY <1>2 DEF RestartLoop
    <3>. QED
      BY <3>1 DEF Fresh
  <2>. QED
    BY <1>2, <2>1, <2>2, RecentIsReadable
<1>5. /\ RestartOps(resources') = RecentOps \union (IF PendingTime = 0 THEN {} ELSE {RestartOp(PendingTime)})
      /\ \A n \in RestartOps(resources') :
           At(resources', n).raw.spec.op = "restart" /\ At(resources', n).raw.spec.runAt = n[2]
  <2>1. CASE PendingTime = 0 /\ resources' = resources
    BY <2>1, <1>3, <1>4
  <2>2. CASE /\ PendingTime # 0
             /\ \E raw : /\ raw.kind = "Object" /\ raw.spec = RestartAt(PendingTime)
                         /\ Puts(resources, resources', RestartOp(PendingTime), raw)
    <3>1. PICK raw : raw.kind = "Object" /\ raw.spec = RestartAt(PendingTime) /\ Puts(resources, resources', RestartOp(PendingTime), raw)
      BY <2>2
    <3>2. /\ NamesIn(resources') = NamesIn(resources) \union {RestartOp(PendingTime)}
          /\ \A m \in NamesIn(resources) : m # RestartOp(PendingTime) => At(resources', m) = At(resources, m)
          /\ At(resources', RestartOp(PendingTime)).raw.spec = RestartAt(PendingTime)
      BY <3>1 DEF Puts
    <3>3. RestartOps(resources') = RestartOps(resources) \union {RestartOp(PendingTime)}
      BY <3>2, OwnNames DEF RestartOps
    <3>4. RestartAt(PendingTime).op = "restart" /\ RestartAt(PendingTime).runAt = PendingTime /\ RestartOp(PendingTime)[2] = PendingTime
      BY OwnNames DEF RestartAt
    <3>5. ASSUME NEW n \in RestartOps(resources')
          PROVE  At(resources', n).raw.spec.op = "restart" /\ At(resources', n).raw.spec.runAt = n[2]
      <4>1. CASE n = RestartOp(PendingTime)
        BY <4>1, <3>2, <3>4
      <4>2. CASE n # RestartOp(PendingTime)
        BY <4>2, <3>2, <3>3, <1>4 DEF RestartOps
      <4>. QED
        BY <4>1, <4>2
    <3>. QED
      BY <1>3, <2>2, <3>3, <3>5
  <2>. QED
    BY <2>1, <2>2, ScheduleRestartEffect
<1>6. PendingTime' = PendingTime /\ RecentOps' = RecentOps
  BY <1>1, RequestKept DEF PendingTime, RecentOps, ObservedOps, RestartOps, Fails
<1>. QED
  BY <1>5, <1>6 DEF ExactOps, RestartOps, At

LEMMA ExactStep == IInv /\ RestartOpsExact /\ [Next]_vars => RestartOpsExact'
<1>. SUFFICES ASSUME IInv, RestartOpsExact, [Next]_vars, Ran(3)', results'[3] # "Fatal" PROVE ExactOps'
  BY ExactOpsMeansExact DEF RestartOpsExact, ExactOps, RecentOps, PendingTime, Manifest, Entry, At
<1>1. fn' > 3 /\ (Ran(3) <=> fn > 3) /\ fn \in 0 .. 6 /\ request' = request
  BY ResultsStep DEF IInv, Inv
<1>2. CASE fn > 3
  <2>1. ExactOps
    BY <1>1, <1>2, ResultsStep, ExactOpsMeansExact
  <2>2. fn > 0 /\ fn # 2 /\ fn # 3 /\ fn > 2
    BY <1>1, <1>2
  <2>3. \A m : m[1] = "pg-restart" =>
          /\ m \in NamesIn(resources') <=> m \in NamesIn(resources)
          /\ m \in NamesIn(resources) => At(resources', m) = At(resources, m)
    BY <2>2, LeftAlone DEF Cluster
  <2>4. composite'.strategy = composite.strategy
    <3>1. CASE UNCHANGED vars
      BY <3>1 DEF vars, desired
    <3>2. CASE composite' = composite
      BY <3>2
    <3>3. CASE Step /\ composite' # composite
      <4>1. PICK offset \in Offsets : fn = 4 /\ composite # Bad /\ composite' = Scheduled(composite, offset)
        BY <3>3, <2>2, StepEffect DEF IInv
      <4>2. IsComposite(composite)
        BY <4>1 DEF IInv, Inv, Admissible
      <4>. QED
        BY <4>1, <4>2 DEF IsComposite, Scheduled
    <3>. QED
      BY <3>1, <3>2, <3>3 DEF Next
  <2>5. PendingTime' = PendingTime /\ RecentOps' = RecentOps
    BY <1>1, <2>4, RequestKept DEF PendingTime, RecentOps, ObservedOps, RestartOps, Fails
  <2>6. RestartOps(resources') = RestartOps(resources)
    BY <2>3 DEF RestartOps
  <2>7. \A n \in RestartOps(resources') :
          At(resources', n).raw.spec.op = "restart" /\ At(resources', n).raw.spec.runAt = n[2]
    BY <2>1, <2>3, <2>6 DEF ExactOps, RestartOps
  <2>. QED
    BY <2>1, <2>5, <2>6, <2>7 DEF ExactOps, RestartOps, At
<1>3. CASE fn <= 3
  <2>1. fn = 3 /\ fn' = 4
    BY <1>1, <1>3, ResultsStep
  <2>2. TransformRestart
    BY <2>1, MovesByStep, StepOfFunction
  <2>3. ~StartRestart
    BY <2>1, ReturnedResult DEF StartRestart, Continue
  <2>4. ~KeepRecentRestartOp
    BY <2>1, KeepRecentEffect DEF Continue
  <2>. QED
    BY <2>2, <2>3, <2>4, ScheduleMakesExact DEF TransformRestart
<1>. QED
  BY <1>1, <1>2, <1>3

(* Which restart operations are desired, for any observed operations, any  *)
(* conditions of the cluster and any retention time (restart.go:25-141).   *)
THEOREM RestartOpsAreExact == Spec => []RestartOpsExact
<1>1. Init => RestartOpsExact
  BY DEF Init, RestartOpsExact, Ran
<1>. QED
  BY <1>1, ExactStep, IInvHolds, PTL DEF Spec
------------------------------------------------------------------------------
LEMMA ObservedErrors ==
  ASSUME Admissible(request), NEW n
  PROVE  /\ Observed(n).err \in {"none", "NotFound", "Decode"}
         /\ Observed(n).err = "none" => n \in NamesIn(request.observed)
<1>1. IsList(request.observed)
  BY DEF Admissible, IsObserved
<1> DEFINE g == GetFrom(request.observed, KubeObject(Nil, {}), n)
<1>2. g.err \in {"none", "NotFound", "Decode"} /\ (g.err = "none" => n \in NamesIn(request.observed))
  BY <1>1, GetFromAt
<1>3. \A m : Extracted(m).err \in {"none", "NotFound", "Decode"}
  BY DEF Extracted
<1>4. Observed(n) = IF g.err = "none" THEN Extracted(g.obj.status) ELSE [err |-> g.err, obj |-> Nil]
  BY DEF Observed, ObservedManifest
<1>. HIDE DEF g
<1>. QED
  BY <1>2, <1>3, <1>4

LEMMA KeysOfInstance ==
  ASSUME Admissible(request), NEW i
  PROVE  /\ LuksKeysFor(i) \ {Bad} \subseteq
              IF Fails(LuksKey(i)) THEN NewKeys \ {Bad} ELSE {Observed(LuksKey(i)).obj.data}
         /\ Bad \in LuksKeysFor(i) =>
              \/ Observed(LuksKey(i)).err = "Decode"
              \/ Observed(LuksKey(i)).err = "NotFound" /\ Bad \in NewKeys
<1>1. Observed(LuksKey(i)).err \in {"none", "NotFound", "Decode"}
  BY ObservedErrors
<1>2. LuksKeysFor(i) = CASE Observed(LuksKey(i)).err = "none" -> {Observed(LuksKey(i)).obj.data}
                         [] Observed(LuksKey(i)).err = "NotFound" -> NewKeys
                         [] OTHER -> {Bad}
  BY DEF LuksKeysFor, Observed
<1>3. Observed(LuksKey(i)).err = "none" => Observed(LuksKey(i)).obj.data # Bad
  BY ObservedErrors, OwnNames DEF Admissible, IsObserved, Observed
<1>. QED
  BY <1>1, <1>2, <1>3 DEF Fails

LEMMA EncryptedStep == IInv /\ EncryptedComplete /\ [Next]_vars => EncryptedComplete'
<1>. SUFFICES ASSUME IInv, EncryptedComplete, [Next]_vars PROVE EncryptedComplete'
  OBVIOUS
<1>1. /\ request' = request /\ fn \in 0 .. 6 /\ Admissible(request)
      /\ (Ran(5) <=> fn > 5) /\ (Ran(5)' <=> fn' > 5)
  BY ResultsStep DEF IInv, Inv
<1>2. CASE UNCHANGED vars
  <2>1. UNCHANGED <<resources, results>>
    BY <1>2 DEF vars, desired, exec
  <2>. QED
    BY <1>1, <2>1, RequestKept DEF EncryptedComplete, Ran, Desired, Manifest, Entry, Fails
<1>3. CASE Step
  <2>. SUFFICES ASSUME Ran(5)', Comp # Bad, Comp.encrypted, results'[5] # "Fatal"
                PROVE  /\ Cluster \in NamesIn(resources')
                       /\ At(resources', Cluster).raw.spec.storageClass = "ssd-encrypted"
                       /\ At(resources', Cluster).raw.spec.instances = RenderedCluster.obj.instances
                       /\ \A i \in 0 .. RenderedCluster.obj.instances - 1 :
                            /\ LuksKey(i) \in NamesIn(resources')
                            /\ At(resources', LuksKey(i)).raw.spec.data \in
                                 IF Fails(LuksKey(i)) THEN NewKeys \ {Bad} ELSE {Observed(LuksKey(i)).obj.data}
    BY <1>1, RequestKept DEF EncryptedComplete, Desired, Manifest, Entry, At, Fails
  <2>1. fn = 5 /\ fn' = 6
    <3>1. fn # 6
      BY <1>3, StepOfFunction DEF IInv, Inv
    <3>. QED
      BY <1>1, <3>1, ResultsStep
  <2>2. AddPvcSecret
    BY <1>3, <2>1, StepOfFunction
  <2>3. ASSUME Return("Fatal") PROVE FALSE
    BY <2>1, <2>3, ReturnedResult
  <2>4. ~StartPvcSecret
    BY <2>1, <2>3, StartPvcEffect DEF Continue
  <2>5. ~WriteLuksSecret
    BY <2>1, <2>3, WriteLuksEffect DEF Continue
  <2>6. iter > 0 /\ iter - 1 = RenderedCluster.obj.instances /\ resources' = resources
    BY <2>2, <2>4, <2>5, EndPvcEffect DEF AddPvcSecret
  <2>7. EncryptLoop /\ LuksSecrets /\ iter \in Nat
    BY <2>1, <2>6 DEF IInv, Stage
  <2>8. /\ Cluster \in NamesIn(resources)
        /\ At(resources, Cluster).raw.spec.storageClass = "ssd-encrypted"
        /\ At(resources, Cluster).raw.spec.instances = RenderedCluster.obj.instances
    BY <1>1, <2>7, ClusterFacts DEF EncryptLoop
  <2>9. ASSUME NEW i \in 0 .. RenderedCluster.obj.instances - 1
        PROVE  /\ LuksKey(i) \in NamesIn(resources)
               /\ At(resources, LuksKey(i)).raw.spec.data \in
                    IF Fails(LuksKey(i)) THEN NewKeys \ {Bad} ELSE {Observed(LuksKey(i)).obj.data}
    <3>1. i \in 0 .. iter - 2
      BY <2>6, <2>7
    <3>2. LuksKey(i) \in LuksKeys(resources)
      BY <2>7, <3>1 DEF EncryptLoop
    <3>3. PICK key \in LuksKeysFor(i) \ {Bad} : At(resources, LuksKey(i)).raw.spec = LuksSecret(i, key)
      BY <2>7, <3>2, OwnNames DEF LuksSecrets
    <3>4. At(resources, LuksKey(i)).raw.spec.data = key
      BY <3>3 DEF LuksSecret
    <3>. QED
      BY <1>1, <3>2, <3>3, <3>4, KeysOfInstance DEF LuksKeys
  <2>. QED
    BY <2>6, <2>8, <2>9
<1>. QED
  BY <1>2, <1>3 DEF Next

(* Encryption is all or nothing, for any number of instances: a run that   *)
(* does not fail has the encrypted cluster and all its keys                *)
(* (encrypted_pvc.go:21-105).                                              *)
THEOREM EncryptionIsComplete == Spec => []EncryptedComplete
<1>1. Init => EncryptedComplete
  BY DEF Init, EncryptedComplete, Ran
<1>. QED
  BY <1>1, EncryptedStep, IInvHolds, PTL DEF Spec

(* What it is about the request that makes a function return Fatal: an     *)
(* incomplete alerting configuration; a composite, a cluster or an object  *)
(* that cannot be read; a key that cannot be generated; and for the URL    *)
(* also a connection object that is not reported yet once the namespace    *)
(* is, although the next reconciliation may find it (url.go:51-54).        *)
FatalReasons ==
  /\ Ran(1) => (results[1] = "Fatal" <=>
       request.composite = Bad \/ (request.composite.ns # Nil /\ Fails(Connection)))
  /\ Ran(2) => (results[2] = "Fatal" <=>
       \/ Comp = Bad
       \/ /\ Comp.ns # Nil /\ Comp.secretRef = Nil
          /\ Comp.ref # Nil \/ Comp.template # Nil)
  /\ Ran(3) => (results[3] = "Fatal" <=> request.composite = Bad)
  /\ Ran(4) => (results[4] = "Fatal" <=> request.composite = Bad)
  /\ Ran(5) /\ results[5] = "Fatal" =>
       \/ Comp = Bad
       \/ Comp.encrypted /\ RenderedCluster.err # "none"
       \/ /\ Comp.encrypted
          /\ \E i \in 0 .. RenderedCluster.obj.instances - 1 :
               \/ Observed(LuksKey(i)).err = "Decode"
               \/ Observed(LuksKey(i)).err = "NotFound" /\ Bad \in NewKeys

LEMMA FatalStep == IInv /\ FatalReasons /\ [Next]_vars => FatalReasons'
<1>. SUFFICES ASSUME IInv, FatalReasons, [Next]_vars PROVE FatalReasons'
  OBVIOUS
<1> DEFINE Stuck1 == request.composite = Bad \/ (request.composite.ns # Nil /\ Fails(Connection))
           Stuck2 == \/ Comp = Bad
                     \/ /\ Comp.ns # Nil /\ Comp.secretRef = Nil
                        /\ Comp.ref # Nil \/ Comp.template # Nil
           Stuck3 == request.composite = Bad
           Stuck5 == \/ Comp = Bad
                     \/ Comp.encrypted /\ RenderedCluster.err # "none"
                     \/ /\ Comp.encrypted
                        /\ \E i \in 0 .. RenderedCluster.obj.instances - 1 :
                             \/ Observed(LuksKey(i)).err = "Decode"
                             \/ Observed(LuksKey(i)).err = "NotFound" /\ Bad \in NewKeys
<1>1. /\ Stuck1' <=> Stuck1
      /\ Stuck2' <=> Stuck2
      /\ Stuck3' <=> Stuck3
      /\ Stuck5' <=> Stuck5
  BY ResultsStep, RequestKept DEF Fails
<1>2. /\ request' = request /\ fn \in 0 .. 6 /\ Admissible(request)
      /\ fn \in 1 .. 4 => composite = request.composite
      /\ \A k \in 1 .. 5 : Ran(k) <=> fn > k
      /\ \A k \in 1 .. 5 : Ran(k)' <=> fn' > k
      /\ \A k \in 1 .. 5 : Ran(k) => results'[k] = results[k]
      /\ fn' > fn /\ fn > 0 => fn' = fn + 1
  BY ResultsStep DEF IInv, Inv
<1>3. ASSUME NEW k \in 1 .. 5, Ran(k)', ~Ran(k)
      PROVE  fn = k /\ Step /\ \E s : Return(s) /\ results'[k] = s
  BY <1>2, <1>3, ResultsStep DEF Next, vars, exec
<1>4. Ran(1)' => (results'[1] = "Fatal" <=> Stuck1)
  <2>1. CASE Ran(1)
    BY <1>2, <2>1 DEF FatalReasons
  <2>2. CASE ~Ran(1) /\ Ran(1)'
    <3>1. fn = 1 /\ AddUrlToConnectionDetails
      BY <2>2, <1>3, StepOfFunction
    <3>2. \A s : Return(s) => results'[1] = s
      BY <3>1, ReturnedResult
    <3>3. composite = request.composite
      BY <1>2, <3>1
    <3>. QED
      BY <3>1, <3>2, <3>3 DEF AddUrlToConnectionDetails, Fails, Observed
  <2>. QED
    BY <2>1, <2>2
<1>5. Ran(2)' => (results'[2] = "Fatal" <=> Stuck2)
  <2>1. CASE Ran(2)
    BY <1>2, <2>1 DEF FatalReasons
  <2>2. CASE ~Ran(2) /\ Ran(2)'
    <3>1. fn = 2 /\ AddUserAlerting
      BY <2>2, <1>3, StepOfFunction
    <3>2. \A s : Return(s) => results'[2] = s
      BY <3>1, ReturnedResult
    <3>. QED
      BY <3>1, <3>2, AlertingEffect
  <2>. QED
    BY <2>1, <2>2
<1>6. Ran(3)' => (results'[3] = "Fatal" <=> Stuck3)
  <2>1. CASE Ran(3)
    BY <1>2, <2>1 DEF FatalReasons
  <2>2. CASE ~Ran(3) /\ Ran(3)'
    <3>1. fn = 3 /\ TransformRestart /\ fn' > 3
      BY <1>2, <2>2, <1>3, StepOfFunction
    <3>2. \A s : Return(s) => results'[3] = s
      BY <3>1, ReturnedResult
    <3>3. composite = request.composite
      BY <1>2, <3>1
    <3>4. CASE StartRestart
      BY <3>1, <3>2, <3>3, <3>4 DEF StartRestart, Continue
    <3>5. CASE KeepRecentRestartOp
      BY <3>1, <3>5, KeepRecentEffect DEF Continue
    <3>6. CASE ScheduleRestart
      <4>1. iter > 0 /\ (Return("Normal") \/ Return("Warning"))
        BY <3>6, ScheduleRestartEffect
      <4>2. composite # Bad
        BY <3>1, <4>1 DEF IInv, Stage, RestartLoop
      <4>. QED
        BY <3>2, <3>3, <4>1, <4>2
    <3>. QED
      BY <3>1, <3>4, <3>5, <3>6 DEF TransformRestart
  <2>. QED
    BY <2>1, <2>2
<1>7. Ran(4)' => (results'[4] = "Fatal" <=> Stuck3)
  <2>1. CASE Ran(4)
    BY <1>2, <2>1 DEF FatalReasons
  <2>2. CASE ~Ran(4) /\ Ran(4)'
    <3>1. fn = 4 /\ TransformSchedule
      BY <2>2, <1>3, StepOfFunction
    <3>2. \A s : Return(s) => results'[4] = s
      BY <3>1, ReturnedResult
    <3>3. composite = request.composite
      BY <1>2, <3>1
    <3>. QED
      BY <3>1, <3>2, <3>3 DEF TransformSchedule
  <2>. QED
    BY <2>1, <2>2
<1>8. Ran(5)' /\ results'[5] = "Fatal" => Stuck5
  <2>1. CASE Ran(5)
    BY <1>2, <2>1 DEF FatalReasons
  <2>2. CASE ~Ran(5) /\ Ran(5)' /\ results'[5] = "Fatal"
    <3>1. fn = 5 /\ AddPvcSecret /\ fn' > 5
      BY <1>2, <2>2, <1>3, StepOfFunction
    <3>2. \A s : Return(s) => results'[5] = s
      BY <3>1, ReturnedResult
    <3>3. CASE StartPvcSecret
      BY <2>2, <3>1, <3>2, <3>3, StartPvcEffect DEF Continue
    <3>4. CASE WriteLuksSecret
      <4>1. /\ iter > 0 /\ iter - 1 < RenderedCluster.obj.instances
            /\ Bad \in LuksKeysFor(iter - 1)
        BY <3>1, <3>4, WriteLuksEffect DEF Continue
      <4>2. EncryptLoop /\ iter \in Nat
        BY <3>1, <4>1 DEF IInv, Stage
      <4>3. RenderedCluster.obj.instances \in Nat /\ Comp.encrypted
        BY <1>2, <4>2, ClusterFacts DEF EncryptLoop
      <4>4. iter - 1 \in 0 .. RenderedCluster.obj.instances - 1
        BY <4>1, <4>2, <4>3
      <4>. QED
        BY <1>2, <4>1, <4>3, <4>4, KeysOfInstance
    <3>5. CASE EndPvcSecret
      BY <2>2, <3>2, <3>5, EndPvcEffect
    <3>. QED
      BY <3>1, <3>3, <3>4, <3>5 DEF AddPvcSecret
  <2>. QED
    BY <2>1, <2>2
<1>. HIDE DEF Stuck1, Stuck2, Stuck3, Stuck5
<1>9. FatalReasons' =
        /\ Ran(1)' => (results'[1] = "Fatal" <=> Stuck1')
        /\ Ran(2)' => (results'[2] = "Fatal" <=> Stuck2')
        /\ Ran(3)' => (results'[3] = "Fatal" <=> Stuck3')
        /\ Ran(4)' => (results'[4] = "Fatal" <=> Stuck3')
        /\ Ran(5)' /\ results'[5] = "Fatal" => Stuck5'
  BY DEF FatalReasons, Stuck1, Stuck2, Stuck3, Stuck5
<1>. QED
  BY <1>1, <1>4, <1>5, <1>6, <1>7, <1>8, <1>9

(* Why a run is thrown away, for every return of the functions: the        *)
(* severity of each result follows from what the request holds, however    *)
(* far the loops have come (the five functions).                           *)
THEOREM FatalHasReason == Spec => []FatalReasons
<1>1. Init => FatalReasons
  BY DEF Init, FatalReasons, Ran
<1>. QED
  BY <1>1, FatalStep, IInvHolds, PTL DEF Spec
------------------------------------------------------------------------------
LEMMA PutDetailOnce ==
  ASSUME NEW S, NEW details \in Seq(S), UniqueIn(details), NEW cd
  PROVE  \E p : /\ {i \in DOMAIN PutDetail(details, cd) : PutDetail(details, cd)[i].name = cd.name} = {p}
                /\ PutDetail(details, cd)[p] = cd
<1> DEFINE p   == Position(details, cd.name)
           new == PutDetail(details, cd)
<1>1. /\ p \in 0 .. Len(details)
      /\ p # 0 => details[p].name = cd.name
      /\ \A i \in DOMAIN details : details[i].name = cd.name => p = i
  BY PositionIsIndex
<1>2. details \in Seq(S \union {cd}) /\ Len(details) \in Nat /\ DOMAIN details = 1 .. Len(details)
  OBVIOUS
<1>. HIDE DEF p
<1>3. CASE p = 0
  <2>1. new = Append(details, cd)
    BY <1>3 DEF PutDetail, p
  <2>2. /\ DOMAIN new = 1 .. Len(details) + 1
        /\ \A i \in DOMAIN details : new[i] = details[i]
        /\ new[Len(details) + 1] = cd
    BY <1>2, <2>1
  <2>3. \A i \in DOMAIN details : details[i].name # cd.name
    BY <1>1, <1>2, <1>3
  <2>. HIDE DEF new
  <2>4. {i \in DOMAIN new : new[i].name = cd.name} = {Len(details) + 1}
    BY <1>2, <2>2, <2>3
  <2>. QED
    BY <2>2, <2>4 DEF new
<1>4. CASE p # 0
  <2>1. new = [details EXCEPT ![p] = cd]
    BY <1>4 DEF PutDetail, p
  <2>2. p \in DOMAIN details
    BY <1>1, <1>2, <1>4
  <2>3. /\ DOMAIN new = DOMAIN details
        /\ \A i \in DOMAIN details : new[i] = IF i = p THEN cd ELSE details[i]
    BY <1>2, <2>1, <2>2
  <2>. HIDE DEF new
  <2>4. {i \in DOMAIN new : new[i].name = cd.name} = {p}
    BY <1>1, <2>2, <2>3
  <2>. QED
    BY <2>2, <2>3, <2>4 DEF new
<1>. QED
  BY <1>3, <1>4

(* The URL, as the function that makes it leaves it and the others keep it. *)
UrlMade ==
  Ran(1) =>
    IF results[1] = "Normal"
    THEN /\ ~Fails(Connection)
         /\ \A f \in PostgresFields : Observed(Connection).obj.data[f] # Nil
         /\ \E p : /\ {i \in DOMAIN conn : conn[i].name = PostgresqlUrl} = {p}
                 /\ conn[p].value = GetPostgresURL(Observed(Connection).obj.data)
    ELSE conn = request.conn

LEMMA UrlMadeIsFresh == UrlMade => UrlFresh
<1>. SUFFICES ASSUME UrlMade, Ran(1), results[1] = "Normal" PROVE UrlFresh
  BY DEF UrlMade, UrlFresh
<1> DEFINE data == Observed(Connection).obj.data
           url  == {i \in DOMAIN conn : conn[i].name = PostgresqlUrl}
<1>1. PICK p : url = {p} /\ conn[p].value = GetPostgresURL(data)
  BY DEF UrlMade
<1>2. \A f \in PostgresFields : data[f] # Nil
  BY DEF UrlMade
<1>3. GetPostgresURL(data) = <<data["user"], data["password"], data["host"], data["port"], data["db"]>>
  BY <1>2 DEF GetPostgresURL
<1>. HIDE DEF data
<1>4. \A k \in 1 .. 5 : /\ conn[p].value[k] # Nil
                       /\ conn[p].value[k] = data[<<"user", "password", "host", "port", "db">>[k]]
  BY <1>1, <1>2, <1>3 DEF PostgresFields
<1>5. Cardinality(url) = 1
  BY <1>1, FS_Singleton
<1>. QED
  BY <1>1, <1>4, <1>5 DEF UrlFresh, data

LEMMA UrlStep == IInv /\ UrlMade /\ [Next]_vars => UrlMade'
<1>. SUFFICES ASSUME IInv, UrlMade, [Next]_vars, Ran(1)' PROVE UrlMade'
  BY DEF UrlMade
<1>1. request' = request /\ fn \in 0 .. 6 /\ fn' > 1 /\ (Ran(1) <=> fn > 1) /\ Admissible(request)
  BY ResultsStep DEF IInv, Inv
<1>2. CASE fn > 1
  <2>1. results'[1] = results[1] /\ Ran(1)
    BY <1>1, <1>2, ResultsStep
  <2>2. conn' = conn
    <3>1. CASE UNCHANGED vars
      BY <3>1 DEF vars, desired
    <3>2. CASE AddUserAlerting
      BY <3>2 DEF AddUserAlerting
    <3>3. CASE TransformRestart
      BY <3>3 DEF TransformRestart, StartRestart, KeepRecentRestartOp, ScheduleRestart, desired
    <3>4. CASE TransformSchedule
      BY <3>4 DEF TransformSchedule
    <3>5. CASE AddPvcSecret
      BY <3>5 DEF AddPvcSecret, StartPvcSecret, WriteLuksSecret, EndPvcSecret, desired
    <3>. QED
      BY <1>1, <1>2, <3>1, <3>2, <3>3, <3>4, <3>5, StepOfFunction DEF Next
  <2>. QED
    BY <1>1, <2>1, <2>2, RequestKept DEF UrlMade, Fails
<1>3. CASE fn <= 1
  <2>1. fn = 1 /\ fn' = 2
    BY <1>1, <1>3, ResultsStep
  <2>2. AddUrlToConnectionDetails
    BY <2>1, MovesByStep, StepOfFunction
  <2>3. conn = request.conn /\ \A s : Return(s) => results'[1] = s
    BY <2>1, ReturnedResult DEF IInv
  <2> DEFINE data == Observed(Connection).obj.data
             cd   == [name |-> PostgresqlUrl, value |-> GetPostgresURL(data)]
  <2>4. CASE conn' = conn /\ (Return("Fatal") \/ Return("Warning"))
    BY <1>1, <2>3, <2>4 DEF UrlMade
  <2>5. CASE /\ Observed(Connection).err = "none" /\ GetPostgresURL(data) # Nil
             /\ conn' = PutDetail(conn, cd) /\ Return("Normal")
    <3>1. \A f \in PostgresFields : data[f] # Nil
      BY <2>5 DEF GetPostgresURL
    <3>2. PICK p : {i \in DOMAIN conn' : conn'[i].name = PostgresqlUrl} = {p} /\ conn'[p] = cd
      BY <1>1, <2>3, <2>5, PutDetailOnce DEF Admissible
    <3>3. Observed(Connection)' = Observed(Connection) /\ Fails(Connection)' = Fails(Connection)
      BY <1>1, RequestKept DEF Fails
    <3>4. results'[1] = "Normal"
      BY <2>3, <2>5
    <3>5. conn'[p].value = GetPostgresURL(data)
      BY <3>2
    <3>6. ~Fails(Connection)
      BY <2>5 DEF Fails, Observed
    <3>. HIDE DEF cd
    <3>. QED
      BY <3>1, <3>2, <3>3, <3>4, <3>5, <3>6 DEF UrlMade
  <2>. QED
    BY <2>2, <2>4, <2>5 DEF AddUrlToConnectionDetails, Observed
<1>. QED
  BY <1>1, <1>2, <1>3

(* The URL that leaves is made of the secret that is observed now, and     *)
(* there is only one (url.go:34-81, desired.go:128).                       *)
THEOREM UrlIsFresh == Spec => []UrlFresh
<1>1. Init => UrlMade
  BY DEF Init, UrlMade, Ran
<1>. QED
  BY <1>1, UrlStep, UrlMadeIsFresh, IInvHolds, PTL DEF Spec
------------------------------------------------------------------------------
(* The way of a run to its answer *)

LEMMA StepSyncs ==
  ASSUME IInv, Step
  PROVE  iter' > 0 \/ io' = Synced'
<1>. USE DEF Return, Continue
<1>0. fn \in 0 .. 6 /\ iter \in Nat
  BY DEF IInv, Inv, Stage
<1>1. CASE NewRuntime
  BY <1>1 DEF NewRuntime
<1>2. CASE AddUrlToConnectionDetails
  BY <1>2 DEF AddUrlToConnectionDetails
<1>3. CASE AddUserAlerting
  BY <1>3 DEF AddUserAlerting
<1>4. CASE TransformRestart
  BY <1>0, <1>4 DEF TransformRestart, StartRestart, KeepRecentRestartOp, ScheduleRestart
<1>5. CASE TransformSchedule
  BY <1>5 DEF TransformSchedule
<1>6. CASE AddPvcSecret
  BY <1>0, <1>6 DEF AddPvcSecret, StartPvcSecret, WriteLuksSecret, EndPvcSecret
<1>. QED
  BY <1>1, <1>2, <1>3, <1>4, <1>5, <1>6 DEF Step


(* The answer is what the functions have made of the request, and there is *)
(* one result for each of them (Answered says that it comes).              *)
AnswerComplete ==
  Finished =>
    /\ Len(results) = Len(postgresFunctions)
    /\ io = [resources |-> resources, composite |-> composite, conn |-> conn]

(* Exec copies the Runtime into the FunctionIO after each function, never  *)
(* in the middle of one, so that an answer leaves nothing out, whichever   *)
(* functions have failed (run.go:13-30, 52-58).                            *)
THEOREM AnswersAreComplete == Spec => []AnswerComplete
<1> DEFINE Copied == fn > 0 /\ iter = 0 => io = Synced
<1>1. Init => Copied
  BY DEF Init
<1>2. IInv /\ Copied /\ [Next]_vars => Copied'
  <2>1. CASE UNCHANGED vars
    BY <2>1 DEF vars, desired, exec, Synced
  <2>. QED
    BY <2>1, StepSyncs DEF Next
<1>3. IInv /\ Copied => AnswerComplete
  BY DEF IInv, Inv, Stage, Finished, postgresFunctions, AnswerComplete, Synced
<1>. QED
  BY <1>1, <1>2, <1>3, IInvHolds, PTL DEF Spec

(* The last iteration of the loop that a run may be in. *)
LoopEnd ==
  CASE fn = 3 -> Len(request.observed) + 1
    [] fn = 5 -> RenderedCluster.obj.instances + 1
    [] OTHER  -> 0

GoesOn ==
  /\ fn \in 0 .. Len(postgresFunctions)
  /\ \/ fn' = fn + 1 /\ iter' = 0
     \/ fn' = fn /\ iter' = iter + 1 /\ LoopEnd \in Nat /\ iter' <= LoopEnd

LEMMA StepGoesOn ==
  ASSUME IInv, Step
  PROVE  \/ fn \in 0 .. 5 /\ fn' = fn + 1 /\ iter' = 0
         \/ fn \in {3, 5} /\ fn' = fn /\ iter' = iter + 1
<1>. USE DEF Return, Continue
<1>0. fn \in 0 .. 6 /\ iter \in Nat /\ (iter > 0 => fn = 3 \/ fn = 5)
  BY DEF IInv, Inv, Stage
<1>1. CASE NewRuntime
  BY <1>0, <1>1 DEF NewRuntime
<1>2. CASE AddUrlToConnectionDetails
  BY <1>0, <1>2, RunningPosition DEF AddUrlToConnectionDetails
<1>3. CASE AddUserAlerting
  BY <1>0, <1>3, RunningPosition DEF AddUserAlerting
<1>4. CASE TransformRestart
  BY <1>0, <1>4, RunningPosition DEF TransformRestart, StartRestart, KeepRecentRestartOp, ScheduleRestart
<1>5. CASE TransformSchedule
  BY <1>0, <1>5, RunningPosition DEF TransformSchedule
<1>6. CASE AddPvcSecret
  BY <1>0, <1>6, RunningPosition DEF AddPvcSecret, StartPvcSecret, WriteLuksSecret, EndPvcSecret
<1>. QED
  BY <1>1, <1>2, <1>3, <1>4, <1>5, <1>6 DEF Step

(* Every step brings a run to the next iteration of a loop whose end is    *)
(* fixed by the request, or to the next function: no loop goes on over     *)
(* what it has added itself, and no run takes more steps than it observes  *)
(* resources and renders instances (restart.go:111-143,                    *)
(* encrypted_pvc.go:57-66).                                                *)
THEOREM RunsEnd == Spec => [][GoesOn]_vars
<1>1. ASSUME IInv, IInv', Step
      PROVE  GoesOn
  <2>1. iter \in Nat /\ request' = request /\ Admissible(request)
    BY <1>1, StepEffect DEF IInv, Inv, Stage
  <2>2. RenderedCluster' = RenderedCluster
    BY <2>1, RequestKept
  <2>3. CASE fn \in 0 .. 5 /\ fn' = fn + 1 /\ iter' = 0
    BY <2>3 DEF GoesOn, postgresFunctions
  <2>4. CASE fn = 3 /\ fn' = fn /\ iter' = iter + 1
    <3>1. iter' <= Len(request.observed) + 1
      BY <1>1, <2>1, <2>4 DEF IInv, Stage, RestartLoop
    <3>2. Len(request.observed) \in Nat
      BY <2>1 DEF Admissible, IsObserved, IsList
    <3>. QED
      BY <2>4, <3>1, <3>2 DEF GoesOn, LoopEnd, postgresFunctions
  <2>5. CASE fn = 5 /\ fn' = fn /\ iter' = iter + 1
    <3>1. iter' - 1 <= RenderedCluster.obj.instances /\ RenderedCluster.err = "none"
      BY <1>1, <2>1, <2>2, <2>5 DEF IInv, Stage, EncryptLoop
    <3>2. RenderedCluster.obj.instances \in Nat
      BY <2>1, <3>1 DEF Admissible, IsRendered, RenderedCluster
    <3>. QED
      BY <2>1, <2>5, <3>1, <3>2 DEF GoesOn, LoopEnd, postgresFunctions
  <2>. QED
    BY <1>1, <2>3, <2>4, <2>5, StepGoesOn
<1>. QED
  BY <1>1, NextIInv, IInvHolds, PTL DEF Spec, Next
==============================================================================
