----------------------------- MODULE Reconcile ------------------------------
(***************************************************************************)
(* Several runs of the functions in one cluster, with what acts between    *)
(* them.  None of it is part of the repository:                            *)
(*   Crossplane           takes a snapshot, renders the composition, calls *)
(*                        RunFunction (Pipeline) and applies the answer    *)
(*   provider-kubernetes  creates what a kube object asks for and reports  *)
(*                        what it finds, each with any delay               *)
(*   StackGres            formats volumes, fills in the credentials, asks  *)
(*                        for restarts and executes them                   *)
(*   the user             scales, and changes parameters                   *)
(*                                                                         *)
(* They act at any time.  As a run reads only its snapshot, its steps      *)
(* commute with theirs: unless Interleaved, they act before a snapshot or  *)
(* once the run is finished and its answer not yet applied, which makes no *)
(* difference to what can happen, only to what must.                       *)
(***************************************************************************)
EXTENDS Pipeline

CONSTANTS
  Listed(_),   \* the order in which Crossplane lists a set of resources
  Sizes,       \* numbers of instances the user may choose
  Changes,     \* kinds of changes that may happen, see the actions
  Faults,      \* faults that may happen: "lost" and "partial" answers
  MaxChanges, MaxFaults, MaxEvents, MaxTime,  \* bounds of a behaviour
  FirstXR,     \* the composite at the beginning
  Present,     \* what has been composed, created and reported by then
  FirstCreds,  \* the version of the credentials by then
  Interleaved  \* whether the others also act in the middle of a run

(* What a composition renders before the functions run. *)
Namespace == <<"namespace", 0>>
Base == {Namespace, Connection, Cluster}

ASSUME ReconcileAssumption ==
  /\ Sizes \subseteq Nat /\ \E n \in Sizes : \A m \in Sizes : m <= n
  /\ Nil \notin NewKeys
  /\ MaxChanges \in Nat /\ MaxFaults \in Nat /\ MaxEvents \in Nat /\ MaxTime \in Nat \ {0}
  /\ Present \subseteq Base /\ FirstCreds \in {Nil, "v1"} /\ Interleaved \in BOOLEAN

LuksInstances == 0 .. (CHOOSE n \in Sizes : \A m \in Sizes : m <= n) - 1
Times == 1 .. MaxTime

Names == Base \union {LuksKey(i) : i \in LuksInstances} \union {RestartOp(t) : t \in Times}

ASSUME ListedAssumption ==
  \A S \in SUBSET Names :
    /\ Listed(S) \in Seq(S) /\ \A n \in S : \E i \in DOMAIN Listed(S) : Listed(S)[i] = n
    /\ \A i, j \in DOMAIN Listed(S) : Listed(S)[i] = Listed(S)[j] => i = j

Credentials(version) == [f \in PostgresFields |-> version]
Restarting(status, t) == <<[type |-> "PendingRestart", status |-> status, at |-> t]>>

ConnectionSecrets ==
  [kind : {"Secret"}, meta : {Connection},
   data : {Nil} \union [PostgresFields -> {Nil, "v1", "v2"}]]
Clusters ==
  [kind : {"SGCluster"}, instances : Sizes, storageClass : {Nil, "ssd-encrypted"},
   conditions : {<<>>} \union {Restarting(s, t) : s \in {"True", "False"}, t \in Times}]

(* What the kube object of each name may ask for and report. *)
ManifestsFor(n) ==
  CASE n = Namespace  -> {[kind |-> "Namespace"]}
    [] n = Connection -> ConnectionSecrets
    [] n = Cluster    -> Clusters
    [] n[1] = "luks-key"   -> {LuksSecret(n[2], key) : key \in NewKeys \ {Bad}}
    [] n[1] = "pg-restart" -> {RestartAt(n[2])}

ObjectsFor(n) ==
  [kind : {"Object"}, meta : {n}, refs : {{}}, spec : ManifestsFor(n),
   status : {Nil} \union ManifestsFor(n)]

(* There is no user alerting here (Pipeline has it). *)
IsXR(c) ==
  /\ IsComposite(c) /\ c.ns \in {FirstXR.ns, "instance"}
  /\ c.ref = Nil /\ c.template = Nil /\ c.secretRef = Nil

(* Nil and Bad are nothing else. *)
ASSUME MarksAssumption ==
  /\ IsXR(FirstXR) /\ Nil # Bad
  /\ \A ns \in {FirstXR.ns, "instance"} :
       Readable(<<>>, AlertmanagerConfig("postgresql-alertmanagerconfig", [FirstXR EXCEPT !.ns = ns], Nil),
                AlertConfig, Patches(Nil, "spec"))
  /\ \A v \in {Nil, Bad} :
       /\ v \notin Times /\ v \notin {"instance", "v1", "v2"}
       /\ \A n \in Names : v \notin ManifestsFor(n) /\ v \notin ObjectsFor(n)

VARIABLES
  running,    \* whether Crossplane waits for a run, or applies its answer
  xr,         \* the composite
  size,       \* its number of instances
  objects,    \* the kube objects composed for it: what each asks for and reports
  live,       \* the resources that provider-kubernetes has created for them
  volumes,    \* the key with which the volume of each instance is formatted
  excused,    \* instances whose key has been given up, see Applied
  creds,      \* the credentials that StackGres has published
  published,  \* POSTGRESQL_URL in the connection secret of the composite
  ops,        \* the restart operations that StackGres has begun
  clock, faults, changes

runVars == <<request, desired, scheme, exec>>
cluster == <<xr, size, objects, live, volumes, excused, creds, published, ops>>
bounds  == <<clock, faults, changes>>
allVars == <<runVars, running, cluster, bounds>>

(* f with v at n. *)
With(f, n, v) == [m \in DOMAIN f \union {n} |-> IF m = n THEN v ELSE f[m]]

UrlOf(data) == GetPostgresURL(data)

------------------------------------------------------------------------------
(* Crossplane *)

ObservedEntry(n) ==
  [name |-> n, extra |-> Nil,
   raw |-> [kind |-> "Object", meta |-> n, refs |-> {},
            spec |-> objects[n].spec, status |-> objects[n].status]]

RenderedEntry(n, manifest) ==
  [name |-> n, extra |-> Nil,
   raw |-> [kind |-> "Object", meta |-> n, refs |-> {}, spec |-> manifest, status |-> Nil]]

(* What the composition makes of the composite: three resources, and the   *)
(* name of the namespace as soon as one is reported.                       *)
Rendering(n, instances) ==
  CASE n = Namespace  -> [kind |-> "Namespace"]
    [] n = Connection -> [kind |-> "Secret", meta |-> Connection, data |-> Nil]
    [] n = Cluster    -> [kind |-> "SGCluster", instances |-> instances,
                          storageClass |-> Nil, conditions |-> <<>>]
Composed ==
  LET names == <<Namespace, Connection, Cluster>>
  IN [i \in DOMAIN names |-> RenderedEntry(names[i], Rendering(names[i], size))]
Patched ==
  IF Namespace \in DOMAIN objects /\ objects[Namespace].status # Nil
  THEN [xr EXCEPT !.ns = "instance"] ELSE xr

InitRun ==
  /\ request = Nil /\ resources = <<>> /\ composite = Nil /\ conn = <<>>
  /\ scheme = StartScheme \union {"AlertmanagerConfig"}
  /\ io = Nil /\ results = <<>> /\ fn = 0 /\ iter = 0

ReconcileInit ==
  /\ InitRun /\ running = FALSE
  /\ xr = FirstXR /\ size \in Sizes
  /\ creds = Credentials(FirstCreds)
  /\ live = [n \in Present |-> IF n = Connection
                                THEN [Rendering(n, size) EXCEPT !.data = creds] ELSE Rendering(n, size)]
  /\ objects = [n \in Present |-> [spec |-> Rendering(n, size), status |-> live[n]]]
  /\ ops = <<>> /\ published = Nil
  /\ volumes = [i \in LuksInstances |-> Nil] /\ excused = {}
  /\ clock = 1 /\ faults = 0 /\ changes = 0

Snapshot ==
  LET names == Listed(DOMAIN objects) IN
  [observed |-> [i \in DOMAIN names |-> ObservedEntry(names[i])],
   obsComposite |-> xr, resources |-> Composed, composite |-> Patched,
   conn |-> <<>>, now |-> clock]

Begin ==
  /\ ~running /\ running' = TRUE
  /\ request' = Snapshot
  /\ UNCHANGED <<desired, scheme, exec, cluster, bounds>>

RunStep == running /\ Step /\ UNCHANGED <<running, cluster, bounds>>

ResetRun ==
  /\ running /\ Finished /\ running' = FALSE
  /\ request' = Nil /\ resources' = <<>> /\ composite' = Nil /\ conn' = <<>>
  /\ scheme' = scheme /\ io' = Nil /\ results' = <<>> /\ fn' = 0 /\ iter' = 0

Fault(kind) ==
  /\ kind \in Faults /\ faults + changes < MaxEvents
  /\ faults < MaxFaults /\ faults' = faults + 1

(* A Fatal result: nothing of the answer is used. *)
Reject ==
  /\ \E i \in DOMAIN results : results[i] = "Fatal"
  /\ ResetRun /\ UNCHANGED <<cluster, bounds>>

(* The answer does not arrive, because the server or Crossplane restarts   *)
(* or the deadline has passed.                                             *)
Lose ==
  /\ Fault("lost")
  /\ ResetRun /\ UNCHANGED <<cluster, clock, changes>>

(* The answer is applied: the objects that are no longer desired are       *)
(* deleted with what they manage; what the run has changed of the          *)
(* composite and the resources in done are written.  The run has given up  *)
(* the keys of instances that the composition no longer has, all keys when *)
(* encryption is off, and those whose secret was asked for but not         *)
(* reported yet: it has made new ones.                                     *)
Applied(done) ==
  LET old(n) == IF n \in DOMAIN objects THEN objects[n] ELSE [spec |-> Nil, status |-> Nil]
      kept   == {n \in DOMAIN objects : n \in NamesIn(io.resources)}
  IN /\ \A i \in DOMAIN results : results[i] # "Fatal"
     /\ xr' = [f \in DOMAIN xr |->
          IF io.composite[f] = Comp[f] THEN xr[f] ELSE io.composite[f]]
     /\ objects' = [n \in kept \union done |->
          IF n \in done
          THEN [old(n) EXCEPT !.spec = io.resources[Position(io.resources, n)].raw.spec]
          ELSE old(n)]
     /\ live' = Restrict(live, DOMAIN live \intersect kept)
     /\ ops' = Restrict(ops, DOMAIN ops \intersect kept)
     /\ excused' = excused \union
          {i \in LuksInstances : \/ ~Comp.encrypted \/ i >= RenderedCluster.obj.instances
                                 \/ LuksKey(i) \in NamesIn(request.observed) /\ Fails(LuksKey(i))}
     /\ ResetRun
     /\ UNCHANGED <<size, volumes, creds, clock, changes>>

Apply ==
  LET urls == {i \in DOMAIN io.conn : io.conn[i].name = PostgresqlUrl} IN
  /\ running /\ Finished
  /\ Applied(NamesIn(io.resources))
  /\ published' = IF urls = {} THEN published ELSE io.conn[CHOOSE i \in urls : TRUE].value
  /\ UNCHANGED faults

(* Some resources cannot be written: Crossplane stops there.  A write that  *)
(* fails makes no difference to a resource that is as it should be.        *)
ApplyPartly ==
  LET new == [n \in NamesIn(io.resources) |-> io.resources[Position(io.resources, n)].raw.spec]
      differ == {n \in DOMAIN new : n \in DOMAIN objects => objects[n].spec # new[n]}
  IN /\ running /\ Finished
     /\ Fault("partial")
     /\ \E failed \in SUBSET differ : Applied(DOMAIN new \ failed)
     /\ UNCHANGED published
------------------------------------------------------------------------------
(* provider-kubernetes *)

Between == Interleaved \/ ~running \/ Finished

(* The resource that a kube object asks for, next to what others own of    *)
(* it: StackGres the conditions of the cluster and the credentials.        *)
Wanted(n) ==
  CASE n = Cluster -> [objects[n].spec EXCEPT !.conditions =
                         IF n \in DOMAIN live THEN live[n].conditions ELSE <<>>]
    [] n = Connection -> [objects[n].spec EXCEPT !.data = creds]
    [] OTHER -> objects[n].spec

ProviderWrite(n) ==
  /\ Between /\ n \in DOMAIN objects
  /\ n \in DOMAIN live => live[n] # Wanted(n)
  /\ live' = With(live, n, Wanted(n))
  /\ UNCHANGED <<runVars, running, xr, size, objects, volumes, excused, creds, published, ops, bounds>>

ProviderReport(n) ==
  /\ Between /\ n \in DOMAIN objects \intersect DOMAIN live
  /\ objects[n].status # live[n]
  /\ objects' = [objects EXCEPT ![n].status = live[n]]
  /\ UNCHANGED <<runVars, running, xr, size, live, volumes, excused, creds, published, ops, bounds>>
------------------------------------------------------------------------------
(* StackGres *)

(* An instance of an encrypted cluster starts once it has a key; a volume  *)
(* stays when the cluster is scaled down.                                  *)
FormatVolume(i) ==
  /\ Between /\ volumes[i] = Nil
  /\ {Cluster, LuksKey(i)} \subseteq DOMAIN live
  /\ live[Cluster].storageClass = "ssd-encrypted" /\ i < live[Cluster].instances
  /\ volumes' = [volumes EXCEPT ![i] = live[LuksKey(i)].data]
  /\ UNCHANGED <<runVars, running, xr, size, objects, live, excused, creds, published, ops, bounds>>

Pending == Cluster \in DOMAIN live /\ \E i \in DOMAIN live[Cluster].conditions :
             live[Cluster].conditions[i].status = "True"

(* StackGres executes a restart operation when its time has come.  As      *)
(* onlyPendingRestart is set it has nothing to do if none is pending.      *)
StartOp(n) ==
  /\ Between /\ n \in DOMAIN live \ DOMAIN ops
  /\ n[1] = "pg-restart" /\ live[n].runAt <= clock
  /\ ops' = With(ops, n, IF Pending THEN "running" ELSE "idle")
  /\ UNCHANGED <<runVars, running, xr, size, objects, live, volumes, excused, creds, published, bounds>>

EndOp(n) ==
  /\ Between /\ n \in DOMAIN ops /\ ops[n] = "running"
  /\ ops' = [ops EXCEPT ![n] = "done"]
  /\ live' = [live EXCEPT ![Cluster].conditions = Restarting("False", clock)]
  /\ UNCHANGED <<runVars, running, xr, size, objects, volumes, excused, creds, published, bounds>>

(* The password and the host of the database are not there at first. *)
ProvideCredentials ==
  /\ Between /\ Cluster \in DOMAIN live /\ creds["host"] = Nil
  /\ creds' = IF creds["user"] = Nil THEN [Credentials("v1") EXCEPT !["host"] = Nil]
                                     ELSE Credentials("v1")
  /\ UNCHANGED <<runVars, running, xr, size, objects, live, volumes, excused, published, ops, bounds>>
------------------------------------------------------------------------------
(* Changes, each of them bounded by MaxChanges, and time. *)

Change(kind) ==
  /\ Between /\ kind \in Changes /\ faults + changes < MaxEvents
  /\ changes < MaxChanges /\ changes' = changes + 1
  /\ UNCHANGED <<runVars, running, objects, volumes, excused, published, ops, clock, faults>>

Scale ==
  /\ Change("scale")
  /\ \E n \in Sizes \ {size} : size' = n
  /\ UNCHANGED <<xr, live, creds>>

SwitchEncryption ==
  /\ Change("encryption")
  /\ xr' = [xr EXCEPT !.encrypted = ~ @]
  /\ UNCHANGED <<size, live, creds>>

SwitchStrategy ==
  /\ Change("strategy")
  /\ xr' = [xr EXCEPT !.strategy = IF @ = "Immediate" THEN "OnRestart" ELSE "Immediate"]
  /\ UNCHANGED <<size, live, creds>>

(* A new configuration of the database that needs a restart. *)
Reconfigure ==
  /\ Change("restart")
  /\ Cluster \in DOMAIN live /\ ~Pending
  /\ RestartOp(clock) \notin DOMAIN live
  /\ live' = [live EXCEPT ![Cluster].conditions = Restarting("True", clock)]
  /\ UNCHANGED <<xr, size, creds>>

RotateCredentials ==
  /\ Change("credentials")
  /\ creds = Credentials("v1") /\ creds' = Credentials("v2")
  /\ UNCHANGED <<xr, size, live>>

Tick ==
  /\ Between /\ clock < MaxTime /\ clock' = clock + 1
  /\ UNCHANGED <<runVars, running, cluster, faults, changes>>
------------------------------------------------------------------------------
Provider(n) == ProviderWrite(n) \/ ProviderReport(n)
Ops(n) == StartOp(n) \/ EndOp(n)

ReconcileNext ==
  \/ Begin \/ RunStep \/ Apply \/ ApplyPartly \/ Lose \/ Reject
  \/ \E n \in Names : Provider(n) \/ Ops(n)
  \/ \E i \in LuksInstances : FormatVolume(i)
  \/ ProvideCredentials
  \/ Scale \/ SwitchEncryption \/ SwitchStrategy \/ Reconfigure \/ RotateCredentials
  \/ Tick

(* Crossplane reconciles again and again and applies what it gets, unless  *)
(* one of the bounded faults happens; the controllers do their work in     *)
(* their own time.  That a run ends is what Answered says of Pipeline,     *)
(* from the fairness of its steps.  Nobody has to change anything.         *)
Fairness ==
  /\ WF_allVars(Begin) /\ []<>(~running \/ Finished) /\ WF_allVars(Apply \/ Reject)
  /\ \A n \in Names :
       /\ WF_allVars(ProviderWrite(n)) /\ WF_allVars(ProviderReport(n))
       /\ WF_allVars(StartOp(n)) /\ WF_allVars(EndOp(n))
  /\ WF_allVars(ProvideCredentials)

ReconcileSpec == ReconcileInit /\ [][ReconcileNext]_allVars /\ Fairness
------------------------------------------------------------------------------
KindOf(n) ==
  CASE n = Namespace -> "Namespace"
    [] n = Cluster -> "SGCluster"
    [] n[1] = "pg-restart" -> "SGDbOps"
    [] OTHER -> "Secret"

ReconcileTypeOK ==
  /\ DOMAIN live \subseteq DOMAIN objects /\ DOMAIN ops \subseteq DOMAIN live
  /\ DOMAIN objects \subseteq Names
  /\ \A n \in DOMAIN objects : objects[n].spec.kind = KindOf(n)
  /\ \A n \in DOMAIN live : live[n].kind = KindOf(n)
  /\ running \/ (fn = 0 /\ results = <<>>)

(* In the loop two things make Crossplane throw the work of all functions  *)
(* away.  One is a matter of waiting, though it is Fatal: the namespace is *)
(* reported and the connection object is not (url.go:51-54).  The other is *)
(* that an instance without a reported secret gets no new key, which the   *)
(* next run tries again (encrypted_pvc.go:81-84).  Nothing else that is    *)
(* still on its way blocks a run (url.go:45, 62; restart.go:42), and what  *)
(* the answers, whole or in part, leave behind can be read and written by  *)
(* every later run (encrypted_pvc.go:46, 53, 89, 103; restart.go:33, 51).  *)
RejectedForSecretOrKey ==
  running => \A k \in DOMAIN results : results[k] = "Fatal" =>
    \/ k = 1 /\ request.composite.ns # Nil /\ Observed(Connection).err = "NotFound"
    \/ /\ k = 5 /\ Comp.encrypted /\ Bad \in NewKeys
       /\ \E i \in 0 .. RenderedCluster.obj.instances - 1 : Observed(LuksKey(i)).err = "NotFound"

(* The key of a volume stays in its secret, through lost answers, failing  *)
(* writes, Fatal runs and changes of the user.  It is lost in three ways   *)
(* only: the instance was scaled away, encryption was switched off, or a   *)
(* run saw the object of the secret before it reported the secret          *)
(* (encrypted_pvc.go:57, 37 and 79).                                       *)
VolumeKeyKept ==
  \A i \in LuksInstances :
    volumes[i] # Nil /\ i \notin excused =>
      LuksKey(i) \in DOMAIN live /\ live[LuksKey(i)].data = volumes[i]

(* The secrets of the keys, the volumes, and the keys given up. *)
SecretKey(i) == IF LuksKey(i) \in DOMAIN live THEN live[LuksKey(i)].data ELSE Nil

Encryption == INSTANCE VolumeKeys WITH
  Instances <- LuksInstances, Keys <- NewKeys \ {Bad}, NoKey <- Nil,
  key <- [i \in LuksInstances |-> SecretKey(i)], volume <- volumes, lost <- excused

(* Of many runs, each of which reads the key of an instance from whatever  *)
(* the cluster reports and writes it again, the instance sees one key that *)
(* does not change: it is generated once and, until it is given up, never  *)
(* replaced or deleted, not even before a volume depends on it             *)
(* (encrypted_pvc.go:57-110).                                              *)
ImplementsVolumeKeys == Encryption!Spec

(* Every instance of an encrypted cluster gets its key in the end, and has *)
(* one from then on (encrypted_pvc.go:57-66).                              *)
KeysArrive ==
  <>[](xr.encrypted => \A i \in 0 .. size - 1 :
         LuksKey(i) \in DOMAIN live /\ live[LuksKey(i)].data # Nil)

(* The restart that the last run has seen the cluster wait for, 0 if none. *)
Awaited ==
  IF Fails(Cluster) \/ request.composite.strategy = "OnRestart" THEN 0
  ELSE PendingRestart(Observed(Cluster).obj.conditions)

(* A restart that runs is not deleted under way, unless its operation was  *)
(* not reported at the snapshot or is older than the retention time, and   *)
(* the cluster was not reported to wait for it, or the user has switched   *)
(* to restarts on occasion (restart.go:36-47, 111-143).                    *)
NotInterrupted ==
  [][\A n \in DOMAIN ops : ops[n] = "running" /\ n \notin DOMAIN live' =>
       /\ n # RestartOp(Awaited)
       /\ Fails(n) \/ request.now - n[2] > Retention]_allVars

(* A pending restart is executed, unless the user wants to wait for it.    *)
RestartHappens ==
  [](Pending => <>(~Pending \/ xr.strategy = "OnRestart"))

(* The credentials fill in piece by piece, rotate, and reach a run through *)
(* a secret, its report and a snapshot that may each be out of date; still *)
(* the published URL is always made of one whole version of them, and only *)
(* moves to a later one: never back, never away (url.go:34-81).            *)
UrlMovesForward ==
  [][\/ published' = published
     \/ published = Nil /\ \E v \in {"v1", "v2"} : published' = UrlOf(Credentials(v))
     \/ published = UrlOf(Credentials("v1")) /\ published' = UrlOf(Credentials("v2"))]_allVars

(* Once the credentials do not change any more, the connection secret of   *)
(* the composite has the URL made of them (vshn-postgres.adoc:7).          *)
UrlConverges == <>[](published # Nil /\ published = UrlOf(creds))
=============================================================================
