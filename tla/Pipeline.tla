------------------------------ MODULE Pipeline ------------------------------
(***************************************************************************)
(* RunCommand with the functions that main.go registers for PostgreSQL:    *)
(* one FunctionIO goes through NewRuntime and the five functions in turn.  *)
(* A function with a loop takes one step per iteration.                    *)
(***************************************************************************)
EXTENDS Url, Alerting, Restart, Schedule, EncryptedPvc, FiniteSets

CONSTANT Requests  \* the FunctionIOs Crossplane may send

(* A composite is Bad or has all the fields of VSHNPostgreSQL. *)
IsComposite(c) ==
  c = [ns |-> c.ns, strategy |-> c.strategy, ref |-> c.ref, template |-> c.template,
       secretRef |-> c.secretRef, encrypted |-> c.encrypted, backup |-> c.backup,
       timeOfDay |-> c.timeOfDay, dayOfWeek |-> c.dayOfWeek, rest |-> c.rest]

(* A manifest can be read again, and so can the kube object that holds it. *)
Readable(list, manifest, kon, refs) ==
  manifest \notin {Nil, Bad} /\ Stored(list, manifest, kon, refs) # Bad

(* The names that the functions give to the resources they add. *)
OwnName(n) == n[1] \in {"alertmanagerconfig", "alertmanagerconfigsecret", "pg-restart", "luks-key"}

(* What the composition has rendered: nothing under a name of theirs, of   *)
(* Go types that are registered, and a cluster that is one if it can be    *)
(* read at all.                                                            *)
IsRendered(list) ==
  LET cluster   == DesiredManifest(list, Cluster)
      encrypted == [cluster.obj EXCEPT !.storageClass = "ssd-encrypted"]
  IN /\ IsList(list)
     /\ \A n \in NamesIn(list) : ~OwnName(n)
     /\ \A i \in DOMAIN list : list[i].raw # Bad => list[i].raw.kind \in StartScheme
     /\ cluster.err = "none" =>
          /\ cluster.obj = [kind |-> "SGCluster", instances |-> cluster.obj.instances,
                            storageClass |-> cluster.obj.storageClass,
                            conditions |-> cluster.obj.conditions]
          /\ cluster.obj.instances \in Nat
          /\ Readable(list, encrypted, Cluster, {})

(* What the cluster reports of what the functions have asked for: a LUKS   *)
(* secret has bytes, and a restart operation the time in its name.         *)
IsObserved(list) ==
  /\ IsList(list)
  /\ \A n \in NamesIn(list) :
       LET seen == ObservedManifest(list, n) IN
       /\ n[1] = "luks-key" /\ seen.err = "none" => seen.obj.data # Bad
       /\ /\ n[1] = "pg-restart" /\ seen.err = "none"
          /\ seen.obj.op = "restart" /\ seen.obj.runAt \notin {Nil, Bad}
          =>  /\ seen.obj.kind = "SGDbOps" /\ seen.obj.runAt \in Int /\ seen.obj.runAt = n[2]
              /\ Readable(<<>>, seen.obj, n, {})

Admissible(r) ==
  /\ \A c \in {r.composite, r.obsComposite} \ {Bad} : IsComposite(c)
  /\ r.obsComposite # Bad =>
       Readable(<<>>, AlertmanagerConfig("postgresql-alertmanagerconfig", r.obsComposite, Nil),
                AlertConfig, Patches(r.obsComposite.ref, "spec"))
  /\ IsObserved(r.observed) /\ IsRendered(r.resources)
  /\ r.conn \in Seq(Range(r.conn)) /\ UniqueIn(r.conn)
  /\ r.now \in Int

ASSUME RequestsAssumption == \A r \in Requests : Admissible(r)

vars == <<request, desired, scheme, exec>>

(* An earlier request to the same process may have registered the          *)
(* Alertmanager types already.                                             *)
Init ==
  /\ request \in Requests
  /\ resources = <<>> /\ composite = Nil /\ conn = <<>>
  /\ scheme \in {StartScheme, StartScheme \union {"AlertmanagerConfig"}}
  /\ io = Nil
  /\ results = <<>>
  /\ fn = 0 /\ iter = 0

Finished == fn = Len(postgresFunctions) + 1

Step ==
  \/ NewRuntime
  \/ AddUrlToConnectionDetails
  \/ AddUserAlerting
  \/ TransformRestart
  \/ TransformSchedule
  \/ AddPvcSecret

Next == Step \/ (Finished /\ UNCHANGED vars)

(* The functions run in one goroutine, which never waits for anything. *)
Spec == Init /\ [][Next]_vars /\ WF_vars(Step)
------------------------------------------------------------------------------
Ran(k) == Len(results) >= k
Comp   == request.obsComposite
Desired(n)  == n \in NamesIn(resources)
Entry(n)    == resources[Position(resources, n)]
Manifest(n) == Entry(n).raw.spec
Observed(n) == ObservedManifest(request.observed, n)
Fails(n)    == Observed(n).err # "none"
RenderedCluster == DesiredManifest(request.resources, Cluster)

TypeOK ==
  /\ fn \in 0 .. Len(postgresFunctions) + 1
  /\ results \in Seq({"Normal", "Warning", "Fatal"})
  /\ Len(results) = IF fn = 0 THEN 0 ELSE fn - 1
  /\ iter \in Nat /\ (iter > 0 => postgresFunctions[fn] \in {"restart", "encrypted-pvc-secret"})
  /\ scheme \subseteq StartScheme \union {"AlertmanagerConfig"}
  /\ \A i \in DOMAIN resources :
       resources[i].raw # Bad => resources[i].raw.kind \in scheme

(* When encryption is enabled and the function does not fail, the desired  *)
(* cluster uses the encrypted storage class and every instance finds its   *)
(* key: the observed one, or a new one when there is none (AddPvcSecret).  *)
EncryptedComplete ==
  Ran(5) /\ Comp # Bad /\ Comp.encrypted /\ results[5] # "Fatal" =>
    /\ Desired(Cluster) /\ Manifest(Cluster).storageClass = "ssd-encrypted"
    /\ Manifest(Cluster).instances = RenderedCluster.obj.instances
    /\ \A i \in 0 .. RenderedCluster.obj.instances - 1 :
         /\ Desired(LuksKey(i))
         /\ Manifest(LuksKey(i)).data \in
              IF Fails(LuksKey(i)) THEN NewKeys \ {Bad} ELSE {Observed(LuksKey(i)).obj.data}

(* No run, failed or not, puts another key in the place of one that is     *)
(* observed: the volume of that instance would be lost.                    *)
KeyNeverReplaced ==
  \A i \in DOMAIN resources :
    LET n == resources[i].name IN
    n[1] = "luks-key" /\ ~Fails(n) => Manifest(n).data = Observed(n).obj.data

(* An Alertmanager configuration is only deployed together with the copy   *)
(* of the secret that its receivers read, both for the same secret and in  *)
(* the same namespace; with a reference to the user's configuration, the   *)
(* reference survives whatever the template wrote over it.                 *)
ReceiverComplete ==
  Ran(2) /\ Desired(AlertConfig) =>
    /\ results[2] = "Normal"
    /\ Desired(AlertSecret)
    /\ Manifest(AlertSecret).meta = Comp.secretRef
    /\ Entry(AlertSecret).raw.refs = Patches(Comp.secretRef, "data")
    /\ Manifest(AlertSecret).ns = Manifest(AlertConfig).ns
    /\ Entry(AlertConfig).raw.refs = IF Comp.ref = Nil THEN {} ELSE Patches(Comp.ref, "spec")
    /\ Comp.template # Nil => Manifest(AlertConfig).data = Comp.template

RestartOps(list) == {n \in NamesIn(list) : n[1] = "pg-restart"}
ObservedOps == {n \in RestartOps(request.observed) : ~Fails(n)}

(* After the restart function, the desired restart operations are those    *)
(* observed that ran within the retention time or are still to come, and   *)
(* the one that the cluster waits for: an operation left out is deleted by *)
(* Crossplane, one too many restarts the database again.                   *)
RestartOpsExact ==
  Ran(3) /\ results[3] # "Fatal" =>
    LET pending == IF Fails(Cluster) \/ composite.strategy = "OnRestart" THEN 0
                   ELSE PendingRestart(Observed(Cluster).obj.conditions)
        recent  == {n \in ObservedOps :
                      /\ Observed(n).obj.op = "restart"
                      /\ Observed(n).obj.runAt \notin {Nil, Bad}
                      /\ request.now - Observed(n).obj.runAt <= Retention}
    IN /\ RestartOps(resources) =
            recent \union (IF pending = 0 THEN {} ELSE {RestartOp(pending)})
       /\ \A n \in RestartOps(resources) :
            Manifest(n).op = "restart" /\ Manifest(n).runAt = n[2]

SecondsOfDay(clock) == clock[1] * Hour + clock[2] * Minute + clock[3]

(* schedule.go:19-21: a default maintenance is on Tuesday night between    *)
(* 21:00 and 5:00, a default backup between 20:00 and 4:00, and when both  *)
(* are defaults the backup starts one hour before the maintenance.         *)
SchedulesFit ==
  Ran(4) /\ composite # Bad =>
    LET was    == request.composite
        maint  == SecondsOfDay(composite.timeOfDay)
        backup == composite.backup[2] * Hour + composite.backup[1] * Minute
    IN /\ was.timeOfDay = Nil => maint >= 21 * Hour \/ maint < 5 * Hour
       /\ was.backup = Nil => backup >= 20 * Hour \/ backup < 4 * Hour
       /\ was.timeOfDay = Nil /\ was.dayOfWeek = Nil =>
            (composite.dayOfWeek = "tuesday" <=> maint >= 21 * Hour)
       /\ was.timeOfDay = Nil /\ was.backup = Nil =>
            (backup + Hour) % Day = maint - (maint % Minute)

KeepsUserChoice ==
  fn > 0 /\ composite # Bad =>
    /\ \A f \in DOMAIN composite \ {"rest"} :
         composite[f] # Nil => composite'[f] = composite[f]
    /\ \A f \in DOMAIN composite \ {"backup", "timeOfDay", "dayOfWeek"} :
         composite[f] = Nil => composite'[f] = Nil

(* What the user chose is never overwritten, and all but the schedule of   *)
(* the desired composite that the Go type knows goes through unchanged.    *)
UserChoiceKept == [][KeepsUserChoice]_vars

(* The functions add to what the composition rendered: no resource is      *)
(* dropped, none loses its place in the list, its references or the extra  *)
(* fields of its entry, and none but the cluster gets another manifest.    *)
RenderedKept ==
  fn > 0 => \A i \in DOMAIN request.resources :
    LET old == request.resources[i]
        new == resources[i]
    IN /\ new.name = old.name /\ new.extra = old.extra
       /\ old.name # Cluster => new = old
       /\ old.raw # Bad => /\ old.raw.refs # {} => new.raw.refs = old.raw.refs
                           /\ old.raw.meta # Nil => new.raw.meta = old.raw.meta

(* A URL in the connection details is the one of the observed secret, when *)
(* the function has run normally, and the one that arrived otherwise.      *)
UrlFresh ==
  Ran(1) =>
    IF results[1] = "Normal"
    THEN LET url == {i \in DOMAIN conn : conn[i].name = PostgresqlUrl}
             data == Observed(Connection).obj.data
         IN /\ Cardinality(url) = 1
            /\ \A i \in url : \A k \in 1 .. 5 :
                 conn[i].value[k] # Nil /\ conn[i].value[k] = data[<<"user", "password", "host", "port", "db">>[k]]
    ELSE conn = request.conn

(* Every request is answered, whatever fails on the way: a function that   *)
(* fails does not stop those after it (Exec returns no error).             *)
Answered == <>(Finished /\ Len(results) = Len(postgresFunctions) /\ io = Synced)

(* encrypted_pvc.go:80, on the way to generating a key, logs "Secret does  *)
(* not exist yet. Creating...": a new key is only made for an instance     *)
(* whose secret Crossplane does not observe.                               *)
NewKeyOnlyWhenAbsent ==
  \A i \in DOMAIN resources :
    LET n == resources[i].name IN
    n[1] = "luks-key" /\ Manifest(n).data \in NewKeys => n \notin NamesIn(request.observed)
=============================================================================
