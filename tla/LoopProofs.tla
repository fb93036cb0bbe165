------------------------------ MODULE LoopProofs -----------------------------
(***************************************************************************)
(* What the properties of a single run are worth in a cluster whose        *)
(* controllers and users act at any time, and where the loop leads: to the *)
(* URL of the latest credentials, or to a composite that never gets one.   *)
(***************************************************************************)
EXTENDS ReconcileProofs

(* A run changes by its own steps, from a snapshot to an answer.           *)
LEMMA RunCases ==
  ASSUME [ReconcileNext]_allVars
  PROVE  \/ Begin
         \/ running' = running /\ [Next]_vars
         \/ running /\ ~running' /\ ResetRun
<1>1. CASE RunStep
  BY <1>1 DEF RunStep, Next
<1>2. CASE Apply \/ ApplyPartly \/ Lose \/ Reject
  BY <1>2 DEF Apply, ApplyPartly, Applied, Lose, Reject, ResetRun
<1>3. CASE UNCHANGED <<runVars, running>>
  BY <1>3 DEF runVars, vars
<1>. QED
  BY <1>1, <1>2, <1>3 DEF ReconcileNext, allVars, Provider, Ops, ProviderWrite, ProviderReport, StartOp, EndOp,
     FormatVolume, ProvideCredentials, Scale, SwitchEncryption, SwitchStrategy, Reconfigure,
     RotateCredentials, Change, Tick

(* A run started from a snapshot, whose details hold no URL yet and whose  *)
(* resources are those of the composition.                                 *)
SafeRun ==
  /\ ReceiverDeployed /\ UrlMade /\ RenderedKept
  /\ request.conn = <<>> /\ NamesIn(Rendered) = Base
  /\ \A n : Observed(n).err # "Decode"

LInv == RInv /\ (running => SafeRun)

LEMMA SnapshotDecodes ==
  ASSUME TypedObjects, request = Snapshot
  PROVE  \A n : Observed(n).err # "Decode"
<1> DEFINE list == request.observed
<1>1. list = [i \in DOMAIN Listed(DOMAIN objects) |-> ObservedEntry(Listed(DOMAIN objects)[i])]
  BY DEF Snapshot
<1>. HIDE DEF list
<1>2. /\ IsList(list) /\ NamesIn(list) = DOMAIN objects
      /\ \A n \in DOMAIN objects : ObservedManifest(list, n) = Extracted(objects[n].status)
  BY <1>1, ObservedList
<1>3. ASSUME NEW n \in DOMAIN objects
      PROVE  ObservedManifest(list, n).err # "Decode"
  <2>1. objects[n].status = Nil \/ Extracted(objects[n].status).err = "none"
    BY Unmarked DEF TypedObjects
  <2>2. Extracted(Nil).err = "NotFound"
    BY MarksAssumption DEF Extracted
  <2>. QED
    BY <1>2, <2>1, <2>2
<1>4. ASSUME NEW n, n \notin DOMAIN objects
      PROVE  ObservedManifest(list, n).err # "Decode"
  <2>1. GetFrom(list, KubeObject(Nil, {}), n).err = "NotFound"
    BY <1>2, <1>4, GetFromAt
  <2>. QED
    BY <2>1 DEF ObservedManifest
<1>. QED
  BY <1>3, <1>4 DEF Observed, list

LEMMA SnapshotDecodesNext ==
  (TypedObjects /\ request = Snapshot)' => (\A n : Observed(n).err # "Decode")'
  BY SnapshotDecodes, PTL

LEMMA BeginsSafely == RInv /\ Begin => SafeRun'
<1>. SUFFICES ASSUME RInv, Begin PROVE SafeRun'
  OBVIOUS
<1>1. request' = Snapshot /\ UNCHANGED <<fn, results>> /\ fn = 0 /\ results = <<>>
  BY DEF Begin, exec, RInv, Idle
<1>3. ~Ran(1)' /\ ~Ran(2)' /\ ~(fn' > 0)
  <2>1. Len(results') = 0
    BY <1>1
  <2>. QED
    BY <1>1, <2>1 DEF Ran
<1>4. request'.conn = <<>> /\ Rendered' = Composed
  BY <1>1 DEF Snapshot, Rendered
<1>5. NamesIn(Composed) = Base
  BY ComposedList DEF RInv, TypedRest
<1>6. (\A n : Observed(n).err # "Decode")'
  <2>1. request' = Snapshot' /\ TypedObjects'
    BY DEF Begin, RInv, TypedObjects, Snapshot, ObservedEntry, Composed, RenderedEntry, Patched, cluster, bounds
  <2>. QED
    BY <2>1, SnapshotDecodesNext
<1>. QED
  BY <1>3, <1>4, <1>5, <1>6 DEF SafeRun, ReceiverDeployed, UrlMade, RenderedKept, NamesIn

LEMMA StaysSafe == RunInv /\ SafeRun /\ [Next]_vars => SafeRun'
<1>. SUFFICES ASSUME RunInv, SafeRun, [Next]_vars PROVE SafeRun'
  OBVIOUS
<1>1. IInv /\ request' = request
  BY ResultsStep DEF RunInv
<1>2. ReceiverDeployed' /\ UrlMade' /\ RenderedKept'
  BY <1>1, ReceiverStep, UrlStep, RenderedStep DEF SafeRun
<1>3. Rendered' = Rendered
  BY <1>1, RequestKept
<1>4. \A n : Observed(n)' = Observed(n)
  BY <1>1, RequestKept
<1>. QED
  BY <1>1, <1>2, <1>3, <1>4 DEF SafeRun, NamesIn

LEMMA LInvHolds == ReconcileSpec => []LInv
<1>1. ReconcileInit => LInv
  BY InitRInv DEF LInv, ReconcileInit
<1>2. LInv /\ [ReconcileNext]_allVars => LInv'
  <2>. SUFFICES ASSUME LInv, [ReconcileNext]_allVars PROVE LInv'
    OBVIOUS
  <2>1. RInv /\ RInv'
    BY NextRInv DEF LInv
  <2>2. CASE Begin
    BY <2>1, <2>2, BeginsSafely DEF LInv
  <2>3. CASE running' = running /\ [Next]_vars
    BY <2>1, <2>3, StaysSafe DEF LInv, RInv
  <2>4. CASE ~running'
    BY <2>1, <2>4 DEF LInv
  <2>. QED
    BY <2>2, <2>3, <2>4, RunCases
<1>. QED
  BY <1>1, <1>2, PTL DEF ReconcileSpec

(* What the run of every reconciliation keeps to.                          *)
RunProperties ==
  /\ TypeOK /\ FatalReasons /\ ReceiverComplete /\ SchedulesFit /\ UrlFresh
  /\ EncryptedComplete /\ KeyNeverReplaced /\ RenderedKept /\ RestartOpsExact

(* The requests of Pipeline are assumed to be admissible; those of the     *)
(* loop are snapshots of a cluster that earlier answers, in whole or in    *)
(* part, the controllers and the user have made.  Every one of them is     *)
(* admissible, so that all that is proved of a run holds of each run of    *)
(* the loop, whatever the others do while it runs (run.go:43-61).          *)
THEOREM EveryRunIsSafe ==
  ReconcileSpec => /\ [](running => RunProperties)
                   /\ [][RunStep => KeepsUserChoice]_allVars
<1>1. LInv => (running => RunProperties)
  <2>. SUFFICES ASSUME LInv, running PROVE RunProperties
    OBVIOUS
  <2>1. RunInv /\ IInv /\ Inv /\ SafeRun
    BY DEF LInv, RInv, RunInv, IInv
  <2>. QED
    BY <2>1, TypesOfIInv, DeployedIsComplete, InvFits, UrlMadeIsFresh, KeysOfIInv
       DEF RunProperties, RunInv, SafeRun
<1>2. LInv => [RunStep => KeepsUserChoice]_allVars
  BY StepKeepsChoice DEF LInv, RInv, RunInv, IInv, RunStep
<1>. QED
  BY <1>1, <1>2, LInvHolds, PTL

(* Every run of the loop that has a Fatal result has it for one of these   *)
(* two, for any number of runs, instances, faults and changes              *)
(* (run.go:52-58), if data that does not decode is no composite.           *)
THEOREM RunsAreRejectedForTwoReasons ==
  ASSUME ~IsComposite(Bad)
  PROVE  ReconcileSpec => []RejectedForSecretOrKey
<1>1. LInv => RejectedForSecretOrKey
  <2> DEFINE Unreported(n) == Observed(n).err = "NotFound"
             NoSecret == request.composite.ns # Nil /\ Unreported(Connection)
             NoKey == /\ Comp.encrypted /\ Bad \in NewKeys
                      /\ \E i \in 0 .. RenderedCluster.obj.instances - 1 : Unreported(LuksKey(i))
  <2>. SUFFICES ASSUME LInv, running, NEW k \in DOMAIN results, results[k] = "Fatal"
                PROVE  (k = 1 /\ NoSecret) \/ (k = 5 /\ NoKey)
    BY DEF RejectedForSecretOrKey
  <2>1. FatalReasons /\ SnapshotOK /\ SafeRun /\ Inv
    BY DEF LInv, RInv, RunInv, IInv
  <2>2. k \in 1 .. 5 /\ Ran(k)
    BY <2>1 DEF Inv, Ran
  <2>3. /\ request.composite # Bad /\ Comp # Bad
        /\ Comp.ref = Nil /\ Comp.template = Nil /\ RenderedCluster.err = "none"
    BY <2>1 DEF SnapshotOK, IsXR
  <2>4. ASSUME NEW n PROVE Observed(n).err # "Decode" /\ (Fails(n) => Unreported(n))
    <3>1. Observed(n).err \in {"none", "NotFound", "Decode"}
      BY <2>1, ObservedErrors DEF Inv
    <3>2. Observed(n).err # "Decode"
      BY <2>1 DEF SafeRun
    <3>. QED
      BY <3>1, <3>2 DEF Fails
  <2>5. k # 2 /\ k # 3 /\ k # 4
    BY <2>1, <2>2, <2>3 DEF FatalReasons
  <2>6. CASE k = 1
    BY <2>1, <2>2, <2>3, <2>4, <2>6 DEF FatalReasons
  <2>7. CASE k = 5
    <3>1. Comp.encrypted
      BY <2>1, <2>2, <2>3, <2>7 DEF FatalReasons
    <3>2. \E i \in 0 .. RenderedCluster.obj.instances - 1 :
             Unreported(LuksKey(i)) /\ Bad \in NewKeys
      BY <2>1, <2>2, <2>3, <2>4, <2>7 DEF FatalReasons
    <3>. QED
      BY <2>7, <3>1, <3>2
  <2>. QED
    BY <2>2, <2>5, <2>6, <2>7
<1>. QED
  BY <1>1, LInvHolds, PTL
------------------------------------------------------------------------------
(* The way of the credentials *)

CredentialStage ==
  <<Credentials(Nil), [Credentials("v1") EXCEPT !["host"] = Nil], Credentials("v1"), Credentials("v2")>>

(* a is a stage of the credentials that b has reached, too. *)
Behind(a, b) == \E i, j \in 1 .. 4 : i <= j /\ a = CredentialStage[i] /\ b = CredentialStage[j]

LEMMA StagesDiffer ==
  /\ \A i, j \in 1 .. 4 : CredentialStage[i] = CredentialStage[j] => i = j
  /\ \A i \in 1 .. 4 : /\ CredentialStage[i]["user"] = Nil <=> i = 1
                       /\ CredentialStage[i]["host"] = Nil <=> i <= 2
<1>1. Nil # "v1" /\ Nil # "v2"
  BY MarksAssumption
<1>2. /\ CredentialStage[1] = Credentials(Nil)
      /\ CredentialStage[2] = [Credentials("v1") EXCEPT !["host"] = Nil]
      /\ CredentialStage[3] = Credentials("v1")
      /\ CredentialStage[4] = Credentials("v2")
  BY DEF CredentialStage
<1>3. /\ CredentialStage[1]["user"] = Nil /\ CredentialStage[1]["host"] = Nil
      /\ CredentialStage[2]["user"] = "v1" /\ CredentialStage[2]["host"] = Nil
      /\ CredentialStage[3]["user"] = "v1" /\ CredentialStage[3]["host"] = "v1"
      /\ CredentialStage[4]["user"] = "v2" /\ CredentialStage[4]["host"] = "v2"
  BY <1>2 DEF Credentials, PostgresFields
<1>4. \A i \in 1 .. 4 : i = 1 \/ i = 2 \/ i = 3 \/ i = 4
  OBVIOUS
<1>. QED
  BY <1>1, <1>3, <1>4

LEMMA BehindOrder ==
  /\ \A a, b : Behind(a, b) => Behind(a, a) /\ Behind(b, b)
  /\ \A a, b, c : Behind(a, b) /\ Behind(b, c) => Behind(a, c)
<1>1. ASSUME NEW a, NEW b, Behind(a, b) PROVE Behind(a, a) /\ Behind(b, b)
  BY <1>1 DEF Behind
<1>2. ASSUME NEW a, NEW b, NEW c, Behind(a, b), Behind(b, c) PROVE Behind(a, c)
  <2>1. PICK i, j \in 1 .. 4 : i <= j /\ a = CredentialStage[i] /\ b = CredentialStage[j]
    BY <1>2 DEF Behind
  <2>2. PICK k, l \in 1 .. 4 : k <= l /\ b = CredentialStage[k] /\ c = CredentialStage[l]
    BY <1>2 DEF Behind
  <2>3. j = k
    BY <2>1, <2>2, StagesDiffer
  <2>. QED
    BY <2>1, <2>2, <2>3 DEF Behind
<1>. QED
  BY <1>1, <1>2

Shown == Connection \in DOMAIN objects /\ objects[Connection].status # Nil
Seen  == running /\ ~Fails(Connection)

(* The secret is never ahead of the credentials, its report never ahead of *)
(* the secret, a snapshot never ahead of the report, and the URL that is   *)
(* published never ahead of the snapshot.                                  *)
ClusterBehind ==
  /\ Behind(creds, creds)
  /\ Connection \in DOMAIN live => Behind(live[Connection].data, creds)
  /\ Shown => Connection \in DOMAIN live /\ Behind(objects[Connection].status.data, live[Connection].data)

SnapshotBehind ==
  Seen => Shown /\ Behind(Observed(Connection).obj.data, objects[Connection].status.data)

UrlBehind ==
  published # Nil => \E v \in {"v1", "v2"} :
    /\ published = UrlOf(Credentials(v))
    /\ Shown /\ Behind(Credentials(v), objects[Connection].status.data)
    /\ Seen => Behind(Credentials(v), Observed(Connection).obj.data)

UrlInv == LInv /\ ClusterBehind /\ SnapshotBehind /\ UrlBehind

LEMMA InitUrlInv == ReconcileInit => ClusterBehind /\ SnapshotBehind /\ UrlBehind
<1>. SUFFICES ASSUME ReconcileInit PROVE ClusterBehind /\ SnapshotBehind /\ UrlBehind
  OBVIOUS
<1>1. ~running /\ published = Nil /\ creds = Credentials(FirstCreds) /\ FirstCreds \in {Nil, "v1"}
  BY ReconcileAssumption DEF ReconcileInit
<1>2. Behind(creds, creds)
  <2>1. Behind(Credentials(Nil), Credentials(Nil)) /\ Behind(Credentials("v1"), Credentials("v1"))
    BY DEF Behind, CredentialStage
  <2>. QED
    BY <1>1, <2>1
<1>3. Connection \in DOMAIN live <=> Connection \in DOMAIN objects
  BY DEF ReconcileInit
<1>4. Connection \in DOMAIN live => live[Connection].data = creds /\ objects[Connection].status = live[Connection]
  BY NamesApart DEF ReconcileInit, Rendering
<1>. QED
  BY <1>1, <1>2, <1>3, <1>4 DEF ClusterBehind, SnapshotBehind, UrlBehind, Shown, Seen

(* The controllers let the report catch up, and leave the rest to the runs. *)
LEMMA ReportForward ==
  ASSUME UrlInv, UNCHANGED <<request, running, published>>, ClusterBehind',
         Shown => Shown' /\ Behind(objects[Connection].status.data, objects'[Connection].status.data)
  PROVE  SnapshotBehind' /\ UrlBehind'
<1>1. Observed(Connection)' = Observed(Connection) /\ (Seen' <=> Seen)
  BY RequestKept DEF Seen, Fails
<1>2. SnapshotBehind'
  BY <1>1, BehindOrder DEF UrlInv, SnapshotBehind
<1>3. UrlBehind'
  BY <1>1, BehindOrder DEF UrlInv, UrlBehind
<1>. QED
  BY <1>2, <1>3

LEMMA ControllersKeepBehind ==
  ASSUME UrlInv, RInv',
         \/ \E n \in Names : Provider(n) \/ Ops(n)
         \/ \E i \in LuksInstances : FormatVolume(i)
         \/ ProvideCredentials \/ Scale \/ SwitchEncryption \/ SwitchStrategy \/ Reconfigure
         \/ RotateCredentials \/ Tick
  PROVE  ClusterBehind' /\ SnapshotBehind' /\ UrlBehind'
<1>. USE DEF UrlInv
<1>0. UNCHANGED <<request, running, published>>
  BY DEF Provider, Ops, ProviderWrite, ProviderReport, StartOp, EndOp, FormatVolume, ProvideCredentials,
         Scale, SwitchEncryption, SwitchStrategy, Reconfigure, RotateCredentials, Change, Tick, runVars, cluster
<1>. SUFFICES ClusterBehind' /\ (Shown => Shown' /\ Behind(objects[Connection].status.data, objects'[Connection].status.data))
  BY <1>0, ReportForward
<1>1. ClusterBehind /\ Behind(creds, creds)
      /\ (Shown => Behind(objects[Connection].status.data, objects[Connection].status.data))
  BY BehindOrder DEF ClusterBehind
<1>2. ASSUME NEW n \in Names, ProviderWrite(n)
      PROVE  ClusterBehind' /\ (Shown => Shown' /\ Behind(objects[Connection].status.data, objects'[Connection].status.data))
  <2>1. /\ UNCHANGED <<objects, creds>> /\ n \in DOMAIN objects
        /\ DOMAIN live' = DOMAIN live \union {n} /\ live'[n] = Wanted(n)
        /\ \A m \in DOMAIN live : m # n => live'[m] = live[m]
    BY <1>2 DEF ProviderWrite, With
  <2>2. CASE n = Connection
    <3>1. objects[n].spec \in ConnectionSecrets
      BY <2>1, <2>2, ManifestsOf DEF LInv, RInv, TypedObjects
    <3>2. Wanted(n) = [objects[n].spec EXCEPT !.data = creds]
      BY <2>2, NamesApart DEF Wanted
    <3>3. live'[n].data = creds
      BY <2>1, <3>1, <3>2 DEF ConnectionSecrets
    <3>4. Shown => Behind(objects[Connection].status.data, creds)
      BY <1>1, BehindOrder DEF ClusterBehind
    <3>. QED
      BY <1>1, <2>1, <2>2, <3>3, <3>4 DEF ClusterBehind, Shown
  <2>3. CASE n # Connection
    BY <1>1, <2>1, <2>3 DEF ClusterBehind, Shown
  <2>. QED
    BY <2>2, <2>3
<1>3. ASSUME NEW n \in Names, ProviderReport(n)
      PROVE  ClusterBehind' /\ (Shown => Shown' /\ Behind(objects[Connection].status.data, objects'[Connection].status.data))
  <2>1. /\ UNCHANGED <<live, creds>> /\ n \in DOMAIN live /\ n \in DOMAIN objects
        /\ objects' = [objects EXCEPT ![n].status = live[n]]
    BY <1>3 DEF ProviderReport
  <2>2. CASE n = Connection
    <3>1. objects'[Connection].status = live[Connection] /\ DOMAIN objects' = DOMAIN objects
      BY <2>1, <2>2 DEF LInv, RInv, TypedObjects
    <3>2. live[Connection] # Nil
      BY <1>3, <2>1, <2>2, Unmarked DEF LInv, RInv, TypedLive
    <3>3. Behind(live[Connection].data, live[Connection].data)
      BY <1>1, <2>1, <2>2, BehindOrder DEF ClusterBehind
    <3>. QED
      BY <1>1, <2>1, <2>2, <3>1, <3>2, <3>3 DEF ClusterBehind, Shown
  <2>3. CASE n # Connection
    BY <1>1, <2>1, <2>3 DEF ClusterBehind, Shown
  <2>. QED
    BY <2>2, <2>3
<1>4. CASE Reconfigure \/ \E n \in Names : EndOp(n)
  <2>1. UNCHANGED <<objects, creds>> /\ DOMAIN live' = DOMAIN live
        /\ (Connection \in DOMAIN live => live'[Connection] = live[Connection])
    BY <1>4, NamesApart DEF Reconfigure, EndOp, Change
  <2>. QED
    BY <1>1, <2>1 DEF ClusterBehind, Shown
<1>5. CASE ProvideCredentials \/ RotateCredentials
  <2>1. UNCHANGED <<objects, live>>
    BY <1>5 DEF ProvideCredentials, RotateCredentials, Change
  <2>2. PICK i \in 1 .. 4 : creds = CredentialStage[i]
    BY <1>1 DEF Behind
  <2>3. PICK j \in 1 .. 4 : i <= j /\ creds' = CredentialStage[j]
    <3>1. CASE ProvideCredentials
      <4>1. i <= 2 /\ (creds["user"] = Nil <=> i = 1)
        BY <2>2, <3>1, StagesDiffer DEF ProvideCredentials
      <4>2. creds' = CredentialStage[i + 1]
        BY <3>1, <4>1 DEF ProvideCredentials, CredentialStage
      <4>. QED
        BY <4>1, <4>2
    <3>2. CASE RotateCredentials
      <4>1. creds = CredentialStage[3] /\ creds' = CredentialStage[4]
        BY <3>2 DEF RotateCredentials, CredentialStage
      <4>. QED
        BY <2>2, <4>1
    <3>. QED
      BY <1>5, <3>1, <3>2
  <2>4. Behind(creds, creds')
    BY <2>2, <2>3 DEF Behind
  <2>. QED
    BY <1>1, <2>1, <2>4, BehindOrder DEF ClusterBehind, Shown
<1>6. CASE UNCHANGED <<objects, live, creds>>
  BY <1>1, <1>6 DEF ClusterBehind, Shown
<1>. QED
  BY <1>2, <1>3, <1>4, <1>5, <1>6 DEF Provider, Ops, StartOp, FormatVolume, Scale, SwitchEncryption,
     SwitchStrategy, Change, Tick, cluster

LEMMA SeenIsThere == RInv /\ Seen => Connection \in DOMAIN objects
  BY ObservedErrors DEF RInv, RunInv, IInv, Inv, Seen, Fails

LEMMA SeenIsThereNext == (RInv /\ Seen)' => (Connection \in DOMAIN objects)'
  BY SeenIsThere, PTL

LEMMA BeginShows ==
  ASSUME RInv, Begin
  PROVE  /\ running' /\ UNCHANGED cluster
         /\ Seen' => Shown /\ Observed(Connection)'.obj = objects[Connection].status
<1>1. /\ running' = TRUE /\ request' = Snapshot /\ UNCHANGED cluster
      /\ UNCHANGED <<resources, composite, conn, scheme, io, results, fn, iter>>
      /\ UNCHANGED <<xr, size, objects, live, volumes, excused, creds, ops, clock>>
  BY DEF Begin, desired, exec, cluster, bounds
<1>2. request' = Snapshot'
  BY <1>1 DEF Snapshot, ObservedEntry, Composed, RenderedEntry, Patched
<1>3. TypedObjects' /\ TypedRest' /\ Idle'
  BY <1>1 DEF RInv, TypedObjects, TypedRest, Idle, Begin
<1>4. /\ NamesIn(request.observed)' = DOMAIN objects'
      /\ \A n \in DOMAIN objects' :
           ~Fails(n)' => Observed(n)'.obj = objects'[n].status /\ objects'[n].status # Nil
  BY <1>2, <1>3, SnapshotInvNext
<1>5. Seen' => Connection \in DOMAIN objects
  BY <1>1, BeginKeeps, SeenIsThereNext
<1>6. Seen' => Shown /\ Observed(Connection)'.obj = objects[Connection].status
  BY <1>1, <1>4, <1>5 DEF Seen, Shown
<1>. QED
  BY <1>1, <1>6

LEMMA BeginKeepsBehind ==
  ASSUME UrlInv, Begin
  PROVE  ClusterBehind' /\ SnapshotBehind' /\ UrlBehind'
<1>1. /\ UNCHANGED <<objects, live, creds, published>> /\ (Shown' <=> Shown)
      /\ Seen' => Shown /\ Observed(Connection)'.obj = objects[Connection].status
  BY BeginShows DEF UrlInv, LInv, cluster, Shown
<1>2. Shown => Behind(objects[Connection].status.data, objects[Connection].status.data)
  BY BehindOrder DEF UrlInv, ClusterBehind
<1>. QED
  BY <1>1, <1>2 DEF UrlInv, ClusterBehind, SnapshotBehind, UrlBehind

(* A URL in the details of a finished run is that of one version.          *)
LEMMA VersionOfUrl ==
  ASSUME UrlInv, UsableAnswer
  PROVE  \/ conn = <<>>
         \/ /\ Seen
            /\ \E p : /\ {i \in DOMAIN conn : conn[i].name = PostgresqlUrl} = {p}
                      /\ \E v \in {"v1", "v2"} : /\ Observed(Connection).obj.data = Credentials(v)
                                                 /\ conn[p].value = UrlOf(Credentials(v))
<1>1. running /\ SafeRun /\ Ran(1)
  <2>1. running /\ SafeRun /\ Inv /\ fn = 6
    BY DEF UrlInv, LInv, RInv, RunInv, IInv, UsableAnswer, Finished, postgresFunctions
  <2>. QED
    BY <2>1 DEF Ran, Inv
<1>2. CASE results[1] # "Normal"
  BY <1>1, <1>2 DEF SafeRun, UrlMade
<1>3. CASE results[1] = "Normal"
  <2> DEFINE data == Observed(Connection).obj.data
  <2>1. /\ ~Fails(Connection) /\ \A f \in PostgresFields : data[f] # Nil
        /\ \E p : /\ {i \in DOMAIN conn : conn[i].name = PostgresqlUrl} = {p}
                  /\ conn[p].value = GetPostgresURL(data)
    BY <1>1, <1>3 DEF SafeRun, UrlMade
  <2>2. PICK i \in 1 .. 4 : data = CredentialStage[i]
    BY <1>1, <2>1 DEF UrlInv, SnapshotBehind, Seen, Behind
  <2>. HIDE DEF data
  <2>3. data["host"] # Nil
    BY <2>1 DEF PostgresFields
  <2>4. i = 3 \/ i = 4
    BY <2>2, <2>3, StagesDiffer
  <2>5. \E v \in {"v1", "v2"} : data = Credentials(v)
    BY <2>2, <2>4 DEF CredentialStage
  <2>. QED
    BY <1>1, <2>1, <2>5 DEF data, Seen, UrlOf
<1>. QED
  BY <1>2, <1>3

LEMMA PublishedUrl ==
  ASSUME UrlInv, UsableAnswer, Apply
  PROVE  \/ published' = published
         \/ Seen /\ \E v \in {"v1", "v2"} : /\ Observed(Connection).obj.data = Credentials(v)
                                            /\ published' = UrlOf(Credentials(v))
<1> DEFINE urls == {i \in DOMAIN conn : conn[i].name = PostgresqlUrl}
<1>1. io.conn = conn
  BY DEF UrlInv, LInv, RInv, RunInv, IInv, Stage, UsableAnswer, Finished, postgresFunctions, Synced
<1>2. published' = IF urls = {} THEN published ELSE conn[CHOOSE i \in urls : TRUE].value
  BY <1>1 DEF Apply
<1>3. CASE conn = <<>>
  BY <1>2, <1>3
<1>4. ASSUME NEW p, urls = {p}
      PROVE  published' = conn[p].value
  <2>. HIDE DEF urls
  <2>. QED
    BY <1>2, <1>4
<1>. HIDE DEF urls
<1>. QED
  BY <1>3, <1>4, VersionOfUrl DEF urls

LEMMA AnswerKeepsBehind ==
  ASSUME UrlInv, Apply \/ ApplyPartly \/ Lose \/ Reject
  PROVE  ClusterBehind' /\ SnapshotBehind' /\ UrlBehind'
<1>1. CASE Lose \/ Reject
  <2>1. ~running' /\ UNCHANGED <<objects, live, creds, published>>
    BY <1>1 DEF Lose, Reject, ResetRun, cluster
  <2>. QED
    BY <2>1 DEF UrlInv, ClusterBehind, SnapshotBehind, UrlBehind, Seen, Shown
<1>2. CASE Apply \/ ApplyPartly
  <2>1. UsableAnswer /\ RInv /\ SafeRun
    BY <1>2, PartlyIsApplied DEF Apply, Applied, UsableAnswer, UrlInv, LInv
  <2>2. PICK done \in SUBSET NamesIn(io.resources) : Applied(done)
    BY <1>2, PartlyIsApplied DEF Apply
  <2>3. Connection \in NamesIn(resources)
    <3>1. KeepsRendered(resources) /\ Connection \in NamesIn(Rendered)
      BY <2>1 DEF UsableAnswer, Finished, postgresFunctions, RInv, RunInv, IInv, SafeRun, Base
    <3>. QED
      BY <3>1 DEF KeepsRendered, NamesIn
  <2>4. ~running' /\ creds' = creds
    BY <2>2 DEF Applied, ResetRun
  <2>5. /\ Connection \in DOMAIN live => Connection \in DOMAIN live' /\ live'[Connection] = live[Connection]
        /\ Connection \in DOMAIN live' => Connection \in DOMAIN live
        /\ Shown <=> Shown'
        /\ Shown => objects'[Connection].status = objects[Connection].status
    BY <2>1, <2>2, <2>3, AppliedObjects DEF Shown
  <2>6. ClusterBehind'
    BY <2>4, <2>5 DEF UrlInv, ClusterBehind
  <2>7. UrlBehind'
    <3>1. CASE published' = published
      BY <2>4, <2>5, <3>1 DEF UrlInv, UrlBehind, Seen
    <3>2. CASE published' # published
      <4>1. Apply
        BY <1>2, <3>2 DEF ApplyPartly
      <4>2. Seen /\ \E v \in {"v1", "v2"} : /\ Observed(Connection).obj.data = Credentials(v)
                                            /\ published' = UrlOf(Credentials(v))
        BY <2>1, <3>2, <4>1, PublishedUrl
      <4>. QED
        BY <2>4, <2>5, <4>2 DEF UrlInv, SnapshotBehind, UrlBehind, Seen
    <3>. QED
      BY <3>1, <3>2
  <2>. QED
    BY <2>4, <2>6, <2>7 DEF SnapshotBehind, Seen
<1>. QED
  BY <1>1, <1>2

LEMMA UrlInvHolds == ReconcileSpec => []UrlInv
<1>1. LInv /\ LInv' /\ UrlInv /\ [ReconcileNext]_allVars => UrlInv'
  <2>. SUFFICES ASSUME LInv', UrlInv, [ReconcileNext]_allVars PROVE ClusterBehind' /\ SnapshotBehind' /\ UrlBehind'
    BY DEF UrlInv
  <2>0. RInv'
    BY DEF LInv
  <2>1. CASE Begin
    BY <2>1, BeginKeepsBehind
  <2>2. CASE Apply \/ ApplyPartly \/ Lose \/ Reject
    BY <2>2, AnswerKeepsBehind
  <2>3. CASE RunStep \/ UNCHANGED allVars
    <3>1. UNCHANGED <<running, published, objects, live, creds>>
      BY <2>3 DEF RunStep, allVars, cluster
    <3>2. request' = request
      <4>1. CASE RunStep
        BY <4>1, ResultsStep DEF RunStep, Next, UrlInv, LInv, RInv, RunInv
      <4>. QED
        BY <2>3, <4>1 DEF allVars, runVars
    <3>3. Shown => Behind(objects[Connection].status.data, objects[Connection].status.data)
      BY BehindOrder DEF UrlInv, ClusterBehind
    <3>. QED
      BY <3>1, <3>2, <3>3, ReportForward DEF UrlInv, ClusterBehind, Shown
  <2>. QED
    BY <2>0, <2>1, <2>2, <2>3, ControllersKeepBehind DEF ReconcileNext
<1>. QED
  BY <1>1, InitUrlInv, LInvHolds, PTL DEF ReconcileSpec, UrlInv

(* Whoever reads POSTGRESQL_URL never finds a mixture of two versions, nor *)
(* an older one than before, however late reports and answers are.         *)
THEOREM UrlNeverMovesBack == ReconcileSpec => UrlMovesForward
<1> DEFINE Forward ==
      \/ published' = published
      \/ published = Nil /\ \E v \in {"v1", "v2"} : published' = UrlOf(Credentials(v))
      \/ published = UrlOf(Credentials("v1")) /\ published' = UrlOf(Credentials("v2"))
<1>1. UrlInv /\ [ReconcileNext]_allVars => [Forward]_allVars
  <2>. SUFFICES ASSUME UrlInv, [ReconcileNext]_allVars, published' # published PROVE Forward
    OBVIOUS
  <2>1. Apply
    BY DEF ReconcileNext, allVars, cluster, Begin, RunStep, ApplyPartly, Lose, Reject, Provider, Ops, ProviderWrite,
           ProviderReport, StartOp, EndOp, FormatVolume, ProvideCredentials, Scale, SwitchEncryption,
           SwitchStrategy, Reconfigure, RotateCredentials, Change, Tick
  <2>2. UsableAnswer
    BY <2>1 DEF Apply, Applied, UsableAnswer
  <2>3. PICK v \in {"v1", "v2"} : /\ Seen /\ Observed(Connection).obj.data = Credentials(v)
                                  /\ published' = UrlOf(Credentials(v))
    BY <2>1, <2>2, PublishedUrl
  <2>4. CASE published = Nil
    BY <2>3, <2>4
  <2>5. CASE published # Nil
    <3>1. PICK w \in {"v1", "v2"} : published = UrlOf(Credentials(w)) /\ Behind(Credentials(w), Credentials(v))
      BY <2>3, <2>5 DEF UrlInv, UrlBehind
    <3>2. w # v
      BY <2>3, <3>1
    <3>3. ~(w = "v2" /\ v = "v1")
      <4>1. CredentialStage[3] = Credentials("v1") /\ CredentialStage[4] = Credentials("v2")
        BY DEF CredentialStage
      <4>2. ~Behind(CredentialStage[4], CredentialStage[3])
        BY StagesDiffer DEF Behind
      <4>. QED
        BY <3>1, <4>1, <4>2
    <3>. QED
      BY <2>3, <3>1, <3>2, <3>3
  <2>. QED
    BY <2>4, <2>5
<1>. QED
  BY <1>1, UrlInvHolds, PTL DEF ReconcileSpec, UrlMovesForward
------------------------------------------------------------------------------
(* The composite that never gets a URL *)

(* The namespace has been reported, but the connection secret was not      *)
(* created with it.                                                        *)
Stranded ==
  /\ Connection \notin DOMAIN objects /\ Patched.ns # Nil
  /\ running => request.composite.ns # Nil

LEMMA PatchedStays ==
  ASSUME RInv, [ReconcileNext]_allVars, ~UsableAnswer, Patched.ns # Nil
  PROVE  Patched'.ns # Nil
<1>1. xr'.ns = xr.ns /\ IsXR(xr) /\ IsXR(xr')
  <2>1. xr' = xr \/ SwitchEncryption \/ SwitchStrategy
    BY PartlyIsApplied DEF ReconcileNext, allVars, cluster, Begin, RunStep, Apply, Applied, UsableAnswer, Lose, Reject,
       Provider, Ops, ProviderWrite, ProviderReport, StartOp, EndOp, FormatVolume, ProvideCredentials, Scale,
       Reconfigure, RotateCredentials, Tick
  <2>2. IsXR(xr) /\ IsXR(xr')
    BY NextRInv DEF RInv, TypedRest
  <2>3. xr'.ns = xr.ns
    BY <2>1, <2>2 DEF SwitchEncryption, SwitchStrategy, IsXR, IsComposite
  <2>. QED
    BY <2>2, <2>3
<1>2. Namespace \in DOMAIN objects /\ objects[Namespace].status # Nil =>
        Namespace \in DOMAIN objects' /\ objects'[Namespace].status # Nil
  <2>1. CASE \E n \in Names : ProviderReport(n)
    <3>1. PICK n \in Names : ProviderReport(n)
      BY <2>1
    <3>2. n \in DOMAIN live /\ objects' = [objects EXCEPT ![n].status = live[n]] /\ live[n] # Nil
      BY <3>1, Unmarked DEF ProviderReport, RInv, TypedLive
    <3>. QED
      BY <3>2 DEF RInv, TypedObjects
  <2>2. CASE objects' = objects
    BY <2>2
  <2>. QED
    BY <2>1, <2>2, PartlyIsApplied DEF ReconcileNext, allVars, cluster, Begin, RunStep, Apply, Applied, UsableAnswer,
       Lose, Reject, Provider, Ops, ProviderWrite, StartOp, EndOp, FormatVolume, ProvideCredentials, Scale,
       SwitchEncryption, SwitchStrategy, Reconfigure, RotateCredentials, Change, Tick
<1>3. "instance" # Nil
  BY MarksAssumption
<1>4. \A c : IsXR(c) => [c EXCEPT !.ns = "instance"].ns = "instance"
  BY DEF IsXR, IsComposite
<1>. QED
  BY <1>1, <1>2, <1>3, <1>4 DEF Patched

(* No run that has started without the secret is used.                     *)
LEMMA StrandedIsRejected == RInv /\ Stranded => ~UsableAnswer
<1>. SUFFICES ASSUME RInv, Stranded, UsableAnswer PROVE FALSE
  OBVIOUS
<1>1. running /\ RunInv /\ Inv /\ fn = 6 /\ NamesIn(request.observed) = DOMAIN objects
  BY DEF RInv, RunInv, IInv, UsableAnswer, Finished, postgresFunctions
<1>2. Fails(Connection)
  BY <1>1, SeenIsThere DEF Stranded, Seen
<1>3. Ran(1) /\ results[1] # "Fatal"
  BY <1>1 DEF UsableAnswer, Inv, Ran
<1>. QED
  BY <1>1, <1>2, <1>3 DEF RunInv, FatalReasons, Stranded

LEMMA StrandedStays ==
  RInv /\ Stranded /\ [ReconcileNext]_allVars => Stranded' /\ published' = published
<1>. SUFFICES ASSUME RInv, Stranded, [ReconcileNext]_allVars PROVE Stranded' /\ published' = published
  OBVIOUS
<1>1. ~UsableAnswer
  BY StrandedIsRejected
<1>2. ~Apply /\ ~ApplyPartly
  BY <1>1, PartlyIsApplied DEF Apply, Applied, UsableAnswer
<1>3. Patched'.ns # Nil
  BY <1>1, PatchedStays DEF Stranded
<1>4. DOMAIN objects' = DOMAIN objects /\ published' = published
  BY <1>2 DEF ReconcileNext, allVars, cluster, Begin, RunStep, Lose, Reject, Provider, Ops, ProviderWrite,
     ProviderReport, StartOp, EndOp, FormatVolume, ProvideCredentials, Scale, SwitchEncryption,
     SwitchStrategy, Reconfigure, RotateCredentials, Change, Tick
<1>5. running' => request'.composite.ns # Nil
  <2>1. CASE Begin
    BY <2>1 DEF Begin, Snapshot, Stranded
  <2>2. CASE running' = running /\ [Next]_vars
    BY <2>2, ResultsStep DEF Stranded, RInv, RunInv
  <2>. QED
    BY <2>1, <2>2, RunCases
<1>. QED
  BY <1>3, <1>4, <1>5 DEF Stranded

(* The run that reconcile_stuck shows is not one of bad luck: whatever the *)
(* user, the controllers and later runs do, for how long ever, a composite *)
(* whose namespace is reported while its connection secret was not created *)
(* stays without URL, as each run is rejected for the secret that only an  *)
(* applied answer would create (url.go:44-54).                             *)
THEOREM StrandedForever == ReconcileSpec => [](Stranded => [](Stranded /\ published = Nil))
<1>1. UrlInv => (Stranded => published = Nil)
  BY DEF UrlInv, UrlBehind, Stranded, Shown
<1>2. UrlInv => RInv
  BY DEF UrlInv, LInv
<1>3. RInv /\ Stranded /\ [ReconcileNext]_allVars => Stranded'
  BY StrandedStays
<1>. QED
  BY <1>1, <1>2, <1>3, UrlInvHolds, PTL DEF ReconcileSpec

(* It takes a partly applied answer to get there: when the answers are     *)
(* applied as a whole or not at all, the secret is asked for in the answer *)
(* that asks for the namespace.                                            *)
THEOREM WholeAnswersDoNotStrand ==
  ASSUME "partial" \notin Faults,
         Connection \in Present \/ (FirstXR.ns = Nil /\ Namespace \notin Present)
  PROVE  ReconcileSpec => []~Stranded
<1> DEFINE Together ==
      /\ Connection \notin DOMAIN objects => Namespace \notin DOMAIN objects /\ xr.ns = Nil
      /\ running /\ Connection \notin DOMAIN objects => request.composite.ns = Nil
<1>1. Together => ~Stranded
  BY DEF Stranded, Patched
<1>2. ReconcileInit => Together
  BY DEF ReconcileInit
<1>3. LInv /\ Together /\ [ReconcileNext]_allVars => Together'
  <2>. SUFFICES ASSUME LInv, Together, [ReconcileNext]_allVars PROVE Together'
    OBVIOUS
  <2>1. CASE Apply
    <3>1. UsableAnswer /\ Applied(NamesIn(io.resources)) /\ RInv /\ SafeRun
      BY <2>1 DEF Apply, Applied, UsableAnswer, LInv
    <3>2. Connection \in NamesIn(io.resources)
      <4>1. KeepsRendered(resources) /\ Connection \in NamesIn(Rendered)
        BY <3>1 DEF UsableAnswer, Finished, postgresFunctions, RInv, RunInv, IInv, SafeRun, Base
      <4>. QED
        BY <3>1, <4>1, AnswerFacts DEF KeepsRendered, NamesIn
    <3>3. Connection \in DOMAIN objects'
      BY <3>1, <3>2, AppliedObjects
    <3>. QED
      BY <3>3
  <2>2. CASE ~Apply
    <3>1. ~ApplyPartly
      BY DEF ApplyPartly, Fault
    <3>2. DOMAIN objects' = DOMAIN objects
      BY <2>2, <3>1 DEF ReconcileNext, allVars, cluster, Begin, RunStep, Lose, Reject, Provider, Ops, ProviderWrite,
         ProviderReport, StartOp, EndOp, FormatVolume, ProvideCredentials, Scale, SwitchEncryption,
         SwitchStrategy, Reconfigure, RotateCredentials, Change, Tick
    <3>3. xr'.ns = xr.ns
      <4>1. xr' = xr \/ SwitchEncryption \/ SwitchStrategy
        BY <2>2, <3>1 DEF ReconcileNext, allVars, cluster, Begin, RunStep, Lose, Reject,
           Provider, Ops, ProviderWrite, ProviderReport, StartOp, EndOp, FormatVolume, ProvideCredentials, Scale,
           Reconfigure, RotateCredentials, Tick
      <4>2. IsXR(xr)
        BY DEF LInv, RInv, TypedRest
      <4>. QED
        BY <4>1, <4>2 DEF SwitchEncryption, SwitchStrategy, IsXR, IsComposite
    <3>4. CASE Begin
      <4>1. request'.composite = Patched
        BY <3>4 DEF Begin, Snapshot
      <4>. QED
        BY <3>2, <3>3, <4>1 DEF Patched
    <3>5. CASE running' = running /\ [Next]_vars
      BY <3>2, <3>3, <3>5, ResultsStep DEF LInv, RInv, RunInv
    <3>6. CASE ~running'
      BY <3>2, <3>3, <3>6
    <3>. QED
      BY <3>4, <3>5, <3>6, RunCases
  <2>. QED
    BY <2>1, <2>2
<1>. HIDE DEF Together
<1>. QED
  BY <1>1, <1>2, <1>3, LInvHolds, PTL DEF ReconcileSpec
==============================================================================
