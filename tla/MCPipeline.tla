----------------------------- MODULE MCPipeline -----------------------------
(***************************************************************************)
(* Instances of Pipeline for TLC: three groups of FunctionIOs, each        *)
(* varying what some of the functions look at.                             *)
(***************************************************************************)
EXTENDS Pipeline

CONSTANTS gen, r1,                       \* a generated metadata.name, a reference
          ns, ref, template, secretRef,  \* values of the composite's fields
          xr,                            \* spec fields of the XR
          oldUrl, k0, k1, g1, g2         \* LUKS keys: observed and generated

(* The first and the last second, both sides of midnight (of the           *)
(* maintenance and of the backup), and a time with minutes and seconds.    *)
MCOffsets == {0, 7199, 7200, 10799, 10800, 14399, 14400, 28799, 25517}

MCRetention == 30
Now == 100

Rendered(n, manifest) ==
  [name |-> n, extra |-> "pt",
   raw |-> [kind |-> "Object", meta |-> gen, refs |-> {r1}, spec |-> manifest, status |-> Nil]]
Undecodable(n) == [name |-> n, extra |-> "pt", raw |-> Bad]
Seen(n, manifest) ==
  [name |-> n, extra |-> Nil,
   raw |-> [kind |-> "Object", meta |-> gen, refs |-> {}, spec |-> Nil, status |-> manifest]]

SGCluster(instances, conditions) ==
  [kind |-> "SGCluster", instances |-> instances, storageClass |-> Nil, conditions |-> conditions]
Secret(data) == [kind |-> "Secret", meta |-> gen, data |-> data]
Complete == [f \in PostgresFields |-> f]

Base == [ns |-> ns, strategy |-> "Immediate", ref |-> Nil, template |-> Nil, secretRef |-> Nil,
         encrypted |-> FALSE, backup |-> Nil, timeOfDay |-> Nil, dayOfWeek |-> Nil, rest |-> xr]

Request(observed, obsComp, res, comp, details) ==
  [observed |-> observed, obsComposite |-> obsComp, resources |-> res,
   composite |-> comp, conn |-> details, now |-> Now]

Resources == <<Rendered(Cluster, SGCluster(1, <<>>)), Rendered(Connection, Nil)>>

(* What the connection, the alerting and the schedule functions look at.   *)
AlertingComposites ==
  {[Base EXCEPT !.ns = n, !.ref = r, !.template = t, !.secretRef = s] :
     n \in {Nil, ns}, r \in {Nil, ref}, t \in {Nil, template}, s \in {Nil, secretRef}}
ScheduleComposites ==
  {[Base EXCEPT !.ns = n, !.backup = b, !.timeOfDay = t, !.dayOfWeek = d] :
     n \in {Nil, ns}, b \in {Nil, <<30, 20>>}, t \in {Nil, <<12, 0, 0>>}, d \in {Nil, "sunday"}}
ConnectionSecrets ==
  {<<>>, <<Undecodable(Connection)>>, <<Seen(Connection, Nil)>>, <<Seen(Connection, Bad)>>,
   <<Seen(Connection, Secret(Complete))>>}
    \union {<<Seen(Connection, Secret([Complete EXCEPT ![f] = Nil]))>> : f \in PostgresFields}
Details == {<<>>, <<[name |-> "other", value |-> oldUrl], [name |-> PostgresqlUrl, value |-> oldUrl]>>}

ConfigRequests ==
  {Request(o, c, Resources, Base, d) :
     o \in ConnectionSecrets, c \in {Base, Bad}, d \in Details}
  \union {Request(<<>>, c, Resources, d, <<>>) :
     c \in AlertingComposites, d \in {Base, Bad}}
  \union {Request(<<>>, c, Resources, d, <<>>) :
     c \in {Base, Bad}, d \in ScheduleComposites \union {Bad}}

(* Clusters of up to three instances, one of them on its way up or down,   *)
(* with every state a LUKS secret may be observed in.                      *)
KeyStates(i, key) ==
  {<<>>, <<Seen(LuksKey(i), Nil)>>, <<Undecodable(LuksKey(i))>>,
   <<Seen(LuksKey(i), Secret(key))>>, <<Seen(LuksKey(i), Secret(Nil))>>}
RenderedClusters ==
  {<<Rendered(Connection, Nil), Rendered(Cluster, SGCluster(n, <<>>))>> : n \in {1, 2}}
    \union {<<>>, <<Undecodable(Cluster)>>, <<Rendered(Cluster, Nil)>>}
EncryptionRequests ==
  {Request(a \o b, [Base EXCEPT !.encrypted = e], res, Base, <<>>) :
     a \in KeyStates(0, k0), b \in KeyStates(1, k1), e \in BOOLEAN, res \in RenderedClusters}

(* Restart operations before, at and after the end of the retention time,  *)
(* and clusters whose conditions ask for a restart in every way.           *)
SGDbOps(op, runAt) == [kind |-> "SGDbOps", op |-> op, runAt |-> runAt]
Ops ==
  {<<>>, <<Undecodable(RestartOp(95))>>, <<Seen(RestartOp(95), Nil)>>,
   <<Seen(RestartOp(95), SGDbOps("benchmark", 95))>>, <<Seen(RestartOp(95), SGDbOps("restart", Nil))>>}
    \union {<<Seen(RestartOp(t), SGDbOps("restart", t))>> : t \in {69, 70, 100}}
Condition(type, status, at) == [type |-> type, status |-> status, at |-> at]
Conditions ==
  {<<>>, <<Condition("PendingRestart", "True", 100)>>, <<Condition("PendingRestart", "True", 60)>>,
   <<Condition("PendingRestart", "False", 100)>>, <<Condition("PendingRestart", "True", Bad)>>,
   <<Condition("Failed", "True", 99), Condition("PendingRestart", "True", Nil),
     Condition("PendingRestart", "True", 71), Condition("PendingRestart", "True", 100)>>}
Clusters ==
  {<<Seen(Cluster, SGCluster(1, c))>> : c \in Conditions}
    \union {<<>>, <<Seen(Cluster, Nil)>>, <<Undecodable(Cluster)>>}
RestartRequests ==
  {Request(a \o c \o b, Base, Resources, comp, <<>>) :
     a \in Ops, c \in Clusters, b \in {<<>>, <<Seen(RestartOp(80), SGDbOps("restart", 80))>>},
     comp \in {Base, [Base EXCEPT !.strategy = "OnRestart"], Bad}}

(* What the groups of functions look at is independent of each other.       *)
AllRequests == ConfigRequests \union EncryptionRequests \union RestartRequests
=============================================================================
