------------------------------ MODULE Manifests ------------------------------
\* What becomes of the StackGres manifests that the functions read into Go types and write back:
\* the cluster that AddPvcSecret gives another storage class and getPendingRestart reads, and the
\* restart operations that keepRecentRestartOps copies from what is observed to what is desired,
\* in every run anew.  Of a manifest only spec and status are modelled.
EXTENDS StackGresCRDs, SGDbOpsTypes

CONSTANTS MaxRuns   \* runs of the functions
ASSUME MaxRunsAssumption == MaxRuns \in Nat \ {0}

VARIABLES kind,      \* "SGCluster" or "SGDbOps"
          manifest,  \* the manifest: as rendered or observed, then as the last run wrote it
          runs,      \* runs so far
          outcome    \* how the last run ended for this manifest

vars == <<kind, manifest, runs, outcome>>

Go == [SGCluster |-> ByPath(SGCluster), SGDbOps |-> ByPath(SGDbOps)]
Schema == [SGCluster |-> ByPath(ClusterSchema), SGDbOps |-> ByPath(DbOpsSchema)]

StorageClass == <<"spec", "pods", "persistentVolume", "storageClass">>
Op == <<"spec", "op">>
RunAt == <<"spec", "runAt">>

\* The schemas are closed under what lies above a field, and every cluster has volumes.
ASSUME SchemasAreWellFormed == \A k \in {"SGCluster", "SGDbOps"} : WellFormed(Schema[k])
ASSUME VolumesAreRequired ==
  /\ StorageClass \in DOMAIN Schema["SGCluster"]
  /\ Schema["SGCluster"][StorageClass].type = "string"
  /\ \A q \in Prefixes(StorageClass) :
       LET field == Schema["SGCluster"][q] IN field.required /\ field.type = "object" /\ ~field.nullable

\* The results of a benchmark, the only numbers that are read into a float32.
BenchmarkResult(path) == Len(path) > 3 /\ SubSeq(path, 1, 3) = <<"status", "benchmark", "pgbench">>

ASSUME NumbersAreResults ==
  \A k \in {"SGCluster", "SGDbOps"} : \A path \in DOMAIN Schema[k] :
    Schema[k][path].type = "number" => k = "SGDbOps" /\ BenchmarkResult(path)

\* The Composition renders a cluster, and StackGres reports a cluster or an operation, with any
\* of the fields their schema has; operations come with the time scheduleRestart gives them and
\* without.
Init ==
  /\ kind \in {"SGCluster", "SGDbOps"}
  /\ \E timed \in IF kind = "SGDbOps" THEN {{}, {RunAt}} ELSE {{}} :
       manifest \in Documents(Schema[kind], timed)
  /\ runs = 0
  /\ outcome = "none"

Run(result) == runs < MaxRuns /\ runs' = runs + 1 /\ outcome' = result /\ UNCHANGED kind

\* A cluster with the storage class of an encrypted volume.
Replaced(doc) ==
  [path \in DOMAIN doc \cup {StorageClass} |->
     IF path = StorageClass THEN Value("string", FALSE) ELSE doc[path]]

\* AddPvcSecret with encryption enabled, of the cluster as it was rendered.
AddPvcSecret ==
  /\ kind = "SGCluster" /\ runs = 0
  /\ IF Decodes(Go[kind], manifest)
       THEN /\ manifest' = Replaced(RoundTrip(Go[kind], manifest))
            /\ Run("normal")
       ELSE UNCHANGED manifest /\ Run("fatal")

\* getPendingRestart reads the cluster that is observed; an error is a warning and no restart.
GetPendingRestart ==
  /\ kind = "SGCluster"
  /\ Run(IF Decodes(Go[kind], manifest) THEN "normal" ELSE "warning")
  /\ UNCHANGED manifest

\* keepRecentRestartOps, for an operation whose name says restart and whose time, if it has one,
\* is recent: a manifest it cannot read, and one without a time, it passes over.
KeepRestartOp ==
  /\ kind = "SGDbOps"
  /\ IF /\ Decodes(Go[kind], manifest)
        /\ ~manifest[Op].zero
        /\ RunAt \in DOMAIN manifest /\ ~manifest[RunAt].zero
       THEN manifest' = RoundTrip(Go[kind], manifest) /\ Run("kept")
       ELSE UNCHANGED manifest /\ Run("skipped")

Next == AddPvcSecret \/ GetPendingRestart \/ KeepRestartOp

Spec == Init /\ [][Next]_vars

-----------------------------------------------------------------------------
\* The generated Go types fit the schemas they are used for, field by field: none is missing or too
\* many, exactly the required ones are without omitempty, and what may be null is a pointer
\* (sgcluster.gen.go, sgdbops.gen.go).
TypesAgree == Agrees(Go[kind], Schema[kind])

\* What is written is what StackGres accepts: a rewrite leaves no required field out, and writes
\* null only where the schema allows it (desired.go:67, PutIntoObject marshals the Go type).
WrittenValid == Valid(Schema[kind], manifest)

\* A rewrite loses nothing of a manifest but digits: every field the schema knows comes back with
\* its value, the zero values included, except the storage class that AddPvcSecret replaces, maps
\* without entries, and the results of a benchmark, which the Go type holds as float32: one with
\* more digits comes back as another number, one close to zero as 0, but neither is left out nor
\* becomes null (encrypted_pvc.go:46, restart.go:119, sgdbops.gen.go:720).
RewriteKeeps ==
  [][\A path \in DOMAIN manifest :
       \/ path \in DOMAIN manifest' /\ manifest'[path] = manifest[path]
       \/ kind = "SGCluster" /\ path = StorageClass
       \/ Schema[kind][path].type = "map" /\ manifest[path].zero
       \/ /\ kind = "SGDbOps" /\ BenchmarkResult(path) /\ manifest[path].is \in {"digits", "tiny"}
          /\ path \in DOMAIN manifest' /\ manifest'[path].is = "number"]_vars

\* A rewrite adds nothing that has an effect: of fields that were not there it writes only the
\* storage class, the empty status and nulls; never a zero for a number or a flag that nobody
\* set, which StackGres would take for a choice.
RewriteAdds ==
  [][\A path \in DOMAIN manifest' \ DOMAIN manifest :
       \/ kind = "SGCluster" /\ path = StorageClass
       \/ path = Status
       \/ manifest'[path] = Null]_vars

\* sgcluster.yaml:333 says of a target port or a probe's port: "This allows you to have, for
\* example, a JSON field that can accept a name or number."  So every cluster that the schema
\* allows can be read.
Readable == outcome \notin {"fatal", "warning"}
=============================================================================
