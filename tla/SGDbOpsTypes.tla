------------------------------ MODULE SGDbOpsTypes ------------------------------
\* The Go type SGDbOps (apis/stackgres/v1/sgdbops.gen.go, sgdbops.go), as SGClusterTypes gives
\* SGCluster.
EXTENDS SGClusterTypes

\* spec.scheduling: types of their own again, with the fields of the cluster's.
DbOpsNodeAffinity == NodeAffinity

DbOpsPodAffinity == PodAffinity

DbOpsPodAntiAffinity == PodAntiAffinity

DbOpsTolerations == Tolerations

DbOpsScheduling ==
  Maps({"nodeSelector"})
  \cup DbOpsNodeAffinity
  \cup DbOpsPodAffinity
  \cup DbOpsPodAntiAffinity
  \cup DbOpsTolerations

\* spec.
BenchmarkAndMajorUpgrade ==
  Struct("benchmark",
      Pointers("string", {"connectionType"})
      \cup Values("string", {"type"})
      \cup Struct("pgbench",
          Pointers("int", {"concurrentClients", "threads"})
          \cup Values("string", {"databaseSize", "duration"})
          \cup Pointers("bool", {"usePreparedStatements"})))
  \cup Struct("majorVersionUpgrade",
      Pointers("string", {"backupPath", "postgresVersion", "sgPostgresConfig"})
      \cup Pointers("bool", {"check", "clone", "link"}))

MinorUpgradeToRestart ==
  Struct("minorVersionUpgrade", Pointers("string", {"method", "postgresVersion"}))
  \cup Struct("repack",
      Pointers("bool", {"excludeExtension", "noAnalyze", "noKillBackend", "noOrder"})
      \cup Pointers("string", {"waitTimeout"})
      \cup Slice("databases",
          Pointers("bool", {"excludeExtension", "noAnalyze", "noKillBackend", "noOrder"})
          \cup Values("string", {"name"})
          \cup Pointers("string", {"waitTimeout"})))
  \cup Struct("restart",
      Pointers("string", {"method"})
      \cup Pointers("bool", {"onlyPendingRestart"}))

SecurityUpgradeAndVacuum ==
  Struct("securityUpgrade", Pointers("string", {"method"}))
  \cup Struct("vacuum",
      Pointers("bool", {"analyze", "disablePageSkipping", "freeze", "full"})
      \cup Slice("databases",
          Pointers("bool", {"analyze", "disablePageSkipping", "freeze", "full"})
          \cup Values("string", {"name"})))

SGDbOpsSpec ==
  Pointers("int", {"maxRetries"})
  \cup Values("string", {"op", "sgCluster"})
  \cup Pointers("string", {"runAt", "timeout"})
  \cup BenchmarkAndMajorUpgrade
  \cup MinorUpgradeToRestart
  \cup Struct("scheduling", DbOpsScheduling)
  \cup SecurityUpgradeAndVacuum

\* status: a nullable result has no omitempty and is written as null.
BenchmarkStatus ==
  Struct("benchmark",
      Struct("pgbench",
          Nullables("float", {"scaleFactor"})
          \cup Nullables("int", {"transactionsProcessed"})
          \cup Struct("latency",
              Struct("average",
                  Pointers("string", {"unit"})
                  \cup Nullables("float", {"value"}))
              \cup Struct("standardDeviation",
                  Pointers("string", {"unit"})
                  \cup Nullables("float", {"value"})))
          \cup Struct("transactionsPerSecond",
              Struct("excludingConnectionsEstablishing",
                  Pointers("string", {"unit"})
                  \cup Nullables("float", {"value"}))
              \cup Struct("includingConnectionsEstablishing",
                  Pointers("string", {"unit"})
                  \cup Nullables("float", {"value"})))))

ConditionsAndUpgradeStatus ==
  Slice("conditions",
      Pointers("string", {"lastTransitionTime", "message", "reason", "status", "type"}))
  \cup Struct("majorVersionUpgrade",
      Pointers("string", {"failure", "primaryInstance", "sourcePostgresVersion",
                          "targetPostgresVersion"})
      \cup Pointers("strings", {"initialInstances", "pendingToRestartInstances",
                                "restartedInstances"}))
  \cup Struct("minorVersionUpgrade",
      Pointers("string", {"failure", "primaryInstance", "sourcePostgresVersion",
                          "switchoverFinalized", "switchoverInitiated",
                          "targetPostgresVersion"})
      \cup Pointers("strings", {"initialInstances", "pendingToRestartInstances",
                                "restartedInstances"}))
  \cup Struct("restart",
      Pointers("string", {"failure", "primaryInstance", "switchoverFinalized",
                          "switchoverInitiated"})
      \cup Pointers("strings", {"initialInstances", "pendingToRestartInstances",
                                "restartedInstances"}))
  \cup Struct("securityUpgrade",
      Pointers("string", {"failure", "primaryInstance", "switchoverFinalized",
                          "switchoverInitiated"})
      \cup Pointers("strings", {"initialInstances", "pendingToRestartInstances",
                                "restartedInstances"}))

SGDbOpsStatus ==
  Pointers("int", {"opRetries"})
  \cup Pointers("string", {"opStarted"})
  \cup BenchmarkStatus
  \cup ConditionsAndUpgradeStatus

\* The manifest.
SGDbOps ==
  StructValue("spec", SGDbOpsSpec)
  \cup StructValue("status", SGDbOpsStatus)

================================================================================
