------------------------------ MODULE StackGresCRDs ------------------------------
\* What StackGres accepts as the spec and the status of an SGCluster and an SGDbOps
\* (apis/stackgres/v1/sgcluster.yaml, sgdbops.yaml): the schemas the Go types were generated
\* from, written down here from the YAML and not from the Go.
EXTENDS JsonTypes

KeyReference ==
  Required("string", {"key"})
  \cup Optional("boolean", {"optional"})
  \cup Optional("string", {"name"})

NamedReference ==
  Optional("boolean", {"optional"})
  \cup Optional("string", {"name"})

Labels ==
  Optional("map", {"matchLabels"})
  \cup Array("matchExpressions",
      Required("string", {"key", "operator"})
      \cup Optional("strings", {"values"}))

PodField ==
  Required("string", {"fieldPath"})
  \cup Optional("string", {"apiVersion"})

ResourceField ==
  Required("string", {"resource"})
  \cup Optional("string", {"containerName", "divisor"})

Handler ==
  Object("exec", Optional("strings", {"command"}))
  \cup Object("httpGet",
      Required("int-or-string", {"port"})
      \cup Optional("string", {"host", "path", "scheme"})
      \cup Array("httpHeaders", Required("string", {"name", "value"})))
  \cup Object("tcpSocket",
      Required("int-or-string", {"port"})
      \cup Optional("string", {"host"}))

HealthCheck ==
  Optional("integer", {"failureThreshold", "initialDelaySeconds", "periodSeconds",
                       "successThreshold", "terminationGracePeriodSeconds", "timeoutSeconds"})
  \cup Handler

ContainerSchema ==
  Required("string", {"name"})
  \cup Optional("boolean", {"stdin", "stdinOnce", "tty"})
  \cup Optional("string", {"image", "imagePullPolicy", "terminationMessagePath",
                           "terminationMessagePolicy", "workingDir"})
  \cup Optional("strings", {"args", "command"})
  \cup Array("env",
      Required("string", {"name"})
      \cup Optional("string", {"value"})
      \cup Object("valueFrom",
          Object("configMapKeyRef", KeyReference)
          \cup Object("fieldRef", PodField)
          \cup Object("resourceFieldRef", ResourceField)
          \cup Object("secretKeyRef", KeyReference)))
  \cup Array("envFrom",
      Optional("string", {"prefix"})
      \cup Object("configMapRef", NamedReference)
      \cup Object("secretRef", NamedReference))
  \cup Object("lifecycle",
      Object("postStart", Handler)
      \cup Object("preStop", Handler))
  \cup Object("livenessProbe", HealthCheck)
  \cup Array("ports",
      Required("integer", {"containerPort"})
      \cup Optional("integer", {"hostPort"})
      \cup Optional("string", {"hostIP", "name", "protocol"}))
  \cup Object("readinessProbe", HealthCheck)
  \cup Object("resources", Optional("map", {"limits", "requests"}))
  \cup Object("securityContext",
      Optional("boolean", {"allowPrivilegeEscalation", "privileged", "readOnlyRootFilesystem",
                           "runAsNonRoot"})
      \cup Optional("integer", {"runAsGroup", "runAsUser"})
      \cup Optional("string", {"procMount"})
      \cup Object("capabilities", Optional("strings", {"add", "drop"}))
      \cup Object("seLinuxOptions", Optional("string", {"level", "role", "type", "user"}))
      \cup Object("seccompProfile",
          Required("string", {"type"})
          \cup Optional("string", {"localhostProfile"}))
      \cup Object("windowsOptions",
          Optional("boolean", {"hostProcess"})
          \cup Optional("string", {"gmsaCredentialSpec", "gmsaCredentialSpecName",
                                   "runAsUserName"})))
  \cup Object("startupProbe", HealthCheck)
  \cup Array("volumeDevices", Required("string", {"devicePath", "name"}))
  \cup Array("volumeMounts",
      Required("string", {"mountPath", "name"})
      \cup Optional("boolean", {"readOnly"})
      \cup Optional("string", {"mountPropagation", "subPath", "subPathExpr"}))

ItemSchema ==
  Required("string", {"key", "path"})
  \cup Optional("integer", {"mode"})

DownwardItemSchema ==
  Required("string", {"path"})
  \cup Optional("integer", {"mode"})
  \cup Object("fieldRef", PodField)
  \cup Object("resourceFieldRef", ResourceField)

VolumeSchema ==
  Optional("string", {"name"})
  \cup Object("configMap",
      Optional("boolean", {"optional"})
      \cup Optional("integer", {"defaultMode"})
      \cup Optional("string", {"name"})
      \cup Array("items", ItemSchema))
  \cup Object("downwardAPI",
      Optional("integer", {"defaultMode"})
      \cup Array("items", DownwardItemSchema))
  \cup Object("emptyDir", Optional("string", {"medium", "sizeLimit"}))
  \cup Object("gitRepo",
      Required("string", {"repository"})
      \cup Optional("string", {"directory", "revision"}))
  \cup Object("glusterfs",
      Required("string", {"endpoints", "path"})
      \cup Optional("boolean", {"readOnly"}))
  \cup Object("hostPath",
      Required("string", {"path"})
      \cup Optional("string", {"type"}))
  \cup Object("nfs",
      Required("string", {"path", "server"})
      \cup Optional("boolean", {"readOnly"}))
  \cup Object("projected",
      Optional("integer", {"defaultMode"})
      \cup Array("sources",
          Object("configMap",
              Optional("boolean", {"optional"})
              \cup Optional("string", {"name"})
              \cup Array("items", ItemSchema))
          \cup Object("downwardAPI", Array("items", DownwardItemSchema))
          \cup Object("secret",
              Optional("boolean", {"optional"})
              \cup Optional("string", {"name"})
              \cup Array("items", ItemSchema))
          \cup Object("serviceAccountToken",
              Required("string", {"path"})
              \cup Optional("integer", {"expirationSeconds"})
              \cup Optional("string", {"audience"}))))
  \cup Object("secret",
      Optional("boolean", {"optional"})
      \cup Optional("integer", {"defaultMode"})
      \cup Optional("string", {"secretName"})
      \cup Array("items", ItemSchema))

NodeSelectorSchema ==
  Array("matchExpressions",
      Required("string", {"key", "operator"})
      \cup Optional("strings", {"values"}))
  \cup Array("matchFields",
      Required("string", {"key", "operator"})
      \cup Optional("strings", {"values"}))

NodeAffinitySchema ==
  Array("preferredDuringSchedulingIgnoredDuringExecution",
      Required("integer", {"weight"})
      \cup RequiredObject("preference", NodeSelectorSchema))
  \cup Object("requiredDuringSchedulingIgnoredDuringExecution",
      RequiredArray("nodeSelectorTerms", NodeSelectorSchema))

PodSelectorSchema ==
  Required("string", {"topologyKey"})
  \cup Optional("strings", {"namespaces"})
  \cup Object("labelSelector", Labels)
  \cup Object("namespaceSelector", Labels)

PodAffinitySchema ==
  Array("preferredDuringSchedulingIgnoredDuringExecution",
      Required("integer", {"weight"})
      \cup RequiredObject("podAffinityTerm", PodSelectorSchema))
  \cup Array("requiredDuringSchedulingIgnoredDuringExecution", PodSelectorSchema)

TolerationSchema ==
  Optional("integer", {"tolerationSeconds"})
  \cup Optional("string", {"effect", "key", "operator", "value"})

SchedulingSchema ==
  Optional("map", {"nodeSelector"})
  \cup Object("backup",
      Optional("map", {"nodeSelector"})
      \cup Object("nodeAffinity", NodeAffinitySchema)
      \cup Object("podAffinity", PodAffinitySchema)
      \cup Object("podAntiAffinity", PodAffinitySchema)
      \cup Array("tolerations", TolerationSchema))
  \cup Object("nodeAffinity", NodeAffinitySchema)
  \cup Object("podAffinity", PodAffinitySchema)
  \cup Object("podAntiAffinity", PodAffinitySchema)
  \cup Array("tolerations", TolerationSchema)
  \cup Array("topologySpreadConstraints",
      Required("integer", {"maxSkew"})
      \cup Required("string", {"topologyKey", "whenUnsatisfiable"})
      \cup Optional("integer", {"minDomains"})
      \cup Optional("string", {"nodeAffinityPolicy", "nodeTaintsPolicy"})
      \cup Optional("strings", {"matchLabelKeys"})
      \cup Object("labelSelector", Labels))

ServicePortSchema ==
  Required("integer", {"port"})
  \cup Optional("int-or-string", {"targetPort"})
  \cup Optional("integer", {"nodePort"})
  \cup Optional("string", {"appProtocol", "name", "protocol"})

CredentialsSchema ==
  RequiredObject("password", Required("string", {"key", "name"}))
  \cup RequiredObject("username", Required("string", {"key", "name"}))

InstalledExtensionSchema ==
  Required("string", {"name", "postgresVersion", "publisher", "repository", "version"})
  \cup Optional("string", {"build"})
  \cup Optional("strings", {"extraMounts"})

PodsSchema ==
  Optional("boolean", {"disableConnectionPooling", "disableMetricsExporter",
                       "disablePostgresUtil"})
  \cup Optional("string", {"managementPolicy"})
  \cup Array("customContainers", ContainerSchema)
  \cup Array("customInitContainers", ContainerSchema)
  \cup Array("customVolumes", VolumeSchema)
  \cup RequiredObject("persistentVolume",
      Required("string", {"size"})
      \cup Optional("string", {"storageClass"}))
  \cup Object("resources", Optional("boolean", {"enableClusterLimitsRequirements"}))
  \cup Object("scheduling", SchedulingSchema)

ClusterSpecSchema ==
  Required("integer", {"instances"})
  \cup Optional("boolean", {"prometheusAutobind"})
  \cup Optional("string", {"sgInstanceProfile"})
  \cup Object("configurations",
      Optional("string", {"backupPath", "sgBackupConfig", "sgPoolingConfig",
                          "sgPostgresConfig"})
      \cup Array("backups",
          Required("string", {"sgObjectStorage"})
          \cup Optional("integer", {"retention"})
          \cup Optional("string", {"compression", "cronSchedule", "path"})
          \cup Object("performance",
              Optional("integer", {"downloadConcurrency", "maxDiskBandwidth",
                                   "maxNetworkBandwidth", "uploadConcurrency",
                                   "uploadDiskConcurrency"}))))
  \cup Object("distributedLogs", Optional("string", {"retention", "sgDistributedLogs"}))
  \cup Object("initialData",
      Object("restore",
          Optional("integer", {"downloadDiskConcurrency"})
          \cup Object("fromBackup",
              Optional("string", {"name", "target", "targetTimeline", "uid"})
              \cup Object("pointInTimeRecovery", Optional("string", {"restoreToTimestamp"}))))
      \cup Array("scripts",
          Optional("string", {"database", "name", "script"})
          \cup Object("scriptFrom",
              Object("configMapKeyRef", Optional("string", {"key", "name"}))
              \cup Object("secretKeyRef", Optional("string", {"key", "name"})))))
  \cup Object("managedSql",
      Optional("boolean", {"continueOnSGScriptError"})
      \cup Array("scripts",
          Optional("integer", {"id"})
          \cup Optional("string", {"sgScript"})))
  \cup Object("metadata",
      Object("annotations",
          Optional("map", {"allResources", "clusterPods", "primaryService", "replicasService",
                           "services"}))
      \cup Object("labels", Optional("map", {"clusterPods"})))
  \cup Object("nonProductionOptions",
      Optional("boolean", {"disableClusterPodAntiAffinity",
                           "disableClusterResourceRequirements",
                           "disablePatroniResourceRequirements",
                           "enableSetClusterCpuRequests", "enableSetClusterMemoryRequests",
                           "enableSetPatroniCpuRequests", "enableSetPatroniMemoryRequests"})
      \cup Optional("strings", {"enabledFeatureGates"}))
  \cup RequiredObject("pods", PodsSchema)
  \cup RequiredObject("postgres",
      Required("string", {"version"})
      \cup Optional("string", {"flavor"})
      \cup Array("extensions",
          Required("string", {"name"})
          \cup Optional("string", {"publisher", "repository", "version"}))
      \cup Object("ssl",
          Optional("boolean", {"enabled"})
          \cup Object("certificateSecretKeySelector", Required("string", {"key", "name"}))
          \cup Object("privateKeySecretKeySelector", Required("string", {"key", "name"}))))
  \cup Object("postgresServices",
      Object("primary",
          Optional("boolean", {"enabled"})
          \cup Optional("string", {"loadBalancerIP", "type"})
          \cup Optional("strings", {"externalIPs"})
          \cup Array("customPorts", ServicePortSchema))
      \cup Object("replicas",
          Optional("boolean", {"enabled"})
          \cup Optional("string", {"loadBalancerIP", "type"})
          \cup Optional("strings", {"externalIPs"})
          \cup Array("customPorts", ServicePortSchema)))
  \cup Object("replicateFrom",
      Object("instance",
          Optional("string", {"sgCluster"})
          \cup Object("external",
              Required("integer", {"port"})
              \cup Required("string", {"host"})))
      \cup Object("storage",
          Required("string", {"path", "sgObjectStorage"})
          \cup Object("performance",
              Optional("integer", {"downloadConcurrency", "maxDiskBandwidth",
                                   "maxNetworkBandwidth"})))
      \cup Object("users",
          RequiredObject("authenticator", CredentialsSchema)
          \cup RequiredObject("replication", CredentialsSchema)
          \cup RequiredObject("superuser", CredentialsSchema)))
  \cup Object("replication",
      Optional("integer", {"syncInstances"})
      \cup Optional("string", {"mode", "role"})
      \cup Array("groups",
          Required("integer", {"instances"})
          \cup Required("string", {"role"})
          \cup Optional("string", {"name"})))
  \cup Array("toInstallPostgresExtensions", InstalledExtensionSchema)

ClusterStatusSchema ==
  Optional("string", {"arch", "labelPrefix", "os"})
  \cup Array("conditions",
      Optional("string", {"lastTransitionTime", "message", "reason", "status", "type"}))
  \cup Object("dbOps",
      Object("majorVersionUpgrade",
          Optional("boolean", {"check", "clone", "dataChecksum", "link", "rollback"})
          \cup Optional("string", {"encoding", "locale", "primaryInstance",
                                   "sourceBackupPath", "sourcePostgresVersion",
                                   "sourceSgPostgresConfig", "targetPostgresVersion"})
          \cup Optional("strings", {"initialInstances"}))
      \cup Object("minorVersionUpgrade",
          Optional("string", {"primaryInstance", "sourcePostgresVersion",
                              "targetPostgresVersion"})
          \cup Optional("strings", {"initialInstances"}))
      \cup Object("restart",
          Optional("string", {"primaryInstance"})
          \cup Optional("strings", {"initialInstances"}))
      \cup Object("securityUpgrade",
          Optional("string", {"primaryInstance"})
          \cup Optional("strings", {"initialInstances"})))
  \cup Object("managedSql",
      Array("scripts",
          Optional("integer", {"id"})
          \cup Optional("string", {"completedAt", "failedAt", "startedAt", "updatedAt"})
          \cup Array("scripts",
              Optional("integer", {"id", "intents", "version"})
              \cup Optional("string", {"failure", "failureCode"}))))
  \cup Array("podStatuses",
      Required("string", {"name"})
      \cup Optional("boolean", {"pendingRestart", "primary"})
      \cup Optional("integer", {"replicationGroup"})
      \cup Array("installedPostgresExtensions", InstalledExtensionSchema))

DbOpsSpecSchema ==
  Required("string", {"op", "sgCluster"})
  \cup Optional("integer", {"maxRetries"})
  \cup Optional("string", {"runAt", "timeout"})
  \cup Object("benchmark",
      Required("string", {"type"})
      \cup Optional("string", {"connectionType"})
      \cup Object("pgbench",
          Required("string", {"databaseSize", "duration"})
          \cup Optional("boolean", {"usePreparedStatements"})
          \cup Optional("integer", {"concurrentClients", "threads"})))
  \cup Object("majorVersionUpgrade",
      Optional("boolean", {"check", "clone", "link"})
      \cup Optional("string", {"backupPath", "postgresVersion", "sgPostgresConfig"}))
  \cup Object("minorVersionUpgrade", Optional("string", {"method", "postgresVersion"}))
  \cup Object("repack",
      Optional("boolean", {"excludeExtension", "noAnalyze", "noKillBackend", "noOrder"})
      \cup Optional("string", {"waitTimeout"})
      \cup Array("databases",
          Required("string", {"name"})
          \cup Optional("boolean", {"excludeExtension", "noAnalyze", "noKillBackend",
                                    "noOrder"})
          \cup Optional("string", {"waitTimeout"})))
  \cup Object("restart",
      Optional("boolean", {"onlyPendingRestart"})
      \cup Optional("string", {"method"}))
  \cup Object("scheduling",
      Optional("map", {"nodeSelector"})
      \cup Object("nodeAffinity", NodeAffinitySchema)
      \cup Object("podAffinity", PodAffinitySchema)
      \cup Object("podAntiAffinity", PodAffinitySchema)
      \cup Array("tolerations", TolerationSchema))
  \cup Object("securityUpgrade", Optional("string", {"method"}))
  \cup Object("vacuum",
      Optional("boolean", {"analyze", "disablePageSkipping", "freeze", "full"})
      \cup Array("databases",
          Required("string", {"name"})
          \cup Optional("boolean", {"analyze", "disablePageSkipping", "freeze", "full"})))

DbOpsStatusSchema ==
  Optional("integer", {"opRetries"})
  \cup Optional("string", {"opStarted"})
  \cup Object("benchmark",
      Object("pgbench",
          Nullable("integer", {"transactionsProcessed"})
          \cup Nullable("number", {"scaleFactor"})
          \cup Object("latency",
              Object("average",
                  Nullable("number", {"value"})
                  \cup Optional("string", {"unit"}))
              \cup Object("standardDeviation",
                  Nullable("number", {"value"})
                  \cup Optional("string", {"unit"})))
          \cup Object("transactionsPerSecond",
              Object("excludingConnectionsEstablishing",
                  Nullable("number", {"value"})
                  \cup Optional("string", {"unit"}))
              \cup Object("includingConnectionsEstablishing",
                  Nullable("number", {"value"})
                  \cup Optional("string", {"unit"})))))
  \cup Array("conditions",
      Optional("string", {"lastTransitionTime", "message", "reason", "status", "type"}))
  \cup Object("majorVersionUpgrade",
      Optional("string", {"failure", "primaryInstance", "sourcePostgresVersion",
                          "targetPostgresVersion"})
      \cup Optional("strings", {"initialInstances", "pendingToRestartInstances",
                                "restartedInstances"}))
  \cup Object("minorVersionUpgrade",
      Optional("string", {"failure", "primaryInstance", "sourcePostgresVersion",
                          "switchoverFinalized", "switchoverInitiated",
                          "targetPostgresVersion"})
      \cup Optional("strings", {"initialInstances", "pendingToRestartInstances",
                                "restartedInstances"}))
  \cup Object("restart",
      Optional("string", {"failure", "primaryInstance", "switchoverFinalized",
                          "switchoverInitiated"})
      \cup Optional("strings", {"initialInstances", "pendingToRestartInstances",
                                "restartedInstances"}))
  \cup Object("securityUpgrade",
      Optional("string", {"failure", "primaryInstance", "switchoverFinalized",
                          "switchoverInitiated"})
      \cup Optional("strings", {"initialInstances", "pendingToRestartInstances",
                                "restartedInstances"}))

\* The two manifests.
ClusterSchema ==
  RequiredObject("spec", ClusterSpecSchema)
  \cup Object("status", ClusterStatusSchema)

DbOpsSchema ==
  RequiredObject("spec", DbOpsSpecSchema)
  \cup Object("status", DbOpsStatusSchema)

================================================================================
