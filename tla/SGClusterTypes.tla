------------------------------ MODULE SGClusterTypes ------------------------------
\* The Go type SGCluster (apis/stackgres/v1/sgcluster.gen.go, sgcluster.go) as the fields its
\* struct tags give it: what encoding/json reads into it and writes out of it.  metadata is left
\* out.
EXTENDS JsonTypes

\* References and selectors that several types repeat: each stands for every generated type
\* with these fields, and is mapped to its first.
KeyRef ==
  Values("string", {"key"})
  \cup Pointers("string", {"name"})
  \cup Pointers("bool", {"optional"})

OptionalRef ==
  Pointers("string", {"name"})
  \cup Pointers("bool", {"optional"})

LabelSelector ==
  Maps({"matchLabels"})
  \cup Slice("matchExpressions",
      Values("string", {"key", "operator"})
      \cup Pointers("strings", {"values"}))

FieldRef ==
  Pointers("string", {"apiVersion"})
  \cup Values("string", {"fieldPath"})

ResourceFieldRef ==
  Pointers("string", {"containerName", "divisor"})
  \cup Values("string", {"resource"})

\* One generated struct per hook and per probe holds the same three ways to act.
ProbeHandler ==
  Struct("exec", Pointers("strings", {"command"}))
  \cup Struct("httpGet",
      Pointers("string", {"host", "path", "scheme"})
      \cup Values("string", {"port"})
      \cup Slice("httpHeaders", Values("string", {"name", "value"})))
  \cup Struct("tcpSocket",
      Pointers("string", {"host"})
      \cup Values("string", {"port"}))

\* A fault: the field that Kubernetes added to probes last is not generated.
ProbeWithoutGracePeriod ==
  Pointers("int", {"failureThreshold", "initialDelaySeconds", "periodSeconds",
                   "successThreshold", "timeoutSeconds"})
  \cup ProbeHandler

Probe ==
  Pointers("int", {"failureThreshold", "initialDelaySeconds", "periodSeconds",
                   "successThreshold", "terminationGracePeriodSeconds", "timeoutSeconds"})
  \cup ProbeHandler

\* spec.pods.customContainers[]: its fields, by the order their types have in the file.
ContainerEnv ==
  Slice("env",
      Values("string", {"name"})
      \cup Pointers("string", {"value"})
      \cup Struct("valueFrom",
          Struct("configMapKeyRef", KeyRef)
          \cup Struct("fieldRef", FieldRef)
          \cup Struct("resourceFieldRef", ResourceFieldRef)
          \cup Struct("secretKeyRef", KeyRef)))
  \cup Slice("envFrom",
      Pointers("string", {"prefix"})
      \cup Struct("configMapRef", OptionalRef)
      \cup Struct("secretRef", OptionalRef))

ContainerLifecycle ==
  Struct("lifecycle",
      Struct("postStart", ProbeHandler)
      \cup Struct("preStop", ProbeHandler))

ContainerLivenessAndPorts ==
  Struct("livenessProbe", Probe)
  \cup Slice("ports",
      Values("int", {"containerPort"})
      \cup Pointers("string", {"hostIP", "name", "protocol"})
      \cup Pointers("int", {"hostPort"}))

ContainerReadinessAndResources ==
  Struct("readinessProbe", Probe)
  \cup Struct("resources", Maps({"limits", "requests"}))

ContainerSecurityContext ==
  Struct("securityContext",
      Pointers("bool", {"allowPrivilegeEscalation", "privileged", "readOnlyRootFilesystem",
                        "runAsNonRoot"})
      \cup Pointers("string", {"procMount"})
      \cup Pointers("int", {"runAsGroup", "runAsUser"})
      \cup Struct("capabilities", Pointers("strings", {"add", "drop"}))
      \cup Struct("seLinuxOptions", Pointers("string", {"level", "role", "type", "user"}))
      \cup Struct("seccompProfile",
          Pointers("string", {"localhostProfile"})
          \cup Values("string", {"type"}))
      \cup Struct("windowsOptions",
          Pointers("string", {"gmsaCredentialSpec", "gmsaCredentialSpecName", "runAsUserName"})
          \cup Pointers("bool", {"hostProcess"})))

ContainerStartupAndVolumes ==
  Struct("startupProbe", Probe)
  \cup Slice("volumeDevices", Values("string", {"devicePath", "name"}))
  \cup Slice("volumeMounts",
      Values("string", {"mountPath", "name"})
      \cup Pointers("string", {"mountPropagation", "subPath", "subPathExpr"})
      \cup Pointers("bool", {"readOnly"}))

Container ==
  Pointers("strings", {"args", "command"})
  \cup Pointers("string", {"image", "imagePullPolicy", "terminationMessagePath",
                           "terminationMessagePolicy", "workingDir"})
  \cup Values("string", {"name"})
  \cup Pointers("bool", {"stdin", "stdinOnce", "tty"})
  \cup ContainerEnv
  \cup ContainerLifecycle
  \cup ContainerLivenessAndPorts
  \cup ContainerReadinessAndResources
  \cup ContainerSecurityContext
  \cup ContainerStartupAndVolumes

\* spec.pods.customInitContainers[]: types of their own, with the fields of a container.
InitContainerEnv == ContainerEnv

InitContainerLifecycle == ContainerLifecycle

InitContainerLivenessAndPorts == ContainerLivenessAndPorts

InitContainerReadinessAndResources == ContainerReadinessAndResources

InitContainerSecurityContext == ContainerSecurityContext

InitContainerStartupAndVolumes == ContainerStartupAndVolumes

InitContainer ==
  Pointers("strings", {"args", "command"})
  \cup Pointers("string", {"image", "imagePullPolicy", "terminationMessagePath",
                           "terminationMessagePolicy", "workingDir"})
  \cup Values("string", {"name"})
  \cup Pointers("bool", {"stdin", "stdinOnce", "tty"})
  \cup InitContainerEnv
  \cup InitContainerLifecycle
  \cup InitContainerLivenessAndPorts
  \cup InitContainerReadinessAndResources
  \cup InitContainerSecurityContext
  \cup InitContainerStartupAndVolumes

\* spec.pods.customVolumes[].
KeyItems ==
  Values("string", {"key", "path"})
  \cup Pointers("int", {"mode"})

DownwardAPIItem ==
  Pointers("int", {"mode"})
  \cup Values("string", {"path"})
  \cup Struct("fieldRef", FieldRef)
  \cup Struct("resourceFieldRef", ResourceFieldRef)

VolumeFromAPI ==
  Struct("configMap",
      Pointers("int", {"defaultMode"})
      \cup Pointers("string", {"name"})
      \cup Pointers("bool", {"optional"})
      \cup Slice("items", KeyItems))
  \cup Struct("downwardAPI",
      Pointers("int", {"defaultMode"})
      \cup Slice("items", DownwardAPIItem))

VolumeFromStorage ==
  Struct("emptyDir", Pointers("string", {"medium", "sizeLimit"}))
  \cup Struct("gitRepo",
      Pointers("string", {"directory", "revision"})
      \cup Values("string", {"repository"}))
  \cup Struct("glusterfs",
      Values("string", {"endpoints", "path"})
      \cup Pointers("bool", {"readOnly"}))
  \cup Struct("hostPath",
      Values("string", {"path"})
      \cup Pointers("string", {"type"}))
  \cup Struct("nfs",
      Values("string", {"path", "server"})
      \cup Pointers("bool", {"readOnly"}))

VolumeProjected ==
  Struct("projected",
      Pointers("int", {"defaultMode"})
      \cup Slice("sources",
          Struct("configMap",
              Pointers("string", {"name"})
              \cup Pointers("bool", {"optional"})
              \cup Slice("items", KeyItems))
          \cup Struct("downwardAPI", Slice("items", DownwardAPIItem))
          \cup Struct("secret",
              Pointers("string", {"name"})
              \cup Pointers("bool", {"optional"})
              \cup Slice("items", KeyItems))
          \cup Struct("serviceAccountToken",
              Pointers("string", {"audience"})
              \cup Pointers("int", {"expirationSeconds"})
              \cup Values("string", {"path"}))))

VolumeSecret ==
  Struct("secret",
      Pointers("int", {"defaultMode"})
      \cup Pointers("bool", {"optional"})
      \cup Pointers("string", {"secretName"})
      \cup Slice("items", KeyItems))

CustomVolume ==
  Pointers("string", {"name"})
  \cup VolumeFromAPI
  \cup VolumeFromStorage
  \cup VolumeProjected
  \cup VolumeSecret

\* spec.pods.scheduling, and the scheduling of backups, which repeats every type.
NodeSelectorTerm ==
  Slice("matchExpressions",
      Values("string", {"key", "operator"})
      \cup Pointers("strings", {"values"}))
  \cup Slice("matchFields",
      Values("string", {"key", "operator"})
      \cup Pointers("strings", {"values"}))

PodAffinityTerm ==
  Pointers("strings", {"namespaces"})
  \cup Values("string", {"topologyKey"})
  \cup Struct("labelSelector", LabelSelector)
  \cup Struct("namespaceSelector", LabelSelector)

NodeAffinity ==
  Struct("nodeAffinity",
      Slice("preferredDuringSchedulingIgnoredDuringExecution",
          Values("int", {"weight"})
          \cup StructValue("preference", NodeSelectorTerm))
      \cup Struct("requiredDuringSchedulingIgnoredDuringExecution",
          SliceValue("nodeSelectorTerms", NodeSelectorTerm)))

PodAffinity ==
  Struct("podAffinity",
      Slice("preferredDuringSchedulingIgnoredDuringExecution",
          Values("int", {"weight"})
          \cup StructValue("podAffinityTerm", PodAffinityTerm))
      \cup Slice("requiredDuringSchedulingIgnoredDuringExecution", PodAffinityTerm))

PodAntiAffinity ==
  Struct("podAntiAffinity",
      Slice("preferredDuringSchedulingIgnoredDuringExecution",
          Values("int", {"weight"})
          \cup StructValue("podAffinityTerm", PodAffinityTerm))
      \cup Slice("requiredDuringSchedulingIgnoredDuringExecution", PodAffinityTerm))

\* A fault: the time to tolerate has lost its omitempty.
TolerationsWithoutOmitempty ==
  Slice("tolerations",
      Pointers("string", {"effect", "key", "operator", "value"})
      \cup Nullables("int", {"tolerationSeconds"}))

\* A fault: the time to tolerate is no pointer, so none reads as zero.
TolerationsWithoutPointer ==
  Slice("tolerations",
      Pointers("string", {"effect", "key", "operator", "value"})
      \cup Values("int", {"tolerationSeconds"}))

Tolerations ==
  Slice("tolerations",
      Pointers("string", {"effect", "key", "operator", "value"})
      \cup Pointers("int", {"tolerationSeconds"}))

TopologySpread ==
  Slice("topologySpreadConstraints",
      Pointers("strings", {"matchLabelKeys"})
      \cup Values("int", {"maxSkew"})
      \cup Pointers("int", {"minDomains"})
      \cup Pointers("string", {"nodeAffinityPolicy", "nodeTaintsPolicy"})
      \cup Values("string", {"topologyKey", "whenUnsatisfiable"})
      \cup Struct("labelSelector", LabelSelector))

BackupNodeAffinity == NodeAffinity

BackupPodAffinity == PodAffinity

BackupPodAntiAffinity == PodAntiAffinity

BackupTolerations == Tolerations

BackupScheduling ==
  Maps({"nodeSelector"})
  \cup BackupNodeAffinity
  \cup BackupPodAffinity
  \cup BackupPodAntiAffinity
  \cup BackupTolerations

PodsScheduling ==
  Maps({"nodeSelector"})
  \cup Struct("backup", BackupScheduling)
  \cup NodeAffinity
  \cup PodAffinity
  \cup PodAntiAffinity
  \cup Tolerations
  \cup TopologySpread

\* spec.pods.
VolumeAndResources ==
  StructValue("persistentVolume",
      Values("string", {"size"})
      \cup Pointers("string", {"storageClass"}))
  \cup Struct("resources", Pointers("bool", {"enableClusterLimitsRequirements"}))

Pods ==
  Pointers("bool", {"disableConnectionPooling", "disableMetricsExporter",
                    "disablePostgresUtil"})
  \cup Pointers("string", {"managementPolicy"})
  \cup Slice("customContainers", Container)
  \cup Slice("customInitContainers", InitContainer)
  \cup Slice("customVolumes", CustomVolume)
  \cup VolumeAndResources
  \cup Struct("scheduling", PodsScheduling)

\* spec.
Configurations ==
  Struct("configurations",
      Pointers("string", {"backupPath", "sgBackupConfig", "sgPoolingConfig",
                          "sgPostgresConfig"})
      \cup Slice("backups",
          Pointers("string", {"compression", "cronSchedule", "path"})
          \cup Pointers("int", {"retention"})
          \cup Values("string", {"sgObjectStorage"})
          \cup Struct("performance",
              Pointers("int", {"downloadConcurrency", "maxDiskBandwidth",
                               "maxNetworkBandwidth", "uploadConcurrency",
                               "uploadDiskConcurrency"}))))

LogsAndInitialData ==
  Struct("distributedLogs", Pointers("string", {"retention", "sgDistributedLogs"}))
  \cup Struct("initialData",
      Struct("restore",
          Pointers("int", {"downloadDiskConcurrency"})
          \cup Struct("fromBackup",
              Pointers("string", {"name", "target", "targetTimeline", "uid"})
              \cup Struct("pointInTimeRecovery", Pointers("string", {"restoreToTimestamp"}))))
      \cup Slice("scripts",
          Pointers("string", {"database", "name", "script"})
          \cup Struct("scriptFrom",
              Struct("configMapKeyRef", Pointers("string", {"key", "name"}))
              \cup Struct("secretKeyRef", Pointers("string", {"key", "name"})))))

ManagedSqlAndMetadata ==
  Struct("managedSql",
      Pointers("bool", {"continueOnSGScriptError"})
      \cup Slice("scripts",
          Pointers("int", {"id"})
          \cup Pointers("string", {"sgScript"})))
  \cup Struct("metadata",
      Struct("annotations",
          Maps({"allResources", "clusterPods", "primaryService", "replicasService",
                "services"}))
      \cup Struct("labels", Maps({"clusterPods"})))

NonProductionOptions ==
  Struct("nonProductionOptions",
      Pointers("bool", {"disableClusterPodAntiAffinity", "disableClusterResourceRequirements",
                        "disablePatroniResourceRequirements", "enableSetClusterCpuRequests",
                        "enableSetClusterMemoryRequests", "enableSetPatroniCpuRequests",
                        "enableSetPatroniMemoryRequests"})
      \cup Pointers("strings", {"enabledFeatureGates"}))

Postgres ==
  StructValue("postgres",
      Pointers("string", {"flavor"})
      \cup Values("string", {"version"})
      \cup Slice("extensions",
          Values("string", {"name"})
          \cup Pointers("string", {"publisher", "repository", "version"}))
      \cup Struct("ssl",
          Pointers("bool", {"enabled"})
          \cup Struct("certificateSecretKeySelector", Values("string", {"key", "name"}))
          \cup Struct("privateKeySecretKeySelector", Values("string", {"key", "name"}))))

CustomPort ==
  Pointers("string", {"appProtocol", "name", "protocol", "targetPort"})
  \cup Pointers("int", {"nodePort"})
  \cup Values("int", {"port"})

PostgresServices ==
  Struct("postgresServices",
      Struct("primary",
          Pointers("bool", {"enabled"})
          \cup Pointers("strings", {"externalIPs"})
          \cup Pointers("string", {"loadBalancerIP", "type"})
          \cup Slice("customPorts", CustomPort))
      \cup Struct("replicas",
          Pointers("bool", {"enabled"})
          \cup Pointers("strings", {"externalIPs"})
          \cup Pointers("string", {"loadBalancerIP", "type"})
          \cup Slice("customPorts", CustomPort)))

UserCredentials ==
  StructValue("password", Values("string", {"key", "name"}))
  \cup StructValue("username", Values("string", {"key", "name"}))

ReplicateFrom ==
  Struct("replicateFrom",
      Struct("instance",
          Pointers("string", {"sgCluster"})
          \cup Struct("external",
              Values("string", {"host"})
              \cup Values("int", {"port"})))
      \cup Struct("storage",
          Values("string", {"path", "sgObjectStorage"})
          \cup Struct("performance",
              Pointers("int", {"downloadConcurrency", "maxDiskBandwidth",
                               "maxNetworkBandwidth"})))
      \cup Struct("users",
          StructValue("authenticator", UserCredentials)
          \cup StructValue("replication", UserCredentials)
          \cup StructValue("superuser", UserCredentials)))

Replication ==
  Struct("replication",
      Pointers("string", {"mode", "role"})
      \cup Pointers("int", {"syncInstances"})
      \cup Slice("groups",
          Values("int", {"instances"})
          \cup Pointers("string", {"name"})
          \cup Values("string", {"role"})))

ToInstallPostgresExtensions ==
  Slice("toInstallPostgresExtensions",
      Pointers("string", {"build"})
      \cup Pointers("strings", {"extraMounts"})
      \cup Values("string", {"name", "postgresVersion", "publisher", "repository", "version"}))

SGClusterSpec ==
  Values("int", {"instances"})
  \cup Pointers("bool", {"prometheusAutobind"})
  \cup Pointers("string", {"sgInstanceProfile"})
  \cup Configurations
  \cup LogsAndInitialData
  \cup ManagedSqlAndMetadata
  \cup NonProductionOptions
  \cup StructValue("pods", Pods)
  \cup Postgres
  \cup PostgresServices
  \cup ReplicateFrom
  \cup Replication
  \cup ToInstallPostgresExtensions

\* status.
DbOpsStatus ==
  Struct("dbOps",
      Struct("majorVersionUpgrade",
          Pointers("bool", {"check", "clone", "dataChecksum", "link", "rollback"})
          \cup Pointers("string", {"encoding", "locale", "primaryInstance",
                                   "sourceBackupPath", "sourcePostgresVersion",
                                   "sourceSgPostgresConfig", "targetPostgresVersion"})
          \cup Pointers("strings", {"initialInstances"}))
      \cup Struct("minorVersionUpgrade",
          Pointers("strings", {"initialInstances"})
          \cup Pointers("string", {"primaryInstance", "sourcePostgresVersion",
                                   "targetPostgresVersion"}))
      \cup Struct("restart",
          Pointers("strings", {"initialInstances"})
          \cup Pointers("string", {"primaryInstance"}))
      \cup Struct("securityUpgrade",
          Pointers("strings", {"initialInstances"})
          \cup Pointers("string", {"primaryInstance"})))

ManagedSqlAndPodStatuses ==
  Struct("managedSql",
      Slice("scripts",
          Pointers("string", {"completedAt", "failedAt", "startedAt", "updatedAt"})
          \cup Pointers("int", {"id"})
          \cup Slice("scripts",
              Pointers("string", {"failure", "failureCode"})
              \cup Pointers("int", {"id", "intents", "version"}))))
  \cup Slice("podStatuses",
      Values("string", {"name"})
      \cup Pointers("bool", {"pendingRestart", "primary"})
      \cup Pointers("int", {"replicationGroup"})
      \cup Slice("installedPostgresExtensions",
          Pointers("string", {"build"})
          \cup Pointers("strings", {"extraMounts"})
          \cup Values("string", {"name", "postgresVersion", "publisher", "repository",
                                 "version"})))

SGClusterStatus ==
  Pointers("string", {"arch", "labelPrefix", "os"})
  \cup Slice("conditions",
      Pointers("string", {"lastTransitionTime", "message", "reason", "status", "type"}))
  \cup DbOpsStatus
  \cup ManagedSqlAndPodStatuses

\* The manifest; omitempty does nothing on a field that is a struct.
SGCluster ==
  StructValue("spec", SGClusterSpec)
  \cup StructValue("status", SGClusterStatus)

================================================================================
