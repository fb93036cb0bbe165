# Verification of appcat-comp-functions

TLA+ specifications, model-checking configurations and machine-checked proofs
for the Crossplane composition functions of VSHN AppCat (`src/`). The program is
a gRPC server. Crossplane sends it a *FunctionIO* (what it observes and what the
composition rendered), the server builds a *Runtime* from it, runs five
transformation functions for PostgreSQL one after the other, and sends the
FunctionIO back with their changes and one result per function. Crossplane
applies the answer unless a result is Fatal.

## Inventory

| Component | State | Operations | What makes it correct |
|---|---|---|---|
| Runtime library, `runtime/{runtime,desired,observed}.go` | the lists of observed and desired resources, the connection details, the two composites; the process-wide scheme | `getFrom`, `Get`, `GetFromObject`, `Put`, `PutIntoObject`, `Remove`, `PutCompositeConnectionDetail`, `RemoveCompositeConnectionDetail`, `GetComposite`, `SetComposite`, `AddToScheme` | the lists behave as finite maps that keep their order; an overwritten kube object stays the same composed resource |
| Running the functions, `runtime/{run,types,result}.go` | the FunctionIO, its results, the function that is running | `NewRuntime`, `Exec`, `RunCommand`, `printFunctionIO` | all functions run whatever their results; the answer holds all parts of Desired |
| url-connection-detail, `url.go` | none | one function | a URL is complete and made from the observed secret, or nothing changes |
| user-alerting, `alerting.go` | the scheme (adds the Alertmanager types) | one function, three deployments | a configuration never comes without the secret of its receivers |
| restart, `restart.go` | none | one function with a loop over the observed resources | recent operations are kept, a pending restart is scheduled once |
| random-default-schedule, `schedule.go` | none, a random number | one function | defaults fall into their windows; user choices are kept |
| encrypted-pvc-secret, `encrypted_pvc.go`, `utils.go` | none, a random password | one function with a loop over the instances | every instance of an encrypted cluster has its key; a known key is never replaced |
| gRPC server, `main.go`, with the test client | the socket, the scheme shared by all requests, the calls under way | `RunFunction`, `main`, `cleanStart` | requests do not disturb each other; every call ends; a stopped server comes back |
| StackGres API types, `apis/stackgres/v1` | a manifest | reading it into `SGCluster` or `SGDbOps` and writing it back | a rewrite changes what the function set and nothing else |
| Reconciliation loop (external) | the cluster: composite, objects, secrets, operations | Crossplane, provider-kubernetes, StackGres | keys and operations survive repeated, delayed and failed runs; what was asked for arrives |
| Not modelled | | | see the last section |

How they interact: `main` calls `RunCommand` in one goroutine per request;
`RunCommand` calls `Exec` for each function; a function reads Observed and Desired
and writes Desired through the library; `Exec` copies Desired into the FunctionIO.
The only state shared between requests is the scheme. What one run writes is what
later runs observe, after Crossplane and provider-kubernetes have acted on it and
with any delay.

Hard behaviours: observed state that lags behind what was desired, early returns
in the middle of a loop, one failing function among five, two deployments into
one object, first-match lookups in lists, arithmetic across midnight, concurrent
access to the scheme. `PROJECT.json` lists them by line under `hazards`.

## Modules

| Module | Models | State and actions |
|---|---|---|
| `Runtime` | the library's lookups and updates as operators | a list of entries `[name, raw, extra]`; `Decode` overwrites only the fields that are present, `PutIntoObject` decodes the desired object over a fresh one, `Put` replaces the raw bytes only |
| `KeyedStore` | abstract: two finite maps, a composite, one snapshot at the end | one action per part, `Publish` |
| `DesiredStore` | any sequence of library calls on one Desired, then the last `Exec` and `printFunctionIO` | `resources`, `conn`, `composite`, `io`, `phase`, and `last`, the outcome of the last call; one action per method |
| `FunctionIO` | the state of one `RunCommand` and the frame of `Exec` | `fn` is the function that runs, `iter` the iteration of its loop; `Return` is a function's return with the rest of `Exec` |
| `Url`, `Alerting`, `Restart`, `Schedule`, `EncryptedPvc` | one transformation function each | one action, or one action per iteration where the function loops |
| `Pipeline` | `RunCommand` with the functions of `main.go` | `NewRuntime`, then the functions in turn |
| `Server` | `main.go` and its clients: processes that compete for the socket, calls that share the scheme of their process | `Start`, `CleanStart`, `Listen`, `Serve` are `main`; a call is sent, accepted, begins and ends its accesses to the scheme and is answered, while its client may give up; `Die` is a crash or the Go runtime's answer to concurrent map access |
| `Reconcile` | `Pipeline` in a cluster: what Crossplane, provider-kubernetes, StackGres and the user do between two runs | `Begin` takes the snapshot, `RunStep` is a step of `Pipeline`, `Apply` and its faulty variants use the answer; `objects` is what is desired and reported, `live` what exists, `volumes` the keys in use; `Listed` is the order in which Crossplane lists a set of resources |
| `VolumeKeys` | abstract: the key of each instance, its volume, and the keys given up | `Generate`, `Format`, `GiveUp`, `Replace` |
| `JsonTypes` | what `encoding/json` and a schema make of a manifest | a document maps the paths of its fields to values, of which the JSON type, zero or not, and of a number whether a `float32` holds it are told apart; a Go type and a schema are sets of fields; `RoundTrip` is Unmarshal, then Marshal |
| `SGClusterTypes`, `SGDbOpsTypes` | the generated Go types, field by field | one definition per group of neighbouring types; where the generator repeats a type under another name, one definition is the other |
| `StackGresCRDs` | the schemas those types were generated from, written down from the YAML | |
| `Manifests` | the functions that read a StackGres manifest, and the two that write it back | `AddPvcSecret`, `GetPendingRestart`, `KeepRestartOp` |
| `MCDesiredStore`, `MCPipeline`, `MCServer`, `MCReconcile`, `MCManifests` | instances for TLC | initial lists, FunctionIOs, the types each input puts, the first composite |
| `RuntimeProofs` | lemmas: what the library's operators do to a list without repeated names | |
| `DesiredStoreProofs`, `PipelineProofs`, `PipelineSafety`, `ServerProofs`, `ManifestsProofs`, `ReconcileProofs`, `LoopProofs` | theorems with their proofs | |

Conventions. `Nil` is an absent value, `Bad` is data that does not decode.
Resource names are pairs: `<composite>-luks-key-2` is `<<"luks-key", 2>>`.
A manifest is a record of the fields a function reads or writes. Operators whose
comment begins with "Faulty" are plausible wrong versions of the definition that
follows; each property is known to fail with one of them in its place
(`mutants` in `PROJECT.json`). No specification refers to them.

What the models take from the code and is easy to miss:
- `getFrom` returns the first resource of the name; its kind check compares a
  pointer with itself (`Runtime!GetFrom`).
- The observed side returns the sentinel `ErrNotFound` for a missing object and
  for one without a status; the desired side wraps its lookup error, so that the
  sentinel is lost (`ObservedManifest`, `DesiredManifest`).
- A rewritten kube object keeps the references it had; new ones count only if
  there were none.
- Slices are shared between the FunctionIO and the Runtime in between two
  functions. The last `Exec` overwrites every part of `io.Desired` and the answer
  is marshalled right after it, so `DesiredStore` models that copy only.
- `SetComposite` drops the fields the Go type does not have (`rest`).
- `RunFunction` never looks at its context, so a call outlives its client.
- `PutIntoObject` looks up two types in the scheme, that of the manifest and `Object`,
  and every request writes the scheme (`alerting.go:23`).
- `cleanStart` finds no file at the default address, which is abstract.
- A value in an `omitempty` field that is no pointer would be lost when it is zero; the
  generated types have a pointer there, and a plain value where the field is required.
- The numbers of the schemas that need not be integers, five fields of the results of a
  benchmark, are read into a `float32` (sgdbops.gen.go:720): a number with more digits is
  rounded, one close to zero becomes 0, and a manifest with one that is too large does not
  decode, so that `keepRecentRestartOps` passes over the operation.

## Runs

| Run | Question | Bounds |
|---|---|---|
| `desired_store` | Do the lists behave as ordered finite maps, does a kube object keep its identity, do the parts of Desired stay apart, and is the answer one snapshot? | three names, three Go types (one unregistered), one value, one reference; initial lists with generated names, with and without references, of another kind, undecodable; one connection detail with two values; the composite replaced. A second match needs two entries; a removal that disturbs the order of those it leaves needs three. |
| `pipeline` | In one `RunCommand`: is the URL right, are deployments and encrypted clusters complete, do defaults fit, are known keys and choices kept, are exactly the right restart operations desired, and does every run end? | three groups of FunctionIOs. *Configuration*: every combination of the four alerting parameters; every combination of the three schedule fields; ten states of the connection secret. *Encryption*: rendered cluster absent, undecodable, empty, with one or two instances; five observed states for each of two secrets; two instances are enough for a failure in the middle of the loop and for a secret beyond the last instance. *Restart*: operations one before, at and after the end of the retention time, missing a time, of another kind, unreadable; nine observed clusters. In all of them nine drawn times, on both sides of every hour and day boundary that matters, two new keys or a failing generator, a scheme with and without the Alertmanager types. |
| `server` | Do calls end and lookups succeed, and does the server come back? | one process, two calls, inputs that are no FunctionIO, put an Alertmanager type or a StackGres type; a file socket, two crashes. A race needs two calls; the second crash hits a process that has just come back. |
| `reconcile_keys` | In which ways is the key of an instance lost, before and after its volume is formatted? Is a run only thrown away for want of a new key? | one or two instances, two keys that a generator may give unless it fails, also in the middle of the loop, and one event (`MaxEvents`): a change (scaling up or down, encryption on or off), or a lost or partly applied answer. A key is lost or replaced by a run that follows one change or one fault; two keys tell a replaced one from a kept one. `VolumeKeysAreKept` and `VolumeKeysAreImplemented` prove the same for any number of both. |
| `reconcile_arrival` | Does the connection secret end up with the current URL, does it ever show a mixed or an older one, and does an instance get its key? Is a run only thrown away while the connection object is not reported? | from an empty encrypted cluster with one instance; the credentials appear in two steps; they are rotated once, or one answer is lost; everybody acts also in the middle of runs. That no instance of several is left out of a run is `EncryptedComplete`; `UrlNeverMovesBack` covers any number of lost and partly applied answers. |
| `reconcile_restart` | Does a pending restart survive until it is done, and is it done? | three points of time with a retention of one, so that an operation gets older than it; two changes among a new configuration and the update strategy; one lost answer |
| `manifests` | Do the Go types fit the schemas, and does a rewrite change only what the function set? | 2110 manifests: for each of the 1100 fields of the two schemas the smallest manifest that has it, with each kind of value (zero, other, null where allowed, empty list; for a number also with more digits than a `float32` has, too close to zero for one, and too large), and both manifests with every field; an operation is rewritten twice. Fields do not influence each other in the encoding, only parents their children; the theorems of `ManifestsProofs` hold for every manifest, with any combination of fields. |
| `get_kind` (violation) | runtime.go:105: does a successful `Get` return the kind asked for? | as `desired_store`, with two names |
| `new_key` (violation) | encrypted_pvc.go:80: is a key only generated when the secret does not exist yet? | the encryption group of `pipeline` |
| `server_race` (violation) | Makefile:46: is the server free of data races? | as `server`, on the abstract address, with a second process that may take over |
| `reconcile_stuck` (violation) | vshn-postgres.adoc:7: does the client get the URL, also after a partly applied answer? | as `reconcile_arrival`, one partly applied answer, no changes |
| `manifests_readable` (violation) | sgcluster.yaml:334: may a port be a name or a number? | as `manifests` |

The violations are the findings in `PROJECT.json`. In `new_key` TLC shows a
FunctionIO that observes the object of a LUKS secret, without a status yet, and
leaves `RunCommand` with another key for it. In `reconcile_stuck` the first answer is
applied without the connection object: from then on `url-connection-detail` is Fatal in
every run, and Crossplane applies nothing of a run with a Fatal result, the
connection object included.

Two more lines of the documentation do not say what the code does, and the models follow
the code: the connection detail is called `POSTGRESQL_URL` (url.go:24), not
`POSTGRES_URL` (vshn-postgres.adoc:7), and a request for redis does not get "what was
sent" (main.go:80), because grpc sends no response together with an error (`Received`
in `Server`).

`VolumeKeyKept` is true because it names the three ways in which a key is lost after
all (`excused` in `Reconcile`): scaling down, switching encryption off, and a report
that lags behind (`new_key`). So it does not show that those
losses cannot happen, only that there are no others; `KeyNeverReplaced` likewise speaks of
a secret that is observed with a key. A stronger property, that keys settle once nobody changes
anything, is not stated: with reports that always lag by one run, two generated keys may
replace each other forever.

### Fairness

- `Answered` (every run ends, with one result per function and all of Desired in the
  FunctionIO): weak fairness of the steps of a run. A run is one goroutine without locks,
  channels or I/O, which the Go scheduler keeps running.
- `CallsEnd`: weak fairness of the steps of each call, for the same reason; none of the
  client. `Recovers`: weak fairness of `main` in each process, which waits for nobody;
  Kubernetes starts a stopped container again, which is part of `Start`. Crashes are
  bounded and not fair.
- The liveness of `Reconcile`: Crossplane begins a run again and again, applies or rejects
  its answer, and a run that has begun ends, which is what `Answered` says and is assumed
  as `[]<>(~running \/ Finished)`; each action of provider-kubernetes and of StackGres is
  weakly fair for each resource by itself. The user, the clock and the faults are not
  fair: their number is bounded, and nothing may depend on them.

### What is assumed of the others in `Reconcile`

Crossplane deletes objects that are no longer desired before it writes, patches the
composite only where the run changed it, only adds to the connection secret, and uses
nothing of an answer with a Fatal result. When it stops in the middle of an answer, any of
the resources that differ from what exists may not have been written; whether the others
were written again makes no difference. provider-kubernetes creates and reports in any
order and with any delay; the deletion of an object and of what it manages is one step.
StackGres formats a volume with the key it finds first and keeps it when the cluster is
scaled down. The composition renders a namespace, a connection object and the cluster.
None of this is in the repository; the functions rely on it. In `reconcile_keys` the
others act only before a snapshot and after a run: a run reads nothing but its snapshot,
so its steps commute with theirs, and no reachable state between two runs is lost.

## Proofs

All theorems are checked by TLAPS for every value of the constants that meets the
named assumptions of the modules, which TLC evaluates in the runs.

`DesiredStoreProofs` proves all five properties of `desired_store`. The invariant is
`TypeOK /\ UniqueNames`: neither half is inductive alone, because types are
kept only if a lookup lands inside the list, and a lookup is the entry of that
name only if names are unique. `PositionIsIndex` states that the first match is
the only one. Two relations describe what a call does to a list, `Writes`
(one entry overwritten or appended) and `Removes` (one entry gone, the rest moved
up); `StepChanges` shows that every step of the specification is one of
these on one list, a change of the composite, or the final copy. From there
uniqueness (`NamesStayUnique`), order (`OrderIsKept`) and the
refinement of `KeyedStore` (`DesiredImplementsMaps`) are facts about
sequences. `IdentityIsKept` follows what `PutIntoObject` decodes over what.
Assumed: the lists that arrive have no name twice, kube objects are registered, and
resource names are admissible object names.

`PipelineProofs` proves that the schedule is right for every time that may be drawn
(`SchedulesAlwaysFit`) and that no function overwrites a choice
(`UserChoiceIsKept`). The invariant ties the desired composite to the function that is
running: as it arrived up to the schedule function, filled in for one drawn time
afterwards. `DefaultsFit` is the arithmetic of the window across midnight.
Assumed: a drawn time lies in `0 .. MaintenanceWindowRange - 1`, as
`rng.Int63n` returns it, and composites have the fields of their Go type.

`RuntimeProofs` holds what the other proofs need of the library: in a list without
repeated names the first match is the only one, `PutIntoObject` changes or appends
exactly one entry (`Puts`), and says what that entry then decodes to.

`PipelineSafety` proves the other safety properties of `pipeline`, all seven of them, and
the safety half of `Answered`, for every request: any number of instances, any observed
resources in any order, any combination of parameters. The functions that loop are several
steps each, so ordinary invariants suffice. `IInv` has these parts, none of which is
inductive without the others:
- `KeepsRendered`: what the composition rendered is in its place, and every other name
  is one that the functions use. Without it nothing can be said of what a `Put` overwrites.
- `Stage`: what the functions that have not run yet put is absent. A resource that
  `scheduleRestart` or `writeLuksSecret` would decode *over* an older one could otherwise
  inherit its fields.
- `RestartLoop` and `EncryptLoop`: within a loop, the operations or keys up to `iter` are
  there, with the manifest they should have, and no others.
- `LuksSecrets`: a LUKS secret that is desired holds the observed key or a generated one.
- the scheme only grows: a lookup that succeeds once succeeds in every later function.

From `IInv` the properties follow one by one; `ReceiverComplete` and `FatalReasons` speak
of results that were returned several functions ago and have their own induction
(`ReceiverStep`, `FatalStep`). `FatalReasons` lists what makes a function return Fatal,
branch by branch. It is no property of a run, since a single request cannot show whether a
reason goes away; `LoopProofs` needs it to say which reasons the loop leads to. `AnswersAreComplete` adds that the FunctionIO is
the Runtime's copy whenever no function is in its middle, so that a run that has ended has
one result per function and all of Desired in its answer. `RunsEnd` bounds the loops: a step
goes to the next function, or to the next iteration of a loop of at most `LoopEnd`
iterations, which only the request determines. With the fairness of the steps, which TLC's
`Answered` adds, every run ends. Assumed of a request is `Admissible`
(`RequestsAssumption`, which TLC evaluates on every instance): lists have no name
twice; the composition renders nothing under a name of the functions, and a cluster that
can be written back; a LUKS secret that is reported has bytes; a restart operation that is
reported has the time that is in its name. Each clause excludes only what Crossplane
and the functions themselves never produce.

`ServerProofs` proves that lookups succeed (`LookupsAlwaysSucceed`) for any number of
processes, calls, inputs and crashes. `Inv` says which types are registered at which line
of `main` (`Registered`), and of each call (`Sound`) that it is in a process that serves,
that its write of the Alertmanager types comes before its lookups, and that it has failed
only where the map has been written during an access. Assumed: the functions put only
types that some package registers (`Puts` in `PutTypes`). `ServerTypesCorrect`, which
includes that a process that listens is the one the socket leads to, has the hypothesis
`Exclusive`: the server is alone, or its address is abstract. The deployment meets the
first and the default address the second; with a file socket and two processes the
statement is false, since `cleanStart` removes the file of a server that runs.

`RaceNeedsTwoCalls` says what the finding of `server_race` takes: in every behaviour in
which no process serves two calls at a time (`[]OneAtATime`, which main.go:121 does not ask
of grpc) there is no race, no lookup fails, and an OK never comes with the results of a
failed one.
`CallsGoOn` is the safety half of `CallsEnd`: a step of a call that goes on is one access
less to begin or to end (`ToDo`), and giving up does not add to it.

`ManifestsProofs` proves `WrittenValid`, `RewriteKeeps` and `RewriteAdds` for *every*
manifest that the schemas allow (`AnySpec`), not only for the samples TLC starts from
(`StartsAreValid` says that those are among them), and for any number of rewrites.
`RewritesLoseOnlyDigits` says of every field that it comes back with its value, except the
storage class that is replaced, maps without entries, and the results of a benchmark that
a `float32` does not hold: those come back as another number, and are neither left out nor
null. The assumption `NumbersAreResults`, evaluated by TLC, says that no other field of the
two schemas is such a number. The
argument does not look at the 1100 fields: `TypesAgree`, which TLC checks on the
generated types and the schemas, says that both have the same fields and that those
without `omitempty` are the required ones; it is the hypothesis of the theorems, and
the rest holds for any pair of a type and a schema that agree. What is written at a path
depends on the objects above it, so the proof takes the uppermost one that is not
written (`Uppermost`, by the well-foundedness of the numbers).

`ReconcileProofs` proves the safety of `Reconcile` and that it implements `VolumeKeys`, for
any number of instances, runs, changes and faults, and for every interleaving. It uses
`PipelineSafety` for what a run does and adds what connects one run to the next:
- `SnapshotInv`: a snapshot of a well-typed cluster is an `Admissible` request. What
  `RequestsAssumption` demands of `Requests` is shown here of every request that the
  functions' own answers lead to, so `PipelineSafety` holds of every run of the loop.
- `RunInv`, while a run is under way: the invariants of `PipelineSafety`, what the snapshot
  holds (`SnapshotOK`), and that all it asks for has the form the controllers expect
  (`Asks`). Without `Asks` an answer could put an object of another kind under the name of
  a key.
- `KeyOK`, for each instance whose key is not given up: what its kube object asks for, what
  that object reports, what the secret holds, what the volume was formatted with and what
  the run has observed are the same key. `VolumeKeyKept` is one of these equalities and
  is not inductive alone: the next run writes what was reported, so the report must agree
  with the secret, and a snapshot may be older than both.

`ClusterIsTyped` and `VolumeKeysAreKept` follow from `RInv`. `VolumeKeysAreImplemented`
maps each step to one of `VolumeKeys` or to none; the step to look at is `Applied`, where
`KeyInAnswer` shows that an answer holds the key of every instance that it does not give
up. `RestartsAreNotInterrupted` rests on `RestartOpsExact` of the run whose answer is
applied. Assumed: `Listed` lists each resource once; the composition and the user leave
user alerting unconfigured (`IsXR`; `Pipeline` has it, and no key depends on it); and
`Nil` and `Bad` differ from each other and from all manifests, times and versions.

`LoopProofs` puts the runs and the cluster together.
- `EveryRunIsSafe`: all that `PipelineSafety` and `PipelineProofs` prove of a run on an
  admissible request holds of every run of the loop, at every step of it, with the
  controllers acting in between. `RunCases` is the argument: whatever the others do, a run
  starts from a snapshot, makes a step of `Pipeline`, stutters, or is over.
- `RunsAreRejectedForTwoReasons` states `RejectedForSecretOrKey`, of which `reconcile_arrival`
  reaches the first half and `reconcile_keys` the second: of the reasons for a Fatal
  result in `FatalReasons`, the loop by itself leads to two. The namespace is known and the
  connection secret is not reported, or an instance without a reported secret gets no key.
  The first is a matter of waiting that the code treats as Fatal nevertheless, unlike all
  other waiting, and that is why `reconcile_stuck` finds what it finds. It assumes that data
  that does not decode is no composite.
- `UrlNeverMovesBack` states `UrlMovesForward`. The property is not inductive: the
  credentials are copied from StackGres to the secret, to the report of its object, to the
  snapshot, to the connection details of the run, and into the connection secret of the
  composite. `UrlInv` says that each of these copies is as old as the one before it or
  older (`Behind`), and `UrlIsFresh` that a run makes no URL of an incomplete one.
- `StrandedForever` generalises the finding of `reconcile_stuck`: TLC shows one behaviour with
  bounded faults and changes; the theorem says that no number of runs, no controller and no
  change by the user leads out of it. `WholeAnswersDoNotStrand` is the other
  direction: it takes a partly applied answer to get there, under the hypothesis that
  the behaviour does not start there.

An earlier form of `NotInterrupted`, that a running restart is only deleted while the
user wants restarts on occasion, could not be proved, and is false: with four changes and
five points of time TLC switches the strategy there and back, which deletes an operation
that is done; a run that still sees the old condition asks for it again; and while the next run,
which sees the condition cleared and no report of the operation, is under way, the operation
is created again and starts. What protects an operation is what the last run has
seen (`Awaited`), and with this the property holds for those bounds, too.

Only model-checked: liveness (`Answered`, `CallsEnd`, `Recovers`, `KeysArrive`,
`RestartHappens`, `UrlConverges`), which is out of the prover's reach (of `Answered` and
`CallsEnd` the parts that need no fairness are proved, see above), and `TypesAgree`, a
comparison of two finite tables that has nothing to generalise over; it is the hypothesis
of the theorems in `ManifestsProofs`.

## Plan

The loop with user alerting configured: `SnapshotInv` shows without it that the functions'
own answers lead to `Admissible` requests only.

## Not modelled

- `zz_generated.deepcopy.go` (9905 lines): the program never copies a StackGres object.
- The logger: wraps zap, and no property is about log lines. The text of results.
- The encoding of FunctionIOs in YAML and of other objects in JSON, beyond what
  `Decode`, `rest` and `JsonTypes` keep of it; the metadata of manifests. Of a number only
  whether a `float32` holds it is modelled; integers are taken to fit an `int`. Decoding into a
  list that already has elements, which no caller of the library does.
- `VSHNPostgreSQL` is a type of another repository: what its rewrite by
  `random-default-schedule` drops is kept in the field `rest` of a composite, not
  field by field.
