----------------------------- MODULE FunctionIO -----------------------------
(***************************************************************************)
(* One call of RunCommand: the FunctionIO that arrived, the Runtime built  *)
(* from it, and the function that is running.  The transformation          *)
(* functions, each in a module of its own, act on these variables.         *)
(*                                                                         *)
(* Resource names are pairs, "<composite>-luks-key-2" is <<"luks-key", 2>>. *)
(* A composite is the record of the fields the functions look at; "rest"   *)
(* stands for the fields that VSHNPostgreSQL does not have (claimRef,      *)
(* compositionRef, resourceRefs): decoding drops them.                     *)
(***************************************************************************)
EXTENDS Runtime

VARIABLES
  request,    \* the FunctionIO read from the input, and the time of the run
  resources, composite, conn,  \* the Runtime's Desired
  scheme,     \* the Go types registered in the process-wide scheme
  io,         \* io.Desired
  results,    \* io.Results
  fn,         \* the transform to run next or running; 0 before NewRuntime
  iter        \* the iteration its loop is in; 0 before the loop

desired == <<resources, composite, conn>>
exec    == <<io, results, fn, iter>>

postgresFunctions ==
  <<"url-connection-detail", "user-alerting", "restart",
    "random-default-schedule", "encrypted-pvc-secret">>

Connection   == <<"connection", 0>>
Cluster      == <<"cluster", 0>>
AlertConfig  == <<"alertmanagerconfig", 0>>
AlertSecret  == <<"alertmanagerconfigsecret", 0>>
LuksKey(i)   == <<"luks-key", i>>
RestartOp(t) == <<"pg-restart", t>>

(* Types in the scheme once main has registered the StackGres API. *)
StartScheme == {"Object", "Secret", "VSHNPostgreSQL", "SGCluster", "SGDbOps"}

Synced == [resources |-> resources, composite |-> composite, conn |-> conn]

Running(name) == fn \in DOMAIN postgresFunctions /\ postgresFunctions[fn] = name

(* Faulty Exec: a Fatal result ends the run. *)
ReturnAndStop(severity) ==
  /\ io' = Synced'
  /\ results' = Append(results, severity)
  /\ fn' = IF severity = "Fatal" THEN Len(postgresFunctions) + 1 ELSE fn + 1
  /\ iter' = 0
  /\ UNCHANGED request

(* Faulty Exec: the result replaces those of the earlier functions. *)
ReturnLastResult(severity) ==
  /\ io' = Synced'
  /\ results' = <<severity>>
  /\ fn' = fn + 1
  /\ iter' = 0
  /\ UNCHANGED request

(* A function that returns, and the rest of Exec: whatever its result, its *)
(* changes are copied into the FunctionIO and the next function runs.      *)
Return(severity) ==
  /\ io' = Synced'
  /\ results' = Append(results, severity)
  /\ fn' = fn + 1
  /\ iter' = 0
  /\ UNCHANGED request

Continue(j) ==
  /\ iter' = j
  /\ UNCHANGED <<request, io, results, fn>>

NewRuntime ==
  /\ fn = 0
  /\ resources' = request.resources
  /\ composite' = request.composite
  /\ conn' = request.conn
  /\ io' = Synced'
  /\ fn' = 1
  /\ UNCHANGED <<request, scheme, results, iter>>
=============================================================================
