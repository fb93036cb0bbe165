------------------------------- MODULE Restart ------------------------------
(***************************************************************************)
(* The restart function (restart.go): restart operations that are recent   *)
(* enough are kept, and a new one is scheduled when the cluster reports a  *)
(* pending restart.  Times are numbers; 0 is Go's zero time.               *)
(***************************************************************************)
EXTENDS FunctionIO

CONSTANT Retention  \* sgDbOpsRestartRetention

ASSUME RetentionAssumption == Retention \in Nat

(* Faulty retention: an operation at its very end is dropped. *)
IsYoungRestart(n) ==
  LET op == ObservedManifest(request.observed, n) IN
  /\ n[1] = "pg-restart"
  /\ op.err = "none"
  /\ op.obj.op = "restart" /\ op.obj.runAt \notin {Nil, Bad}
  /\ op.obj.runAt > request.now - Retention

(* The observed operation of resource n is one that keepRecentRestartOps   *)
(* puts into the desired resources.                                        *)
IsRecentRestart(n) ==
  LET op == ObservedManifest(request.observed, n) IN
  /\ n[1] = "pg-restart"
  /\ op.err = "none"
  /\ op.obj.op = "restart" /\ op.obj.runAt \notin {Nil, Bad}
  /\ op.obj.runAt >= request.now - Retention

(* Faulty status: it is compared with "true" instead of being parsed. *)
IsPendingInLowerCase(cond) ==
  /\ cond.type = "PendingRestart" /\ cond.status = "true"
  /\ cond.at \notin {Nil, Bad}

(* A condition that gives a time at which a restart became necessary. *)
IsPending(cond) ==
  /\ cond.type = "PendingRestart" /\ cond.status = "True"
  /\ cond.at \notin {Nil, Bad}

(* getPendingRestart: the transition time of the first such condition. *)
PendingRestart(conditions) ==
  LET i == SelectInSeq(conditions, IsPending) IN
  IF i = 0 THEN 0 ELSE conditions[i].at

(* SGDbOps to restart the cluster at time t. *)
RestartAt(t) == [kind |-> "SGDbOps", op |-> "restart", runAt |-> t]

StartRestart ==
  /\ Running("restart") /\ iter = 0
  /\ UNCHANGED <<desired, scheme>>
  /\ IF composite = Bad THEN Return("Fatal") ELSE Continue(1)

(* One iteration of the loop of keepRecentRestartOps. *)
KeepRecentRestartOp ==
  LET n == request.observed[iter].name
      p == PutIntoObject(resources, scheme, ObservedManifest(request.observed, n).obj, n, {})
  IN /\ Running("restart") /\ iter \in DOMAIN request.observed
     /\ UNCHANGED <<composite, conn, scheme>>
     /\ IF IsRecentRestart(n)
        THEN resources' = p.list
             /\ IF p.err = "none" THEN Continue(iter + 1) ELSE Return("Fatal")
        ELSE UNCHANGED resources /\ Continue(iter + 1)

(* The rest of transformRestart, after the loop. *)
ScheduleRestart ==
  LET cluster == ObservedManifest(request.observed, Cluster)
      time    == PendingRestart(cluster.obj.conditions)
      p       == PutIntoObject(resources, scheme, RestartAt(time), RestartOp(time), {})
  IN /\ Running("restart") /\ iter = Len(request.observed) + 1
     /\ UNCHANGED <<composite, conn, scheme>>
     /\ IF composite.strategy = "OnRestart"
        THEN UNCHANGED resources /\ Return("Normal")
        ELSE IF cluster.err # "none"
        THEN UNCHANGED resources /\ Return("Warning")
        ELSE IF time = 0
        THEN UNCHANGED resources /\ Return("Normal")
        ELSE resources' = p.list /\ Return(IF p.err = "none" THEN "Normal" ELSE "Fatal")

TransformRestart == StartRestart \/ KeepRecentRestartOp \/ ScheduleRestart
=============================================================================
