------------------------------ MODULE Alerting ------------------------------
(***************************************************************************)
(* The user-alerting function (alerting.go): it deploys the Alertmanager   *)
(* configuration of the user, by reference or from a template, and a copy  *)
(* of the secret the configuration needs.                                  *)
(***************************************************************************)
EXTENDS FunctionIO

Patches(name, path) == {[from |-> name, path |-> path]}

AlertmanagerConfig(name, comp, spec) ==
  [kind |-> "AlertmanagerConfig", meta |-> name, ns |-> comp.ns, data |-> spec]

DeployFromRef(list, comp, types) ==
  PutIntoObject(list, types, AlertmanagerConfig("postgresql-alertmanagerconfig", comp, Nil),
                AlertConfig, Patches(comp.ref, "spec"))

DeployFromTemplate(list, comp, types) ==
  PutIntoObject(list, types, AlertmanagerConfig(comp.secretRef, comp, comp.template),
                AlertConfig, {})

(* Faulty deploySecretRef: the copy goes under the configuration's name. *)
DeploySecretOverConfig(list, comp, types) ==
  PutIntoObject(list, types,
                [kind |-> "Secret", meta |-> comp.secretRef, ns |-> comp.ns, data |-> Nil],
                AlertConfig, Patches(comp.secretRef, "data"))

DeploySecretRef(list, comp, types) ==
  PutIntoObject(list, types,
                [kind |-> "Secret", meta |-> comp.secretRef, ns |-> comp.ns, data |-> Nil],
                AlertSecret, Patches(comp.secretRef, "data"))

(* A deployment that is asked for runs unless an earlier one has failed. *)
Deploy(wanted, done, Op(_)) ==
  IF wanted /\ done.err = "none" THEN Op(done.list) ELSE done

DeployAll(comp, types) ==
  LET start      == [err |-> "none", list |-> resources]
      byRef      == Deploy(comp.ref # Nil, start, LAMBDA l : DeployFromRef(l, comp, types))
      byTemplate == Deploy(comp.template # Nil, byRef, LAMBDA l : DeployFromTemplate(l, comp, types))
  IN Deploy(comp.secretRef # Nil, byTemplate, LAMBDA l : DeploySecretRef(l, comp, types))

AddUserAlerting ==
  LET comp  == request.obsComposite
      types == scheme \union {"AlertmanagerConfig"}
      all   == DeployAll(comp, types)
  IN /\ Running("user-alerting")
     /\ scheme' = types
     /\ UNCHANGED <<composite, conn>>
     /\ \/ /\ comp = Bad
           /\ UNCHANGED resources /\ Return("Fatal")
        \/ /\ comp # Bad /\ comp.ns = Nil
           /\ UNCHANGED resources /\ Return("Warning")
        \/ /\ comp # Bad /\ comp.ns # Nil
           /\ comp.secretRef = Nil /\ (comp.ref # Nil \/ comp.template # Nil)
           /\ UNCHANGED resources /\ Return("Fatal")
        \/ /\ comp # Bad /\ comp.ns # Nil
           /\ comp.secretRef = Nil => comp.ref = Nil /\ comp.template = Nil
           /\ resources' = all.list
           /\ Return(IF all.err = "none" THEN "Normal" ELSE "Fatal")
=============================================================================
