---------------------------- MODULE EncryptedPvc ----------------------------
(***************************************************************************)
(* The encrypted-pvc-secret function (encrypted_pvc.go): with encryption   *)
(* enabled the cluster gets the encrypted storage class and every instance *)
(* a secret with the LUKS key of its volume.                               *)
(***************************************************************************)
EXTENDS FunctionIO

CONSTANT NewKeys  \* what password.Generate may return, Bad when it fails

(* Faulty writeLuksSecret: it puts the composite that it was given. *)
LuksComposite(i, key) == [kind |-> "VSHNPostgreSQL", meta |-> LuksKey(i), data |-> key]

LuksSecret(i, key) == [kind |-> "Secret", meta |-> LuksKey(i), data |-> key]

StartPvcSecret ==
  LET comp    == request.obsComposite
      cluster == DesiredManifest(resources, Cluster)
      p       == PutIntoObject(resources, scheme,
                               [cluster.obj EXCEPT !.storageClass = "ssd-encrypted"], Cluster, {})
  IN /\ Running("encrypted-pvc-secret") /\ iter = 0
     /\ UNCHANGED <<composite, conn, scheme>>
     /\ \/ /\ comp = Bad
           /\ UNCHANGED resources /\ Return("Fatal")
        \/ /\ comp # Bad /\ ~comp.encrypted
           /\ UNCHANGED resources /\ Return("Normal")
        \/ /\ comp # Bad /\ comp.encrypted
           /\ IF cluster.err # "none"
              THEN UNCHANGED resources /\ Return("Fatal")
              ELSE resources' = p.list
                   /\ IF p.err = "none" THEN Continue(1) ELSE Return("Fatal")

(* The desired cluster was decoded before the loop and is not written again. *)
Instances == DesiredManifest(resources, Cluster).obj.instances

(* Faulty writeLuksSecret: every run generates the key anew. *)
LuksKeysAlwaysNew(i) == NewKeys

(* Faulty writeLuksSecret: a secret that is not found is an error, too. *)
LuksKeysObserved(i) ==
  LET secret == ObservedManifest(request.observed, LuksKey(i))
  IN {IF secret.err = "none" THEN secret.obj.data ELSE Bad}

(* The keys that instance i may get: the observed one, or a new one when   *)
(* nothing is observed; Bad stands for the error that ends the function.   *)
LuksKeysFor(i) ==
  LET secret == ObservedManifest(request.observed, LuksKey(i)) IN
  CASE secret.err = "none"     -> {secret.obj.data}
    [] secret.err = "NotFound" -> NewKeys
    [] OTHER                   -> {Bad}

WriteLuksSecret ==
  LET i == iter - 1 IN
  /\ Running("encrypted-pvc-secret") /\ iter > 0 /\ i < Instances
  /\ UNCHANGED <<composite, conn, scheme>>
  /\ \E key \in LuksKeysFor(i) :
       LET p == PutIntoObject(resources, scheme, LuksSecret(i, key), LuksKey(i), {}) IN
       IF key = Bad
       THEN UNCHANGED resources /\ Return("Fatal")
       ELSE resources' = p.list
            /\ IF p.err = "none" THEN Continue(iter + 1) ELSE Return("Fatal")

(* Faulty loop: the last instance gets no secret. *)
EndOneEarly ==
  /\ Running("encrypted-pvc-secret") /\ iter > 0 /\ iter >= Instances
  /\ UNCHANGED <<desired, scheme>>
  /\ Return("Normal")

EndPvcSecret ==
  /\ Running("encrypted-pvc-secret") /\ iter > 0 /\ iter - 1 >= Instances
  /\ UNCHANGED <<desired, scheme>>
  /\ Return("Normal")

AddPvcSecret == StartPvcSecret \/ WriteLuksSecret \/ EndPvcSecret
=============================================================================
