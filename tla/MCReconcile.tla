---------------------------- MODULE MCReconcile -----------------------------
(* Instances of Reconcile for TLC. *)
EXTENDS Reconcile, FiniteSetsExt, TLC

CONSTANTS g1, g2  \* generated LUKS keys

(* The schedule is chosen by the user, so that runs differ in nothing else. *)
Deployed ==
  [ns |-> "instance", strategy |-> "Immediate", ref |-> Nil, template |-> Nil, secretRef |-> Nil,
   encrypted |-> FALSE, backup |-> <<30, 20>>, timeOfDay |-> <<22, 0, 0>>,
   dayOfWeek |-> "tuesday", rest |-> Nil]
Encrypted == [Deployed EXCEPT !.encrypted = TRUE]
Fresh == [Encrypted EXCEPT !.ns = Nil]

ListedInSomeOrder(S) == FoldSet(LAMBDA n, list : Append(list, n), <<>>, S)

KeySymmetry == Permutations({g1, g2})

KeysPresent == {Namespace, Connection}
RestartPresent == {Namespace, Connection, Cluster}
=============================================================================
