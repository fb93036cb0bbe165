--------------------------- MODULE MCDesiredStore ---------------------------
(***************************************************************************)
(* Instances of DesiredStore for TLC.  The lists a FunctionIO may arrive   *)
(* with hold what Crossplane renders: kube objects whose metadata.name is  *)
(* generated ("gen") or absent, with and without references, a managed     *)
(* resource of another kind, and one whose bytes do not decode.            *)
(***************************************************************************)
EXTENDS DesiredStore

CONSTANTS n1, n2, n3, gen, r1, v1, v2, d1, d2, c1, c2

MCMetas == {n1, n2, n3, gen}
MCTypes == {"Object", "Secret", "Unregistered"}
MCScheme == {"Object", "Secret"}

Rendered(n, kind, meta, refs) ==
  [name |-> n, extra |-> "pt",
   raw |-> [kind |-> kind, meta |-> meta, refs |-> refs,
            spec |-> [kind |-> "Secret", val |-> v1], status |-> Nil]]

MCInitialResources ==
  {<<>>,
   <<Rendered(n1, "Object", gen, {r1}), Rendered(n2, "Object", Nil, {})>>,
   <<Rendered(n2, "Secret", n2, {})>>,
   <<Rendered(n1, "Object", gen, {})>>,
   <<[name |-> n1, raw |-> Bad, extra |-> "pt"]>>}

MCNoDetails == {<<>>}
==============================================================================
