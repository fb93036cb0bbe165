----------------------------- MODULE KeyedStore -----------------------------
(***************************************************************************)
(* What the desired half of the runtime library promises to a              *)
(* transformation function: resources and connection details are finite    *)
(* maps, a call changes at most the one key it names, and what Crossplane  *)
(* gets, once, at the end, is a copy of all three parts of one moment.      *)
(***************************************************************************)
CONSTANTS Keys, DetailKeys, Items, Details, Composites

VARIABLES store, details, composite, published, phase

kvars == <<store, details, composite, published, phase>>

IsMap(f, K, V) == DOMAIN f \subseteq K /\ \A k \in DOMAIN f : f[k] \in V

Snapshot == [store |-> store, details |-> details, composite |-> composite]

Init ==
  /\ IsMap(store, Keys, Items)
  /\ IsMap(details, DetailKeys, Details)
  /\ composite \in Composites
  /\ published = Snapshot
  /\ phase = "open"

(* f with key k bound to v, and f without key k. *)
Bind(f, k, v) == [x \in DOMAIN f \union {k} |-> IF x = k THEN v ELSE f[x]]
Unbind(f, k)  == [x \in DOMAIN f \ {k} |-> f[x]]

(* g is f after one call that names key k. *)
Assigned(f, g, k, V) == k \in DOMAIN g /\ g[k] \in V /\ g = Bind(f, k, g[k])
Deleted(f, g, k)     == k \in DOMAIN f /\ g = Unbind(f, k)

ChangeResource(k) ==
  /\ phase = "open"
  /\ Assigned(store, store', k, Items) \/ Deleted(store, store', k)
  /\ UNCHANGED <<details, composite, published, phase>>

ChangeDetail(k) ==
  /\ phase = "open"
  /\ Assigned(details, details', k, Details) \/ Deleted(details, details', k)
  /\ UNCHANGED <<store, composite, published, phase>>

ChangeComposite ==
  /\ phase = "open"
  /\ composite' \in Composites
  /\ UNCHANGED <<store, details, published, phase>>

Publish ==
  /\ phase = "open" /\ phase' = "written"
  /\ published' = Snapshot
  /\ UNCHANGED <<store, details, composite>>

Next ==
  \/ \E k \in Keys : ChangeResource(k)
  \/ \E k \in DetailKeys : ChangeDetail(k)
  \/ ChangeComposite
  \/ Publish

Spec == Init /\ [][Next]_kvars
=============================================================================
