------------------------------- MODULE Runtime -------------------------------
(***************************************************************************)
(* The runtime library of the transformation functions: how the resources  *)
(* and the connection details of a FunctionIO are looked up, decoded and   *)
(* written (runtime/runtime.go, runtime/desired.go, runtime/observed.go).  *)
(*                                                                         *)
(* A resource is an entry [name, raw, extra] of a list.  "extra" stands    *)
(* for the fields of a DesiredResource that are no part of the raw object  *)
(* (connection details, readiness checks).  "raw" is Bad when it cannot be *)
(* decoded into the Go type that asks for it, otherwise a record           *)
(*   kind    the kind written in the object ("Object" is xkube.Object)     *)
(*   meta    metadata.name                                                 *)
(*   refs    spec.references, {} when the field is absent                  *)
(*   spec    spec.forProvider.manifest, Nil when absent                    *)
(*   status  status.atProvider.manifest, Nil when absent                   *)
(* Manifests are records whose "kind" is the Go type they decode into.     *)
(***************************************************************************)
EXTENDS Naturals, SequencesExt

CONSTANTS
  Nil,  \* an absent value: a nil Raw, an empty string, a field left out
  Bad   \* bytes that the decoder rejects

(* The errors of the library: "NotFound" is the sentinel ErrNotFound. *)
Errors == {"none", "NotFound", "Decode", "NoKind", "Wrapped"}

NamesIn(list) == {list[i].name : i \in DOMAIN list}

UniqueIn(list) ==
  \A i, j \in DOMAIN list : list[i].name = list[j].name => i = j

IsEntry(e) == e = [name |-> e.name, raw |-> e.raw, extra |-> e.extra]

(* A list of resources without two of one name. *)
IsList(list) ==
  /\ list \in Seq(Range(list))
  /\ UniqueIn(list)
  /\ \A i \in DOMAIN list : IsEntry(list[i])

(* The first entry called n; 0 when there is none. *)
Position(list, n) == SelectInSeq(list, LAMBDA e : e.name = n)

(* A decoder overwrites the fields that are present and keeps the others. *)
Over(new, old) == IF new = Nil THEN old ELSE new

Decode(raw, obj) ==
  [kind   |-> raw.kind,
   meta   |-> Over(raw.meta, obj.meta),
   refs   |-> IF raw.refs = {} THEN obj.refs ELSE raw.refs,
   spec   |-> Over(raw.spec, obj.spec),
   status |-> Over(raw.status, obj.status)]

(* getFrom: the first resource of that name, whatever its kind: the kinds  *)
(* it compares are two pointers to the one TypeMeta of obj, always equal.  *)
GetFrom(list, obj, n) ==
  LET i == Position(list, n) IN
  IF i = 0               THEN [err |-> "NotFound", obj |-> obj]
  ELSE IF list[i].raw = Bad THEN [err |-> "Decode", obj |-> obj]
  ELSE [err |-> "none", obj |-> Decode(list[i].raw, obj)]

KubeObject(kon, refs) ==
  [kind |-> "Object", meta |-> kon, refs |-> refs, spec |-> Nil, status |-> Nil]

(* What decoding a manifest yields: fromKubeObject of either side. *)
Extracted(manifest) ==
  CASE manifest = Nil -> [err |-> "NotFound", obj |-> Nil]
    [] manifest = Bad -> [err |-> "Decode", obj |-> Nil]
    [] OTHER          -> [err |-> "none", obj |-> manifest]

(* Faulty GetFromObject: it wraps a failed lookup, as the desired side does. *)
ObservedWrapped(list, kon) ==
  LET g == GetFrom(list, KubeObject(Nil, {}), kon) IN
  IF g.err = "none" THEN Extracted(g.obj.status) ELSE [err |-> "Wrapped", obj |-> Nil]

(* ObservedResources.GetFromObject: reads status, passes errors through. *)
ObservedManifest(list, kon) ==
  LET g == GetFrom(list, KubeObject(Nil, {}), kon) IN
  IF g.err = "none" THEN Extracted(g.obj.status) ELSE [err |-> g.err, obj |-> Nil]

(* DesiredResources.GetFromObject: reads spec; a failed lookup comes back  *)
(* as a new error that is no longer the sentinel ErrNotFound.              *)
DesiredManifest(list, kon) ==
  LET g == GetFrom(list, KubeObject(Nil, {}), kon) IN
  IF g.err = "none" THEN Extracted(g.obj.spec) ELSE [err |-> "Wrapped", obj |-> Nil]

(* Faulty put: it adds an entry without looking for the one to update. *)
PutAlwaysAppends(list, scheme, t, obj, n) ==
  [err |-> "none", list |-> Append(list, [name |-> n, raw |-> [obj EXCEPT !.kind = t], extra |-> Nil])]

(* DesiredResources.put for an object of Go type t: the entry called n gets *)
(* the new bytes and keeps everything else, a new entry goes to the end.    *)
Put(list, scheme, t, obj, n) ==
  LET raw == [obj EXCEPT !.kind = t]
      i   == Position(list, n)
  IN IF t \notin scheme THEN [err |-> "NoKind", list |-> list]
     ELSE [err  |-> "none",
           list |-> IF i = 0
                    THEN Append(list, [name |-> n, raw |-> raw, extra |-> Nil])
                    ELSE [list EXCEPT ![i].raw = raw]]

(* Faulty PutIntoObject: the manifest goes in without its kube object.     *)
PutBareManifest(list, scheme, manifest, kon, refs) ==
  LET i == Position(list, kon) IN
  [err  |-> "none",
   list |-> IF i = 0 THEN Append(list, [name |-> kon, raw |-> manifest, extra |-> Nil])
                     ELSE [list EXCEPT ![i].raw = manifest]]

(* Faulty PutIntoObject: it never looks at what is desired already.        *)
PutFreshObject(list, scheme, manifest, kon, refs) ==
  Put(list, scheme, "Object", [KubeObject(kon, refs) EXCEPT !.spec = manifest], kon)

(* The kube object that PutIntoObject stores for a manifest. *)
Stored(list, manifest, kon, refs) ==
  LET obj == GetFrom(list, KubeObject(kon, refs), kon).obj IN
  [[obj EXCEPT !.spec = manifest] EXCEPT !.kind = "Object"]

(* DesiredResources.PutIntoObject: a fresh kube object is decoded over by   *)
(* the one already desired, so the metadata and the references of that one  *)
(* win, and then the manifest is replaced.                                  *)
PutIntoObject(list, scheme, manifest, kon, refs) ==
  LET g == GetFrom(list, KubeObject(kon, refs), kon) IN
  IF g.err \notin {"none", "NotFound"} THEN [err |-> g.err, list |-> list]
  ELSE IF manifest.kind \notin scheme THEN [err |-> "NoKind", list |-> list]
  ELSE Put(list, scheme, "Object", [g.obj EXCEPT !.spec = manifest], kon)

(* Faulty Remove: the last entry moves into the hole. *)
RemoveBySwap(list, n) ==
  LET i == Position(list, n) IN
  IF i = 0 THEN [err |-> "NotFound", list |-> list]
  ELSE [err |-> "none", list |-> SubSeq([list EXCEPT ![i] = Last(list)], 1, Len(list) - 1)]

(* DesiredResources.Remove and RemoveCompositeConnectionDetail. *)
RemoveFrom(list, n) ==
  LET i == Position(list, n) IN
  IF i = 0 THEN [err |-> "NotFound", list |-> list]
           ELSE [err |-> "none", list |-> RemoveAt(list, i)]

(* DesiredResources.PutCompositeConnectionDetail *)
PutDetail(details, cd) ==
  LET i == Position(details, cd.name) IN
  IF i = 0 THEN Append(details, cd) ELSE [details EXCEPT ![i] = cd]
==============================================================================
