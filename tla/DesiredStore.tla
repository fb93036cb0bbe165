---------------------------- MODULE DesiredStore ----------------------------
(***************************************************************************)
(* The desired half of one Runtime as the transformation functions see it: *)
(* any sequence of calls of the runtime library on Desired, and the copy   *)
(* into the FunctionIO that Exec makes when the last function has returned *)
(* and that printFunctionIO writes.  The copies Exec makes before are not  *)
(* modelled: the last one overwrites every part of them.                   *)
(***************************************************************************)
EXTENDS Runtime, FiniteSets

CONSTANTS
  Names,         \* resource names
  Metas,         \* values of metadata.name; the library uses the resource name
  Types,         \* Go types of objects, the kube object "Object" among them
  Scheme,        \* the types registered in the scheme
  Values,        \* contents of a manifest
  Refs,          \* references of a kube object to other objects
  DetailNames, DetailValues,
  CompositeValues,
  InitialResources, InitialDetails  \* the lists a FunctionIO may arrive with

VARIABLES
  resources,     \* Desired.resources
  conn,          \* Desired.composite.ConnectionDetails
  composite,     \* Desired.composite.Resource
  io,            \* io.Desired, as it was read and then as it is written
  phase,         \* "open" until RunCommand has written its answer
  last           \* the last call, its error and the kind of the object it returned

vars == <<resources, conn, composite, io, phase, last>>

Manifests == [kind : Types \ {"Object"}, val : Values]
Raws ==
  [kind   : Types,
   meta   : Metas \union {Nil},
   refs   : SUBSET Refs,
   spec   : Manifests \union {Nil, Bad},
   status : Manifests \union {Nil, Bad}]
Entries == [name : Names, raw : Raws \union {Bad}, extra : {Nil, "pt"}]
Connections == [name : DetailNames, value : DetailValues]

(* Crossplane renders every composed resource, and every connection detail, *)
(* under a name of its own; kube objects need their own scheme entry.       *)
ASSUME InitialAssumption ==
  /\ InitialResources \subseteq Seq(Entries)
  /\ InitialDetails \subseteq Seq(Connections)
  /\ \A l \in InitialResources \union InitialDetails : UniqueIn(l)
ASSUME SchemeAssumption == "Object" \in Scheme /\ Scheme \subseteq Types
ASSUME NamesAssumption == Names \subseteq Metas /\ Nil \notin Metas

NoCall == [op |-> "none", want |-> Nil, err |-> "none", kind |-> Nil]
Call(op, want, err, kind) == [op |-> op, want |-> want, err |-> err, kind |-> kind]

Synced == [resources |-> resources, conn |-> conn, composite |-> composite]

(* NewRuntime copies the desired half of the FunctionIO it has decoded. *)
Init ==
  /\ resources \in InitialResources
  /\ conn \in InitialDetails
  /\ composite \in CompositeValues
  /\ io = Synced
  /\ phase = "open"
  /\ last = NoCall

(* Desired.Put of a managed resource of type t. *)
PutTyped(t, n, v) ==
  LET obj == [kind |-> t, meta |-> n, refs |-> {}, spec |-> [kind |-> t, val |-> v], status |-> Nil]
      p   == Put(resources, Scheme, t, obj, n)
  IN /\ resources' = p.list
     /\ last' = Call("Put", t, p.err, Nil)
     /\ UNCHANGED <<conn, composite, io, phase>>

PutObject(m, kon, refs) ==
  LET p == PutIntoObject(resources, Scheme, m, kon, refs) IN
  /\ resources' = p.list
  /\ last' = Call("PutIntoObject", m.kind, p.err, Nil)
  /\ UNCHANGED <<conn, composite, io, phase>>

RemoveResource(n) ==
  LET r == RemoveFrom(resources, n) IN
  /\ resources' = r.list
  /\ last' = Call("Remove", Nil, r.err, Nil)
  /\ UNCHANGED <<conn, composite, io, phase>>

(* Desired.Get into an object of type t. *)
Get(t, n) ==
  LET g == GetFrom(resources, [KubeObject(Nil, {}) EXCEPT !.kind = t], n) IN
  /\ last' = Call("Get", t, g.err, g.obj.kind)
  /\ UNCHANGED <<resources, conn, composite, io, phase>>

SetComposite(c) ==
  /\ composite' = c
  /\ last' = NoCall
  /\ UNCHANGED <<resources, conn, io, phase>>

PutConnection(cd) ==
  /\ conn' = PutDetail(conn, cd)
  /\ last' = NoCall
  /\ UNCHANGED <<resources, composite, io, phase>>

RemoveConnection(n) ==
  LET r == RemoveFrom(conn, n) IN
  /\ conn' = r.list
  /\ last' = Call("RemoveDetail", Nil, r.err, Nil)
  /\ UNCHANGED <<resources, composite, io, phase>>

(* Faulty Exec: the connection details are left behind. *)
ExecWithoutDetails ==
  /\ io' = [Synced EXCEPT !.conn = io.conn]
  /\ phase' = "written"
  /\ last' = NoCall
  /\ UNCHANGED <<resources, conn, composite>>

(* Exec, after the last function has returned, and printFunctionIO. *)
Exec ==
  /\ io' = Synced
  /\ phase' = "written"
  /\ last' = NoCall
  /\ UNCHANGED <<resources, conn, composite>>

Step ==
  \/ \E t \in Types \ {"Object"}, n \in Names, v \in Values : PutTyped(t, n, v)
  \/ \E m \in Manifests, n \in Names, r \in SUBSET Refs : PutObject(m, n, r)
  \/ \E n \in Names : RemoveResource(n)
  \/ \E t \in Types, n \in Names : Get(t, n)
  \/ \E c \in CompositeValues : SetComposite(c)
  \/ \E cd \in Connections : PutConnection(cd)
  \/ \E n \in DetailNames : RemoveConnection(n)
  \/ Exec

Next ==
  \/ phase = "open" /\ Step
  \/ phase = "written" /\ UNCHANGED vars

Spec == Init /\ [][Next]_vars
------------------------------------------------------------------------------
TypeOK ==
  /\ resources \in Seq(Entries)
  /\ conn \in Seq(Connections)
  /\ composite \in CompositeValues /\ phase \in {"open", "written"}
  /\ io \in [resources : Seq(Entries), conn : Seq(Connections), composite : CompositeValues]
  /\ last \in [op   : {"none", "Put", "PutIntoObject", "Remove", "Get", "RemoveDetail"},
              want : Types \union {Nil}, err : Errors, kind : Types \union {Nil}]

(* No sequence of calls leaves two resources, or two connection details,   *)
(* under one name, neither in Desired nor in what is written: lookups,     *)
(* updates and removals all stop at the first match and would miss the     *)
(* second one (runtime/desired.go put, Remove, PutCompositeConnectionDetail). *)
UniqueNames ==
  /\ UniqueIn(resources) /\ UniqueIn(conn)
  /\ UniqueIn(io.resources) /\ UniqueIn(io.conn)

EntryOf(list, n) == list[Position(list, n)]

KeepsIdentity ==
  \A n \in NamesIn(resources) \intersect NamesIn(resources') :
    LET old == EntryOf(resources, n)
        new == EntryOf(resources', n)
    IN /\ new.extra = old.extra
       /\ last'.op = "PutIntoObject" /\ old.raw # Bad =>
            /\ old.raw.meta # Nil => new.raw.meta = old.raw.meta
            /\ old.raw.refs # {}  => new.raw.refs = old.raw.refs
            /\ new.raw.status = old.raw.status

(* Overwriting the manifest of a kube object that is already desired keeps *)
(* the object the same composed resource: its metadata.name, its           *)
(* references and its status survive, and so do the connection details and *)
(* readiness checks of its entry (PutIntoObject decodes the desired object *)
(* over a fresh one, put only sets the raw bytes).                         *)
IdentityKept == [][KeepsIdentity]_vars

KeepsOrder ==
  \A m, n \in NamesIn(resources) \intersect NamesIn(resources') :
    Position(resources, m) < Position(resources, n)
      => Position(resources', m) < Position(resources', n)

(* No call changes the relative order of the resources it leaves in place: *)
(* Crossplane gets them in the order in which it rendered them, additions  *)
(* last (Remove closes the gap, put appends).                              *)
OrderKept == [][KeepsOrder]_vars

(* The two halves of a list of uniquely named entries: which names there   *)
(* are, and what each one holds.                                           *)
Contents(list) == [n \in NamesIn(list) |-> EntryOf(list, n)]

Abstract == INSTANCE KeyedStore WITH
  Keys <- Names, DetailKeys <- DetailNames, Items <- Entries, Details <- Connections,
  Composites <- CompositeValues,
  store <- Contents(resources), details <- Contents(conn), composite <- composite,
  published <- [store |-> Contents(io.resources), details |-> Contents(io.conn),
                composite |-> io.composite]

(* The lists behave as finite maps: every call changes the one key it      *)
(* names, and what Crossplane gets is a copy of one moment (RunCommand,    *)
(* Exec and the methods of DesiredResources).                              *)
ImplementsKeyedStore == Abstract!Spec

(* runtime/runtime.go:105 says "matching by name is not enough, group and  *)
(* kind should match": a successful Get returns an object of the kind it   *)
(* was asked for.                                                          *)
GetMatchesKind ==
  last.op = "Get" /\ last.err = "none" => last.kind = last.want
=============================================================================
