------------------------- MODULE DesiredStoreProofs -------------------------
EXTENDS DesiredStore, RuntimeProofs

(* m is l after the entry called n has been overwritten or added. *)
Writes(l, m, n) ==
  /\ Len(m) \in {Len(l), Len(l) + 1}
  /\ \A i \in 1 .. Len(l) :
       m[i].name = l[i].name /\ (l[i].name # n => m[i] = l[i])
  /\ Len(m) = Len(l) + 1 => n \notin NamesIn(l) /\ m[Len(m)].name = n
  /\ n \in NamesIn(m)

(* m is l without the entry called n. *)
Removes(l, m, n) ==
  \E i \in 1 .. Len(l) :
    /\ l[i].name = n
    /\ Len(m) = Len(l) - 1
    /\ \A j \in 1 .. Len(m) : m[j] = IF j < i THEN l[j] ELSE l[j + 1]

LEMMA AppendWrites ==
  ASSUME NEW S, NEW l \in Seq(S), NEW e \in S, e.name \notin NamesIn(l)
  PROVE  Append(l, e) \in Seq(S) /\ Writes(l, Append(l, e), e.name)
<1>1. /\ Append(l, e) \in Seq(S) /\ Len(Append(l, e)) = Len(l) + 1
      /\ \A i \in 1 .. Len(l) : Append(l, e)[i] = l[i]
      /\ Append(l, e)[Len(l) + 1] = e
  OBVIOUS
<1>. QED
  BY <1>1 DEF Writes, NamesIn

LEMMA ReplaceWrites ==
  ASSUME NEW S, NEW l \in Seq(S), NEW i \in 1 .. Len(l), NEW e \in S,
         e.name = l[i].name
  PROVE  [l EXCEPT ![i] = e] \in Seq(S) /\ Writes(l, [l EXCEPT ![i] = e], e.name)
<1> DEFINE m == [l EXCEPT ![i] = e]
<1>1. /\ m \in Seq(S) /\ Len(m) = Len(l)
      /\ \A j \in 1 .. Len(l) : m[j] = IF j = i THEN e ELSE l[j]
  OBVIOUS
<1>. HIDE DEF m
<1>2. e.name \in NamesIn(m)
  BY <1>1 DEF NamesIn
<1>3. Writes(l, m, e.name)
  BY <1>1, <1>2 DEF Writes
<1>. QED
  BY <1>1, <1>3 DEF m

LEMMA ConcatElements ==
  ASSUME NEW S, NEW a \in Seq(S), NEW b \in Seq(S)
  PROVE  /\ a \o b \in Seq(S) /\ Len(a \o b) = Len(a) + Len(b)
         /\ \A j \in 1 .. Len(a \o b) :
              (a \o b)[j] = IF j <= Len(a) THEN a[j] ELSE b[j - Len(a)]
  OBVIOUS

LEMMA RemoveAtRemoves ==
  ASSUME NEW S, NEW l \in Seq(S), NEW i \in 1 .. Len(l)
  PROVE  RemoveAt(l, i) \in Seq(S) /\ Removes(l, RemoveAt(l, i), l[i].name)
<1> DEFINE a == SubSeq(l, 1, i - 1)
           b == SubSeq(l, i + 1, Len(l))
           m == RemoveAt(l, i)
<1>1. /\ a \in Seq(S) /\ Len(a) = i - 1
      /\ \A j \in 1 .. Len(a) : a[j] = l[j]
  OBVIOUS
<1>2. /\ b \in Seq(S) /\ Len(b) = Len(l) - i
      /\ \A j \in 1 .. Len(b) : b[j] = l[j + i]
  OBVIOUS
<1>3. m = a \o b
  BY DEF RemoveAt
<1>. HIDE DEF a, b, m
<1>4. /\ m \in Seq(S) /\ Len(m) = Len(a) + Len(b)
      /\ \A j \in 1 .. Len(m) : m[j] = IF j <= Len(a) THEN a[j] ELSE b[j - Len(a)]
  BY <1>1, <1>2, <1>3, ConcatElements
<1>5. Len(m) = Len(l) - 1
  BY <1>1, <1>2, <1>4
<1>6. \A j \in 1 .. Len(m) : m[j] = IF j < i THEN l[j] ELSE l[j + 1]
  BY <1>1, <1>2, <1>4, <1>5
<1>7. Removes(l, m, l[i].name)
  BY <1>5, <1>6 DEF Removes
<1>. QED
  BY <1>4, <1>7 DEF m

LEMMA WritesUnique ==
  ASSUME NEW S, NEW l \in Seq(S), NEW m \in Seq(S), NEW n, UniqueIn(l), Writes(l, m, n)
  PROVE  UniqueIn(m)
<1>. SUFFICES ASSUME NEW i \in 1 .. Len(m), NEW j \in 1 .. Len(m), m[i].name = m[j].name
              PROVE  i = j
  BY DEF UniqueIn
<1>1. Len(l) \in Nat /\ Len(m) \in {Len(l), Len(l) + 1}
  BY DEF Writes
<1>2. \A x \in 1 .. Len(l) : m[x].name = l[x].name
  BY DEF Writes
<1>3. CASE i \in 1 .. Len(l) /\ j \in 1 .. Len(l)
  BY <1>2, <1>3 DEF UniqueIn
<1>4. CASE Len(m) = Len(l) + 1
  <2>1. \A x \in 1 .. Len(l) : m[x].name # m[Len(m)].name
    BY <1>2, <1>4 DEF Writes, NamesIn
  <2>. QED
    BY <1>1, <1>3, <1>4, <2>1
<1>. QED
  BY <1>1, <1>3, <1>4

LEMMA RemovesUnique ==
  ASSUME NEW S, NEW l \in Seq(S), NEW m \in Seq(S), NEW n, UniqueIn(l), Removes(l, m, n)
  PROVE  UniqueIn(m)
<1>1. PICK i \in 1 .. Len(l) :
        /\ l[i].name = n /\ Len(m) = Len(l) - 1
        /\ \A j \in 1 .. Len(m) : m[j] = IF j < i THEN l[j] ELSE l[j + 1]
  BY DEF Removes
<1>2. SUFFICES ASSUME NEW j \in 1 .. Len(m), NEW k \in 1 .. Len(m), m[j].name = m[k].name
               PROVE  j = k
  BY DEF UniqueIn
<1> DEFINE from(x) == IF x < i THEN x ELSE x + 1
<1>3. Len(l) \in Nat /\ Len(m) \in Nat
  OBVIOUS
<1>4. from(j) \in 1 .. Len(l) /\ from(k) \in 1 .. Len(l)
  BY <1>1, <1>3
<1>5. m[j] = l[from(j)] /\ m[k] = l[from(k)]
  BY <1>1
<1> HIDE DEF from
<1>6. from(j) = from(k)
  BY <1>2, <1>4, <1>5 DEF UniqueIn
<1>. QED
  BY <1>1, <1>6 DEF from
------------------------------------------------------------------------------
LEMMA EntryFields ==
  ASSUME NEW e \in Entries
  PROVE  /\ e.raw # Bad => e.raw \in Raws
         /\ \A raw \in Raws :
              [e EXCEPT !.raw = raw] \in Entries /\ [e EXCEPT !.raw = raw].name = e.name
<1>. DEFINE R == Raws
<1>1. Entries = [name : Names, raw : R \union {Bad}, extra : {Nil, "pt"}]
  BY DEF Entries
<1>. HIDE DEF R
<1>2. e.raw # Bad => e.raw \in R
  BY <1>1
<1>3. \A raw \in R :
        [e EXCEPT !.raw = raw] \in Entries /\ [e EXCEPT !.raw = raw].name = e.name
  BY <1>1
<1>. QED
  BY <1>2, <1>3 DEF R

LEMMA GetFromResult ==
  ASSUME NEW list \in Seq(Entries), NEW obj \in Raws, NEW n, UniqueIn(list)
  PROVE  GetFrom(list, obj, n).err \in Errors /\ GetFrom(list, obj, n).obj \in Raws
<1> DEFINE i == Position(list, n)
<1>1. i # 0 => i \in 1 .. Len(list)
  BY PositionIsIndex
<1>2. ASSUME i # 0, list[i].raw # Bad
      PROVE  Decode(list[i].raw, obj) \in Raws
  <2>1. list[i] \in Entries
    BY <1>1, <1>2
  <2>2. list[i].raw \in Raws
    BY <1>2, <2>1, EntryFields
  <2>. QED
    BY <2>2 DEF Decode, Over, Raws
<1>. QED
  BY <1>2 DEF GetFrom, Errors

LEMMA PutWrites ==
  ASSUME NEW list \in Seq(Entries), NEW obj \in Raws, NEW n \in Names, NEW t \in Types,
         UniqueIn(list)
  PROVE  LET p == Put(list, Scheme, t, obj, n) IN
         /\ p.err \in Errors /\ p.list \in Seq(Entries)
         /\ p.list = list \/ Writes(list, p.list, n)
<1> DEFINE raw == [obj EXCEPT !.kind = t]
           i   == Position(list, n)
           e   == [name |-> n, raw |-> raw, extra |-> Nil]
           f   == [list[i] EXCEPT !.raw = raw]
<1>1. raw \in Raws
  BY DEF Raws
<1>2. CASE i = 0
  <2>1. e \in Entries /\ e.name = n
    BY <1>1 DEF Entries
  <2>2. n \notin NamesIn(list)
    BY <1>2, PositionIsZero
  <2>3. Append(list, e) \in Seq(Entries) /\ Writes(list, Append(list, e), n)
    BY <2>1, <2>2, AppendWrites
  <2>. QED
    BY <1>2, <2>3 DEF Put, Errors
<1>3. CASE i # 0
  <2>1. i \in 1 .. Len(list) /\ list[i].name = n
    BY <1>3, PositionIsIndex
  <2>2. list[i] \in Entries
    BY <2>1
  <2>3. f \in Entries /\ f.name = n
    BY <1>1, <2>1, <2>2, EntryFields
  <2>. HIDE DEF f
  <2>4. [list EXCEPT ![i] = f] \in Seq(Entries) /\ Writes(list, [list EXCEPT ![i] = f], n)
    BY <2>1, <2>3, ReplaceWrites
  <2>. QED
    BY <1>3, <2>4 DEF Put, Errors, f
<1>. QED
  BY <1>2, <1>3

LEMMA PutIntoObjectWrites ==
  ASSUME NEW list \in Seq(Entries), NEW m \in Manifests, NEW n \in Names,
         NEW refs \in SUBSET Refs, UniqueIn(list)
  PROVE  LET p == PutIntoObject(list, Scheme, m, n, refs) IN
         /\ p.err \in Errors /\ p.list \in Seq(Entries)
         /\ p.list = list \/ Writes(list, p.list, n)
<1> DEFINE fresh == KubeObject(n, refs)
           g     == GetFrom(list, fresh, n)
           obj   == [g.obj EXCEPT !.spec = m]
<1>1. "Object" \in Types
  BY SchemeAssumption
<1>2. fresh \in Raws
  BY <1>1, NamesAssumption DEF KubeObject, Raws
<1>3. g.err \in Errors /\ g.obj \in Raws
  BY <1>2, GetFromResult
<1>4. obj \in Raws
  BY <1>3 DEF Raws
<1>5. LET p == Put(list, Scheme, "Object", obj, n) IN
      /\ p.err \in Errors /\ p.list \in Seq(Entries)
      /\ p.list = list \/ Writes(list, p.list, n)
  BY <1>1, <1>4, PutWrites
<1>. QED
  BY <1>3, <1>5 DEF PutIntoObject, Errors

LEMMA RemoveFromRemoves ==
  ASSUME NEW S, NEW list \in Seq(S), NEW n, UniqueIn(list)
  PROVE  LET r == RemoveFrom(list, n) IN
         /\ r.err \in Errors /\ r.list \in Seq(S)
         /\ r.list = list \/ Removes(list, r.list, n)
<1> DEFINE i == Position(list, n)
<1>1. i # 0 => i \in 1 .. Len(list) /\ list[i].name = n
  BY PositionIsIndex
<1>2. i # 0 => RemoveAt(list, i) \in Seq(S) /\ Removes(list, RemoveAt(list, i), n)
  BY <1>1, RemoveAtRemoves
<1>. QED
  BY <1>2 DEF RemoveFrom, Errors

LEMMA PutDetailWrites ==
  ASSUME NEW list \in Seq(Connections), NEW cd \in Connections, UniqueIn(list)
  PROVE  /\ PutDetail(list, cd) \in Seq(Connections)
         /\ Writes(list, PutDetail(list, cd), cd.name)
<1> DEFINE i == Position(list, cd.name)
<1>1. CASE i = 0
  <2>1. cd.name \notin NamesIn(list)
    BY <1>1, PositionIsZero
  <2>. QED
    BY <1>1, <2>1, AppendWrites DEF PutDetail
<1>2. CASE i # 0
  <2>1. i \in 1 .. Len(list) /\ list[i].name = cd.name
    BY <1>2, PositionIsIndex
  <2>. QED
    BY <1>2, <2>1, ReplaceWrites DEF PutDetail
<1>. QED
  BY <1>1, <1>2
------------------------------------------------------------------------------
(* What every lookup and update relies on: the lists are typed and no name *)
(* occurs twice.                                                           *)
Inv == TypeOK /\ UniqueNames

(* A step writes or removes at most one entry of either list. *)
Changed(l, m, n) == m = l \/ Writes(l, m, n) \/ Removes(l, m, n)

LEMMA InitInv == Init => Inv
  BY InitialAssumption DEF Init, Inv, TypeOK, UniqueNames, Synced, NoCall, Errors

(* The two halves of what a call does: the list it changes and the rest. *)
LEMMA StepChanges ==
  ASSUME Inv, [Next]_vars
  PROVE  /\ TypeOK'
         /\ \/ UNCHANGED vars
            \/ /\ phase = "open" /\ \E n \in Names : Changed(resources, resources', n)
               /\ UNCHANGED <<conn, composite, io, phase>>
            \/ /\ phase = "open" /\ \E n \in DetailNames : Changed(conn, conn', n)
               /\ UNCHANGED <<resources, composite, io, phase>>
            \/ phase = "open" /\ UNCHANGED <<resources, conn, io, phase>>
            \/ phase = "open" /\ io' = Synced /\ phase' = "written" /\ UNCHANGED <<resources, conn, composite>>
<1>. USE DEF Inv
<1>1. ASSUME NEW t \in Types \ {"Object"}, NEW n \in Names, NEW v \in Values, PutTyped(t, n, v)
      PROVE  TypeOK' /\ Changed(resources, resources', n) /\ UNCHANGED <<conn, composite, io, phase>>
  <2> DEFINE obj == [kind |-> t, meta |-> n, refs |-> {}, spec |-> [kind |-> t, val |-> v],
                     status |-> Nil]
  <2>1. obj \in Raws
    BY NamesAssumption DEF Raws, Manifests
  <2>2. LET p == Put(resources, Scheme, t, obj, n) IN
        /\ p.err \in Errors /\ p.list \in Seq(Entries)
        /\ p.list = resources \/ Writes(resources, p.list, n)
    BY <2>1, PutWrites DEF TypeOK, UniqueNames
  <2>. QED
    BY <1>1, <2>2 DEF PutTyped, TypeOK, Call, Changed
<1>2. ASSUME NEW m \in Manifests, NEW n \in Names, NEW r \in SUBSET Refs, PutObject(m, n, r)
      PROVE  TypeOK' /\ Changed(resources, resources', n) /\ UNCHANGED <<conn, composite, io, phase>>
  <2>1. LET p == PutIntoObject(resources, Scheme, m, n, r) IN
        /\ p.err \in Errors /\ p.list \in Seq(Entries)
        /\ p.list = resources \/ Writes(resources, p.list, n)
    BY PutIntoObjectWrites DEF TypeOK, UniqueNames
  <2>2. m.kind \in Types
    BY DEF Manifests
  <2>. QED
    BY <1>2, <2>1, <2>2 DEF PutObject, TypeOK, Call, Changed
<1>3. ASSUME NEW n \in Names, RemoveResource(n)
      PROVE  TypeOK' /\ Changed(resources, resources', n) /\ UNCHANGED <<conn, composite, io, phase>>
  <2>1. LET r == RemoveFrom(resources, n) IN
        /\ r.err \in Errors /\ r.list \in Seq(Entries)
        /\ r.list = resources \/ Removes(resources, r.list, n)
    BY RemoveFromRemoves DEF TypeOK, UniqueNames
  <2>. QED
    BY <1>3, <2>1 DEF RemoveResource, TypeOK, Call, Changed
<1>4. ASSUME NEW t \in Types, NEW n \in Names, Get(t, n)
      PROVE  TypeOK' /\ UNCHANGED <<resources, conn, composite, io, phase>>
  <2> DEFINE obj == [KubeObject(Nil, {}) EXCEPT !.kind = t]
  <2>1. obj \in Raws
    BY DEF KubeObject, Raws
  <2>2. GetFrom(resources, obj, n).err \in Errors /\ GetFrom(resources, obj, n).obj \in Raws
    BY <2>1, GetFromResult DEF TypeOK, UniqueNames
  <2>3. GetFrom(resources, obj, n).obj.kind \in Types
    BY <2>2 DEF Raws
  <2>. QED
    BY <1>4, <2>2, <2>3 DEF Get, TypeOK, Call
<1>5. ASSUME NEW c \in CompositeValues, SetComposite(c)
      PROVE  TypeOK' /\ UNCHANGED <<resources, conn, io, phase>>
  BY <1>5 DEF SetComposite, TypeOK, NoCall, Errors
<1>6. ASSUME NEW cd \in Connections, PutConnection(cd)
      PROVE  /\ TypeOK' /\ cd.name \in DetailNames /\ Changed(conn, conn', cd.name)
             /\ UNCHANGED <<resources, composite, io, phase>>
  <2>1. PutDetail(conn, cd) \in Seq(Connections) /\ Writes(conn, PutDetail(conn, cd), cd.name)
    BY PutDetailWrites DEF TypeOK, UniqueNames
  <2>. QED
    BY <1>6, <2>1 DEF PutConnection, TypeOK, NoCall, Errors, Changed, Connections
<1>7. ASSUME NEW n \in DetailNames, RemoveConnection(n)
      PROVE  TypeOK' /\ Changed(conn, conn', n) /\ UNCHANGED <<resources, composite, io, phase>>
  <2>1. LET r == RemoveFrom(conn, n) IN
        /\ r.err \in Errors /\ r.list \in Seq(Connections)
        /\ r.list = conn \/ Removes(conn, r.list, n)
    BY RemoveFromRemoves DEF TypeOK, UniqueNames
  <2>. QED
    BY <1>7, <2>1 DEF RemoveConnection, TypeOK, Call, Changed
<1>8. ASSUME Exec
      PROVE  TypeOK' /\ io' = Synced /\ phase' = "written" /\ UNCHANGED <<resources, conn, composite>>
  BY <1>8 DEF Exec, TypeOK, Synced, NoCall, Errors
<1>9. ASSUME UNCHANGED vars
      PROVE  TypeOK'
  BY <1>9 DEF vars, TypeOK
<1>. QED
  BY <1>1, <1>2, <1>3, <1>4, <1>5, <1>6, <1>7, <1>8, <1>9 DEF Next, Step

LEMMA NextInv == Inv /\ [Next]_vars => Inv'
<1>. SUFFICES ASSUME Inv, [Next]_vars PROVE UniqueNames'
  BY StepChanges DEF Inv
<1>. USE DEF Inv, TypeOK
<1>1. ASSUME NEW n, Changed(resources, resources', n)
      PROVE  UniqueIn(resources')
  BY <1>1, StepChanges, WritesUnique, RemovesUnique DEF Changed, UniqueNames
<1>2. ASSUME NEW n, Changed(conn, conn', n)
      PROVE  UniqueIn(conn')
  BY <1>2, StepChanges, WritesUnique, RemovesUnique DEF Changed, UniqueNames
<1>. QED
  BY <1>1, <1>2, StepChanges DEF UniqueNames, Synced, vars

(* Whatever is called, the desired lists and the copy Exec made of them    *)
(* stay well-typed.                                                        *)
THEOREM TypeCorrect == Spec => []TypeOK
<1>1. Inv => TypeOK
  BY DEF Inv
<1>. QED
  BY InitInv, NextInv, <1>1, PTL DEF Spec

(* No call makes a second resource, or a second connection detail, of the  *)
(* name of one that is there.                                              *)
THEOREM NamesStayUnique == Spec => []UniqueNames
<1>1. Inv => UniqueNames
  BY DEF Inv
<1>. QED
  BY InitInv, NextInv, <1>1, PTL DEF Spec
------------------------------------------------------------------------------
(* The entry called k stands at its position. *)
LEMMA PositionOfEntry ==
  ASSUME NEW S, NEW l \in Seq(S), UniqueIn(l), NEW k \in NamesIn(l)
  PROVE  /\ Position(l, k) \in 1 .. Len(l)
         /\ l[Position(l, k)].name = k
         /\ \A i \in 1 .. Len(l) : l[i].name = k => Position(l, k) = i
  BY PositionIsIndex DEF NamesIn

LEMMA ChangedOrder ==
  ASSUME NEW S, NEW l \in Seq(S), NEW m \in Seq(S), NEW n, UniqueIn(l), UniqueIn(m),
         Changed(l, m, n),
         NEW a \in NamesIn(l) \intersect NamesIn(m), NEW b \in NamesIn(l) \intersect NamesIn(m),
         Position(l, a) < Position(l, b)
  PROVE  Position(m, a) < Position(m, b)
<1> DEFINE p == Position(l, a)
           q == Position(l, b)
<1>1. p \in 1 .. Len(l) /\ q \in 1 .. Len(l) /\ l[p].name = a /\ l[q].name = b
  BY PositionOfEntry
<1>2. /\ \A i \in 1 .. Len(m) : m[i].name = a => Position(m, a) = i
      /\ \A i \in 1 .. Len(m) : m[i].name = b => Position(m, b) = i
  BY PositionOfEntry
<1>3. CASE m = l
  BY <1>3
<1>4. CASE Writes(l, m, n)
  <2>1. p \in 1 .. Len(m) /\ q \in 1 .. Len(m) /\ m[p].name = a /\ m[q].name = b
    BY <1>1, <1>4 DEF Writes
  <2>. QED
    BY <1>2, <2>1
<1>5. CASE Removes(l, m, n)
  <2>1. PICK i \in 1 .. Len(l) :
          /\ l[i].name = n /\ Len(m) = Len(l) - 1
          /\ \A j \in 1 .. Len(m) : m[j] = IF j < i THEN l[j] ELSE l[j + 1]
    BY <1>5 DEF Removes
  <2>2. \A k \in 1 .. Len(l) \ {i} :
          LET j == IF k < i THEN k ELSE k - 1 IN j \in 1 .. Len(m) /\ m[j] = l[k]
    BY <2>1
  <2>3. n \notin NamesIn(m)
    <3>1. ASSUME NEW j \in 1 .. Len(m), m[j].name = n
          PROVE  FALSE
      <4> DEFINE k == IF j < i THEN j ELSE j + 1
      <4>1. Len(l) \in Nat /\ Len(m) \in Nat
        OBVIOUS
      <4>2. k \in 1 .. Len(l) /\ k # i /\ m[j] = l[k]
        BY <2>1, <3>1, <4>1
      <4>. HIDE DEF k
      <4>3. l[k].name = l[i].name
        BY <2>1, <3>1, <4>2
      <4>. QED
        BY <4>2, <4>3 DEF UniqueIn
    <3>. QED
      BY <3>1 DEF NamesIn
  <2>4. p # i /\ q # i
    BY <1>1, <2>1, <2>3
  <2>5. /\ Position(m, a) = IF p < i THEN p ELSE p - 1
        /\ Position(m, b) = IF q < i THEN q ELSE q - 1
    BY <1>1, <1>2, <2>2, <2>4
  <2>. QED
    BY <1>1, <2>1, <2>4, <2>5
<1>. QED
  BY <1>3, <1>4, <1>5 DEF Changed

(* The order in which the composition rendered its resources is the order  *)
(* in which Crossplane gets them back.                                     *)
THEOREM OrderIsKept == Spec => OrderKept
<1>1. ASSUME Inv, Inv', [Next]_vars
      PROVE  KeepsOrder
  <2>1. CASE resources' = resources
    BY <2>1 DEF KeepsOrder
  <2>2. CASE \E n \in Names : Changed(resources, resources', n)
    <3>1. \A a, b \in NamesIn(resources) \intersect NamesIn(resources') :
            Position(resources, a) < Position(resources, b)
              => Position(resources', a) < Position(resources', b)
      BY <1>1, <2>2, ChangedOrder DEF Inv, TypeOK, UniqueNames
    <3>. QED
      BY <3>1 DEF KeepsOrder
  <2>. QED
    BY <1>1, <2>1, <2>2, StepChanges DEF vars
<1>. QED
  BY <1>1, InitInv, NextInv, PTL DEF Spec, OrderKept
------------------------------------------------------------------------------
LEMMA ContentsValues ==
  ASSUME NEW S, NEW l \in Seq(S), UniqueIn(l)
  PROVE  /\ DOMAIN Contents(l) = NamesIn(l)
         /\ \A i \in 1 .. Len(l) : l[i].name \in NamesIn(l) /\ Contents(l)[l[i].name] = l[i]
         /\ \A k \in NamesIn(l) : \E i \in 1 .. Len(l) : l[i].name = k /\ Contents(l)[k] = l[i]
<1>1. \A i \in 1 .. Len(l) : l[i].name \in NamesIn(l)
  BY DEF NamesIn
<1>2. \A k \in NamesIn(l) : \E i \in 1 .. Len(l) : l[i].name = k /\ Contents(l)[k] = l[i]
  BY PositionOfEntry DEF Contents, EntryOf
<1>3. \A i \in 1 .. Len(l) : Contents(l)[l[i].name] = l[i]
  BY <1>1, PositionOfEntry DEF Contents, EntryOf
<1>. QED
  BY <1>1, <1>2, <1>3 DEF Contents

LEMMA ContentsIsMap ==
  ASSUME NEW K, NEW S, NEW l \in Seq(S), UniqueIn(l), \A e \in S : e.name \in K
  PROVE  Abstract!IsMap(Contents(l), K, S)
  BY ContentsValues DEF Abstract!IsMap

LEMMA WritesAssigns ==
  ASSUME NEW S, NEW l \in Seq(S), NEW m \in Seq(S), NEW n, UniqueIn(l), UniqueIn(m),
         Writes(l, m, n)
  PROVE  Abstract!Assigned(Contents(l), Contents(m), n, S)
<1> DEFINE f == Contents(l)
           g == Contents(m)
<1>1. n \in NamesIn(m) /\ NamesIn(m) = NamesIn(l) \union {n}
  BY DEF Writes, NamesIn
<1>2. g[n] \in S
  BY <1>1, ContentsValues
<1>3. ASSUME NEW k \in NamesIn(l), k # n
      PROVE  g[k] = f[k]
  <2>1. PICK i \in 1 .. Len(l) : l[i].name = k /\ f[k] = l[i]
    BY ContentsValues
  <2>2. i \in 1 .. Len(m) /\ m[i] = l[i]
    BY <1>3, <2>1 DEF Writes
  <2>. QED
    BY <2>1, <2>2, ContentsValues
<1>4. DOMAIN f = NamesIn(l) /\ DOMAIN g = NamesIn(m)
  BY DEF Contents
<1>5. g = [x \in NamesIn(m) |-> g[x]]
  BY DEF Contents
<1>. HIDE DEF f, g
<1>6. g = Abstract!Bind(f, n, g[n])
  BY <1>1, <1>3, <1>4, <1>5 DEF Abstract!Bind
<1>. QED
  BY <1>1, <1>2, <1>4, <1>6 DEF Abstract!Assigned, f, g

LEMMA RemovesDeletes ==
  ASSUME NEW S, NEW l \in Seq(S), NEW m \in Seq(S), NEW n, UniqueIn(l), UniqueIn(m),
         Removes(l, m, n)
  PROVE  Abstract!Deleted(Contents(l), Contents(m), n)
<1> DEFINE f == Contents(l)
           g == Contents(m)
<1>1. PICK i \in 1 .. Len(l) :
        /\ l[i].name = n /\ Len(m) = Len(l) - 1
        /\ \A j \in 1 .. Len(m) : m[j] = IF j < i THEN l[j] ELSE l[j + 1]
  BY DEF Removes
<1>2. \A k \in 1 .. Len(l) \ {i} : \E j \in 1 .. Len(m) : m[j] = l[k]
  <2>1. \A k \in 1 .. Len(l) \ {i} :
          LET j == IF k < i THEN k ELSE k - 1 IN j \in 1 .. Len(m) /\ m[j] = l[k]
    BY <1>1
  <2>. QED
    BY <2>1
<1>3. \A j \in 1 .. Len(m) : \E k \in 1 .. Len(l) \ {i} : m[j] = l[k]
  BY <1>1
<1>4. \A k \in 1 .. Len(l) \ {i} : l[k].name # n
  BY <1>1 DEF UniqueIn
<1>5. n \in NamesIn(l) /\ NamesIn(m) = NamesIn(l) \ {n}
  <2>1. n \in NamesIn(l)
    BY <1>1 DEF NamesIn
  <2>2. ASSUME NEW k \in NamesIn(m)
        PROVE  k \in NamesIn(l) /\ k # n
    <3>1. PICK j \in 1 .. Len(m) : m[j].name = k
      BY DEF NamesIn
    <3>. QED
      BY <1>3, <1>4, <3>1 DEF NamesIn
  <2>3. ASSUME NEW k \in NamesIn(l), k # n
        PROVE  k \in NamesIn(m)
    <3>1. PICK j \in 1 .. Len(l) : l[j].name = k
      BY DEF NamesIn
    <3>2. j # i
      BY <1>1, <2>3, <3>1
    <3>. QED
      BY <1>2, <3>1, <3>2 DEF NamesIn
  <2>. QED
    BY <2>1, <2>2, <2>3
<1>6. ASSUME NEW x \in NamesIn(m)
      PROVE  g[x] = f[x]
  BY <1>3, <1>6, ContentsValues
<1>7. DOMAIN f = NamesIn(l) /\ g = [x \in NamesIn(m) |-> g[x]]
  BY DEF Contents
<1>. HIDE DEF f, g
<1>. QED
  BY <1>5, <1>6, <1>7 DEF Abstract!Deleted, Abstract!Unbind, f, g

LEMMA ChangedMaps ==
  ASSUME NEW S, NEW l \in Seq(S), NEW m \in Seq(S), NEW n, UniqueIn(l), UniqueIn(m),
         Changed(l, m, n)
  PROVE  \/ Contents(m) = Contents(l)
         \/ Abstract!Assigned(Contents(l), Contents(m), n, S)
         \/ Abstract!Deleted(Contents(l), Contents(m), n)
  BY WritesAssigns, RemovesDeletes DEF Changed

(* The lists of Desired implement the two finite maps and the snapshot of  *)
(* KeyedStore: a call changes the one key it names, and Exec copies all    *)
(* three parts of one moment.                                              *)
THEOREM DesiredImplementsMaps == Spec => ImplementsKeyedStore
<1>1. Init => Abstract!Init
  <2>. SUFFICES ASSUME Init PROVE Abstract!Init
    OBVIOUS
  <2>1. TypeOK /\ UniqueNames
    BY InitInv DEF Inv
  <2>2. /\ Abstract!IsMap(Contents(resources), Names, Entries)
        /\ Abstract!IsMap(Contents(conn), DetailNames, Connections)
    BY <2>1, ContentsIsMap DEF TypeOK, UniqueNames, Entries, Connections
  <2>. QED
    BY <2>1, <2>2 DEF Init, TypeOK, Synced, Abstract!Init, Abstract!Snapshot
<1>2. Inv /\ Inv' /\ [Next]_vars => [Abstract!Next]_(Abstract!kvars)
  <2>. SUFFICES ASSUME Inv, Inv', [Next]_vars
                PROVE  Abstract!Next \/ UNCHANGED Abstract!kvars
    OBVIOUS
  <2>0. /\ resources \in Seq(Entries) /\ resources' \in Seq(Entries)
        /\ conn \in Seq(Connections) /\ conn' \in Seq(Connections)
        /\ composite' \in CompositeValues
        /\ UniqueIn(resources) /\ UniqueIn(resources') /\ UniqueIn(conn) /\ UniqueIn(conn')
    BY DEF Inv, TypeOK, UniqueNames
  <2>1. ASSUME NEW n \in Names, phase = "open", Changed(resources, resources', n),
               UNCHANGED <<conn, composite, io, phase>>
        PROVE  Abstract!Next \/ UNCHANGED Abstract!kvars
    <3>1. \/ Contents(resources') = Contents(resources)
          \/ Abstract!Assigned(Contents(resources), Contents(resources'), n, Entries)
          \/ Abstract!Deleted(Contents(resources), Contents(resources'), n)
      BY <2>0, <2>1, ChangedMaps
    <3>. QED
      BY <2>1, <3>1 DEF Abstract!Next, Abstract!ChangeResource, Abstract!kvars, Contents
  <2>2. ASSUME NEW n \in DetailNames, phase = "open", Changed(conn, conn', n),
               UNCHANGED <<resources, composite, io, phase>>
        PROVE  Abstract!Next \/ UNCHANGED Abstract!kvars
    <3>1. \/ Contents(conn') = Contents(conn)
          \/ Abstract!Assigned(Contents(conn), Contents(conn'), n, Connections)
          \/ Abstract!Deleted(Contents(conn), Contents(conn'), n)
      BY <2>0, <2>2, ChangedMaps
    <3>. QED
      BY <2>2, <3>1 DEF Abstract!Next, Abstract!ChangeDetail, Abstract!kvars, Contents
  <2>3. CASE phase = "open" /\ UNCHANGED <<resources, conn, io, phase>>
    BY <2>0, <2>3 DEF Abstract!Next, Abstract!ChangeComposite
  <2>4. CASE phase = "open" /\ io' = Synced /\ phase' = "written" /\ UNCHANGED <<resources, conn, composite>>
    BY <2>4 DEF Synced, Abstract!Next, Abstract!Publish, Abstract!Snapshot
  <2>5. CASE UNCHANGED vars
    BY <2>5 DEF vars, Abstract!kvars, Contents
  <2>. QED
    BY <2>1, <2>2, <2>3, <2>4, <2>5, StepChanges
<1>. QED
  BY <1>1, <1>2, InitInv, NextInv, PTL DEF Spec, ImplementsKeyedStore, Abstract!Spec
------------------------------------------------------------------------------
(* put changes no more than the raw object of the entry it names. *)
LEMMA PutEntry ==
  ASSUME NEW l \in Seq(Entries), NEW n \in Names, NEW t \in Types, NEW obj \in Raws,
         UniqueIn(l), NEW k \in NamesIn(l)
  PROVE  LET m == Put(l, Scheme, t, obj, n).list IN
         /\ EntryOf(m, k).extra = EntryOf(l, k).extra
         /\ EntryOf(m, k).raw = IF k = n /\ t \in Scheme THEN [obj EXCEPT !.kind = t]
                                                        ELSE EntryOf(l, k).raw
<1> DEFINE i == Position(l, n)
           j == Position(l, k)
           raw == [obj EXCEPT !.kind = t]
           m == Put(l, Scheme, t, obj, n).list
<1>1. m \in Seq(Entries) /\ (m = l \/ Writes(l, m, n))
  BY PutWrites
<1>2. UniqueIn(m)
  BY <1>1, WritesUnique
<1>3. j \in 1 .. Len(l) /\ l[j].name = k
  BY PositionOfEntry
<1>4. j \in 1 .. Len(m) /\ m[j].name = k
  BY <1>1, <1>3 DEF Writes
<1>5. Position(m, k) = j
  BY <1>1, <1>2, <1>4, PositionIsIndex
<1>6. l[j] \in Entries
  BY <1>3
<1>7. k = n <=> i = j
  BY <1>3, PositionIsIndex
<1>8. m[j].extra = l[j].extra /\ m[j].raw = IF k = n /\ t \in Scheme THEN raw ELSE l[j].raw
  <2>1. CASE t \notin Scheme
    BY <2>1 DEF Put
  <2>2. CASE t \in Scheme /\ i = 0
    <3>1. m = Append(l, [name |-> n, raw |-> raw, extra |-> Nil])
      BY <2>2 DEF Put
    <3>. QED
      BY <1>3, <1>7, <2>2, <3>1
  <2>3. CASE t \in Scheme /\ i # 0
    <3>1. m = [l EXCEPT ![i].raw = raw]
      BY <2>3 DEF Put
    <3>2. m[j] = IF j = i THEN [l[j] EXCEPT !.raw = raw] ELSE l[j]
      BY <1>3, <3>1
    <3>. QED
      BY <1>6, <1>7, <2>3, <3>2 DEF Entries
  <2>. QED
    BY <2>1, <2>2, <2>3
<1>. QED
  BY <1>5, <1>8 DEF EntryOf

(* A kube object decoded over a fresh one keeps what makes it itself. *)
LEMMA PutIntoObjectEntry ==
  ASSUME NEW l \in Seq(Entries), NEW m \in Manifests, NEW n \in Names,
         NEW refs \in SUBSET Refs, UniqueIn(l), NEW k \in NamesIn(l)
  PROVE  LET old == EntryOf(l, k)
             new == EntryOf(PutIntoObject(l, Scheme, m, n, refs).list, k)
         IN /\ new.extra = old.extra
            /\ old.raw # Bad => /\ old.raw.meta # Nil => new.raw.meta = old.raw.meta
                                /\ old.raw.refs # {}  => new.raw.refs = old.raw.refs
                                /\ new.raw.status = old.raw.status
<1> DEFINE fresh == KubeObject(n, refs)
           g     == GetFrom(l, fresh, n)
           obj   == [g.obj EXCEPT !.spec = m]
           p     == PutIntoObject(l, Scheme, m, n, refs)
           old   == EntryOf(l, k)
           new   == EntryOf(p.list, k)
<1>1. "Object" \in Types /\ "Object" \in Scheme
  BY SchemeAssumption
<1>2. fresh \in Raws
  BY <1>1, NamesAssumption DEF KubeObject, Raws
<1>3. g.err \in Errors /\ g.obj \in Raws
  BY <1>2, GetFromResult
<1>4. obj \in Raws /\ obj.meta = g.obj.meta /\ obj.refs = g.obj.refs /\ obj.status = g.obj.status
  BY <1>3 DEF Raws
<1>5. p.list = l \/ p.list = Put(l, Scheme, "Object", obj, n).list
  BY DEF PutIntoObject
<1>6. CASE p.list = l
  BY <1>6
<1>7. CASE p.list = Put(l, Scheme, "Object", obj, n).list
  <2>1. /\ new.extra = old.extra
        /\ new.raw = IF k = n THEN [obj EXCEPT !.kind = "Object"] ELSE old.raw
    <3> DEFINE q == Put(l, Scheme, "Object", obj, n).list
    <3>. HIDE DEF obj
    <3>1. /\ EntryOf(q, k).extra = EntryOf(l, k).extra
          /\ EntryOf(q, k).raw = IF k = n /\ "Object" \in Scheme
                                 THEN [obj EXCEPT !.kind = "Object"] ELSE EntryOf(l, k).raw
      BY <1>1, <1>4, PutEntry
    <3>2. new = EntryOf(q, k)
      BY <1>7
    <3>. QED
      BY <1>1, <3>1, <3>2
  <2>2. CASE k # n
    BY <2>1, <2>2
  <2>3. CASE k = n /\ old.raw # Bad
    <3>1. Position(l, n) # 0 /\ old = l[Position(l, n)]
      BY <2>3, PositionOfEntry DEF EntryOf
    <3>2. g.obj = Decode(old.raw, fresh)
      BY <2>3, <3>1 DEF GetFrom
    <3>3. /\ old.raw.meta # Nil => g.obj.meta = old.raw.meta
          /\ old.raw.refs # {} => g.obj.refs = old.raw.refs
          /\ g.obj.status = old.raw.status
      BY <3>2 DEF Decode, Over, KubeObject
    <3>4. /\ new.raw.meta = obj.meta /\ new.raw.refs = obj.refs
          /\ new.raw.status = obj.status
      BY <1>4, <2>1, <2>3 DEF Raws
    <3>. QED
      BY <1>4, <2>1, <3>3, <3>4
  <2>. QED
    BY <2>1, <2>2, <2>3
<1>. QED
  BY <1>5, <1>6, <1>7

LEMMA RemoveFromEntry ==
  ASSUME NEW l \in Seq(Entries), NEW n, UniqueIn(l),
         NEW k \in NamesIn(l) \intersect NamesIn(RemoveFrom(l, n).list)
  PROVE  EntryOf(RemoveFrom(l, n).list, k) = EntryOf(l, k)
<1> DEFINE m == RemoveFrom(l, n).list
<1>1. m \in Seq(Entries) /\ (m = l \/ Removes(l, m, n))
  BY RemoveFromRemoves
<1>2. CASE m = l
  BY <1>2
<1>3. CASE Removes(l, m, n)
  <2>1. Contents(m) = Abstract!Unbind(Contents(l), n)
    BY <1>1, <1>3, RemovesUnique, RemovesDeletes DEF Abstract!Deleted
  <2>2. /\ Contents(m)[k] = EntryOf(m, k)
        /\ Contents(l)[k] = EntryOf(l, k)
        /\ k \in DOMAIN Contents(m)
    BY DEF Contents
  <2>. QED
    BY <2>1, <2>2 DEF Abstract!Unbind
<1>. QED
  BY <1>1, <1>2, <1>3

(* Whoever overwrites a desired kube object leaves it the composed         *)
(* resource it was.                                                        *)
THEOREM IdentityIsKept == Spec => IdentityKept
<1>1. ASSUME Inv, [Next]_vars
      PROVE  KeepsIdentity
  <2>. SUFFICES ASSUME NEW k \in NamesIn(resources) \intersect NamesIn(resources')
                PROVE  LET old == EntryOf(resources, k)
                           new == EntryOf(resources', k)
                       IN /\ new.extra = old.extra
                          /\ last'.op = "PutIntoObject" /\ old.raw # Bad =>
                               /\ old.raw.meta # Nil => new.raw.meta = old.raw.meta
                               /\ old.raw.refs # {}  => new.raw.refs = old.raw.refs
                               /\ new.raw.status = old.raw.status
    BY DEF KeepsIdentity
  <2>0. resources \in Seq(Entries) /\ UniqueIn(resources)
    BY <1>1 DEF Inv, TypeOK, UniqueNames
  <2>1. CASE resources' = resources
    BY <2>1
  <2>2. ASSUME NEW t \in Types \ {"Object"}, NEW n \in Names, NEW v \in Values,
               PutTyped(t, n, v)
        PROVE  EntryOf(resources', k).extra = EntryOf(resources, k).extra /\ last'.op = "Put"
    <3> DEFINE obj == [kind |-> t, meta |-> n, refs |-> {}, spec |-> [kind |-> t, val |-> v],
                       status |-> Nil]
    <3>1. obj \in Raws
      BY NamesAssumption DEF Raws, Manifests
    <3>. QED
      BY <2>0, <2>2, <3>1, PutEntry DEF PutTyped, Call
  <2>3. ASSUME NEW m \in Manifests, NEW n \in Names, NEW r \in SUBSET Refs, PutObject(m, n, r)
        PROVE  LET old == EntryOf(resources, k)
                   new == EntryOf(resources', k)
               IN /\ new.extra = old.extra
                  /\ old.raw # Bad => /\ old.raw.meta # Nil => new.raw.meta = old.raw.meta
                                      /\ old.raw.refs # {}  => new.raw.refs = old.raw.refs
                                      /\ new.raw.status = old.raw.status
    <3>1. resources' = PutIntoObject(resources, Scheme, m, n, r).list
      BY <2>3 DEF PutObject
    <3>. QED
      BY <2>0, <3>1, PutIntoObjectEntry
  <2>4. ASSUME NEW n \in Names, RemoveResource(n)
        PROVE  EntryOf(resources', k) = EntryOf(resources, k)
    BY <2>0, <2>4, RemoveFromEntry DEF RemoveResource
  <2>. QED
    BY <1>1, <2>1, <2>2, <2>3, <2>4
       DEF Next, Step, Get, SetComposite, PutConnection, RemoveConnection, Exec, vars
<1>. QED
  BY <1>1, InitInv, NextInv, PTL DEF Spec, IdentityKept
==============================================================================
