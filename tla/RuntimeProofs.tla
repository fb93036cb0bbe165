---------------------------- MODULE RuntimeProofs ----------------------------
(***************************************************************************)
(* What the library's lookups and updates do to a list in which no name    *)
(* occurs twice: the lemmas that the proofs about its users share.         *)
(***************************************************************************)
EXTENDS Runtime, TLAPS

(* The first resource of a name is the only one.                           *)
LEMMA PositionIsIndex ==
  ASSUME NEW S, NEW list \in Seq(S), NEW n, UniqueIn(list)
  PROVE  /\ Position(list, n) \in 0 .. Len(list)
         /\ Position(list, n) # 0 => list[Position(list, n)].name = n
         /\ \A i \in DOMAIN list : list[i].name = n => Position(list, n) = i
<1> DEFINE I == {i \in 1 .. Len(list) : list[i].name = n}
<1>1. Position(list, n) = IF I # {} THEN Min(I) ELSE 0
  BY DEF Position, SelectInSeq
<1>2. \A i \in I : I = {i}
  BY DEF UniqueIn
<1>3. \A i \in I : Min(I) = i
  BY <1>2 DEF Min
<1>. QED
  BY <1>1, <1>2, <1>3

LEMMA PositionIsZero ==
  ASSUME NEW S, NEW list \in Seq(S), NEW n, UniqueIn(list)
  PROVE  Position(list, n) = 0 <=> n \notin NamesIn(list)
  BY PositionIsIndex DEF NamesIn
------------------------------------------------------------------------------
(* The entry called n. *)
At(list, n) == list[Position(list, n)]

(* new is list with raw under the name n, in place of what was there or at *)
(* the end.                                                                *)
Puts(list, new, n, raw) ==
  /\ IsList(new)
  /\ NamesIn(new) = NamesIn(list) \union {n}
  /\ Len(new) >= Len(list)
  /\ \A i \in DOMAIN list :
       /\ new[i].name = list[i].name /\ new[i].extra = list[i].extra
       /\ list[i].name # n => new[i] = list[i]
  /\ \A m \in NamesIn(list) \ {n} : At(new, m) = At(list, m)
  /\ At(new, n).raw = raw
  /\ \A i \in DOMAIN new : new[i] = At(new, new[i].name)

LEMMA ListOf ==
  ASSUME NEW S, NEW list \in Seq(S)
  PROVE  list \in Seq(Range(list))
  BY DEF Range

(* Every entry is found under its name, and under no other.                *)
LEMMA EntryAt ==
  ASSUME NEW list, IsList(list)
  PROVE  /\ \A i \in DOMAIN list : At(list, list[i].name) = list[i] /\ list[i].name \in NamesIn(list)
         /\ \A n \in NamesIn(list) :
              Position(list, n) \in DOMAIN list /\ At(list, n).name = n /\ IsEntry(At(list, n))
<1>1. list \in Seq(Range(list)) /\ UniqueIn(list)
  BY DEF IsList
<1>2. \A n : /\ Position(list, n) \in 0 .. Len(list)
             /\ Position(list, n) # 0 => list[Position(list, n)].name = n
             /\ \A i \in DOMAIN list : list[i].name = n => Position(list, n) = i
  BY <1>1, PositionIsIndex
<1>3. \A n : Position(list, n) = 0 <=> n \notin NamesIn(list)
  BY <1>1, PositionIsZero
<1>. QED
  BY <1>1, <1>2, <1>3 DEF At, IsList, NamesIn

LEMMA AppendPuts ==
  ASSUME NEW list, IsList(list), NEW n, n \notin NamesIn(list), NEW raw
  PROVE  Puts(list, Append(list, [name |-> n, raw |-> raw, extra |-> Nil]), n, raw)
<1> DEFINE e   == [name |-> n, raw |-> raw, extra |-> Nil]
           new == Append(list, e)
<1>1. list \in Seq(Range(list) \union {e})
  BY DEF IsList
<1>2. /\ new \in Seq(Range(list) \union {e}) /\ Len(new) = Len(list) + 1
      /\ \A i \in DOMAIN list : new[i] = list[i]
      /\ new[Len(list) + 1] = e
  BY <1>1
<1>3. DOMAIN new = DOMAIN list \union {Len(list) + 1} /\ Len(list) \in Nat /\ DOMAIN list = 1 .. Len(list)
  BY <1>1, <1>2
<1>. HIDE DEF new
<1>4. NamesIn(new) = NamesIn(list) \union {n}
  BY <1>2, <1>3 DEF NamesIn
<1>5. UniqueIn(new)
  BY <1>2, <1>3 DEF UniqueIn, IsList, NamesIn
<1>6. IsList(new)
  BY <1>2, <1>3, <1>5, ListOf DEF IsList, IsEntry
<1>7. \A i \in DOMAIN new : new[i] = At(new, new[i].name)
  BY <1>6, EntryAt
<1>8. \A m \in NamesIn(list) \ {n} : At(new, m) = At(list, m)
  <2>. SUFFICES ASSUME NEW m \in NamesIn(list) \ {n} PROVE At(new, m) = At(list, m)
    OBVIOUS
  <2>1. PICK i \in DOMAIN list : list[i].name = m
    BY DEF NamesIn
  <2>2. At(list, m) = list[i]
    BY <2>1, EntryAt
  <2>3. new[i] = list[i] /\ i \in DOMAIN new
    BY <1>2, <1>3
  <2>4. At(new, new[i].name) = new[i]
    BY <2>3, <1>7
  <2>. QED
    BY <2>1, <2>2, <2>3, <2>4
<1>9. At(new, n).raw = raw
  BY <1>2, <1>3, <1>7
<1>. QED
  BY <1>2, <1>3, <1>4, <1>6, <1>7, <1>8, <1>9 DEF Puts, new

LEMMA ReplacePuts ==
  ASSUME NEW list, IsList(list), NEW n \in NamesIn(list), NEW raw
  PROVE  Puts(list, [list EXCEPT ![Position(list, n)].raw = raw], n, raw)
<1> DEFINE p   == Position(list, n)
           f   == [list[p] EXCEPT !.raw = raw]
           new == [list EXCEPT ![p] = f]
<1>1. p \in DOMAIN list /\ list[p].name = n /\ IsEntry(list[p]) /\ \A i \in DOMAIN list : list[i].name = n => i = p
  BY EntryAt DEF At, IsList, UniqueIn
<1>2. f = [name |-> n, raw |-> raw, extra |-> list[p].extra]
  BY <1>1 DEF IsEntry
<1>. HIDE DEF p, f
<1>3. list \in Seq(Range(list) \union {f})
  BY DEF IsList
<1>4. /\ new \in Seq(Range(list) \union {f}) /\ Len(new) = Len(list) /\ DOMAIN new = DOMAIN list
      /\ \A i \in DOMAIN list : new[i] = IF i = p THEN f ELSE list[i]
  BY <1>1, <1>3
<1>. HIDE DEF new
<1>5. \A i \in DOMAIN list : new[i].name = list[i].name /\ new[i].extra = list[i].extra /\ IsEntry(new[i])
  BY <1>1, <1>2, <1>4 DEF IsEntry, IsList
<1>6. NamesIn(new) = NamesIn(list) \union {n}
  BY <1>4, <1>5 DEF NamesIn
<1>7. UniqueIn(new)
  BY <1>4, <1>5 DEF UniqueIn, IsList
<1>8. IsList(new)
  BY <1>4, <1>5, <1>7, ListOf DEF IsList
<1>9. \A i \in DOMAIN new : new[i] = At(new, new[i].name)
  BY <1>8, EntryAt
<1>10. \A m \in NamesIn(list) \ {n} : At(new, m) = At(list, m)
  <2>. SUFFICES ASSUME NEW m \in NamesIn(list) \ {n} PROVE At(new, m) = At(list, m)
    OBVIOUS
  <2>1. PICK i \in DOMAIN list : list[i].name = m
    BY DEF NamesIn
  <2>2. At(list, m) = list[i]
    BY <2>1, EntryAt
  <2>3. new[i] = list[i] /\ i \in DOMAIN new
    BY <2>1, <1>1, <1>4
  <2>4. At(new, new[i].name) = new[i]
    BY <2>3, <1>9
  <2>. QED
    BY <2>1, <2>2, <2>3, <2>4
<1>11. At(new, n).raw = raw
  BY <1>1, <1>2, <1>4, <1>9
<1>12. Len(new) >= Len(list)
  BY <1>3, <1>4
<1>. QED
  BY <1>1, <1>4, <1>5, <1>6, <1>8, <1>9, <1>10, <1>11, <1>12 DEF Puts, new, f, p
------------------------------------------------------------------------------
(* A lookup depends on the entry of its name only. *)
LEMMA GetFromAt ==
  ASSUME NEW list, IsList(list), NEW obj, NEW n
  PROVE  /\ n \notin NamesIn(list) => GetFrom(list, obj, n) = [err |-> "NotFound", obj |-> obj]
         /\ n \in NamesIn(list) /\ At(list, n).raw = Bad =>
              GetFrom(list, obj, n) = [err |-> "Decode", obj |-> obj]
         /\ n \in NamesIn(list) /\ At(list, n).raw # Bad =>
              GetFrom(list, obj, n) = [err |-> "none", obj |-> Decode(At(list, n).raw, obj)]
<1>1. /\ n \notin NamesIn(list) => Position(list, n) = 0
      /\ n \in NamesIn(list) => Position(list, n) # 0
  BY PositionIsZero DEF IsList
<1>. QED
  BY <1>1 DEF GetFrom, At

(* What PutIntoObject writes where nothing is desired yet, and over raw.   *)
Fresh(kon, refs, manifest) ==
  [kind |-> "Object", meta |-> kon, refs |-> refs, spec |-> manifest, status |-> Nil]

Renewed(raw, kon, refs, manifest) ==
  [kind |-> "Object", meta |-> Over(raw.meta, kon),
   refs |-> IF raw.refs = {} THEN refs ELSE raw.refs,
   spec |-> manifest, status |-> Over(raw.status, Nil)]

(* The kube object that PutIntoObject stores.                              *)
LEMMA StoredObject ==
  ASSUME NEW list, IsList(list), NEW manifest, NEW n, NEW refs,
         n \in NamesIn(list) => At(list, n).raw # Bad
  PROVE  LET w == Stored(list, manifest, n, refs) IN
         /\ n \notin NamesIn(list) => w = Fresh(n, refs, manifest)
         /\ n \in NamesIn(list) => w = Renewed(At(list, n).raw, n, refs, manifest)
<1> DEFINE g == GetFrom(list, KubeObject(n, refs), n)
           o == [g.obj EXCEPT !.spec = manifest]
           w == [o EXCEPT !.kind = "Object"]
<1>1. /\ n \notin NamesIn(list) => g = [err |-> "NotFound", obj |-> KubeObject(n, refs)]
      /\ n \in NamesIn(list) => g = [err |-> "none", obj |-> Decode(At(list, n).raw, KubeObject(n, refs))]
  BY GetFromAt
<1>3. \A m, r, s, t : g.obj = [kind |-> g.obj.kind, meta |-> m, refs |-> r, spec |-> s, status |-> t]
        => w = [kind |-> "Object", meta |-> m, refs |-> r, spec |-> manifest, status |-> t]
  <2>. HIDE DEF g
  <2>. SUFFICES ASSUME NEW m, NEW r, NEW s, NEW t,
                       g.obj = [kind |-> g.obj.kind, meta |-> m, refs |-> r, spec |-> s, status |-> t]
                PROVE  w = [kind |-> "Object", meta |-> m, refs |-> r, spec |-> manifest, status |-> t]
    OBVIOUS
  <2>1. o = [kind |-> g.obj.kind, meta |-> m, refs |-> r, spec |-> manifest, status |-> t]
    OBVIOUS
  <2>. HIDE DEF o
  <2>. QED
    BY <2>1
<1>4. /\ n \notin NamesIn(list) => w = Fresh(n, refs, manifest)
      /\ n \in NamesIn(list) => w = Renewed(At(list, n).raw, n, refs, manifest)
  <2>1. CASE n \notin NamesIn(list)
    <3>1. g.obj = [kind |-> "Object", meta |-> n, refs |-> refs, spec |-> Nil, status |-> Nil]
      BY <1>1, <2>1 DEF KubeObject
    <3>. QED
      BY <3>1, <2>1, <1>3 DEF Fresh, KubeObject
  <2>2. CASE n \in NamesIn(list)
    <3> DEFINE r  == At(list, n).raw
               rs == IF r.refs = {} THEN refs ELSE r.refs
    <3>1. g.obj = [kind |-> r.kind, meta |-> Over(r.meta, n), refs |-> rs,
                   spec |-> Over(r.spec, Nil), status |-> Over(r.status, Nil)]
      BY <1>1, <2>2 DEF KubeObject, Decode
    <3>2. Renewed(r, n, refs, manifest) =
            [kind |-> "Object", meta |-> Over(r.meta, n), refs |-> rs,
             spec |-> manifest, status |-> Over(r.status, Nil)]
      BY DEF Renewed
    <3>. HIDE DEF g, o, w, rs
    <3>3. w = [kind |-> "Object", meta |-> Over(r.meta, n), refs |-> rs,
               spec |-> manifest, status |-> Over(r.status, Nil)]
      BY <3>1, <1>3
    <3>. QED
      BY <3>2, <3>3, <2>2
  <2>. QED
    BY <2>1, <2>2
<1>. QED
  BY <1>4 DEF Stored

LEMMA PutIntoObjectPuts ==
  ASSUME NEW list, IsList(list), NEW types, NEW manifest, NEW n, NEW refs,
         "Object" \in types, manifest.kind \in types,
         n \in NamesIn(list) => At(list, n).raw # Bad
  PROVE  LET p == PutIntoObject(list, types, manifest, n, refs) IN
         /\ p.err = "none"
         /\ n \notin NamesIn(list) => Puts(list, p.list, n, Fresh(n, refs, manifest))
         /\ n \in NamesIn(list) => Puts(list, p.list, n, Renewed(At(list, n).raw, n, refs, manifest))
<1> DEFINE g == GetFrom(list, KubeObject(n, refs), n)
           o == [g.obj EXCEPT !.spec = manifest]
           w == [o EXCEPT !.kind = "Object"]
           q == Put(list, types, "Object", o, n)
<1>1. /\ n \notin NamesIn(list) => g = [err |-> "NotFound", obj |-> KubeObject(n, refs)]
      /\ n \in NamesIn(list) => g = [err |-> "none", obj |-> Decode(At(list, n).raw, KubeObject(n, refs))]
  BY GetFromAt
<1>2. PutIntoObject(list, types, manifest, n, refs) = q
  BY <1>1 DEF PutIntoObject
<1>4. /\ n \notin NamesIn(list) => w = Fresh(n, refs, manifest)
      /\ n \in NamesIn(list) => w = Renewed(At(list, n).raw, n, refs, manifest)
  <2>1. w = Stored(list, manifest, n, refs)
    BY DEF Stored
  <2>. QED
    BY <2>1, StoredObject
<1>. HIDE DEF g, o
<1>5. /\ n \notin NamesIn(list) => Position(list, n) = 0
      /\ n \in NamesIn(list) => Position(list, n) # 0
  BY PositionIsZero DEF IsList
<1>6. /\ q.err = "none"
      /\ n \notin NamesIn(list) => q.list = Append(list, [name |-> n, raw |-> w, extra |-> Nil])
      /\ n \in NamesIn(list) => q.list = [list EXCEPT ![Position(list, n)].raw = w]
  BY <1>5 DEF Put
<1>. HIDE DEF w, q
<1>7. n \notin NamesIn(list) => Puts(list, q.list, n, Fresh(n, refs, manifest))
  BY <1>4, <1>6, AppendPuts
<1>8. n \in NamesIn(list) => Puts(list, q.list, n, Renewed(At(list, n).raw, n, refs, manifest))
  BY <1>4, <1>6, ReplacePuts
<1>. QED
  BY <1>2, <1>6, <1>7, <1>8
==============================================================================
