--------------------------- MODULE ManifestsProofs ---------------------------
(***************************************************************************)
(* Proofs about Manifests, for every manifest that the schemas allow.      *)
(***************************************************************************)
EXTENDS Manifests, SequenceTheorems, WellFoundedInduction, TLAPS

LEMMA LeastNumber ==
  ASSUME NEW T, T \subseteq Nat, T # {}
  PROVE  \E x \in T : \A y \in T : x <= y
<1> DEFINE R == OpToRel(<, Nat)
<1>1. IsWellFoundedOn(R, Nat)
  BY NatLessThanWellFounded
<1> HIDE DEF R
<1>2. PICK x \in T : \A y \in T : ~ (<<y, x>> \in R)
  BY <1>1, WFMin
<1>3. ASSUME NEW y \in T PROVE x <= y
  <2>1. x \in Nat /\ y \in Nat /\ <<y, x>> \notin R
    BY <1>2
  <2>2. ~ y < x
    BY <2>1 DEF R, OpToRel
  <2>. QED
    BY <2>1, <2>2
<1>. QED
  BY <1>3

(* What lies above a member of an object lies above what is in the member. *)
LEMMA PrefixesAreClosed ==
  ASSUME NEW S, NEW path \in Seq(S), NEW q \in Prefixes(path)
  PROVE  /\ q \in Seq(S) /\ Len(q) \in 1 .. Len(path) - 1
         /\ \A i \in 1 .. Len(q) : q[i] = path[i]
         /\ Prefixes(q) \subseteq Prefixes(path)
         /\ path \notin Prefixes(q) /\ q # path
<1>1. PICK k \in 1 .. Len(path) - 1 : q = SubSeq(path, 1, k)
  BY DEF Prefixes
<1>2. \A i \in 1 .. k : path[i] \in S
  BY <1>1
<1>3. q \in Seq(S) /\ Len(q) = k /\ \A i \in 1 .. k : q[i] = path[i]
  BY <1>1, <1>2, SubSeqProperties
<1>4. ASSUME NEW r \in Prefixes(q)
      PROVE  r \in Prefixes(path) /\ r # path
  <2>1. PICK j \in 1 .. k - 1 : r = SubSeq(q, 1, j)
    BY <1>3, <1>4 DEF Prefixes
  <2>2. r = SubSeq(path, 1, j)
    BY <1>1, <2>1, SubSeqOfSubSeq
  <2>3. Len(r) = j
    BY <2>2, <1>2, SubSeqProperties
  <2>. QED
    BY <2>1, <2>2, <2>3 DEF Prefixes
<1>. QED
  BY <1>3, <1>4

(* Of some of what lies above path there is something uppermost.           *)
LEMMA Uppermost ==
  ASSUME NEW S, NEW path \in Seq(S), NEW P, P \subseteq Prefixes(path), P # {}
  PROVE  \E q \in P : \A r \in Prefixes(q) : r \notin P
<1> DEFINE T == {Len(q) : q \in P}
<1>1. T \subseteq Nat /\ T # {}
  BY PrefixesAreClosed
<1>2. PICK n \in T : \A m \in T : n <= m
  BY <1>1, LeastNumber
<1>3. PICK q \in P : n = Len(q)
  BY <1>2
<1>4. q \in Seq(S)
  BY <1>3, PrefixesAreClosed
<1>5. ASSUME NEW r \in Prefixes(q), r \in P PROVE FALSE
  <2>1. Len(r) \in 1 .. Len(q) - 1 /\ Len(q) \in Nat
    BY <1>4, PrefixesAreClosed
  <2>2. n <= Len(r)
    BY <1>2, <1>5
  <2>. QED
    BY <1>3, <2>1, <2>2
<1>. QED
  BY <1>5

(* The path of two fields below the status lies on every longer one.       *)
LEMMA SecondPrefix ==
  ASSUME NEW S, NEW path \in Seq(S), Status \in Prefixes(path)
  PROVE  /\ path[1] = "status" /\ Len(path) >= 2
         /\ Len(path) # 2 => \E q \in Prefixes(path) :
                                Len(q) = 2 /\ q[1] = "status" /\ Status \in Prefixes(q)
<1>1. Len(path) >= 2 /\ path[1] = "status"
  BY PrefixesAreClosed DEF Status
<1>2. CASE Len(path) # 2
  <2>1. SubSeq(path, 1, 2) \in Prefixes(path)
    <3>1. Len(path) \in Nat /\ Len(path) >= 2 /\ Len(path) # 2
      BY <1>1, <1>2
    <3>2. \A n \in Nat : n >= 2 /\ n # 2 => 2 \in 1 .. n - 1
      OBVIOUS
    <3>3. 2 \in 1 .. Len(path) - 1
      BY <3>1, <3>2
    <3>. QED
      BY <3>3 DEF Prefixes
  <2>2. \A i \in 1 .. 2 : path[i] \in S
    BY <1>1
  <2>3. Len(SubSeq(path, 1, 2)) = 2 /\ SubSeq(path, 1, 2)[1] = path[1]
    BY <2>2, SubSeqProperties
  <2>4. SubSeq(SubSeq(path, 1, 2), 1, 1) = SubSeq(path, 1, 1)
    BY <1>1, SubSeqOfSubSeq
  <2>5. SubSeq(path, 1, 1) = Status
    <3>1. PICK k \in 1 .. Len(path) - 1 : Status = SubSeq(path, 1, k)
      BY DEF Prefixes
    <3>2. Len(SubSeq(path, 1, k)) = k
      BY <3>1, SubSeqProperties
    <3>3. Len(Status) = 1
      BY DEF Status
    <3>. QED
      BY <3>1, <3>2, <3>3
  <2>6. Status \in Prefixes(SubSeq(path, 1, 2))
    BY <2>3, <2>4, <2>5 DEF Prefixes
  <2>. QED
    BY <1>1, <2>1, <2>3, <2>6
<1>. QED
  BY <1>1, <1>2
------------------------------------------------------------------------------
LEMMA AllowedValues ==
  ASSUME NEW schema, NEW path \in DOMAIN schema, schema[path].type \in SchemaTypes,
         NEW value \in Allowed(schema[path])
  PROVE  /\ value = Null => schema[path].nullable
         /\ schema[path].type = "object" /\ value # Null => value = Value("object", FALSE)
         /\ schema[path].type = "array" /\ value # Null => value.is = "array"
<1> DEFINE type == schema[path].type
<1>1. JsonTypesOf(type) \subseteq {"string", "boolean", "object", "array"} \cup Numbers
  BY DEF JsonTypesOf, SchemaTypes, Numbers
<1>2. CASE /\ value \in [is : JsonTypesOf(type), zero : BOOLEAN]
           /\ type = "object" \/ value.is \in Numbers \ {"number"} => ~value.zero
  <2>1. value # Null
    BY <1>1, <1>2 DEF Null, Value, Numbers
  <2>2. type = "object" => value = Value("object", FALSE)
    BY <1>2 DEF JsonTypesOf, Value
  <2>3. type = "array" => value.is = "array"
    BY <1>2 DEF JsonTypesOf
  <2>. QED
    BY <2>1, <2>2, <2>3
<1>3. CASE schema[path].nullable /\ value = Null
  BY <1>3
<1>4. ASSUME NEW nullable, value \in IF nullable THEN {Null} ELSE {}
      PROVE  nullable /\ value = Null
  <2>1. CASE nullable
    BY <1>4, <2>1
  <2>2. CASE ~ nullable
    BY <1>4, <2>2
  <2>. QED
    BY <2>1, <2>2
<1>. QED
  BY <1>2, <1>3, <1>4 DEF Allowed

(* Whatever a Go type makes of a value, it changes numbers only.           *)
LEMMA HeldValue ==
  ASSUME NEW type, NEW value
  PROVE  \/ Held(type, value) = value
         \/ /\ type = "float" /\ value.is \in {"digits", "tiny"}
            /\ \E zero \in BOOLEAN : Held(type, value) = [is |-> "number", zero |-> zero]
<1>1. CASE type = "float" /\ value.is \in {"digits", "tiny"}
  <2>1. Held(type, value) = [is |-> "number", zero |-> (value.is = "tiny")]
    BY <1>1 DEF Held, Value
  <2>2. (value.is = "tiny") \in BOOLEAN
    OBVIOUS
  <2>. QED
    BY <1>1, <2>1, <2>2
<1>2. CASE ~ (type = "float" /\ value.is \in {"digits", "tiny"})
  BY <1>2 DEF Held
<1>. QED
  BY <1>1, <1>2

LEMMA AllowedNumber ==
  ASSUME NEW field, field.type = "number", NEW zero \in BOOLEAN
  PROVE  [is |-> "number", zero |-> zero] \in Allowed(field)
<1>1. [is |-> "number", zero |-> zero] \in [is : JsonTypesOf(field.type), zero : BOOLEAN]
  BY DEF JsonTypesOf, Numbers
<1>. QED
  BY <1>1 DEF Allowed

LEMMA NullIsHeld == \A type : Held(type, Null) = Null
  BY DEF Held, Null, Value

LEMMA AllowedNull ==
  ASSUME NEW field, field.nullable
  PROVE  Null \in Allowed(field)
  BY DEF Allowed
------------------------------------------------------------------------------
(* A Go type and its schema, and a document.                               *)
Fitting(go, schema, doc) ==
  WellFormed(schema) /\ Agrees(go, schema) /\ Valid(schema, doc) /\ Decodes(go, doc)

(* What a valid document holds.                                            *)
LEMMA Holding ==
  ASSUME NEW schema, NEW doc, WellFormed(schema), Valid(schema, doc), NEW path \in DOMAIN doc
  PROVE  /\ path \in DOMAIN schema /\ path \in Seq(STRING)
         /\ doc[path] = Null => schema[path].nullable
         /\ schema[path].type = "object" /\ doc[path] # Null => doc[path] = Value("object", FALSE)
         /\ \A q \in Prefixes(path) : Open(doc, q)
  BY AllowedValues DEF WellFormed, Valid

(* The struct that a field is written with was there, except below a status *)
(* that was not.                                                           *)
Holds(go, doc, q) == go[q].shape = "structValue" \/ Open(doc, q)

LEMMA HeldIsOpen ==
  ASSUME NEW go, NEW schema, NEW doc, Fitting(go, schema, doc), NEW path \in DOMAIN schema,
         \A q \in Prefixes(path) : Holds(go, doc, q)
  PROVE  \/ \A q \in Prefixes(path) : Open(doc, q)
         \/ Status \in Prefixes(path) /\ Len(path) = 2 /\ ~Open(doc, Status)
<1> SUFFICES ASSUME ~ \A q \in Prefixes(path) : Open(doc, q)
             PROVE  Status \in Prefixes(path) /\ Len(path) = 2 /\ ~Open(doc, Status)
  OBVIOUS
<1>1. path \in Seq(STRING) /\ \A q \in Prefixes(path) : q \in DOMAIN schema
  BY DEF Fitting, WellFormed
<1> DEFINE P == {q \in Prefixes(path) : ~Open(doc, q)}
<1>2. PICK q \in P : \A r \in Prefixes(q) : r \notin P
  BY <1>1, Uppermost
<1>3. \A r \in Prefixes(q) : Open(doc, r)
  BY <1>1, <1>2, PrefixesAreClosed
<1>4. /\ q \in DOMAIN schema /\ go[q].shape = "structValue"
      /\ schema[q].type = "object" /\ ~schema[q].nullable
  BY <1>1, <1>2 DEF Fitting, Agrees, Holds
<1>5. q = Status
  <2>. SUFFICES ASSUME q # Status PROVE FALSE
    OBVIOUS
  <2>1. schema[q].required
    BY <1>4 DEF Fitting, Agrees
  <2>2. q \in DOMAIN doc
    BY <1>3, <1>4, <2>1 DEF Fitting, Valid
  <2>3. doc[q] = Value("object", FALSE)
    BY <1>4, <2>2, Holding DEF Fitting
  <2>. QED
    BY <1>2, <2>2, <2>3 DEF Open, Value
<1>6. Len(path) = 2
  <2>. SUFFICES ASSUME Len(path) # 2 PROVE FALSE
    OBVIOUS
  <2>1. PICK r \in Prefixes(path) : Len(r) = 2 /\ r[1] = "status" /\ Status \in Prefixes(r)
    BY <1>1, <1>2, <1>5, SecondPrefix
  <2>2. r \in DOMAIN schema /\ r # Status /\ ~schema[r].required
    <3>1. r # Status
      BY <2>1 DEF Status
    <3>. QED
      BY <1>1, <2>1, <3>1 DEF Fitting, Agrees
  <2>3. go[r].shape # "structValue"
    BY <2>2 DEF Fitting, Agrees
  <2>4. Open(doc, r)
    BY <2>1, <2>3 DEF Holds
  <2>5. Open(doc, Status)
    BY <2>1, <2>4, Holding DEF Open, Fitting
  <2>. QED
    BY <1>2, <1>5, <2>5
<1>. QED
  BY <1>2, <1>5, <1>6

(* What the Go type and the schema have in common at a path.               *)
LEMMA AgreeingField ==
  ASSUME NEW go, NEW schema, Agrees(go, schema), NEW path \in DOMAIN schema
  PROVE  /\ path \in DOMAIN go /\ go[path].path = path /\ go[path].shape \in Shapes
         /\ schema[path].nullable <=> go[path].shape = "nullable"
         /\ schema[path].type = "map" <=> go[path].shape = "map"
         /\ schema[path].type = "number" <=> go[path].type = "float"
         /\ IF path = Status
            THEN ~schema[path].required /\ go[path].shape = "structValue"
            ELSE schema[path].required <=> go[path].shape \in {"value", "structValue", "sliceValue"}
         /\ Len(path) = 2 /\ path[1] = "status" => ~schema[path].required
  BY DEF Agrees

(* Every field comes back, maps without entries excepted, and all but the  *)
(* numbers that a float32 does not hold with its value.                    *)
LEMMA RoundTripKeeps ==
  ASSUME NEW go, NEW schema, NEW doc, Fitting(go, schema, doc), NEW path \in DOMAIN doc
  PROVE  \/ path \in DOMAIN RoundTrip(go, doc) /\ RoundTrip(go, doc)[path] = doc[path]
         \/ schema[path].type = "map" /\ doc[path].zero
         \/ /\ schema[path].type = "number" /\ doc[path].is \in {"digits", "tiny"}
            /\ path \in DOMAIN RoundTrip(go, doc) /\ RoundTrip(go, doc)[path].is = "number"
<1>1. /\ path \in DOMAIN schema /\ path \in DOMAIN go /\ go[path].path = path
      /\ \A q \in Prefixes(path) : Open(doc, q)
      /\ doc[path] = Null => go[path].shape = "nullable"
      /\ schema[path].type = "map" <=> go[path].shape = "map"
      /\ schema[path].type = "number" <=> go[path].type = "float"
  <2>1. WellFormed(schema) /\ Agrees(go, schema) /\ Valid(schema, doc)
    BY DEF Fitting
  <2>2. /\ path \in DOMAIN schema /\ (doc[path] = Null => schema[path].nullable)
        /\ \A q \in Prefixes(path) : Open(doc, q)
    BY <2>1, Holding
  <2>. QED
    BY <2>1, <2>2, AgreeingField
<1>2. ~Omitted(go[path], doc) \/ (schema[path].type = "map" /\ doc[path].zero)
  BY <1>1 DEF Omitted
<1>3. Encoded(go[path], doc) = Held(go[path].type, doc[path])
  BY <1>1, NullIsHeld DEF Encoded
<1>4. CASE ~Omitted(go[path], doc)
  <2>1. path \in DOMAIN RoundTrip(go, doc) /\ RoundTrip(go, doc)[path] = Encoded(go[path], doc)
    BY <1>1, <1>4 DEF RoundTrip
  <2>. QED
    BY <1>1, <1>3, <2>1, HeldValue
<1>. QED
  BY <1>2, <1>4

(* Nothing is added but an empty status and nulls.                         *)
LEMMA RoundTripAdds ==
  ASSUME NEW go, NEW schema, NEW doc, Fitting(go, schema, doc),
         NEW path \in DOMAIN RoundTrip(go, doc), path \notin DOMAIN doc
  PROVE  /\ path \in DOMAIN schema
         /\ \/ path = Status /\ RoundTrip(go, doc)[path] = Value("object", FALSE)
            \/ schema[path].nullable /\ RoundTrip(go, doc)[path] = Null
<1>1. /\ path \in DOMAIN go /\ ~Omitted(go[path], doc)
      /\ \A q \in Prefixes(path) : Holds(go, doc, q)
      /\ RoundTrip(go, doc)[path] = Encoded(go[path], doc)
  BY DEF RoundTrip, Holds
<1>0. Agrees(go, schema) /\ Valid(schema, doc) /\ path \in DOMAIN schema
  BY <1>1 DEF Fitting, Agrees
<1>2. /\ path \in DOMAIN schema /\ go[path].path = path /\ go[path].shape \in Shapes
      /\ schema[path].nullable <=> go[path].shape = "nullable"
      /\ path = Status => go[path].shape = "structValue"
      /\ path # Status => (schema[path].required
                            <=> go[path].shape \in {"value", "structValue", "sliceValue"})
      /\ Len(path) = 2 /\ path[1] = "status" => ~schema[path].required
  BY <1>0, AgreeingField
<1>3. go[path].shape \in {"nullable", "value", "structValue", "sliceValue"}
  BY <1>1, <1>2 DEF Omitted, Shapes
<1>4. CASE go[path].shape = "nullable"
  <2>1. Encoded(go[path], doc) = Null
    BY <1>2, <1>4 DEF Encoded
  <2>. QED
    BY <1>1, <1>2, <1>4, <2>1
<1>5. CASE path = Status
  <2>1. Encoded(go[path], doc) = Value("object", FALSE)
    BY <1>2, <1>5 DEF Encoded
  <2>. QED
    BY <1>1, <1>2, <1>5, <2>1
<1>6. CASE path # Status /\ go[path].shape # "nullable"
  <2>1. schema[path].required
    BY <1>2, <1>3, <1>6
  <2>2. CASE \A q \in Prefixes(path) : Open(doc, q)
    BY <1>0, <2>1, <2>2 DEF Valid
  <2>3. CASE Status \in Prefixes(path) /\ Len(path) = 2
    <3>1. path[1] = "status"
      BY <1>2, <2>3, SecondPrefix DEF Fitting, WellFormed
    <3>. QED
      BY <1>2, <2>1, <2>3, <3>1
  <2>. QED
    BY <1>1, <1>2, <2>2, <2>3, HeldIsOpen
<1>. QED
  BY <1>2, <1>4, <1>5, <1>6

(* What was there is written as the Go type holds it.                      *)
LEMMA EncodedAsHeld ==
  ASSUME NEW go, NEW schema, NEW doc, Fitting(go, schema, doc),
         NEW path \in DOMAIN RoundTrip(go, doc), path \in DOMAIN doc
  PROVE  /\ RoundTrip(go, doc)[path] = Held(go[path].type, doc[path])
         /\ \/ RoundTrip(go, doc)[path] = doc[path]
            \/ /\ schema[path].type = "number"
               /\ \E zero \in BOOLEAN : RoundTrip(go, doc)[path] = [is |-> "number", zero |-> zero]
<1>1. path \in DOMAIN schema /\ (doc[path] = Null => schema[path].nullable)
  BY Holding DEF Fitting
<1>2. /\ go[path].path = path /\ (doc[path] = Null => go[path].shape = "nullable")
      /\ go[path].type = "float" => schema[path].type = "number"
  BY <1>1 DEF Fitting, Agrees
<1>3. RoundTrip(go, doc)[path] = Encoded(go[path], doc)
  BY DEF RoundTrip
<1>4. Encoded(go[path], doc) = Held(go[path].type, doc[path])
  BY <1>2, NullIsHeld DEF Encoded
<1>. QED
  BY <1>2, <1>3, <1>4, HeldValue

(* A struct that a field is written with is written itself.                *)
LEMMA HeldIsWritten ==
  ASSUME NEW go, NEW schema, NEW doc, Fitting(go, schema, doc),
         NEW path \in DOMAIN schema, \A q \in Prefixes(path) : Holds(go, doc, q),
         NEW q \in Prefixes(path)
  PROVE  Open(RoundTrip(go, doc), q)
<1>1. path \in Seq(STRING) /\ q \in DOMAIN schema
  BY DEF Fitting, WellFormed
<1>2. CASE Open(doc, q)
  <2>1. RoundTrip(go, doc)[q] = doc[q] /\ q \in DOMAIN RoundTrip(go, doc)
    BY <1>2, RoundTripKeeps DEF Open
  <2>. QED
    BY <1>2, <2>1 DEF Open
<1>3. CASE go[q].shape = "structValue"
  <2>1. \A r \in Prefixes(q) : Holds(go, doc, r)
    BY <1>1, PrefixesAreClosed
  <2>2. ~Omitted(go[q], doc) /\ q \in DOMAIN go
    BY <1>1, <1>3 DEF Omitted, Fitting, Agrees
  <2>3. q \in DOMAIN RoundTrip(go, doc) /\ RoundTrip(go, doc)[q] = Encoded(go[q], doc)
    BY <2>1, <2>2 DEF RoundTrip, Holds
  <2>4. ~schema[q].nullable /\ schema[q].type = "object" /\ go[q].path = q
    BY <1>1, <1>3 DEF Fitting, Agrees
  <2>5. CASE q \in DOMAIN doc
    <3>1. doc[q] = Value("object", FALSE)
      BY <2>4, <2>5, Holding DEF Fitting
    <3>2. schema[q].type # "number"
      BY <2>4
    <3>3. RoundTrip(go, doc)[q] = doc[q]
      BY <2>3, <2>5, <3>2, EncodedAsHeld
    <3>. QED
      BY <2>3, <3>1, <3>3 DEF Open, Value
  <2>6. CASE q \notin DOMAIN doc
    BY <1>3, <2>3, <2>4, <2>6 DEF Encoded, Open, Value
  <2>. QED
    BY <2>5, <2>6
<1>. QED
  BY <1>2, <1>3 DEF Holds

(* What json.Marshal writes is what the schema accepts.                    *)
LEMMA RoundTripIsValid ==
  ASSUME NEW go, NEW schema, NEW doc, Fitting(go, schema, doc)
  PROVE  Valid(schema, RoundTrip(go, doc))
<1> DEFINE new == RoundTrip(go, doc)
<1>1. ASSUME NEW path \in DOMAIN new
      PROVE  /\ path \in DOMAIN schema
             /\ new[path] \in Allowed(schema[path])
             /\ \A q \in Prefixes(path) : Open(new, q)
  <2>1. path \in DOMAIN schema /\ \A q \in Prefixes(path) : Holds(go, doc, q)
    BY DEF RoundTrip, Holds, Fitting, Agrees
  <2>2. new[path] \in Allowed(schema[path])
    <3>1. CASE path \in DOMAIN doc
      <4>1. CASE new[path] = doc[path]
        BY <3>1, <4>1 DEF Fitting, Valid
      <4>2. CASE /\ schema[path].type = "number"
                 /\ \E zero \in BOOLEAN : new[path] = [is |-> "number", zero |-> zero]
        BY <4>2, AllowedNumber
      <4>. QED
        BY <3>1, <4>1, <4>2, EncodedAsHeld
    <3>2. CASE schema[path].nullable /\ new[path] = Null
      BY <3>2, AllowedNull
    <3>3. CASE path = Status /\ new[path] = Value("object", FALSE)
      <4>1. schema[path].type = "object"
        BY <2>1, <3>3 DEF Fitting, Agrees
      <4>2. Value("object", FALSE) \in [is : JsonTypesOf("object"), zero : BOOLEAN]
        BY DEF Value, JsonTypesOf
      <4>. QED
        BY <3>3, <4>1, <4>2 DEF Allowed, Value
    <3>. QED
      BY <3>1, <3>2, <3>3, RoundTripAdds
  <2>. QED
    BY <2>1, <2>2, HeldIsWritten
<1>2. ASSUME NEW path \in DOMAIN schema, schema[path].required,
             \A q \in Prefixes(path) : Open(new, q)
      PROVE  path \in DOMAIN new
  <2>1. ASSUME NEW q \in Prefixes(path) PROVE Holds(go, doc, q)
    <3>1. q \in DOMAIN new /\ Open(new, q)
      BY <1>2 DEF Open
    <3>2. CASE q \in DOMAIN doc
      BY <3>1, <3>2, EncodedAsHeld DEF Open, Holds
    <3>3. CASE q \notin DOMAIN doc
      <4>1. q = Status
        BY <3>1, <3>3, RoundTripAdds DEF Open, Null, Value
      <4>. QED
        BY <3>1, <3>3, <4>1, RoundTripAdds DEF Fitting, Agrees, Holds
    <3>. QED
      BY <3>2, <3>3
  <2>2. path \in Seq(STRING) /\ path # Status /\ go[path].shape # "map"
    BY <1>2 DEF Fitting, Agrees, WellFormed
  <2>3. CASE \A q \in Prefixes(path) : Open(doc, q)
    <3>1. path \in DOMAIN doc
      BY <1>2, <2>3 DEF Fitting, Valid
    <3>. QED
      BY <2>2, <3>1, RoundTripKeeps DEF Fitting, Agrees
  <2>4. CASE Status \in Prefixes(path) /\ Len(path) = 2
    <3>1. path[1] = "status"
      BY <2>2, <2>4, SecondPrefix
    <3>. QED
      BY <1>2, <2>4, <3>1 DEF Fitting, Agrees
  <2>. QED
    BY <2>1, <2>3, <2>4, HeldIsOpen
<1>. QED
  BY <1>1, <1>2 DEF Valid
------------------------------------------------------------------------------
LEMMA SampleIsAllowed ==
  ASSUME NEW schema, NEW path \in DOMAIN schema, schema[path].type \in SchemaTypes
  PROVE  /\ Sample(schema[path]) \in Allowed(schema[path])
         /\ schema[path].type \in {"object", "array"} => Sample(schema[path]).is = schema[path].type
         /\ ~Sample(schema[path]).zero
<1> DEFINE type == schema[path].type
           is == CASE type = "int-or-string" -> "string"
                   [] type = "number" -> "number"
                   [] OTHER -> CHOOSE t \in JsonTypesOf(type) : TRUE
<1>1. is \in JsonTypesOf(type)
  <2>1. CASE type \in {"int-or-string", "number"}
    BY <2>1 DEF JsonTypesOf, Numbers
  <2>2. CASE type \notin {"int-or-string", "number"}
    <3>1. \E t : t \in JsonTypesOf(type)
      BY <2>2 DEF JsonTypesOf, SchemaTypes
    <3>2. is = CHOOSE t \in JsonTypesOf(type) : TRUE
      BY <2>2
    <3>. QED
      BY <3>1, <3>2
  <2>. QED
    BY <2>1, <2>2
<1>2. type \in {"object", "array"} => is = type
  BY DEF JsonTypesOf
<1>3. Sample(schema[path]) = [is |-> is, zero |-> FALSE]
  BY DEF Sample, Value
<1> HIDE DEF is
<1>. QED
  BY <1>1, <1>2, <1>3 DEF Allowed

(* The documents that Init draws from are valid.                           *)
LEMMA DocumentIsValid ==
  ASSUME NEW schema, WellFormed(schema), NEW paths,
         NEW path \in DOMAIN schema, NEW value \in Allowed(schema[path])
  PROVE  Valid(schema, Document(schema, paths, path, value))
<1> DEFINE asked == UNION {Prefixes(q) \cup {q} : q \in paths \cup {path}}
           Needed(q) == \A r \in Prefixes(q) \cup {q} : r \in asked \/ schema[r].required
           Present(q) == Needed(q) /\ (path \in Prefixes(q) => ~value.zero)
           doc == Document(schema, paths, path, value)
<1>1. /\ DOMAIN doc = {q \in DOMAIN schema : Present(q)}
      /\ \A q \in DOMAIN doc : doc[q] = IF q = path THEN value ELSE Sample(schema[q])
  BY DEF Document
<1> HIDE DEF asked, doc
<1>2. ASSUME NEW q \in DOMAIN schema
      PROVE  /\ q \in Seq(STRING) /\ schema[q].type \in SchemaTypes
             /\ \A r \in Prefixes(q) : /\ r \in DOMAIN schema /\ schema[r].type \in {"object", "array"}
                                      /\ Prefixes(r) \subseteq Prefixes(q)
  BY PrefixesAreClosed DEF WellFormed
<1>3. ASSUME NEW q \in DOMAIN doc
      PROVE  /\ q \in DOMAIN schema
             /\ doc[q] \in Allowed(schema[q])
             /\ \A r \in Prefixes(q) : Open(doc, r)
  <2>1. doc[q] \in Allowed(schema[q])
    BY <1>1, <1>2, SampleIsAllowed
  <2>2. ASSUME NEW r \in Prefixes(q) PROVE Open(doc, r)
    <3>1. r \in DOMAIN doc
      BY <1>1, <1>2
    <3>2. CASE r # path
      BY <1>1, <1>2, <3>1, <3>2, SampleIsAllowed DEF Open
    <3>3. CASE r = path
      <4>1. ~value.zero /\ doc[r] = value
        BY <1>1, <3>1, <3>3
      <4>2. value # Null
        BY <4>1 DEF Null, Value
      <4>3. value.is \in {"object", "array"}
        <5>1. schema[path].type \in {"object", "array"} /\ schema[path].type \in SchemaTypes
          BY <1>1, <1>2, <3>3
        <5>2. value = Value("object", FALSE) \/ value.is = "array"
          BY <4>2, <5>1, AllowedValues
        <5>3. Value("object", FALSE).is = "object"
          BY DEF Value
        <5>. QED
          BY <5>2, <5>3
      <4>. QED
        BY <3>1, <4>1, <4>3 DEF Open
    <3>. QED
      BY <3>2, <3>3
  <2>. QED
    BY <1>1, <2>1, <2>2
<1>4. ASSUME NEW q \in DOMAIN schema, schema[q].required, \A r \in Prefixes(q) : Open(doc, r)
      PROVE  q \in DOMAIN doc
  <2>1. \A r \in Prefixes(q) : Needed(r) /\ r \in DOMAIN doc
    BY <1>1, <1>4 DEF Open
  <2>2. Needed(q)
    BY <1>4, <2>1
  <2>3. path \in Prefixes(q) => ~value.zero
    BY <1>1, <1>4, <2>1 DEF Open
  <2>. QED
    BY <1>1, <2>2, <2>3
<1>. QED
  BY <1>3, <1>4 DEF Valid, doc

LEMMA FullDocumentIsValid ==
  ASSUME NEW schema, WellFormed(schema)
  PROVE  Valid(schema, [q \in DOMAIN schema |-> Sample(schema[q])])
  BY SampleIsAllowed DEF Valid, WellFormed, Open
------------------------------------------------------------------------------
(* Every manifest that the schema allows, not only those that Init names.  *)
Kinds == {"SGCluster", "SGDbOps"}

AnyManifest ==
  /\ kind \in Kinds /\ Valid(Schema[kind], manifest)
  /\ runs = 0 /\ outcome = "none"

AnySpec == AnyManifest /\ [][Next]_vars

Inv == kind \in Kinds /\ WrittenValid

LEMMA InitIsValid == Init => AnyManifest
<1> SUFFICES ASSUME Init PROVE AnyManifest
  OBVIOUS
<1>1. kind \in Kinds /\ WellFormed(Schema[kind])
  BY SchemasAreWellFormed DEF Init, Kinds
<1>2. PICK timed : manifest \in Documents(Schema[kind], timed)
  BY DEF Init
<1> DEFINE schema == Schema[kind]
<1>3. \/ \E path \in DOMAIN schema : \E value \in Allowed(schema[path]) :
           manifest = Document(schema, timed, path, value)
      \/ manifest = [q \in DOMAIN schema |-> Sample(schema[q])]
  <2> DEFINE alone(path) == {Document(schema, timed, path, value) : value \in Allowed(schema[path])}
             all == [q \in DOMAIN schema |-> Sample(schema[q])]
             singles == {alone(path) : path \in DOMAIN schema}
  <2>1. manifest \in (UNION singles) \cup {all}
    BY <1>2 DEF Documents
  <2>2. (\E docs \in singles : manifest \in docs) \/ manifest = all
    <3> HIDE DEF singles, all
    <3>. QED
      BY <2>1
  <2>3. ASSUME NEW docs \in singles, manifest \in docs
        PROVE  \E path \in DOMAIN schema : manifest \in alone(path)
    <3>1. PICK path \in DOMAIN schema : docs = alone(path)
      BY <2>3
    <3> HIDE DEF alone
    <3>. QED
      BY <2>3, <3>1
  <2>. QED
    BY <2>2, <2>3
<1>4. Valid(schema, manifest)
  BY <1>1, <1>3, DocumentIsValid, FullDocumentIsValid
<1>. QED
  BY <1>1, <1>4 DEF Init, AnyManifest

(* A cluster has a volume, and so everything above its storage class.      *)
LEMMA VolumeIsOpen ==
  ASSUME NEW doc, Valid(Schema["SGCluster"], doc), NEW q \in Prefixes(StorageClass)
  PROVE  Open(doc, q)
<1> DEFINE schema == Schema["SGCluster"]
           P == {r \in Prefixes(StorageClass) : ~Open(doc, r)}
<1> SUFFICES ASSUME P # {} PROVE FALSE
  OBVIOUS
<1>1. WellFormed(schema)
  BY SchemasAreWellFormed
<1>2. StorageClass \in Seq(STRING) /\ \A r \in Prefixes(StorageClass) : r \in DOMAIN schema
  BY <1>1, VolumesAreRequired DEF WellFormed
<1>3. PICK r \in P : \A s \in Prefixes(r) : s \notin P
  BY <1>2, Uppermost
<1>4. \A s \in Prefixes(r) : Open(doc, s)
  BY <1>2, <1>3, PrefixesAreClosed
<1>5. schema[r].required /\ schema[r].type = "object" /\ r \in DOMAIN schema
  BY <1>2, <1>3, VolumesAreRequired
<1>6. ~schema[r].nullable
  BY <1>3, VolumesAreRequired
<1>7. r \in DOMAIN doc
  BY <1>4, <1>5 DEF Valid
<1>8. doc[r] = Value("object", FALSE)
  BY <1>1, <1>5, <1>6, <1>7, Holding
<1>. QED
  BY <1>3, <1>7, <1>8 DEF Open, Value

(* A manifest with another storage class.                                  *)
LEMMA StorageClassIsValid ==
  ASSUME NEW doc, Valid(Schema["SGCluster"], doc), NEW new,
         DOMAIN new = DOMAIN doc \cup {StorageClass},
         new[StorageClass] = Value("string", FALSE),
         \A path \in DOMAIN doc \ {StorageClass} : new[path] = doc[path]
  PROVE  Valid(Schema["SGCluster"], new)
<1> DEFINE schema == Schema["SGCluster"]
<1>1. /\ StorageClass \in DOMAIN schema /\ schema[StorageClass].type = "string"
      /\ WellFormed(schema)
  BY SchemasAreWellFormed, VolumesAreRequired
<1>2. ASSUME NEW path \in DOMAIN schema, NEW q \in Prefixes(path)
      PROVE  Open(new, q) <=> Open(doc, q)
  <2>1. q # StorageClass
    BY <1>1 DEF WellFormed
  <2>. QED
    BY <2>1 DEF Open
<1>3. new[StorageClass] \in Allowed(schema[StorageClass])
  BY <1>1 DEF Allowed, Value, JsonTypesOf
<1>4. \A path \in DOMAIN new :
        /\ path \in DOMAIN schema /\ new[path] \in Allowed(schema[path])
        /\ \A q \in Prefixes(path) : Open(doc, q)
  BY <1>1, <1>3, VolumeIsOpen DEF Valid
<1>. QED
  BY <1>2, <1>4 DEF Valid

(* What a step does to the manifest: nothing, a reading and a writing, or  *)
(* those and another storage class.                                        *)
LEMMA StepEffect ==
  ASSUME TypesAgree, Inv, [Next]_vars, UNCHANGED manifest => FALSE
  PROVE  /\ kind' = kind
         /\ Fitting(Go[kind], Schema[kind], manifest)
         /\ \/ manifest' = RoundTrip(Go[kind], manifest)
            \/ /\ kind = "SGCluster"
               /\ DOMAIN manifest' = DOMAIN RoundTrip(Go[kind], manifest) \cup {StorageClass}
               /\ manifest'[StorageClass] = Value("string", FALSE)
               /\ \A path \in DOMAIN RoundTrip(Go[kind], manifest) \ {StorageClass} :
                    manifest'[path] = RoundTrip(Go[kind], manifest)[path]
<1>1. WellFormed(Schema[kind]) /\ Agrees(Go[kind], Schema[kind]) /\ Valid(Schema[kind], manifest)
  BY SchemasAreWellFormed DEF TypesAgree, Inv, Kinds, WrittenValid
<1>2. kind' = kind
  BY DEF Next, AddPvcSecret, GetPendingRestart, KeepRestartOp, Run, vars
<1>3. CASE AddPvcSecret
  <2>1. /\ kind = "SGCluster" /\ Decodes(Go[kind], manifest)
        /\ manifest' = Replaced(RoundTrip(Go[kind], manifest))
    BY <1>3 DEF AddPvcSecret
  <2>. QED
    BY <1>1, <1>2, <2>1 DEF Fitting, Replaced
<1>4. CASE KeepRestartOp
  BY <1>1, <1>2, <1>4 DEF KeepRestartOp, Fitting
<1>. QED
  BY <1>3, <1>4 DEF Next, GetPendingRestart, vars

LEMMA NextInv ==
  ASSUME TypesAgree, Inv, [Next]_vars
  PROVE  Inv'
<1>1. kind' = kind
  BY DEF Next, AddPvcSecret, GetPendingRestart, KeepRestartOp, Run, vars
<1>2. CASE UNCHANGED manifest
  BY <1>1, <1>2 DEF Inv, WrittenValid
<1>3. CASE ~ UNCHANGED manifest
  BY <1>1, <1>3, StepEffect, RoundTripIsValid, StorageClassIsValid DEF Inv, WrittenValid
<1>. QED
  BY <1>2, <1>3
------------------------------------------------------------------------------
(* What TLC starts from are manifests that the schema allows.              *)
THEOREM StartsAreValid == Spec => AnySpec
  BY InitIsValid, PTL DEF Spec, AnySpec

(* Whatever manifest StackGres reports and accepts, what the functions     *)
(* write is accepted: the Go types have all the required fields, without   *)
(* omitempty, and write null only where it is allowed (desired.go:67).     *)
THEOREM WrittenIsValid == AnySpec /\ []TypesAgree => []WrittenValid
<1>1. AnyManifest => Inv
  BY DEF AnyManifest, Inv, WrittenValid
<1>2. Inv => WrittenValid
  BY DEF Inv
<1>3. TypesAgree /\ Inv /\ [Next]_vars => Inv'
  BY NextInv
<1>. QED
  BY <1>1, <1>2, <1>3, PTL DEF AnySpec

(* Reading a manifest into the Go types and writing it back loses nothing  *)
(* of any manifest but maps without entries and digits: every field of the *)
(* schema is a field of the Go type and comes back with its value, unless  *)
(* it is the result of a benchmark that a float32 does not hold, which     *)
(* comes back as another number (encrypted_pvc.go:46, restart.go:119,      *)
(* sgdbops.gen.go:720).                                                    *)
THEOREM RewritesLoseOnlyDigits == AnySpec /\ []TypesAgree => RewriteKeeps
<1> DEFINE Keeps == \A path \in DOMAIN manifest :
                      \/ path \in DOMAIN manifest' /\ manifest'[path] = manifest[path]
                      \/ kind = "SGCluster" /\ path = StorageClass
                      \/ Schema[kind][path].type = "map" /\ manifest[path].zero
                      \/ /\ kind = "SGDbOps" /\ BenchmarkResult(path) /\ manifest[path].is \in {"digits", "tiny"}
                         /\ path \in DOMAIN manifest' /\ manifest'[path].is = "number"
<1>1. AnyManifest => Inv
  BY DEF AnyManifest, Inv, WrittenValid
<1>2. TypesAgree /\ Inv /\ [Next]_vars => [Keeps]_vars
  <2> SUFFICES ASSUME TypesAgree, Inv, [Next]_vars, NEW path \in DOMAIN manifest, ~ UNCHANGED manifest
               PROVE  \/ path \in DOMAIN manifest' /\ manifest'[path] = manifest[path]
                      \/ kind = "SGCluster" /\ path = StorageClass
                      \/ Schema[kind][path].type = "map" /\ manifest[path].zero
                      \/ /\ kind = "SGDbOps" /\ BenchmarkResult(path) /\ manifest[path].is \in {"digits", "tiny"}
                         /\ path \in DOMAIN manifest' /\ manifest'[path].is = "number"
    OBVIOUS
  <2> DEFINE new == RoundTrip(Go[kind], manifest)
             schema == Schema[kind]
  <2>1. Fitting(Go[kind], schema, manifest) /\ path \in DOMAIN schema
    BY StepEffect DEF Fitting, Valid
  <2>2. CASE kind = "SGCluster" /\ path = StorageClass
    BY <2>2
  <2>3. CASE ~ (kind = "SGCluster" /\ path = StorageClass)
    <3>1. path \in DOMAIN new => path \in DOMAIN manifest' /\ manifest'[path] = new[path]
      BY <2>3, StepEffect
    <3>2. \/ path \in DOMAIN new /\ new[path] = manifest[path]
          \/ schema[path].type = "map" /\ manifest[path].zero
          \/ /\ schema[path].type = "number" /\ manifest[path].is \in {"digits", "tiny"}
             /\ path \in DOMAIN new /\ new[path].is = "number"
      BY <2>1, RoundTripKeeps
    <3>3. schema[path].type = "number" => kind = "SGDbOps" /\ BenchmarkResult(path)
      BY <2>1, NumbersAreResults DEF Inv, Kinds
    <3>. HIDE DEF new, schema
    <3>4. CASE path \in DOMAIN new /\ new[path] = manifest[path]
      BY <3>1, <3>4
    <3>5. CASE schema[path].type = "map" /\ manifest[path].zero
      BY <3>5 DEF schema
    <3>6. CASE /\ schema[path].type = "number" /\ manifest[path].is \in {"digits", "tiny"}
               /\ path \in DOMAIN new /\ new[path].is = "number"
      BY <3>1, <3>3, <3>6
    <3>. QED
      BY <3>2, <3>4, <3>5, <3>6
  <2>. QED
    BY <2>2, <2>3
<1>3. TypesAgree /\ Inv /\ [Next]_vars => Inv'
  BY NextInv
<1>. QED
  BY <1>1, <1>2, <1>3, PTL DEF AnySpec, RewriteKeeps

(* Reading and writing back sets nothing that nobody has set: a field that *)
(* was not there is written only as null, as the empty status, or as the   *)
(* storage class (encrypted_pvc.go:46, restart.go:119).                    *)
THEOREM RewritesAddNothing == AnySpec /\ []TypesAgree => RewriteAdds
<1> DEFINE Adds == \A path \in DOMAIN manifest' \ DOMAIN manifest :
                     \/ kind = "SGCluster" /\ path = StorageClass
                     \/ path = Status
                     \/ manifest'[path] = Null
<1>1. AnyManifest => Inv
  BY DEF AnyManifest, Inv, WrittenValid
<1>2. TypesAgree /\ Inv /\ [Next]_vars => [Adds]_vars
  <2> SUFFICES ASSUME TypesAgree, Inv, [Next]_vars, ~ UNCHANGED manifest,
                      NEW path \in DOMAIN manifest' \ DOMAIN manifest
               PROVE  \/ kind = "SGCluster" /\ path = StorageClass
                      \/ path = Status
                      \/ manifest'[path] = Null
    OBVIOUS
  <2>1. CASE path = StorageClass /\ kind = "SGCluster"
    BY <2>1
  <2>2. CASE ~ (path = StorageClass /\ kind = "SGCluster")
    <3>1. /\ Fitting(Go[kind], Schema[kind], manifest)
          /\ path \in DOMAIN RoundTrip(Go[kind], manifest) /\ path \notin DOMAIN manifest
          /\ manifest'[path] = RoundTrip(Go[kind], manifest)[path]
      BY <2>2, StepEffect
    <3>. QED
      BY <3>1, RoundTripAdds
  <2>. QED
    BY <2>1, <2>2
<1>3. TypesAgree /\ Inv /\ [Next]_vars => Inv'
  BY NextInv
<1>. QED
  BY <1>1, <1>2, <1>3, PTL DEF AnySpec, RewriteAdds
=============================================================================
