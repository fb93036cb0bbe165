------------------------------ MODULE JsonTypes ------------------------------
\* Manifests as JSON documents, Go types as encoding/json sees them, and the schemas of custom
\* resources.  A document is a function from the paths of its fields to their values; a list of
\* objects stands for its one element, whose fields lie under the list.  Of a value only its JSON
\* type and whether it is the zero value ("", 0, false, [] or {}) are told apart, and of a number
\* whether a float32 holds it: it may have more digits, be too close to zero, or be too large.
EXTENDS Integers, Sequences

Value(is, zero) == [is |-> is, zero |-> zero]
Null == Value("null", TRUE)

\* The integers of a schema are those that an int holds.
Numbers == {"number", "digits", "tiny", "huge"}

Prefixes(path) == {SubSeq(path, 1, k) : k \in 1 .. Len(path) - 1}

\* What has field as a member, and a member of the object called name.
Under(name, fields) == {[f EXCEPT !.path = <<name>> \o @] : f \in fields}

\* Fields by their path; fields is a set of records with one record for a path.
ByPath(fields) ==
  [path \in {f.path : f \in fields} |-> CHOOSE f \in fields : f.path = path]

\* An object or a list with members stands at path.
Open(doc, path) ==
  /\ path \in DOMAIN doc
  /\ doc[path].is \in {"object", "array"}
  /\ ~doc[path].zero

-----------------------------------------------------------------------------
\* Go types.  type is what the field holds and shape is how: "pointer" *T and "map"
\* map[string]string with omitempty, "nullable" *T and "value" T without; for structs "struct"
\* *S, "slice" *[]S with omitempty, "structValue" S and "sliceValue" []S without.

GoFields(names, type, shape) == {[path |-> <<n>>, type |-> type, shape |-> shape] : n \in names}

Pointers(type, names) == GoFields(names, type, "pointer")
Nullables(type, names) == GoFields(names, type, "nullable")
Values(type, names) == GoFields(names, type, "value")
Maps(names) == GoFields(names, "map", "map")

Struct(name, fields) == GoFields({name}, "struct", "struct") \cup Under(name, fields)
StructValue(name, fields) == GoFields({name}, "struct", "structValue") \cup Under(name, fields)
Slice(name, fields) == GoFields({name}, "structs", "slice") \cup Under(name, fields)
SliceValue(name, fields) == GoFields({name}, "structs", "sliceValue") \cup Under(name, fields)

\* The JSON value a Go type is read from.
JsonOf(type) ==
  CASE type = "string" -> "string"
    [] type \in {"int", "float"} -> "number"
    [] type = "bool" -> "boolean"
    [] type \in {"map", "struct"} -> "object"
    [] type \in {"strings", "structs"} -> "array"

\* json.Unmarshal: null is read into every type, unknown fields are skipped; a number that is too
\* large for a float32 is an error, one with more digits is rounded, if need be to zero.
ReadAs(type) == IF type = "float" THEN Numbers \ {"huge"} ELSE {JsonOf(type)}

Decodes(go, doc) ==
  \A path \in DOMAIN go \cap DOMAIN doc : doc[path].is \in {"null"} \cup ReadAs(go[path].type)

Held(type, value) ==
  IF type = "float" /\ value.is \in {"digits", "tiny"} THEN Value("number", value.is = "tiny")
  ELSE value

\* What json.Marshal writes for the field of a struct that is itself written.
Omitted(field, doc) ==
  \/ /\ field.shape \in {"pointer", "struct", "slice"}
     /\ field.path \notin DOMAIN doc \/ doc[field.path] = Null
  \/ field.shape = "map" /\ (field.path \notin DOMAIN doc \/ doc[field.path].zero)

Encoded(field, doc) ==
  IF field.path \in DOMAIN doc /\ doc[field.path] # Null THEN Held(field.type, doc[field.path])
  ELSE CASE field.shape = "structValue" -> Value("object", FALSE)
         [] field.shape = "value" -> Value(JsonOf(field.type), TRUE)
         [] OTHER -> Null

\* The document json.Marshal writes after json.Unmarshal has read doc.
RoundTrip(go, doc) ==
  LET Holds(path) == go[path].shape = "structValue" \/ Open(doc, path)
      Written == {path \in DOMAIN go : /\ ~Omitted(go[path], doc)
                                       /\ \A q \in Prefixes(path) : Holds(q)}
  IN  [path \in Written |-> Encoded(go[path], doc)]

-----------------------------------------------------------------------------
\* Schemas of custom resources: a field may be required, and may be nullable.

SchemaFields(names, type, required, nullable) ==
  {[path |-> <<n>>, type |-> type, required |-> required, nullable |-> nullable] : n \in names}

Required(type, names) == SchemaFields(names, type, TRUE, FALSE)
Optional(type, names) == SchemaFields(names, type, FALSE, FALSE)
Nullable(type, names) == SchemaFields(names, type, FALSE, TRUE)

Object(name, fields) == Optional("object", {name}) \cup Under(name, fields)
Array(name, fields) == Optional("array", {name}) \cup Under(name, fields)
RequiredObject(name, fields) == Required("object", {name}) \cup Under(name, fields)
RequiredArray(name, fields) == Required("array", {name}) \cup Under(name, fields)

JsonTypesOf(type) ==
  CASE type \in {"string", "boolean", "object", "array"} -> {type}
    [] type = "integer" -> {"number"}
    [] type = "number" -> Numbers
    [] type = "int-or-string" -> {"string", "number"}
    [] type = "map" -> {"object"}
    [] type = "strings" -> {"array"}

\* The values a field may have; an object with fields is never written as {}.
Allowed(field) ==
  {value \in [is : JsonTypesOf(field.type), zero : BOOLEAN] :
     field.type = "object" \/ value.is \in Numbers \ {"number"} => ~value.zero}
    \cup IF field.nullable THEN {Null} ELSE {}

Valid(schema, doc) ==
  /\ \A path \in DOMAIN doc :
       /\ path \in DOMAIN schema
       /\ doc[path] \in Allowed(schema[path])
       /\ \A q \in Prefixes(path) : Open(doc, q)
  /\ \A path \in DOMAIN schema :
       schema[path].required /\ (\A q \in Prefixes(path) : Open(doc, q)) => path \in DOMAIN doc

\* What makes a schema one: every field is a member of the objects and lists above it.
SchemaTypes ==
  {"string", "boolean", "object", "array", "integer", "number", "int-or-string", "map", "strings"}

WellFormed(schema) ==
  \A path \in DOMAIN schema :
    /\ path \in Seq(STRING)
    /\ schema[path].type \in SchemaTypes
    /\ \A q \in Prefixes(path) : q \in DOMAIN schema /\ schema[q].type \in {"object", "array"}

\* How the generator derives a Go type from a schema: the same fields, of which those without
\* omitempty are the required ones, and the nullable numbers.  A status is no pointer either.
\* Numbers that need not be integers are floats.
Status == <<"status">>

Shapes ==
  {"pointer", "map", "nullable", "value", "struct", "slice", "structValue", "sliceValue"}

Agrees(go, schema) ==
  /\ DOMAIN go = DOMAIN schema
  /\ \A path \in DOMAIN schema :
       /\ go[path].path = path /\ go[path].shape \in Shapes
       /\ schema[path].nullable <=> go[path].shape = "nullable"
       /\ schema[path].type = "map" <=> go[path].shape = "map"
       /\ schema[path].type = "number" <=> go[path].type = "float"
       /\ go[path].shape = "structValue" => schema[path].type = "object"
       /\ IF path = Status
          THEN ~schema[path].required /\ go[path].shape = "structValue"
          ELSE schema[path].required <=> go[path].shape \in {"value", "structValue", "sliceValue"}
       /\ Len(path) = 2 /\ path[1] = "status" => ~schema[path].required

\* What a field holds when it does not matter.
Sample(field) ==
  Value(CASE field.type = "int-or-string" -> "string"
          [] field.type = "number" -> "number"
          [] OTHER -> CHOOSE is \in JsonTypesOf(field.type) : TRUE, FALSE)

\* The smallest valid document with the given paths and value at path.
Document(schema, paths, path, value) ==
  LET asked == UNION {Prefixes(q) \cup {q} : q \in paths \cup {path}}
      Needed(q) == \A r \in Prefixes(q) \cup {q} : r \in asked \/ schema[r].required
      Present(q) == Needed(q) /\ (path \in Prefixes(q) => ~value.zero)
  IN  [q \in {r \in DOMAIN schema : Present(r)} |-> IF q = path THEN value ELSE Sample(schema[q])]

\* A valid document for every field and each value the field may have, and one with every field.
Documents(schema, paths) ==
  (UNION {{Document(schema, paths, path, value) : value \in Allowed(schema[path])} :
            path \in DOMAIN schema})
    \cup {[q \in DOMAIN schema |-> Sample(schema[q])]}
=============================================================================
