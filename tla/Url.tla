-------------------------------- MODULE Url ---------------------------------
(***************************************************************************)
(* The url-connection-detail function (url.go): it adds the connection URL *)
(* to the connection details of the desired composite.                     *)
(***************************************************************************)
EXTENDS FunctionIO

PostgresqlUrl == "POSTGRESQL_URL"
PostgresFields == {"user", "password", "host", "port", "db"}

(* Faulty getPostgresURL: only the name of the user is checked. *)
URLOfAnyUser(data) ==
  IF data["user"] = Nil THEN Nil
  ELSE <<data["user"], data["password"], data["host"], data["port"], data["db"]>>

(* The URL is made of five non-empty values, in this order; there is none  *)
(* while one of them is missing.                                           *)
GetPostgresURL(data) ==
  IF \E f \in PostgresFields : data[f] = Nil THEN Nil
  ELSE <<data["user"], data["password"], data["host"], data["port"], data["db"]>>

(* Faulty function: without a namespace it fails instead of waiting. *)
AddUrlOrFail ==
  LET secret == ObservedManifest(request.observed, Connection) IN
  /\ Running("url-connection-detail")
  /\ UNCHANGED <<resources, composite, scheme>>
  /\ IF composite = Bad \/ composite.ns = Nil \/ secret.err # "none"
     THEN UNCHANGED conn /\ Return("Fatal")
     ELSE LET url == GetPostgresURL(secret.obj.data) IN
          IF url = Nil
          THEN UNCHANGED conn /\ Return("Warning")
          ELSE conn' = PutDetail(conn, [name |-> PostgresqlUrl, value |-> url]) /\ Return("Normal")

AddUrlToConnectionDetails ==
  LET secret == ObservedManifest(request.observed, Connection)
      url    == GetPostgresURL(secret.obj.data)
  IN /\ Running("url-connection-detail")
     /\ UNCHANGED <<resources, composite, scheme>>
     /\ \/ /\ composite = Bad
           /\ UNCHANGED conn /\ Return("Fatal")
        \/ /\ composite # Bad /\ composite.ns = Nil
           /\ UNCHANGED conn /\ Return("Warning")
        \/ /\ composite # Bad /\ composite.ns # Nil /\ secret.err # "none"
           /\ UNCHANGED conn /\ Return("Fatal")
        \/ /\ composite # Bad /\ composite.ns # Nil /\ secret.err = "none"
           /\ IF url = Nil
              THEN UNCHANGED conn /\ Return("Warning")
              ELSE conn' = PutDetail(conn, [name |-> PostgresqlUrl, value |-> url])
                   /\ Return("Normal")
=============================================================================
