------------------------------ MODULE MCServer ------------------------------
(* Instances of Server for TLC. *)
EXTENDS Server

(* The types that the functions put, in the order of postgresFunctions.    *)
MCPuts == [input \in Inputs |->
  CASE input = "alerting" -> <<"AlertmanagerConfig", "Object">>
    [] input = "cluster"  -> <<"SGCluster", "Object">>
    [] OTHER              -> <<>>]
=============================================================================
