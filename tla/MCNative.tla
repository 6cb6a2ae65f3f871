------------------------------ MODULE MCNative ------------------------------
(***************************************************************************)
(* An instance of module Native for TLC: a container application whose     *)
(* second version has fewer replicas and one service more, and a function. *)
(***************************************************************************)
EXTENDS Native

MCPlan == [a \in Apps |-> [v \in Versions |->
  CASE a = "a" /\ v = 1 -> << <<"s", 1>>, <<"s", 2>> >>
    [] a = "a" /\ v = 2 -> << <<"s", 1>>, <<"t", 1>> >>
    [] OTHER            -> << <<"g", 1>> >>]]

MCNoExec == {<<"f", 2>>}
=============================================================================
