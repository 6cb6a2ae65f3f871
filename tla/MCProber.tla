------------------------------ MODULE MCProber ------------------------------
(***************************************************************************)
(* Instances of module Prober for TLC: one system application and two      *)
(* versions of one user application.                                       *)
(***************************************************************************)
EXTENDS Prober

Versioned == [k \in Keys |-> IF k \in {"u1", "u2"} THEN "u" ELSE k]
AllLiveness == [k \in Keys |-> "liveness"]
AllStartup == [k \in Keys |-> "startup"]
AllHttp == [k \in Keys |-> "http"]
AllTcp == [k \in Keys |-> "tcp"]
=============================================================================
