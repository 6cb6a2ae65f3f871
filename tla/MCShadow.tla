------------------------------ MODULE MCShadow ------------------------------
(***************************************************************************)
(* An instance of module Shadow for TLC: both kinds of links, each with    *)
(* and without an application that acts on events.                         *)
(***************************************************************************)
EXTENDS Shadow

Scenario(a, n, r) == [async |-> a, notify |-> n, responds |-> r]
MCScenarios == {Scenario(FALSE, TRUE, TRUE), Scenario(FALSE, TRUE, FALSE),
                Scenario(TRUE, TRUE, TRUE), Scenario(TRUE, TRUE, FALSE)}

Map(x, y) == [j \in Keys |-> IF j = "k" THEN x ELSE y]
MCWishes == {[props |-> Map(1, None), devices |-> 1], [props |-> Map(None, 1), devices |-> 2]}
MCOwnPatches == {Map(Same, 1)}
=============================================================================
