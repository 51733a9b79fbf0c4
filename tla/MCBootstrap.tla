---------------------------- MODULE MCBootstrap ----------------------------
(* Instances of Bootstrap.                                                 *)
EXTENDS Bootstrap

TwoVts == 1..2
ThreeVts == 1..3
\* The first two vts share a node below the root.
TwoHalves == [v \in Vts |-> IF v < 3 THEN 1 ELSE 2]
TwoPages == 1..2
ThreePages == 1..3
\* Only the last page is of another account than the first.
TwoAccounts == [i \in Pages |-> IF i = Cardinality(Pages) THEN 2 ELSE 1]
OneOrTwo == {1, 2}
Two == {2}
NoChange == {}
FirstAndLastChanged == {<<1, 1>>, <<1, 3>>}
=============================================================================
