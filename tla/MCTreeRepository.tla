---------------------------- MODULE MCTreeRepository ----------------------------
(* TreeRepository for TLC: the nodes and the callers of the runs. *)
EXTENDS TreeRepository, TLC

MCNodes ==
  [t \in TreeTypes |-> CASE t = "nested-set" -> 1..5
                         [] t = "closure-table" -> 1..4
                         [] t = "materialized-path" -> {1, 2, 11, 12}]

\* Written in decimal.
MCDigits == (1 :> <<1>>) @@ (2 :> <<2>>) @@ (11 :> <<1, 1>>) @@ (12 :> <<1, 2>>)

MCCascade == [t \in TreeTypes |-> t # "closure-table"]

\* A closure table withstands everybody.
MCUsage ==
  [t \in TreeTypes |->
    CASE t = "nested-set" -> {"toRoot"}
      [] t = "closure-table" -> {"toRoot", "toAncestor", "toDescendant", "family"}
      [] t = "materialized-path" -> {"toRoot", "toAncestor", "family"}]

\* Few nodes of a table whose parent column lets nothing go that has children.
MCThreeNodes == [t \in TreeTypes |-> 1..3]

MCRestrict == [t \in TreeTypes |-> FALSE]

MCAside == [t \in TreeTypes |-> {}]

\* Two ids one of which ends in the other, and a third.
MCEndingNodes == [t \in TreeTypes |-> {1, 2, 11}]

MCEnding == [t \in TreeTypes |-> {"toRoot", "ending"}]
===============================================================================
