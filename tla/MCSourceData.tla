---------------------------- MODULE MCSourceData ----------------------------
(* The instances of the three parts.  The cells a and b, the stores and the  *)
(* producers' drops have nothing to do with each other.                      *)
EXTENDS SourceData

-----------------------------------------------------------------------------
(* Object 2 is the mirror.  d2 is d1 generated again: its table is the same, *)
(* its mirror is not.  d3 reuses the runId of d1 for another table.          *)

CONSTANTS d1, d2, d3, l1, l2

MCBytes == [d \in Drops |-> CASE d = d1 -> <<"t1", "m1">>
                              [] d = d2 -> <<"t1", "m2">>
                              [] d = d3 -> <<"t3", "m1">>]
MCNative == [d \in Drops |-> IF d = d2 THEN NoNative ELSE "run1"]

-----------------------------------------------------------------------------
(* Two cells: one always in the assortment, one that leaves it.              *)

CONSTANTS a, b

MCWindow == [c \in Cell |-> [from |-> 1, to |-> IF c = a THEN LastDate ELSE 1, known |-> 1]]

-----------------------------------------------------------------------------
(* One SKU of a market with two warehouses and one store served by both.     *)

CONSTANTS w1, w2, s1

MCDiscontinued == [s \in Store |-> 4]

MCPriority == [s \in Store |-> <<w1, w2>>]
=============================================================================
