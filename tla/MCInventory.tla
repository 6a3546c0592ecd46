----------------------------- MODULE MCInventory -----------------------------
(* Two orders that share one product and differ in the other, on a shelf   *)
(* that holds enough for either of them but not for both.                  *)
EXTENDS Inventory, TLC

CONSTANTS o1, o2, latte, cake, c1, c2, c3

MCOrders == {o1, o2}
MCProducts == {latte, cake}
MCConnections == {c1, c2, c3}
MCMaxQty == 2
MCQty == (o1 :> (latte :> 2 @@ cake :> 1)) @@ (o2 :> (latte :> 1 @@ cake :> 0))
MCInitialStock == latte :> 2 @@ cake :> 1

Symmetry == Permutations(MCConnections)
=============================================================================
