------------------------------ MODULE MCCJsonItems ------------------------------
(***************************************************************************)
(* A small instance of CJsonItems.  Addresses are symmetric: which of the  *)
(* free ones an item is given makes no difference.                         *)
(***************************************************************************)
EXTENDS CJsonItems

TheLower(name) == IF name = "A" THEN "a" ELSE name
Addresses == Permutations(Item)
===============================================================================
