------------------------------- MODULE MCStorefront -------------------------------
(* The storefront on the small hierarchies of MCCategoryTree. *)
EXTENDS MCCategoryTree, Storefront
===================================================================================
