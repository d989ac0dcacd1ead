---------------------------- MODULE MCAdminClient ----------------------------
(* A small instance of AdminClient for TLC: two pages in one tab, one in another. *)
EXTENDS AdminClient

CONSTANTS b1, b2, c1, c2, c3

TwoTabs == [c \in Call |-> IF c = c3 THEN b2 ELSE b1]
================================================================================
