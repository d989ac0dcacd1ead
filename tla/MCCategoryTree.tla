------------------------------ MODULE MCCategoryTree ------------------------------
(* Small instances of CategoryTree for TLC: the inputs requests may carry. *)
EXTENDS CategoryTree

CONSTANTS c1, c2, c3, r1, r2, p1

Names == [c \in Category |-> CASE c = c1 -> 1 [] c = c2 -> 2 [] c = c3 -> 3
                               [] c = r1 -> 0 [] c = r2 -> 5 [] OTHER -> 4]

\* c1 above c2 above c3, and c1 above both.
Upper(a, b) == [c \in Category |-> CASE c = c2 -> a [] c = c3 -> b [] OTHER -> None]
SmallTrees == {Upper(c1, c2), Upper(c1, c1)}

Base == [op |-> "create", category |-> c1, parent |-> None, position |-> 0,
         places |-> Kept, products |-> "reject", children |-> "reject", target |-> None,
         product |-> p1]

Create(p, n) == [Base EXCEPT !.parent = p, !.position = n]
Move(c, p) == [Base EXCEPT !.op = "update", !.category = c, !.parent = p, !.position = Keep]
Shift(c, n) == [Base EXCEPT !.op = "update", !.category = c, !.parent = Keep, !.position = n]
\* The children of p as first and second.
Reorder(p, first, second) ==
  [Base EXCEPT !.op = "reorder", !.parent = p,
               !.places = [Kept EXCEPT ![first] = 0, ![second] = 1]]
Delete(c, products, children, target) ==
  [Base EXCEPT !.op = "delete", !.category = c, !.products = products,
               !.children = children, !.target = target]
File(c) == [Base EXCEPT !.op = "file", !.target = c]

\* Creates below, moves across, swaps and deletions of the same few categories.
TreeInputs ==
  {Create(c2, 0), Create(c1, 2), Move(c1, c3), Move(c2, c3), Move(c3, c2), Move(c3, None),
   Shift(c3, 4),
   Reorder(c1, c3, c2), Reorder(c1, r1, c2),
   Delete(c1, "reassign", "promote", c3), Delete(c2, "uncategorize", "promote", None),
   Delete(c2, "reject", "reject", None), Delete(c3, "reassign", "reject", c2),
   Delete(c3, "reassign", "reject", c3)}
   \cup {Move(c2, r) : r \in Req} \cup {File(c2)}

ProductInputs == {Delete(c3, "reject", "reject", None), File(c3)}
================================================================================
