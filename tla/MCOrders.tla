-------------------------------- MODULE MCOrders --------------------------------
(* Small instances of Orders for TLC: the inputs requests may carry. *)
EXTENDS Orders, TLC

CONSTANTS s1, s2, p1, p2, k1, k2, v1

Qty(a, b) == [s \in Sku |-> CASE s = s1 -> a [] s = s2 -> b [] OTHER -> 0]

\* SKU codes sort as s1, s2; a request may name them in either order.
Ascending == Qty(1, 2)
Descending == Qty(2, 1)
OneHome == [s \in Sku |-> p1]
TwoHomes == [s \in Sku |-> IF s = s1 THEN p1 ELSE p2]

Base == [op |-> "status", order |-> CHOOSE o \in Seed : TRUE, key |-> k1,
         cart |-> NoItems, rank |-> Ascending, version |-> 0, status |-> "pending",
         invoice |-> None, has |-> {}]

Create(k, cart, rank, invoice) ==
  [Base EXCEPT !.op = "create", !.key = k, !.cart = cart, !.rank = rank, !.invoice = invoice]
ChangeStatus(o, status) ==
  [Base EXCEPT !.order = o, !.status = status, !.has = {"status"}]
Edit(op, o, version, has, cart, status, invoice) ==
  [Base EXCEPT !.op = op, !.order = o, !.version = version, !.has = has,
               !.cart = cart, !.status = status, !.invoice = invoice]

SeedRow(status, items) ==
  [AbsentRow EXCEPT !.status = status, !.items = items,
                    !.marks = statusTimestamps(AbsentRow, status)]

\* Cancelling, refunding and editing one order at the same time.
UpdateInputs ==
  LET o == CHOOSE x \in Seed : TRUE
  IN  {ChangeStatus(o, st) : st \in {"processing", "completed", "cancelled", "refunded"}}
      \cup {Edit("edit", o, v, {"items"}, c, "pending", None) :
              v \in {0, 1}, c \in {Qty(0, 1), Qty(2, 0), Qty(1, 2)}}
      \cup {Edit("edit", o, 0, {"items", "status"}, Qty(1, 1), "cancelled", None),
            Edit("edit", o, 0, {"invoice"}, NoItems, "pending", v1),
            Edit("preview", o, 0, {"items"}, Qty(2, 1), "pending", None)}

\* Duplicates of one body, another body under the same key, opposite line
\* orders (every way to wait in a circle), an invoice number used twice, and a
\* cancellation that returns what the seed holds.
CreateInputs ==
  {Create(k1, Qty(1, 1), Ascending, None), Create(k1, Qty(1, 1), Descending, v1),
   Create(k2, Qty(1, 1), Descending, v1), Create(k1, Qty(0, 2), Ascending, v1),
   ChangeStatus(CHOOSE o \in Seed : TRUE, "cancelled")}
OpenSeed == {SeedRow("processing", Qty(1, 1))}

\* The changes above, and a create whose order is then edited and cancelled.
ChangeInputs == UpdateInputs \cup
  {Create(k1, Qty(1, 0), Ascending, v1)} \cup {ChangeStatus(q, "cancelled") : q \in Req}
  \cup {Edit("edit", q, 0, {"items"}, Qty(0, 1), "pending", None) : q \in Req}
OpenSeeds == {SeedRow(st, Qty(1, 1)) : st \in {"processing", "completed"}}
NoSeeds == {SeedRow("pending", NoItems)}

\* The same body twice under one key, for the last unit.
DuplicateInputs == {Create(k1, Qty(1, 0), Ascending, None)}

ReqSymmetry == Permutations(Req)
================================================================================
