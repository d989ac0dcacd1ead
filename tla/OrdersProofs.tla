------------------------------ MODULE OrdersProofs ------------------------------
(***************************************************************************)
(* Proofs about Orders, for every number of requests, orders, SKUs and     *)
(* quantities.  First IInv is shown to be inductive.  Then what follows    *)
(* from it step by step: the order code implements the inventory ledger of *)
(* StockLedger, and its other safety properties hold.                      *)
(***************************************************************************)
EXTENDS Orders, TLAPS

-----------------------------------------------------------------------------
(* Types of the values the actions build *)

LEMMA NoneNotARequest == \A r \in Req : r # None
BY NoneAssumption

LEMMA CartTypes == NoItems \in Cart /\ AbsentRow \in Row
BY DEF NoItems, Cart, AbsentRow, Row

LEMMA InputTypes ==
  ASSUME TypeOK, NEW r \in Req
  PROVE  /\ in[r] \in Input
         /\ in[r].order \in Order
         /\ Target(r) \in Order
BY InputsAssumption DEF TypeOK, Input, Order, Target

LEMMA CreatedType ==
  ASSUME NEW i \in Input
  PROVE  Created(i) \in Row
BY DEF Created, Row, Input, PayloadOf, Payload, Status

LEMMA ProposedType ==
  ASSUME NEW i \in Input, NEW row \in Row
  PROVE  /\ Proposed(i, row) \in Row
         /\ Proposed(i, row).version = row.version + 1
         /\ Proposed(i, row).key = row.key
         /\ Proposed(i, row).payload = row.payload
         /\ Proposed(i, row).status = (IF "status" \in i.has THEN i.status ELSE row.status)
         /\ Proposed(i, row).marks = statusTimestamps(row, Proposed(i, row).status)
         /\ Proposed(i, row).items = (IF "items" \in i.has THEN i.cart ELSE row.items)
<1>1. ASSUME NEW st \in Status \cup {"absent"}
      PROVE  statusTimestamps(row, st) \in SUBSET Marks
  BY DEF statusTimestamps, Marks, Row
<1>2. row.status \in Status \cup {"absent"} /\ i.status \in Status
  BY DEF Row, Input
<1> DEFINE st  == IF "status" \in i.has THEN i.status ELSE row.status
           new == [row EXCEPT !.status = st, !.version = row.version + 1,
                     !.marks = statusTimestamps(row, st),
                     !.items = IF "items" \in i.has THEN i.cart ELSE row.items,
                     !.invoice = IF "invoice" \in i.has THEN i.invoice ELSE row.invoice]
<1>3. Proposed(i, row) = new
  BY DEF Proposed
<1>4. st \in Status \cup {"absent"} /\ statusTimestamps(row, st) \in SUBSET Marks
  BY <1>1, <1>2
<1>5. /\ (IF "items" \in i.has THEN i.cart ELSE row.items) \in Cart
      /\ (IF "invoice" \in i.has THEN i.invoice ELSE row.invoice) \in Invoice \cup {None}
      /\ row.version + 1 \in Nat
  BY DEF Row, Input
<1> HIDE DEF st
<1>6. new \in Row
  BY <1>4, <1>5 DEF Row
<1>7. /\ new.version = row.version + 1 /\ new.key = row.key /\ new.payload = row.payload
      /\ new.status = st /\ new.marks = statusTimestamps(row, st)
      /\ new.items = (IF "items" \in i.has THEN i.cart ELSE row.items)
  BY DEF Row
<1>8. QED
  BY <1>3, <1>6, <1>7 DEF st

LEMMA ReservedType ==
  ASSUME NEW row \in Row
  PROVE  Reserved(row) \in [Sku -> Nat]
BY CartTypes DEF Reserved, Row, Cart

LEMMA DeltaType ==
  ASSUME TypeOK, NEW r \in Req, NEW s \in Sku
  PROVE  Delta(r, s) \in Int
BY ReservedType DEF Delta, TypeOK

LEMMA InitTypeOK == Init => TypeOK
<1> SUFFICES ASSUME Init PROVE TypeOK
  OBVIOUS
<1>1. order \in [Order -> Row]
  BY CartTypes, SeedAssumption DEF Init
<1>2. stock \in [Sku -> Nat] /\ productOf \in [Sku -> Product] /\ listed \subseteq Product
  BY CatalogAssumption DEF Init
<1>3. QED
  BY <1>1, <1>2, CartTypes DEF Init, TypeOK, Label

-----------------------------------------------------------------------------
(* Releasing and taking locks *)

LEMMA UnlockedLocks ==
  ASSUME TypeOK, NEW r \in Req, lock' = Unlocked(r)
  PROVE  /\ lock' \in [Lockable -> Req \cup {None}]
         /\ \A x \in Lockable : lock'[x] # r
         /\ \A x \in Lockable, q \in Req \ {r} : lock'[x] = q <=> lock[x] = q
BY NoneNotARequest DEF TypeOK, Unlocked

LEMMA LockedLocks ==
  ASSUME TypeOK, NEW r \in Req, NEW y \in Lockable, Free(y, r), lock' = Locked(y, r)
  PROVE  /\ lock' \in [Lockable -> Req \cup {None}]
         /\ lock'[y] = r
         /\ \A x \in Lockable : lock'[x] = r <=> (x = y \/ lock[x] = r)
         /\ \A x \in Lockable, q \in Req \ {r} : lock'[x] = q <=> lock[x] = q
BY NoneNotARequest DEF TypeOK, Locked, Free

-----------------------------------------------------------------------------
(* A step of one request leaves the invariant of the others alone *)

LEMMA OthersKeepInv ==
  ASSUME NEW r \in Req, NEW q \in Req, q # r, TypeOK, ReqInv(q),
         UNCHANGED <<stock, skuState, order, in>>,
         pc'[q] = pc[q], seen'[q] = seen[q], next'[q] = next[q], todo'[q] = todo[q],
         \A x \in Lockable : lock'[x] = q <=> lock[x] = q
  PROVE  ReqInv(q)'
<1>1. in[q].order \in Lockable /\ in[q].key \in Lockable
  BY InputTypes DEF Lockable, Input
<1>2. \A s \in Sku : s \in Lockable
  BY DEF Lockable
<1>3. OwnPath(q)'
  BY DEF ReqInv, OwnPath
<1>4. LocksSound(q)'
  BY <1>2 DEF ReqInv, LocksSound, Delta
<1>5. LoopSound(q)'
  BY <1>2 DEF ReqInv, LoopSound, Delta, IsNext, RankOf
<1>6. SnapshotSound(q)'
  BY <1>1 DEF ReqInv, SnapshotSound
<1>7. CreateSound(q)'
  BY <1>1 DEF ReqInv, CreateSound, KeyTaken
<1>8. InvoiceSound(q)'
  <2>1. NewInvoice(q) => next[q].invoice \in Lockable
    BY DEF TypeOK, Row, NewInvoice, Lockable
  <2>2. QED
    BY <2>1 DEF ReqInv, InvoiceSound, NewInvoice, InvoiceTaken, Target
<1>9. QED
  BY <1>3, <1>4, <1>5, <1>6, <1>7, <1>8 DEF ReqInv

\* What a step that only moves its own request has to show.
LEMMA LocalStep ==
  ASSUME IInv, NEW r \in Req,
         UNCHANGED <<stock, skuState, productOf, listed, order, in>>,
         \A q \in Req \ {r} : /\ pc'[q] = pc[q] /\ seen'[q] = seen[q]
                              /\ next'[q] = next[q] /\ todo'[q] = todo[q],
         \A x \in Lockable, q \in Req \ {r} : lock'[x] = q <=> lock[x] = q,
         TypeOK', ReqInv(r)'
  PROVE  IInv'
<1>1. ASSUME NEW q \in Req PROVE ReqInv(q)'
  <2>1. CASE q = r
    BY <2>1
  <2>2. CASE q # r
    BY <2>2, OthersKeepInv DEF IInv
  <2>3. QED
    BY <2>1, <2>2
<1>2. ItemsSound'
  BY DEF IInv, ItemsSound
<1>3. QED
  BY <1>1, <1>2 DEF IInv

LEMMA FinishInv ==
  ASSUME IInv, NEW r \in Req, NEW a \in Answer, NEW o \in Order \cup {None}, Finish(r, a, o)
  PROVE  IInv'
<1>1. TypeOK
  BY DEF IInv
<1>2. /\ lock' \in [Lockable -> Req \cup {None}]
      /\ \A x \in Lockable : lock'[x] # r
      /\ \A x \in Lockable, q \in Req \ {r} : lock'[x] = q <=> lock[x] = q
  BY <1>1, UnlockedLocks DEF Finish
<1>3. TypeOK'
  BY <1>1, <1>2 DEF TypeOK, Finish, Goto, catalog, Label
<1>4. pc'[r] = "done" /\ in' = in
  BY <1>1 DEF TypeOK, Finish, Goto
<1>5. ReqInv(r)'
  <2>1. \A s \in Sku : s \in Lockable
    BY DEF Lockable
  <2>2. QED
    BY <1>2, <1>4, <2>1 DEF ReqInv, OwnPath, LocksSound, LoopSound, SnapshotSound, CreateSound,
       InvoiceSound, Writing, Planned, Claimed
<1>6. QED
  BY <1>1, <1>2, <1>3, <1>5, LocalStep DEF Finish, Goto, catalog, TypeOK

LEMMA GotoInv ==
  ASSUME IInv, NEW r \in Req, NEW label \in Label, Goto(r, label),
         UNCHANGED <<stock, skuState, productOf, listed, order, lock, in, seen, next, todo, reply>>,
         pc[r] \notin Planned \cup {"done"}, label \notin Planned \cup {"readItems", "done"},
         OwnPath(r)'
  PROVE  IInv'
<1>1. TypeOK /\ TypeOK'
  BY DEF IInv, TypeOK, Goto
<1>2. pc'[r] = label
  BY <1>1 DEF Goto, TypeOK
<1>3. \A x \in Lockable : lock[x] # r
  BY DEF IInv, ReqInv, LocksSound, Planned
<1>4. LocksSound(r)' /\ LoopSound(r)'
  <2>1. \A s \in Sku : s \in Lockable
    BY DEF Lockable
  <2>2. QED
    BY <1>2, <1>3, <2>1 DEF LocksSound, LoopSound, Planned
<1>5. SnapshotSound(r)' /\ CreateSound(r)' /\ InvoiceSound(r)'
  BY <1>2 DEF IInv, ReqInv, SnapshotSound, CreateSound, InvoiceSound, Writing, Planned, Claimed
<1>6. ReqInv(r)'
  BY <1>4, <1>5 DEF ReqInv
<1>7. QED
  BY <1>1, <1>6, LocalStep DEF Goto, TypeOK

-----------------------------------------------------------------------------
(* Before the transaction writes *)

LEMMA ArriveInv ==
  ASSUME IInv, NEW r \in Req, Arrive(r)
  PROVE  IInv'
<1>1. TypeOK /\ pc[r] = "idle"
  BY DEF IInv, Arrive
<1> DEFINE label == CASE in[r].op = "create" -> "findKey"
                      [] in[r].op = "status" -> "readRow"
                      [] OTHER -> "validate"
<1>2. /\ label \in Label /\ label \notin Planned \cup {"readItems", "done"}
      /\ IF in[r].op = "create" THEN label = "findKey" ELSE label \in {"readRow", "validate"}
  BY DEF Label, Planned, Writing
<1>3. Goto(r, label)
  BY DEF Arrive
<1> HIDE DEF label
<1>4. OwnPath(r)'
  BY <1>1, <1>2, <1>3 DEF OwnPath, Goto, TypeOK, Arrive
<1>5. QED
  BY <1>1, <1>2, <1>3, <1>4, GotoInv DEF Arrive, Planned, Writing, catalog

LEMMA AnswerFromKeyInv ==
  ASSUME IInv, NEW r \in Req, NEW o \in Order, AnswerFromKey(r, o)
  PROVE  IInv'
BY FinishInv DEF AnswerFromKey, Answer

LEMMA FindByKeyInv ==
  ASSUME IInv, NEW r \in Req, FindByKey(r)
  PROVE  IInv'
<1>1. CASE \E o \in Order : order[o].key = in[r].key /\ AnswerFromKey(r, o)
  BY <1>1, AnswerFromKeyInv
<1>2. CASE /\ Goto(r, "findSkus")
           /\ UNCHANGED <<catalog, order, lock, in, seen, next, todo, reply>>
  <2>1. OwnPath(r) /\ pc[r] = "findKey" /\ TypeOK
    BY DEF IInv, ReqInv, FindByKey
  <2>2. OwnPath(r)'
    BY <1>2, <2>1 DEF OwnPath, Goto, TypeOK
  <2>3. QED
    BY <1>2, <2>1, <2>2, GotoInv DEF Label, Planned, Writing, catalog
<1>3. QED
  BY <1>1, <1>2 DEF FindByKey

LEMMA ValidateInv ==
  ASSUME IInv, NEW r \in Req, Validate(r)
  PROVE  IInv'
<1>1. CASE Finish(r, "notFound", None)
  BY <1>1, FinishInv DEF Answer
<1>2. CASE Finish(r, "concurrentlyModified", None)
  BY <1>2, FinishInv DEF Answer
<1>3. CASE /\ Goto(r, "readRow")
           /\ UNCHANGED <<catalog, order, lock, in, seen, next, todo, reply>>
  <2>1. OwnPath(r) /\ pc[r] = "validate" /\ TypeOK
    BY DEF IInv, ReqInv, Validate
  <2>2. OwnPath(r)'
    BY <1>3, <2>1 DEF OwnPath, Goto, TypeOK
  <2>3. QED
    BY <1>3, <2>1, <2>2, GotoInv DEF Label, Planned, Writing, catalog
<1>4. QED
  BY <1>1, <1>2, <1>3 DEF Validate

LEMMA FindSkusInv ==
  ASSUME IInv, NEW r \in Req, FindSkus(r)
  PROVE  IInv'
<1> DEFINE skus  == {s \in Sku : in[r].cart[s] > 0}
           label == IF skus = {} THEN "insert" ELSE "sku"
<1>1. CASE Finish(r, "notFound", None)
  BY <1>1, FinishInv DEF Answer
<1>2. CASE /\ seen' = [seen EXCEPT ![r] = AbsentRow]
           /\ next' = [next EXCEPT ![r] = Created(in[r])]
           /\ todo' = [todo EXCEPT ![r] = skus]
           /\ Goto(r, label)
           /\ UNCHANGED <<catalog, order, lock, in, reply>>
  <2>1. TypeOK /\ ReqInv(r) /\ pc[r] = "findSkus" /\ in[r] \in Input
    BY InputTypes DEF IInv, FindSkus
  <2>2. /\ seen'[r] = AbsentRow /\ next'[r] = Created(in[r]) /\ todo'[r] = skus
        /\ pc'[r] = label
    BY <1>2, <2>1 DEF TypeOK, Goto
  <2>3. TypeOK'
    BY <1>2, <2>1, CartTypes, CreatedType DEF TypeOK, Goto, catalog, Label
  <2>4. in[r].op = "create" /\ \A x \in Lockable : lock[x] # r
    BY <2>1 DEF ReqInv, OwnPath, LocksSound, Writing
  <2>5. \A s \in Sku : Delta(r, s)' = -in[r].cart[s]
    BY <1>2, <2>1, <2>2 DEF Delta, Reserved, AbsentRow, NoItems, Created, Released, Input, Cart
  <2>6. OwnPath(r)'
    BY <1>2, <2>2, <2>4 DEF OwnPath
  <2>7. LocksSound(r)'
    BY <1>2, <2>4 DEF LocksSound, Lockable
  <2>8. LoopSound(r)'
    BY <2>1, <2>2, <2>5 DEF LoopSound, Input, Cart
  <2>9. SnapshotSound(r)' /\ CreateSound(r)' /\ InvoiceSound(r)'
    BY <1>2, <2>1, <2>2, <2>4 DEF SnapshotSound, CreateSound, InvoiceSound, ReqInv, Claimed
  <2>10. ReqInv(r)'
    BY <2>6, <2>7, <2>8, <2>9 DEF ReqInv
  <2>11. QED
    BY <1>2, <2>1, <2>3, <2>10, LocalStep DEF Goto, TypeOK, catalog
<1>3. QED
  BY <1>1, <1>2 DEF FindSkus

LEMMA ReadRowInv ==
  ASSUME IInv, NEW r \in Req, ReadRow(r)
  PROVE  IInv'
<1>1. CASE Finish(r, "notFound", None)
  BY <1>1, FinishInv DEF Answer
<1>2. CASE /\ order[in[r].order].status # "absent"
           /\ seen' = [seen EXCEPT ![r] = order[in[r].order]]
           /\ Goto(r, "readItems")
           /\ UNCHANGED <<catalog, order, lock, in, next, todo, reply>>
  <2>1. TypeOK /\ ReqInv(r) /\ pc[r] = "readRow" /\ in[r].order \in Order
    BY InputTypes DEF IInv, ReadRow
  <2>2. seen'[r] = order[in[r].order] /\ pc'[r] = "readItems" /\ order[in[r].order] \in Row
    BY <1>2, <2>1 DEF TypeOK, Goto
  <2>3. TypeOK'
    BY <1>2, <2>1 DEF TypeOK, Goto, catalog, Label
  <2>4. OwnPath(r)' /\ LocksSound(r)' /\ LoopSound(r)' /\ CreateSound(r)' /\ InvoiceSound(r)'
    BY <1>2, <2>1, <2>2 DEF ReqInv, OwnPath, LocksSound, LoopSound, CreateSound, InvoiceSound,
       Writing, Claimed, Lockable
  <2>5. SnapshotSound(r)'
    BY <1>2, <2>1, <2>2 DEF SnapshotSound, Planned, Writing, Claimed, Row
  <2>6. ReqInv(r)'
    BY <2>4, <2>5 DEF ReqInv
  <2>7. QED
    BY <1>2, <2>1, <2>3, <2>6, LocalStep DEF Goto, TypeOK, catalog
<1>3. QED
  BY <1>1, <1>2 DEF ReadRow

LEMMA ReadItemsInv ==
  ASSUME IInv, NEW r \in Req, ReadItems(r)
  PROVE  IInv'
<1> DEFINE row      == [seen[r] EXCEPT !.items = order[in[r].order].items]
           proposed == Proposed(in[r], row)
<1>1. CASE Finish(r, "concurrentlyModified", None)
  BY <1>1, FinishInv DEF Answer
<1>2. CASE Finish(r, "invalidTransition", None)
  BY <1>2, FinishInv DEF Answer
<1>3. CASE Finish(r, "notFound", None)
  BY <1>3, FinishInv DEF Answer
<1>4. CASE /\ isOrderStatusTransitionAllowed(row.status, proposed.status)
           /\ seen' = [seen EXCEPT ![r] = row]
           /\ next' = [next EXCEPT ![r] = proposed]
           /\ Goto(r, "checkStock")
           /\ UNCHANGED <<catalog, order, lock, in, todo, reply>>
  <2>1. /\ TypeOK /\ ReqInv(r) /\ pc[r] = "readItems"
        /\ in[r] \in Input /\ in[r].order \in Order
    BY InputTypes DEF IInv, ReadItems
  <2>2. /\ seen[r] \in Row /\ order[in[r].order] \in Row /\ row \in Row
        /\ row.version = seen[r].version /\ row.status = seen[r].status
        /\ row.items = order[in[r].order].items
    <3>1. seen[r] \in Row /\ order[in[r].order] \in Row
      BY <2>1 DEF TypeOK
    <3>2. order[in[r].order].items \in Cart
      BY <3>1 DEF Row
    <3>3. QED
      BY <3>1, <3>2 DEF Row
  <2>3. proposed \in Row
    BY <2>1, <2>2, ProposedType
  <2>4. seen'[r] = row /\ next'[r] = proposed /\ pc'[r] = "checkStock"
    BY <1>4, <2>1 DEF TypeOK, Goto
  <2>5. TypeOK'
    BY <1>4, <2>1, <2>2, <2>3 DEF TypeOK, Goto, catalog, Label
  <2>6. OwnPath(r)' /\ LocksSound(r)' /\ LoopSound(r)' /\ CreateSound(r)' /\ InvoiceSound(r)'
    BY <1>4, <2>1, <2>4 DEF ReqInv, OwnPath, LocksSound, LoopSound, CreateSound, InvoiceSound,
       Writing, Claimed, Lockable
  <2>7. SnapshotSound(r)'
    <3> DEFINE old == order[in[r].order]
    <3>1. in[r].op # "create" =>
            /\ old.status # "absent" /\ old.version >= seen[r].version
            /\ old.version = seen[r].version => seen[r] = [old EXCEPT !.items = seen[r].items]
      BY <2>1 DEF ReqInv, SnapshotSound
    <3>2. seen[r] = [old EXCEPT !.items = seen[r].items] =>
            row = [old EXCEPT !.items = row.items]
      BY <2>2 DEF Row
    <3> HIDE DEF row, proposed
    <3>3. QED
      BY <1>4, <2>2, <2>4, <3>1, <3>2 DEF SnapshotSound, Planned, Writing, Claimed, proposed
  <2>8. ReqInv(r)'
    BY <2>6, <2>7 DEF ReqInv
  <2>9. QED
    BY <1>4, <2>1, <2>5, <2>8, LocalStep DEF Goto, TypeOK, catalog
<1>5. QED
  BY <1>1, <1>2, <1>3, <1>4 DEF ReadItems

LEMMA CheckStockInv ==
  ASSUME IInv, NEW r \in Req, CheckStock(r)
  PROVE  IInv'
<1> DEFINE changed == {s \in Sku : Delta(r, s) # 0}
           label   == IF changed = {} THEN "update" ELSE "sku"
<1>1. CASE Finish(r, "insufficientStock", None)
  BY <1>1, FinishInv DEF Answer
<1>2. CASE Finish(r, "previewed", in[r].order)
  BY <1>2, FinishInv, InputTypes DEF Answer, IInv
<1>3. CASE /\ todo' = [todo EXCEPT ![r] = changed]
           /\ Goto(r, label)
           /\ UNCHANGED <<catalog, order, lock, in, seen, next, reply>>
  <2>1. TypeOK /\ ReqInv(r) /\ pc[r] = "checkStock"
    BY DEF IInv, CheckStock
  <2>2. todo'[r] = changed /\ pc'[r] = label
    BY <1>3, <2>1 DEF TypeOK, Goto
  <2>3. TypeOK'
    BY <1>3, <2>1 DEF TypeOK, Goto, catalog, Label
  <2>4. \A s \in Sku : Delta(r, s)' = Delta(r, s)
    BY <1>3 DEF Delta
  <2>5. \A x \in Lockable : lock[x] # r
    BY <2>1 DEF ReqInv, LocksSound, Writing
  <2>6. in[r].op # "create"
    BY <2>1 DEF ReqInv, OwnPath
  <2>7. OwnPath(r)' /\ LocksSound(r)' /\ CreateSound(r)' /\ InvoiceSound(r)'
    BY <1>3, <2>2, <2>5, <2>6 DEF OwnPath, LocksSound, CreateSound, InvoiceSound, Lockable
  <2>8. LoopSound(r)'
    BY <2>2, <2>4 DEF LoopSound
  <2>9. SnapshotSound(r)'
    BY <1>3, <2>1, <2>2 DEF ReqInv, SnapshotSound, Planned, Writing, Claimed, catalog
  <2>10. ReqInv(r)'
    BY <2>7, <2>8, <2>9 DEF ReqInv
  <2>11. QED
    BY <1>3, <2>1, <2>3, <2>10, LocalStep DEF Goto, TypeOK, catalog
<1>4. QED
  BY <1>1, <1>2, <1>3 DEF CheckStock

-----------------------------------------------------------------------------
(* The transaction's statements: each takes one lock *)

\* The distinct ranks leave at most one SKU to go on with.
LEMMA OneIsNext ==
  ASSUME TypeOK, NEW r \in Req, NEW s \in Sku, NEW u \in Sku, IsNext(r, s), IsNext(r, u)
  PROVE  s = u
<1>1. RankOf(r) \in Ranking
  BY CatalogAssumption, InputTypes DEF RankOf, Input
<1>2. RankOf(r)[s] <= RankOf(r)[u] /\ RankOf(r)[u] <= RankOf(r)[s]
  BY DEF IsNext
<1>3. RankOf(r)[s] = RankOf(r)[u]
  BY <1>1, <1>2 DEF Ranking
<1>4. QED
  BY <1>1, <1>3 DEF Ranking

\* A transaction that goes on to its next statement with one more lock keeps
\* what does not depend on where it is.
LEMMA LockStep ==
  ASSUME IInv, NEW r \in Req, NEW y \in Lockable, NEW label \in Writing,
         pc[r] \in Writing, Free(y, r), lock' = Locked(y, r), Goto(r, label),
         UNCHANGED <<stock, skuState, productOf, listed, order, in, seen, next, reply>>,
         NEW rest \in SUBSET Sku, todo' = [todo EXCEPT ![r] = rest],
         y \in Sku => skuState[y] # "gone" /\ stock[y] + Delta(r, y) >= 0,
         OwnPath(r)', LoopSound(r)', InvoiceSound(r)',
         label \in Claimed =>
           IF in[r].op = "create" THEN lock'[in[r].key] = r /\ ~KeyTaken(r)
           ELSE lock'[in[r].order] = r /\ order[in[r].order].version = seen[r].version
  PROVE  IInv'
<1>1. TypeOK /\ ReqInv(r) /\ label \in Label
  BY DEF IInv, Writing, Label
<1>2. /\ lock' \in [Lockable -> Req \cup {None}]
      /\ \A x \in Lockable : lock'[x] = r <=> (x = y \/ lock[x] = r)
      /\ \A x \in Lockable, q \in Req \ {r} : lock'[x] = q <=> lock[x] = q
  BY <1>1, LockedLocks
<1>3. TypeOK'
  BY <1>1, <1>2 DEF TypeOK, Goto
<1>4. pc'[r] = label /\ todo'[r] = rest
  BY <1>1 DEF TypeOK, Goto
<1>5. LocksSound(r)'
  <2>1. \A s \in Sku : Delta(r, s)' = Delta(r, s) /\ s \in Lockable
    BY DEF Delta, Lockable
  <2>2. QED
    BY <1>1, <1>2, <1>4, <2>1 DEF ReqInv, LocksSound
<1>6. SnapshotSound(r)'
  BY <1>1, <1>4 DEF ReqInv, SnapshotSound, Planned
<1>7. CreateSound(r)'
  BY <1>1, <1>4 DEF ReqInv, CreateSound, Writing, KeyTaken
<1>8. ReqInv(r)'
  BY <1>5, <1>6, <1>7 DEF ReqInv
<1>9. QED
  BY <1>1, <1>2, <1>3, <1>8, LocalStep DEF Goto, TypeOK

LEMMA ChangeStockInv ==
  ASSUME IInv, NEW r \in Req, NEW s \in Sku, ChangeStock(r, s)
  PROVE  IInv'
<1>1. TypeOK /\ ReqInv(r) /\ pc[r] = "sku" /\ IsNext(r, s)
  BY DEF IInv, ChangeStock
<1>2. s \in Lockable /\ Free(s, r) /\ lock' = Locked(s, r)
  BY DEF Lockable, ChangeStock
<1>3. todo' = [todo EXCEPT ![r] = todo[r]] /\ todo[r] \in SUBSET Sku
  BY <1>1 DEF ChangeStock, TypeOK
<1>4. pc'[r] = "product" /\ in' = in
  BY <1>1 DEF ChangeStock, Goto, TypeOK
<1>5. OwnPath(r)'
  BY <1>1, <1>4 DEF ReqInv, OwnPath
<1>6. LoopSound(r)'
  <2>1. \A u \in Sku : lock'[u] = r <=> (u = s \/ lock[u] = r)
    BY <1>1, <1>2, LockedLocks DEF Lockable
  <2>2. \A u \in Sku : IsNext(r, u)' => u = s
    BY <1>1, OneIsNext DEF IsNext, RankOf, ChangeStock
  <2>3. QED
    BY <1>1, <1>4, <2>1, <2>2 DEF LoopSound, ReqInv, Writing, Delta, ChangeStock
<1>7. skuState[s] # "gone" /\ stock[s] + Delta(r, s) >= 0
  BY DEF ChangeStock, Matches
<1>8. "product" \in Writing \ Claimed /\ "sku" \in Writing
  BY DEF Writing, Claimed
<1>9. InvoiceSound(r)'
  BY <1>4 DEF InvoiceSound
<1>10. QED
  BY <1>1, <1>2, <1>3, <1>5, <1>6, <1>7, <1>8, <1>9, LockStep DEF ChangeStock, catalog

LEMMA TouchProductInv ==
  ASSUME IInv, NEW r \in Req, NEW s \in Sku, TouchProduct(r, s)
  PROVE  IInv'
<1> DEFINE rest  == todo[r] \ {s}
           label == IF rest # {} THEN "sku"
                    ELSE IF in[r].op = "create" THEN "insert" ELSE "update"
<1>1. TypeOK /\ ReqInv(r) /\ pc[r] = "product" /\ IsNext(r, s)
  BY DEF IInv, TouchProduct
<1>2. /\ productOf[s] \in Product /\ productOf[s] \in Lockable
      /\ Free(productOf[s], r) /\ lock' = Locked(productOf[s], r)
  BY <1>1 DEF Lockable, TouchProduct, TypeOK
<1>3. todo' = [todo EXCEPT ![r] = rest] /\ rest \in SUBSET Sku
  BY <1>1 DEF TouchProduct, TypeOK
<1>4. label \in Writing \ Claimed /\ label # "product" /\ "product" \in Writing
  BY DEF Writing, Claimed
<1>5. Goto(r, label)
  BY DEF TouchProduct
<1> HIDE DEF label
<1>6. pc'[r] = label /\ in' = in /\ todo'[r] = rest
  BY <1>1, <1>3, <1>5 DEF TouchProduct, Goto, TypeOK
<1>7. OwnPath(r)'
  BY <1>1, <1>6 DEF ReqInv, OwnPath, label
<1>8. LoopSound(r)'
  <2>1. \A u \in Sku : lock[u] = r => lock'[u] = r
    BY <1>1, <1>2, LockedLocks DEF Lockable
  <2>2. lock[s] = r
    BY <1>1 DEF ReqInv, LoopSound, Writing
  <2>3. label \notin {"sku", "product"} => rest = {}
    BY DEF label
  <2>4. \A u \in Sku : Delta(r, u)' = Delta(r, u)
    BY DEF TouchProduct, Delta
  <2>5. \A u \in Sku : Delta(r, u) # 0 => u \in todo[r] \/ lock[u] = r
    BY <1>1 DEF ReqInv, LoopSound, Writing
  <2>6. QED
    BY <1>4, <1>6, <2>1, <2>2, <2>3, <2>4, <2>5 DEF LoopSound
<1>9. productOf[s] \notin Sku
  BY <1>2, RowsAssumption
<1>10. InvoiceSound(r)'
  BY <1>4, <1>6 DEF InvoiceSound, Claimed
<1>11. QED
  BY <1>1, <1>2, <1>3, <1>4, <1>5, <1>7, <1>8, <1>9, <1>10, LockStep DEF TouchProduct, catalog

LEMMA InsertOrderInv ==
  ASSUME IInv, NEW r \in Req, InsertOrder(r)
  PROVE  IInv'
<1>1. TypeOK /\ ReqInv(r) /\ pc[r] = "insert" /\ in[r] \in Input
  BY InputTypes DEF IInv, InsertOrder
<1>2. /\ in[r].key \in Key /\ in[r].key \in Lockable
      /\ Free(in[r].key, r) /\ lock' = Locked(in[r].key, r)
  BY <1>1 DEF Lockable, InsertOrder, Input
<1>3. todo' = [todo EXCEPT ![r] = todo[r]] /\ todo[r] \in SUBSET Sku
  BY <1>1 DEF InsertOrder, TypeOK
<1>4. AfterRow(r) \in Claimed /\ AfterRow(r) \in Writing /\ "insert" \in Writing
  BY DEF AfterRow, Writing, Claimed
<1>5. pc'[r] = AfterRow(r) /\ in' = in
  BY <1>1 DEF InsertOrder, Goto, TypeOK
<1>6. in[r].op = "create"
  BY <1>1 DEF ReqInv, OwnPath
<1>7. OwnPath(r)'
  BY <1>4, <1>5, <1>6 DEF OwnPath, Claimed
<1>8. \A x \in Lockable : lock'[x] = r <=> (x = in[r].key \/ lock[x] = r)
  BY <1>1, <1>2, LockedLocks
<1>9. LoopSound(r)'
  BY <1>1, <1>4, <1>5, <1>8 DEF ReqInv, LoopSound, Writing, Claimed, Delta, InsertOrder, Lockable
<1>10. lock'[in[r].key] = r /\ ~KeyTaken(r)
  BY <1>2, <1>8 DEF InsertOrder
<1>11. in[r].key \notin Sku
  BY <1>2, RowsAssumption
<1>12. InvoiceSound(r)'
  BY <1>5 DEF InvoiceSound, AfterRow, NewInvoice, InsertOrder
<1>13. /\ Goto(r, AfterRow(r))
       /\ UNCHANGED <<stock, skuState, productOf, listed, order, in, seen, next, reply>>
  BY DEF InsertOrder, catalog
<1>14. pc[r] \in Writing
  BY <1>1, <1>4
<1>15. QED
  BY <1>2, <1>3, <1>4, <1>6, <1>7, <1>9, <1>10, <1>11, <1>12, <1>13, <1>14, LockStep

LEMMA UpdateOrderInv ==
  ASSUME IInv, NEW r \in Req, UpdateOrder(r)
  PROVE  IInv'
<1> DEFINE o == in[r].order
<1>1. CASE Finish(r, "concurrentlyModified", None)
  BY <1>1, FinishInv DEF Answer
<1>2. CASE /\ order[o].version = seen[r].version
           /\ Free(o, r)
           /\ lock' = Locked(o, r)
           /\ Goto(r, AfterRow(r))
           /\ UNCHANGED <<catalog, order, in, seen, next, todo, reply>>
  <2>1. TypeOK /\ ReqInv(r) /\ pc[r] = "update" /\ o \in Order /\ o \in Lockable
    BY InputTypes DEF IInv, UpdateOrder, Lockable
  <2>2. todo' = [todo EXCEPT ![r] = todo[r]] /\ todo[r] \in SUBSET Sku
    BY <1>2, <2>1 DEF TypeOK
  <2>3. AfterRow(r) \in Claimed /\ AfterRow(r) \in Writing /\ "update" \in Writing
    BY DEF AfterRow, Writing, Claimed
  <2>4. pc'[r] = AfterRow(r) /\ in' = in
    BY <1>2, <2>1 DEF Goto, TypeOK
  <2>5. in[r].op # "create"
    BY <2>1 DEF ReqInv, OwnPath
  <2>6. OwnPath(r)'
    BY <2>3, <2>4, <2>5 DEF OwnPath, Claimed
  <2>7. \A x \in Lockable : lock'[x] = r <=> (x = o \/ lock[x] = r)
    BY <1>2, <2>1, LockedLocks
  <2>8. LoopSound(r)'
    BY <1>2, <2>1, <2>3, <2>4, <2>7
       DEF ReqInv, LoopSound, Writing, Claimed, Delta, Lockable
  <2>9. o \notin Sku
    BY <2>1, RowsAssumption
  <2>10. lock'[o] = r
    BY <2>1, <2>7
  <2>11. InvoiceSound(r)'
    BY <1>2, <2>4 DEF InvoiceSound, AfterRow, NewInvoice
  <2>12. UNCHANGED <<stock, skuState, productOf, listed, order, in, seen, next, reply>>
    BY <1>2 DEF catalog
  <2>13. pc[r] \in Writing
    BY <2>1, <2>3
  <2>14. QED
    BY <1>2, <2>1, <2>2, <2>3, <2>5, <2>6, <2>8, <2>9, <2>10, <2>11, <2>12, <2>13, LockStep
<1>3. QED
  BY <1>1, <1>2 DEF UpdateOrder

LEMMA ClaimInvoiceInv ==
  ASSUME IInv, NEW r \in Req, ClaimInvoice(r)
  PROVE  IInv'
<1> DEFINE v == next[r].invoice
<1>1. CASE Finish(r, "invoiceTaken", None)
  BY <1>1, FinishInv DEF Answer
<1>2. CASE /\ ~InvoiceTaken(r)
           /\ Free(v, r)
           /\ lock' = Locked(v, r)
           /\ Goto(r, "commit")
           /\ UNCHANGED <<catalog, order, in, seen, next, todo, reply>>
  <2>1. TypeOK /\ ReqInv(r) /\ pc[r] = "invoice" /\ in[r] \in Input
    BY InputTypes DEF IInv, ClaimInvoice
  <2>2. v \in Invoice
    BY <2>1 DEF ReqInv, InvoiceSound, NewInvoice, TypeOK, Row
  <2>3. v \in Lockable /\ v \notin Sku
    BY <2>2, RowsAssumption DEF Lockable
  <2>4. todo' = [todo EXCEPT ![r] = todo[r]] /\ todo[r] \in SUBSET Sku
    BY <1>2, <2>1 DEF TypeOK
  <2>5. pc'[r] = "commit" /\ in' = in
    BY <1>2, <2>1 DEF Goto, TypeOK
  <2>6. \A x \in Lockable : lock'[x] = r <=> (x = v \/ lock[x] = r)
    BY <1>2, <2>1, <2>3, LockedLocks
  <2>7. OwnPath(r)'
    BY <2>1, <2>5 DEF ReqInv, OwnPath
  <2>8. LoopSound(r)'
    BY <1>2, <2>1, <2>5, <2>6 DEF ReqInv, LoopSound, Writing, Delta, Lockable
  <2>9. InvoiceSound(r)'
    BY <1>2, <2>3, <2>5, <2>6 DEF InvoiceSound, InvoiceTaken, Target
  <2>10. IF in[r].op = "create" THEN lock'[in[r].key] = r /\ ~KeyTaken(r)
         ELSE lock'[in[r].order] = r /\ order[in[r].order].version = seen[r].version
    <3>1. in[r].key \in Lockable /\ in[r].order \in Lockable
      BY <2>1 DEF Input, Lockable, Order
    <3>2. QED
      BY <2>1, <2>6, <3>1 DEF ReqInv, SnapshotSound, CreateSound, Claimed
  <2>11. "commit" \in Writing /\ "invoice" \in Writing
    BY DEF Writing
  <2>12. QED
    BY <1>2, <2>1, <2>3, <2>4, <2>7, <2>8, <2>9, <2>10, <2>11, LockStep DEF catalog
<1>3. QED
  BY <1>1, <1>2 DEF ClaimInvoice

LEMMA UniqueViolationInv ==
  ASSUME IInv, NEW r \in Req, UniqueViolation(r)
  PROVE  IInv'
<1>1. TypeOK /\ ReqInv(r) /\ pc[r] \in {"insert", "invoice"}
  BY DEF IInv, UniqueViolation
<1>2. in[r].op = "create"
  BY <1>1 DEF ReqInv, OwnPath, UniqueViolation
<1>3. /\ lock' \in [Lockable -> Req \cup {None}]
      /\ \A x \in Lockable : lock'[x] # r
      /\ \A x \in Lockable, q \in Req \ {r} : lock'[x] = q <=> lock[x] = q
  BY <1>1, UnlockedLocks DEF UniqueViolation
<1>4. pc'[r] = "findAgain" /\ in' = in
  BY <1>1 DEF UniqueViolation, Goto, TypeOK
<1>5. TypeOK'
  BY <1>1, <1>3 DEF TypeOK, UniqueViolation, Goto, catalog, Label
<1>6. OwnPath(r)' /\ LocksSound(r)' /\ LoopSound(r)' /\ InvoiceSound(r)'
  BY <1>2, <1>3, <1>4 DEF OwnPath, LocksSound, LoopSound, InvoiceSound, Writing, Lockable
<1>7. CreateSound(r)' /\ SnapshotSound(r)'
  BY <1>1, <1>2, <1>4 DEF ReqInv, CreateSound, SnapshotSound, Writing, Claimed, UniqueViolation
<1>8. ReqInv(r)'
  BY <1>6, <1>7 DEF ReqInv
<1>9. QED
  BY <1>1, <1>3, <1>5, <1>8, LocalStep DEF UniqueViolation, Goto, TypeOK, catalog

LEMMA FindAgainInv ==
  ASSUME IInv, NEW r \in Req, FindAgain(r)
  PROVE  IInv'
<1>1. CASE \E o \in Order : order[o].key = in[r].key /\ AnswerFromKey(r, o)
  BY <1>1, AnswerFromKeyInv
<1>2. CASE Finish(r, "invoiceTaken", None)
  BY <1>2, FinishInv DEF Answer
<1>3. QED
  BY <1>1, <1>2 DEF FindAgain

-----------------------------------------------------------------------------
(* Commit *)

\* What a transaction about to commit writes into its order row.
LEMMA FinalCreate ==
  ASSUME IInv, NEW r \in Req, pc[r] = "commit", in[r].op = "create"
  PROVE  /\ Target(r) = r /\ order[r].status = "absent" /\ order[r] \in Row
         /\ seen[r] = AbsentRow /\ Final(r) = next[r] /\ next[r] = Created(in[r])
         /\ Final(r).key = in[r].key /\ Final(r).status = "pending" /\ Final(r).marks = {}
         /\ Final(r).payload = PayloadOf(in[r])
         /\ in[r].key \in Lockable /\ lock[in[r].key] = r /\ ~KeyTaken(r)
<1>1. TypeOK /\ ReqInv(r) /\ in[r] \in Input
  BY InputTypes DEF IInv
<1>2. order[r] \in Row /\ in[r].key \in Lockable
  BY <1>1 DEF TypeOK, Order, Input, Lockable
<1>3. /\ Created(in[r]).key = in[r].key /\ Created(in[r]).status = "pending"
      /\ Created(in[r]).marks = {} /\ Created(in[r]).payload = PayloadOf(in[r])
  BY DEF Created
<1>4. QED
  BY <1>1, <1>2, <1>3 DEF ReqInv, CreateSound, Writing, Claimed, Final, WritesItems, Target

LEMMA FinalUpdate ==
  ASSUME IInv, NEW r \in Req, pc[r] = "commit", in[r].op # "create"
  PROVE  LET o == in[r].order
         IN  /\ Target(r) = o /\ o \in Order /\ lock[o] = r
             /\ order[o] \in Row /\ order[o].status # "absent"
             /\ seen[r] = [order[o] EXCEPT !.items = seen[r].items]
             /\ seen[r].version = order[o].version /\ seen[r].status = order[o].status
             /\ seen[r].marks = order[o].marks /\ seen[r].invoice = order[o].invoice
             /\ \A s \in Sku : skuState[s] # "gone" => order[o].items[s] = seen[r].items[s]
             /\ next[r] = Proposed(in[r], seen[r])
             /\ isOrderStatusTransitionAllowed(order[o].status, next[r].status)
             /\ Final(r) = [next[r] EXCEPT !.items = Final(r).items]
             /\ Final(r) \in Row
             /\ Final(r).version = order[o].version + 1
             /\ Final(r).status = next[r].status /\ Final(r).status # "absent"
             /\ Final(r).marks = statusTimestamps(order[o], Final(r).status)
             /\ Final(r).key = order[o].key /\ Final(r).payload = order[o].payload
             /\ Final(r).invoice = next[r].invoice
<1> DEFINE o == in[r].order
<1>1. TypeOK /\ ReqInv(r) /\ in[r] \in Input /\ o \in Order /\ Target(r) = o
  BY InputTypes DEF IInv, Target
<1>2. order[o] \in Row /\ seen[r] \in Row /\ next[r] \in Row
  BY <1>1 DEF TypeOK
<1>3. /\ lock[o] = r /\ order[o].status # "absent" /\ seen[r].version = order[o].version
      /\ seen[r] = [order[o] EXCEPT !.items = seen[r].items]
      /\ \A s \in Sku : skuState[s] # "gone" => order[o].items[s] = seen[r].items[s]
      /\ next[r] = Proposed(in[r], seen[r])
      /\ isOrderStatusTransitionAllowed(seen[r].status, next[r].status)
  BY <1>1 DEF ReqInv, SnapshotSound, Planned, Writing, Claimed
<1>4. /\ seen[r].status = order[o].status /\ seen[r].marks = order[o].marks
      /\ seen[r].key = order[o].key /\ seen[r].payload = order[o].payload
      /\ seen[r].invoice = order[o].invoice
  BY <1>2, <1>3 DEF Row
<1>5. /\ next[r].version = order[o].version + 1
      /\ next[r].key = order[o].key /\ next[r].payload = order[o].payload
      /\ next[r].marks = statusTimestamps(seen[r], next[r].status)
      /\ next[r].status = (IF "status" \in in[r].has THEN in[r].status ELSE order[o].status)
  BY <1>1, <1>2, <1>3, <1>4, ProposedType
<1>6. next[r].status # "absent"
  BY <1>1, <1>3, <1>5 DEF Input, Status
<1>7. statusTimestamps(seen[r], next[r].status) = statusTimestamps(order[o], next[r].status)
  BY <1>4 DEF statusTimestamps
<1>8. order[o].items \in Cart
  BY <1>2 DEF Row
<1>9. /\ Final(r) \in Row /\ Final(r) = [next[r] EXCEPT !.items = Final(r).items]
      /\ Final(r).version = next[r].version /\ Final(r).status = next[r].status
      /\ Final(r).marks = next[r].marks /\ Final(r).key = next[r].key
      /\ Final(r).payload = next[r].payload /\ Final(r).invoice = next[r].invoice
  <2>1. CASE WritesItems(r)
    BY <1>2, <2>1 DEF Final, Row
  <2>2. CASE ~WritesItems(r)
    <3>1. Final(r) = [next[r] EXCEPT !.items = order[o].items]
      BY <1>1, <2>2 DEF Final
    <3>2. QED
      BY <1>2, <1>8, <3>1 DEF Row
  <2>3. QED
    BY <2>1, <2>2
<1>10. QED
  BY <1>1, <1>2, <1>3, <1>4, <1>5, <1>6, <1>7, <1>9

\* Two transactions about to commit never write the same order.
LEMMA CommitsApart ==
  ASSUME IInv, NEW r \in Req, NEW q \in Req, r # q, pc[r] = "commit",
         in[q].op = "create" => pc[q] # "done",
         in[q].op # "create" => pc[q] \in Claimed
  PROVE  Target(r) # Target(q)
<1>1. CASE in[r].op = "create" /\ in[q].op = "create"
  BY <1>1 DEF Target
<1>2. CASE in[r].op = "create" /\ in[q].op # "create"
  <2>1. ReqInv(q) /\ pc[q] \in Claimed
    BY <1>2 DEF IInv
  <2>2. order[in[q].order].status # "absent"
    BY <1>2, <2>1 DEF ReqInv, SnapshotSound, Planned, Writing, Claimed
  <2>3. QED
    BY <1>2, <2>2, FinalCreate DEF Target
<1>3. CASE in[r].op # "create" /\ in[q].op = "create"
  <2>1. order[in[r].order].status # "absent" /\ Target(r) = in[r].order
    BY <1>3, FinalUpdate
  <2>2. order[q].status = "absent" /\ Target(q) = q
    BY <1>3 DEF IInv, ReqInv, CreateSound, Target
  <2>3. QED
    BY <2>1, <2>2
<1>4. CASE in[r].op # "create" /\ in[q].op # "create"
  <2>1. lock[in[r].order] = r
    BY <1>4, FinalUpdate
  <2>2. lock[in[q].order] = q
    BY <1>4 DEF IInv, ReqInv, SnapshotSound
  <2>3. QED
    BY <1>4, <2>1, <2>2 DEF Target
<1>5. QED
  BY <1>1, <1>2, <1>3, <1>4

\* A commit leaves what the invariant says of every other request alone.
LEMMA CommitOthers ==
  ASSUME IInv, NEW r \in Req, Commit(r), NEW q \in Req, q # r
  PROVE  ReqInv(q)'
<1>1. TypeOK /\ ReqInv(r) /\ ReqInv(q) /\ pc[r] = "commit" /\ Target(r) \in Order
  BY InputTypes DEF IInv, Commit
<1>2. /\ pc'[q] = pc[q] /\ in' = in /\ seen' = seen /\ next' = next /\ todo' = todo
      /\ skuState' = skuState
      /\ order' = [order EXCEPT ![Target(r)] = Final(r)]
      /\ stock' = [s \in Sku |-> IF lock[s] = r THEN stock[s] + Delta(r, s) ELSE stock[s]]
  BY <1>1 DEF Commit, Goto, TypeOK
<1>3. \A x \in Lockable : lock'[x] = q <=> lock[x] = q
  BY <1>1, UnlockedLocks DEF Commit
<1>4. \A o \in Order : order'[o] = IF o = Target(r) THEN Final(r) ELSE order[o]
  BY <1>1, <1>2 DEF TypeOK
<1>5. /\ in[q] \in Input /\ in[q].order \in Order /\ in[q].order \in Lockable
      /\ in[q].key \in Lockable
  BY <1>1, InputTypes DEF Lockable, Input
<1>6. OwnPath(q)'
  BY <1>1, <1>2 DEF ReqInv, OwnPath
<1>7. LocksSound(q)'
  BY <1>1, <1>2, <1>3 DEF ReqInv, LocksSound, Delta, Lockable
<1>8. LoopSound(q)'
  BY <1>1, <1>2, <1>3 DEF ReqInv, LoopSound, Delta, Lockable, IsNext, RankOf
<1>9. SnapshotSound(q)'
  <2> DEFINE o == in[q].order
  <2> SUFFICES ASSUME in[q].op # "create", pc[q] \in Planned \cup {"readItems"}
               PROVE  SnapshotSound(q)'
    BY <1>2 DEF SnapshotSound, Planned, Writing, Claimed
  <2>1. order[o].status # "absent" /\ order[o].version >= seen[q].version
    BY <1>1 DEF ReqInv, SnapshotSound
  <2>2. CASE o # Target(r)
    BY <1>1, <1>2, <1>3, <1>4, <1>5, <2>2 DEF ReqInv, SnapshotSound
  <2>3. CASE o = Target(r)
    <3>1. in[r].op # "create"
      BY <1>1, <2>1, <2>3, FinalCreate
    <3>2. in[r].op # "create" /\ in[r].order = o
      BY <2>3, <3>1 DEF Target
    <3>3. /\ Final(r).version = order[o].version + 1 /\ Final(r).status # "absent"
          /\ order[o].version \in Nat /\ seen[q].version \in Nat
      BY <1>1, <3>2, FinalUpdate DEF Row, TypeOK
    <3>4. /\ order'[o].status # "absent" /\ order'[o].version > seen[q].version
          /\ order'[o].version \in Nat /\ seen[q].version \in Nat
      BY <1>4, <1>5, <2>1, <2>3, <3>3
    <3>5. pc[q] \notin Claimed
      BY <1>1, <2>3, CommitsApart DEF Target
    <3>6. next[q] = Proposed(in[q], seen[q]) \/ pc[q] \notin Planned
      BY <1>1 DEF ReqInv, SnapshotSound
    <3>7. /\ order'[o].version >= seen'[q].version /\ order'[o].version # seen'[q].version
          /\ order'[o].status # "absent" /\ pc'[q] \notin Claimed
      BY <1>2, <3>4, <3>5
    <3>8. pc'[q] \in Planned =>
            /\ next'[q] = Proposed(in'[q], seen'[q])
            /\ isOrderStatusTransitionAllowed(seen'[q].status, next'[q].status)
      BY <1>1, <1>2 DEF ReqInv, SnapshotSound
    <3>9. QED
      BY <1>2, <3>7, <3>8 DEF SnapshotSound
  <2>4. QED
    BY <2>2, <2>3
<1>10. ASSUME in[q].op = "create" PROVE CreateSound(q)'
  <2>1. pc[q] # "done" => order'[q].status = "absent"
    <3> SUFFICES ASSUME pc[q] # "done" PROVE order'[q].status = "absent"
      OBVIOUS
    <3>1. Target(q) # Target(r) /\ Target(q) = q
      BY <1>1, <1>10, CommitsApart DEF Target
    <3>2. QED
      BY <1>1, <1>4, <1>10, <3>1 DEF ReqInv, CreateSound, Order
  <2>2. pc[q] \in Claimed => lock'[in[q].key] = q /\ \A o \in Order : order'[o].key # in[q].key
    <3> SUFFICES ASSUME pc[q] \in Claimed
                 PROVE  lock'[in[q].key] = q /\ \A o \in Order : order'[o].key # in[q].key
      OBVIOUS
    <3>1. lock[in[q].key] = q /\ \A o \in Order : order[o].key # in[q].key
      BY <1>1, <1>10 DEF ReqInv, CreateSound, KeyTaken
    <3>2. Final(r).key # in[q].key
      <4>1. CASE in[r].op = "create"
        BY <1>1, <1>5, <3>1, <4>1, FinalCreate
      <4>2. CASE in[r].op # "create"
        BY <1>1, <3>1, <4>2, FinalUpdate, ZenonT(40)
      <4>3. QED
        BY <4>1, <4>2
    <3>3. QED
      BY <1>3, <1>4, <1>5, <3>1, <3>2
  <2>3. pc[q] \in Writing => seen[q] = AbsentRow /\ next[q] = Created(in[q])
    BY <1>1, <1>10 DEF ReqInv, CreateSound
  <2>4. QED
    BY <1>2, <2>1, <2>2, <2>3 DEF CreateSound, KeyTaken
<1>11. in[q].op # "create" => CreateSound(q)'
  BY <1>2 DEF CreateSound
<1>12. InvoiceSound(q)'
  <2>1. pc[q] = "invoice" => NewInvoice(q)'
    BY <1>1, <1>2 DEF ReqInv, InvoiceSound, NewInvoice
  <2>2. ASSUME pc[q] = "commit", NewInvoice(q)
        PROVE  lock'[next[q].invoice] = q /\
               \A o \in Order \ {Target(q)} : order'[o].invoice # next[q].invoice
    <3> DEFINE v == next[q].invoice
    <3>1. v # None /\ v \in Lockable /\ lock[v] = q
      BY <1>1, <2>2 DEF ReqInv, InvoiceSound, NewInvoice, TypeOK, Row, Lockable
    <3>2. \A o \in Order \ {Target(q)} : order[o].invoice # v
      BY <1>1, <2>2 DEF ReqInv, InvoiceSound, InvoiceTaken
    <3>3. Target(r) # Target(q)
      BY <1>1, <2>2, CommitsApart DEF Claimed
    <3>4. NewInvoice(r) => next[r].invoice # v
      BY <1>1, <3>1 DEF ReqInv, InvoiceSound
    <3>5. Final(r).invoice # v
      <4>1. CASE in[r].op = "create"
        BY <1>1, <3>1, <3>4, <4>1, FinalCreate DEF NewInvoice, AbsentRow
      <4>2. CASE in[r].op # "create"
        <5>1. /\ Final(r).invoice = next[r].invoice
              /\ seen[r].invoice = order[Target(r)].invoice
          BY <1>1, <4>2, FinalUpdate, ZenonT(40)
        <5>2. QED
          BY <1>1, <3>1, <3>2, <3>3, <3>4, <5>1 DEF NewInvoice
      <4>3. QED
        BY <4>1, <4>2
    <3>6. QED
      BY <1>3, <1>4, <3>1, <3>2, <3>5
  <2>3. QED
    BY <1>2, <2>1, <2>2 DEF InvoiceSound, NewInvoice, InvoiceTaken, Target
<1>13. QED
  BY <1>6, <1>7, <1>8, <1>9, <1>10, <1>11, <1>12 DEF ReqInv

LEMMA CommitInv ==
  ASSUME IInv, NEW r \in Req, Commit(r)
  PROVE  IInv'
<1>1. TypeOK /\ ReqInv(r) /\ pc[r] = "commit" /\ Target(r) \in Order /\ ~DanglingItem(r)
  BY InputTypes DEF IInv, Commit
<1>2. /\ order' = [order EXCEPT ![Target(r)] = Final(r)]
      /\ stock' = [s \in Sku |-> IF lock[s] = r THEN stock[s] + Delta(r, s) ELSE stock[s]]
      /\ UNCHANGED <<skuState, productOf, listed, in, seen, next, todo>>
      /\ pc' = [pc EXCEPT ![r] = "done"]
  BY DEF Commit, Goto
<1>3. Final(r) \in Row
  <2>1. CASE in[r].op = "create"
    BY <1>1, <2>1, FinalCreate DEF TypeOK
  <2>2. CASE in[r].op # "create"
    BY <1>1, <2>2, FinalUpdate
  <2>3. QED
    BY <2>1, <2>2
<1>4. TypeOK'
  <2>1. order' \in [Order -> Row]
    BY <1>1, <1>2, <1>3 DEF TypeOK
  <2>2. stock' \in [Sku -> Nat]
    <3>1. ASSUME NEW s \in Sku
          PROVE  (IF lock[s] = r THEN stock[s] + Delta(r, s) ELSE stock[s]) \in Nat
      <4>1. stock[s] \in Nat /\ Delta(r, s) \in Int
        BY <1>1, DeltaType DEF TypeOK
      <4>2. lock[s] = r => stock[s] + Delta(r, s) >= 0
        BY <1>1 DEF ReqInv, LocksSound
      <4>3. QED
        BY <4>1, <4>2
    <3>2. QED
      BY <1>2, <3>1
  <2>3. lock' \in [Lockable -> Req \cup {None}]
    BY <1>1, UnlockedLocks DEF Commit
  <2>4. reply' \in [Req -> [answer: Answer \cup {"none"}, order: Order \cup {None}]]
    BY <1>1 DEF TypeOK, Commit, Answer
  <2>5. pc' \in [Req -> Label]
    BY <1>1, <1>2 DEF TypeOK, Label
  <2>6. QED
    BY <1>1, <1>2, <2>1, <2>2, <2>3, <2>4, <2>5 DEF TypeOK
<1>5. ItemsSound'
  <2> SUFFICES ASSUME NEW o \in Order, NEW s \in Sku, skuState[s] = "gone"
               PROVE  order'[o].items[s] = 0
    BY <1>2 DEF ItemsSound
  <2>1. order[o].items[s] = 0 /\ order[Target(r)].items[s] = 0
    BY <1>1 DEF IInv, ItemsSound
  <2>2. CASE o # Target(r)
    BY <1>1, <1>2, <2>1, <2>2 DEF TypeOK
  <2>3. CASE o = Target(r) /\ WritesItems(r)
    <3>1. next[r].items[s] \in Nat /\ ~(next[r].items[s] > 0)
      BY <1>1, <2>3 DEF TypeOK, Row, Cart, DanglingItem
    <3>2. QED
      BY <1>1, <1>2, <2>3, <3>1 DEF TypeOK, Final
  <2>4. CASE o = Target(r) /\ ~WritesItems(r)
    <3>1. Final(r) = [next[r] EXCEPT !.items = order[Target(r)].items] /\ next[r] \in Row
      BY <1>1, <2>4 DEF Final, TypeOK
    <3>2. Final(r).items = order[Target(r)].items
      BY <3>1 DEF Row
    <3>3. QED
      BY <1>1, <1>2, <2>1, <2>4, <3>2 DEF TypeOK
  <2>5. QED
    BY <2>2, <2>3, <2>4
<1>6. ReqInv(r)'
  <2>1. pc'[r] = "done"
    BY <1>1, <1>2 DEF TypeOK
  <2>2. \A s \in Sku : lock'[s] # r
    BY <1>1, UnlockedLocks DEF Commit, Lockable
  <2>3. \A x \in Lockable : lock'[x] # r
    BY <1>1, UnlockedLocks DEF Commit
  <2>4. QED
    BY <2>1, <2>2, <2>3 DEF ReqInv, OwnPath, LocksSound, LoopSound, SnapshotSound, CreateSound,
       InvoiceSound, Writing, Planned, Claimed
<1>7. \A q \in Req : ReqInv(q)'
  BY <1>6, CommitOthers
<1>8. QED
  BY <1>4, <1>5, <1>7 DEF IInv

-----------------------------------------------------------------------------
(* The catalog's transactions respect the locks *)

LEMMA CatalogStep ==
  ASSUME IInv,
         UNCHANGED <<lock, pc, in, seen, next, todo, reply>>,
         TypeOK', ItemsSound',
         \A s \in Sku : lock[s] # None => stock'[s] = stock[s] /\ skuState'[s] = skuState[s],
         \A s \in Sku : skuState[s] = "gone" => skuState'[s] = "gone",
         \A o \in Order : /\ order'[o] = [order[o] EXCEPT !.items = order'[o].items]
                          /\ \A s \in Sku : skuState'[s] # "gone" =>
                               order'[o].items[s] = order[o].items[s]
  PROVE  IInv'
<1> SUFFICES ASSUME NEW q \in Req PROVE ReqInv(q)'
  BY DEF IInv
<1>1. TypeOK /\ ReqInv(q) /\ in[q].order \in Order /\ q # None
  BY InputTypes, NoneNotARequest DEF IInv
<1>2. \A o \in Order :
        /\ order'[o].status = order[o].status /\ order'[o].version = order[o].version
        /\ order'[o].key = order[o].key /\ order'[o].invoice = order[o].invoice
        /\ \A items : [order'[o] EXCEPT !.items = items] = [order[o] EXCEPT !.items = items]
  BY <1>1 DEF TypeOK, Row
<1>3. OwnPath(q)'
  BY <1>1 DEF ReqInv, OwnPath
<1>4. LocksSound(q)'
  BY <1>1 DEF ReqInv, LocksSound, Delta
<1>5. LoopSound(q)'
  BY <1>1 DEF ReqInv, LoopSound, Delta, IsNext, RankOf
<1>6. SnapshotSound(q)'
  BY <1>1, <1>2, ZenonT(40) DEF ReqInv, SnapshotSound
<1>7. CreateSound(q)'
  BY <1>1, <1>2 DEF ReqInv, CreateSound, KeyTaken, Order
<1>8. InvoiceSound(q)'
  BY <1>1, <1>2 DEF ReqInv, InvoiceSound, NewInvoice, InvoiceTaken, Target
<1>9. QED
  BY <1>3, <1>4, <1>5, <1>6, <1>7, <1>8 DEF ReqInv

LEMMA CatalogInv ==
  ASSUME IInv, Catalog
  PROVE  IInv'
<1> DEFINE Kept == \A o \in Order : order[o] = [order[o] EXCEPT !.items = order[o].items]
<1>1. TypeOK /\ ItemsSound /\ Kept
  BY DEF IInv, TypeOK, Row
<1>2. ASSUME NEW s \in Sku, SetStock(s) PROVE IInv'
  <2>1. TypeOK'
    BY <1>1, <1>2, CatalogAssumption DEF SetStock, TypeOK, catalogRest
  <2>2. ItemsSound'
    BY <1>1, <1>2 DEF SetStock, ItemsSound, catalogRest
  <2>3. \A u \in Sku : lock[u] # None => stock'[u] = stock[u]
    BY <1>1, <1>2 DEF SetStock, TypeOK
  <2>4. QED
    BY <1>1, <1>2, <2>1, <2>2, <2>3, CatalogStep DEF SetStock, catalogRest
<1>3. ASSUME NEW s \in Sku, SoftDeleteSku(s) PROVE IInv'
  <2>1. TypeOK'
    BY <1>1, <1>3 DEF SoftDeleteSku, TypeOK, catalogRest
  <2>2. ItemsSound'
    BY <1>1, <1>3 DEF SoftDeleteSku, TypeOK, ItemsSound, catalogRest
  <2>3. \A u \in Sku : /\ lock[u] # None => skuState'[u] = skuState[u]
                       /\ skuState[u] = "gone" <=> skuState'[u] = "gone"
    BY <1>1, <1>3 DEF SoftDeleteSku, TypeOK
  <2>4. QED
    BY <1>1, <1>3, <2>1, <2>2, <2>3, CatalogStep DEF SoftDeleteSku, catalogRest
<1>4. ASSUME NEW s \in Sku, RestoreSku(s) PROVE IInv'
  <2>1. TypeOK'
    BY <1>1, <1>4, CatalogAssumption DEF RestoreSku, TypeOK, catalogRest
  <2>2. ItemsSound'
    BY <1>1, <1>4 DEF RestoreSku, TypeOK, ItemsSound, catalogRest
  <2>3. \A u \in Sku : /\ lock[u] # None => skuState'[u] = skuState[u] /\ stock'[u] = stock[u]
                       /\ skuState[u] = "gone" <=> skuState'[u] = "gone"
    BY <1>1, <1>4 DEF RestoreSku, TypeOK
  <2>4. QED
    BY <1>1, <1>4, <2>1, <2>2, <2>3, CatalogStep DEF RestoreSku, catalogRest
<1>5. ASSUME NEW s \in Sku, ForceDeleteSku(s) PROVE IInv'
  <2>1. \A o \in Order : order'[o] = [order[o] EXCEPT !.items[s] = 0]
    BY <1>5 DEF ForceDeleteSku
  <2>2. \A o \in Order : order[o] \in Row /\ order[o].items \in [Sku -> Nat]
    BY <1>1 DEF TypeOK, Row, Cart
  <2>3. \A o \in Order :
          /\ order'[o] \in Row
          /\ order'[o] = [order[o] EXCEPT !.items = order'[o].items]
          /\ order'[o].items[s] = 0
          /\ \A u \in Sku \ {s} : order'[o].items[u] = order[o].items[u]
    <3> SUFFICES ASSUME NEW o \in Order
                 PROVE  /\ order'[o] \in Row
                        /\ order'[o] = [order[o] EXCEPT !.items = order'[o].items]
                        /\ order'[o].items[s] = 0
                        /\ \A u \in Sku \ {s} : order'[o].items[u] = order[o].items[u]
      OBVIOUS
    <3> DEFINE items == [order[o].items EXCEPT ![s] = 0]
    <3>1. /\ items \in Cart /\ items[s] = 0
          /\ \A u \in Sku \ {s} : items[u] = order[o].items[u]
      BY <2>2 DEF Cart
    <3>2. order'[o] = [order[o] EXCEPT !.items = items]
      BY <2>1
    <3> HIDE DEF items
    <3>3. order'[o].items = items /\ order'[o] \in Row
      BY <2>2, <3>1, <3>2 DEF Row
    <3>4. QED
      BY <3>1, <3>2, <3>3
  <2>4. TypeOK'
    BY <1>1, <1>5, <2>3 DEF ForceDeleteSku, TypeOK
  <2>5. skuState'[s] = "gone" /\ \A u \in Sku \ {s} : skuState'[u] = skuState[u]
    BY <1>1, <1>5 DEF ForceDeleteSku, TypeOK
  <2>6. \A u \in Sku \ {s} : stock'[u] = stock[u]
    BY <1>1, <1>5 DEF ForceDeleteSku, TypeOK
  <2>7. ItemsSound'
    <3> SUFFICES ASSUME NEW o \in Order, NEW u \in Sku, skuState'[u] = "gone"
                 PROVE  order'[o].items[u] = 0
      BY DEF ItemsSound
    <3>1. CASE u = s
      BY <2>3, <3>1
    <3>2. CASE u # s
      <4>1. order[o].items[u] = 0
        BY <1>1, <2>5, <3>2 DEF ItemsSound
      <4>2. QED
        BY <2>3, <3>2, <4>1
    <3>3. QED
      BY <3>1, <3>2
  <2>8. \A o \in Order, u \in Sku : skuState'[u] # "gone" =>
          order'[o].items[u] = order[o].items[u]
    BY <2>3, <2>5
  <2>9. \A u \in Sku : /\ lock[u] # None => stock'[u] = stock[u] /\ skuState'[u] = skuState[u]
                       /\ skuState[u] = "gone" => skuState'[u] = "gone"
    BY <1>5, <2>5, <2>6 DEF ForceDeleteSku
  <2>10. QED
    BY <1>5, <2>3, <2>4, <2>7, <2>8, <2>9, CatalogStep DEF ForceDeleteSku
<1>6. ASSUME NEW p \in Product, ToggleProduct(p) PROVE IInv'
  <2>1. TypeOK'
    BY <1>1, <1>6 DEF ToggleProduct, TypeOK, catalogRest
  <2>2. ItemsSound'
    BY <1>1, <1>6 DEF ToggleProduct, ItemsSound, catalogRest
  <2>3. QED
    BY <1>1, <1>6, <2>1, <2>2, CatalogStep DEF ToggleProduct, catalogRest
<1>7. QED
  BY <1>2, <1>3, <1>4, <1>5, <1>6 DEF Catalog

-----------------------------------------------------------------------------
(* The invariant, and the type invariant *)

LEMMA InitInv == Init => IInv
<1> SUFFICES ASSUME Init PROVE IInv
  OBVIOUS
<1>1. TypeOK
  BY InitTypeOK
<1>2. ItemsSound
  BY DEF Init, ItemsSound
<1>3. ASSUME NEW r \in Req PROVE ReqInv(r)
  <2>1. pc[r] = "idle" /\ \A x \in Lockable : lock[x] # r
    BY NoneNotARequest DEF Init
  <2>2. \A s \in Sku : s \in Lockable
    BY DEF Lockable
  <2>3. order[r].status = "absent"
    BY DEF Init, Order, AbsentRow
  <2>4. QED
    BY <2>1, <2>2, <2>3 DEF ReqInv, OwnPath, LocksSound, LoopSound, SnapshotSound, CreateSound,
       InvoiceSound, Writing, Planned, Claimed
<1>4. QED
  BY <1>1, <1>2, <1>3 DEF IInv

LEMMA StepInv ==
  ASSUME IInv, NEW r \in Req, Step(r)
  PROVE  IInv'
<1>1. CASE FindByKey(r) \/ FindSkus(r)
  BY <1>1, FindByKeyInv, FindSkusInv
<1>2. CASE Validate(r) \/ ReadRow(r) \/ ReadItems(r) \/ CheckStock(r)
  BY <1>2, ValidateInv, ReadRowInv, ReadItemsInv, CheckStockInv
<1>3. CASE \E s \in Sku : ChangeStock(r, s) \/ RefuseStock(r, s) \/ TouchProduct(r, s)
  <2>1. ASSUME NEW s \in Sku, RefuseStock(r, s) PROVE IInv'
    BY <2>1, FinishInv DEF RefuseStock, Answer
  <2>2. QED
    BY <1>3, <2>1, ChangeStockInv, TouchProductInv
<1>4. CASE InsertOrder(r) \/ UniqueViolation(r) \/ FindAgain(r)
  BY <1>4, InsertOrderInv, UniqueViolationInv, FindAgainInv
<1>5. CASE UpdateOrder(r) \/ ClaimInvoice(r) \/ Commit(r)
  BY <1>5, UpdateOrderInv, ClaimInvoiceInv, CommitInv
<1>6. CASE RefuseItems(r) \/ DeadlockVictim(r)
  BY <1>6, FinishInv DEF RefuseItems, DeadlockVictim, Answer
<1>7. QED
  BY <1>1, <1>2, <1>3, <1>4, <1>5, <1>6 DEF Step

LEMMA NextInv ==
  ASSUME IInv, [Next]_vars
  PROVE  IInv'
<1>1. ASSUME NEW r \in Req, Arrive(r) \/ Step(r) \/ RefuseInput(r) \/ Fail(r)
      PROVE  IInv'
  <2>1. CASE Arrive(r) \/ Step(r)
    BY <2>1, ArriveInv, StepInv
  <2>2. CASE RefuseInput(r) \/ Fail(r)
    BY <2>2, FinishInv DEF RefuseInput, Fail, Answer
  <2>3. QED
    BY <1>1, <2>1, <2>2
<1>2. CASE Catalog
  BY <1>2, CatalogInv
<1>3. CASE UNCHANGED vars
  <2>1. UNCHANGED <<stock, skuState, productOf, listed, order, lock, in, seen, next, todo, reply, pc>>
    BY <1>3 DEF vars
  <2>2. TypeOK' /\ ItemsSound'
    BY <2>1 DEF IInv, TypeOK, ItemsSound
  <2>3. \A o \in Order : order'[o] = [order[o] EXCEPT !.items = order'[o].items]
    BY <2>1 DEF IInv, TypeOK, Row
  <2>4. QED
    BY <2>1, <2>2, <2>3, CatalogStep
<1>4. QED
  BY <1>1, <1>2, <1>3 DEF Next

\* Whatever the number of requests and the order of their steps: the locks, the
\* snapshots and the claims of every open transaction stay sound (IInv).
THEOREM Invariance == Spec => []IInv
<1>1. Init => IInv
  BY InitInv
<1>2. IInv /\ [Next]_vars => IInv'
  BY NextInv
<1>3. QED
  BY <1>1, <1>2, PTL DEF Spec

\* Every variable keeps its type; in particular no stock is ever negative.
THEOREM TypeCorrect == Spec => []TypeOK
<1>1. IInv => TypeOK
  BY DEF IInv
<1>2. QED
  BY <1>1, Invariance, PTL

\* Whoever waits for a row or an index entry waits for a transaction of another request
\* that is still writing: DeadlockVictim, commits and failures can end every wait.
WaitsSound ==
  \A r \in Req : /\ Wanted(r) \subseteq Lockable
                 /\ \A q \in WaitsFor(r) : q \in Req \ {r} /\ pc[q] \in Writing

\* No request of the order service ends, fails, is refused or is aborted with a lock in
\* its hands: the safety half of EveryRequestAnswered.
THEOREM NoLockLeftBehind == Spec => []WaitsSound
<1>1. ASSUME IInv, NEW r \in Req
      PROVE  /\ Wanted(r) \subseteq Lockable
             /\ \A q \in WaitsFor(r) : q \in Req \ {r} /\ pc[q] \in Writing
  <2>1. TypeOK /\ ReqInv(r)
    BY <1>1 DEF IInv
  <2>2. in[r].order \in Order /\ in[r].key \in Key
    BY <2>1, InputTypes DEF Input
  <2>3. pc[r] = "invoice" => next[r].invoice \in Invoice
    BY <2>1 DEF ReqInv, InvoiceSound, NewInvoice, TypeOK, Row
  <2>4. \A s \in Sku : s \in Lockable /\ productOf[s] \in Lockable
    BY <2>1 DEF TypeOK, Lockable
  <2>5. Wanted(r) \subseteq Lockable
    BY <2>2, <2>3, <2>4 DEF Wanted, Lockable
  <2>6. ASSUME NEW q \in WaitsFor(r)
        PROVE  q \in Req \ {r} /\ pc[q] \in Writing
    <3>1. PICK x \in Lockable : q = lock[x] /\ q # None /\ q # r
      BY <2>5, <2>6 DEF WaitsFor
    <3>2. q \in Req
      BY <2>1, <3>1 DEF TypeOK
    <3>3. LocksSound(q)
      BY <1>1, <3>2 DEF IInv, ReqInv
    <3>4. QED
      BY <3>1, <3>2, <3>3 DEF LocksSound
  <2>7. QED
    BY <2>5, <2>6
<1>2. IInv => WaitsSound
  BY <1>1 DEF WaitsSound
<1>3. QED
  BY <1>2, Invariance, PTL

-----------------------------------------------------------------------------
(* Which steps change orders and stock *)

\* Every step of a request but its commit leaves orders and stock alone.
LEMMA QuietSteps ==
  ASSUME NEW r \in Req, Arrive(r) \/ Step(r) \/ RefuseInput(r) \/ Fail(r), ~Commit(r)
  PROVE  UNCHANGED <<stock, skuState, order, in>>
<1>1. CASE Arrive(r) \/ RefuseInput(r) \/ Fail(r)
  BY <1>1 DEF Arrive, RefuseInput, Fail, Finish, catalog
<1>2. CASE FindByKey(r) \/ FindSkus(r)
  BY <1>2 DEF FindByKey, FindSkus, AnswerFromKey, Finish, catalog
<1>3. CASE Validate(r) \/ ReadRow(r)
  BY <1>3 DEF Validate, ReadRow, Finish, catalog
<1>4. CASE ReadItems(r) \/ CheckStock(r)
  BY <1>4 DEF ReadItems, CheckStock, Finish, catalog
<1>5. CASE \E s \in Sku : ChangeStock(r, s) \/ RefuseStock(r, s) \/ TouchProduct(r, s)
  BY <1>5 DEF ChangeStock, RefuseStock, TouchProduct, Finish, catalog
<1>6. CASE InsertOrder(r) \/ UniqueViolation(r) \/ FindAgain(r)
  BY <1>6 DEF InsertOrder, UniqueViolation, FindAgain, AnswerFromKey, Finish, catalog
<1>7. CASE UpdateOrder(r) \/ ClaimInvoice(r)
  BY <1>7 DEF UpdateOrder, ClaimInvoice, Finish, catalog
<1>8. CASE RefuseItems(r) \/ DeadlockVictim(r)
  BY <1>8 DEF RefuseItems, DeadlockVictim, Finish, catalog
<1>9. QED
  BY <1>1, <1>2, <1>3, <1>4, <1>5, <1>6, <1>7, <1>8 DEF Step

\* A commit writes one order row.
LEMMA CommitWrites ==
  ASSUME IInv, NEW r \in Req, Commit(r)
  PROVE  /\ Target(r) \in Order
         /\ order' \in [Order -> Row]
         /\ order'[Target(r)] = Final(r)
         /\ \A o \in Order \ {Target(r)} : order'[o] = order[o]
BY CommitInv, InputTypes DEF IInv, TypeOK, Commit

\* A force-deleted SKU disappears from the items, and nothing else changes.
LEMMA ForceDeleteWrites ==
  ASSUME IInv, NEW s \in Sku, ForceDeleteSku(s), NEW o \in Order
  PROVE  /\ order'[o] = [order[o] EXCEPT !.items = order'[o].items]
         /\ order'[o].items = [order[o].items EXCEPT ![s] = 0]
         /\ order'[o].status = order[o].status /\ order'[o].version = order[o].version
         /\ order'[o].marks = order[o].marks /\ order'[o].invoice = order[o].invoice
         /\ order'[o].key = order[o].key /\ order'[o].payload = order[o].payload
<1> DEFINE items == [order[o].items EXCEPT ![s] = 0]
<1>1. order[o] \in Row
  BY DEF IInv, TypeOK
<1>2. order'[o] = [order[o] EXCEPT !.items = items]
  BY DEF ForceDeleteSku
<1> HIDE DEF items
<1>3. order'[o].items = items
  BY <1>1, <1>2 DEF Row
<1>4. QED
  BY <1>1, <1>2, <1>3 DEF Row, items

-----------------------------------------------------------------------------
(* The inventory ledger *)

\* Whatever a commit changes in its order row, stock changes by the difference.
LEMMA CommitBalances ==
  ASSUME IInv, NEW r \in Req, Commit(r), NEW s \in Sku
  PROVE  stock'[s] = stock[s] + Reserved(order[Target(r)])[s] - Reserved(Final(r))[s]
<1> DEFINE o == Target(r)
<1>1. TypeOK /\ ReqInv(r) /\ ItemsSound /\ pc[r] = "commit" /\ ~DanglingItem(r) /\ o \in Order
  BY InputTypes DEF IInv, Commit
<1>2. stock'[s] = IF lock[s] = r THEN stock[s] + Delta(r, s) ELSE stock[s]
  BY DEF Commit
<1>3. /\ Delta(r, s) = Reserved(seen[r])[s] - Reserved(next[r])[s]
      /\ lock[s] # r => Delta(r, s) = 0
      /\ lock[s] = r => skuState[s] # "gone"
  BY <1>1 DEF ReqInv, LoopSound, LocksSound, Writing, Delta
<1>4. /\ seen[r] \in Row /\ next[r] \in Row /\ order[o] \in Row
      /\ Final(r) \in Row /\ stock[s] \in Nat
  BY <1>1, FinalUpdate, FinalCreate, SMTT(30) DEF TypeOK
<1>5. /\ Reserved(seen[r])[s] \in Nat /\ Reserved(next[r])[s] \in Nat
      /\ Reserved(order[o])[s] \in Nat /\ Reserved(Final(r))[s] \in Nat
  BY <1>4, ReservedType
<1>6. CASE skuState[s] = "gone"
  <2>1. order[o].items[s] = 0 /\ Final(r).items[s] = 0
    <3>1. order[o].items[s] = 0
      BY <1>1, <1>6 DEF ItemsSound
    <3>2. CASE WritesItems(r)
      <4>1. next[r].items[s] \in Nat /\ ~(next[r].items[s] > 0)
        BY <1>1, <1>4, <1>6, <3>2 DEF DanglingItem, Row, Cart
      <4>2. QED
        BY <3>1, <3>2, <4>1 DEF Final
    <3>3. CASE ~WritesItems(r)
      BY <1>4, <3>1, <3>3 DEF Final, Row
    <3>4. QED
      BY <3>1, <3>2, <3>3
  <2>2. Reserved(order[o])[s] = 0 /\ Reserved(Final(r))[s] = 0
    BY <2>1 DEF Reserved, NoItems
  <2>3. QED
    BY <1>2, <1>3, <1>4, <1>6, <2>2
<1>7. CASE skuState[s] # "gone"
  <2>1. Reserved(order[o])[s] = Reserved(seen[r])[s]
    <3>1. CASE in[r].op = "create"
      BY <1>1, <3>1, FinalCreate DEF Reserved, AbsentRow
    <3>2. CASE in[r].op # "create"
      <4>1. o = in[r].order
        BY <3>2 DEF Target
      <4>2. \A u \in Sku : skuState[u] # "gone" =>
              order[in[r].order].items[u] = seen[r].items[u]
        BY <1>1, <3>2, FinalUpdate
      <4>3. order[in[r].order].status = seen[r].status
        BY <1>1, <3>2, FinalUpdate
      <4>4. QED
        BY <1>7, <4>1, <4>2, <4>3 DEF Reserved
    <3>3. QED
      BY <3>1, <3>2
  <2>2. Reserved(Final(r))[s] = Reserved(next[r])[s]
    <3>1. CASE WritesItems(r)
      BY <3>1 DEF Final
    <3>2. CASE ~WritesItems(r)
      <4>1. in[r].op # "create" /\ "items" \notin in[r].has
        BY <3>2 DEF WritesItems
      <4>2. next[r] = Proposed(in[r], seen[r])
        BY <1>1, <4>1, FinalUpdate
      <4>3. \A u \in Sku : skuState[u] # "gone" =>
              order[in[r].order].items[u] = seen[r].items[u]
        BY <1>1, <4>1, FinalUpdate
      <4>4. next[r].items = seen[r].items
        BY <1>1, <1>4, <4>1, <4>2, InputTypes, ProposedType
      <4>5. Final(r).items = order[in[r].order].items /\ Final(r).status = next[r].status
        BY <1>4, <3>2, <4>1 DEF Final, Row, Target
      <4>6. QED
        BY <1>7, <4>3, <4>4, <4>5 DEF Reserved
    <3>3. QED
      BY <3>1, <3>2
  <2>3. QED
    BY <1>2, <1>3, <1>4, <1>5, <2>1, <2>2
<1>8. QED
  BY <1>6, <1>7

\* What a commit does to the status of an order that exists, as the life cycle
\* allows it: closed orders stay as they are.
LEMMA CommitStatus ==
  ASSUME IInv, NEW r \in Req, Commit(r)
  PROVE  LET o == Target(r)
         IN  /\ Final(r).status \in Status
             /\ in[r].op = "create" <=> order[o].status = "absent"
             /\ order[o].status # "absent" =>
                  isOrderStatusTransitionAllowed(order[o].status, Final(r).status)
             /\ order[o].status \in Released => Final(r).status = order[o].status
<1>1. pc[r] = "commit" /\ TypeOK /\ Target(r) \in Order
  BY InputTypes DEF Commit, IInv
<1>2. CASE in[r].op = "create"
  BY <1>1, <1>2, FinalCreate DEF Released, Status
<1>3. CASE in[r].op # "create"
  <2>1. /\ order[Target(r)].status # "absent"
        /\ isOrderStatusTransitionAllowed(order[Target(r)].status, Final(r).status)
    BY <1>1, <1>3, FinalUpdate
  <2>2. Final(r) \in Row /\ Final(r).status # "absent"
    BY <1>1, <1>3, FinalUpdate
  <2>3. Final(r).status \in Status
    BY <2>2 DEF Row
  <2>4. order[Target(r)].status \in Released => Final(r).status = order[Target(r)].status
    BY <2>1 DEF isOrderStatusTransitionAllowed, AllowedTransitions, Released
  <2>5. QED
    BY <1>3, <2>1, <2>3, <2>4
<1>4. QED
  BY <1>2, <1>3

\* The state functions the ledger's variables stand for.
HeldNow == [o \in Order |-> Reserved(order[o])]
ClosedNow == {o \in Order : order[o].status \in Released}

LEMMA LedgerInit == Init => Ledger!Init
<1> SUFFICES ASSUME Init PROVE Ledger!Init
  OBVIOUS
<1>1. TypeOK
  BY InitTypeOK
<1>2. HeldNow \in [Order -> [Sku -> Nat]]
  BY <1>1, ReservedType DEF TypeOK, HeldNow
<1>3. \A o \in ClosedNow : HeldNow[o] = NoItems
  BY DEF HeldNow, ClosedNow, Reserved
<1>4. stock \in [Sku -> Nat]
  BY <1>1 DEF TypeOK
<1>5. QED
  BY <1>2, <1>3, <1>4 DEF Ledger!Init, Ledger!Nothing, NoItems, HeldNow, ClosedNow

LEMMA LedgerQuiet ==
  ASSUME UNCHANGED <<stock, order>>
  PROVE  UNCHANGED Ledger!vars
BY DEF Ledger!vars, Reserved

LEMMA LedgerMove ==
  ASSUME NEW o \in Order, Ledger!Rebook(o) \/ Ledger!Close(o)
  PROVE  Ledger!Next
BY DEF Ledger!Next

LEMMA LedgerCommit ==
  ASSUME IInv, NEW r \in Req, Commit(r)
  PROVE  [Ledger!Next]_Ledger!vars
<1>0. PICK o \in Order : o = Target(r)
  BY CommitWrites
<1>1. /\ o \in Order /\ order' \in [Order -> Row] /\ order'[o] = Final(r)
      /\ \A q \in Order \ {o} : order'[q] = order[q]
  BY <1>0, CommitWrites
<1>2. TypeOK /\ TypeOK'
  BY CommitInv DEF IInv
<1>3. /\ \A s \in Sku : stock'[s] = stock[s] + HeldNow[o][s] - HeldNow'[o][s]
      /\ stock' = [s \in Sku |-> stock'[s]] /\ \A s \in Sku : stock'[s] \in Nat
  BY <1>0, <1>1, <1>2, CommitBalances DEF HeldNow, TypeOK
<1>4. HeldNow \in [Order -> [Sku -> Nat]] /\ HeldNow' \in [Order -> [Sku -> Nat]]
  BY <1>2, ReservedType DEF TypeOK, HeldNow
<1>5. \A q \in Order \ {o} : HeldNow'[q] = HeldNow[q]
  BY <1>1 DEF HeldNow, Reserved
<1>6. HeldNow' = [HeldNow EXCEPT ![o] = HeldNow'[o]]
  BY <1>1, <1>4, <1>5
<1>7. /\ order[o].status \in Released => Final(r).status = order[o].status
      /\ Final(r).status \in Status
  BY <1>0, CommitStatus
<1>8. CASE order[o].status \in Released
  <2>1. HeldNow[o] = NoItems /\ HeldNow'[o] = NoItems
    BY <1>1, <1>7, <1>8 DEF HeldNow, Reserved
  <2>2. HeldNow' = HeldNow
    BY <1>1, <1>4, <1>6, <2>1
  <2>3. stock' = stock
    BY <1>2, <1>3, <2>1 DEF TypeOK, NoItems
  <2>4. ClosedNow' = ClosedNow
    BY <1>1, <1>7, <1>8 DEF ClosedNow
  <2>5. QED
    BY <2>2, <2>3, <2>4 DEF Ledger!vars, HeldNow, ClosedNow
<1>9. CASE order[o].status \notin Released /\ Final(r).status \in Released
  <2>1. HeldNow'[o] = NoItems
    BY <1>1, <1>9 DEF HeldNow, Reserved
  <2>2. stock' = [s \in Sku |-> stock[s] + HeldNow[o][s]]
    <3>1. \A s \in Sku : stock'[s] = stock[s] + HeldNow[o][s]
      BY <1>1, <1>2, <1>3, <1>4, <2>1 DEF NoItems, TypeOK
    <3>2. QED
      BY <1>3, <3>1
  <2>3. o \notin ClosedNow /\ ClosedNow' = ClosedNow \cup {o}
    BY <1>1, <1>9 DEF ClosedNow
  <2>4. HeldNow' = [HeldNow EXCEPT ![o] = NoItems]
    BY <1>6, <2>1
  <2>5. Ledger!Close(o)
    BY <2>2, <2>3, <2>4 DEF Ledger!Close, Ledger!Nothing, NoItems, HeldNow, ClosedNow
  <2>6. QED
    BY <1>1, <2>5, LedgerMove
<1>10. CASE order[o].status \notin Released /\ Final(r).status \notin Released
  <2>1. o \notin ClosedNow /\ ClosedNow' = ClosedNow
    BY <1>1, <1>10 DEF ClosedNow
  <2>2. HeldNow'[o] \in [Sku -> Nat]
    BY <1>1, <1>4
  <2>3. stock' = [s \in Sku |-> stock[s] + HeldNow[o][s] - HeldNow'[o][s]]
    BY <1>3
  <2>4. \A s \in Sku : stock'[s] >= 0
    BY <1>3
  <2>5. Ledger!Rebook(o)
    BY <1>6, <2>1, <2>2, <2>3, <2>4 DEF Ledger!Rebook, HeldNow, ClosedNow
  <2>6. QED
    BY <1>1, <2>5, LedgerMove
<1>11. QED
  BY <1>8, <1>9, <1>10

LEMMA LedgerCatalog ==
  ASSUME IInv, Catalog
  PROVE  [Ledger!Next]_Ledger!vars
<1>1. TypeOK /\ TypeOK'
  BY CatalogInv DEF IInv
<1>2. ASSUME NEW s \in Sku, SetStock(s) \/ RestoreSku(s) PROVE Ledger!Recount(s)
  <2>1. /\ order' = order /\ stock' = [stock EXCEPT ![s] = stock'[s]] /\ stock'[s] \in Nat
    BY <1>1, <1>2, CatalogAssumption DEF SetStock, RestoreSku, TypeOK, catalogRest
  <2>2. QED
    BY <1>2, <2>1 DEF Ledger!Recount, Reserved, SetStock, RestoreSku
<1>3. ASSUME NEW s \in Sku, ForceDeleteSku(s) PROVE Ledger!Forget(s)
  <2>1. stock' = [stock EXCEPT ![s] = 0]
    BY <1>3 DEF ForceDeleteSku
  <2>2. ASSUME NEW o \in Order
        PROVE  Reserved(order'[o]) = [Reserved(order[o]) EXCEPT ![s] = 0]
    <3>1. /\ order'[o].items = [order[o].items EXCEPT ![s] = 0]
          /\ order'[o].status = order[o].status
      BY <1>3, ForceDeleteWrites
    <3>2. [NoItems EXCEPT ![s] = 0] = NoItems
      BY DEF NoItems
    <3>3. QED
      BY <3>1, <3>2 DEF Reserved
  <2>3. ClosedNow' = ClosedNow
    BY <1>3, ForceDeleteWrites DEF ClosedNow
  <2>4. HeldNow' = [o \in Order |-> [HeldNow[o] EXCEPT ![s] = 0]]
    BY <2>2 DEF HeldNow
  <2>5. QED
    BY <1>3, <2>1, <2>3, <2>4 DEF Ledger!Forget, HeldNow, ClosedNow, ForceDeleteSku
<1>4. ASSUME NEW s \in Sku, SoftDeleteSku(s) PROVE UNCHANGED Ledger!vars
  BY <1>4, LedgerQuiet DEF SoftDeleteSku, catalogRest
<1>5. ASSUME NEW p \in Product, ToggleProduct(p) PROVE UNCHANGED Ledger!vars
  BY <1>5, LedgerQuiet DEF ToggleProduct, catalogRest
<1>6. ASSUME NEW s \in Sku, SetStock(s) \/ SoftDeleteSku(s) \/ RestoreSku(s) \/ ForceDeleteSku(s)
      PROVE  [Ledger!Next]_Ledger!vars
  BY <1>2, <1>3, <1>4, <1>6 DEF Ledger!Next
<1>7. QED
  BY <1>5, <1>6 DEF Catalog

LEMMA LedgerNext ==
  ASSUME IInv, [Next]_vars
  PROVE  [Ledger!Next]_Ledger!vars
<1>1. ASSUME NEW r \in Req, Arrive(r) \/ Step(r) \/ RefuseInput(r) \/ Fail(r)
      PROVE  [Ledger!Next]_Ledger!vars
  <2>1. CASE Commit(r)
    BY <2>1, LedgerCommit
  <2>2. CASE ~Commit(r)
    BY <1>1, <2>2, QuietSteps, LedgerQuiet
  <2>3. QED
    BY <2>1, <2>2
<1>2. CASE Catalog
  BY <1>2, LedgerCatalog
<1>3. CASE UNCHANGED vars
  BY <1>3, LedgerQuiet DEF vars
<1>4. QED
  BY <1>1, <1>2, <1>3 DEF Next

\* The order code implements the inventory ledger: however requests, rollbacks
\* and catalog edits interleave, a commit moves exactly the units its order
\* gains or gives back, and a closed order never moves any again.
THEOREM LedgerImplemented == Spec => LedgerSpec
<1>1. Init => Ledger!Init
  BY LedgerInit
<1>2. IInv /\ [Next]_vars => [Ledger!Next]_Ledger!vars
  BY LedgerNext
<1>3. QED
  BY <1>1, <1>2, Invariance, PTL DEF Spec, LedgerSpec, Ledger!Spec

-----------------------------------------------------------------------------
(* What a request is answered *)

\* An answer given without a commit; the reuse of a key is checked against the
\* committed order that has it.
QuietAnswer(r) ==
  \/ UNCHANGED reply
  \/ \E a \in Answer \ {"created", "updated"}, o \in Order \cup {None} :
       /\ reply' = [reply EXCEPT ![r] = [answer |-> a, order |-> o]]
       /\ pc' = [pc EXCEPT ![r] = "done"]
       /\ a = "reused" => /\ o \in Order /\ order[o].key = in[r].key
                          /\ order[o].payload = PayloadOf(in[r])

LEMMA FinishAnswer ==
  ASSUME NEW r \in Req, NEW a \in Answer \ {"created", "updated", "reused"},
         NEW o \in Order \cup {None}, Finish(r, a, o)
  PROVE  QuietAnswer(r)
BY DEF QuietAnswer, Finish, Goto

LEMMA KeyAnswer ==
  ASSUME NEW r \in Req, NEW o \in Order, order[o].key = in[r].key, AnswerFromKey(r, o)
  PROVE  QuietAnswer(r)
<1> DEFINE a == IF order[o].payload = PayloadOf(in[r]) THEN "reused" ELSE "keyReused"
<1>1. a \in Answer \ {"created", "updated"} /\ (a = "reused" => order[o].payload = PayloadOf(in[r]))
  BY DEF Answer
<1>2. /\ reply' = [reply EXCEPT ![r] = [answer |-> a, order |-> o]]
      /\ pc' = [pc EXCEPT ![r] = "done"]
  BY DEF AnswerFromKey, Finish, Goto
<1> HIDE DEF a
<1>3. QED
  BY <1>1, <1>2 DEF QuietAnswer

LEMMA QuietAnswers ==
  ASSUME TypeOK, NEW r \in Req,
         Arrive(r) \/ Step(r) \/ RefuseInput(r) \/ Fail(r), ~Commit(r)
  PROVE  QuietAnswer(r)
<1> DEFINE Named == \E a \in Answer \ {"created", "updated", "reused"}, o \in Order \cup {None} :
                      Finish(r, a, o)
<1>1. Named => QuietAnswer(r)
  BY FinishAnswer
<1>2. UNCHANGED reply => QuietAnswer(r)
  BY DEF QuietAnswer
<1>3. in[r].order \in Order
  BY InputTypes
<1>4. CASE Arrive(r) \/ ReadRow(r) \/ Validate(r) \/ ReadItems(r)
  BY <1>1, <1>2, <1>4 DEF Arrive, ReadRow, Validate, ReadItems, Answer
<1>5. CASE RefuseInput(r) \/ Fail(r) \/ RefuseItems(r) \/ DeadlockVictim(r)
  BY <1>1, <1>5 DEF RefuseInput, Fail, RefuseItems, DeadlockVictim, Answer
<1>6. CASE FindByKey(r) \/ FindSkus(r) \/ FindAgain(r)
  BY <1>1, <1>2, <1>6, KeyAnswer DEF FindByKey, FindSkus, FindAgain, Answer
<1>7. CASE CheckStock(r)
  BY <1>1, <1>2, <1>3, <1>7 DEF CheckStock, Answer
<1>8. CASE \E s \in Sku : ChangeStock(r, s) \/ RefuseStock(r, s) \/ TouchProduct(r, s)
  BY <1>1, <1>2, <1>8 DEF ChangeStock, RefuseStock, TouchProduct, Answer
<1>9. CASE InsertOrder(r) \/ UniqueViolation(r) \/ UpdateOrder(r) \/ ClaimInvoice(r)
  BY <1>1, <1>2, <1>9 DEF InsertOrder, UniqueViolation, UpdateOrder, ClaimInvoice, Answer
<1>10. QED
  BY <1>4, <1>5, <1>6, <1>7, <1>8, <1>9 DEF Step

\* A step moves one request that is not done.
LEMMA StepsApart ==
  ASSUME TypeOK, NEW r \in Req, Arrive(r) \/ Step(r) \/ RefuseInput(r) \/ Fail(r)
  PROVE  /\ pc[r] # "done"
         /\ \A q \in Req \ {r} : pc'[q] = pc[q] /\ seen'[q] = seen[q] /\ reply'[q] = reply[q]
<1>1. CASE Arrive(r) \/ ReadRow(r) \/ Validate(r)
  BY <1>1 DEF Arrive, ReadRow, Validate, Finish, Goto, TypeOK
<1>2. CASE ReadItems(r)
  BY <1>2 DEF ReadItems, Finish, Goto, TypeOK
<1>3. CASE RefuseInput(r) \/ Fail(r) \/ RefuseItems(r)
  BY <1>3 DEF RefuseInput, Fail, RefuseItems, Finish, Goto, TypeOK
<1>4. CASE DeadlockVictim(r)
  <2>1. WaitsFor(r) # {}
    BY <1>4 DEF DeadlockVictim
  <2>2. pc[r] # "done"
    BY <2>1 DEF WaitsFor, Wanted
  <2>3. QED
    BY <1>4, <2>2 DEF DeadlockVictim, Finish, Goto, TypeOK
<1>5. CASE FindByKey(r) \/ FindSkus(r) \/ FindAgain(r)
  BY <1>5 DEF FindByKey, FindSkus, FindAgain, AnswerFromKey, Finish, Goto, TypeOK
<1>6. CASE CheckStock(r) \/ Commit(r)
  BY <1>6 DEF CheckStock, Commit, Finish, Goto, TypeOK
<1>7. CASE \E s \in Sku : ChangeStock(r, s) \/ RefuseStock(r, s) \/ TouchProduct(r, s)
  BY <1>7 DEF ChangeStock, RefuseStock, TouchProduct, Finish, Goto, TypeOK
<1>8. CASE InsertOrder(r) \/ UniqueViolation(r) \/ UpdateOrder(r) \/ ClaimInvoice(r)
  BY <1>8 DEF InsertOrder, UniqueViolation, UpdateOrder, ClaimInvoice, Finish, Goto, TypeOK
<1>9. QED
  BY <1>1, <1>2, <1>3, <1>4, <1>5, <1>6, <1>7, <1>8 DEF Step

-----------------------------------------------------------------------------
(* Action properties *)

\* Only a commit of an update answers "updated".
LEMMA UpdatedByCommit ==
  ASSUME IInv, [Next]_vars, NEW r \in Req,
         reply[r].answer # "updated", reply'[r].answer = "updated"
  PROVE  Commit(r) /\ in[r].op # "create"
<1>1. TypeOK
  BY DEF IInv
<1>2. ~(Catalog \/ UNCHANGED vars)
  BY DEF Catalog, SetStock, SoftDeleteSku, RestoreSku, ForceDeleteSku, ToggleProduct,
     catalogRest, vars
<1>3. PICK q \in Req : Arrive(q) \/ Step(q) \/ RefuseInput(q) \/ Fail(q)
  BY <1>2 DEF Next
<1>4. q = r
  BY <1>1, <1>3, StepsApart
<1>5. Commit(r)
  <2>1. QuietAnswer(r) => reply'[r].answer # "updated"
    BY <1>1 DEF QuietAnswer, TypeOK
  <2>2. QED
    BY <1>1, <1>3, <1>4, <2>1, QuietAnswers
<1>6. reply'[r].answer = IF in[r].op = "create" THEN "created" ELSE "updated"
  BY <1>1, <1>5 DEF Commit, TypeOK
<1>7. QED
  BY <1>5, <1>6

\* A committed update was computed from the row and the items it replaces.
THEOREM UpdatesComputedFromCurrent == Spec => ComputedFromCurrent
<1> DEFINE Fresh(r) == LET row == order[in[r].order]
                       IN  /\ row.version = seen[r].version /\ row.status = seen[r].status
                           /\ \A s \in Sku : skuState[s] # "gone" =>
                                row.items[s] = seen[r].items[s]
           A == \A r \in Req : reply[r].answer # "updated" /\ reply'[r].answer = "updated" =>
                  Fresh(r)
<1>1. IInv /\ [Next]_vars => A
  <2> SUFFICES ASSUME IInv, [Next]_vars, NEW r \in Req,
                      reply[r].answer # "updated", reply'[r].answer = "updated"
               PROVE  Fresh(r)
    OBVIOUS
  <2>1. pc[r] = "commit" /\ in[r].op # "create"
    BY UpdatedByCommit DEF Commit
  <2>2. QED
    BY <2>1, FinalUpdate
<1>2. QED
  BY <1>1, Invariance, PTL DEF Spec, ComputedFromCurrent

\* Statuses follow the life cycle and versions count the changes.
THEOREM LifeCycle == Spec => LifeCycleFollowed
<1> DEFINE Follows(o) == order[o].status # "absent" =>
             /\ order'[o].status # "absent"
             /\ isOrderStatusTransitionAllowed(order[o].status, order'[o].status)
             /\ order'[o].version \in {order[o].version, order[o].version + 1}
             /\ order'[o].version = order[o].version =>
                  order'[o] = [order[o] EXCEPT !.items = order'[o].items]
<1>1. IInv /\ [Next]_vars => \A o \in Order : Follows(o)
  <2> SUFFICES ASSUME IInv, [Next]_vars, NEW o \in Order PROVE Follows(o)
    OBVIOUS
  <2>1. order[o] \in Row
    BY DEF IInv, TypeOK
  <2>2. CASE order'[o] = order[o]
    BY <2>1, <2>2 DEF isOrderStatusTransitionAllowed, Row
  <2>3. ASSUME NEW r \in Req, Commit(r), o = Target(r), order[o].status # "absent"
        PROVE  Follows(o)
    <3>1. in[r].op # "create" /\ pc[r] = "commit"
      BY <2>3, CommitStatus DEF Commit
    <3>2. order'[o] = Final(r)
      BY <2>3, CommitWrites
    <3>3. Target(r) = in[r].order
      BY <3>1 DEF Target
    <3>4. /\ isOrderStatusTransitionAllowed(order[o].status, Final(r).status)
          /\ Final(r).status # "absent" /\ Final(r).version = order[o].version + 1
      BY <2>3, <3>1, <3>3, FinalUpdate
    <3>5. Final(r).version # order[o].version
      BY <2>1, <3>4 DEF Row
    <3>6. QED
      BY <3>2, <3>4, <3>5
  <2>4. ASSUME NEW s \in Sku, ForceDeleteSku(s) PROVE Follows(o)
    BY <2>4, ForceDeleteWrites DEF isOrderStatusTransitionAllowed
  <2>5. CASE Catalog
    <3>1. CASE \E s \in Sku : ForceDeleteSku(s)
      BY <2>4, <3>1
    <3>2. CASE ~\E s \in Sku : ForceDeleteSku(s)
      <4>1. order' = order
        BY <2>5, <3>2 DEF Catalog, SetStock, SoftDeleteSku, RestoreSku, ToggleProduct, catalogRest
      <4>2. QED
        BY <2>2, <4>1
    <3>3. QED
      BY <3>1, <3>2
  <2>6. ASSUME NEW r \in Req, Arrive(r) \/ Step(r) \/ RefuseInput(r) \/ Fail(r)
        PROVE  Follows(o)
    <3>1. CASE Commit(r)
      BY <2>2, <2>3, <3>1, CommitWrites
    <3>2. CASE ~Commit(r)
      BY <2>2, <2>6, <3>2, QuietSteps
    <3>3. QED
      BY <3>1, <3>2
  <2>7. CASE UNCHANGED vars
    BY <2>2, <2>7 DEF vars
  <2>8. QED
    BY <2>5, <2>6, <2>7 DEF Next
<1>2. QED
  BY <1>1, Invariance, PTL DEF Spec, LifeCycleFollowed

-----------------------------------------------------------------------------
(* Database constraints: invoice numbers and life cycle timestamps *)

LEMMA ConstraintsInit == Init => ConstraintsHold
<1> SUFFICES ASSUME Init PROVE ConstraintsHold
  OBVIOUS
<1>1. \A o \in Order : order[o] = AbsentRow \/ order[o] \in SeedRows
  BY DEF Init
<1>2. \A o \in Order : order[o].invoice = None
  BY <1>1, SeedAssumption DEF AbsentRow
<1>3. RowChecks(AbsentRow)
  BY DEF RowChecks, AbsentRow
<1>4. \A o \in Order : RowChecks(order[o])
  BY <1>1, <1>3, SeedAssumption
<1>5. QED
  BY <1>2, <1>4 DEF ConstraintsHold

LEMMA CommitConstraints ==
  ASSUME IInv, ConstraintsHold, NEW r \in Req, Commit(r)
  PROVE  ConstraintsHold'
<1>1. pc[r] = "commit" /\ Target(r) \in Order /\ ReqInv(r)
  BY CommitWrites DEF Commit, IInv
<1>2. PICK o \in Order : o = Target(r)
  BY <1>1
<1>3. order'[o] = Final(r) /\ \A q \in Order \ {o} : order'[q] = order[q]
  BY <1>2, CommitWrites
<1>4. RowChecks(Final(r))
  <2>1. CASE in[r].op = "create"
    BY <1>1, <2>1, FinalCreate DEF RowChecks
  <2>2. CASE in[r].op # "create"
    <3>1. o = in[r].order
      BY <1>2, <2>2 DEF Target
    <3>2. Final(r).marks = statusTimestamps(order[o], Final(r).status)
      BY <1>1, <2>2, <3>1, FinalUpdate
    <3>3. RowChecks(order[o])
      BY DEF ConstraintsHold
    <3>4. QED
      BY <3>2, <3>3 DEF RowChecks, statusTimestamps
  <2>3. QED
    BY <2>1, <2>2
<1>5. ASSUME NEW q \in Order \ {o}, Final(r).invoice # None
      PROVE  order[q].invoice # Final(r).invoice
  <2>1. /\ Final(r).invoice = next[r].invoice
        /\ seen[r].invoice \in {None, order[o].invoice}
    <3>1. CASE in[r].op = "create"
      BY <1>1, <3>1, FinalCreate DEF AbsentRow
    <3>2. CASE in[r].op # "create"
      <4>1. o = in[r].order
        BY <1>2, <3>2 DEF Target
      <4>2. QED
        BY <1>1, <3>2, <4>1, FinalUpdate
    <3>3. QED
      BY <3>1, <3>2
  <2>2. CASE NewInvoice(r)
    BY <1>1, <1>2, <1>5, <2>1, <2>2 DEF ReqInv, InvoiceSound, InvoiceTaken
  <2>3. CASE ~NewInvoice(r)
    <3>1. order[o].invoice = Final(r).invoice
      BY <1>5, <2>1, <2>3 DEF NewInvoice
    <3>2. QED
      BY <1>5, <3>1 DEF ConstraintsHold
  <2>4. QED
    BY <2>2, <2>3
<1>6. QED
  BY <1>3, <1>4, <1>5 DEF ConstraintsHold

\* No invoice number is on two orders, and the life cycle timestamps of every
\* committed row fit its status.
THEOREM ConstraintsAlwaysHold == Spec => []ConstraintsHold
<1>1. Init => ConstraintsHold
  BY ConstraintsInit
<1>2. IInv /\ ConstraintsHold /\ [Next]_vars => ConstraintsHold'
  <2> SUFFICES ASSUME IInv, ConstraintsHold, [Next]_vars PROVE ConstraintsHold'
    OBVIOUS
  <2>1. CASE order' = order
    BY <2>1 DEF ConstraintsHold, RowChecks
  <2>2. ASSUME NEW s \in Sku, ForceDeleteSku(s) PROVE ConstraintsHold'
    <3>1. \A o \in Order : /\ order'[o].invoice = order[o].invoice
                           /\ order'[o].status = order[o].status
                           /\ order'[o].marks = order[o].marks
      BY <2>2, ForceDeleteWrites
    <3>2. QED
      BY <3>1 DEF ConstraintsHold, RowChecks
  <2>3. CASE Catalog
    BY <2>1, <2>2, <2>3
       DEF Catalog, SetStock, SoftDeleteSku, RestoreSku, ToggleProduct, catalogRest
  <2>4. ASSUME NEW r \in Req, Arrive(r) \/ Step(r) \/ RefuseInput(r) \/ Fail(r)
        PROVE  ConstraintsHold'
    BY <2>1, <2>4, CommitConstraints, QuietSteps
  <2>5. CASE UNCHANGED vars
    BY <2>1, <2>5 DEF vars
  <2>6. QED
    BY <2>3, <2>4, <2>5 DEF Next
<1>3. QED
  BY <1>1, <1>2, Invariance, PTL DEF Spec

-----------------------------------------------------------------------------
(* Idempotency keys and lost updates *)

\* An order that does not exist has no key.
AbsentKeys == \A o \in Order : order[o].status = "absent" => order[o].key = None

KeysApart ==
  \A o1, o2 \in Order : order[o1].key = order[o2].key /\ order[o1].key # None => o1 = o2

\* What each answer tells about the committed order it names.
Answered(r) ==
  /\ reply[r].answer # "none" => pc[r] = "done"
  /\ reply[r].answer \in {"created", "reused"} =>
       /\ reply[r].order \in Order
       /\ order[reply[r].order].key = in[r].key
       /\ order[reply[r].order].payload = PayloadOf(in[r])
  /\ reply[r].answer = "updated" =>
       /\ reply[r].order = in[r].order
       /\ order[in[r].order].status # "absent"
       /\ order[in[r].order].version > seen[r].version

UpdatesApart ==
  \A r1, r2 \in Req :
    /\ reply[r1].answer = "updated" /\ reply[r2].answer = "updated"
    /\ reply[r1].order = reply[r2].order /\ r1 # r2
    => seen[r1].version # seen[r2].version

Outcomes == AbsentKeys /\ KeysApart /\ UpdatesApart /\ \A r \in Req : Answered(r)

LEMMA OutcomesInit == Init => Outcomes
<1> SUFFICES ASSUME Init PROVE Outcomes
  OBVIOUS
<1>1. \A o \in Order : order[o].key = None
  BY SeedAssumption DEF Init, AbsentRow
<1>2. \A r \in Req : reply[r].answer = "none"
  BY DEF Init
<1>3. QED
  BY <1>1, <1>2 DEF Outcomes, AbsentKeys, KeysApart, UpdatesApart, Answered

\* Steps that commit nothing: at most one request is answered.
LEMMA QuietOutcomes ==
  ASSUME IInv, Outcomes, NEW r \in Req,
         Arrive(r) \/ Step(r) \/ RefuseInput(r) \/ Fail(r), ~Commit(r)
  PROVE  Outcomes'
<1>1. TypeOK /\ UNCHANGED <<order, in>> /\ QuietAnswer(r) /\ pc[r] # "done"
  BY QuietSteps, QuietAnswers, StepsApart DEF IInv
<1>2. \A q \in Req \ {r} : pc'[q] = pc[q] /\ seen'[q] = seen[q] /\ reply'[q] = reply[q]
  BY <1>1, StepsApart
<1>3. reply[r].answer = "none"
  BY <1>1 DEF Outcomes, Answered
<1>4. /\ reply'[r].answer \notin {"updated", "created"}
      /\ reply'[r].answer # "none" => pc'[r] = "done"
      /\ reply'[r].answer = "reused" =>
           /\ reply'[r].order \in Order
           /\ order[reply'[r].order].key = in[r].key
           /\ order[reply'[r].order].payload = PayloadOf(in[r])
  BY <1>1, <1>3 DEF QuietAnswer, TypeOK
<1>5. Answered(r)'
  BY <1>1, <1>4 DEF Answered
<1>6. ASSUME NEW q \in Req \ {r} PROVE Answered(q)'
  BY <1>1, <1>2 DEF Answered, Outcomes
<1>7. UpdatesApart'
  BY <1>2, <1>4 DEF UpdatesApart, Outcomes
<1>8. AbsentKeys' /\ KeysApart'
  BY <1>1 DEF AbsentKeys, KeysApart, Outcomes
<1>9. QED
  BY <1>5, <1>6, <1>7, <1>8 DEF Outcomes

LEMMA CommitOutcomes ==
  ASSUME IInv, Outcomes, NEW r \in Req, Commit(r)
  PROVE  Outcomes'
<1>1. TypeOK /\ pc[r] = "commit"
  BY DEF IInv, Commit
<1>2. PICK o \in Order : o = Target(r)
  BY CommitWrites
<1>3. /\ order'[o] = Final(r) /\ \A x \in Order \ {o} : order'[x] = order[x]
      /\ in' = in /\ seen' = seen
  BY <1>2, CommitWrites DEF Commit
<1>4. /\ pc'[r] = "done" /\ reply'[r].order = o
      /\ reply'[r].answer = IF in[r].op = "create" THEN "created" ELSE "updated"
      /\ \A q \in Req \ {r} : pc'[q] = pc[q] /\ reply'[q] = reply[q]
  BY <1>1, <1>2 DEF Commit, Goto, TypeOK
<1>5. CASE in[r].op = "create"
  <2>1. /\ o = r /\ order[o].status = "absent" /\ order[o].key = None
        /\ Final(r).key = in[r].key /\ Final(r).payload = PayloadOf(in[r])
        /\ Final(r).status = "pending"
        /\ \A x \in Order : order[x].key # in[r].key
    BY <1>1, <1>2, <1>5, FinalCreate DEF KeyTaken, Outcomes, AbsentKeys
  <2>2. \A q \in Req : in[q].key # None
    BY <1>1, InputTypes, NoneAssumption DEF Input
  <2>3. AbsentKeys' /\ KeysApart'
    BY <1>3, <2>1 DEF AbsentKeys, KeysApart, Outcomes
  <2>4. Answered(r)'
    BY <1>3, <1>4, <1>5, <2>1 DEF Answered
  <2>5. ASSUME NEW q \in Req \ {r} PROVE Answered(q)'
    <3>1. Answered(q) /\ in[q].order \in Order
      BY <1>1, InputTypes DEF Outcomes
    <3>2. QED
      BY <1>3, <1>4, <2>1, <2>2, <3>1 DEF Answered
  <2>6. UpdatesApart'
    BY <1>3, <1>4, <1>5 DEF UpdatesApart, Outcomes
  <2>7. QED
    BY <2>3, <2>4, <2>5, <2>6 DEF Outcomes
<1>6. CASE in[r].op # "create"
  <2>1. o = in[r].order
    BY <1>2, <1>6 DEF Target
  <2>2. /\ Final(r).key = order[o].key /\ Final(r).payload = order[o].payload
        /\ Final(r).status # "absent" /\ order[o].status # "absent"
        /\ Final(r).version = order[o].version + 1 /\ seen[r].version = order[o].version
    BY <1>1, <1>6, <2>1, FinalUpdate
  <2>3. order[o].version \in Nat /\ \A q \in Req : seen[q].version \in Nat
    BY <1>1 DEF TypeOK, Row
  <2>4. AbsentKeys' /\ KeysApart'
    BY <1>3, <2>2 DEF AbsentKeys, KeysApart, Outcomes
  <2>5. Answered(r)'
    BY <1>3, <1>4, <1>6, <2>1, <2>2, <2>3 DEF Answered
  <2>6. ASSUME NEW q \in Req \ {r} PROVE Answered(q)'
    <3>1. Answered(q) /\ in[q].order \in Order
      BY <1>1, InputTypes DEF Outcomes
    <3>2. QED
      BY <1>3, <1>4, <2>2, <2>3, <3>1 DEF Answered
  <2>7. ASSUME NEW q \in Req \ {r}, reply[q].answer = "updated", reply[q].order = o
        PROVE  seen[q].version # seen[r].version
    BY <2>2, <2>3, <2>7 DEF Outcomes, Answered
  <2>8. UpdatesApart'
    BY <1>3, <1>4, <2>7 DEF UpdatesApart, Outcomes
  <2>9. QED
    BY <2>4, <2>5, <2>6, <2>8 DEF Outcomes
<1>7. QED
  BY <1>5, <1>6

LEMMA CatalogOutcomes ==
  ASSUME IInv, Outcomes, Catalog
  PROVE  Outcomes'
<1>1. UNCHANGED <<pc, in, seen, reply>>
  BY DEF Catalog, SetStock, SoftDeleteSku, RestoreSku, ForceDeleteSku, ToggleProduct, catalogRest
<1>2. \A o \in Order :
        /\ order'[o].key = order[o].key /\ order'[o].payload = order[o].payload
        /\ order'[o].status = order[o].status /\ order'[o].version = order[o].version
  <2>1. CASE \E s \in Sku : ForceDeleteSku(s)
    BY <2>1, ForceDeleteWrites
  <2>2. CASE ~\E s \in Sku : ForceDeleteSku(s)
    BY <2>2 DEF Catalog, SetStock, SoftDeleteSku, RestoreSku, ToggleProduct, catalogRest
  <2>3. QED
    BY <2>1, <2>2
<1>3. \A r \in Req : in[r].order \in Order
  BY InputTypes DEF IInv
<1>4. \A r \in Req : Answered(r)'
  BY <1>1, <1>2, <1>3 DEF Outcomes, Answered
<1>5. AbsentKeys' /\ KeysApart' /\ UpdatesApart'
  BY <1>1, <1>2 DEF Outcomes, AbsentKeys, KeysApart, UpdatesApart
<1>6. QED
  BY <1>4, <1>5 DEF Outcomes

LEMMA OutcomesAlwaysHold == Spec => []Outcomes
<1>1. Init => Outcomes
  BY OutcomesInit
<1>2. IInv /\ Outcomes /\ [Next]_vars => Outcomes'
  <2> SUFFICES ASSUME IInv, Outcomes, [Next]_vars PROVE Outcomes'
    OBVIOUS
  <2>1. ASSUME NEW r \in Req, Arrive(r) \/ Step(r) \/ RefuseInput(r) \/ Fail(r)
        PROVE  Outcomes'
    BY <2>1, CommitOutcomes, QuietOutcomes
  <2>2. CASE UNCHANGED vars
    BY <2>2 DEF vars, Outcomes, AbsentKeys, KeysApart, UpdatesApart, Answered
  <2>3. QED
    BY <2>1, <2>2, CatalogOutcomes DEF Next
<1>3. QED
  BY <1>1, <1>2, Invariance, PTL DEF Spec

\* An idempotency key names at most one order, and a client told "created" or
\* "reused" has the order of its own key and body.
THEOREM KeysIdentifyOrders == Spec => []KeyIdentifiesOrder
<1>1. Outcomes => KeyIdentifiesOrder
  BY DEF Outcomes, KeysApart, Answered, KeyIdentifiesOrder
<1>2. QED
  BY <1>1, OutcomesAlwaysHold, PTL

\* Two requests that both changed one order started from different versions.
THEOREM NoUpdateLost == Spec => []NoLostUpdate
<1>1. Outcomes => NoLostUpdate
  BY DEF Outcomes, UpdatesApart, Answered, NoLostUpdate
<1>2. QED
  BY <1>1, OutcomesAlwaysHold, PTL
================================================================================
