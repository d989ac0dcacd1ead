--------------------------------- MODULE Orders ---------------------------------
(***************************************************************************)
(* Creating and changing orders, and the inventory they reserve            *)
(* (apps/api/src/modules/management/order).                                *)
(*                                                                         *)
(* Every HTTP request is a process with a program counter.  A request      *)
(* reads committed rows, then runs one PostgreSQL transaction at READ      *)
(* COMMITTED: each UPDATE or INSERT takes the lock of the row (or of the   *)
(* unique index entry) it writes and keeps it until the transaction ends,  *)
(* evaluates its WHERE clause on the last committed version of the row,    *)
(* and what it writes becomes visible to others when it commits.  The      *)
(* state below holds committed data only; what an open transaction has     *)
(* written is `next' and the rows it has locked.                           *)
(*                                                                         *)
(* An order line is abstracted to a quantity per SKU: two lines of one SKU *)
(* count together, lines without a SKU reserve nothing.  Prices, contact   *)
(* data and businesses are left out; the checks on them only refuse a      *)
(* request, which RefuseInput does at the place of the check.              *)
(*                                                                         *)
(* Definitions whose names begin with Wrong are not part of the model: each *)
(* is a mistake the definition after it could have had, and the properties *)
(* fail with it in that definition's place.                                *)
(***************************************************************************)
EXTENDS Integers

CONSTANTS
  Sku, Product,     \* rows of ProductSku and Product
  Key,              \* Idempotency-Key header values
  Invoice,          \* invoice numbers
  Req,              \* requests; an order created by request r has identifier r
  Seed,             \* orders that exist from the start
  None,             \* SQL NULL, and "no holder" of a lock
  Inputs,           \* the requests' inputs, a set of Input records
  SeedRows,         \* rows the seed orders may start with
  StockLevels,      \* quantities staff enter for a SKU
  Home,             \* Home[s]: the product SKU s belongs to at the start
  SkuCode,          \* SkuCode[s]: rank of the SKU's code in localeCompare order
  CatalogOps,       \* catalog operations that may interfere
  Unreliable        \* requests whose database connection may fail

Order == Seed \cup Req

Status == {"pending", "confirmed", "processing", "completed", "cancelled", "refunded"}
Released == {"cancelled", "refunded"}
Marks == {"completedAt", "cancelledAt", "refundedAt"}

Cart == [Sku -> Nat]
Ranking == {f \in [Sku -> Nat] : \A s, u \in Sku : f[s] = f[u] => s = u}

(***************************************************************************)
(* The request as the router hands it over.  `has' names the optional      *)
(* fields that are present; `rank' is the order of the lines in the body.  *)
(***************************************************************************)
Input == [op: {"create", "edit", "status", "preview"},
          order: Seed \cup Req, key: Key, cart: Cart, rank: Ranking,
          version: Nat, status: Status, invoice: Invoice \cup {None},
          has: SUBSET {"items", "status", "invoice"}]

\* The body of a create request; its SHA-256 over canonical JSON, the
\* idempotency fingerprint, tells exactly these apart.
Payload == [cart: Cart, rank: Ranking, invoice: Invoice \cup {None}]

Row == [status: Status \cup {"absent"}, version: Nat, items: Cart, marks: SUBSET Marks,
        invoice: Invoice \cup {None}, key: Key \cup {None}, payload: Payload \cup {None}]

NoItems == [s \in Sku |-> 0]
AbsentRow == [status |-> "absent", version |-> 0, items |-> NoItems, marks |-> {},
              invoice |-> None, key |-> None, payload |-> None]

\* The CHECK constraints of the table "Order" on the life cycle timestamps.
RowChecks(row) ==
  /\ row.status \in {"completed", "refunded"} => "completedAt" \in row.marks
  /\ row.status = "cancelled" <=> "cancelledAt" \in row.marks
  /\ row.status = "refunded" <=> "refundedAt" \in row.marks

CatalogOp == {"setStock", "archiveSku", "restoreSku", "forceDeleteSku", "archiveProduct"}

Answer == {"created", "reused", "updated", "previewed", "keyReused", "insufficientStock",
           "concurrentlyModified", "invalidTransition", "invoiceTaken", "notFound",
           "refused", "deadlock", "failed"}

ASSUME NoneAssumption == None \notin Invoice \cup Key \cup Req \cup Payload
\* A name identifies one row or one index entry.
ASSUME RowsAssumption ==
  /\ Sku \cap (Product \cup Order \cup Key \cup Invoice) = {}
  /\ Order \cap (Product \cup Key \cup Invoice) = {}
  /\ Key \cap (Product \cup Invoice) = {}
ASSUME InputsAssumption == Inputs \subseteq Input
ASSUME SeedAssumption ==
  /\ SeedRows \subseteq Row
  /\ Seed \cap Req = {}
  /\ \A row \in SeedRows : row.status # "absent" /\ row.key = None /\ row.invoice = None
  /\ \A row \in SeedRows : RowChecks(row)
ASSUME CatalogAssumption ==
  /\ StockLevels \subseteq Nat
  /\ Home \in [Sku -> Product]
  /\ SkuCode \in Ranking
  /\ CatalogOps \subseteq CatalogOp
  /\ Unreliable \subseteq Req

VARIABLES
  stock,      \* stock[s]: committed stockQuantity
  skuState,   \* "active", "archived" (deletedAt set) or "gone" (row deleted)
  productOf,  \* productOf[s]: the SKU's product
  listed,     \* products whose deletedAt is null
  order,      \* order[o]: committed order row with its items
  lock,       \* lock[row]: the request whose transaction holds the row, or None
  pc,         \* pc[r]: where request r is
  in,         \* in[r]: its input
  seen,       \* seen[r]: the order as its transaction read it
  next,       \* next[r]: the order as its transaction will leave it
  todo,       \* todo[r]: SKUs whose stock the transaction still has to change
  reply       \* reply[r]: what the client is answered

catalog == <<stock, skuState, productOf, listed>>
vars == <<stock, skuState, productOf, listed, order, lock, pc, in, seen, next, todo, reply>>

-----------------------------------------------------------------------------
(* Reservations and the status life cycle *)

\* What an order row takes out of stock.
Reserved(row) == IF row.status \in Released \cup {"absent"} THEN NoItems ELSE row.items

\* buildInventoryChanges: what the transaction adds to the stock of s.
Delta(r, s) == Reserved(seen[r])[s] - Reserved(next[r])[s]

AllowedTransitions ==
  [pending |-> {"confirmed", "cancelled"}, confirmed |-> {"processing", "cancelled"},
   processing |-> {"completed", "cancelled"}, completed |-> {"refunded"},
   cancelled |-> {}, refunded |-> {}]

isOrderStatusTransitionAllowed(from, to) == from = to \/ to \in AllowedTransitions[from]

statusTimestamps(row, status) ==
  IF row.status = status THEN row.marks
  ELSE CASE status = "completed" -> {"completedAt"}
         [] status = "cancelled" -> {"cancelledAt"}
         [] status = "refunded"  -> {"completedAt", "refundedAt"}
         [] OTHER -> {}

-----------------------------------------------------------------------------
(* Requests: targets, row locks, answers *)

Target(r) == IF in[r].op = "create" THEN r ELSE in[r].order

PayloadOf(i) == [cart |-> i.cart, rank |-> i.rank, invoice |-> i.invoice]

\* The version is not incremented.
WrongProposed(i, row) ==
  LET status == IF "status" \in i.has THEN i.status ELSE row.status
  IN  [row EXCEPT !.status = status, !.marks = statusTimestamps(row, status),
                  !.items = IF "items" \in i.has THEN i.cart ELSE row.items,
                  !.invoice = IF "invoice" \in i.has THEN i.invoice ELSE row.invoice]

\* The order row a transaction writes, given the row it read.
Proposed(i, row) ==
  LET status == IF "status" \in i.has THEN i.status ELSE row.status
  IN  [row EXCEPT !.status = status, !.version = row.version + 1,
                  !.marks = statusTimestamps(row, status),
                  !.items = IF "items" \in i.has THEN i.cart ELSE row.items,
                  !.invoice = IF "invoice" \in i.has THEN i.invoice ELSE row.invoice]

Created(i) == [status |-> "pending", version |-> 0, items |-> i.cart, marks |-> {},
               invoice |-> i.invoice, key |-> i.key, payload |-> PayloadOf(i)]

Lockable == Sku \cup Product \cup Order \cup Key \cup Invoice
Free(x, r) == lock[x] \in {None, r}
Locked(x, r) == [lock EXCEPT ![x] = r]
Unlocked(r) == [x \in Lockable |-> IF lock[x] = r THEN None ELSE lock[x]]

Goto(r, label) == pc' = [pc EXCEPT ![r] = label]

\* The stock statements run outside the transaction and are not rolled back.
WrongFinish(r, answer, o) ==
  /\ stock' = [s \in Sku |-> IF lock[s] = r THEN stock[s] + Delta(r, s) ELSE stock[s]]
  /\ lock' = Unlocked(r)
  /\ reply' = [reply EXCEPT ![r] = [answer |-> answer, order |-> o]]
  /\ Goto(r, "done")
  /\ UNCHANGED <<skuState, productOf, listed, order, in, seen, next, todo>>

\* Ends the request; an open transaction is rolled back.
Finish(r, answer, o) ==
  /\ lock' = Unlocked(r)
  /\ reply' = [reply EXCEPT ![r] = [answer |-> answer, order |-> o]]
  /\ Goto(r, "done")
  /\ UNCHANGED <<catalog, order, in, seen, next, todo>>

-----------------------------------------------------------------------------
Init ==
  /\ stock \in [Sku -> StockLevels]
  /\ skuState = [s \in Sku |-> "active"]
  /\ productOf = Home
  /\ listed = Product
  /\ order \in {f \in [Order -> SeedRows \cup {AbsentRow}] :
                  \A o \in Order : f[o] = AbsentRow <=> o \in Req}
  /\ lock = [x \in Lockable |-> None]
  /\ pc = [r \in Req |-> "idle"]
  /\ in \in [Req -> Inputs]
  /\ seen = [r \in Req |-> AbsentRow]
  /\ next = [r \in Req |-> AbsentRow]
  /\ todo = [r \in Req |-> {}]
  /\ reply = [r \in Req |-> [answer |-> "none", order |-> None]]

Arrive(r) ==
  /\ pc[r] = "idle"
  /\ Goto(r, CASE in[r].op = "create" -> "findKey"
               [] in[r].op = "status" -> "readRow"
               [] OTHER -> "validate")
  /\ UNCHANGED <<catalog, order, lock, in, seen, next, todo, reply>>

-----------------------------------------------------------------------------
(* createOrder, before its transaction *)

\* Answers from the order that already carries the request's key, if any.
AnswerFromKey(r, o) ==
  Finish(r, IF order[o].payload = PayloadOf(in[r]) THEN "reused" ELSE "keyReused", o)

FindByKey(r) ==
  /\ pc[r] = "findKey"
  /\ \/ \E o \in Order : order[o].key = in[r].key /\ AnswerFromKey(r, o)
     \/ /\ \A o \in Order : order[o].key # in[r].key
        /\ Goto(r, "findSkus")
        /\ UNCHANGED <<catalog, order, lock, in, seen, next, todo, reply>>

\* What findSkuById and the edit's SKU lookup accept.
OnSale(s) == skuState[s] = "active" /\ productOf[s] \in listed

\* findSkuById for every SKU of the body; the transaction begins.
FindSkus(r) ==
  LET skus == {s \in Sku : in[r].cart[s] > 0}
  IN  /\ pc[r] = "findSkus"
      /\ \/ /\ \E s \in skus : ~OnSale(s)
            /\ Finish(r, "notFound", None)
         \/ /\ \A s \in skus : OnSale(s)
            /\ seen' = [seen EXCEPT ![r] = AbsentRow]
            /\ next' = [next EXCEPT ![r] = Created(in[r])]
            /\ todo' = [todo EXCEPT ![r] = skus]
            /\ Goto(r, IF skus = {} THEN "insert" ELSE "sku")
            /\ UNCHANGED <<catalog, order, lock, in, reply>>

-----------------------------------------------------------------------------
(* updateOrder, updateOrderStatus and previewOrderUpdate, up to the writes *)

\* validateOrderUpdate, on a committed read outside the transaction.
Validate(r) ==
  LET row == order[in[r].order]
  IN  /\ pc[r] = "validate"
      /\ \/ row.status = "absent" /\ Finish(r, "notFound", None)
         \/ /\ row.status # "absent" /\ row.version # in[r].version
            /\ Finish(r, "concurrentlyModified", None)
         \/ /\ row.status # "absent" /\ row.version = in[r].version
            /\ Goto(r, "readRow")
            /\ UNCHANGED <<catalog, order, lock, in, seen, next, todo, reply>>

\* prepareOrderUpdate: the order row is one statement, its items the next.
ReadRow(r) ==
  /\ pc[r] = "readRow"
  /\ \/ order[in[r].order].status = "absent" /\ Finish(r, "notFound", None)
     \/ /\ order[in[r].order].status # "absent"
        /\ seen' = [seen EXCEPT ![r] = order[in[r].order]]
        /\ Goto(r, "readItems")
        /\ UNCHANGED <<catalog, order, lock, in, next, todo, reply>>

\* The items are read and the update is computed from what was read.
ReadItems(r) ==
  LET row      == [seen[r] EXCEPT !.items = order[in[r].order].items]
      proposed == Proposed(in[r], row)
      stale    == in[r].op # "status" /\ in[r].version # row.version
      illegal  == ~isOrderStatusTransitionAllowed(row.status, proposed.status)
      unknown  == /\ "items" \in in[r].has
                  /\ \E s \in Sku : in[r].cart[s] > 0 /\ ~OnSale(s) /\ row.items[s] = 0
  IN  /\ pc[r] = "readItems"
      /\ \/ stale /\ Finish(r, "concurrentlyModified", None)
         \/ ~stale /\ illegal /\ Finish(r, "invalidTransition", None)
         \/ ~stale /\ ~illegal /\ unknown /\ Finish(r, "notFound", None)
         \/ /\ ~stale /\ ~illegal /\ ~unknown
            /\ seen' = [seen EXCEPT ![r] = row]
            /\ next' = [next EXCEPT ![r] = proposed]
            /\ Goto(r, "checkStock")
            /\ UNCHANGED <<catalog, order, lock, in, todo, reply>>

\* assertInventoryAvailable, an unlocked read; a preview ends here.
CheckStock(r) ==
  LET short   == \E s \in Sku : /\ Delta(r, s) < 0
                                /\ skuState[s] = "gone" \/ stock[s] < -Delta(r, s)
      changed == {s \in Sku : Delta(r, s) # 0}
  IN  /\ pc[r] = "checkStock"
      /\ \/ short /\ Finish(r, "insufficientStock", None)
         \/ ~short /\ in[r].op = "preview" /\ Finish(r, "previewed", in[r].order)
         \/ /\ ~short /\ in[r].op # "preview"
            /\ todo' = [todo EXCEPT ![r] = changed]
            /\ Goto(r, IF changed = {} THEN "update" ELSE "sku")
            /\ UNCHANGED <<catalog, order, lock, in, seen, next, reply>>

-----------------------------------------------------------------------------
(* The inventory loop: adjustInventory of a create goes through the lines  *)
(* as they came, applyInventoryChanges of an update through the SKU codes. *)

RankOf(r) == IF in[r].op = "create" THEN in[r].rank ELSE SkuCode
IsNext(r, s) == s \in todo[r] /\ \A u \in todo[r] : RankOf(r)[s] <= RankOf(r)[u]

\* The WHERE clause of the stock update.
Matches(r, s) ==
  /\ skuState[s] \in (IF in[r].op = "create" THEN {"active"} ELSE {"active", "archived"})
  /\ stock[s] + Delta(r, s) >= 0

ChangeStock(r, s) ==
  /\ pc[r] = "sku" /\ IsNext(r, s)
  /\ Matches(r, s)
  /\ Free(s, r)
  /\ lock' = Locked(s, r)
  /\ Goto(r, "product")
  /\ UNCHANGED <<catalog, order, in, seen, next, todo, reply>>

\* Only a SKU that is sold out is refused.
WrongRefuseStock(r, s) ==
  /\ pc[r] = "sku" /\ IsNext(r, s)
  /\ stock[s] = 0
  /\ Finish(r, "insufficientStock", None)

\* No row matches: the statement returns without waiting for any lock.
RefuseStock(r, s) ==
  /\ pc[r] = "sku" /\ IsNext(r, s)
  /\ ~Matches(r, s)
  /\ Finish(r, "insufficientStock", None)

\* product.updateMany, then the next SKU.
TouchProduct(r, s) ==
  LET rest == todo[r] \ {s}
  IN  /\ pc[r] = "product" /\ IsNext(r, s)
      /\ Free(productOf[s], r)
      /\ lock' = Locked(productOf[s], r)
      /\ todo' = [todo EXCEPT ![r] = rest]
      /\ Goto(r, IF rest # {} THEN "sku"
                 ELSE IF in[r].op = "create" THEN "insert" ELSE "update")
      /\ UNCHANGED <<catalog, order, in, seen, next, reply>>

-----------------------------------------------------------------------------
(* The order row, its unique index entries, commit *)

KeyTaken(r) == \E o \in Order : order[o].key = in[r].key
InvoiceTaken(r) == \E o \in Order \ {Target(r)} : order[o].invoice = next[r].invoice
NewInvoice(r) == next[r].invoice \notin {None, seen[r].invoice}

AfterRow(r) == IF NewInvoice(r) THEN "invoice" ELSE "commit"

\* No unique index on idempotencyKey.
WrongInsertOrder(r) ==
  /\ pc[r] = "insert"
  /\ Goto(r, AfterRow(r))
  /\ UNCHANGED <<catalog, order, lock, in, seen, next, todo, reply>>

\* INSERT INTO "Order": the unique index on idempotencyKey.
InsertOrder(r) ==
  /\ pc[r] = "insert"
  /\ ~KeyTaken(r)
  /\ Free(in[r].key, r)
  /\ lock' = Locked(in[r].key, r)
  /\ Goto(r, AfterRow(r))
  /\ UNCHANGED <<catalog, order, in, seen, next, todo, reply>>

\* P2002: createOrder rolls back and looks the key up again.
UniqueViolation(r) ==
  /\ \/ pc[r] = "insert" /\ KeyTaken(r)
     \/ pc[r] = "invoice" /\ in[r].op = "create" /\ InvoiceTaken(r)
  /\ lock' = Unlocked(r)
  /\ Goto(r, "findAgain")
  /\ UNCHANGED <<catalog, order, in, seen, next, todo, reply>>

FindAgain(r) ==
  /\ pc[r] = "findAgain"
  /\ \/ \E o \in Order : order[o].key = in[r].key /\ AnswerFromKey(r, o)
     \/ ~KeyTaken(r) /\ Finish(r, "invoiceTaken", None)

\* The row is updated by id alone.
WrongUpdateOrder(r) ==
  /\ pc[r] = "update"
  /\ Free(in[r].order, r)
  /\ lock' = Locked(in[r].order, r)
  /\ Goto(r, AfterRow(r))
  /\ UNCHANGED <<catalog, order, in, seen, next, todo, reply>>

\* order.updateMany where id and version: the compare-and-set on the row.
UpdateOrder(r) ==
  LET o == in[r].order
  IN  /\ pc[r] = "update"
      /\ \/ /\ order[o].version # seen[r].version
            /\ Finish(r, "concurrentlyModified", None)
         \/ /\ order[o].version = seen[r].version
            /\ Free(o, r)
            /\ lock' = Locked(o, r)
            /\ Goto(r, AfterRow(r))
            /\ UNCHANGED <<catalog, order, in, seen, next, todo, reply>>

\* No unique index on invoiceNumber.
WrongClaimInvoice(r) ==
  /\ pc[r] = "invoice"
  /\ Goto(r, "commit")
  /\ UNCHANGED <<catalog, order, lock, in, seen, next, todo, reply>>

\* The unique index on invoiceNumber, for an insert or an update.
ClaimInvoice(r) ==
  /\ pc[r] = "invoice"
  /\ \/ /\ in[r].op # "create" /\ InvoiceTaken(r)
        /\ Finish(r, "invoiceTaken", None)
     \/ /\ ~InvoiceTaken(r)
        /\ Free(next[r].invoice, r)
        /\ lock' = Locked(next[r].invoice, r)
        /\ Goto(r, "commit")
        /\ UNCHANGED <<catalog, order, in, seen, next, todo, reply>>

WritesItems(r) == in[r].op = "create" \/ "items" \in in[r].has

\* persistOrderItems refers to a SKU row that was deleted meanwhile (P2003).
DanglingItem(r) == WritesItems(r) /\ \E s \in Sku : next[r].items[s] > 0 /\ skuState[s] = "gone"

\* The row as committed: items are rewritten only when the request has them.
Final(r) ==
  IF WritesItems(r) THEN next[r] ELSE [next[r] EXCEPT !.items = order[Target(r)].items]

Commit(r) ==
  /\ pc[r] = "commit"
  /\ ~DanglingItem(r)
  /\ order' = [order EXCEPT ![Target(r)] = Final(r)]
  /\ stock' = [s \in Sku |-> IF lock[s] = r THEN stock[s] + Delta(r, s) ELSE stock[s]]
  /\ lock' = Unlocked(r)
  /\ reply' = [reply EXCEPT ![r] =
                 [answer |-> IF in[r].op = "create" THEN "created" ELSE "updated",
                  order |-> Target(r)]]
  /\ Goto(r, "done")
  /\ UNCHANGED <<skuState, productOf, listed, in, seen, next, todo>>

RefuseItems(r) == pc[r] = "commit" /\ DanglingItem(r) /\ Finish(r, "refused", None)

-----------------------------------------------------------------------------
(* Requests that end early *)

\* Contact, business, catalog snapshot or money checks refuse the input: among
\* createOrder's lookups, after validateOrderUpdate's version check, or while
\* resolveUpdateItems goes through the lines.
RefuseInput(r) ==
  /\ pc[r] \in {"findSkus", "readRow", "checkStock"}
  /\ in[r].op # "status"
  /\ Finish(r, "refused", None)

\* The row or index entry the request's next statement would write.
Wanted(r) ==
  CASE pc[r] = "sku"     -> {s \in Sku : IsNext(r, s) /\ Matches(r, s)}
    [] pc[r] = "product" -> {productOf[s] : s \in {u \in Sku : IsNext(r, u)}}
    [] pc[r] = "update"  -> {in[r].order}
    [] pc[r] = "insert"  -> {in[r].key}
    [] pc[r] = "invoice" -> {next[r].invoice}
    [] OTHER -> {}

WaitsFor(r) == {lock[x] : x \in Wanted(r)} \ {None, r}

\* PostgreSQL's deadlock detector aborts one request of a cycle of waits.
DeadlockVictim(r) ==
  /\ \E cycle \in SUBSET Req :
       /\ r \in cycle
       /\ \A q \in cycle : /\ \E p \in cycle : p \in WaitsFor(q)
                           /\ \E p \in cycle : q \in WaitsFor(p)
  /\ Finish(r, "deadlock", None)

\* The connection, the server process or the transaction's time limit fails.
Fail(r) ==
  /\ r \in Unreliable
  /\ pc[r] \notin {"idle", "done"}
  /\ Finish(r, "failed", None)

-----------------------------------------------------------------------------
(* The catalog operations that write the same rows, each one short transaction *)

catalogRest == <<order, lock, pc, in, seen, next, todo, reply>>

\* updateSku with a stockQuantity: an absolute value, whatever was there.
SetStock(s) ==
  /\ "setStock" \in CatalogOps
  /\ skuState[s] # "gone" /\ lock[s] = None
  /\ \E n \in StockLevels : stock' = [stock EXCEPT ![s] = n]
  /\ UNCHANGED <<skuState, productOf, listed, catalogRest>>

SoftDeleteSku(s) ==
  /\ "archiveSku" \in CatalogOps
  /\ skuState[s] = "active" /\ lock[s] = None
  /\ skuState' = [skuState EXCEPT ![s] = "archived"]
  /\ UNCHANGED <<stock, productOf, listed, catalogRest>>

\* restoreSku may move the SKU to another product; the stock is overwritten.
RestoreSku(s) ==
  /\ "restoreSku" \in CatalogOps
  /\ skuState[s] = "archived" /\ lock[s] = None
  /\ skuState' = [skuState EXCEPT ![s] = "active"]
  /\ \E p \in listed : productOf' = [productOf EXCEPT ![s] = p]
  /\ \E n \in StockLevels : stock' = [stock EXCEPT ![s] = n]
  /\ UNCHANGED <<listed, catalogRest>>

\* The row is deleted; ON DELETE SET NULL detaches order items from it and
\* leaves the orders' versions alone.
ForceDeleteSku(s) ==
  /\ "forceDeleteSku" \in CatalogOps
  /\ skuState[s] # "gone" /\ lock[s] = None
  /\ skuState' = [skuState EXCEPT ![s] = "gone"]
  /\ stock' = [stock EXCEPT ![s] = 0]
  /\ order' = [o \in Order |-> [order[o] EXCEPT !.items[s] = 0]]
  /\ UNCHANGED <<productOf, listed, lock, pc, in, seen, next, todo, reply>>

\* softDeleteProduct and restoreProduct; the SKUs keep their own deletedAt.
ToggleProduct(p) ==
  /\ "archiveProduct" \in CatalogOps
  /\ lock[p] = None
  /\ listed' = IF p \in listed THEN listed \ {p} ELSE listed \cup {p}
  /\ UNCHANGED <<stock, skuState, productOf, catalogRest>>

-----------------------------------------------------------------------------
Step(r) ==
  \/ FindByKey(r) \/ FindSkus(r)
  \/ Validate(r) \/ ReadRow(r) \/ ReadItems(r) \/ CheckStock(r)
  \/ \E s \in Sku : ChangeStock(r, s) \/ RefuseStock(r, s) \/ TouchProduct(r, s)
  \/ InsertOrder(r) \/ UniqueViolation(r) \/ FindAgain(r)
  \/ UpdateOrder(r) \/ ClaimInvoice(r) \/ Commit(r) \/ RefuseItems(r)
  \/ DeadlockVictim(r)

Catalog ==
  \/ \E s \in Sku : SetStock(s) \/ SoftDeleteSku(s) \/ RestoreSku(s) \/ ForceDeleteSku(s)
  \/ \E p \in Product : ToggleProduct(p)

Next ==
  \/ \E r \in Req : Arrive(r) \/ Step(r) \/ RefuseInput(r) \/ Fail(r)
  \/ Catalog

Spec == Init /\ [][Next]_vars

\* The event loop and the database keep serving a request that can go on.
FairSpec == Spec /\ \A r \in Req : WF_vars(Step(r))

-----------------------------------------------------------------------------
(* Properties *)

Label == {"idle", "findKey", "findSkus", "validate", "readRow", "readItems", "checkStock",
          "sku", "product", "insert", "update", "invoice", "commit", "findAgain", "done"}

\* Every variable has its type; in particular no stock is ever negative, so
\* no transaction runs into the CHECK on ProductSku.stockQuantity.
TypeOK ==
  /\ stock \in [Sku -> Nat]
  /\ skuState \in [Sku -> {"active", "archived", "gone"}]
  /\ productOf \in [Sku -> Product]
  /\ listed \subseteq Product
  /\ order \in [Order -> Row]
  /\ lock \in [Lockable -> Req \cup {None}]
  /\ pc \in [Req -> Label]
  /\ in \in [Req -> Inputs]
  /\ seen \in [Req -> Row]
  /\ next \in [Req -> Row]
  /\ todo \in [Req -> SUBSET Sku]
  /\ reply \in [Req -> [answer: Answer \cup {"none"}, order: Order \cup {None}]]

\* Requests, transactions and locks implement the inventory ledger: whatever
\* the interleaving, each commit moves exactly what one order gains or gives
\* back, and a cancelled or refunded order returns its units once.  Without the
\* catalog operations that overwrite stock nothing else moves a unit.
Ledger == INSTANCE StockLedger WITH
            held <- [o \in Order |-> Reserved(order[o])],
            closed <- {o \in Order : order[o].status \in Released},
            Recounted <- IF CatalogOps \cap {"setStock", "restoreSku"} = {} THEN {} ELSE Sku,
            Erased <- IF "forceDeleteSku" \in CatalogOps THEN Sku ELSE {}
LedgerSpec == Ledger!Spec

\* An idempotency key names at most one order, and a client told that an order
\* was created or reused gets the order of its own key, made from its own body.
KeyIdentifiesOrder ==
  /\ \A o1, o2 \in Order : order[o1].key = order[o2].key /\ order[o1].key # None => o1 = o2
  /\ \A r \in Req : reply[r].answer \in {"created", "reused"} =>
       /\ order[reply[r].order].key = in[r].key
       /\ order[reply[r].order].payload = PayloadOf(in[r])

\* No invoice number is on two orders, and the committed rows satisfy the
\* CHECK constraints that tie the life cycle timestamps to the status.
ConstraintsHold ==
  /\ \A o1, o2 \in Order :
       order[o1].invoice = order[o2].invoice /\ order[o1].invoice # None => o1 = o2
  /\ \A o \in Order : RowChecks(order[o])

\* No lost update: two requests that both changed one order started from
\* different versions of it, and its version counts them.
NoLostUpdate ==
  \A r1, r2 \in Req :
    /\ reply[r1].answer = "updated" /\ reply[r2].answer = "updated"
    /\ reply[r1].order = reply[r2].order
    => /\ r1 # r2 => seen[r1].version # seen[r2].version
       /\ order[reply[r1].order].version > seen[r1].version

\* A committed update was computed from the row and the items it replaces,
\* although both were read earlier, in two statements and without a lock;
\* only items of SKUs deleted meanwhile may differ.
ComputedFromCurrent ==
  [][\A r \in Req : reply[r].answer # "updated" /\ reply'[r].answer = "updated" =>
       LET row == order[in[r].order]
       IN  /\ row.version = seen[r].version /\ row.status = seen[r].status
           /\ \A s \in Sku : skuState[s] # "gone" => row.items[s] = seen[r].items[s]]_vars

\* An order's status only follows the life cycle, each change of the row by a
\* request raises the version by one, and an order is never removed.
LifeCycleFollowed ==
  [][\A o \in Order : order[o].status # "absent" =>
       /\ order'[o].status # "absent"
       /\ isOrderStatusTransitionAllowed(order[o].status, order'[o].status)
       /\ order'[o].version \in {order[o].version, order[o].version + 1}
       /\ order'[o].version = order[o].version =>
            order'[o] = [order[o] EXCEPT !.items = order'[o].items]]_vars

\* Every request that arrived is answered: transactions that wait for each
\* other's rows do not wait forever.
EveryRequestAnswered == \A r \in Req : pc[r] # "idle" ~> pc[r] = "done"

-----------------------------------------------------------------------------
(* The inductive invariant that the proofs in OrdersProofs rest on *)

Writing == {"sku", "product", "insert", "update", "invoice", "commit"}
Planned == Writing \cup {"checkStock"}
Claimed == {"invoice", "commit"}

\* Creates and updates keep to their own part of the program.
OwnPath(r) ==
  IF in[r].op = "create"
  THEN pc[r] \notin {"validate", "readRow", "readItems", "checkStock", "update"}
  ELSE pc[r] \notin {"findKey", "findSkus", "insert", "findAgain"}

\* Locks are held by writing transactions, and a locked SKU row can bear the
\* change its transaction has made to it.
LocksSound(r) ==
  /\ \A x \in Lockable : lock[x] = r => pc[r] \in Writing
  /\ \A s \in Sku : lock[s] = r => skuState[s] # "gone" /\ stock[s] + Delta(r, s) >= 0

\* A transaction past its inventory loop has locked every SKU it changes.
LoopSound(r) ==
  pc[r] \in Writing =>
    /\ \A s \in Sku : Delta(r, s) # 0 => s \in todo[r] \/ lock[s] = r
    /\ pc[r] \notin {"sku", "product"} => todo[r] = {}
    /\ \A s \in Sku : pc[r] = "product" /\ IsNext(r, s) => lock[s] = r

\* What an update read is what is committed as long as the version is the same,
\* and it is the same once the transaction has locked the order.
SnapshotSound(r) ==
  LET row == order[in[r].order]
  IN  in[r].op # "create" =>
        /\ pc[r] \in Planned \cup {"readItems"} =>
             /\ row.status # "absent"
             /\ row.version >= seen[r].version
             /\ row.version = seen[r].version => seen[r] = [row EXCEPT !.items = seen[r].items]
        /\ pc[r] \in Planned =>
             /\ row.version = seen[r].version =>
                  \A s \in Sku : skuState[s] # "gone" => row.items[s] = seen[r].items[s]
             /\ next[r] = Proposed(in[r], seen[r])
             /\ isOrderStatusTransitionAllowed(seen[r].status, next[r].status)
        /\ pc[r] \in Claimed => lock[in[r].order] = r /\ row.version = seen[r].version

\* A create has inserted nothing before it is done, and owns its key from the
\* insert on.
CreateSound(r) ==
  in[r].op = "create" =>
    /\ pc[r] # "done" => order[r].status = "absent"
    /\ pc[r] \in Writing => seen[r] = AbsentRow /\ next[r] = Created(in[r])
    /\ pc[r] \in Claimed => lock[in[r].key] = r /\ ~KeyTaken(r)

\* A transaction about to commit a new invoice number owns it, and no other
\* order has it.
InvoiceSound(r) ==
  /\ pc[r] = "invoice" => NewInvoice(r)
  /\ pc[r] = "commit" /\ NewInvoice(r) => lock[next[r].invoice] = r /\ ~InvoiceTaken(r)

\* No committed item refers to a deleted SKU row (the foreign key).
ItemsSound == \A o \in Order, s \in Sku : skuState[s] = "gone" => order[o].items[s] = 0

ReqInv(r) ==
  /\ OwnPath(r) /\ LocksSound(r) /\ LoopSound(r)
  /\ SnapshotSound(r) /\ CreateSound(r) /\ InvoiceSound(r)

\* The inductive invariant: all of the above, for every request.
IInv == TypeOK /\ ItemsSound /\ \A r \in Req : ReqInv(r)

\* What the test "createOrder reuses an idempotency key and rejects conflicting
\* payloads" says of the key: a request whose order exists is not refused stock.
ReusesIdempotencyKey ==
  [][\A r \in Req :
       /\ in[r].op = "create" /\ reply[r].answer = "none"
       /\ reply'[r].answer = "insufficientStock"
       => ~\E o \in Order : order[o].key = in[r].key /\ order[o].payload = PayloadOf(in[r])]_vars

================================================================================
