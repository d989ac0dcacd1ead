------------------------------- MODULE CategoryTree -------------------------------
(***************************************************************************)
(* The product category hierarchy                                          *)
(* (apps/api/src/modules/management/category, catalog.repository.ts).      *)
(*                                                                         *)
(* A request first checks its input against committed rows, without a      *)
(* lock.  It then runs one transaction that takes an advisory lock on the  *)
(* whole hierarchy, reads again, plans its writes from what it read, and   *)
(* writes.  Products are filed under categories by requests that take no   *)
(* lock at all.                                                            *)
(*                                                                         *)
(* Left out: slugs (a check, then a unique index) and updates that change  *)
(* neither the parent nor the position, which touch nothing below.         *)
(* Definitions whose names begin with Wrong are not part of the model: each *)
(* is a mistake the definition after it could have had.                    *)
(***************************************************************************)
EXTENDS Integers, FiniteSets

CONSTANTS
  Seed,        \* category rows that exist from the start
  Req,         \* requests; a category created by request r has identifier r
  Product,
  None,        \* SQL NULL, and "no holder" of the lock
  Keep,        \* undefined in an update: the column is left alone
  Inputs,      \* what the requests ask, a set of Input records
  Trees,       \* parents the seed categories may start with
  Name,        \* Name[c]: rank of the category's name
  ProductOps   \* product operations that may interfere

Category == Seed \cup Req

Parent == Category \cup {None, Keep}
Place == Nat \cup {Keep}

Input == [op: {"create", "update", "reorder", "delete", "file"},
          category: Category,            \* whom an update or a delete is about
          parent: Parent,                \* the parent to have; whose children to reorder
          position: Place,
          places: [Category -> Place],   \* a reorder's list: the index of each category
          products: {"reject", "uncategorize", "reassign"},
          children: {"reject", "promote"},
          target: Category \cup {None},  \* where products go: reassigned, or filed
          product: Product]

Listed(places) == {c \in Category : places[c] # Keep}

Plan == [parents: [Category -> Parent], positions: [Category -> Place],
         products: {"none", "uncategorize", "reassign"}]
Kept == [c \in Category |-> Keep]
NoPlan == [parents |-> Kept, positions |-> Kept, products |-> "none"]

ASSUME NullAssumption ==
  None \notin Category /\ Keep \notin Category \cup {None} /\ Keep \notin Nat
ASSUME SeedAssumption == Seed \cap Req = {} /\ IsFiniteSet(Seed) /\ IsFiniteSet(Req)
ASSUME InputsAssumption ==
  /\ Inputs \subseteq Input
  /\ \A i \in Inputs : /\ (i.op \in {"create", "reorder"} => i.parent # Keep)
                       /\ (i.op = "create" => i.position # Keep)
                       /\ (i.op = "update" => i.parent # Keep \/ i.position # Keep)
\* The schema refuses a list with duplicates: the indexes of its members have no gaps.
ASSUME OrderAssumption ==
  \A i \in Inputs : LET list == Listed(i.places)
                    IN  i.op = "reorder" => {i.places[c] : c \in list} = 0..(Cardinality(list) - 1)
ASSUME NameAssumption ==
  /\ Name \in [Category -> Nat]
  /\ \A c, d \in Category : Name[c] = Name[d] => c = d
ASSUME TreesAssumption ==
  /\ Trees \subseteq [Category -> Seed \cup {None}]
  /\ \A t \in Trees : /\ \A r \in Req : t[r] = None
                      /\ \A S \in SUBSET Category : S # {} => \E c \in S : t[c] \notin S
ASSUME ProductOpsAssumption == ProductOps \subseteq {"archive", "restore"}

VARIABLES
  state,      \* state[c]: "absent", "active" or "deleted" (deletedAt set)
  parent,     \* parent[c]
  position,   \* position[c], its place among its siblings
  filed,      \* filed[p]: the category of product p
  archived,   \* products whose deletedAt is set
  lock,       \* the request that holds the advisory lock, or None
  pc, in,     \* where each request is, and its input
  plan,       \* plan[r]: what its transaction will write
  reply       \* reply[r]: what the client is answered

rows == <<state, parent, position>>
vars == <<state, parent, position, filed, archived, lock, pc, in, plan, reply>>

-----------------------------------------------------------------------------
Active(c) == c \in Category /\ state[c] = "active"
Siblings(p) == {c \in Category : state[c] = "active" /\ parent[c] = p}

\* The categories the walk from p towards the root meets.
Closed(S) == \A x \in S : parent[x] \in S \cup {None}
Chain(p) == {c \in Category : \A S \in SUBSET Category :
               (Closed(S) /\ p \in S \cup {None}) => c \in S}

\* ORDER BY position, name: how many of S come before c.
Before(c, d) ==
  \/ position[c] < position[d]
  \/ position[c] = position[d] /\ Name[c] < Name[d]
Rank(c, S) == Cardinality({d \in S : Before(d, c)})

InUse(c) == {p \in Product \ archived : filed[p] = c}

Goto(r, label) == pc' = [pc EXCEPT ![r] = label]

\* The lock belongs to the session and outlives the transaction.
WrongFinish(r, answer) ==
  /\ reply' = [reply EXCEPT ![r] = answer]
  /\ Goto(r, "done")
  /\ UNCHANGED <<rows, filed, archived, lock, in, plan>>

\* The request is answered; its transaction, if any, ends without writing.
Finish(r, answer) ==
  /\ lock' = IF lock = r THEN None ELSE lock
  /\ reply' = [reply EXCEPT ![r] = answer]
  /\ Goto(r, "done")
  /\ UNCHANGED <<rows, filed, archived, in, plan>>

Init ==
  /\ state = [c \in Category |-> IF c \in Seed THEN "active" ELSE "absent"]
  /\ parent \in Trees
  /\ position = [c \in Category |-> 0]
  /\ filed \in [Product -> Seed]
  /\ archived = {}
  /\ lock = None
  /\ pc = [r \in Req |-> "idle"]
  /\ in \in [Req -> Inputs]
  /\ plan = [r \in Req |-> NoPlan]
  /\ reply = [r \in Req |-> "none"]

-----------------------------------------------------------------------------
(* The service's checks, on committed rows and without the lock *)

Pass(r) ==
  /\ Goto(r, IF in[r].op = "file" THEN "file" ELSE "begin")
  /\ UNCHANGED <<rows, filed, archived, lock, in, plan, reply>>

CheckCreate(r) ==
  /\ pc[r] = "idle" /\ in[r].op = "create"
  /\ \/ in[r].parent # None /\ ~Active(in[r].parent) /\ Finish(r, "notFound")
     \/ (in[r].parent = None \/ Active(in[r].parent)) /\ Pass(r)

CheckReorder(r) == pc[r] = "idle" /\ in[r].op = "reorder" /\ Pass(r)

CheckUpdate(r) ==
  LET i        == in[r]
      newUpper == i.parent \in Category
      found    == Active(i.category) /\ (newUpper => Active(i.parent))
      circular == newUpper /\ i.category \in Chain(i.parent)
  IN  /\ pc[r] = "idle" /\ i.op = "update"
      /\ \/ ~found /\ Finish(r, "notFound")
         \/ found /\ circular /\ Finish(r, "hierarchyConflict")
         \/ found /\ ~circular /\ Pass(r)

\* Without products to move the disposition is "none", whatever was asked.
CheckDelete(r) ==
  LET i     == in[r]
      used  == InUse(i.category) # {}
      moves == used /\ i.products = "reassign"
  IN  /\ pc[r] = "idle" /\ i.op = "delete"
      /\ \/ ~Active(i.category) /\ Finish(r, "notFound")
         \/ /\ Active(i.category) /\ used /\ i.products = "reject"
            /\ Finish(r, "hasProducts")
         \/ /\ Active(i.category) /\ moves /\ i.target \in {None, i.category}
            /\ Finish(r, "reassignConflict")
         \/ /\ Active(i.category) /\ moves /\ i.target \notin {None, i.category}
            /\ ~Active(i.target) /\ Finish(r, "notFound")
         \/ /\ Active(i.category)
            /\ (used => i.products # "reject")
            /\ (moves => Active(i.target) /\ i.target # i.category)
            /\ plan' = [plan EXCEPT ![r].products = IF used THEN i.products ELSE "none"]
            /\ Goto(r, "begin")
            /\ UNCHANGED <<rows, filed, archived, lock, in, reply>>

\* updateProduct looks the product and its new category up first.
CheckFile(r) ==
  LET found == /\ in[r].product \notin archived
               /\ in[r].target = None \/ Active(in[r].target)
  IN  /\ pc[r] = "idle" /\ in[r].op = "file"
      /\ \/ ~found /\ Finish(r, "notFound")
         \/ found /\ Pass(r)

-----------------------------------------------------------------------------
(* Transactions: lock the hierarchy, read it again, plan the writes *)

\* No lock is taken.
WrongAcquire(r) == UNCHANGED lock
Acquire(r) == lock = None /\ lock' = r

\* What the transaction answers without writing anything.
Refuse(r, answer) == lock = None /\ Finish(r, answer)

Prepare(r, parents, positions) ==
  /\ Acquire(r)
  /\ plan' = [plan EXCEPT ![r].parents = parents, ![r].positions = positions]
  /\ Goto(r, "write")
  /\ UNCHANGED <<rows, filed, archived, in, reply>>

CreateCategory(r) ==
  LET p == in[r].parent
  IN  /\ pc[r] = "begin" /\ in[r].op = "create"
      /\ \/ p # None /\ ~Active(p) /\ Refuse(r, "notFound")
         \/ /\ p = None \/ Active(p)
            /\ Prepare(r, [Kept EXCEPT ![r] = p], [Kept EXCEPT ![r] = in[r].position])

\* The walk from the new parent must not meet the category or a deleted one.
UpdateCategory(r) ==
  LET i     == in[r]
      climb == IF i.parent = Keep THEN {} ELSE Chain(i.parent)
      sound == i.category \notin climb /\ \A c \in climb : Active(c)
  IN  /\ pc[r] = "begin" /\ i.op = "update"
      /\ \/ ~sound /\ Refuse(r, "hierarchyConflict")
         \/ /\ sound
            /\ Prepare(r, [Kept EXCEPT ![i.category] = i.parent],
                          [Kept EXCEPT ![i.category] = i.position])

ReorderSiblings(r) ==
  LET current == Siblings(in[r].parent) = Listed(in[r].places)
  IN  /\ pc[r] = "begin" /\ in[r].op = "reorder"
      /\ \/ ~current /\ Refuse(r, "reorderConflict")
         \/ current /\ Prepare(r, Kept, in[r].places)

\* Promoted children are inserted where the category was.
WrongSpliced(c, kids, others) ==
  LET at == IF position[c] < Cardinality(others) THEN position[c] ELSE Cardinality(others)
  IN  [x \in Category |-> CASE x \in kids   -> at + Rank(x, kids)
                            [] x \in others -> Rank(x, others)
                            [] OTHER        -> Keep]

Spliced(c, kids, others) ==
  LET at == IF position[c] < Cardinality(others) THEN position[c] ELSE Cardinality(others)
      \* siblings from there on make room
      room(x) == IF Rank(x, others) < at THEN 0 ELSE Cardinality(kids)
  IN  [x \in Category |-> CASE x \in kids   -> at + Rank(x, kids)
                            [] x \in others -> Rank(x, others) + room(x)
                            [] OTHER        -> Keep]

DeleteCategory(r) ==
  LET i       == in[r]
      c       == i.category
      kids    == Siblings(c)
      others  == Siblings(parent[c]) \ {c}
      target  == plan[r].products = "reassign" => Active(i.target) /\ i.target # c
  IN  /\ pc[r] = "begin" /\ i.op = "delete"
      /\ \/ ~Active(c) /\ Refuse(r, "notFound")
         \/ Active(c) /\ ~target /\ Refuse(r, "reassignConflict")
         \/ Active(c) /\ target /\ i.children = "reject" /\ kids # {} /\ Refuse(r, "hasChildren")
         \/ /\ Active(c) /\ target /\ (i.children = "reject" => kids = {})
            /\ plan[r].products = "none" /\ InUse(c) # {}
            /\ Refuse(r, "hasProducts")
         \/ /\ Active(c) /\ target /\ (i.children = "reject" => kids = {})
            /\ (plan[r].products = "none" => InUse(c) = {})
            /\ Prepare(r, [x \in Category |-> IF x \in kids THEN parent[c] ELSE Keep],
                          Spliced(c, kids, others))

-----------------------------------------------------------------------------
(* The writes, and the end of the transaction *)

Overlay(f, g) == [c \in Category |-> IF g[c] = Keep THEN f[c] ELSE g[c]]

\* Products in the trash keep their category.
Refiled(r, p) ==
  IF in[r].op = "delete" /\ p \in InUse(in[r].category)
  THEN CASE plan[r].products = "uncategorize" -> None
         [] plan[r].products = "reassign"     -> in[r].target
         [] OTHER -> filed[p]
  ELSE filed[p]

Write(r) ==
  /\ pc[r] = "write"
  /\ parent' = Overlay(parent, plan[r].parents)
  /\ position' = Overlay(position, plan[r].positions)
  /\ state' = [c \in Category |->
       CASE in[r].op = "create" /\ c = r -> "active"
         [] in[r].op = "delete" /\ c = in[r].category -> "deleted"
         [] OTHER -> state[c]]
  /\ filed' = [p \in Product |-> Refiled(r, p)]
  /\ lock' = IF lock = r THEN None ELSE lock
  /\ reply' = [reply EXCEPT ![r] = in[r].op]
  /\ Goto(r, "done")
  /\ UNCHANGED <<archived, in, plan>>

\* The product row is written; its foreign key accepts a deleted category.
FileProduct(r) ==
  /\ pc[r] = "file"
  /\ filed' = [filed EXCEPT ![in[r].product] = in[r].target]
  /\ reply' = [reply EXCEPT ![r] = "file"]
  /\ Goto(r, "done")
  /\ UNCHANGED <<rows, archived, lock, in, plan>>

\* A lost connection or a time limit rolls the transaction back.
Fail(r) == pc[r] \in {"begin", "write", "file"} /\ Finish(r, "failed")

\* softDeleteProduct and restoreProduct.
Archive(p) ==
  /\ "archive" \in ProductOps /\ p \notin archived
  /\ archived' = archived \cup {p}
  /\ UNCHANGED <<rows, filed, lock, pc, in, plan, reply>>

Restore(p) ==
  /\ "restore" \in ProductOps /\ p \in archived
  /\ archived' = archived \ {p}
  /\ UNCHANGED <<rows, filed, lock, pc, in, plan, reply>>

Check(r) == CheckCreate(r) \/ CheckReorder(r) \/ CheckUpdate(r) \/ CheckDelete(r) \/ CheckFile(r)
Begin(r) == CreateCategory(r) \/ UpdateCategory(r) \/ ReorderSiblings(r) \/ DeleteCategory(r)

Next ==
  \/ \E r \in Req : Check(r) \/ Begin(r) \/ Write(r) \/ FileProduct(r) \/ Fail(r)
  \/ \E p \in Product : Archive(p) \/ Restore(p)

Spec == Init /\ [][Next]_vars

\* A transaction is run to its end once the lock is free: Postgres grants it in turn.
FairSpec == Spec /\ \A r \in Req : WF_vars(Begin(r) \/ Write(r) \/ FileProduct(r))

-----------------------------------------------------------------------------
(* Properties *)

Answer == {"create", "update", "reorder", "delete", "file", "notFound", "hierarchyConflict",
           "reassignConflict", "hasChildren", "hasProducts", "reorderConflict", "failed"}

\* Every variable has its type; positions satisfy the table's CHECK (>= 0).
TypeOK ==
  /\ state \in [Category -> {"absent", "active", "deleted"}]
  /\ parent \in [Category -> Category \cup {None}]
  /\ position \in [Category -> Nat]
  /\ filed \in [Product -> Category \cup {None}]
  /\ archived \subseteq Product
  /\ lock \in Req \cup {None}
  /\ pc \in [Req -> {"idle", "begin", "write", "file", "done"}]
  /\ in \in [Req -> Inputs]
  /\ plan \in [Req -> Plan]
  /\ reply \in [Req -> Answer \cup {"none"}]

\* No set of categories is closed under going up: following parents ends.
Acyclic == \A S \in SUBSET Category : S # {} => \E c \in S : parent[c] \notin S

\* Whatever creates, moves and deletes run at the same time, the categories form
\* a forest in which an active category never hangs below a deleted one.
Forest ==
  /\ Acyclic
  /\ \A c \in Category : (Active(c) /\ parent[c] # None) => Active(parent[c])

\* What r has written leaves the siblings numbered without gaps.
Numbered(r) ==
  LET i     == in[r]
      upper == IF i.op = "reorder" THEN i.parent ELSE parent[i.category]
      list  == {c \in Category : state'[c] = "active" /\ parent'[c] = upper}
  IN  /\ {position'[c] : c \in list} = 0..(Cardinality(list) - 1)
      /\ (i.op = "reorder" =>
            list = Listed(i.places) /\ \A c \in list : position'[c] = i.places[c])
      /\ (i.op = "delete" => \A c, d \in list :
            (parent[c] = parent[d] /\ Before(c, d)) => position'[c] < position'[d])

\* After a reorder or a delete the siblings are numbered without gaps: in the
\* order that was sent, or in their old order with promoted children in place
\* of their parent, although the numbers were computed from earlier reads.
Renumbered ==
  [][\A r \in Req :
       (reply[r] = "none" /\ reply'[r] \in {"delete", "reorder"}) => Numbered(r)]_vars

\* Requests that wait for the hierarchy lock are answered: it is always released.
EveryRequestAnswered == \A r \in Req : pc[r] # "idle" ~> pc[r] = "done"

\* A deleted category holds no product that is on sale: the service refuses
\* with "Products assigned to this category must be reassigned or uncategorized
\* before deletion."
DeletedCategoriesAreEmpty ==
  \A p \in Product \ archived : filed[p] # None => Active(filed[p])

-----------------------------------------------------------------------------
(* The inductive invariant behind Forest and Renumbered *)

\* Parents are rows that exist.
RowsSound ==
  \A c \in Category :
    /\ (parent[c] # None => state[parent[c]] # "absent")
    /\ (state[c] = "absent" => parent[c] = None)

\* Identifiers of rows to be created are not used by other requests' rows.
StillAbsent(r) == pc[r] # "done" => state[r] = "absent"

\* The parents and the positions a transaction has planned are right for the tree as
\* it is now.
PlanFits(r) ==
  LET i == in[r]
  IN  /\ i.op # "file"
      /\ (i.op = "create" =>
            /\ plan[r].parents = [Kept EXCEPT ![r] = i.parent]
            /\ i.parent = None \/ Active(i.parent))
      /\ (i.op = "update" =>
            /\ state[i.category] # "absent"
            /\ plan[r].parents = [Kept EXCEPT ![i.category] = i.parent]
            /\ (i.parent \in Category =>
                  i.category \notin Chain(i.parent) /\ \A x \in Chain(i.parent) : Active(x)))
      /\ (i.op = "reorder" =>
            /\ plan[r].parents = Kept /\ plan[r].positions = i.places
            /\ Siblings(i.parent) = Listed(i.places))
      /\ (i.op = "delete" =>
            /\ Active(i.category)
            /\ plan[r].parents = [c \in Category |->
                 IF c \in Siblings(i.category) THEN parent[i.category] ELSE Keep]
            /\ plan[r].positions = Spliced(i.category, Siblings(i.category),
                                           Siblings(parent[i.category]) \ {i.category}))

PlanSound(r) == pc[r] = "write" => lock = r /\ PlanFits(r)

\* The service lets no update through for a row that never existed.
Begun(r) == (pc[r] = "begin" /\ in[r].op = "update") => state[in[r].category] # "absent"

\* The inductive invariant: what the proofs carry from step to step.
IInv ==
  /\ TypeOK /\ Forest /\ RowsSound
  /\ \A r \in Req : StillAbsent(r) /\ PlanSound(r) /\ Begun(r)

================================================================================
