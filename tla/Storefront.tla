-------------------------------- MODULE Storefront --------------------------------
(***************************************************************************)
(* What visitors are shown of the category hierarchy                       *)
(* (apps/api/src/modules/storefront, utils/catalog.ts), while it changes.  *)
(*                                                                         *)
(* A visitor's request reads the active categories with one query and the  *)
(* products, or their numbers per category, with a second.  Between the    *)
(* two anything may happen to categories and products (CategoryTree).  The *)
(* service then walks the categories it has read with two worklists.       *)
(*                                                                         *)
(* A product is offered while it is published and has an active SKU; what  *)
(* is filed, archived and restored is in CategoryTree.  Left out: search,  *)
(* sorting, pages, and products or SKUs looked up one by one.              *)
(* Definitions whose names begin with Wrong are not part of the model.     *)
(***************************************************************************)
EXTENDS CategoryTree, Sequences, SequencesExt

CONSTANT NoRows   \* the visitor has read no categories

ASSUME NoRowsAssumption == NoRows \notin [rows : SUBSET Category, upper : [Category -> Parent]]
ASSUME ProductAssumption == IsFiniteSet(Product)

VARIABLES
  offered,   \* products that are published and have an active SKU
  seen       \* the categories the visitor's request has read, or NoRows

shopVars == <<vars, offered, seen>>

-----------------------------------------------------------------------------
(* The catalog goes on *)

\* Archiving a product unpublishes it, restoring it does not publish it.
Manage ==
  /\ Next
  /\ offered' = offered \ (archived' \ archived)
  /\ UNCHANGED seen

\* A product is published or unpublished, or gets its first or loses its last
\* active SKU.  Neither looks again whether the product has been archived.
Offer(p) ==
  /\ p \notin offered /\ offered' = offered \cup {p}
  /\ UNCHANGED <<vars, seen>>

Withdraw(p) ==
  /\ p \in offered /\ offered' = offered \ {p}
  /\ UNCHANGED <<vars, seen>>

-----------------------------------------------------------------------------
(* The queries *)

OnSale == offered \ archived

\* countProductsForCategoryIds is one query: every product is counted once.
Count(c) == Cardinality({p \in OnSale : filed[p] = c})

\* listProducts, given the categories to list.
Listing(ids) == {p \in OnSale : filed[p] \in ids}

\* listCategories reads every category that is not deleted.
ReadCategories ==
  /\ seen = NoRows
  /\ seen' = [rows  |-> {c \in Category : Active(c)},
              upper |-> [c \in Category |-> IF Active(c) THEN parent[c] ELSE None]]
  /\ UNCHANGED <<vars, offered>>

\* The second query, and the answer made of both.
AnswerVisitor == seen # NoRows /\ seen' = NoRows /\ UNCHANGED <<vars, offered>>

-----------------------------------------------------------------------------
(* The walks over the categories t that have been read *)

Children(t, c) == {x \in t.rows : t.upper[x] = c}

Walk(t) == [pending : Seq(t.rows), ids : SUBSET t.rows, valid : BOOLEAN]

\* The last pending category is taken up.  Meeting one twice means the hierarchy is
\* broken: the request fails.
TakeUp(t, w) ==
  LET c == Last(w.pending)
  IN  [pending |-> Front(w.pending) \o SetToSeq(Children(t, c)),
       ids     |-> w.ids \cup {c},
       valid   |-> c \notin w.ids]

\* The categories whose products a category lists.
Descendants(t, root) ==
  LET walk[w \in Walk(t)] ==
        IF w.pending = <<>> \/ ~w.valid THEN w ELSE walk[TakeUp(t, w)]
  IN  walk[[pending |-> <<root>>, ids |-> {}, valid |-> TRUE]]

Tally(t) == [pending : Seq(t.rows), left : [t.rows -> Int], totals : [t.rows -> Nat],
             processed : Nat]

\* A category is taken up once for each of its children.
WrongPassOn(t, w) ==
  LET c    == Last(w.pending)
      p    == t.upper[c]
      next == [w EXCEPT !.pending = Front(@), !.processed = @ + 1]
  IN  IF p \notin t.rows THEN next
      ELSE [next EXCEPT !.pending = Append(@, p), !.totals[p] = @ + w.totals[c]]

\* The last pending category passes its number on.  Its parent is taken up once all
\* of its children have passed theirs on.
PassOn(t, w) ==
  LET c    == Last(w.pending)
      p    == t.upper[c]
      next == [w EXCEPT !.pending = Front(@), !.processed = @ + 1]
  IN  IF p \notin t.rows THEN next
      ELSE [next EXCEPT !.pending = IF w.left[p] = 1 THEN Append(@, p) ELSE @,
                        !.left[p] = @ - 1,
                        !.totals[p] = @ + w.totals[c]]

\* Numbers of products are passed upwards.  If some category is never taken up, the
\* request fails.
Aggregated(t) ==
  LET sum[w \in Tally(t)] == IF w.pending = <<>> THEN w ELSE sum[PassOn(t, w)]
  IN  sum[[pending   |-> SetToSeq({c \in t.rows : Children(t, c) = {}}),
           left      |-> [c \in t.rows |-> Cardinality(Children(t, c))],
           totals    |-> [c \in t.rows |-> Count(c)],
           processed |-> 0]]

\* Categories without products are not shown.
Visible(totals) == {c \in DOMAIN totals : totals[c] > 0}

\* The menu: a category whose parent is not in the list becomes a root.
Roots(t, list) == {c \in list : t.upper[c] \notin list}

-----------------------------------------------------------------------------
ShopInit ==
  /\ Init
  /\ offered = Product
  /\ seen = NoRows

ShopNext ==
  \/ Manage
  \/ \E p \in Product : Offer(p) \/ Withdraw(p)
  \/ ReadCategories
  \/ AnswerVisitor

ShopSpec == ShopInit /\ [][ShopNext]_shopVars

\* Fairness is that of the transactions: visitors and products promise nothing.
FairShopSpec ==
  ShopSpec /\ \A r \in Req : WF_vars(Begin(r) \/ Write(r) \/ FileProduct(r))

-----------------------------------------------------------------------------
(* Properties *)

\* The categories a request has read are a forest, closed upwards: on this the
\* walks rely.
SnapshotSound ==
  seen # NoRows =>
    /\ \A c \in seen.rows : seen.upper[c] \in seen.rows \cup {None}
    /\ \A S \in SUBSET seen.rows : S # {} => \E c \in S : seen.upper[c] \notin S

\* S is c and everything below it, in a forest.
Beneath(t, c, S) == c \in S /\ \A x \in t.rows \ {c} : x \in S <=> t.upper[x] \in S

\* Whatever happens to categories and products before and between its two queries,
\* no visitor's request fails with "The storefront category hierarchy is invalid",
\* a category's number of products is the length of its listing, the listing has
\* the products of everything below it, and no category is shown without the
\* categories above it.
AnswersAddUp ==
  /\ SnapshotSound
  /\ seen # NoRows =>
       LET sums == Aggregated(seen)
       IN  /\ sums.processed = Cardinality(seen.rows)
           /\ \A c \in seen.rows :
                LET below == Descendants(seen, c)
                IN  /\ below.valid
                    /\ Beneath(seen, c, below.ids)
                    /\ sums.totals[c] = Cardinality(Listing(below.ids))
           /\ \A c \in Roots(seen, Visible(sums.totals)) : seen.upper[c] = None

================================================================================
