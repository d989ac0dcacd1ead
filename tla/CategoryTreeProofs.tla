----------------------------- MODULE CategoryTreeProofs -----------------------------
(***************************************************************************)
(* Proofs about CategoryTree and Storefront, for every set of categories,  *)
(* products, requests and inputs.                                          *)
(*                                                                         *)
(* The categories stay a forest: IInv is inductive.  The lemmas on Acyclic *)
(* say what the three ways to change a parent do to the tree; PlanFits is  *)
(* what makes a planned change one of those three, and what a reorder or a *)
(* delete leaves numbered from 0 without gaps.                             *)
(*                                                                         *)
(* Every behaviour of Storefront is one of CategoryTree, so this holds     *)
(* while visitors read, and what they read is a forest.  On a forest the   *)
(* two worklists end and return what they should: each is a loop, written  *)
(* as a recursive function on its states, that keeps an invariant and      *)
(* comes nearer to its end with every step (LoopRule).                     *)
(***************************************************************************)
EXTENDS Storefront, FiniteSetTheorems, TLAPS

-----------------------------------------------------------------------------
(* Types *)

LEMMA Distinct ==
  /\ None \notin Category /\ Keep \notin Category /\ Keep # None /\ Keep \notin Nat
  /\ \A r \in Req : r \in Category /\ r # None
BY NullAssumption DEF Category

LEMMA InputTypes ==
  ASSUME TypeOK, NEW r \in Req
  PROVE  /\ in[r] \in Input /\ in[r] \in Inputs
         /\ in[r].category \in Category /\ in[r].product \in Product
         /\ in[r].target \in Category \cup {None}
         /\ in[r].parent \in Parent
         /\ (in[r].op \in {"create", "reorder"} => in[r].parent \in Category \cup {None})
         /\ in[r].position \in Place /\ in[r].places \in [Category -> Place]
         /\ in[r].op \in {"create", "update", "reorder", "delete", "file"}
         /\ in[r].products \in {"reject", "uncategorize", "reassign"}
<1>1. in[r] \in Inputs /\ in[r] \in Input
  BY InputsAssumption DEF TypeOK
<1>2. in[r].op \in {"create", "reorder"} => in[r].parent # Keep
  BY <1>1, InputsAssumption
<1> QED
  BY <1>1, <1>2 DEF Input, Parent

LEMMA KeptTypes == Kept \in [Category -> Parent] /\ Kept \in [Category -> Place]
BY DEF Kept, Parent, Place

LEMMA RankType ==
  ASSUME NEW c, NEW S \in SUBSET Category
  PROVE  Rank(c, S) \in Nat /\ Cardinality(S) \in Nat
<1>1. IsFiniteSet(Category)
  BY SeedAssumption, FS_Union DEF Category
<1>2. IsFiniteSet(S) /\ IsFiniteSet({d \in S : Before(d, c)})
  BY <1>1, FS_Subset, Zenon
<1> QED
  BY <1>2, FS_CardinalityType DEF Rank

LEMMA SplicedType ==
  ASSUME TypeOK, NEW c \in Category, NEW kids \in SUBSET Category,
         NEW others \in SUBSET Category
  PROVE  Spliced(c, kids, others) \in [Category -> Place]
<1> DEFINE at == IF position[c] < Cardinality(others) THEN position[c] ELSE Cardinality(others)
           room(x) == IF Rank(x, others) < at THEN 0 ELSE Cardinality(kids)
<1>1. at \in Nat /\ Cardinality(kids) \in Nat
  BY RankType DEF TypeOK
<1>2. \A x \in Category : at + Rank(x, kids) \in Nat /\ Rank(x, others) + room(x) \in Nat
  BY <1>1, RankType
<1> HIDE DEF at, room
<1>3. Spliced(c, kids, others) =
        [x \in Category |-> CASE x \in kids   -> at + Rank(x, kids)
                              [] x \in others -> Rank(x, others) + room(x)
                              [] OTHER        -> Keep]
  BY DEF Spliced, at, room
<1> QED
  BY <1>2, <1>3 DEF Place

-----------------------------------------------------------------------------
(* What changing parents does to the tree *)

LEMMA OwnChain ==
  ASSUME NEW p \in Category
  PROVE  p \in Chain(p)
BY Distinct DEF Chain

\* Chain(p) goes on upwards.
LEMMA ChainClimbs ==
  ASSUME NEW p, NEW x \in Chain(p), parent[x] \in Category
  PROVE  parent[x] \in Chain(p)
<1> SUFFICES ASSUME NEW S \in SUBSET Category, Closed(S), p \in S \cup {None}
             PROVE  parent[x] \in S
  BY DEF Chain
<1>1. x \in S
  BY DEF Chain
<1> QED
  BY <1>1, Distinct DEF Closed

\* Moving c below p keeps the tree a tree if c is not above p.
LEMMA MoveKeepsAcyclic ==
  ASSUME Acyclic, parent \in [Category -> Category \cup {None}],
         NEW c \in Category, NEW p \in Category, c \notin Chain(p),
         NEW f, \A x \in Category \ {c} : f[x] = parent[x], f[c] = p,
         NEW S \in SUBSET Category, S # {}
  PROVE  \E x \in S : f[x] \notin S
<1> SUFFICES ASSUME \A x \in S : f[x] \in S
             PROVE  FALSE
  OBVIOUS
<1>1. c \in S
  BY DEF Acyclic
<1>2. p \in S \cap Chain(p)
  BY <1>1, OwnChain
<1>3. ASSUME NEW x \in S \cap Chain(p)
      PROVE  parent[x] \in S \cap Chain(p)
  <2>1. parent[x] = f[x] /\ f[x] \in S
    BY <1>3
  <2> QED
    BY <2>1, <1>3, ChainClimbs
<1> QED
  BY <1>2, <1>3 DEF Acyclic

\* A new leaf.
LEMMA CreateKeepsAcyclic ==
  ASSUME Acyclic, parent \in [Category -> Category \cup {None}],
         NEW c \in Category, \A x \in Category : parent[x] # c,
         NEW f, \A x \in Category \ {c} : f[x] = parent[x], f[c] # c,
         NEW S \in SUBSET Category, S # {}
  PROVE  \E x \in S : f[x] \notin S
<1> SUFFICES ASSUME \A x \in S : f[x] \in S
             PROVE  FALSE
  OBVIOUS
<1> DEFINE T == S \ {c}
<1>1. \A x \in T : parent[x] \in T
  OBVIOUS
<1>2. T # {}
  OBVIOUS
<1> QED
  BY <1>1, <1>2 DEF Acyclic

\* Children of c, moved to the parent of c.
LEMMA PromoteKeepsAcyclic ==
  ASSUME Acyclic, parent \in [Category -> Category \cup {None}],
         NEW c \in Category, NEW kids \in SUBSET Category, \A k \in kids : parent[k] = c,
         NEW f, \A x \in Category \ kids : f[x] = parent[x], \A x \in kids : f[x] = parent[c],
         NEW S \in SUBSET Category, S # {}
  PROVE  \E x \in S : f[x] \notin S
<1> SUFFICES ASSUME \A x \in S : f[x] \in S
             PROVE  FALSE
  OBVIOUS
<1>1. CASE S \cap kids = {}
  BY <1>1 DEF Acyclic
<1>2. CASE S \cap kids # {}
  <2> DEFINE T == S \cup {c}
  <2>1. parent[c] \in S
    BY <1>2
  <2>2. ASSUME NEW x \in T
        PROVE  parent[x] \in T
    <3>1. CASE x = c
      BY <2>1, <3>1
    <3>2. CASE x \in kids
      BY <3>2
    <3>3. CASE x \in S \ kids
      BY <3>3
    <3> QED
      BY <3>1, <3>2, <3>3
  <2>3. T \in SUBSET Category /\ T # {}
    OBVIOUS
  <2> HIDE DEF T
  <2> QED
    BY <2>2, <2>3 DEF Acyclic
<1> QED
  BY <1>1, <1>2

\* No category is its own parent.
LEMMA NoSelfParent ==
  ASSUME Acyclic, NEW c \in Category
  PROVE  parent[c] # c
<1>1. {c} \in SUBSET Category /\ {c} # {}
  OBVIOUS
<1> QED
  BY <1>1 DEF Acyclic

-----------------------------------------------------------------------------
(* Types are kept *)

LEMMA FinishType ==
  ASSUME TypeOK, NEW r \in Req, NEW a \in Answer, Finish(r, a)
  PROVE  TypeOK'
BY DEF TypeOK, Finish, Goto, rows

LEMMA PassType ==
  ASSUME TypeOK, NEW r \in Req, Pass(r)
  PROVE  TypeOK'
BY DEF TypeOK, Pass, Goto, rows

LEMMA PlanType ==
  ASSUME NEW old \in Plan, NEW f \in [Category -> Parent], NEW g \in [Category -> Place]
  PROVE  [old EXCEPT !.parents = f, !.positions = g] \in Plan
BY DEF Plan

LEMMA PrepareType ==
  ASSUME TypeOK, NEW r \in Req, NEW f \in [Category -> Parent],
         NEW g \in [Category -> Place], Prepare(r, f, g)
  PROVE  TypeOK' /\ plan'[r].parents = f /\ plan'[r].positions = g
<1> DEFINE new == [plan[r] EXCEPT !.parents = f, !.positions = g]
<1>1. plan[r] \in Plan
  BY DEF TypeOK
<1>2. new \in Plan /\ new.parents = f /\ new.positions = g
  BY <1>1, PlanType DEF Plan
<1>3. plan' = [plan EXCEPT ![r] = new]
  BY DEF Prepare, TypeOK
<1> HIDE DEF new
<1>4. plan' \in [Req -> Plan] /\ plan'[r] = new
  BY <1>2, <1>3 DEF TypeOK
<1> QED
  BY <1>2, <1>4 DEF TypeOK, Prepare, Acquire, Goto, rows

LEMMA CheckType ==
  ASSUME TypeOK, NEW r \in Req, Check(r)
  PROVE  TypeOK'
<1>1. CASE CheckDelete(r) /\ pc'[r] = "begin"
  <2>1. PICK d \in {"none", "uncategorize", "reassign"} :
          /\ plan' = [plan EXCEPT ![r].products = d]
          /\ Goto(r, "begin")
          /\ UNCHANGED <<rows, filed, archived, lock, in, reply>>
    <3>1. pc' # [pc EXCEPT ![r] = "done"]
      BY <1>1 DEF TypeOK
    <3>2. in[r].products \in {"reject", "uncategorize", "reassign"}
      BY InputTypes
    <3> QED
      BY <1>1, <3>1, <3>2 DEF CheckDelete, Finish, Goto
  <2>2. plan' \in [Req -> Plan]
    BY <2>1, ZenonT(40) DEF TypeOK, Plan
  <2> QED
    BY <2>1, <2>2 DEF TypeOK, Goto, rows
<1>2. CASE CheckDelete(r) /\ pc'[r] # "begin"
  <2>1. ~Goto(r, "begin")
    BY <1>2 DEF Goto, TypeOK
  <2> QED
    BY <1>2, <2>1, FinishType DEF CheckDelete, Answer
<1>3. CASE CheckCreate(r)
  BY <1>3, FinishType, PassType DEF CheckCreate, Answer
<1>4. CASE CheckReorder(r)
  BY <1>4, PassType DEF CheckReorder
<1>5. CASE CheckUpdate(r)
  BY <1>5, FinishType, PassType DEF CheckUpdate, Answer
<1>6. CASE CheckFile(r)
  BY <1>6, FinishType, PassType DEF CheckFile, Answer
<1> QED
  BY <1>1, <1>2, <1>3, <1>4, <1>5, <1>6 DEF Check

LEMMA RefuseType ==
  ASSUME TypeOK, NEW r \in Req, NEW a \in Answer, Refuse(r, a)
  PROVE  TypeOK'
BY FinishType DEF Refuse

\* What the transactions plan is well typed.
LEMMA PlannedTypes ==
  ASSUME TypeOK, NEW r \in Req
  PROVE  /\ \A c \in Category, p \in Parent : [Kept EXCEPT ![c] = p] \in [Category -> Parent]
         /\ \A c \in Category, n \in Place : [Kept EXCEPT ![c] = n] \in [Category -> Place]
         /\ \A c \in Category, kids \in SUBSET Category :
              [x \in Category |-> IF x \in kids THEN parent[c] ELSE Keep]
                \in [Category -> Parent]
BY KeptTypes DEF TypeOK, Parent

LEMMA BeginType ==
  ASSUME TypeOK, NEW r \in Req, Begin(r)
  PROVE  TypeOK'
<1> USE InputTypes, PlannedTypes, KeptTypes
<1>1. CASE CreateCategory(r)
  BY <1>1, RefuseType, PrepareType, Distinct DEF CreateCategory, Answer
<1>2. CASE UpdateCategory(r)
  BY <1>2, RefuseType, PrepareType DEF UpdateCategory, Answer
<1>3. CASE ReorderSiblings(r)
  BY <1>3, RefuseType, PrepareType DEF ReorderSiblings, Answer
<1>4. CASE DeleteCategory(r)
  <2> DEFINE c      == in[r].category
             kids   == Siblings(c)
             others == Siblings(parent[c]) \ {c}
             f      == [x \in Category |-> IF x \in kids THEN parent[c] ELSE Keep]
  <2>1. kids \in SUBSET Category /\ others \in SUBSET Category
    BY DEF Siblings
  <2>2. Spliced(c, kids, others) \in [Category -> Place]
    BY <2>1, SplicedType
  <2>3. f \in [Category -> Parent]
    BY <2>1
  <2>4. \/ \E a \in Answer : Refuse(r, a)
        \/ Prepare(r, f, Spliced(c, kids, others))
    BY <1>4 DEF DeleteCategory, Answer
  <2> HIDE DEF f, kids, others, c
  <2> QED
    BY <2>2, <2>3, <2>4, RefuseType, PrepareType
<1> QED
  BY <1>1, <1>2, <1>3, <1>4 DEF Begin

LEMMA OverlayTypes ==
  /\ \A f \in [Category -> Category \cup {None}], g \in [Category -> Parent] :
       Overlay(f, g) \in [Category -> Category \cup {None}]
  /\ \A f \in [Category -> Nat], g \in [Category -> Place] :
       Overlay(f, g) \in [Category -> Nat]
BY Distinct DEF Overlay, Parent, Place

LEMMA WriteType ==
  ASSUME TypeOK, NEW r \in Req, Write(r)
  PROVE  TypeOK'
<1>1. plan[r].parents \in [Category -> Parent] /\ plan[r].positions \in [Category -> Place]
  BY DEF TypeOK, Plan
<1>2. parent' \in [Category -> Category \cup {None}] /\ position' \in [Category -> Nat]
  BY <1>1, OverlayTypes DEF Write, TypeOK
<1>3. state' \in [Category -> {"absent", "active", "deleted"}]
  BY DEF Write, TypeOK
<1>4. \A p \in Product : Refiled(r, p) \in Category \cup {None}
  BY InputTypes DEF Refiled, TypeOK
<1>5. filed' \in [Product -> Category \cup {None}]
  BY <1>4 DEF Write
<1>6. reply' \in [Req -> Answer \cup {"none"}]
  BY InputTypes DEF Write, TypeOK, Answer
<1>7. pc' \in [Req -> {"idle", "begin", "write", "file", "done"}] /\ lock' \in Req \cup {None}
  BY DEF Write, TypeOK, Goto
<1> QED
  BY <1>2, <1>3, <1>5, <1>6, <1>7 DEF Write, TypeOK

LEMMA TypeStep == TypeOK /\ [Next]_vars => TypeOK'
<1> SUFFICES ASSUME TypeOK, [Next]_vars
             PROVE  TypeOK'
  OBVIOUS
<1>1. ASSUME NEW r \in Req, FileProduct(r)
      PROVE  TypeOK'
  BY <1>1, InputTypes DEF FileProduct, TypeOK, Goto, Answer, rows
<1>2. ASSUME NEW r \in Req, Fail(r)
      PROVE  TypeOK'
  BY <1>2, FinishType DEF Fail, Answer
<1>3. ASSUME NEW p \in Product, Archive(p) \/ Restore(p)
      PROVE  TypeOK'
  BY <1>3 DEF Archive, Restore, TypeOK, rows
<1>4. CASE UNCHANGED vars
  BY <1>4 DEF vars, TypeOK
<1> QED
  BY <1>1, <1>2, <1>3, <1>4, CheckType, BeginType, WriteType DEF Next

-----------------------------------------------------------------------------
(* Steps that leave the tree alone *)

LEMMA TreeKept ==
  ASSUME UNCHANGED rows
  PROVE  /\ (Forest => Forest') /\ (RowsSound => RowsSound')
         /\ \A c : Chain(c)' = Chain(c) /\ Siblings(c)' = Siblings(c)
BY DEF rows, Forest, Acyclic, RowsSound, Active, Chain, Closed, Siblings

LEMMA SplicedKept ==
  ASSUME UNCHANGED rows
  PROVE  \A c, K, O : Spliced(c, K, O)' = Spliced(c, K, O)
<1>1. \A c, S : Rank(c, S)' = Rank(c, S)
  BY DEF Rank, Before, rows
<1> QED
  BY <1>1 DEF Spliced, rows

LEMMA FitsKept ==
  ASSUME UNCHANGED <<rows, in>>, NEW r \in Req, plan'[r] = plan[r], PlanFits(r)
  PROVE  PlanFits(r)'
<1>1. /\ \A c : Chain(c)' = Chain(c) /\ Siblings(c)' = Siblings(c)
      /\ \A c, K, O : Spliced(c, K, O)' = Spliced(c, K, O)
  BY TreeKept, SplicedKept
<1> QED
  BY <1>1, ZenonT(40) DEF PlanFits, Active, rows

\* A step of r that writes no row and does not leave r about to write.
LEMMA QuietStep ==
  ASSUME IInv, TypeOK', NEW r \in Req, UNCHANGED <<rows, in>>,
         pc[r] # "done", pc'[r] # "write",
         pc'[r] = "begin" => (in[r].op = "update" => state[in[r].category] # "absent"),
         \A q \in Req \ {r} : pc'[q] = pc[q] /\ plan'[q] = plan[q] /\ (lock = q => lock' = q)
  PROVE  IInv'
<1>1. Forest' /\ RowsSound'
  BY TreeKept DEF IInv
<1>2. ASSUME NEW q \in Req
      PROVE  StillAbsent(q)' /\ PlanSound(q)' /\ Begun(q)'
  <2>1. CASE q = r
    BY <2>1 DEF IInv, StillAbsent, PlanSound, Begun, rows
  <2>2. CASE q # r
    <3>1. StillAbsent(q)' /\ Begun(q)'
      BY <2>2 DEF IInv, StillAbsent, Begun, rows
    <3>2. PlanSound(q)'
      BY <2>2, FitsKept DEF IInv, PlanSound
    <3> QED
      BY <3>1, <3>2
  <2> QED
    BY <2>1, <2>2
<1> QED
  BY <1>1, <1>2 DEF IInv

LEMMA FinishStep ==
  ASSUME IInv, NEW r \in Req, NEW a \in Answer, Finish(r, a), pc[r] # "done"
  PROVE  IInv'
<1>1. TypeOK'
  BY FinishType DEF IInv
<1>2. pc' = [pc EXCEPT ![r] = "done"] /\ pc'[r] = "done"
  BY DEF Finish, Goto, IInv, TypeOK
<1>3. \A q \in Req \ {r} : pc'[q] = pc[q] /\ plan'[q] = plan[q] /\ (lock = q => lock' = q)
  BY <1>2 DEF Finish, IInv, TypeOK
<1>4. UNCHANGED <<rows, in>>
  BY DEF Finish
<1> QED
  BY <1>1, <1>2, <1>3, <1>4, QuietStep

LEMMA PassStep ==
  ASSUME IInv, NEW r \in Req, Pass(r), pc[r] # "done",
         in[r].op = "update" => state[in[r].category] # "absent"
  PROVE  IInv'
<1>1. TypeOK'
  BY PassType DEF IInv
<1>2. pc'[r] \in {"begin", "file"} /\ \A q \in Req \ {r} : pc'[q] = pc[q]
  BY DEF Pass, Goto, IInv, TypeOK
<1>3. UNCHANGED <<rows, in, plan, lock>>
  BY DEF Pass
<1> QED
  BY <1>1, <1>2, <1>3, QuietStep

LEMMA CheckStep ==
  ASSUME IInv, NEW r \in Req, Check(r)
  PROVE  IInv'
<1>1. pc[r] = "idle"
  BY DEF Check, CheckCreate, CheckReorder, CheckUpdate, CheckDelete, CheckFile
<1>2. CASE \E a \in Answer : Finish(r, a)
  BY <1>1, <1>2, FinishStep
<1>3. CASE CheckCreate(r) /\ Pass(r)
  BY <1>1, <1>3, PassStep DEF CheckCreate
<1>4. CASE CheckReorder(r)
  BY <1>1, <1>4, PassStep DEF CheckReorder
<1>5. CASE CheckUpdate(r) /\ Active(in[r].category) /\ Pass(r)
  BY <1>1, <1>5, PassStep DEF CheckUpdate, Active
<1>6. CASE CheckFile(r) /\ Pass(r)
  BY <1>1, <1>6, PassStep DEF CheckFile
<1>7. CASE CheckDelete(r) /\ Goto(r, "begin") /\ UNCHANGED <<rows, lock, in>>
           /\ \E d : plan' = [plan EXCEPT ![r].products = d]
  <2>1. TypeOK'
    BY CheckType DEF IInv
  <2>2. pc'[r] = "begin" /\ \A q \in Req \ {r} : pc'[q] = pc[q] /\ plan'[q] = plan[q]
    BY <1>7 DEF Goto, IInv, TypeOK
  <2>3. in[r].op # "update"
    BY <1>7 DEF CheckDelete
  <2>4. UNCHANGED <<rows, in>> /\ \A q \in Req \ {r} : lock = q => lock' = q
    BY <1>7
  <2> QED
    BY <1>1, <2>1, <2>2, <2>3, <2>4, QuietStep
<1>8. CASE CheckDelete(r)
  BY <1>8, <1>2, <1>7 DEF CheckDelete, Answer
<1> QED
  BY <1>2, <1>3, <1>4, <1>5, <1>6, <1>8 DEF Check, CheckCreate, CheckUpdate, CheckFile, Answer

-----------------------------------------------------------------------------
(* Transactions take the lock and plan *)

LEMMA PrepareStep ==
  ASSUME IInv, NEW r \in Req, pc[r] = "begin",
         NEW f \in [Category -> Parent], NEW g \in [Category -> Place], Prepare(r, f, g),
         PlanFits(r)'
  PROVE  IInv'
<1>1. TypeOK'
  BY PrepareType DEF IInv
<1>2. Forest' /\ RowsSound'
  BY TreeKept DEF IInv, Prepare
<1>3. lock = None /\ lock' = r
  BY DEF Prepare, Acquire
<1>4. pc'[r] = "write" /\ \A q \in Req \ {r} : pc'[q] = pc[q]
  BY DEF Prepare, Goto, IInv, TypeOK
<1>5. UNCHANGED <<state, in>>
  BY DEF Prepare, rows
<1>6. ASSUME NEW q \in Req
      PROVE  StillAbsent(q)' /\ Begun(q)'
  BY <1>4, <1>5 DEF IInv, StillAbsent, Begun
<1>7. ASSUME NEW q \in Req
      PROVE  PlanSound(q)'
  <2>1. CASE q = r
    BY <1>3, <2>1 DEF PlanSound
  <2>2. CASE q # r
    BY <1>3, <1>4, <2>2, Distinct DEF IInv, PlanSound
  <2> QED
    BY <2>1, <2>2
<1> QED
  BY <1>1, <1>2, <1>6, <1>7 DEF IInv

LEMMA BeginStep ==
  ASSUME IInv, NEW r \in Req, Begin(r)
  PROVE  IInv'
<1>1. pc[r] = "begin"
  BY DEF Begin, CreateCategory, UpdateCategory, ReorderSiblings, DeleteCategory
<1>2. CASE \E a \in Answer : Refuse(r, a)
  BY <1>1, <1>2, FinishStep DEF Refuse
<1>3. ASSUME NEW f \in [Category -> Parent], NEW g, Prepare(r, f, g), TypeOK'
      PROVE  /\ UNCHANGED <<rows, in>>
             /\ (g \in [Category -> Place] => plan'[r].parents = f /\ plan'[r].positions = g)
             /\ \A c : Chain(c)' = Chain(c) /\ Siblings(c)' = Siblings(c)
  BY <1>3, PrepareType, TreeKept DEF Prepare, IInv
<1>4. TypeOK /\ TypeOK'
  BY BeginType DEF IInv
<1> USE InputTypes, PlannedTypes, KeptTypes
<1>5. CASE CreateCategory(r) /\ ~\E a \in Answer : Refuse(r, a)
  <2> DEFINE p == in[r].parent
             f == [Kept EXCEPT ![r] = p]
             g == [Kept EXCEPT ![r] = in[r].position]
  <2>1. Prepare(r, f, g) /\ (p = None \/ Active(p)) /\ in[r].op = "create"
    BY <1>5 DEF CreateCategory, Answer
  <2>2. f \in [Category -> Parent] /\ g \in [Category -> Place]
    BY <1>4, Distinct
  <2>3. PlanFits(r)'
    BY <2>1, <2>2, <1>3, <1>4 DEF PlanFits, Active, rows
  <2> QED
    BY <1>1, <2>1, <2>2, <2>3, PrepareStep
<1>6. CASE UpdateCategory(r) /\ ~\E a \in Answer : Refuse(r, a)
  <2> DEFINE i == in[r]
             f == [Kept EXCEPT ![i.category] = i.parent]
             g == [Kept EXCEPT ![i.category] = i.position]
             climb == IF i.parent = Keep THEN {} ELSE Chain(i.parent)
  <2>1. /\ Prepare(r, f, g) /\ i.op = "update"
        /\ i.category \notin climb /\ \A c \in climb : Active(c)
    BY <1>6 DEF UpdateCategory, Answer
  <2>2. f \in [Category -> Parent] /\ g \in [Category -> Place]
    BY <1>4
  <2>3. state[i.category] # "absent"
    BY <1>1, <2>1 DEF IInv, Begun
  <2>4. i.parent \in Category =>
          i.category \notin Chain(i.parent) /\ \A x \in Chain(i.parent) : Active(x)
    BY <2>1, Distinct
  <2>5. /\ UNCHANGED <<rows, in>> /\ plan'[r].parents = f
        /\ \A c : Chain(c)' = Chain(c)
    BY <2>1, <2>2, <1>3, <1>4
  <2>6. PlanFits(r)'
    BY <2>1, <2>3, <2>4, <2>5 DEF PlanFits, Active, rows
  <2> QED
    BY <1>1, <2>1, <2>2, <2>6, PrepareStep
<1>7. CASE ReorderSiblings(r) /\ ~\E a \in Answer : Refuse(r, a)
  <2>1. /\ Prepare(r, Kept, in[r].places) /\ in[r].op = "reorder"
        /\ Siblings(in[r].parent) = Listed(in[r].places)
    BY <1>7 DEF ReorderSiblings, Answer
  <2>2. in[r].places \in [Category -> Place]
    BY <1>4
  <2>3. PlanFits(r)'
    BY <2>1, <2>2, <1>3, <1>4 DEF PlanFits
  <2> QED
    BY <1>1, <2>1, <2>2, <2>3, PrepareStep
<1>8. CASE DeleteCategory(r) /\ ~\E a \in Answer : Refuse(r, a)
  <2> DEFINE c      == in[r].category
             kids   == Siblings(c)
             others == Siblings(parent[c]) \ {c}
             f      == [x \in Category |-> IF x \in kids THEN parent[c] ELSE Keep]
             g      == Spliced(c, kids, others)
  <2>1. Prepare(r, f, g) /\ in[r].op = "delete" /\ Active(c)
    BY <1>8 DEF DeleteCategory, Answer
  <2>2. kids \in SUBSET Category /\ others \in SUBSET Category /\ c \in Category
    BY <1>4 DEF Siblings
  <2>3. f \in [Category -> Parent] /\ g \in [Category -> Place]
    <3>1. f \in [Category -> Parent]
      BY <1>4, <2>2
    <3> HIDE DEF c, kids, others
    <3>2. g \in [Category -> Place]
      BY <1>4, <2>2, SplicedType
    <3> QED
      BY <3>1, <3>2
  <2> HIDE DEF f, g
  <2>4. /\ UNCHANGED <<rows, in>> /\ plan'[r].parents = f /\ plan'[r].positions = g
        /\ \A x : Siblings(x)' = Siblings(x)
    BY <2>1, <2>3, <1>3, <1>4
  <2>5. \A x, K, O : Spliced(x, K, O)' = Spliced(x, K, O)
    BY <2>4, SplicedKept
  <2>6. PlanFits(r)'
    BY <2>1, <2>4, <2>5 DEF PlanFits, Active, rows, f, g
  <2> QED
    BY <1>1, <2>1, <2>3, <2>6, PrepareStep
<1> QED
  BY <1>2, <1>5, <1>6, <1>7, <1>8 DEF Begin

-----------------------------------------------------------------------------
(* Writes change the tree in one of the three ways *)

\* What a planned create, update, reorder and delete does to the parents.
LEMMA WrittenParents ==
  ASSUME IInv, NEW r \in Req, Write(r)
  PROVE  LET i == in[r]
         IN  /\ (i.op = "create" =>
                   \A x \in Category : parent'[x] = IF x = r THEN i.parent ELSE parent[x])
             /\ (i.op = "update" =>
                   \A x \in Category : parent'[x] =
                     IF x = i.category /\ i.parent # Keep THEN i.parent ELSE parent[x])
             /\ (i.op = "reorder" => \A x \in Category : parent'[x] = parent[x])
             /\ (i.op = "delete" =>
                   \A x \in Category : parent'[x] =
                     IF x \in Siblings(i.category) THEN parent[i.category] ELSE parent[x])
<1>1. PlanFits(r) /\ parent' = Overlay(parent, plan[r].parents)
  BY DEF IInv, PlanSound, Write
<1>2. r \in Category /\ in[r].category \in Category
      /\ \A x \in Category : parent[x] # Keep
  BY InputTypes, Distinct DEF IInv, TypeOK
<1>3. in[r].op = "create" => in[r].parent # Keep
  BY InputTypes, Distinct DEF IInv
<1> QED
  BY <1>1, <1>2, <1>3 DEF PlanFits, Overlay, Kept

\* The tree after a write.
LEMMA WriteTree ==
  ASSUME IInv, NEW r \in Req, Write(r)
  PROVE  Forest' /\ RowsSound'
<1> DEFINE i == in[r]
           c == i.category
<1>1. /\ pc[r] = "write" /\ PlanFits(r) /\ state[r] = "absent"
      /\ r \in Category /\ c \in Category
      /\ Acyclic /\ parent \in [Category -> Category \cup {None}]
      /\ None \notin Category /\ Keep \notin Category
  BY InputTypes, Distinct DEF IInv, PlanSound, StillAbsent, Write, TypeOK, Forest
<1>2. /\ \A x \in Category : (state[x] = "active" /\ parent[x] # None) =>
                                state[parent[x]] = "active"
      /\ \A x \in Category : parent[x] # None => state[parent[x]] # "absent"
      /\ \A x \in Category : state[x] = "absent" => parent[x] = None
  BY <1>1 DEF IInv, Forest, RowsSound, Active
<1>3. \A x \in Category : state'[x] =
        IF i.op = "create" /\ x = r THEN "active"
        ELSE IF i.op = "delete" /\ x = c THEN "deleted" ELSE state[x]
  BY DEF Write
<1>4. parent' \in [Category -> Category \cup {None}]
  BY WriteType DEF IInv, TypeOK
\* The second half of Forest, and RowsSound, name by name.
<1>5. SUFFICES
        /\ \A S \in SUBSET Category : S # {} => \E x \in S : parent'[x] \notin S
        /\ \A x \in Category : (state'[x] = "active" /\ parent'[x] # None) =>
                                 state'[parent'[x]] = "active"
        /\ \A x \in Category : parent'[x] # None => state'[parent'[x]] # "absent"
        /\ \A x \in Category : state'[x] = "absent" => parent'[x] = None
  BY <1>4 DEF Forest, Acyclic, RowsSound, Active
<1>6. CASE i.op = "create"
  <2>1. \A x \in Category : parent'[x] = IF x = r THEN i.parent ELSE parent[x]
    BY <1>6, WrittenParents
  <2>2. i.parent = None \/ (i.parent \in Category /\ state[i.parent] = "active")
    BY <1>1, <1>6 DEF PlanFits, Active
  <2>3. \A x \in Category : parent[x] # r
    BY <1>1, <1>2
  <2>4. i.parent # r
    BY <1>1, <2>2
  <2>5. \A S \in SUBSET Category : S # {} => \E x \in S : parent'[x] \notin S
    BY <1>1, <2>1, <2>3, <2>4, CreateKeepsAcyclic
  <2> QED
    BY <1>1, <1>2, <1>3, <1>6, <2>1, <2>2, <2>5
<1>7. CASE i.op = "update"
  <2>1. \A x \in Category : parent'[x] =
          IF x = c /\ i.parent # Keep THEN i.parent ELSE parent[x]
    BY <1>7, WrittenParents
  <2>2. /\ state[c] # "absent"
        /\ i.parent \in Category =>
             c \notin Chain(i.parent) /\ \A x \in Chain(i.parent) : Active(x)
    BY <1>1, <1>7 DEF PlanFits
  <2>3. CASE i.parent \in Category
    <3>1. state[i.parent] = "active"
      BY <2>2, <2>3, OwnChain DEF Active
    <3>2. \A S \in SUBSET Category : S # {} => \E x \in S : parent'[x] \notin S
      BY <1>1, <2>1, <2>2, <2>3, MoveKeepsAcyclic
    <3> QED
      BY <1>1, <1>2, <1>3, <1>7, <2>1, <2>2, <2>3, <3>1, <3>2
  <2>4. CASE i.parent = Keep
    <3>1. \A x \in Category : parent'[x] = parent[x]
      BY <2>1, <2>4
    <3> QED
      BY <1>1, <1>2, <1>3, <1>7, <3>1 DEF Acyclic
  <2>5. CASE i.parent = None
    <3>1. \A x \in Category : parent'[x] = parent[x] \/ parent'[x] = None
      BY <2>1, <2>5
    <3>2. \A S \in SUBSET Category : S # {} => \E x \in S : parent'[x] \notin S
      BY <1>1, <3>1 DEF Acyclic
    <3> QED
      BY <1>1, <1>2, <1>3, <1>7, <3>1, <3>2
  <2> QED
    BY <2>3, <2>4, <2>5, InputTypes DEF Parent, IInv
<1>8. CASE i.op = "reorder"
  <2>1. \A x \in Category : parent'[x] = parent[x]
    BY <1>8, WrittenParents
  <2> QED
    BY <1>1, <1>2, <1>3, <1>8, <2>1 DEF Acyclic
<1>9. CASE i.op = "delete"
  <2> DEFINE kids == Siblings(c)
  <2>1. \A x \in Category : parent'[x] = IF x \in kids THEN parent[c] ELSE parent[x]
    BY <1>9, WrittenParents
  <2>2. /\ \A k \in kids : k \in Category /\ parent[k] = c /\ state[k] = "active"
        /\ \A x \in Category : (state[x] = "active" /\ parent[x] = c) => x \in kids
    BY DEF Siblings
  <2>3. state[c] = "active"
    BY <1>1, <1>9 DEF PlanFits, Active
  <2>4. parent[c] # c
    BY <1>1, NoSelfParent
  <2> HIDE DEF kids
  <2>5. \A S \in SUBSET Category : S # {} => \E x \in S : parent'[x] \notin S
    <3>1. /\ kids \in SUBSET Category /\ \A k \in kids : parent[k] = c
          /\ \A x \in Category \ kids : parent'[x] = parent[x]
          /\ \A x \in kids : parent'[x] = parent[c]
      BY <2>1, <2>2
    <3> HIDE DEF c
    <3> QED
      BY <1>1, <3>1, PromoteKeepsAcyclic
  <2> QED
    BY <1>1, <1>2, <1>3, <1>9, <2>1, <2>2, <2>3, <2>4, <2>5
<1> QED
  BY <1>1, <1>6, <1>7, <1>8, <1>9, InputTypes DEF PlanFits, IInv

LEMMA WriteStep ==
  ASSUME IInv, NEW r \in Req, Write(r)
  PROVE  IInv'
<1>1. TypeOK' /\ Forest' /\ RowsSound'
  BY WriteType, WriteTree DEF IInv
<1>2. pc'[r] = "done" /\ \A q \in Req \ {r} : pc'[q] = pc[q]
  BY DEF Write, Goto, IInv, TypeOK
<1>3. PlanFits(r) /\ lock = r /\ in' = in
  BY DEF IInv, PlanSound, Write
<1>4. ASSUME NEW q \in Req
      PROVE  StillAbsent(q)' /\ PlanSound(q)' /\ Begun(q)'
  <2>1. CASE q = r
    BY <1>2, <2>1 DEF StillAbsent, PlanSound, Begun
  <2>2. CASE q # r
    <3>1. pc[q] # "write"
      BY <1>3, <2>2 DEF IInv, PlanSound
    <3>2. PlanSound(q)'
      BY <1>2, <2>2, <3>1 DEF PlanSound
    <3>3. \A x \in Category \ {r} :
            state'[x] = state[x] \/ (state'[x] = "deleted" /\ Active(x))
      BY <1>3 DEF Write, PlanFits
    <3>4. StillAbsent(q)'
      BY <1>2, <2>2, <3>3, Distinct DEF IInv, StillAbsent, Active
    <3>5. Begun(q)'
      BY <1>2, <1>3, <2>2, <3>3, InputTypes DEF IInv, Begun, Write
    <3> QED
      BY <3>2, <3>4, <3>5
  <2> QED
    BY <2>1, <2>2
<1> QED
  BY <1>1, <1>4 DEF IInv

-----------------------------------------------------------------------------
(* The theorems *)

LEMMA InitInv == Init => IInv
<1> SUFFICES ASSUME Init
             PROVE  IInv
  OBVIOUS
<1>1. parent \in [Category -> Category \cup {None}] /\ Acyclic
  BY TreesAssumption DEF Init, Acyclic, Category
<1>2. filed \in [Product -> Category \cup {None}]
  BY DEF Init, Category
<1>3. NoPlan \in Plan
  BY KeptTypes DEF NoPlan, Plan
<1>4. TypeOK
  BY <1>1, <1>2, <1>3 DEF Init, TypeOK
<1>5. \A c \in Category : c \in Seed \/ (c \in Req /\ parent[c] = None)
  BY TreesAssumption DEF Init, Category
<1>6. \A c \in Category : parent[c] \in Seed \cup {None}
  BY TreesAssumption DEF Init
<1>7. Forest /\ RowsSound
  BY <1>1, <1>5, <1>6, Distinct DEF Forest, RowsSound, Active, Init, Category
<1>8. \A r \in Req : StillAbsent(r) /\ PlanSound(r) /\ Begun(r)
  BY SeedAssumption DEF Init, StillAbsent, PlanSound, Begun, Category
<1> QED
  BY <1>4, <1>7, <1>8 DEF IInv

LEMMA NextInv == IInv /\ [Next]_vars => IInv'
<1> SUFFICES ASSUME IInv, [Next]_vars
             PROVE  IInv'
  OBVIOUS
<1>1. TypeOK /\ TypeOK'
  BY TypeStep DEF IInv
<1>2. ASSUME NEW r \in Req, FileProduct(r)
      PROVE  IInv'
  <2>1. pc[r] # "done" /\ pc'[r] = "done" /\ \A q \in Req \ {r} : pc'[q] = pc[q]
    BY <1>1, <1>2 DEF FileProduct, Goto, TypeOK
  <2>2. UNCHANGED <<rows, in, plan, lock>>
    BY <1>2 DEF FileProduct
  <2> QED
    BY <1>1, <2>1, <2>2, QuietStep
<1>3. ASSUME NEW r \in Req, Fail(r)
      PROVE  IInv'
  BY <1>3, FinishStep DEF Fail, Answer
<1>4. CASE UNCHANGED <<rows, lock, pc, in, plan>>
  <2>1. Forest' /\ RowsSound'
    BY <1>4, TreeKept DEF IInv
  <2>2. ASSUME NEW q \in Req
        PROVE  StillAbsent(q)' /\ PlanSound(q)' /\ Begun(q)'
    BY <1>4, FitsKept DEF IInv, StillAbsent, PlanSound, Begun, rows
  <2> QED
    BY <1>1, <2>1, <2>2 DEF IInv
<1>5. ASSUME NEW p \in Product, Archive(p) \/ Restore(p)
      PROVE  IInv'
  BY <1>4, <1>5 DEF Archive, Restore
<1>6. CASE UNCHANGED vars
  BY <1>4, <1>6 DEF vars, rows
<1> QED
  BY <1>2, <1>3, <1>5, <1>6, CheckStep, BeginStep, WriteStep DEF Next

\* In every reachable state the planned changes of the request that holds the
\* hierarchy lock fit the tree, which is a forest.
THEOREM Invariant == Spec => []IInv
BY InitInv, NextInv, PTL DEF Spec

\* Concurrent creates, moves, reorders and deletes never leave a cycle or an
\* active category below a deleted one (catalog.repository.ts, the walk of
\* updateCategory and the promotion of deleteCategory).
THEOREM ForestKept == Spec => []Forest
<1>1. IInv => Forest
  BY DEF IInv
<1> QED
  BY <1>1, Invariant, PTL

-----------------------------------------------------------------------------
(* What visitors read *)

\* A step of the shop is a step of the hierarchy or leaves it alone.
LEMMA ShopStep == ASSUME [ShopNext]_shopVars PROVE [Next]_vars
BY DEF ShopNext, shopVars, Manage, Offer, Withdraw, ReadCategories, AnswerVisitor

\* The composition implements the hierarchy's specification.
THEOREM ShopImplementsTree == ShopSpec => Spec
<1>1. ShopInit => Init
  BY DEF ShopInit
<1>2. [ShopNext]_shopVars => [Next]_vars
  BY ShopStep
<1> QED
  BY <1>1, <1>2, PTL DEF ShopSpec, Spec

\* The categories form a forest while products come and go and visitors read.
THEOREM ShopForest == ShopSpec => []Forest
BY ShopImplementsTree, ForestKept, PTL

\* What ReadCategories takes from a forest is a forest that is closed upwards.
LEMMA ReadsForest == ASSUME Forest, ReadCategories PROVE SnapshotSound'
<1> DEFINE taken == {c \in Category : Active(c)}
           above == [c \in Category |-> IF Active(c) THEN parent[c] ELSE None]
<1>1. seen'.rows = taken /\ seen'.upper = above
  BY DEF ReadCategories
<1>2. \A c \in taken : above[c] = parent[c]
  OBVIOUS
<1>3. \A c \in taken : above[c] \in taken \cup {None}
  BY <1>2 DEF Forest, Active
<1>4. ASSUME NEW S \in SUBSET taken, S # {}
      PROVE  \E c \in S : above[c] \notin S
  <2>1. S \in SUBSET Category
    OBVIOUS
  <2>2. PICK c \in S : parent[c] \notin S
    BY <2>1, <1>4 DEF Forest, Acyclic
  <2> QED
    BY <1>2, <2>2
<1> HIDE DEF taken, above
<1> QED
  BY <1>1, <1>3, <1>4 DEF SnapshotSound

\* Whatever is moved, deleted or created meanwhile, no visitor ever walks over a
\* cycle or a category that hangs below one that was not read.
THEOREM SnapshotKept == ShopSpec => []SnapshotSound
<1>1. ShopInit => SnapshotSound
  BY DEF ShopInit, SnapshotSound
<1>2. Forest /\ SnapshotSound /\ [ShopNext]_shopVars => SnapshotSound'
  <2> SUFFICES ASSUME Forest, SnapshotSound, [ShopNext]_shopVars
               PROVE  SnapshotSound'
    OBVIOUS
  <2>1. CASE ReadCategories
    BY <2>1, ReadsForest
  <2>2. CASE AnswerVisitor
    BY <2>2 DEF AnswerVisitor, SnapshotSound
  <2>3. CASE UNCHANGED seen
    BY <2>3 DEF SnapshotSound
  <2> QED
    BY <2>1, <2>2, <2>3 DEF ShopNext, shopVars, Manage, Offer, Withdraw
<1> QED
  BY <1>1, <1>2, ShopForest, PTL DEF ShopSpec

-----------------------------------------------------------------------------
(* How siblings are numbered *)

\* ORDER BY position, name is a strict order of all categories.
LEMMA BeforeOrders ==
  ASSUME TypeOK
  PROVE  /\ \A c \in Category : ~Before(c, c)
         /\ \A c, d \in Category : c # d => Before(c, d) \/ Before(d, c)
         /\ \A c, d \in Category : ~(Before(c, d) /\ Before(d, c))
         /\ \A c, d, e \in Category : Before(c, d) /\ Before(d, e) => Before(c, e)
BY NameAssumption DEF TypeOK, Before

\* There are finitely many categories, known and new.
LEMMA FiniteCategories ==
  ASSUME NEW S \in SUBSET Category
  PROVE  IsFiniteSet(S) /\ Cardinality(S) \in Nat
<1>1. IsFiniteSet(Category)
  BY SeedAssumption, FS_Union DEF Category
<1> QED
  BY <1>1, FS_Subset, FS_CardinalityType

\* Ranks follow the order, and there is one for each member and no gap.
LEMMA RankFollows ==
  ASSUME TypeOK, NEW S \in SUBSET Category, NEW c \in S, NEW d \in S, Before(c, d)
  PROVE  Rank(c, S) < Rank(d, S)
<1> DEFINE L == {x \in S : Before(x, c)}
           U == {x \in S : Before(x, d)}
<1>1. L \in SUBSET U /\ U \in SUBSET Category /\ c \in U /\ c \notin L
  BY BeforeOrders
<1>2. Rank(c, S) = Cardinality(L) /\ Rank(d, S) = Cardinality(U)
  BY DEF Rank
<1> HIDE DEF L, U
<1>3. /\ IsFiniteSet(U) /\ Cardinality(U) \in Nat
      /\ Cardinality(L) \in Nat /\ L \in SUBSET Category
  BY <1>1, FiniteCategories
<1>4. Cardinality(L) <= Cardinality(U) /\ (Cardinality(U) = Cardinality(L) => U = L)
  BY <1>1, <1>3, FS_Subset
<1> QED
  BY <1>1, <1>2, <1>3, <1>4

\* No two members of a list have the same rank.
LEMMA RankInjective ==
  ASSUME TypeOK, NEW S \in SUBSET Category, NEW c \in S, NEW d \in S, Rank(c, S) = Rank(d, S)
  PROVE  c = d
<1>1. Rank(c, S) \in Nat /\ Rank(d, S) \in Nat
  BY RankType
<1> QED
  BY <1>1, BeforeOrders, RankFollows

\* Ranks are smaller than the length of the list.
LEMMA RankBelow ==
  ASSUME TypeOK, NEW S \in SUBSET Category, NEW c \in S
  PROVE  Rank(c, S) \in 0..(Cardinality(S) - 1)
<1> DEFINE L == {x \in S : Before(x, c)}
<1>1. L \in SUBSET S /\ c \notin L /\ Rank(c, S) = Cardinality(L)
  BY BeforeOrders DEF Rank
<1> HIDE DEF L
<1>2. /\ IsFiniteSet(S) /\ Cardinality(S) \in Nat /\ Cardinality(L) \in Nat
      /\ Cardinality(L) <= Cardinality(S) /\ (Cardinality(S) = Cardinality(L) => S = L)
  BY <1>1, FiniteCategories, FS_Subset
<1> QED
  BY <1>1, <1>2

\* Every number below the length is a rank.
LEMMA RanksDense ==
  ASSUME TypeOK, NEW S \in SUBSET Category
  PROVE  \A n \in 0..(Cardinality(S) - 1) : \E c \in S : Rank(c, S) = n
<1> DEFINE T == 0..(Cardinality(S) - 1)
           f == [c \in S |-> Rank(c, S)]
<1>1. Cardinality(S) \in Nat /\ IsFiniteSet(S)
  BY FiniteCategories
<1>2. f \in Injection(S, T)
  BY RankInjective, RankBelow DEF Injection, IsInjective
<1>3. IsFiniteSet(T) /\ Cardinality(T) = Cardinality(S)
  BY <1>1, FS_Interval
<1>4. f \in Surjection(S, T)
  BY <1>2, <1>3, FS_Injection
<1> QED
  BY <1>4 DEF Surjection

\* f numbers S from 0 without gaps.
Dense(f, S) ==
  /\ \A x \in S : f[x] \in 0..(Cardinality(S) - 1)
  /\ \A i \in 0..(Cardinality(S) - 1) : \E x \in S : f[x] = i

\* Promoted children and siblings are numbered without gaps.
LEMMA SplicedDense ==
  ASSUME TypeOK, NEW c \in Category, NEW K \in SUBSET Category, NEW O \in SUBSET Category,
         K \cap O = {}
  PROVE  Dense(Spliced(c, K, O), K \cup O)
<1> DEFINE at == IF position[c] < Cardinality(O) THEN position[c] ELSE Cardinality(O)
           new == Spliced(c, K, O)
           k == Cardinality(K)
           n == Cardinality(O)
<1>1. /\ at \in Nat /\ k \in Nat /\ n \in Nat /\ at <= n
  BY FiniteCategories DEF TypeOK
<1>2. \A x \in K : new[x] = at + Rank(x, K)
  BY DEF Spliced
<1>3. \A x \in O : new[x] = IF Rank(x, O) < at THEN Rank(x, O) ELSE Rank(x, O) + k
  <2>1. ASSUME NEW x \in O PROVE new[x] = Rank(x, O) + IF Rank(x, O) < at THEN 0 ELSE k
    BY DEF Spliced
  <2>2. \A x \in O : Rank(x, O) \in Nat
    BY RankType
  <2> HIDE DEF new
  <2> QED
    BY <2>1, <2>2
<1>4. Cardinality(K \cup O) = k + n
  <2>1. IsFiniteSet(K) /\ IsFiniteSet(O) /\ Cardinality(K \cap O) = 0
    BY FiniteCategories, FS_EmptySet
  <2> QED
    BY <1>1, <2>1, FS_Union
<1>5. /\ \A x \in K : Rank(x, K) \in 0..(k - 1)
      /\ \A x \in O : Rank(x, O) \in 0..(n - 1)
      /\ \A i \in 0..(k - 1) : \E x \in K : Rank(x, K) = i
      /\ \A i \in 0..(n - 1) : \E x \in O : Rank(x, O) = i
  BY RankBelow, RanksDense
<1> HIDE DEF at, new, k, n
<1>6. \A x \in K \cup O : new[x] \in 0..(k + n - 1)
  BY <1>1, <1>2, <1>3, <1>5
<1>7. ASSUME NEW i \in 0..(k + n - 1)
      PROVE  \E x \in K \cup O : new[x] = i
  <2>1. CASE i < at
    BY <1>1, <1>3, <1>5, <2>1
  <2>2. CASE at <= i /\ i < at + k
    <3>1. i - at \in 0..(k - 1)
      BY <1>1, <2>2
    <3>2. PICK x \in K : Rank(x, K) = i - at
      BY <1>5, <3>1
    <3> QED
      BY <1>1, <1>2, <3>2
  <2>3. CASE at + k <= i
    <3>1. i - k \in 0..(n - 1) /\ ~(i - k < at)
      BY <1>1, <2>3
    <3>2. PICK x \in O : Rank(x, O) = i - k
      BY <1>5, <3>1
    <3> QED
      BY <1>1, <1>3, <3>1, <3>2
  <2> QED
    BY <1>1, <2>1, <2>2, <2>3
<1>8. 0..(k + n - 1) = 0..(Cardinality(K \cup O) - 1)
  BY <1>1, <1>4
<1> QED
  BY <1>6, <1>7, <1>8, Zenon DEF new, Dense

\* Each list keeps its order.
LEMMA SplicedOrders ==
  ASSUME TypeOK, NEW c \in Category, NEW K \in SUBSET Category, NEW O \in SUBSET Category,
         K \cap O = {}, NEW x \in Category, NEW y \in Category, Before(x, y),
         (x \in K /\ y \in K) \/ (x \in O /\ y \in O)
  PROVE  Spliced(c, K, O)[x] < Spliced(c, K, O)[y]
<1> DEFINE at == IF position[c] < Cardinality(O) THEN position[c] ELSE Cardinality(O)
<1>1. at \in Nat /\ Cardinality(K) \in Nat
  BY FiniteCategories DEF TypeOK
<1>2. CASE x \in K /\ y \in K
  <2>1. Spliced(c, K, O)[x] = at + Rank(x, K) /\ Spliced(c, K, O)[y] = at + Rank(y, K)
    BY <1>2 DEF Spliced
  <2>2. Rank(x, K) \in Nat /\ Rank(y, K) \in Nat /\ Rank(x, K) < Rank(y, K)
    BY <1>2, RankType, RankFollows
  <2> HIDE DEF at
  <2> QED
    BY <1>1, <2>1, <2>2
<1>3. CASE x \in O /\ y \in O
  <2>1. /\ Spliced(c, K, O)[x] = Rank(x, O) + IF Rank(x, O) < at THEN 0 ELSE Cardinality(K)
        /\ Spliced(c, K, O)[y] = Rank(y, O) + IF Rank(y, O) < at THEN 0 ELSE Cardinality(K)
    BY <1>3 DEF Spliced
  <2>2. Rank(x, O) \in Nat /\ Rank(y, O) \in Nat /\ Rank(x, O) < Rank(y, O)
    BY <1>3, RankType, RankFollows
  <2> HIDE DEF at
  <2> QED
    BY <1>1, <2>1, <2>2
<1> QED
  BY <1>2, <1>3

\* Only the end of a transaction answers that something has been deleted or reordered.
LEMMA AnsweredByWrite ==
  ASSUME TypeOK, [Next]_vars, NEW r \in Req, reply[r] = "none",
         reply'[r] \in {"delete", "reorder"}
  PROVE  Write(r) /\ reply'[r] = in[r].op
<1> DEFINE No == {"notFound", "hierarchyConflict", "reassignConflict", "hasChildren",
                  "hasProducts", "reorderConflict", "failed", "file"}
           Spoken(q, a) == reply' = [reply EXCEPT ![q] = a]
<1>1. ASSUME NEW q \in Req, NEW a \in No, Spoken(q, a)
      PROVE  FALSE
  BY <1>1 DEF TypeOK
<1>2. \A q \in Req, a \in No : ~Finish(q, a) /\ ~Refuse(q, a)
  BY <1>1 DEF Finish, Refuse
<1>3. reply' # reply
  OBVIOUS
<1>4. ASSUME NEW q \in Req, Check(q)
      PROVE  FALSE
  BY <1>2, <1>3, <1>4
     DEF Check, CheckCreate, CheckReorder, CheckUpdate, CheckDelete, CheckFile, Pass
<1>5. ASSUME NEW q \in Req, Begin(q)
      PROVE  FALSE
  BY <1>2, <1>3, <1>5
     DEF Begin, CreateCategory, UpdateCategory, ReorderSiblings, DeleteCategory, Prepare
<1>6. ASSUME NEW q \in Req, FileProduct(q) \/ Fail(q)
      PROVE  FALSE
  BY <1>1, <1>2, <1>6 DEF FileProduct, Fail
<1>7. PICK q \in Req : Write(q)
  BY <1>3, <1>4, <1>5, <1>6 DEF Next, Archive, Restore, vars
<1>8. reply' = [reply EXCEPT ![q] = in[q].op]
  BY <1>7 DEF Write
<1> QED
  BY <1>7, <1>8 DEF TypeOK

\* A reorder writes the numbers it was sent, for exactly the active siblings.
LEMMA ReorderNumbers ==
  ASSUME IInv, NEW r \in Req, Write(r), in[r].op = "reorder",
         NEW list, list = {c \in Category : state'[c] = "active" /\ parent'[c] = in[r].parent}
  PROVE  /\ list = Listed(in[r].places) /\ \A c \in list : position'[c] = in[r].places[c]
         /\ {position'[c] : c \in list} = 0..(Cardinality(list) - 1)
<1> DEFINE places == in[r].places
<1>1. /\ plan[r].positions = places /\ Siblings(in[r].parent) = Listed(places)
      /\ in[r] \in Inputs /\ places \in [Category -> Place]
  BY InputTypes DEF IInv, PlanSound, PlanFits, Write
<1>2. \A x \in Category : parent'[x] = parent[x]
  BY WrittenParents
<1>3. \A x \in Category : state'[x] = state[x]
  BY DEF Write
<1>4. list = Listed(places)
  BY <1>1, <1>2, <1>3 DEF Siblings
<1>5. position' = Overlay(position, places)
  BY <1>1 DEF Write
<1>6. \A c \in list : position'[c] = places[c]
  BY <1>4, <1>5 DEF Overlay, Listed
<1>7. {places[c] : c \in list} = 0..(Cardinality(list) - 1)
  BY <1>1, <1>4, OrderAssumption
<1> HIDE DEF places
<1>8. {position'[c] : c \in list} = {places[c] : c \in list}
  BY <1>6
<1> QED
  BY <1>4, <1>6, <1>7, <1>8 DEF places

\* A deletion numbers the promoted children and their new siblings together.
LEMMA DeleteNumbers ==
  ASSUME IInv, NEW r \in Req, Write(r), in[r].op = "delete",
         NEW upper, upper = parent[in[r].category],
         NEW list, list = {c \in Category : state'[c] = "active" /\ parent'[c] = upper}
  PROVE  /\ {position'[c] : c \in list} = 0..(Cardinality(list) - 1)
         /\ \A c, d \in list :
              parent[c] = parent[d] /\ Before(c, d) => position'[c] < position'[d]
<1> DEFINE c == in[r].category
           K == Siblings(c)
           O == Siblings(upper) \ {c}
           new == Spliced(c, K, O)
<1>1. plan[r].positions = new /\ Active(c) /\ c \in Category /\ TypeOK
  BY InputTypes DEF IInv, PlanSound, PlanFits, Write
<1>2. upper # c
  BY <1>1, NoSelfParent DEF IInv, Forest
<1>3. /\ K \in SUBSET Category /\ O \in SUBSET Category
      /\ \A x \in Category : x \in K <=> state[x] = "active" /\ parent[x] = c
      /\ \A x \in Category : x \in O <=> state[x] = "active" /\ parent[x] = upper /\ x # c
  BY DEF Siblings
<1>4. \A x \in Category : parent'[x] = IF x \in K THEN upper ELSE parent[x]
  BY WrittenParents
<1>5. \A x \in Category : state'[x] = IF x = c THEN "deleted" ELSE state[x]
  BY DEF Write
<1>6. position' = Overlay(position, new)
  BY <1>1 DEF Write
<1> HIDE DEF K, O, new
<1>7. K \cap O = {}
  BY <1>2, <1>3
<1>8. c \notin K
  BY <1>2, <1>3
<1>9. list = K \cup O
  BY <1>3, <1>4, <1>5, <1>8
<1>10. Dense(new, list)
  <2> HIDE DEF c
  <2> QED
    BY <1>1, <1>3, <1>7, <1>9, SplicedDense DEF new
<1>11. Cardinality(list) \in Nat
  BY <1>3, <1>9, FiniteCategories
<1>12. \A x \in list : position'[x] = new[x]
  BY <1>3, <1>6, <1>9, <1>10, <1>11, Distinct DEF Overlay, Dense
<1>13. {position'[x] : x \in list} = 0..(Cardinality(list) - 1)
  BY <1>10, <1>12 DEF Dense
<1>14. ASSUME NEW x \in list, NEW y \in list, parent[x] = parent[y], Before(x, y)
       PROVE  position'[x] < position'[y]
  <2>1. (x \in K /\ y \in K) \/ (x \in O /\ y \in O)
    BY <1>2, <1>3, <1>9, <1>14
  <2>2. new[x] < new[y]
    BY <1>1, <1>3, <1>7, <1>9, <1>14, <2>1, SplicedOrders DEF new
  <2> QED
    BY <1>12, <2>2
<1> QED
  BY <1>13, <1>14

\* Whatever has been created, moved and deleted since a person saw a list, a reorder
\* or a delete that is answered leaves its siblings numbered from 0 without gaps, in
\* the order sent or in their old order (catalog.repository.ts: reorderCategorySiblings,
\* deleteCategory).
THEOREM SiblingsRenumbered == Spec => Renumbered
<1>1. ASSUME IInv, [Next]_vars, NEW r \in Req, reply[r] = "none",
             reply'[r] \in {"delete", "reorder"}
      PROVE  Numbered(r)
  <2>1. Write(r) /\ in[r].op \in {"delete", "reorder"}
    BY <1>1, AnsweredByWrite DEF IInv
  <2>2. CASE in[r].op = "reorder"
    BY <1>1, <2>1, <2>2, ReorderNumbers DEF Numbered
  <2>3. CASE in[r].op = "delete"
    <3> DEFINE upper == parent[in[r].category]
               list  == {c \in Category : state'[c] = "active" /\ parent'[c] = upper}
    <3>1. /\ {position'[c] : c \in list} = 0..(Cardinality(list) - 1)
          /\ \A c, d \in list :
               parent[c] = parent[d] /\ Before(c, d) => position'[c] < position'[d]
      BY <1>1, <2>1, <2>3, DeleteNumbers, Zenon
    <3> QED
      BY <2>3, <3>1, Zenon DEF Numbered
  <2> QED
    BY <2>1, <2>2, <2>3
<1>2. IInv /\ [Next]_vars =>
        [\A r \in Req : (reply[r] = "none" /\ reply'[r] \in {"delete", "reorder"}) => Numbered(r)]_vars
  BY <1>1
<1> QED
  BY <1>2, Invariant, PTL DEF Spec, Renumbered

-----------------------------------------------------------------------------
(* Loops written as recursive functions *)

\* Every set of natural numbers that is not empty has a least one.
LEMMA LeastNatural ==
  ASSUME NEW T \in SUBSET Nat, T # {}
  PROVE  \E n \in T : \A m \in T : n <= m
<1>1. PICK n \in T : \A m \in T : ~(<<m, n>> \in OpToRel(<, Nat))
  BY NatLessThanWellFounded, WFMin, Zenon
<1>2. \A m \in T : ~(m < n)
  BY <1>1 DEF OpToRel
<1> QED
  BY <1>2

\* f is what a loop returns from each of its states: step is taken until a state is in stop.
Runs(f, D, stop, step) == f = [w \in D |-> IF w \in stop THEN w ELSE f[step[w]]]

\* The recursive definition has a solution: take, from each state, a state the loop stops
\* in that every set closed under the loop's steps has, whether or not there is one.
LEMMA LoopDefined ==
  ASSUME NEW D, NEW stop \in SUBSET D, NEW step \in [D \ stop -> D]
  PROVE  \E f : Runs(f, D, stop, step)
<1> DEFINE run(w) == {v \in D : \A S \in SUBSET D : (w \in S /\ \A x \in S \ stop : step[x] \in S) => v \in S}
           g == [w \in D |-> CHOOSE v : v \in run(w) \cap stop]
<1>1. ASSUME NEW w \in D \ stop
      PROVE  run(w) \cap stop = run(step[w]) \cap stop
  <2>1. step[w] \in D
    OBVIOUS
  <2>2. ASSUME NEW v \in run(w) \cap stop PROVE v \in run(step[w])
    <3> SUFFICES ASSUME NEW S \in SUBSET D, step[w] \in S, \A x \in S \ stop : step[x] \in S
                 PROVE  v \in S
      OBVIOUS
    <3>1. v \in S \cup {w}
      OBVIOUS
    <3> QED
      BY <3>1
  <2>3. ASSUME NEW v \in run(step[w]) PROVE v \in run(w)
    OBVIOUS
  <2> QED
    BY <2>2, <2>3
<1>2. ASSUME NEW w \in stop
      PROVE  run(w) \cap stop = {w}
  <2>1. w \in D
    OBVIOUS
  <2>2. \A v \in run(w) : v \in {w}
    BY <2>1
  <2> QED
    BY <2>1, <2>2
<1>3. \A w \in D : g[w] = IF w \in stop THEN w ELSE g[step[w]]
  <2> TAKE w \in D
  <2>1. CASE w \in stop
    BY <1>2, <2>1
  <2>2. CASE w \notin stop
    BY <1>1, <2>2
  <2> QED
    BY <2>1, <2>2
<1>4. g = [w \in D |-> g[w]]
  OBVIOUS
<1> HIDE DEF g
<1>5. g = [w \in D |-> IF w \in stop THEN w ELSE g[step[w]]]
  BY <1>3, <1>4, Zenon
<1> QED
  BY <1>5 DEF Runs

\* From a state where the invariant holds, and with a number that every step makes
\* smaller, the loop stops and the invariant holds there.
LEMMA LoopRule ==
  ASSUME NEW D, NEW stop \in SUBSET D, NEW step, NEW f,
         Runs(f, D, stop, step),
         NEW Inv \in SUBSET D, NEW m \in [Inv -> Nat],
         \A w \in Inv \ stop : step[w] \in Inv /\ m[step[w]] < m[w],
         NEW w \in Inv
  PROVE  f[w] \in Inv \cap stop
<1> DEFINE bad == {n \in Nat : \E x \in Inv : m[x] = n /\ f[x] \notin Inv \cap stop}
<1> SUFFICES bad = {}
  OBVIOUS
<1> SUFFICES ASSUME bad # {} PROVE FALSE
  OBVIOUS
<1>1. PICK n \in bad : \A k \in bad : n <= k
  BY LeastNatural
<1>2. PICK x \in Inv : m[x] = n /\ f[x] \notin Inv \cap stop
  BY <1>1
<1>3. x \notin stop
  <2> SUFFICES ASSUME x \in stop PROVE FALSE
    OBVIOUS
  <2>1. f[x] = x
    BY DEF Runs
  <2> QED
    BY <1>2, <2>1
<1>4. f[x] = f[step[x]]
  <2>1. x \in D
    OBVIOUS
  <2> QED
    BY <1>3, <2>1, Zenon DEF Runs
<1>5. step[x] \in Inv /\ m[step[x]] < m[x] /\ m[step[x]] \in Nat /\ m[x] \in Nat
  BY <1>3
<1>6. m[step[x]] \in bad
  BY <1>2, <1>4, <1>5
<1> QED
  BY <1>1, <1>2, <1>5, <1>6

-----------------------------------------------------------------------------
(* Worklists *)

\* A finite set as a sequence: every member once.
LEMMA ListOf ==
  ASSUME NEW S, IsFiniteSet(S)
  PROVE  /\ SetToSeq(S) \in Seq(S) /\ ToSet(SetToSeq(S)) = S /\ IsInjective(SetToSeq(S))
<1> DEFINE n == Cardinality(S)
           s == SetToSeq(S)
<1>1. n \in Nat /\ ExistsBijection(1..n, S)
  BY FS_CardinalityType
<1>2. \E f \in [1..n -> S] : IsInjective(f)
  BY <1>1 DEF ExistsBijection, Bijection, Injection
<1>3. s \in [1..n -> S] /\ IsInjective(s)
  BY <1>2, Zenon DEF SetToSeq
<1>4. IsFiniteSet(1..n) /\ Cardinality(1..n) = n
  BY <1>1, FS_Interval
<1> HIDE DEF s
<1>5. s \in Surjection(1..n, S)
  BY <1>3, <1>4, FS_Injection, FS_Bijection DEF Injection
<1>6. s \in Seq(S) /\ DOMAIN s = 1..n
  BY <1>1, <1>3
<1>7. ToSet(s) = S
  BY <1>3, <1>5, <1>6 DEF Surjection, ToSet
<1> QED
  BY <1>3, <1>6, <1>7 DEF s

\* The two parts of a worklist that is not empty.
LEMMA FrontLast ==
  ASSUME NEW R, NEW s \in Seq(R), s # <<>>
  PROVE  Front(s) \in Seq(R) /\ Last(s) \in R
<1>1. Len(s) \in Nat \ {0} /\ DOMAIN s = 1..Len(s)
  OBVIOUS
<1>2. Front(s) = [i \in 1..(Len(s) - 1) |-> s[i]]
  BY <1>1 DEF Front
<1> QED
  BY <1>1, <1>2 DEF Last

\* Taking the last of a worklist without repetitions removes it from its members.
LEMMA PopLast ==
  ASSUME NEW R, NEW s \in Seq(R), s # <<>>, IsInjective(s)
  PROVE  /\ Front(s) \in Seq(R) /\ IsInjective(Front(s)) /\ Last(s) \in R
         /\ ToSet(Front(s)) = ToSet(s) \ {Last(s)} /\ Last(s) \in ToSet(s)
<1> DEFINE n == Len(s)
<1>1. n \in Nat \ {0} /\ DOMAIN s = 1..n
  OBVIOUS
<1>2. Front(s) = [i \in 1..(n - 1) |-> s[i]]
  BY <1>1 DEF Front
<1>3. Front(s) \in Seq(R) /\ DOMAIN Front(s) = 1..(n - 1)
  BY <1>1, <1>2
<1> QED
  BY <1>1, <1>2, <1>3 DEF IsInjective, ToSet, Last

\* Two worklists without repetitions and without a common member make one.
LEMMA ListConcat ==
  ASSUME NEW R, NEW s \in Seq(R), NEW t \in Seq(R), IsInjective(s), IsInjective(t),
         ToSet(s) \cap ToSet(t) = {}
  PROVE  s \o t \in Seq(R) /\ IsInjective(s \o t) /\ ToSet(s \o t) = ToSet(s) \cup ToSet(t)
<1> DEFINE u == s \o t
<1>1. /\ DOMAIN s = 1..Len(s) /\ DOMAIN t = 1..Len(t) /\ DOMAIN u = 1..(Len(s) + Len(t))
      /\ Len(s) \in Nat /\ Len(t) \in Nat /\ u \in Seq(R)
      /\ \A i \in DOMAIN u : u[i] = IF i <= Len(s) THEN s[i] ELSE t[i - Len(s)]
  OBVIOUS
<1> HIDE DEF u
<1>2. \A i \in DOMAIN s : u[i] = s[i]
  BY <1>1
<1>3. \A i \in DOMAIN t : i + Len(s) \in DOMAIN u /\ u[i + Len(s)] = t[i]
  BY <1>1
<1>4. ToSet(u) = ToSet(s) \cup ToSet(t)
  <2>1. ASSUME NEW i \in DOMAIN u PROVE u[i] \in ToSet(s) \cup ToSet(t)
    BY <1>1 DEF ToSet
  <2>2. ASSUME NEW x \in ToSet(s) \cup ToSet(t) PROVE x \in ToSet(u)
    <3>1. CASE \E i \in DOMAIN s : s[i] = x
      BY <1>1, <1>2, <3>1 DEF ToSet
    <3>2. CASE \E i \in DOMAIN t : t[i] = x
      BY <1>3, <3>2 DEF ToSet
    <3> QED
      BY <3>1, <3>2 DEF ToSet
  <2>3. ToSet(u) \subseteq ToSet(s) \cup ToSet(t)
    BY <2>1 DEF ToSet
  <2> QED
    BY <2>2, <2>3
<1>5. ASSUME NEW i \in DOMAIN u, NEW j \in DOMAIN u, u[i] = u[j] PROVE i = j
  <2>1. CASE i <= Len(s) /\ j <= Len(s)
    BY <1>1, <1>5, <2>1 DEF IsInjective
  <2>2. CASE i > Len(s) /\ j > Len(s)
    <3>1. /\ i - Len(s) \in DOMAIN t /\ j - Len(s) \in DOMAIN t
          /\ t[i - Len(s)] = t[j - Len(s)]
      BY <1>1, <1>5, <2>2
    <3>2. i - Len(s) = j - Len(s)
      BY <3>1 DEF IsInjective
    <3> QED
      BY <1>1, <3>2
  <2>3. CASE (i <= Len(s) /\ j > Len(s)) \/ (i > Len(s) /\ j <= Len(s))
    <3>1. \A k \in DOMAIN u : /\ k <= Len(s) => u[k] \in ToSet(s)
                              /\ k > Len(s) => u[k] \in ToSet(t)
      BY <1>1 DEF ToSet
    <3> QED
      BY <1>5, <2>3, <3>1
  <2> QED
    BY <1>1, <2>1, <2>2, <2>3
<1> QED
  BY <1>1, <1>4, <1>5 DEF u, IsInjective

\* So do a worklist and something that is not in it.
LEMMA ListAppend ==
  ASSUME NEW R, NEW s \in Seq(R), IsInjective(s), NEW x \in R, x \notin ToSet(s)
  PROVE  /\ Append(s, x) \in Seq(R) /\ IsInjective(Append(s, x))
         /\ ToSet(Append(s, x)) = ToSet(s) \cup {x}
<1> DEFINE t == <<x>>
<1>1. t \in Seq(R) /\ IsInjective(t) /\ ToSet(t) = {x} /\ Append(s, x) = s \o t
  BY DEF IsInjective, ToSet
<1> HIDE DEF t
<1> QED
  BY <1>1, ListConcat

-----------------------------------------------------------------------------
(* The categories below a category *)

\* What SnapshotSound says, of any categories t that have been read.
Sound(t) ==
  /\ t.rows \in SUBSET Category
  /\ \A c \in t.rows : t.upper[c] \in t.rows \cup {None}
  /\ \A S \in SUBSET t.rows : S # {} => \E c \in S : t.upper[c] \notin S

\* The children of a category as a list.
LEMMA ChildrenListed ==
  ASSUME NEW t, Sound(t), NEW c
  PROVE  LET kids == Children(t, c)
         IN  /\ kids \in SUBSET t.rows /\ SetToSeq(kids) \in Seq(t.rows)
             /\ ToSet(SetToSeq(kids)) = kids /\ IsInjective(SetToSeq(kids))
<1> DEFINE kids == Children(t, c)
<1>1. kids \in SUBSET t.rows /\ kids \in SUBSET Category
  BY DEF Children, Sound
<1>2. IsFiniteSet(kids)
  BY <1>1, FiniteCategories
<1> HIDE DEF kids
<1>3. SetToSeq(kids) \in Seq(kids) /\ ToSet(SetToSeq(kids)) = kids /\ IsInjective(SetToSeq(kids))
  BY <1>2, ListOf
<1>4. SetToSeq(kids) \in Seq(t.rows)
  BY <1>1, <1>3
<1> QED
  BY <1>1, <1>3, <1>4 DEF kids

\* A step of the walk leads to a state of the walk.
LEMMA TakeUpTyped ==
  ASSUME NEW t, Sound(t), NEW w \in Walk(t), w.pending # <<>>
  PROVE  TakeUp(t, w) \in Walk(t)
<1> DEFINE c == Last(w.pending)
           s == SetToSeq(Children(t, c))
           q == Front(w.pending)
<1>1. s \in Seq(t.rows)
  BY ChildrenListed
<1>2. w.pending \in Seq(t.rows) /\ w.ids \in SUBSET t.rows
  BY DEF Walk
<1>3. c \in t.rows /\ q \in Seq(t.rows)
  BY <1>2, FrontLast
<1>4. TakeUp(t, w) = [pending |-> q \o s, ids |-> w.ids \cup {c}, valid |-> c \notin w.ids]
  BY DEF TakeUp
<1> HIDE DEF c, s, q
<1>5. q \o s \in Seq(t.rows)
  BY <1>1, <1>3
<1>6. w.ids \cup {c} \in SUBSET t.rows /\ (c \notin w.ids) \in BOOLEAN
  BY <1>2, <1>3
<1> QED
  BY <1>4, <1>5, <1>6 DEF Walk

\* The recursive function of Descendants satisfies its equation.
LEMMA WalkDefined ==
  ASSUME NEW t, Sound(t)
  PROVE  LET walk == CHOOSE walk : walk = [w \in Walk(t) |->
                       IF w.pending = <<>> \/ ~w.valid THEN w ELSE walk[TakeUp(t, w)]]
         IN  /\ walk = [w \in Walk(t) |->
                       IF w.pending = <<>> \/ ~w.valid THEN w ELSE walk[TakeUp(t, w)]]
             /\ \A root : Descendants(t, root) =
                            walk[[pending |-> <<root>>, ids |-> {}, valid |-> TRUE]]
<1> DEFINE D == Walk(t)
           stop == {w \in D : w.pending = <<>> \/ ~w.valid}
           step == [w \in D \ stop |-> TakeUp(t, w)]
           walk == CHOOSE walk : walk = [w \in Walk(t) |->
                       IF w.pending = <<>> \/ ~w.valid THEN w ELSE walk[TakeUp(t, w)]]
<1>1. step \in [D \ stop -> D]
  BY TakeUpTyped
<1>2. PICK f : Runs(f, D, stop, step)
  <2> HIDE DEF D, stop, step
  <2>1. stop \in SUBSET D
    BY DEF stop
  <2> QED
    BY <1>1, <2>1, LoopDefined
<1>3. f = [w \in D |-> IF w.pending = <<>> \/ ~w.valid THEN w ELSE f[TakeUp(t, w)]]
  BY <1>2 DEF Runs
<1>4. walk = [w \in Walk(t) |-> IF w.pending = <<>> \/ ~w.valid THEN w ELSE walk[TakeUp(t, w)]]
  BY <1>3, Zenon
<1>5. \A root : Descendants(t, root) = walk[[pending |-> <<root>>, ids |-> {}, valid |-> TRUE]]
  BY DEF Descendants
<1> QED
  BY <1>4, <1>5, Zenon

\* What holds of a walk from root each time round its loop.
Walking(t, root, w) ==
  LET pending == ToSet(w.pending)
      met     == w.ids \cup pending
  IN  /\ w \in Walk(t) /\ w.valid /\ IsInjective(w.pending)
      /\ pending \cap w.ids = {}
      /\ root \in met
      /\ \A x \in met : x = root \/ t.upper[x] \in w.ids
      /\ \A x \in t.rows : t.upper[x] \in w.ids => x \in met

\* A list of one.
LEMMA OneItem ==
  ASSUME NEW R, NEW x \in R
  PROVE  <<x>> \in Seq(R) /\ IsInjective(<<x>>) /\ ToSet(<<x>>) = {x}
BY DEF ToSet, IsInjective

\* The walk starts with the category itself pending.
LEMMA WalkStarts ==
  ASSUME NEW t, Sound(t), NEW root \in t.rows
  PROVE  Walking(t, root, [pending |-> <<root>>, ids |-> {}, valid |-> TRUE])
<1> DEFINE w == [pending |-> <<root>>, ids |-> {}, valid |-> TRUE]
<1>1. w \in Walk(t) /\ w.valid /\ w.ids = {} /\ w.pending = <<root>>
  <2>1. <<root>> \in Seq(t.rows)
    BY OneItem
  <2>2. {} \in SUBSET t.rows
    OBVIOUS
  <2> QED
    BY <2>1, <2>2, Zenon DEF Walk
<1>2. ToSet(<<root>>) = {root} /\ IsInjective(<<root>>)
  BY DEF ToSet, IsInjective
<1> HIDE DEF w
<1>3. Walking(t, root, w)
  BY <1>1, <1>2 DEF Walking
<1> QED
  BY <1>3 DEF w

\* Taking up a category keeps what holds of the walk and adds to what it has met; by
\* acyclicity none of the category's children has been met before.
LEMMA WalkGoesOn ==
  ASSUME NEW t, Sound(t), NEW root \in t.rows,
         NEW w, Walking(t, root, w), w.pending # <<>>
  PROVE  /\ Walking(t, root, TakeUp(t, w))
         /\ \E c \in t.rows \ w.ids : TakeUp(t, w).ids = w.ids \cup {c}
<1> DEFINE c == Last(w.pending)
           s == SetToSeq(Children(t, c))
           q == Front(w.pending)
           v == TakeUp(t, w)
           kids == Children(t, c)
           met == w.ids \cup ToSet(w.pending)
<1>1. /\ w \in Walk(t) /\ w.valid /\ IsInjective(w.pending)
      /\ ToSet(w.pending) \cap w.ids = {}
      /\ root \in met
      /\ \A x \in met : x = root \/ t.upper[x] \in w.ids
      /\ \A x \in t.rows : t.upper[x] \in w.ids => x \in met
  BY DEF Walking
<1>2. v \in Walk(t)
  BY <1>1, TakeUpTyped
<1>3. w.pending \in Seq(t.rows) /\ w.ids \in SUBSET t.rows
  BY <1>1 DEF Walk
<1>4. /\ q \in Seq(t.rows) /\ IsInjective(q) /\ c \in t.rows
      /\ ToSet(q) = ToSet(w.pending) \ {c} /\ c \in ToSet(w.pending)
  BY <1>1, <1>3, PopLast
<1>5. /\ kids \in SUBSET t.rows /\ s \in Seq(t.rows)
      /\ ToSet(s) = kids /\ IsInjective(s)
  BY ChildrenListed
<1>6. kids = {x \in t.rows : t.upper[x] = c}
  BY DEF Children
<1>7. /\ v.pending = q \o s
      /\ v.ids = w.ids \cup {c}
      /\ v.valid = (c \notin w.ids)
  BY DEF TakeUp
<1>8. met \in SUBSET t.rows
  BY <1>3 DEF ToSet
<1> HIDE DEF c, s, q, v, kids
<1>9. c \notin w.ids /\ v.valid
  BY <1>1, <1>4, <1>7
<1>10. kids \cap met = {}
  <2> SUFFICES ASSUME NEW x \in kids, x \in met PROVE FALSE
    OBVIOUS
  <2>1. x = root /\ t.upper[root] = c
    BY <1>1, <1>6, <1>9
  <2>2. \A y \in met : t.upper[y] \in met
    BY <1>1, <1>4, <2>1
  <2> HIDE DEF met
  <2>3. met # {}
    BY <1>1
  <2> QED
    BY <1>8, <2>2, <2>3 DEF Sound
<1>11. /\ IsInjective(v.pending)
       /\ ToSet(v.pending) = ToSet(q) \cup kids
  <2>1. ToSet(q) \cap ToSet(s) = {}
    BY <1>4, <1>5, <1>10
  <2> QED
    BY <1>4, <1>5, <1>7, <2>1, ListConcat
<1>12. v.ids \cup ToSet(v.pending) = met \cup kids
  BY <1>4, <1>7, <1>11
<1>13. ToSet(v.pending) \cap v.ids = {}
  BY <1>1, <1>4, <1>7, <1>10, <1>11
<1>14. \A x \in met \cup kids : x = root \/ t.upper[x] \in v.ids
  BY <1>1, <1>6, <1>7
<1>15. \A x \in t.rows : t.upper[x] \in v.ids => x \in met \cup kids
  BY <1>1, <1>6, <1>7
<1>16. root \in met \cup kids
  BY <1>1
<1> HIDE DEF met
<1>17. Walking(t, root, v)
  BY <1>2, <1>9, <1>11, <1>12, <1>13, <1>14, <1>15, <1>16 DEF Walking
<1> QED
  BY <1>4, <1>7, <1>9, <1>17 DEF v

\* A walk ends with the category and everything below it.
THEOREM ListsBelow ==
  ASSUME NEW t, Sound(t), NEW root \in t.rows
  PROVE  LET below == Descendants(t, root)
         IN  below.valid /\ below.ids \in SUBSET t.rows /\ Beneath(t, root, below.ids)
<1> DEFINE D == Walk(t)
           stop == {w \in D : w.pending = <<>> \/ ~w.valid}
           step == [w \in D |-> TakeUp(t, w)]
           walk == CHOOSE walk : walk = [w \in Walk(t) |->
                       IF w.pending = <<>> \/ ~w.valid THEN w ELSE walk[TakeUp(t, w)]]
           first == [pending |-> <<root>>, ids |-> {}, valid |-> TRUE]
           Inv == {w \in D : Walking(t, root, w)}
           m == [w \in Inv |-> Cardinality(t.rows) - Cardinality(w.ids)]
<1>1. Runs(walk, D, stop, step)
  <2>1. walk = [w \in Walk(t) |->
                  IF w.pending = <<>> \/ ~w.valid THEN w ELSE walk[TakeUp(t, w)]]
    BY WalkDefined
  <2>2. \A w \in D : walk[w] = IF w \in stop THEN w ELSE walk[step[w]]
    <3> HIDE DEF walk
    <3> QED
      BY <2>1
  <2>3. walk = [w \in D |-> walk[w]]
    <3> DEFINE e(w) == IF w.pending = <<>> \/ ~w.valid THEN w ELSE walk[TakeUp(t, w)]
    <3>1. walk = [w \in D |-> e(w)]
      BY <2>1, Zenon
    <3> HIDE DEF e, D, walk
    <3> QED
      BY <3>1
  <2> HIDE DEF D, stop, step, walk
  <2> QED
    BY <2>2, <2>3, Zenon DEF Runs
<1>2. Descendants(t, root) = walk[first]
  BY WalkDefined
<1>3. IsFiniteSet(t.rows) /\ Cardinality(t.rows) \in Nat
  BY FiniteCategories, FS_CardinalityType DEF Sound
<1>4. \A ids \in SUBSET t.rows : /\ IsFiniteSet(ids)
                                 /\ Cardinality(ids) \in Nat
                                 /\ Cardinality(ids) <= Cardinality(t.rows)
  BY <1>3, FS_Subset, FS_CardinalityType
<1>5. \A w \in Inv : w.ids \in SUBSET t.rows
  BY DEF Walk
<1>6. \A w \in Inv : Cardinality(t.rows) - Cardinality(w.ids) \in Nat
  BY <1>3, <1>4, <1>5
<1>7. m \in [Inv -> Nat]
  BY <1>6
<1>8. ASSUME NEW w \in Inv \ stop
      PROVE  step[w] \in Inv /\ m[step[w]] < m[w]
  <2>1. Walking(t, root, w) /\ w.pending # <<>>
    OBVIOUS
  <2>2. /\ Walking(t, root, TakeUp(t, w))
        /\ \E c \in t.rows \ w.ids : TakeUp(t, w).ids = w.ids \cup {c}
    BY <2>1, WalkGoesOn
  <2>3. TakeUp(t, w) \in Inv /\ step[w] = TakeUp(t, w)
    BY <2>2 DEF Walking
  <2>4. w.ids \in SUBSET t.rows /\ IsFiniteSet(w.ids)
    BY <1>4, <1>5
  <2>5. Cardinality(TakeUp(t, w).ids) = Cardinality(w.ids) + 1
    BY <2>2, <2>4, FS_AddElement
  <2>6. /\ m[w] = Cardinality(t.rows) - Cardinality(w.ids)
        /\ m[step[w]] = Cardinality(t.rows) - Cardinality(TakeUp(t, w).ids)
    BY <2>3
  <2>7. Cardinality(w.ids) \in Nat
    BY <1>4, <2>4
  <2> QED
    BY <1>3, <2>3, <2>5, <2>6, <2>7
<1>9. first \in Inv
  BY WalkStarts DEF Walking
<1>10. stop \in SUBSET D /\ Inv \in SUBSET D
  OBVIOUS
<1>11. walk[first] \in Inv \cap stop
  <2> HIDE DEF D, stop, step, walk, first, Inv, m
  <2> QED
    BY <1>1, <1>7, <1>8, <1>9, <1>10, LoopRule
<1> DEFINE last == walk[first]
<1>12. Walking(t, root, last) /\ (last.pending = <<>> \/ ~last.valid)
  BY <1>11
<1> HIDE DEF last
<1>13. last.valid /\ last.pending = <<>> /\ ToSet(<<>>) = {}
  BY <1>12 DEF Walking, ToSet
<1>14. last.ids \in SUBSET t.rows
  BY <1>12 DEF Walking, Walk
<1>15. Beneath(t, root, last.ids)
  BY <1>12, <1>13, <1>14 DEF Walking, Beneath
<1> QED
  BY <1>2, <1>13, <1>14, <1>15 DEF last

\* The categories below one, in a forest, are a definite set.
LEMMA OneBelow ==
  ASSUME NEW t, Sound(t), NEW c \in t.rows,
         NEW S \in SUBSET t.rows, NEW T \in SUBSET t.rows,
         Beneath(t, c, S), Beneath(t, c, T)
  PROVE  S = T
<1> DEFINE X == (S \ T) \cup (T \ S)
<1> SUFFICES ASSUME X # {} PROVE FALSE
  OBVIOUS
<1>1. PICK x \in X : t.upper[x] \notin X
  BY DEF Sound
<1>2. x \in t.rows /\ x # c
  BY DEF Beneath
<1>3. (x \in S <=> t.upper[x] \in S) /\ (x \in T <=> t.upper[x] \in T)
  BY <1>2 DEF Beneath
<1> QED
  BY <1>1, <1>3

\* The categories a category lists.
Below(t, c) == Descendants(t, c).ids

\* What ListsBelow says, for Below.
LEMMA BelowIs ==
  ASSUME NEW t, Sound(t), NEW c \in t.rows
  PROVE  /\ Below(t, c) \in SUBSET t.rows /\ c \in Below(t, c)
         /\ \A x \in t.rows \ {c} : x \in Below(t, c) <=> t.upper[x] \in Below(t, c)
BY ListsBelow DEF Below, Beneath

\* It is the category itself and what is below each of its children.
LEMMA BelowSplits ==
  ASSUME NEW t, Sound(t), NEW c \in t.rows
  PROVE  Below(t, c) = {c} \cup UNION {Below(t, k) : k \in Children(t, c)}
<1> DEFINE T == {c} \cup UNION {Below(t, k) : k \in Children(t, c)}
<1>1. \A k \in Children(t, c) :
        /\ k \in t.rows /\ t.upper[k] = c
        /\ Below(t, k) \in SUBSET t.rows /\ k \in Below(t, k)
        /\ \A x \in t.rows \ {k} : x \in Below(t, k) <=> t.upper[x] \in Below(t, k)
  BY BelowIs DEF Children
<1>2. \A x \in t.rows : t.upper[x] = c => x \in Children(t, c)
  BY DEF Children
<1>3. T \in SUBSET t.rows /\ c \in T
  BY <1>1
<1>4. ASSUME NEW x \in t.rows \ {c}, x \in T PROVE t.upper[x] \in T
  <2>1. PICK k \in Children(t, c) : x \in Below(t, k)
    BY <1>4
  <2>2. CASE x = k
    BY <1>1, <2>2
  <2>3. CASE x # k
    BY <1>1, <2>1, <2>3
  <2> QED
    BY <2>2, <2>3
<1>5. ASSUME NEW x \in t.rows \ {c}, t.upper[x] \in T PROVE x \in T
  <2>1. CASE t.upper[x] = c
    BY <1>1, <1>2, <2>1
  <2>2. CASE \E k \in Children(t, c) : t.upper[x] \in Below(t, k)
    BY <1>1, <2>2
  <2> QED
    BY <1>5, <2>1, <2>2
<1> HIDE DEF T
<1>6. Beneath(t, c, T)
  BY <1>3, <1>4, <1>5 DEF Beneath
<1>7. Beneath(t, c, Below(t, c)) /\ Below(t, c) \in SUBSET t.rows
  BY ListsBelow DEF Below
<1> QED
  BY <1>3, <1>6, <1>7, OneBelow DEF T

\* A category is not below its children, and nothing is below two of them.
LEMMA ChildrenApart ==
  ASSUME NEW t, Sound(t), NEW c \in t.rows, NEW x \in Children(t, c)
  PROVE  /\ c \notin Below(t, x)
         /\ \A y \in Children(t, c) \ {x} : Below(t, x) \cap Below(t, y) = {}
<1>1. \A k \in Children(t, c) :
        /\ k \in t.rows /\ t.upper[k] = c
        /\ Below(t, k) \in SUBSET t.rows /\ k \in Below(t, k)
        /\ \A z \in t.rows \ {k} : z \in Below(t, k) <=> t.upper[z] \in Below(t, k)
  BY BelowIs DEF Children
<1>2. \A k \in Children(t, c) : c \notin Below(t, k)
  <2> SUFFICES ASSUME NEW k \in Children(t, c), c \in Below(t, k) PROVE FALSE
    OBVIOUS
  <2>1. \A z \in Below(t, k) : t.upper[z] \in Below(t, k)
    BY <1>1
  <2> QED
    BY <1>1, <2>1 DEF Sound
<1>3. ASSUME NEW y \in Children(t, c) \ {x} PROVE Below(t, x) \cap Below(t, y) = {}
  <2> DEFINE X == Below(t, x) \cap Below(t, y)
  <2> SUFFICES ASSUME X # {} PROVE FALSE
    OBVIOUS
  <2>1. PICK z \in X : t.upper[z] \notin X
    <3>1. X \in SUBSET t.rows
      BY <1>1
    <3> HIDE DEF X
    <3> QED
      BY <3>1 DEF Sound
  <2>2. z = x \/ z = y
    BY <1>1, <2>1
  <2>3. x \notin Below(t, y) /\ y \notin Below(t, x)
    BY <1>1, <1>2, <1>3
  <2> QED
    BY <2>1, <2>2, <2>3
<1> QED
  BY <1>2, <1>3

\* The number of products listed for some categories.
Amount(S) == Cardinality(Listing(S))

\* Products are in one category each: lists of different categories add up.
LEMMA AmountsAdd ==
  ASSUME IsFiniteSet(OnSale), NEW S, NEW T
  PROVE  /\ Amount(S) \in Nat
         /\ S \cap T = {} => Amount(S \cup T) = Amount(S) + Amount(T)
         /\ S \subseteq T => Amount(S) <= Amount(T)
<1>1. \A U : Listing(U) \in SUBSET OnSale /\ IsFiniteSet(Listing(U)) /\ Amount(U) \in Nat
  <2> TAKE U
  <2>1. Listing(U) \in SUBSET OnSale
    BY DEF Listing
  <2> QED
    BY <2>1, FS_Subset, FS_CardinalityType DEF Amount
<1>2. ASSUME S \cap T = {} PROVE Amount(S \cup T) = Amount(S) + Amount(T)
  <2>1. Listing(S \cup T) = Listing(S) \cup Listing(T) /\ Listing(S) \cap Listing(T) = {}
    BY <1>2 DEF Listing
  <2>2. Cardinality(Listing(S) \cup Listing(T)) =
          Cardinality(Listing(S)) + Cardinality(Listing(T)) - Cardinality({})
    BY <1>1, <2>1, FS_Union
  <2> QED
    <3>1. Amount(S \cup T) = Cardinality(Listing(S) \cup Listing(T))
      BY <2>1 DEF Amount
    <3>2. Amount(S) = Cardinality(Listing(S)) /\ Amount(T) = Cardinality(Listing(T))
      BY DEF Amount
    <3>3. Cardinality({}) = 0 /\ Amount(S) \in Nat /\ Amount(T) \in Nat
      BY <1>1, FS_EmptySet
    <3> QED
      BY <2>2, <3>1, <3>2, <3>3
<1>3. ASSUME S \subseteq T PROVE Amount(S) <= Amount(T)
  <2>1. Listing(S) \in SUBSET Listing(T)
    BY <1>3 DEF Listing
  <2> QED
    BY <1>1, <2>1, FS_Subset DEF Amount
<1> QED
  BY <1>1, <1>2, <1>3

\* The number the query returns for a category is the length of its own list.
LEMMA CountIs ==
  ASSUME NEW c
  PROVE  Count(c) = Amount({c})
<1>1. {p \in OnSale : filed[p] = c} = Listing({c})
  BY DEF Listing
<1> QED
  BY <1>1 DEF Count, Amount

-----------------------------------------------------------------------------
(* The numbers of products *)

\* Setting three fields of a tally.
LEMMA TallyMore ==
  ASSUME NEW a, NEW b, NEW c, NEW n, NEW d, NEW f, NEW g
  PROVE  [[pending |-> a, left |-> b, totals |-> c, processed |-> n]
             EXCEPT !.pending = d, !.left = f, !.totals = g] =
           [pending |-> d, left |-> f, totals |-> g, processed |-> n]
<1> DEFINE w == [pending |-> a, left |-> b, totals |-> c, processed |-> n]
           x == [pending |-> d, left |-> b, totals |-> c, processed |-> n]
           y == [pending |-> d, left |-> f, totals |-> c, processed |-> n]
<1>1. [w EXCEPT !.pending = d] = x
  OBVIOUS
<1>2. [x EXCEPT !.left = f] = y
  OBVIOUS
<1>3. [y EXCEPT !.totals = g] = [pending |-> d, left |-> f, totals |-> g, processed |-> n]
  OBVIOUS
<1> HIDE DEF w, x, y
<1>4. [w EXCEPT !.pending = d, !.left = f, !.totals = g] =
        [[[w EXCEPT !.pending = d] EXCEPT !.left = f] EXCEPT !.totals = g]
  OBVIOUS
<1> QED
  BY <1>1, <1>2, <1>3, <1>4, Zenon DEF w

\* What passing a number on does, field by field.
LEMMA PassOnDoes ==
  ASSUME NEW t, Sound(t), NEW w \in Tally(t), w.pending # <<>>
  PROVE  LET c == Last(w.pending)
             p == t.upper[c]
             q == Front(w.pending)
             v == PassOn(t, w)
         IN  /\ c \in t.rows
             /\ v \in Tally(t)
             /\ v.processed = w.processed + 1
             /\ p \notin t.rows => v.pending = q /\ v.left = w.left /\ v.totals = w.totals
             /\ p \in t.rows =>
                  /\ v.pending = IF w.left[p] = 1 THEN Append(q, p) ELSE q
                  /\ v.left = [w.left EXCEPT ![p] = @ - 1]
                  /\ v.totals = [w.totals EXCEPT ![p] = @ + w.totals[c]]
<1> DEFINE c == Last(w.pending)
           p == t.upper[c]
           q == Front(w.pending)
           v == PassOn(t, w)
           next == [pending |-> q, left |-> w.left, totals |-> w.totals,
                    processed |-> w.processed + 1]
           more == [pending   |-> IF w.left[p] = 1 THEN Append(q, p) ELSE q,
                    left      |-> [w.left EXCEPT ![p] = @ - 1],
                    totals    |-> [w.totals EXCEPT ![p] = @ + w.totals[c]],
                    processed |-> w.processed + 1]
<1>1. /\ w = [pending |-> w.pending, left |-> w.left, totals |-> w.totals,
              processed |-> w.processed]
      /\ w.pending \in Seq(t.rows) /\ w.left \in [t.rows -> Int]
      /\ w.totals \in [t.rows -> Nat] /\ w.processed \in Nat
  BY DEF Tally
<1>2. c \in t.rows /\ q \in Seq(t.rows)
  BY <1>1, FrontLast
<1>3. [w EXCEPT !.pending = Front(@), !.processed = @ + 1] = next
  <2> DEFINE a == w.pending
             b == w.left
             x == w.totals
             n == w.processed
  <2>1. w = [pending |-> a, left |-> b, totals |-> x, processed |-> n]
    BY <1>1
  <2>2. [w EXCEPT !.pending = q, !.processed = n + 1] = next
    <3> DEFINE k == n + 1
               r == [pending |-> a, left |-> b, totals |-> x, processed |-> n]
               y == [pending |-> q, left |-> b, totals |-> x, processed |-> n]
               s == [pending |-> q, left |-> b, totals |-> x, processed |-> k]
    <3> HIDE DEF a, b, x, n, q, k
    <3>1. w = r
      BY <2>1
    <3>2. [r EXCEPT !.pending = q] = y
      OBVIOUS
    <3>3. [y EXCEPT !.processed = k] = s
      OBVIOUS
    <3> HIDE DEF r, y, s
    <3>4. [r EXCEPT !.pending = q, !.processed = k] =
            [[r EXCEPT !.pending = q] EXCEPT !.processed = k]
      OBVIOUS
    <3>5. [w EXCEPT !.pending = q, !.processed = k] = s
      BY <3>1, <3>2, <3>3, <3>4, Zenon
    <3> QED
      BY <3>5 DEF s, b, x, n, k
  <2> QED
    BY <2>2
<1>4. p \notin t.rows => v = next
  BY <1>3 DEF PassOn
<1>5. p \in t.rows => v = more
  <2> SUFFICES ASSUME p \in t.rows PROVE v = more
    OBVIOUS
  <2>1. v = [next EXCEPT !.pending = IF w.left[p] = 1 THEN Append(q, p) ELSE q,
                         !.left = [w.left EXCEPT ![p] = @ - 1],
                         !.totals = [w.totals EXCEPT ![p] = @ + w.totals[c]]]
    BY <1>3 DEF PassOn
  <2> HIDE DEF c, p, q, v
  <2> QED
    BY <2>1, TallyMore
<1>6. next \in Tally(t)
  <2>1. w.processed + 1 \in Nat
    BY <1>1
  <2> HIDE DEF q
  <2> QED
    BY <1>1, <1>2, <2>1, Zenon DEF Tally
<1>7. ASSUME p \in t.rows PROVE more \in Tally(t)
  <2> HIDE DEF c, p, q
  <2>1. w.processed + 1 \in Nat
    BY <1>1
  <2>2. [w.left EXCEPT ![p] = @ - 1] \in [t.rows -> Int]
    BY <1>1, <1>7
  <2>3. [w.totals EXCEPT ![p] = @ + w.totals[c]] \in [t.rows -> Nat]
    BY <1>1, <1>2, <1>7
  <2>4. (IF w.left[p] = 1 THEN Append(q, p) ELSE q) \in Seq(t.rows)
    <3>1. Append(q, p) \in Seq(t.rows)
      BY <1>2, <1>7
    <3> QED
      BY <1>2, <3>1, Zenon
  <2> QED
    BY <2>1, <2>2, <2>3, <2>4, Zenon DEF Tally
<1> HIDE DEF v
<1>8. /\ next.processed = w.processed + 1 /\ more.processed = w.processed + 1
      /\ next.pending = q /\ next.left = w.left /\ next.totals = w.totals
      /\ more.pending = IF w.left[p] = 1 THEN Append(q, p) ELSE q
      /\ more.left = [w.left EXCEPT ![p] = @ - 1]
      /\ more.totals = [w.totals EXCEPT ![p] = @ + w.totals[c]]
  OBVIOUS
<1> HIDE DEF next, more
<1>9. v \in Tally(t) /\ v.processed = w.processed + 1
  BY <1>4, <1>5, <1>6, <1>7, <1>8
<1>10. p \notin t.rows => v.pending = q /\ v.left = w.left /\ v.totals = w.totals
  BY <1>4, <1>8
<1>11. p \in t.rows =>
         /\ v.pending = IF w.left[p] = 1 THEN Append(q, p) ELSE q
         /\ v.left = [w.left EXCEPT ![p] = @ - 1]
         /\ v.totals = [w.totals EXCEPT ![p] = @ + w.totals[c]]
  BY <1>5, <1>8
<1> HIDE DEF c, p, q
<1> QED
  BY <1>2, <1>9, <1>10, <1>11, Zenon DEF v, c, p, q

\* A category with what is below those of its children that have been taken up.
Gathered(t, c, done) == {c} \cup UNION {Below(t, x) : x \in Children(t, c) \cap done}

\* What holds of a tally each time round its loop, when these categories have been
\* taken up.
AddingUp(t, w, done) ==
  LET pending == ToSet(w.pending)
  IN  /\ w \in Tally(t) /\ IsInjective(w.pending)
      /\ done \in SUBSET t.rows /\ pending \cap done = {}
      /\ w.processed = Cardinality(done)
      /\ \A c \in t.rows :
           /\ w.left[c] = Cardinality(Children(t, c) \ done)
           /\ c \in done \cup pending <=> Children(t, c) \subseteq done
           /\ w.totals[c] = Amount(Gathered(t, c, done))

\* A tally starts with the categories without children pending.
LEMMA AddingStarts ==
  ASSUME NEW t, Sound(t), IsFiniteSet(OnSale), NEW w,
         w = [pending   |-> SetToSeq({c \in t.rows : Children(t, c) = {}}),
              left      |-> [c \in t.rows |-> Cardinality(Children(t, c))],
              totals    |-> [c \in t.rows |-> Count(c)],
              processed |-> 0]
  PROVE  AddingUp(t, w, {})
<1> DEFINE leaves == {c \in t.rows : Children(t, c) = {}}
<1>1. /\ w.pending = SetToSeq(leaves) /\ w.processed = 0
      /\ \A c \in t.rows : w.left[c] = Cardinality(Children(t, c)) /\ w.totals[c] = Count(c)
  OBVIOUS
<1>2. leaves \in SUBSET t.rows /\ IsFiniteSet(leaves)
  BY FiniteCategories DEF Sound
<1>3. \A c \in t.rows : c \in leaves <=> Children(t, c) = {}
  OBVIOUS
<1>4. \A c \in t.rows : Cardinality(Children(t, c)) \in Nat
  BY FiniteCategories, FS_CardinalityType DEF Sound, Children
<1>5. \A c \in t.rows : Count(c) = Amount({c}) /\ Amount({c}) \in Nat
  BY CountIs, AmountsAdd
<1>6. SetToSeq(leaves) \in Seq(t.rows) /\ ToSet(SetToSeq(leaves)) = leaves
      /\ IsInjective(SetToSeq(leaves))
  <2>1. SetToSeq(leaves) \in Seq(leaves) /\ ToSet(SetToSeq(leaves)) = leaves
        /\ IsInjective(SetToSeq(leaves))
    BY <1>2, ListOf
  <2> HIDE DEF leaves
  <2> QED
    BY <1>2, <2>1
<1>7. w \in Tally(t)
  <2>1. [c \in t.rows |-> Cardinality(Children(t, c))] \in [t.rows -> Int]
    BY <1>4
  <2>2. [c \in t.rows |-> Count(c)] \in [t.rows -> Nat]
    BY <1>5
  <2>3. 0 \in Nat
    OBVIOUS
  <2> HIDE DEF leaves
  <2> QED
    BY <1>6, <2>1, <2>2, <2>3, Zenon DEF Tally, leaves
<1> HIDE DEF leaves
<1>8. \A c \in t.rows : Gathered(t, c, {}) = {c} /\ Children(t, c) \ {} = Children(t, c)
  BY DEF Gathered
<1>9. Cardinality({}) = 0
  BY FS_EmptySet
<1>10. /\ ToSet(w.pending) \cap {} = {} /\ IsInjective(w.pending)
       /\ w.processed = Cardinality({}) /\ {} \in SUBSET t.rows
  BY <1>1, <1>6, <1>9
<1>11. ASSUME NEW c \in t.rows
       PROVE  /\ w.left[c] = Cardinality(Children(t, c) \ {})
              /\ c \in {} \cup ToSet(w.pending) <=> Children(t, c) \subseteq {}
              /\ w.totals[c] = Amount(Gathered(t, c, {}))
  <2>1. w.left[c] = Cardinality(Children(t, c) \ {})
    BY <1>1, <1>8
  <2>2. c \in {} \cup ToSet(w.pending) <=> Children(t, c) \subseteq {}
    BY <1>1, <1>3, <1>6
  <2>3. w.totals[c] = Amount(Gathered(t, c, {}))
    BY <1>1, <1>5, <1>8
  <2> QED
    BY <2>1, <2>2, <2>3
<1> QED
  BY <1>7, <1>10, <1>11 DEF AddingUp

\* Passing a number on keeps what holds of the tally, with one category more taken up.
LEMMA AddingGoesOn ==
  ASSUME NEW t, Sound(t), IsFiniteSet(OnSale),
         NEW w, NEW done, AddingUp(t, w, done), w.pending # <<>>
  PROVE  /\ Last(w.pending) \in t.rows \ done
         /\ AddingUp(t, PassOn(t, w), done \cup {Last(w.pending)})
<1> DEFINE c == Last(w.pending)
           p == t.upper[c]
           q == Front(w.pending)
           v == PassOn(t, w)
           more == done \cup {c}
<1>1. /\ w \in Tally(t) /\ IsInjective(w.pending)
      /\ done \in SUBSET t.rows /\ ToSet(w.pending) \cap done = {}
      /\ w.processed = Cardinality(done)
      /\ \A d \in t.rows : /\ w.left[d] = Cardinality(Children(t, d) \ done)
                           /\ d \in done \cup ToSet(w.pending) <=> Children(t, d) \subseteq done
                           /\ w.totals[d] = Amount(Gathered(t, d, done))
  BY Zenon DEF AddingUp
<1>2. w.pending \in Seq(t.rows) /\ w.left \in [t.rows -> Int] /\ w.totals \in [t.rows -> Nat]
  BY <1>1 DEF Tally
<1>3. /\ c \in t.rows
      /\ v \in Tally(t)
      /\ v.processed = w.processed + 1
      /\ p \notin t.rows => v.pending = q /\ v.left = w.left /\ v.totals = w.totals
      /\ p \in t.rows =>
           /\ v.pending = IF w.left[p] = 1 THEN Append(q, p) ELSE q
           /\ v.left = [w.left EXCEPT ![p] = @ - 1]
           /\ v.totals = [w.totals EXCEPT ![p] = @ + w.totals[c]]
  BY <1>1, PassOnDoes, ZenonT(60)
<1>4. /\ q \in Seq(t.rows) /\ IsInjective(q)
      /\ ToSet(q) = ToSet(w.pending) \ {c} /\ c \in ToSet(w.pending)
  BY <1>1, <1>2, PopLast
<1>5. c \notin done /\ Children(t, c) \subseteq done
  BY <1>1, <1>3, <1>4
<1>6. IsFiniteSet(t.rows) /\ \A S \in SUBSET t.rows : IsFiniteSet(S) /\ Cardinality(S) \in Nat
  BY FiniteCategories, FS_Subset, FS_CardinalityType DEF Sound
<1>7. Cardinality(more) = Cardinality(done) + 1 /\ more \in SUBSET t.rows
  BY <1>1, <1>3, <1>5, <1>6, FS_AddElement
<1>8. \A d : Children(t, d) \in SUBSET t.rows
  BY DEF Children
<1>9. \A d \in t.rows : c \in Children(t, d) <=> d = p
  BY <1>3 DEF Children
\* Of the other categories nothing changes.
<1>10. ASSUME NEW d \in t.rows \ {p}
       PROVE  /\ v.left[d] = w.left[d] /\ v.totals[d] = w.totals[d]
              /\ Children(t, d) \ more = Children(t, d) \ done
              /\ Gathered(t, d, more) = Gathered(t, d, done)
              /\ Children(t, d) \subseteq more <=> Children(t, d) \subseteq done
  <2>1. v.left[d] = w.left[d] /\ v.totals[d] = w.totals[d]
    <3> HIDE DEF c, p, q, v
    <3>1. CASE p \in t.rows
      BY <1>2, <1>3, <3>1
    <3>2. CASE p \notin t.rows
      BY <1>3, <3>2
    <3> QED
      BY <3>1, <3>2
  <2>2. c \notin Children(t, d)
    BY <1>9
  <2>3. Children(t, d) \cap more = Children(t, d) \cap done
    BY <2>2
  <2>4. Gathered(t, d, more) = Gathered(t, d, done)
    BY <2>3 DEF Gathered
  <2> QED
    BY <2>1, <2>2, <2>4
\* The parent has one child fewer to wait for, and that child's products.
<1>11. ASSUME p \in t.rows
       PROVE  /\ v.left[p] = Cardinality(Children(t, p) \ more)
              /\ Children(t, p) \subseteq more <=> w.left[p] = 1
              /\ v.totals[p] = Amount(Gathered(t, p, more))
              /\ p \notin more \cup ToSet(q)
  <2>1. c \in Children(t, p) /\ ~(Children(t, p) \subseteq done)
    BY <1>5, <1>9, <1>11
  <2> DEFINE K == Children(t, p) \ done
  <2>2. /\ IsFiniteSet(K) /\ c \in K /\ Cardinality(K) \in Nat /\ w.left[p] = Cardinality(K)
        /\ Children(t, p) \ more = K \ {c}
    <3>1. K \in SUBSET t.rows
      BY <1>8
    <3>2. w.left[p] = Cardinality(K)
      BY <1>1, <1>11
    <3> QED
      BY <1>5, <1>6, <2>1, <3>1, <3>2
  <2> HIDE DEF K
  <2>3. Cardinality(K \ {c}) = Cardinality(K) - 1
    BY <2>2, FS_RemoveElement
  <2>4. v.left[p] = w.left[p] - 1 /\ v.totals[p] = w.totals[p] + w.totals[c]
    <3> HIDE DEF c, p, q, v
    <3> QED
      BY <1>2, <1>3, <1>11
  <2>5. v.left[p] = Cardinality(Children(t, p) \ more)
    BY <2>2, <2>3, <2>4
  <2>6. Children(t, p) \subseteq more <=> w.left[p] = 1
    <3>1. Children(t, p) \subseteq more <=> K = {c}
      BY <2>2
    <3>2. K = {c} => Cardinality(K) = 1
      BY FS_Singleton
    <3>3. Cardinality(K) = 1 => K = {c}
      BY <2>2, FS_Singleton
    <3> QED
      BY <2>2, <3>1, <3>2, <3>3
  <2>7. v.totals[p] = Amount(Gathered(t, p, more))
    <3>1. w.totals[p] = Amount(Gathered(t, p, done))
      BY <1>1, <1>11
    <3>2. w.totals[c] = Amount(Below(t, c))
      <4>1. Children(t, c) \cap done = Children(t, c)
        BY <1>5
      <4>2. Gathered(t, c, done) = Below(t, c)
        BY <1>3, <4>1, BelowSplits DEF Gathered
      <4> QED
        BY <1>1, <1>3, <4>2
    <3>3. Gathered(t, p, more) = Gathered(t, p, done) \cup Below(t, c)
      <4>1. Children(t, p) \cap more = (Children(t, p) \cap done) \cup {c}
        BY <2>1
      <4> QED
        BY <4>1 DEF Gathered
    <3>4. Gathered(t, p, done) \cap Below(t, c) = {}
      <4>1. p \notin Below(t, c)
        BY <1>11, <2>1, ChildrenApart
      <4>2. \A x \in Children(t, p) \cap done : Below(t, x) \cap Below(t, c) = {}
        <5>1. \A x \in Children(t, p) \cap done : x \in Children(t, p) \ {c}
          BY <1>5
        <5>2. \A x \in Children(t, p) \ {c} : Below(t, c) \cap Below(t, x) = {}
          BY <1>11, <2>1, ChildrenApart
        <5> QED
          BY <5>1, <5>2
      <4> QED
        BY <4>1, <4>2 DEF Gathered
    <3>5. Amount(Gathered(t, p, done) \cup Below(t, c)) =
            Amount(Gathered(t, p, done)) + Amount(Below(t, c))
      BY <3>4, AmountsAdd
    <3> QED
      BY <2>4, <3>1, <3>2, <3>3, <3>5
  <2>8. p \notin more \cup ToSet(q)
    <3>1. p \notin done \cup ToSet(w.pending)
      BY <1>1, <1>11, <2>1
    <3> QED
      BY <1>4, <3>1
  <2> QED
    BY <2>5, <2>6, <2>7, <2>8
<1>12. /\ IsInjective(v.pending)
       /\ ToSet(v.pending) = ToSet(q) \cup (IF p \in t.rows /\ w.left[p] = 1 THEN {p} ELSE {})
  <2> HIDE DEF c, p, q, v, more
  <2>1. CASE p \in t.rows /\ w.left[p] = 1
    <3>1. v.pending = Append(q, p) /\ p \notin ToSet(q)
      BY <1>3, <1>11, <2>1
    <3>2. IsInjective(Append(q, p)) /\ ToSet(Append(q, p)) = ToSet(q) \cup {p}
      BY <1>4, <2>1, <3>1, ListAppend
    <3> QED
      BY <2>1, <3>1, <3>2
  <2>2. CASE ~(p \in t.rows /\ w.left[p] = 1)
    <3>1. v.pending = q
      BY <1>3, <2>2
    <3> QED
      BY <1>4, <2>2, <3>1
  <2> QED
    BY <2>1, <2>2
<1> HIDE DEF c, p, q, v
<1>13. ToSet(v.pending) \cap more = {}
  BY <1>1, <1>4, <1>11, <1>12
<1>14. ASSUME NEW d \in t.rows
       PROVE  /\ v.left[d] = Cardinality(Children(t, d) \ more)
              /\ d \in more \cup ToSet(v.pending) <=> Children(t, d) \subseteq more
              /\ v.totals[d] = Amount(Gathered(t, d, more))
  <2>1. CASE d = p
    <3>1. /\ v.left[d] = Cardinality(Children(t, d) \ more)
          /\ v.totals[d] = Amount(Gathered(t, d, more))
      BY <1>11, <2>1
    <3>2. d \in more \cup ToSet(v.pending) <=> Children(t, d) \subseteq more
      BY <1>11, <1>12, <2>1
    <3> QED
      BY <3>1, <3>2
  <2>2. CASE d # p
    <3>1. /\ v.left[d] = w.left[d] /\ v.totals[d] = w.totals[d]
          /\ Children(t, d) \ more = Children(t, d) \ done
          /\ Gathered(t, d, more) = Gathered(t, d, done)
          /\ Children(t, d) \subseteq more <=> Children(t, d) \subseteq done
      BY <1>10, <2>2
    <3>2. d \in more \cup ToSet(v.pending) <=> d \in done \cup ToSet(w.pending)
      BY <1>4, <1>12, <2>2
    <3>3. /\ w.left[d] = Cardinality(Children(t, d) \ done)
          /\ d \in done \cup ToSet(w.pending) <=> Children(t, d) \subseteq done
          /\ w.totals[d] = Amount(Gathered(t, d, done))
      BY <1>1
    <3> QED
      BY <3>1, <3>2, <3>3, Zenon
  <2> QED
    BY <2>1, <2>2
<1>15. v.processed = Cardinality(more)
  BY <1>1, <1>3, <1>7
<1> HIDE DEF more
<1>16. AddingUp(t, v, more)
  BY <1>3, <1>7, <1>12, <1>13, <1>14, <1>15, Zenon DEF AddingUp
<1> QED
  BY <1>3, <1>5, <1>16 DEF c, v, more

\* A tally that has nothing pending has taken up every category: of the others, the
\* one with the fewest below it has a child that is one of them.
LEMMA NothingLeft ==
  ASSUME NEW t, Sound(t), NEW done \in SUBSET t.rows,
         \A c \in t.rows : c \in done <=> Children(t, c) \subseteq done
  PROVE  done = t.rows
<1> DEFINE X == t.rows \ done
           size(c) == Cardinality(Below(t, c))
           sizes == {size(c) : c \in X}
<1> SUFFICES ASSUME X # {} PROVE FALSE
  OBVIOUS
<1>1. \A c \in t.rows : /\ Below(t, c) \in SUBSET t.rows /\ c \in Below(t, c)
                        /\ IsFiniteSet(Below(t, c)) /\ size(c) \in Nat
  BY BelowIs, FiniteCategories, FS_Subset, FS_CardinalityType DEF Sound
<1>2. sizes \in SUBSET Nat /\ sizes # {}
  BY <1>1
<1>3. PICK c \in X : \A d \in X : size(c) <= size(d)
  <2>1. PICK n \in sizes : \A m \in sizes : n <= m
    <3> HIDE DEF sizes
    <3> QED
      BY <1>2, LeastNatural
  <2> QED
    BY <2>1
<1>4. PICK k \in Children(t, c) : k \in X
  BY DEF Children
<1>5. k \in t.rows /\ Below(t, k) \subseteq Below(t, c)
  BY <1>4, BelowSplits
<1>6. c \notin Below(t, k)
  BY <1>3, <1>4, ChildrenApart
<1>7. size(k) <= size(c) /\ size(k) # size(c)
  BY <1>1, <1>3, <1>5, <1>6, FS_Subset
<1> HIDE DEF size, X
<1> QED
  BY <1>1, <1>3, <1>4, <1>5, <1>7 DEF X

\* The recursive function of Aggregated satisfies its equation.
LEMMA TallyDefined ==
  ASSUME NEW t, Sound(t)
  PROVE  LET sum == CHOOSE sum : sum = [w \in Tally(t) |->
                      IF w.pending = <<>> THEN w ELSE sum[PassOn(t, w)]]
         IN  /\ sum = [w \in Tally(t) |-> IF w.pending = <<>> THEN w ELSE sum[PassOn(t, w)]]
             /\ Aggregated(t) =
                  sum[[pending   |-> SetToSeq({c \in t.rows : Children(t, c) = {}}),
                       left      |-> [c \in t.rows |-> Cardinality(Children(t, c))],
                       totals    |-> [c \in t.rows |-> Count(c)],
                       processed |-> 0]]
<1> DEFINE D == Tally(t)
           stop == {w \in D : w.pending = <<>>}
           step == [w \in D \ stop |-> PassOn(t, w)]
           sum == CHOOSE sum : sum = [w \in Tally(t) |->
                      IF w.pending = <<>> THEN w ELSE sum[PassOn(t, w)]]
<1>1. step \in [D \ stop -> D]
  <2>1. \A w \in D \ stop : PassOn(t, w) \in D
    BY PassOnDoes
  <2> QED
    BY <2>1
<1>2. PICK f : Runs(f, D, stop, step)
  <2> HIDE DEF D, stop, step
  <2>1. stop \in SUBSET D
    BY DEF stop
  <2> QED
    BY <1>1, <2>1, LoopDefined
<1>3. f = [w \in D |-> IF w.pending = <<>> THEN w ELSE f[PassOn(t, w)]]
  BY <1>2 DEF Runs
<1>4. sum = [w \in Tally(t) |-> IF w.pending = <<>> THEN w ELSE sum[PassOn(t, w)]]
  BY <1>3, Zenon
<1> QED
  BY <1>4, Zenon DEF Aggregated

\* The numbers passed upwards are, in the end, those of everything below.
THEOREM NumbersAddUp ==
  ASSUME NEW t, Sound(t), IsFiniteSet(OnSale)
  PROVE  LET sums == Aggregated(t)
         IN  /\ sums.processed = Cardinality(t.rows)
             /\ sums.totals \in [t.rows -> Nat]
             /\ \A c \in t.rows : sums.totals[c] = Cardinality(Listing(Descendants(t, c).ids))
<1> DEFINE D == Tally(t)
           stop == {w \in D : w.pending = <<>>}
           step == [w \in D |-> PassOn(t, w)]
           sum == CHOOSE sum : sum = [w \in Tally(t) |->
                      IF w.pending = <<>> THEN w ELSE sum[PassOn(t, w)]]
           first == [pending   |-> SetToSeq({c \in t.rows : Children(t, c) = {}}),
                     left      |-> [c \in t.rows |-> Cardinality(Children(t, c))],
                     totals    |-> [c \in t.rows |-> Count(c)],
                     processed |-> 0]
           Inv == {w \in D : \E done \in SUBSET t.rows : AddingUp(t, w, done)}
           m == [w \in Inv |-> Cardinality(t.rows) - w.processed]
<1>1. Runs(sum, D, stop, step)
  <2>1. sum = [w \in Tally(t) |-> IF w.pending = <<>> THEN w ELSE sum[PassOn(t, w)]]
    BY TallyDefined
  <2>2. \A w \in D : sum[w] = IF w \in stop THEN w ELSE sum[step[w]]
    <3> HIDE DEF sum
    <3> QED
      BY <2>1
  <2>3. sum = [w \in D |-> sum[w]]
    <3> DEFINE e(w) == IF w.pending = <<>> THEN w ELSE sum[PassOn(t, w)]
    <3>1. sum = [w \in D |-> e(w)]
      BY <2>1, Zenon
    <3> HIDE DEF e, D, sum
    <3> QED
      BY <3>1
  <2> HIDE DEF D, stop, step, sum
  <2> QED
    BY <2>2, <2>3, Zenon DEF Runs
<1>2. Aggregated(t) = sum[first]
  BY TallyDefined
<1>3. IsFiniteSet(t.rows) /\ Cardinality(t.rows) \in Nat
  BY FiniteCategories, FS_CardinalityType DEF Sound
<1>4. \A done \in SUBSET t.rows : /\ IsFiniteSet(done)
                                  /\ Cardinality(done) \in Nat
                                  /\ Cardinality(done) <= Cardinality(t.rows)
  BY <1>3, FS_Subset, FS_CardinalityType
<1>5. \A w \in Inv : w.processed \in Nat /\ w.processed <= Cardinality(t.rows)
  BY <1>4 DEF AddingUp
<1>6. \A w \in Inv : Cardinality(t.rows) - w.processed \in Nat
  BY <1>3, <1>5
<1>7. m \in [Inv -> Nat]
  BY <1>6
<1>8. ASSUME NEW w \in Inv \ stop
      PROVE  step[w] \in Inv /\ m[step[w]] < m[w]
  <2>1. PICK done \in SUBSET t.rows : AddingUp(t, w, done)
    OBVIOUS
  <2> DEFINE c == Last(w.pending)
             v == PassOn(t, w)
  <2>2. w.pending # <<>> /\ w \in Tally(t)
    OBVIOUS
  <2>3. c \in t.rows \ done /\ AddingUp(t, v, done \cup {c})
    BY <2>1, <2>2, AddingGoesOn
  <2>4. v \in D /\ v.processed = w.processed + 1
    BY <2>2, PassOnDoes
  <2>5. v \in Inv /\ step[w] = v
    BY <2>3, <2>4
  <2>6. m[w] = Cardinality(t.rows) - w.processed /\ m[v] = Cardinality(t.rows) - v.processed
    BY <2>5
  <2> HIDE DEF v, m
  <2>7. m[v] < m[w]
    BY <1>3, <1>5, <2>4, <2>6
  <2> QED
    BY <2>5, <2>7
<1>9. first \in Inv
  <2>1. AddingUp(t, first, {})
    BY AddingStarts
  <2> HIDE DEF first
  <2> QED
    BY <2>1 DEF AddingUp
<1>10. stop \in SUBSET D /\ Inv \in SUBSET D
  OBVIOUS
<1>11. sum[first] \in Inv \cap stop
  <2> HIDE DEF D, stop, step, sum, first, Inv, m
  <2> QED
    BY <1>1, <1>7, <1>8, <1>9, <1>10, LoopRule
<1> DEFINE last == sum[first]
<1>12. PICK done \in SUBSET t.rows : AddingUp(t, last, done)
  BY <1>11
<1>13. last.pending = <<>> /\ last \in Tally(t)
  BY <1>11
<1> HIDE DEF last
<1>14. /\ last.processed = Cardinality(done)
       /\ \A c \in t.rows : /\ c \in done \cup ToSet(last.pending) <=> Children(t, c) \subseteq done
                            /\ last.totals[c] = Amount(Gathered(t, c, done))
  BY <1>12, Zenon DEF AddingUp
<1>15. ToSet(last.pending) = {}
  BY <1>13 DEF ToSet
<1>16. done = t.rows
  BY <1>14, <1>15, NothingLeft
<1>17. ASSUME NEW c \in t.rows
       PROVE  last.totals[c] = Cardinality(Listing(Descendants(t, c).ids))
  <2>1. Children(t, c) \cap done = Children(t, c)
    BY <1>16 DEF Children
  <2>2. Gathered(t, c, done) = Below(t, c)
    BY <2>1, BelowSplits DEF Gathered
  <2>3. last.totals[c] = Amount(Below(t, c))
    BY <1>14, <2>2
  <2> QED
    BY <2>3 DEF Amount, Below
<1>18. last.totals \in [t.rows -> Nat]
  BY <1>13 DEF Tally
<1> QED
  BY <1>2, <1>14, <1>16, <1>17, <1>18 DEF last

-----------------------------------------------------------------------------
(* What a visitor is shown *)

\* A category that is shown has the categories above it shown, for each of them has
\* at least as many products.
LEMMA MenuComplete ==
  ASSUME NEW t, Sound(t), IsFiniteSet(OnSale),
         NEW c \in Roots(t, Visible(Aggregated(t).totals))
  PROVE  t.upper[c] = None
<1> DEFINE totals == Aggregated(t).totals
           u == t.upper[c]
<1>1. totals \in [t.rows -> Nat] /\ \A d \in t.rows : totals[d] = Amount(Below(t, d))
  BY NumbersAddUp DEF Amount, Below
<1>2. c \in Visible(totals) /\ u \notin Visible(totals)
  BY DEF Roots
<1> HIDE DEF totals, u
<1>3. c \in t.rows /\ totals[c] > 0 /\ u \in t.rows \cup {None}
  BY <1>1, <1>2 DEF Visible, Sound, u
<1> SUFFICES ASSUME u \in t.rows PROVE FALSE
  BY <1>3 DEF u
<1>4. c \in Children(t, u)
  BY <1>3 DEF Children, u
<1>5. Below(t, c) \subseteq Below(t, u)
  BY <1>4, BelowSplits
<1>6. Amount(Below(t, c)) <= Amount(Below(t, u))
  BY <1>5, AmountsAdd
<1>7. totals[u] > 0
  BY <1>1, <1>3, <1>6
<1> QED
  BY <1>1, <1>2, <1>7 DEF Visible

\* What visitors are shown is made of known products and categories.
ShopTypes ==
  /\ offered \in SUBSET Product
  /\ seen # NoRows => seen.rows \in SUBSET Category

\* It stays so.
LEMMA ShopTypesKept == ShopSpec => []ShopTypes
<1>1. ShopInit => ShopTypes
  BY DEF ShopInit, ShopTypes
<1>2. ShopTypes /\ [ShopNext]_shopVars => ShopTypes'
  <2> SUFFICES ASSUME ShopTypes, [ShopNext]_shopVars PROVE ShopTypes'
    OBVIOUS
  <2>1. CASE ReadCategories
    <3>1. seen'.rows = {c \in Category : Active(c)} /\ offered' = offered
      BY <2>1 DEF ReadCategories
    <3> QED
      BY <3>1 DEF ShopTypes
  <2>2. CASE AnswerVisitor
    BY <2>2 DEF AnswerVisitor, ShopTypes
  <2>3. CASE UNCHANGED seen /\ offered' \in SUBSET Product
    BY <2>3 DEF ShopTypes
  <2>4. CASE Manage
    BY <2>3, <2>4 DEF Manage, ShopTypes
  <2>5. ASSUME NEW p \in Product, Offer(p) \/ Withdraw(p) PROVE ShopTypes'
    BY <2>3, <2>5 DEF Offer, Withdraw, ShopTypes
  <2>6. CASE UNCHANGED shopVars
    BY <2>3, <2>6 DEF shopVars, ShopTypes
  <2> QED
    BY <2>1, <2>2, <2>4, <2>5, <2>6 DEF ShopNext
<1> QED
  BY <1>1, <1>2, PTL DEF ShopSpec

\* Whatever happens to categories and products between its two queries, a visitor's
\* answer is complete and consistent.
THEOREM AnswersComplete == ShopSpec => []AnswersAddUp
<1>1. ShopTypes /\ SnapshotSound => AnswersAddUp
  <2> SUFFICES ASSUME ShopTypes, SnapshotSound, seen # NoRows PROVE AnswersAddUp
    BY DEF AnswersAddUp
  <2>1. Sound(seen)
    BY DEF ShopTypes, SnapshotSound, Sound
  <2>2. IsFiniteSet(OnSale)
    <3>1. OnSale \in SUBSET Product
      BY DEF ShopTypes, OnSale
    <3> QED
      BY <3>1, ProductAssumption, FS_Subset
  <2> DEFINE sums == Aggregated(seen)
  <2>3. /\ sums.processed = Cardinality(seen.rows)
        /\ \A c \in seen.rows : sums.totals[c] = Cardinality(Listing(Descendants(seen, c).ids))
    BY <2>1, <2>2, NumbersAddUp
  <2>4. \A c \in seen.rows : /\ Descendants(seen, c).valid
                             /\ Beneath(seen, c, Descendants(seen, c).ids)
    BY <2>1, ListsBelow
  <2>5. \A c \in Roots(seen, Visible(sums.totals)) : seen.upper[c] = None
    BY <2>1, <2>2, MenuComplete
  <2> HIDE DEF sums
  <2> QED
    BY <2>3, <2>4, <2>5 DEF AnswersAddUp, sums
<1> QED
  BY <1>1, ShopTypesKept, SnapshotKept, PTL

\* Visitors do not disturb the numbering.
THEOREM ShopRenumbered == ShopSpec => Renumbered
BY ShopImplementsTree, SiblingsRenumbered, PTL
================================================================================
