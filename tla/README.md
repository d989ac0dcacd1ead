# Verification of the commerce backend

TLA+ models of the parts of this repository whose correctness depends on concurrency and
failure, the TLC configurations that check them, and proofs checked by the TLA+ proof system
(TLAPS).  The models are translated from `src/`; every definition that stands for code is listed
with its lines under `map` in `PROJECT.json`, and every hazard the models are aimed at, with its
line, under `hazards`.

## The system

An Express API (`apps/api`) over one PostgreSQL database (through Prisma) and two object-storage
buckets; a public storefront served from the API through a cache; an administration client in the
browser; a contact worker on a queue.  Several API servers may run: nothing but the
database (and the buckets) is shared between them.  Unless a repository function opens
`$transaction`, each Prisma call is a transaction of its own.  Transactions run at READ COMMITTED.

| Component | State | Operations | Hard behaviour | What makes it correct |
| --- | --- | --- | --- | --- |
| Orders (`modules/management/order`) | `Order`, `OrderItem`, stock of `ProductSku`, `updatedAt` of `Product` | create (idempotency key), edit, change status, preview | reads before the transaction, row locks taken in the order of the request's lines, deadlocks, unique indexes, failing connections, staff editing the same SKU rows | units are never lost or returned twice; no update is lost; one order for one key; the status life cycle |
| Categories (`modules/management/category`) | `ProductCategory` (parent, position, `deletedAt`), `Product.categoryId` | create, move, renumber, reorder, delete with dispositions for children and products | unlocked checks before an advisory lock; products filed and archived without it | a forest; sibling numbers; no product in a deleted category |
| Storefront (`modules/storefront`) | none of its own | list products of a category, list categories with numbers of products | an answer made of two queries, with the hierarchy changing in between | what is read is a forest; numbers and lists agree; nothing is counted twice |
| Storefront cache (`cache/ttl-cache.ts`) | entries and pending loads in memory | `getOrLoad` | coalesced loads, expiry, eviction and saturation at their limits, slow or failing loads | bounded; reads never go back; writes become visible in time |
| Images (`modules/management/image`, `utils/object-storage.ts`) | `ProductImage`, `ProductImageUpload`, `Product.thumbnailImageId`, private and public objects | sign an upload, register, delete, restore, crop, prune | no transaction spans database and bucket; opposite lock orders; crashes; lost answers; duplicate registrations | rows and objects agree; one thumbnail on display; leftovers disappear |
| Sessions (`modules/auth`, `modules/management/staff`) | `AuthSession`, `RefreshToken`, status of `Staff` | log in, call, refresh, log out, end the others, change the password, suspend, archive, set a password, reset factors, prune | rotation against revocation, replay and suspension; revocation in two statements; a process that stops half-way | one usable token per session; what ends sessions ends all of them; the ended stay out |
| Credentials (`modules/auth`) | failed attempts and block of `Staff`, `TotpCredential`, `PasskeyCredential` | password, code, assertion, enrol, remove, reset | verified outside the database, written later; two removals that count each other | guesses within a window are all counted; a block ends early only by an answer already under way; a proof is used once; a factor remains |
| Admin client (`apps/admin/src/lib/api/client.ts`) | cookies, Web Lock or lease in `localStorage` or neither, one shared promise per tab | request, refresh the session | several tabs refresh at once; a lock whose holder goes away; lost answers | tabs do not log each other out; every call settles |
| Contact (`apps/contact-worker`, the forms of `apps/catalog` and `apps/landing`) | forms, verification tokens, queue messages | submit, verify, accept, deliver, retry | tokens good for one use; calls that fail after they took effect; redelivery in batches | a resubmission has a fresh token; what is accepted is kept; one mail unless in doubt |
| Products, SKUs (`modules/management/product`, `sku`) | `Product`, `ProductSku` | as they touch orders, categories, images and the storefront | see there | see there |
| Businesses, logs, dashboard, HTTP, CLI, sites, shared packages, tools | | | | not modelled: see the end |

## Modules

| Module | Purpose |
| --- | --- |
| `StockLedger` | abstract specification: units of a SKU are in stock or held by one order |
| `Orders` | the order code; `Ledger == INSTANCE StockLedger` under a refinement mapping |
| `CategoryTree` | the category code |
| `Storefront` | visitors on top of `CategoryTree`: the two queries and the walks over the hierarchy |
| `TtlCache` | the cache |
| `ImageAssets` | the image code, the buckets and the pruner |
| `SessionChain` | abstract specification: a session hands over from token to token until it is closed |
| `Sessions` | the session tables and the handlers on them; `Chain == INSTANCE SessionChain` under a refinement mapping |
| `Credentials` | the password, codes, passkeys, and what removes them |
| `AdminClient` | the tabs of a browser; the server they talk to is an instance of `SessionChain` |
| `ContactDelivery` | forms, worker, queue, mailbox |
| `OrdersProofs`, `CategoryTreeProofs` (with `Storefront`), `TtlCacheProofs`, `ImageAssetsProofs`, `SessionsProofs`, `CredentialsProofs`, `AdminClientProofs`, `ContactProofs` | theorems and proofs |
| `MC*` | instances for TLC: the inputs requests carry, chosen so that they collide |

How they fit together.  `Sessions` implements `SessionChain`, and `AdminClient` is checked against
`SessionChain`: the two sides of the cookie meet in one specification.  `Storefront` extends `CategoryTree` with
visitors and is shown to implement it.  Behind `TtlCache` the database is the number of its last write.
`Orders`, `CategoryTree` and `ImageAssets` touch each other in the database through few columns.
Instead of one product of all state spaces, each module contains the operations of the others
that write its own columns: `SetStock`, `SoftDeleteSku`, `RestoreSku`, `ForceDeleteSku` and
`ToggleProduct` in `Orders`, `FileProduct`, `Archive` and `Restore` in `CategoryTree`, the end of sessions by
staff operations in `Sessions` and the reset of factors in `Credentials`.

Definitions named `Wrong...` are not part of any model.  Each is a plausible mistake in the
definition that follows it; `mutants` in `PROJECT.json` pairs it with the property that fails when
it takes that definition's place.

### How a request becomes a process

A request is a process with a program counter `pc[r]`, its input `in[r]` (chosen once, from a small
set), and what it remembers between statements (`seen`, `next`, `plan`, `todo`, `about`).  A step
is what happens between two awaits that others can observe: one SQL statement, one call to a
bucket, or, in the cache, one run of the event loop.

PostgreSQL is modelled by what the code relies on.  A written row (or unique index entry) is locked
until the transaction ends; `WHERE` clauses are evaluated on the last committed version; writes
become visible at commit, which is why they are part of the step that commits.  Two
transactions that wait for each other stay so until the deadlock detector aborts one.
A unique index or a foreign key is a condition of the step that writes.

### Orders

`Arrive` to `CheckStock` are the reads before the writes (`order.service.ts`, `order.update.ts`),
each on committed rows; `ChangeStock` and `TouchProduct` are the loop over SKUs in
`order.repository.ts`, in the order of the lines for a create and of SKU codes for an update;
`InsertOrder`, `UpdateOrder` and `ClaimInvoice` lock the order, its key and its invoice number;
`Commit` writes everything.  An order line is a quantity per SKU; money, contacts and businesses only
refuse a request, which `RefuseInput` does where the code does.

### Categories

`CheckCreate`, `CheckUpdate`, `CheckReorder` and `CheckDelete` are the service's reads before the
transaction; `Acquire` is `pg_advisory_xact_lock`; `Prepare` what the transaction reads under it and
`Write` what it commits.  A tree is given by `parent`, so a cycle is a fact about a function, stated
in `Acyclic` without recursion: no non-empty set of categories is closed under going up.  The walk to the
root that looks for a cycle before the transaction (several unlocked reads in the code) is one read here;
the invariant does not depend on what it returns, since the walk is repeated under the lock.  Slugs are left out, and so are updates
that change neither parent nor position: they take no lock and write no modelled column.

### Images

`FindUpload` and `FindImage` are the services' checks.  A registration goes through `Promote`
(copy into the public bucket under a new key, named after the request), `LockProduct`,
`ConsumeUpload`, `LockOldThumbnail`, `CommitImage`, then `Cleanup`, or `Discard` when it lost or
failed.  Deletions, restorations and crops go through `ReadThumbnail` or `DeleteAsset`, `LockImage` and `CommitChange`;
the pruner lists and then removes one thing after another, and any error ends its run.  `Fail`,
`Crash` and a lost answer to a commit cost one of `MaxFaults` each.  The lock on the upload's row
is not modelled: whoever could meet on it (two registrations, or one and the pruner) also meets on
the product, or finds the row gone when it gets to it.  The product itself is not deleted.
Positions of images are left out.

### Cache

A lookup (`Hit`, `Coalesce`, `Saturated`, `Miss`) is one step, as the code between two awaits cannot be
interrupted; so is what the owner of a load does when it ends (`Store` with the eviction, `Throw`).
A load reads the number of the last write at some moment while it runs.  Places in the JavaScript `Map`'s
order are numbers of last use.  `versionAt`, `floor`, `began` and `took` are history.

### Storefront

`ReadCategories` is the first query of a request and `AnswerVisitor` the second with the answer made of
both; between them any step of `CategoryTree` may happen, and products go on and off sale (`Offer`, `Withdraw`,
`Manage`).  The numbers and lists of an answer depend on what has been read and on the present rows only, so
`AnswersAddUp` states what the answer would be at each moment.  `Descendants` and `Aggregated` are the service's two worklists, as
recursive functions on the states of their loops (`Walk`, `Tally`), with the bodies of the loops as `TakeUp` and `PassOn`; `Roots` is the menu of `buildCategoryTree`.

### Sessions

`Arrive` starts a handler on a cookie or an account that exists; each statement after that is a step.
Statements the code does not put into a transaction commit one by one (`RevokeSession` and `RevokeTokens`; `FindToken`,
`ReadSession`, as Prisma loads a relation with a second query).  Transactions (`replaceRefreshToken`: `Claim`, `Rotate`; the staff
operations: `CloseStaff` to `CommitClose`) hold locks that follow from where the request stands (`TokenLocked`,
`SessionLocked`, `StaffLocked`), and a suspension and a rotation that wait for each other are
told apart by `BreakDeadlock`.  `Lapse` is the clock, `Prune` the retention job, `Stop` a server that goes away.
`known` and `late` are history: the sessions a request has to end, and whether it arrived after its session had ended.

### Credentials

The service verifies a password, a code or an assertion outside the database; what the database then compares
decides.  `RecordFailure` and `ClearFailures`, `Consume` and `Claim` are these conditional updates.  `LockStaff`, `Count`, `Remove`
are the removal under `SELECT ... FOR UPDATE`; `ResetTotp` and `ResetPasskeys` the administrator's; enrolment
inserts under the partial unique index (`OnlyActive`) and waits for a removal only because of its foreign key (`KeyLocked`).  A code is its time step.
`history` remembers the wrong answers since the last right one (how many, the earliest, the latest), and whose wrong answers were under way when the
block began; the code keeps neither.

### Admin client

A tab's refresh goes through `AcquireLock` (or `SeeLease`, `WriteLease`, `VerifyLease`: one access to storage each),
`ReadState`, `Rotate`, `Answer`, `Release`; calls go through `Begin`, `Send`, `Reject` and `Resend`.  `Rotate` is the server's
side: an instance of `SessionChain`.  A browser without Web Locks whose `localStorage` is missing or throws waits for nothing (`Unserialized`).
Faults: the state cannot be read (`UnreadState`: the tab rotates although it need not), an answer is lost, a tab is closed, somebody ends the session.

### Contact

`Submit` to `GiveUp` are the form, `Read`, `Verify`, `Enqueue` the worker, `Consume` to `FailBatch` the queue and its
consumer.  A form's token is the number of the last one its widget was given.  `Intrude` puts a message on the queue
that is not of the worker's making.  Each call of another service may succeed, refuse, fail, or fail
after it took effect, where the caller tells these apart.

## Runs

| Run | Instance | Question |
| --- | --- | --- |
| `orders_create` | 3 creates, 2 SKUs of 2 products, 2 keys, 1 invoice number | duplicates, conflicting keys, deadlocks: does the ledger hold, does a key name one order, is every request answered? |
| `orders_update` | 2 requests creating or changing orders, all catalog operations, failing connections | are updates computed from what they replace, is the life cycle followed, is nothing lost? |
| `orders_duplicate` | 2 copies of one create, the last unit | **violated**: the second copy is told that stock is insufficient although its order exists |
| `categories` | 2 requests out of 17, 3 categories, 1 product, 1 visitor | forest, numbering, what visitors are shown, answers |
| `category_products` | a deletion and a filing | **violated**: a product ends up in a deleted category |
| `images` | 2 requests out of 7, 1 pruner, 1 fault | rows and objects agree; requests are answered; leftovers disappear |
| `image_crop` | a registration, a crop, a deletion | **violated**: a gallery image keeps a crop |
| `cache` | 3 calls for up to 3 keys, 1 entry, 2 loads, a clock to 3, 1 write | limits, monotonic reads, staleness, answers, places given back |
| `sessions` | 2 requests out of 13 kinds, 1 account, 2 sessions, 3 tokens | does each session hand over or end, and does what ends sessions end all? |
| `credentials` | 2 requests, 2 authenticator rows, 2 passkeys, 4 mixes of kinds, a clock to 2 | does the limit hold for overlapping guesses, what lifts a block, single use, last factor |
| `client` | 3 calls in 2 tabs, 4 tokens, Web Locks, the lease or neither, 4 faults | does the session survive, does every call settle? |
| `contact` | 1 form, 2 submissions, 2 tokens, 1 foreign message, 1 retry, batches of 2 | fresh tokens, nothing lost, one mail, an end |

Every pass run checks its module's invariants, and in five of them the inductive invariant of the proofs
(`IInv`) besides.  The three violated runs state what the repository says of itself (a test's name, two of the
service's own error messages, quoted under `findings`) and show a run of the code's steps that breaks it.

Why the bounds are enough to be interesting: every conflict in these components is between two
transactions over one or two shared rows, so two requests show each pairwise race, and slots that are used again
show what follows it; three show a race with a third party in between.  Two SKUs of
two products are the least that deadlock, and two lock orders the most two rows have.  Three categories make a
chain and a fan.  For images one upload is registered twice, one image is old and one new, and one fault is enough
for each interrupted sequence; deadlocks cost no fault.  In the cache one entry and two loads put both limits within
reach of three calls; the assignments of keys to calls are taken up to renaming.  Three tokens are a login and two
rotations, or two sessions and a rotation.  Two wrong answers reach the limit, and two ticks are a block and its end.
Two pages of one tab share a refresh, the second tab competes for it.
Two submissions of one form are a failure and its repetition, and a batch of two lets one message's failure touch another.
What these instances leave open (three requests, other policies, more tabs), the theorems below close for safety.

Cut-offs: `MaxFaults`, `MaxTime`, `MaxVersion`, `MaxToken`, and the sets of rows and tokens that are used up
(`Token`, `Session`, `Row`, `Request`); requests begin only while what they may store is
left (`Unused`, `Unopened`, `Spare`, which also bounds `UnreadState`), so that no run ends for want of a row.  `Claim` of `Credentials` also bounds the number of uses within one tick.
Versions, quantities and answers are bounded by the inputs.  `CHECK_DEADLOCK FALSE`
appears where all requests may be done; `images` has a pruner that never stops and is checked for deadlock.

### Fairness

`FairSpec` gives weak fairness to what a request does once it has begun, never to its arrival, to
failures, to the clock, to writes, to visitors or to what staff do to products.  The code justifies it: a handler goes on after each await, PostgreSQL grants
a lock in turn, aborts a victim of each deadlock after `deadlock_timeout`, and releases everything a
broken connection held; the pruner is an hourly timer that goes on after errors; a load ends because
a query does.  In the browser a Web Lock is granted in turn and freed with its tab, and a lease runs out because time passes; the form's
request has a time limit, and the queue delivers what it holds.  That a lock is granted in turn is the one place where weak fairness of each request is
more than PostgreSQL's queue of waiters provides for a request that is overtaken for ever;
since requests are finitely many here, nobody is.  `Sessions` and `Credentials` have no liveness property:
their only waits are row locks, which end by the same argument, and `BreakDeadlock` is the only cycle among them.

## Proofs

All proofs hold for every set of requests, SKUs, orders, categories, images, uploads, keys, calls, sessions, tokens, tabs, forms and messages, and
every bound; the assumptions are the named `ASSUME`s of the modules: names are distinct,
inputs and initial rows are well formed, and a few sets are finite.  TLC evaluates them in every run.

* **Orders.** `Invariance` proves `IInv`.  The safety properties are not inductive: that a commit moves the right number of
  units depends on the row an unlocked read returned many steps earlier.  `IInv` says, for each place in the
  program, what the request's snapshot has to do with the committed row (`SnapshotSound`: the same version means the
  same row and, but for SKUs deleted for good, the same items), which locks it holds (`LocksSound`, `LoopSound`), and what it owns of the unique
  indexes (`CreateSound`, `InvoiceSound`).  From it follow the refinement `LedgerImplemented`
  (`Orders` implements `StockLedger`), `UpdatesComputedFromCurrent`, `LifeCycle`, `ConstraintsAlwaysHold`,
  `KeysIdentifyOrders` and `NoUpdateLost`; the last two with a second invariant, `Outcomes`, about the answers given.
* **Categories and storefront.** `IInv` adds to the types that what the holder of the advisory lock has planned still fits the tree (`PlanFits`).
  `ForestKept` follows, from lemmas that moving a category outside its own subtree,
  creating one, and promoting the children of a deleted one keep the tree free of cycles.  `SiblingsRenumbered` follows too: ranks in the order of
  the query are distinct and without gaps (`RanksDense`: an injection between finite sets of one size is onto), so the promoted children and
  the siblings fit into each other (`SplicedDense`, `SplicedOrders`); of a reorder `PlanFits` knows that the list sent has exactly the active
  siblings, and `OrderAssumption` that its indexes have no gap.  `ShopImplementsTree` shows that
  every step of `Storefront` is one of `CategoryTree` or leaves it alone; so `ShopForest` holds while visitors read, and by `SnapshotKept`
  what they hold stays a forest that is closed upwards although the tree has moved on.
  On every such forest the two worklists do what they should.  Each is a recursive function on the states of its loop; the library's induction
  theorems cannot be used, so `LoopDefined` shows that such a function exists and `LoopRule` that an invariant which each step keeps, while a natural number
  decreases, holds where the loop stops (from the least element of a set of naturals).  `ListsBelow` is the rule
  with: what is pending has not been met, and what has been met is the root or lies below what has (`Walking`); that no category is met twice
  is where acyclicity is needed.  `NumbersAddUp` is the rule with: a total is the number of products below the children taken up so
  far (`AddingUp`); the children's subtrees are disjoint (`ChildrenApart`), and no category is left over, as the one with the fewest
  below it would have a child left over (`NothingLeft`).  `AnswersComplete` puts them together.
* **Images.** `IInv` has the four safety properties as conjuncts and adds who can be where (`Roles`), which locks
  and objects a process relies on (`Held`, `Emptied`, `Registering`), that whoever is past the check
  of an upload is alone (`Claimed`), and that an image not seen as the thumbnail does not become it (`Unseen`).
  `Frame(p)` says what a step of `p` may do to the others; one lemma shows that this keeps their part of the invariant, so
  each action is only shown to keep its own.  `UploadsYieldOneImage`, `AssetsKept`, `NothingLeftBehind` and `ThumbnailOnDisplay` follow.
* **Cache.** `IInv` relates each entry and each load to the history: no value answered for a key is newer than what
  the key's entry or a running load can still give to a later call.  `ReadsNeverGoBack` and `WritesAreSeen` follow.  `LimitsKept` needs that an
  eviction finds a least recently used entry: a non-empty set of naturals has a least element (`LeastNatural`).
* **Sessions.** `IInv` says of each request what it knows of the rows while others change them: whom it acts for, that it goes no further
  when it came too late, that the token it claimed is usable, what it still has to revoke, that it has locked all that is open (`Fits`).
  Each of these is kept by any change of the rows that only opens, ends and rotates (`Kept`); what remains
  for each step is its own request (`Step`).  From `IInv` follow `TokensUnique`, the refinement `ChainImplemented`, `NoneServedAfter`,
  `EndingIsComplete` and `ReplayEnds`.
* **Credentials.** `IInv` has one conjunct per argument: a block runs from the last wrong answer counted (`BlockKept`), wrong answers that lie within
  one window have all been counted in one (`GuessesKept`), while a block lasts the only wrong answers under way are those that were when it began (`RacingKept`), accepted codes and
  claimed states of passkeys lie in the past of the rows they are compared with (`CodesSpent`, `ClaimsPast`), and one transaction at a time has
  the row of the account (`OneHolder`), so what a removal counted is still there (`StillThere`).  `GuessesBlocked`, `ProofsUsedOnce` and `FactorsRemain`
  follow, from lemmas that whoever is told "ok" has just written.  `GuessesBlocked` has two halves.  `LimitHolds` speaks of the answers given, not of the
  count in the row: when as many wrong ones as the policy allows, or more, lie within a window, in whatever order they were recorded, a right one is refused for a
  block after the last recorded.  `BlockLasts`: a block that has begun is lifted or shortened early by nothing but a wrong answer that was under way when it began.
* **Admin client.** Past asking for the Web Lock there is one tab (`Serialized`); hence until something goes wrong the cookie is the token the
  server expects, except while an answer carries the next one (`CookieCurrent`), and whoever sends again is let in
  (`RefreshHelps`).  `SessionsSurvive` follows.  A state that cannot be read counts as nothing wrong (`Undisturbed`): under the lock it costs a rotation more.
* **Contact.** `IInv` has two halves that meet in `Enqueue`: before the queue a token belongs to one request, because a form gives it up with the
  answer (`NextTokenNew`); after it, where a message is tells how often it can have been mailed (`MessageKept`).
  `TokensFresh`, `NothingLost` and `MailsCounted` follow.

Every safety property and every action property of the passing runs is stated by a theorem.  Only model-checked are the liveness properties
(`EveryRequestAnswered` of orders, categories and images, `LeftoversPruned`, `EveryCallAnswered`, `EveryCallSettles`, `SubmissionsEnd`: fairness
and `ENABLED` are beyond the prover) and the three runs that are violated.  The safety half of two of them
is proved: whoever waits for a row waits for a transaction that is still writing (`NoLockLeftBehind`, of orders), and a caller of the cache for a
load that runs or has ended, so that a place in `pending` always belongs to a caller who will give it back (`NobodyWaitsInVain`).

## Observed, and not claimed

While modelling we met behaviour that no document or test of the repository contradicts, so no run claims anything about it.

* A block can end before its time.  A wrong password whose request passed the check of the block before the block began, but which is recorded after it,
  writes `authBlockedUntil` anew (`auth.repository.ts`, `recordFailedPasswordAttempt`): if it was read after the end of the counting window it starts a new one
  and lifts the block, and a right password is let in at once; if it was read before the answer that began the block it may shorten it.
  `BlockLasts` does not forbid this; it says that nothing else ends a block early, and the `credentials` run reaches it.
* Confirming an enrolment a second time sets `lastUsedTimeStep` back to that confirmation's step.
* A login may be checked before a suspension and stored after it; the session exists, and every use of it is refused because the account is not active
  (until it is activated again).
* Two tabs that use the lease may both hold it, if one is slow for ten seconds; the second rotation is then taken for a replay, as it may be where
  there is neither Web Lock nor `localStorage`.  In every case a
  lost answer to a refresh, or a tab closed while one is under way, ends the session.
* After the form's time limit the worker may still accept the request, and the visitor's repetition becomes a second inquiry.
* A product can be published after it has been archived: the check is not repeated under a lock.  It is not shown, as archived products never are.
* Pages of the storefront are sorted without a tie-break, so that equal rows may repeat or be missed between pages.

## Not modelled

* **Businesses and labels**: each operation is one statement or one transaction on rows nobody else writes; unique indexes
  keep names and codes apart.
* **Staff administration** but for what ends sessions and resets factors: names, e-mail addresses (a unique index), roles.
* **Products and SKUs** but for the columns that other components rely on: slugs, texts, bulk updates, the move of images when a SKU is restored.
* **Images**: positions, texts.  **Storefront**: search, sorting, pages, single products, structured data.  **Credentials**: the preferred method, names of passkeys.
* **HTTP server, configuration, health, logs, dashboard**: parsing, headers, rate limits, append-only or read-only; no state that other parts read back.
  That a process stops in the middle of a request is a fault of every model that persists something.
* **Bootstrap CLI, shared packages, sites, tools, infrastructure, deployment**: one-off commands, validation, rendering.
* Names, texts, prices: data the properties do not tell apart.  Clocks that go backwards.
